----------------------------- MODULE WalletState -----------------------------
(***************************************************************************)
(* The wallet state LightWallet (src/lib/src/wallet.rs) keeps behind its   *)
(* locks and persists: the keys (add_imported_tk,                          *)
(* add_imported_sapling_extsk, add_imported_orchard_spending_key,          *)
(* add_imported_sapling_extfvk through add_imported_key and                *)
(* update_view_key, and the encryption calls), the birthday                *)
(* (adjust_wallet_birthday, get_birthday), the block window and the        *)
(* transaction records (clear_all, set_initial_block, and the chain sync   *)
(* that fills them), and write() and read(), the wallet file they produce  *)
(* and a restart from that file.                                           *)
(*                                                                         *)
(* Every call is a process step sequence; each `keys.read().await` or      *)
(* `keys.write().await` is a request put on the lock's queue.  tokio's     *)
(* RwLock is fair: a request is granted in FIFO order, a read once no      *)
(* write is ahead of it, a write once no read guard is held.  Only write() *)
(* holds a keys guard across an await; every other guard is taken, used   *)
(* and dropped within one step.  The blocks and the transaction records    *)
(* have locks of their own that no caller holds across an await, so each  *)
(* access to them is one step.                                             *)
(*                                                                         *)
(* The transaction records are abstracted to the set of notes they hold,   *)
(* each found in the block NoteHeight gives it.  The Keys type (encrypt,   *)
(* lock, unlock, remove_encryption, Keys::read) and the chain sync are not *)
(* under src/ and are modelled from the spec.                              *)
(***************************************************************************)
EXTENDS Integers, Sequences, FiniteSets

CONSTANTS
    Procs,         \* tasks calling into the wallet
    ProcOps,       \* [Procs -> set of calls the task may make]
    OpsPerProc,    \* calls each task makes
    Materials,     \* key material: equal material means equal key
    HdKey,         \* the material of the wallet's first HD sapling key
    Activation,    \* sapling_activation_height()
    Birthday0,     \* the birthday the wallet was created with
    InitEncrypted, \* whether the wallet starts encrypted
    InitUnlocked,  \* whether an encrypted wallet starts unlocked
    Notes,         \* the notes the chain pays to the wallet
    NoteHeight,    \* [Notes -> the block each is mined in]
    MaxHeight,     \* the chain's tip: sync stops there
    MaxBlocks,     \* blocks the window retains (the last 100 in the code)
    MaxRestarts,   \* restarts of the wallet from its file
    ConcurrentSync \* whether sync may scan while a clear_all is under way

\* The calls.  An import names its pool ("t", "z" or "o"), the key material
\* and the birthday it asserts.
TkImport(m) == [kind |-> "tk", pool |-> "t", material |-> m, birthday |-> 0]
SkImport(p, m, b) == [kind |-> "sk", pool |-> p, material |-> m, birthday |-> b]
VkImport(m, b) == [kind |-> "vk", pool |-> "z", material |-> m, birthday |-> b]
Call(k) == [kind |-> k]   \* "encrypt", "lock", "unlock", "remove", "save", "clear",
                          \* "changeTo"
MemoCall(v) == [kind |-> "memo", value |-> v]   \* set_download_memo

ImportKinds == {"tk", "sk", "vk"}
AdminKinds == {"encrypt", "lock", "unlock", "remove"}

VARIABLES
    keys,       \* tkeys, zkeys and okeys as one list of [pool, material, spend, enc]
    encrypted,  \* Keys.encrypted
    unlocked,   \* Keys.unlocked
    birthday,   \* the AtomicU64 birthday
    readers,    \* read guards each task holds across an await
    queue,      \* requests waiting on the keys lock, in arrival order
    pc,         \* where each task stands
    op,         \* the call each task is making
    loaded,     \* the birthday adjust_wallet_birthday loaded
    calls,      \* calls each task has begun
    saves,      \* the lock state each completed write() serialized the keys in
    blocks,     \* self.blocks: the heights of the window, highest first
    txs,        \* the notes of transaction_metadata_set
    wbuf,       \* the fields each task's write() has emitted so far
    file,       \* the wallet file: the fields of the last completed write()
    restarts,   \* restarts so far
    options     \* wallet_options.download_memos

vars == <<keys, encrypted, unlocked, birthday, readers, queue, pc, op, loaded, calls, saves,
          blocks, txs, wbuf, file, restarts, options>>

----
(* The lock                                                                *)
----

Request(p, mode) == [proc |-> p, mode |-> mode]

\* The head request of the queue is p's and can be granted now.
Granted(p, mode) ==
    /\ queue # <<>>
    /\ Head(queue) = Request(p, mode)
    /\ mode = "write" => \A q \in Procs : readers[q] = 0

----
(* Key matching                                                            *)
----

\* The duplicate checks of the import calls: add_imported_tk compares
\* addresses; the spend-key imports' key_matcher finds a key of the pool
\* holding this spending key; the view-key import compares viewing keys,
\* which a spending key of the same material also has.
Duplicate(o) ==
    \E i \in 1..Len(keys) :
        /\ keys[i].pool = o.pool
        /\ keys[i].material = o.material
        /\ o.kind = "sk" => keys[i].spend

\* A key of the pool with the viewing key of this material.
ViewKeyIndex(o) == {i \in 1..Len(keys) : keys[i].pool = o.pool /\ keys[i].material = o.material}

NewKey(o) == [pool |-> o.pool, material |-> o.material, spend |-> o.kind # "vk", enc |-> FALSE]

\* Mutant: update_view_key without the in-place upgrade: always a new key.
UpdateViewKeyAlwaysPush(o) == Append(keys, NewKey(o))

\* update_view_key: a key with this viewing key gets the spending key in
\* place; otherwise the new key is pushed.
UpdateViewKey(o) ==
    IF ViewKeyIndex(o) # {}
    THEN LET i == CHOOSE j \in ViewKeyIndex(o) : \A k \in ViewKeyIndex(o) : j <= k
         IN [keys EXCEPT ![i].spend = TRUE, ![i].enc = FALSE]
    ELSE Append(keys, NewKey(o))

----
(* The birthday and the wallet file                                        *)
----

\* get_first_transaction_block: the lowest block holding a record, or the
\* birthday floored at the activation height when there is none.
FirstTransactionBlock(bday, recs) ==
    IF recs = {} THEN (IF bday > Activation THEN bday ELSE Activation)
    ELSE CHOOSE h \in {NoteHeight[n] : n \in recs} : \A n \in recs : h <= NoteHeight[n]

\* get_birthday: the first transaction block, capped by a non-zero birthday.
GetBirthday(bday, recs) ==
    LET first == FirstTransactionBlock(bday, recs)
    IN IF bday = 0 \/ first < bday THEN first ELSE bday

SerializedVersion == 24
ChainName == "main"            \* config.chain
NoTree == "None"               \* verified_tree, not part of this model
NoPrice == "NoPrice"           \* WalletZecPriceInfo::new()

\* MemoDownloadOption and its `as u8` discriminants.
MemoDownloadOption == {"NoMemos", "WalletMemos", "AllMemos"}
MemoCode == [o \in MemoDownloadOption |-> CASE o = "NoMemos" -> 0 [] o = "WalletMemos" -> 1 [] OTHER -> 2]

\* WalletOptions::default.
DefaultOptions == "WalletMemos"

OptionsVersion == 1   \* WalletOptions::serialized_version

\* WalletOptions::write: the version, then the option as a u8.
OptionsWrite(o) == <<OptionsVersion, MemoCode[o]>>

\* WalletOptions::read: the version is read and ignored; a byte that is no
\* discriminant is "Bad download option".
OptionsRead(b) ==
    IF \E o \in MemoDownloadOption : MemoCode[o] = b[2]
    THEN [ok |-> TRUE, options |-> CHOOSE o \in MemoDownloadOption : MemoCode[o] = b[2]]
    ELSE [ok |-> FALSE]

KeysField(ks, enc) == [keys |-> ks, encrypted |-> enc]

\* write(): the fields in the order it emits them.
WalletWrite(ks, enc, bl, recs, opts, bday) ==
    <<SerializedVersion, KeysField(ks, enc), bl, recs, ChainName, OptionsWrite(opts),
      GetBirthday(bday, recs), NoTree, NoPrice>>

Failed == [ok |-> FALSE]

\* The wallet read() restores from the fields of a file of version v.
Restored(b, v, bl) ==
    LET p1 == IF v <= 23 THEN 6 ELSE 7
        p2 == IF v <= 22 /\ v > 12 THEN p1 + 2 ELSE p1 + 1
        p3 == IF v <= 21 THEN p2 ELSE p2 + 1
    IN [ok |-> TRUE, keys |-> b[2].keys, encrypted |-> b[2].encrypted, blocks |-> bl,
        txs |-> b[4], options |-> IF v <= 23 THEN DefaultOptions ELSE OptionsRead(b[6]).options,
        birthday |-> b[p1], tree |-> IF v <= 21 THEN NoTree ELSE b[p2],
        price |-> IF v <= 13 THEN NoPrice ELSE b[p3]]

Reversed(s) == [i \in 1..Len(s) |-> s[Len(s) + 1 - i]]

\* Mutant: the pre-15 reversal of the block window applied to every version.
WalletReadReversingBlocks(b) ==
    IF b[1] > SerializedVersion \/ b[5] # ChainName \/ (b[1] > 23 /\ ~OptionsRead(b[6]).ok) THEN Failed
    ELSE Restored(b, b[1], Reversed(b[3]))

\* read(): a file of a later version or of another chain is refused; before
\* version 15 the blocks were stored lowest first; the options are absent
\* before 24 and a bad option byte fails the read, the sapling_tree_verified byte present from 13 to 22, the
\* verified tree absent before 22 and the price before 14.  The migrations
\* of versions up to 14 touch only what this model leaves out.
WalletRead(b) ==
    IF b[1] > SerializedVersion \/ b[5] # ChainName \/ (b[1] > 23 /\ ~OptionsRead(b[6]).ok) THEN Failed
    ELSE Restored(b, b[1], IF b[1] <= 14 THEN Reversed(b[3]) ELSE b[3])

----
(* Steps                                                                   *)
----

\* A task makes its next call and queues its first lock request.
Begin(p) ==
    /\ pc[p] = "idle"
    /\ calls[p] < OpsPerProc
    /\ \E o \in ProcOps[p] :
          /\ op' = [op EXCEPT ![p] = o]
          /\ pc' = [pc EXCEPT ![p] = CASE o.kind \in ImportKinds -> "encCheck"
                                       [] o.kind = "save" -> "saveA"
                                       [] o.kind = "clear" -> "clearBlocks"
                                       [] o.kind = "changeTo" -> "changeA"
                                       [] o.kind = "memo" -> "memo"
                                       [] OTHER -> "admin"]
          /\ queue' = IF o.kind \in {"clear", "memo"} THEN queue
                       ELSE Append(queue, Request(p, IF o.kind \in AdminKinds THEN "write" ELSE "read"))
    /\ calls' = [calls EXCEPT ![p] = @ + 1]
    /\ UNCHANGED <<keys, encrypted, unlocked, birthday, readers, loaded, saves, blocks, txs, wbuf, file, restarts, options>>

\* "Can't import ... while wallet is encrypted"; the key is decoded and the
\* duplicate check queues its read.
EncCheck(p) ==
    /\ pc[p] = "encCheck"
    /\ Granted(p, "read")
    /\ IF encrypted
       THEN /\ queue' = Tail(queue)
            /\ pc' = [pc EXCEPT ![p] = "idle"]
       ELSE /\ queue' = Append(Tail(queue), Request(p, "read"))
            /\ pc' = [pc EXCEPT ![p] = "dupCheck"]
    /\ UNCHANGED <<keys, encrypted, unlocked, birthday, readers, op, loaded, calls, saves, blocks, txs, wbuf, file, restarts, options>>

\* "Key already exists"; a transparent key goes on to its push, the others
\* to adjust_wallet_birthday.
DupCheck(p) ==
    /\ pc[p] = "dupCheck"
    /\ Granted(p, "read")
    /\ CASE Duplicate(op[p]) ->
              /\ queue' = Tail(queue)
              /\ pc' = [pc EXCEPT ![p] = "idle"]
         [] op[p].kind = "tk" ->
              /\ queue' = Append(Tail(queue), Request(p, "write"))
              /\ pc' = [pc EXCEPT ![p] = "push"]
         [] OTHER ->
              /\ queue' = Tail(queue)
              /\ pc' = [pc EXCEPT ![p] = "bdayLoad"]
    /\ UNCHANGED <<keys, encrypted, unlocked, birthday, readers, op, loaded, calls, saves, blocks, txs, wbuf, file, restarts, options>>

\* The address getter's write request: update_view_key for a spending key,
\* the push of add_imported_sapling_extfvk for a viewing key.
ToAddressGetter(p) ==
    /\ queue' = Append(queue, Request(p, "write"))
    /\ pc' = [pc EXCEPT ![p] = IF op[p].kind = "sk" THEN "update" ELSE "push"]

\* adjust_wallet_birthday, first half: load, and compare.
BdayLoad(p) ==
    /\ pc[p] = "bdayLoad"
    /\ loaded' = [loaded EXCEPT ![p] = birthday]
    /\ IF op[p].birthday < birthday
       THEN /\ pc' = [pc EXCEPT ![p] = "bdayStore"]
            /\ UNCHANGED queue
       ELSE ToAddressGetter(p)
    /\ UNCHANGED <<keys, encrypted, unlocked, birthday, readers, op, calls, saves, blocks, txs, wbuf, file, restarts, options>>

\* adjust_wallet_birthday, second half: store the new birthday, floored at
\* the sapling activation height.
BdayStore(p) ==
    /\ pc[p] = "bdayStore"
    /\ birthday' = IF op[p].birthday > Activation THEN op[p].birthday ELSE Activation
    /\ ToAddressGetter(p)
    /\ UNCHANGED <<keys, encrypted, unlocked, readers, op, loaded, calls, saves, blocks, txs, wbuf, file, restarts, options>>

\* update_view_key under the keys' write lock.
Update(p) ==
    /\ pc[p] = "update"
    /\ Granted(p, "write")
    /\ queue' = Tail(queue)
    /\ keys' = UpdateViewKey(op[p])
    /\ pc' = [pc EXCEPT ![p] = "idle"]
    /\ UNCHANGED <<encrypted, unlocked, birthday, readers, op, loaded, calls, saves, blocks, txs, wbuf, file, restarts, options>>

\* The unconditional pushes of add_imported_tk and of
\* add_imported_sapling_extfvk's address getter.
Push(p) ==
    /\ pc[p] = "push"
    /\ Granted(p, "write")
    /\ queue' = Tail(queue)
    /\ keys' = Append(keys, NewKey(op[p]))
    /\ pc' = [pc EXCEPT ![p] = "idle"]
    /\ UNCHANGED <<encrypted, unlocked, birthday, readers, op, loaded, calls, saves, blocks, txs, wbuf, file, restarts, options>>

\* encrypt, lock, unlock and remove_encryption under the keys' write lock.
\* Inside Keys: encrypt encrypts every spending key and leaves the wallet
\* locked; lock and unlock move between Locked and Unlocked, and an unlock
\* or remove_encryption with a wrong passphrase changes nothing; every call
\* out of its state fails.
Admin(p) ==
    /\ pc[p] = "admin"
    /\ Granted(p, "write")
    /\ queue' = Tail(queue)
    /\ \E passOk \in BOOLEAN :
          CASE op[p].kind = "encrypt" /\ ~encrypted ->
                 /\ encrypted' = TRUE /\ unlocked' = FALSE
                 /\ keys' = [i \in 1..Len(keys) |-> [keys[i] EXCEPT !.enc = keys[i].spend]]
            [] op[p].kind = "lock" /\ encrypted /\ unlocked ->
                 /\ unlocked' = FALSE
                 /\ UNCHANGED <<encrypted, keys, options>>
            [] op[p].kind = "unlock" /\ encrypted /\ ~unlocked /\ passOk ->
                 /\ unlocked' = TRUE
                 /\ UNCHANGED <<encrypted, keys, options>>
            [] op[p].kind = "remove" /\ encrypted /\ passOk ->
                 /\ encrypted' = FALSE /\ unlocked' = TRUE
                 /\ keys' = [i \in 1..Len(keys) |-> [keys[i] EXCEPT !.enc = FALSE]]
            [] OTHER ->
                 UNCHANGED <<encrypted, unlocked, keys, options>>
    /\ pc' = [pc EXCEPT ![p] = "idle"]
    /\ UNCHANGED <<birthday, readers, op, loaded, calls, saves, blocks, txs, wbuf, file, restarts, options>>

\* Mutant: write()'s first guard never released.
SaveALeakingGuard(p) ==
    /\ pc[p] = "saveA"
    /\ Granted(p, "read")
    /\ readers' = [readers EXCEPT ![p] = @ + 1]
    /\ queue' = Append(Tail(queue), Request(p, "read"))
    /\ pc' = [pc EXCEPT ![p] = IF encrypted THEN "saveB" ELSE "saveKeys"]
    /\ UNCHANGED <<keys, encrypted, unlocked, birthday, op, loaded, calls, saves, blocks, txs, wbuf, file, restarts, options>>

\* write(): `keys.read().await.encrypted && keys.read().await.unlocked`.
\* The first guard is a temporary of the `if` condition and lives until the
\* whole condition is evaluated, so when the wallet is encrypted it is held
\* while the second read waits; otherwise `&&` stops and it is dropped.
SaveA(p) ==
    /\ pc[p] = "saveA"
    /\ Granted(p, "read")
    /\ queue' = Append(Tail(queue), Request(p, "read"))
    /\ IF encrypted
       THEN /\ readers' = [readers EXCEPT ![p] = 1]
            /\ pc' = [pc EXCEPT ![p] = "saveB"]
       ELSE /\ UNCHANGED readers
            /\ pc' = [pc EXCEPT ![p] = "saveKeys"]
    /\ UNCHANGED <<keys, encrypted, unlocked, birthday, op, loaded, calls, saves, blocks, txs, wbuf, file, restarts, options>>

\* The second guard: both are dropped; "Cannot write while wallet is
\* unlocked while encrypted", or on to serializing the keys.
SaveB(p) ==
    /\ pc[p] = "saveB"
    /\ Granted(p, "read")
    /\ readers' = [readers EXCEPT ![p] = 0]
    /\ IF unlocked
       THEN /\ queue' = Tail(queue)
            /\ pc' = [pc EXCEPT ![p] = "idle"]
       ELSE /\ queue' = Append(Tail(queue), Request(p, "read"))
            /\ pc' = [pc EXCEPT ![p] = "saveKeys"]
    /\ UNCHANGED <<keys, encrypted, unlocked, birthday, op, loaded, calls, saves, blocks, txs, wbuf, file, restarts, options>>

\* `keys.read().await.write(&mut writer)`: the version and the keys, in
\* the lock state they have now.
SaveKeys(p) ==
    /\ pc[p] = "saveKeys"
    /\ Granted(p, "read")
    /\ queue' = Tail(queue)
    /\ saves' = saves \cup {[encrypted |-> encrypted, unlocked |-> unlocked]}
    /\ wbuf' = [wbuf EXCEPT ![p] = <<SerializedVersion, KeysField(keys, encrypted)>>]
    /\ pc' = [pc EXCEPT ![p] = "saveBlocks"]
    /\ UNCHANGED <<keys, encrypted, unlocked, birthday, readers, op, loaded, calls,
                   blocks, txs, file, restarts, options>>

\* The block window, under a read guard of its own.
SaveBlocks(p) ==
    /\ pc[p] = "saveBlocks"
    /\ wbuf' = [wbuf EXCEPT ![p] = Append(@, blocks)]
    /\ pc' = [pc EXCEPT ![p] = "saveTxs"]
    /\ UNCHANGED <<keys, encrypted, unlocked, birthday, readers, queue, op, loaded, calls,
                   saves, blocks, txs, file, restarts, options>>

\* The transaction records under their read guard, then the chain name and
\* the wallet options, each under its own read guard.
SaveTxs(p) ==
    /\ pc[p] = "saveTxs"
    /\ wbuf' = [wbuf EXCEPT ![p] = @ \o <<txs, ChainName, OptionsWrite(options)>>]
    /\ pc' = [pc EXCEPT ![p] = "saveRest"]
    /\ UNCHANGED <<keys, encrypted, unlocked, birthday, readers, queue, op, loaded, calls,
                   saves, blocks, txs, file, restarts, options>>

\* get_birthday() (which reads the records again), the verified tree and
\* the price; write() returns Ok and its output becomes the wallet file.
SaveRest(p) ==
    /\ pc[p] = "saveRest"
    /\ file' = wbuf[p] \o <<GetBirthday(birthday, txs), NoTree, NoPrice>>
    /\ wbuf' = [wbuf EXCEPT ![p] = <<>>]
    /\ pc' = [pc EXCEPT ![p] = "idle"]
    /\ UNCHANGED <<keys, encrypted, unlocked, birthday, readers, queue, op, loaded, calls,
                   saves, blocks, txs, restarts, options>>

\* send_to_address_internal without a sapling input:
\* `builder.send_change_to(keys().read().await...ovk,
\* keys().read().await...zaddress)`.  The first guard is a temporary of the
\* call statement and is held while the second read waits.
ChangeToA(p) ==
    /\ pc[p] = "changeA"
    /\ Granted(p, "read")
    /\ readers' = [readers EXCEPT ![p] = 1]
    /\ queue' = Append(Tail(queue), Request(p, "read"))
    /\ pc' = [pc EXCEPT ![p] = "changeB"]
    /\ UNCHANGED <<keys, encrypted, unlocked, birthday, op, loaded, calls, saves,
                   blocks, txs, wbuf, file, restarts, options>>

\* The second guard; both are dropped at the end of the statement.
ChangeToB(p) ==
    /\ pc[p] = "changeB"
    /\ Granted(p, "read")
    /\ readers' = [readers EXCEPT ![p] = 0]
    /\ queue' = Tail(queue)
    /\ pc' = [pc EXCEPT ![p] = "idle"]
    /\ UNCHANGED <<keys, encrypted, unlocked, birthday, op, loaded, calls, saves,
                   blocks, txs, wbuf, file, restarts, options>>

\* Mutant: the first step of clear_all clears the records, not the blocks.
ClearBlocksClearingTxs(p) ==
    /\ pc[p] = "clearBlocks"
    /\ txs' = {}
    /\ pc' = [pc EXCEPT ![p] = "clearTxs"]
    /\ UNCHANGED <<keys, encrypted, unlocked, birthday, readers, queue, op, loaded, calls,
                   saves, blocks, wbuf, file, restarts, options>>

\* clear_all: `self.blocks.write().await.clear()` ...
ClearBlocks(p) ==
    /\ pc[p] = "clearBlocks"
    /\ blocks' = <<>>
    /\ pc' = [pc EXCEPT ![p] = "clearTxs"]
    /\ UNCHANGED <<keys, encrypted, unlocked, birthday, readers, queue, op, loaded, calls,
                   saves, txs, wbuf, file, restarts, options>>

\* ... then the transaction records (TxMapAndMaybeTrees::clear).
ClearTxs(p) ==
    /\ pc[p] = "clearTxs"
    /\ txs' = {}
    /\ pc' = [pc EXCEPT ![p] = "idle"]
    /\ UNCHANGED <<keys, encrypted, unlocked, birthday, readers, queue, op, loaded, calls,
                   saves, blocks, wbuf, file, restarts, options>>

\* set_download_memo, under the wallet options' own write lock.
SetDownloadMemo(p) ==
    /\ pc[p] = "memo"
    /\ options' = op[p].value
    /\ pc' = [pc EXCEPT ![p] = "idle"]
    /\ UNCHANGED <<keys, encrypted, unlocked, birthday, readers, queue, op, loaded, calls,
                   saves, blocks, txs, wbuf, file, restarts>>

----
(* The chain sync and restarts                                             *)
----

\* Sync may step now: always, or, when the caller serializes rescans with
\* sync, not between the two halves of a clear_all.
SyncMayStep == ConcurrentSync \/ \A p \in Procs : pc[p] # "clearTxs"

\* set_initial_block, called by sync on an empty window with the block
\* before the birthday: refused once the window holds a block.
SetInitialBlock ==
    /\ SyncMayStep
    /\ blocks = <<>>
    /\ blocks' = <<GetBirthday(birthday, txs) - 1>>
    /\ UNCHANGED <<keys, encrypted, unlocked, birthday, readers, queue, pc, op, loaded,
                   calls, saves, txs, wbuf, file, restarts, options>>

\* Sync scans the block after the window's head: its notes are recorded and
\* the block heads the window, the oldest beyond MaxBlocks dropped.
ScanBlock ==
    /\ SyncMayStep
    /\ blocks # <<>>
    /\ blocks[1] < MaxHeight
    /\ blocks' = SubSeq(<<blocks[1] + 1>> \o blocks, 1, IF Len(blocks) < MaxBlocks THEN Len(blocks) + 1 ELSE MaxBlocks)
    /\ txs' = txs \cup {n \in Notes : NoteHeight[n] = blocks[1] + 1}
    /\ UNCHANGED <<keys, encrypted, unlocked, birthday, readers, queue, pc, op, loaded,
                   calls, saves, wbuf, file, restarts, options>>

\* The wallet process stops, whatever its tasks were doing, and the next one
\* opens the wallet file with LightWallet::read.  Keys::read leaves an
\* encrypted wallet locked.
Restart ==
    /\ restarts < MaxRestarts
    /\ LET r == WalletRead(file)
       IN /\ r.ok
          /\ keys' = r.keys
          /\ encrypted' = r.encrypted
          /\ unlocked' = ~r.encrypted
          /\ blocks' = r.blocks
          /\ txs' = r.txs
          /\ birthday' = r.birthday
          /\ options' = r.options
    /\ readers' = [p \in Procs |-> 0]
    /\ queue' = <<>>
    /\ pc' = [p \in Procs |-> "idle"]
    /\ wbuf' = [p \in Procs |-> <<>>]
    /\ restarts' = restarts + 1
    /\ UNCHANGED <<op, loaded, calls, saves, file>>

----

Init ==
    /\ keys = <<[pool |-> "z", material |-> HdKey, spend |-> TRUE, enc |-> InitEncrypted]>>
    /\ encrypted = InitEncrypted
    /\ unlocked = (~InitEncrypted \/ InitUnlocked)
    /\ birthday = Birthday0
    /\ readers = [p \in Procs |-> 0]
    /\ queue = <<>>
    /\ pc = [p \in Procs |-> "idle"]
    /\ op = [p \in Procs |-> Call("none")]
    /\ loaded = [p \in Procs |-> Birthday0]
    /\ calls = [p \in Procs |-> 0]
    /\ saves = {}
    /\ blocks = <<>>
    /\ txs = {}
    /\ wbuf = [p \in Procs |-> <<>>]
    /\ options = DefaultOptions
    /\ file = WalletWrite(keys, encrypted, blocks, txs, options, birthday)
    /\ restarts = 0

Step(p) ==
    \/ EncCheck(p) \/ DupCheck(p) \/ BdayLoad(p) \/ BdayStore(p)
    \/ Update(p) \/ Push(p) \/ Admin(p)
    \/ SaveA(p) \/ SaveB(p) \/ SaveKeys(p) \/ SaveBlocks(p) \/ SaveTxs(p) \/ SaveRest(p)
    \/ ClearBlocks(p) \/ ClearTxs(p) \/ ChangeToA(p) \/ ChangeToB(p) \/ SetDownloadMemo(p)

\* The chain sync runs beside the callers, and the wallet may restart.
Environment == SetInitialBlock \/ ScanBlock \/ Restart

Next == \/ \E p \in Procs : Begin(p) \/ Step(p)
        \/ Environment

\* Every started call is driven by the executor until it returns; a task
\* need not start another call.
Fairness == \A p \in Procs : WF_vars(Step(p))

Spec == Init /\ [][Next]_vars /\ Fairness

----
(* Properties                                                              *)
----

Key == [pool : {"t", "z", "o"}, material : Materials \cup {HdKey}, spend : BOOLEAN, enc : BOOLEAN]

TypeOK ==
    /\ keys \in Seq(Key)
    /\ encrypted \in BOOLEAN /\ unlocked \in BOOLEAN
    /\ birthday \in Nat
    /\ readers \in [Procs -> 0..1]
    /\ \A i \in 1..Len(queue) : queue[i].proc \in Procs /\ queue[i].mode \in {"read", "write"}
    /\ calls \in [Procs -> 0..OpsPerProc]
    /\ saves \subseteq [encrypted : BOOLEAN, unlocked : BOOLEAN]
    /\ blocks \in Seq(0..MaxHeight) /\ Len(blocks) <= MaxBlocks
    /\ txs \subseteq Notes
    /\ restarts \in 0..MaxRestarts
    /\ options \in MemoDownloadOption

\* The imports' "Key already exists" checks together with update_view_key's
\* in-place upgrade keep at most one key per pool and key material.
NoDuplicateKeys ==
    \A i, j \in 1..Len(keys) :
        i # j => ~(keys[i].pool = keys[j].pool /\ keys[i].material = keys[j].material)

\* adjust_wallet_birthday only ever lowers the wallet birthday (spec §3),
\* between restarts (a restart returns to the birthday of the file).
BirthdayNonIncreasing == [][birthday' <= birthday \/ restarts' # restarts]_<<birthday, restarts>>

\* The imports refuse to run "while wallet is encrypted", so every spending
\* key of an encrypted wallet is one Keys::encrypt encrypted.
KeysEncryptedWithStore ==
    encrypted => \A i \in 1..Len(keys) : keys[i].spend => keys[i].enc

\* write() refuses to serialize the keys of an encrypted, unlocked wallet
\* (spec §4.6: no decrypted secrets on disk).
SaveNeverUnlocked == \A s \in saves : ~(s.encrypted /\ s.unlocked)

\* Every note in a block the window has passed is in the transaction
\* records: sync never skips one, clear_all empties the window before the
\* records, and a wallet restarted from the file write() produced is
\* missing none either (write() reads the window and the records under
\* separate guards).
ScannedNotesKnown ==
    blocks # <<>> => \A n \in Notes : NoteHeight[n] <= blocks[1] => n \in txs

\* Spec §8: a wallet written by write() and read back by read() has the
\* same keys, block window, records and options, and the same
\* get_birthday().
RoundTrip ==
    LET r == WalletRead(WalletWrite(keys, encrypted, blocks, txs, options, birthday))
    IN /\ r.ok
       /\ r.keys = keys /\ r.encrypted = encrypted
       /\ r.blocks = blocks /\ r.txs = txs /\ r.options = options
       /\ GetBirthday(r.birthday, r.txs) = GetBirthday(birthday, txs)

\* Every call into the key store returns: no task waits forever on the
\* keys lock.
AllCallsReturn == \A p \in Procs : pc[p] # "idle" ~> pc[p] = "idle"
====
