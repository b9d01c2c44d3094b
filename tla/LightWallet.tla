---------------------------- MODULE LightWallet -----------------------------
(***************************************************************************)
(* The send path of LightWallet (src/lib/src/wallet.rs) interleaved with   *)
(* the chain sync that feeds the wallet.                                   *)
(*                                                                         *)
(* Each sender is a task calling send_to_address; pc[s] is the await point *)
(* it stands at, and every action is the code between two awaits.  The     *)
(* progress task spawned by a send (progress_handle) is a process of its   *)
(* own, keyed by the send.  Sync (block scanning, trial decryption,        *)
(* nullifier detection) is not under src/: its actions are modelled from   *)
(* the spec, as the environment of the send path.                          *)
(*                                                                         *)
(* The wallet's notes are one map `notes` from note ids to records         *)
(*   [pool, value, height, spent, pending, key, witnesses]                 *)
(* (see NoteSelection), height being the block of the note's transaction. *)
(* A transaction this wallet builds is named <<s, k>>: the k-th send of    *)
(* sender s.                                                               *)
(***************************************************************************)
EXTENDS NoteSelection

CONSTANTS
    Senders,         \* tasks that call send_to_address
    NoteIds,         \* notes the chain can pay to the wallet
    Incoming,        \* [NoteIds -> [pool, value, key]]: what each note is
    ExtTx,           \* a spend of a wallet note by a transaction not built here
    Birthday,        \* the height set_initial_block is called with
    MaxHeight,       \* sync stops at this chain height
    MaxBlocks,       \* blocks the wallet retains (the last 100 in the code)
    SendsPerSender,  \* send_to_address calls per sender
    Amounts,         \* total value of the recipients of a send
    Fee,             \* DEFAULT_FEE
    ExternalSpends,  \* whether the wallet's notes are also spent elsewhere
    Clearing,        \* whether clear_all may be called during sends
    MaxRestarts      \* restarts of the wallet process

SendIds == Senders \X (1..SendsPerSender)
TxIds == SendIds \cup {ExtTx}

VARIABLES
    notes,         \* transaction_metadata_set, flattened to its notes
    blocks,        \* self.blocks: heights, highest first
    verifiedTree,  \* verified_tree.is_some()
    progress,      \* send_progress
    pc,            \* the await point each sender stands at
    sel,           \* the selection a sender works with
    selecting,     \* select_notes_and_utxos's locals between its reads
    sends,         \* sends each sender has completed
    progId,        \* the send_progress id each sender's reset created
    tasks,         \* state of each send's progress task
    broadcast,     \* [txid -> notes it spends]: what the network accepted
    ownTxs,        \* own transactions recorded by scan_full_tx
    file,          \* what the last write() saved
    restarts       \* restarts so far

vars == <<notes, blocks, verifiedTree, progress, pc, sel, selecting, sends, progId,
          tasks, broadcast, ownTxs, file, restarts>>

\* The send a sender is working on.
Cur(s) == <<s, sends[s] + 1>>

\* SendProgress::new(id)
NewProgress(id) ==
    [id |-> id, inProgress |-> FALSE, progress |-> 0, total |-> 0,
     lastError |-> FALSE, lastTxid |-> NoTx]

PcValues == {"idle", "check", "select", "selectFirst", "selectSecond", "anchor", "outputs", "build", "await",
             "broadcast", "mark", "ingest", "success", "error", "panicked"}

----
(* Heights and balances                                                    *)
----

\* get_target_height: one past the highest block, when there is one.
TargetHeight == blocks[1] + 1

\* Mutant: the anchor taken from anchor_offset.first() instead of .last().
GetAnchorHeightFirstTier ==
    IF blocks = <<>> THEN 0
    ELSE LET minHeight == blocks[Len(blocks)]
             anchor == IF TargetHeight - AnchorOffset[1] > minHeight
                       THEN TargetHeight - AnchorOffset[1]
                       ELSE minHeight
         IN anchor - 1

\* get_target_height_and_anchor_offset then get_anchor_height: the anchor
\* is `anchor_offset.last()` back from the target, never before the
\* oldest block, and the height returned is one below it; 0 without blocks.
GetAnchorHeight ==
    IF blocks = <<>> THEN 0
    ELSE LET minHeight == blocks[Len(blocks)]
             anchor == IF TargetHeight - AnchorOffset[Len(AnchorOffset)] > minHeight
                       THEN TargetHeight - AnchorOffset[Len(AnchorOffset)]
                       ELSE minHeight
         IN anchor - 1

\* shielded_balance over one pool, the notes passing its filters given as
\* the set `passing`: the value of those neither spent nor pending.
ShieldedBalance(pool, passing) ==
    ValueOf(notes, {n \in passing :
                      /\ notes[n].pool = pool
                      /\ notes[n].spent = NoTx /\ notes[n].pending = NoTx})

\* maybe_verified_{sapling,orchard}_balance: no filter.
MaybeVerifiedBalance(pool) == ShieldedBalance(pool, DOMAIN notes)

\* verified_balance: notes mined at or below the anchor height.
VerifiedBalance(pool) ==
    ShieldedBalance(pool, {n \in DOMAIN notes : notes[n].height <= GetAnchorHeight})

\* unverified_{sapling,orchard}_balance: keyed notes above the anchor.
UnverifiedBalance(pool) ==
    ShieldedBalance(pool, {n \in DOMAIN notes : notes[n].key /\ notes[n].height > GetAnchorHeight})

\* spendable_{sapling,orchard}_balance: keyed, witnessed, at or below it.
SpendableBalance(pool) ==
    ShieldedBalance(pool, {n \in DOMAIN notes : /\ notes[n].height <= GetAnchorHeight
                                                /\ notes[n].key /\ notes[n].witnesses > 0})

\* tbalance: the utxos get_utxos returns, pending ones included.
TBalance == ValueOf(notes, Utxos(notes))

----
(* send_to_address, one action per stretch between awaits                  *)
----

\* Mutant: the previous send's outcome is kept when the id is bumped.
ResetKeepingOutcome(p) == [p EXCEPT !.id = p.id + 1, !.inProgress = FALSE,
                                    !.progress = 0, !.total = 0]

\* reset_send_progress: a blank record with the next id.
ResetSendProgress(p) == NewProgress(p.id + 1)

\* send_to_address begins: reset_send_progress.
Start(s) ==
    /\ pc[s] = "idle"
    /\ sends[s] < SendsPerSender
    /\ progress' = ResetSendProgress(progress)
    /\ progId' = [progId EXCEPT ![s] = progress.id + 1]
    /\ pc' = [pc EXCEPT ![s] = "check"]
    /\ UNCHANGED <<file, restarts, notes, blocks, verifiedTree, sel, selecting, sends, tasks, broadcast, ownTxs>>

\* The checks before selection: the wallet is unlocked, there is a
\* recipient, every address decodes (inputOk), and get_target_height finds
\* a block.
Check(s) ==
    /\ pc[s] = "check"
    /\ \E inputOk \in BOOLEAN :
          pc' = [pc EXCEPT ![s] = IF inputOk /\ blocks # <<>> THEN "select" ELSE "error"]
    /\ UNCHANGED <<file, restarts, notes, blocks, verifiedTree, progress, sel, selecting, sends, progId,
                   tasks, broadcast, ownTxs>>

\* The locals of select_notes_and_utxos outside a selection.
NotSelecting == [target |-> 0, prefer |-> FALSE, t |-> 0, utxos |-> {}, first |-> <<<<>>, 0>>]

\* select_notes_and_utxos returns r: too little selected is an error.
SelectReturns(s, r) ==
    /\ sel' = [sel EXCEPT ![s] = r]
    /\ selecting' = [selecting EXCEPT ![s] = NotSelecting]
    /\ pc' = [pc EXCEPT ![s] = IF r.value < selecting[s].target THEN "error" ELSE "anchor"]

\* select_notes_and_utxos for the recipients' total plus the fee, with
\* shield_transparent set: get_utxos under the records' read lock; enough
\* transparent value (or transparent_only) returns at once.
Select(s) ==
    /\ pc[s] = "select"
    /\ \E amount \in Amounts, transparentOnly, prefer \in BOOLEAN :
          LET utxos == SelectableUtxos(notes)
              t == ValueOf(notes, utxos)
              c == [target |-> amount + Fee, prefer |-> prefer, t |-> t, utxos |-> utxos,
                    first |-> <<<<>>, 0>>]
          IN IF transparentOnly \/ t >= amount + Fee
             THEN /\ sel' = [sel EXCEPT ![s] = Selection(<<>>, <<>>, utxos, t)]
                  /\ selecting' = [selecting EXCEPT ![s] = NotSelecting]
                  /\ pc' = [pc EXCEPT ![s] = IF t < amount + Fee THEN "error" ELSE "anchor"]
             ELSE /\ selecting' = [selecting EXCEPT ![s] = c]
                  /\ pc' = [pc EXCEPT ![s] = "selectFirst"]
                  /\ UNCHANGED sel
    /\ UNCHANGED <<file, restarts, notes, blocks, verifiedTree, progress, sends, progId, tasks,
                   broadcast, ownTxs>>

\* get_all_domain_specific_notes of the first pool, under a new read lock
\* of the records, and add_notes_to_total; enough returns.
SelectFirst(s) ==
    /\ pc[s] = "selectFirst"
    /\ LET c == selecting[s]
       IN \E ord \in IterationOrders(notes, FirstPool(c.prefer)) :
            LET a == FirstRead(notes, ord, c.target, c.t)
            IN IF c.t + a[2] >= c.target
               THEN SelectReturns(s, Combine(c.prefer, a, <<<<>>, 0>>, c.utxos, c.t))
               ELSE /\ selecting' = [selecting EXCEPT ![s].first = a]
                    /\ pc' = [pc EXCEPT ![s] = "selectSecond"]
                    /\ UNCHANGED sel
    /\ UNCHANGED <<file, restarts, notes, blocks, verifiedTree, progress, sends, progId, tasks,
                   broadcast, ownTxs>>

\* The second pool, under a third read lock; short of the target the
\* selection comes back empty.
SelectSecond(s) ==
    /\ pc[s] = "selectSecond"
    /\ LET c == selecting[s]
       IN \E ord \in IterationOrders(notes, SecondPool(c.prefer)) :
            LET b == SecondRead(notes, ord, c.target, c.prefer, c.t, c.first)
            IN SelectReturns(s, IF c.t + c.first[2] + b[2] >= c.target
                                THEN Combine(c.prefer, c.first, b, c.utxos, c.t)
                                ELSE NothingSelected)
    /\ UNCHANGED <<file, restarts, notes, blocks, verifiedTree, progress, sends, progId, tasks,
                   broadcast, ownTxs>>

\* The orchard anchor comes from the first orchard note's witness, else
\* from the verified tree; without either the send fails.
Anchor(s) ==
    /\ pc[s] = "anchor"
    /\ pc' = [pc EXCEPT ![s] = IF sel[s].orchard # <<>> \/ verifiedTree
                               THEN "outputs" ELSE "error"]
    /\ UNCHANGED <<file, restarts, notes, blocks, verifiedTree, progress, sel, selecting, sends, progId,
                   tasks, broadcast, ownTxs>>

\* Inputs, change and outputs are added to the builder (any of which may
\* be refused), then the progress task is spawned and the record set to
\* in progress with total = sapling spends + shielded recipients.
Outputs(s) ==
    /\ pc[s] = "outputs"
    /\ \/ /\ pc' = [pc EXCEPT ![s] = "error"]
          /\ UNCHANGED <<file, restarts, progress, tasks>>
       \/ \E zRecipients \in 0..1 :
             /\ tasks' = [tasks EXCEPT ![Cur(s)] = "running"]
             /\ progress' = [progress EXCEPT !.inProgress = TRUE, !.progress = 0,
                                             !.total = Len(sel[s].sapling) + zRecipients]
             /\ pc' = [pc EXCEPT ![s] = "build"]
    /\ UNCHANGED <<file, restarts, notes, blocks, verifiedTree, sel, selecting, sends, progId, broadcast, ownTxs>>

\* Mutant: the builder (and the channel's sender) outlives a successful
\* build, so the progress task never sees the channel close.
BuildKeepingChannel(s) ==
    /\ pc[s] = "build"
    /\ \/ /\ pc' = [pc EXCEPT ![s] = "await"]
          /\ UNCHANGED <<file, restarts, progress, tasks>>
       \/ /\ pc' = [pc EXCEPT ![s] = "error"]
          /\ tasks' = [tasks EXCEPT ![Cur(s)] = "closed"]
          /\ progress' = [progress EXCEPT !.inProgress = FALSE]
    /\ UNCHANGED <<file, restarts, notes, blocks, verifiedTree, sel, selecting, sends, progId, broadcast, ownTxs>>

\* builder.build consumes the builder and with it the progress channel's
\* sender.  On failure the record is cleared and the send returns at once,
\* without awaiting the progress task.
Build(s) ==
    /\ pc[s] = "build"
    /\ tasks' = [tasks EXCEPT ![Cur(s)] = "closed"]
    /\ \/ /\ pc' = [pc EXCEPT ![s] = "await"]
          /\ UNCHANGED progress
       \/ /\ pc' = [pc EXCEPT ![s] = "error"]
          /\ progress' = [progress EXCEPT !.inProgress = FALSE]
    /\ UNCHANGED <<file, restarts, notes, blocks, verifiedTree, sel, selecting, sends, progId, broadcast, ownTxs>>

\* progress_handle.await, then is_send_in_progress = false.
AwaitProgress(s) ==
    /\ pc[s] = "await"
    /\ tasks[Cur(s)] = "done"
    /\ progress' = [progress EXCEPT !.inProgress = FALSE]
    /\ pc' = [pc EXCEPT ![s] = "broadcast"]
    /\ UNCHANGED <<file, restarts, notes, blocks, verifiedTree, sel, selecting, sends, progId, tasks,
                   broadcast, ownTxs>>

\* The order the marking loop visits the selected notes: sapling notes,
\* orchard notes, then the utxos in the order get_utxos returned them.
MarkOrders(r) == {r.sapling \o r.orchard \o u : u \in SetToSeqs(r.utxos)}

\* Set unconfirmed_spent = txid on the notes of `marked`.
MarkPending(store, marked, txid) ==
    [n \in DOMAIN store |-> IF n \in marked THEN [store[n] EXCEPT !.pending = txid]
                                           ELSE store[n]]

\* The inputs of every transaction the network has accepted.
AcceptedInputs == UNION {broadcast[t] : t \in DOMAIN broadcast}

\* The inputs of the accepted transaction t ({} if t was never accepted).
AcceptedBy(t) == IF t \in DOMAIN broadcast THEN broadcast[t] ELSE {}

\* Mutant: the inputs marked pending before broadcast_fn, as spec 4.7
\* step 10 orders them, so a failed broadcast leaves them marked.
BroadcastMarkingFirst(s) ==
    /\ pc[s] = "broadcast"
    /\ notes' = MarkPending(notes, SelectedNotes(sel[s]) \cap DOMAIN notes, Cur(s))
    /\ \/ /\ SelectedNotes(sel[s]) \cap AcceptedInputs = {}
          /\ broadcast' = broadcast @@ (Cur(s) :> SelectedNotes(sel[s]))
          /\ pc' = [pc EXCEPT ![s] = "mark"]
       \/ /\ pc' = [pc EXCEPT ![s] = "error"]
          /\ UNCHANGED broadcast
    /\ UNCHANGED <<file, restarts, blocks, verifiedTree, progress, sel, selecting, sends, progId,
                   tasks, ownTxs>>

\* broadcast_fn, then `?`: the server accepts a transaction none of whose
\* inputs an accepted transaction spends, and the send goes on to the
\* marking loop; a refusal or a failed transmission returns the error
\* before any note is marked.
Broadcast(s) ==
    /\ pc[s] = "broadcast"
    /\ \/ /\ SelectedNotes(sel[s]) \cap AcceptedInputs = {}
          /\ broadcast' = broadcast @@ (Cur(s) :> SelectedNotes(sel[s]))
          /\ pc' = [pc EXCEPT ![s] = "mark"]
       \/ /\ pc' = [pc EXCEPT ![s] = "error"]
          /\ UNCHANGED broadcast
    /\ UNCHANGED <<file, restarts, notes, blocks, verifiedTree, progress, sel, selecting, sends, progId,
                   tasks, ownTxs>>

\* The marking loop under the records' write lock.  Each note is looked up
\* by its transaction and nullifier with unwrap(): a note that is no longer
\* in the store panics the task, after the notes before it were marked.
Mark(s) ==
    /\ pc[s] = "mark"
    /\ \E ord \in MarkOrders(sel[s]) :
          LET missing == {i \in 1..Len(ord) : ord[i] \notin DOMAIN notes}
              stop == IF missing = {} THEN Len(ord) + 1 ELSE Min(missing)
              marked == {ord[i] : i \in 1..(stop - 1)}
          IN /\ notes' = MarkPending(notes, marked, Cur(s))
             /\ pc' = [pc EXCEPT ![s] = IF missing = {} THEN "ingest" ELSE "panicked"]
    /\ UNCHANGED <<file, restarts, blocks, verifiedTree, progress, sel, selecting, sends, progId, tasks,
                   broadcast, ownTxs>>

\* scan_full_tx records the new transaction as unconfirmed.
Ingest(s) ==
    /\ pc[s] = "ingest"
    /\ ownTxs' = ownTxs \cup {Cur(s)}
    /\ pc' = [pc EXCEPT ![s] = "success"]
    /\ UNCHANGED <<file, restarts, notes, blocks, verifiedTree, progress, sel, selecting, sends, progId,
                   tasks, broadcast>>

\* send_to_address returns Ok: set_send_success.
SendSuccess(s) ==
    /\ pc[s] = "success"
    /\ progress' = [progress EXCEPT !.inProgress = FALSE, !.lastTxid = Cur(s)]
    /\ sends' = [sends EXCEPT ![s] = @ + 1]
    /\ pc' = [pc EXCEPT ![s] = "idle"]
    /\ UNCHANGED <<file, restarts, notes, blocks, verifiedTree, sel, selecting, progId, tasks, broadcast, ownTxs>>

\* send_to_address returns Err: set_send_error.
SendError(s) ==
    /\ pc[s] = "error"
    /\ progress' = [progress EXCEPT !.inProgress = FALSE, !.lastError = TRUE]
    /\ sends' = [sends EXCEPT ![s] = @ + 1]
    /\ pc' = [pc EXCEPT ![s] = "idle"]
    /\ UNCHANGED <<file, restarts, notes, blocks, verifiedTree, sel, selecting, progId, tasks, broadcast, ownTxs>>

SendStep(s) ==
    \/ Check(s) \/ Select(s) \/ SelectFirst(s) \/ SelectSecond(s) \/ Anchor(s) \/ Outputs(s) \/ Build(s)
    \/ AwaitProgress(s) \/ Broadcast(s) \/ Mark(s) \/ Ingest(s)
    \/ SendSuccess(s) \/ SendError(s)

----
(* The progress task of one send (progress_handle)                         *)
----

\* A tick forwarded from the builder: progress = r.
TaskTick(t) ==
    /\ tasks[t] \in {"running", "closed"}
    /\ progress' = [progress EXCEPT !.progress = 1]
    /\ UNCHANGED <<file, restarts, notes, blocks, verifiedTree, pc, sel, selecting, sends, progId, tasks,
                   broadcast, ownTxs>>

\* The channel is closed: is_send_in_progress = false, and the task ends.
TaskFinish(t) ==
    /\ tasks[t] = "closed"
    /\ progress' = [progress EXCEPT !.inProgress = FALSE]
    /\ tasks' = [tasks EXCEPT ![t] = "done"]
    /\ UNCHANGED <<file, restarts, notes, blocks, verifiedTree, pc, sel, selecting, sends, progId,
                   broadcast, ownTxs>>

TaskStep(t) == TaskTick(t) \/ TaskFinish(t)

----
(* The chain sync and the wallet's maintenance calls                       *)
----

\* Mutant: the emptiness check of set_initial_block dropped.
SetInitialBlockUnguarded ==
    /\ blocks' = Append(blocks, Birthday)
    /\ UNCHANGED <<file, restarts, notes, verifiedTree, progress, pc, sel, selecting, sends, progId, tasks,
                   broadcast, ownTxs>>

\* set_initial_block: only into an empty block window.
SetInitialBlock ==
    /\ blocks = <<>>
    /\ blocks' = <<Birthday>>
    /\ UNCHANGED <<file, restarts, notes, verifiedTree, progress, pc, sel, selecting, sends, progId, tasks,
                   broadcast, ownTxs>>

\* A scanned block: it heads the window, the oldest beyond MaxBlocks is
\* dropped, and every shielded note's witness is extended.
NewBlock ==
    /\ blocks # <<>>
    /\ blocks[1] < MaxHeight
    /\ blocks' = SubSeq(<<blocks[1] + 1>> \o blocks, 1, Min({MaxBlocks, Len(blocks) + 1}))
    /\ notes' = [n \in DOMAIN notes |->
                   IF notes[n].pool \in ShieldedPools
                   THEN [notes[n] EXCEPT !.witnesses = @ + 1] ELSE notes[n]]
    /\ UNCHANGED <<file, restarts, verifiedTree, progress, pc, sel, selecting, sends, progId, tasks,
                   broadcast, ownTxs>>

\* A note paying the wallet is found in the tip block.
ReceiveNote(n) ==
    /\ blocks # <<>>
    /\ n \notin DOMAIN notes
    /\ notes' = notes @@ (n :> [pool |-> Incoming[n].pool, value |-> Incoming[n].value,
                                height |-> blocks[1], spent |-> NoTx, pending |-> NoTx,
                                key |-> Incoming[n].key,
                                witnesses |-> IF Incoming[n].pool \in ShieldedPools THEN 1 ELSE 0])
    /\ UNCHANGED <<file, restarts, blocks, verifiedTree, progress, pc, sel, selecting, sends, progId, tasks,
                   broadcast, ownTxs>>

\* Sync stores the tree state of a verified block.
VerifyTree ==
    /\ blocks # <<>>
    /\ ~verifiedTree
    /\ verifiedTree' = TRUE
    /\ UNCHANGED <<file, restarts, notes, blocks, progress, pc, sel, selecting, sends, progId, tasks,
                   broadcast, ownTxs>>

\* Spends the chain records: the nullifiers of `spent` notes.
ConfirmSpends(store, ns, txid) ==
    [n \in DOMAIN store |-> IF n \in ns THEN [store[n] EXCEPT !.spent = txid, !.pending = NoTx]
                                        ELSE store[n]]

\* A broadcast transaction is mined, unless one of its inputs is already
\* spent on chain; sync marks its inputs spent.
ConfirmTx(tx) ==
    /\ tx \in DOMAIN broadcast
    /\ broadcast[tx] \cap DOMAIN notes # {}
    /\ \A n \in broadcast[tx] \cap DOMAIN notes : notes[n].spent = NoTx
    /\ notes' = ConfirmSpends(notes, broadcast[tx], tx)
    /\ UNCHANGED <<file, restarts, blocks, verifiedTree, progress, pc, sel, selecting, sends, progId, tasks,
                   broadcast, ownTxs>>

\* Sync finds a wallet note spent by a transaction built elsewhere, which
\* the network accepted only because no accepted transaction spends it.
ExternalSpend(n) ==
    /\ ExternalSpends
    /\ n \in DOMAIN notes
    /\ notes[n].spent = NoTx
    /\ n \notin AcceptedInputs
    /\ broadcast' = (ExtTx :> (AcceptedBy(ExtTx) \cup {n})) @@ broadcast
    /\ notes' = ConfirmSpends(notes, {n}, ExtTx)
    /\ UNCHANGED <<file, restarts, blocks, verifiedTree, progress, pc, sel, selecting, sends, progId, tasks,
                   ownTxs>>

\* clear_all: the block window, then the transaction records.
ClearAll ==
    /\ Clearing
    /\ blocks' = <<>>
    /\ notes' = <<>>
    /\ ownTxs' = {}
    /\ UNCHANGED <<file, restarts, verifiedTree, progress, pc, sel, selecting, sends, progId, tasks, broadcast>>

----
(* The wallet file and restarts                                            *)
----

\* What write() saves of the state this module follows.
Saved == [notes |-> notes, blocks |-> blocks, tree |-> verifiedTree, ownTxs |-> ownTxs]

\* The client saves the wallet with write(), at any time; its reads of the
\* blocks and the records are one step here (WalletState splits them).
\* Only a file that a later restart may read is followed: after the last
\* restart the model allows, a write changes nothing any behaviour observes.
Save ==
    /\ restarts < MaxRestarts
    /\ file' = Saved
    /\ UNCHANGED <<notes, blocks, verifiedTree, progress, pc, sel, selecting, sends, progId,
                   tasks, broadcast, ownTxs, restarts>>

\* The process stops between any two steps and the next one opens the
\* file with LightWallet::read: records, blocks and verified tree as saved,
\* a fresh send_progress (SendProgress::new(0)).  Sends and progress tasks
\* in flight are gone; what was broadcast stays broadcast.
Restart ==
    /\ restarts < MaxRestarts
    /\ notes' = file.notes
    /\ blocks' = file.blocks
    /\ verifiedTree' = file.tree
    /\ ownTxs' = file.ownTxs
    /\ progress' = NewProgress(0)
    /\ pc' = [s \in Senders |-> "idle"]
    /\ sel' = [s \in Senders |-> NothingSelected]
    /\ selecting' = [s \in Senders |-> NotSelecting]
    /\ sends' = [s \in Senders |-> IF pc[s] = "idle" THEN sends[s] ELSE sends[s] + 1]
    /\ tasks' = [t \in SendIds |-> IF tasks[t] = "none" THEN "none" ELSE "done"]
    /\ restarts' = restarts + 1
    /\ UNCHANGED <<progId, broadcast, file>>

----
(* The specification                                                       *)
----

Init ==
    /\ notes = <<>>
    /\ blocks = <<>>
    /\ verifiedTree = FALSE
    /\ progress = NewProgress(0)
    /\ pc = [s \in Senders |-> "idle"]
    /\ sel = [s \in Senders |-> NothingSelected]
    /\ selecting = [s \in Senders |-> NotSelecting]
    /\ sends = [s \in Senders |-> 0]
    /\ progId = [s \in Senders |-> 0]
    /\ tasks = [t \in SendIds |-> "none"]
    /\ broadcast = <<>>
    /\ ownTxs = {}
    /\ file = [notes |-> <<>>, blocks |-> <<>>, tree |-> FALSE, ownTxs |-> {}]
    /\ restarts = 0

Sync ==
    \/ SetInitialBlock \/ NewBlock \/ VerifyTree \/ ClearAll
    \/ \E n \in NoteIds : ReceiveNote(n) \/ ExternalSpend(n)
    \/ \E tx \in SendIds : ConfirmTx(tx)

Next ==
    \/ \E s \in Senders : Start(s) \/ SendStep(s)
    \/ \E t \in SendIds : TaskStep(t)
    \/ Sync
    \/ Save \/ Restart

\* A send in flight is driven to its end by the runtime, and so is a
\* progress task; the user who starts sends and the chain are not.
Fairness ==
    /\ \A s \in Senders : WF_vars(SendStep(s))
    /\ \A t \in SendIds : WF_vars(TaskStep(t))

Spec == Init /\ [][Next]_vars /\ Fairness

----
(* Properties                                                              *)
----

NoteRecords ==
    [pool : Pools, value : Nat, height : Nat, spent : TxIds \cup {NoTx},
     pending : SendIds \cup {NoTx}, key : BOOLEAN, witnesses : Nat]

TypeOK ==
    /\ DOMAIN notes \subseteq NoteIds
    /\ \A n \in DOMAIN notes : notes[n] \in NoteRecords /\ notes[n].pool = Incoming[n].pool
    /\ blocks \in Seq(1..MaxHeight) /\ Len(blocks) <= MaxBlocks
    /\ pc \in [Senders -> PcValues]
    /\ \A s \in Senders : SelectedNotes(sel[s]) \subseteq NoteIds
    /\ sends \in [Senders -> 0..SendsPerSender]
    /\ tasks \in [SendIds -> {"none", "running", "closed", "done"}]
    /\ DOMAIN broadcast \subseteq TxIds
    /\ ownTxs \subseteq SendIds
    /\ \A s \in Senders : selecting[s].target \in Nat /\ selecting[s].utxos \subseteq NoteIds
    /\ DOMAIN file.notes \subseteq NoteIds /\ file.ownTxs \subseteq SendIds
    /\ restarts \in 0..MaxRestarts

\* A selection is returned when a send leaves select_notes_and_utxos.
Selects(s) == pc[s] \in {"select", "selectFirst", "selectSecond"} /\ pc'[s] = "anchor"

\* Spec 4.7 step 10 and 4.5: a send never selects a note that a
\* transaction the network has already accepted spends (a pending or
\* spent note is not eligible, and a note is marked pending once its
\* transaction is out): the window between broadcast_fn and the marking
\* loop of send_to_address_internal is the hazard.
SelectsNoAcceptedInput ==
    [][\A s \in Senders : Selects(s) => SelectedNotes(sel'[s]) \cap AcceptedInputs = {}]_vars

\* Every pending mark names a transaction of this wallet that the network
\* accepted and that spends the note, and no note is pending for one
\* transaction while spent by another: send_to_address_internal marks only
\* after broadcast_fn succeeded, sync's confirmation clears the mark, and
\* neither clear_all with a rescan nor a restart from the last write()
\* brings back a mark the network does not back.
PendingMarksAccepted ==
    \A n \in DOMAIN notes :
        notes[n].pending # NoTx =>
            /\ n \in AcceptedBy(notes[n].pending)
            /\ notes[n].spent \in {NoTx, notes[n].pending}

\* Spec §3: SpendStatus never moves backward from ConfirmedSpent: the
\* marking loop of send_to_address_internal never marks pending a note the
\* chain has already spent.
NeverBackFromConfirmed ==
    [][\A n \in DOMAIN notes \cap DOMAIN notes' :
          notes[n].spent # NoTx => notes'[n].pending = notes[n].pending]_notes

\* A step that changes nothing but pending marks: the marking loop.
MarkingOnly ==
    /\ DOMAIN notes' = DOMAIN notes
    /\ notes' # notes
    /\ \A n \in DOMAIN notes : notes'[n] = [notes[n] EXCEPT !.pending = notes'[n].pending]
    /\ blocks' = blocks

\* The unspent notes a step marks pending.
NewlyPending == {n \in DOMAIN notes : /\ notes[n].pending = NoTx /\ notes[n].spent = NoTx
                                      /\ n \in DOMAIN notes' /\ notes'[n].pending # NoTx}

\* Spec §8: marking a note PendingSpent lowers the spendable balance of its
\* pool by exactly its value: every note the selector's witness tiers let
\* a send take is one spendable_*_balance counts at the anchor height.
MarkReducesSpendable ==
    [][MarkingOnly =>
         \A p \in ShieldedPools :
            SpendableBalance(p)' =
               SpendableBalance(p) - ValueOf(notes, {n \in NewlyPending : notes[n].pool = p})]_vars

\* Spec §7: every failure of a send is returned as an error: no send task
\* dies of a panic (the unwraps of the marking loop).
SendNeverPanics ==
    \A s \in Senders : pc[s] # "panicked"

\* Spec §4.7: a send's reset discards the prior state: while a send builds
\* its transaction and no later send has reset the record, the record says
\* a send is in progress (a progress task of an earlier send could clear it).
InProgressWhileBuilding ==
    \A s \in Senders : pc[s] = "build" /\ progress.id = progId[s] => progress.inProgress

\* When a send has returned and no send has reset the record since, the
\* progress record reports that send's own outcome: its txid if it was
\* broadcast, an error otherwise, never both.
ProgressReportsOutcome ==
    \A s \in Senders :
        pc[s] = "idle" /\ sends[s] > 0 /\ progress.id = progId[s] =>
            IF <<s, sends[s]>> \in DOMAIN broadcast
            THEN progress.lastTxid = <<s, sends[s]>> /\ ~progress.lastError
            ELSE progress.lastError /\ progress.lastTxid = NoTx

\* Every send_to_address call returns (or its task dies of a panic):
\* nothing in the send path waits forever, the progress task included.
SendTerminates ==
    \A s \in Senders : pc[s] # "idle" ~> pc[s] \in {"idle", "panicked"}
=============================================================================
