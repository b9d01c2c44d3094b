# TLA+ models of the zingolib wallet engine

This directory holds TLA+ models of the wallet engine in `src/lib/src/wallet.rs`
and of its collaborators, with the TLC configurations that check them.
`PROJECT.json` lists:

- every component;
- every run and the properties it checks;
- the mutants that show each property can fail;
- the source lines each definition models;
- the findings;
- the hazards the code is exposed to.

## 1. The system

`LightWallet` is the aggregate root. Each top-level field sits behind its own tokio `RwLock`:

- the key store (`Keys`, behind the transaction context);
- the transaction records (`TransactionMetadataSet`, inside `TxMapAndMaybeTrees`);
- the block window `blocks`, highest block first;
- `verified_tree`;
- `send_progress`;
- `price`;
- `wallet_options`.

The birthday is an `AtomicU64`. The wallet's operations are async methods. They take and release these locks at each `.await`, so any two callers may interleave between awaits.

| Part | Code | Operations that change state | Interacts with |
|---|---|---|---|
| NoteSelector | `select_notes_and_utxos`, `get_all_domain_specific_notes`, `add_notes_to_total`, `get_utxos` | none: reads the records | SendOrchestrator |
| SendOrchestrator | `send_to_address`, `send_to_address_internal`, `reset_send_progress`, `set_send_success`, `set_send_error` | progress record, records (pending marks, own transaction) | NoteSelector, records, progress task, builder, broadcast |
| Progress task | the thread and `tokio::spawn` in `send_to_address_internal` | progress record | SendOrchestrator through a channel |
| BalanceCalculator | `shielded_balance` and the maybe-verified, verified, unverified and spendable variants, `tbalance`, `get_anchor_height` | none | records, blocks, keys |
| Block window | `set_initial_block`, `set_blocks`, `clear_all`, `last_scanned_height` | blocks, records | sync, SendOrchestrator |
| KeyStore imports | `add_imported_tk`, `..._sapling_extsk`, `..._orchard_spending_key`, `..._spend_key`, `..._key`, `update_view_key`, `add_imported_sapling_extfvk`, `adjust_wallet_birthday`, `get_birthday` | keys, birthday | records (birthday), persistence |
| Persistence | `LightWallet::read/write`, `get_birthday`, `TransactionMetadata::read/write` | whole wallet | keys (encrypted/unlocked), blocks, records, a restart |
| TransactionRecord | `query_for_ids`, `query_sum_value`, `get_transaction_fee`, `net_spent`, ... | one record | balances, persistence |
| Chain sync | outside `src/` | blocks, notes, witnesses, spent marks, verified tree | everything above |
| WalletOKey | `orchardkeys.rs` | none (key material) | KeyStore |
| ProxyServer | `zingo-testutils/src/grpc_proxy.rs` (test utility) | `online` flag | tests |

### What is hard in this code

Most of the hard behaviour is the send path racing the rest of the wallet:

- **Selection races.** Selection only reads the records; the inputs are marked `unconfirmed_spent` much later, after the build and after the broadcast. Anything that runs in between can change what the selection assumed: another send, a sync step, `clear_all`.
- **The progress task outlives its send.** Ticks flow from the builder through a thread and a channel into a spawned task. That task is awaited only on the success path.
- **Non-atomic key imports.** The imports check-then-act across separate lock acquisitions. The birthday is read and written non-atomically.
- **Double read guards.** `write` and the change-address code take two read guards of the same fair `RwLock` within one expression.
- **A file written piecewise.** `write` reads keys, blocks, records and the birthday under separate guards, so a rescan in between writes pieces of two different wallets; the next start trusts that file.

The hazards in `PROJECT.json` list these at their lines.

## 2. Modules

| Module | Models | State | Actions |
|---|---|---|---|
| `NoteSelection` | NoteSelector | none: pure operators over a snapshot `store` | `SelectNotesAndUtxos` returns the SET of results the code can return, one per HashMap iteration order of each pool |
| `MCNoteSelection` | test harness for the selector | `store`, inputs, `result` | `Select` re-runs the selector |
| `LightWallet` (EXTENDS `NoteSelection`) | SendOrchestrator, progress task, balances, block window, chain sync | `notes`, `blocks`, `verifiedTree`, `progress`, `pc`, `sel`, `selecting`, `sends`, `progId`, `tasks`, `broadcast`, `ownTxs`, `file`, `restarts` | one per stretch of `send_to_address` between awaits (selection in three), two for the progress task, the sync and maintenance actions, `Save` (`write()`) and `Restart` (`read()`) |
| `MCLightWallet` | constants for TLC | | |
| `WalletState` | KeyStore imports, birthday, encryption calls, `write()` in full, `read()`, `clear_all`, `set_initial_block`, `send_change_to`'s key reads, sync's block scan, a restart | `keys`, `encrypted`, `unlocked`, `birthday`, the lock (`readers`, `queue`), per task `pc`, `op`, `loaded`, `calls`, `wbuf`; `saves`, `blocks`, `txs`, `file`, `restarts` | one per lock acquisition or atomic step of each call, and the environment's `SetInitialBlock`, `ScanBlock`, `Restart` |
| `MCWalletState` | the callers: one user session, and pairs of concurrent tasks | | |
| `TransactionRecord` | TransactionRecord (`src/zingolib/src/wallet/transaction_record.rs`) | none: operators over one record | queries, value accounting, `write` and `read` |
| `MCTransactionRecord` | test harness for the record operators | `rec` | `SpendNullifier` (`add_spent_nullifier`) |

### How `LightWallet` corresponds to the code

- **`notes`** flattens `transaction_metadata_set.current` to its notes and utxos. Each note is a record with these fields:
  - `pool` and `value`;
  - `height`, the block of its transaction;
  - `spent` and `pending`, each `NoTx` or a txid, for `spent` and `unconfirmed_spent`;
  - `key`, whether the wallet holds the spending key;
  - `witnesses`, the value of `witnesses.len()`.
- **`pc[s]`** is the await point sender `s` stands at:
  - `Start` covers `reset_send_progress`;
  - `Check` covers the lock, recipient and address checks and `get_target_height`;
  - `Select`, `SelectFirst` and `SelectSecond` are `select_notes_and_utxos`'s three reads of the records, each under its own read lock: `get_utxos` (returning at once when transparent value suffices or only transparent value may be used), then the preferred shielded pool (sapling when `prefer_orchard_over_sapling`, else orchard) with `add_notes_to_total`, returning when the target is reached, then the other pool. `selecting[s]` holds the locals carried between them. Sync, `clear_all` and the other sender may step between the reads. `SelectReturns` is the caller's insufficient-funds check;
  - `Anchor` covers the orchard anchor or the verified tree;
  - `Outputs` covers the builder inputs, change and outputs, the task spawn and the in-progress record;
  - `Build` and `AwaitProgress` follow;
  - `Broadcast` is `broadcast_fn` and its `?`: the server accepts the transaction only if no transaction it has accepted spends one of its inputs, and may fail anyway; a refused or failed broadcast returns the error before any note is marked;
  - `Mark` is the marking loop. It panics on a missing record after marking the notes before it;
  - `Ingest` covers `scan_full_tx`;
  - `SendSuccess` and `SendError` cover the wrapper's `set_send_success` and `set_send_error`.
- **`tasks[<<s,k>>]`** follows the progress task of send `k` of sender `s`:
  - `running` while the builder holds the channel's sender;
  - `closed` once `build` consumed the builder;
  - `done` after its final write of `is_send_in_progress = false`.
- **`broadcast`** is what the network has accepted: the inputs of every transaction of this wallet the server took, and under `ExtTx` the notes other wallets spent. It is the server's state, which a restart does not touch.
- **`ownTxs`** holds the records `scan_full_tx` adds.
- **The sync actions** are modelled from the spec because that code is not under `src/`:
  - `NewBlock`: a new tip, which extends every shielded witness;
  - `ReceiveNote`;
  - `VerifyTree`;
  - `ConfirmTx`: a broadcast transaction is mined and its inputs become spent;
  - `ExternalSpend`: the same seed spends a note elsewhere; the network accepts that spend only if no accepted transaction spends the note.
- **`ClearAll`** and **`SetInitialBlock`** translate `clear_all` and `set_initial_block`.
- **`file`** is what the last `write()` saved of this state: the records, the block window, the verified tree and the own transactions. `Save` writes it in one step (`WalletState` splits `write()` into its guards; here only the records matter). `Restart` ends the process and opens the wallet with `read()`: every note, block and record comes back as saved, the progress record is `SendProgress::new(0)`, every send in flight ends (counted as done) and every progress task dies. `broadcast` is what the network accepted and survives. At most `MaxRestarts` restarts happen, and a write after the last of them is not followed, since nothing reads it.

Data is abstracted. Addresses, memos, amounts of recipients, proofs and serialized bytes are left out. A transaction is named by its sender and sequence number. The builder and the server are nondeterministic: each step can succeed or fail. The key store is not modelled here: "wallet locked" is one of the input errors of `Check`. A missing transparent key is one of the refusals of `Outputs`.

### How `WalletState` corresponds to the code

- **`keys`** is `tkeys`, `zkeys` and `okeys` as one list of `[pool, material, spend, enc]`. Equal material means an equal key, so an address, a viewing key and a spending key are compared through it. `spend` says the spending key is held, `enc` that `Keys::encrypt` encrypted it.
- **The lock.** Every `keys.read().await` or `keys.write().await` appends a request to `queue`. A request is granted at the head of the queue, and a write only when no read guard is held: tokio's `RwLock` is fair (a FIFO semaphore), so a read queues behind a waiting writer. A guard that is taken, used and dropped within one step is not recorded. `readers` records the one guard held across an await: the first guard of `write()`'s condition.
- **The import steps** follow `add_imported_key`:
  - `EncCheck`: "Can't import ... while wallet is encrypted";
  - `DupCheck`: decode, then "Key already exists" (`Duplicate` holds the key matchers);
  - `BdayLoad` and `BdayStore`: the load and the store of `adjust_wallet_birthday`;
  - `Update`: `update_view_key`, which upgrades a view key in place or pushes;
  - `Push`: the unconditional pushes of `add_imported_tk` and `add_imported_sapling_extfvk`.
- **`Admin`** is `encrypt`, `lock`, `unlock` or `remove_encryption` under the write lock. The `Keys` methods are not under `src/` and follow the spec's Plaintext ⇄ Encrypted{Locked, Unlocked} machine: `encrypt` leaves the wallet locked, and a wrong passphrase changes nothing.
- **`write()`** is one step per guard it takes (`wallet.rs:323-378`):
  - `SaveA`, `SaveB`: the `encrypted && unlocked` check;
  - `SaveKeys`: the version and the keys, into the task's buffer `wbuf[p]`; `saves` records the lock state they were serialized in;
  - `SaveBlocks`: the block window;
  - `SaveTxs`: the records, the chain name and the options;
  - `SaveRest`: `get_birthday` (which reads the records again), the verified tree and the price; the buffer becomes `file`.
  `WalletWrite` is the same field sequence taken at once, and `WalletRead` is `read()` with its version gates (`wallet.rs:202-320`): a later version or another chain is refused, blocks stored before version 15 are reversed, and options, the tree-verified byte, the tree and the price are read or defaulted by version.
- **`txs`** is the set of notes the records hold (a note stands for the record of its transaction, and its height for the record's block); `blocks` is the window of scanned heights, highest first, as in the code.
- **`ClearBlocks`, `ClearTxs`** are `clear_all`'s two write locks, taken one after the other.
- **`options`** is `wallet_options.download_memos`.
  - `SetDownloadMemo` is `set_download_memo`, under the options' own lock.
  - `OptionsWrite` is `WalletOptions::write`: the version, then the option's `u8` discriminant (`MemoCode`).
  - `OptionsRead` is `WalletOptions::read`: a byte that is no discriminant is "Bad download option", and `WalletRead` then fails.
  - `Restart` restores the options from the file, or the default for files before version 24.
- **`ChangeToA`, `ChangeToB`** are the two `keys.read()` guards in the arguments of `send_change_to` (`wallet.rs:1565-1568`): the first lives until the call ends.
- **The environment.** `SetInitialBlock` is `set_initial_block` with the block before `get_birthday`, refused on a non-empty window. `ScanBlock` is sync (not under `src/`) scanning the block after the window's head: the block's notes enter `txs` and the window keeps `MaxBlocks` heights. `Restart` ends the process between any two steps and opens `file` with `WalletRead`; volatile state (guards, queue, tasks' positions) is lost, an encrypted wallet comes back locked. At most `MaxRestarts` restarts happen.
- **`ConcurrentSync`** says whether sync may step between the two halves of `clear_all`. The code has no lock that prevents it; the runs set it `FALSE`, the disagreement below has `TRUE`.

Key decoding is pure; the inputs are valid keys, so the decode errors are left out.

### How `TransactionRecord` corresponds to the code

- A record keeps the struct's fields and names. Each received output is a record `[value, index, status, change, witnessed]`: `index` is `output_index` (`NoIndex` for `None`), `status` the spend status, and `witnessed` says the note has a witnessed position.
- An `OutputQuery` is its six stipulations. `spend_status_query` and `OutputQuery` are not under `src/` and follow their names.
- `Write` is the field sequence `write` emits. `Read` takes each field at the position the version gates of `read` give it. The notes' own `read`/`write` are opaque: a serialized note is the note. Only the current version (23) is ever written, so the older-version branches of `Read` are modelled but never taken.
- `NetSpent` is the set of outcomes `net_spent` can have: the `assert!` panics on a record that is not outgoing; the `u64` subtraction panics in a debug build and wraps in a release build (no profile in the workspace changes `overflow-checks`) when the change exceeds the spent value. Nothing under `src/` calls `net_spent` (its one test call is commented out), so no run asks about it.

## 3. Runs

| Run | Config | Expect | What it shows |
|---|---|---|---|
| `note_selection` | `MCNoteSelection.cfg` | pass | Covers every 3-note snapshot, targets 1..4, all flags and all iteration orders. The selection reaches the target iff the eligible value does (`SelectionComplete`, spec §8). It uses only eligible notes and no note twice, its value is their sum, and transparent-only stays transparent (`SelectionSound`). Each pool's list holds notes of that pool only (`TypeOK`). |
| `send_single_sender` | `MCLightWallet.cfg` | pass | One sender makes two sends against a syncing wallet. See the list below. 147,745 states. |
| `send_recovery` | `MCLightWallet_recovery.cfg` | pass | One send against sync, spends by other wallets, `clear_all` with rescans, `write()` at any time and one restart between any two steps: every pending mark names an accepted transaction of this wallet that spends the note, and no note is pending for one transaction while spent by another (`PendingMarksAccepted`). 7,074,695 states, about 1.6 min. |
| `send_concurrent_senders` | `MCLightWallet_senders.cfg` | violation | The first send is accepted by the server and has not yet marked its inputs; the second send selects in that window and takes the same note (`SelectsNoAcceptedInput`). Its transaction is then refused. |
| `send_clear_during_send` | `MCLightWallet_clear.cfg` | violation | `clear_all` between selection and marking makes the marking loop's `unwrap()` panic after broadcast. |
| `send_stale_progress_task` | `MCLightWallet_progress.cfg` | violation | A failed build leaves its progress task running. The task clears the next send's in-progress flag. |
| `transaction_record` | `MCTransactionRecord.cfg` | pass | Over every record of at most one output per pool, and every query, see the list below. |
| `record_round_trip` | `MCTransactionRecord_roundtrip.cfg` | violation | `write` emits the spent totals as transparent, sapling, orchard; `read` takes them as sapling, transparent, orchard. A record's transparent spent value comes back as sapling spent value. |
| `wallet_state_session` | `MCWalletState.cfg` | pass | One task makes any four calls in turn (every import kind, duplicate imports, every encryption call, `write()`, `clear_all`, `send_change_to`, `set_download_memo`) while sync scans and the process may restart once. See the list below. |
| `wallet_save_deadlock` | `MCWalletState_save_deadlock.cfg` | violation | `write()` holds its first read guard; a `lock()`/`unlock()` write request queues; the second read queues behind it. Neither ever runs. |
| `wallet_birthday_race` | `MCWalletState_birthday.cfg` | violation | Two imports lowering the birthday to 3 and to 1 both load 5 before either stores; the import of 1 stores the activation floor 2 first, and the import of 3 then stores 3: the birthday rises (`BirthdayNonIncreasing`, spec §3). |
| `wallet_rescan_save` | `MCWalletState_rescan.cfg` | violation | `write()` reads the window `<<5,4>>`; `clear_all` runs; `write()` reads the now empty records; the file pairs a scanned window with no notes. After a restart sync resumes at 6, and the note at 5 is never found. |

`wallet_state_session` checks:

- at most one key per pool and material (`NoDuplicateKeys`): the duplicate checks and the in-place upgrade of `update_view_key` work when calls do not overlap;
- every note at or below the window's head is in the records (`ScannedNotesKnown`): what sync scanned is never lost by `clear_all`, `write()` or a restart;
- what `write()` emits for the current state, `read()` restores: keys, encryption, window, records, options and birthday (`RoundTrip`);
- at most one read guard is held across an await (`TypeOK`).

The session has one task, so what the encryption and lock checks of a single call guarantee (`KeysEncryptedWithStore`, `SaveNeverUnlocked`, `BirthdayNonIncreasing`, `AllCallsReturn` in `WalletState`) is left to the runs and reproductions with two overlapping tasks, where those guarantees fail.

`transaction_record` checks:

- `query_sum_value` is additive over spend statuses: a query and its complement add up to the value the stipulated pools received, and `total_value_received` is everything received (`QuerySumPartitions`);
- `select_unspent_shnotes_and_ids` returns exactly the indexed notes that are neither spent nor pending, and `get_received_note` finds each witnessed one by its id (`UnspentNotesExact`);
- `query_for_ids` returns one id per matching output that has an index, and for the unspent shielded query it returns the same outputs as `select_unspent_shnotes_and_ids`, in the same order (`QueryIdsAgree`). The pool tag is the disagreement below.

Other disagreements met while modelling, with no run of their own:

- Nothing in the send path writes the wallet, and `read()` brings every note back as the last `write()` saved it. A restart after a send was broadcast but before the next `write()` loses its pending marks; the next send selects a note of the accepted transaction, and the server refuses what it builds. Spec §4.6 promises durable state across restarts but says nothing about when a send is made durable. Check `MCLightWallet_restart_double.cfg` (`PROPERTY SelectsNoAcceptedInput`, two sends, one restart).

- `write()` serializes an unlocked wallet's keys when an `unlock()` runs between its check and its serialization. Check `SaveNeverUnlocked` with `Procs <- SaveProcs`, `ProcOps <- SaveRaceOps`, `InitEncrypted = TRUE` in `MCWalletState`.
- `clear_all` clears blocks and records under two separate locks (`wallet.rs:741-747`); its comment says the wallet is then to be set up and rescanned. If sync sets the initial block and scans between the two, the second clear drops the notes just scanned and the window claims them. Check `INVARIANT ScannedNotesKnown` with `ConcurrentSync = TRUE` and the constants of `MCWalletState.cfg`.
- `query_for_ids` builds sapling and orchard ids with `PoolType::Transparent` (`transaction_record.rs:131`, `144`), so an id names the wrong pool and can collide with a transparent output's id; the unit test counts ids only. Check `MCTransactionRecord_ids.cfg` (`INVARIANT QueryIdsExact`). The passing run's `QueryIdsAgree` checks everything about the ids except the pool tag.
- In the selector, when orchard falls short, sapling is selected for the whole remaining target, ignoring the orchard value already chosen (`wallet.rs:1243`). Spec §4.5 step 2 says each pool takes the minimal prefix. Check `INVARIANT LastPoolMinimal` with the constants of `MCNoteSelection.cfg`.
- The send path broadcasts (`wallet.rs:1692`) before it marks its inputs pending; spec §4.7 marks first. Sync can record the inputs spent in between, and marking then sets `unconfirmed_spent` on a note already spent (spec §3: never backward from ConfirmedSpent). Check `PROPERTY NeverBackFromConfirmed` with the constants of `MCLightWallet.cfg`.

- `NoDuplicateKeys` and `KeysEncryptedWithStore` fail for two overlapping calls. Use `ProcOps <- ImportRaceOps` (a spending-key and a viewing-key import of one key) or `ProcOps <- EncryptRaceOps` (an import and `encrypt()`) in `MCWalletState`. The pattern is the same check-then-act as in `write()` below.
- `get_anchor_height` returns `height - anchor_offset - 1` (`wallet.rs:823`). When the anchor is clamped, that is one below the oldest retained block, and spec §4.4 says the anchor never precedes it.
- `shielded_balance` drops a note once it is marked pending (`wallet.rs:885`). The maybe-verified balance, which spec §8 calls the gross balance, therefore falls during a send, although the spec says marking leaves it unchanged.

`send_single_sender` checks:

- no selection takes a note that a transaction the network has accepted spends (`SelectsNoAcceptedInput`): the second send sees the first one's pending marks, whichever pools and tiers either uses;
- once a send returns, the progress record reports that send's outcome (`ProgressReportsOutcome`);
- marking lowers each pool's spendable balance by exactly the value it marks (`MarkReducesSpendable`). This ties the selector's witness tiers to the balance's anchor height;
- every send returns (`SendTerminates`).

Every property of a passing run has a mutant in `PROJECT.json`. A mutant is a plausible bug in the code it replaces, and TLC finds the property violated when it is applied:

| Mutant | Bug it stands for |
|---|---|
| `SpendableIgnoringPending` | the pending filter is dropped |
| `SelectableUtxosAll` | the pending utxos of `get_utxos` are used |
| `AddNotesToTotalFirstTierOnly` | only the first tier is tried |
| `IterationOrdersAnyShielded` | notes of the wrong pool are listed |
| `ResetKeepingOutcome` | the reset keeps `last_error` |
| `GetAnchorHeightFirstTier` | `.first()` is used for `.last()` |
| `BuildKeepingChannel` | the builder outlives the build |
| `BroadcastMarkingFirst` | the inputs are marked before `broadcast_fn`, in the order of spec §4.7 step 10, so a refused broadcast leaves them marked |
| `SetInitialBlockUnguarded` | the emptiness check is dropped |
| `UpdateViewKeyAlwaysPush` | `update_view_key` pushes instead of upgrading in place |
| `SaveALeakingGuard` | `write()`'s first guard is never dropped |
| `AddSpentNullifierBoth` | a sapling nullifier is also pushed to the orchard list |
| `QuerySumValueOrchardUnderSapling` | the orchard sum is guarded by the sapling flag |
| `SelectUnspentShnotesAndIdsPending` | `is_spent` is used for `is_spent_or_pending_spent` |
| `ClearBlocksClearingTxs` | `clear_all` clears the records under the blocks lock and leaves its second half to a rescan already running |
| `WalletReadReversingBlocks` | the pre-15 reversal of the window applied to every version |
| `QueryForIdsIgnoringStatus` | the sapling loop of `query_for_ids` drops its spend-status filter |

### Bounds and why they are enough

**`MCNoteSelection`.**

- Three notes, drawn from every kind:
  - transparent: unspent, pending, spent;
  - shielded in either pool, with value 0, 1 or 2;
  - one or two witnesses;
  - with or without a key, pending or not.
- Two tiers `<<1, 0>>`, so the deeper tier can fail and the shallower one succeed.
- Targets 1..4 include every total three notes of value ≤ 2 can fall short of or reach.
- Note ids are symmetric.

**`MCLightWallet`.**

- One sapling note of 2, one orchard note of 1 and a utxo of 1. A send of 1 plus a fee of 1 can then be paid by any pool, by transparent alone, or by two pools.
- Heights stop at 3 and the window keeps 2 blocks, so witnesses reach the second tier and the window rolls over.
- Two sends per sender let a second send see the first one's marks, progress task and record.
- Two senders (one send each) are enough for a selection inside another send's broadcast-to-marking window.
- The recovery run has one send, external spends, `clear_all` and one restart, over a sapling note and an orchard note: the restart and the clear can fall between any two steps of the send (between broadcast and marking included), a rescan can find a note again after the clear, and an external spend can take a selected note before the broadcast, which the server then refuses. Three notes with a restart and `clear_all` together exceed a five-minute run; the utxo path is covered by the other runs. A second send in it loses pending marks across the restart (the disagreement above), so `SelectsNoAcceptedInput` is not among its properties.

**`MCWalletState`.**

- One key material besides the HD key. That is enough for every duplicate, since duplicates are about equal keys.
- Import birthdays 1, 3 and 7 against a wallet born at 5 on a chain activated at 2. They cover lowering the birthday, not lowering it, and the activation floor.
- The session makes four calls, enough for sequences such as encrypt, unlock, write, or a view-key import followed by the spending-key import of the same key. `set_download_memo` sets `NoMemos`, so a write after it saves an option other than the default.
- Each race uses two tasks with one call each: the smallest setting in which the check and the act can be separated.
- Two notes, at the birthday (5) and one block later; heights up to 6 and a window of 2 blocks, so a scan extends the window, rolls it over, and a rescan starts again at 4. One restart: a second one only reopens the same kind of file.

**`MCTransactionRecord`.**

- At most one output per pool, so every pair of pools can meet in one record. Shielded notes range over values 1 and 2, index 0 or none, every spend status, and change or not. A note has a witnessed position exactly when it has an index. The utxo's index is 0, like the shielded index, so ids can collide.
- Transparent spent value 0 or 1, outgoing value none or 2, and one nullifier of value 1 or 2 added in either shielded pool. These cover fees that are positive, zero and negative.
- Every one of the 64 queries, in each state.

The passing runs finish in under 40 s each, except `transaction_record` (about 1 min) and `send_recovery` (about 1.6 min).

### Fairness

`Spec` has weak fairness on every step of a send in flight (`SendStep(s)`) and on the progress task (`TaskStep(t)`). The tokio runtime polls every spawned future that is ready, and the builder, broadcast and lock acquisitions all return.

Starting a send (`Start`) is the user's choice, so it has no fairness. Neither do the chain and sync actions: the chain may stop. `Save` and `Restart` have none either: a client may never write, and a crash is never owed.

`WalletState` has weak fairness on every step of a call in flight (`Step(p)`), but none on starting a call. A step waiting for the lock is not enabled, so fairness cannot hide a deadlock.

The wallet really does stop once its sends are done and the chain stops. The LightWallet configs therefore say `CHECK_DEADLOCK FALSE`, and freedom from blocking is checked as the liveness property `SendTerminates` instead.

## 4. Not modelled

Left out for good:

- `WalletOKey`: cryptographic key material and constant-time equality;
- the price setters: single assignments with no interaction;
- address and memo encoding;
- functions of `wallet.rs` that nothing under `src/` calls: `set_blocks` and `get_blocks` (the reorg handling their comment names is not under `src/`), `fix_spent_at_height`, `last_scanned_hash` and `decrypt_message`;
- the migrations `read()` runs on files of version 14 or older (`remove_unused_taddrs`, `remove_unused_zaddrs`, `set_witness_block_heights`, with `last_scanned_height`). Every file `write()` produces has version 24, so no state of the model reaches them. The address lists they compare against come from `Keys`, which is not under `src/`;
- the test framework: the builders of `mocks.rs` (fixtures), the CLI integration tests (a regtest network) and the example scenarios (scripts). What the unit tests assert of the selector and of `TransactionRecord` falls under the reference checks of `note_selection` and `transaction_record`;
- `ProxyServer` (`zingo-testutils`): a test utility that forwards gRPC calls while an `online` flag is set and spins otherwise. Nothing under `src/` other than tests uses it, the spec does not mention it, and its behaviour is one flag and a wait loop, with no interaction with the wallet's state;
- the verified tree and the price as data: `WalletState` writes and reads their positions but not their contents.
