--------------------------- MODULE TransactionRecord ---------------------------
(***************************************************************************)
(* TransactionRecord (src/zingolib/src/wallet/transaction_record.rs): what *)
(* the wallet knows about one transaction, its queries, its fee and value  *)
(* accounting, and its serialization.                                      *)
(*                                                                         *)
(* A received output is a record [value, index, status, change, witnessed] *)
(* where index is output_index (NoIndex for None), status the spend status *)
(* ("unspent", "pending" or "spent"), change says the note is change and   *)
(* witnessed that it has a witnessed position.  The note types' own        *)
(* serialization is opaque here: a serialized note is the note.            *)
(***************************************************************************)
EXTENDS Integers, Sequences, SequencesExt, FiniteSets, FiniteSetsExt

CONSTANTS
    NoIndex,   \* the None of output_index
    NoPrice    \* the None of price

Pools == {"transparent", "sapling", "orchard"}

\* The received outputs of one pool.
Outputs(rec, pool) ==
    CASE pool = "transparent" -> rec.transparent_outputs
      [] pool = "sapling" -> rec.sapling_notes
      [] OTHER -> rec.orchard_notes

SeqSum(s) == FoldLeft(+, 0, s)

\* The total value of a sequence of outputs.
ValueSum(s) == SeqSum([i \in 1..Len(s) |-> s[i].value])

\* TransactionRecord::new.
New(status, datetime, txid) ==
    [status |-> status, datetime |-> datetime, txid |-> txid,
     spent_sapling_nullifiers |-> <<>>, spent_orchard_nullifiers |-> <<>>,
     sapling_notes |-> <<>>, orchard_notes |-> <<>>, transparent_outputs |-> <<>>,
     total_transparent_value_spent |-> 0, total_sapling_value_spent |-> 0,
     total_orchard_value_spent |-> 0, outgoing_tx_data |-> <<>>, price |-> NoPrice]

\* Mutant: a sapling nullifier recorded in both nullifier lists.
AddSpentNullifierBoth(rec, pool, nullifier, value) ==
    IF pool = "sapling"
    THEN [rec EXCEPT !.spent_sapling_nullifiers = Append(@, nullifier),
                     !.spent_orchard_nullifiers = Append(@, nullifier),
                     !.total_sapling_value_spent = @ + value]
    ELSE [rec EXCEPT !.spent_orchard_nullifiers = Append(@, nullifier),
                     !.total_orchard_value_spent = @ + value]

\* add_spent_nullifier: the nullifier is recorded and its value added to
\* the pool's total.
AddSpentNullifier(rec, pool, nullifier, value) ==
    IF pool = "sapling"
    THEN [rec EXCEPT !.spent_sapling_nullifiers = Append(@, nullifier),
                     !.total_sapling_value_spent = @ + value]
    ELSE [rec EXCEPT !.spent_orchard_nullifiers = Append(@, nullifier),
                     !.total_orchard_value_spent = @ + value]

----
(* Queries                                                                 *)
----

\* An OutputQuery: which spend statuses and which pools it stipulates.
Stipulations(unspent, pending, spent, transparent, sapling, orchard) ==
    [unspent |-> unspent, pending |-> pending, spent |-> spent,
     transparent |-> transparent, sapling |-> sapling, orchard |-> orchard]

\* spend_status_query: the output's status is one the query stipulates.
SpendStatusQuery(note, q) == q[note.status]

\* Mutant: the spend-status filter of the sapling loop dropped.
QueryForIdsIgnoringStatus(rec, q) ==
    LET ids(pool) ==
          LET matching == SelectSeq(Outputs(rec, pool),
                                    LAMBDA n : (pool = "sapling" \/ SpendStatusQuery(n, q)) /\ n.index # NoIndex)
          IN IF q[pool] THEN [i \in 1..Len(matching) |-> <<rec.txid, "transparent", matching[i].index>>]
                        ELSE <<>>
    IN ids("transparent") \o ids("sapling") \o ids("orchard")

\* query_for_ids: one OutputId <<txid, pool, index>> per matching output
\* with an index, pools in the order transparent, sapling, orchard.  Every
\* id is built with PoolType::Transparent.
QueryForIds(rec, q) ==
    LET ids(pool) ==
          LET matching == SelectSeq(Outputs(rec, pool),
                                    LAMBDA n : SpendStatusQuery(n, q) /\ n.index # NoIndex)
          IN IF q[pool] THEN [i \in 1..Len(matching) |-> <<rec.txid, "transparent", matching[i].index>>]
                        ELSE <<>>
    IN ids("transparent") \o ids("sapling") \o ids("orchard")

\* Mutant: the orchard outputs summed under the sapling stipulation.
QuerySumValueOrchardUnderSapling(rec, q) ==
    LET sum(pool, flag) == IF flag THEN ValueSum(SelectSeq(Outputs(rec, pool), LAMBDA n : SpendStatusQuery(n, q)))
                                   ELSE 0
    IN sum("transparent", q.transparent) + sum("sapling", q.sapling) + sum("orchard", q.sapling)

\* query_sum_value: the value of every matching output.
QuerySumValue(rec, q) ==
    LET sum(pool) == IF q[pool] THEN ValueSum(SelectSeq(Outputs(rec, pool), LAMBDA n : SpendStatusQuery(n, q)))
                                ELSE 0
    IN sum("transparent") + sum("sapling") + sum("orchard")

\* Mutant: only spent notes left out; pending ones selected.
SelectUnspentShnotesAndIdsPending(rec, pool) ==
    LET keep == SelectSeq(Outputs(rec, pool), LAMBDA n : n.status # "spent" /\ n.index # NoIndex)
    IN [i \in 1..Len(keep) |-> <<keep[i], <<rec.txid, pool, keep[i].index>>>>]

\* select_unspent_shnotes_and_ids: the notes of a shielded pool that are
\* neither spent nor pending and have an index, with their ShNoteId.
SelectUnspentShnotesAndIds(rec, pool) ==
    LET keep == SelectSeq(Outputs(rec, pool), LAMBDA n : n.status = "unspent" /\ n.index # NoIndex)
    IN [i \in 1..Len(keep) |-> <<keep[i], <<rec.txid, pool, keep[i].index>>>>]

\* get_received_note: the first note of the pool with this index, if it
\* has a witnessed position.
GetReceivedNote(rec, pool, index) ==
    LET found == SelectSeq(Outputs(rec, pool), LAMBDA n : n.index = index)
    IN IF found # <<>> /\ Head(found).witnessed
       THEN {<<<<rec.txid, pool, index>>, Head(found)>>}
       ELSE {}

----
(* Value accounting                                                        *)
----

GetTransparentValueSpent(rec) == rec.total_transparent_value_spent

\* value_spent_by_pool: transparent, sapling, orchard.
ValueSpentByPool(rec) ==
    <<GetTransparentValueSpent(rec), rec.total_sapling_value_spent, rec.total_orchard_value_spent>>

TotalValueSpent(rec) == SeqSum(ValueSpentByPool(rec))

ValueOutgoing(rec) == SeqSum(rec.outgoing_tx_data)

\* D::sum_pool_change: the value of the pool's change notes.
PoolChangeReturned(rec, pool) == ValueSum(SelectSeq(Outputs(rec, pool), LAMBDA n : n.change))

PoolValueReceived(rec, pool) == ValueSum(Outputs(rec, pool))

TotalChangeReturned(rec) == PoolChangeReturned(rec, "sapling") + PoolChangeReturned(rec, "orchard")

TotalValueReceived(rec) == QuerySumValue(rec, Stipulations(TRUE, TRUE, TRUE, TRUE, TRUE, TRUE))

\* get_transaction_fee: spent minus outgoing and change, or a
\* MetadataUnderflow error when that would be negative.
GetTransactionFee(rec) ==
    LET outputted == ValueOutgoing(rec) + TotalChangeReturned(rec)
    IN IF TotalValueSpent(rec) >= outputted
       THEN [ok |-> TRUE, fee |-> TotalValueSpent(rec) - outputted]
       ELSE [ok |-> FALSE, fee |-> 0]

IsOutgoingTransaction(rec) == rec.outgoing_tx_data # <<>> \/ TotalValueSpent(rec) # 0

IsIncomingTransaction(rec) ==
    \/ \E i \in 1..Len(rec.sapling_notes) : ~rec.sapling_notes[i].change
    \/ \E i \in 1..Len(rec.orchard_notes) : ~rec.orchard_notes[i].change
    \/ rec.transparent_outputs # <<>>

\* net_spent: the outcomes the build can produce.  The assert fails on a
\* record that is not outgoing; the u64 subtraction panics in a debug build
\* and wraps in a release build when the change exceeds the spent value.
NetSpent(rec) ==
    IF ~IsOutgoingTransaction(rec) THEN {[kind |-> "panic"]}
    ELSE IF TotalValueSpent(rec) >= TotalChangeReturned(rec)
         THEN {[kind |-> "value", value |-> TotalValueSpent(rec) - TotalChangeReturned(rec)]}
         ELSE {[kind |-> "panic"], [kind |-> "wrap"]}

----
(* Serialization                                                           *)
----

SerializedVersion == 23

\* write: the fields in the order the writer emits them.  The spent totals
\* are written in value_spent_by_pool order; the trailing 0 is
\* full_tx_scanned.
Write(rec) ==
    <<SerializedVersion, rec.status.height, IF rec.status.confirmed THEN 0 ELSE 1,
      rec.datetime, rec.txid, rec.sapling_notes, rec.orchard_notes, rec.transparent_outputs>>
    \o ValueSpentByPool(rec)
    \o <<rec.outgoing_tx_data, 0, rec.price, rec.spent_sapling_nullifiers, rec.spent_orchard_nullifiers>>

\* read: each field is read at the position the version gates give it,
\* and the fields a version lacks take their defaults.
Read(b) ==
    LET v == b[1]
        block == b[2]
        p1 == 3
        unconfirmed == IF v <= 20 THEN FALSE ELSE b[p1] = 1
        p2 == IF v <= 20 THEN p1 ELSE p1 + 1
        datetime == IF v >= 4 THEN b[p2] ELSE 0
        p3 == IF v >= 4 THEN p2 + 1 ELSE p2
        txid == b[p3]
        sapling == b[p3 + 1]
        p4 == p3 + 2
        orchard == IF v > 22 THEN b[p4] ELSE <<>>
        p5 == IF v > 22 THEN p4 + 1 ELSE p4
        utxos == b[p5]
        totalSapling == b[p5 + 1]
        totalTransparent == b[p5 + 2]
        p6 == p5 + 3
        totalOrchard == IF v >= 22 THEN b[p6] ELSE 0
        p7 == IF v >= 22 THEN p6 + 1 ELSE p6
        outgoing == b[p7]
        p8 == p7 + 2
        price == IF v <= 4 THEN NoPrice ELSE b[p8]
        p9 == IF v <= 4 THEN p8 ELSE p8 + 1
        saplingNulls == IF v <= 5 THEN <<>> ELSE b[p9]
        p10 == IF v <= 5 THEN p9 ELSE p9 + 1
        orchardNulls == IF v <= 21 THEN <<>> ELSE b[p10]
    IN [status |-> [height |-> block, confirmed |-> ~unconfirmed], datetime |-> datetime,
        txid |-> txid, spent_sapling_nullifiers |-> saplingNulls,
        spent_orchard_nullifiers |-> orchardNulls, sapling_notes |-> sapling,
        orchard_notes |-> orchard, transparent_outputs |-> utxos,
        total_transparent_value_spent |-> totalTransparent,
        total_sapling_value_spent |-> totalSapling,
        total_orchard_value_spent |-> totalOrchard,
        outgoing_tx_data |-> outgoing, price |-> price]
====
