---- MODULE MCTransactionRecord ----
(***************************************************************************)
(* Checks the TransactionRecord queries, accounting and serialization      *)
(* against reference definitions over every record with at most one       *)
(* output per pool drawn from the output kinds below, with or without     *)
(* outgoing data and spent transparent value, confirmed or not, and every *)
(* record add_spent_nullifier makes of it.                                 *)
(***************************************************************************)
EXTENDS TransactionRecord, TLC

CONSTANTS Tx, Nullifiers, MaxNullifiers

\* Shielded notes: indexed or not, every spend status, change or not; a
\* note with an index has a witnessed position.
ShieldedKinds ==
    [value : {1, 2}, index : {0, NoIndex}, status : {"unspent", "pending", "spent"}, change : BOOLEAN]

Note(k) == [value |-> k.value, index |-> k.index, status |-> k.status, change |-> k.change,
            witnessed |-> k.index # NoIndex]

\* Transparent outputs always carry their output index.
Utxo(s) == [value |-> 1, index |-> 0, status |-> s, change |-> FALSE, witnessed |-> FALSE]

AtMostOne(S) == {<<>>} \cup {<<x>> : x \in S}

Queries == {Stipulations(a, b, c, d, e, f) : a, b, c, d, e, f \in BOOLEAN}

VARIABLE rec

Init ==
    rec \in {[New([height |-> 1, confirmed |-> c], 0, Tx) EXCEPT
                 !.sapling_notes = s, !.orchard_notes = o, !.transparent_outputs = t,
                 !.total_transparent_value_spent = ts, !.outgoing_tx_data = og] :
               c \in BOOLEAN,
               s \in AtMostOne({Note(k) : k \in ShieldedKinds}),
               o \in AtMostOne({Note(k) : k \in ShieldedKinds}),
               t \in AtMostOne({Utxo(st) : st \in {"unspent", "pending", "spent"}}),
               ts \in {0, 1},
               og \in {<<>>, <<2>>}}

\* Sync records a nullifier of this wallet spent in the transaction.
SpendNullifier ==
    /\ Len(rec.spent_sapling_nullifiers) + Len(rec.spent_orchard_nullifiers) < MaxNullifiers
    /\ \E pool \in {"sapling", "orchard"}, nf \in Nullifiers, value \in {1, 2} :
          rec' = AddSpentNullifier(rec, pool, nf, value)

Spec == Init /\ [][SpendNullifier]_rec

----
(* Reference definitions                                                   *)
----

\* The outputs of a pool a query selects.
Selected(pool, q) == {i \in 1..Len(Outputs(rec, pool)) : q[pool] /\ q[Outputs(rec, pool)[i].status]}

Output == [value : {1, 2}, index : {0, NoIndex}, status : {"unspent", "pending", "spent"},
           change : BOOLEAN, witnessed : BOOLEAN]

TypeOK ==
    /\ \A pool \in Pools : \A i \in 1..Len(Outputs(rec, pool)) : Outputs(rec, pool)[i] \in Output
    /\ rec.total_sapling_value_spent \in Nat /\ rec.total_orchard_value_spent \in Nat
    /\ Len(rec.spent_sapling_nullifiers) + Len(rec.spent_orchard_nullifiers) <= MaxNullifiers

\* query_for_ids names each selected output that has an index once, by
\* its txid, its own pool and its index (an OutputId is how a caller finds
\* the output again).
QueryIdsExact ==
    \A q \in Queries :
        LET ids == QueryForIds(rec, q)
        IN /\ ToSet(ids) = UNION {{<<rec.txid, pool, Outputs(rec, pool)[i].index>> :
                                       i \in {j \in Selected(pool, q) : Outputs(rec, pool)[j].index # NoIndex}} :
                                    pool \in Pools}
           /\ Len(ids) = Cardinality(ToSet(ids))

\* query_for_ids returns one id per selected output that has an index, and
\* for the unspent notes of one shielded pool it names, in order, the
\* same txids and indexes as select_unspent_shnotes_and_ids (the pool each
\* id carries is QueryIdsExact's concern).
QueryIdsAgree ==
    /\ \A q \in Queries :
          Len(QueryForIds(rec, q)) =
              MapThenSumSet(LAMBDA pool : Cardinality({j \in Selected(pool, q) :
                                                         Outputs(rec, pool)[j].index # NoIndex}), Pools)
    /\ \A pool \in {"sapling", "orchard"} :
          LET ids == QueryForIds(rec, Stipulations(TRUE, FALSE, FALSE, FALSE, pool = "sapling", pool = "orchard"))
              sel == SelectUnspentShnotesAndIds(rec, pool)
          IN [i \in 1..Len(ids) |-> <<ids[i][1], ids[i][3]>>] = [i \in 1..Len(sel) |-> <<sel[i][2][1], sel[i][2][3]>>]

\* query_sum_value is additive over spend statuses: for any query, its sum
\* and the sum of the query asking for the other statuses of the same
\* pools add up to the value those pools received (pool_value_received),
\* and the query asking for everything is total_value_received.
QuerySumPartitions ==
    /\ \A q \in Queries :
          LET other == [q EXCEPT !.unspent = ~q.unspent, !.pending = ~q.pending, !.spent = ~q.spent]
          IN QuerySumValue(rec, q) + QuerySumValue(rec, other) =
                 MapThenSumSet(LAMBDA pool : IF q[pool] THEN PoolValueReceived(rec, pool) ELSE 0, Pools)
    /\ TotalValueReceived(rec) = MapThenSumSet(LAMBDA pool : PoolValueReceived(rec, pool), Pools)

\* select_unspent_shnotes_and_ids returns exactly the indexed notes of the
\* pool that are neither spent nor pending, each with the ShNoteId
\* get_received_note finds it by when it is witnessed.
UnspentNotesExact ==
    \A pool \in {"sapling", "orchard"} :
        LET sel == SelectUnspentShnotesAndIds(rec, pool)
        IN /\ {sel[i][1] : i \in 1..Len(sel)} =
                 {n \in ToSet(Outputs(rec, pool)) : n.status = "unspent" /\ n.index # NoIndex}
           /\ \A i \in 1..Len(sel) :
                 sel[i][1].witnessed => GetReceivedNote(rec, pool, sel[i][2][3]) = {<<sel[i][2], sel[i][1]>>}

\* A record written by write and read back by read is the record written.
RoundTrip == Read(Write(rec)) = rec
====
