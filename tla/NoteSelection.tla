--------------------------- MODULE NoteSelection ---------------------------
(***************************************************************************)
(* The note selector of LightWallet (src/lib/src/wallet.rs):               *)
(* select_notes_and_utxos, get_all_domain_specific_notes and               *)
(* add_notes_to_total, as pure operators over a snapshot of the wallet's   *)
(* notes.                                                                  *)
(*                                                                         *)
(* A snapshot `store` is a function from note identifiers to records       *)
(*   [pool, value, spent, pending, key, witnesses]                         *)
(* where spent and pending hold the spending txid of `spent` and          *)
(* `unconfirmed_spent`, or NoTx for None; key says the wallet holds the    *)
(* key of the note's viewing key, and witnesses is `witnesses.len()`.      *)
(* Transparent outputs (Utxo) use only pool, value, spent and pending.     *)
(*                                                                         *)
(* The code sorts candidates with a stable sort of a HashMap iteration, so *)
(* notes of equal value come out in an order the code does not fix: every *)
(* operator that depends on that order takes the iteration order `ord` as *)
(* an argument, and SelectNotesAndUtxos returns the SET of possible        *)
(* results.                                                                *)
(***************************************************************************)
EXTENDS Integers, Sequences, SequencesExt, FiniteSets, FiniteSetsExt, TLC

CONSTANTS
    AnchorOffset,   \* config.anchor_offset: the confirmation tiers, tried in order
    NoTx            \* the None of `spent` and `unconfirmed_spent`

Pools == {"transparent", "sapling", "orchard"}
ShieldedPools == {"sapling", "orchard"}

\* Sum of the values of a set of notes of the snapshot.
ValueOf(store, ids) == MapThenSumSet(LAMBDA n : store[n].value, ids)

\* Sum of the values of a sequence of distinct notes.
SeqValue(store, s) == ValueOf(store, ToSet(s))

----
(* Transparent value                                                       *)
----

\* get_utxos: every utxo that is not spent; unconfirmed-spent ones included.
Utxos(store) == {n \in DOMAIN store : store[n].pool = "transparent" /\ store[n].spent = NoTx}

\* Mutant: get_utxos taken as it is, pending outputs included.
SelectableUtxosAll(store) == Utxos(store)

\* The filter select_notes_and_utxos adds on top of get_utxos.
SelectableUtxos(store) == {n \in Utxos(store) : store[n].pending = NoTx}

----
(* Shielded candidates, one list per anchor-offset tier                    *)
----

\* Mutant: the unconfirmed_spent filter forgotten.
SpendableIgnoringPending(note, offset) ==
    /\ note.value > 0
    /\ note.spent = NoTx
    /\ note.key
    /\ note.witnesses > offset

\* The filters of get_all_domain_specific_notes together with
\* SpendableNote::from: positive value, neither spent nor pending, the
\* spending key is held, and a witness exists `anchor_offset` blocks back.
Spendable(note, offset) ==
    /\ note.value > 0
    /\ note.spent = NoTx
    /\ note.pending = NoTx
    /\ note.key
    /\ note.witnesses > offset

\* Mutant: the notes of both shielded pools listed for either pool.
IterationOrdersAnyShielded(store, pool) ==
    SetToSeqs({n \in DOMAIN store : store[n].pool \in ShieldedPools})

\* The notes of one pool, as the HashMap iteration may list them.
IterationOrders(store, pool) == SetToSeqs({n \in DOMAIN store : store[n].pool = pool})

\* The candidate list of one tier: the notes that pass the filters, in
\* iteration order, then stably sorted by value (sort_by_key).
TierCandidates(store, ord, offset) ==
    LET pos(n) == CHOOSE i \in 1..Len(ord) : ord[i] = n
        before(x, y) == \/ store[x].value < store[y].value
                        \/ store[x].value = store[y].value /\ pos(x) < pos(y)
    IN SortSeq(SelectSeq(ord, LAMBDA n : Spendable(store[n], offset)), before)

\* get_all_domain_specific_notes: one sorted candidate list per tier.
GetAllDomainSpecificNotes(store, ord) ==
    [i \in 1..Len(AnchorOffset) |-> TierCandidates(store, ord, AnchorOffset[i])]

----
(* add_notes_to_total                                                      *)
----

\* The `scan` of add_notes_to_total: keep taking notes while the running
\* total is below the target.
RECURSIVE ScanToTarget(_, _, _, _)
ScanToTarget(store, s, target, running) ==
    IF s = <<>> \/ running >= target
    THEN <<>>
    ELSE <<Head(s)>> \o ScanToTarget(store, Tail(s), target, running + store[Head(s)].value)

\* The loop of add_notes_to_total: the first tier whose prefix reaches the
\* target wins; when none does, the last tier's prefix is returned.
RECURSIVE AddNotesLoop(_, _, _, _)
AddNotesLoop(store, candidates, target, last) ==
    IF candidates = <<>>
    THEN last
    ELSE LET notes == ScanToTarget(store, Head(candidates), target, 0)
             selected == <<notes, SeqValue(store, notes)>>
         IN IF selected[2] >= target
            THEN selected
            ELSE AddNotesLoop(store, Tail(candidates), target, selected)

\* Mutant: only the first (deepest) tier is ever tried.
AddNotesToTotalFirstTierOnly(store, candidates, target) ==
    LET notes == ScanToTarget(store, candidates[1], target, 0)
    IN <<notes, SeqValue(store, notes)>>

AddNotesToTotal(store, candidates, target) ==
    AddNotesLoop(store, candidates, target, <<<<>>, 0>>)

----
(* select_notes_and_utxos                                                  *)
----

Selection(orchard, sapling, utxos, value) ==
    [orchard |-> orchard, sapling |-> sapling, utxos |-> utxos, value |-> value]

NothingSelected == Selection(<<>>, <<>>, {}, 0)

\* The shielded pool select_notes_and_utxos reads first, and second.
FirstPool(prefer) == IF prefer THEN "sapling" ELSE "orchard"
SecondPool(prefer) == IF prefer THEN "orchard" ELSE "sapling"

\* The first shielded read: the candidates of the first pool, listed in
\* iteration order ord, added up to what the transparent value leaves.
FirstRead(store, ord, target, t) ==
    AddNotesToTotal(store, GetAllDomainSpecificNotes(store, ord), target - t)

\* The second read: orchard after sapling is asked for what both leave;
\* sapling after orchard for what the transparent value alone leaves.
SecondRead(store, ord, target, prefer, t, first) ==
    AddNotesToTotal(store, GetAllDomainSpecificNotes(store, ord),
                    IF prefer THEN target - t - first[2] ELSE target - t)

\* The selection returned once the reads a (first pool) and b (second
\* pool) reach the target.
Combine(prefer, a, b, utxos, t) ==
    IF prefer THEN Selection(b[1], a[1], utxos, t + a[2] + b[2])
              ELSE Selection(a[1], b[1], utxos, t + a[2] + b[2])

\* The shielded part of select_notes_and_utxos for given iteration orders
\* of the sapling and orchard notes; utxos and t are the transparent part.
ShieldedSelection(store, target, prefer, utxos, t, sOrd, oOrd) ==
    LET a == FirstRead(store, IF prefer THEN sOrd ELSE oOrd, target, t)
        b == SecondRead(store, IF prefer THEN oOrd ELSE sOrd, target, prefer, t, a)
    IN CASE t + a[2] >= target -> Combine(prefer, a, <<<<>>, 0>>, utxos, t)
         [] t + a[2] + b[2] >= target -> Combine(prefer, a, b, utxos, t)
         [] OTHER -> NothingSelected

\* select_notes_and_utxos(target_amount, transparent_only,
\* shield_transparent, prefer_orchard_over_sapling): the set of results the
\* code can return for this snapshot.
SelectNotesAndUtxos(store, target, transparentOnly, shieldTransparent, prefer) ==
    LET utxos == IF transparentOnly \/ shieldTransparent THEN SelectableUtxos(store) ELSE {}
        t == ValueOf(store, utxos)
    IN IF transparentOnly \/ t >= target
       THEN {Selection(<<>>, <<>>, utxos, t)}
       ELSE {ShieldedSelection(store, target, prefer, utxos, t, sOrd, oOrd) :
                sOrd \in IterationOrders(store, "sapling"),
                oOrd \in IterationOrders(store, "orchard")}

\* Every note a selection consumes.
SelectedNotes(sel) == ToSet(sel.orchard) \cup ToSet(sel.sapling) \cup sel.utxos
=============================================================================
