-------------------------- MODULE MCNoteSelection --------------------------
(***************************************************************************)
(* Checks the note selector against reference definitions over every       *)
(* snapshot of three notes drawn from NoteKinds, every target in Targets   *)
(* and every combination of the three flags.  The state is one query:      *)
(* its inputs and one result the code can return for them.                *)
(***************************************************************************)
EXTENDS NoteSelection

CONSTANTS NoteIds, Targets, Tx   \* Tx: the txid of some earlier spend

\* Two tiers: a deeper one tried first, then one needing a single witness.
MCAnchorOffset == <<1, 0>>

\* Note identifiers are interchangeable: every property quantifies over them.
Symmetry == Permutations(NoteIds)

\* The note records a snapshot is made of: transparent outputs unspent,
\* pending or spent; shielded notes of both pools with one or two
\* witnesses, and the pending, key-less and zero-value ones.
NoteKinds ==
    {[pool |-> "transparent", value |-> v, spent |-> NoTx, pending |-> NoTx,
      key |-> TRUE, witnesses |-> 0] : v \in {1, 2}}
    \cup {[pool |-> "transparent", value |-> 1, spent |-> IF s THEN Tx ELSE NoTx, pending |-> IF s THEN NoTx ELSE Tx,
           key |-> TRUE, witnesses |-> 0] : s \in BOOLEAN}
    \cup {[pool |-> p, value |-> v, spent |-> NoTx, pending |-> NoTx,
           key |-> TRUE, witnesses |-> w] : p \in ShieldedPools, v \in {1, 2}, w \in {1, 2}}
    \cup {[pool |-> p, value |-> v, spent |-> NoTx, pending |-> IF k THEN Tx ELSE NoTx,
           key |-> ~z, witnesses |-> 2] : p \in ShieldedPools, v \in {0, 1}, k, z \in BOOLEAN}

VARIABLES store, target, transparentOnly, shieldTransparent, prefer, result

vars == <<store, target, transparentOnly, shieldTransparent, prefer, result>>

Results == SelectNotesAndUtxos(store, target, transparentOnly, shieldTransparent, prefer)

Init ==
    /\ store \in [NoteIds -> NoteKinds]
    /\ target \in Targets
    /\ transparentOnly \in BOOLEAN
    /\ shieldTransparent \in BOOLEAN
    /\ prefer \in BOOLEAN
    /\ result \in Results

\* Run the selector again on the same inputs: any possible result.
Select == /\ result' \in Results
          /\ UNCHANGED <<store, target, transparentOnly, shieldTransparent, prefer>>

Spec == Init /\ [][Select]_vars

----
(* Reference definitions, written from the spec's §4.4-4.5 and §8          *)
----

\* A shielded note can pay if it is live, keyed and witnessed deep enough
\* for the most permissive tier.
Eligible(n) ==
    /\ store[n].pool \in ShieldedPools
    /\ store[n].value > 0
    /\ store[n].spent = NoTx /\ store[n].pending = NoTx
    /\ store[n].key
    /\ store[n].witnesses >= 1 + Min(ToSet(AnchorOffset))

\* Transparent outputs a payment may use under the flags.
UsableUtxos ==
    IF transparentOnly \/ shieldTransparent
    THEN {n \in NoteIds : store[n].pool = "transparent" /\ store[n].spent = NoTx /\ store[n].pending = NoTx}
    ELSE {}

EligibleTotal ==
    ValueOf(store, UsableUtxos)
    + IF transparentOnly THEN 0 ELSE ValueOf(store, {n \in NoteIds : Eligible(n)})

TypeOK ==
    /\ store \in [NoteIds -> NoteKinds]
    /\ result.value \in Nat
    /\ result.utxos \subseteq NoteIds
    /\ \A p \in ShieldedPools :
          \A i \in 1..Len(result[p]) : store[result[p][i]].pool = p

\* select_notes_and_utxos reaches the target exactly when the eligible
\* value does; a shortfall returns nothing at all (spec §4.5 step 4),
\* except that a transparent-only query returns its outputs alone (step 1).
SelectionComplete ==
    /\ result.value >= target <=> EligibleTotal >= target
    /\ result.value < target /\ ~transparentOnly => result = NothingSelected

\* A successful selection consumes only usable outputs and eligible notes,
\* never one twice, and reports exactly their total as the selected value.
SelectionSound ==
    result.value >= target =>
        /\ \A n \in ToSet(result.sapling) \cup ToSet(result.orchard) : Eligible(n)
        /\ result.utxos \subseteq UsableUtxos
        /\ Len(result.sapling) + Len(result.orchard) = Cardinality(ToSet(result.sapling) \cup ToSet(result.orchard))
        /\ result.value = ValueOf(store, SelectedNotes(result))
        /\ transparentOnly => result.sapling = <<>> /\ result.orchard = <<>>

\* Spec §4.5 step 2: each pool takes the minimal prefix reaching the
\* REMAINING target, so when both shielded pools contribute, dropping the
\* last note of the pool consulted last leaves the total below the target.
LastPoolMinimal ==
    LET lastPool == IF prefer THEN result.orchard ELSE result.sapling
        firstPool == IF prefer THEN result.sapling ELSE result.orchard
    IN  (lastPool # <<>> /\ firstPool # <<>>) =>
            result.value - store[Last(lastPool)].value < target
=============================================================================
