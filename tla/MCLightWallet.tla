--------------------------- MODULE MCLightWallet ----------------------------
(***************************************************************************)
(* Instantiates LightWallet for TLC: three notes, one per pool, a chain of *)
(* a few blocks, and sends of one unit plus a fee of one.                  *)
(***************************************************************************)
EXTENDS LightWallet

\* A sapling note of 2, an orchard note of 1 and a utxo of 1: any single
\* send of 1 + fee has more than one way to be paid.
MCIncoming ==
    [n \in NoteIds |->
        CASE n = CHOOSE m \in NoteIds : TRUE ->
               [pool |-> "sapling", value |-> 2, key |-> TRUE]
          [] n = CHOOSE m \in NoteIds \ {CHOOSE k \in NoteIds : TRUE} : TRUE ->
               [pool |-> "orchard", value |-> 1, key |-> TRUE]
          [] OTHER -> [pool |-> "transparent", value |-> 1, key |-> TRUE]]

\* Tiers of one and zero blocks of depth beyond the first witness.
MCAnchorOffset == <<1, 0>>
=============================================================================
