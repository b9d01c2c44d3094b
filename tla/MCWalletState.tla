---- MODULE MCWalletState ----
(***************************************************************************)
(* Instantiates WalletState with the calls of one user session and of the *)
(* concurrent callers a wallet shares its state with: a second import      *)
(* task, an encryption command, a rescan's clear_all and the autosave's    *)
(* write().                                                                *)
(***************************************************************************)
EXTENDS WalletState, TLC

CONSTANTS m1   \* imported key material

\* A wallet born at height 5 on a chain whose sapling activation is 2;
\* imports assert birthdays below, above and under the activation floor.
Imports ==
    {TkImport(m1), SkImport("z", m1, 3), SkImport("o", m1, 7), SkImport("z", HdKey, 1), VkImport(m1, 1)}

Admins == {Call(k) : k \in AdminKinds}

\* Two notes paying the wallet, mined at its birthday and one block later.
MCNotes == {"n5", "n6"}
MCNoteHeight == "n5" :> 5 @@ "n6" :> 6

\* One task makes every call in turn.
UserProcs == {"user"}
UserOps == [p \in UserProcs |-> Imports \cup Admins \cup {Call("save"), Call("clear"), Call("changeTo"), MemoCall("NoMemos")}]

\* Two import tasks, one spending and one viewing key of the same material.
ImportProcs == {"i1", "i2"}
ImportRaceOps == [p \in ImportProcs |-> {SkImport("z", m1, 3), VkImport(m1, 3)}]

\* Two spending-key imports asserting different birthdays.
BirthdayRaceOps == [p \in ImportProcs |->
                      IF p = "i1" THEN {SkImport("z", m1, 3)} ELSE {SkImport("o", m1, 1)}]

\* An import racing an encrypt command.
EncryptProcs == {"import", "admin"}
EncryptRaceOps == [p \in EncryptProcs |->
                     IF p = "import" THEN {SkImport("z", m1, 3)} ELSE {Call("encrypt")}]

\* The autosave's write(), or a send reading the change address, racing an
\* unlock or a lock.
SaveProcs == {"wallet", "admin"}
SaveRaceOps == [p \in SaveProcs |->
                  IF p = "wallet" THEN {Call("save"), Call("changeTo")} ELSE {Call("unlock"), Call("lock")}]

\* The autosave's write() racing the clear_all of a rescan.
RescanProcs == {"save", "rescan"}
RescanRaceOps == [p \in RescanProcs |->
                    IF p = "save" THEN {Call("save")} ELSE {Call("clear")}]
====
