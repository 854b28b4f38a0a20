---------------------------- MODULE CommitReveal ----------------------------
(***************************************************************************)
(* What posting prices by commit and reveal promises, whatever the network *)
(* does. One commitment stands at a time. A commitment is opened in public *)
(* only after it has stood, and it counts only while it stands and in the  *)
(* same step as the commitment that replaces it; a commitment may also be  *)
(* replaced or lapse without having counted.                               *)
(*                                                                         *)
(* PricePoster implements this module: see Abstract there.                 *)
(***************************************************************************)
CONSTANTS Hashes, Nil

VARIABLES
    standing,   \* the commitment in the validator's slot, or Nil
    committed,  \* every commitment that has stood
    revealed,   \* every commitment whose opening is public
    counted     \* every commitment whose prices the oracle took

vars == <<standing, committed, revealed, counted>>

Init ==
    /\ standing \in Hashes \union {Nil}
    /\ committed = {standing} \ {Nil}
    /\ revealed = {}
    /\ counted = {}

Stand(h) ==
    /\ standing' = h
    /\ committed' = committed \union {h}

Commit(h) ==
    /\ Stand(h)
    /\ UNCHANGED <<revealed, counted>>

Reveal(h) ==
    /\ h \in committed
    /\ revealed' = revealed \union {h}
    /\ UNCHANGED <<standing, committed, counted>>

CountAndCommit(h) ==
    /\ standing \in revealed
    /\ counted' = counted \union {standing}
    /\ Stand(h)
    /\ UNCHANGED revealed

Lapse ==
    /\ standing # Nil
    /\ standing' = Nil
    /\ UNCHANGED <<committed, revealed, counted>>

Next == Lapse \/ \E h \in Hashes : Commit(h) \/ Reveal(h) \/ CountAndCommit(h)

Spec == Init /\ [][Next]_vars
=============================================================================
