----------------------------- MODULE EventRelay -----------------------------
(***************************************************************************)
(* What the event stream promises the feeder: parameters reach it in the   *)
(* order they were read from the chain, each different from the one before *)
(* and none skipped; a voting period is signalled only once parameters are *)
(* known and is handed over exactly once. Only a shutdown drops anything.  *)
(*                                                                         *)
(* EventStream implements this module: see Abstract there.                 *)
(***************************************************************************)
EXTENDS Naturals, Sequences

CONSTANTS Params, Heights, Nil

VARIABLES
    announced,  \* parameters on their way to the feeder, oldest first
    current,    \* the parameters the feeder uses, or Nil
    signal,     \* the voting period waiting for the feeder, or Nil
    handling,   \* the voting period the feeder is posting prices for, or Nil
    stopping    \* whether a shutdown has begun

vars == <<announced, current, signal, handling, stopping>>

Init ==
    /\ announced = <<>>
    /\ current = Nil
    /\ signal = Nil
    /\ handling = Nil
    /\ stopping = FALSE

Latest == IF announced = <<>> THEN current ELSE announced[Len(announced)]

\* After a drop the parameters last announced may be read once more.
Announce(p) ==
    /\ p # Latest \/ stopping
    /\ announced' = Append(announced, p)
    /\ UNCHANGED <<current, signal, handling, stopping>>

Learn ==
    /\ announced # <<>>
    /\ handling = Nil
    /\ current' = Head(announced)
    /\ announced' = Tail(announced)
    /\ UNCHANGED <<signal, handling, stopping>>

Raise(h) ==
    /\ signal = Nil
    /\ Latest # Nil
    /\ signal' = h
    /\ UNCHANGED <<announced, current, handling, stopping>>

Handle ==
    /\ signal # Nil
    /\ handling = Nil
    /\ current # Nil
    /\ handling' = signal
    /\ signal' = Nil
    /\ UNCHANGED <<announced, current, stopping>>

Finish ==
    /\ handling # Nil
    /\ handling' = Nil
    /\ UNCHANGED <<announced, current, signal, stopping>>

Stop ==
    /\ stopping' = TRUE
    /\ UNCHANGED <<announced, current, signal, handling>>

Drop ==
    /\ stopping
    /\ \/ /\ announced # <<>>
          /\ announced' = SubSeq(announced, 1, Len(announced) - 1)
          /\ UNCHANGED signal
       \/ signal' = Nil /\ UNCHANGED announced
    /\ UNCHANGED <<current, handling, stopping>>

Next ==
    \/ \E p \in Params : Announce(p)
    \/ \E h \in Heights : Raise(h)
    \/ Learn \/ Handle \/ Finish \/ Stop \/ Drop

Spec == Init /\ [][Next]_vars
=============================================================================
