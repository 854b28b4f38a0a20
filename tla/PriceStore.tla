----------------------------- MODULE PriceStore -----------------------------
(***************************************************************************)
(* What a price provider promises whoever asks it for prices: a price for  *)
(* each symbol, which is valid while it is young. Prices grow old together *)
(* and are renewed, some or all of the symbols at a time; nothing else     *)
(* happens to them. In particular no price is taken away, and none is      *)
(* replaced by an older one.                                               *)
(*                                                                         *)
(* PriceSource implements this module: see Store there.                    *)
(***************************************************************************)
EXTENDS Naturals

CONSTANTS
    Symbols,
    Lifetime,   \* the age at which a price expires
    Nil         \* no price

VARIABLE age    \* of each symbol's price; it stops counting at Lifetime

Valid(s) == age[s] # Nil /\ age[s] < Lifetime

Init == age = [s \in Symbols |-> Nil]

Pass ==
    age' = [s \in Symbols |-> IF Valid(s) THEN age[s] + 1 ELSE age[s]]

Renew(S) == age' = [s \in Symbols |-> IF s \in S THEN 0 ELSE age[s]]

Next == Pass \/ \E S \in SUBSET Symbols : Renew(S)

Spec == Init /\ [][Next]_age
=============================================================================
