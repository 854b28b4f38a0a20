----------------------------- MODULE BlockFeed -----------------------------
(***************************************************************************)
(* What the websocket promises the stream: a subscription is a cursor into *)
(* the chain. From the block it starts at, each block is handed over once, *)
(* in order and without a gap, and only to a receiver that waits for it.   *)
(* Subscribing anew loses the blocks in between and repeats none.          *)
(*                                                                         *)
(* Websocket implements this module (see Feed there); Daemon builds the    *)
(* stream on it.                                                           *)
(***************************************************************************)
EXTENDS Naturals

VARIABLES
    tip,        \* the height of the chain
    cursor,     \* the next block of the subscription
    delivered,  \* the last block handed over, 0 before the first
    busy        \* the receiver is at work on a message

vars == <<tip, cursor, delivered, busy>>

Init ==
    /\ tip = 0
    /\ cursor = 1
    /\ delivered = 0
    /\ busy = FALSE

Block ==
    /\ tip' = tip + 1
    /\ UNCHANGED <<cursor, delivered, busy>>

Subscribe ==
    /\ cursor' = tip + 1
    /\ UNCHANGED <<tip, delivered, busy>>

Deliver ==
    /\ ~busy
    /\ cursor <= tip
    /\ delivered' = cursor
    /\ cursor' = cursor + 1
    /\ busy' = TRUE
    /\ UNCHANGED tip

\* A message that is no block: the answer to the subscription.
DeliverOther ==
    /\ ~busy
    /\ busy' = TRUE
    /\ UNCHANGED <<tip, cursor, delivered>>

Return ==
    /\ busy
    /\ busy' = FALSE
    /\ UNCHANGED <<tip, cursor, delivered>>

Next == Block \/ Subscribe \/ Deliver \/ DeliverOther \/ Return

Spec == Init /\ [][Next]_vars
=============================================================================
