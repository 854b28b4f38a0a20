-------------------------- MODULE Websocket_proofs --------------------------
(***************************************************************************)
(* For any number of connections, retries and blocks: the websocket's      *)
(* variables have their types, it does not dial again once it has been     *)
(* closed, and it implements the subscription BlockFeed.                   *)
(***************************************************************************)
EXTENDS Websocket, TLAPS

\* A dial that is still tried has not used up its retries.
RetriesLeft == pc = "dialing" => retries <= MaxRetries

\* ws.close sets its flag before it closes a connection, and nobody else closes
\* one: a closed connection is a mark that the flag is set.
FlagFirst ==
    /\ streamPc \in {"loading", "closing", "waiting", "done"} => connectionClosed
    /\ streamPc = "closing" => closing # Nil
    /\ \A c \in Conns : status[c] = "closed" => connectionClosed

\* The message in hand came by a connection, is the one before the next of its subscription and has
\* not been handed over; without one, the last handed over is the last read.
InHand ==
    /\ delivered <= height
    /\ delivered < next
    /\ pc \in {"dialing", "reading"} => bytes = delivered
    /\ pc = "forwarding" =>
         /\ bytes <= height
         /\ next = bytes + 1
         /\ delivered < bytes
         /\ connection # Nil

Inv == TypeOK /\ RetriesLeft
IInv == Inv /\ FlagFirst /\ InHand

\* What a step of BlockFeed's specification does, or nothing.
FeedStep == Feed!Next \/ UNCHANGED Feed!vars

-----------------------------------------------------------------------------
\* At the start nothing is dialled, closed or read.
LEMMA InitIInv == Init => IInv
<1> SUFFICES ASSUME Init PROVE IInv
  OBVIOUS
<1>1. TypeOK
  <2>1. {connectionClosed, stopWs, stopStream} \subseteq BOOLEAN
    BY Zenon DEF Init
  <2>2. height \in 0..MaxHeight /\ next \in 1..(MaxHeight + 1)
    BY BoundsAssumption DEF Init
  <2>3. retries \in 0..(MaxRetries + 1) /\ delivered \in 0..MaxHeight
    BY BoundsAssumption DEF Init
  <2> QED
    BY <2>1, <2>2, <2>3 DEF Init, TypeOK, Nil
<1>2. FlagFirst
  BY DEF Init, FlagFirst
<1>3. RetriesLeft /\ InHand
  BY BoundsAssumption DEF Init, RetriesLeft, InHand
<1> QED
  BY <1>1, <1>2, <1>3 DEF IInv, Inv

\* The node makes a block or ends a connection.
LEMMA NodeKeepsInv ==
  ASSUME IInv, Block \/ Lose
  PROVE  IInv' /\ FeedStep
<1> USE BoundsAssumption
<1>1. CASE Block
  <2>1. IInv'
    BY <1>1 DEF Block, IInv, Inv, TypeOK, RetriesLeft, FlagFirst, InHand, loopVars,
                closeVars, streamVars, Conns, Nil
  <2>2. Feed!Block
    BY <1>1 DEF Block, Feed!Block, Cursor, loopVars, streamVars
  <2> QED
    BY <2>1, <2>2 DEF FeedStep, Feed!Next
<1>2. CASE Lose
  <2>1. IInv'
    BY <1>2 DEF Lose, IInv, Inv, TypeOK, RetriesLeft, FlagFirst, InHand, loopVars,
                closeVars, streamVars, Conns, Nil
  <2>2. UNCHANGED Feed!vars
    BY <1>2 DEF Lose, Feed!vars, Cursor, loopVars, streamVars
  <2> QED
    BY <2>1, <2>2 DEF FeedStep
<1> QED
  BY <1>1, <1>2

\* connect: a subscription begins anew, or a dial fails.
LEMMA DialKeepsInv ==
  ASSUME IInv, Dial
  PROVE  IInv' /\ FeedStep
<1> USE BoundsAssumption
<1>1. ASSUME NEW c \in Conns, Connected(c)
      PROVE  IInv' /\ FeedStep
  <2>1. IInv'
    BY <1>1 DEF Connected, IInv, Inv, TypeOK, RetriesLeft, FlagFirst, InHand,
                closeVars, streamVars, Conns, Nil
  <2>2. Feed!Subscribe
    BY <1>1 DEF IInv, InHand, Connected, Feed!Subscribe, Cursor, streamVars
  <2> QED
    BY <2>1, <2>2 DEF FeedStep, Feed!Next
<1>2. ASSUME NEW opened \in SUBSET Conns, DialFails(opened)
      PROVE  IInv' /\ FeedStep
  <2>1. IInv'
    BY <1>2 DEF DialFails, IInv, Inv, TypeOK, RetriesLeft, FlagFirst, InHand,
                closeVars, streamVars, Conns, Nil
  <2>2. UNCHANGED Feed!vars
    BY <1>2 DEF DialFails, Feed!vars, Cursor, streamVars
  <2> QED
    BY <2>1, <2>2 DEF FeedStep
<1> QED
  BY <1>1, <1>2 DEF Dial

\* ws.loop reads the next block of its connection, or finds it gone.
LEMMA ReadKeepsInv ==
  ASSUME IInv, Read \/ ReadFails
  PROVE  IInv' /\ FeedStep
<1> USE BoundsAssumption
<1>1. CASE Read
  <2>1. IInv'
    BY <1>1 DEF Read, IInv, Inv, TypeOK, RetriesLeft, FlagFirst, InHand, closeVars,
                streamVars, Conns, Nil
  <2>2. UNCHANGED Feed!vars
    BY <1>1 DEF IInv, Inv, TypeOK, InHand, Read, Feed!vars, Cursor, streamVars
  <2> QED
    BY <2>1, <2>2 DEF FeedStep
<1>2. CASE ReadFails
  <2>1. IInv'
    BY <1>2 DEF ReadFails, IInv, Inv, TypeOK, RetriesLeft, FlagFirst, InHand, nodeVars,
                closeVars, streamVars, Conns, Nil
  <2>2. UNCHANGED Feed!vars
    BY <1>2 DEF ReadFails, Feed!vars, Cursor, nodeVars, streamVars
  <2> QED
    BY <2>1, <2>2 DEF FeedStep
<1> QED
  BY <1>1, <1>2

\* ws.loop hands the message to a stream that waits for it, or drops it.
LEMMA SendKeepsInv ==
  ASSUME IInv, Forward \/ DropMessage
  PROVE  IInv' /\ FeedStep
<1> USE BoundsAssumption
<1>1. CASE Forward
  <2>1. IInv'
    BY <1>1 DEF Forward, IInv, Inv, TypeOK, RetriesLeft, FlagFirst, InHand, nodeVars,
                closeVars, streamVars, Conns, Nil
  <2>2. Feed!Deliver
    BY <1>1 DEF IInv, Inv, TypeOK, InHand, Forward, Feed!Deliver, Cursor, nodeVars
  <2> QED
    BY <2>1, <2>2 DEF FeedStep, Feed!Next
<1>2. CASE DropMessage
  <2>1. IInv'
    BY <1>2 DEF DropMessage, IInv, Inv, TypeOK, RetriesLeft, FlagFirst, InHand, nodeVars,
                closeVars, streamVars, Conns, Nil
  <2>2. UNCHANGED Feed!vars
    BY <1>2 DEF DropMessage, Feed!vars, Cursor, nodeVars, streamVars
  <2> QED
    BY <2>1, <2>2 DEF FeedStep
<1> QED
  BY <1>1, <1>2

\* votingPeriodStartedLoop: it is told to stop, or is done with a message.
LEMMA StreamKeepsInv ==
  ASSUME IInv, StreamClose \/ Handle
  PROVE  IInv' /\ FeedStep
<1> USE BoundsAssumption
<1>1. CASE StreamClose
  <2>1. IInv'
    BY <1>1 DEF StreamClose, IInv, Inv, TypeOK, RetriesLeft, FlagFirst, InHand, nodeVars,
                loopVars, streamVars, Conns, Nil
  <2>2. UNCHANGED Feed!vars
    BY <1>1 DEF StreamClose, Feed!vars, Cursor, nodeVars, loopVars, streamVars
  <2> QED
    BY <2>1, <2>2 DEF FeedStep
<1>2. CASE Handle
  <2>1. IInv'
    BY <1>2 DEF Handle, IInv, Inv, TypeOK, RetriesLeft, FlagFirst, InHand, nodeVars,
                loopVars, closeVars, Conns, Nil
  <2>2. Feed!Return
    BY <1>2 DEF Handle, Feed!Return, Cursor, nodeVars, loopVars
  <2> QED
    BY <2>1, <2>2 DEF FeedStep, Feed!Next
<1> QED
  BY <1>1, <1>2

\* ws.close: the flag, the load, the close and the wait.
LEMMA CloseKeepsInv ==
  ASSUME IInv, CloseStep
  PROVE  IInv' /\ FeedStep
<1> USE BoundsAssumption DEF CloseStep
<1>1. IInv'
  <2>1. CASE StreamExit
    BY <2>1 DEF StreamExit, IInv, Inv, TypeOK, RetriesLeft, FlagFirst, InHand, nodeVars,
                loopVars, Conns, Nil
  <2>2. CASE MarkClosed
    BY <2>2 DEF MarkClosed, IInv, Inv, TypeOK, RetriesLeft, FlagFirst, InHand, nodeVars,
                loopVars, Conns, Nil
  <2>3. CASE LoadConnection
    BY <2>3 DEF LoadConnection, IInv, Inv, TypeOK, RetriesLeft, FlagFirst, InHand,
                nodeVars, loopVars, Conns, Nil
  <2>4. CASE CloseConnection
    BY <2>4 DEF CloseConnection, IInv, Inv, TypeOK, RetriesLeft, FlagFirst, InHand,
                loopVars, closeVars, Conns, Nil
  <2>5. CASE CloseReturn
    BY <2>5 DEF CloseReturn, IInv, Inv, TypeOK, RetriesLeft, FlagFirst, InHand, nodeVars,
                loopVars, closeVars, Conns, Nil
  <2> QED
    BY <2>1, <2>2, <2>3, <2>4, <2>5
<1>2. UNCHANGED Feed!vars
  BY DEF StreamExit, MarkClosed, LoadConnection, CloseConnection, CloseReturn,
         Feed!vars, Cursor, nodeVars, loopVars
<1> QED
  BY <1>1, <1>2 DEF FeedStep

\* Every step keeps the invariant, and is a step of BlockFeed or none.
LEMMA NextKeepsInv ==
  ASSUME IInv, [Next]_vars
  PROVE  IInv' /\ FeedStep
<1>1. CASE Next
  BY <1>1, NodeKeepsInv, DialKeepsInv, ReadKeepsInv, SendKeepsInv, StreamKeepsInv,
     CloseKeepsInv
     DEF Next
<1>2. CASE UNCHANGED vars
  BY <1>2 DEF vars, nodeVars, loopVars, closeVars, streamVars, IInv, Inv, TypeOK,
              RetriesLeft, FlagFirst, InHand, FeedStep, Feed!vars, Cursor
<1> QED
  BY <1>1, <1>2

\* A failed read of a connection that ws.close closed ends the loop, since the
\* flag was set first; no other step leaves "reading" for a dial.
LEMMA NextNoRedial ==
  ASSUME IInv, [Next]_vars, pc = "reading", status[connection] = "closed"
  PROVE  pc' # "dialing"
<1>1. connectionClosed
  BY DEF IInv, Inv, TypeOK, FlagFirst, Conns, Nil
<1> QED
  BY <1>1 DEF Next, Block, Lose, Dial, Connected, DialFails, Read, ReadFails, Forward,
              DropMessage, StreamClose, Handle, CloseStep, StreamExit, MarkClosed,
              LoadConnection, CloseConnection, CloseReturn, vars, loopVars

-----------------------------------------------------------------------------
\* The invariant holds throughout.
LEMMA Invariance == Spec => []IInv
<1>1. IInv /\ [Next]_vars => IInv'
  BY NextKeepsInv
<1> QED
  BY InitIInv, <1>1, PTL DEF Spec

\* The variables have their types; in particular ws.loop never reads from a nil
\* connection, and connect stops at the last retry.
THEOREM TypeCorrect == Spec => []TypeOK
<1>1. IInv => TypeOK
  BY DEF IInv, Inv
<1> QED
  BY Invariance, <1>1, PTL

\* Once ws.close has closed the connection the loop reads from, the loop does
\* not dial again.
THEOREM RedialsNever == Spec => NoRedial
<1>1. IInv /\ [Next]_vars
        => [pc = "reading" /\ status[connection] = "closed" => pc' # "dialing"]_vars
  BY NextNoRedial
<1> QED
  BY Invariance, <1>1, PTL DEF Spec, NoRedial

\* What the stream receives is a subscription to the chain: each block of it
\* once, in order and without a gap, whatever connections are lost, dialled
\* again or closed.
THEOREM FeedImplemented == Spec => ImplementsBlockFeed
<1>1. Init => Feed!Init
  BY DEF Init, Feed!Init, Cursor
<1>2. IInv /\ [Next]_vars => [Feed!Next]_(Feed!vars)
  BY NextKeepsInv DEF FeedStep
<1> QED
  BY Invariance, <1>1, <1>2, PTL DEF Spec, ImplementsBlockFeed, Feed!Spec
=============================================================================
