----------------------------- MODULE Websocket -----------------------------
(***************************************************************************)
(* The websocket to the node (feeder/eventstream/websocket.go): a loop     *)
(* that connects, reads and reconnects, and the close() that the stream's  *)
(* votingPeriodStartedLoop (stream.go) calls as it exits. The two share    *)
(* w.connection without a lock.                                            *)
(*                                                                         *)
(* Connections are numbered in the order they are dialled, 0 is nil. A     *)
(* message is the height of its block; a subscription delivers the blocks  *)
(* made after it, in order. The delays of the backoff are left out.        *)
(***************************************************************************)
EXTENDS Naturals

CONSTANTS
    MaxRetries,     \* dials that may fail in a row, 10 in the code
    MaxConns,       \* bound: connections the node accepts
    MaxHeight       \* bound: blocks the chain makes

ASSUME BoundsAssumption ==
    /\ MaxRetries \in Nat /\ MaxConns \in Nat /\ MaxHeight \in Nat

Nil == 0
Conns == 1..MaxConns

VARIABLES
    status,             \* what became of each connection
    height,             \* height of the chain
    next,               \* the next block on the connection being read
    pc,                 \* where ws.loop is
    retries,            \* failed dials of this connect
    connection,         \* ws.connection
    bytes,              \* the message read last
    connectionClosed,   \* ws.connectionClosed
    stopWs,             \* ws.stopSignal is closed
    stopStream,         \* Stream.stopSignal is closed
    streamPc,           \* where votingPeriodStartedLoop, then ws.close, is
    synced,             \* ws.connection when the stream last heard of the loop
    closing,            \* the connection ws.close loaded
    delivered           \* height of the last message the stream received

nodeVars == <<status, height, next>>
loopVars == <<pc, retries, connection, bytes>>
closeVars == <<connectionClosed, stopWs, stopStream, closing>>
streamVars == <<streamPc, synced, delivered>>
vars == <<nodeVars, loopVars, closeVars, streamVars>>

Init ==
    /\ status = [c \in Conns |-> "unused"]
    /\ height = 0
    /\ next = 1
    /\ pc = "dialing"
    /\ retries = 0
    /\ connection = Nil
    /\ bytes = 0
    /\ connectionClosed = FALSE
    /\ stopWs = FALSE
    /\ stopStream = FALSE
    /\ streamPc = "select"
    /\ synced = Nil
    /\ closing = Nil
    /\ delivered = 0

Alive == pc # "crashed"

-----------------------------------------------------------------------------
(* The node. *)

Block ==
    /\ Alive
    /\ height < MaxHeight
    /\ height' = height + 1
    /\ UNCHANGED <<status, next, loopVars, closeVars, streamVars>>

\* The peer or the network ends the connection.
Lose ==
    /\ Alive
    /\ \E c \in Conns :
         /\ status[c] = "open"
         /\ status' = [status EXCEPT ![c] = "lost"]
    /\ UNCHANGED <<height, next, loopVars, closeVars, streamVars>>

-----------------------------------------------------------------------------
(* ws.loop and connect. *)

NewConn(c) == status[c] = "unused" /\ \A d \in 1..(c - 1) : status[d] # "unused"

\* Mutant of Connected: connect declares a local w.connection.
Connected_Shadowed(c) ==
    /\ pc = "dialing"
    /\ NewConn(c)
    /\ status' = [status EXCEPT ![c] = "open"]
    /\ next' = height + 1
    /\ pc' = "reading"
    /\ UNCHANGED <<height, retries, connection, bytes, closeVars, streamVars>>

\* The dial and its subscription succeed. Nothing closes the old connection.
Connected(c) ==
    /\ pc = "dialing"
    /\ NewConn(c)
    /\ status' = [status EXCEPT ![c] = "open"]
    /\ connection' = c
    /\ next' = height + 1
    /\ pc' = "reading"
    /\ UNCHANGED <<height, retries, bytes, closeVars, streamVars>>

\* The dial fails, or it succeeds and WriteMessage fails: dial returns that
\* connection beside the error, and connect drops it.
DialFails(opened) ==
    /\ pc = "dialing"
    /\ \A c \in opened : NewConn(c)
    /\ status' = [c \in Conns |-> IF c \in opened THEN "orphan" ELSE status[c]]
    /\ retries' = retries + 1
    /\ pc' = IF retries' > MaxRetries THEN "crashed" ELSE "dialing"
    /\ UNCHANGED <<height, next, connection, bytes, closeVars, streamVars>>

\* ReadMessage returns what an open connection holds.
Read ==
    /\ pc = "reading"
    /\ status[connection] = "open"
    /\ next <= height
    /\ bytes' = next
    /\ next' = next + 1
    /\ pc' = "forwarding"
    /\ UNCHANGED <<status, height, retries, connection, closeVars, streamVars>>

\* Mutant of ReadFails: the loop ends on any error.
ReadFails_Returns ==
    /\ pc = "reading"
    /\ status[connection] \in {"lost", "closed"}
    /\ pc' = "exited"
    /\ retries' = 0
    /\ UNCHANGED <<nodeVars, connection, bytes, closeVars, streamVars>>

\* ReadMessage fails: the loop exits if the connection was closed on purpose,
\* and calls connect otherwise.
ReadFails ==
    /\ pc = "reading"
    /\ status[connection] \in {"lost", "closed"}
    /\ pc' = IF connectionClosed THEN "exited" ELSE "dialing"
    /\ retries' = 0
    /\ UNCHANGED <<nodeVars, connection, bytes, closeVars, streamVars>>

\* Mutant of Forward: a message the stream is not waiting for is dropped.
Forward_NoWait ==
    /\ pc = "forwarding"
    /\ IF streamPc = "select"
       THEN delivered' = bytes /\ synced' = connection /\ streamPc' = "handling"
       ELSE UNCHANGED streamVars
    /\ pc' = "reading"
    /\ UNCHANGED <<nodeVars, retries, connection, bytes, closeVars>>

\* The channel has no buffer: the stream receives as the loop sends, and has
\* seen whatever the loop wrote before.
Forward ==
    /\ pc = "forwarding"
    /\ streamPc = "select"
    /\ delivered' = bytes
    /\ synced' = connection
    /\ streamPc' = "handling"
    /\ pc' = "reading"
    /\ UNCHANGED <<nodeVars, retries, connection, bytes, closeVars>>

\* Mutant of DropMessage: the send does not select on the stop signal.
DropMessage_Missing == FALSE

DropMessage ==
    /\ pc = "forwarding"
    /\ stopWs
    /\ pc' = "exited"
    /\ UNCHANGED <<nodeVars, retries, connection, bytes, closeVars, streamVars>>

-----------------------------------------------------------------------------
(* The stream's side: votingPeriodStartedLoop and ws.close. *)

StreamClose ==
    /\ Alive
    /\ ~stopStream
    /\ stopStream' = TRUE
    /\ UNCHANGED <<nodeVars, loopVars, connectionClosed, stopWs, closing, streamVars>>

\* The loop body; it never waits for good (see EventStream).
Handle ==
    /\ Alive
    /\ streamPc = "handling"
    /\ streamPc' = "select"
    /\ UNCHANGED <<nodeVars, loopVars, closeVars, synced, delivered>>

\* The deferred function: waitGroup.Done, by which Stream.Close may return,
\* then ws.close, which closes stopSignal first.
StreamExit ==
    /\ Alive
    /\ streamPc = "select"
    /\ stopStream
    /\ stopWs' = TRUE
    /\ streamPc' = "marking"
    /\ UNCHANGED <<nodeVars, loopVars, connectionClosed, stopStream, closing, synced, delivered>>

\* Mutant of MarkClosed: the flag is stored last, after the connection is closed.
MarkClosed_Last ==
    /\ Alive
    /\ streamPc = "marking"
    /\ streamPc' = "loading"
    /\ UNCHANGED <<nodeVars, loopVars, closeVars, synced, delivered>>

MarkClosed ==
    /\ Alive
    /\ streamPc = "marking"
    /\ connectionClosed' = TRUE
    /\ streamPc' = "loading"
    /\ UNCHANGED <<nodeVars, loopVars, stopWs, stopStream, closing, synced, delivered>>

\* The load races with connect's store: it returns any value the variable has
\* had since the stream last synchronised with the loop.
LoadConnection ==
    /\ Alive
    /\ streamPc = "loading"
    /\ \E c \in synced..connection :
         /\ c \in Conns => status[c] # "orphan"
         /\ closing' = c
         /\ streamPc' = IF c = Nil THEN "waiting" ELSE "closing"
    /\ UNCHANGED <<nodeVars, loopVars, connectionClosed, stopWs, stopStream, synced, delivered>>

CloseConnection ==
    /\ Alive
    /\ streamPc = "closing"
    /\ status' = [status EXCEPT ![closing] = "closed"]
    /\ streamPc' = "waiting"
    /\ UNCHANGED <<height, next, loopVars, closeVars, synced, delivered>>

CloseReturn ==
    /\ streamPc = "waiting"
    /\ pc = "exited"
    /\ streamPc' = "done"
    /\ UNCHANGED <<nodeVars, loopVars, closeVars, synced, delivered>>

-----------------------------------------------------------------------------
Dial == \/ \E c \in Conns : Connected(c) \/ DialFails({c})
        \/ DialFails({})
CloseStep ==
    StreamExit \/ MarkClosed \/ LoadConnection \/ CloseConnection \/ CloseReturn

Next ==
    \/ Block \/ Lose
    \/ Dial \/ Read \/ ReadFails \/ Forward \/ DropMessage
    \/ StreamClose \/ Handle \/ CloseStep

Spec == Init /\ [][Next]_vars

\* Both goroutines go on, a dial returns (the dialer's handshake timeout), a
\* select is fair, and the node either makes blocks or is lost.
FairSpec ==
    /\ Spec
    /\ WF_vars(Block \/ Lose)
    /\ WF_vars(Dial)
    /\ WF_vars(Read) /\ WF_vars(ReadFails)
    /\ SF_vars(Forward) /\ WF_vars(DropMessage)
    /\ WF_vars(Handle) /\ SF_vars(StreamExit)
    /\ WF_vars(MarkClosed) /\ WF_vars(LoadConnection)
    /\ WF_vars(CloseConnection) /\ WF_vars(CloseReturn)

-----------------------------------------------------------------------------
(* Properties. *)

\* Every variable has its type, and the loop reads from a connection it has:
\* ws.loop never dereferences nil.
TypeOK ==
    /\ status \in [Conns -> {"unused", "open", "orphan", "lost", "closed"}]
    /\ height \in 0..MaxHeight
    /\ next \in 1..(MaxHeight + 1)
    /\ pc \in {"dialing", "reading", "forwarding", "exited", "crashed"}
    /\ retries \in 0..(MaxRetries + 1)
    /\ connection \in Conns \union {Nil}
    /\ bytes \in 0..MaxHeight
    /\ {connectionClosed, stopWs, stopStream} \subseteq BOOLEAN
    /\ streamPc \in {"select", "handling", "marking", "loading", "closing",
                     "waiting", "done"}
    /\ {synced, closing} \subseteq Conns \union {Nil}
    /\ delivered \in 0..MaxHeight
    /\ pc = "reading" => connection # Nil

\* The message in hand while it is not handed over, or else the next one.
Cursor == IF bytes # delivered THEN bytes ELSE next

Feed == INSTANCE BlockFeed WITH
    tip    <- height,
    cursor <- Cursor,
    busy   <- streamPc = "handling"

\* Whatever the disconnections, the stream receives each block at most once, in
\* the order of the chain, and without a gap but where a reconnection has
\* subscribed anew; however long it keeps the loop waiting (websocket.go:55-78).
ImplementsBlockFeed == Feed!Spec

\* A block that waits in the subscription does not wait for ever, neither behind
\* a connection that is gone nor behind one that is dialled again: it is handed
\* over, or the new subscription starts after it, until the shutdown or until
\* connect gives up. This is what Daemon assumes of ReceiveBlock
\* (websocket.go:55-78).
NoBlockWaits ==
    \A b \in 1..MaxHeight :
        (Cursor = b /\ b <= height) ~> (Cursor # b \/ stopStream \/ ~Alive)

\* Once ws.close has closed the connection the loop reads, the loop does not
\* take the error for a disconnection and dial again: the flag is set before
\* the connection is closed (websocket.go:114-116, 57-60).
NoRedial ==
    [][pc = "reading" /\ status[connection] = "closed" => pc' # "dialing"]_vars

\* ws.close returns, or connect has given up and ended the process: also when
\* it comes in the middle of a reconnection and closes a connection the loop
\* has left, or none (websocket.go:112-121).
CloseReturns == stopStream ~> (streamPc = "done" \/ pc = "crashed")
=============================================================================
