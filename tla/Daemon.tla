------------------------------- MODULE Daemon -------------------------------
(***************************************************************************)
(* The running daemon: the event stream and the feeder (EventStream) read  *)
(* the blocks of the chain through a websocket that keeps its promise      *)
(* (BlockFeed, which Websocket implements), and close the price providers  *)
(* on the way out (PriceSource shows when one of them returns). The poster *)
(* enters by its deadline only: handleVotingPeriod returns.                *)
(***************************************************************************)
EXTENDS Naturals, Sequences

CONSTANTS
    Whitelists, Periods, MaxHeight, Nil,    \* see EventStream
    Providers                               \* the price providers

VARIABLES
    \* the stream and the feeder, see EventStream
    chainParams, params, paramsPc, newParams, paramsChannel, vpPc, blockHeight,
    feederPc, feederParams, handling, stop, stopSignal,
    tip, cursor, delivered, \* the chain and the subscription, see BlockFeed
    running,                \* providers that are not closed
    lastHandled             \* history: the voting period handled last

streamVars  == <<chainParams, params, paramsPc, newParams, paramsChannel, vpPc,
                 blockHeight, feederPc, feederParams, handling, stop, stopSignal>>
feedVars    == <<tip, cursor, delivered>>
processVars == <<running, lastHandled>>

Stream == INSTANCE EventStream
Feed   == INSTANCE BlockFeed WITH busy <- vpPc \in {"check", "send"}

vars == <<streamVars, feedVars, processVars>>

Exited == Stream!Exited

Init ==
    /\ Stream!Init
    /\ Feed!Init
    /\ running = Providers
    /\ lastHandled = 0

-----------------------------------------------------------------------------
(* External: the chain and the connection to it. *)

NewBlock ==
    /\ tip < MaxHeight
    /\ UNCHANGED <<streamVars, processVars>>
    /\ Feed!Block

\* A connection is lost; the next one starts at the chain's tip.
Reconnect ==
    /\ cursor <= tip
    /\ UNCHANGED <<streamVars, processVars>>
    /\ Feed!Subscribe

\* The websocket gives up dialling, and Fatal ends the process.
Fatal ==
    /\ feederPc' = "panicked"
    /\ UNCHANGED <<chainParams, params, paramsPc, newParams, paramsChannel, vpPc,
                   blockHeight, feederParams, handling, stop, stopSignal, feedVars, processVars>>

-----------------------------------------------------------------------------
(* The stream and the feeder. *)

ReceiveBlock ==
    /\ ~Exited
    /\ Stream!ReceiveMessage
    /\ Feed!Deliver
    /\ blockHeight' = delivered'
    /\ UNCHANGED processVars

ReceiveOther ==
    /\ Stream!ReceiveMessage
    /\ Feed!DeliverOther
    /\ blockHeight' = 0
    /\ UNCHANGED processVars

SendVotingPeriod ==
    /\ Stream!SendVotingPeriod
    /\ lastHandled' = IF handling' # Nil THEN handling' ELSE lastHandled
    /\ UNCHANGED <<feedVars, running>>

\* Every other step of the stream's loops and of the feeder but its last.
Alone(A) == ~Exited /\ A /\ UNCHANGED <<feedVars, processVars>>

Loops ==
    \/ Alone(Stream!ParamsLoop)
    \/ Alone(Stream!CheckHeight)
    \/ Alone(Stream!DropVotingPeriod)
    \/ Alone(Stream!VpLoopExit)

Feeder ==
    \/ Alone(Stream!InitParams)
    \/ Alone(Stream!InitTimeout)
    \/ Alone(Stream!UpdateParams)
    \/ Alone(Stream!Handled)
    \/ Alone(Stream!FeederStop)

-----------------------------------------------------------------------------
(* The shutdown. *)

\* Stream.Close has returned.
StreamClosed == feederPc = "closing" /\ paramsPc = "done" /\ vpPc = "done"

\* Feeder.close goes on to the providers and closes them one after the other,
\* in any order.
CloseProvider ==
    /\ StreamClosed
    /\ \E p \in running : running' = running \ {p}
    /\ UNCHANGED <<streamVars, feedVars, lastHandled>>

\* It closes done, Feeder.Close returns and the handler of the interrupt exits.
FeederClosed ==
    /\ running = {}
    /\ Alone(Stream!FeederClosed)

Next ==
    \/ ~Exited /\ \/ NewBlock \/ Reconnect \/ Fatal
                  \/ ReceiveBlock \/ ReceiveOther \/ SendVotingPeriod
                  \/ Loops \/ Feeder \/ CloseProvider \/ FeederClosed
                  \/ Alone(Stream!ChangeParams) \/ Alone(Stream!Close)
    \/ Exited /\ UNCHANGED vars

Spec == Init /\ [][Next]_vars

\* Go picks at random among the ready cases of a select: a case that is ready
\* again and again is taken at some time (strong fairness); with it, a block
\* the node has sent is read. Everything else only has to go on: SendPrices has
\* a deadline of 15s, a provider's Close returns (PriceSource!CloseReturns,
\* provided that its fetches do). Blocks, changes, failures, reconnections and
\* the interrupt need not come; a query of the params that is tried again and
\* again is answered at some time.
Fairness ==
    /\ WF_vars(Alone(Stream!Tick))
    /\ SF_vars(Alone(Stream!FetchParams))
    /\ WF_vars(Alone(Stream!SwapParams))
    /\ SF_vars(Alone(Stream!SendParams))
    /\ WF_vars(Alone(Stream!DropParams))
    /\ SF_vars(Alone(Stream!ParamsLoopExit))
    /\ SF_vars(ReceiveBlock)
    /\ WF_vars(Alone(Stream!CheckHeight))
    /\ SF_vars(SendVotingPeriod)
    /\ WF_vars(Alone(Stream!DropVotingPeriod))
    /\ SF_vars(Alone(Stream!VpLoopExit))
    /\ SF_vars(Alone(Stream!UpdateParams))
    /\ WF_vars(Alone(Stream!InitParams \/ Stream!InitTimeout))
    /\ WF_vars(Alone(Stream!Handled))
    /\ SF_vars(Alone(Stream!FeederStop))
    /\ WF_vars(CloseProvider)
    /\ WF_vars(FeederClosed)

FairSpec == Spec /\ Fairness

-----------------------------------------------------------------------------
(* Properties. *)

\* The feeder handles voting periods in the order of the chain and none twice,
\* over reconnections, changes of the parameters and a feeder that is slower
\* than the chain: the poster, which remembers one prevote, relies on it
\* (stream.go:110-115, client.go:135).
VotingPeriodsAdvance ==
    [][handling' # handling => handling' = Nil \/ handling' > lastHandled]_vars

\* A block that ends a voting period, made while the stream has the params and
\* a subscription, gets that period handled, however long the feeder takes with
\* the ones before, unless the period's length changes, a reconnection skips the
\* block, or the daemon is told to stop (stream.go:90-115).
Skipped(h) == delivered < h /\ h < cursor

Period == IF params = Nil THEN Nil ELSE params.votePeriodBlocks

EveryPeriodHandled ==
    \A h \in 1..MaxHeight, n \in Periods :
        (tip = h /\ cursor <= h /\ Period = n /\ (h + 1) % n = 0)
            ~> (handling = h + 1 \/ Period # n \/ Skipped(h) \/ stop \/ Exited)

\* Once the chain's parameters stay what they are, the feeder works with them,
\* unless it has been told to stop or could not start.
ParamsPropagate ==
    \A p \in Stream!Params :
        <>[](chainParams = p) => <>[](feederParams = p \/ stop \/ Exited)

\* An interrupt ends the process whatever its goroutines are waiting for:
\* nobody holds a channel somebody else has stopped to read.
ShutdownCompletes == stop ~> Exited
=============================================================================
