---------------------------- MODULE EventStream ----------------------------
(***************************************************************************)
(* The event stream (feeder/eventstream/stream.go) with the feeder's loop  *)
(* (feeder/feeder.go), which consumes it. Three goroutines:                *)
(*                                                                         *)
(*   paramsLoop               polls the chain's parameters and passes what *)
(*                            is new through paramsChannel (one buffer)    *)
(*   votingPeriodStartedLoop  turns block heights into voting periods and  *)
(*                            passes them on without a buffer              *)
(*   the feeder               initParamsOrDie, then its select loop        *)
(*                                                                         *)
(* params is the one variable two loops share. Only this module's three    *)
(* goroutines and Close are modelled: the websocket hands over any height, *)
(* the chain changes its parameters at any time, and time is left out, so  *)
(* a ticker or a timeout may fire whenever it is waited for. Daemon gives  *)
(* the loops their fairness and the heights their order.                   *)
(***************************************************************************)
EXTENDS Naturals, Sequences

CONSTANTS
    Whitelists, \* the lists of pairs the chain may ask for
    Periods,    \* the vote periods it may have, in blocks
    MaxHeight,  \* block heights are 1..MaxHeight, 0 is a message without one
    Nil         \* a nil pointer, the zero Params, no voting period

Params == [pairs : Whitelists, votePeriodBlocks : Periods]

ASSUME PeriodsAssumption == Periods \subseteq Nat \ {0}
ASSUME HeightAssumption == MaxHeight \in Nat
ASSUME NilAssumption    == Nil \notin Params /\ Nil \notin 1..MaxHeight + 1

VARIABLES
    chainParams,    \* the x/oracle parameters on the chain
    params,         \* Stream.params, an atomic pointer
    paramsPc,       \* where paramsLoop is
    newParams,      \* what paramsLoop fetched
    paramsChannel,  \* Stream.paramsChannel, capacity 1
    vpPc,           \* where votingPeriodStartedLoop is
    blockHeight,    \* the height of the message it received
    feederPc,       \* where the feeder is
    feederParams,   \* Feeder.params
    handling,       \* the voting period handleVotingPeriod works on, or Nil
    stop,           \* Feeder.stop is closed
    stopSignal      \* Stream.stopSignal is closed

loopVars   == <<params, paramsPc, newParams>>
vpVars     == <<vpPc, blockHeight>>
feederVars == <<feederPc, feederParams, handling, stop, stopSignal>>
vars == <<chainParams, loopVars, paramsChannel, vpVars, feederVars>>

Init ==
    /\ chainParams \in Params
    /\ params = Nil
    /\ paramsPc = "select"
    /\ newParams = Nil
    /\ paramsChannel = <<>>
    /\ vpPc = "select"
    /\ blockHeight = 0
    /\ feederPc = "init"
    /\ feederParams = Nil
    /\ handling = Nil
    /\ stop = FALSE
    /\ stopSignal = FALSE

-----------------------------------------------------------------------------
(* External: governance changes the parameters. *)

ChangeParams ==
    /\ chainParams' \in Params \ {chainParams}
    /\ UNCHANGED <<loopVars, paramsChannel, vpVars, feederVars>>

-----------------------------------------------------------------------------
(* paramsLoop. *)

Tick ==
    /\ paramsPc = "select"
    /\ paramsPc' = "fetching"
    /\ UNCHANGED <<chainParams, params, newParams, paramsChannel, vpVars, feederVars>>

FetchParams ==
    /\ paramsPc = "fetching"
    /\ newParams' = chainParams
    /\ paramsPc' = "swap"
    /\ UNCHANGED <<chainParams, params, paramsChannel, vpVars, feederVars>>

FetchFail ==
    /\ paramsPc = "fetching"
    /\ paramsPc' = "select"
    /\ UNCHANGED <<chainParams, params, newParams, paramsChannel, vpVars, feederVars>>

\* Mutant of Equal: a change of the pairs alone goes unseen.
Equal_PeriodOnly(p, q) == p.votePeriodBlocks = q.votePeriodBlocks

\* Params.Equal.
Equal(p, q) == p.votePeriodBlocks = q.votePeriodBlocks /\ p.pairs = q.pairs

\* Mutant of SwapParams: no comparison.
SwapParams_SendsAlways ==
    /\ paramsPc = "swap"
    /\ params' = newParams
    /\ paramsPc' = "send"
    /\ UNCHANGED <<chainParams, newParams, paramsChannel, vpVars, feederVars>>

\* The Swap and the comparison with what it returns.
SwapParams ==
    /\ paramsPc = "swap"
    /\ params' = newParams
    /\ paramsPc' = IF params # Nil /\ Equal(params, newParams)
                   THEN "select" ELSE "send"
    /\ UNCHANGED <<chainParams, newParams, paramsChannel, vpVars, feederVars>>

\* Mutants of SendParams: a larger buffer; a send that does not wait.
SendParams_TwoSlots ==
    /\ paramsPc = "send"
    /\ Len(paramsChannel) < 2
    /\ paramsChannel' = Append(paramsChannel, newParams)
    /\ paramsPc' = "select"
    /\ UNCHANGED <<chainParams, params, newParams, vpVars, feederVars>>

SendParams_NoWait ==
    /\ paramsPc = "send"
    /\ paramsChannel' = IF Len(paramsChannel) < 1
                        THEN Append(paramsChannel, newParams) ELSE paramsChannel
    /\ paramsPc' = "select"
    /\ UNCHANGED <<chainParams, params, newParams, vpVars, feederVars>>

SendParams ==
    /\ paramsPc = "send"
    /\ Len(paramsChannel) < 1
    /\ paramsChannel' = Append(paramsChannel, newParams)
    /\ paramsPc' = "select"
    /\ UNCHANGED <<chainParams, params, newParams, vpVars, feederVars>>

\* Mutant of DropParams: the send does not select on the stop signal.
DropParams_Missing == FALSE

DropParams ==
    /\ paramsPc = "send"
    /\ stopSignal
    /\ paramsPc' = "select"
    /\ UNCHANGED <<chainParams, params, newParams, paramsChannel, vpVars, feederVars>>

ParamsLoopExit ==
    /\ paramsPc = "select"
    /\ stopSignal
    /\ paramsPc' = "done"
    /\ UNCHANGED <<chainParams, params, newParams, paramsChannel, vpVars, feederVars>>

-----------------------------------------------------------------------------
(* votingPeriodStartedLoop. *)

\* The websocket hands over a message; 0 is one GetBlockHeight makes no
\* height of.
ReceiveMessage ==
    /\ vpPc = "select"
    /\ blockHeight' \in 0..MaxHeight
    /\ vpPc' = "check"
    /\ UNCHANGED <<chainParams, loopVars, paramsChannel, feederVars>>

EndsPeriod(height, p) == (height + 1) % p.votePeriodBlocks = 0

CheckHeight ==
    /\ vpPc = "check"
    /\ vpPc' = IF /\ blockHeight > 0
                  /\ params # Nil
                  /\ EndsPeriod(blockHeight, params)
               THEN "send" ELSE "select"
    /\ UNCHANGED <<chainParams, loopVars, paramsChannel, blockHeight, feederVars>>

\* Mutants of SendVotingPeriod: a send that does not wait for the feeder; the
\* loop goes back to the send.
SendVotingPeriod_NoWait ==
    /\ vpPc = "send"
    /\ vpPc' = "select"
    /\ IF feederPc = "loop"
       THEN feederPc' = "handling" /\ handling' = blockHeight + 1
       ELSE UNCHANGED <<feederPc, handling>>
    /\ UNCHANGED <<chainParams, loopVars, paramsChannel, blockHeight, feederParams,
                   stop, stopSignal>>

SendVotingPeriod_Repeats ==
    /\ vpPc = "send"
    /\ feederPc = "loop"
    /\ feederPc' = "handling"
    /\ handling' = blockHeight + 1
    /\ UNCHANGED <<chainParams, loopVars, paramsChannel, vpVars, feederParams,
                   stop, stopSignal>>

\* The channel has no buffer: the send is the feeder's receive.
SendVotingPeriod ==
    /\ vpPc = "send"
    /\ feederPc = "loop"
    /\ vpPc' = "select"
    /\ feederPc' = "handling"
    /\ handling' = blockHeight + 1
    /\ UNCHANGED <<chainParams, loopVars, paramsChannel, blockHeight, feederParams,
                   stop, stopSignal>>

DropVotingPeriod ==
    /\ vpPc = "send"
    /\ stopSignal
    /\ vpPc' = "select"
    /\ UNCHANGED <<chainParams, loopVars, paramsChannel, blockHeight, feederVars>>

\* waitGroup.Done, before the websocket is closed.
VpLoopExit ==
    /\ vpPc = "select"
    /\ stopSignal
    /\ vpPc' = "done"
    /\ UNCHANGED <<chainParams, loopVars, paramsChannel, blockHeight, feederVars>>

-----------------------------------------------------------------------------
(* The feeder. *)

\* handleParamsUpdate with what the channel holds.
TakeParams ==
    /\ paramsChannel # <<>>
    /\ feederParams' = Head(paramsChannel)
    /\ paramsChannel' = Tail(paramsChannel)

InitParams ==
    /\ feederPc = "init"
    /\ TakeParams
    /\ feederPc' = "loop"
    /\ UNCHANGED <<chainParams, loopVars, vpVars, handling, stop, stopSignal>>

\* The panic ends the process.
InitTimeout ==
    /\ feederPc = "init"
    /\ feederPc' = "panicked"
    /\ UNCHANGED <<chainParams, loopVars, paramsChannel, vpVars, feederParams,
                   handling, stop, stopSignal>>

UpdateParams ==
    /\ feederPc = "loop"
    /\ TakeParams
    /\ UNCHANGED <<chainParams, loopVars, vpVars, feederPc, handling, stop, stopSignal>>

\* handleVotingPeriod returns: SendPrices never takes longer than 15s.
Handled ==
    /\ feederPc = "handling"
    /\ feederPc' = "loop"
    /\ handling' = Nil
    /\ UNCHANGED <<chainParams, loopVars, paramsChannel, vpVars, feederParams, stop,
                   stopSignal>>

\* An interrupt: its handler is installed once Run has returned.
Close ==
    /\ feederPc \notin {"init", "panicked"}
    /\ ~stop
    /\ stop' = TRUE
    /\ UNCHANGED <<chainParams, loopVars, paramsChannel, vpVars, feederPc,
                   feederParams, handling, stopSignal>>

\* The loop sees stop; its deferred close begins with Stream.Close.
FeederStop ==
    /\ feederPc = "loop"
    /\ stop
    /\ feederPc' = "closing"
    /\ stopSignal' = TRUE
    /\ UNCHANGED <<chainParams, loopVars, paramsChannel, vpVars, feederParams,
                   handling, stop>>

\* waitGroup.Wait returns, and close goes on to the end.
FeederClosed ==
    /\ feederPc = "closing"
    /\ paramsPc = "done"
    /\ vpPc = "done"
    /\ feederPc' = "closed"
    /\ UNCHANGED <<chainParams, loopVars, paramsChannel, vpVars, feederParams,
                   handling, stop, stopSignal>>

-----------------------------------------------------------------------------
ParamsLoop == \/ Tick \/ FetchParams \/ FetchFail \/ SwapParams
              \/ SendParams \/ DropParams \/ ParamsLoopExit

VotingPeriodLoop == \/ ReceiveMessage \/ CheckHeight \/ SendVotingPeriod
                    \/ DropVotingPeriod \/ VpLoopExit

Feeder == \/ InitParams \/ InitTimeout \/ UpdateParams \/ Handled
          \/ FeederStop \/ FeederClosed

\* The process has exited, by the panic or at the end of the shutdown.
Exited == feederPc \in {"panicked", "closed"}

Next ==
    \/ ~Exited /\ (ChangeParams \/ ParamsLoop \/ VotingPeriodLoop \/ Feeder \/ Close)
    \/ Exited /\ UNCHANGED vars

Spec == Init /\ [][Next]_vars

-----------------------------------------------------------------------------
(* Properties. *)

\* Every variable has its type; the feeder handles a voting period exactly
\* while it is in handleVotingPeriod.
TypeOK ==
    /\ chainParams \in Params
    /\ params \in Params \union {Nil}
    /\ paramsPc \in {"select", "fetching", "swap", "send", "done"}
    /\ newParams \in Params \union {Nil}
    /\ paramsChannel \in Seq(Params) /\ Len(paramsChannel) <= 1
    /\ vpPc \in {"select", "check", "send", "done"}
    /\ blockHeight \in 0..MaxHeight
    /\ feederPc \in {"init", "loop", "handling", "closing", "closed", "panicked"}
    /\ feederParams \in Params \union {Nil}
    /\ handling \in 1..MaxHeight + 1 \union {Nil}
    /\ stop \in BOOLEAN
    /\ stopSignal \in BOOLEAN
    /\ feederPc = "handling" <=> handling # Nil

\* The parameters on their way to the feeder, oldest first.
Announced == paramsChannel \o (IF paramsPc = "send" THEN <<newParams>> ELSE <<>>)

\* What the stream takes voting periods from is what the feeder has or is
\* about to get: the Swap comes before the send, so an update the channel had
\* no room for would otherwise never be seen as new again (stream.go:150-161).
NoUpdateLost ==
    ~stopSignal => params = IF Announced = <<>> THEN feederParams
                            ELSE Announced[Len(Announced)]

Abstract == INSTANCE EventRelay WITH
    Heights   <- 1..MaxHeight + 1,
    announced <- Announced,
    current   <- feederParams,
    signal    <- IF vpPc = "send" THEN blockHeight + 1 ELSE Nil,
    stopping  <- stopSignal

\* Three goroutines and two channels together are a relay that loses, repeats
\* and reorders nothing before the shutdown.
ImplementsEventRelay == Abstract!Spec
=============================================================================
