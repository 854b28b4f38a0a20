------------------------------ MODULE Startup ------------------------------
(***************************************************************************)
(* The first seconds of the daemon (cmd/root.go): the stream starts to     *)
(* poll the params, the other parts are built, and Feeder.Run waits for    *)
(* the params or panics. Time passes in seconds, and only while nothing is *)
(* left to do at once; the params' values are left out (see EventStream).  *)
(***************************************************************************)
EXTENDS Naturals

CONSTANTS
    TickPeriod,     \* between two polls, 10 seconds in the code
    QueryTimeout,   \* of a poll, 3 seconds in the code
    InitTimeout,    \* of Feeder.Run, 15 seconds in the code
    MaxSetup,       \* bound: the time the other parts take to build
    MaxFailures     \* bound: polls that fail

ASSUME TimesAssumption ==
    /\ TickPeriod \in Nat \ {0}
    /\ {QueryTimeout, InitTimeout, MaxSetup, MaxFailures} \subseteq Nat

VARIABLES
    tickIn,         \* time to the ticker's next tick
    tickPending,    \* a tick waits in tick.C
    querying,       \* paramsLoop is in fetchParams
    queryTime,      \* for how long
    failures,       \* polls that failed
    queued,         \* the params wait in paramsChannel
    feederPc,       \* where the main goroutine is
    waited          \* how long it has been there

streamVars == <<tickIn, tickPending, querying, queryTime, failures, queued>>
vars == <<streamVars, feederPc, waited>>

Init ==
    /\ tickIn = TickPeriod
    /\ tickPending = FALSE
    /\ querying = FALSE
    /\ queryTime = 0
    /\ failures = 0
    /\ queued = FALSE
    /\ feederPc = "setup"
    /\ waited = 0

-----------------------------------------------------------------------------
\* Mutant of QueryExpired: the context has no timeout.
QueryExpired_Never == FALSE

\* The context's deadline.
QueryExpired == querying /\ queryTime = QueryTimeout

\* The timer of initParamsOrDie.
TimerFired == feederPc = "init" /\ waited = InitTimeout

Due ==
    \/ tickPending /\ ~querying
    \/ QueryExpired
    \/ feederPc = "setup" /\ waited = MaxSetup
    \/ feederPc = "init" /\ queued
    \/ TimerFired

Elapse ==
    /\ ~Due
    /\ feederPc \in {"setup", "init"}
    /\ tickIn' = IF tickIn = 1 THEN TickPeriod ELSE tickIn - 1
    /\ tickPending' = (tickPending \/ tickIn = 1)
    /\ queryTime' = IF querying /\ queryTime < QueryTimeout THEN queryTime + 1 ELSE queryTime
    /\ waited' = waited + 1
    /\ UNCHANGED <<querying, failures, queued, feederPc>>

\* paramsLoop: the ticker fires for the first time after a whole period.
StartQuery ==
    /\ tickPending
    /\ ~querying
    /\ tickPending' = FALSE
    /\ querying' = TRUE
    /\ queryTime' = 0
    /\ UNCHANGED <<tickIn, failures, queued, feederPc, waited>>

\* The first answer is always sent, and the channel has room for it; a later
\* one does not differ.
QueryAnswered ==
    /\ querying
    /\ querying' = FALSE
    /\ queued' = TRUE
    /\ UNCHANGED <<tickIn, tickPending, queryTime, failures, feederPc, waited>>

\* An error at once, or the deadline: the loop waits for the next tick.
QueryFails ==
    /\ querying
    /\ failures < MaxFailures
    /\ querying' = FALSE
    /\ failures' = failures + 1
    /\ UNCHANGED <<tickIn, tickPending, queryTime, queued, feederPc, waited>>

-----------------------------------------------------------------------------
\* The parts are built, Feeder.Run calls initParamsOrDie.
Run ==
    /\ feederPc = "setup"
    /\ feederPc' = "init"
    /\ waited' = 0
    /\ UNCHANGED streamVars

InitParams ==
    /\ feederPc = "init"
    /\ queued
    /\ queued' = FALSE
    /\ feederPc' = "running"
    /\ UNCHANGED <<tickIn, tickPending, querying, queryTime, failures, waited>>

InitTimesOut ==
    /\ TimerFired
    /\ feederPc' = "panicked"
    /\ UNCHANGED <<streamVars, waited>>

Starting == feederPc \in {"setup", "init"}

Next ==
    \/ Starting /\ (Elapse \/ StartQuery \/ QueryAnswered \/ QueryFails)
    \/ Run \/ InitParams \/ InitTimesOut

Spec == Init /\ [][Next]_vars

-----------------------------------------------------------------------------
(* Properties. *)

\* While the node answers, the feeder starts, however long an answer takes
\* within its deadline: the first tick and the query fit into InitTimeout
\* (stream.go:122,130, feeder.go:12).
PanicsOnlyAfterFailure == feederPc = "panicked" => failures > 0

\* types/event_stream.go:5: "EventStream must handle failures by itself". One
\* query that fails is made up for by the next one.
StartsDespiteOneFailure == feederPc = "panicked" => failures > 1
=============================================================================
