--------------------------- MODULE Startup_proofs ---------------------------
(***************************************************************************)
(* How many failed polls of the params the start survives, for any times:  *)
(* the n-th poll is over after n periods of the ticker and the timeout of  *)
(* the query, so that Feeder.Run panics only if that exceeds its patience. *)
(***************************************************************************)
EXTENDS Startup, TLAPS

Types ==
    /\ tickIn \in 1..TickPeriod
    /\ {tickPending, querying, queued} \subseteq BOOLEAN
    /\ queryTime \in 0..QueryTimeout
    /\ failures \in Nat
    /\ waited \in Nat

\* The tick of the poll that follows the failed ones comes after so long.
PollTick == (failures + 1) * TickPeriod

\* The next tick, which may wait in the channel, comes by the time t.
TickBy(t) == waited <= t /\ (~tickPending => waited + tickIn <= t)

\* Until an answer is queued, the poll is waited for no longer than its tick
\* allows, and a running one no longer than the query has taken.
Patience ==
    /\ Starting /\ ~queued /\ ~querying => TickBy(PollTick)
    /\ Starting /\ ~queued /\ querying  => /\ waited <= PollTick + queryTime
                                           /\ TickBy(PollTick + TickPeriod)
    /\ feederPc = "init" => waited <= PollTick + QueryTimeout

\* A panic comes only with so many failures that the next poll is too late.
PanicIsLate == feederPc = "panicked" => InitTimeout <= PollTick + QueryTimeout

IInv == Types /\ Patience /\ PanicIsLate

-----------------------------------------------------------------------------
\* A failed poll postpones the next one by a period.
LEMMA PollTickGrows ==
  ASSUME Types
  PROVE  /\ PollTick \in Nat
         /\ failures' = failures => PollTick' = PollTick
         /\ failures' = failures + 1 => PollTick' = PollTick + TickPeriod
  BY TimesAssumption DEF Types, PollTick

\* At the start the first tick is a whole period away.
LEMMA InitIInv == Init => IInv
<1> SUFFICES ASSUME Init PROVE IInv
  OBVIOUS
<1>1. {tickPending, querying, queued} \subseteq BOOLEAN
  BY Zenon DEF Init
<1>2. Types
  BY TimesAssumption, <1>1 DEF Init, Types
<1>3. PollTick = TickPeriod
  BY TimesAssumption DEF Init, PollTick
<1>4. Patience /\ PanicIsLate
  BY TimesAssumption, <1>3 DEF Init, Patience, PanicIsLate, TickBy
<1> QED
  BY <1>2, <1>4 DEF IInv

\* A second passes: nothing is overdue, so that the bounds leave room for it.
LEMMA ElapseKeepsIInv ==
  ASSUME QueryTimeout <= TickPeriod, IInv, Starting, Elapse
  PROVE  IInv'
<1> USE TimesAssumption DEF IInv, Types
<1>1. Types'
  <2>1. {tickPending, querying, queued}' \subseteq BOOLEAN
    BY Zenon DEF Elapse
  <2> QED
    BY <2>1 DEF Elapse
<1>2. PollTick \in Nat /\ PollTick' = PollTick
  BY PollTickGrows DEF Elapse
<1>3. Patience'
  <2>1. ASSUME ~queued, ~querying
        PROVE  TickBy(PollTick)'
    <3>1. ~tickPending
      BY <2>1 DEF Elapse, Due
    <3>2. CASE tickIn = 1
      BY <1>2, <2>1, <3>1, <3>2 DEF Elapse, Patience, TickBy
    <3>3. CASE tickIn # 1
      BY <1>2, <2>1, <3>1, <3>3 DEF Elapse, Patience, TickBy
    <3> QED
      BY <3>2, <3>3
  <2>2. ASSUME ~queued, querying
        PROVE  waited' <= PollTick' + queryTime' /\ TickBy(PollTick + TickPeriod)'
    <3>1. queryTime < QueryTimeout /\ queryTime' = queryTime + 1
      BY <2>2 DEF Elapse, Due, QueryExpired
    <3>2. waited' <= PollTick + queryTime'
      BY <1>2, <2>2, <3>1 DEF Elapse, Patience
    <3>3. TickBy(PollTick + TickPeriod)'
      <4>1. CASE tickPending
        <5>1. tickPending' /\ waited' <= PollTick + TickPeriod
          BY <1>1, <1>2, <3>1, <3>2, <4>1 DEF Elapse
        <5> QED
          BY <1>2, <5>1 DEF TickBy
      <4>2. CASE ~tickPending /\ tickIn = 1
        BY <1>2, <2>2, <4>2 DEF Elapse, Patience, TickBy
      <4>3. CASE ~tickPending /\ tickIn # 1
        BY <1>2, <2>2, <4>3 DEF Elapse, Patience, TickBy
      <4> QED
        BY <4>1, <4>2, <4>3
    <3> QED
      BY <1>2, <3>2, <3>3
  <2>3. ASSUME feederPc = "init"
        PROVE  waited' <= PollTick' + QueryTimeout
    <3>1. ~queued
      BY <2>3 DEF Elapse, Due
    <3>2. waited \in Nat /\ waited' \in Nat /\ waited' = waited + 1
      BY DEF Elapse
    <3>3. CASE querying
      <4>1. queryTime < QueryTimeout /\ waited <= PollTick + queryTime
        BY <3>1, <3>3 DEF Elapse, Due, QueryExpired, Patience
      <4> QED
        BY <1>2, <3>2, <4>1
    <3>4. CASE ~querying
      <4>1. TickBy(PollTick)'
        BY <2>1, <3>1, <3>4
      <4>2. waited' <= PollTick
        BY <1>2, <4>1 DEF TickBy
      <4>3. QueryTimeout \in Nat
        OBVIOUS
      <4> QED
        BY <1>2, <3>2, <4>2, <4>3
    <3> QED
      BY <3>3, <3>4
  <2> QED
    BY <2>1, <2>2, <2>3 DEF Elapse, Patience
<1>4. PanicIsLate'
  BY DEF Elapse, PanicIsLate
<1> QED
  BY <1>1, <1>3, <1>4

\* A poll starts with its tick, and the next tick is a period away at most.
LEMMA StartQueryKeepsIInv ==
  ASSUME IInv, Starting, StartQuery
  PROVE  IInv'
<1> USE TimesAssumption DEF IInv, Types, StartQuery
<1>1. {tickPending, querying, queued}' \subseteq BOOLEAN
  BY Zenon
<1>2. PollTick \in Nat /\ PollTick' = PollTick
  BY PollTickGrows
<1>3. ~queued => waited <= PollTick
  BY DEF Patience, TickBy
<1>4. Patience'
  BY <1>2, <1>3 DEF Patience, TickBy, Starting
<1> QED
  BY <1>1, <1>2, <1>4 DEF PanicIsLate

\* A poll is answered, or it fails and the next one is waited for.
LEMMA QueryEndsKeepsIInv ==
  ASSUME IInv, Starting, QueryAnswered \/ QueryFails
  PROVE  IInv'
<1> USE TimesAssumption DEF IInv, Types
<1>1. CASE QueryAnswered
  <2>1. {tickPending, querying, queued}' \subseteq BOOLEAN
    BY Zenon, <1>1 DEF QueryAnswered
  <2>2. PollTick \in Nat /\ PollTick' = PollTick
    BY PollTickGrows, <1>1 DEF QueryAnswered
  <2> QED
    BY <1>1, <2>1, <2>2 DEF QueryAnswered, Patience, PanicIsLate, Starting
<1>2. CASE QueryFails
  <2>1. {tickPending, querying, queued}' \subseteq BOOLEAN
    BY Zenon, <1>2 DEF QueryFails
  <2>2. PollTick \in Nat /\ PollTick' = PollTick + TickPeriod
    BY PollTickGrows, <1>2 DEF QueryFails
  <2>3. Patience'
    BY <1>2, <2>2 DEF QueryFails, Patience, TickBy, Starting
  <2> QED
    BY <1>2, <2>1, <2>2, <2>3 DEF QueryFails, PanicIsLate, Starting
<1> QED
  BY <1>1, <1>2

\* Feeder.Run begins to wait, gets the params, or panics.
LEMMA FeederKeepsIInv ==
  ASSUME IInv, Run \/ InitParams \/ InitTimesOut
  PROVE  IInv'
<1> USE TimesAssumption DEF IInv, Types
<1>1. CASE Run
  <2>1. PollTick \in Nat /\ PollTick' = PollTick
    BY PollTickGrows, <1>1 DEF Run, streamVars
  <2> QED
    BY <1>1, <2>1 DEF Run, streamVars, Patience, PanicIsLate, TickBy, Starting
<1>2. CASE InitParams
  <2>1. {tickPending, querying, queued}' \subseteq BOOLEAN
    BY Zenon, <1>2 DEF InitParams
  <2> QED
    BY <1>2, <2>1 DEF InitParams, Patience, PanicIsLate, Starting
<1>3. CASE InitTimesOut
  <2>1. PollTick \in Nat /\ PollTick' = PollTick
    BY PollTickGrows, <1>3 DEF InitTimesOut, streamVars
  <2>2. InitTimeout <= PollTick + QueryTimeout
    BY <1>3 DEF InitTimesOut, TimerFired, Patience
  <2> QED
    BY <1>3, <2>1, <2>2 DEF InitTimesOut, streamVars, Patience, PanicIsLate, Starting
<1> QED
  BY <1>1, <1>2, <1>3

\* Every step.
LEMMA NextKeepsIInv ==
  ASSUME QueryTimeout <= TickPeriod, IInv, [Next]_vars
  PROVE  IInv'
<1>1. CASE Next
  BY <1>1, ElapseKeepsIInv, StartQueryKeepsIInv, QueryEndsKeepsIInv, FeederKeepsIInv
     DEF Next
<1>2. CASE UNCHANGED vars
  BY <1>2 DEF vars, streamVars, IInv, Types, Patience, PanicIsLate, PollTick, TickBy,
              Starting
<1> QED
  BY <1>1, <1>2

\* When a query may not outlast a period, the invariant holds throughout.
LEMMA Invariance ==
  ASSUME QueryTimeout <= TickPeriod
  PROVE  Spec => []IInv
<1>1. IInv /\ [Next]_vars => IInv'
  BY NextKeepsIInv
<1> QED
  BY InitIInv, <1>1, PTL DEF Spec

\* Feeder.Run panics only after so many failed polls that the one after them
\* cannot be over within its timeout. In the code one failure is enough: two
\* periods of 10 seconds are longer than 15 (stream.go:122, feeder.go:12).
THEOREM PanicNeedsFailures ==
  ASSUME QueryTimeout <= TickPeriod
  PROVE  Spec => [](feederPc = "panicked"
                        => InitTimeout <= (failures + 1) * TickPeriod + QueryTimeout)
<1>1. IInv => (feederPc = "panicked"
                   => InitTimeout <= (failures + 1) * TickPeriod + QueryTimeout)
  BY DEF IInv, PanicIsLate, PollTick
<1> QED
  BY Invariance, <1>1, PTL

\* If a period and a query are shorter than the timeout, as in the code, it takes
\* a failure: a node that answers, however late within the deadline of the query,
\* gets the feeder started, however long the other parts take to build.
THEOREM StartsIfAnswered ==
  ASSUME QueryTimeout <= TickPeriod, TickPeriod + QueryTimeout < InitTimeout
  PROVE  Spec => []PanicsOnlyAfterFailure
<1>1. IInv => PanicsOnlyAfterFailure
  <2> SUFFICES ASSUME IInv, feederPc = "panicked", failures = 0
               PROVE  FALSE
    BY DEF IInv, Types, PanicsOnlyAfterFailure
  <2>1. PollTick = TickPeriod
    BY TimesAssumption DEF PollTick
  <2> QED
    BY TimesAssumption, <2>1 DEF IInv, PanicIsLate
<1> QED
  BY Invariance, <1>1, PTL
=============================================================================
