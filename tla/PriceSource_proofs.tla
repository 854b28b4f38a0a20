------------------------- MODULE PriceSource_proofs -------------------------
(***************************************************************************)
(* For any symbols and times: the variables of an exchange's loops have    *)
(* their types, and the prices they keep implement PriceStore. And the     *)
(* timing: prices do not expire under a reliable exchange when a tick and  *)
(* a fetch, one after the other, take less than the timeout.               *)
(***************************************************************************)
EXTENDS PriceSource, TLAPS

\* While the provider runs, an update that waits to be sent has not aged.
FreshUpdate ==
    sourcePc = "sending" /\ providerPc = "select"
        => \A s \in Symbols : priceUpdate[s] \in {Nil, 0}

IInv == TypeOK /\ FreshUpdate

-----------------------------------------------------------------------------
\* An age that has grown is an age still, and Nil stays Nil.
LEMMA OlderType ==
  ASSUME NEW age \in Ages \union {Nil}
  PROVE  Older(age) \in Ages \union {Nil}
  BY TimesAssumption, NilAssumption DEF Older, Ages

\* At the start there is no price.
LEMMA InitIInv == Init => IInv
<1> SUFFICES ASSUME Init PROVE IInv
  OBVIOUS
<1>1. tickPending \in BOOLEAN /\ stopProvider \in BOOLEAN /\ stopSource \in BOOLEAN
  BY Zenon DEF Init
<1>2. stopSource <=> providerPc # "select"
  BY Zenon DEF Init
<1>3. tickIn \in 1..UpdateTick /\ fetchTime \in 0..MaxFetchTime
  BY TimesAssumption DEF Init
<1> QED
  BY <1>1, <1>2, <1>3 DEF Init, NoPrices, IInv, TypeOK, FreshUpdate

\* Time passes for the stored prices, and for an update only if the provider is
\* not there to take it.
LEMMA ElapseKeepsIInv ==
  ASSUME IInv, Elapse
  PROVE  IInv' /\ Store!Pass
<1>1. IInv'
  <2>1. priceUpdate' \in [Symbols -> Ages \union {Nil}]
    BY OlderType DEF Elapse, IInv, TypeOK
  <2>2. lastPrices' \in [Symbols -> Ages \union {Nil}]
    BY OlderType DEF Elapse, IInv, TypeOK
  <2>3. tickIn' \in 1..UpdateTick
    BY TimesAssumption DEF Elapse, IInv, TypeOK
  <2>4. fetchTime' \in 0..MaxFetchTime
    BY TimesAssumption DEF Elapse, Busy, IInv, TypeOK
  <2>5. tickPending' \in BOOLEAN
    BY Zenon DEF Elapse, IInv, TypeOK
  <2>6. FreshUpdate'
    BY DEF Elapse, Busy, FreshUpdate
  <2> QED
    BY <2>1, <2>2, <2>3, <2>4, <2>5, <2>6 DEF Elapse, IInv, TypeOK, stopVars
<1>2. ASSUME NEW s \in Symbols
      PROVE  Older(lastPrices[s])
                = IF Store!Valid(s) THEN lastPrices[s] + 1 ELSE lastPrices[s]
  BY TimesAssumption, NilAssumption DEF Older, Store!Valid, IInv, TypeOK, Ages
<1> QED
  BY <1>1, <1>2 DEF Elapse, Store!Pass

\* A fetch begins, succeeds for some of the symbols, or fails.
LEMMA FetchKeepsIInv ==
  ASSUME IInv, StartFetch \/ FetchEnds
  PROVE  IInv' /\ UNCHANGED lastPrices
<1> USE TimesAssumption
<1>1. CASE StartFetch
  BY <1>1 DEF StartFetch, IInv, TypeOK, FreshUpdate, stopVars
<1>2. CASE FetchFail
  BY <1>2 DEF FetchFail, IInv, TypeOK, FreshUpdate, timeVars, stopVars
<1>3. ASSUME NEW got \in SUBSET Symbols, FetchDone(got)
      PROVE  IInv' /\ UNCHANGED lastPrices
  BY <1>3 DEF FetchDone, IInv, TypeOK, FreshUpdate, Ages, stopVars
<1> QED
  BY <1>1, <1>2, <1>3 DEF FetchEnds

\* The update sent is fresh: its symbols are renewed, the others kept.
LEMMA SendKeepsIInv ==
  ASSUME IInv, SendUpdate
  PROVE  IInv' /\ \E S \in SUBSET Symbols : Store!Renew(S)
<1>1. IInv'
  BY DEF SendUpdate, Merge, NoPrices, IInv, TypeOK, FreshUpdate, timeVars, stopVars
<1>2. Store!Renew({s \in Symbols : priceUpdate[s] # Nil})
  BY DEF SendUpdate, Merge, IInv, FreshUpdate, Store!Renew
<1> QED
  BY <1>1, <1>2

\* Each loop is told to stop, and ends.
LEMMA CloseKeepsIInv ==
  ASSUME IInv, DropUpdate \/ SourceExit \/ Close \/ ProviderStop \/ ProviderClosed
  PROVE  IInv' /\ UNCHANGED lastPrices
<1>1. CASE DropUpdate
  BY <1>1 DEF DropUpdate, NoPrices, IInv, TypeOK, FreshUpdate, timeVars, stopVars
<1>2. CASE SourceExit
  BY <1>2 DEF SourceExit, IInv, TypeOK, FreshUpdate, timeVars, stopVars
<1>3. CASE Close
  BY <1>3 DEF Close, IInv, TypeOK, FreshUpdate, timeVars
<1>4. CASE ProviderStop
  BY <1>4 DEF ProviderStop, IInv, TypeOK, FreshUpdate, timeVars
<1>5. CASE ProviderClosed
  BY <1>5 DEF ProviderClosed, IInv, TypeOK, FreshUpdate, timeVars, stopVars
<1> QED
  BY <1>1, <1>2, <1>3, <1>4, <1>5

\* Every step keeps the invariant, and ages or renews the prices or leaves them.
LEMMA NextKeepsIInv ==
  ASSUME IInv, [Next]_vars
  PROVE  IInv' /\ [Store!Next]_lastPrices
<1>1. CASE Next
  BY <1>1, ElapseKeepsIInv, FetchKeepsIInv, SendKeepsIInv, CloseKeepsIInv
     DEF Next, Store!Next
<1>2. CASE UNCHANGED vars
  BY <1>2 DEF vars, timeVars, stopVars, IInv, TypeOK, FreshUpdate
<1> QED
  BY <1>1, <1>2

\* The invariant holds throughout.
LEMMA Invariance == Spec => []IInv
<1>1. IInv /\ [Next]_vars => IInv'
  BY NextKeepsIInv
<1> QED
  BY InitIInv, <1>1, PTL DEF Spec

\* The variables have their types; in particular an age never exceeds the
\* timeout, and the source is stopped by the provider only.
THEOREM TypeCorrect == Spec => []TypeOK
<1>1. IInv => TypeOK
  BY DEF IInv
<1> QED
  BY Invariance, <1>1, PTL

\* No update takes a valid price away or replaces it by an older one, and what
\* is stored is as old as its fetch.
THEOREM StoreImplemented == Spec => ImplementsPriceStore
<1>1. Init => Store!Init
  BY DEF Init, NoPrices, Store!Init
<1>2. IInv /\ [Next]_vars => [Store!Next]_lastPrices
  BY NextKeepsIInv
<1> QED
  BY Invariance, <1>1, <1>2, PTL DEF Spec, ImplementsPriceStore, Store!Spec

-----------------------------------------------------------------------------
(* The timing. *)

\* Until the shutdown the provider takes what a reliable exchange sends, and that
\* is a price for every symbol.
Serving ==
    /\ providerPc # "select" => stopProvider
    /\ sourcePc = "done" => stopSource
    /\ sourcePc # "fetching" => fetchTime = 0
    /\ ~reliable => fetchTime = 0
    /\ reliable /\ sourcePc = "sending" /\ providerPc = "select"
          => \A s \in Symbols : priceUpdate[s] = 0

\* How old a price may be: it was renewed a tick ago at the latest, but for the
\* fetch that has been under way since then.
Youth ==
    CASE sourcePc = "select" /\ ~tickPending -> UpdateTick - tickIn
      [] sourcePc = "select" /\ tickPending  -> UpdateTick
      [] sourcePc = "fetching"               -> UpdateTick + fetchTime
      [] sourcePc = "sending"                -> UpdateTick + MaxFetchTime
      [] sourcePc = "done"                   -> PriceTimeout

Young ==
    reliable /\ ~stopProvider =>
        \A s \in Symbols : lastPrices[s] # Nil => lastPrices[s] <= Youth

TInv == IInv /\ Serving /\ Young

\* At the start there is no price, and no fetch.
LEMMA InitTInv == Init => Serving /\ Young
<1>1. Init => Serving
  BY DEF Init, Serving
<1>2. Init => Young
  BY DEF Init, NoPrices, Young
<1> QED
  BY <1>1, <1>2

\* A price grows older together with what it waits for.
LEMMA ElapseKeepsTInv ==
  ASSUME TInv, Elapse
  PROVE  Serving' /\ Young'
<1> USE TimesAssumption, NilAssumption DEF TInv, IInv, TypeOK
<1>1. Serving'
  BY DEF Elapse, Busy, Serving, stopVars
<1>2. ASSUME reliable, ~stopProvider, NEW s \in Symbols, lastPrices'[s] # Nil
      PROVE  lastPrices'[s] <= Youth'
  <2>1. \/ sourcePc = "select" /\ ~tickPending
        \/ sourcePc = "fetching" /\ fetchTime < MaxFetchTime
    <3>1. providerPc = "select"
      BY <1>2 DEF Serving
    <3>2. sourcePc \in {"select", "fetching"}
      BY <3>1 DEF Elapse, Busy, Serving
    <3> QED
      BY <1>2, <3>2 DEF Elapse, Busy
  <2>2. /\ lastPrices[s] \in Nat /\ lastPrices'[s] \in Nat
        /\ lastPrices'[s] <= lastPrices[s] + 1
    BY <1>2 DEF Elapse, Older, Ages
  <2>3. lastPrices[s] <= Youth
    BY <1>2, <2>2 DEF Young
  <2>4. Youth' >= Youth + 1
    <3>1. CASE sourcePc = "select" /\ ~tickPending /\ tickIn = 1
      <4>1. tickPending'
        BY Zenon, <3>1 DEF Elapse
      <4> QED
        BY <3>1, <4>1 DEF Elapse, Youth
    <3>2. CASE sourcePc = "select" /\ ~tickPending /\ tickIn # 1
      BY <3>2 DEF Elapse, Youth
    <3>3. CASE sourcePc = "fetching"
      BY <1>2, <3>3 DEF Elapse, Youth
    <3> QED
      BY <2>1, <3>1, <3>2, <3>3
  <2>5. Youth \in Nat /\ Youth' \in Nat
    BY <2>1 DEF Elapse, Youth
  <2> QED
    BY <2>2, <2>3, <2>4, <2>5
<1> QED
  BY <1>1, <1>2 DEF Elapse, Young, stopVars

\* A fetch starts with the tick, and a reliable one brings a price for each symbol.
LEMMA FetchKeepsTInv ==
  ASSUME TInv, StartFetch \/ FetchEnds
  PROVE  Serving' /\ Young'
<1> USE TimesAssumption, NilAssumption DEF TInv, IInv, TypeOK
<1>1. CASE StartFetch
  <2>1. Serving'
    BY <1>1 DEF StartFetch, Serving, stopVars
  <2>2. Youth = UpdateTick /\ Youth' = UpdateTick
    BY <1>1 DEF StartFetch, Serving, Youth
  <2> QED
    BY <1>1, <2>1, <2>2 DEF StartFetch, Young, stopVars
<1>2. CASE FetchFail
  <2>1. Serving'
    BY <1>2 DEF FetchFail, Serving, timeVars, stopVars
  <2>2. Young'
    BY <1>2 DEF FetchFail, Young, timeVars, stopVars
  <2> QED
    BY <2>1, <2>2
<1>3. ASSUME NEW got \in SUBSET Symbols, FetchDone(got)
      PROVE  Serving' /\ Young'
  <2>1. Serving'
    BY <1>3 DEF FetchDone, Serving, stopVars
  <2>2. Youth' = UpdateTick + MaxFetchTime
    BY <1>3 DEF FetchDone, Youth
  <2>3. Youth = UpdateTick + fetchTime
    BY <1>3 DEF FetchDone, Youth
  <2>4. ASSUME NEW s \in Symbols, lastPrices[s] # Nil, lastPrices[s] <= Youth
        PROVE  lastPrices[s] <= Youth'
    BY <2>2, <2>3, <2>4 DEF Ages
  <2> QED
    BY <1>3, <2>1, <2>4 DEF FetchDone, Young, stopVars
<1> QED
  BY <1>1, <1>2, <1>3 DEF FetchEnds

\* All prices are new, and the next tick is at most a whole one away.
LEMMA SendKeepsTInv ==
  ASSUME TInv, SendUpdate
  PROVE  Serving' /\ Young'
<1> USE TimesAssumption, NilAssumption DEF TInv, IInv, TypeOK
<1>1. Serving'
  BY DEF SendUpdate, Serving, timeVars, stopVars
<1>2. ASSUME reliable, ~stopProvider, NEW s \in Symbols
      PROVE  lastPrices'[s] = 0
  BY <1>2 DEF SendUpdate, Merge, Serving
<1>3. Youth' \in Nat
  BY DEF SendUpdate, Youth, timeVars
<1> QED
  BY <1>1, <1>2, <1>3 DEF SendUpdate, Young, timeVars, stopVars

\* The source ends only after the provider, which ends only when it is closed.
LEMMA CloseKeepsTInv ==
  ASSUME TInv, DropUpdate \/ SourceExit \/ Close \/ ProviderStop \/ ProviderClosed
  PROVE  Serving' /\ Young'
<1> USE DEF TInv, IInv, TypeOK, Serving, Young, timeVars, stopVars
<1>1. CASE DropUpdate
  BY <1>1 DEF DropUpdate
<1>2. CASE SourceExit
  BY <1>2 DEF SourceExit
<1>3. CASE Close
  BY <1>3 DEF Close
<1>4. CASE ProviderStop
  BY <1>4 DEF ProviderStop
<1>5. CASE ProviderClosed
  BY <1>5 DEF ProviderClosed, Youth
<1> QED
  BY <1>1, <1>2, <1>3, <1>4, <1>5

\* Every step keeps the bound on the ages.
LEMMA NextKeepsTInv ==
  ASSUME TInv, [Next]_vars
  PROVE  TInv'
<1>1. IInv'
  BY NextKeepsIInv DEF TInv
<1>2. CASE Next
  BY <1>1, <1>2, ElapseKeepsTInv, FetchKeepsTInv, SendKeepsTInv, CloseKeepsTInv
     DEF Next, TInv
<1>3. CASE UNCHANGED vars
  BY <1>1, <1>3 DEF vars, timeVars, stopVars, TInv, Serving, Young, Youth
<1> QED
  BY <1>2, <1>3

\* As long as every fetch succeeds, a symbol that has had a price keeps one, if
\* a tick and the longest fetch together are shorter than the timeout. Fetches
\* longer than a tick are no exception: the ticker holds the tick they miss.
THEOREM NoGapIfTimely ==
  ASSUME UpdateTick + MaxFetchTime < PriceTimeout
  PROVE  Spec => []NoGap
<1>1. Init => TInv
  BY InitIInv, InitTInv DEF TInv
<1>2. TInv /\ [Next]_vars => TInv'
  BY NextKeepsTInv
<1>3. TInv => NoGap
  <2> SUFFICES ASSUME TInv, reliable, ~stopProvider, NEW s \in Symbols, lastPrices[s] # Nil
               PROVE  lastPrices[s] < PriceTimeout
    BY DEF NoGap, IsValid
  <2>1. lastPrices[s] \in Nat /\ lastPrices[s] <= Youth
    BY NilAssumption DEF TInv, IInv, TypeOK, Young, Ages
  <2>2. sourcePc # "done"
    BY DEF TInv, IInv, TypeOK, Serving
  <2> QED
    BY TimesAssumption, <2>1, <2>2 DEF TInv, IInv, TypeOK, Youth
<1> QED
  BY <1>1, <1>2, <1>3, PTL DEF Spec
=============================================================================
