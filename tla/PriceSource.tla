---------------------------- MODULE PriceSource ----------------------------
(***************************************************************************)
(* One exchange: a TickSource (sources/tick_source.go), whose loop fetches *)
(* the exchange's prices at every tick, and the PriceProvider that keeps   *)
(* the last ones and says which are still valid (priceprovider.go). The    *)
(* two loops share a channel without a buffer.                             *)
(*                                                                         *)
(* Prices are left out but for their age. Time passes in whole units, and  *)
(* only while neither loop has something to do at once; ages stop counting *)
(* at PriceTimeout.                                                        *)
(***************************************************************************)
EXTENDS Naturals, FiniteSets

CONSTANTS
    Symbols,        \* the symbols this exchange is asked for
    UpdateTick,     \* time between two ticks, 8 seconds in the code
    PriceTimeout,   \* age at which a price expires, 15 seconds in the code
    MaxFetchTime,   \* the longest a fetch of a reliable exchange takes
    Nil             \* no price

ASSUME TimesAssumption ==
    /\ UpdateTick \in Nat \ {0}
    /\ PriceTimeout \in Nat \ {0}
    /\ MaxFetchTime \in Nat
ASSUME NilAssumption == Nil \notin Nat

Ages == 0..PriceTimeout

VARIABLES
    reliable,       \* whether every fetch succeeds within MaxFetchTime, for all
                    \* symbols; never changes
    tickIn,         \* time to the next tick
    tickPending,    \* a tick waits in the ticker's channel
    sourcePc,       \* where TickSource.loop is
    fetchTime,      \* how long the fetch of a reliable exchange has taken
    priceUpdate,    \* the ages of the prices it is sending
    providerPc,     \* where PriceProvider.loop is
    lastPrices,     \* PriceProvider.lastPrices, as ages
    stopProvider,   \* PriceProvider.stopSignal is closed
    stopSource      \* TickSource.stopSignal is closed

timeVars == <<reliable, tickIn, tickPending, fetchTime>>
stopVars == <<stopProvider, stopSource>>
vars == <<timeVars, sourcePc, priceUpdate, providerPc, lastPrices, stopVars>>

NoPrices == [s \in Symbols |-> Nil]

Init ==
    /\ reliable \in BOOLEAN
    /\ tickIn = UpdateTick
    /\ tickPending = FALSE
    /\ sourcePc = "select"
    /\ fetchTime = 0
    /\ priceUpdate = NoPrices
    /\ providerPc = "select"
    /\ lastPrices = NoPrices
    /\ stopProvider = FALSE
    /\ stopSource = FALSE

-----------------------------------------------------------------------------
(* Time. *)

Older(age) == IF age \in Nat /\ age < PriceTimeout THEN age + 1 ELSE age

Busy == \/ sourcePc = "select" /\ tickPending
        \/ sourcePc = "sending" /\ providerPc = "select"
        \/ sourcePc = "fetching" /\ reliable /\ fetchTime = MaxFetchTime

\* The ticker's channel holds one tick; more are dropped.
Elapse ==
    /\ ~Busy
    /\ tickIn' = IF tickIn = 1 THEN UpdateTick ELSE tickIn - 1
    /\ tickPending' = (tickPending \/ tickIn = 1)
    /\ fetchTime' = IF reliable /\ sourcePc = "fetching" THEN fetchTime + 1
                                                          ELSE fetchTime
    /\ priceUpdate' = [s \in Symbols |-> Older(priceUpdate[s])]
    /\ lastPrices' = [s \in Symbols |-> Older(lastPrices[s])]
    /\ UNCHANGED <<reliable, sourcePc, providerPc, stopVars>>

-----------------------------------------------------------------------------
(* TickSource.loop. *)

StartFetch ==
    /\ sourcePc = "select"
    /\ tickPending
    /\ tickPending' = FALSE
    /\ sourcePc' = "fetching"
    /\ UNCHANGED <<reliable, tickIn, fetchTime, priceUpdate, providerPc, lastPrices, stopVars>>

\* fetchPrices returns prices for got; UpdateTime is the time it returns.
FetchDone(got) ==
    /\ sourcePc = "fetching"
    /\ reliable => got = Symbols
    /\ priceUpdate' = [s \in Symbols |-> IF s \in got THEN 0 ELSE Nil]
    /\ sourcePc' = "sending"
    /\ fetchTime' = 0
    /\ UNCHANGED <<reliable, tickIn, tickPending, providerPc, lastPrices, stopVars>>

FetchFail ==
    /\ sourcePc = "fetching"
    /\ ~reliable
    /\ sourcePc' = "select"
    /\ UNCHANGED <<timeVars, priceUpdate, providerPc, lastPrices, stopVars>>

\* Mutant of Merge: the update replaces the map.
Merge_Replaces(old, new) == new

\* Mutant of Merge: a symbol already present is not stored again.
Merge_FirstOnly(old, new) ==
    [s \in Symbols |-> IF old[s] = Nil THEN new[s] ELSE old[s]]

\* PriceProvider.loop stores the symbols of an update and keeps the others.
Merge(old, new) ==
    [s \in Symbols |-> IF new[s] = Nil THEN old[s] ELSE new[s]]

\* The channel has no buffer: the send is PriceProvider.loop's receive.
SendUpdate ==
    /\ sourcePc = "sending"
    /\ providerPc = "select"
    /\ lastPrices' = Merge(lastPrices, priceUpdate)
    /\ priceUpdate' = NoPrices
    /\ sourcePc' = "select"
    /\ UNCHANGED <<timeVars, providerPc, stopVars>>

\* Mutant of DropUpdate: the send does not select on the stop signal.
DropUpdate_Missing == FALSE

DropUpdate ==
    /\ sourcePc = "sending"
    /\ stopSource
    /\ priceUpdate' = NoPrices
    /\ sourcePc' = "done"
    /\ UNCHANGED <<timeVars, providerPc, lastPrices, stopVars>>

SourceExit ==
    /\ sourcePc = "select"
    /\ stopSource
    /\ sourcePc' = "done"
    /\ UNCHANGED <<timeVars, priceUpdate, providerPc, lastPrices, stopVars>>

-----------------------------------------------------------------------------
(* PriceProvider. *)

Close ==
    /\ ~stopProvider
    /\ stopProvider' = TRUE
    /\ UNCHANGED <<timeVars, sourcePc, priceUpdate, providerPc, lastPrices, stopSource>>

\* Mutant of ProviderStop: no deferred source.Close.
ProviderStop_NoClose ==
    /\ providerPc = "select"
    /\ stopProvider
    /\ providerPc' = "closing"
    /\ UNCHANGED <<timeVars, sourcePc, priceUpdate, lastPrices, stopVars>>

\* The loop returns; its deferred source.Close closes the source's signal and
\* waits.
ProviderStop ==
    /\ providerPc = "select"
    /\ stopProvider
    /\ providerPc' = "closing"
    /\ stopSource' = TRUE
    /\ UNCHANGED <<timeVars, sourcePc, priceUpdate, lastPrices, stopProvider>>

ProviderClosed ==
    /\ providerPc = "closing"
    /\ sourcePc = "done"
    /\ providerPc' = "done"
    /\ UNCHANGED <<timeVars, sourcePc, priceUpdate, lastPrices, stopVars>>

\* What GetPrice says of a symbol: isValid.
IsValid(s) == lastPrices[s] # Nil /\ lastPrices[s] < PriceTimeout

-----------------------------------------------------------------------------
FetchEnds == FetchFail \/ \E got \in SUBSET Symbols : FetchDone(got)

Next ==
    \/ Elapse
    \/ StartFetch \/ FetchEnds \/ SendUpdate \/ DropUpdate \/ SourceExit
    \/ Close \/ ProviderStop \/ ProviderClosed

Spec == Init /\ [][Next]_vars

\* Each loop goes on, and Go picks at random among the ready cases of a
\* select. Nothing is assumed of a fetch: http.Get has no timeout.
LoopFairness ==
    /\ WF_vars(Elapse)
    /\ SF_vars(StartFetch)
    /\ SF_vars(SendUpdate)
    /\ WF_vars(DropUpdate)
    /\ SF_vars(SourceExit)
    /\ SF_vars(ProviderStop)
    /\ WF_vars(ProviderClosed)

NoTimeoutSpec == Spec /\ LoopFairness

\* In addition, every fetch returns, with prices or with an error.
FairSpec == Spec /\ LoopFairness /\ WF_vars(FetchEnds)

-----------------------------------------------------------------------------
(* Properties. *)

\* Every variable has its type, and the source is stopped by the provider.
TypeOK ==
    /\ reliable \in BOOLEAN
    /\ tickIn \in 1..UpdateTick
    /\ tickPending \in BOOLEAN
    /\ sourcePc \in {"select", "fetching", "sending", "done"}
    /\ fetchTime \in 0..MaxFetchTime
    /\ priceUpdate \in [Symbols -> Ages \union {Nil}]
    /\ providerPc \in {"select", "closing", "done"}
    /\ lastPrices \in [Symbols -> Ages \union {Nil}]
    /\ stopProvider \in BOOLEAN
    /\ stopSource \in BOOLEAN
    /\ stopSource <=> providerPc # "select"

\* While every fetch succeeds within MaxFetchTime, a price that has once been
\* delivered does not expire before the next one comes (until the shutdown):
\* with a tick of 8 and a timeout of 15 a fetch may take 6, not 7, and one
\* failed fetch is too many (tick_source.go:12, types/price.go:12).
NoGap ==
    reliable /\ ~stopProvider =>
        \A s \in Symbols : lastPrices[s] = Nil \/ IsValid(s)

Store == INSTANCE PriceStore WITH age <- lastPrices, Lifetime <- PriceTimeout

\* A valid price is lost by its age alone: no update, be it partial, empty or
\* late, takes a price away or replaces it by an older one, and what is stored
\* is as old as its fetch: the update does not age on its way while the provider
\* runs (tick_source.go:64-78, priceprovider.go:97-101).
ImplementsPriceStore == Store!Spec

\* Close returns: neither loop waits for a channel the other has left, provided
\* that fetches return.
CloseReturns == stopProvider ~> providerPc = "done"

\* cmd/root.go:34: "handleInterrupt listens for SIGINT and gracefully shuts
\* down the feeder". Close of every provider is part of it, and it waits for a
\* fetch that nothing bounds.
GracefulShutdown == stopProvider ~> providerPc = "done"
=============================================================================
