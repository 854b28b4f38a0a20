------------------------- MODULE EventStream_proofs -------------------------
(***************************************************************************)
(* Theorems about EventStream, for every set of parameters and every bound *)
(* on the heights.                                                         *)
(***************************************************************************)
EXTENDS EventStream, SequenceTheorems, TLAPS

-----------------------------------------------------------------------------
(* The inductive invariant. *)

\* paramsLoop compares and sends what it has fetched.
FetchedIsKnown == paramsPc \in {"swap", "send"} => newParams # Nil

\* The stream is stopped by the feeder's shutdown only, and the feeder loops
\* only with parameters.
Started ==
    /\ stopSignal => feederPc \in {"closing", "closed"}
    /\ feederPc \notin {"init", "panicked"} => feederParams # Nil

IInv == TypeOK /\ FetchedIsKnown /\ Started /\ NoUpdateLost

\* A sequence is its elements.
LEMMA OneElement ==
    ASSUME NEW S, NEW s \in Seq(S), NEW x \in S, Len(s) = 1, s[1] = x
    PROVE  s = <<x>>
<1>1. <<x>> \in Seq(S) /\ Len(<<x>>) = 1 /\ <<x>>[1] = x
  OBVIOUS
<1>2. \A i \in 1..Len(s) : s[i] = <<x>>[i]
  BY <1>1
<1> QED BY <1>1, <1>2, SeqEqual, Zenon

LEMMA TwoElements ==
    ASSUME NEW S, NEW s \in Seq(S), NEW x \in S, NEW y \in S,
           Len(s) = 2, s[1] = x, s[2] = y
    PROVE  s = <<x, y>>
<1>1. <<x, y>> \in Seq(S) /\ Len(<<x, y>>) = 2
      /\ <<x, y>>[1] = x /\ <<x, y>>[2] = y
  OBVIOUS
<1>2. 1..2 = {1, 2}
  OBVIOUS
<1>3. \A i \in 1..Len(s) : s[i] = <<x, y>>[i]
  BY <1>1, <1>2
<1> QED BY <1>1, <1>3, SeqEqual, Zenon

\* The channel is empty or holds one value.
LEMMA ChannelForm ==
    ASSUME TypeOK
    PROVE  paramsChannel = <<>> \/ \E p \in Params : paramsChannel = <<p>>
<1>1. paramsChannel \in Seq(Params) /\ Len(paramsChannel) <= 1
  BY DEF TypeOK
<1>2. CASE Len(paramsChannel) = 0
  BY <1>1, <1>2, EmptySeq
<1>3. CASE Len(paramsChannel) = 1
  <2>1. paramsChannel[1] \in Params
    BY <1>1, <1>3
  <2>2. paramsChannel = <<paramsChannel[1]>>
    BY <1>1, <1>3, <2>1, OneElement
  <2> QED BY <2>1, <2>2
<1>4. Len(paramsChannel) \in Nat
  BY <1>1, LenProperties
<1>5. Len(paramsChannel) = 0 \/ Len(paramsChannel) = 1
  BY <1>1, <1>4
<1> QED BY <1>2, <1>3, <1>5

\* What the channel holds, with and without what waits to be sent.
LEMMA OneThenAnother ==
    ASSUME NEW S, NEW x \in S, NEW y \in S
    PROVE  <<x>> \o <<>> = <<x>> /\ <<x>> \o <<y>> = <<x, y>>
<1>1. <<x>> \in Seq(S) /\ <<y>> \in Seq(S)
  OBVIOUS
<1>2. <<x>> \o <<>> = <<x>>
  BY <1>1, ConcatEmptySeq
<1>3. <<x>> \o <<y>> = <<x, y>>
  <2>1. /\ Len(<<x>>) = 1 /\ Len(<<y>>) = 1
        /\ <<x>>[1] = x /\ <<y>>[1] = y
    OBVIOUS
  <2>2. /\ <<x>> \o <<y>> \in Seq(S)
        /\ Len(<<x>> \o <<y>>) = 2
        /\ (<<x>> \o <<y>>)[1] = x /\ (<<x>> \o <<y>>)[2] = y
    BY <1>1, <2>1, ConcatProperties
  <2> QED BY <2>2, TwoElements
<1> QED BY <1>2, <1>3

\* Facts about sequences of at most two elements.
LEMMA ShortSeqs ==
    ASSUME NEW S, NEW x \in S, NEW y \in S
    PROVE  /\ <<>> \o <<x>> = <<x>> /\ <<x>> \o <<>> = <<x>>
           /\ <<>> \o <<>> = <<>> /\ <<x>> \o <<y>> = <<x, y>>
           /\ Append(<<>>, x) = <<x>> /\ Append(<<x>>, y) = <<x, y>>
           /\ Head(<<x>>) = x /\ Tail(<<x>>) = <<>>
           /\ Head(<<x, y>>) = x /\ Tail(<<x, y>>) = <<y>>
           /\ SubSeq(<<x>>, 1, 0) = <<>> /\ SubSeq(<<x, y>>, 1, 1) = <<x>>
           /\ <<x>> # <<>> /\ <<x, y>> # <<>>
           /\ Len(<<x>>) = 1 /\ Len(<<x, y>>) = 2 /\ Len(<<>>) = 0
           /\ <<x>>[1] = x /\ <<x, y>>[2] = y
<1>1. <<>> \in Seq(S) /\ <<x>> \in Seq(S) /\ <<x, y>> \in Seq(S)
  OBVIOUS
<1>2. /\ <<x>> # <<>> /\ <<x, y>> # <<>>
      /\ Len(<<x>>) = 1 /\ Len(<<x, y>>) = 2 /\ Len(<<>>) = 0
      /\ <<x>>[1] = x /\ <<x, y>>[1] = x /\ <<x, y>>[2] = y
  OBVIOUS
<1>3. <<>> \o <<x>> = <<x>> /\ <<x>> \o <<>> = <<x>> /\ <<>> \o <<>> = <<>>
  BY <1>1, ConcatEmptySeq
<1>4. <<x>> \o <<y>> = <<x, y>>
  BY OneThenAnother
<1>5. Append(<<>>, x) = <<x>> /\ Append(<<x>>, y) = <<x, y>>
  <2>1. /\ Append(<<>>, x) \in Seq(S) /\ Append(<<x>>, y) \in Seq(S)
        /\ Len(Append(<<>>, x)) = 1 /\ Len(Append(<<x>>, y)) = 2
        /\ Append(<<>>, x)[1] = x
        /\ Append(<<x>>, y)[1] = x /\ Append(<<x>>, y)[2] = y
    BY <1>1, <1>2, AppendProperties
  <2>2. Append(<<>>, x) = <<x>>
    BY <2>1, OneElement
  <2>3. Append(<<x>>, y) = <<x, y>>
    BY <2>1, TwoElements
  <2> QED BY <2>2, <2>3
<1>6. Head(<<x>>) = x /\ Head(<<x, y>>) = x
  BY <1>2
<1>7. Tail(<<x>>) = <<>> /\ Tail(<<x, y>>) = <<y>>
  OBVIOUS
<1>8. SubSeq(<<x>>, 1, 0) = <<>>
  OBVIOUS
<1>9. SubSeq(<<x, y>>, 1, 1) = <<x>>
  <2>1. /\ SubSeq(<<x, y>>, 1, 1) \in Seq(S)
        /\ Len(SubSeq(<<x, y>>, 1, 1)) = 1
        /\ SubSeq(<<x, y>>, 1, 1)[1] = x
    BY <1>1, <1>2, SubSeqProperties
  <2> QED BY <2>1, OneElement
<1> QED BY <1>2, <1>3, <1>4, <1>5, <1>6, <1>7, <1>8, <1>9

\* What Announced is in each of its four shapes.
LEMMA AnnouncedForm ==
    ASSUME TypeOK, FetchedIsKnown
    PROVE  /\ paramsChannel = <<>> /\ paramsPc # "send" => Announced = <<>>
           /\ paramsChannel = <<>> /\ paramsPc = "send" => Announced = <<newParams>>
           /\ \A p \in Params : paramsChannel = <<p>> =>
                Announced = IF paramsPc = "send" THEN <<p, newParams>> ELSE <<p>>
<1>1. paramsPc = "send" => newParams \in Params
  BY DEF TypeOK, FetchedIsKnown
<1>2. paramsPc # "send" =>
        /\ paramsChannel = <<>> => Announced = <<>>
        /\ \A p \in Params : paramsChannel = <<p>> => Announced = <<p>>
  BY ShortSeqs DEF Announced
<1>3. CASE paramsPc = "send"
  <2>1. paramsChannel = <<>> => Announced = <<newParams>>
    BY <1>1, <1>3, ShortSeqs DEF Announced
  <2>2. ASSUME NEW p \in Params, paramsChannel = <<p>>
        PROVE  Announced = <<p, newParams>>
    <3>1. Announced = <<p>> \o <<newParams>>
      BY <1>3, <2>2 DEF Announced
    <3> QED BY <1>1, <1>3, <3>1, OneThenAnother
  <2> QED BY <1>3, <2>1, <2>2
<1> QED BY <1>2, <1>3

\* The newest parameters on their way, or those the feeder has.
Newest == IF paramsPc = "send" THEN newParams
          ELSE IF paramsChannel = <<>> THEN feederParams ELSE paramsChannel[1]

LEMMA NewestFact ==
    ASSUME TypeOK, FetchedIsKnown
    PROVE  (IF Announced = <<>> THEN feederParams ELSE Announced[Len(Announced)])
              = Newest
<1>1. paramsPc = "send" => newParams \in Params
  BY DEF TypeOK, FetchedIsKnown
<1>2. CASE paramsChannel = <<>>
  BY <1>1, <1>2, AnnouncedForm, ShortSeqs DEF Newest
<1>3. ASSUME NEW p \in Params, paramsChannel = <<p>>
      PROVE  (IF Announced = <<>> THEN feederParams ELSE Announced[Len(Announced)])
                = Newest
  BY <1>1, <1>3, AnnouncedForm, ShortSeqs DEF Newest
<1> QED BY <1>2, <1>3, ChannelForm

\* NoUpdateLost in terms of Newest.
LEMMA NoUpdateLostFact ==
    ASSUME TypeOK, FetchedIsKnown
    PROVE  NoUpdateLost <=> (~stopSignal => params = Newest)
BY NewestFact DEF NoUpdateLost

LEMMA InitIInv == Init => IInv
<1> SUFFICES ASSUME Init PROVE IInv
  OBVIOUS
<1>1. TypeOK
  <2>1. paramsChannel \in Seq(Params) /\ Len(paramsChannel) <= 1
    BY DEF Init
  <2>2. blockHeight \in 0..MaxHeight
    BY HeightAssumption DEF Init
  <2> QED BY <2>1, <2>2 DEF Init, TypeOK
<1>2. FetchedIsKnown /\ Started
  BY DEF Init, FetchedIsKnown, Started
<1>3. params = Newest
  BY DEF Init, Newest
<1> QED BY <1>1, <1>2, <1>3, NoUpdateLostFact DEF IInv

-----------------------------------------------------------------------------
(* The invariant is inductive. It is kept in the form with Newest. *)

Synced == ~stopSignal => params = Newest

LEMMA IInvSynced == IInv <=> TypeOK /\ FetchedIsKnown /\ Started /\ Synced
BY NoUpdateLostFact DEF IInv, Synced

\* The next state, primed, of the same fact.
LEMMA IInvSyncedPrime ==
    ASSUME TypeOK', FetchedIsKnown', Started', Synced'
    PROVE  IInv'
BY IInvSynced, PTL

\* A send that finds room finds the channel empty.
LEMMA RoomFact ==
    ASSUME TypeOK, FetchedIsKnown, SendParams
    PROVE  paramsChannel = <<>> /\ paramsChannel' = <<newParams>>
           /\ newParams \in Params
<1>1. newParams \in Params
  BY DEF TypeOK, FetchedIsKnown, SendParams
<1>2. paramsChannel = <<>>
  BY ChannelForm, ShortSeqs DEF SendParams
<1> QED BY <1>1, <1>2, ShortSeqs DEF SendParams

\* Taking parameters empties the channel.
LEMMA TakeFact ==
    ASSUME TypeOK, TakeParams
    PROVE  \E p \in Params : /\ paramsChannel = <<p>>
                            /\ feederParams' = p
                            /\ paramsChannel' = <<>>
<1>1. PICK p \in Params : paramsChannel = <<p>>
  BY ChannelForm DEF TakeParams
<1> QED BY <1>1, ShortSeqs DEF TakeParams

\* The steps of paramsLoop.
LEMMA ParamsLoopStep ==
    ASSUME IInv, ParamsLoop
    PROVE  IInv'
<1>1. TypeOK /\ FetchedIsKnown /\ Started /\ Synced
  BY IInvSynced
<1> USE DEF FetchedIsKnown, Started, Synced, Newest, vpVars, feederVars
<1>2. CASE Tick \/ FetchFail \/ DropParams \/ ParamsLoopExit
  <2>1. TypeOK'
    BY <1>1, <1>2 DEF Tick, FetchFail, DropParams, ParamsLoopExit, TypeOK
  <2>2. FetchedIsKnown' /\ Started' /\ Synced'
    BY <1>1, <1>2 DEF Tick, FetchFail, DropParams, ParamsLoopExit
  <2> QED BY <2>1, <2>2, IInvSyncedPrime
<1>3. CASE FetchParams
  <2>1. TypeOK'
    BY <1>1, <1>3 DEF FetchParams, TypeOK
  <2>2. FetchedIsKnown' /\ Started' /\ Synced'
    BY <1>1, <1>3, NilAssumption DEF FetchParams, TypeOK
  <2> QED BY <2>1, <2>2, IInvSyncedPrime
<1>4. CASE SwapParams
  <2>1. TypeOK'
    BY <1>1, <1>4 DEF SwapParams, TypeOK
  <2>2. FetchedIsKnown' /\ Started'
    BY <1>1, <1>4 DEF SwapParams
  <2>3. Synced'
    <3>1. CASE paramsPc' = "send"
      BY <1>1, <1>4, <3>1 DEF SwapParams
    <3>2. CASE paramsPc' # "send"
      <4>1. params \in Params /\ newParams \in Params /\ Equal(params, newParams)
        BY <1>1, <1>4, <3>2 DEF SwapParams, TypeOK
      <4>2. params = newParams
        BY <4>1 DEF Equal, Params
      <4> QED BY <1>1, <1>4, <3>2, <4>2 DEF SwapParams
    <3> QED BY <3>1, <3>2
  <2> QED BY <2>1, <2>2, <2>3, IInvSyncedPrime
<1>5. CASE SendParams
  <2>1. paramsChannel' = <<newParams>> /\ newParams \in Params
        /\ paramsChannel'[1] = newParams /\ paramsChannel' # <<>>
        /\ Len(paramsChannel') = 1 /\ paramsChannel' \in Seq(Params)
    <3>1. paramsChannel' = <<newParams>> /\ newParams \in Params
      BY <1>1, <1>5, RoomFact
    <3> QED BY <3>1
  <2>2. TypeOK'
    BY <1>1, <1>5, <2>1 DEF SendParams, TypeOK
  <2>3. FetchedIsKnown' /\ Started' /\ Synced'
    BY <1>1, <1>5, <2>1 DEF SendParams
  <2> QED BY <2>2, <2>3, IInvSyncedPrime
<1> QED BY <1>2, <1>3, <1>4, <1>5 DEF ParamsLoop

\* The steps of votingPeriodStartedLoop.
LEMMA VotingPeriodLoopStep ==
    ASSUME IInv, VotingPeriodLoop
    PROVE  IInv'
<1>1. TypeOK /\ FetchedIsKnown /\ Started /\ Synced
  BY IInvSynced
<1>2. TypeOK'
  <2>1. blockHeight + 1 \in 1..MaxHeight + 1
    BY <1>1, HeightAssumption DEF TypeOK
  <2>2. handling' \in 1..MaxHeight + 1 \union {Nil}
    BY <1>1, <2>1 DEF TypeOK, VotingPeriodLoop, ReceiveMessage, CheckHeight,
        SendVotingPeriod, DropVotingPeriod, VpLoopExit, feederVars
  <2>3. (feederPc = "handling" <=> handling # Nil)'
    BY <1>1, <2>1, NilAssumption DEF TypeOK, VotingPeriodLoop, ReceiveMessage,
        CheckHeight, SendVotingPeriod, DropVotingPeriod, VpLoopExit, feederVars
  <2> QED
    BY <1>1, <2>2, <2>3 DEF TypeOK, VotingPeriodLoop, ReceiveMessage, CheckHeight,
        SendVotingPeriod, DropVotingPeriod, VpLoopExit, loopVars, feederVars
<1>3. FetchedIsKnown' /\ Started' /\ Synced'
  BY <1>1 DEF FetchedIsKnown, Started, Synced, Newest, VotingPeriodLoop,
      ReceiveMessage, CheckHeight, SendVotingPeriod, DropVotingPeriod, VpLoopExit,
      loopVars, feederVars
<1> QED BY <1>2, <1>3, IInvSyncedPrime

\* The steps of the feeder, the interrupt and the chain.
LEMMA FeederStep ==
    ASSUME IInv, Feeder \/ Close \/ ChangeParams
    PROVE  IInv'
<1>1. TypeOK /\ FetchedIsKnown /\ Started /\ Synced
  BY IInvSynced
<1>2. CASE InitParams \/ UpdateParams
  <2>1. PICK p \in Params : /\ paramsChannel = <<p>>
                            /\ feederParams' = p
                            /\ paramsChannel' = <<>>
    BY <1>1, <1>2, TakeFact DEF InitParams, UpdateParams
  <2>2. p # Nil /\ paramsChannel # <<>> /\ paramsChannel[1] = p
    BY <2>1, NilAssumption
  <2>3. paramsChannel' \in Seq(Params) /\ Len(paramsChannel') <= 1
    BY <2>1
  <2>4. UNCHANGED <<chainParams, params, paramsPc, newParams, vpPc, blockHeight,
                    handling, stop, stopSignal>>
        /\ feederPc' = "loop" /\ feederPc # "handling"
    BY <1>2 DEF InitParams, UpdateParams, loopVars, vpVars
  <2>5. TypeOK'
    BY <1>1, <2>1, <2>3, <2>4 DEF TypeOK
  <2>6. FetchedIsKnown' /\ Started' /\ Synced'
    <3>1. ~stopSignal
      BY <1>1, <1>2 DEF Started, InitParams, UpdateParams
    <3> QED
      BY <1>1, <2>1, <2>2, <2>4, <3>1 DEF FetchedIsKnown, Started, Synced, Newest
  <2> QED BY <2>5, <2>6, IInvSyncedPrime
<1>3. CASE InitTimeout \/ Handled \/ FeederStop \/ FeederClosed \/ Close \/ ChangeParams
  <2>1. TypeOK'
    <3>1. CASE Handled
      BY <1>1, <3>1 DEF Handled, TypeOK, loopVars, vpVars
    <3>2. CASE ChangeParams
      BY <1>1, <3>2 DEF ChangeParams, TypeOK, loopVars, vpVars, feederVars
    <3>3. CASE InitTimeout \/ FeederStop \/ FeederClosed
      BY <1>1, <3>3 DEF InitTimeout, FeederStop, FeederClosed, TypeOK, loopVars, vpVars
    <3>4. CASE Close
      BY <1>1, <3>4 DEF Close, TypeOK, loopVars, vpVars
    <3> QED BY <1>3, <3>1, <3>2, <3>3, <3>4
  <2>2. FetchedIsKnown' /\ Started' /\ Synced'
    BY <1>1, <1>3 DEF InitTimeout, Handled, FeederStop, FeederClosed, Close,
        ChangeParams, FetchedIsKnown, Started, Synced, Newest, loopVars, vpVars,
        feederVars
  <2> QED BY <2>1, <2>2, IInvSyncedPrime
<1> QED BY <1>2, <1>3 DEF Feeder

LEMMA NextIInv ==
    ASSUME IInv, [Next]_vars
    PROVE  IInv'
<1>1. CASE UNCHANGED vars
  BY <1>1 DEF vars, loopVars, vpVars, feederVars, IInv, TypeOK, FetchedIsKnown,
              Started, NoUpdateLost, Announced
<1> QED
  BY <1>1, ParamsLoopStep, VotingPeriodLoopStep, FeederStep DEF Next

\* The invariant holds in every reachable state.
THEOREM Invariance == Spec => []IInv
BY InitIInv, NextIInv, PTL DEF Spec

-----------------------------------------------------------------------------
(* The theorems. *)

\* Every variable keeps its type; paramsChannel never holds more than one.
THEOREM TypeCorrect == Spec => []TypeOK
<1>1. IInv => TypeOK
  BY DEF IInv
<1> QED BY <1>1, Invariance, PTL

\* Until the stream is stopped, the parameters it takes voting periods from
\* are those the feeder has or is about to get (stream.go:150-161).
THEOREM NoUpdateLostHolds == Spec => []NoUpdateLost
<1>1. IInv => NoUpdateLost
  BY DEF IInv
<1> QED BY <1>1, Invariance, PTL

-----------------------------------------------------------------------------
(* EventStream implements EventRelay. *)

LEMMA LatestFact ==
    ASSUME IInv
    PROVE  /\ Abstract!Latest = Newest
           /\ ~stopSignal => Abstract!Latest = params
           /\ feederPc \notin {"init", "panicked"} => Abstract!Latest # Nil
<1>1. Abstract!Latest = Newest
  BY NewestFact DEF IInv, Abstract!Latest
<1>2. ~stopSignal => params = Newest
  BY IInvSynced DEF Synced
<1>3. feederPc \notin {"init", "panicked"} => Newest # Nil
  <2>1. CASE paramsChannel = <<>>
    BY <2>1 DEF IInv, Started, FetchedIsKnown, Newest
  <2>2. ASSUME NEW p \in Params, paramsChannel = <<p>> PROVE Newest # Nil
    BY <2>2, NilAssumption DEF IInv, FetchedIsKnown, Newest
  <2> QED BY <2>1, <2>2, ChannelForm DEF IInv
<1> QED BY <1>1, <1>2, <1>3

\* New parameters are announced at the Swap.
LEMMA SwapImplements ==
    ASSUME IInv, SwapParams
    PROVE  [Abstract!Next]_(Abstract!vars)
<1>1. UNCHANGED <<feederParams, vpPc, blockHeight, handling, stopSignal, paramsChannel,
                  newParams>>
  BY DEF SwapParams, vpVars, feederVars
<1>2. paramsPc = "swap" /\ newParams \in Params
  BY DEF SwapParams, IInv, TypeOK, FetchedIsKnown
<1>3. CASE paramsPc' # "send"
  <2>1. Announced' = Announced
    BY <1>1, <1>2, <1>3 DEF Announced
  <2> QED BY <1>1, <2>1 DEF Abstract!vars
<1>4. CASE paramsPc' = "send"
  <2>1. Announced' = Append(Announced, newParams)
    <3>1. CASE paramsChannel = <<>>
      <4>1. Announced = <<>> /\ Announced' = <<newParams>>
        BY <1>1, <1>2, <1>4, <3>1, ShortSeqs DEF Announced
      <4> QED BY <1>2, <4>1, ShortSeqs
    <3>2. ASSUME NEW p \in Params, paramsChannel = <<p>>
          PROVE  Announced' = Append(Announced, newParams)
      <4>1. Announced = <<p>> /\ Announced' = <<p, newParams>>
        <5>1. Announced = <<p>> \o <<>> /\ Announced' = <<p>> \o <<newParams>>
          BY <1>1, <1>2, <1>4, <3>2 DEF Announced
        <5> QED BY <1>2, <5>1, OneThenAnother
      <4> QED BY <1>2, <4>1, ShortSeqs
    <3> QED BY <3>1, <3>2, ChannelForm DEF IInv
  <2>2. newParams # params
    BY <1>2, <1>4, NilAssumption DEF SwapParams, Equal, IInv, TypeOK
  <2>3. newParams # Abstract!Latest \/ stopSignal
    BY <2>2, LatestFact
  <2>4. Abstract!Announce(newParams)
    BY <1>1, <2>1, <2>3 DEF Abstract!Announce
  <2> QED BY <1>2, <2>4 DEF Abstract!Next
<1> QED BY <1>3, <1>4

\* The other steps of paramsLoop: a send changes nothing, a drop takes away
\* what was announced last.
LEMMA ParamsLoopImplements ==
    ASSUME IInv, ParamsLoop
    PROVE  [Abstract!Next]_(Abstract!vars)
<1>1. CASE Tick \/ FetchParams \/ FetchFail \/ ParamsLoopExit
  <2>1. Announced' = Announced
    BY <1>1 DEF Tick, FetchParams, FetchFail, ParamsLoopExit, Announced
  <2> QED
    BY <1>1, <2>1 DEF Tick, FetchParams, FetchFail, ParamsLoopExit, vpVars,
        feederVars, Abstract!vars
<1>2. CASE SendParams
  <2>1. paramsChannel = <<>> /\ paramsChannel' = <<newParams>> /\ newParams \in Params
    BY <1>2, RoomFact DEF IInv
  <2>2. Announced' = Announced
    BY <1>2, <2>1, ShortSeqs DEF SendParams, Announced
  <2> QED BY <1>2, <2>2 DEF SendParams, vpVars, feederVars, Abstract!vars
<1>3. CASE DropParams
  <2>1. /\ paramsPc = "send" /\ paramsPc' = "select" /\ stopSignal
        /\ UNCHANGED <<feederParams, vpPc, blockHeight, handling, stopSignal,
                       paramsChannel, newParams>>
    BY <1>3 DEF DropParams, vpVars, feederVars
  <2>2. newParams \in Params
    BY <2>1 DEF IInv, TypeOK, FetchedIsKnown
  <2>3. Announced # <<>> /\ Announced' = SubSeq(Announced, 1, Len(Announced) - 1)
    <3>1. CASE paramsChannel = <<>>
      <4>1. Announced = <<newParams>> /\ Announced' = <<>>
        BY <2>1, <2>2, <3>1, ShortSeqs DEF Announced
      <4> QED BY <2>2, <4>1, ShortSeqs
    <3>2. ASSUME NEW p \in Params, paramsChannel = <<p>>
          PROVE  Announced # <<>>
                 /\ Announced' = SubSeq(Announced, 1, Len(Announced) - 1)
      <4>1. Announced = <<p, newParams>> /\ Announced' = <<p>>
        <5>1. Announced = <<p>> \o <<newParams>> /\ Announced' = <<p>> \o <<>>
          BY <2>1, <3>2 DEF Announced
        <5> QED BY <2>2, <5>1, OneThenAnother
      <4> QED BY <2>2, <4>1, ShortSeqs
    <3> QED BY <3>1, <3>2, ChannelForm DEF IInv
  <2> QED BY <2>1, <2>3 DEF Abstract!Next, Abstract!Drop
<1> QED BY <1>1, <1>2, <1>3, SwapImplements DEF ParamsLoop

\* A height that ends a period raises a signal; the feeder or a drop takes it.
LEMMA VotingPeriodLoopImplements ==
    ASSUME IInv, VotingPeriodLoop
    PROVE  [Abstract!Next]_(Abstract!vars)
<1>1. Announced' = Announced /\ UNCHANGED <<feederParams, stopSignal>>
  BY DEF VotingPeriodLoop, ReceiveMessage, CheckHeight, SendVotingPeriod,
         DropVotingPeriod, VpLoopExit, loopVars, feederVars, Announced
<1>2. blockHeight \in 0..MaxHeight
  BY DEF IInv, TypeOK
<1>3. CASE ReceiveMessage \/ VpLoopExit
  BY <1>1, <1>3 DEF ReceiveMessage, VpLoopExit, feederVars, Abstract!vars
<1>4. CASE CheckHeight
  <2>1. CASE vpPc' = "send"
    <3>1. blockHeight + 1 \in 1..MaxHeight + 1
      BY <1>2, HeightAssumption
    <3>2. Abstract!Latest # Nil
      BY <1>4, <2>1, LatestFact DEF CheckHeight, IInv, Started
    <3>3. Abstract!Raise(blockHeight + 1)
      BY <1>1, <1>4, <2>1, <3>2 DEF CheckHeight, feederVars, Abstract!Raise
    <3> QED BY <3>1, <3>3 DEF Abstract!Next
  <2>2. CASE vpPc' # "send"
    BY <1>1, <1>4, <2>2 DEF CheckHeight, feederVars, Abstract!vars
  <2> QED BY <2>1, <2>2
<1>5. CASE SendVotingPeriod
  <2>1. blockHeight + 1 # Nil
    BY <1>2, HeightAssumption, NilAssumption
  <2>2. handling = Nil /\ feederParams # Nil
    BY <1>5 DEF SendVotingPeriod, IInv, TypeOK, Started
  <2>3. Abstract!Handle
    BY <1>1, <1>5, <2>1, <2>2 DEF SendVotingPeriod, Abstract!Handle
  <2> QED BY <2>3 DEF Abstract!Next
<1>6. CASE DropVotingPeriod
  <2>1. Abstract!Drop
    BY <1>1, <1>6 DEF DropVotingPeriod, feederVars, Abstract!Drop
  <2> QED BY <2>1 DEF Abstract!Next
<1> QED BY <1>3, <1>4, <1>5, <1>6 DEF VotingPeriodLoop

\* The feeder learns what was announced first, finishes, and stops the stream.
LEMMA FeederImplements ==
    ASSUME IInv, Feeder \/ Close \/ ChangeParams
    PROVE  [Abstract!Next]_(Abstract!vars)
<1>1. UNCHANGED <<paramsPc, newParams, vpPc, blockHeight>>
  BY DEF Feeder, InitParams, InitTimeout, UpdateParams, Handled, FeederStop,
         FeederClosed, Close, ChangeParams, loopVars, vpVars
<1>2. CASE InitParams \/ UpdateParams
  <2>1. PICK p \in Params : /\ paramsChannel = <<p>>
                            /\ feederParams' = p
                            /\ paramsChannel' = <<>>
    BY <1>2, TakeFact DEF InitParams, UpdateParams, IInv
  <2>2. handling = Nil /\ UNCHANGED <<handling, stopSignal>>
    BY <1>2 DEF InitParams, UpdateParams, IInv, TypeOK
  <2>3. Announced # <<>> /\ p = Head(Announced) /\ Announced' = Tail(Announced)
    <3>1. CASE paramsPc = "send"
      <4>1. newParams \in Params
        BY <3>1 DEF IInv, TypeOK, FetchedIsKnown
      <4>2. Announced = <<p, newParams>>
        BY <2>1, <3>1, <4>1, AnnouncedForm DEF IInv
      <4>3. Announced' = <<>> \o <<newParams>>
        BY <1>1, <2>1, <3>1 DEF Announced
      <4>4. Announced' = <<newParams>>
        BY <4>1, <4>3, ShortSeqs
      <4> QED BY <4>1, <4>2, <4>4, ShortSeqs
    <3>2. CASE paramsPc # "send"
      <4>1. Announced = <<p>> /\ Announced' = <<>>
        BY <1>1, <2>1, <3>2, ShortSeqs DEF Announced
      <4> QED BY <4>1, ShortSeqs
    <3> QED BY <3>1, <3>2
  <2>4. Abstract!Learn
    BY <1>1, <2>1, <2>2, <2>3 DEF Abstract!Learn
  <2> QED BY <2>4 DEF Abstract!Next
<1>3. CASE Handled
  <2>1. Announced' = Announced
    BY <1>3 DEF Handled, loopVars, Announced
  <2>2. Abstract!Finish
    BY <1>1, <1>3, <2>1 DEF Handled, IInv, TypeOK, Abstract!Finish
  <2> QED BY <2>2 DEF Abstract!Next
<1>4. CASE FeederStop
  <2>1. Announced' = Announced
    BY <1>4 DEF FeederStop, loopVars, Announced
  <2>2. Abstract!Stop
    BY <1>1, <1>4, <2>1 DEF FeederStop, Abstract!Stop
  <2> QED BY <2>2 DEF Abstract!Next
<1>5. CASE InitTimeout \/ FeederClosed \/ Close \/ ChangeParams
  <2>1. Announced' = Announced
    BY <1>5 DEF InitTimeout, FeederClosed, Close, ChangeParams, loopVars, Announced
  <2> QED
    BY <1>1, <1>5, <2>1 DEF InitTimeout, FeederClosed, Close, ChangeParams,
        feederVars, Abstract!vars
<1> QED BY <1>2, <1>3, <1>4, <1>5 DEF Feeder

LEMMA NextImplements ==
    ASSUME IInv, [Next]_vars
    PROVE  [Abstract!Next]_(Abstract!vars)
<1>1. CASE UNCHANGED vars
  BY <1>1 DEF vars, loopVars, vpVars, feederVars, Announced, Abstract!vars
<1> QED
  BY <1>1, ParamsLoopImplements, VotingPeriodLoopImplements, FeederImplements
     DEF Next

\* The stream with the feeder is a relay that loses, repeats and reorders
\* nothing until it is stopped.
THEOREM Refinement == Spec => ImplementsEventRelay
<1>1. Init => Abstract!Init
  <2> SUFFICES ASSUME Init PROVE Abstract!Init
    OBVIOUS
  <2>1. Announced = <<>>
    BY InitIInv, AnnouncedForm DEF Init, IInv
  <2> QED BY <2>1 DEF Init, Abstract!Init
<1>2. IInv /\ [Next]_vars => [Abstract!Next]_(Abstract!vars)
  BY NextImplements
<1> QED
  BY <1>1, <1>2, Invariance, PTL DEF Spec, ImplementsEventRelay, Abstract!Spec
=============================================================================
