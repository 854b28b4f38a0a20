--------------------------- MODULE Daemon_proofs ---------------------------
(***************************************************************************)
(* The feeder handles voting periods in the order of the chain: a proof    *)
(* for all parameter sets, heights and providers.                          *)
(***************************************************************************)
EXTENDS Daemon, TLAPS

\* The subscription is past the block handed over last, the history is a number,
\* and so is the height at work.
Counters ==
    /\ tip \in Nat /\ cursor \in Nat /\ delivered \in Nat
    /\ lastHandled \in Nat /\ blockHeight \in Nat
    /\ delivered < cursor

\* A block at work is the one handed over last, and no period as late as the one
\* it ends has been handled. Between two blocks that period may have been.
AtWork ==
    /\ vpPc \in {"check", "send"} /\ blockHeight > 0
          => blockHeight = delivered /\ lastHandled <= blockHeight
    /\ vpPc = "send" => blockHeight > 0
    /\ lastHandled <= delivered + 1

IInv == Counters /\ AtWork

\* Every step of IInv keeps IInv and handles, if any, a later voting period.
Advances == handling' # handling => handling' = Nil \/ handling' > lastHandled

-----------------------------------------------------------------------------
\* At the start nothing has been handed over.
LEMMA InitIInv == Init => IInv
  BY DEF Init, IInv, Counters, AtWork, Stream!Init, Feed!Init

\* The chain and the connection: the cursor never goes back.
LEMMA FeedKeeps ==
  ASSUME IInv, NewBlock \/ Reconnect \/ Fatal
  PROVE  IInv' /\ Advances
<1>1. CASE NewBlock
  BY <1>1 DEF IInv, Counters, AtWork, Advances, NewBlock, Feed!Block, streamVars, processVars
<1>2. CASE Reconnect
  BY <1>2 DEF IInv, Counters, AtWork, Advances, Reconnect, Feed!Subscribe, streamVars,
              processVars
<1>3. CASE Fatal
  BY <1>3 DEF IInv, Counters, AtWork, Advances, Fatal, feedVars, processVars
<1> QED
  BY <1>1, <1>2, <1>3

\* A block received is later than the one before, so that the period it ends is
\* later than all that have been handled.
LEMMA ReceiveKeeps ==
  ASSUME IInv, ReceiveBlock \/ ReceiveOther
  PROVE  IInv' /\ Advances
<1>1. CASE ReceiveBlock
  BY <1>1 DEF IInv, Counters, AtWork, Advances, ReceiveBlock, Feed!Deliver,
              Stream!ReceiveMessage, Stream!feederVars, processVars
<1>2. CASE ReceiveOther
  BY <1>2 DEF IInv, Counters, AtWork, Advances, ReceiveOther, Feed!DeliverOther,
              Stream!ReceiveMessage, Stream!feederVars, processVars
<1> QED
  BY <1>1, <1>2

\* The voting period sent is the one after the block at work.
LEMMA SendKeeps ==
  ASSUME IInv, SendVotingPeriod
  PROVE  IInv' /\ Advances
  BY DEF IInv, Counters, AtWork, Advances, SendVotingPeriod, Stream!SendVotingPeriod,
         feedVars

\* paramsLoop does not touch the voting periods.
LEMMA ParamsLoopLeaves ==
  ASSUME Stream!ParamsLoop
  PROVE  UNCHANGED <<vpPc, blockHeight, handling>>
  BY DEF Stream!ParamsLoop, Stream!Tick, Stream!FetchParams, Stream!FetchFail,
         Stream!SwapParams, Stream!SendParams, Stream!DropParams,
         Stream!ParamsLoopExit, Stream!vpVars, Stream!feederVars

\* The loops on their own: the block at work is checked, or let go.
LEMMA LoopsKeep ==
  ASSUME IInv, Loops
  PROVE  IInv' /\ Advances
<1>1. UNCHANGED <<tip, cursor, delivered, lastHandled>>
  BY DEF Loops, Alone, feedVars, processVars
<1>2. UNCHANGED <<blockHeight, handling>>
  BY ParamsLoopLeaves
     DEF Loops, Alone, Stream!CheckHeight, Stream!DropVotingPeriod, Stream!VpLoopExit,
         Stream!feederVars
<1>3. \/ vpPc' = vpPc
      \/ vpPc = "check" /\ vpPc' = "send" /\ blockHeight > 0
      \/ vpPc' \in {"select", "done"}
  BY ParamsLoopLeaves
     DEF Loops, Alone, Stream!CheckHeight, Stream!DropVotingPeriod, Stream!VpLoopExit
<1> QED
  BY <1>1, <1>2, <1>3 DEF IInv, Counters, AtWork, Advances

\* The feeder on its own takes no voting period, it only ends one.
LEMMA FeederKeeps ==
  ASSUME IInv, \/ Feeder \/ CloseProvider \/ FeederClosed
               \/ Alone(Stream!ChangeParams) \/ Alone(Stream!Close)
  PROVE  IInv' /\ Advances
<1>1. UNCHANGED <<tip, cursor, delivered, lastHandled>>
  BY DEF Feeder, CloseProvider, FeederClosed, Alone, feedVars, processVars
<1>2. UNCHANGED <<vpPc, blockHeight>> /\ (handling' = handling \/ handling' = Nil)
  <2>1. CASE Feeder
    BY <2>1 DEF Feeder, Alone, Stream!InitParams, Stream!InitTimeout,
                Stream!UpdateParams, Stream!Handled, Stream!FeederStop, Stream!vpVars
  <2>2. CASE CloseProvider
    BY <2>2 DEF CloseProvider, streamVars
  <2>3. CASE FeederClosed
    BY <2>3 DEF FeederClosed, Alone, Stream!FeederClosed, Stream!vpVars
  <2>4. CASE Alone(Stream!ChangeParams)
    BY <2>4 DEF Alone, Stream!ChangeParams, Stream!vpVars, Stream!feederVars
  <2>5. CASE Alone(Stream!Close)
    BY <2>5 DEF Alone, Stream!Close, Stream!vpVars
  <2> QED
    BY <2>1, <2>2, <2>3, <2>4, <2>5
<1> QED
  BY <1>1, <1>2 DEF IInv, Counters, AtWork, Advances

\* Every step.
LEMMA NextIInv ==
  ASSUME IInv, [Next]_vars
  PROVE  IInv' /\ Advances
<1>1. CASE UNCHANGED vars
  BY <1>1 DEF vars, streamVars, feedVars, processVars, IInv, Counters, AtWork, Advances
<1>2. CASE Next
  BY <1>1, <1>2, FeedKeeps, ReceiveKeeps, SendKeeps, LoopsKeep, FeederKeeps DEF Next
<1> QED
  BY <1>1, <1>2

\* Voting periods are handled in the order of the chain and none twice, for all
\* parameter sets, block heights, reconnections and providers (stream.go:110-115).
THEOREM PeriodsAdvance == Spec => VotingPeriodsAdvance
<1>1. IInv /\ [Next]_vars => IInv'
  BY NextIInv
<1>2. IInv /\ [Next]_vars => [Advances]_vars
  BY NextIInv
<1> QED
  BY InitIInv, <1>1, <1>2, PTL DEF Spec, VotingPeriodsAdvance, Advances
=============================================================================
