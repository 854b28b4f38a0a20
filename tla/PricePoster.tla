---------------------------- MODULE PricePoster ----------------------------
(***************************************************************************)
(* The price poster (feeder/priceposter): once per voting period it sends  *)
(* one transaction that opens the prevote of the period before (a vote)    *)
(* and commits to new prices (a prevote, a salted hash).                   *)
(*                                                                         *)
(* Client.SendPrices makes up to three calls to the chain's node, and the  *)
(* chain moves between any two of them:                                    *)
(*                                                                         *)
(*   idle --SendPrices--> [prepareVote] --> account --> broadcast --> idle *)
(*                                                                         *)
(* The chain is external. It is modelled by what the client relies on: one *)
(* prevote slot per validator, an account sequence checked against the     *)
(* transactions already pooled, and transactions that run all or nothing.  *)
(***************************************************************************)
EXTENDS Naturals, Sequences, FiniteSets

CONSTANTS
    Salt,           \* the salts newPrevote may draw
    Rates,          \* the encoded exchange rates of one period
    Nil,            \* a nil pointer, an empty slot
    MaxSequence,    \* last account sequence; the one after it is 0
    Faults          \* the failures that may happen, a subset of Fault

(***************************************************************************)
(*   network    a query fails, or a broadcast fails before the node has it *)
(*   ambiguous  the node pools the tx, the client sees an error or timeout *)
(*   refuse     CheckTx refuses a tx for another reason than its sequence  *)
(*   outOfGas   a pooled tx is included and fails: only its sequence counts*)
(*   evict      a pooled tx is dropped                                     *)
(*   expire     the chain removes a prevote nobody opened in time          *)
(*   restart    the feeder process dies and is started again               *)
(***************************************************************************)
Fault == {"network", "ambiguous", "refuse", "outOfGas", "evict", "expire", "restart"}

Prevote == [salt : Salt, vote : Rates]
Hash(p) == <<p.salt, p.vote>>       \* GetAggregateVoteHash, no collisions
Hashes  == Salt \X Rates

ASSUME NilAssumption      == Nil \notin Prevote /\ Nil \notin Hashes
ASSUME SequenceAssumption == MaxSequence \in Nat /\ MaxSequence >= 1
ASSUME FaultsAssumption   == Faults \subseteq Fault

VARIABLES
    pc,                 \* where SendPrices is
    previousPrevote,    \* Client.previousPrevote
    newPrevote,         \* the prevote of the call under way
    voteMsg,            \* the prevote that call opens, or Nil
    sequence,           \* the account sequence that call read
    aggregatePrevote,   \* chain: the hash in the validator's slot
    accSequence,        \* chain: the account's committed sequence
    mempool,            \* chain: the transactions waiting to be included
    committed,          \* history: every hash the slot has held
    revealed,           \* history: every hash whose opening was broadcast
    counted             \* history: every hash whose vote the chain took

clientVars  == <<pc, previousPrevote, newPrevote, voteMsg, sequence>>
chainVars   == <<aggregatePrevote, accSequence, mempool>>
historyVars == <<committed, revealed, counted>>
vars        == <<clientVars, chainVars, historyVars>>

-----------------------------------------------------------------------------
(* Transactions and what the chain makes of them. *)

NextSeq(s) == IF s = MaxSequence THEN 0 ELSE s + 1

VoteMsg(p)    == [type |-> "vote", opening |-> p]
PrevoteMsg(p) == [type |-> "prevote", hash |-> Hash(p)]

\* Mutant of Msgs: the prevote first.
Msgs_PrevoteFirst(v, p) == IF v = Nil THEN <<PrevoteMsg(p)>>
                                      ELSE <<PrevoteMsg(p), VoteMsg(v)>>

\* The vote goes first: a prevote overwrites the slot the vote opens.
Msgs(v, p) == IF v = Nil THEN <<PrevoteMsg(p)>>
                         ELSE <<VoteMsg(v), PrevoteMsg(p)>>

\* A vote needs its own hash in the slot, and empties it.
Runs(slot, m) == m.type = "vote" => slot = Hash(m.opening)
After(m)      == IF m.type = "prevote" THEN m.hash ELSE Nil

SlotBefore(slot, msgs, i) == IF i = 1 THEN slot ELSE After(msgs[i - 1])
TxRuns(slot, msgs) ==
    \A i \in DOMAIN msgs : Runs(SlotBefore(slot, msgs, i), msgs[i])
SlotAfter(msgs) == After(msgs[Len(msgs)])

Committed(msgs) == {m.hash : m \in {msgs[i] : i \in
                      {j \in DOMAIN msgs : msgs[j].type = "prevote"}}}
Opened(msgs)    == {Hash(m.opening) : m \in {msgs[i] : i \in
                      {j \in DOMAIN msgs : msgs[j].type = "vote"}}}

\* The sequence CheckTx wants of the next transaction.
CheckSequence ==
    IF mempool = <<>> THEN accSequence
                      ELSE NextSeq(mempool[Len(mempool)].sequence)

-----------------------------------------------------------------------------
Init ==
    /\ pc = "idle"
    /\ previousPrevote = Nil
    /\ newPrevote = Nil
    /\ voteMsg = Nil
    /\ sequence = 0
    /\ aggregatePrevote \in Hashes \union {Nil}  \* left by an earlier process
    /\ accSequence = 0
    /\ mempool = <<>>
    /\ committed = {aggregatePrevote} \ {Nil}
    /\ revealed = {}
    /\ counted = {}

-----------------------------------------------------------------------------
(* The client. *)

\* Mutant of SendPrices: the vote is prepared without a nil check.
SendPrices_NoNilCheck(salt, rates) ==
    /\ pc = "idle"
    /\ newPrevote' = [salt |-> salt, vote |-> rates]
    /\ voteMsg' = Nil
    /\ pc' = "prepareVote"
    /\ UNCHANGED <<previousPrevote, sequence, chainVars, historyVars>>

\* SendPrices up to its first call: with no previous prevote there is no
\* vote to prepare.
SendPrices(salt, rates) ==
    /\ pc = "idle"
    /\ newPrevote' = [salt |-> salt, vote |-> rates]
    /\ voteMsg' = Nil
    /\ pc' = IF previousPrevote = Nil THEN "account" ELSE "prepareVote"
    /\ UNCHANGED <<previousPrevote, sequence, chainVars, historyVars>>

\* Mutants of VoteFor: no comparison; any prevote on the chain will do.
VoteFor_Always(slot)      == previousPrevote
VoteFor_AnyPrevote(slot)  == IF slot # Nil THEN previousPrevote ELSE Nil

\* The vote prepareVote returns when the chain answers with slot.
VoteFor(slot) == IF slot = Hash(previousPrevote) THEN previousPrevote ELSE Nil

\* The AggregatePrevote query: with nothing in the slot it is an error, and
\* an error is answered like a hash that differs, by voting for nothing.
PrepareVote ==
    /\ pc = "prepareVote"
    /\ \/ voteMsg' = VoteFor(aggregatePrevote)
       \/ "network" \in Faults /\ voteMsg' = Nil
    /\ pc' = "account"
    /\ UNCHANGED <<previousPrevote, newPrevote, sequence, chainVars, historyVars>>

\* Mutant of GetAccount: the sequence counts the pooled transactions in.
GetAccount_Pooled ==
    /\ pc = "account"
    /\ sequence' = CheckSequence
    /\ pc' = "broadcast"
    /\ UNCHANGED <<previousPrevote, newPrevote, voteMsg, chainVars, historyVars>>

\* getAccount reads the committed sequence, not the pooled one.
GetAccount ==
    /\ pc = "account"
    /\ sequence' = accSequence
    /\ pc' = "broadcast"
    /\ UNCHANGED <<previousPrevote, newPrevote, voteMsg, chainVars, historyVars>>

GetAccountFail ==
    /\ pc = "account"
    /\ "network" \in Faults
    /\ pc' = "idle"
    /\ UNCHANGED <<previousPrevote, newPrevote, voteMsg, sequence, chainVars, historyVars>>

Tx == [sequence |-> sequence, msgs |-> Msgs(voteMsg, newPrevote)]

\* Whatever the node answers, the openings in the tx are public from here on.
Reach == revealed' = revealed \union Opened(Tx.msgs)

\* What SendPrices keeps for the next period when vote returns no error.
Remember == previousPrevote' = newPrevote

\* Mutant of KeepPrevious: the assignment comes before the error check.
KeepPrevious_Overwrites == previousPrevote' = newPrevote

\* What it keeps when vote returns an error: the early return.
KeepPrevious == previousPrevote' = previousPrevote

BroadcastAccepted ==
    /\ pc = "broadcast"
    /\ sequence = CheckSequence
    /\ mempool' = Append(mempool, Tx)
    /\ Reach
    /\ Remember
    /\ pc' = "idle"
    /\ UNCHANGED <<newPrevote, voteMsg, sequence, aggregatePrevote, accSequence,
                   committed, counted>>

\* CheckTx answers a wrong sequence with a code that is not OK.
BroadcastRejected ==
    /\ pc = "broadcast"
    /\ sequence # CheckSequence
    /\ Reach
    /\ KeepPrevious
    /\ pc' = "idle"
    /\ UNCHANGED <<newPrevote, voteMsg, sequence, chainVars, committed, counted>>

\* A code that is not OK whatever the sequence: a full mempool, fees too low.
BroadcastRefused ==
    /\ pc = "broadcast"
    /\ "refuse" \in Faults
    /\ Reach
    /\ KeepPrevious
    /\ pc' = "idle"
    /\ UNCHANGED <<newPrevote, voteMsg, sequence, chainVars, committed, counted>>

\* The call fails and no node has seen the tx.
BroadcastFail ==
    /\ pc = "broadcast"
    /\ "network" \in Faults
    /\ KeepPrevious
    /\ pc' = "idle"
    /\ UNCHANGED <<newPrevote, voteMsg, sequence, chainVars, historyVars>>

\* The tx is pooled, but the answer is lost or later than the 15s deadline.
BroadcastAmbiguous ==
    /\ pc = "broadcast"
    /\ "ambiguous" \in Faults
    /\ sequence = CheckSequence
    /\ mempool' = Append(mempool, Tx)
    /\ Reach
    /\ KeepPrevious
    /\ pc' = "idle"
    /\ UNCHANGED <<newPrevote, voteMsg, sequence, aggregatePrevote, accSequence,
                   committed, counted>>

\* The process is killed at any point: previousPrevote is only in memory.
Restart ==
    /\ "restart" \in Faults
    /\ pc' = "idle"
    /\ previousPrevote' = Nil
    /\ newPrevote' = Nil
    /\ voteMsg' = Nil
    /\ sequence' = 0
    /\ UNCHANGED <<chainVars, historyVars>>

-----------------------------------------------------------------------------
(* The chain. *)

\* A block includes the first pooled tx. Its messages all take effect or,
\* when one fails, none; the sequence moves on either way.
DeliverTx ==
    /\ mempool # <<>>
    /\ LET msgs == Head(mempool).msgs IN
         IF TxRuns(aggregatePrevote, msgs)
         THEN /\ aggregatePrevote' = SlotAfter(msgs)
              /\ committed' = committed \union Committed(msgs)
              /\ counted' = counted \union Opened(msgs)
         ELSE UNCHANGED <<aggregatePrevote, committed, counted>>
    /\ accSequence' = NextSeq(accSequence)
    /\ mempool' = Tail(mempool)
    /\ UNCHANGED <<clientVars, revealed>>

OutOfGas ==
    /\ "outOfGas" \in Faults
    /\ mempool # <<>>
    /\ accSequence' = NextSeq(accSequence)
    /\ mempool' = Tail(mempool)
    /\ UNCHANGED <<clientVars, aggregatePrevote, historyVars>>

EvictTx ==
    /\ "evict" \in Faults
    /\ mempool # <<>>
    /\ mempool' = <<>>
    /\ UNCHANGED <<clientVars, aggregatePrevote, accSequence, historyVars>>

ExpirePrevote ==
    /\ "expire" \in Faults
    /\ aggregatePrevote # Nil
    /\ aggregatePrevote' = Nil
    /\ UNCHANGED <<clientVars, accSequence, mempool, historyVars>>

-----------------------------------------------------------------------------
StartCall == \E salt \in Salt, rates \in Rates : SendPrices(salt, rates)

Answered == PrepareVote \/ GetAccount \/ BroadcastAccepted \/ BroadcastRejected

ClientFault == \/ GetAccountFail \/ BroadcastRefused \/ BroadcastFail
               \/ BroadcastAmbiguous \/ Restart
ChainFault  == OutOfGas \/ EvictTx \/ ExpirePrevote

Next == StartCall \/ Answered \/ DeliverTx \/ ClientFault \/ ChainFault

Spec == Init /\ [][Next]_vars

(***************************************************************************)
(* Voting periods keep coming, so a call starts again and again; each call *)
(* of SendPrices returns, its context has a deadline; a block takes the    *)
(* pooled transaction some time.                                           *)
(***************************************************************************)
FairSpec ==
    /\ Spec
    /\ WF_vars(StartCall)
    /\ WF_vars(Answered)
    /\ WF_vars(DeliverTx)

-----------------------------------------------------------------------------
(* Properties. *)

TxType == [sequence : 0..MaxSequence,
           msgs : UNION {{Msgs(v, p) : v \in Prevote \union {Nil}} : p \in Prevote}]

\* Every variable has its type; a call under way has made its prevote, and
\* prepareVote runs only when there is a previous prevote (oracle.go:35).
TypeOK ==
    /\ pc \in {"idle", "prepareVote", "account", "broadcast"}
    /\ previousPrevote \in Prevote \union {Nil}
    /\ newPrevote \in Prevote \union {Nil}
    /\ voteMsg \in Prevote \union {Nil}
    /\ sequence \in 0..MaxSequence
    /\ aggregatePrevote \in Hashes \union {Nil}
    /\ accSequence \in 0..MaxSequence
    /\ mempool \in Seq(TxType)
    /\ committed \subseteq Hashes
    /\ revealed \subseteq Hashes
    /\ counted \subseteq Hashes
    /\ pc # "idle" => newPrevote # Nil
    /\ pc = "prepareVote" => previousPrevote # Nil

\* The salt and the rates behind a prevote are never broadcast before the
\* chain holds that prevote: whatever fails, nobody can copy prices that
\* are not yet committed to (prepareVote's hash comparison, oracle.go:78).
NoEarlyReveal == revealed \subseteq committed

\* The feeder never has two transactions pooled at once, although SendPrices
\* does not wait for inclusion: the sequence comes from committed state
\* (signing.go:46), so a call made too early is refused.
SingleInFlight == Len(mempool) <= 1

\* The hash the slot will hold once the pooled transactions have run.
Standing == IF mempool = <<>> THEN aggregatePrevote
                              ELSE SlotAfter(mempool[Len(mempool)].msgs)

\* While nothing undoes an accepted transaction, the prevote the client
\* remembers is the one the chain holds or is about to hold, so that every
\* following period can open it (client.go:129-135).
InStep == previousPrevote # Nil => Standing = Hash(previousPrevote)

\* A transaction the node accepted will run: the vote in it opens the prevote
\* the slot holds, although the slot was read two calls before the broadcast.
\* Were it not so the new prevote would be lost with it (oracle.go:43-48).
PooledTxRuns ==
    mempool # <<>> => TxRuns(aggregatePrevote, Head(mempool).msgs)

\* A step that only a failure explains.
FaultStep == \/ (ClientFault \/ ChainFault) /\ ~(Answered \/ DeliverTx)
             \/ PrepareVote /\ voteMsg' # VoteFor(aggregatePrevote)

LateCall == StartCall /\ mempool # <<>>

VoteCounted == DeliverTx /\ Opened(Head(mempool).msgs) # {}
                         /\ TxRuns(aggregatePrevote, Head(mempool).msgs)

\* Whatever has failed before, restarts and ambiguous broadcasts included,
\* once failures stop and each transaction is included before the next period
\* starts, the chain counts votes again and again.
VotesResume ==
    <>[][~FaultStep /\ ~LateCall]_vars => []<><<VoteCounted>>_vars

Abstract == INSTANCE CommitReveal WITH standing <- aggregatePrevote

\* Under every failure the poster and the chain together only commit, open
\* what has stood, and have counted what stands and is open.
ImplementsCommitReveal == Abstract!Spec
=============================================================================
