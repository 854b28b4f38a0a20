------------------------- MODULE PricePoster_proofs -------------------------
(***************************************************************************)
(* Theorems about PricePoster, for every set of salts and rates, every     *)
(* length of the sequence counter and every set of failures.               *)
(***************************************************************************)
EXTENDS PricePoster, SequenceTheorems, TLAPS

-----------------------------------------------------------------------------
(* Lemmas about transactions. *)

\* The messages of a transaction, its hash, its opening: what DeliverTx and
\* the broadcasts read of Msgs (oracle.go:42-50).
LEMMA MsgsFacts ==
    ASSUME NEW v \in Prevote \union {Nil}, NEW p \in Prevote
    PROVE  /\ SlotAfter(Msgs(v, p)) = Hash(p)
           /\ Committed(Msgs(v, p)) = {Hash(p)}
           /\ Opened(Msgs(v, p)) = IF v = Nil THEN {} ELSE {Hash(v)}
<1> USE DEF Msgs, VoteMsg, PrevoteMsg, SlotAfter, Committed, Opened, After
<1>1. CASE v = Nil
  <2>1. Msgs(v, p) = <<PrevoteMsg(p)>>
    BY <1>1
  <2>2. DOMAIN Msgs(v, p) = {1} /\ Msgs(v, p)[1] = PrevoteMsg(p)
        /\ Len(Msgs(v, p)) = 1
    BY <2>1
  <2>3. {j \in DOMAIN Msgs(v, p) : Msgs(v, p)[j].type = "prevote"} = {1}
    BY <2>2
  <2>4. {j \in DOMAIN Msgs(v, p) : Msgs(v, p)[j].type = "vote"} = {}
    BY <2>2
  <2> HIDE DEF Msgs
  <2> QED BY <1>1, <2>2, <2>3, <2>4
<1>2. CASE v # Nil
  <2>1. Msgs(v, p) = <<VoteMsg(v), PrevoteMsg(p)>>
    BY <1>2
  <2>2. DOMAIN Msgs(v, p) = {1, 2} /\ Msgs(v, p)[1] = VoteMsg(v)
        /\ Msgs(v, p)[2] = PrevoteMsg(p) /\ Len(Msgs(v, p)) = 2
    BY <2>1
  <2>3. {j \in DOMAIN Msgs(v, p) : Msgs(v, p)[j].type = "prevote"} = {2}
    BY <2>2
  <2>4. {j \in DOMAIN Msgs(v, p) : Msgs(v, p)[j].type = "vote"} = {1}
    BY <2>2
  <2> HIDE DEF Msgs
  <2> QED BY <1>2, <2>2, <2>3, <2>4
<1> QED BY <1>1, <1>2

\* A transaction runs exactly when it holds no vote or the slot holds the hash
\* of that vote.
LEMMA TxRunsFact ==
    ASSUME NEW v \in Prevote \union {Nil}, NEW p \in Prevote, NEW slot
    PROVE  TxRuns(slot, Msgs(v, p)) <=> (v = Nil \/ slot = Hash(v))
<1> USE DEF Msgs, VoteMsg, PrevoteMsg, TxRuns, Runs, SlotBefore
<1>1. CASE v = Nil
  BY <1>1
<1>2. CASE v # Nil
  <2>1. DOMAIN <<VoteMsg(v), PrevoteMsg(p)>> = {1, 2}
    OBVIOUS
  <2> QED BY <1>2, <2>1
<1> QED BY <1>1, <1>2

\* The sequence after s is another sequence.
LEMMA NextSeqFact ==
    ASSUME NEW s \in 0..MaxSequence
    PROVE  NextSeq(s) \in 0..MaxSequence /\ NextSeq(s) # s
BY SequenceAssumption DEF NextSeq

LEMMA HashFact ==
    ASSUME NEW p \in Prevote
    PROVE  Hash(p) \in Hashes /\ Hash(p) # Nil /\ p # Nil
BY NilAssumption DEF Prevote, Hash, Hashes

-----------------------------------------------------------------------------
(* The inductive invariant. *)

\* At most one transaction is pooled, and it carries the committed sequence.
OnePooled ==
    mempool # <<>> => Len(mempool) = 1 /\ mempool[1].sequence = accSequence

\* A call that has read the sequence while a transaction is still pooled has
\* read the sequence of that transaction: CheckTx will refuse it.
LateSequence ==
    pc = "broadcast" /\ mempool # <<>> => sequence = accSequence

\* What stands, and what a call is about to open, has been committed.
OnlyCommitted ==
    /\ aggregatePrevote # Nil => aggregatePrevote \in committed
    /\ voteMsg # Nil => Hash(voteMsg) \in committed

\* The openings in a pooled transaction are public.
PooledIsPublic ==
    mempool # <<>> => Opened(mempool[1].msgs) \subseteq revealed

IInv ==
    /\ TypeOK
    /\ OnePooled
    /\ LateSequence
    /\ OnlyCommitted
    /\ PooledIsPublic
    /\ NoEarlyReveal

\* The initial states satisfy the invariant.
LEMMA InitIInv == Init => IInv
<1> SUFFICES ASSUME Init PROVE IInv
  OBVIOUS
<1>1. TypeOK
  BY NilAssumption, SequenceAssumption DEF Init, TypeOK
<1> QED
  BY <1>1 DEF Init, IInv, OnePooled, LateSequence, OnlyCommitted,
              PooledIsPublic, NoEarlyReveal

\* A pooled transaction is the only one, and is of the expected form.
LEMMA PooledForm ==
    ASSUME TypeOK, OnePooled, mempool # <<>>
    PROVE  \E v \in Prevote \union {Nil}, p \in Prevote :
             /\ mempool = <<[sequence |-> accSequence, msgs |-> Msgs(v, p)]>>
             /\ Head(mempool) = mempool[1]
             /\ Tail(mempool) = <<>>
             /\ mempool[1].msgs = Msgs(v, p)
<1>1. mempool \in Seq(TxType) /\ Len(mempool) = 1
  BY DEF TypeOK, OnePooled
<1>2. mempool[1] \in TxType
  BY <1>1
<1>3. PICK v \in Prevote \union {Nil}, p \in Prevote :
        mempool[1].msgs = Msgs(v, p)
  BY <1>2 DEF TxType
<1>4. mempool[1] = [sequence |-> accSequence, msgs |-> Msgs(v, p)]
  BY <1>2, <1>3 DEF TxType, OnePooled
<1>5. mempool \in Seq(TxType) /\ mempool # <<>>
  BY <1>1
<1>6. Head(mempool) = mempool[1] /\ Tail(mempool) \in Seq(TxType)
      /\ Len(Tail(mempool)) = 0
  BY <1>1
<1>7. Tail(mempool) = <<>>
  BY <1>6, EmptySeq
<1>8. mempool = <<mempool[1]>>
  BY <1>1, <1>2, SeqEqual
<1> QED BY <1>3, <1>4, <1>6, <1>7, <1>8

\* Appending to an empty pool.
LEMMA PoolOne ==
    ASSUME NEW t PROVE Append(<<>>, t) = <<t>> /\ Len(<<t>>) = 1
                       /\ <<t>>[1] = t /\ Head(<<t>>) = t /\ <<t>> # <<>>
OBVIOUS

\* A transaction the node pools finds the pool empty.
LEMMA PooledAlone ==
    ASSUME IInv, pc = "broadcast", sequence = CheckSequence
    PROVE  mempool = <<>> /\ sequence = accSequence
<1>1. SUFFICES ASSUME mempool # <<>> PROVE FALSE
  BY DEF CheckSequence
<1>2. mempool[Len(mempool)].sequence = accSequence /\ sequence = accSequence
  BY <1>1 DEF IInv, OnePooled, LateSequence
<1>3. CheckSequence = NextSeq(accSequence)
  BY <1>1, <1>2 DEF CheckSequence
<1> QED BY <1>2, <1>3, NextSeqFact DEF IInv, TypeOK

-----------------------------------------------------------------------------
(* The invariant is inductive: one lemma per group of actions. *)

\* The steps in which the client only calls: nothing on the chain moves.
LEMMA ClientSteps ==
    ASSUME IInv, StartCall \/ PrepareVote \/ GetAccount \/ GetAccountFail
                 \/ BroadcastFail \/ Restart
    PROVE  IInv'
<1> USE DEF IInv, TypeOK
<1>1. CASE StartCall
  <2>1. PICK salt \in Salt, rates \in Rates : SendPrices(salt, rates)
    BY <1>1 DEF StartCall
  <2>2. [salt |-> salt, vote |-> rates] \in Prevote
    BY DEF Prevote
  <2>3. newPrevote' # Nil
    BY <2>1, <2>2, NilAssumption DEF SendPrices
  <2>4. TypeOK'
    BY <2>1, <2>2, <2>3 DEF SendPrices, chainVars, historyVars
  <2> QED
    BY <2>1, <2>4 DEF SendPrices, chainVars, historyVars, OnePooled, LateSequence,
                      OnlyCommitted, PooledIsPublic, NoEarlyReveal
<1>2. CASE PrepareVote
  <2>1. voteMsg' = Nil \/ (voteMsg' = previousPrevote
                           /\ aggregatePrevote = Hash(previousPrevote))
    BY <1>2 DEF PrepareVote, VoteFor
  <2>2. previousPrevote \in Prevote
    BY <1>2 DEF PrepareVote
  <2>3. OnlyCommitted'
    BY <1>2, <2>1, <2>2, HashFact DEF PrepareVote, chainVars, historyVars, OnlyCommitted
  <2> QED
    BY <1>2, <2>1, <2>2, <2>3 DEF PrepareVote, chainVars, historyVars, OnePooled,
        LateSequence, PooledIsPublic, NoEarlyReveal
<1>3. CASE GetAccount
  BY <1>3 DEF GetAccount, chainVars, historyVars, OnePooled, LateSequence,
              OnlyCommitted, PooledIsPublic, NoEarlyReveal
<1>4. CASE GetAccountFail
  BY <1>4 DEF GetAccountFail, chainVars, historyVars, OnePooled, LateSequence,
              OnlyCommitted, PooledIsPublic, NoEarlyReveal
<1>5. CASE BroadcastFail
  BY <1>5 DEF BroadcastFail, KeepPrevious, chainVars, historyVars, OnePooled,
              LateSequence, OnlyCommitted, PooledIsPublic, NoEarlyReveal
<1>6. CASE Restart
  BY <1>6, SequenceAssumption DEF Restart, chainVars, historyVars, OnePooled,
              LateSequence, OnlyCommitted, PooledIsPublic, NoEarlyReveal
<1> QED BY <1>1, <1>2, <1>3, <1>4, <1>5, <1>6

\* What a broadcast makes public has been committed.
LEMMA ReachFact ==
    ASSUME IInv, pc = "broadcast", Reach
    PROVE  /\ revealed' \subseteq committed
           /\ revealed' \subseteq Hashes
           /\ Opened(Tx.msgs) \subseteq revealed'
<1>1. newPrevote \in Prevote /\ voteMsg \in Prevote \union {Nil}
  BY DEF IInv, TypeOK
<1>2. Tx.msgs = Msgs(voteMsg, newPrevote)
  BY DEF Tx
<1>3. Opened(Tx.msgs) = IF voteMsg = Nil THEN {} ELSE {Hash(voteMsg)}
  BY <1>1, <1>2, MsgsFacts
<1> QED
  BY <1>3 DEF IInv, TypeOK, OnlyCommitted, NoEarlyReveal, Reach

\* The steps that pool a transaction.
LEMMA PoolSteps ==
    ASSUME IInv, BroadcastAccepted \/ BroadcastAmbiguous
    PROVE  IInv'
<1>1. /\ pc = "broadcast"
      /\ sequence = CheckSequence
      /\ mempool' = Append(mempool, Tx)
      /\ Reach
      /\ previousPrevote' \in {previousPrevote, newPrevote}
      /\ pc' = "idle"
      /\ UNCHANGED <<newPrevote, voteMsg, sequence, aggregatePrevote, accSequence,
                     committed, counted>>
  BY DEF BroadcastAccepted, BroadcastAmbiguous, Remember, KeepPrevious
<1>2. mempool = <<>> /\ sequence = accSequence
  BY <1>1, PooledAlone
<1>3. newPrevote \in Prevote /\ voteMsg \in Prevote \union {Nil}
  BY <1>1 DEF IInv, TypeOK
<1>4. Tx \in TxType
  BY <1>3 DEF Tx, TxType, IInv, TypeOK
<1>5. mempool' = <<Tx>> /\ Len(mempool') = 1 /\ mempool'[1] = Tx
  BY <1>1, <1>2, PoolOne
<1>6. mempool' \in Seq(TxType)
  BY <1>4, <1>5
<1>7. /\ revealed' \subseteq committed
      /\ revealed' \subseteq Hashes
      /\ Opened(Tx.msgs) \subseteq revealed'
  BY <1>1, ReachFact
<1>8. TypeOK'
  BY <1>1, <1>6, <1>7 DEF IInv, TypeOK
<1>9. Tx.sequence = accSequence
  BY <1>2 DEF Tx
<1> QED
  BY <1>1, <1>5, <1>7, <1>8, <1>9 DEF IInv, OnePooled, LateSequence, OnlyCommitted,
      PooledIsPublic, NoEarlyReveal

\* A broadcast the node refuses.
LEMMA RejectedStep ==
    ASSUME IInv, BroadcastRejected \/ BroadcastRefused
    PROVE  IInv'
<1>1. /\ revealed' \subseteq committed
      /\ revealed' \subseteq Hashes
      /\ revealed \subseteq revealed'
  BY ReachFact DEF BroadcastRejected, BroadcastRefused, Reach
<1> QED
  BY <1>1 DEF BroadcastRejected, BroadcastRefused, KeepPrevious, chainVars, IInv,
      TypeOK, OnePooled, LateSequence, OnlyCommitted, PooledIsPublic, NoEarlyReveal

\* A block includes the pooled transaction.
LEMMA DeliverStep ==
    ASSUME IInv, DeliverTx
    PROVE  IInv'
<1>1. PICK v \in Prevote \union {Nil}, p \in Prevote :
        /\ Head(mempool) = mempool[1]
        /\ Tail(mempool) = <<>>
        /\ mempool[1].msgs = Msgs(v, p)
  BY PooledForm DEF IInv, DeliverTx
<1>2. mempool' = <<>> /\ mempool' \in Seq(TxType)
  <2>1. mempool' = Tail(mempool)
    BY DEF DeliverTx
  <2> QED BY <1>1, <2>1, EmptySeq
<1>3. accSequence' \in 0..MaxSequence
  BY NextSeqFact DEF DeliverTx, IInv, TypeOK
<1>4. UNCHANGED <<pc, previousPrevote, newPrevote, voteMsg, sequence, revealed>>
  BY DEF DeliverTx, clientVars
<1>5. committed \subseteq committed'
  BY DEF DeliverTx
<1>6. CASE TxRuns(aggregatePrevote, mempool[1].msgs)
  <2>1. /\ aggregatePrevote' = Hash(p)
        /\ committed' = committed \union {Hash(p)}
        /\ counted' = counted \union (IF v = Nil THEN {} ELSE {Hash(v)})
    <3>1. /\ aggregatePrevote' = SlotAfter(Msgs(v, p))
          /\ committed' = committed \union Committed(Msgs(v, p))
          /\ counted' = counted \union Opened(Msgs(v, p))
      BY <1>1, <1>6 DEF DeliverTx
    <3> QED BY <3>1, MsgsFacts
  <2>2. /\ aggregatePrevote' \in Hashes
        /\ committed' \subseteq Hashes
        /\ counted' \subseteq Hashes
    BY <2>1, HashFact DEF IInv, TypeOK
  <2>3. TypeOK'
    BY <1>2, <1>3, <1>4, <2>2 DEF IInv, TypeOK
  <2> QED
    BY <1>2, <1>4, <1>5, <2>1, <2>3 DEF IInv, OnePooled, LateSequence, OnlyCommitted,
        PooledIsPublic, NoEarlyReveal
<1>7. CASE ~TxRuns(aggregatePrevote, mempool[1].msgs)
  <2>1. UNCHANGED <<aggregatePrevote, committed, counted>>
    BY <1>1, <1>7 DEF DeliverTx
  <2> QED
    BY <1>2, <1>3, <1>4, <2>1 DEF IInv, TypeOK, OnePooled, LateSequence,
        OnlyCommitted, PooledIsPublic, NoEarlyReveal
<1> QED BY <1>6, <1>7

\* The chain drops a transaction or a prevote.
LEMMA ChainFaultSteps ==
    ASSUME IInv, ChainFault
    PROVE  IInv'
<1> USE DEF IInv, TypeOK, OnePooled, LateSequence, OnlyCommitted, PooledIsPublic,
            NoEarlyReveal, clientVars, historyVars
<1>1. CASE OutOfGas
  <2>1. Tail(mempool) = <<>>
    BY <1>1, PooledForm DEF OutOfGas
  <2>2. mempool' = <<>> /\ accSequence' \in 0..MaxSequence
    BY <1>1, <2>1, NextSeqFact DEF OutOfGas
  <2> QED BY <1>1, <2>2 DEF OutOfGas
<1>2. CASE EvictTx
  BY <1>2 DEF EvictTx
<1>3. CASE ExpirePrevote
  BY <1>3 DEF ExpirePrevote
<1> QED BY <1>1, <1>2, <1>3 DEF ChainFault

\* Every step keeps the invariant.
LEMMA NextIInv ==
    ASSUME IInv, [Next]_vars
    PROVE  IInv'
<1>1. CASE UNCHANGED vars
  BY <1>1 DEF vars, clientVars, chainVars, historyVars, IInv, TypeOK, OnePooled,
              LateSequence, OnlyCommitted, PooledIsPublic, NoEarlyReveal
<1>2. CASE Next
  BY <1>2, ClientSteps, PoolSteps, RejectedStep, DeliverStep, ChainFaultSteps
     DEF Next, Answered, ClientFault
<1> QED BY <1>1, <1>2

\* The invariant holds in every reachable state.
THEOREM Invariance == Spec => []IInv
BY InitIInv, NextIInv, PTL DEF Spec

-----------------------------------------------------------------------------
(* The theorems. *)

\* Every variable keeps its type, whatever fails.
THEOREM TypeCorrect == Spec => []TypeOK
<1>1. IInv => TypeOK
  BY DEF IInv
<1> QED BY <1>1, Invariance, PTL

\* Under every failure, no salt and rates are broadcast before the chain has
\* held the prevote they open (prepareVote, oracle.go:77-81).
THEOREM NoEarlyRevealHolds == Spec => []NoEarlyReveal
<1>1. IInv => NoEarlyReveal
  BY DEF IInv
<1> QED BY <1>1, Invariance, PTL

\* Under every failure, at most one transaction is pooled (signing.go:46).
THEOREM SingleInFlightHolds == Spec => []SingleInFlight
<1>1. IInv => SingleInFlight
  <2> SUFFICES ASSUME IInv PROVE SingleInFlight
    OBVIOUS
  <2>1. CASE mempool = <<>>
    BY <2>1 DEF SingleInFlight
  <2>2. CASE mempool # <<>>
    BY <2>2 DEF IInv, OnePooled, SingleInFlight
  <2> QED BY <2>1, <2>2
<1> QED BY <1>1, Invariance, PTL

-----------------------------------------------------------------------------
(* PricePoster implements CommitReveal. *)

\* An inclusion commits, and counts the vote when there is one.
LEMMA DeliverImplements ==
    ASSUME IInv, DeliverTx
    PROVE  [Abstract!Next]_(Abstract!vars)
<1> USE DEF Abstract!Next, Abstract!vars, Abstract!Commit, Abstract!CountAndCommit,
            Abstract!Stand
<1>1. PICK v \in Prevote \union {Nil}, p \in Prevote :
        /\ Head(mempool) = mempool[1]
        /\ mempool[1].msgs = Msgs(v, p)
  BY PooledForm DEF IInv, DeliverTx
<1>2. revealed' = revealed
  BY DEF DeliverTx
<1>3. CASE TxRuns(aggregatePrevote, Msgs(v, p))
  <2>1. /\ aggregatePrevote' = SlotAfter(Msgs(v, p))
        /\ committed' = committed \union Committed(Msgs(v, p))
        /\ counted' = counted \union Opened(Msgs(v, p))
    BY <1>1, <1>3 DEF DeliverTx
  <2>2. /\ aggregatePrevote' = Hash(p)
        /\ committed' = committed \union {Hash(p)}
        /\ Hash(p) \in Hashes
    BY <2>1, MsgsFacts, HashFact
  <2>3. CASE v = Nil
    <3>1. counted' = counted
      BY <2>1, <2>3, MsgsFacts
    <3> QED BY <1>2, <2>2, <3>1
  <2>4. CASE v # Nil
    <3>1. aggregatePrevote = Hash(v)
      BY <1>3, <2>4, TxRunsFact
    <3>2. Opened(Msgs(v, p)) = {Hash(v)}
      BY <2>4, MsgsFacts
    <3>3. Hash(v) \in revealed
      BY <1>1, <3>2 DEF IInv, PooledIsPublic, DeliverTx
    <3> QED BY <1>2, <2>1, <2>2, <3>1, <3>2, <3>3
  <2> QED BY <2>3, <2>4
<1>4. CASE ~TxRuns(aggregatePrevote, Msgs(v, p))
  BY <1>1, <1>2, <1>4 DEF DeliverTx
<1> QED BY <1>3, <1>4

\* A broadcast reveals the one opening it carries, if any.
LEMMA BroadcastImplements ==
    ASSUME IInv,
           \/ BroadcastAccepted \/ BroadcastRejected
           \/ BroadcastRefused \/ BroadcastAmbiguous
    PROVE  [Abstract!Next]_(Abstract!vars)
<1>1. Reach /\ pc = "broadcast" /\ UNCHANGED <<aggregatePrevote, committed, counted>>
  BY DEF BroadcastAccepted, BroadcastRejected, BroadcastRefused, BroadcastAmbiguous,
         chainVars
<1>2. newPrevote \in Prevote /\ voteMsg \in Prevote \union {Nil}
  BY <1>1 DEF IInv, TypeOK
<1>3. Opened(Tx.msgs) = IF voteMsg = Nil THEN {} ELSE {Hash(voteMsg)}
  BY <1>2, MsgsFacts DEF Tx
<1>4. CASE voteMsg = Nil
  BY <1>1, <1>3, <1>4 DEF Reach, Abstract!vars
<1>5. CASE voteMsg # Nil
  <2>1. Hash(voteMsg) \in committed /\ Hash(voteMsg) \in Hashes
    BY <1>2, <1>5, HashFact DEF IInv, OnlyCommitted
  <2> QED
    BY <1>1, <1>3, <1>5, <2>1 DEF Reach, Abstract!Next, Abstract!Reveal
<1> QED BY <1>4, <1>5

\* Every step of the poster and the chain is a step of CommitReveal or changes
\* nothing it speaks of.
LEMMA NextImplements ==
    ASSUME IInv, [Next]_vars
    PROVE  [Abstract!Next]_(Abstract!vars)
<1>1. CASE StartCall \/ PrepareVote \/ GetAccount \/ GetAccountFail
           \/ BroadcastFail \/ Restart \/ OutOfGas \/ EvictTx
  BY <1>1 DEF StartCall, SendPrices, PrepareVote, GetAccount, GetAccountFail,
      BroadcastFail, Restart, OutOfGas, EvictTx, chainVars, historyVars, Abstract!vars
<1>2. CASE ExpirePrevote
  BY <1>2 DEF ExpirePrevote, historyVars, Abstract!vars, Abstract!Next, Abstract!Lapse
<1>3. CASE UNCHANGED vars
  BY <1>3 DEF vars, chainVars, historyVars, Abstract!vars
<1> QED
  BY <1>1, <1>2, <1>3, DeliverImplements, BroadcastImplements
     DEF Next, Answered, ClientFault, ChainFault

\* Under every failure the poster with the chain does what CommitReveal
\* promises.
THEOREM Refinement == Spec => ImplementsCommitReveal
<1>1. Init => Abstract!Init
  BY DEF Init, Abstract!Init
<1>2. IInv /\ [Next]_vars => [Abstract!Next]_(Abstract!vars)
  BY NextImplements
<1> QED
  BY <1>1, <1>2, Invariance, PTL DEF Spec, ImplementsCommitReveal, Abstract!Spec

-----------------------------------------------------------------------------
(* What holds only when some failures are excluded: each names those it
   excludes. *)

\* No broadcast is pooled behind the client's back and no prevote expires.
Answering == "ambiguous" \notin Faults /\ "expire" \notin Faults

\* Nothing that was pooled is lost either.
Lossless == Answering /\ "outOfGas" \notin Faults /\ "evict" \notin Faults

-----------------------------------------------------------------------------
(* The invariant: what the client and the pool know of each other. *)

\* The pooled transaction commits to the prevote the client remembers.
PooledIsPrevious ==
    mempool # <<>> /\ previousPrevote # Nil =>
        SlotAfter(mempool[1].msgs) = Hash(previousPrevote)

\* The vote a call has prepared opens what the slot still holds.
OpensSlot ==
    pc \in {"account", "broadcast"} /\ voteMsg # Nil =>
        voteMsg = previousPrevote /\ aggregatePrevote = Hash(voteMsg)

JInv == IInv /\ PooledIsPrevious /\ OpensSlot /\ PooledTxRuns

\* Without a transaction in the pool JInv speaks only of the prepared vote.
LEMMA InitJInv == Init => JInv
<1> SUFFICES ASSUME Init PROVE JInv
  OBVIOUS
<1>1. IInv
  BY InitIInv
<1> QED BY <1>1 DEF Init, JInv, PooledIsPrevious, OpensSlot, PooledTxRuns

\* The node pools a transaction and says so.
LEMMA AcceptedJ ==
    ASSUME JInv, BroadcastAccepted
    PROVE  PooledIsPrevious' /\ OpensSlot' /\ PooledTxRuns'
<1>1. /\ pc = "broadcast" /\ pc' = "idle"
      /\ mempool' = Append(mempool, Tx)
      /\ previousPrevote' = newPrevote
      /\ aggregatePrevote' = aggregatePrevote
  BY DEF BroadcastAccepted, Remember
<1>2. mempool = <<>>
  BY PooledAlone DEF BroadcastAccepted, JInv
<1>3. mempool' = <<Tx>> /\ mempool'[1] = Tx /\ Head(mempool') = Tx
  BY <1>1, <1>2, PoolOne
<1>4. newPrevote \in Prevote /\ voteMsg \in Prevote \union {Nil}
  BY <1>1 DEF JInv, IInv, TypeOK
<1>5. Tx.msgs = Msgs(voteMsg, newPrevote)
  BY DEF Tx
<1>6. SlotAfter(Tx.msgs) = Hash(newPrevote)
  BY <1>4, <1>5, MsgsFacts
<1>7. voteMsg = Nil \/ aggregatePrevote = Hash(voteMsg)
  BY <1>1 DEF JInv, OpensSlot
<1>8. TxRuns(aggregatePrevote, Tx.msgs)
  BY <1>4, <1>5, <1>7, TxRunsFact
<1> QED
  BY <1>1, <1>3, <1>6, <1>8 DEF PooledIsPrevious, OpensSlot, PooledTxRuns

\* A block includes the pooled transaction: it runs, and a call that is about
\* to open the slot finds the remembered prevote in it.
LEMMA DeliverJ ==
    ASSUME JInv, DeliverTx
    PROVE  /\ mempool' = <<>>
           /\ aggregatePrevote' = SlotAfter(mempool[1].msgs)
           /\ PooledIsPrevious' /\ OpensSlot' /\ PooledTxRuns'
<1>1. mempool # <<>> /\ Head(mempool) = mempool[1] /\ Tail(mempool) = <<>>
  BY PooledForm DEF JInv, IInv, DeliverTx
<1>2. TxRuns(aggregatePrevote, mempool[1].msgs)
  BY <1>1 DEF JInv, PooledTxRuns
<1>3. /\ aggregatePrevote' = SlotAfter(mempool[1].msgs)
      /\ mempool' = <<>>
      /\ UNCHANGED <<pc, voteMsg, previousPrevote>>
  BY <1>1, <1>2 DEF DeliverTx, clientVars
<1>4. OpensSlot'
  BY <1>1, <1>3, NilAssumption DEF JInv, IInv, TypeOK, OpensSlot, PooledIsPrevious
<1> QED BY <1>3, <1>4 DEF PooledIsPrevious, PooledTxRuns

\* Every other step leaves the pool as it is, or empties it without a trace.
LEMMA OtherStepsJ ==
    ASSUME JInv, Answering,
           \/ StartCall \/ PrepareVote \/ GetAccount \/ BroadcastRejected
           \/ ClientFault \/ ChainFault
    PROVE  PooledIsPrevious' /\ OpensSlot' /\ PooledTxRuns'
<1> USE DEF JInv, PooledIsPrevious, OpensSlot, PooledTxRuns, chainVars
<1>1. CASE StartCall
  BY <1>1 DEF StartCall, SendPrices
<1>2. CASE PrepareVote
  BY <1>2 DEF PrepareVote, VoteFor
<1>3. CASE GetAccount
  BY <1>3 DEF GetAccount
<1>4. CASE BroadcastRejected
  BY <1>4 DEF BroadcastRejected, KeepPrevious
<1>5. CASE ClientFault
  BY <1>5 DEF ClientFault, GetAccountFail, BroadcastRefused, BroadcastFail,
              BroadcastAmbiguous, Restart, KeepPrevious, Answering
<1>6. CASE ChainFault
  <2>1. mempool' = <<>> /\ UNCHANGED <<pc, voteMsg, previousPrevote, aggregatePrevote>>
    BY <1>6, PooledForm DEF ChainFault, OutOfGas, EvictTx, ExpirePrevote, Answering,
                            IInv, clientVars
  <2> QED BY <2>1
<1> QED BY <1>1, <1>2, <1>3, <1>4, <1>5, <1>6

\* Every step keeps the invariant.
LEMMA NextJInv ==
    ASSUME JInv, [Next]_vars, Answering
    PROVE  JInv'
<1>1. IInv'
  BY NextIInv DEF JInv
<1>2. PooledIsPrevious' /\ OpensSlot' /\ PooledTxRuns'
  <2>1. CASE UNCHANGED vars
    BY <2>1 DEF vars, clientVars, chainVars, JInv, PooledIsPrevious, OpensSlot,
                PooledTxRuns
  <2>2. CASE Next
    BY <2>2, AcceptedJ, DeliverJ, OtherStepsJ DEF Next, Answered
  <2> QED BY <2>1, <2>2
<1> QED BY <1>1, <1>2 DEF JInv

-----------------------------------------------------------------------------
(* The theorems. *)

\* Whenever no broadcast is ambiguous and no prevote expires, a pooled
\* transaction will run: its vote opens what the slot holds, although the slot
\* was read before the account and the broadcast (oracle.go:58-89).
THEOREM PooledTxRunsHolds ==
    ASSUME Answering
    PROVE  Spec => []PooledTxRuns
<1>1. Init => JInv
  BY InitJInv
<1>2. JInv /\ [Next]_vars => JInv'
  BY NextJInv
<1>3. JInv => PooledTxRuns
  BY DEF JInv
<1> QED BY <1>1, <1>2, <1>3, PTL DEF Spec

\* What stands, and what the pool is about to make stand, when nothing is lost.
LEMMA NextInStep ==
    ASSUME JInv, InStep, [Next]_vars, Lossless
    PROVE  InStep'
<1> USE DEF InStep, Standing
<1>1. CASE BroadcastAccepted
  <2>1. mempool = <<>> /\ mempool' = Append(mempool, Tx)
    BY <1>1, PooledAlone DEF BroadcastAccepted, JInv
  <2>2. mempool' = <<Tx>> /\ mempool' # <<>> /\ Len(mempool') = 1 /\ mempool'[1] = Tx
    BY <2>1, PoolOne
  <2>3. PooledIsPrevious'
    BY <1>1, AcceptedJ
  <2> QED BY <2>2, <2>3 DEF PooledIsPrevious
<1>2. CASE DeliverTx
  <2>1. mempool' = <<>> /\ aggregatePrevote' = SlotAfter(mempool[1].msgs)
    BY <1>2, DeliverJ
  <2>2. mempool # <<>> /\ Len(mempool) = 1 /\ previousPrevote' = previousPrevote
    BY <1>2 DEF DeliverTx, clientVars, JInv, IInv, OnePooled
  <2> QED BY <2>1, <2>2
<1>3. CASE StartCall \/ PrepareVote \/ GetAccount \/ BroadcastRejected
  BY <1>3 DEF StartCall, SendPrices, PrepareVote, GetAccount, BroadcastRejected,
              KeepPrevious, chainVars
<1>4. CASE ClientFault
  BY <1>4 DEF ClientFault, GetAccountFail, BroadcastRefused, BroadcastFail,
              BroadcastAmbiguous, Restart, KeepPrevious, Lossless, Answering, chainVars
<1>5. CASE ChainFault
  BY <1>5 DEF ChainFault, OutOfGas, EvictTx, ExpirePrevote, Lossless, Answering
<1>6. CASE UNCHANGED vars
  BY <1>6 DEF vars, clientVars, chainVars
<1> QED BY <1>1, <1>2, <1>3, <1>4, <1>5, <1>6 DEF Next, Answered

\* When no pooled transaction is lost and no prevote expires, the prevote the
\* client remembers is the one the chain holds or is about to hold, failing
\* calls and restarts notwithstanding (client.go:129-135).
THEOREM InStepHolds ==
    ASSUME Lossless
    PROVE  Spec => []InStep
<1>1. Init => JInv /\ InStep
  BY InitJInv DEF Init, InStep
<1>2. JInv /\ InStep /\ [Next]_vars => (JInv /\ InStep)'
  BY NextJInv, NextInStep DEF Lossless
<1> QED BY <1>1, <1>2, PTL DEF Spec
=============================================================================
