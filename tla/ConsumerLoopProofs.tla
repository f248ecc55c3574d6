------------------------- MODULE ConsumerLoopProofs -------------------------
(***************************************************************************)
(* Proofs about ConsumerLoop, for any set of consumers and of messages.    *)
(*                                                                         *)
(* CommittedWasAttempted is not inductive: a commit writes what the        *)
(* consumer holds in its hands, so one must know how that relates to what  *)
(* is committed.  Attached says it: the owner's position is at or past the *)
(* committed offset, the message in hand is the last one fetched, and all  *)
(* before it have been through a handler.  It says nothing of a consumer   *)
(* that has lost the partition, which is why the broker's refusal of a     *)
(* stale commit (the guard of Commit) carries the argument.                *)
(***************************************************************************)
EXTENDS ConsumerLoop, TLAPS

Attached ==
  owner # None =>
    /\ committed <= position
    /\ cursor[owner] # 0 => cursor[owner] = position
    /\ \A o \in 1..position : o \in Attempted \/ o = cursor[owner]

IInv == TypeOK /\ CommittedWasAttempted /\ Attached

-----------------------------------------------------------------------------
\* Appending to the log keeps it a sequence and makes it one longer.
LEMMA AppendLog ==
  ASSUME NEW s \in Seq(Messages), NEW m \in Messages
  PROVE  /\ Append(s, m) \in Seq(Messages)
         /\ Len(Append(s, m)) = Len(s) + 1
         /\ Len(s) \in Nat
  OBVIOUS

\* The type invariant of the group: offsets lie within the log.
LEMMA InitTypeOK == Init => TypeOK
  BY ConsumerAssumption DEF Init, TypeOK

\* Every step keeps the offsets within the log.
LEMMA NextTypeOK == TypeOK /\ [Next]_vars => TypeOK'
<1> SUFFICES ASSUME TypeOK, [Next]_vars
             PROVE  TypeOK'
  OBVIOUS
<1> USE DEF TypeOK
<1>1. ASSUME NEW m \in Messages, Produce(m)
      PROVE  TypeOK'
  BY <1>1, AppendLog DEF Produce
<1>2. ASSUME NEW c \in Consumers, Assign(c)
      PROVE  TypeOK'
  BY <1>2 DEF Assign
<1>3. ASSUME NEW c \in Consumers, Poll(c)
      PROVE  TypeOK'
  BY <1>3 DEF Poll
<1>4. ASSUME NEW c \in Consumers, Commit(c)
      PROVE  TypeOK'
  <2>1. cursor[c] \in 1..Len(log)
    BY <1>4 DEF Commit
  <2>2. handled' \subseteq 1..Len(log)'
    BY <1>4, <2>1 DEF Commit
  <2>3. cursor' \in [Consumers -> 0..Len(log)']
    BY <1>4, <2>1 DEF Commit
  <2> QED
    BY <1>4, <2>1, <2>2, <2>3 DEF Commit
<1>5. ASSUME NEW c \in Consumers, CommitRaises(c)
      PROVE  TypeOK'
  <2>1. cursor[c] \in 1..Len(log)
    BY <1>5 DEF CommitRaises
  <2>2. handled' \subseteq 1..Len(log)'
    BY <1>5, <2>1 DEF CommitRaises
  <2>3. cursor' \in [Consumers -> 0..Len(log)']
    BY <1>5, <2>1 DEF CommitRaises
  <2> QED
    BY <1>5, <2>1, <2>2, <2>3 DEF CommitRaises
<1>6. ASSUME NEW c \in Consumers, HandlerRaises(c)
      PROVE  TypeOK'
  <2>1. cursor[c] \in 1..Len(log)
    BY <1>6 DEF HandlerRaises
  <2>2. failed' \subseteq 1..Len(log)'
    BY <1>6, <2>1 DEF HandlerRaises
  <2>3. cursor' \in [Consumers -> 0..Len(log)']
    BY <1>6, <2>1 DEF HandlerRaises
  <2> QED
    BY <1>6, <2>1, <2>2, <2>3 DEF HandlerRaises
<1>7. ASSUME NEW c \in Consumers, Crash(c)
      PROVE  TypeOK'
  BY <1>7 DEF Crash
<1>8. ASSUME NEW c \in Consumers, Revoke(c)
      PROVE  TypeOK'
  BY <1>8 DEF Revoke
<1>9. ASSUME NEW c \in Consumers, Restart(c)
      PROVE  TypeOK'
  BY <1>9 DEF Restart
<1>10. CASE UNCHANGED vars
  BY <1>10 DEF vars
<1> QED
  BY <1>1, <1>2, <1>3, <1>4, <1>5, <1>6, <1>7, <1>8, <1>9, <1>10 DEF Next, Fault

-----------------------------------------------------------------------------
\* Nothing is stored, committed or polled yet.
LEMMA InitIInv == Init => IInv
  BY InitTypeOK DEF Init, IInv, CommittedWasAttempted, Attached, Attempted

\* A step keeps the invariant, and never moves the committed offset back.
LEMMA NextIInv ==
  IInv /\ [Next]_vars =>
    CommittedWasAttempted' /\ Attached' /\ committed' >= committed
<1> SUFFICES ASSUME IInv, [Next]_vars
             PROVE  CommittedWasAttempted' /\ Attached' /\ committed' >= committed
  OBVIOUS
<1> USE DEF IInv, TypeOK, CommittedWasAttempted, Attached, Attempted
<1>0. committed >= committed
  OBVIOUS
<1>1. ASSUME NEW m \in Messages, Produce(m)
      PROVE  CommittedWasAttempted' /\ Attached' /\ committed' >= committed
  BY <1>0, <1>1 DEF Produce
<1>2. ASSUME NEW c \in Consumers, Assign(c)
      PROVE  CommittedWasAttempted' /\ Attached' /\ committed' >= committed
  BY <1>0, <1>2 DEF Assign
<1>3. ASSUME NEW c \in Consumers, Poll(c)
      PROVE  CommittedWasAttempted' /\ Attached' /\ committed' >= committed
  BY <1>3, ConsumerAssumption DEF Poll
<1>4. ASSUME NEW c \in Consumers, Commit(c)
      PROVE  CommittedWasAttempted' /\ Attached' /\ committed' >= committed
  BY <1>4, ConsumerAssumption DEF Commit
<1>5. ASSUME NEW c \in Consumers, CommitRaises(c)
      PROVE  CommittedWasAttempted' /\ Attached' /\ committed' >= committed
  BY <1>0, <1>5, ConsumerAssumption DEF CommitRaises
<1>6. ASSUME NEW c \in Consumers, HandlerRaises(c)
      PROVE  CommittedWasAttempted' /\ Attached' /\ committed' >= committed
  BY <1>0, <1>6, ConsumerAssumption DEF HandlerRaises
<1>7. ASSUME NEW c \in Consumers, Crash(c)
      PROVE  CommittedWasAttempted' /\ Attached' /\ committed' >= committed
  BY <1>0, <1>7, ConsumerAssumption DEF Crash
<1>8. ASSUME NEW c \in Consumers, Revoke(c)
      PROVE  CommittedWasAttempted' /\ Attached' /\ committed' >= committed
  BY <1>0, <1>8 DEF Revoke
<1>9. ASSUME NEW c \in Consumers, Restart(c)
      PROVE  CommittedWasAttempted' /\ Attached' /\ committed' >= committed
  BY <1>0, <1>9 DEF Restart
<1>10. CASE UNCHANGED vars
  BY <1>0, <1>10 DEF vars
<1> QED
  BY <1>1, <1>2, <1>3, <1>4, <1>5, <1>6, <1>7, <1>8, <1>9, <1>10 DEF Next, Fault

\* IInv always holds.
LEMMA SpecIInv == Spec => []IInv
<1>1. IInv /\ [Next]_vars => IInv'
  BY NextTypeOK, NextIInv DEF IInv
<1> QED
  BY InitIInv, <1>1, PTL DEF Spec

-----------------------------------------------------------------------------
\* The offsets of the group and of its consumers always lie within the log.
THEOREM TypeCorrect == Spec => []TypeOK
  BY SpecIInv, PTL DEF IInv

\* Whatever crashes, rebalances and stale commits do, the group never commits past
\* a message that no handler has been given.
THEOREM NothingPassedOver == Spec => []CommittedWasAttempted
  BY SpecIInv, PTL DEF IInv

\* The committed offset never moves back.
THEOREM CommitsOnlyAdvance == Spec => CommittedNeverRewinds
<1>1. IInv /\ [Next]_vars => [committed' >= committed]_committed
  BY NextIInv
<1> QED
  BY SpecIInv, <1>1, PTL DEF Spec, CommittedNeverRewinds
=============================================================================
