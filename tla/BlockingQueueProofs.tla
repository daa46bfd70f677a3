------------------------ MODULE BlockingQueueProofs ------------------------
(***************************************************************************)
(* Proofs about BlockingQueue for any number of producers and consumers,   *)
(* any values and any bound: typing, the assertion of take(), no lost      *)
(* wake-up, and that callers see the FIFO queue of FifoQueue.              *)
(***************************************************************************)
EXTENDS BlockingQueue, FiniteSetTheorems, SequenceTheorems, TLAPS

(* A thread inside a critical section holds the mutex. *)
LockInv == \A t \in Threads : pc[t] \in {"push", "check", "pop"} => mutex = t

Inv == TypeOK /\ LockInv /\ PopNonEmpty /\ NoLostWakeup

----------------------------------------------------------------------------
(* Every step of the queue keeps its variables well typed; a pop needs the
   queue it pops from not to be empty. *)
LEMMA TypeInductive == TypeOK /\ PopNonEmpty /\ [Next]_vars => TypeOK'
<1> SUFFICES ASSUME TypeOK, PopNonEmpty, [Next]_vars PROVE TypeOK'
  OBVIOUS
<1> USE ThreadAssumption DEF TypeOK, Threads, PutSteps, TakeSteps, Goto, Lock, Unlock
<1>1. ASSUME NEW p \in Producers, NEW v \in Values, PutLock(p, v) PROVE TypeOK'
  BY <1>1 DEF PutLock
<1>2. ASSUME NEW p \in Producers, PutPush(p) PROVE TypeOK'
  <2>1. queue' \in Seq(Values)
    BY <1>2, AppendProperties DEF PutPush
  <2> QED BY <1>2, <2>1 DEF PutPush
<1>3. ASSUME NEW p \in Producers, PutNotify(p) PROVE TypeOK'
  <2>1. CASE Waiting = {}
    BY <1>3, <2>1 DEF PutNotify
  <2>2. CASE Waiting # {}
    <3>1. PICK c \in Waiting : pc' = [pc EXCEPT ![p] = "idle", ![c] = "relock"]
      BY <1>3, <2>2 DEF PutNotify
    <3> QED BY <1>3, <3>1 DEF PutNotify, Waiting
  <2> QED BY <2>1, <2>2
<1>4. ASSUME NEW c \in Consumers, TakeLock(c) PROVE TypeOK'
  BY <1>4 DEF TakeLock
<1>5. ASSUME NEW c \in Consumers, TakeCheck(c) PROVE TypeOK'
  BY <1>5 DEF TakeCheck
<1>6. ASSUME NEW c \in Consumers, SpuriousWakeup(c) PROVE TypeOK'
  BY <1>6 DEF SpuriousWakeup
<1>7. ASSUME NEW c \in Consumers, TakeRelock(c) PROVE TypeOK'
  BY <1>7 DEF TakeRelock
<1>8. ASSUME NEW c \in Consumers, TakePop(c) PROVE TypeOK'
  <2>1. Head(queue) \in Values /\ queue' \in Seq(Values)
    BY <1>8, HeadTailProperties DEF TakePop, PopNonEmpty
  <2> QED BY <1>8, <2>1 DEF TakePop
<1>9. CASE UNCHANGED vars
  BY <1>9 DEF vars
<1> QED BY <1>1, <1>2, <1>3, <1>4, <1>5, <1>6, <1>7, <1>8, <1>9 DEF Next

----------------------------------------------------------------------------
(* Mutual exclusion: a thread inside a critical section keeps the mutex. *)
LEMMA LockInductive == TypeOK /\ LockInv /\ [Next]_vars => LockInv'
<1> SUFFICES ASSUME TypeOK, LockInv, [Next]_vars PROVE LockInv'
  OBVIOUS
<1> USE ThreadAssumption DEF TypeOK, LockInv, Threads, Goto, Lock, Unlock
<1>1. ASSUME NEW p \in Producers, NEW v \in Values, PutLock(p, v) PROVE LockInv'
  BY <1>1 DEF PutLock
<1>2. ASSUME NEW p \in Producers, PutPush(p) PROVE LockInv'
  BY <1>2 DEF PutPush
<1>3. ASSUME NEW p \in Producers, PutNotify(p) PROVE LockInv'
  BY <1>3 DEF PutNotify, Waiting
<1>4. ASSUME NEW c \in Consumers, TakeLock(c) PROVE LockInv'
  BY <1>4 DEF TakeLock
<1>5. ASSUME NEW c \in Consumers, TakeCheck(c) PROVE LockInv'
  BY <1>5 DEF TakeCheck
<1>6. ASSUME NEW c \in Consumers, SpuriousWakeup(c) PROVE LockInv'
  BY <1>6 DEF SpuriousWakeup
<1>7. ASSUME NEW c \in Consumers, TakeRelock(c) PROVE LockInv'
  BY <1>7 DEF TakeRelock
<1>8. ASSUME NEW c \in Consumers, TakePop(c) PROVE LockInv'
  BY <1>8 DEF TakePop
<1>9. CASE UNCHANGED vars
  BY <1>9 DEF vars
<1> QED BY <1>1, <1>2, <1>3, <1>4, <1>5, <1>6, <1>7, <1>8, <1>9 DEF Next

(* The queue a consumer found non-empty is still so when it pops: pushing
   only adds, and no other consumer can pop while it holds the mutex. *)
LEMMA PopNonEmptyInductive ==
    TypeOK /\ LockInv /\ PopNonEmpty /\ [Next]_vars => PopNonEmpty'
<1> SUFFICES ASSUME TypeOK, LockInv, PopNonEmpty, [Next]_vars PROVE PopNonEmpty'
  OBVIOUS
<1> USE ThreadAssumption DEF TypeOK, PopNonEmpty, Threads, Goto
<1>1. ASSUME NEW p \in Producers, NEW v \in Values, PutLock(p, v) PROVE PopNonEmpty'
  BY <1>1 DEF PutLock
<1>2. ASSUME NEW p \in Producers, PutPush(p) PROVE PopNonEmpty'
  <2>1. queue' # <<>>
    BY <1>2, AppendProperties DEF PutPush, PutSteps
  <2> QED BY <2>1
<1>3. ASSUME NEW p \in Producers, PutNotify(p) PROVE PopNonEmpty'
  BY <1>3 DEF PutNotify, Waiting
<1>4. ASSUME NEW c \in Consumers, TakeLock(c) PROVE PopNonEmpty'
  BY <1>4 DEF TakeLock
<1>5. ASSUME NEW c \in Consumers, TakeCheck(c) PROVE PopNonEmpty'
  BY <1>5 DEF TakeCheck
<1>6. ASSUME NEW c \in Consumers, SpuriousWakeup(c) PROVE PopNonEmpty'
  BY <1>6 DEF SpuriousWakeup
<1>7. ASSUME NEW c \in Consumers, TakeRelock(c) PROVE PopNonEmpty'
  BY <1>7 DEF TakeRelock
<1>8. ASSUME NEW c \in Consumers, TakePop(c) PROVE PopNonEmpty'
  <2>1. \A d \in Consumers : pc[d] = "pop" => d = c
    BY <1>8 DEF TakePop, LockInv
  <2> QED BY <1>8, <2>1 DEF TakePop
<1>9. CASE UNCHANGED vars
  BY <1>9 DEF vars
<1> QED BY <1>1, <1>2, <1>3, <1>4, <1>5, <1>6, <1>7, <1>8, <1>9 DEF Next

----------------------------------------------------------------------------
(* The two groups of threads that NoLostWakeup counts are finite. *)
LEMMA Counts ==
    /\ IsFiniteSet(Awake) /\ Cardinality(Awake) \in Nat
    /\ IsFiniteSet(Notifying) /\ Cardinality(Notifying) \in Nat
<1>1. Awake \subseteq Consumers /\ Notifying \subseteq Producers
  BY DEF Awake, Notifying
<1>2. IsFiniteSet(Awake) /\ IsFiniteSet(Notifying)
  BY <1>1, ThreadAssumption, FS_Subset
<1> QED BY <1>2, FS_CardinalityType

(* No put() is missed. A push raises the length and the pending notifications
   by one; a notification turns into one more awake consumer, unless nobody
   waits; a pop lowers the length and the awake consumers by one; and a
   consumer goes to sleep only when the queue is empty. *)
LEMMA NoLostWakeupInductive ==
    TypeOK /\ PopNonEmpty /\ NoLostWakeup /\ [Next]_vars => NoLostWakeup'
<1> SUFFICES ASSUME TypeOK, PopNonEmpty, NoLostWakeup, [Next]_vars, Waiting' # {}
             PROVE  Len(queue') <= Cardinality(Awake') + Cardinality(Notifying')
  BY DEF NoLostWakeup
<1> DEFINE A == Cardinality(Awake)
           N == Cardinality(Notifying)
           Goal == Len(queue') <= Cardinality(Awake') + Cardinality(Notifying')
<1> USE ThreadAssumption DEF TypeOK, Threads, Goto
<1>a. /\ IsFiniteSet(Awake) /\ A \in Nat
      /\ IsFiniteSet(Notifying) /\ N \in Nat
      /\ Len(queue) \in Nat
  BY Counts, LenProperties
<1>b. Waiting # {} => Len(queue) <= A + N
  BY DEF NoLostWakeup
<1>1. ASSUME NEW p \in Producers, NEW v \in Values, PutLock(p, v) PROVE Goal
  <2>1. Waiting' = Waiting /\ Awake' = Awake /\ Notifying' = Notifying
    BY <1>1 DEF PutLock, Waiting, Awake, Notifying
  <2> QED BY <1>1, <1>b, <2>1 DEF PutLock
<1>2. ASSUME NEW p \in Producers, PutPush(p) PROVE Goal
  <2>1. Waiting' = Waiting /\ Awake' = Awake
    BY <1>2 DEF PutPush, Waiting, Awake
  <2>2. p \notin Notifying /\ Notifying' = Notifying \cup {p}
    BY <1>2 DEF PutPush, Notifying
  <2>3. Cardinality(Notifying') = N + 1
    BY <1>a, <2>2, FS_AddElement
  <2>4. Len(queue') = Len(queue) + 1
    BY <1>2, AppendProperties DEF PutPush, PutSteps
  <2> QED BY <1>a, <1>b, <2>1, <2>3, <2>4
<1>3. ASSUME NEW p \in Producers, PutNotify(p) PROVE Goal
  <2>1. Waiting # {}
    BY <1>3 DEF PutNotify, Waiting
  <2>2. PICK c \in Waiting : pc' = [pc EXCEPT ![p] = "idle", ![c] = "relock"]
    BY <1>3, <2>1 DEF PutNotify
  <2>3. p \in Notifying /\ Notifying' = Notifying \ {p}
    BY <1>3, <2>2 DEF PutNotify, Notifying, Waiting
  <2>4. c \notin Awake /\ Awake' = Awake \cup {c}
    BY <1>3, <2>2 DEF Awake, Waiting
  <2>5. Cardinality(Notifying') = N - 1
    BY <1>a, <2>3, FS_RemoveElement
  <2>6. Cardinality(Awake') = A + 1
    BY <1>a, <2>4, FS_AddElement
  <2>7. queue' = queue
    BY <1>3 DEF PutNotify
  <2> QED BY <1>a, <1>b, <2>1, <2>5, <2>6, <2>7
<1>4. ASSUME NEW c \in Consumers, TakeLock(c) PROVE Goal
  <2>1. Waiting' = Waiting /\ Notifying' = Notifying
    BY <1>4 DEF TakeLock, Waiting, Notifying
  <2>2. c \notin Awake /\ Awake' = Awake \cup {c}
    BY <1>4 DEF TakeLock, Awake
  <2>3. Cardinality(Awake') = A + 1
    BY <1>a, <2>2, FS_AddElement
  <2>4. queue' = queue
    BY <1>4 DEF TakeLock
  <2> QED BY <1>a, <1>b, <2>1, <2>3, <2>4
<1>5. ASSUME NEW c \in Consumers, TakeCheck(c) PROVE Goal
  <2>1. CASE queue = <<>>
    <3>1. Len(queue') = 0
      BY <1>5, <2>1 DEF TakeCheck
    <3>2. Awake' = Awake \ {c} /\ Notifying' = Notifying
      BY <1>5, <2>1 DEF TakeCheck, Awake, Notifying
    <3>3. Cardinality(Awake') \in Nat
      BY <1>a, <3>2, FS_RemoveElement, FS_CardinalityType
    <3> QED BY <1>a, <3>1, <3>2, <3>3
  <2>2. CASE queue # <<>>
    <3>1. Waiting' = Waiting /\ Awake' = Awake /\ Notifying' = Notifying
      BY <1>5, <2>2 DEF TakeCheck, Waiting, Awake, Notifying
    <3> QED BY <1>5, <1>b, <3>1 DEF TakeCheck
  <2> QED BY <2>1, <2>2
<1>6. ASSUME NEW c \in Consumers, SpuriousWakeup(c) PROVE Goal
  <2>1. Waiting # {} /\ Notifying' = Notifying /\ queue' = queue
    BY <1>6 DEF SpuriousWakeup, Waiting, Notifying
  <2>2. c \notin Awake /\ Awake' = Awake \cup {c}
    BY <1>6 DEF SpuriousWakeup, Awake
  <2>3. Cardinality(Awake') = A + 1
    BY <1>a, <2>2, FS_AddElement
  <2> QED BY <1>a, <1>b, <2>1, <2>3
<1>7. ASSUME NEW c \in Consumers, TakeRelock(c) PROVE Goal
  <2>1. Waiting' = Waiting /\ Awake' = Awake /\ Notifying' = Notifying
    BY <1>7 DEF TakeRelock, Waiting, Awake, Notifying
  <2> QED BY <1>7, <1>b, <2>1 DEF TakeRelock
<1>8. ASSUME NEW c \in Consumers, TakePop(c) PROVE Goal
  <2>1. Waiting' = Waiting /\ Notifying' = Notifying
    BY <1>8 DEF TakePop, Waiting, Notifying
  <2>2. c \in Awake /\ Awake' = Awake \ {c}
    BY <1>8 DEF TakePop, Awake
  <2>3. Cardinality(Awake') = A - 1
    BY <1>a, <2>2, FS_RemoveElement
  <2>4. Len(queue') = Len(queue) - 1
    BY <1>8, HeadTailProperties DEF TakePop, PopNonEmpty
  <2> QED BY <1>a, <1>b, <2>1, <2>3, <2>4
<1>9. CASE UNCHANGED vars
  BY <1>9, <1>b DEF vars, Waiting, Awake, Notifying
<1> QED BY <1>1, <1>2, <1>3, <1>4, <1>5, <1>6, <1>7, <1>8, <1>9 DEF Next

----------------------------------------------------------------------------
(* The invariant that all of the above amounts to. *)
LEMMA InvHolds == SafeSpec => []Inv
<1>1. Init => Inv
  <2> USE ThreadAssumption DEF Init, Threads, PutSteps, TakeSteps
  <2> SUFFICES ASSUME Init PROVE Inv
    OBVIOUS
  <2>1. TypeOK /\ LockInv /\ PopNonEmpty
    BY EmptySeq DEF TypeOK, LockInv, PopNonEmpty
  <2>2. NoLostWakeup
    BY DEF NoLostWakeup, Waiting
  <2> QED BY <2>1, <2>2 DEF Inv
<1>2. Inv /\ [Next]_vars => Inv'
  BY TypeInductive, LockInductive, PopNonEmptyInductive, NoLostWakeupInductive DEF Inv
<1> QED BY <1>1, <1>2, PTL DEF SafeSpec

(* Every variable of the queue keeps its type. *)
THEOREM QueueTypeOK == SafeSpec => []TypeOK
<1>1. Inv => TypeOK
  BY DEF Inv
<1> QED BY <1>1, InvHolds, PTL

(* The assertion in take(), blockingqueue.hpp:50, never fails. *)
THEOREM TakeAssertion == SafeSpec => []PopNonEmpty
<1>1. Inv => PopNonEmpty
  BY DEF Inv
<1> QED BY <1>1, InvHolds, PTL

(* put() notifies after it unlocks and wakes one waiter only, and still no
   value is left in the queue with every consumer asleep. *)
THEOREM WakeupsSuffice == SafeSpec => []NoLostWakeup
<1>1. Inv => NoLostWakeup
  BY DEF Inv
<1> QED BY <1>1, InvHolds, PTL

(* The lock-and-condition-variable queue implements the atomic FIFO queue:
   the push and the pop are the two steps that callers see. *)
THEOREM ImplementsFifo == SafeSpec => FifoSpec
<1>1. Init => Fifo!Init
  BY DEF Init, Fifo!Init
<1>2. Inv /\ [Next]_vars => [Fifo!Next]_(Fifo!fifoVars)
  <2> SUFFICES ASSUME Inv, [Next]_vars PROVE [Fifo!Next]_(Fifo!fifoVars)
    OBVIOUS
  <2> USE DEF Fifo!fifoVars
  <2>1. ASSUME NEW p \in Producers, PutPush(p) PROVE Fifo!Next
    <3>1. arg[p] \in Values
      BY <2>1 DEF PutPush, Inv, TypeOK
    <3> QED BY <2>1, <3>1 DEF PutPush, Fifo!Next, Fifo!Put
  <2>2. ASSUME NEW c \in Consumers, TakePop(c) PROVE Fifo!Next
    <3>1. queue # <<>>
      BY <2>2 DEF TakePop, Inv, PopNonEmpty
    <3> QED BY <2>2, <3>1 DEF TakePop, Fifo!Next, Fifo!Take
  <2>3. ASSUME NEW p \in Producers, NEW v \in Values, PutLock(p, v)
        PROVE  UNCHANGED <<queue, front>>
    BY <2>3 DEF PutLock
  <2>4. ASSUME NEW p \in Producers, PutNotify(p) PROVE UNCHANGED <<queue, front>>
    BY <2>4 DEF PutNotify
  <2>5. ASSUME NEW c \in Consumers,
               TakeLock(c) \/ TakeCheck(c) \/ SpuriousWakeup(c) \/ TakeRelock(c)
        PROVE  UNCHANGED <<queue, front>>
    BY <2>5 DEF TakeLock, TakeCheck, SpuriousWakeup, TakeRelock
  <2>6. CASE UNCHANGED vars
    BY <2>6 DEF vars
  <2> QED BY <2>1, <2>2, <2>3, <2>4, <2>5, <2>6 DEF Next
<1> QED BY <1>1, <1>2, InvHolds, PTL DEF SafeSpec, FifoSpec, Fifo!Spec
============================================================================
