--------------------------- MODULE BlockingQueue ---------------------------
(***************************************************************************)
(* blockingqueue.hpp: a deque guarded by one mutex and one condition       *)
(* variable. The libsigrok sampling thread calls put() from the data feed  *)
(* callback; the Pothos actor thread calls take() from work().             *)
(*                                                                         *)
(* One action per critical section or per operation on the condition       *)
(* variable, so that the notification sent after the mutex is released,    *)
(* the release-and-wait of take() and spurious wake-ups all interleave.    *)
(***************************************************************************)
EXTENDS Naturals, Sequences, FiniteSets

CONSTANTS Producers,   \* threads that call put()
          Consumers,   \* threads that call take()
          Values,      \* what is queued
          NoValue,     \* initial content of a consumer's result
          NoThread,    \* the mutex is free
          QueueBound   \* model bound: no put() begins at this length (the code has no bound)

ASSUME ThreadAssumption ==
    /\ Producers \cap Consumers = {}
    /\ NoThread \notin Producers \cup Consumers
    /\ IsFiniteSet(Producers) /\ IsFiniteSet(Consumers)
ASSUME BoundAssumption == QueueBound \in Nat

VARIABLES mutex,   \* _mutex: the thread that holds it, or NoThread
          queue,   \* _queue
          pc,      \* where each thread is in put() or take()
          arg,     \* arg[p]: the argument of p's put()
          front    \* front[c]: what c's last take() returned

vars == <<mutex, queue, pc, arg, front>>

Threads == Producers \cup Consumers
PutSteps == {"idle", "push", "notify"}
TakeSteps == {"idle", "check", "pop", "wait", "relock"}

(* Blocked in _notEmpty.wait(); these, and only these, can be notified. *)
Waiting == {c \in Consumers : pc[c] = "wait"}

(* Inside take() and not blocked in the wait: will look at the queue again. *)
Awake == {c \in Consumers : pc[c] \in {"check", "pop", "relock"}}

(* Pushed, but has not called notify_one() yet. *)
Notifying == {p \in Producers : pc[p] = "notify"}

Goto(t, step) == pc' = [pc EXCEPT ![t] = step]

Lock(t) == mutex = NoThread /\ mutex' = t
Unlock(t) == mutex = t /\ mutex' = NoThread

Init == /\ mutex = NoThread
        /\ queue = <<>>
        /\ pc = [t \in Threads |-> "idle"]
        /\ arg = [p \in Producers |-> NoValue]
        /\ front = [c \in Consumers |-> NoValue]

----------------------------------------------------------------------------
(* put(): the lock_guard's scope is lock, push, unlock; notify_one() after. *)

PutLock(p, v) ==
    /\ pc[p] = "idle"
    /\ Len(queue) < QueueBound
    /\ Lock(p)
    /\ arg' = [arg EXCEPT ![p] = v]
    /\ Goto(p, "push")
    /\ UNCHANGED <<queue, front>>

PushFront(p) ==     \* mutant: the wrong end of the deque
    /\ pc[p] = "push"
    /\ queue' = <<arg[p]>> \o queue
    /\ Unlock(p)
    /\ Goto(p, "notify")
    /\ UNCHANGED <<arg, front>>

PushDefault(p) ==     \* mutant: pushes a moved-from element
    /\ pc[p] = "push"
    /\ queue' = Append(queue, NoValue)
    /\ Unlock(p)
    /\ Goto(p, "notify")
    /\ UNCHANGED <<arg, front>>

PutPush(p) ==
    /\ pc[p] = "push"
    /\ queue' = Append(queue, arg[p])
    /\ Unlock(p)
    /\ Goto(p, "notify")
    /\ UNCHANGED <<arg, front>>

NotifyIfFirst(p) ==     \* mutant: notifies only when the queue was empty before
    /\ pc[p] = "notify"
    /\ IF Waiting = {} \/ Len(queue) # 1
         THEN Goto(p, "idle")
         ELSE \E c \in Waiting : pc' = [pc EXCEPT ![p] = "idle", ![c] = "relock"]
    /\ UNCHANGED <<mutex, queue, arg, front>>

DropNotify(p) ==     \* mutant: put() returns without notify_one()
    /\ pc[p] = "notify"
    /\ Goto(p, "idle")
    /\ UNCHANGED <<mutex, queue, arg, front>>

(* notify_one() wakes one waiter of the scheduler's choice, if there is one. *)
PutNotify(p) ==
    /\ pc[p] = "notify"
    /\ IF Waiting = {}
         THEN Goto(p, "idle")
         ELSE \E c \in Waiting : pc' = [pc EXCEPT ![p] = "idle", ![c] = "relock"]
    /\ UNCHANGED <<mutex, queue, arg, front>>

----------------------------------------------------------------------------
(* take(): lock; wait(lock, not empty); pop the front; unlock on return. *)

TakeLock(c) ==
    /\ pc[c] = "idle"
    /\ Lock(c)
    /\ Goto(c, "check")
    /\ UNCHANGED <<queue, arg, front>>

(* The predicate is evaluated with the mutex held; if it is false the thread
   releases the mutex and starts waiting in one indivisible step. *)
TakeCheck(c) ==
    /\ pc[c] = "check"
    /\ IF queue = <<>>
         THEN Unlock(c) /\ Goto(c, "wait")
         ELSE UNCHANGED mutex /\ Goto(c, "pop")
    /\ UNCHANGED <<queue, arg, front>>

(* A wait may return without a notification. *)
SpuriousWakeup(c) ==
    /\ pc[c] = "wait"
    /\ Goto(c, "relock")
    /\ UNCHANGED <<mutex, queue, arg, front>>

RelockNoRecheck(c) ==     \* mutant: wait(lock) without a predicate
    /\ pc[c] = "relock"
    /\ Lock(c)
    /\ Goto(c, "pop")
    /\ UNCHANGED <<queue, arg, front>>

(* A woken waiter takes the mutex again and re-evaluates the predicate. *)
TakeRelock(c) ==
    /\ pc[c] = "relock"
    /\ Lock(c)
    /\ Goto(c, "check")
    /\ UNCHANGED <<queue, arg, front>>

TakePop(c) ==
    /\ pc[c] = "pop"
    /\ front' = [front EXCEPT ![c] = Head(queue)]
    /\ queue' = Tail(queue)
    /\ Unlock(c)
    /\ Goto(c, "idle")
    /\ UNCHANGED arg

----------------------------------------------------------------------------
Next ==
    \/ \E p \in Producers :
         \/ \E v \in Values : PutLock(p, v)
         \/ PutPush(p)
         \/ PutNotify(p)
    \/ \E c \in Consumers :
         \/ TakeLock(c)
         \/ TakeCheck(c)
         \/ SpuriousWakeup(c)
         \/ TakeRelock(c)
         \/ TakePop(c)

SafeSpec == Init /\ [][Next]_vars

(* A thread inside put() or take() keeps running, and one that keeps asking
   for the mutex gets it. Nobody has to call put() or take(), and spurious
   wake-ups may never happen. *)
Fairness ==
    /\ \A p \in Producers : WF_vars(PutPush(p)) /\ WF_vars(PutNotify(p))
    /\ \A c \in Consumers : /\ WF_vars(TakeCheck(c)) /\ WF_vars(TakePop(c))
                            /\ SF_vars(TakeRelock(c))

Spec == SafeSpec /\ Fairness

----------------------------------------------------------------------------
TypeOK ==
    /\ mutex \in Threads \cup {NoThread}
    /\ queue \in Seq(Values)
    /\ pc \in [Threads -> PutSteps \cup TakeSteps]
    /\ \A p \in Producers : pc[p] \in PutSteps
    /\ \A c \in Consumers : pc[c] \in TakeSteps
    /\ arg \in [Producers -> Values \cup {NoValue}]
    /\ \A p \in Producers : pc[p] = "push" => arg[p] \in Values
    /\ front \in [Consumers -> Values \cup {NoValue}]

(* The assertion in take() (blockingqueue.hpp:50) never fires: between the
   last evaluation of the predicate and the pop nobody empties the queue. *)
PopNonEmpty == \A c \in Consumers : pc[c] = "pop" => queue # <<>>

(* While somebody is blocked in take(), every queued value is covered by a
   consumer that will look again or by a notification that is still to be
   sent: no put() is ever missed, although notify_one() runs after the mutex
   is released and wakes one waiter only. *)
NoLostWakeup ==
    Waiting # {} => Len(queue) <= Cardinality(Awake) + Cardinality(Notifying)

Fifo == INSTANCE FifoQueue

(* Whatever the interleaving, callers see one FIFO queue: every value put is
   taken at most once, in the order of the pushes. *)
FifoSpec == Fifo!Spec

(* A consumer inside take() while values are queued returns, unless the other
   consumers empty the queue first. *)
TakeReturns ==
    \A c \in Consumers :
        (pc[c] # "idle" /\ queue # <<>>) ~> (pc[c] = "idle" \/ queue = <<>>)
============================================================================
