----------------------------- MODULE FifoQueue -----------------------------
(***************************************************************************)
(* What BlockingQueue<T> promises its callers: an unbounded FIFO buffer.   *)
(* A put appends its argument in one step; a take removes and returns the  *)
(* oldest element in one step, and is only possible when there is one.     *)
(* SigSession and DscopeSource use the queue through this interface.       *)
(***************************************************************************)
EXTENDS Sequences

CONSTANTS Consumers,  \* threads that call take()
          Values,     \* what is queued
          NoValue     \* "nothing returned yet"

VARIABLES queue,      \* the buffered values, oldest first
          front       \* front[c]: what c's last take() returned

fifoVars == <<queue, front>>

Init == /\ queue = <<>>
        /\ front = [c \in Consumers |-> NoValue]

Put(v) == /\ queue' = Append(queue, v)
          /\ UNCHANGED front

Take(c) == /\ queue # <<>>
           /\ front' = [front EXCEPT ![c] = Head(queue)]
           /\ queue' = Tail(queue)

Next == \/ \E v \in Values : Put(v)
        \/ \E c \in Consumers : Take(c)

Spec == Init /\ [][Next]_fifoVars
============================================================================
