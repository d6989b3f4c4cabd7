------------------------------ MODULE TaskQueue ------------------------------
(***************************************************************************)
(* What every implementation of lumen::interfaces::ITaskQueue promises the *)
(* thread pool and the server: a first-in first-out queue from which each  *)
(* accepted task leaves exactly once, into the batch of one consumer.      *)
(*                                                                         *)
(* A refused push and an empty pop are stuttering steps, so the contract   *)
(* leaves each implementation free to choose when it refuses.  Shutdown    *)
(* has no effect on the contents: a push that has passed its stop check    *)
(* may still land afterwards, and the naive queue never checks.            *)
(***************************************************************************)
EXTENDS Naturals, Sequences

CONSTANTS Consumers,  \* threads that call pop_batch
          Tasks,      \* the inference tasks
          BatchMax    \* pop_batch's limit, the pool's batch size

VARIABLES queue,      \* accepted tasks that no consumer owns yet, oldest first
          batch       \* batch[c]: what consumer c's current pop_batch has got

vars == <<queue, batch>>

Init == /\ queue = << >>
        /\ batch = [c \in Consumers |-> << >>]

(* push() accepted task t.                                                 *)
Push(t) == /\ queue' = Append(queue, t)
           /\ UNCHANGED batch

(* A worker clears its batch vector before it asks for the next batch.     *)
Clear(c) == /\ batch' = [batch EXCEPT ![c] = << >>]
            /\ UNCHANGED queue

(* Consumer c receives the n oldest tasks, in order.                       *)
PopBatch(c, n) ==
  /\ n <= Len(queue)
  /\ Len(batch[c]) + n <= BatchMax
  /\ batch' = [batch EXCEPT ![c] = @ \o SubSeq(queue, 1, n)]
  /\ queue' = SubSeq(queue, n + 1, Len(queue))

Next == \/ \E t \in Tasks : Push(t)
        \/ \E c \in Consumers : Clear(c) \/ \E n \in 1..BatchMax : PopBatch(c, n)

Spec == Init /\ [][Next]_vars
==============================================================================
