----------------------------- MODULE RequestQueue -----------------------------
(***************************************************************************)
(* What polkitd may count on from an authentication agent: the requests    *)
(* are put to the user one at a time, in the order in which they came, and *)
(* each is answered at most once.  A request that is cancelled while it    *)
(* waits leaves the queue wherever it is.                                  *)
(***************************************************************************)
EXTENDS Naturals, SequencesExt

CONSTANT Requests

VARIABLES
  queue,    \* requests that wait; the user deals with the first
  answers   \* what was answered to each request

queueVars == <<queue, answers>>

QueueInit ==
  /\ queue = <<>>
  /\ answers = [r \in Requests |-> "none"]

Begin(r) ==
  /\ answers[r] = "none" /\ r \notin ToSet(queue)
  /\ queue' = Append(queue, r)
  /\ UNCHANGED answers

Serve(answer) ==
  /\ queue # <<>> /\ answers[Head(queue)] = "none"
  /\ queue' = Tail(queue)
  /\ answers' = [answers EXCEPT ![Head(queue)] = answer]

Withdraw(k) ==
  /\ k > 1 /\ answers[queue[k]] = "none"
  /\ queue' = RemoveAt(queue, k)
  /\ answers' = [answers EXCEPT ![queue[k]] = "complete"]

QueueNext ==
  \/ \E r \in Requests : Begin(r)
  \/ \E answer \in {"complete", "dismissed"} : Serve(answer)
  \/ \E k \in 1..Len(queue) : Withdraw(k)

QueueSpec == QueueInit /\ [][QueueNext]_queueVars
=============================================================================
