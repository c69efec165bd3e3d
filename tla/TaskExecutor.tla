---------------------------- MODULE TaskExecutor ----------------------------
(***************************************************************************)
(* What EventWatcher::runInEventWatcherLoop() promises a thread that is not *)
(* the loop's: a bounded queue whose tasks one executor takes in the order  *)
(* they were accepted, one at a time, and takes in the end.  There is no    *)
(* eventfd here, no epoll and no lock: those are how it is done.            *)
(***************************************************************************)
EXTENDS Naturals, Sequences

CONSTANTS Tasks,     \* what may be submitted
          Capacity   \* how many tasks may wait

VARIABLES queue,     \* accepted, not begun
          busy       \* the executor is inside a task

Init == queue = <<>> /\ busy = FALSE

Accept ==
  /\ Len(queue) < Capacity
  /\ \E t \in Tasks : queue' = Append(queue, t)
  /\ UNCHANGED busy

(* A short task is over in the step that takes it. *)
Take ==
  /\ ~busy
  /\ queue # <<>>
  /\ queue' = Tail(queue)
  /\ busy' \in BOOLEAN

Finish ==
  /\ busy
  /\ busy' = FALSE
  /\ UNCHANGED queue

Next == Accept \/ Take \/ Finish

Spec == Init /\ [][Next]_<<queue, busy>>

FairSpec ==
  Spec /\ WF_<<queue, busy>>(Take) /\ WF_<<queue, busy>>(Finish)
=============================================================================
