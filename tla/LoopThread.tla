----------------------------- MODULE LoopThread ------------------------------
(***************************************************************************)
(* The loop's thread as the listener and the dialers see it.  The tasks of   *)
(* runInEventWatcherLoop() are a queue, as TaskExecutor says, and what the   *)
(* loop's thread itself calls runs inline, so its handlers are a stack.     *)
(***************************************************************************)
EXTENDS Integers, Sequences

CONSTANTS
  Clients,   \* the dialers, each the owner of its tasks
  Listener   \* the listener, the owner of the others

ASSUME ListenerIsNoClient == Listener \notin Clients

VARIABLES
  tasks,  \* posted to the loop, not run
  stack   \* the handlers the loop's thread is in, the innermost last

loopVars == <<tasks, stack>>

LoopInit == tasks = <<>> /\ stack = <<>>

Task(op, of) == [op |-> op, of |-> of]
Posted(op, of) == tasks' = Append(tasks, Task(op, of))

Idle == stack = <<>>
LoopIs(handler) == stack # <<>> /\ stack[Len(stack)] = handler
Outer == SubSeq(stack, 1, Len(stack) - 1)

Taken(op, of) ==
  /\ Idle
  /\ tasks # <<>>
  /\ Head(tasks) = Task(op, of)
  /\ tasks' = Tail(tasks)
=============================================================================
