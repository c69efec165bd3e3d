------------------------------ MODULE Conveyor -------------------------------
(***************************************************************************)
(* The pipeline of stages of tasks/transport.  To fire an event is to call  *)
(* the next stage's handler and wait for its return, so the handlers that   *)
(* run form a stack, and a handler may fire again while others wait for it. *)
(*                                                                         *)
(* A handler fires a copy of an event.  A stage with no handler for it      *)
(* hands the very event on, so its adapter leaves no trace.                 *)
(***************************************************************************)
EXTENDS Naturals, Sequences

CONSTANTS
  Types,    \* the types of stages
  Handles   \* the directions, "inbound" and "outbound", each has handlers for

ASSUME HandlesAssumption == Handles \in [Types -> SUBSET {"inbound", "outbound"}]

VARIABLES
  stages,  \* stages_, from the transport's end (index 0 in the code is 1 here)
  stack    \* the handlers that run: where, which way, their event, how far

conveyorVars == <<stages, stack>>

ConveyorInit == stages = <<>> /\ stack = <<>>

Idle == stack = <<>>
Top  == stack[Len(stack)]

(* Between events: a stage is appended.  onAdded() gets the index to be. *)
AddLast(type) ==
  /\ Idle
  /\ stages' = Append(stages, type)
  /\ UNCHANGED stack

(* Fault: a stage is called for events it has no handler for. *)
AnyFrom(i) == {j \in 1..Len(stages) : j >= i}

(* The stages that have a handler, from index i on and up to index i. *)
InboundFrom(i)  == {j \in 1..Len(stages) : j >= i /\ "inbound" \in Handles[stages[j]]}
OutboundFrom(i) == {j \in 1..Len(stages) : j <= i /\ "outbound" \in Handles[stages[j]]}

Nearest(S)  == CHOOSE j \in S : \A k \in S : j <= k
Farthest(S) == CHOOSE j \in S : \A k \in S : k <= j

Call(at, dir, buf) == [at |-> at, dir |-> dir, buf |-> buf, pc |-> "called"]

(* fireInboundFrom(): the handlers that run after it, given those that wait. *)
FireInboundFrom(i, buf, waiting) ==
  IF InboundFrom(i) = {} THEN waiting
  ELSE Append(waiting, Call(Nearest(InboundFrom(i)), "inbound", buf))

FireOutboundFrom(i, buf, waiting) ==
  IF OutboundFrom(i) = {} THEN waiting
  ELSE Append(waiting, Call(Farthest(OutboundFrom(i)), "outbound", buf))

(* The handler on top goes on, at pc and with its event's buffer as buf. *)
Continued(buf, pc) ==
  [stack EXCEPT ![Len(stack)] = [Top EXCEPT !.buf = buf, !.pc = pc]]

Returned == SubSeq(stack, 1, Len(stack) - 1)

(* Fault: the stage itself is called. *)
FireInboundToSelf(buf, waiting) == FireInboundFrom(Top.at, buf, waiting)

(* ctx.fireInbound() and ctx.fireOutbound() of the handler on top. *)
FireInbound(buf, waiting) == FireInboundFrom(Top.at + 1, buf, waiting)
FireOutbound(buf, waiting) == FireOutboundFrom(Top.at - 1, buf, waiting)

(* Handlers run inward, each nearer to the tail than the one that waits for  *)
(* it, and from some point on outward.  The tail's handlers may answer while *)
(* all before them are still in onInbound(), and no stage is entered twice  *)
(* for the same direction.                                                 *)
StackIsOrdered ==
  \A i \in 1..Len(stack) - 1 :
    LET a == stack[i]
        b == stack[i + 1]
    IN  \/ b.dir = "inbound" /\ a.dir = "inbound" /\ a.at < b.at
        \/ b.dir = "outbound" /\ b.at < a.at
=============================================================================
