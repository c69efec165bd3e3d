------------------------- MODULE EventWatcher_proofs -------------------------
(***************************************************************************)
(* Proofs about EventWatcher, for any number of descriptors, callbacks,    *)
(* threads and requests, any queue size and both kinds of build.           *)
(***************************************************************************)
EXTENDS EventWatcher, SequenceTheorems, TLAPS

-----------------------------------------------------------------------------
(* Type correctness.  First the operations on the table of descriptors.    *)

TableType ==
  /\ entries \in [AllFds -> Entry]
  /\ epoll \in [AllFds -> SUBSET Flags]
  /\ fate \in [Callbacks -> {"free", "live", "unwatching", "unwatched",
                             "removed"}]

(* A fresh slot, and the slot try_emplace returns, are slots. *)
LEMMA EmplacedType ==
  ASSUME TableType, NEW fd \in AllFds
  PROVE  EmptyEntry \in Entry /\ Emplaced(fd) \in Entry
BY DEF TableType, EmptyEntry, Emplaced, Entry, Flags

(* epoll_ctl leaves every interest set a set of flags. *)
LEMMA EpollCtlType ==
  ASSUME TableType, NEW fd \in AllFds, NEW op, NEW mask \in SUBSET Flags
  PROVE  EpollCtl(op, fd, mask) \in [AllFds -> SUBSET Flags]
BY DEF TableType, EpollCtl

(* The history variable keeps its type whatever callback is named. *)
LEMMA BecomesType ==
  ASSUME NEW f \in [Callbacks -> {"free", "live", "unwatching", "unwatched",
                                  "removed"}],
         NEW c,
         NEW w \in {"free", "live", "unwatching", "unwatched", "removed"}
  PROVE  Becomes(f, c, w) \in [Callbacks -> {"free", "live", "unwatching",
                                             "unwatched", "removed"}]
BY DEF Becomes

(* handleWatch() keeps the types of the table. *)
LEMMA HandleWatchType ==
  ASSUME TableType, NEW fd \in Fds, NEW flag \in Flags, NEW c \in Callbacks,
         HandleWatch(fd, flag, c)
  PROVE  TableType'
<1> DEFINE e    == Emplaced(fd)
           op   == IF e.mask = {} THEN "ADD" ELSE "MOD"
           mask == e.mask \cup {flag}
<1>1. fd \in AllFds
  BY DEF AllFds
<1>2. e \in Entry
  BY <1>1, EmplacedType
<1>3. mask \in SUBSET Flags /\ [e.cb EXCEPT ![flag] = c] \in
        [Flags -> Callbacks \cup {Wakeup, None}]
  BY <1>2 DEF Entry
<1>4. entries' \in [AllFds -> Entry]
  <2>1. [mask |-> mask, cb |-> [e.cb EXCEPT ![flag] = c]] \in Entry
    BY <1>3 DEF Entry
  <2>2. entries' = [entries EXCEPT ![fd] =
                      [mask |-> mask, cb |-> [e.cb EXCEPT ![flag] = c]]]
    BY DEF HandleWatch
  <2> QED BY <2>1, <2>2 DEF TableType
<1>5. epoll' \in [AllFds -> SUBSET Flags]
  <2>1. EpollCtl(op, fd, mask) \in [AllFds -> SUBSET Flags]
    BY <1>1, <1>3, EpollCtlType
  <2>2. epoll' = IF e.cb[flag] = None THEN EpollCtl(op, fd, mask) ELSE epoll
    BY DEF HandleWatch
  <2> QED BY <2>1, <2>2 DEF TableType
<1>6. fate' \in [Callbacks -> {"free", "live", "unwatching", "unwatched",
                               "removed"}]
  <2>1. fate' = Becomes(Becomes(fate, e.cb[flag], "removed"), c, "live")
    BY DEF HandleWatch
  <2> QED BY <2>1, BecomesType DEF TableType
<1> QED BY <1>4, <1>5, <1>6 DEF TableType

(* handleUnwatch() keeps the types of the table. *)
LEMMA HandleUnwatchType ==
  ASSUME TableType, NEW fd \in Fds, NEW flag \in Flags, HandleUnwatch(fd, flag)
  PROVE  TableType'
<1> DEFINE e    == Emplaced(fd)
           mask == e.mask \ {flag}
           op   == IF mask = {} THEN "DEL" ELSE "MOD"
<1>1. fd \in AllFds
  BY DEF AllFds
<1>2. e \in Entry
  BY <1>1, EmplacedType
<1>3. mask \in SUBSET Flags /\ [e.cb EXCEPT ![flag] = None] \in
        [Flags -> Callbacks \cup {Wakeup, None}]
  BY <1>2 DEF Entry
<1>4. entries' \in [AllFds -> Entry]
  <2>1. [mask |-> mask, cb |-> [e.cb EXCEPT ![flag] = None]] \in Entry
    BY <1>3 DEF Entry
  <2>2. entries' = [entries EXCEPT ![fd] =
                      [mask |-> mask, cb |-> [e.cb EXCEPT ![flag] = None]]]
    BY DEF HandleUnwatch
  <2> QED BY <2>1, <2>2 DEF TableType
<1>5. epoll' \in [AllFds -> SUBSET Flags]
  <2>1. EpollCtl(op, fd, mask) \in [AllFds -> SUBSET Flags]
    BY <1>1, <1>3, EpollCtlType
  <2>2. epoll' = IF e.cb[flag] # None THEN EpollCtl(op, fd, mask) ELSE epoll
    BY DEF HandleUnwatch
  <2> QED BY <2>1, <2>2 DEF TableType
<1>6. fate' \in [Callbacks -> {"free", "live", "unwatching", "unwatched",
                               "removed"}]
  <2>1. fate' = Becomes(fate, e.cb[flag], "removed")
    BY DEF HandleUnwatch
  <2> QED BY <2>1, BecomesType DEF TableType
<1> QED BY <1>4, <1>5, <1>6 DEF TableType

(* unwatchAll() keeps the types of the table. *)
LEMMA HandleUnwatchAllType ==
  ASSUME TableType, HandleUnwatchAll
  PROVE  TableType'
BY DEF TableType, HandleUnwatchAll

(* A request is a task, and the callback an unwatch() names is recorded with *)
(* a value of the history variable's type.                                  *)
LEMMA UnwatchingType ==
  ASSUME TableType, NEW r \in Task, NEW w \in {"unwatching", "unwatched"}
  PROVE  Unwatching(r, w) \in [Callbacks -> {"free", "live", "unwatching",
                                             "unwatched", "removed"}]
BY BecomesType DEF TableType, Unwatching

(* What epoll_wait reports is a sequence of events, and handling one side of *)
(* the first leaves a sequence of events.                                    *)
LEMMA ReportedType ==
  ASSUME TableType, NEW n \in 0..MaxEvents, NEW b \in [1..n -> Reportable]
  PROVE  b \in Seq(Event)
<1>1. Reportable \subseteq Event
  BY DEF Reportable
<1>2. n \in Nat
  BY EventWatcherAssumptions
<1>3. b \in [1..n -> Event]
  BY <1>1
<1> QED BY <1>2, <1>3, SeqDef

LEMMA HandledType ==
  ASSUME todo \in Seq(Event), todo # <<>>
  PROVE  Handled \in Seq(Event)
<1>1. Head(todo) \in Event /\ Tail(todo) \in Seq(Event)
  BY HeadTailProperties
<1> DEFINE rest == Head(todo).flags \ {NextFlag}
<1>2. CASE rest = {}
  BY <1>1, <1>2 DEF Handled
<1>3. CASE rest # {}
  <2>1. [Head(todo) EXCEPT !.flags = rest] \in Event
    BY <1>1, <1>3 DEF Event
  <2>2. <<[Head(todo) EXCEPT !.flags = rest]>> \in Seq(Event)
    BY <2>1
  <2>3. Handled = <<[Head(todo) EXCEPT !.flags = rest]>> \o Tail(todo)
    BY <1>3 DEF Handled
  <2> QED BY <1>1, <2>2, <2>3, ConcatProperties
<1> QED BY <1>2, <1>3

(* A callback of a slot is user code or the wake-up callback. *)
LEMMA SlotCallback ==
  ASSUME TableType, NEW f \in AllFds, NEW g \in Flags
  PROVE  entries[f].cb[g] \in Callbacks \cup {Wakeup, None}
BY DEF TableType, Entry

-----------------------------------------------------------------------------
(* Every variable keeps its type, whatever the threads, the kernel and the  *)
(* build do.                                                                *)
THEOREM TypeCorrect == Spec => []TypeOK
<1>1. Init => TypeOK
  <2> SUFFICES ASSUME Init PROVE TypeOK
    OBVIOUS
  <2>1. EmptyEntry \in Entry /\ EventFdEntry \in Entry
    BY DEF EmptyEntry, EventFdEntry, Entry, Flags
  <2>2. entries \in [AllFds -> Entry]
    BY <2>1 DEF Init
  <2>3. epoll \in [AllFds -> SUBSET Flags]
    BY DEF Init, Flags
  <2>4. taskQ \in Seq(Task) /\ todo \in Seq(Event)
    BY DEF Init
  <2>5. fate \in [Callbacks -> {"free", "live", "unwatching", "unwatched",
                               "removed"}]
    BY DEF Init
  <2> QED BY <2>2, <2>3, <2>4, <2>5 DEF Init, TypeOK
<1>2. TypeOK /\ [Next]_vars => TypeOK'
  <2> SUFFICES ASSUME TypeOK, [Next]_vars PROVE TypeOK'
    OBVIOUS
  <2>0. TableType
    BY DEF TypeOK, TableType
  <2>1. ASSUME NEW t \in Threads, PosterRequest(t) PROVE TypeOK'
    <3>1. PICK r \in Request : Push(t, r) \/ Refused(t, r)
      BY <2>1 DEF PosterRequest
    <3>2. r \in Task
      BY DEF Request
    <3>3. Unwatching(r, "unwatching") \in
            [Callbacks -> {"free", "live", "unwatching", "unwatched", "removed"}]
      BY <2>0, <3>2, UnwatchingType
    <3>5. CASE Push(t, r)
      <4>1. taskQ' \in Seq(Task) /\ call' \in [Threads -> Task \cup {None}]
        BY <3>2, <3>5 DEF Push, TypeOK
      <4> QED BY <3>3, <3>5, <4>1 DEF Push, TypeOK
    <3>6. CASE Refused(t, r)
      BY <3>6 DEF Refused, TypeOK
    <3> QED BY <3>1, <3>5, <3>6
  <2>2. ASSUME NEW t \in Threads, Signal(t) PROVE TypeOK'
    BY <2>2 DEF Signal, TypeOK
  <2>3. ASSUME NEW r \in Request, Inline(r) PROVE TypeOK'
    <3>1. r \in Task
      BY DEF Request
    <3>2. CASE r.op = "watch" /\ HandleWatch(r.fd, r.flag, r.cb)
      <4>1. r.fd \in Fds /\ r.flag \in Flags /\ r.cb \in Callbacks
        BY <3>1, <3>2 DEF Task
      <4>2. TableType'
        BY <2>0, <3>2, <4>1, HandleWatchType
      <4> QED BY <2>3, <4>2 DEF Inline, TypeOK, TableType
    <3>3. CASE r.op = "unwatch" /\ HandleUnwatch(r.fd, r.flag)
      <4>1. r.fd \in Fds /\ r.flag \in Flags
        BY <3>1, <3>3 DEF Task
      <4>2. TableType'
        BY <2>0, <3>3, <4>1, HandleUnwatchType
      <4> QED BY <2>3, <4>2 DEF Inline, TypeOK, TableType
    <3>4. CASE r.op = "unwatchAll" /\ HandleUnwatchAll
      <4>1. TableType'
        BY <2>0, <3>4, HandleUnwatchAllType
      <4> QED BY <2>3, <4>1 DEF Inline, TypeOK, TableType
    <3> QED BY <2>3, <3>2, <3>3, <3>4 DEF Inline
  <2>4. CASE EnterLoop
    BY <2>4 DEF EnterLoop, TypeOK
  <2>5. CASE EpollWait
    <3>1. PICK n \in 0..MaxEvents : \E b \in [1..n -> Reportable] : todo' = b
      BY <2>5 DEF EpollWait
    <3>2. todo' \in Seq(Event)
      BY <2>0, <3>1, ReportedType
    <3> QED BY <2>5, <3>2 DEF EpollWait, TypeOK
  <2>6. CASE EpollFail
    BY <2>6 DEF EpollFail, TypeOK
  <2>7. CASE Dispatch
    <3>1. todo' \in Seq(Event)
      BY <2>7, HandledType DEF Dispatch, TypeOK
    <3>2. Head(todo).fd \in AllFds /\ NextFlag \in Flags
      <4>1. Head(todo) \in Event
        BY <2>7, HeadTailProperties DEF Dispatch, TypeOK
      <4> QED BY <4>1 DEF NextFlag, Flags, Event
    <3> DEFINE c == entries[Head(todo).fd].cb[NextFlag]
    <3>3. c \in Callbacks \cup {Wakeup, None}
      BY <2>0, <3>2, SlotCallback
    <3>4. \/ UNCHANGED <<pc, running>>
          \/ pc' = "wakeup" /\ UNCHANGED running
          \/ c # Wakeup /\ pc' = "callback" /\ running' = c
      BY <2>7 DEF Dispatch
    <3> QED BY <2>7, <3>1, <3>3, <3>4 DEF Dispatch, TypeOK
  <2>8. CASE CallbackReturns
    BY <2>8 DEF CallbackReturns, TypeOK
  <2>9. CASE ClearEventFd
    BY <2>9 DEF ClearEventFd, TypeOK
  <2>10. CASE Pop
    <3> DEFINE r == Head(taskQ)
    <3>1. r \in Task /\ taskQ' \in Seq(Task)
      BY <2>10, HeadTailProperties DEF Pop, TypeOK
    <3>2. CASE r.op = "watch" /\ HandleWatch(r.fd, r.flag, r.cb)
               /\ UNCHANGED <<pc, running>>
      <4>1. r.fd \in Fds /\ r.flag \in Flags /\ r.cb \in Callbacks
        BY <3>1, <3>2 DEF Task
      <4>2. TableType'
        BY <2>0, <3>2, <4>1, HandleWatchType
      <4> QED BY <2>10, <3>1, <3>2, <4>2 DEF Pop, TypeOK, TableType
    <3>3. CASE r.op = "unwatch" /\ HandleUnwatch(r.fd, r.flag)
               /\ UNCHANGED <<pc, running>>
      <4>1. r.fd \in Fds /\ r.flag \in Flags
        BY <3>1, <3>3 DEF Task
      <4>2. TableType'
        BY <2>0, <3>3, <4>1, HandleUnwatchType
      <4> QED BY <2>10, <3>1, <3>3, <4>2 DEF Pop, TypeOK, TableType
    <3>4. CASE r.op = "unwatchAll" /\ HandleUnwatchAll
               /\ UNCHANGED <<pc, running>>
      <4>1. TableType'
        BY <2>0, <3>4, HandleUnwatchAllType
      <4> QED BY <2>10, <3>1, <3>4, <4>1 DEF Pop, TypeOK, TableType
    <3>5. CASE r.op = "post" /\ pc' = "job" /\ running' = r.job
               /\ UNCHANGED <<entries, epoll, fate>>
      <4>1. r.job \in Jobs
        BY <3>1, <3>5 DEF Task
      <4> QED BY <2>10, <3>1, <3>5, <4>1 DEF Pop, TypeOK
    <3> QED BY <2>10, <3>2, <3>3, <3>4, <3>5 DEF Pop
  <2>11. CASE JobReturns
    BY <2>11 DEF JobReturns, TypeOK
  <2>12. CASE QueueEmpty
    BY <2>12 DEF QueueEmpty, TypeOK
  <2>13. CASE LeaveLoop
    BY <2>13 DEF LeaveLoop, TypeOK
  <2>14. CASE UNCHANGED vars
    BY <2>14 DEF vars, TypeOK
  <2>15. Posters \subseteq Threads /\ LoopThread \in Threads
    BY DEF Threads
  <2> QED
    BY <2>1, <2>2, <2>3, <2>4, <2>5, <2>6, <2>7, <2>8, <2>9, <2>10, <2>11,
       <2>12, <2>13, <2>14, <2>15 DEF Next, LoopThreadRequest, Loop
<1> QED BY <1>1, <1>2, PTL DEF Spec

-----------------------------------------------------------------------------
(* The order "clear the eventfd, then empty the queue" loses no wake-up: a   *)
(* queued task always has a signalled eventfd, a thread about to signal it,  *)
(* or a loop that is still emptying the queue.  The invariant is inductive   *)
(* once the types are known.                                                 *)
THEOREM WakeupNotLost == Spec => []NoLostWakeup
<1>1. Init => NoLostWakeup
  BY DEF Init, NoLostWakeup
<1>2. TypeOK /\ NoLostWakeup /\ [Next]_vars => NoLostWakeup'
  <2> SUFFICES ASSUME TypeOK, NoLostWakeup, [Next]_vars PROVE NoLostWakeup'
    OBVIOUS
  <2>1. ASSUME NEW t \in Threads, PosterRequest(t) PROVE NoLostWakeup'
    <3>1. PICK r \in Request : Push(t, r) \/ Refused(t, r)
      BY <2>1 DEF PosterRequest
    <3>2. CASE Push(t, r)
      <4>1. r # None
        BY NoneIsNoTask DEF Request
      <4>2. call'[t] # None
        BY <3>2, <4>1 DEF Push, TypeOK
      <4> QED BY <4>2 DEF NoLostWakeup
    <3>3. CASE Refused(t, r)
      BY <3>3 DEF Refused, NoLostWakeup
    <3> QED BY <3>1, <3>2, <3>3
  <2>2. ASSUME NEW t \in Threads, Signal(t) PROVE NoLostWakeup'
    BY <2>2 DEF Signal, NoLostWakeup
  <2>3. ASSUME NEW r \in Request, Inline(r) PROVE NoLostWakeup'
    BY <2>3 DEF Inline, NoLostWakeup
  <2>4. CASE EnterLoop
    BY <2>4 DEF EnterLoop, NoLostWakeup
  <2>5. CASE EpollWait
    BY <2>5 DEF EpollWait, NoLostWakeup
  <2>6. CASE EpollFail
    BY <2>6 DEF EpollFail, NoLostWakeup
  <2>7. CASE Dispatch
    BY <2>7 DEF Dispatch, NoLostWakeup
  <2>8. CASE CallbackReturns
    BY <2>8 DEF CallbackReturns, NoLostWakeup
  <2>9. CASE ClearEventFd
    BY <2>9 DEF ClearEventFd, NoLostWakeup
  <2>10. CASE Pop
    BY <2>10 DEF Pop, NoLostWakeup
  <2>11. CASE JobReturns
    BY <2>11 DEF JobReturns, NoLostWakeup
  <2>12. CASE QueueEmpty
    BY <2>12 DEF QueueEmpty, NoLostWakeup
  <2>13. CASE LeaveLoop
    BY <2>13 DEF LeaveLoop, NoLostWakeup
  <2>14. CASE UNCHANGED vars
    BY <2>14 DEF vars, NoLostWakeup
  <2>15. Posters \subseteq Threads /\ LoopThread \in Threads
    BY DEF Threads
  <2> QED
    BY <2>1, <2>2, <2>3, <2>4, <2>5, <2>6, <2>7, <2>8, <2>9, <2>10, <2>11,
       <2>12, <2>13, <2>14, <2>15 DEF Next, LoopThreadRequest, Loop
<1> QED BY <1>1, <1>2, TypeCorrect, PTL DEF Spec

-----------------------------------------------------------------------------
(* Safety of the refinement: the wake-up protocol implements a bounded       *)
(* executor that takes the tasks in the order they were accepted.            *)
THEOREM ExecutorSafety == Spec => Executor!Spec
<1>1. Init => Executor!Init
  BY DEF Init, Executor!Init
<1>2. TypeOK /\ [Next]_vars => [Executor!Next]_<<taskQ, pc = "job">>
  <2> SUFFICES ASSUME TypeOK, [Next]_vars
               PROVE  Executor!Next \/ UNCHANGED <<taskQ, pc = "job">>
    OBVIOUS
  <2> USE DEF Executor!Next
  <2>1. ASSUME NEW t \in Threads, PosterRequest(t)
        PROVE  Executor!Next \/ UNCHANGED <<taskQ, pc = "job">>
    <3>1. PICK r \in Request : Push(t, r) \/ Refused(t, r)
      BY <2>1 DEF PosterRequest
    <3>2. CASE Push(t, r)
      <4>1. r \in Task
        BY DEF Request
      <4>2. Executor!Accept
        BY <3>2, <4>1 DEF Push, Executor!Accept
      <4> QED BY <4>2
    <3>3. CASE Refused(t, r)
      BY <3>3 DEF Refused
    <3> QED BY <3>1, <3>2, <3>3
  <2>2. ASSUME NEW t \in Threads, Signal(t) PROVE UNCHANGED <<taskQ, pc = "job">>
    BY <2>2 DEF Signal
  <2>3. ASSUME NEW r \in Request, Inline(r) PROVE UNCHANGED <<taskQ, pc = "job">>
    BY <2>3 DEF Inline
  <2>4. CASE Pop
    <3>1. pc' = "job" \/ pc' = "drain"
      BY <2>4 DEF Pop
    <3>2. Executor!Take
      BY <2>4, <3>1 DEF Pop, Executor!Take
    <3> QED BY <3>2
  <2>5. CASE JobReturns
    <3>1. Executor!Finish
      BY <2>5 DEF JobReturns, Executor!Finish
    <3> QED BY <3>1
  <2>6. CASE Dispatch
    <3>1. pc = "dispatch" /\ pc' \in {"dispatch", "wakeup", "callback"}
      BY <2>6 DEF Dispatch
    <3> QED BY <2>6, <3>1 DEF Dispatch
  <2>7. CASE EnterLoop \/ EpollWait \/ EpollFail \/ CallbackReturns
               \/ ClearEventFd \/ QueueEmpty \/ LeaveLoop
    BY <2>7 DEF EnterLoop, EpollWait, EpollFail, CallbackReturns, ClearEventFd,
       QueueEmpty, LeaveLoop
  <2>8. CASE UNCHANGED vars
    BY <2>8 DEF vars
  <2>9. Posters \subseteq Threads /\ LoopThread \in Threads
    BY DEF Threads
  <2> QED
    BY <2>1, <2>2, <2>3, <2>4, <2>5, <2>6, <2>7, <2>8, <2>9
    DEF Next, LoopThreadRequest, Loop
<1> QED BY <1>1, <1>2, TypeCorrect, PTL DEF Spec, Executor!Spec

-----------------------------------------------------------------------------
(* The invariant behind the two statements about callbacks.  A callback is   *)
(* move-only, so it is in one slot or in one queued watch() and never in     *)
(* both; the callback of a slot has not been removed.                        *)

InOneSlot ==
  \A f, h \in AllFds : \A g, k \in Flags :
    entries[f].cb[g] \in Callbacks /\ entries[f].cb[g] = entries[h].cb[k] =>
      f = h /\ g = k

QueuedIsInNoSlot ==
  \A i \in 1..Len(taskQ) : \A f \in AllFds : \A g \in Flags :
    taskQ[i].op = "watch" => entries[f].cb[g] # taskQ[i].cb

QueuedOnce ==
  \A i, j \in 1..Len(taskQ) :
    /\ taskQ[i].op = "watch" /\ taskQ[j].op = "watch"
    /\ taskQ[i].cb = taskQ[j].cb
    => i = j

SlotNotRemoved ==
  \A f \in AllFds : \A g \in Flags :
    entries[f].cb[g] \in Callbacks => fate[entries[f].cb[g]] # "removed"

OnlyWakeup == entries[EventFd] = EventFdEntry

Inv ==
  /\ InOneSlot
  /\ QueuedIsInNoSlot
  /\ QueuedOnce
  /\ OnlyWakeup
  /\ MaskIsInterest
  /\ ~UnwatchedAll => SlotNotRemoved

(* The callback a new slot starts with is the one the old slot had, or none. *)
LEMMA EmplacedSlot ==
  ASSUME NEW fd \in AllFds, NEW g \in Flags
  PROVE  Emplaced(fd).cb[g] \in {entries[fd].cb[g], None}
BY DEF Emplaced, EmptyEntry

(* After handleWatch() the slot it names has the new callback and every     *)
(* other slot has what it had, or nothing.                                  *)
LEMMA SlotsAfterWatch ==
  ASSUME TableType, NEW fd \in Fds, NEW flag \in Flags, NEW c \in Callbacks,
         HandleWatch(fd, flag, c)
  PROVE  /\ entries'[fd].cb[flag] = c
         /\ \A f \in AllFds : \A g \in Flags :
              f # fd \/ g # flag =>
                entries'[f].cb[g] \in {entries[f].cb[g], None}
<1> DEFINE e == Emplaced(fd)
           new == [mask |-> e.mask \cup {flag}, cb |-> [e.cb EXCEPT ![flag] = c]]
<1>1. fd \in AllFds
  BY DEF AllFds
<1>2. e.cb \in [Flags -> Callbacks \cup {Wakeup, None}]
  BY <1>1, EmplacedType DEF Entry
<1>3. entries' = [entries EXCEPT ![fd] = new]
  BY DEF HandleWatch
<1>4. entries'[fd] = new /\ \A f \in AllFds : f # fd => entries'[f] = entries[f]
  BY <1>1, <1>3 DEF TableType
<1>5. \A g \in Flags : new.cb[g] = IF g = flag THEN c ELSE e.cb[g]
  BY <1>2
<1>6. \A g \in Flags : e.cb[g] \in {entries[fd].cb[g], None}
  BY <1>1, EmplacedSlot
<1>7. entries'[fd].cb[flag] = c
  BY <1>4, <1>5
<1>8. ASSUME NEW f \in AllFds, NEW g \in Flags, f # fd \/ g # flag
      PROVE  entries'[f].cb[g] \in {entries[f].cb[g], None}
  <2>1. CASE f = fd
    BY <1>4, <1>5, <1>6, <1>8, <2>1
  <2>2. CASE f # fd
    BY <1>4, <2>2
  <2> QED BY <2>1, <2>2
<1> HIDE DEF e, new
<1> QED BY <1>7, <1>8

(* After handleUnwatch() the slot it names is empty and every other slot has *)
(* what it had, or nothing.                                                  *)
LEMMA SlotsAfterUnwatch ==
  ASSUME TableType, NEW fd \in Fds, NEW flag \in Flags, HandleUnwatch(fd, flag)
  PROVE  /\ entries'[fd].cb[flag] = None
         /\ \A f \in AllFds : \A g \in Flags :
              f # fd \/ g # flag =>
                entries'[f].cb[g] \in {entries[f].cb[g], None}
<1> DEFINE e == Emplaced(fd)
           new == [mask |-> e.mask \ {flag}, cb |-> [e.cb EXCEPT ![flag] = None]]
<1>1. fd \in AllFds
  BY DEF AllFds
<1>2. e.cb \in [Flags -> Callbacks \cup {Wakeup, None}]
  BY <1>1, EmplacedType DEF Entry
<1>3. entries' = [entries EXCEPT ![fd] = new]
  BY DEF HandleUnwatch
<1>4. entries'[fd] = new /\ \A f \in AllFds : f # fd => entries'[f] = entries[f]
  BY <1>1, <1>3 DEF TableType
<1>5. \A g \in Flags : new.cb[g] = IF g = flag THEN None ELSE e.cb[g]
  BY <1>2
<1>6. \A g \in Flags : e.cb[g] \in {entries[fd].cb[g], None}
  BY <1>1, EmplacedSlot
<1>7. entries'[fd].cb[flag] = None
  BY <1>4, <1>5
<1>8. ASSUME NEW f \in AllFds, NEW g \in Flags, f # fd \/ g # flag
      PROVE  entries'[f].cb[g] \in {entries[f].cb[g], None}
  <2>1. CASE f = fd
    BY <1>4, <1>5, <1>6, <1>8, <2>1
  <2>2. CASE f # fd
    BY <1>4, <2>2
  <2> QED BY <2>1, <2>2
<1> HIDE DEF e, new
<1> QED BY <1>7, <1>8

(* What holds of the table alone. *)
TableInv == InOneSlot /\ OnlyWakeup /\ MaskIsInterest /\ (~UnwatchedAll => SlotNotRemoved)

(* A descriptor that handleWatch() or handleUnwatch() names is not the       *)
(* eventfd, so neither changes the eventfd's slot or its interest set.       *)
LEMMA EventFdUntouched ==
  ASSUME TableType, OnlyWakeup, NEW fd \in Fds, NEW op, NEW mask, NEW e
  PROVE  /\ EpollCtl(op, fd, mask)[EventFd] = epoll[EventFd]
         /\ [entries EXCEPT ![fd] = e][EventFd] = EventFdEntry
<1>1. fd # EventFd /\ EventFd \in AllFds /\ fd \in AllFds
  BY EventWatcherAssumptions DEF AllFds
<1> QED BY <1>1 DEF EpollCtl, TableType, OnlyWakeup

(* The mask of a slot follows its callbacks through handleWatch(). *)
LEMMA WatchKeepsInterest ==
  ASSUME TableType, OnlyWakeup, MaskIsInterest,
         NEW fd \in Fds, NEW flag \in Flags, NEW c \in Callbacks,
         HandleWatch(fd, flag, c)
  PROVE  MaskIsInterest' /\ (UnwatchedAll' <=> UnwatchedAll)
<1> DEFINE e    == Emplaced(fd)
           op   == IF e.mask = {} THEN "ADD" ELSE "MOD"
           mask == e.mask \cup {flag}
           new  == [mask |-> mask, cb |-> [e.cb EXCEPT ![flag] = c]]
<1>1. fd \in AllFds /\ EventFd \in AllFds
  BY DEF AllFds
<1>2. e \in Entry
  BY <1>1, EmplacedType
<1>3. entries' = [entries EXCEPT ![fd] = new]
      /\ epoll' = IF e.cb[flag] = None THEN EpollCtl(op, fd, mask) ELSE epoll
  BY DEF HandleWatch
<1>4. UnwatchedAll' <=> UnwatchedAll
  BY <1>3, EventFdUntouched DEF UnwatchedAll
<1>5. ASSUME ~UnwatchedAll PROVE Interest'
  <2>1. Interest
    BY <1>5 DEF MaskIsInterest
  <2>2. e.mask = epoll[fd] /\ \A g \in Flags : g \in e.mask <=> e.cb[g] # None
    BY <1>1, <2>1 DEF Interest, Emplaced, EmptyEntry
  <2>3. c # None
    BY EventWatcherAssumptions
  <2>4. epoll' = [epoll EXCEPT ![fd] = mask]
    <3>1. CASE e.cb[flag] = None
      BY <1>1, <1>3, <2>2, <3>1 DEF EpollCtl
    <3>2. CASE e.cb[flag] # None
      <4>1. flag \in e.mask
        BY <2>2, <3>2
      <4>2. mask = epoll[fd]
        BY <2>2, <4>1
      <4> QED BY <1>1, <1>3, <3>2, <4>2 DEF TableType
    <3> QED BY <3>1, <3>2
  <2>5. \A g \in Flags : new.cb[g] = IF g = flag THEN c ELSE e.cb[g]
    BY <1>2 DEF Entry
  <2>6. new.mask = mask
    OBVIOUS
  <2>7. entries'[fd] = new /\ epoll'[fd] = mask
    BY <1>1, <1>3, <2>4 DEF TableType
  <2>8. \A f \in AllFds : f # fd => entries'[f] = entries[f] /\ epoll'[f] = epoll[f]
    BY <1>1, <1>3, <2>4 DEF TableType
  <2>9. \A g \in Flags : g \in mask <=> new.cb[g] # None
    BY <2>2, <2>3, <2>5
  <2>10. ASSUME NEW f \in AllFds
         PROVE  /\ entries'[f].mask = epoll'[f]
                /\ \A g \in Flags : g \in entries'[f].mask <=> entries'[f].cb[g] # None
    <3> HIDE DEF new, mask
    <3>1. CASE f = fd
      BY <2>6, <2>7, <2>9, <3>1
    <3>2. CASE f # fd
      BY <2>1, <2>8, <3>2 DEF Interest
    <3> QED BY <3>1, <3>2
  <2> QED BY <2>10 DEF Interest
<1> QED BY <1>4, <1>5 DEF MaskIsInterest

(* The mask of a slot follows its callbacks through handleUnwatch(). *)
LEMMA UnwatchKeepsInterest ==
  ASSUME TableType, OnlyWakeup, MaskIsInterest,
         NEW fd \in Fds, NEW flag \in Flags, HandleUnwatch(fd, flag)
  PROVE  MaskIsInterest' /\ (UnwatchedAll' <=> UnwatchedAll)
<1> DEFINE e    == Emplaced(fd)
           mask == e.mask \ {flag}
           op   == IF mask = {} THEN "DEL" ELSE "MOD"
           new  == [mask |-> mask, cb |-> [e.cb EXCEPT ![flag] = None]]
<1>1. fd \in AllFds /\ EventFd \in AllFds
  BY DEF AllFds
<1>2. e \in Entry
  BY <1>1, EmplacedType
<1>3. entries' = [entries EXCEPT ![fd] = new]
      /\ epoll' = IF e.cb[flag] # None THEN EpollCtl(op, fd, mask) ELSE epoll
  BY DEF HandleUnwatch
<1>4. UnwatchedAll' <=> UnwatchedAll
  BY <1>3, EventFdUntouched DEF UnwatchedAll
<1>5. ASSUME ~UnwatchedAll PROVE Interest'
  <2>1. Interest
    BY <1>5 DEF MaskIsInterest
  <2>2. e.mask = epoll[fd] /\ \A g \in Flags : g \in e.mask <=> e.cb[g] # None
    BY <1>1, <2>1 DEF Interest, Emplaced, EmptyEntry
  <2>4. epoll' = [epoll EXCEPT ![fd] = mask]
    <3>1. CASE e.cb[flag] # None
      <4>1. epoll[fd] # {}
        BY <2>2, <3>1
      <4>2. EpollCtl(op, fd, mask) = [epoll EXCEPT ![fd] = mask]
        BY <1>1, <4>1 DEF EpollCtl
      <4> QED BY <1>3, <3>1, <4>2
    <3>2. CASE e.cb[flag] = None
      <4>1. flag \notin e.mask
        BY <2>2, <3>2
      <4>2. mask = epoll[fd]
        BY <2>2, <4>1
      <4> QED BY <1>1, <1>3, <3>2, <4>2 DEF TableType
    <3> QED BY <3>1, <3>2
  <2>5. \A g \in Flags : new.cb[g] = IF g = flag THEN None ELSE e.cb[g]
    BY <1>2 DEF Entry
  <2>6. new.mask = mask
    OBVIOUS
  <2>7. entries'[fd] = new /\ epoll'[fd] = mask
    BY <1>1, <1>3, <2>4 DEF TableType
  <2>8. \A f \in AllFds : f # fd => entries'[f] = entries[f] /\ epoll'[f] = epoll[f]
    BY <1>1, <1>3, <2>4 DEF TableType
  <2>9. \A g \in Flags : g \in mask <=> new.cb[g] # None
    BY <2>2, <2>5
  <2>10. ASSUME NEW f \in AllFds
         PROVE  /\ entries'[f].mask = epoll'[f]
                /\ \A g \in Flags : g \in entries'[f].mask <=> entries'[f].cb[g] # None
    <3> HIDE DEF new, mask
    <3>1. CASE f = fd
      BY <2>6, <2>7, <2>9, <3>1
    <3>2. CASE f # fd
      BY <2>1, <2>8, <3>2 DEF Interest
    <3> QED BY <3>1, <3>2
  <2> QED BY <2>10 DEF Interest
<1> QED BY <1>4, <1>5 DEF MaskIsInterest

(* A callback that is in no slot may be put into one. *)
LEMMA WatchKeepsTable ==
  ASSUME TableType, TableInv,
         NEW fd \in Fds, NEW flag \in Flags, NEW c \in Callbacks,
         \A f \in AllFds : \A g \in Flags : entries[f].cb[g] # c,
         HandleWatch(fd, flag, c)
  PROVE  TableInv'
<1>0. /\ TableType' /\ c # None /\ None \notin Callbacks
      /\ fd \in AllFds /\ EventFd \in AllFds /\ fd # EventFd
  BY HandleWatchType, EventWatcherAssumptions DEF AllFds
<1>1. /\ entries'[fd].cb[flag] = c
      /\ \A f \in AllFds : \A g \in Flags :
           f # fd \/ g # flag => entries'[f].cb[g] \in {entries[f].cb[g], None}
  BY SlotsAfterWatch
<1>2. InOneSlot'
  <2> SUFFICES ASSUME NEW f \in AllFds, NEW h \in AllFds,
                      NEW g \in Flags, NEW k \in Flags,
                      entries'[f].cb[g] \in Callbacks,
                      entries'[f].cb[g] = entries'[h].cb[k]
               PROVE  f = h /\ g = k
    BY DEF InOneSlot
  <2>1. CASE f = fd /\ g = flag
    BY <1>0, <1>1, <2>1
  <2>2. CASE h = fd /\ k = flag
    BY <1>0, <1>1, <2>2
  <2>3. CASE (f # fd \/ g # flag) /\ (h # fd \/ k # flag)
    <3>1. entries[f].cb[g] = entries[h].cb[k] /\ entries[f].cb[g] \in Callbacks
      BY <1>0, <1>1, <2>3
    <3> QED BY <3>1 DEF InOneSlot, TableInv
  <2> QED BY <2>1, <2>2, <2>3
<1>3. OnlyWakeup'
  BY EventFdUntouched DEF HandleWatch, OnlyWakeup, TableInv
<1>4. MaskIsInterest' /\ (UnwatchedAll' <=> UnwatchedAll)
  BY WatchKeepsInterest DEF TableInv
<1>5. ASSUME ~UnwatchedAll PROVE SlotNotRemoved'
  <2> DEFINE old == Emplaced(fd).cb[flag]
             mid == Becomes(fate, old, "removed")
  <2>1. old \in {entries[fd].cb[flag], None}
    BY <1>0, EmplacedSlot
  <2>2. fate' = Becomes(mid, c, "live")
    BY DEF HandleWatch
  <2>3. fate' = [mid EXCEPT ![c] = "live"] /\ mid \in [Callbacks -> {"free", "live",
                   "unwatching", "unwatched", "removed"}]
    BY <2>2, BecomesType DEF Becomes, TableType
  <2>4. ASSUME NEW x \in Callbacks, x # old PROVE mid[x] = fate[x]
    BY <2>4 DEF Becomes, TableType
  <2> SUFFICES ASSUME NEW f \in AllFds, NEW g \in Flags,
                      entries'[f].cb[g] \in Callbacks
               PROVE  fate'[entries'[f].cb[g]] # "removed"
    BY DEF SlotNotRemoved
  <2> HIDE DEF old, mid
  <2>5. CASE f = fd /\ g = flag
    BY <1>1, <2>3, <2>5
  <2>6. CASE f # fd \/ g # flag
    <3>1. entries'[f].cb[g] = entries[f].cb[g]
      BY <1>0, <1>1, <2>6
    <3>2. entries[f].cb[g] # old
      BY <1>0, <2>1, <2>6, <3>1 DEF InOneSlot, TableInv
    <3>3. fate[entries[f].cb[g]] # "removed"
      BY <1>5, <3>1 DEF TableInv, SlotNotRemoved
    <3>4. mid[entries[f].cb[g]] # "removed"
      BY <2>4, <3>1, <3>2, <3>3
    <3> QED BY <2>3, <3>1, <3>4
  <2> QED BY <2>5, <2>6
<1> QED BY <1>2, <1>3, <1>4, <1>5 DEF TableInv

(* Taking a callback out of its slot. *)
LEMMA UnwatchKeepsTable ==
  ASSUME TableType, TableInv,
         NEW fd \in Fds, NEW flag \in Flags, HandleUnwatch(fd, flag)
  PROVE  TableInv'
<1>0. /\ TableType' /\ None \notin Callbacks
      /\ fd \in AllFds /\ EventFd \in AllFds /\ fd # EventFd
  BY HandleUnwatchType, EventWatcherAssumptions DEF AllFds
<1>1. /\ entries'[fd].cb[flag] = None
      /\ \A f \in AllFds : \A g \in Flags :
           f # fd \/ g # flag => entries'[f].cb[g] \in {entries[f].cb[g], None}
  BY SlotsAfterUnwatch
<1>2. InOneSlot'
  <2> SUFFICES ASSUME NEW f \in AllFds, NEW h \in AllFds,
                      NEW g \in Flags, NEW k \in Flags,
                      entries'[f].cb[g] \in Callbacks,
                      entries'[f].cb[g] = entries'[h].cb[k]
               PROVE  f = h /\ g = k
    BY DEF InOneSlot
  <2>1. (f # fd \/ g # flag) /\ (h # fd \/ k # flag)
    BY <1>0, <1>1
  <2>2. entries[f].cb[g] = entries[h].cb[k] /\ entries[f].cb[g] \in Callbacks
    BY <1>0, <1>1, <2>1
  <2> QED BY <2>2 DEF InOneSlot, TableInv
<1>3. OnlyWakeup'
  BY EventFdUntouched DEF HandleUnwatch, OnlyWakeup, TableInv
<1>4. MaskIsInterest' /\ (UnwatchedAll' <=> UnwatchedAll)
  BY UnwatchKeepsInterest DEF TableInv
<1>5. ASSUME ~UnwatchedAll PROVE SlotNotRemoved'
  <2> DEFINE old == Emplaced(fd).cb[flag]
  <2>1. old \in {entries[fd].cb[flag], None}
    BY <1>0, EmplacedSlot
  <2>2. fate' = Becomes(fate, old, "removed")
    BY DEF HandleUnwatch
  <2>4. ASSUME NEW x \in Callbacks, x # old PROVE fate'[x] = fate[x]
    BY <2>2, <2>4 DEF Becomes, TableType
  <2> SUFFICES ASSUME NEW f \in AllFds, NEW g \in Flags,
                      entries'[f].cb[g] \in Callbacks
               PROVE  fate'[entries'[f].cb[g]] # "removed"
    BY DEF SlotNotRemoved
  <2> HIDE DEF old
  <2>5. f # fd \/ g # flag
    BY <1>0, <1>1
  <2>6. entries'[f].cb[g] = entries[f].cb[g]
    BY <1>0, <1>1, <2>5
  <2>7. entries[f].cb[g] # old
    BY <1>0, <2>1, <2>5, <2>6 DEF InOneSlot, TableInv
  <2>8. fate[entries[f].cb[g]] # "removed"
    BY <1>5, <2>6 DEF TableInv, SlotNotRemoved
  <2> QED BY <2>4, <2>6, <2>7, <2>8
<1> QED BY <1>2, <1>3, <1>4, <1>5 DEF TableInv

(* unwatchAll() removes the eventfd from the interest set and touches no slot. *)
LEMMA UnwatchAllIsForGood ==
  ASSUME TableInv, HandleUnwatchAll
  PROVE  UnwatchedAll'
<1>1. EventFd \in AllFds
  BY DEF AllFds
<1>2. entries[EventFd].mask # {}
  BY DEF TableInv, OnlyWakeup, EventFdEntry
<1> QED BY <1>1, <1>2 DEF HandleUnwatchAll, UnwatchedAll

LEMMA UnwatchAllKeepsTable ==
  ASSUME TableType, TableInv, HandleUnwatchAll
  PROVE  TableInv'
<1>3. UnwatchedAll'
  BY UnwatchAllIsForGood
<1> QED BY <1>3 DEF TableInv, HandleUnwatchAll, InOneSlot, OnlyWakeup, MaskIsInterest

(* The callback of a queued watch() is user code. *)
LEMMA QueuedCallback ==
  ASSUME TypeOK, NEW i \in 1..Len(taskQ), taskQ[i].op = "watch"
  PROVE  taskQ[i].cb \in Callbacks /\ taskQ[i].cb # None
<1>1. taskQ[i] \in Task
  BY DEF TypeOK
<1> QED BY <1>1, EventWatcherAssumptions DEF Task

(* Taking the first task off keeps what is known of the others, as long as   *)
(* no slot gains a callback other than the one the first task carried.       *)
LEMMA TailKeepsQueue ==
  ASSUME TypeOK, taskQ # <<>>, taskQ' = Tail(taskQ), QueuedIsInNoSlot, QueuedOnce,
         \A f \in AllFds : \A g \in Flags :
           \/ entries'[f].cb[g] \in {entries[f].cb[g], None}
           \/ Head(taskQ).op = "watch" /\ entries'[f].cb[g] = Head(taskQ).cb
  PROVE  QueuedIsInNoSlot' /\ QueuedOnce'
<1>1. Len(taskQ) \in Nat /\ Len(taskQ) > 0 /\ Len(taskQ') = Len(taskQ) - 1
      /\ Head(taskQ) = taskQ[1]
      /\ \A i \in 1..Len(taskQ') : taskQ'[i] = taskQ[i + 1]
  BY HeadTailProperties, EmptySeq DEF TypeOK
<1>2. QueuedOnce'
  <2> SUFFICES ASSUME NEW i \in 1..Len(taskQ'), NEW j \in 1..Len(taskQ'),
                      taskQ'[i].op = "watch", taskQ'[j].op = "watch",
                      taskQ'[i].cb = taskQ'[j].cb
               PROVE  i = j
    BY DEF QueuedOnce
  <2>1. i + 1 \in 1..Len(taskQ) /\ j + 1 \in 1..Len(taskQ)
    BY <1>1
  <2>2. taskQ'[i] = taskQ[i + 1] /\ taskQ'[j] = taskQ[j + 1]
    BY <1>1
  <2>3. i + 1 = j + 1
    BY <2>1, <2>2 DEF QueuedOnce
  <2> QED BY <2>3
<1>3. QueuedIsInNoSlot'
  <2> SUFFICES ASSUME NEW i \in 1..Len(taskQ'), NEW f \in AllFds, NEW g \in Flags,
                      taskQ'[i].op = "watch"
               PROVE  entries'[f].cb[g] # taskQ'[i].cb
    BY DEF QueuedIsInNoSlot
  <2>1. i + 1 \in 1..Len(taskQ) /\ taskQ'[i] = taskQ[i + 1] /\ 1 \in 1..Len(taskQ)
    BY <1>1
  <2>2. taskQ[i + 1].cb # None /\ entries[f].cb[g] # taskQ[i + 1].cb
    BY <2>1, QueuedCallback DEF QueuedIsInNoSlot
  <2>3. taskQ[1].op = "watch" => taskQ[1].cb # taskQ[i + 1].cb
    BY <2>1 DEF QueuedOnce
  <2> QED BY <1>1, <2>1, <2>2, <2>3
<1> QED BY <1>2, <1>3

(* A request made inline leaves the queue alone; the callback a watch()      *)
(* brings is free, so it is not in the queue either.                         *)
LEMMA InlineKeepsQueue ==
  ASSUME TypeOK, UNCHANGED taskQ, QueuedIsInNoSlot, QueuedOnce, NEW r \in Request,
         \A f \in AllFds : \A g \in Flags :
           \/ entries'[f].cb[g] \in {entries[f].cb[g], None}
           \/ r.op = "watch" /\ entries'[f].cb[g] = r.cb
  PROVE  QueuedIsInNoSlot' /\ QueuedOnce'
<1>1. QueuedOnce'
  BY DEF QueuedOnce
<1>2. QueuedIsInNoSlot'
  <2> SUFFICES ASSUME NEW i \in 1..Len(taskQ), NEW f \in AllFds, NEW g \in Flags,
                      taskQ[i].op = "watch"
               PROVE  entries'[f].cb[g] # taskQ[i].cb
    BY DEF QueuedIsInNoSlot
  <2>1. taskQ[i].cb # None /\ entries[f].cb[g] # taskQ[i].cb
    BY QueuedCallback DEF QueuedIsInNoSlot
  <2>2. r.op = "watch" => taskQ[i].cb # r.cb
    BY DEF Request, Free
  <2> QED BY <2>1, <2>2
<1> QED BY <1>1, <1>2

(* A queued request joins at the end; the callback a watch() brings is free. *)
LEMMA PushKeepsQueue ==
  ASSUME TypeOK, QueuedIsInNoSlot, QueuedOnce, NEW r \in Request,
         taskQ' = Append(taskQ, r), UNCHANGED entries
  PROVE  QueuedIsInNoSlot' /\ QueuedOnce'
<1>1. r \in Task /\ (r.op = "watch" => Free(r.cb))
  BY DEF Request
<1>2. /\ Len(taskQ) \in Nat /\ Len(taskQ') = Len(taskQ) + 1
      /\ taskQ'[Len(taskQ) + 1] = r
      /\ \A i \in 1..Len(taskQ) : taskQ'[i] = taskQ[i]
  BY <1>1, AppendProperties DEF TypeOK
<1>3. \A i \in 1..Len(taskQ') : i \in 1..Len(taskQ) \/ i = Len(taskQ) + 1
  BY <1>2
<1>4. QueuedOnce'
  <2> SUFFICES ASSUME NEW i \in 1..Len(taskQ'), NEW j \in 1..Len(taskQ'),
                      taskQ'[i].op = "watch", taskQ'[j].op = "watch",
                      taskQ'[i].cb = taskQ'[j].cb
               PROVE  i = j
    BY DEF QueuedOnce
  <2>1. CASE i \in 1..Len(taskQ) /\ j \in 1..Len(taskQ)
    BY <1>2, <2>1 DEF QueuedOnce
  <2>2. CASE i \in 1..Len(taskQ) /\ j = Len(taskQ) + 1
    BY <1>1, <1>2, <2>2 DEF Free
  <2>3. CASE i = Len(taskQ) + 1 /\ j \in 1..Len(taskQ)
    BY <1>1, <1>2, <2>3 DEF Free
  <2> QED BY <1>3, <2>1, <2>2, <2>3
<1>5. QueuedIsInNoSlot'
  <2> SUFFICES ASSUME NEW i \in 1..Len(taskQ'), NEW f \in AllFds, NEW g \in Flags,
                      taskQ'[i].op = "watch"
               PROVE  entries[f].cb[g] # taskQ'[i].cb
    BY DEF QueuedIsInNoSlot
  <2>1. CASE i \in 1..Len(taskQ)
    BY <1>2, <2>1 DEF QueuedIsInNoSlot
  <2>2. CASE i = Len(taskQ) + 1
    BY <1>1, <1>2, <2>2 DEF Free
  <2> QED BY <1>3, <2>1, <2>2
<1> QED BY <1>4, <1>5

(* The history variable only ever loses or keeps "removed" outside the three *)
(* operations on the table.                                                  *)
LEMMA UnwatchingNotRemoved ==
  ASSUME TableType, SlotNotRemoved, NEW r \in Task,
         NEW w \in {"unwatching", "unwatched"},
         fate' = Unwatching(r, w), UNCHANGED entries
  PROVE  SlotNotRemoved'
BY DEF SlotNotRemoved, Unwatching, Becomes, TableType

(* Inv is inductive. *)
LEMMA InvInductive == TypeOK /\ TypeOK' /\ Inv /\ [Next]_vars => Inv'
<1> SUFFICES ASSUME TypeOK, TypeOK', Inv, [Next]_vars PROVE Inv'
  OBVIOUS
<1>0. TableType /\ TableInv
  BY DEF TypeOK, TableType, Inv, TableInv
<1> USE DEF Inv
<1>1. ASSUME NEW t \in Threads, PosterRequest(t) PROVE Inv'
  <2>1. PICK r \in Request : Push(t, r) \/ Refused(t, r)
    BY <1>1 DEF PosterRequest
  <2>2. r \in Task
    BY DEF Request
  <2>3. UNCHANGED <<entries, epoll>>
    BY <2>1 DEF Push, Refused
  <2>4. InOneSlot' /\ OnlyWakeup' /\ MaskIsInterest' /\ (UnwatchedAll' <=> UnwatchedAll)
    BY <2>3 DEF InOneSlot, OnlyWakeup, MaskIsInterest, Interest, UnwatchedAll
  <2>5. ~UnwatchedAll => SlotNotRemoved'
    BY <1>0, <2>1, <2>2, <2>3, UnwatchingNotRemoved DEF Push, Refused, SlotNotRemoved
  <2>6. CASE Push(t, r)
    <3>1. QueuedIsInNoSlot' /\ QueuedOnce'
      BY <2>3, <2>6, PushKeepsQueue DEF Push
    <3> QED BY <2>4, <2>5, <3>1
  <2>7. CASE Refused(t, r)
    <3>1. QueuedIsInNoSlot' /\ QueuedOnce'
      BY <2>3, <2>7 DEF Refused, QueuedIsInNoSlot, QueuedOnce
    <3> QED BY <2>4, <2>5, <3>1
  <2> QED BY <2>1, <2>6, <2>7
<1>2. ASSUME NEW t \in Threads, Signal(t) PROVE Inv'
  <2>1. UNCHANGED <<entries, epoll, taskQ>>
    BY <1>2 DEF Signal
  <2>2. \A c \in Callbacks : fate[c] # "removed" => fate'[c] # "removed"
    BY <1>2 DEF Signal
  <2> QED BY <2>1, <2>2 DEF InOneSlot, QueuedIsInNoSlot, QueuedOnce, OnlyWakeup,
             MaskIsInterest, Interest, UnwatchedAll, SlotNotRemoved
<1>3. ASSUME NEW r \in Request, Inline(r) PROVE Inv'
  <2>1. r \in Task /\ (r.op = "watch" => Free(r.cb)) /\ UNCHANGED taskQ
    BY <1>3 DEF Request, Inline
  <2>2. CASE r.op = "watch" /\ HandleWatch(r.fd, r.flag, r.cb)
    <3>1. r.fd \in Fds /\ r.flag \in Flags /\ r.cb \in Callbacks
      BY <2>1, <2>2 DEF Task
    <3>2. TableInv'
      BY <1>0, <2>1, <2>2, <3>1, WatchKeepsTable DEF Free
    <3>3. QueuedIsInNoSlot' /\ QueuedOnce'
      <4>1. \A f \in AllFds : \A g \in Flags :
               \/ entries'[f].cb[g] \in {entries[f].cb[g], None}
               \/ r.op = "watch" /\ entries'[f].cb[g] = r.cb
        BY <1>0, <2>2, <3>1, SlotsAfterWatch
      <4> QED BY <2>1, <4>1, InlineKeepsQueue
    <3> QED BY <3>2, <3>3 DEF TableInv
  <2>3. CASE r.op = "unwatch" /\ HandleUnwatch(r.fd, r.flag)
    <3>1. r.fd \in Fds /\ r.flag \in Flags
      BY <2>1, <2>3 DEF Task
    <3>2. TableInv'
      BY <1>0, <2>3, <3>1, UnwatchKeepsTable
    <3>3. QueuedIsInNoSlot' /\ QueuedOnce'
      <4>1. \A f \in AllFds : \A g \in Flags :
               entries'[f].cb[g] \in {entries[f].cb[g], None}
        BY <1>0, <2>3, <3>1, SlotsAfterUnwatch
      <4> QED BY <2>1, <4>1, InlineKeepsQueue
    <3> QED BY <3>2, <3>3 DEF TableInv
  <2>4. CASE r.op = "unwatchAll" /\ HandleUnwatchAll
    <3>1. TableInv'
      BY <1>0, <2>4, UnwatchAllKeepsTable
    <3>2. QueuedIsInNoSlot' /\ QueuedOnce'
      BY <2>1, <2>4 DEF HandleUnwatchAll, QueuedIsInNoSlot, QueuedOnce
    <3> QED BY <3>1, <3>2 DEF TableInv
  <2> QED BY <1>3, <2>2, <2>3, <2>4 DEF Inline
<1>4. CASE Pop
  <2> DEFINE r == Head(taskQ)
  <2>1. /\ r \in Task /\ taskQ # <<>> /\ taskQ' = Tail(taskQ)
        /\ 1 \in 1..Len(taskQ) /\ r = taskQ[1]
    BY <1>4, HeadTailProperties, EmptySeq DEF Pop, TypeOK
  <2>2. CASE r.op = "watch" /\ HandleWatch(r.fd, r.flag, r.cb)
    <3>1. r.fd \in Fds /\ r.flag \in Flags /\ r.cb \in Callbacks
      BY <2>1, <2>2 DEF Task
    <3>2. \A f \in AllFds : \A g \in Flags : entries[f].cb[g] # r.cb
      BY <2>1, <2>2 DEF QueuedIsInNoSlot
    <3>3. TableInv'
      BY <1>0, <2>2, <3>1, <3>2, WatchKeepsTable
    <3>4. QueuedIsInNoSlot' /\ QueuedOnce'
      <4>1. \A f \in AllFds : \A g \in Flags :
               \/ entries'[f].cb[g] \in {entries[f].cb[g], None}
               \/ r.op = "watch" /\ entries'[f].cb[g] = r.cb
        BY <1>0, <2>2, <3>1, SlotsAfterWatch
      <4> QED BY <2>1, <4>1, TailKeepsQueue
    <3> QED BY <3>3, <3>4 DEF TableInv
  <2>3. CASE r.op = "unwatch" /\ HandleUnwatch(r.fd, r.flag)
    <3>1. r.fd \in Fds /\ r.flag \in Flags
      BY <2>1, <2>3 DEF Task
    <3>2. TableInv'
      BY <1>0, <2>3, <3>1, UnwatchKeepsTable
    <3>3. QueuedIsInNoSlot' /\ QueuedOnce'
      <4>1. \A f \in AllFds : \A g \in Flags :
               entries'[f].cb[g] \in {entries[f].cb[g], None}
        BY <1>0, <2>3, <3>1, SlotsAfterUnwatch
      <4> QED BY <2>1, <4>1, TailKeepsQueue
    <3> QED BY <3>2, <3>3 DEF TableInv
  <2>4. CASE r.op = "unwatchAll" /\ HandleUnwatchAll
    <3>1. TableInv'
      BY <1>0, <2>4, UnwatchAllKeepsTable
    <3>2. QueuedIsInNoSlot' /\ QueuedOnce'
      BY <2>1, <2>4, TailKeepsQueue DEF HandleUnwatchAll
    <3> QED BY <3>1, <3>2 DEF TableInv
  <2>5. CASE r.op = "post" /\ UNCHANGED <<entries, epoll, fate>>
    <3>1. TableInv'
      BY <1>0, <2>5 DEF TableInv, InOneSlot, OnlyWakeup, MaskIsInterest, Interest,
         UnwatchedAll, SlotNotRemoved
    <3>2. QueuedIsInNoSlot' /\ QueuedOnce'
      BY <2>1, <2>5, TailKeepsQueue
    <3> QED BY <3>1, <3>2 DEF TableInv
  <2> QED BY <1>4, <2>2, <2>3, <2>4, <2>5 DEF Pop
<1>5. CASE UNCHANGED <<entries, epoll, taskQ, fate>>
  BY <1>5 DEF InOneSlot, QueuedIsInNoSlot, QueuedOnce, OnlyWakeup, MaskIsInterest,
     Interest, UnwatchedAll, SlotNotRemoved
<1>6. CASE EnterLoop \/ EpollWait \/ EpollFail \/ Dispatch \/ CallbackReturns
             \/ ClearEventFd \/ JobReturns \/ QueueEmpty \/ LeaveLoop
  <2>1. UNCHANGED <<entries, epoll, taskQ, fate>>
    BY <1>6 DEF EnterLoop, EpollWait, EpollFail, Dispatch, CallbackReturns,
       ClearEventFd, JobReturns, QueueEmpty, LeaveLoop
  <2> QED BY <1>5, <2>1
<1>7. CASE UNCHANGED vars
  BY <1>5, <1>7 DEF vars
<1>8. Posters \subseteq Threads /\ LoopThread \in Threads
  BY DEF Threads
<1> QED BY <1>1, <1>2, <1>3, <1>4, <1>6, <1>7, <1>8 DEF Next, LoopThreadRequest, Loop

(* Inv holds in every reachable state. *)
LEMMA InvHolds == Spec => []Inv
<1>1. Init => Inv
  <2> SUFFICES ASSUME Init PROVE Inv
    OBVIOUS
  <2>1. EventFd \in AllFds /\ None \notin Callbacks /\ Wakeup \notin Callbacks
    BY EventWatcherAssumptions DEF AllFds
  <2>2. \A f \in AllFds : \A g \in Flags : entries[f].cb[g] \in {Wakeup, None}
    BY DEF Init, EventFdEntry, EmptyEntry
  <2>3. Interest
    BY EventWatcherAssumptions DEF Init, Interest, EventFdEntry, EmptyEntry, Flags
  <2>4. OnlyWakeup
    BY <2>1 DEF Init, OnlyWakeup
  <2> QED BY <2>1, <2>2, <2>3, <2>4 DEF Init, Inv, InOneSlot, QueuedIsInNoSlot,
             QueuedOnce, MaskIsInterest, SlotNotRemoved
<1> QED BY <1>1, TypeCorrect, InvInductive, PTL DEF Spec

-----------------------------------------------------------------------------
(* event_watcher.hpp:41: however watch() and unwatch() alternate, the kernel *)
(* polls each descriptor for exactly the events that have a callback, until  *)
(* the first unwatchAll().                                                   *)
THEOREM InterestFollowsMask == Spec => []MaskIsInterest
BY InvHolds, PTL DEF Inv

(* transport/README.md:114, for the requests the loop has carried out: no    *)
(* callback is entered after it was taken away or replaced, even when its    *)
(* event was reported earlier in the same batch.                             *)
THEOREM InvokedWhileWatched == Spec => InvokedOnlyWhileWatched
<1>1. TypeOK /\ Inv /\ [Next]_vars =>
        [~UnwatchedAll /\ pc # "callback" /\ pc' = "callback" =>
           fate[running'] # "removed"]_vars
  <2> SUFFICES ASSUME TypeOK, Inv, Next, ~UnwatchedAll, pc # "callback",
                      pc' = "callback"
               PROVE  fate[running'] # "removed"
    BY DEF vars
  <2>1. Dispatch
    BY DEF Next, PosterRequest, LoopThreadRequest, Loop, Push, Refused, Signal,
       Inline, EnterLoop, EpollWait, EpollFail, CallbackReturns, ClearEventFd, Pop,
       JobReturns, QueueEmpty, LeaveLoop
  <2> DEFINE f == Head(todo).fd
             c == entries[f].cb[NextFlag]
  <2>2. f \in AllFds /\ NextFlag \in Flags
    <3>1. Head(todo) \in Event
      BY <2>1, HeadTailProperties DEF Dispatch, TypeOK
    <3> QED BY <3>1 DEF NextFlag, Flags, Event
  <2>3. NextFlag \in entries[f].mask /\ c # Wakeup /\ running' = c
    BY <2>1 DEF Dispatch
  <2>4. c # None
    BY <2>2, <2>3 DEF Inv, MaskIsInterest, Interest
  <2>5. c \in Callbacks
    BY <2>2, <2>3, <2>4, SlotCallback DEF TypeOK, TableType
  <2> QED BY <2>2, <2>3, <2>5 DEF Inv, SlotNotRemoved
<1> QED BY <1>1, TypeCorrect, InvHolds, PTL DEF Spec, InvokedOnlyWhileWatched
-----------------------------------------------------------------------------
(* What is late is queued.  The three operations on the table make nothing   *)
(* late, and carrying out an unwatch() ends the lateness of its own slot.   *)

LEMMA WatchMakesNothingLate ==
  ASSUME TableType, TableInv, NEW fd \in Fds, NEW flag \in Flags, NEW c \in Callbacks,
         \A f \in AllFds : \A g \in Flags : entries[f].cb[g] # c,
         HandleWatch(fd, flag, c),
         NEW f \in Fds, NEW g \in Flags, Late(f, g)'
  PROVE  Late(f, g)
<1>0. fd \in AllFds /\ f \in AllFds /\ None \notin Callbacks
  BY EventWatcherAssumptions DEF AllFds
<1>1. /\ entries'[fd].cb[flag] = c
      /\ \A h \in AllFds : \A k \in Flags :
           h # fd \/ k # flag => entries'[h].cb[k] \in {entries[h].cb[k], None}
  BY SlotsAfterWatch
<1> DEFINE old == Emplaced(fd).cb[flag]
           mid == Becomes(fate, old, "removed")
<1>2. old \in {entries[fd].cb[flag], None}
  BY <1>0, EmplacedSlot
<1>3. fate' = [mid EXCEPT ![c] = "live"] /\ mid \in [Callbacks -> {"free", "live",
                 "unwatching", "unwatched", "removed"}]
  BY BecomesType DEF HandleWatch, Becomes, TableType
<1>4. ASSUME NEW x \in Callbacks, x # old PROVE mid[x] = fate[x]
  BY <1>4 DEF Becomes, TableType
<1> HIDE DEF old, mid
<1>5. f # fd \/ g # flag
  BY <1>1, <1>3 DEF Late
<1>6. entries'[f].cb[g] = entries[f].cb[g] /\ entries[f].cb[g] \in Callbacks
  BY <1>0, <1>1, <1>5 DEF Late
<1>7. entries[f].cb[g] # old /\ entries[f].cb[g] # c
  BY <1>0, <1>2, <1>5, <1>6 DEF InOneSlot, TableInv
<1>8. fate'[entries[f].cb[g]] = fate[entries[f].cb[g]]
  BY <1>3, <1>4, <1>6, <1>7
<1> QED BY <1>6, <1>8 DEF Late

LEMMA UnwatchEndsLateness ==
  ASSUME TableType, TableInv, NEW fd \in Fds, NEW flag \in Flags,
         HandleUnwatch(fd, flag),
         NEW f \in Fds, NEW g \in Flags, Late(f, g)'
  PROVE  Late(f, g) /\ (f # fd \/ g # flag)
<1>0. fd \in AllFds /\ f \in AllFds /\ None \notin Callbacks
  BY EventWatcherAssumptions DEF AllFds
<1>1. /\ entries'[fd].cb[flag] = None
      /\ \A h \in AllFds : \A k \in Flags :
           h # fd \/ k # flag => entries'[h].cb[k] \in {entries[h].cb[k], None}
  BY SlotsAfterUnwatch
<1> DEFINE old == Emplaced(fd).cb[flag]
<1>2. old \in {entries[fd].cb[flag], None}
  BY <1>0, EmplacedSlot
<1>4. ASSUME NEW x \in Callbacks, x # old PROVE fate'[x] = fate[x]
  BY <1>4 DEF HandleUnwatch, Becomes, TableType
<1> HIDE DEF old
<1>5. f # fd \/ g # flag
  BY <1>0, <1>1 DEF Late
<1>6. entries'[f].cb[g] = entries[f].cb[g] /\ entries[f].cb[g] \in Callbacks
  BY <1>0, <1>1, <1>5 DEF Late
<1>7. entries[f].cb[g] # old
  BY <1>0, <1>2, <1>5, <1>6 DEF InOneSlot, TableInv
<1> QED BY <1>4, <1>5, <1>6, <1>7 DEF Late

(* A request that is not the first stays queued when the first is taken off. *)
LEMMA OthersStayQueued ==
  ASSUME TypeOK, taskQ # <<>>, taskQ' = Tail(taskQ), NEW r, Queued(r), Head(taskQ) # r
  PROVE  Queued(r)'
<1>1. Len(taskQ) \in Nat /\ Len(taskQ') = Len(taskQ) - 1
      /\ Head(taskQ) = taskQ[1]
      /\ \A i \in 1..Len(taskQ') : taskQ'[i] = taskQ[i + 1]
  BY HeadTailProperties, EmptySeq DEF TypeOK
<1>2. PICK i \in 1..Len(taskQ) : taskQ[i] = r
  BY DEF Queued
<1>3. i # 1 /\ i - 1 \in 1..Len(taskQ')
  BY <1>1, <1>2
<1>4. taskQ'[i - 1] = r
  BY <1>1, <1>2, <1>3
<1> QED BY <1>3, <1>4 DEF Queued

(* A request that is pushed joins those that are queued. *)
LEMMA PushedIsQueued ==
  ASSUME TypeOK, NEW r \in Task, taskQ' = Append(taskQ, r)
  PROVE  Queued(r)' /\ \A q : Queued(q) => Queued(q)'
<1>1. /\ Len(taskQ) \in Nat /\ Len(taskQ') = Len(taskQ) + 1
      /\ taskQ'[Len(taskQ) + 1] = r
      /\ \A i \in 1..Len(taskQ) : taskQ'[i] = taskQ[i]
  BY AppendProperties DEF TypeOK
<1>2. Len(taskQ) + 1 \in 1..Len(taskQ') /\ 1..Len(taskQ) \subseteq 1..Len(taskQ')
  BY <1>1
<1> QED BY <1>1, <1>2 DEF Queued

UnwatchOf(f, g) == [op |-> "unwatch", fd |-> f, flag |-> g]

LEMMA LateStaysQueued ==
  TypeOK /\ Inv /\ LateOnlyWhileQueued /\ [Next]_vars => LateOnlyWhileQueued'
<1> SUFFICES ASSUME TypeOK, Inv, LateOnlyWhileQueued, [Next]_vars, ~UnwatchedAll',
                    NEW f \in Fds, NEW g \in Flags, Late(f, g)'
             PROVE  Queued(UnwatchOf(f, g))'
  BY DEF LateOnlyWhileQueued, UnwatchOf
<1>0. TableType /\ TableInv
  BY DEF TypeOK, TableType, Inv, TableInv
<1>00. ~UnwatchedAll /\ Late(f, g) => Queued(UnwatchOf(f, g))
  BY DEF LateOnlyWhileQueued, UnwatchOf
<1>1. ASSUME NEW t \in Threads, PosterRequest(t) PROVE Queued(UnwatchOf(f, g))'
  <2>1. PICK r \in Request : Push(t, r) \/ Refused(t, r)
    BY <1>1 DEF PosterRequest
  <2>2. r \in Task /\ UNCHANGED <<entries, epoll>>
    BY <2>1 DEF Request, Push, Refused
  <2>3. ~UnwatchedAll
    BY <2>2 DEF UnwatchedAll
  <2>4. CASE Refused(t, r)
    BY <1>00, <2>3, <2>4 DEF Refused, Late, Queued
  <2>5. CASE Push(t, r) /\ r = UnwatchOf(f, g)
    BY <2>2, <2>5, PushedIsQueued DEF Push
  <2>6. CASE Push(t, r) /\ r # UnwatchOf(f, g)
    <3> DEFINE c == entries[f].cb[g]
    <3>1. c \in Callbacks /\ fate'[c] # "live" /\ fate' = Unwatching(r, "unwatching")
      BY <2>2, <2>6 DEF Push, Late
    <3>2. fate[c] # "live"
      <4>1. CASE r.op # "unwatch"
        BY <3>1, <4>1 DEF Unwatching
      <4>2. CASE r.op = "unwatch"
        <5>1. r.fd \in Fds /\ r.flag \in Flags /\ r = UnwatchOf(r.fd, r.flag)
          BY <2>2, <4>2 DEF Task, UnwatchOf
        <5>2. r.fd \in AllFds /\ f \in AllFds /\ (r.fd # f \/ r.flag # g)
          BY <2>6, <5>1 DEF AllFds
        <5>3. entries[r.fd].cb[r.flag] # c
          BY <3>1, <5>1, <5>2 DEF Inv, InOneSlot
        <5> QED BY <1>0, <3>1, <4>2, <5>3 DEF Unwatching, Becomes, TableType
      <4> QED BY <4>1, <4>2
    <3>3. Queued(UnwatchOf(f, g))
      BY <1>00, <2>3, <3>1, <3>2 DEF Late
    <3> QED BY <2>2, <2>6, <3>3, PushedIsQueued DEF Push
  <2> QED BY <2>1, <2>4, <2>5, <2>6
<1>2. ASSUME NEW t \in Threads, Signal(t) PROVE Queued(UnwatchOf(f, g))'
  <2>1. UNCHANGED <<entries, epoll, taskQ>>
    BY <1>2 DEF Signal
  <2>2. \A c \in Callbacks : fate[c] = "live" => fate'[c] = "live"
    BY <1>2 DEF Signal
  <2>3. ~UnwatchedAll /\ Late(f, g)
    BY <2>1, <2>2 DEF UnwatchedAll, Late
  <2> QED BY <1>00, <2>1, <2>3 DEF Queued
<1>3. ASSUME NEW r \in Request, Inline(r) PROVE Queued(UnwatchOf(f, g))'
  <2>1. r \in Task /\ (r.op = "watch" => Free(r.cb)) /\ UNCHANGED taskQ
    BY <1>3 DEF Request, Inline
  <2>2. CASE r.op = "watch" /\ HandleWatch(r.fd, r.flag, r.cb)
    <3>1. r.fd \in Fds /\ r.flag \in Flags /\ r.cb \in Callbacks
      BY <2>1, <2>2 DEF Task
    <3>2. ~UnwatchedAll /\ Late(f, g)
      BY <1>0, <2>1, <2>2, <3>1, WatchMakesNothingLate, WatchKeepsInterest
         DEF Free, TableInv
    <3> QED BY <1>00, <2>1, <3>2 DEF Queued
  <2>3. CASE r.op = "unwatch" /\ HandleUnwatch(r.fd, r.flag)
    <3>1. r.fd \in Fds /\ r.flag \in Flags
      BY <2>1, <2>3 DEF Task
    <3>2. ~UnwatchedAll /\ Late(f, g)
      BY <1>0, <2>3, <3>1, UnwatchEndsLateness, UnwatchKeepsInterest DEF TableInv
    <3> QED BY <1>00, <2>1, <3>2 DEF Queued
  <2>4. CASE r.op = "unwatchAll" /\ HandleUnwatchAll
    BY <1>0, <2>4, UnwatchAllIsForGood
  <2> QED BY <1>3, <2>2, <2>3, <2>4 DEF Inline
<1>4. CASE Pop
  <2> DEFINE r == Head(taskQ)
  <2>1. r \in Task /\ taskQ # <<>> /\ taskQ' = Tail(taskQ)
        /\ 1 \in 1..Len(taskQ) /\ r = taskQ[1]
    BY <1>4, HeadTailProperties, EmptySeq DEF Pop, TypeOK
  <2>2. CASE r.op = "watch" /\ HandleWatch(r.fd, r.flag, r.cb)
    <3>1. r.fd \in Fds /\ r.flag \in Flags /\ r.cb \in Callbacks
      BY <2>1, <2>2 DEF Task
    <3>2. \A h \in AllFds : \A k \in Flags : entries[h].cb[k] # r.cb
      BY <2>1, <2>2 DEF Inv, QueuedIsInNoSlot
    <3>3. ~UnwatchedAll /\ Late(f, g)
      BY <1>0, <2>2, <3>1, <3>2, WatchMakesNothingLate, WatchKeepsInterest DEF TableInv
    <3>4. r # UnwatchOf(f, g)
      BY <2>2 DEF UnwatchOf
    <3> QED BY <1>00, <2>1, <3>3, <3>4, OthersStayQueued
  <2>3. CASE r.op = "unwatch" /\ HandleUnwatch(r.fd, r.flag)
    <3>1. r.fd \in Fds /\ r.flag \in Flags
      BY <2>1, <2>3 DEF Task
    <3>2. Late(f, g) /\ (f # r.fd \/ g # r.flag)
      BY <1>0, <2>3, <3>1, UnwatchEndsLateness
    <3>3. ~UnwatchedAll
      BY <1>0, <2>3, <3>1, UnwatchKeepsInterest DEF TableInv
    <3>4. r # UnwatchOf(f, g)
      BY <3>2 DEF UnwatchOf
    <3> QED BY <1>00, <2>1, <3>2, <3>3, <3>4, OthersStayQueued
  <2>4. CASE r.op = "unwatchAll" /\ HandleUnwatchAll
    BY <1>0, <2>4, UnwatchAllIsForGood
  <2>5. CASE r.op = "post" /\ UNCHANGED <<entries, epoll, fate>>
    <3>1. ~UnwatchedAll /\ Late(f, g)
      BY <2>5 DEF UnwatchedAll, Late
    <3>2. r # UnwatchOf(f, g)
      BY <2>5 DEF UnwatchOf
    <3> QED BY <1>00, <2>1, <3>1, <3>2, OthersStayQueued
  <2> QED BY <1>4, <2>2, <2>3, <2>4, <2>5 DEF Pop
<1>5. CASE UNCHANGED <<entries, epoll, taskQ, fate>>
  BY <1>00, <1>5 DEF UnwatchedAll, Late, Queued
<1>6. CASE EnterLoop \/ EpollWait \/ EpollFail \/ Dispatch \/ CallbackReturns
             \/ ClearEventFd \/ JobReturns \/ QueueEmpty \/ LeaveLoop
  <2>1. UNCHANGED <<entries, epoll, taskQ, fate>>
    BY <1>6 DEF EnterLoop, EpollWait, EpollFail, Dispatch, CallbackReturns,
       ClearEventFd, JobReturns, QueueEmpty, LeaveLoop
  <2> QED BY <1>5, <2>1
<1>7. CASE UNCHANGED vars
  BY <1>5, <1>7 DEF vars
<1>8. Posters \subseteq Threads /\ LoopThread \in Threads
  BY DEF Threads
<1> QED BY <1>1, <1>2, <1>3, <1>4, <1>6, <1>7, <1>8 DEF Next, LoopThreadRequest, Loop

(* transport/README.md:114: a callback is entered after its unwatch() only   *)
(* while that request is still in the ring, for any number of threads.      *)
THEOREM LateIsQueued == Spec => []LateOnlyWhileQueued
<1>1. Init => LateOnlyWhileQueued
  <2> SUFFICES ASSUME Init, NEW f \in Fds, NEW g \in Flags PROVE ~Late(f, g)
    BY DEF LateOnlyWhileQueued
  <2>1. f \in AllFds /\ f # EventFd /\ None \notin Callbacks
    BY EventWatcherAssumptions DEF AllFds
  <2>2. entries[f].cb[g] = None
    BY <2>1 DEF Init, EmptyEntry
  <2> QED BY <2>1, <2>2 DEF Late
<1> QED BY <1>1, LateStaysQueued, TypeCorrect, InvHolds, PTL DEF Spec
=============================================================================
