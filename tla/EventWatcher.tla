---------------------------- MODULE EventWatcher ----------------------------
(***************************************************************************)
(* The event loop of tasks/transport: a table of watched descriptors, a    *)
(* bounded queue of tasks that any thread may fill, and one thread that    *)
(* calls loop() over and over.  A thread that is inside loop() runs its    *)
(* requests at once; every other thread queues them and signals an eventfd *)
(* the loop polls like any other descriptor.                               *)
(*                                                                         *)
(* Readiness of user descriptors is the environment's choice: epoll_wait   *)
(* may report any watched descriptor.  Readiness of the eventfd is state.  *)
(***************************************************************************)
EXTENDS Naturals, Sequences

CONSTANTS
  Fds,         \* descriptors user code watches
  Callbacks,   \* callbacks user code passes to watch()
  Jobs,        \* closures user code passes to runInEventWatcherLoop()
  Posters,     \* threads other than the one that calls loop()
  Ops,         \* the requests user code makes
  QLimit,      \* kQLimit
  MaxEvents,   \* kMaxEvents
  Asserts,     \* FALSE in the Release build, where assert() is compiled out
  EventFd,     \* the wake-up descriptor
  Wakeup,      \* the callback the constructor registers for it
  LoopThread,  \* the thread that calls loop()
  None

ASSUME EventWatcherAssumptions ==
  /\ Ops \subseteq {"watch", "unwatch", "unwatchAll", "post"}
  /\ QLimit \in Nat \ {0}
  /\ MaxEvents \in Nat \ {0}
  /\ Asserts \in BOOLEAN
  /\ EventFd \notin Fds
  /\ LoopThread \notin Posters
  /\ {Wakeup, None} \cap (Callbacks \cup Jobs) = {}
  /\ Wakeup # None

VARIABLES
  entries,     \* fd_map_: the callbacks and the event mask of each descriptor
  epoll,       \* the kernel's interest set; {} is "not registered"
  signalled,   \* the eventfd's counter is not zero
  taskQ,       \* task_q_
  call,        \* per thread: the task it has pushed and not yet signalled
  pc,          \* where the loop thread is
  todo,        \* the events of this loop() that are still to be handled
  running,     \* the user code the loop thread is inside
  curr,        \* whether the loop thread's curr_ is this watcher
  prev,        \* the value of curr_ that loop() found, its local `ew`
  fate         \* history: what has become of each callback

vars == <<entries, epoll, signalled, taskQ, call, pc, todo, running,
          curr, prev, fate>>

Flags   == {"RDONLY", "WRONLY"}
AllFds  == Fds \cup {EventFd}
Threads == Posters \cup {LoopThread}

Entry == [mask: SUBSET Flags, cb: [Flags -> Callbacks \cup {Wakeup, None}]]
Event == [fd: AllFds, flags: (SUBSET Flags) \ {{}}]
Task  == [op: {"watch"}, fd: Fds, flag: Flags, cb: Callbacks]
           \cup [op: {"unwatch"}, fd: Fds, flag: Flags]
           \cup [op: {"unwatchAll"}]
           \cup [op: {"post"}, job: Jobs]

ASSUME NoneIsNoTask == None \notin Task

(* A slot nobody watches. *)
EmptyEntry == [mask |-> {}, cb |-> [g \in Flags |-> None]]

(* The eventfd's slot: the constructor fills it and nobody touches it again. *)
EventFdEntry == [mask |-> {"RDONLY"},
                 cb |-> [g \in Flags |-> IF g = "RDONLY" THEN Wakeup ELSE None]]

(* The constructor has registered the eventfd; the loop has not been called. *)
Init ==
  /\ entries = [f \in AllFds |-> IF f = EventFd THEN EventFdEntry ELSE EmptyEntry]
  /\ epoll = [f \in AllFds |-> IF f = EventFd THEN {"RDONLY"} ELSE {}]
  /\ signalled = FALSE
  /\ taskQ = <<>>
  /\ call = [t \in Threads |-> None]
  /\ pc = "out"
  /\ todo = <<>>
  /\ running = None
  /\ curr = FALSE
  /\ prev = FALSE
  /\ fate = [c \in Callbacks |-> "free"]

-----------------------------------------------------------------------------
(* The table of watched descriptors.                                       *)

(* FdWatchMap::try_emplace: a slot with an empty mask is reset. *)
Emplaced(fd) == IF entries[fd].mask = {} THEN EmptyEntry ELSE entries[fd]

(* epoll_ctl: ADD fails on a registered descriptor, MOD and DEL on one that *)
(* is not; the code logs a failure and goes on.                             *)
EpollCtl(op, fd, mask) ==
  CASE op = "ADD" /\ epoll[fd] = {} -> [epoll EXCEPT ![fd] = mask]
    [] op = "MOD" /\ epoll[fd] # {} -> [epoll EXCEPT ![fd] = mask]
    [] op = "DEL"                   -> [epoll EXCEPT ![fd] = {}]
    [] OTHER                        -> epoll

(* History: callback c now has fate w, if it is a user's callback at all. *)
Becomes(f, c, w) == IF c \in Callbacks THEN [f EXCEPT ![c] = w] ELSE f

HandleWatch(fd, flag, c) ==
  LET e    == Emplaced(fd)
      op   == IF e.mask = {} THEN "ADD" ELSE "MOD"
      mask == e.mask \cup {flag}
  IN  /\ entries' = [entries EXCEPT ![fd] =
                       [mask |-> mask, cb |-> [e.cb EXCEPT ![flag] = c]]]
      /\ epoll' = IF e.cb[flag] = None THEN EpollCtl(op, fd, mask) ELSE epoll
      /\ fate' = Becomes(Becomes(fate, e.cb[flag], "removed"), c, "live")

(* Fault: DEL even when the other flag is still wanted. *)
HandleUnwatchAlwaysDel(fd, flag) ==
  LET e == Emplaced(fd)
  IN  /\ entries' = [entries EXCEPT ![fd] =
                       [mask |-> e.mask \ {flag},
                        cb |-> [e.cb EXCEPT ![flag] = None]]]
      /\ epoll' = IF e.cb[flag] # None THEN EpollCtl("DEL", fd, {}) ELSE epoll
      /\ fate' = Becomes(fate, e.cb[flag], "removed")

(* Fault: the kernel is told and the slot is left as it was. *)
HandleUnwatchKeepsSlot(fd, flag) ==
  LET e    == Emplaced(fd)
      mask == e.mask \ {flag}
  IN  /\ epoll' = EpollCtl(IF mask = {} THEN "DEL" ELSE "MOD", fd, mask)
      /\ fate' = Becomes(fate, e.cb[flag], "removed")
      /\ UNCHANGED entries

HandleUnwatch(fd, flag) ==
  LET e    == Emplaced(fd)
      mask == e.mask \ {flag}
      op   == IF mask = {} THEN "DEL" ELSE "MOD"
  IN  /\ entries' = [entries EXCEPT ![fd] =
                       [mask |-> mask, cb |-> [e.cb EXCEPT ![flag] = None]]]
      /\ epoll' = IF e.cb[flag] # None THEN EpollCtl(op, fd, mask) ELSE epoll
      /\ fate' = Becomes(fate, e.cb[flag], "removed")

(* The closure unwatchAll() submits: every descriptor with a non-empty mask *)
(* leaves the interest set, the eventfd among them, and no slot is cleared. *)
HandleUnwatchAll ==
  /\ epoll' = [f \in AllFds |-> IF entries[f].mask # {} THEN {} ELSE epoll[f]]
  /\ fate' = [c \in Callbacks |->
                IF \E f \in Fds, g \in Flags : entries[f].cb[g] = c
                THEN "removed" ELSE fate[c]]
  /\ UNCHANGED entries

-----------------------------------------------------------------------------
(* Requests.  watch(), unwatch(), unwatchAll() and a user's own closure all *)
(* go through runInEventWatcherLoop().                                      *)

(* A callback is move-only: it is nowhere else when it is passed to watch(). *)
Free(c) ==
  /\ \A f \in AllFds, g \in Flags : entries[f].cb[g] # c
  /\ \A i \in 1..Len(taskQ) : taskQ[i].op = "watch" => taskQ[i].cb # c
  /\ running # c

FreeJob(j) ==
  /\ \A i \in 1..Len(taskQ) : taskQ[i].op = "post" => taskQ[i].job # j
  /\ running # j

Request ==
  {r \in Task : /\ r.op \in Ops
                /\ r.op = "watch" => Free(r.cb)
                /\ r.op = "post" => FreeJob(r.job)}

(* History: the callback an unwatch() is about to be done with. *)
Unwatching(r, w) ==
  IF r.op = "unwatch" THEN Becomes(fate, entries[r.fd].cb[r.flag], w) ELSE fate

(* A thread whose curr_ is not this watcher pushes the task ...  *)
Push(t, r) ==
  /\ call[t] = None
  /\ Len(taskQ) < QLimit
  /\ taskQ' = Append(taskQ, r)
  /\ call' = [call EXCEPT ![t] = r]
  /\ fate' = Unwatching(r, "unwatching")
  /\ UNCHANGED <<entries, epoll, signalled, pc, todo, running, curr, prev>>

(* ... and when the ring is full loses it and returns, ... *)
Refused(t, r) ==
  /\ call[t] = None
  /\ Len(taskQ) = QLimit
  /\ UNCHANGED <<entries, epoll, signalled, taskQ, call, pc, todo, running,
                 curr, prev, fate>>

(* ... and otherwise signals the eventfd and returns. *)
Signal(t) ==
  /\ call[t] # None
  /\ signalled' = TRUE
  /\ call' = [call EXCEPT ![t] = None]
  /\ fate' = [c \in Callbacks |->
                IF /\ call[t].op = "unwatch" /\ fate[c] = "unwatching"
                   /\ entries[call[t].fd].cb[call[t].flag] = c
                THEN "unwatched" ELSE fate[c]]
  /\ UNCHANGED <<entries, epoll, taskQ, pc, todo, running, curr, prev>>

(* The loop thread is in user code: inside a callback or a job, or between  *)
(* two calls of loop().                                                     *)
InUserCode == pc \in {"callback", "job", "out"}

(* The shortcut: with curr_ set the request runs at once.  A job run inline *)
(* is more user code of the same thread and needs no step of its own.       *)
Inline(r) ==
  /\ InUserCode
  /\ curr
  /\ call[LoopThread] = None
  /\ \/ r.op = "watch" /\ HandleWatch(r.fd, r.flag, r.cb)
     \/ r.op = "unwatch" /\ HandleUnwatch(r.fd, r.flag)
     \/ r.op = "unwatchAll" /\ HandleUnwatchAll
  /\ UNCHANGED <<signalled, taskQ, call, pc, todo, running, curr, prev>>

PosterRequest(t) == \E r \in Request : Push(t, r) \/ Refused(t, r)

LoopThreadRequest ==
  \/ \E r \in Request : Inline(r)
  \/ InUserCode /\ ~curr /\ PosterRequest(LoopThread)

-----------------------------------------------------------------------------
(* loop().                                                                 *)

EnterLoop ==
  /\ pc = "out"
  /\ call[LoopThread] = None
  /\ pc' = "poll"
  /\ prev' = curr
  /\ curr' = TRUE
  /\ UNCHANGED <<entries, epoll, signalled, taskQ, call, todo, running, fate>>

WakeupReady == signalled /\ "RDONLY" \in epoll[EventFd]

(* What epoll_wait may say of a descriptor: some of the events it is        *)
(* registered for, or an error, which the code hands to reader and writer.  *)
Reportable ==
  {e \in Event : IF e.fd = EventFd
                 THEN WakeupReady /\ e.flags = {"RDONLY"}
                 ELSE /\ epoll[e.fd] # {}
                      /\ e.flags \subseteq epoll[e.fd] \/ e.flags = Flags}

Batch(b) ==
  /\ \A i, j \in 1..Len(b) : b[i].fd = b[j].fd => i = j
  /\ WakeupReady /\ Len(b) < MaxEvents => \E i \in 1..Len(b) : b[i].fd = EventFd

(* epoll_wait returns events, or none at the timeout. *)
EpollWait ==
  /\ pc = "poll"
  /\ \E n \in 0..MaxEvents : \E b \in [1..n -> Reportable] :
        Batch(b) /\ todo' = b
  /\ pc' = "dispatch"
  /\ UNCHANGED <<entries, epoll, signalled, taskQ, call, running, curr, prev,
                 fate>>

(* epoll_wait fails, or is interrupted kMaxEpollRetries times: loop()       *)
(* returns from the middle and does not put curr_ back.                     *)
EpollFail ==
  /\ pc = "poll"
  /\ pc' = "out"
  /\ UNCHANGED <<entries, epoll, signalled, taskQ, call, todo, running, curr,
                 prev, fate>>

(* The reader's side of an event is handled before the writer's. *)
NextFlag == IF "RDONLY" \in Head(todo).flags THEN "RDONLY" ELSE "WRONLY"

(* Fault: an event whose flags are all handled is kept. *)
HandledKeepsEvent ==
  <<[Head(todo) EXCEPT !.flags = @ \ {NextFlag}]>> \o Tail(todo)

Handled ==
  LET rest == Head(todo).flags \ {NextFlag}
  IN  IF rest = {} THEN Tail(todo)
      ELSE <<[Head(todo) EXCEPT !.flags = rest]>> \o Tail(todo)

(* One side of one event: its callback runs if the slot still wants it. *)
Dispatch ==
  /\ pc = "dispatch"
  /\ todo # <<>>
  /\ todo' = Handled
  /\ LET e == entries[Head(todo).fd]
         c == e.cb[NextFlag]
     IN  IF NextFlag \notin e.mask
         THEN UNCHANGED <<pc, running>>
         ELSE IF c = Wakeup
              THEN pc' = "wakeup" /\ UNCHANGED running
              ELSE pc' = "callback" /\ running' = c
  /\ UNCHANGED <<entries, epoll, signalled, taskQ, call, curr, prev, fate>>

CallbackReturns ==
  /\ pc = "callback"
  /\ pc' = "dispatch"
  /\ running' = None
  /\ UNCHANGED <<entries, epoll, signalled, taskQ, call, todo, curr, prev,
                 fate>>

(* The wake-up callback clears the eventfd first and then empties the queue. *)
ClearEventFd ==
  /\ pc = "wakeup"
  /\ signalled' = FALSE
  /\ pc' = "drain"
  /\ UNCHANGED <<entries, epoll, taskQ, call, todo, running, curr, prev, fate>>

Pop ==
  /\ pc = "drain"
  /\ taskQ # <<>>
  /\ taskQ' = Tail(taskQ)
  /\ LET r == Head(taskQ)
     IN  \/ /\ r.op = "watch" /\ HandleWatch(r.fd, r.flag, r.cb)
            /\ UNCHANGED <<pc, running>>
         \/ /\ r.op = "unwatch" /\ HandleUnwatch(r.fd, r.flag)
            /\ UNCHANGED <<pc, running>>
         \/ /\ r.op = "unwatchAll" /\ HandleUnwatchAll
            /\ UNCHANGED <<pc, running>>
         \/ /\ r.op = "post" /\ pc' = "job" /\ running' = r.job
            /\ UNCHANGED <<entries, epoll, fate>>
  /\ UNCHANGED <<signalled, call, todo, curr, prev>>

JobReturns ==
  /\ pc = "job"
  /\ pc' = "drain"
  /\ running' = None
  /\ UNCHANGED <<entries, epoll, signalled, taskQ, call, todo, curr, prev,
                 fate>>

(* Fault: the queue is left with tasks in it, as `if` in place of `while`     *)
(* would.                                                                   *)
QueueLeft ==
  /\ pc = "drain"
  /\ pc' = "dispatch"
  /\ UNCHANGED <<entries, epoll, signalled, taskQ, call, todo, running, curr,
                 prev, fate>>

QueueEmpty ==
  /\ pc = "drain"
  /\ taskQ = <<>>
  /\ pc' = "dispatch"
  /\ UNCHANGED <<entries, epoll, signalled, taskQ, call, todo, running, curr,
                 prev, fate>>

(* loop() puts curr_ back inside an assert(). *)
LeaveLoop ==
  /\ pc = "dispatch"
  /\ todo = <<>>
  /\ pc' = "out"
  /\ curr' = IF Asserts THEN prev ELSE curr
  /\ UNCHANGED <<entries, epoll, signalled, taskQ, call, todo, running, prev,
                 fate>>

-----------------------------------------------------------------------------
Loop ==
  \/ EnterLoop \/ EpollWait \/ EpollFail \/ Dispatch \/ CallbackReturns
  \/ ClearEventFd \/ Pop \/ JobReturns \/ QueueEmpty \/ LeaveLoop

Next ==
  \/ \E t \in Posters : PosterRequest(t)
  \/ \E t \in Threads : Signal(t)
  \/ LoopThreadRequest
  \/ Loop

Spec == Init /\ [][Next]_vars

(* The loop thread calls loop() again and again and its user code returns.  *)
(* A thread that pushed goes on to signal.  epoll_wait rotates its list of  *)
(* ready descriptors, so a ready eventfd is reported again and again.       *)
Fairness ==
  /\ WF_vars(Loop)
  /\ \A t \in Threads : WF_vars(Signal(t))
  /\ SF_vars(EpollWait /\ \E i \in 1..Len(todo') : todo'[i].fd = EventFd)

FairSpec == Spec /\ Fairness

-----------------------------------------------------------------------------
TypeOK ==
  /\ entries \in [AllFds -> Entry]
  /\ epoll \in [AllFds -> SUBSET Flags]
  /\ signalled \in BOOLEAN
  /\ taskQ \in Seq(Task)
  /\ call \in [Threads -> Task \cup {None}]
  /\ pc \in {"out", "poll", "dispatch", "callback", "wakeup", "drain", "job"}
  /\ todo \in Seq(Event)
  /\ running \in Callbacks \cup Jobs \cup {None}
  /\ curr \in BOOLEAN /\ prev \in BOOLEAN
  /\ fate \in [Callbacks -> {"free", "live", "unwatching", "unwatched",
                             "removed"}]

(* event_watcher.cpp:111 "so that eventfd is guaranteed to be active event  *)
(* in case of race between loop and submitter thread": whenever a task is   *)
(* queued, the eventfd is signalled, or a thread is about to signal it, or  *)
(* the loop is still emptying the queue.                                    *)
NoLostWakeup ==
  taskQ # <<>> => \/ signalled
                  \/ \E t \in Threads : call[t] # None
                  \/ pc \in {"wakeup", "drain", "job"}

(* unwatchAll() takes the eventfd out of the interest set, for good. *)
UnwatchedAll == epoll[EventFd] = {}

Interest ==
  \A f \in AllFds :
    /\ entries[f].mask = epoll[f]
    /\ \A g \in Flags : g \in entries[f].mask <=> entries[f].cb[g] # None

(* event_watcher.hpp:41 "equivalent to epoll events mask": until the first   *)
(* unwatchAll() the kernel polls each descriptor for exactly the events that *)
(* have a callback, however watch() and unwatch() of its flags alternate.    *)
MaskIsInterest == ~UnwatchedAll => Interest

(* transport/README.md:114 "must not be invoked after unwatch* returns", for *)
(* the requests the loop has carried out: until the first unwatchAll(), user *)
(* code is entered only through a callback that no unwatch has taken away    *)
(* and no later watch has replaced, even when its event was reported before. *)
InvokedOnlyWhileWatched ==
  [][~UnwatchedAll /\ pc # "callback" /\ pc' = "callback" =>
       fate[running'] # "removed"]_vars

(* The slot's callback is there although unwatch() was called for it. *)
Late(f, g) ==
  entries[f].cb[g] \in Callbacks /\ fate[entries[f].cb[g]] # "live"

Queued(r) == \E i \in 1..Len(taskQ) : taskQ[i] = r

(* transport/README.md:114, for the requests the loop has not carried out:   *)
(* until the first unwatchAll(), a callback that unwatch() was called for is *)
(* in its slot only while that unwatch() is queued, or the full ring lost   *)
(* it.  It may be entered late, but not after the loop came to the request. *)
LateOnlyWhileQueued ==
  ~UnwatchedAll =>
    \A f \in Fds, g \in Flags :
      Late(f, g) => Queued([op |-> "unwatch", fd |-> f, flag |-> g])

(* runInEventWatcherLoop() as its users see it: the eventfd, the interest    *)
(* set and the two steps of a submission implement a bounded executor that   *)
(* takes every accepted task in order and in the end.                        *)
Executor == INSTANCE TaskExecutor WITH
  Tasks <- Task, Capacity <- QLimit, queue <- taskQ, busy <- pc = "job"

ImplementsExecutor == Executor!FairSpec
=============================================================================
