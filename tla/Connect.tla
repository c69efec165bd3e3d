------------------------------- MODULE Connect -------------------------------
(***************************************************************************)
(* A listener and the dialers that connect to it, on one EventWatcher, and   *)
(* the kernel between them.  Three kinds of thread take part: the one in    *)
(* listenAndWait(), the clients' that call dial() and shutdown(), and the   *)
(* loop's.                                                                  *)
(***************************************************************************)
EXTENDS TcpListener, TcpDialer

VARIABLE late  \* history: the clients whose dial() followed on_shutdown_

vars == <<listenerVars, dialerVars, late>>

Waiting(c) == \E i \in 1..Len(backlog) : backlog[i] = c

Init == ListenerInit /\ DialerInit /\ late = {}

-----------------------------------------------------------------------------
(* The kernel.                                                             *)

Establish(c) ==
  /\ conn[c] = "connecting"
  /\ sock = "listening"
  /\ conn' = [conn EXCEPT ![c] = "established"]
  /\ backlog' = Append(backlog, c)
  /\ UNCHANGED <<serverVars, loopVars, historyVars, accepts, accepted, dropped,
                 acceptedLate, writable, dialed, late>>

(* Nobody listens, or the network does not let them through. *)
Refuse(c) ==
  /\ conn[c] = "connecting"
  /\ conn' = [conn EXCEPT ![c] = "refused"]
  /\ UNCHANGED <<listenerVars, writable, dialed, late>>

Break(c) ==
  /\ conn[c] = "established"
  /\ conn' = [conn EXCEPT ![c] = "reset"]
  /\ UNCHANGED <<listenerVars, writable, dialed, late>>

(* Connections nobody has accepted end with the listening socket. *)
ListenerStep(A) ==
  /\ A
  /\ conn' = [c \in Clients |->
                IF Waiting(c) /\ sock' # sock THEN "reset" ELSE conn[c]]
  /\ UNCHANGED <<writable, dialed, late>>

-----------------------------------------------------------------------------
(* The clients' threads.                                                   *)

Dialed(c) == late' = IF down THEN late \union {c} ELSE late

DialOnly ==
  UNCHANGED <<serverVars, clientVars, historyVars>>

Dial(c) ==
  \/ (DialFails(c) \/ DialInProgress(c)) /\ DialOnly /\ Dialed(c)
  \/ /\ sock = "listening"
     /\ DialAtOnce(c)
     /\ backlog' = Append(backlog, c)
     /\ Dialed(c)
     /\ UNCHANGED <<serverVars, historyVars, accepts, accepted, dropped,
                    acceptedLate>>

-----------------------------------------------------------------------------
DialerTask(c) ==
  (RunDialWatch(c) \/ RunDialUnwatch(c)) /\ DialOnly /\ UNCHANGED late
DialerEvent(c) == DialReady(c) /\ DialOnly /\ UNCHANGED late

RunTask == ListenerStep(ListenerTask) \/ \E c \in Clients : DialerTask(c)

Next ==
  \/ ListenerStep(ServerThread) \/ ListenerStep(Shutdown)
  \/ RunTask
  \/ ListenerStep(InHandler) \/ ListenerStep(OnReadable)
  \/ \E c \in Clients :
       Establish(c) \/ Refuse(c) \/ Break(c) \/ Dial(c) \/ DialerEvent(c)

Spec == Init /\ [][Next]_vars

(* Every thread goes on.  The loop's comes back to each descriptor that is   *)
(* ready, its eventfd too, for epoll_wait() turns its ready list round; a   *)
(* SYN is answered or times out; accept() is not short of descriptors for   *)
(* ever.                                                                    *)
Fairness ==
  /\ WF_vars(ListenerStep(ServerThread))
  /\ SF_vars(RunTask)
  /\ WF_vars(ListenerStep(InHandler))
  /\ SF_vars(ListenerStep(OnReadable))
  /\ SF_vars(ListenerStep(Accept))
  /\ \A c \in Clients :
       WF_vars(Establish(c) \/ Refuse(c)) /\ SF_vars(DialerEvent(c))

FairSpec == Spec /\ Fairness

-----------------------------------------------------------------------------
(* Every variable keeps its type. *)
TypeOK ==
  /\ ListenerTypeOK
  /\ DialerTypeOK
  /\ tasks \in Seq([op : {"start", "watch", "unwatch", "close", "fail"},
                    of : Clients \union {Listener}])
  /\ late \subseteq Clients

(* onAccepted will not be called after onShutdown, whoever called shutdown() *)
(* and wherever the accept loop of onReadable() then was.                   *)
NoAcceptAfterShutdown == ~acceptedLate

(* No client that dials after onShutdown connects: the listening socket and  *)
(* the connections in its backlog are gone by then.                         *)
NoConnectAfterShutdown == \A c \in late : dialed[c] # "connected"

(* listenAndWait() does not return before on_shutdown_ was called, whether   *)
(* it failed or was shut down.                                              *)
ReturnsAfterShutdown == server = "returned" => down

(* The watcher never holds a callback for a listening socket that is closed: *)
(* its number may already be another connection's.                          *)
NoStaleWatch == armed => sock = "listening"

(* listenAndWait() has failed: on_started_ was not called and will not be.   *)
NeverStarts ==
  /\ server \in {"waiting", "returned"}
  /\ ~started
  /\ \A i \in 1..Len(tasks) : tasks[i] # Task("start", Listener)

(* tcp_listener.cpp:142 and the counts of the failures, as at :80: the latch *)
(* goes below zero, where the wait of libstdc++ would not see it, only when  *)
(* shutdown() was called twice, or once on a listener that failed to start.  *)
(* One shutdown() of a listener that starts counts to zero, whenever it      *)
(* comes and whatever accept() meets.                                       *)
LatchStopsAtZero == latch < 0 => calls > 1 \/ (calls = 1 /\ NeverStarts)

(* A dial() that waits for its connection calls on_connected_ or on_failure_ *)
(* in the end.                                                              *)
DialIsAnswered ==
  \A c \in Clients :
    dialed[c] = "dialing" ~> dialed[c] \in {"connected", "failed"}

(* A connection in the backlog is accepted in the end, or closed with the    *)
(* listener, although onReadable() stops after MaxAccepts calls.            *)
ClientIsServed == \A c \in Clients : Waiting(c) ~> ~Waiting(c)

(* Once shutdown() is called, after on_started_, listenAndWait() returns,    *)
(* wherever its own thread and the loop's were.                             *)
ShutdownEndsListening == calls > 0 ~> server = "returned"
=============================================================================
