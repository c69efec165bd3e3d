----------------------------- MODULE TcpListener -----------------------------
(***************************************************************************)
(* TcpListener: listenAndWait() on the server's thread, shutdown() from any *)
(* thread or callback, and onReadable() on the loop's thread.               *)
(*                                                                         *)
(* The clients' side of a connection belongs to the module that extends     *)
(* this one, which says what becomes of the connections that wait.          *)
(***************************************************************************)
EXTENDS LoopThread

CONSTANTS
  MaxAccepts,    \* 256, the most accept() calls of one onReadable()
  MaxShutdowns,  \* bound: the calls of shutdown()
  AnyTime        \* whether shutdown() may be called before on_started_

ASSUME ListenerAssumptions ==
  /\ MaxAccepts \in Nat \ {0}
  /\ MaxShutdowns \in Nat
  /\ AnyTime \in BOOLEAN

VARIABLES
  server,     \* how far listenAndWait() is
  sock,       \* listen_fd_: "none", "open" or "listening"
  armed,      \* the watcher reports sock readable
  latch,      \* the count of shutdown_latch_
  accepts,    \* the accept() calls of this onReadable()
  backlog,    \* the kernel's queue of established connections
  accepted,   \* history: the connections handed to on_accepted_
  dropped,    \* history: those it got a null transport for
  calls,      \* the shutdown() calls made
  started,    \* history: on_started_ was called
  down,       \* history: on_shutdown_ was called
  acceptedLate  \* history: on_accepted_ was called after on_shutdown_

serverVars == <<server, sock, armed, latch>>
clientVars == <<accepts, backlog, accepted, dropped, acceptedLate>>
historyVars == <<calls, started, down>>
listenerVars == <<serverVars, loopVars, clientVars, historyVars>>

ListenerInit ==
  /\ LoopInit
  /\ server = "new" /\ sock = "none" /\ armed = FALSE /\ latch = 1
  /\ accepts = 0 /\ backlog = <<>> /\ accepted = {} /\ dropped = {}
  /\ calls = 0 /\ started = FALSE /\ down = FALSE /\ acceptedLate = FALSE

MayShutdown == calls < MaxShutdowns /\ (AnyTime \/ started')

(* A user callback returns, or calls shutdown(), which runs inline. *)
CallbackIn(rest) ==
  \/ stack' = rest /\ UNCHANGED calls
  \/ MayShutdown /\ stack' = Append(rest, "close") /\ calls' = calls + 1

-----------------------------------------------------------------------------
(* listenAndWait(), on the server's thread.                                *)

(* The address is wrong or there is no socket to be had. *)
ListenFails ==
  /\ server = "new"
  /\ Posted("fail", Listener)
  /\ server' = "waiting"
  /\ UNCHANGED <<stack, sock, armed, latch, clientVars, historyVars>>

ListenOpens ==
  /\ server = "new"
  /\ sock' = "open"
  /\ server' = "bind"
  /\ UNCHANGED <<armed, latch, loopVars, clientVars, historyVars>>

ListenBinds ==
  /\ server = "bind"
  /\ sock = "open"
  /\ sock' = "listening"
  /\ server' = "start"
  /\ UNCHANGED <<armed, latch, loopVars, clientVars, historyVars>>

(* bind() and listen() may fail, and must when a shutdown() has closed the   *)
(* socket in between.                                                       *)
ListenBindFails ==
  /\ server = "bind"
  /\ sock' = "none"
  /\ Posted("fail", Listener)
  /\ server' = "waiting"
  /\ UNCHANGED <<stack, armed, latch, clientVars, historyVars>>

PostStarted ==
  /\ server = "start"
  /\ Posted("start", Listener)
  /\ server' = "arm"
  /\ UNCHANGED <<stack, sock, armed, latch, clientVars, historyVars>>

PostWatch ==
  /\ server = "arm"
  /\ Posted("watch", Listener)
  /\ server' = "waiting"
  /\ UNCHANGED <<stack, sock, armed, latch, clientVars, historyVars>>

(* The wait of libstdc++ ends when it finds the count at zero. *)
ListenReturns ==
  /\ server = "waiting"
  /\ latch = 0
  /\ server' = "returned"
  /\ UNCHANGED <<sock, armed, latch, loopVars, clientVars, historyVars>>

ServerThread ==
  \/ ListenFails \/ ListenOpens \/ ListenBinds \/ ListenBindFails
  \/ PostStarted \/ PostWatch \/ ListenReturns

-----------------------------------------------------------------------------
(* shutdown()                                                              *)

(* ... from another thread, or between two handlers. *)
Shutdown ==
  /\ calls < MaxShutdowns
  /\ AnyTime \/ started
  /\ Posted("close", Listener)
  /\ calls' = calls + 1
  /\ UNCHANGED <<stack, serverVars, clientVars, started, down>>

(* Fault: the socket is left open. *)
CloseKeepsSocket ==
  /\ LoopIs("close")
  /\ armed' = FALSE
  /\ down' = TRUE
  /\ stack' = Append(Outer, "countdown")
  /\ UNCHANGED <<tasks, server, sock, latch, clientVars, calls, started>>

(* Fault: it is closed and still watched. *)
CloseKeepsWatch ==
  /\ LoopIs("close")
  /\ sock' = "none"
  /\ backlog' = <<>>
  /\ down' = TRUE
  /\ stack' = Append(Outer, "countdown")
  /\ UNCHANGED <<tasks, server, armed, latch, accepts, accepted, dropped,
                 acceptedLate, calls, started>>

(* The socket is closed, its waiting connections with it; then on_shutdown_. *)
Close ==
  /\ LoopIs("close")
  /\ sock' = "none"
  /\ armed' = FALSE
  /\ backlog' = <<>>
  /\ down' = TRUE
  /\ stack' = Append(Outer, "countdown")
  /\ UNCHANGED <<tasks, server, latch, accepts, accepted, dropped,
                 acceptedLate, calls, started>>

(* Fault: the latch is left as it was. *)
CountDownForgets ==
  /\ LoopIs("countdown")
  /\ stack' = Outer
  /\ UNCHANGED <<tasks, serverVars, clientVars, historyVars>>

CountDown ==
  /\ LoopIs("countdown")
  /\ latch' = latch - 1
  /\ stack' = Outer
  /\ UNCHANGED <<tasks, server, sock, armed, clientVars, historyVars>>

-----------------------------------------------------------------------------
(* Tasks of the listener on the loop's thread.                             *)

RunStarted ==
  /\ Taken("start", Listener)
  /\ started' = TRUE
  /\ CallbackIn(<<>>)
  /\ UNCHANGED <<serverVars, clientVars, down>>

(* watch() of -1, when a shutdown() came first, arms nothing. *)
RunWatch ==
  /\ Taken("watch", Listener)
  /\ armed' = (sock = "listening")
  /\ UNCHANGED <<stack, server, sock, latch, clientVars, historyVars>>

RunShutdown ==
  /\ Taken("close", Listener)
  /\ stack' = <<"close">>
  /\ UNCHANGED <<serverVars, clientVars, historyVars>>

(* Fault: on_failure_ and on_shutdown_ are left out. *)
RunFailureCountsDown ==
  /\ Taken("fail", Listener)
  /\ stack' = <<"countdown">>
  /\ UNCHANGED <<serverVars, clientVars, historyVars>>

(* on_failure_, then on_shutdown_, then the latch.  What on_failure_ calls   *)
(* inline comes before the rest.                                            *)
RunFailure ==
  /\ Taken("fail", Listener)
  /\ UNCHANGED started
  /\ CallbackIn(<<"failed">>)
  /\ UNCHANGED <<serverVars, clientVars, down>>

FailureDone ==
  /\ LoopIs("failed")
  /\ down' = TRUE
  /\ stack' = Append(Outer, "countdown")
  /\ UNCHANGED <<tasks, serverVars, clientVars, calls, started>>

-----------------------------------------------------------------------------
(* onReadable()                                                            *)

OnReadable ==
  /\ Idle
  /\ armed
  /\ sock = "listening"
  /\ backlog # <<>>
  /\ stack' = <<"accept">>
  /\ accepts' = 0
  /\ UNCHANGED <<tasks, serverVars, backlog, accepted, dropped, acceptedLate,
                 historyVars>>

(* Fault: one call more. *)
AcceptingOnceMore == LoopIs("accept") /\ accepts <= MaxAccepts

Accepting == LoopIs("accept") /\ accepts < MaxAccepts

(* on_accepted_ gets the transport, or null when the socket could not be    *)
(* made non-blocking and was closed.                                        *)
Accept ==
  /\ Accepting
  /\ sock = "listening"
  /\ backlog # <<>>
  /\ \/ accepted' = accepted \union {Head(backlog)} /\ UNCHANGED dropped
     \/ dropped' = dropped \union {Head(backlog)} /\ UNCHANGED accepted
  /\ backlog' = Tail(backlog)
  /\ accepts' = accepts + 1
  /\ acceptedLate' = (acceptedLate \/ down)
  /\ UNCHANGED started
  /\ CallbackIn(stack)
  /\ UNCHANGED <<tasks, serverVars, down>>

(* EINTR uses up one of the calls. *)
AcceptInterrupted ==
  /\ Accepting
  /\ accepts' = accepts + 1
  /\ UNCHANGED <<loopVars, serverVars, backlog, accepted, dropped,
                 acceptedLate, historyVars>>

(* Fault: the listener is shut down as well. *)
AcceptFailsCloses ==
  /\ Accepting
  /\ stack' = Append(Outer, "close")
  /\ UNCHANGED <<tasks, serverVars, clientVars, historyVars>>

(* on_error_, for want of a connection or of resources, or on_failure_, for  *)
(* any other error, one of them EBADF after a shutdown() in a callback.      *)
AcceptFails ==
  /\ Accepting
  /\ UNCHANGED started
  /\ CallbackIn(Outer)
  /\ UNCHANGED <<tasks, serverVars, clientVars, down>>

(* Fault: what is left is not looked at again. *)
AcceptsDoneDisarms ==
  /\ LoopIs("accept")
  /\ accepts = MaxAccepts
  /\ stack' = Outer
  /\ armed' = FALSE
  /\ UNCHANGED <<tasks, server, sock, latch, clientVars, historyVars>>

AcceptsDone ==
  /\ LoopIs("accept")
  /\ accepts = MaxAccepts
  /\ stack' = Outer
  /\ UNCHANGED <<tasks, serverVars, clientVars, historyVars>>

ListenerTask == RunStarted \/ RunWatch \/ RunShutdown \/ RunFailure
InHandler ==
  \/ FailureDone \/ Close \/ CountDown
  \/ Accept \/ AcceptInterrupted \/ AcceptFails \/ AcceptsDone

ListenerTypeOK ==
  /\ stack \in Seq({"accept", "close", "countdown", "failed"})
  /\ server \in {"new", "bind", "start", "arm", "waiting", "returned"}
  /\ sock \in {"none", "open", "listening"}
  /\ armed \in BOOLEAN /\ started \in BOOLEAN /\ down \in BOOLEAN
  /\ acceptedLate \in BOOLEAN
  /\ latch \in (-MaxShutdowns)..1
  /\ accepts \in 0..MaxAccepts
  /\ backlog \in Seq(Clients)
  /\ accepted \in SUBSET Clients /\ dropped \in SUBSET Clients
  /\ calls \in 0..MaxShutdowns
=============================================================================
