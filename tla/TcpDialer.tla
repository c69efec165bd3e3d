------------------------------ MODULE TcpDialer ------------------------------
(***************************************************************************)
(* TcpDialer, one object per client: dial() on the client's own thread and   *)
(* onWritable() on the loop's.  dial() is called once, and the object is     *)
(* destroyed only after it has answered, when the destructor does nothing.  *)
(***************************************************************************)
EXTENDS LoopThread

VARIABLES
  conn,      \* the kernel's side: "none", "connecting", "established",
             \* "refused" or "reset"
  writable,  \* the clients whose socket the watcher reports writable
  dialed     \* "new", "dialing", or the callback called: "connected", "failed"

dialerVars == <<conn, writable, dialed>>

DialerInit ==
  /\ conn = [c \in Clients |-> "none"]
  /\ writable = {}
  /\ dialed = [c \in Clients |-> "new"]

(* There is no address, no socket, or connect() fails at once. *)
DialFails(c) ==
  /\ dialed[c] = "new"
  /\ dialed' = [dialed EXCEPT ![c] = "failed"]
  /\ UNCHANGED <<conn, writable, loopVars>>

(* Fault: nobody waits for the connection. *)
DialForgetsWatch(c) ==
  /\ dialed[c] = "new"
  /\ conn' = [conn EXCEPT ![c] = "connecting"]
  /\ dialed' = [dialed EXCEPT ![c] = "dialing"]
  /\ UNCHANGED <<writable, loopVars>>

(* connect() is in progress: WRONLY tells when it is over. *)
DialInProgress(c) ==
  /\ dialed[c] = "new"
  /\ conn' = [conn EXCEPT ![c] = "connecting"]
  /\ Posted("watch", c)
  /\ dialed' = [dialed EXCEPT ![c] = "dialing"]
  /\ UNCHANGED <<writable, stack>>

(* connect() succeeds at once, and onWritable() runs on the client's thread; *)
(* its unwatch() of what was never watched goes to the loop.                *)
DialAtOnce(c) ==
  /\ dialed[c] = "new"
  /\ conn' = [conn EXCEPT ![c] = "established"]
  /\ Posted("unwatch", c)
  /\ dialed' = [dialed EXCEPT ![c] = "connected"]
  /\ UNCHANGED <<writable, stack>>

RunDialWatch(c) ==
  /\ Taken("watch", c)
  /\ writable' = writable \union {c}
  /\ UNCHANGED <<stack, conn, dialed>>

RunDialUnwatch(c) ==
  /\ Taken("unwatch", c)
  /\ writable' = writable \ {c}
  /\ UNCHANGED <<stack, conn, dialed>>

(* onWritable(): the error of the socket tells which callback to call. *)
DialReady(c) ==
  /\ Idle
  /\ c \in writable
  /\ conn[c] # "connecting"
  /\ writable' = writable \ {c}
  /\ dialed' = [dialed EXCEPT ![c] = IF conn[c] = "established" THEN "connected"
                                     ELSE "failed"]
  /\ UNCHANGED <<conn, loopVars>>

DialerTypeOK ==
  /\ conn \in [Clients ->
                 {"none", "connecting", "established", "refused", "reset"}]
  /\ writable \subseteq Clients
  /\ dialed \in [Clients -> {"new", "dialing", "connected", "failed"}]
=============================================================================
