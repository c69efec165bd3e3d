---------------------------- MODULE SocketWatcher ----------------------------
(***************************************************************************)
(* The event watcher of tasks/socket, as the transport on its loop thread   *)
(* sees it: watch() and unwatch() keep a table of callbacks and tell epoll  *)
(* what to poll each descriptor for.  A watcher is a value: an operator      *)
(* gives the watcher that a call leaves behind, for each descriptor of S.   *)
(***************************************************************************)
(* RDONLY and WRONLY, with EPOLLIN and EPOLLOUT. *)
Flags == {"in", "out"}

(* callbacks are the keys of callbacks_.  interest is the kernel's; there is *)
(* none for a descriptor that epoll does not know.                          *)
EmptyWatcher(Fds) == [callbacks |-> {}, interest |-> [k \in Fds |-> {}]]

IsWatcher(w, Fds) ==
  w \in [callbacks : SUBSET (Fds \X Flags), interest : [Fds -> SUBSET Flags]]

Watched(w, k, flag) == <<k, flag>> \in w.callbacks
Polled(w, k, flag)  == flag \in w.interest[k]

(* What else the descriptor is watched for. *)
Others(w, k, flag) == {f \in Flags \ {flag} : Watched(w, k, f)}

(* EPOLL_CTL_MOD of a descriptor epoll knows, EPOLL_CTL_ADD of one it does   *)
(* not: the other way around epoll_ctl() fails, which is logged.            *)
EpollCtl(known, mod, events) == IF mod = (known # {}) THEN events ELSE known

(* watch().  For one that is watched only the callback is replaced. *)
Watch(w, S, flag) ==
  [callbacks |-> w.callbacks \cup S \X {flag},
   interest  |-> [k \in DOMAIN w.interest |->
     IF k \in S /\ ~Watched(w, k, flag)
     THEN EpollCtl(w.interest[k], Others(w, k, flag) # {},
                   {flag} \cup Others(w, k, flag))
     ELSE w.interest[k]]]

(* Fault: the descriptor is deleted although it is watched for more. *)
UnwatchDeletes(w, S, flag) ==
  [callbacks |-> w.callbacks \ (S \X {flag}),
   interest  |-> [k \in DOMAIN w.interest |->
     IF k \in S THEN {} ELSE w.interest[k]]]

(* unwatch(): EPOLL_CTL_MOD to what remains, or EPOLL_CTL_DEL. *)
Unwatch(w, S, flag) ==
  [callbacks |-> w.callbacks \ (S \X {flag}),
   interest  |-> [k \in DOMAIN w.interest |->
     IF k \notin S THEN w.interest[k]
     ELSE IF Others(w, k, flag) = {} THEN {}
     ELSE EpollCtl(w.interest[k], TRUE, Others(w, k, flag))]]

(* ::close() of the descriptors takes them out of epoll. *)
Closed(w, S) ==
  [w EXCEPT !.interest = [k \in DOMAIN @ |-> IF k \in S THEN {} ELSE @[k]]]
=============================================================================
