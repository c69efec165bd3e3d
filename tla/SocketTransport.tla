--------------------------- MODULE SocketTransport ---------------------------
(***************************************************************************)
(* rpc::TcpTransport of tasks/socket and the kernel's side of the sockets   *)
(* it owns.  The transport keeps no data: it recv()s and send()s when       *)
(* Socket asks, remembers the connection epoll reported last (hot), and     *)
(* arms and disarms the read and write events of each connection.           *)
(*                                                                         *)
(* All of it runs on the event watcher's thread, where watch(), unwatch()   *)
(* and replay_() take effect at once.  Every operator below is one call.    *)
(* A connection stands for its descriptor and for its peer's name; a name   *)
(* (address and ephemeral port) is not used again.                          *)
(***************************************************************************)
EXTENDS Naturals, FiniteSets, SocketWatcher

CONSTANTS
  Conns,      \* connections that may come into being
  ReadSize,   \* kMinSize, the most one recv() takes, in units of data
  MaxData,    \* the most data that waits in a connection, in the same units
  Empty,      \* the empty peer name
  None

ASSUME TransportAssumptions ==
  /\ ReadSize \in Nat \ {0}
  /\ MaxData \in Nat \ {0}
  /\ {Empty, None} \cap Conns = {}

VARIABLES
  sock,        \* the kernel's view of each connection
  listening,   \* listen_fd_ is open and watched
  client,      \* client_fd_
  connected,   \* connected_
  readArmed,   \* the connections with read_armed_
  writeArmed,  \* the connections with write_armed_
  watcher,     \* the event watcher: its callbacks and what epoll polls for
  hot,         \* hot_read_peer_
  reported     \* connections epoll_wait has reported for input, to be handled

transportVars ==
  <<sock, listening, client, connected, readArmed, writeArmed, watcher, hot, reported>>

(* A peer is away until it connects or is connected to; after the transport *)
(* has closed the descriptor it is gone.                                    *)
Link   == {"away", "waiting", "connecting", "open", "gone"}
Socks  == [link: Link, data: 0..MaxData, fin: BOOLEAN, rst: BOOLEAN]
Fresh(l) == [link |-> l, data |-> 0, fin |-> FALSE, rst |-> FALSE]

TransportInit ==
  /\ sock = [k \in Conns |-> Fresh("away")]
  /\ listening = FALSE
  /\ client = None
  /\ connected = FALSE
  /\ readArmed = {}
  /\ writeArmed = {}
  /\ watcher = EmptyWatcher(Conns)
  /\ hot = None
  /\ reported = {}

(* The keys of connection_by_fd_, which are the values of fd_by_peer_. *)
Open == {k \in Conns : sock[k].link = "open"}

-----------------------------------------------------------------------------
(* Arming: what the event watcher is left with.                            *)

(* watchRead() and watchWrite() do nothing for a connection that is armed,   *)
(* unwatchRead() and unwatchWrite() nothing for one that is not.            *)
WatchRead(S)     == Watch(watcher, S \ readArmed, "in")
WatchWrite(k)    == Watch(watcher, {k} \ writeArmed, "out")
UnwatchRead(S)   == Unwatch(watcher, S \cap readArmed, "in")

(* watchConnect() and unwatchConnect() *)
WatchConnect(k)  == Watch(watcher, {k}, "out")
UnwatchConnect   == Unwatch(watcher, {client} \ {None}, "out")

(* epoll polls the connection for it and its callback will be called. *)
Polls(k, flag) == Watched(watcher, k, flag) /\ Polled(watcher, k, flag)

(* Connections of S, with those in armed polled for input, are unwatched and *)
(* closed, w being the watcher before.                                      *)
Dropped(w, S, armed) ==
  LET quiet == Unwatch(w, S \cap armed, "in")
  IN  Closed(Unwatch(quiet, S \cap writeArmed, "out"), S)

(* Fault: hot_read_peer_ survives its connection. *)
ReleaseKeepsHot(k) ==
  /\ sock' = [sock EXCEPT ![k] = Fresh("gone")]
  /\ readArmed' = readArmed \ {k}
  /\ writeArmed' = writeArmed \ {k}
  /\ watcher' = Dropped(watcher, {k}, readArmed)
  /\ UNCHANGED hot

(* releaseConnection() *)
Release(k) ==
  /\ sock' = [sock EXCEPT ![k] = Fresh("gone")]
  /\ readArmed' = readArmed \ {k}
  /\ writeArmed' = writeArmed \ {k}
  /\ watcher' = Dropped(watcher, {k}, readArmed)
  /\ hot' = IF hot = k THEN None ELSE hot

-----------------------------------------------------------------------------
(* The network: what the other ends do, at any time.                       *)

PeerConnects(k) ==
  /\ listening
  /\ sock[k].link = "away"
  /\ sock' = [sock EXCEPT ![k].link = "waiting"]

PeerSends(k) ==
  /\ k \in Open
  /\ ~sock[k].fin /\ ~sock[k].rst
  /\ sock[k].data < MaxData
  /\ sock' = [sock EXCEPT ![k].data = @ + 1]

PeerCloses(k) ==
  /\ k \in Open
  /\ ~sock[k].fin /\ ~sock[k].rst
  /\ sock' = [sock EXCEPT ![k].fin = TRUE]

PeerResets(k) ==
  /\ k \in Open
  /\ ~sock[k].rst
  /\ sock' = [sock EXCEPT ![k].rst = TRUE]

Network ==
  /\ \E k \in Conns :
       PeerConnects(k) \/ PeerSends(k) \/ PeerCloses(k) \/ PeerResets(k)
  /\ UNCHANGED <<listening, client, connected, readArmed, writeArmed, watcher, hot, reported>>

(* recv(): waiting data first, then an error, then the end of the stream. *)
RecvStatus(k) ==
  CASE sock[k].data > 0 -> "Ok"
    [] sock[k].data = 0 /\ sock[k].rst -> "Fatal"
    [] sock[k].data = 0 /\ ~sock[k].rst /\ sock[k].fin -> "Eof"
    [] OTHER -> "WouldBlock"

(* send() of a non-empty buffer.  The send buffer fills up and drains at the *)
(* peer's pace, so a healthy connection may block.  What fits is taken; the  *)
(* caller drops the rest and reports success.                               *)
SendStatus(k) == IF sock[k].rst THEN {"Fatal"} ELSE {"Ok", "WouldBlock"}

-----------------------------------------------------------------------------
(* Lifecycle.                                                              *)

(* bind(): the steps up to listen() succeed or the descriptor is closed. *)
TransportBind(ok) ==
  /\ listening' = ok
  /\ UNCHANGED <<sock, client, connected, readArmed, writeArmed, watcher, hot, reported>>

(* connect(): every failure before the connection is under way returns with *)
(* no ConnectRep.                                                           *)
TransportConnect ==
  /\ \/ \E k \in Conns :
          /\ sock[k].link = "away"
          /\ sock' = [sock EXCEPT ![k].link = "connecting"]
          /\ client' = k
          /\ watcher' = WatchConnect(k)
     \/ UNCHANGED <<sock, client, watcher>>
  /\ UNCHANGED <<listening, connected, readArmed, writeArmed, hot, reported>>

(* close().  A connection still under way loses its watch; its descriptor   *)
(* is forgotten.                                                            *)
TransportClose ==
  /\ listening' = FALSE
  /\ client' = None
  /\ sock' = [k \in Conns |->
                IF k \in Open \cup {client} \/ (listening /\ sock[k].link = "waiting")
                THEN Fresh("gone") ELSE sock[k]]
  /\ readArmed' = {}
  /\ writeArmed' = {}
  /\ watcher' = Dropped(UnwatchConnect, Open, readArmed)
  /\ hot' = None
  /\ UNCHANGED <<connected, reported>>

(* onAcceptReady(): accept4() may fail after any number of connections. *)
AcceptReady ==
  /\ listening
  /\ \E S \in SUBSET {k \in Conns : sock[k].link = "waiting"} :
       /\ sock' = [k \in Conns |-> IF k \in S THEN Fresh("open") ELSE sock[k]]
       /\ readArmed' = readArmed \cup S
       /\ watcher' = WatchRead(S)
  /\ UNCHANGED <<listening, client, connected, writeArmed, hot, reported>>

(* onConnectReady() with the status it replays.  It arms nothing. *)
ConnectReady(status) ==
  /\ client # None
  /\ sock[client].link = "connecting"
  /\ Polls(client, "out")
  /\ \/ /\ status = "Ok"
        /\ sock' = [sock EXCEPT ![client].link = "open"]
        /\ connected' = TRUE
        /\ watcher' = UnwatchConnect
        /\ UNCHANGED client
     \/ /\ status = "Fatal"
        /\ sock' = [sock EXCEPT ![client] = Fresh("gone")]
        /\ client' = None
        /\ watcher' = Closed(UnwatchConnect, {client})
        /\ UNCHANGED connected
  /\ UNCHANGED <<listening, readArmed, writeArmed, hot, reported>>

(* epoll_wait() reports a batch of polled connections with something to say. *)
PollInput ==
  /\ \A k \in reported : ~Watched(watcher, k, "in")
  /\ \E batch \in SUBSET {k \in Conns : Polled(watcher, k, "in")
                                      /\ RecvStatus(k) # "WouldBlock"} :
       batch # {} /\ reported' = batch
  /\ UNCHANGED <<sock, listening, client, connected, readArmed, writeArmed, watcher, hot>>

(* onReadReady(): a reported connection that still has a callback.  What it  *)
(* had to say may have been read since, in the callback of another one.     *)
ReadReady(k) ==
  /\ k \in reported \cap Open /\ Watched(watcher, k, "in")
  /\ reported' = reported \ {k}
  /\ hot' = k
  /\ UNCHANGED <<sock, listening, client, connected, readArmed, writeArmed, watcher>>

-----------------------------------------------------------------------------
(* resumeRead().                                                           *)

AtMost(n, m) == IF n < m THEN n ELSE m

(* Fault: the hot connection is not watched again. *)
HotBlockedUnwatched ==
  hot' = None /\ UNCHANGED <<sock, readArmed, writeArmed, watcher>>

HotBlocked ==
  /\ readArmed' = readArmed \cup {hot}
  /\ watcher' = WatchRead({hot})
  /\ hot' = None
  /\ UNCHANGED <<sock, writeArmed>>

(* The fast path: the connection reported last is tried, and stays hot when *)
(* it filled the whole buffer.                                              *)
HotRead(status) ==
  /\ hot \in Open
  /\ status = RecvStatus(hot)
  /\ CASE status = "Ok" ->
            /\ sock' = [sock EXCEPT ![hot].data = @ - AtMost(@, ReadSize)]
            /\ hot' = IF sock[hot].data < ReadSize THEN None ELSE hot
            /\ UNCHANGED <<readArmed, writeArmed, watcher>>
       [] status = "WouldBlock" -> HotBlocked
       [] status \in {"Eof", "Fatal"} -> Release(hot)

(* The fallback: the connections are tried in the table's order, each armed *)
(* before it is tried, up to the first that has something to say.           *)
ScanRead(status) ==
  /\ hot \notin Open
  /\ hot' = None
  /\ \/ /\ status = "WouldBlock"
        /\ \A k \in Open : RecvStatus(k) = "WouldBlock"
        /\ readArmed' = readArmed \cup Open
        /\ watcher' = WatchRead(Open)
        /\ UNCHANGED <<sock, writeArmed>>
     \/ \E k \in Open :
        \E before \in SUBSET {j \in Open \ {k} : RecvStatus(j) = "WouldBlock"} :
          /\ RecvStatus(k) = status
          /\ \/ /\ status = "Ok"
                /\ sock' = [sock EXCEPT ![k].data = @ - AtMost(@, ReadSize)]
                /\ readArmed' = readArmed \cup before \cup {k}
                /\ watcher' = WatchRead(before \cup {k})
                /\ UNCHANGED writeArmed
             \/ /\ status \in {"Eof", "Fatal"}
                /\ sock' = [sock EXCEPT ![k] = Fresh("gone")]
                /\ readArmed' = (readArmed \cup before) \ {k}
                /\ writeArmed' = writeArmed \ {k}
                /\ watcher' = Dropped(WatchRead(before \cup {k}), {k}, {k})

ResumeRead(status) ==
  /\ HotRead(status) \/ ScanRead(status)
  /\ UNCHANGED <<listening, client, connected, reported>>

(* suspendRead() *)
SuspendRead ==
  /\ readArmed' = {}
  /\ watcher' = UnwatchRead(Open)
  /\ UNCHANGED <<sock, listening, client, connected, writeArmed, hot, reported>>

-----------------------------------------------------------------------------
(* resumeWrite().                                                          *)

(* The connection a peer name resolves to.  The empty name means the        *)
(* client's connection, or the only one there is.                           *)
Target(peer) ==
  CASE peer \in Open -> peer
    [] peer = Empty /\ connected /\ client \in Open -> client
    [] /\ peer = Empty /\ ~(connected /\ client \in Open)
       /\ Cardinality(Open) = 1 -> CHOOSE k \in Open : TRUE
    [] OTHER -> None

(* Fault: nobody will say when the connection can be written again. *)
SendBlockedUnwatched(k) == UNCHANGED <<sock, readArmed, writeArmed, watcher, hot>>

SendBlocked(k) ==
  /\ writeArmed' = writeArmed \cup {k}
  /\ watcher' = WatchWrite(k)
  /\ UNCHANGED <<sock, readArmed, hot>>

ResumeWrite(peer, status) ==
  LET k == Target(peer)
  IN  /\ \/ /\ k = None
            /\ status = IF peer = Empty THEN "Error" ELSE "Fatal"
            /\ UNCHANGED <<sock, readArmed, writeArmed, watcher, hot>>
         \/ /\ k # None
            /\ status \in SendStatus(k)
            /\ \/ status = "Ok" /\ UNCHANGED <<sock, readArmed, writeArmed, watcher, hot>>
               \/ status = "WouldBlock" /\ SendBlocked(k)
               \/ status = "Fatal" /\ Release(k)
      /\ UNCHANGED <<listening, client, connected, reported>>

TransportTypeOK ==
  /\ sock \in [Conns -> Socks]
  /\ listening \in BOOLEAN
  /\ client \in Conns \cup {None}
  /\ connected \in BOOLEAN
  /\ readArmed \subseteq Conns
  /\ writeArmed \subseteq Conns
  /\ IsWatcher(watcher, Conns)
  /\ hot \in Conns \cup {None}
  /\ reported \subseteq Conns
=============================================================================
