---------------------------- MODULE Socket_proofs ----------------------------
(***************************************************************************)
(* Proofs about Socket, for any connections and requests, any capacity of   *)
(* read_queue_ and any amount of data.                                      *)
(***************************************************************************)
EXTENDS Socket, SequenceTheorems, FiniteSetTheorems, TLAPS

-----------------------------------------------------------------------------
(* The event watcher.  What an operation leaves behind is said for one      *)
(* descriptor and one flag at a time.                                       *)

(* What epoll polls for is what has a callback. *)
Synced(w) ==
  \A k \in Conns, flag \in Flags : Polled(w, k, flag) <=> Watched(w, k, flag)

(* The watcher is sound and watches the connections of rd for input, those  *)
(* of wr for output.                                                        *)
Holds(w, rd, wr) ==
  /\ IsWatcher(w, Conns)
  /\ Synced(w)
  /\ \A k \in Conns : Watched(w, k, "in") <=> k \in rd
  /\ \A k \in Conns : Watched(w, k, "out") <=> k \in wr

(* A watcher's parts. *)
LEMMA WatcherParts ==
  ASSUME NEW w, IsWatcher(w, Conns)
  PROVE  /\ w = [callbacks |-> w.callbacks, interest |-> w.interest]
         /\ w.callbacks \in SUBSET (Conns \X Flags)
         /\ w.interest \in [Conns -> SUBSET Flags]
         /\ DOMAIN w.interest = Conns
BY DEF IsWatcher

(* watch() adds what it is called for and nothing else. *)
LEMMA WatchSees ==
  ASSUME NEW w, IsWatcher(w, Conns), Synced(w),
         NEW S \in SUBSET Conns, NEW flag \in Flags
  PROVE  /\ IsWatcher(Watch(w, S, flag), Conns)
         /\ Synced(Watch(w, S, flag))
         /\ \A k \in Conns, f \in Flags :
              Watched(Watch(w, S, flag), k, f) <=>
                Watched(w, k, f) \/ (k \in S /\ f = flag)
<1> DEFINE v == Watch(w, S, flag)
           After(k) == IF k \in S /\ ~Watched(w, k, flag)
                       THEN EpollCtl(w.interest[k], Others(w, k, flag) # {},
                                     {flag} \cup Others(w, k, flag))
                       ELSE w.interest[k]
<1>1. DOMAIN w.interest = Conns /\ w.callbacks \in SUBSET (Conns \X Flags)
      /\ w.interest \in [Conns -> SUBSET Flags]
  BY WatcherParts
<1>2. v.callbacks = w.callbacks \cup S \X {flag}
      /\ v.interest = [k \in Conns |-> After(k)]
      /\ v = [callbacks |-> v.callbacks, interest |-> v.interest]
  BY <1>1 DEF Watch
<1>3. \A k \in Conns, f \in Flags :
        Watched(v, k, f) <=> Watched(w, k, f) \/ (k \in S /\ f = flag)
  BY <1>2 DEF Watched
<1>4. \A k \in Conns : After(k) \in SUBSET Flags
  BY <1>1 DEF EpollCtl, Others
<1>5. IsWatcher(v, Conns)
  <2>1. v.callbacks \in SUBSET (Conns \X Flags)
    BY <1>1, <1>2
  <2>2. v.interest \in [Conns -> SUBSET Flags]
    BY <1>2, <1>4
  <2> QED BY <1>2, <2>1, <2>2 DEF IsWatcher
<1>6. ASSUME NEW k \in Conns, NEW f \in Flags
      PROVE  f \in After(k) <=> Watched(w, k, f) \/ (k \in S /\ f = flag)
  <2>1. \A g \in Flags : g \in w.interest[k] <=> Watched(w, k, g)
    BY DEF Synced, Polled
  <2>2. CASE k \in S /\ ~Watched(w, k, flag)
    <3>1. w.interest[k] = Others(w, k, flag)
      BY <1>1, <2>1, <2>2 DEF Others
    <3>2. After(k) = {flag} \cup Others(w, k, flag)
      BY <2>2, <3>1 DEF EpollCtl
    <3> QED BY <2>2, <3>2 DEF Others
  <2>3. CASE ~(k \in S /\ ~Watched(w, k, flag))
    BY <2>1, <2>3
  <2> QED BY <2>2, <2>3
<1>7. Synced(v)
  <2>1. \A k \in Conns : v.interest[k] = After(k)
    BY <1>2
  <2> HIDE DEF v, After
  <2> QED BY <1>3, <1>6, <2>1 DEF Synced, Polled
<1> QED BY <1>3, <1>5, <1>7

(* unwatch() takes away what it is called for and nothing else. *)
LEMMA UnwatchSees ==
  ASSUME NEW w, IsWatcher(w, Conns), Synced(w),
         NEW S \in SUBSET Conns, NEW flag \in Flags
  PROVE  /\ IsWatcher(Unwatch(w, S, flag), Conns)
         /\ Synced(Unwatch(w, S, flag))
         /\ \A k \in Conns, f \in Flags :
              Watched(Unwatch(w, S, flag), k, f) <=>
                Watched(w, k, f) /\ ~(k \in S /\ f = flag)
<1> DEFINE v == Unwatch(w, S, flag)
           After(k) == IF k \notin S THEN w.interest[k]
                       ELSE IF Others(w, k, flag) = {} THEN {}
                       ELSE EpollCtl(w.interest[k], TRUE, Others(w, k, flag))
<1>1. DOMAIN w.interest = Conns /\ w.callbacks \in SUBSET (Conns \X Flags)
      /\ w.interest \in [Conns -> SUBSET Flags]
  BY WatcherParts
<1>2. v.callbacks = w.callbacks \ (S \X {flag})
      /\ v.interest = [k \in Conns |-> After(k)]
      /\ v = [callbacks |-> v.callbacks, interest |-> v.interest]
  BY <1>1 DEF Unwatch
<1>3. \A k \in Conns, f \in Flags :
        Watched(v, k, f) <=> Watched(w, k, f) /\ ~(k \in S /\ f = flag)
  BY <1>2 DEF Watched
<1>4. \A k \in Conns : After(k) \in SUBSET Flags
  BY <1>1 DEF EpollCtl, Others
<1>5. IsWatcher(v, Conns)
  <2>1. v.callbacks \in SUBSET (Conns \X Flags)
    BY <1>1, <1>2
  <2>2. v.interest \in [Conns -> SUBSET Flags]
    BY <1>2, <1>4
  <2> QED BY <1>2, <2>1, <2>2 DEF IsWatcher
<1>6. ASSUME NEW k \in Conns, NEW f \in Flags
      PROVE  f \in After(k) <=> Watched(w, k, f) /\ ~(k \in S /\ f = flag)
  <2>1. \A g \in Flags : g \in w.interest[k] <=> Watched(w, k, g)
    BY DEF Synced, Polled
  <2>2. CASE k \notin S
    BY <2>1, <2>2
  <2>3. CASE k \in S /\ Others(w, k, flag) = {}
    BY <2>3 DEF Others
  <2>4. CASE k \in S /\ Others(w, k, flag) # {}
    <3>1. w.interest[k] # {}
      BY <2>1, <2>4 DEF Others
    <3>2. After(k) = Others(w, k, flag)
      BY <2>4, <3>1 DEF EpollCtl
    <3> QED BY <2>4, <3>2 DEF Others
  <2> QED BY <2>2, <2>3, <2>4
<1>7. Synced(v)
  <2>1. \A k \in Conns : v.interest[k] = After(k)
    BY <1>2
  <2> HIDE DEF v, After
  <2> QED BY <1>3, <1>6, <2>1 DEF Synced, Polled
<1> QED BY <1>3, <1>5, <1>7

(* watch() for input. *)
LEMMA WatchIn ==
  ASSUME NEW w, NEW rd, NEW wr, Holds(w, rd, wr), NEW S \in SUBSET Conns
  PROVE  Holds(Watch(w, S, "in"), rd \cup S, wr)
BY WatchSees DEF Holds, Flags

(* watch() for output. *)
LEMMA WatchOut ==
  ASSUME NEW w, NEW rd, NEW wr, Holds(w, rd, wr), NEW S \in SUBSET Conns
  PROVE  Holds(Watch(w, S, "out"), rd, wr \cup S)
BY WatchSees DEF Holds, Flags

(* unwatch() for input. *)
LEMMA UnwatchIn ==
  ASSUME NEW w, NEW rd, NEW wr, Holds(w, rd, wr), NEW S \in SUBSET Conns
  PROVE  Holds(Unwatch(w, S, "in"), rd \ S, wr)
BY UnwatchSees DEF Holds, Flags

(* unwatch() for output. *)
LEMMA UnwatchOut ==
  ASSUME NEW w, NEW rd, NEW wr, Holds(w, rd, wr), NEW S \in SUBSET Conns
  PROVE  Holds(Unwatch(w, S, "out"), rd, wr \ S)
BY UnwatchSees DEF Holds, Flags

(* Closing descriptors nobody watches changes nothing. *)
LEMMA CloseQuiet ==
  ASSUME NEW w, NEW rd, NEW wr, Holds(w, rd, wr), NEW S \in SUBSET Conns,
         S \cap rd = {}, S \cap wr = {}
  PROVE  Holds(Closed(w, S), rd, wr)
<1> DEFINE v == Closed(w, S)
<1>1. DOMAIN w.interest = Conns /\ w.callbacks \in SUBSET (Conns \X Flags)
      /\ w.interest \in [Conns -> SUBSET Flags]
      /\ w = [callbacks |-> w.callbacks, interest |-> w.interest]
  BY WatcherParts DEF Holds
<1>2. v = [callbacks |-> w.callbacks,
           interest |-> [k \in Conns |-> IF k \in S THEN {} ELSE w.interest[k]]]
  <2>1. PICK c, i : w = [callbacks |-> c, interest |-> i] /\ DOMAIN i = Conns
    BY <1>1
  <2>2. w.callbacks = c /\ w.interest = i
    BY <2>1
  <2>3. v = [w EXCEPT !.interest =
               [k \in Conns |-> IF k \in S THEN {} ELSE w.interest[k]]]
    BY <2>1, <2>2 DEF Closed
  <2> QED BY <2>1, <2>2, <2>3
<1>3. v.callbacks = w.callbacks
      /\ v.interest = [k \in Conns |-> IF k \in S THEN {} ELSE w.interest[k]]
  BY <1>2
<1>4. IsWatcher(v, Conns)
  BY <1>1, <1>2 DEF IsWatcher
<1>5. \A k \in Conns, f \in Flags : Watched(v, k, f) <=> Watched(w, k, f)
  BY <1>3 DEF Watched
<1>6. \A k \in S, f \in Flags : ~Watched(w, k, f)
  BY DEF Holds, Flags
<1>7. Synced(v)
  BY <1>3, <1>5, <1>6 DEF Synced, Polled, Holds
<1> QED BY <1>4, <1>5, <1>7 DEF Holds, Flags

(* releaseConnection() and close() unwatch what is armed before they close,  *)
(* so that nothing of the connection is left.                               *)
LEMMA DropsAll ==
  ASSUME NEW w, NEW rd, NEW wr, Holds(w, rd, wr), NEW S \in SUBSET Conns,
         NEW armed, S \cap rd \subseteq armed, S \cap wr \subseteq writeArmed
  PROVE  Holds(Dropped(w, S, armed), rd \ S, wr \ S)
<1> DEFINE quiet == Unwatch(w, S \cap armed, "in")
           still == Unwatch(quiet, S \cap writeArmed, "out")
<1>1. Holds(quiet, rd \ (S \cap armed), wr)
  BY UnwatchIn
<1>2. Holds(still, rd \ (S \cap armed), wr \ (S \cap writeArmed))
  BY <1>1, UnwatchOut
<1>3. rd \ (S \cap armed) = rd \ S /\ wr \ (S \cap writeArmed) = wr \ S
  OBVIOUS
<1>4. Holds(still, rd \ S, wr \ S)
  BY <1>2, <1>3
<1>5. Holds(Closed(still, S), rd \ S, wr \ S)
  BY <1>4, CloseQuiet
<1> QED BY <1>5 DEF Dropped

-----------------------------------------------------------------------------
(* The transport.                                                          *)

(* The connections that are under way. *)
Connecting == {k \in Conns : sock[k].link = "connecting"}

(* The transport's own invariant: only open connections are hot or armed,   *)
(* and the watcher watches what is armed and the connection under way.      *)
TransInv ==
  /\ sock \in [Conns -> Socks]
  /\ listening \in BOOLEAN
  /\ client \in Conns \cup {None}
  /\ connected \in BOOLEAN
  /\ reported \subseteq Conns
  /\ hot \in Open \cup {None}
  /\ readArmed \subseteq Open
  /\ writeArmed \subseteq Open
  /\ Holds(watcher, readArmed, writeArmed \cup Connecting)

(* What every step does that neither opens a connection nor closes the      *)
(* transport: a connection stays as it is, is closed, or begins to wait to  *)
(* be accepted, and a write that is polled for stays polled for.            *)
Fades ==
  /\ \A k \in Conns :
       \/ sock'[k].link = sock[k].link
       \/ sock[k].link = "open" /\ sock'[k].link = "gone"
       \/ sock[k].link = "away" /\ sock'[k].link = "waiting"
  /\ \A k \in Open' : k \in writeArmed => k \in writeArmed'
  /\ UNCHANGED <<listening, client, connected>>

(* What is polled for input stays polled for input. *)
ReadsStay == \A k \in Open' : k \in readArmed => k \in readArmed'

(* When no connection is opened or closed, the same ones are open and under *)
(* way.                                                                     *)
LEMMA SameOpen ==
  ASSUME \A k \in Conns : \/ sock'[k].link = sock[k].link
                          \/ sock[k].link = "away" /\ sock'[k].link = "waiting"
  PROVE  Open' = Open /\ Connecting' = Connecting
<1>1. \A k \in Conns : sock'[k].link = "open" <=> sock[k].link = "open"
  OBVIOUS
<1>2. \A k \in Conns : sock'[k].link = "connecting" <=> sock[k].link = "connecting"
  OBVIOUS
<1> QED BY <1>1, <1>2 DEF Open, Connecting

(* A connection that is not known yet has no data and no end. *)
LEMMA FreshType ==
  ASSUME NEW l \in Link
  PROVE  Fresh(l) \in Socks /\ Fresh(l).link = l
<1>1. 0 \in 0..MaxData
  BY TransportAssumptions
<1> QED BY <1>1 DEF Fresh, Socks

(* At the start nothing is open and nothing is watched. *)
LEMMA TransStarts ==
  ASSUME TransportInit
  PROVE  /\ TransInv
         /\ Open = {}
         /\ \A k \in Conns : sock[k].link = "away"
<1>1. "away" \in Link
  BY DEF Link
<1>2. \A k \in Conns : sock[k].link = "away"
  BY <1>1, FreshType DEF TransportInit
<1>3. sock \in [Conns -> Socks]
  BY <1>1, FreshType DEF TransportInit
<1>4. Open = {} /\ Connecting = {}
  BY <1>2 DEF Open, Connecting
<1>5. Holds(watcher, {}, {})
  <2>1. watcher = [callbacks |-> {}, interest |-> [k \in Conns |-> {}]]
    BY DEF TransportInit, EmptyWatcher
  <2>2. watcher.callbacks = {} /\ watcher.interest = [k \in Conns |-> {}]
    BY <2>1
  <2>3. IsWatcher(watcher, Conns)
    BY <2>1 DEF IsWatcher
  <2> QED BY <2>2, <2>3 DEF Holds, Synced, Watched, Polled
<1> QED BY <1>2, <1>3, <1>4, <1>5 DEF TransInv, TransportInit

(* The other ends send, close, reset and connect. *)
LEMMA NetworkKeeps ==
  ASSUME TransInv, Network
  PROVE  TransInv' /\ Fades /\ ReadsStay
<1>1. PICK k \in Conns :
        PeerConnects(k) \/ PeerSends(k) \/ PeerCloses(k) \/ PeerResets(k)
  BY DEF Network
<1>2. sock \in [Conns -> Socks]
  BY DEF TransInv
<1>3. /\ sock' \in [Conns -> Socks]
      /\ \A j \in Conns : \/ sock'[j].link = sock[j].link
                          \/ sock[j].link = "away" /\ sock'[j].link = "waiting"
  <2>1. CASE PeerConnects(k)
    BY <1>2, <2>1 DEF PeerConnects, Socks, Link
  <2>2. CASE PeerSends(k)
    <3>1. sock[k].data + 1 \in 0..MaxData
      BY <1>2, <2>2, TransportAssumptions DEF PeerSends, Socks
    <3> QED BY <1>2, <2>2, <3>1 DEF PeerSends, Socks
  <2>3. CASE PeerCloses(k)
    BY <1>2, <2>3 DEF PeerCloses, Socks
  <2>4. CASE PeerResets(k)
    BY <1>2, <2>4 DEF PeerResets, Socks
  <2> QED BY <1>1, <2>1, <2>2, <2>3, <2>4
<1>4. Open' = Open /\ Connecting' = Connecting
  BY <1>3, SameOpen
<1>5. UNCHANGED <<listening, client, connected, readArmed, writeArmed, watcher,
                  hot, reported>>
  BY DEF Network
<1>6. TransInv'
  BY <1>3, <1>4, <1>5 DEF TransInv
<1> QED BY <1>3, <1>5, <1>6 DEF Fades, ReadsStay

(* bind(): the transport listens or does not. *)
LEMMA BindKeeps ==
  ASSUME TransInv, NEW ok \in BOOLEAN, TransportBind(ok)
  PROVE  TransInv' /\ Open' = Open /\ Connecting' = Connecting
<1>1. Open' = Open /\ Connecting' = Connecting
  BY DEF TransportBind, Open, Connecting
<1> QED BY <1>1 DEF TransInv, TransportBind

(* connect(): at most one more connection is under way, the client's. *)
LEMMA ConnectKeeps ==
  ASSUME TransInv, TransportConnect
  PROVE  /\ TransInv'
         /\ Open' = Open
         /\ \A k \in Connecting' : k \in Connecting \/ client' = k
         /\ UNCHANGED listening
<1>1. CASE UNCHANGED <<sock, client, watcher>>
  <2>1. Open' = Open /\ Connecting' = Connecting
    BY <1>1 DEF Open, Connecting
  <2> QED BY <1>1, <2>1 DEF TransInv, TransportConnect
<1>2. ASSUME NEW k \in Conns, sock[k].link = "away",
             sock' = [sock EXCEPT ![k].link = "connecting"],
             client' = k, watcher' = WatchConnect(k)
      PROVE  /\ TransInv'
             /\ Open' = Open
             /\ \A j \in Connecting' : j \in Connecting \/ client' = j
  <2>1. sock' \in [Conns -> Socks]
    BY <1>2 DEF TransInv, Socks, Link
  <2>2. /\ sock'[k].link = "connecting"
        /\ \A j \in Conns \ {k} : sock'[j] = sock[j]
    BY <1>2 DEF TransInv, Socks
  <2>3. Open' = Open
    BY <1>2, <2>2 DEF Open
  <2>4. Connecting' = Connecting \cup {k}
    BY <1>2, <2>2 DEF Connecting
  <2>5. Holds(watcher', readArmed, writeArmed \cup Connecting')
    <3>1. Holds(Watch(watcher, {k}, "out"), readArmed,
                (writeArmed \cup Connecting) \cup {k})
      BY WatchOut DEF TransInv
    <3>2. (writeArmed \cup Connecting) \cup {k} = writeArmed \cup Connecting'
      BY <2>4
    <3> QED BY <1>2, <3>1, <3>2 DEF WatchConnect
  <2>6. UNCHANGED <<listening, connected, readArmed, writeArmed, hot, reported>>
    BY DEF TransportConnect
  <2>7. TransInv'
    BY <1>2, <2>1, <2>3, <2>5, <2>6 DEF TransInv
  <2> QED BY <1>2, <2>3, <2>4, <2>7
<1> QED BY <1>1, <1>2 DEF TransportConnect, Connecting

(* close(): nothing is open and nothing is watched any more. *)
LEMMA CloseKeeps ==
  ASSUME TransInv, TransportClose
  PROVE  /\ TransInv'
         /\ Open' = {}
         /\ Connecting' = Connecting \ {client}
         /\ ~listening'
<1> DEFINE Goes(k) == k \in Open \cup {client}
                      \/ (listening /\ sock[k].link = "waiting")
<1>1. /\ sock' = [k \in Conns |-> IF Goes(k) THEN Fresh("gone") ELSE sock[k]]
      /\ listening' = FALSE /\ client' = None /\ readArmed' = {}
      /\ writeArmed' = {} /\ hot' = None
      /\ connected' = connected /\ reported' = reported
      /\ watcher' = Dropped(UnwatchConnect, Open, readArmed)
  BY DEF TransportClose
<1>2. "gone" \in Link
  BY DEF Link
<1>3. sock' \in [Conns -> Socks]
  BY <1>1, <1>2, FreshType DEF TransInv
<1>4. \A k \in Conns : /\ Goes(k) => sock'[k].link = "gone"
                       /\ ~Goes(k) => sock'[k] = sock[k]
  BY <1>1, <1>2, FreshType
<1>5. Open' = {}
  <2>1. \A k \in Conns : sock'[k].link # "open"
    BY <1>4 DEF Open
  <2> QED BY <2>1 DEF Open
<1>6. Connecting' = Connecting \ {client}
  <2>1. \A k \in Conns : sock'[k].link = "connecting" <=>
                           sock[k].link = "connecting" /\ k # client
    BY <1>4 DEF Open
  <2> QED BY <2>1 DEF Connecting
<1>7. Holds(watcher', {}, Connecting')
  <2> DEFINE wr == (writeArmed \cup Connecting) \ ({client} \ {None})
  <2>1. {client} \ {None} \in SUBSET Conns
    BY DEF TransInv
  <2>2. Holds(UnwatchConnect, readArmed, wr)
    BY <2>1, UnwatchOut DEF TransInv, UnwatchConnect
  <2>3. Open \in SUBSET Conns /\ Open \cap Connecting = {}
    BY DEF Open, Connecting
  <2>4. Open \cap wr \subseteq writeArmed
    BY <2>3
  <2>5. Holds(Dropped(UnwatchConnect, Open, readArmed), readArmed \ Open, wr \ Open)
    BY <2>2, <2>3, <2>4, DropsAll
  <2>6. readArmed \ Open = {}
    BY DEF TransInv
  <2>7. None \notin Connecting
    BY TransportAssumptions DEF Connecting
  <2>8. wr \ Open = Connecting'
    BY <1>6, <2>3, <2>7 DEF TransInv
  <2> QED BY <1>1, <2>5, <2>6, <2>8
<1>8. TransInv'
  <2>1. hot' \in Open' \cup {None} /\ client' \in Conns \cup {None}
        /\ listening' \in BOOLEAN /\ connected' \in BOOLEAN
        /\ reported' \subseteq Conns
    BY <1>1 DEF TransInv
  <2>2. readArmed' = {} /\ writeArmed' = {}
    BY <1>1
  <2>3. Holds(watcher', readArmed', writeArmed' \cup Connecting')
    BY <1>7, <2>2
  <2> QED BY <1>3, <2>1, <2>2, <2>3 DEF TransInv
<1> QED BY <1>1, <1>5, <1>6, <1>8

(* onAcceptReady(): what was waiting may be open now, and is armed. *)
LEMMA AcceptKeeps ==
  ASSUME TransInv, AcceptReady
  PROVE  /\ TransInv'
         /\ \A k \in Conns : sock'[k].link = "connecting" => sock[k].link = "connecting"
         /\ \A k \in Conns : sock[k].link \in {"open", "gone"} =>
                               sock'[k].link = sock[k].link
         /\ UNCHANGED <<listening, client, connected, writeArmed>>
<1>1. PICK S \in SUBSET {k \in Conns : sock[k].link = "waiting"} :
        /\ sock' = [k \in Conns |-> IF k \in S THEN Fresh("open") ELSE sock[k]]
        /\ readArmed' = readArmed \cup S
        /\ watcher' = WatchRead(S)
  BY DEF AcceptReady
<1>2. "open" \in Link
  BY DEF Link
<1>3. sock' \in [Conns -> Socks]
  BY <1>1, <1>2, FreshType DEF TransInv
<1>4. \A k \in Conns : /\ k \in S => sock'[k].link = "open"
                       /\ k \notin S => sock'[k] = sock[k]
  BY <1>1, <1>2, FreshType
<1>5. Open' = Open \cup S
  BY <1>4 DEF Open
<1>6. Connecting' = Connecting
  <2>1. \A k \in Conns : sock'[k].link = "connecting" <=> sock[k].link = "connecting"
    BY <1>4
  <2> QED BY <2>1 DEF Connecting
<1>7. Holds(watcher', readArmed', writeArmed \cup Connecting)
  <2>1. Holds(Watch(watcher, S \ readArmed, "in"), readArmed \cup (S \ readArmed),
              writeArmed \cup Connecting)
    BY WatchIn DEF TransInv
  <2>2. readArmed \cup (S \ readArmed) = readArmed'
    BY <1>1
  <2> QED BY <1>1, <2>1, <2>2 DEF WatchRead
<1>8. UNCHANGED <<listening, client, connected, writeArmed, hot, reported>>
  BY DEF AcceptReady
<1>9. TransInv'
  BY <1>1, <1>3, <1>5, <1>6, <1>7, <1>8 DEF TransInv
<1> QED BY <1>4, <1>8, <1>9

(* onConnectReady(): the client's connection is open, or gone, and no longer *)
(* watched for output.                                                      *)
LEMMA ConnectReadyKeeps ==
  ASSUME TransInv, NEW status, ConnectReady(status)
  PROVE  /\ TransInv'
         /\ Connecting' = Connecting \ {client}
         /\ UNCHANGED <<listening, writeArmed>>
         /\ status = "Ok" => /\ Open' \subseteq Open \cup {client}
                             /\ connected' /\ client' = client
         /\ status = "Fatal" => Open' = Open
<1>1. /\ client \in Conns
      /\ sock[client].link = "connecting"
      /\ UNCHANGED <<listening, readArmed, writeArmed, hot, reported>>
  BY DEF ConnectReady, TransInv
<1>2. Holds(UnwatchConnect, readArmed, writeArmed \cup (Connecting \ {client}))
  <2>1. {client} \ {None} = {client} /\ {client} \in SUBSET Conns
    BY <1>1, TransportAssumptions
  <2>2. Holds(Unwatch(watcher, {client}, "out"), readArmed,
              (writeArmed \cup Connecting) \ {client})
    BY <2>1, UnwatchOut DEF TransInv
  <2>3. client \notin writeArmed
    BY <1>1 DEF TransInv, Open
  <2>4. (writeArmed \cup Connecting) \ {client} = writeArmed \cup (Connecting \ {client})
    BY <2>3
  <2> QED BY <2>1, <2>2, <2>4 DEF UnwatchConnect
<1>3. CASE /\ status = "Ok"
           /\ sock' = [sock EXCEPT ![client].link = "open"]
           /\ connected' = TRUE
           /\ watcher' = UnwatchConnect
           /\ UNCHANGED client
  <2>1. sock' \in [Conns -> Socks]
    BY <1>1, <1>3 DEF TransInv, Socks, Link
  <2>2. /\ sock'[client].link = "open"
        /\ \A j \in Conns \ {client} : sock'[j] = sock[j]
    BY <1>1, <1>3 DEF TransInv, Socks
  <2>3. Open' = Open \cup {client}
    BY <1>1, <2>2 DEF Open
  <2>4. Connecting' = Connecting \ {client}
    BY <1>1, <2>2 DEF Connecting
  <2>5. TransInv'
    BY <1>1, <1>2, <1>3, <2>1, <2>3, <2>4 DEF TransInv
  <2> QED BY <1>1, <1>3, <2>3, <2>4, <2>5
<1>4. CASE /\ status = "Fatal"
           /\ sock' = [sock EXCEPT ![client] = Fresh("gone")]
           /\ client' = None
           /\ watcher' = Closed(UnwatchConnect, {client})
           /\ UNCHANGED connected
  <2>1. Fresh("gone") \in Socks /\ Fresh("gone").link = "gone"
    BY FreshType DEF Link
  <2>2. sock' \in [Conns -> Socks]
    BY <1>1, <1>4, <2>1 DEF TransInv
  <2>3. /\ sock'[client].link = "gone"
        /\ \A j \in Conns \ {client} : sock'[j] = sock[j]
    BY <1>1, <1>4, <2>1 DEF TransInv
  <2>4. Open' = Open
    BY <1>1, <2>3 DEF Open
  <2>5. Connecting' = Connecting \ {client}
    BY <1>1, <2>3 DEF Connecting
  <2>6. Holds(watcher', readArmed, writeArmed \cup (Connecting \ {client}))
    <3>1. client \notin readArmed /\ client \notin writeArmed
      BY <1>1 DEF TransInv, Open
    <3> QED BY <1>1, <1>2, <1>4, <3>1, CloseQuiet
  <2>7. client' \in Conns \cup {None}
    BY <1>4
  <2>8. TransInv'
    BY <1>1, <1>4, <2>2, <2>4, <2>5, <2>6, <2>7 DEF TransInv
  <2> QED BY <1>1, <1>4, <2>4, <2>5, <2>8
<1> QED BY <1>3, <1>4 DEF ConnectReady

(* epoll_wait() and onReadReady() change only what is reported and hot. *)
LEMMA PollKeeps ==
  ASSUME TransInv, PollInput \/ (\E k \in Conns : ReadReady(k))
  PROVE  TransInv' /\ Fades /\ ReadsStay
<1>1. UNCHANGED <<sock, listening, client, connected, readArmed, writeArmed, watcher>>
  BY DEF PollInput, ReadReady
<1>2. Open' = Open /\ Connecting' = Connecting
  BY <1>1 DEF Open, Connecting
<1>3. reported' \subseteq Conns /\ hot' \in Open \cup {None}
  <2>1. CASE PollInput
    BY <2>1 DEF PollInput, TransInv
  <2>2. CASE \E k \in Conns : ReadReady(k)
    BY <2>2 DEF ReadReady, TransInv
  <2> QED BY <2>1, <2>2
<1> QED BY <1>1, <1>2, <1>3 DEF TransInv, Fades, ReadsStay

(* suspendRead() disarms every connection for input. *)
LEMMA SuspendKeeps ==
  ASSUME TransInv, SuspendRead
  PROVE  TransInv' /\ Fades
<1>1. /\ readArmed' = {} /\ watcher' = UnwatchRead(Open)
      /\ UNCHANGED <<sock, listening, client, connected, writeArmed, hot, reported>>
  BY DEF SuspendRead
<1>2. Open' = Open /\ Connecting' = Connecting
  BY <1>1 DEF Open, Connecting
<1>3. Holds(watcher', {}, writeArmed \cup Connecting)
  <2>1. Open \cap readArmed \in SUBSET Conns
    BY DEF Open
  <2>2. Holds(UnwatchRead(Open), readArmed \ (Open \cap readArmed),
              writeArmed \cup Connecting)
    BY <2>1, UnwatchIn DEF TransInv, UnwatchRead
  <2>3. readArmed \ (Open \cap readArmed) = {}
    BY DEF TransInv
  <2> QED BY <1>1, <2>2, <2>3
<1> QED BY <1>1, <1>2, <1>3 DEF TransInv, Fades

(* What the operations of resumeRead() and resumeWrite() leave alone. *)
Settled == UNCHANGED <<listening, client, connected, reported>>

(* A step that only takes data from connections and arms some of them.      *)
LEMMA ArmingKeeps ==
  ASSUME TransInv, Settled,
         sock' \in [Conns -> Socks],
         \A k \in Conns : sock'[k].link = sock[k].link,
         hot' \in Open \cup {None},
         readArmed' \subseteq Open, writeArmed' \subseteq Open,
         writeArmed \subseteq writeArmed',
         Holds(watcher', readArmed', writeArmed' \cup Connecting)
  PROVE  TransInv' /\ Fades
<1>1. Open' = Open /\ Connecting' = Connecting
  BY SameOpen
<1> QED BY <1>1 DEF TransInv, Fades, Settled

(* A step that releases a connection, armed or not, maybe after arming more. *)
LEMMA ReleaseKeeps ==
  ASSUME TransInv, Settled, NEW k \in Open,
         sock' = [sock EXCEPT ![k] = Fresh("gone")],
         NEW w, NEW rd \in SUBSET Open, NEW armed,
         Holds(w, rd, writeArmed \cup Connecting), {k} \cap rd \subseteq armed,
         readArmed' = rd \ {k}, writeArmed' = writeArmed \ {k},
         watcher' = Dropped(w, {k}, armed),
         hot' = None \/ (hot' = hot /\ hot # k)
  PROVE  TransInv' /\ Fades /\ Open' = Open \ {k}
<1>1. Fresh("gone") \in Socks /\ Fresh("gone").link = "gone"
  BY FreshType DEF Link
<1>2. k \in Conns /\ sock[k].link = "open"
  BY DEF Open
<1>3. sock' \in [Conns -> Socks]
  BY <1>1, <1>2 DEF TransInv
<1>4. /\ sock'[k].link = "gone"
      /\ \A j \in Conns \ {k} : sock'[j] = sock[j]
  BY <1>1, <1>2 DEF TransInv
<1>5. Open' = Open \ {k}
  BY <1>2, <1>4 DEF Open
<1>6. Connecting' = Connecting
  <2>1. \A j \in Conns : sock'[j].link = "connecting" <=> sock[j].link = "connecting"
    BY <1>2, <1>4
  <2> QED BY <2>1 DEF Connecting
<1>7. Holds(watcher', readArmed', writeArmed' \cup Connecting)
  <2>1. {k} \in SUBSET Conns /\ k \notin Connecting
    BY <1>2 DEF Connecting
  <2>2. {k} \cap (writeArmed \cup Connecting) \subseteq writeArmed
    BY <2>1
  <2>3. Holds(Dropped(w, {k}, armed), rd \ {k}, (writeArmed \cup Connecting) \ {k})
    BY <2>1, <2>2, DropsAll
  <2>4. (writeArmed \cup Connecting) \ {k} = (writeArmed \ {k}) \cup Connecting
    BY <2>1
  <2> QED BY <2>3, <2>4
<1>8. hot' \in Open' \cup {None}
  BY <1>5 DEF TransInv
<1>9. readArmed' \subseteq Open' /\ writeArmed' \subseteq Open'
  BY <1>5 DEF TransInv
<1>10. TransInv'
  BY <1>3, <1>6, <1>7, <1>8, <1>9 DEF TransInv, Settled
<1>11. Fades
  <2>1. \A j \in Conns : \/ sock'[j].link = sock[j].link
                         \/ sock[j].link = "open" /\ sock'[j].link = "gone"
    BY <1>2, <1>4
  <2>2. \A j \in Open' : j \in writeArmed => j \in writeArmed'
    BY <1>5
  <2> QED BY <2>1, <2>2 DEF Fades, Settled
<1> QED BY <1>5, <1>10, <1>11

(* recv() takes at most what is there. *)
LEMMA DataTaken ==
  ASSUME NEW n \in 0..MaxData
  PROVE  n - AtMost(n, ReadSize) \in 0..MaxData
BY TransportAssumptions DEF AtMost

(* Data taken from one connection. *)
LEMMA TakingKeepsLinks ==
  ASSUME sock \in [Conns -> Socks], NEW k \in Conns,
         sock' = [sock EXCEPT ![k].data = @ - AtMost(@, ReadSize)]
  PROVE  /\ sock' \in [Conns -> Socks]
         /\ \A j \in Conns : sock'[j].link = sock[j].link
<1>1. sock[k].data - AtMost(sock[k].data, ReadSize) \in 0..MaxData
  BY DataTaken DEF Socks
<1>2. PICK d \in 0..MaxData : d = sock[k].data - AtMost(sock[k].data, ReadSize)
  BY <1>1
<1>3. sock' = [sock EXCEPT ![k].data = d]
  BY <1>2
<1> QED BY <1>3 DEF Socks

(* The fast path of resumeRead(). *)
LEMMA HotReadKeeps ==
  ASSUME TransInv, Settled, NEW status, HotRead(status)
  PROVE  /\ TransInv' /\ Fades
         /\ status = "WouldBlock" => hot \in readArmed'
<1>1. hot \in Open /\ hot \in Conns
  BY DEF HotRead, Open
<1>2. sock \in [Conns -> Socks]
  BY DEF TransInv
<1>3. CASE status = "Ok"
  <2>1. /\ sock' = [sock EXCEPT ![hot].data = @ - AtMost(@, ReadSize)]
        /\ hot' = IF sock[hot].data < ReadSize THEN None ELSE hot
        /\ UNCHANGED <<readArmed, writeArmed, watcher>>
    BY <1>3 DEF HotRead
  <2>2. hot' \in Open \cup {None}
    BY <1>1, <2>1
  <2>3. /\ sock' \in [Conns -> Socks]
        /\ \A j \in Conns : sock'[j].link = sock[j].link
    BY <1>1, <1>2, <2>1, TakingKeepsLinks
  <2>4. readArmed' \subseteq Open /\ writeArmed' \subseteq Open
        /\ writeArmed \subseteq writeArmed'
        /\ Holds(watcher', readArmed', writeArmed' \cup Connecting)
    BY <2>1 DEF TransInv
  <2> QED BY <1>3, <2>2, <2>3, <2>4, ArmingKeeps
<1>4. CASE status = "WouldBlock"
  <2>1. /\ readArmed' = readArmed \cup {hot}
        /\ watcher' = WatchRead({hot})
        /\ hot' = None
        /\ UNCHANGED <<sock, writeArmed>>
    BY <1>4 DEF HotRead, HotBlocked
  <2>2. Holds(watcher', readArmed', writeArmed' \cup Connecting)
    <3>1. {hot} \ readArmed \in SUBSET Conns
      BY <1>1
    <3>2. Holds(WatchRead({hot}), readArmed \cup ({hot} \ readArmed),
                writeArmed \cup Connecting)
      BY <3>1, WatchIn DEF TransInv, WatchRead
    <3>3. readArmed \cup ({hot} \ readArmed) = readArmed'
      BY <2>1
    <3> QED BY <2>1, <3>2, <3>3
  <2>3. readArmed' \subseteq Open /\ writeArmed' \subseteq Open
        /\ writeArmed \subseteq writeArmed'
    BY <1>1, <2>1 DEF TransInv
  <2>4. sock' \in [Conns -> Socks] /\ \A j \in Conns : sock'[j].link = sock[j].link
    BY <1>2, <2>1
  <2>5. TransInv' /\ Fades
    BY <2>1, <2>2, <2>3, <2>4, ArmingKeeps
  <2> QED BY <2>1, <2>5
<1>5. CASE status \in {"Eof", "Fatal"}
  <2>1. Release(hot)
    BY <1>5 DEF HotRead
  <2>2. /\ sock' = [sock EXCEPT ![hot] = Fresh("gone")]
        /\ readArmed' = readArmed \ {hot} /\ writeArmed' = writeArmed \ {hot}
        /\ watcher' = Dropped(watcher, {hot}, readArmed)
        /\ hot' = None
    BY <2>1 DEF Release
  <2>3. readArmed \in SUBSET Open /\ {hot} \cap readArmed \subseteq readArmed
        /\ Holds(watcher, readArmed, writeArmed \cup Connecting)
    BY DEF TransInv
  <2>4. TransInv' /\ Fades
    BY <1>1, <2>2, <2>3, ReleaseKeeps
  <2> QED BY <1>5, <2>4
<1>6. status \in {"Ok", "WouldBlock", "Eof", "Fatal"}
  BY DEF HotRead, RecvStatus
<1> QED BY <1>3, <1>4, <1>5, <1>6

(* The fallback of resumeRead(). *)
LEMMA ScanReadKeeps ==
  ASSUME TransInv, Settled, NEW status, ScanRead(status)
  PROVE  /\ TransInv' /\ Fades
         /\ status = "WouldBlock" => Open \subseteq readArmed'
<1>1. hot' = None /\ sock \in [Conns -> Socks]
  BY DEF ScanRead, TransInv
<1>2. ASSUME NEW S \in SUBSET Open
      PROVE  Holds(WatchRead(S), readArmed \cup S, writeArmed \cup Connecting)
  <2>1. S \ readArmed \in SUBSET Conns
    BY DEF Open
  <2>2. Holds(WatchRead(S), readArmed \cup (S \ readArmed), writeArmed \cup Connecting)
    BY <2>1, WatchIn DEF TransInv, WatchRead
  <2>3. readArmed \cup (S \ readArmed) = readArmed \cup S
    OBVIOUS
  <2> QED BY <2>2, <2>3
<1>3. CASE /\ status = "WouldBlock"
           /\ readArmed' = readArmed \cup Open
           /\ watcher' = WatchRead(Open)
           /\ UNCHANGED <<sock, writeArmed>>
  <2>1. Holds(watcher', readArmed', writeArmed' \cup Connecting)
    BY <1>2, <1>3
  <2>2. readArmed' \subseteq Open /\ writeArmed' \subseteq Open
        /\ writeArmed \subseteq writeArmed'
    BY <1>3 DEF TransInv
  <2>3. sock' \in [Conns -> Socks] /\ \A j \in Conns : sock'[j].link = sock[j].link
    BY <1>1, <1>3
  <2>4. TransInv' /\ Fades
    BY <1>1, <2>1, <2>2, <2>3, ArmingKeeps
  <2> QED BY <1>3, <2>4
<1>4. ASSUME NEW k \in Open, NEW before \in SUBSET (Open \ {k}),
             status = "Ok",
             sock' = [sock EXCEPT ![k].data = @ - AtMost(@, ReadSize)],
             readArmed' = readArmed \cup before \cup {k},
             watcher' = WatchRead(before \cup {k}),
             UNCHANGED writeArmed
      PROVE  TransInv' /\ Fades
  <2>1. before \cup {k} \in SUBSET Open /\ k \in Conns
    BY DEF Open
  <2>2. readArmed' = readArmed \cup (before \cup {k})
    BY <1>4
  <2>3. Holds(watcher', readArmed', writeArmed' \cup Connecting)
    BY <1>2, <1>4, <2>1, <2>2
  <2>4. /\ sock' \in [Conns -> Socks]
        /\ \A j \in Conns : sock'[j].link = sock[j].link
    BY <1>1, <1>4, <2>1, TakingKeepsLinks
  <2>5. readArmed' \subseteq Open /\ writeArmed' \subseteq Open
        /\ writeArmed \subseteq writeArmed'
    BY <1>4, <2>1, <2>2 DEF TransInv
  <2> QED BY <1>1, <2>3, <2>4, <2>5, ArmingKeeps
<1>5. ASSUME NEW k \in Open, NEW before \in SUBSET (Open \ {k}),
             sock' = [sock EXCEPT ![k] = Fresh("gone")],
             readArmed' = (readArmed \cup before) \ {k},
             writeArmed' = writeArmed \ {k},
             watcher' = Dropped(WatchRead(before \cup {k}), {k}, {k})
      PROVE  TransInv' /\ Fades
  <2> DEFINE rd == readArmed \cup (before \cup {k})
  <2>1. before \cup {k} \in SUBSET Open
    OBVIOUS
  <2>2. Holds(WatchRead(before \cup {k}), rd, writeArmed \cup Connecting)
    BY <1>2, <2>1
  <2>3. rd \in SUBSET Open /\ {k} \cap rd \subseteq {k} /\ readArmed' = rd \ {k}
    BY <1>5, <2>1 DEF TransInv
  <2>4. hot' = None
    BY <1>1
  <2> HIDE DEF rd
  <2> QED BY <1>5, <2>2, <2>3, <2>4, ReleaseKeeps
<1>6. CASE /\ status = "WouldBlock"
           /\ \A k \in Open : RecvStatus(k) = "WouldBlock"
           /\ readArmed' = readArmed \cup Open
           /\ watcher' = WatchRead(Open)
           /\ UNCHANGED <<sock, writeArmed>>
  BY <1>3, <1>6
<1>7. ASSUME NEW k \in Open,
             NEW before \in SUBSET {j \in Open \ {k} : RecvStatus(j) = "WouldBlock"},
             \/ /\ status = "Ok"
                /\ sock' = [sock EXCEPT ![k].data = @ - AtMost(@, ReadSize)]
                /\ readArmed' = readArmed \cup before \cup {k}
                /\ watcher' = WatchRead(before \cup {k})
                /\ UNCHANGED writeArmed
             \/ /\ status \in {"Eof", "Fatal"}
                /\ sock' = [sock EXCEPT ![k] = Fresh("gone")]
                /\ readArmed' = (readArmed \cup before) \ {k}
                /\ writeArmed' = writeArmed \ {k}
                /\ watcher' = Dropped(WatchRead(before \cup {k}), {k}, {k})
      PROVE  TransInv' /\ Fades /\ status # "WouldBlock"
  <2>1. before \in SUBSET (Open \ {k})
    OBVIOUS
  <2> QED BY <1>4, <1>5, <1>7, <2>1
<1> QED BY <1>6, <1>7 DEF ScanRead

(* resumeRead(): nothing is opened, and when it would block every open       *)
(* connection of a client is armed for input.                               *)
LEMMA ResumeReadKeeps ==
  ASSUME TransInv, NEW status, ResumeRead(status)
  PROVE  /\ TransInv' /\ Fades
         /\ status = "WouldBlock" /\ Open \subseteq {client} =>
              Open \subseteq readArmed'
<1>1. Settled
  BY DEF ResumeRead, Settled
<1>2. CASE HotRead(status)
  <2>1. TransInv' /\ Fades /\ (status = "WouldBlock" => hot \in readArmed')
    BY <1>1, <1>2, HotReadKeeps
  <2>2. hot \in Open
    BY <1>2 DEF HotRead
  <2> QED BY <2>1, <2>2
<1>3. CASE ScanRead(status)
  BY <1>1, <1>3, ScanReadKeeps
<1> QED BY <1>2, <1>3 DEF ResumeRead

(* A name resolves to an open connection or to none. *)
LEMMA TargetIsOpen ==
  ASSUME NEW peer
  PROVE  /\ Target(peer) \in Open \cup {None}
         /\ peer \in Open => Target(peer) = peer
         /\ peer \notin Open /\ peer # Empty => Target(peer) = None
         /\ peer = Empty /\ connected /\ client \in Open => Target(peer) = client
<1>1. Empty \notin Open
  BY TransportAssumptions DEF Open
<1>2. ASSUME Cardinality(Open) = 1
      PROVE  (CHOOSE k \in Open : TRUE) \in Open
  <2>1. Open # {}
    BY <1>2, FS_EmptySet
  <2> QED BY <2>1
<1> QED BY <1>1, <1>2 DEF Target

(* resumeWrite(): a write that would block is polled for, and one that is    *)
(* done opens nothing.                                                      *)
LEMMA ResumeWriteKeeps ==
  ASSUME TransInv, NEW peer, NEW status, ResumeWrite(peer, status)
  PROVE  /\ TransInv' /\ Fades /\ ReadsStay
         /\ status = "WouldBlock" =>
              /\ Target(peer) \in Open /\ Target(peer) \in writeArmed'
              /\ UNCHANGED sock
<1> DEFINE k == Target(peer)
<1>1. Settled
  BY DEF ResumeWrite, Settled
<1>2. k \in Open \cup {None}
  BY TargetIsOpen
<1>3. sock \in [Conns -> Socks]
  BY DEF TransInv
<1>4. CASE UNCHANGED <<sock, readArmed, writeArmed, watcher, hot>>
           /\ status # "WouldBlock"
  <2>1. TransInv' /\ Fades
    BY <1>1, <1>3, <1>4, ArmingKeeps DEF TransInv
  <2> QED BY <1>4, <2>1 DEF ReadsStay
<1>5. CASE k # None /\ status = "WouldBlock" /\ SendBlocked(k)
  <2>1. k \in Open /\ k \in Conns
    BY <1>2, <1>5 DEF Open
  <2>2. /\ writeArmed' = writeArmed \cup {k}
        /\ watcher' = WatchWrite(k)
        /\ UNCHANGED <<sock, readArmed, hot>>
    BY <1>5 DEF SendBlocked
  <2>3. Holds(watcher', readArmed', writeArmed' \cup Connecting)
    <3>1. {k} \ writeArmed \in SUBSET Conns
      BY <2>1
    <3>2. Holds(WatchWrite(k), readArmed, (writeArmed \cup Connecting) \cup ({k} \ writeArmed))
      BY <3>1, WatchOut DEF TransInv, WatchWrite
    <3>3. (writeArmed \cup Connecting) \cup ({k} \ writeArmed)
            = writeArmed' \cup Connecting
      BY <2>2
    <3> QED BY <2>2, <3>2, <3>3
  <2>4. readArmed' \subseteq Open /\ writeArmed' \subseteq Open
        /\ writeArmed \subseteq writeArmed'
    BY <2>1, <2>2 DEF TransInv
  <2>5. sock' \in [Conns -> Socks] /\ (\A j \in Conns : sock'[j].link = sock[j].link)
        /\ hot' \in Open \cup {None}
    BY <1>3, <2>2 DEF TransInv
  <2> HIDE DEF k
  <2>6. TransInv' /\ Fades
    BY <1>1, <2>3, <2>4, <2>5, ArmingKeeps
  <2> QED BY <1>5, <2>1, <2>2, <2>6 DEF k, ReadsStay
<1>6. CASE k # None /\ status = "Fatal" /\ Release(k)
  <2>1. k \in Open
    BY <1>2, <1>6
  <2>2. /\ sock' = [sock EXCEPT ![k] = Fresh("gone")]
        /\ readArmed' = readArmed \ {k} /\ writeArmed' = writeArmed \ {k}
        /\ watcher' = Dropped(watcher, {k}, readArmed)
        /\ hot' = None \/ (hot' = hot /\ hot # k)
    BY <1>6 DEF Release
  <2>3. readArmed \in SUBSET Open /\ {k} \cap readArmed \subseteq readArmed
        /\ Holds(watcher, readArmed, writeArmed \cup Connecting)
    BY DEF TransInv
  <2> HIDE DEF k
  <2>4. TransInv' /\ Fades /\ Open' = Open \ {k}
    BY <1>1, <2>1, <2>2, <2>3, ReleaseKeeps
  <2>5. ReadsStay
    BY <2>2, <2>4 DEF ReadsStay
  <2> QED BY <1>6, <2>4, <2>5 DEF k
<1>7. \/ /\ status # "WouldBlock"
         /\ UNCHANGED <<sock, readArmed, writeArmed, watcher, hot>>
      \/ k # None /\ status = "WouldBlock" /\ SendBlocked(k)
      \/ k # None /\ status = "Fatal" /\ Release(k)
  BY DEF ResumeWrite
<1> QED BY <1>4, <1>5, <1>6, <1>7

-----------------------------------------------------------------------------
(* The queues and the answers.                                             *)

NoRepeats(q) == \A i, j \in 1..Len(q) : q[i] = q[j] => i = j

(* write_queue_ holds a request at most once. *)
WriteQOk(q) ==
  /\ q \in [Peers -> Writes \cup {None}]
  /\ \A p1, p2 \in Peers : q[p1] = q[p2] /\ q[p1] # None => p1 = p2

(* Nobody was answered twice. *)
AnswersOk(f) == f \in [Requests -> {"unasked", "pending"} \cup Status]

(* The requests that wait for their answer. *)
Waiting(f) == {r \in Requests : f[r] = "pending"}

(* What waits is what is queued. *)
Owes(f, cq, rq, wq) == Waiting(f) = ({cq} \cup Range(rq) \cup Range(wq)) \ {None}

(* The mode and what may be queued in it. *)
QueueModes ==
  /\ state = "ConnectWait" <=> connectQ # None
  /\ state \in {"Idle", "ConnectWait"} =>
       readQ = <<>> /\ \A p \in Peers : writeQ[p] = None
  /\ state = "Closed" => readQ = <<>>

QueueInv ==
  /\ state \in States
  /\ connectQ \in Connects \cup {None}
  /\ readQ \in Seq(Reads) /\ Len(readQ) <= ReadLimit /\ NoRepeats(readQ)
  /\ WriteQOk(writeQ)
  /\ AnswersOk(answers)
  /\ Range(readQ) \cap Range(writeQ) = {}
  /\ state # "Closed" => Owes(answers, connectQ, readQ, writeQ)
  /\ QueueModes

(* One more read request at the end. *)
LEMMA ReadQueued ==
  ASSUME NEW q \in Seq(Reads), NEW r \in Reads, NoRepeats(q), r \notin Range(q)
  PROVE  /\ Append(q, r) \in Seq(Reads)
         /\ Len(Append(q, r)) = Len(q) + 1
         /\ NoRepeats(Append(q, r))
         /\ Range(Append(q, r)) = Range(q) \cup {r}
<1>1. PICK t : t = Append(q, r)
  OBVIOUS
<1>2. /\ t \in Seq(Reads) /\ Len(t) = Len(q) + 1
      /\ \A i \in 1..Len(q) : t[i] = q[i]
      /\ t[Len(q) + 1] = r
  BY <1>1
<1>3. DOMAIN t = 1..(Len(q) + 1) /\ DOMAIN q = 1..Len(q) /\ Len(q) \in Nat
  BY <1>2
<1>4. \A i \in 1..(Len(q) + 1) : i \in 1..Len(q) \/ i = Len(q) + 1
  BY <1>3
<1>5. \A i \in 1..Len(q) : q[i] # r
  BY <1>3 DEF Range
<1>6. NoRepeats(t)
  BY <1>2, <1>3, <1>4, <1>5 DEF NoRepeats
<1>7. Range(t) = Range(q) \cup {r}
  <2>1. \A i \in 1..Len(q) : i \in 1..(Len(q) + 1)
    BY <1>3
  <2>2. Len(q) + 1 \in 1..(Len(q) + 1)
    BY <1>3
  <2> QED BY <1>2, <1>3, <1>4, <2>1, <2>2 DEF Range
<1> QED BY <1>1, <1>2, <1>6, <1>7

(* The first read request taken out. *)
LEMMA ReadTaken ==
  ASSUME NEW q \in Seq(Reads), q # <<>>, NoRepeats(q)
  PROVE  /\ Tail(q) \in Seq(Reads)
         /\ Len(Tail(q)) <= Len(q)
         /\ NoRepeats(Tail(q))
         /\ Head(q) \in Range(q) /\ Head(q) \in Reads
         /\ Range(Tail(q)) = Range(q) \ {Head(q)}
<1>1. PICK t : t = Tail(q)
  OBVIOUS
<1>2. /\ t \in Seq(Reads) /\ Len(t) = Len(q) - 1
      /\ \A i \in 1..Len(t) : t[i] = q[i + 1]
      /\ Head(q) = q[1]
  BY <1>1
<1>3. Len(q) \in Nat \ {0} /\ DOMAIN q = 1..Len(q) /\ DOMAIN t = 1..Len(t)
  BY <1>2
<1>4. \A i \in 1..Len(t) : i + 1 \in 1..Len(q) /\ i + 1 # 1
  BY <1>2, <1>3
<1>5. \A j \in 1..Len(q) : j = 1 \/ \E i \in 1..Len(t) : j = i + 1
  <2> SUFFICES ASSUME NEW j \in 1..Len(q), j # 1
               PROVE  \E i \in 1..Len(t) : j = i + 1
    OBVIOUS
  <2>1. j - 1 \in 1..Len(t) /\ j = (j - 1) + 1
    BY <1>2, <1>3
  <2> QED BY <2>1
<1>6. 1 \in 1..Len(q)
  BY <1>3
<1>7. NoRepeats(t)
  <2> SUFFICES ASSUME NEW i \in 1..Len(t), NEW j \in 1..Len(t), t[i] = t[j]
               PROVE  i = j
    BY DEF NoRepeats
  <2>1. q[i + 1] = q[j + 1]
    BY <1>2
  <2>2. i + 1 = j + 1
    BY <1>4, <2>1 DEF NoRepeats
  <2> QED BY <2>2
<1>8. \A i \in 1..Len(t) : t[i] # Head(q)
  BY <1>2, <1>4, <1>6 DEF NoRepeats
<1>9. Range(t) = Range(q) \ {Head(q)}
  <2>1. \A y : y \in Range(t) <=> \E i \in 1..Len(t) : t[i] = y
    BY <1>3 DEF Range
  <2>2. \A y : y \in Range(q) <=> \E i \in 1..Len(q) : q[i] = y
    BY <1>3 DEF Range
  <2>3. ASSUME NEW i \in 1..Len(t)
        PROVE  t[i] \in Range(q) \ {Head(q)}
    <3>1. t[i] = q[i + 1] /\ i + 1 \in 1..Len(q)
      BY <1>2, <1>4
    <3> QED BY <1>8, <2>2, <3>1
  <2>4. ASSUME NEW j \in 1..Len(q), q[j] # Head(q)
        PROVE  q[j] \in Range(t)
    <3>1. j # 1
      BY <1>2, <2>4
    <3>2. PICK i \in 1..Len(t) : j = i + 1
      BY <1>5, <3>1
    <3> QED BY <1>2, <2>1, <3>2
  <2> QED BY <2>1, <2>2, <2>3, <2>4
<1>10. Head(q) \in Range(q) /\ Head(q) \in Reads
  BY <1>2, <1>3, <1>6 DEF Range
<1>11. Len(t) <= Len(q)
  BY <1>2, <1>3
<1> QED BY <1>1, <1>2, <1>7, <1>9, <1>10, <1>11

(* Only requests are queued. *)
LEMMA NoneIsNoRead ==
  ASSUME QueueInv
  PROVE  None \notin Range(readQ)
<1>1. None \notin Reads
  BY SocketAssumptions DEF Requests
<1>2. \A i \in 1..Len(readQ) : readQ[i] \in Reads
  BY DEF QueueInv
<1>3. DOMAIN readQ = 1..Len(readQ)
  BY DEF QueueInv
<1> QED BY <1>1, <1>2, <1>3 DEF Range

(* One more write request under its peer's name. *)
LEMMA WriteQueued ==
  ASSUME NEW q, WriteQOk(q), NEW p \in Peers, q[p] = None,
         NEW r \in Writes, r # None, r \notin Range(q),
         NEW t \in [Peers -> Writes \cup {None}], t[p] = r,
         \A x \in Peers \ {p} : t[x] = q[x]
  PROVE  /\ WriteQOk(t)
         /\ Range(t) \ {None} = (Range(q) \ {None}) \cup {r}
<1>1. q \in [Peers -> Writes \cup {None}]
  BY DEF WriteQOk
<1>2. \A x \in Peers : q[x] # r
  BY <1>1 DEF Range
<1>3. WriteQOk(t)
  BY <1>1, <1>2 DEF WriteQOk
<1>4. \A y : y \in Range(t) \ {None} <=> y \in (Range(q) \ {None}) \cup {r}
  BY <1>1 DEF Range
<1> QED BY <1>3, <1>4

(* A write request taken out. *)
LEMMA WriteTaken ==
  ASSUME NEW q, WriteQOk(q), NEW p \in Peers, q[p] # None
  PROVE  /\ WriteQOk([q EXCEPT ![p] = None])
         /\ q[p] \in Range(q) /\ q[p] \in Writes
         /\ Range([q EXCEPT ![p] = None]) \ {None} = (Range(q) \ {None}) \ {q[p]}
<1>1. PICK t : t = [q EXCEPT ![p] = None]
  OBVIOUS
<1>2. /\ t \in [Peers -> Writes \cup {None}] /\ q \in [Peers -> Writes \cup {None}]
      /\ t[p] = None
      /\ \A x \in Peers \ {p} : t[x] = q[x]
  BY <1>1 DEF WriteQOk
<1>3. WriteQOk(t)
  BY <1>2 DEF WriteQOk
<1>4. \A x \in Peers \ {p} : q[x] = q[p] => q[x] = None
  BY DEF WriteQOk
<1>5. \A y : y \in Range(t) \ {None} <=> y \in (Range(q) \ {None}) \ {q[p]}
  BY <1>2, <1>4 DEF Range
<1>6. q[p] \in Range(q) /\ q[p] \in Writes
  BY <1>2 DEF Range
<1> QED BY <1>1, <1>3, <1>5, <1>6

(* A callback is called for the first time. *)
LEMMA AnswerGiven ==
  ASSUME NEW f, AnswersOk(f), NEW r \in Requests, f[r] \in {"unasked", "pending"},
         NEW status \in Status
  PROVE  /\ AnswersOk(Answer(f, r, status))
         /\ Waiting(Answer(f, r, status)) = Waiting(f) \ {r}
<1>1. PICK g : g = Answer(f, r, status)
  OBVIOUS
<1>2. f \in [Requests -> {"unasked", "pending"} \cup Status]
  BY DEF AnswersOk
<1>3. g = [f EXCEPT ![r] = status]
  BY <1>1, <1>2 DEF Answer
<1>4. status # "pending"
  BY DEF Status
<1>5. g \in [Requests -> {"unasked", "pending"} \cup Status]
      /\ g[r] = status /\ \A q \in Requests \ {r} : g[q] = f[q]
  BY <1>2, <1>3
<1>6. Waiting(g) = Waiting(f) \ {r}
  BY <1>4, <1>5 DEF Waiting
<1> QED BY <1>1, <1>5, <1>6 DEF AnswersOk

(* A request is asked. *)
LEMMA AskedWaits ==
  ASSUME AnswersOk(answers), NEW r \in Requests, answers[r] = "unasked"
  PROVE  /\ AnswersOk(Asked(r))
         /\ Waiting(Asked(r)) = Waiting(answers) \cup {r}
         /\ r \notin Waiting(answers)
<1>1. PICK g : g = Asked(r)
  OBVIOUS
<1>2. answers \in [Requests -> {"unasked", "pending"} \cup Status]
  BY DEF AnswersOk
<1>3. g \in [Requests -> {"unasked", "pending"} \cup Status]
      /\ g[r] = "pending" /\ \A q \in Requests \ {r} : g[q] = answers[q]
  BY <1>1, <1>2 DEF Asked
<1>4. Waiting(g) = Waiting(answers) \cup {r} /\ r \notin Waiting(answers)
  BY <1>3 DEF Waiting
<1> QED BY <1>1, <1>3, <1>4 DEF AnswersOk

-----------------------------------------------------------------------------
(* The inductive invariant.                                                *)

(* What the mode says of the connections.  A client has one connection, a    *)
(* closed socket none, and only a server listens.                           *)
Modes ==
  /\ Open # {} => state \in {"Bound", "Connected"}
  /\ state = "Connected" => Open \subseteq {client} /\ connected
  /\ \A k \in Conns : sock[k].link = "connecting" =>
                        client = k /\ state = "ConnectWait"
  /\ listening => state = "Bound"

(* What is queued for output is polled for, or its connection is gone. *)
WritesArmed ==
  /\ state = "Connected" /\ client \in Open /\ writeQ[Empty] # None =>
       client \in writeArmed
  /\ state = "Bound" => \A k \in Conns : writeQ[k] # None =>
       sock[k].link \in {"open", "gone"} /\ (k \in Open => k \in writeArmed)

(* Between two ticks, a client that owes a read polls for it. *)
ReadsArmed ==
  pc = "idle" /\ state = "Connected" /\ readQ # <<>> /\ client \in Open =>
    client \in readArmed

(* transportRead() is active exactly while the loop thread is in it. *)
ControlInv ==
  /\ pc \in {"idle", "reading", "callback", "crashed"}
  /\ depth \in Nat
  /\ pc \in {"reading", "callback"} => depth > 0
  /\ pc \in {"idle", "crashed"} => depth = 0

IInv ==
  TransInv /\ Modes /\ WritesArmed /\ ReadsArmed /\ QueueInv /\ ControlInv
    /\ AnsweredWhenClosed

queueVars == <<state, connectQ, readQ, writeQ, answers>>

(* Connections that fade keep to the mode. *)
LEMMA FadesModes ==
  ASSUME Modes, Fades, UNCHANGED state
  PROVE  Modes'
<1>1. \A k \in Conns : sock'[k].link = "open" => sock[k].link = "open"
  BY DEF Fades
<1>2. \A k \in Conns : sock'[k].link = "connecting" => sock[k].link = "connecting"
  BY DEF Fades
<1>3. Open' \subseteq Open
  BY <1>1 DEF Open
<1> QED BY <1>2, <1>3 DEF Modes, Fades

(* Connections that fade leave queued writes polled for. *)
LEMMA FadesWrites ==
  ASSUME WritesArmed, Fades, UNCHANGED <<state, writeQ>>
  PROVE  WritesArmed'
<1>1. \A k \in Conns : k \in Open' => k \in Open
  BY DEF Open, Fades
<1>2. \A k \in Open' : k \in writeArmed => k \in writeArmed'
  BY DEF Fades
<1>3. CASE state = "Connected"
  <2>1. state' # "Bound" /\ client' = client /\ Open' \subseteq Conns
    BY <1>3 DEF Fades, Open
  <2> QED BY <1>1, <1>2, <1>3, <2>1 DEF WritesArmed
<1>4. CASE state = "Bound"
  <2> SUFFICES ASSUME NEW k \in Conns, writeQ[k] # None
               PROVE  sock'[k].link \in {"open", "gone"} /\ (k \in Open' => k \in writeArmed')
    BY <1>4 DEF WritesArmed
  <2>1. sock[k].link \in {"open", "gone"} /\ (k \in Open => k \in writeArmed)
    BY <1>4 DEF WritesArmed
  <2>2. sock'[k].link \in {"open", "gone"}
    BY <2>1 DEF Fades
  <2> QED BY <1>1, <1>2, <2>1, <2>2
<1>5. CASE state \notin {"Connected", "Bound"}
  BY <1>5 DEF WritesArmed
<1> QED BY <1>3, <1>4, <1>5

(* Nor does an owed read lose its event. *)
LEMMA FadesReads ==
  ASSUME ReadsArmed, Fades, ReadsStay, UNCHANGED <<state, readQ>>,
         pc' = "idle" => pc = "idle"
  PROVE  ReadsArmed'
<1>1. client' = client /\ \A k \in Conns : k \in Open' => k \in Open
  BY DEF Open, Fades
<1>2. Open' \subseteq Conns
  BY DEF Open
<1> QED BY <1>1, <1>2 DEF ReadsArmed, ReadsStay

(* The queues are as they were. *)
LEMMA QueuesStay ==
  ASSUME QueueInv, UNCHANGED queueVars
  PROVE  QueueInv' /\ (AnsweredWhenClosed /\ pc # "crashed" => AnsweredWhenClosed')
<1>1. QueueInv'
  BY DEF QueueInv, queueVars, QueueModes, WriteQOk, AnswersOk, Owes, Waiting, NoRepeats
<1>2. AnsweredWhenClosed /\ pc # "crashed" => AnsweredWhenClosed'
  BY DEF AnsweredWhenClosed, queueVars, Pending
<1> QED BY <1>1, <1>2

(* Initially nothing is asked, queued or open. *)
LEMMA InitIInv ==
  ASSUME Init
  PROVE  IInv
<1>1. TransInv /\ Open = {} /\ \A k \in Conns : sock[k].link = "away"
  BY TransStarts DEF Init
<1>2. /\ state = "Idle" /\ connectQ = None /\ readQ = <<>> /\ pc = "idle" /\ depth = 0
      /\ writeQ = [p \in Peers |-> None]
      /\ answers = [r \in Requests |-> "unasked"]
      /\ listening = FALSE
  BY DEF Init, TransportInit
<1>3. Modes
  BY <1>1, <1>2 DEF Modes
<1>4. WritesArmed /\ ReadsArmed /\ ControlInv /\ AnsweredWhenClosed
  BY <1>2 DEF WritesArmed, ReadsArmed, ControlInv, AnsweredWhenClosed
<1>5. QueueInv
  <2>1. WriteQOk(writeQ) /\ AnswersOk(answers)
    BY <1>2 DEF WriteQOk, AnswersOk
  <2>2. readQ \in Seq(Reads) /\ Len(readQ) <= ReadLimit /\ NoRepeats(readQ)
    BY <1>2, SocketAssumptions DEF NoRepeats
  <2>3. Range(readQ) = {}
    BY <1>2 DEF Range
  <2>4. Range(writeQ) \subseteq {None}
    BY <1>2 DEF Range
  <2>5. Waiting(answers) = {}
    BY <1>2 DEF Waiting
  <2>6. Owes(answers, connectQ, readQ, writeQ)
    BY <1>2, <2>3, <2>4, <2>5 DEF Owes
  <2>7. QueueModes
    BY <1>2 DEF QueueModes
  <2> QED BY <1>2, <2>1, <2>2, <2>3, <2>6, <2>7 DEF QueueInv, States
<1> QED BY <1>1, <1>3, <1>4, <1>5 DEF IInv

-----------------------------------------------------------------------------
(* The steps that leave the queues alone.                                  *)

(* The environment and epoll_wait(). *)
LEMMA EnvironmentSteps ==
  ASSUME IInv, Environment \/ Poll
  PROVE  IInv'
<1>1. /\ pc # "crashed" /\ UNCHANGED queueVars /\ UNCHANGED <<pc, depth>>
      /\ Network \/ PollInput
  BY DEF Environment, Poll, queueVars
<1>2. TransInv' /\ Fades /\ ReadsStay
  BY <1>1, NetworkKeeps, PollKeeps DEF IInv
<1>3. UNCHANGED <<state, readQ, writeQ>>
  BY <1>1 DEF queueVars
<1>4. Modes' /\ WritesArmed' /\ ReadsArmed'
  BY <1>1, <1>2, <1>3, FadesModes, FadesWrites, FadesReads DEF IInv
<1>5. ControlInv'
  BY <1>1 DEF IInv, ControlInv
<1> QED BY <1>1, <1>2, <1>4, <1>5, QueuesStay DEF IInv

(* onReadReady() enters transportRead(). *)
LEMMA ReadReadyRepSteps ==
  ASSUME IInv, ReadReadyRep
  PROVE  IInv'
<1>1. /\ pc = "idle" /\ UNCHANGED queueVars /\ pc' = "reading" /\ depth' = depth + 1
      /\ \E k \in Conns : ReadReady(k)
  BY DEF ReadReadyRep, queueVars, EnterTransportRead
<1>2. TransInv' /\ Fades
  BY <1>1, PollKeeps DEF IInv
<1>3. UNCHANGED <<state, writeQ>>
  BY <1>1 DEF queueVars
<1>4. Modes' /\ WritesArmed' /\ ReadsArmed'
  BY <1>1, <1>2, <1>3, FadesModes, FadesWrites DEF IInv, ReadsArmed
<1>5. ControlInv'
  BY <1>1 DEF IInv, ControlInv
<1> QED BY <1>1, <1>2, <1>4, <1>5, QueuesStay DEF IInv

(* onAcceptReady(): only a server accepts, and nothing was queued for a peer *)
(* that was not there.                                                      *)
LEMMA AcceptSteps ==
  ASSUME IInv, Accept
  PROVE  IInv'
<1>1. /\ pc = "idle" /\ UNCHANGED queueVars /\ UNCHANGED <<pc, depth>>
      /\ AcceptReady /\ listening
  BY DEF Accept, queueVars, AcceptReady
<1>2. TransInv' /\ UNCHANGED <<listening, client, connected, writeArmed>>
      /\ (\A k \in Conns : sock'[k].link = "connecting" => sock[k].link = "connecting")
      /\ (\A k \in Conns : sock[k].link \in {"open", "gone"} =>
                             sock'[k].link = sock[k].link)
  BY <1>1, AcceptKeeps DEF IInv
<1>3. state = "Bound" /\ state' = "Bound" /\ writeQ' = writeQ
  BY <1>1 DEF IInv, Modes, queueVars
<1>4. Modes'
  BY <1>2, <1>3 DEF IInv, Modes
<1>5. WritesArmed'
  <2> SUFFICES ASSUME NEW k \in Conns, writeQ[k] # None
               PROVE  sock'[k].link \in {"open", "gone"} /\ (k \in Open' => k \in writeArmed')
    BY <1>3 DEF WritesArmed
  <2>1. sock[k].link \in {"open", "gone"} /\ (k \in Open => k \in writeArmed)
    BY <1>3 DEF IInv, WritesArmed
  <2>2. sock'[k].link = sock[k].link
    BY <1>2, <2>1
  <2> QED BY <1>2, <2>1, <2>2 DEF Open
<1>6. ReadsArmed' /\ ControlInv'
  BY <1>1, <1>3 DEF IInv, ReadsArmed, ControlInv
<1> QED BY <1>1, <1>2, <1>4, <1>5, <1>6, QueuesStay DEF IInv

(* transportRead() with nothing to read for: it suspends and returns. *)
LEMMA ReadsDoneSteps ==
  ASSUME IInv, ReadsDone
  PROVE  IInv'
<1>1. /\ pc = "reading" /\ UNCHANGED queueVars /\ readQ = <<>> /\ SuspendRead
      /\ depth' = depth - 1 /\ pc' = IF depth = 1 THEN "idle" ELSE "callback"
  BY DEF ReadsDone, queueVars, LeaveTransportRead
<1>2. TransInv' /\ Fades
  BY <1>1, SuspendKeeps DEF IInv
<1>3. UNCHANGED <<state, readQ, writeQ>>
  BY <1>1 DEF queueVars
<1>4. Modes' /\ WritesArmed' /\ ReadsArmed'
  BY <1>1, <1>2, <1>3, FadesModes, FadesWrites DEF IInv, ReadsArmed
<1>5. ControlInv'
  BY <1>1 DEF IInv, ControlInv
<1> QED BY <1>1, <1>2, <1>4, <1>5, QueuesStay DEF IInv

(* The user's callback returns. *)
LEMMA CallbackReturnsSteps ==
  ASSUME IInv, CallbackReturns
  PROVE  IInv'
<1>1. /\ pc = "callback" /\ pc' = "reading" /\ depth' = depth
      /\ UNCHANGED queueVars /\ UNCHANGED transportVars
  BY DEF CallbackReturns, queueVars
<1>2. TransInv'
  BY <1>1 DEF IInv, TransInv, transportVars, Open, Connecting, Holds, Synced
<1>3. Modes' /\ WritesArmed'
  BY <1>1 DEF IInv, Modes, WritesArmed, transportVars, Open, queueVars
<1>4. ReadsArmed' /\ ControlInv'
  BY <1>1 DEF IInv, ReadsArmed, ControlInv
<1> QED BY <1>1, <1>2, <1>3, <1>4, QueuesStay DEF IInv

-----------------------------------------------------------------------------
(* The steps that ask and answer.                                          *)

(* A request that is answered at once leaves the queues as they are. *)
LEMMA AnsweredAtOnce ==
  ASSUME QueueInv, NEW r \in Requests, answers[r] = "unasked",
         NEW status \in Status, answers' = Answer(answers, r, status)
  PROVE  AnswersOk(answers') /\ Waiting(answers') = Waiting(answers)
<1>1. AnswersOk(answers') /\ Waiting(answers') = Waiting(answers) \ {r}
  BY AnswerGiven DEF QueueInv
<1>2. r \notin Waiting(answers)
  BY DEF Waiting
<1> QED BY <1>1, <1>2

(* What a step may do to the socket's own variables: it answers a request    *)
(* at once and changes nothing else.                                        *)
LEMMA RejectKeeps ==
  ASSUME IInv, NEW r \in Requests, Unasked(r),
         NEW status \in Status, answers' = Answer(answers, r, status),
         UNCHANGED <<transportVars, state, connectQ, readQ, writeQ, pc, depth>>
  PROVE  IInv'
<1>1. QueueInv /\ answers[r] = "unasked" /\ pc # "crashed"
  BY DEF IInv, Unasked
<1>2. AnswersOk(answers') /\ Waiting(answers') = Waiting(answers)
  BY <1>1, AnsweredAtOnce
<1>3. QueueInv'
  BY <1>1, <1>2 DEF QueueInv, QueueModes, WriteQOk, Owes, NoRepeats
<1>4. AnsweredWhenClosed'
  BY <1>1, <1>2 DEF IInv, AnsweredWhenClosed, Pending, Waiting
<1>5. TransInv'
  BY DEF IInv, TransInv, transportVars, Open, Connecting, Holds, Synced
<1>6. Modes' /\ WritesArmed' /\ ReadsArmed' /\ ControlInv'
  BY DEF IInv, Modes, WritesArmed, ReadsArmed, ControlInv, transportVars, Open
<1> QED BY <1>3, <1>4, <1>5, <1>6 DEF IInv

(* Nothing waits in a socket that is not in use yet. *)
LEMMA NothingWaitsYet ==
  ASSUME IInv, state = "Idle"
  PROVE  /\ Waiting(answers) = {}
         /\ connectQ = None /\ readQ = <<>> /\ \A p \in Peers : writeQ[p] = None
         /\ Open = {} /\ Connecting = {} /\ ~listening
<1>1. connectQ = None /\ readQ = <<>> /\ \A p \in Peers : writeQ[p] = None
  BY DEF IInv, QueueInv, QueueModes
<1>2. Range(readQ) = {} /\ Range(writeQ) \subseteq {None}
  BY <1>1 DEF Range, IInv, QueueInv, WriteQOk
<1>3. Waiting(answers) = {}
  BY <1>1, <1>2 DEF IInv, QueueInv, Owes
<1> QED BY <1>1, <1>3 DEF IInv, Modes, Connecting

(* tick(BindReq) *)
LEMMA BindSteps ==
  ASSUME IInv, NEW r \in Binds, Bind(r)
  PROVE  IInv'
<1>1. r \in Requests /\ Unasked(r) /\ UNCHANGED <<connectQ, readQ, writeQ, pc, depth>>
  BY DEF Requests, Bind
<1>2. CASE state # "Idle"
  BY <1>1, <1>2, RejectKeeps DEF Bind, Status
<1>3. CASE state = "Idle"
  <2>1. PICK ok \in BOOLEAN :
          /\ TransportBind(ok)
          /\ state' = IF ok THEN "Bound" ELSE "Closed"
          /\ answers' = Answer(answers, r, IF ok THEN "Ok" ELSE "Fatal")
    BY <1>3 DEF Bind
  <2>2. TransInv' /\ Open' = Open /\ Connecting' = Connecting
    BY <2>1, BindKeeps DEF IInv
  <2>3. AnswersOk(answers') /\ Waiting(answers') = Waiting(answers)
    BY <1>1, <2>1, AnsweredAtOnce DEF IInv, Unasked, Status
  <2>4. /\ Waiting(answers) = {} /\ connectQ = None /\ readQ = <<>>
        /\ \A p \in Peers : writeQ[p] = None
        /\ Open = {} /\ Connecting = {}
    BY <1>3, NothingWaitsYet
  <2>5. state' \in {"Bound", "Closed"}
    BY <2>1
  <2>6. Modes'
    <3>1. \A k \in Conns : sock'[k].link # "connecting"
      BY <2>2, <2>4 DEF Connecting
    <3>2. listening' => state' = "Bound"
      BY <2>1 DEF TransportBind
    <3> QED BY <2>2, <2>4, <2>5, <3>1, <3>2 DEF Modes
  <2>7. WritesArmed' /\ ReadsArmed' /\ ControlInv'
    BY <1>1, <2>4, <2>5 DEF IInv, WritesArmed, ReadsArmed, ControlInv, Peers
  <2>8. QueueInv'
    <3>1. Owes(answers', connectQ', readQ', writeQ')
      BY <1>1, <1>3, <2>3 DEF IInv, QueueInv, Owes
    <3> QED BY <1>1, <2>3, <2>4, <2>5, <3>1
            DEF IInv, QueueInv, QueueModes, WriteQOk, NoRepeats, States
  <2>9. AnsweredWhenClosed'
    BY <2>3, <2>4 DEF AnsweredWhenClosed, Pending, Waiting
  <2> QED BY <2>2, <2>6, <2>7, <2>8, <2>9 DEF IInv
<1> QED BY <1>2, <1>3

(* tick(ConnectReq) *)
LEMMA ConnectSteps ==
  ASSUME IInv, NEW r \in Connects, Connect(r)
  PROVE  IInv'
<1>1. r \in Requests /\ Unasked(r) /\ UNCHANGED <<readQ, writeQ, pc, depth>>
  BY DEF Requests, Connect
<1>2. CASE state # "Idle"
  BY <1>1, <1>2, RejectKeeps DEF Connect, Status
<1>3. CASE state = "Idle"
  <2>1. TransportConnect /\ state' = "ConnectWait" /\ connectQ' = r /\ answers' = Asked(r)
    BY <1>3 DEF Connect
  <2>2. /\ TransInv' /\ Open' = Open
        /\ \A k \in Connecting' : k \in Connecting \/ client' = k
        /\ UNCHANGED listening
    BY <2>1, ConnectKeeps DEF IInv
  <2>3. AnswersOk(answers') /\ Waiting(answers') = Waiting(answers) \cup {r}
    BY <1>1, <2>1, AskedWaits DEF IInv, QueueInv, Unasked
  <2>4. /\ Waiting(answers) = {} /\ readQ = <<>>
        /\ \A p \in Peers : writeQ[p] = None
        /\ Open = {} /\ Connecting = {} /\ ~listening
    BY <1>3, NothingWaitsYet
  <2>5. Modes'
    BY <2>1, <2>2, <2>4 DEF Modes, Connecting
  <2>6. WritesArmed' /\ ReadsArmed' /\ ControlInv' /\ AnsweredWhenClosed'
    BY <1>1, <2>1 DEF IInv, WritesArmed, ReadsArmed, ControlInv, AnsweredWhenClosed
  <2>7. QueueInv'
    <3>1. r # None
      BY <1>1, SocketAssumptions
    <3>2. Range(readQ) = {} /\ Range(writeQ) \subseteq {None}
      BY <2>4 DEF Range, IInv, QueueInv, WriteQOk
    <3>3. Owes(answers', connectQ', readQ', writeQ')
      BY <1>1, <2>1, <2>3, <2>4, <3>1, <3>2 DEF Owes
    <3> QED BY <1>1, <2>1, <2>3, <2>4, <3>1, <3>3
            DEF IInv, QueueInv, QueueModes, WriteQOk, NoRepeats, States
  <2> QED BY <2>2, <2>5, <2>6, <2>7 DEF IInv
<1> QED BY <1>2, <1>3

(* onConnectReady() and tick(ConnectRep): a connection under way is that of  *)
(* the request that waits for it.                                           *)
LEMMA ConnectRepSteps ==
  ASSUME IInv, ConnectRep
  PROVE  IInv'
<1>1. pc = "idle" /\ UNCHANGED <<readQ, writeQ, pc, depth>>
  BY DEF ConnectRep
<1>2. PICK status \in {"Ok", "Fatal"} :
        /\ ConnectReady(status)
        /\ IF state # "ConnectWait"
           THEN UNCHANGED <<state, connectQ, answers>>
           ELSE /\ state' = IF status = "Ok" THEN "Connected" ELSE "Closed"
                /\ connectQ' = None
                /\ answers' = Answer(answers, connectQ, status)
  BY DEF ConnectRep
<1>3. state = "ConnectWait"
  <2>1. client \in Conns /\ sock[client].link = "connecting"
    BY <1>2 DEF ConnectReady, IInv, TransInv
  <2> QED BY <2>1 DEF IInv, Modes
<1>4. /\ state' = IF status = "Ok" THEN "Connected" ELSE "Closed"
      /\ connectQ' = None
      /\ answers' = Answer(answers, connectQ, status)
  BY <1>2, <1>3
<1>5. /\ TransInv'
      /\ Connecting' = Connecting \ {client}
      /\ UNCHANGED <<listening, writeArmed>>
      /\ status = "Ok" => /\ Open' \subseteq Open \cup {client}
                          /\ connected' /\ client' = client
      /\ status = "Fatal" => Open' = Open
  BY <1>2, ConnectReadyKeeps DEF IInv
<1>6. /\ connectQ # None /\ connectQ \in Connects
      /\ readQ = <<>> /\ \A p \in Peers : writeQ[p] = None
  BY <1>3 DEF IInv, QueueInv, QueueModes
<1>7. Range(readQ) = {} /\ Range(writeQ) \subseteq {None}
  BY <1>6 DEF Range, IInv, QueueInv, WriteQOk
<1>8. Waiting(answers) = {connectQ}
  BY <1>3, <1>6, <1>7 DEF IInv, QueueInv, Owes
<1>9. AnswersOk(answers') /\ Waiting(answers') = {}
  <2>1. connectQ \in Requests /\ answers[connectQ] = "pending"
    BY <1>8 DEF Waiting
  <2>2. status \in Status
    BY DEF Status
  <2>3. AnswersOk(answers') /\ Waiting(answers') = Waiting(answers) \ {connectQ}
    BY <1>4, <2>1, <2>2, AnswerGiven DEF IInv, QueueInv
  <2> QED BY <1>8, <2>3
<1>10. Open = {} /\ Connecting \subseteq {client} /\ ~listening
  BY <1>3 DEF IInv, Modes, Connecting
<1>11. Modes'
  <2>1. \A k \in Conns : sock'[k].link # "connecting"
    BY <1>5, <1>10 DEF Connecting
  <2>2. CASE status = "Ok"
    BY <1>4, <1>5, <1>10, <2>1, <2>2 DEF Modes
  <2>3. CASE status = "Fatal"
    BY <1>4, <1>5, <1>10, <2>1, <2>3 DEF Modes
  <2> QED BY <2>2, <2>3
<1>12. WritesArmed' /\ ReadsArmed' /\ ControlInv'
  BY <1>1, <1>4, <1>6 DEF IInv, WritesArmed, ReadsArmed, ControlInv, Peers
<1>13. AnsweredWhenClosed'
  BY <1>9 DEF AnsweredWhenClosed, Pending, Waiting
<1>14. QueueInv'
  <2>1. Owes(answers', connectQ', readQ', writeQ')
    BY <1>1, <1>4, <1>7, <1>9 DEF Owes
  <2> QED BY <1>1, <1>4, <1>6, <1>9, <2>1
          DEF IInv, QueueInv, QueueModes, WriteQOk, NoRepeats, States
<1> QED BY <1>5, <1>11, <1>12, <1>13, <1>14 DEF IInv

(* tick(ReadReq) *)
LEMMA ReadSteps ==
  ASSUME IInv, NEW r \in Reads, Read(r)
  PROVE  IInv'
<1>1. r \in Requests /\ Unasked(r) /\ UNCHANGED <<transportVars, state, connectQ, writeQ>>
  BY DEF Requests, Read
<1>2. CASE /\ state = "Closed"
           /\ answers' = Answer(answers, r, "Error")
           /\ UNCHANGED <<readQ, pc, depth>>
  BY <1>1, <1>2, RejectKeeps DEF Status
<1>3. CASE /\ answers' = Answer(answers, r, "WouldBlock")
           /\ UNCHANGED <<readQ, pc, depth>>
  BY <1>1, <1>3, RejectKeeps DEF Status
<1>4. CASE /\ state # "Closed" /\ ~ReadQueueFull
           /\ readQ' = Append(readQ, r)
           /\ answers' = Asked(r)
           /\ EnterTransportRead
  <2>1. state \in {"Bound", "Connected"}
    BY <1>4 DEF Read
  <2>2. /\ AnswersOk(answers') /\ Waiting(answers') = Waiting(answers) \cup {r}
        /\ r \notin Waiting(answers)
    BY <1>1, <1>4, AskedWaits DEF IInv, QueueInv, Unasked
  <2>3. r # None
    BY <1>1, SocketAssumptions
  <2>4. Waiting(answers) = ({connectQ} \cup Range(readQ) \cup Range(writeQ)) \ {None}
    BY <1>4 DEF IInv, QueueInv, Owes
  <2>5. r \notin Range(readQ) /\ r \notin Range(writeQ)
    BY <2>2, <2>3, <2>4
  <2>6. /\ readQ' \in Seq(Reads) /\ Len(readQ') = Len(readQ) + 1 /\ NoRepeats(readQ')
        /\ Range(readQ') = Range(readQ) \cup {r}
    BY <1>4, <2>5, ReadQueued DEF IInv, QueueInv
  <2>7. Len(readQ') <= ReadLimit
    <3>1. Len(readQ) \in Nat /\ Len(readQ) <= ReadLimit /\ Len(readQ) # ReadLimit
      BY <1>4 DEF IInv, QueueInv, ReadQueueFull
    <3> QED BY <2>6, <3>1, SocketAssumptions
  <2>8. Owes(answers', connectQ', readQ', writeQ')
    BY <1>1, <2>2, <2>3, <2>4, <2>6 DEF Owes
  <2>9. QueueInv'
    <3>1. connectQ' = None /\ state' \in {"Bound", "Connected"} /\ state' = state
      BY <1>1, <2>1 DEF IInv, QueueInv, QueueModes
    <3>2. QueueModes'
      BY <3>1 DEF QueueModes
    <3>3. WriteQOk(writeQ') /\ Range(readQ') \cap Range(writeQ') = {}
      BY <1>1, <2>5, <2>6 DEF IInv, QueueInv
    <3> QED BY <2>2, <2>6, <2>7, <2>8, <3>1, <3>2, <3>3 DEF QueueInv, States
  <2>10. TransInv'
    BY <1>1 DEF IInv, TransInv, transportVars, Open, Connecting, Holds, Synced
  <2>11. Modes' /\ WritesArmed'
    BY <1>1 DEF IInv, Modes, WritesArmed, transportVars, Open
  <2>12. ReadsArmed' /\ AnsweredWhenClosed'
    BY <1>1, <1>4, <2>1 DEF EnterTransportRead, ReadsArmed, AnsweredWhenClosed
  <2>13. ControlInv'
    BY <1>4 DEF IInv, ControlInv, EnterTransportRead
  <2> QED BY <2>9, <2>10, <2>11, <2>12, <2>13 DEF IInv
<1> QED BY <1>2, <1>3, <1>4 DEF Read

(* One turn of transportRead(): the first request is answered, or the        *)
(* connections are armed for the next time.                                 *)
LEMMA ReadTurnSteps ==
  ASSUME IInv, ReadTurn
  PROVE  IInv'
<1>1. pc = "reading" /\ readQ # <<>> /\ UNCHANGED <<state, connectQ, writeQ>>
  BY DEF ReadTurn
<1>2. state \in {"Bound", "Connected"}
  BY <1>1 DEF IInv, QueueInv, QueueModes, States
<1>3. CASE ReadBlocked
  <2>1. /\ ResumeRead("WouldBlock") /\ UNCHANGED <<readQ, answers>>
        /\ depth' = depth - 1 /\ pc' = IF depth = 1 THEN "idle" ELSE "callback"
    BY <1>3 DEF ReadBlocked, LeaveTransportRead
  <2>2. /\ TransInv' /\ Fades
        /\ Open \subseteq {client} => Open \subseteq readArmed'
    BY <2>1, ResumeReadKeeps DEF IInv
  <2>3. Modes' /\ WritesArmed'
    BY <1>1, <2>2, FadesModes, FadesWrites DEF IInv
  <2>4. ReadsArmed'
    <3> SUFFICES ASSUME state' = "Connected", client' \in Open'
                 PROVE  client' \in readArmed'
      BY DEF ReadsArmed
    <3>1. Open \subseteq {client}
      BY <1>1 DEF IInv, Modes
    <3>2. client' = client /\ client \in Open
      BY <2>2 DEF Fades, Open
    <3> QED BY <2>2, <3>1, <3>2
  <2>5. ControlInv'
    BY <1>1, <2>1 DEF IInv, ControlInv
  <2> QED BY <1>1, <2>1, <2>2, <2>3, <2>4, <2>5, QueuesStay DEF IInv, queueVars
<1>4. CASE \E status \in {"Ok", "Fatal", "Eof"}, given \in {"Ok", "Eof"} :
             /\ ResumeRead(status)
             /\ readQ' = Tail(readQ)
             /\ answers' = Answer(answers, Head(readQ), given)
             /\ pc' = "callback"
             /\ UNCHANGED depth
  <2>1. PICK status \in {"Ok", "Fatal", "Eof"}, given \in {"Ok", "Eof"} :
             /\ ResumeRead(status)
             /\ readQ' = Tail(readQ)
             /\ answers' = Answer(answers, Head(readQ), given)
             /\ pc' = "callback"
             /\ UNCHANGED depth
    BY <1>4
  <2>2. TransInv' /\ Fades
    BY <2>1, ResumeReadKeeps DEF IInv
  <2>3. Modes' /\ WritesArmed'
    BY <1>1, <2>2, FadesModes, FadesWrites DEF IInv
  <2>4. ReadsArmed' /\ AnsweredWhenClosed' /\ ControlInv'
    BY <1>1, <1>2, <2>1 DEF IInv, ReadsArmed, AnsweredWhenClosed, ControlInv
  <2>5. PICK h : h = Head(readQ)
    OBVIOUS
  <2>6. /\ readQ' \in Seq(Reads) /\ Len(readQ') <= Len(readQ) /\ NoRepeats(readQ')
        /\ h \in Range(readQ) /\ h \in Reads
        /\ Range(readQ') = Range(readQ) \ {h}
    BY <1>1, <2>1, <2>5, ReadTaken DEF IInv, QueueInv
  <2>7. h \in Requests /\ h # None
    BY <2>6, SocketAssumptions DEF Requests
  <2>8. connectQ = None /\ Range(readQ) \cap Range(writeQ) = {}
        /\ Waiting(answers) = ({connectQ} \cup Range(readQ) \cup Range(writeQ)) \ {None}
    BY <1>2 DEF IInv, QueueInv, QueueModes, Owes
  <2>9. answers[h] = "pending"
    BY <2>6, <2>7, <2>8 DEF Waiting
  <2>10. AnswersOk(answers') /\ Waiting(answers') = Waiting(answers) \ {h}
    BY <2>1, <2>5, <2>7, <2>9, AnswerGiven DEF IInv, QueueInv, Status
  <2>11. Owes(answers', connectQ', readQ', writeQ')
    BY <1>1, <2>6, <2>7, <2>8, <2>10 DEF Owes
  <2>12. Len(readQ') <= ReadLimit
    <3>1. Len(readQ) \in Nat /\ Len(readQ') \in Nat /\ Len(readQ) <= ReadLimit
      BY <2>6 DEF IInv, QueueInv
    <3> QED BY <2>6, <3>1, SocketAssumptions
  <2>13. QueueInv'
    <3>1. QueueModes' /\ state' \in States /\ connectQ' \in Connects \cup {None}
      BY <1>1, <1>2, <2>8 DEF QueueModes, States
    <3>2. WriteQOk(writeQ') /\ Range(readQ') \cap Range(writeQ') = {}
      BY <1>1, <2>6, <2>8 DEF IInv, QueueInv
    <3> QED BY <2>6, <2>10, <2>11, <2>12, <3>1, <3>2 DEF QueueInv
  <2> QED BY <2>2, <2>3, <2>4, <2>13 DEF IInv
<1> QED BY <1>3, <1>4 DEF ReadTurn

(* What close() does to the transport and the mode, whatever it answers. *)
LEMMA ClosedModes ==
  ASSUME IInv, TransportClose, state' = "Closed"
  PROVE  TransInv' /\ Modes' /\ WritesArmed' /\ ReadsArmed'
<1>1. /\ TransInv'
      /\ Open' = {}
      /\ Connecting' = Connecting \ {client}
      /\ ~listening'
  BY CloseKeeps DEF IInv
<1>2. Connecting \subseteq {client}
  BY DEF IInv, Modes, Connecting
<1>3. \A k \in Conns : sock'[k].link # "connecting"
  BY <1>1, <1>2 DEF Connecting
<1> QED BY <1>1, <1>3 DEF Modes, WritesArmed, ReadsArmed

(* The end of the stream on a client closes the socket and ends the process. *)
LEMMA ReadEndOfStreamSteps ==
  ASSUME IInv, ReadEndOfStream
  PROVE  IInv'
<1>1. /\ TransportClose /\ state = "Connected" /\ state' = "Closed" /\ readQ' = <<>>
      /\ answers' = [r \in Requests |->
                      IF r \in Pending \ {Head(readQ)} THEN "Error" ELSE answers[r]]
      /\ pc' = "crashed" /\ depth' = 0
      /\ UNCHANGED <<connectQ, writeQ>>
  BY DEF ReadEndOfStream, Crash
<1>2. TransInv' /\ Modes' /\ WritesArmed' /\ ReadsArmed'
  BY <1>1, ClosedModes
<1>3. ControlInv' /\ AnsweredWhenClosed'
  BY <1>1 DEF ControlInv, AnsweredWhenClosed
<1>4. QueueInv'
  <2>1. AnswersOk(answers')
    BY <1>1 DEF IInv, QueueInv, AnswersOk, Status
  <2>2. connectQ = None
    BY <1>1 DEF IInv, QueueInv, QueueModes
  <2>3. readQ' \in Seq(Reads) /\ Len(readQ') <= ReadLimit /\ NoRepeats(readQ')
        /\ Range(readQ') = {}
    BY <1>1, SocketAssumptions DEF NoRepeats, Range
  <2>4. QueueModes'
    BY <1>1, <2>2 DEF QueueModes
  <2> QED BY <1>1, <2>1, <2>2, <2>3, <2>4 DEF IInv, QueueInv, States, WriteQOk
<1> QED BY <1>2, <1>3, <1>4 DEF IInv

(* tick(CloseReq) answers what is queued, each once, and its own request. *)
LEMMA CloseSteps ==
  ASSUME IInv, NEW r \in Closes, Close(r)
  PROVE  IInv'
<1>1. r \in Requests /\ Unasked(r) /\ UNCHANGED <<writeQ, pc, depth>>
  BY DEF Requests, Close
<1>2. CASE /\ state = "Closed"
           /\ answers' = Answer(answers, r, "Ok")
           /\ UNCHANGED <<transportVars, state, connectQ, readQ>>
  BY <1>1, <1>2, RejectKeeps DEF Status
<1>3. CASE /\ state # "Closed"
           /\ TransportClose
           /\ state' = "Closed"
           /\ connectQ' = None
           /\ readQ' = <<>>
           /\ answers' = [q \in Requests |->
                            IF q = r THEN "Ok"
                            ELSE IF q \in Queued THEN Answer(answers, q, "Error")[q]
                            ELSE answers[q]]
  <2>1. TransInv' /\ Modes' /\ WritesArmed' /\ ReadsArmed'
    BY <1>3, ClosedModes
  <2>2. answers \in [Requests -> {"unasked", "pending"} \cup Status]
    BY DEF IInv, QueueInv, AnswersOk
  <2>3. Queued = Waiting(answers)
    BY <1>3 DEF IInv, QueueInv, Owes, Queued
  <2>4. \A q \in Queued : Answer(answers, q, "Error")[q] = "Error"
    BY <2>2, <2>3 DEF Answer, Waiting
  <2>5. \A q \in Requests : answers'[q] = IF q = r THEN "Ok"
                              ELSE IF q \in Queued THEN "Error" ELSE answers[q]
    BY <1>3, <2>4
  <2>6. /\ DOMAIN answers' = Requests
        /\ answers' = [q \in Requests |-> answers'[q]]
    BY <1>3
  <2>7. \A q \in Requests : answers'[q] \in {"unasked", "pending"} \cup Status
                            /\ answers'[q] # "pending"
    BY <2>2, <2>3, <2>5 DEF Status, Waiting
  <2>8. AnswersOk(answers')
    BY <2>6, <2>7 DEF AnswersOk
  <2>9. ControlInv'
    BY <1>1 DEF IInv, ControlInv
  <2>10. AnsweredWhenClosed'
    BY <2>7 DEF AnsweredWhenClosed, Pending
  <2>11. QueueInv'
    <3>1. readQ' \in Seq(Reads) /\ Len(readQ') <= ReadLimit /\ NoRepeats(readQ')
          /\ Range(readQ') = {}
      BY <1>3, SocketAssumptions DEF NoRepeats, Range
    <3>2. QueueModes'
      BY <1>3 DEF QueueModes
    <3> QED BY <1>1, <1>3, <2>8, <3>1, <3>2 DEF IInv, QueueInv, States, WriteQOk
  <2> QED BY <2>1, <2>9, <2>10, <2>11 DEF IInv
<1> QED BY <1>2, <1>3 DEF Close

(* transportWrite(), over queues that may have one request more than before: *)
(* a write that blocks is polled for, any other leaves the queue answered.   *)
LEMMA TransportWriteKeeps ==
  ASSUME IInv, NEW peer \in Peers, NEW q, NEW asked,
         WriteQOk(q), AnswersOk(asked), Owes(asked, connectQ, readQ, q),
         Range(readQ) \cap Range(q) = {},
         state \in {"Bound", "Connected"},
         state = "Bound" => \A k \in Conns \ {peer} : q[k] = writeQ[k],
         TransportWrite(peer, q, asked),
         pc # "crashed", UNCHANGED <<state, connectQ, readQ, pc, depth>>
  PROVE  IInv'
<1> DEFINE key == WriteKey(peer)
<1>1. /\ key \in Peers
      /\ state = "Connected" => key = Empty
      /\ state = "Bound" => key = peer
  BY DEF WriteKey, Peers
<1>2. ControlInv' /\ AnsweredWhenClosed' /\ connectQ = None
  BY DEF IInv, ControlInv, AnsweredWhenClosed, QueueInv, QueueModes
<1>3. ASSUME WriteQOk(writeQ'), AnswersOk(answers'),
             Owes(answers', connectQ, readQ, writeQ'),
             Range(readQ) \cap Range(writeQ') = {}
      PROVE  QueueInv'
  <2>1. QueueModes'
    BY <1>2 DEF QueueModes
  <2> QED BY <1>3, <2>1 DEF IInv, QueueInv, NoRepeats
<1>4. CASE q[key] = None /\ writeQ' = q /\ answers' = asked /\ UNCHANGED transportVars
  <2>1. QueueInv'
    BY <1>3, <1>4
  <2>2. TransInv' /\ Modes' /\ ReadsArmed'
    BY <1>4 DEF IInv, TransInv, Modes, ReadsArmed, transportVars, Open, Connecting,
               Holds, Synced
  <2>3. WritesArmed'
    <3>1. /\ sock' = sock /\ writeArmed' = writeArmed /\ client' = client
          /\ Open' = Open
      BY <1>4 DEF transportVars, Open
    <3>2. CASE state = "Connected"
      BY <1>1, <1>4, <3>2 DEF WritesArmed
    <3>3. CASE state = "Bound"
      <4>1. \A k \in Conns : q[k] # None => writeQ[k] # None
        BY <1>1, <1>4, <3>3
      <4> QED BY <1>4, <3>1, <3>3, <4>1 DEF IInv, WritesArmed
    <3> QED BY <3>2, <3>3
  <2> QED BY <1>2, <2>1, <2>2, <2>3 DEF IInv
<1>5. ASSUME q[key] # None, NEW status \in Status, ResumeWrite(key, status),
             IF status = "WouldBlock"
             THEN writeQ' = q /\ answers' = asked
             ELSE Finalize(q, key, asked, status)
      PROVE  IInv'
  <2>1. /\ TransInv' /\ Fades /\ ReadsStay
        /\ status = "WouldBlock" =>
             /\ Target(key) \in Open /\ Target(key) \in writeArmed'
             /\ UNCHANGED sock
    BY <1>5, ResumeWriteKeeps DEF IInv
  <2>2. Modes' /\ ReadsArmed'
    BY <2>1, FadesModes, FadesReads DEF IInv
  <2>3. /\ client' = client
        /\ \A k \in Conns : k \in Open' => k \in Open
        /\ \A k \in Open' : k \in writeArmed => k \in writeArmed'
        /\ \A k \in Conns : sock[k].link \in {"open", "gone"} =>
                              sock'[k].link \in {"open", "gone"}
    BY <2>1 DEF Fades, Open
  <2>4. CASE status = "WouldBlock"
    <3>1. QueueInv'
      BY <1>3, <1>5, <2>4
    <3>2. WritesArmed'
      <4>1. CASE state = "Connected"
        <5> SUFFICES ASSUME client' \in Open'
                     PROVE  client' \in writeArmed'
          BY <4>1 DEF WritesArmed
        <5>1. client \in Open
          BY <2>3 DEF Open
        <5>2. Target(key) = client
          BY <1>1, <4>1, <5>1, TargetIsOpen DEF IInv, Modes
        <5> QED BY <2>1, <2>3, <2>4, <5>2
      <4>2. CASE state = "Bound"
        <5> SUFFICES ASSUME NEW k \in Conns, q[k] # None
                     PROVE  /\ sock'[k].link \in {"open", "gone"}
                            /\ k \in Open' => k \in writeArmed'
          BY <1>5, <2>4, <4>2 DEF WritesArmed
        <5>1. CASE k = peer
          <6>1. k # Empty /\ k # None
            BY TransportAssumptions
          <6>2. Target(k) \in Open
            BY <1>1, <2>1, <2>4, <4>2, <5>1
          <6>3. None \notin Open
            BY TransportAssumptions DEF Open
          <6>4. Target(k) = k
            BY <6>1, <6>2, <6>3, TargetIsOpen
          <6>5. k \in writeArmed' /\ sock[k].link = "open"
            BY <1>1, <2>1, <2>4, <4>2, <5>1, <6>2, <6>4 DEF Open
          <6> QED BY <2>3, <6>5
        <5>2. CASE k # peer
          <6>1. writeQ[k] # None
            BY <4>2, <5>2
          <6>2. sock[k].link \in {"open", "gone"} /\ (k \in Open => k \in writeArmed)
            BY <4>2, <6>1 DEF IInv, WritesArmed
          <6> QED BY <2>3, <6>2
        <5> QED BY <5>1, <5>2
      <4> QED BY <4>1, <4>2
    <3> QED BY <1>2, <2>1, <2>2, <3>1, <3>2 DEF IInv
  <2>5. CASE status # "WouldBlock"
    <3>1. /\ writeQ' = [q EXCEPT ![key] = None]
          /\ answers' = Answer(asked, q[key], status)
      BY <1>5, <2>5 DEF Finalize
    <3>2. PICK r : r = q[key]
      OBVIOUS
    <3>3. /\ WriteQOk(writeQ')
          /\ r \in Range(q) /\ r \in Writes
          /\ Range(writeQ') \ {None} = (Range(q) \ {None}) \ {r}
      BY <1>1, <1>5, <3>1, <3>2, WriteTaken
    <3>4. r \in Requests /\ r # None
      BY <1>5, <3>2, <3>3 DEF Requests
    <3>5. Waiting(asked) = ({connectQ} \cup Range(readQ) \cup Range(q)) \ {None}
      BY DEF Owes
    <3>6. asked[r] = "pending"
      BY <3>3, <3>4, <3>5 DEF Waiting
    <3>7. AnswersOk(answers') /\ Waiting(answers') = Waiting(asked) \ {r}
      BY <1>5, <3>1, <3>2, <3>4, <3>6, AnswerGiven
    <3>8. r \notin Range(readQ)
      BY <3>3
    <3>9. Owes(answers', connectQ, readQ, writeQ')
      BY <1>2, <3>3, <3>5, <3>7, <3>8 DEF Owes
    <3>10. None \notin Range(readQ)
      BY NoneIsNoRead DEF IInv
    <3>11. Range(readQ) \cap Range(writeQ') = {}
      BY <3>3, <3>10
    <3>12. QueueInv'
      BY <1>3, <3>3, <3>7, <3>9, <3>11
    <3>13. /\ writeQ'[key] = None
           /\ \A p \in Peers \ {key} : writeQ'[p] = q[p]
      BY <1>1, <3>1 DEF WriteQOk
    <3>14. WritesArmed'
      <4>1. CASE state = "Connected"
        BY <1>1, <3>13, <4>1 DEF WritesArmed
      <4>2. CASE state = "Bound"
        <5> SUFFICES ASSUME NEW k \in Conns, writeQ'[k] # None
                     PROVE  /\ sock'[k].link \in {"open", "gone"}
                            /\ k \in Open' => k \in writeArmed'
          BY <4>2 DEF WritesArmed
        <5>1. k # peer
          BY <1>1, <3>13, <4>2
        <5>2. writeQ[k] # None
          BY <1>1, <3>13, <4>2, <5>1 DEF Peers
        <5>3. sock[k].link \in {"open", "gone"} /\ (k \in Open => k \in writeArmed)
          BY <4>2, <5>2 DEF IInv, WritesArmed
        <5> QED BY <2>3, <5>3
      <4> QED BY <4>1, <4>2
    <3> QED BY <1>2, <2>1, <2>2, <3>12, <3>14 DEF IInv
  <2> QED BY <2>4, <2>5
<1> QED BY <1>4, <1>5 DEF TransportWrite

(* onWriteReady() and tick(WriteReadyRep) *)
LEMMA WriteReadyRepSteps ==
  ASSUME IInv, WriteReadyRep
  PROVE  IInv'
<1>1. PICK k \in Open : TransportWrite(k, writeQ, answers)
  BY DEF WriteReadyRep
<1>2. pc # "crashed" /\ UNCHANGED <<state, connectQ, readQ, pc, depth>>
  BY DEF WriteReadyRep
<1>3. k \in Peers
  BY DEF Open, Peers
<1>4. state \in {"Bound", "Connected"}
  BY <1>1 DEF IInv, Modes
<1>5. /\ WriteQOk(writeQ) /\ AnswersOk(answers)
      /\ Owes(answers, connectQ, readQ, writeQ)
      /\ Range(readQ) \cap Range(writeQ) = {}
  BY <1>4 DEF IInv, QueueInv
<1> QED BY <1>1, <1>2, <1>3, <1>4, <1>5, TransportWriteKeeps

(* tick(WriteReq) *)
LEMMA WriteSteps ==
  ASSUME IInv, NEW r \in Writes, NEW peer \in Peers, Write(r, peer)
  PROVE  IInv'
<1>1. r \in Requests /\ Unasked(r) /\ UNCHANGED <<state, connectQ, readQ>>
  BY DEF Requests, Write
<1>2. CASE /\ answers' = Answer(answers, r, "Error")
           /\ UNCHANGED <<transportVars, writeQ, pc, depth>>
  BY <1>1, <1>2, RejectKeeps DEF Status
<1>3. CASE /\ answers' = Answer(answers, r, "Fatal")
           /\ UNCHANGED <<transportVars, writeQ, pc, depth>>
  BY <1>1, <1>3, RejectKeeps DEF Status
<1>4. CASE Crash /\ UNCHANGED <<transportVars, writeQ, answers>>
  <2>1. pc' = "crashed" /\ depth' = 0
    BY <1>4 DEF Crash
  <2>2. TransInv'
    BY <1>4 DEF IInv, TransInv, transportVars, Open, Connecting, Holds, Synced
  <2>3. Modes' /\ WritesArmed'
    BY <1>1, <1>4 DEF IInv, Modes, WritesArmed, transportVars, Open
  <2>4. ReadsArmed' /\ ControlInv' /\ AnsweredWhenClosed'
    BY <2>1 DEF ReadsArmed, ControlInv, AnsweredWhenClosed
  <2> QED BY <1>1, <1>4, <2>2, <2>3, <2>4, QueuesStay DEF IInv, queueVars
<1>5. CASE /\ Writable(peer)
           /\ writeQ[peer] = None
           /\ TransportWrite(peer, [writeQ EXCEPT ![peer] = r], Asked(r))
           /\ UNCHANGED <<pc, depth>>
  <2>1. PICK q : q = [writeQ EXCEPT ![peer] = r]
    OBVIOUS
  <2>2. PICK asked : asked = Asked(r)
    OBVIOUS
  <2>3. state \in {"Bound", "Connected"} /\ pc # "crashed"
    BY <1>1, <1>5 DEF Writable, Unasked
  <2>4. /\ AnswersOk(asked) /\ Waiting(asked) = Waiting(answers) \cup {r}
        /\ r \notin Waiting(answers)
    BY <1>1, <2>2, AskedWaits DEF IInv, QueueInv, Unasked
  <2>5. Waiting(answers) = ({connectQ} \cup Range(readQ) \cup Range(writeQ)) \ {None}
    BY <2>3 DEF IInv, QueueInv, Owes
  <2>6. r # None
    BY <1>1, SocketAssumptions
  <2>7. r \notin Range(writeQ) /\ r \notin Range(readQ)
    BY <2>4, <2>5, <2>6
  <2>8. /\ WriteQOk(q)
        /\ Range(q) \ {None} = (Range(writeQ) \ {None}) \cup {r}
    <3>1. WriteQOk(writeQ) /\ writeQ[peer] = None
      BY <1>5 DEF IInv, QueueInv
    <3>2. /\ q \in [Peers -> Writes \cup {None}] /\ q[peer] = r
          /\ \A x \in Peers \ {peer} : q[x] = writeQ[x]
      BY <2>1, <3>1 DEF WriteQOk
    <3> QED BY <2>6, <2>7, <3>1, <3>2, WriteQueued
  <2>9. Owes(asked, connectQ, readQ, q)
    BY <2>4, <2>5, <2>6, <2>8 DEF Owes
  <2>10. Range(readQ) \cap Range(q) = {}
    <3>1. None \notin Range(readQ)
      BY NoneIsNoRead DEF IInv
    <3>2. Range(readQ) \cap Range(writeQ) = {}
      BY DEF IInv, QueueInv
    <3> QED BY <2>7, <2>8, <3>1, <3>2
  <2>11. \A k \in Conns \ {peer} : q[k] = writeQ[k]
    BY <2>1 DEF IInv, QueueInv, WriteQOk, Peers
  <2>12. TransportWrite(peer, q, asked)
    BY <1>5, <2>1, <2>2
  <2> QED BY <1>1, <1>5, <2>3, <2>4, <2>8, <2>9, <2>10, <2>11, <2>12,
             TransportWriteKeeps
<1> QED BY <1>2, <1>3, <1>4, <1>5 DEF Write

-----------------------------------------------------------------------------
(* Every step keeps the invariant.                                         *)

LEMMA NextIInv ==
  ASSUME IInv, [Next]_vars
  PROVE  IInv'
<1>1. ASSUME NEW r \in Binds, Bind(r)
      PROVE  IInv'
  BY <1>1, BindSteps
<1>2. ASSUME NEW r \in Connects, Connect(r)
      PROVE  IInv'
  BY <1>2, ConnectSteps
<1>3. ASSUME NEW r \in Reads, Read(r)
      PROVE  IInv'
  BY <1>3, ReadSteps
<1>4. ASSUME NEW r \in Writes, NEW p \in Peers, Write(r, p)
      PROVE  IInv'
  BY <1>4, WriteSteps
<1>5. ASSUME NEW r \in Closes, Close(r)
      PROVE  IInv'
  BY <1>5, CloseSteps
<1>6. CASE TransportEvent
  BY <1>6, EnvironmentSteps, ConnectRepSteps, ReadReadyRepSteps,
     WriteReadyRepSteps, AcceptSteps DEF TransportEvent
<1>7. CASE TransportRead
  BY <1>7, ReadTurnSteps, ReadsDoneSteps, ReadEndOfStreamSteps,
     CallbackReturnsSteps DEF TransportRead
<1>8. CASE Environment
  BY <1>8, EnvironmentSteps
<1>9. CASE UNCHANGED vars
  <2>1. UNCHANGED transportVars /\ UNCHANGED queueVars /\ UNCHANGED <<pc, depth>>
    BY <1>9 DEF vars, queueVars
  <2>2. QueueInv'
    BY <2>1, QueuesStay DEF IInv
  <2>3. TransInv'
    BY <2>1 DEF IInv, TransInv, transportVars, Open, Connecting, Holds, Synced
  <2>4. Modes' /\ WritesArmed'
    BY <2>1 DEF IInv, Modes, WritesArmed, transportVars, Open, queueVars
  <2>5. ReadsArmed'
    BY <2>1 DEF IInv, ReadsArmed, transportVars, Open, queueVars
  <2>6. ControlInv' /\ AnsweredWhenClosed'
    BY <2>1 DEF IInv, ControlInv, AnsweredWhenClosed, Pending, queueVars
  <2> QED BY <2>2, <2>3, <2>4, <2>5, <2>6 DEF IInv
<1> QED BY <1>1, <1>2, <1>3, <1>4, <1>5, <1>6, <1>7, <1>8, <1>9
        DEF Next, UserRequest

(* The invariant holds in every reachable state. *)
THEOREM SocketInvariant == Spec => []IInv
<1>1. Init => IInv
  BY InitIInv
<1>2. IInv /\ [Next]_vars => IInv'
  BY NextIInv
<1> QED BY <1>1, <1>2, PTL DEF Spec

-----------------------------------------------------------------------------
(* What it says.                                                           *)

(* A state of the invariant has the types. *)
LEMMA IInvTypes ==
  ASSUME IInv
  PROVE  TypeOK
<1>1. TransportTypeOK
  <2>1. Open \subseteq Conns
    BY DEF Open
  <2>2. IsWatcher(watcher, Conns)
    BY DEF IInv, TransInv, Holds
  <2> QED BY <2>1, <2>2 DEF IInv, TransInv, TransportTypeOK
<1>2. /\ state \in States /\ connectQ \in Connects \cup {None}
      /\ readQ \in Seq(Reads) /\ Len(readQ) <= ReadLimit
      /\ writeQ \in [Peers -> Writes \cup {None}]
  BY DEF IInv, QueueInv, WriteQOk
<1>3. pc \in {"idle", "reading", "callback", "crashed"} /\ depth \in Nat
  BY DEF IInv, ControlInv
<1>4. answers \in [Requests -> {"unasked", "pending", "twice"} \cup Status]
  BY DEF IInv, QueueInv, AnswersOk
<1> QED BY <1>1, <1>2, <1>3, <1>4 DEF TypeOK

(* The flags, the table of callbacks and epoll agree. *)
LEMMA IInvWatches ==
  ASSUME IInv
  PROVE  WatchesAgree
<1> DEFINE under == {k \in {client} : k \in Conns /\ sock[k].link = "connecting"}
<1>1. under = Connecting
  BY DEF IInv, Modes, Connecting
<1>2. /\ IsWatcher(watcher, Conns)
      /\ Synced(watcher)
      /\ \A k \in Conns : Watched(watcher, k, "in") <=> k \in readArmed
      /\ \A k \in Conns : Watched(watcher, k, "out") <=> k \in writeArmed \cup Connecting
  BY DEF IInv, TransInv, Holds
<1>3. /\ readArmed \subseteq Open /\ writeArmed \subseteq Open
      /\ Open \subseteq Conns /\ Connecting \subseteq Conns
  BY DEF IInv, TransInv, Open, Connecting
<1>4. watcher.callbacks \in SUBSET (Conns \X Flags)
  BY <1>2, WatcherParts
<1>5. ASSUME NEW e
      PROVE  e \in watcher.callbacks <=>
               e \in readArmed \X {"in"} \cup (writeArmed \cup Connecting) \X {"out"}
  <2>1. CASE e \in Conns \X Flags
    <3>1. PICK k \in Conns, flag \in Flags : e = <<k, flag>>
      BY <2>1
    <3>2. CASE flag = "in"
      BY <1>2, <3>1, <3>2 DEF Watched
    <3>3. CASE flag = "out"
      BY <1>2, <3>1, <3>3 DEF Watched
    <3> QED BY <3>2, <3>3 DEF Flags
  <2>2. CASE e \notin Conns \X Flags
    BY <1>3, <1>4, <2>2 DEF Flags
  <2> QED BY <2>1, <2>2
<1>6. watcher.callbacks = readArmed \X {"in"} \cup (writeArmed \cup Connecting) \X {"out"}
  BY <1>5
<1> QED BY <1>1, <1>2, <1>3, <1>6 DEF WatchesAgree, Synced

(* An owed read of a client is polled for. *)
LEMMA IInvReads ==
  ASSUME IInv
  PROVE  ConnectedReadIsArmed
<1> SUFFICES ASSUME pc = "idle", state = "Connected", readQ # <<>>, client \in Open
             PROVE  Polls(client, "in")
  BY DEF ConnectedReadIsArmed
<1>1. client \in readArmed /\ client \in Conns
  BY DEF IInv, ReadsArmed, Open
<1> QED BY <1>1 DEF IInv, TransInv, Holds, Synced, Polls, Flags

(* An owed write of an open connection is polled for. *)
LEMMA IInvWrites ==
  ASSUME IInv
  PROVE  WriteIsArmed
<1> SUFFICES ASSUME NEW k \in Open, writeQ[WriteKey(k)] # None
             PROVE  Polls(k, "out")
  BY DEF WriteIsArmed
<1>1. k \in Conns
  BY DEF Open
<1>2. k \in writeArmed
  <2>1. CASE state = "Connected"
    <3>1. WriteKey(k) = Empty /\ k = client
      BY <2>1 DEF WriteKey, IInv, Modes
    <3> QED BY <2>1, <3>1 DEF IInv, WritesArmed
  <2>2. CASE state = "Bound"
    BY <1>1, <2>2 DEF WriteKey, IInv, WritesArmed
  <2>3. state \in {"Bound", "Connected"}
    BY DEF IInv, Modes
  <2> QED BY <2>1, <2>2, <2>3
<1> QED BY <1>1, <1>2 DEF IInv, TransInv, Holds, Synced, Polls, Flags

(* Each variable keeps its type, read_queue_ its capacity. *)
THEOREM SocketTypes == Spec => []TypeOK
BY SocketInvariant, IInvTypes, PTL

(* No interleaving of requests, events, nested reads and close() calls a     *)
(* request's callback twice.                                                *)
THEOREM NobodyAnsweredTwice == Spec => []AnsweredOnce
<1>1. IInv => AnsweredOnce
  BY DEF IInv, QueueInv, AnswersOk, AnsweredOnce, Status
<1> QED BY <1>1, SocketInvariant, PTL

(* A closed socket owes nobody an answer. *)
THEOREM ClosedOwesNothing == Spec => []AnsweredWhenClosed
<1>1. IInv => AnsweredWhenClosed
  BY DEF IInv
<1> QED BY <1>1, SocketInvariant, PTL

(* Whoever waits is in the queue that will answer. *)
THEOREM WhoWaitsIsQueued == Spec => []PendingIsQueued
<1>1. IInv => PendingIsQueued
  BY DEF IInv, QueueInv, Owes, Waiting, PendingIsQueued, Pending
<1> QED BY <1>1, SocketInvariant, PTL

(* A client that owes a read polls its connection for input. *)
THEOREM OwedReadIsPolled == Spec => []ConnectedReadIsArmed
BY SocketInvariant, IInvReads, PTL

(* A socket that owes a write polls the open connection for output. *)
THEOREM OwedWriteIsPolled == Spec => []WriteIsArmed
BY SocketInvariant, IInvWrites, PTL

(* The transport's flags, the watcher's table and epoll's set agree. *)
THEOREM TablesAgree == Spec => []WatchesAgree
BY SocketInvariant, IInvWatches, PTL

(* The connection resumeRead() tries first is open. *)
THEOREM HotStaysOpen == Spec => []HotIsOpen
<1>1. IInv => HotIsOpen
  BY DEF IInv, TransInv, HotIsOpen
<1> QED BY <1>1, SocketInvariant, PTL
=============================================================================
