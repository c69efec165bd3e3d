------------------------------- MODULE Socket -------------------------------
(***************************************************************************)
(* rpc::Socket of tasks/socket over its transport.  The state machine is    *)
(* stepped by tick(), by user requests and by transport events, always on   *)
(* the event watcher's thread: a request from another thread waits in the   *)
(* watcher's queue, one from inside a callback is served at once.           *)
(*                                                                         *)
(* A callback that a tick() calls last is part of that tick(): what its     *)
(* user asks for is asked right after it.  Only transportRead() goes on     *)
(* after its callbacks, so its activations are kept: the callback of one    *)
(* may ask for a read and so start another.                                 *)
(*                                                                         *)
(* Reads and writes are asked for when the comments at socket.cpp:118 and   *)
(* :139 allow it, on a Bound or Connected socket, or after it was closed.   *)
(***************************************************************************)
EXTENDS SocketTransport, Sequences, Functions

CONSTANTS
  Binds, Connects, Reads, Writes, Closes,  \* requests, each made once
  ReadLimit                                \* capacity of read_queue_

Requests == Binds \cup Connects \cup Reads \cup Writes \cup Closes

ASSUME SocketAssumptions ==
  /\ ReadLimit \in Nat \ {0}
  /\ None \notin Requests

VARIABLES
  state,      \* state_
  connectQ,   \* connect_queue_
  readQ,      \* read_queue_
  writeQ,     \* write_queue_, by peer name
  pc,         \* "idle", "reading" in transportRead(), "callback" called by it
  depth,      \* activations of transportRead()
  answers     \* history: the answers each request's callback got

vars == <<transportVars, state, connectQ, readQ, writeQ, pc, depth, answers>>

States == {"Idle", "Bound", "ConnectWait", "Connected", "Closed"}
Status == {"Ok", "WouldBlock", "Fatal", "Error", "Eof"}
Peers  == Conns \cup {Empty}

Init ==
  /\ TransportInit
  /\ state = "Idle"
  /\ connectQ = None
  /\ readQ = <<>>
  /\ writeQ = [p \in Peers |-> None]
  /\ pc = "idle"
  /\ depth = 0
  /\ answers = [r \in Requests |-> "unasked"]

-----------------------------------------------------------------------------
(* Requests and their answers.                                             *)

(* The loop thread can take a request: between two ticks, or in a callback. *)
Unasked(r) == pc \in {"idle", "callback"} /\ answers[r] = "unasked"

(* A callback is called with a status.  A second call is recorded as such. *)
Answer(f, r, status) ==
  [f EXCEPT ![r] = IF @ \in {"unasked", "pending"} THEN status ELSE "twice"]

Asked(r) == [answers EXCEPT ![r] = "pending"]

Pending == {r \in Requests : answers[r] = "pending"}

(* Fault: close() goes through the connects and the reads only. *)
QueuedReads == ({connectQ} \cup Range(readQ)) \ {None}

(* The requests close() goes through. *)
Queued == ({connectQ} \cup Range(readQ) \cup Range(writeQ)) \ {None}

(* Calling the empty callback of a CloseReq the socket made itself, or the   *)
(* moved-from callback of a rejected WriteReq, jumps to a null pointer.     *)
Crash == pc' = "crashed" /\ depth' = 0

-----------------------------------------------------------------------------
(* tick(BindReq) and the BindRep the transport replays inside it. *)
Bind(r) ==
  /\ Unasked(r)
  /\ IF state # "Idle"
     THEN /\ answers' = Answer(answers, r, "Fatal")
          /\ UNCHANGED <<transportVars, state>>
     ELSE \E ok \in BOOLEAN :
            /\ TransportBind(ok)
            /\ state' = IF ok THEN "Bound" ELSE "Closed"
            /\ answers' = Answer(answers, r, IF ok THEN "Ok" ELSE "Fatal")
  /\ UNCHANGED <<connectQ, readQ, writeQ, pc, depth>>

(* tick(ConnectReq) *)
Connect(r) ==
  /\ Unasked(r)
  /\ IF state # "Idle"
     THEN /\ answers' = Answer(answers, r, "Fatal")
          /\ UNCHANGED <<transportVars, state, connectQ>>
     ELSE /\ TransportConnect
          /\ state' = "ConnectWait"
          /\ connectQ' = r
          /\ answers' = Asked(r)
  /\ UNCHANGED <<readQ, writeQ, pc, depth>>

(* tick(ConnectRep), replayed by onConnectReady(). *)
ConnectRep ==
  /\ pc = "idle"
  /\ \E status \in {"Ok", "Fatal"} :
       /\ ConnectReady(status)
       /\ IF state # "ConnectWait"
          THEN UNCHANGED <<state, connectQ, answers>>
          ELSE /\ state' = IF status = "Ok" THEN "Connected" ELSE "Closed"
               /\ connectQ' = None
               /\ answers' = Answer(answers, connectQ, status)
  /\ UNCHANGED <<readQ, writeQ, pc, depth>>

-----------------------------------------------------------------------------
(* Reading.                                                                *)

EnterTransportRead == depth' = depth + 1 /\ pc' = "reading"

(* Fault: one request too many. *)
ReadQueueOverfull == Len(readQ) > ReadLimit

ReadQueueFull == Len(readQ) = ReadLimit

(* tick(ReadReq) *)
Read(r) ==
  /\ Unasked(r)
  /\ state \in {"Bound", "Connected", "Closed"}
  /\ \/ /\ state = "Closed"
        /\ answers' = Answer(answers, r, "Error")
        /\ UNCHANGED <<readQ, pc, depth>>
     \/ /\ state # "Closed" /\ ReadQueueFull
        /\ answers' = Answer(answers, r, "WouldBlock")
        /\ UNCHANGED <<readQ, pc, depth>>
     \/ /\ state # "Closed" /\ ~ReadQueueFull
        /\ readQ' = Append(readQ, r)
        /\ answers' = Asked(r)
        /\ EnterTransportRead
  /\ UNCHANGED <<transportVars, state, connectQ, writeQ>>

(* onReadReady() replays ReadReadyRep, whose tick() is transportRead(). *)
ReadReadyRep ==
  /\ pc = "idle"
  /\ \E k \in Conns : ReadReady(k)
  /\ EnterTransportRead
  /\ UNCHANGED <<state, connectQ, readQ, writeQ, answers>>

(* An activation of transportRead() returns to the callback that started it *)
(* or to the loop.                                                          *)
LeaveTransportRead ==
  /\ depth' = depth - 1
  /\ pc' = IF depth = 1 THEN "idle" ELSE "callback"

(* The queue is empty: transportRead() suspends the transport and returns. *)
ReadsDone ==
  /\ pc = "reading"
  /\ readQ = <<>>
  /\ SuspendRead
  /\ LeaveTransportRead
  /\ UNCHANGED <<state, connectQ, readQ, writeQ, answers>>

(* Fault: the request leaves the queue before the status is looked at. *)
ReadBlockedPops ==
  /\ ResumeRead("WouldBlock")
  /\ LeaveTransportRead
  /\ readQ' = Tail(readQ)
  /\ UNCHANGED answers

ReadBlocked ==
  /\ ResumeRead("WouldBlock")
  /\ LeaveTransportRead
  /\ UNCHANGED <<readQ, answers>>

(* One turn of transportRead()'s loop.  resumeRead() returns a size_t, so    *)
(* its -1 is not <= 0: a failed read is delivered as a successful one.      *)
ReadTurn ==
  /\ pc = "reading"
  /\ readQ # <<>>
  /\ \/ ReadBlocked
     \/ /\ ResumeRead("Ok") \/ ResumeRead("Fatal")
        /\ readQ' = Tail(readQ)
        /\ answers' = Answer(answers, Head(readQ), "Ok")
        /\ pc' = "callback"
        /\ UNCHANGED depth
     \/ /\ state # "Connected"
        /\ ResumeRead("Eof")
        /\ readQ' = Tail(readQ)
        /\ answers' = Answer(answers, Head(readQ), "Eof")
        /\ pc' = "callback"
        /\ UNCHANGED depth
  /\ UNCHANGED <<state, connectQ, writeQ>>

(* The end of the stream on a connected socket: the request is dropped, the *)
(* socket closes itself and fails the others, and calls the callback of a   *)
(* CloseReq{} that has none.                                                *)
ReadEndOfStream ==
  /\ pc = "reading"
  /\ readQ # <<>>
  /\ state = "Connected"
  /\ RecvStatus(IF hot \in Open THEN hot ELSE client) = "Eof"
  /\ client \in Open
  /\ TransportClose
  /\ state' = "Closed"
  /\ readQ' = <<>>
  /\ answers' = [r \in Requests |->
                   IF r \in Pending \ {Head(readQ)} THEN "Error" ELSE answers[r]]
  /\ Crash
  /\ UNCHANGED <<connectQ, writeQ>>

(* The user's callback returns to transportRead(). *)
CallbackReturns ==
  /\ pc = "callback"
  /\ pc' = "reading"
  /\ UNCHANGED <<transportVars, state, connectQ, readQ, writeQ, depth, answers>>

-----------------------------------------------------------------------------
(* Writing.                                                                *)

(* The name a write of this peer is looked up under. *)
WriteKey(peer) == IF state = "Connected" THEN Empty ELSE peer

(* Fault: the answered request stays in the queue. *)
FinalizeKeepsEntry(q, key, asked, status) ==
  /\ writeQ' = q
  /\ answers' = Answer(asked, q[key], status)

(* finalize() *)
Finalize(q, key, asked, status) ==
  /\ writeQ' = [q EXCEPT ![key] = None]
  /\ answers' = Answer(asked, q[key], status)

(* transportWrite() over the queue q: a queued write that does not block is *)
(* taken out and answered.                                                  *)
TransportWrite(peer, q, asked) ==
  LET key == WriteKey(peer)
  IN  \/ /\ q[key] = None
         /\ writeQ' = q /\ answers' = asked
         /\ UNCHANGED transportVars
      \/ /\ q[key] # None
         /\ \E status \in Status :
              /\ ResumeWrite(key, status)
              /\ IF status = "WouldBlock"
                 THEN writeQ' = q /\ answers' = asked
                 ELSE Finalize(q, key, asked, status)

(* A server's write names its peer. *)
Writable(peer) ==
  \/ state = "Connected"
  \/ state = "Bound" /\ peer # Empty

(* tick(WriteReq).  emplace() moves from the request before it finds out     *)
(* that the peer has one already.                                           *)
Write(r, peer) ==
  /\ Unasked(r)
  /\ state \in {"Bound", "Connected", "Closed"}
  /\ \/ /\ ~Writable(peer)
        /\ answers' = Answer(answers, r, "Error")
        /\ UNCHANGED <<transportVars, writeQ, pc, depth>>
     \/ /\ Writable(peer)  \* a write of no data
        /\ answers' = Answer(answers, r, "Fatal")
        /\ UNCHANGED <<transportVars, writeQ, pc, depth>>
     \/ /\ Writable(peer)
        /\ writeQ[peer] # None
        /\ Crash
        /\ UNCHANGED <<transportVars, writeQ, answers>>
     \/ /\ Writable(peer)
        /\ writeQ[peer] = None
        /\ TransportWrite(peer, [writeQ EXCEPT ![peer] = r], Asked(r))
        /\ UNCHANGED <<pc, depth>>
  /\ UNCHANGED <<state, connectQ, readQ>>

(* onWriteReady() replays WriteReadyRep.  Nothing disarms the event later. *)
WriteReadyRep ==
  /\ pc = "idle"
  /\ \E k \in Open : Polls(k, "out") /\ TransportWrite(k, writeQ, answers)
  /\ UNCHANGED <<state, connectQ, readQ, pc, depth>>

-----------------------------------------------------------------------------
(* tick(CloseReq).  The callbacks it fails may only make requests that are   *)
(* rejected.  write_queue_ keeps its entries.                               *)
Close(r) ==
  /\ Unasked(r)
  /\ \/ /\ state = "Closed"
        /\ answers' = Answer(answers, r, "Ok")
        /\ UNCHANGED <<transportVars, state, connectQ, readQ>>
     \/ /\ state # "Closed"
        /\ TransportClose
        /\ state' = "Closed"
        /\ connectQ' = None
        /\ readQ' = <<>>
        /\ answers' = [q \in Requests |->
                         IF q = r THEN "Ok"
                         ELSE IF q \in Queued THEN Answer(answers, q, "Error")[q]
                         ELSE answers[q]]
  /\ UNCHANGED <<writeQ, pc, depth>>

-----------------------------------------------------------------------------
UserRequest ==
  \/ \E r \in Binds : Bind(r)
  \/ \E r \in Connects : Connect(r)
  \/ \E r \in Reads : Read(r)
  \/ \E r \in Writes, p \in Peers : Write(r, p)
  \/ \E r \in Closes : Close(r)

(* onAcceptReady() *)
Accept ==
  /\ pc = "idle"
  /\ AcceptReady
  /\ UNCHANGED <<state, connectQ, readQ, writeQ, pc, depth, answers>>

(* epoll_wait() in the watcher's loop. *)
Poll ==
  /\ pc = "idle"
  /\ PollInput
  /\ UNCHANGED <<state, connectQ, readQ, writeQ, pc, depth, answers>>

TransportEvent == Poll \/ ConnectRep \/ ReadReadyRep \/ WriteReadyRep \/ Accept

TransportRead == ReadTurn \/ ReadsDone \/ ReadEndOfStream \/ CallbackReturns

Environment ==
  /\ pc # "crashed"
  /\ Network
  /\ UNCHANGED <<state, connectQ, readQ, writeQ, pc, depth, answers>>

Next == UserRequest \/ TransportEvent \/ TransportRead \/ Environment

Spec == Init /\ [][Next]_vars

-----------------------------------------------------------------------------
TypeOK ==
  /\ TransportTypeOK
  /\ state \in States
  /\ connectQ \in Connects \cup {None}
  /\ readQ \in Seq(Reads) /\ Len(readQ) <= ReadLimit
  /\ writeQ \in [Peers -> Writes \cup {None}]
  /\ pc \in {"idle", "reading", "callback", "crashed"}
  /\ depth \in Nat
  /\ answers \in [Requests -> {"unasked", "pending", "twice"} \cup Status]

(* socket_test.cpp:522 CallbackInvokedExactlyOnce, the half that bounds it   *)
(* from above: no interleaving of requests, events, re-entrant callbacks and *)
(* close() calls one request's callback twice.                               *)
AnsweredOnce == \A r \in Requests : answers[r] # "twice"

(* socket.cpp:194 "Fail pending requests to prevent hanging callbacks after  *)
(* socket closes": a closed socket owes nobody an answer.                    *)
AnsweredWhenClosed == state = "Closed" /\ pc # "crashed" => Pending = {}

(* A request that is owed an answer is in the queue that will give it, and   *)
(* an open socket's queues hold nothing else.                                *)
PendingIsQueued ==
  state # "Closed" =>
    Pending = ({connectQ} \cup Range(readQ) \cup Range(writeQ)) \ {None}

(* socket.cpp:119 "otherwise data delivered via transport ReadReadyRep": a   *)
(* connected socket that owes a read polls its connection for input, however *)
(* reads, suspensions, re-entrant reads and spurious events follow.          *)
ConnectedReadIsArmed ==
  pc = "idle" /\ state = "Connected" /\ readQ # <<>> /\ client \in Open =>
    Polls(client, "in")

(* socket.cpp:140 "otherwise write completed via transport WriteReadyRep": a *)
(* write that is owed and whose connection is open polls it for output.      *)
WriteIsArmed ==
  \A k \in Open : writeQ[WriteKey(k)] # None => Polls(k, "out")

(* tcp_transport.cpp:280-320 and event_watcher.cpp:104-171 keep the same     *)
(* fact in three places, a connection's flags, the table of callbacks and    *)
(* epoll: they agree, for input and output of one descriptor arm and disarm  *)
(* independently, and a descriptor that was closed leaves nothing behind     *)
(* for the next one with its number.                                        *)
WatchesAgree ==
  /\ readArmed \cup writeArmed \subseteq Open
  /\ watcher.callbacks =
       readArmed \X {"in"}
         \cup (writeArmed \cup {k \in {client} : k \in Conns /\ sock[k].link = "connecting"})
              \X {"out"}
  /\ \A k \in Conns, flag \in Flags :
       Polled(watcher, k, flag) <=> Watched(watcher, k, flag)

(* The connection resumeRead() tries first is an open one. *)
HotIsOpen == hot \in Open \cup {None}

(* socket.cpp:119 for a server: while a read is owed, a connection that has  *)
(* data for it is polled for input.                                         *)
BoundReadIsArmed ==
  pc = "idle" /\ state = "Bound" /\ readQ # <<>> =>
    \A k \in Open : sock[k].data > 0 => Polls(k, "in")

(* socket.cpp:178 "Closes transport, fails all pending operations, and       *)
(* invokes user callback": no request and no event ends the process.         *)
NeverCrashes == pc # "crashed"
=============================================================================
