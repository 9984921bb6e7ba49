--------------------------- MODULE OperationStream ---------------------------
(***************************************************************************)
(* How the replies of a long-running operation reach the user's browser    *)
(* through the management server: the operation topic of the EventBroker   *)
(* (events/broker.rs), ack_or_timeout and the fused response stream        *)
(* (clients.rs), the WebSocketServer that hands the stream to the browser  *)
(* which connects to the path in the Location header (ws.rs), and the      *)
(* download route, which streams into the HTTP response instead.           *)
(*                                                                         *)
(* An operation's replies are numbered: 0 is the Ack, 1..Ongoing are the   *)
(* Ongoing replies, Terminal is Completed or Failed.                       *)
(***************************************************************************)
EXTENDS Naturals, Sequences

CONSTANTS
  Ops,        \* long-running operations
  Downloads,  \* those of them whose stream is the body of a download
  Ongoing,    \* number of Ongoing replies of an operation
  Capacity,   \* events a topic keeps for its slowest receiver
  Prefetch    \* the 20 of buffered(20)

ASSUME ConstantsAssumption ==
  /\ Downloads \subseteq Ops
  /\ Ongoing \in Nat
  /\ Capacity \in Nat \ {0} /\ Prefetch \in Nat \ {0}

Terminal == Ongoing + 1
Events == Ops \X (0..Terminal)
NoOp == "no operation"

VARIABLES
  op,        \* the API call that started the operation
  sent,      \* replies the agent's side has published so far, by number + 1
  sub,       \* does the operation's receiver exist?
  queue,     \* what its receiver has not yet taken from the topic
  lagged,    \* has its receiver ever skipped an event?
  buffer,    \* replies the stream has taken ahead
  fuse,      \* the valve of the fused stream
  stream,    \* the task that serves the stream: stream_at, or the download
  waiting,   \* dynamic_streams_waiting
  router,    \* the accept loop; it holds the mutex of the map in a handshake
  outgoing,  \* the channel to the task that writes to the WebSocket
  writer,    \* that task
  peer,      \* the browser
  received   \* the replies it has received

vars == <<op, sent, sub, queue, lagged, buffer, fuse, stream, waiting, router,
          outgoing, writer, peer, received>>
topic == <<sub, queue, lagged, buffer>>

Finished == {"fused", "inactive", "left", "unclaimed"}

(* Every variable holds a value of the kind the code keeps in it.          *)
TypeOK ==
  /\ op \in [Ops -> {"idle", "acking", "acked", "error"}]
  /\ sent \in [Ops -> 0..(Terminal + 1)]
  /\ sub \in [Ops -> BOOLEAN]
  /\ queue \in [Ops -> Seq(Events)]
  /\ \A o \in Ops : Len(queue[o]) <= Capacity /\ Len(buffer[o]) <= Prefetch
  /\ lagged \in [Ops -> BOOLEAN]
  /\ buffer \in [Ops -> Seq(Events)]
  /\ fuse \in [Ops -> {"open", "signalled", "cancelled"}]
  /\ stream \in [Ops -> {"none", "spawned", "waiting", "expired", "connected"} \cup Finished]
  /\ waiting \subseteq Ops \ Downloads
  /\ router \in [at : {"idle", "handshake", "upgrade"}, op : Ops \cup {NoOp}]
  /\ outgoing \in [Ops -> Seq(Events)]
  /\ writer \in [Ops -> {"none", "running", "closed"}]
  /\ peer \in [Ops -> {"none", "connecting", "open", "refused", "dropped", "left", "closed"}]
  /\ received \in [Ops -> Seq(Events)]

Idle == [at |-> "idle", op |-> NoOp]

Init ==
  /\ op = [o \in Ops |-> "idle"]
  /\ sent = [o \in Ops |-> 0]
  /\ sub = [o \in Ops |-> FALSE]
  /\ queue = [o \in Ops |-> << >>]
  /\ lagged = [o \in Ops |-> FALSE]
  /\ buffer = [o \in Ops |-> << >>]
  /\ fuse = [o \in Ops |-> "open"]
  /\ stream = [o \in Ops |-> "none"]
  /\ waiting = {}
  /\ router = Idle
  /\ outgoing = [o \in Ops |-> << >>]
  /\ writer = [o \in Ops |-> "none"]
  /\ peer = [o \in Ops |-> "none"]
  /\ received = [o \in Ops |-> << >>]

-----------------------------------------------------------------------------
(* The topic                                                               *)

(* Mutant: a topic keeps every event. *)
PublishKeepsAll(e) ==
  /\ queue' = [o \in Ops |-> IF sub[o] THEN Append(queue[o], e) ELSE queue[o]]
  /\ UNCHANGED <<sub, lagged, buffer>>

(* All operations share one topic; the receiver that is Capacity events     *)
(* behind loses the oldest one.                                             *)
Publish(e) ==
  /\ queue' = [o \in Ops |-> IF ~sub[o] THEN queue[o]
                             ELSE IF Len(queue[o]) < Capacity THEN Append(queue[o], e)
                             ELSE Append(Tail(queue[o]), e)]
  /\ lagged' = [o \in Ops |-> lagged[o] \/ (sub[o] /\ Len(queue[o]) = Capacity)]
  /\ UNCHANGED <<sub, buffer>>

Polled(o) == op[o] = "acking" \/ (stream[o] = "connected" /\ fuse[o] # "cancelled")

(* A poll of the stream takes events ahead, until Prefetch replies of the   *)
(* operation are at hand, and drops those of other operations.  Events are  *)
(* published by other threads meanwhile, so each one taken is a step.       *)
TakeAhead(o) ==
  /\ Polled(o)
  /\ queue[o] # << >> /\ Len(buffer[o]) < Prefetch
  /\ queue' = [queue EXCEPT ![o] = Tail(@)]
  /\ buffer' = [buffer EXCEPT ![o] = IF Head(queue[o])[1] = o
                                     THEN Append(@, Head(queue[o])) ELSE @]
  /\ UNCHANGED <<op, sent, sub, lagged, fuse, stream, waiting, router, outgoing,
                 writer, peer, received>>

(* The stream yields its next reply. *)
Yield(o) ==
  /\ buffer[o] # << >>
  /\ buffer' = [buffer EXCEPT ![o] = Tail(@)]
  /\ UNCHANGED <<sub, queue, lagged>>

DropReceiver(o) ==
  /\ sub' = [sub EXCEPT ![o] = FALSE]
  /\ queue' = [queue EXCEPT ![o] = << >>]
  /\ buffer' = [buffer EXCEPT ![o] = << >>]
  /\ UNCHANGED lagged

-----------------------------------------------------------------------------
(* The API call                                                            *)

(* subscribe comes before publish. *)
Request(o) ==
  /\ op[o] = "idle"
  /\ op' = [op EXCEPT ![o] = "acking"]
  /\ sub' = [sub EXCEPT ![o] = TRUE]
  /\ UNCHANGED <<sent, queue, lagged, buffer, fuse, stream, waiting, router, outgoing,
                 writer, peer, received>>

(* Mutant: the stream that is returned is a new subscription. *)
AckedResubscribes(o) ==
  /\ op[o] = "acking"
  /\ buffer[o] # << >> /\ Head(buffer[o]) = <<o, 0>>
  /\ queue' = [queue EXCEPT ![o] = << >>]
  /\ buffer' = [buffer EXCEPT ![o] = << >>]
  /\ op' = [op EXCEPT ![o] = "acked"]
  /\ stream' = [stream EXCEPT ![o] = IF o \in Downloads THEN "connected" ELSE "spawned"]
  /\ peer' = [peer EXCEPT ![o] = IF o \in Downloads THEN "open" ELSE @]
  /\ UNCHANGED <<sent, sub, lagged, fuse, waiting, router, outgoing, writer, received>>

(* The first reply is the Ack: the response with the Location is returned   *)
(* and stream_at is spawned, or the download's body is streamed.            *)
Acked(o) ==
  /\ op[o] = "acking"
  /\ Yield(o)
  /\ Head(buffer[o]) = <<o, 0>>
  /\ op' = [op EXCEPT ![o] = "acked"]
  /\ stream' = [stream EXCEPT ![o] = IF o \in Downloads THEN "connected" ELSE "spawned"]
  /\ peer' = [peer EXCEPT ![o] = IF o \in Downloads THEN "open" ELSE @]
  /\ UNCHANGED <<sent, fuse, waiting, router, outgoing, writer, received>>

NotAcked(o) ==
  /\ op[o] = "acking"
  /\ buffer[o] # << >>
  /\ Head(buffer[o]) # <<o, 0>>
  /\ op' = [op EXCEPT ![o] = "error"]
  /\ DropReceiver(o)
  /\ UNCHANGED <<sent, fuse, stream, waiting, router, outgoing, writer, peer, received>>

AckTimesOut(o) ==
  /\ op[o] = "acking"
  /\ op' = [op EXCEPT ![o] = "error"]
  /\ DropReceiver(o)
  /\ UNCHANGED <<sent, fuse, stream, waiting, router, outgoing, writer, peer, received>>

(* The agent's next reply arrives and is published; it may fail without an  *)
(* Ack.  Nothing says that it ever arrives.                                 *)
AgentReplies(o) ==
  /\ op[o] # "idle"
  /\ \E i \in 0..Terminal :
       /\ i = sent[o] \/ (sent[o] = 0 /\ i = Terminal)
       /\ sent' = [sent EXCEPT ![o] = i + 1]
       /\ Publish(<<o, i>>)
  /\ UNCHANGED <<op, fuse, stream, waiting, router, outgoing, writer, peer, received>>

-----------------------------------------------------------------------------
(* stream_at and route                                                     *)

Unlocked == router.at # "handshake"

StreamAt(o) ==
  /\ stream[o] = "spawned"
  /\ Unlocked
  /\ waiting' = waiting \cup {o}
  /\ stream' = [stream EXCEPT ![o] = "waiting"]
  /\ UNCHANGED <<op, sent, topic, fuse, router, outgoing, writer, peer, received>>

(* 300 s without a connection. *)
Unconnected(o) ==
  /\ stream[o] = "waiting"
  /\ stream' = [stream EXCEPT ![o] = "expired"]
  /\ UNCHANGED <<op, sent, topic, fuse, waiting, router, outgoing, writer, peer, received>>

Remove(o) ==
  /\ stream[o] = "expired"
  /\ Unlocked
  /\ waiting' = waiting \ {o}
  /\ stream' = [stream EXCEPT ![o] = "unclaimed"]
  /\ DropReceiver(o)
  /\ UNCHANGED <<op, sent, fuse, router, outgoing, writer, peer, received>>

PeerConnects(o) ==
  /\ op[o] = "acked" /\ peer[o] = "none"
  /\ peer' = [peer EXCEPT ![o] = "connecting"]
  /\ UNCHANGED <<op, sent, topic, fuse, stream, waiting, router, outgoing, writer, received>>

PeerLeaves(o) ==
  /\ peer[o] \in {"connecting", "open"}
  /\ peer' = [peer EXCEPT ![o] = "left"]
  /\ UNCHANGED <<op, sent, topic, fuse, stream, waiting, router, outgoing, writer, received>>

(* route() takes the mutex before the handshake, and the accept loop waits  *)
(* for route().                                                             *)
Accept(o) ==
  /\ router = Idle
  /\ peer[o] = "connecting"
  /\ router' = [at |-> "handshake", op |-> o]
  /\ UNCHANGED <<op, sent, topic, fuse, stream, waiting, outgoing, writer, peer, received>>

(* Mutant: the mutex stays locked after an unknown path. *)
OnRequestKeepsLock(o) ==
  /\ router = [at |-> "handshake", op |-> o]
  /\ \/ /\ o \in waiting
        /\ waiting' = waiting \ {o}
        /\ router' = [at |-> "upgrade", op |-> o]
        /\ UNCHANGED peer
     \/ /\ o \notin waiting
        /\ peer' = [peer EXCEPT ![o] = IF @ = "left" THEN @ ELSE "refused"]
        /\ UNCHANGED <<waiting, router>>
  /\ UNCHANGED <<op, sent, topic, fuse, stream, outgoing, writer, received>>

(* The callback consumes the guard; an unknown path is refused with 400. *)
OnRequest(o) ==
  /\ router = [at |-> "handshake", op |-> o]
  /\ \/ /\ o \in waiting
        /\ waiting' = waiting \ {o}
        /\ router' = [at |-> "upgrade", op |-> o]
        /\ UNCHANGED peer
     \/ /\ o \notin waiting
        /\ router' = Idle
        /\ peer' = [peer EXCEPT ![o] = IF @ = "left" THEN @ ELSE "refused"]
        /\ UNCHANGED waiting
  /\ UNCHANGED <<op, sent, topic, fuse, stream, outgoing, writer, received>>

(* The WebSocket is sent to stream_at, unless its 300 s are over. *)
HandOver(o) ==
  /\ router = [at |-> "upgrade", op |-> o]
  /\ router' = Idle
  /\ \/ /\ stream[o] = "waiting"
        /\ stream' = [stream EXCEPT ![o] = "connected"]
        /\ writer' = [writer EXCEPT ![o] = "running"]
        /\ peer' = [peer EXCEPT ![o] = IF @ = "connecting" THEN "open" ELSE @]
     \/ /\ stream[o] # "waiting"
        /\ peer' = [peer EXCEPT ![o] = IF @ = "connecting" THEN "dropped" ELSE @]
        /\ UNCHANGED <<stream, writer>>
  /\ UNCHANGED <<op, sent, topic, fuse, waiting, outgoing, received>>

(* The browser has gone: before the request the mutex is released with the  *)
(* callback; after it the sender is dropped, which ends stream_at.          *)
HandshakeFails(o) ==
  /\ router \in {[at |-> "handshake", op |-> o], [at |-> "upgrade", op |-> o]}
  /\ peer[o] = "left"
  /\ router' = Idle
  /\ \/ /\ router.at = "upgrade" /\ stream[o] = "waiting"
        /\ stream' = [stream EXCEPT ![o] = "left"]
        /\ DropReceiver(o)
     \/ /\ router.at = "handshake" \/ stream[o] # "waiting"
        /\ UNCHANGED <<stream, topic>>
  /\ UNCHANGED <<op, sent, fuse, waiting, outgoing, writer, peer, received>>

-----------------------------------------------------------------------------
(* The connected stream                                                    *)

(* inspect: the terminal reply signals the fuse, and is passed on. *)
Inspect(o, e) == fuse' = [fuse EXCEPT ![o] = IF e[2] = Terminal THEN "signalled" ELSE @]

(* Mutant: the terminal reply closes the valve instead of being passed on. *)
ForwardNotTerminal(o) ==
  /\ stream[o] = "connected" /\ fuse[o] # "cancelled" /\ o \notin Downloads
  /\ Yield(o)
  /\ Inspect(o, Head(buffer[o]))
  /\ outgoing' = [outgoing EXCEPT ![o] =
                    IF Head(buffer[o])[2] = Terminal THEN @ ELSE Append(@, Head(buffer[o]))]
  /\ UNCHANGED <<op, sent, stream, waiting, router, writer, peer, received>>

Forward(o) ==
  /\ stream[o] = "connected" /\ fuse[o] # "cancelled" /\ o \notin Downloads
  /\ Yield(o)
  /\ Inspect(o, Head(buffer[o]))
  /\ outgoing' = [outgoing EXCEPT ![o] = Append(@, Head(buffer[o]))]
  /\ UNCHANGED <<op, sent, stream, waiting, router, writer, peer, received>>

(* The sentinel that completes a download carries no bytes. *)
Download(o) ==
  /\ stream[o] = "connected" /\ fuse[o] # "cancelled" /\ o \in Downloads
  /\ peer[o] = "open"
  /\ Yield(o)
  /\ Inspect(o, Head(buffer[o]))
  /\ received' = [received EXCEPT ![o] =
                    IF Head(buffer[o])[2] = Terminal THEN @ ELSE Append(@, Head(buffer[o]))]
  /\ UNCHANGED <<op, sent, stream, waiting, router, outgoing, writer, peer>>

Cancel(o) ==
  /\ fuse[o] = "signalled"
  /\ fuse' = [fuse EXCEPT ![o] = "cancelled"]
  /\ UNCHANGED <<op, sent, topic, stream, waiting, router, outgoing, writer, peer, received>>

StreamEnds(o) ==
  /\ stream[o] = "connected" /\ fuse[o] = "cancelled"
  /\ stream' = [stream EXCEPT ![o] = "fused"]
  /\ DropReceiver(o)
  /\ peer' = [peer EXCEPT ![o] = IF o \in Downloads /\ @ = "open" THEN "closed" ELSE @]
  /\ UNCHANGED <<op, sent, fuse, waiting, router, outgoing, writer, received>>

(* handle_incoming_task ends, or the HTTP response is dropped. *)
PeerGone(o) ==
  /\ stream[o] = "connected" /\ peer[o] = "left"
  /\ stream' = [stream EXCEPT ![o] = "left"]
  /\ DropReceiver(o)
  /\ UNCHANGED <<op, sent, fuse, waiting, router, outgoing, writer, peer, received>>

(* An hour in which the writer has taken no message from its channel: by    *)
(* then what was at hand has been forwarded.  The writer signals a message  *)
(* before it sends it, so one that the browser does not read is no activity *)
(* either.  A download has no such limit.                                   *)
Inactive(o) ==
  /\ stream[o] = "connected" /\ o \notin Downloads
  /\ fuse[o] = "open" /\ buffer[o] = << >>
  /\ \A i \in 1..Len(queue[o]) : queue[o][i][1] # o
  /\ stream' = [stream EXCEPT ![o] = "inactive"]
  /\ DropReceiver(o)
  /\ UNCHANGED <<op, sent, fuse, waiting, router, outgoing, writer, peer, received>>

(* A send to a browser that has gone fails and is logged. *)
WriterSends(o) ==
  /\ writer[o] = "running" /\ outgoing[o] # << >>
  /\ outgoing' = [outgoing EXCEPT ![o] = Tail(@)]
  /\ received' = [received EXCEPT ![o] = IF peer[o] = "open"
                                         THEN Append(@, Head(outgoing[o])) ELSE @]
  /\ UNCHANGED <<op, sent, topic, fuse, stream, waiting, router, writer, peer>>

(* Mutant: the connection is closed before the channel is drained. *)
WriterClosesEarly(o) ==
  /\ writer[o] = "running" /\ stream[o] \in Finished
  /\ writer' = [writer EXCEPT ![o] = "closed"]
  /\ peer' = [peer EXCEPT ![o] = IF @ = "open" THEN "closed" ELSE @]
  /\ UNCHANGED <<op, sent, topic, fuse, stream, waiting, router, outgoing, received>>

(* All senders are dropped and the channel is drained. *)
WriterCloses(o) ==
  /\ writer[o] = "running" /\ stream[o] \in Finished /\ outgoing[o] = << >>
  /\ writer' = [writer EXCEPT ![o] = "closed"]
  /\ peer' = [peer EXCEPT ![o] = IF @ = "open" THEN "closed" ELSE @]
  /\ UNCHANGED <<op, sent, topic, fuse, stream, waiting, router, outgoing, received>>

-----------------------------------------------------------------------------
CallStep(o) == Request(o) \/ Acked(o) \/ NotAcked(o) \/ AckTimesOut(o) \/ TakeAhead(o)

WaitStep(o) == StreamAt(o) \/ Unconnected(o) \/ Remove(o)

RouteStep(o) == Accept(o) \/ OnRequest(o) \/ HandOver(o) \/ HandshakeFails(o)

StreamStep(o) == \/ Forward(o) \/ Download(o) \/ Cancel(o) \/ StreamEnds(o)
                 \/ PeerGone(o) \/ Inactive(o) \/ WriterSends(o) \/ WriterCloses(o)

Next == \E o \in Ops : \/ CallStep(o) \/ WaitStep(o) \/ RouteStep(o) \/ StreamStep(o)
                       \/ AgentReplies(o) \/ PeerConnects(o) \/ PeerLeaves(o)

Spec == Init /\ [][Next]_vars

(* The server's own tasks run and its timers fire, and its mutex is fair.   *)
(* Nothing is assumed of the agent, the network or the browser.             *)
Fairness ==
  /\ \A o \in Ops : /\ WF_vars(Acked(o) \/ NotAcked(o)) /\ WF_vars(AckTimesOut(o))
                    /\ WF_vars(TakeAhead(o)) /\ WF_vars(Forward(o) \/ Download(o))
                    /\ WF_vars(Cancel(o)) /\ WF_vars(StreamEnds(o)) /\ WF_vars(PeerGone(o))
  /\ \A o \in Ops \ Downloads :
       /\ SF_vars(StreamAt(o)) /\ WF_vars(Unconnected(o)) /\ SF_vars(Remove(o))
       /\ WF_vars(HandOver(o)) /\ WF_vars(Inactive(o)) /\ WF_vars(WriterCloses(o))

FairSpec == Spec /\ Fairness

(* What some properties ask of the browser, for which the code has no       *)
(* timeout: in a handshake it sends its request or goes away, and it reads  *)
(* what is written to it or goes away.                                      *)
HandshakesEnd == \A o \in Ops \ Downloads : WF_vars(OnRequest(o) \/ HandshakeFails(o))
BrowserReads == \A o \in Ops \ Downloads : WF_vars(WriterSends(o))

-----------------------------------------------------------------------------
(* Properties                                                              *)

(* The events q hold the replies from a up to, not including, b of operation *)
(* o, each once and in order.                                                *)
Holds(q, o, a, b) ==
  /\ a <= b
  /\ \A i \in 1..Len(q) : q[i][1] = o => q[i][2] \in a..(b - 1)
  /\ \A i, j \in 1..Len(q) : i < j /\ q[i][1] = o /\ q[j][1] = o => q[i][2] < q[j][2]
  /\ \A n \in a..(b - 1) : \E i \in 1..Len(q) : q[i] = <<o, n>>

(* While the receiver has not lagged, each reply after the Ack is with the   *)
(* browser or on its way there, once and in the order sent: none slips       *)
(* through between the Ack, stream_at and the hand-over of the WebSocket.    *)
NothingMissing ==
  \A o \in Ops \ Downloads :
    ~lagged[o] /\ stream[o] \in {"spawned", "waiting", "connected"} /\ peer[o] # "left" =>
      LET ahead == received[o] \o outgoing[o] \o buffer[o]
      IN  /\ ahead = [i \in 1..Len(ahead) |-> <<o, i>>]
          /\ Holds(queue[o], o, Len(ahead) + 1, sent[o])

(* A stream the server ends because the operation is over has delivered the  *)
(* terminal reply before the connection is closed.                           *)
ClosedAfterTerminal ==
  \A o \in Ops \ Downloads : stream[o] = "fused" /\ peer[o] = "closed" =>
      /\ received[o] # << >>
      /\ received[o][Len(received[o])] = <<o, Terminal>>

(* A download that ends normally has all its bytes, in order, unless its     *)
(* receiver lagged.                                                          *)
DownloadWhole ==
  \A o \in Downloads : peer[o] = "closed" /\ ~lagged[o] =>
      received[o] = [i \in 1..Ongoing |-> <<o, i>>]

(* Whatever the agent, the network and the browser do, stream_at does not    *)
(* wait, and does not forward, for ever.  It ends altogether if no peer stays *)
(* silent in its handshake: to register its path and to remove it stream_at  *)
(* needs the mutex, which route() holds until the peer has sent its request. *)
EveryStreamEnds ==
  /\ \A o \in Ops \ Downloads :
       stream[o] \in {"waiting", "connected"} ~> stream[o] \in Finished \cup {"expired"}
  /\ HandshakesEnd =>
       \A o \in Ops \ Downloads : stream[o] = "spawned" ~> stream[o] \in Finished

(* If the browser is connected, stays, reads what it is sent, and the        *)
(* receiver does not lag, the terminal reply reaches it.                     *)
TerminalDelivered ==
  BrowserReads => \A o \in Ops \ Downloads :
    (stream[o] = "connected" /\ sent[o] = Terminal + 1 /\ ~lagged[o])
      ~> (lagged[o] \/ peer[o] = "left" \/ <<o, Terminal>> \in {received[o][i] : i \in 1..Len(received[o])})
=============================================================================
