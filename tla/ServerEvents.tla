---------------------------- MODULE ServerEvents -----------------------------
(***************************************************************************)
(* What becomes of a line the Factorio server prints: the agent's          *)
(* broadcast bus and the connections that forward it (agent main.rs), the  *)
(* tags it gets (clients.rs), the topics of the EventBroker and their      *)
(* subscribers: log ingestion and RPC dispatch (mgmt-server main.rs,       *)
(* rpc.rs), the Discord bridge (discord.rs) and a browser that streams a   *)
(* log (routes/logs.rs).                                                   *)
(*                                                                         *)
(* A line is its number, which is also its timestamp and so the key it is  *)
(* stored under; script says of what kind it is.  A queue stands for a     *)
(* receiver of a broadcast channel with what its stream has taken ahead.   *)
(***************************************************************************)
EXTENDS Naturals, Sequences, FiniteSets, SequencesExt

CONSTANTS
  Scripts,      \* what servers print: sequences of kinds of lines
  Watched,      \* the categories a browser asks for
  Conns,        \* connections to the agent, one after the other
  BusCapacity,  \* of the agent's bus
  Capacity,     \* TOPIC_CAPACITY
  MaxTrouble    \* bound on failures, lost connections and restarts, for each script

Kinds == {"echo", "chat", "join", "leave", "stream", "oneshot", "started", "saved",
          "closed", "badstate", "other"}

ASSUME ConstantsAssumption ==
  /\ Scripts \subseteq Seq(Kinds)
  /\ BusCapacity \in Nat \ {0} /\ Capacity \in Nat \ {0}
  /\ MaxTrouble \in [Scripts -> Nat]

Topics == {"stdout", "chat", "join", "leave", "rpc", "serverstate"}

(* The subscribers in the order main makes them, and the topic of each.     *)
Startup == <<"g2d_chat", "g2d_join", "g2d_leave", "g2d_state", "ingest", "rpc">>
Viewer  == "viewer"
Tasks == ToSet(Startup)
Subscribers == Tasks \cup {Viewer}
TopicOf == [g2d_chat |-> "chat", g2d_join |-> "join", g2d_leave |-> "leave",
            g2d_state |-> "serverstate", ingest |-> "stdout", rpc |-> "rpc",
            viewer |-> "stdout"]
NoMarker == 0

VARIABLES
  script, printed,  \* what the server prints, and how much of it it has printed
  conn,             \* each connection: none, open, replaced or closed
  bus,              \* what its task has still to take from the agent's bus
  line, topics,     \* the event it publishes, and the topics still to come
  overlap,          \* has a connection been made while an earlier one still published?
  up,               \* how many of Startup have subscribed
  queue, lagged,    \* of each subscriber; has it skipped an event?
  db, metrics,      \* the lines and data points stored
  handling,         \* RPC commands being handled
  webhook, say, alert,  \* the channels to the tasks that write to Discord
  posted,           \* what those have written
  viewer, category, \* the browser's request: none, marked or streaming; of what
  marker, seen,     \* the marker it was given, and what it was sent
  early,            \* lines that had been published when it subscribed
  lost,             \* lines that a full channel or a failure has dropped somewhere
  trouble

source == <<script, printed>>
link == <<conn, bus, line, topics, overlap>>
broker == <<queue, lagged>>
store == <<db, metrics, handling>>
discord == <<webhook, say, alert, posted>>
browser == <<viewer, category, marker, seen, early>>
vars == <<source, link, up, broker, store, discord, browser, lost, trouble>>

Lines == 1..printed
Kind(n) == script[n]

-----------------------------------------------------------------------------
(* Tags                                                                    *)

(* Mutant: a state change keeps the category ServerState. *)
StdoutCategoryState(k) ==
  CASE k = "echo"                          -> "chat_discord_echo"
    [] k = "chat"                          -> "chat"
    [] k \in {"join", "leave"}             -> "joinleave"
    [] k \in {"stream", "oneshot"}         -> "rpc"
    [] k \in {"started", "saved", "closed"} -> "serverstate"
    [] k = "other"                         -> "systemlog"

(* tag_server_stdout_message: the value of the stdout tag.  A state change  *)
(* is tagged ServerState first and SystemLog over it.                       *)
StdoutCategory(k) ==
  CASE k = "echo"                  -> "chat_discord_echo"
    [] k = "chat"                  -> "chat"
    [] k \in {"join", "leave"}     -> "joinleave"
    [] k \in {"stream", "oneshot"} -> "rpc"
    [] k \in {"started", "saved", "closed", "other"} -> "systemlog"

(* The topics a line is tagged for.  A state change whose states are not    *)
(* known gets no tag at all.                                                *)
Tags(k) ==
  CASE k = "badstate"               -> {}
    [] k \in {"echo", "other"}      -> {"stdout"}
    [] k \in {"chat", "join", "leave"} -> {"stdout", k}
    [] k \in {"stream", "oneshot"}  -> {"stdout", "rpc"}
    [] k \in {"started", "saved", "closed"} -> {"stdout", "serverstate"}

(* should_write_stdout_category_to_db                                       *)
Stored == {"chat", "joinleave", "systemlog"}
ASSUME WatchedAssumption == Watched \subseteq Stored
Storable(n) == "stdout" \in Tags(Kind(n)) /\ StdoutCategory(Kind(n)) \in Stored

(* Mutant: the end of a save looks like a start. *)
AnnouncedAllInGame(n) == Kind(n) \in {"started", "saved", "closed"}

(* The filter of the state subscriber: InGame, unless a save has just       *)
(* ended, and Closed.                                                       *)
Announced(n) == Kind(n) \in {"started", "closed"}

-----------------------------------------------------------------------------

(* Every variable holds a value of the kind the code keeps in it, no queue  *)
(* is longer than its channel, and only what was printed is anywhere.       *)
TypeOK ==
  /\ script \in Scripts /\ printed \in 0..Len(script)
  /\ conn \in [Conns -> {"none", "open", "replaced", "closed"}]
  /\ bus \in [Conns -> Seq(Lines)]
  /\ line \in [Conns -> Lines \cup {0}]
  /\ topics \in [Conns -> SUBSET Topics]
  /\ overlap \in BOOLEAN
  /\ up \in 0..Len(Startup)
  /\ queue \in [Subscribers -> Seq(Lines)]
  /\ lagged \in [Subscribers -> BOOLEAN]
  /\ \A c \in Conns : Len(bus[c]) <= BusCapacity
  /\ \A s \in Subscribers : Len(queue[s]) <= Capacity
  /\ db \subseteq Lines /\ metrics \subseteq Lines /\ handling \subseteq (Lines \X {1, 2})
  /\ {webhook, say, alert, seen} \subseteq Seq(Lines)
  /\ posted \in [{"webhook", "say", "alert"} -> Seq(Lines)]
  /\ viewer \in {"none", "marked", "streaming"}
  /\ category \in Stored \cup {"none"}
  /\ marker \in {NoMarker} \cup Lines
  /\ early \subseteq Lines /\ lost \subseteq Lines
  /\ trouble \in 0..MaxTrouble[script]

Init ==
  /\ script \in Scripts /\ printed = 0
  /\ conn = [c \in Conns |-> "none"]
  /\ bus = [c \in Conns |-> << >>]
  /\ line = [c \in Conns |-> 0]
  /\ topics = [c \in Conns |-> {}]
  /\ overlap = FALSE
  /\ up = 0
  /\ queue = [s \in Subscribers |-> << >>]
  /\ lagged = [s \in Subscribers |-> FALSE]
  /\ db = {} /\ metrics = {} /\ handling = {}
  /\ webhook = << >> /\ say = << >> /\ alert = << >>
  /\ posted = [d \in {"webhook", "say", "alert"} |-> << >>]
  /\ viewer = "none" /\ category = "none" /\ marker = NoMarker /\ seen = << >> /\ early = {}
  /\ lost = {}
  /\ trouble = 0

NewTrouble == trouble < MaxTrouble[script] /\ trouble' = trouble + 1

-----------------------------------------------------------------------------
(* The agent's bus and the connections                                     *)

Live(c) == conn[c] \in {"open", "replaced"}

(* Mutant: an unbounded channel. *)
PushKeepsAll(q, n, cap) == Append(q, n)

(* A broadcast channel that is full drops the oldest event.                 *)
Push(q, n, cap) == Append(IF Len(q) < cap THEN q ELSE Tail(q), n)
Dropped(q, cap) == IF Len(q) < cap THEN {} ELSE {Head(q)}

(* The server prints a line; every connection's task has a receiver.        *)
PrintLine ==
  /\ printed < Len(script)
  /\ printed' = printed + 1
  /\ bus' = [c \in Conns |-> IF Live(c) THEN Push(bus[c], printed', BusCapacity) ELSE bus[c]]
  /\ lost' = lost \cup (UNION {Dropped(bus[c], BusCapacity) : c \in {d \in Conns : Live(d)}})
                  \cup (IF \E c \in Conns : Live(c) THEN {} ELSE {printed'})
  /\ UNCHANGED <<script, conn, line, topics, overlap, up, broker, store, discord, browser,
                 trouble>>

(* The reconnect loop has one connection at a time ...                      *)
Connect(c) ==
  /\ conn[c] = "none"
  /\ \A d \in Conns : conn[d] # "open"
  /\ conn' = [conn EXCEPT ![c] = "open"]
  /\ overlap' = (overlap \/ \E d \in Conns : conn[d] = "replaced" \/ topics[d] # {})
  /\ UNCHANGED <<source, bus, line, topics, up, broker, store, discord, browser, lost, trouble>>

(* ... but takes it for lost as soon as one of its three tasks has ended,   *)
(* and does not stop the one that publishes what comes in.                  *)
Replace(c) ==
  /\ conn[c] = "open"
  /\ NewTrouble
  /\ conn' = [conn EXCEPT ![c] = "replaced"]
  /\ UNCHANGED <<source, bus, line, topics, overlap, up, broker, store, discord, browser, lost>>

Close(c) ==
  /\ \/ conn[c] = "open" /\ NewTrouble
     \/ conn[c] = "replaced" /\ UNCHANGED trouble
  /\ conn' = [conn EXCEPT ![c] = "closed"]
  /\ bus' = [bus EXCEPT ![c] = << >>]
  /\ lost' = lost \cup ToSet(bus[c])
  /\ UNCHANGED <<source, line, topics, overlap, up, broker, store, discord, browser>>

-----------------------------------------------------------------------------
(* The broker                                                              *)

(* publish_incoming_task receives and tags the next line.                   *)
Receive(c) ==
  /\ topics[c] = {}
  /\ bus[c] # << >>
  /\ bus' = [bus EXCEPT ![c] = Tail(@)]
  /\ line' = [line EXCEPT ![c] = IF Tags(Kind(Head(bus[c]))) = {} THEN 0 ELSE Head(bus[c])]
  /\ topics' = [topics EXCEPT ![c] = Tags(Kind(Head(bus[c])))]
  /\ UNCHANGED <<source, conn, overlap, up, broker, store, discord, browser, lost, trouble>>

Subscribed(s) == IF s = Viewer THEN viewer = "streaming"
                 ELSE \E i \in 1..up : s = Startup[i]

(* publish, for one of the event's topics; the order is that of a HashMap.  *)
Publish(c, t) ==
  LET n    == line[c]
      subs == {s \in Subscribers : TopicOf[s] = t}
      on   == {s \in subs : Subscribed(s)}
  IN  /\ t \in topics[c]
      /\ topics' = [topics EXCEPT ![c] = @ \ {t}]
      /\ line' = IF topics[c] = {t} THEN [line EXCEPT ![c] = 0] ELSE line
      /\ queue' = [s \in Subscribers |-> IF s \in on THEN Push(queue[s], n, Capacity) ELSE queue[s]]
      /\ lagged' = [s \in Subscribers |-> lagged[s] \/ (s \in on /\ Len(queue[s]) = Capacity)]
      /\ lost' = lost \cup (UNION {Dropped(queue[s], Capacity) : s \in on \ {Viewer}})
                      \cup (IF subs \ {Viewer} \subseteq on THEN {} ELSE {n})
      /\ UNCHANGED <<source, conn, bus, overlap, up, store, discord, browser, trouble>>

(* main makes the subscriptions after the agent client, those of Discord    *)
(* first.  Each waits for the broker's lock.                                *)
Subscribe ==
  /\ up < Len(Startup)
  /\ up' = up + 1
  /\ UNCHANGED <<source, link, broker, store, discord, browser, lost, trouble>>

Pop(s) ==
  /\ queue[s] # << >>
  /\ queue' = [queue EXCEPT ![s] = Tail(@)]

-----------------------------------------------------------------------------
(* Log ingestion and RPC                                                   *)

(* create_log_ingestion_subscriber; a write that fails is logged.           *)
Ingest ==
  LET n == Head(queue["ingest"]) IN
  /\ Pop("ingest")
  /\ \/ db' = (IF Storable(n) THEN db \cup {n} ELSE db) /\ UNCHANGED <<lost, trouble>>
     \/ NewTrouble /\ lost' = lost \cup {n} /\ UNCHANGED db
  /\ UNCHANGED <<source, link, up, lagged, metrics, handling, discord, browser>>

(* create_rpc_subscriber spawns a handler per command.                      *)
SpawnRpc ==
  LET n == Head(queue["rpc"]) IN
  /\ Pop("rpc")
  /\ handling' = handling \cup {<<n, IF <<n, 1>> \in handling THEN 2 ELSE 1>>}
  /\ UNCHANGED <<source, link, up, lagged, db, metrics, discord, browser, lost,
                 trouble>>

(* RpcHandler::handle: a batch of data points is stored, an alert goes to   *)
(* the task that posts alerts.                                              *)
HandleRpc(h) ==
  /\ h \in handling
  /\ handling' = handling \ {h}
  /\ \/ /\ metrics' = IF Kind(h[1]) = "stream" THEN metrics \cup {h[1]} ELSE metrics
        /\ alert' = IF Kind(h[1]) = "oneshot" THEN Append(alert, h[1]) ELSE alert
        /\ UNCHANGED <<lost, trouble>>
     \/ NewTrouble /\ lost' = lost \cup {h[1]} /\ UNCHANGED <<metrics, alert>>
  /\ UNCHANGED <<source, link, up, broker, db, webhook, say, posted, browser>>

-----------------------------------------------------------------------------
(* The Discord bridge                                                      *)

(* Chat goes through the webhook ...                                        *)
ForwardChat ==
  /\ Pop("g2d_chat")
  /\ webhook' = Append(webhook, Head(queue["g2d_chat"]))
  /\ UNCHANGED <<source, link, up, lagged, store, say, alert, posted, browser,
                 lost, trouble>>

(* ... joins, leaves and state changes, each with a task of its own, share  *)
(* the channel of plain messages.                                           *)
ForwardPlain(s) ==
  LET n == Head(queue[s]) IN
  /\ Pop(s)
  /\ say' = IF s = "g2d_state" /\ ~Announced(n) THEN say ELSE Append(say, n)
  /\ UNCHANGED <<source, link, up, lagged, store, webhook, alert, posted, browser,
                 lost, trouble>>

(* The task at the end of a channel posts a message and waits for Discord;  *)
(* one that fails is logged and not tried again.                            *)
Post(d, chan) ==
  /\ chan # << >>
  /\ \/ posted' = [posted EXCEPT ![d] = Append(@, Head(chan))] /\ UNCHANGED <<lost, trouble>>
     \/ NewTrouble /\ lost' = lost \cup {Head(chan)} /\ UNCHANGED posted
  /\ webhook' = IF d = "webhook" THEN Tail(webhook) ELSE webhook
  /\ say' = IF d = "say" THEN Tail(say) ELSE say
  /\ alert' = IF d = "alert" THEN Tail(alert) ELSE alert
  /\ UNCHANGED <<source, link, up, broker, store, browser>>

-----------------------------------------------------------------------------
(* A browser that streams a log                                            *)

Of(cat, S) == {n \in S : Storable(n) /\ StdoutCategory(Kind(n)) = cat}
Latest(S) == IF S = {} THEN NoMarker ELSE CHOOSE n \in S : \A m \in S : m <= n

(* Where a line still is on its way to the broker's topic t. *)
Ahead(n, t) == \E c \in Conns : n \in ToSet(bus[c]) \/ (line[c] = n /\ t \in topics[c])

(* Mutant: the marker is read after the subscription. *)
MarkLate(cat) ==
  /\ viewer # "marked" /\ up = Len(Startup)
  /\ viewer' = "streaming"
  /\ category' = cat
  /\ marker' = IF viewer = "streaming" THEN Latest(Of(cat, db)) ELSE marker
  /\ early' = IF viewer = "streaming" THEN early ELSE {n \in Lines : ~Ahead(n, "stdout")}
  /\ UNCHANGED <<source, link, up, broker, store, discord, seen, lost, trouble>>

(* logs::stream reads the last stored record of the category ...            *)
Mark(cat) ==
  /\ viewer = "none" /\ up = Len(Startup)
  /\ viewer' = "marked"
  /\ category' = cat
  /\ marker' = Latest(Of(cat, db))
  /\ UNCHANGED <<source, link, up, broker, store, discord, seen, early, lost, trouble>>

(* ... and then subscribes.                                                 *)
Stream ==
  /\ viewer = "marked"
  /\ viewer' = "streaming"
  /\ early' = {n \in Lines : ~Ahead(n, "stdout")}
  /\ UNCHANGED <<source, link, up, broker, store, discord, category, marker, seen, lost, trouble>>

View ==
  LET n == Head(queue[Viewer]) IN
  /\ Pop(Viewer)
  /\ seen' = IF StdoutCategory(Kind(n)) = category THEN Append(seen, n) ELSE seen
  /\ UNCHANGED <<source, link, up, lagged, store, discord, viewer, category, marker,
                 early, lost, trouble>>

-----------------------------------------------------------------------------

(* What is only in the memory of the management server.                     *)
InMemory == (UNION {ToSet(bus[c]) : c \in Conns}) \cup ({line[c] : c \in Conns} \ {0})
              \cup (UNION {ToSet(queue[s]) : s \in Tasks})
              \cup {h[1] : h \in handling} \cup ToSet(webhook) \cup ToSet(say) \cup ToSet(alert)

(* The management server dies and is started again.                         *)
Restart ==
  /\ NewTrouble
  /\ lost' = lost \cup InMemory
  /\ conn' = [c \in Conns |-> "none"]
  /\ bus' = [c \in Conns |-> << >>]
  /\ line' = [c \in Conns |-> 0]
  /\ topics' = [c \in Conns |-> {}]
  /\ up' = 0
  /\ queue' = [s \in Subscribers |-> << >>]
  /\ lagged' = [s \in Subscribers |-> FALSE]
  /\ handling' = {} /\ webhook' = << >> /\ say' = << >> /\ alert' = << >>
  /\ viewer' = "none" /\ category' = "none" /\ marker' = NoMarker /\ seen' = << >> /\ early' = {}
  /\ UNCHANGED <<source, overlap, db, metrics, posted>>

Next ==
  \/ PrintLine
  \/ \E c \in Conns : \/ Connect(c) \/ Replace(c) \/ Close(c) \/ Receive(c)
                      \/ \E t \in Topics : Publish(c, t)
  \/ Subscribe
  \/ Ingest \/ SpawnRpc
  \/ \E h \in handling : HandleRpc(h)
  \/ ForwardChat
  \/ \E s \in {"g2d_join", "g2d_leave", "g2d_state"} : ForwardPlain(s)
  \/ Post("webhook", webhook) \/ Post("say", say) \/ Post("alert", alert)
  \/ \E cat \in Watched : Mark(cat)
  \/ Stream \/ View
  \/ Restart

Spec == Init /\ [][Next]_vars

-----------------------------------------------------------------------------
(* Properties                                                              *)

Posted(d) == ToSet(posted[d])
Handled(n) == \E h \in handling : h[1] = n

(* No line vanishes: unless a full channel, a failed write or post, a       *)
(* connection or the server's memory has dropped it somewhere, each line is *)
(* in the database, on Discord and in the metrics as its kind asks for, or  *)
(* in a queue that leads there.                                             *)
NothingVanishes ==
  \A n \in Lines \ lost :
    /\ Kind(n) \in {"chat", "join", "leave", "started", "saved", "closed", "other"} =>
         n \in db \cup ToSet(queue["ingest"]) \/ Ahead(n, "stdout")
    /\ Kind(n) = "chat" =>
         n \in Posted("webhook") \cup ToSet(webhook) \cup ToSet(queue["g2d_chat"]) \/ Ahead(n, "chat")
    /\ Kind(n) \in {"join", "leave"} =>
         \/ n \in Posted("say") \cup ToSet(say) \cup ToSet(queue["g2d_join"]) \cup ToSet(queue["g2d_leave"])
         \/ Ahead(n, Kind(n))
    /\ Kind(n) \in {"started", "closed"} =>
         n \in Posted("say") \cup ToSet(say) \cup ToSet(queue["g2d_state"]) \/ Ahead(n, "serverstate")
    /\ Kind(n) = "stream" => n \in metrics \cup ToSet(queue["rpc"]) \/ Handled(n) \/ Ahead(n, "rpc")
    /\ Kind(n) = "oneshot" =>
         \/ n \in Posted("alert") \cup ToSet(alert) \cup ToSet(queue["rpc"])
         \/ Handled(n) \/ Ahead(n, "rpc")

Ordered(q) == \A i, j \in 1..Len(q) : i < j => q[i] < q[j]
InOrder(q, K) == \A i, j \in 1..Len(q) :
                   i < j /\ Kind(q[i]) \in K /\ Kind(q[j]) \in K => q[i] < q[j]
StateKinds == {"started", "saved", "closed"}

(* While no connection has outlived its replacement, Discord gets each      *)
(* message once: chat in the order it was said, joins, leaves and state     *)
(* changes each in their order.  The end of a save is never announced, and  *)
(* unless something was dropped no start or stop of the server is left out  *)
(* between two that are announced.                                          *)
DiscordInOrder ==
  LET plain == posted["say"]
      At(K) == {i \in 1..Len(plain) : Kind(plain[i]) \in K}
  IN  ~overlap =>
        /\ Ordered(posted["webhook"])
        /\ \A K \in {{"join"}, {"leave"}, StateKinds} : InOrder(plain, K)
        /\ IsInjective(posted["alert"])
        /\ At({"saved"}) = {}
        /\ lost = {} => \A i, j \in At(StateKinds) :
             i < j /\ (\A k \in At(StateKinds) : k <= i \/ j <= k) =>
               \A n \in Lines : plain[i] < n /\ n < plain[j] => ~Announced(n)

(* The marker and the stream fit together.  While no connection has         *)
(* outlived its replacement and the browser does not lag, the stream is in  *)
(* order and has every line of the category published since the browser     *)
(* subscribed; no line up to the marker is in it, and all those are stored. *)
(* It does not say that the marker is the last line before the stream: one  *)
(* published before, and stored after the marker was read, is in neither.   *)
ViewerSeesEachOnce ==
  viewer = "streaming" /\ ~overlap /\ ~lagged[Viewer] =>
    LET stream == ToSet(seen) \cup {n \in ToSet(queue[Viewer]) : StdoutCategory(Kind(n)) = category}
    IN  /\ Ordered(seen \o queue[Viewer])
        /\ \A n \in {m \in Of(category, Lines) \ lost : ~Ahead(m, "stdout")} :
             /\ n \notin early => n \in stream
             /\ n <= marker => n \in db /\ n \notin stream
=============================================================================
