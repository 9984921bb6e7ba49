------------------------------ MODULE AgentLink ------------------------------
(***************************************************************************)
(* The management server's WebSocket link to the agent                     *)
(* (src/src/mgmt-server/clients.rs): the reconnect loop of                 *)
(* AgentApiClient::new, the three tasks connect() spawns for a connection  *)
(* (keep-alive, forward_outgoing, publish_incoming), and a request's way   *)
(* through the outgoing topic to the agent and back to the caller.         *)
(*                                                                         *)
(* A connection is a pair of FIFO byte streams.  It can break (both sides  *)
(* see an error), go dead (nothing arrives any more and nobody is told) or *)
(* be closed by the agent.  connect() never aborts a task: the loop goes   *)
(* on as soon as the first of the three ends.                              *)
(***************************************************************************)
EXTENDS Naturals, Sequences

CONSTANTS
  MaxConns,   \* bound on the connections made, one after the other
  Calls,      \* the API calls that are followed, each with its own operation id
  MaxTrouble, \* bound on failed connections and late pongs together
  Capacity,   \* TOPIC_CAPACITY: what the outgoing topic keeps for a subscription
  Prefetch    \* the 20 of buffered(20)

Conns == 1..MaxConns
(* Mutant: one missed ping fewer. *)
MissLimitTwo == 2

MissLimit == 3
CloseFrame == "close"

(* A request of a call that is not followed: it takes up room in the topic  *)
(* and its turn in the forward task, and is dropped from the model after it. *)
Other == "other"
Requests == Calls \cup {Other}

ASSUME ConstantsAssumption ==
  /\ CloseFrame \notin Calls /\ Other \notin Calls
  /\ MaxConns \in Nat \ {0}
  /\ MaxTrouble \in Nat
  /\ Capacity \in Nat \ {0} /\ Prefetch \in Nat \ {0}

VARIABLES
  loop,       \* where the reconnect loop is
  cur,        \* number of the last connection made
  ws_connected,
  link,       \* state of each connection
  keep_alive, forward_outgoing, publish_incoming,  \* its three tasks
  missed,     \* consecutive_missed_pings
  pings,      \* pings sent and not yet answered by a pong that was read
  lost,       \* has a ping failed, or its 15 s passed without a pong?
  outgoing,   \* requests its outgoing subscription has not yet taken
  ahead,      \* requests its stream has read ahead, for the forward task
  skipped,    \* requests that a subscription has lost because it lagged
  toAgent,    \* requests on the wire
  toServer,   \* responses on the wire, and the agent's close
  serving,    \* requests the agent is serving, with the connection they came on
  call,       \* where each API call is
  served,     \* how often the agent was given the request
  responses,  \* terminal responses published on the operation's id
  faults,     \* connections that have failed so far
  stalls      \* pings a live connection has answered late so far

vars == <<loop, cur, ws_connected, link, keep_alive, forward_outgoing,
          publish_incoming, missed, pings, lost, outgoing, ahead, skipped, toAgent, toServer,
          serving, call, served, responses, faults, stalls>>
tasks == <<keep_alive, forward_outgoing, publish_incoming>>
pinging == <<missed, pings, lost>>
topic == <<outgoing, ahead, skipped>>
wire == <<toAgent, toServer>>
client == <<call, responses>>
agent == <<serving, served>>

(* Every variable holds a value of the kind the code keeps in it.          *)
TypeOK ==
  /\ loop \in {"connect", "established", "connected", "retry"}
  /\ cur \in 0..MaxConns
  /\ ws_connected \in BOOLEAN
  /\ link \in [Conns -> {"unused", "up", "dead", "broken", "closed"}]
  /\ keep_alive \in [Conns -> {"off", "sleeping", "sent", "ended"}]
  /\ forward_outgoing \in [Conns -> {"off", "running", "ended"}]
  /\ publish_incoming \in [Conns -> {"off", "running", "ended"}]
  /\ missed \in [Conns -> 0..MissLimit]
  /\ pings \in [Conns -> Nat]
  /\ lost \in [Conns -> BOOLEAN]
  /\ outgoing \in [Conns -> Seq(Requests)] /\ ahead \in [Conns -> Seq(Requests)]
  /\ \A c \in Conns : Len(outgoing[c]) <= Capacity /\ Len(ahead[c]) <= Prefetch
  /\ skipped \subseteq Calls
  /\ toAgent \in [Conns -> Seq(Calls)]
  /\ toServer \in [Conns -> Seq(Calls \cup {CloseFrame})]
  /\ serving \subseteq Conns \X Calls
  /\ call \in [Calls -> {"idle", "checked", "waiting", "ok", "timeout", "disconnected"}]
  /\ served \in [Calls -> Nat]
  /\ responses \in [Calls -> Nat]
  /\ faults \in Nat /\ stalls \in Nat /\ faults + stalls <= MaxTrouble

Init ==
  /\ loop = "connect" /\ cur = 0 /\ ws_connected = FALSE
  /\ link = [c \in Conns |-> "unused"]
  /\ keep_alive = [c \in Conns |-> "off"]
  /\ forward_outgoing = [c \in Conns |-> "off"]
  /\ publish_incoming = [c \in Conns |-> "off"]
  /\ missed = [c \in Conns |-> 0]
  /\ pings = [c \in Conns |-> 0]
  /\ lost = [c \in Conns |-> FALSE]
  /\ outgoing = [c \in Conns |-> << >>] /\ ahead = [c \in Conns |-> << >>]
  /\ skipped = {}
  /\ toAgent = [c \in Conns |-> << >>]
  /\ toServer = [c \in Conns |-> << >>]
  /\ serving = {}
  /\ call = [r \in Calls |-> "idle"]
  /\ served = [r \in Calls |-> 0]
  /\ responses = [r \in Calls |-> 0]
  /\ faults = 0
  /\ stalls = 0

-----------------------------------------------------------------------------
(* The reconnect loop                                                      *)

(* Mutant: the forward task is not spawned, so nothing subscribes. *)
ConnectNoForward(c) ==
  /\ loop = "connect"
  /\ c = cur + 1
  /\ loop' = "established"
  /\ cur' = c
  /\ link' = [link EXCEPT ![c] = "up"]
  /\ keep_alive' = [keep_alive EXCEPT ![c] = "sleeping"]
  /\ publish_incoming' = [publish_incoming EXCEPT ![c] = "running"]
  /\ UNCHANGED <<ws_connected, forward_outgoing, pinging, topic, wire, agent, client,
                 faults, stalls>>

(* connect(): the outgoing subscription exists before any task is spawned. *)
Connect(c) ==
  /\ loop = "connect"
  /\ c = cur + 1
  /\ loop' = "established"
  /\ cur' = c
  /\ link' = [link EXCEPT ![c] = "up"]
  /\ keep_alive' = [keep_alive EXCEPT ![c] = "sleeping"]
  /\ forward_outgoing' = [forward_outgoing EXCEPT ![c] = "running"]
  /\ publish_incoming' = [publish_incoming EXCEPT ![c] = "running"]
  /\ UNCHANGED <<ws_connected, pinging, topic, wire, agent, client, faults, stalls>>

ConnectFails ==
  /\ loop = "connect"
  /\ loop' = "retry"
  /\ UNCHANGED <<cur, ws_connected, link, tasks, pinging, topic, wire, agent,
                 client, faults, stalls>>

Established ==
  /\ loop = "established"
  /\ loop' = "connected"
  /\ ws_connected' = TRUE
  /\ UNCHANGED <<cur, link, tasks, pinging, topic, wire, agent, client, faults, stalls>>

TaskEnded(c) ==
  keep_alive[c] = "ended" \/ forward_outgoing[c] = "ended" \/ publish_incoming[c] = "ended"

(* Mutant: a connection that ended is not replaced. *)
DisconnectedNoRetry ==
  /\ loop = "connected"
  /\ TaskEnded(cur)
  /\ ws_connected' = FALSE
  /\ UNCHANGED <<loop, cur, link, tasks, pinging, topic, wire, agent, client, faults,
                 stalls>>

(* select_all resolves; the tasks that have not ended run on. *)
Disconnected ==
  /\ loop = "connected"
  /\ TaskEnded(cur)
  /\ loop' = "retry"
  /\ ws_connected' = FALSE
  /\ UNCHANGED <<cur, link, tasks, pinging, topic, wire, agent, client, faults, stalls>>

(* The three seconds are over. *)
Retry ==
  /\ loop = "retry"
  /\ loop' = "connect"
  /\ UNCHANGED <<cur, ws_connected, link, tasks, pinging, topic, wire, agent,
                 client, faults, stalls>>

-----------------------------------------------------------------------------
(* The keep-alive task                                                     *)

Sendable(c) == link[c] \in {"up", "dead"}

(* 15 s are over: a ping still unanswered counts as lost, and the next one  *)
(* is sent.  A failed send is lost too; it is logged and counted all the    *)
(* same.                                                                    *)
SendPing(c) ==
  /\ keep_alive[c] = "sleeping"
  /\ \/ /\ pings[c] = 0 \/ link[c] # "up"
        /\ UNCHANGED stalls
     \/ /\ pings[c] > 0 /\ link[c] = "up"
        /\ faults + stalls < MaxTrouble
        /\ stalls' = stalls + 1
  /\ keep_alive' = [keep_alive EXCEPT ![c] = "sent"]
  /\ lost' = [lost EXCEPT ![c] = @ \/ pings[c] > 0 \/ ~Sendable(c)]
  /\ pings' = [pings EXCEPT ![c] = IF Sendable(c) THEN @ + 1 ELSE @]
  /\ UNCHANGED <<loop, cur, ws_connected, link, forward_outgoing, publish_incoming,
                 missed, topic, wire, agent, client, faults>>

(* Mutant: the loop has no limit. *)
CountPingNoLimit(c) ==
  /\ keep_alive[c] = "sent"
  /\ missed' = [missed EXCEPT ![c] = @ + 1]
  /\ keep_alive' = [keep_alive EXCEPT ![c] = "sleeping"]
  /\ UNCHANGED <<loop, cur, ws_connected, link, forward_outgoing, publish_incoming,
                 pings, lost, topic, wire, agent, client, faults, stalls>>

(* fetch_add, and the test at the head of the loop. *)
CountPing(c) ==
  /\ keep_alive[c] = "sent"
  /\ missed' = [missed EXCEPT ![c] = @ + 1]
  /\ keep_alive' = [keep_alive EXCEPT ![c] =
                      IF missed[c] + 1 < MissLimit THEN "sleeping" ELSE "ended"]
  /\ UNCHANGED <<loop, cur, ws_connected, link, forward_outgoing, publish_incoming,
                 pings, lost, topic, wire, agent, client, faults, stalls>>

(* Mutant: the pong does not reset the counter. *)
ReceivePongNoReset(c) ==
  /\ publish_incoming[c] = "running"
  /\ link[c] = "up" /\ pings[c] > 0
  /\ pings' = [pings EXCEPT ![c] = @ - 1]
  /\ UNCHANGED <<loop, cur, ws_connected, link, tasks, missed, lost, topic, wire, agent,
                 client, faults, stalls>>

(* The incoming task reads the pong of the oldest ping. *)
ReceivePong(c) ==
  /\ publish_incoming[c] = "running"
  /\ link[c] = "up" /\ pings[c] > 0
  /\ pings' = [pings EXCEPT ![c] = @ - 1]
  /\ missed' = [missed EXCEPT ![c] = 0]
  /\ UNCHANGED <<loop, cur, ws_connected, link, tasks, lost, topic, wire, agent,
                 client, faults, stalls>>

-----------------------------------------------------------------------------
(* Forwarding and publishing                                               *)

(* The stream of the subscription takes requests ahead of the forward task. *)
Poll(c) ==
  /\ forward_outgoing[c] = "running"
  /\ outgoing[c] # << >> /\ Len(ahead[c]) < Prefetch
  /\ outgoing' = [outgoing EXCEPT ![c] = Tail(@)]
  /\ ahead' = [ahead EXCEPT ![c] = Append(@, Head(outgoing[c]))]
  /\ UNCHANGED <<loop, cur, ws_connected, link, tasks, pinging, skipped, wire, agent,
                 client, faults, stalls>>

Forward(c) ==
  /\ forward_outgoing[c] = "running"
  /\ ahead[c] # << >>
  /\ ahead' = [ahead EXCEPT ![c] = Tail(@)]
  /\ \/ /\ Sendable(c)
        /\ toAgent' = [toAgent EXCEPT ![c] = IF Head(ahead[c]) = Other THEN @
                                             ELSE Append(@, Head(ahead[c]))]
        /\ UNCHANGED forward_outgoing
     \/ /\ ~Sendable(c)
        /\ forward_outgoing' = [forward_outgoing EXCEPT ![c] = "ended"]
        /\ UNCHANGED toAgent
  /\ UNCHANGED <<loop, cur, ws_connected, link, keep_alive, publish_incoming, pinging,
                 outgoing, skipped, toServer, agent, client, faults, stalls>>

(* A response is published on its operation id, where the caller waits for  *)
(* the first one.                                                           *)
PublishResponse(c, r) ==
  /\ responses' = [responses EXCEPT ![r] = @ + 1]
  /\ call' = [call EXCEPT ![r] = IF @ = "waiting" THEN "ok" ELSE @]
  /\ UNCHANGED <<link, publish_incoming>>

Receive(c) ==
  /\ publish_incoming[c] = "running"
  /\ link[c] = "up"
  /\ toServer[c] # << >>
  /\ toServer' = [toServer EXCEPT ![c] = Tail(@)]
  /\ \/ /\ Head(toServer[c]) = CloseFrame
        /\ link' = [link EXCEPT ![c] = "closed"]
        /\ publish_incoming' = [publish_incoming EXCEPT ![c] = "ended"]
        /\ UNCHANGED client
     \/ \E r \in Calls : Head(toServer[c]) = r /\ PublishResponse(c, r)
  /\ UNCHANGED <<loop, cur, ws_connected, keep_alive, forward_outgoing, pinging,
                 topic, toAgent, agent, faults, stalls>>

ReceiveFails(c) ==
  /\ publish_incoming[c] = "running"
  /\ link[c] = "broken"
  /\ publish_incoming' = [publish_incoming EXCEPT ![c] = "ended"]
  /\ UNCHANGED <<loop, cur, ws_connected, link, keep_alive, forward_outgoing, pinging,
                 topic, wire, agent, client, faults, stalls>>

-----------------------------------------------------------------------------
(* send_request_and_subscribe and response_or_timeout                      *)

CheckConnected(r) ==
  /\ call[r] = "idle"
  /\ call' = [call EXCEPT ![r] = IF ws_connected THEN "checked" ELSE "disconnected"]
  /\ UNCHANGED <<loop, cur, ws_connected, link, tasks, pinging, topic, wire, agent,
                 responses, faults, stalls>>

Subscribed(c) == forward_outgoing[c] = "running"
Full(c) == Len(outgoing[c]) = Capacity

(* Every forward task that still runs has a subscription of its own.  One    *)
(* that is full loses its oldest request; the Lagged error which tells of    *)
(* it is logged and passed over.                                             *)
Publish(r) ==
  /\ outgoing' = [c \in Conns |->
       IF ~Subscribed(c) THEN outgoing[c]
       ELSE Append(IF Full(c) THEN Tail(outgoing[c]) ELSE outgoing[c], r)]
  /\ skipped' = skipped \cup
       ({Head(outgoing[c]) : c \in {d \in Conns : Subscribed(d) /\ Full(d)}} \cap Calls)
  /\ UNCHANGED <<loop, cur, ws_connected, link, tasks, pinging, ahead, wire, agent,
                 responses, faults, stalls>>

PublishRequest(r) ==
  /\ call[r] = "checked"
  /\ call' = [call EXCEPT ![r] = "waiting"]
  /\ Publish(r)

(* Somebody else's request, whose test of ws_connected passed at some time. *)
PublishOther ==
  /\ loop = "established" => cur > 1
  /\ Publish(Other)
  /\ UNCHANGED call

CallTimesOut(r) ==
  /\ call[r] = "waiting"
  /\ call' = [call EXCEPT ![r] = "timeout"]
  /\ UNCHANGED <<loop, cur, ws_connected, link, tasks, pinging, topic, wire, agent,
                 responses, faults, stalls>>

-----------------------------------------------------------------------------
(* The agent and the network                                               *)

(* The agent serves every request it reads, each in a task of its own. *)
AgentReceive(c) ==
  /\ link[c] = "up"
  /\ toAgent[c] # << >>
  /\ toAgent' = [toAgent EXCEPT ![c] = Tail(@)]
  /\ serving' = serving \cup {<<c, Head(toAgent[c])>>}
  /\ served' = [served EXCEPT ![Head(toAgent[c])] = @ + 1]
  /\ UNCHANGED <<loop, cur, ws_connected, link, tasks, pinging, topic, toServer,
                 client, faults, stalls>>

AgentRespond(c, r) ==
  /\ <<c, r>> \in serving
  /\ serving' = serving \ {<<c, r>>}
  /\ toServer' = [toServer EXCEPT ![c] = IF link[c] = "up" THEN Append(@, r) ELSE @]
  /\ UNCHANGED <<loop, cur, ws_connected, link, tasks, pinging, topic, toAgent,
                 served, client, faults, stalls>>

(* The agent's SIGINT task closes the connection. *)
AgentCloses(c) ==
  /\ link[c] = "up"
  /\ CloseFrame \notin {toServer[c][i] : i \in 1..Len(toServer[c])}
  /\ faults + stalls < MaxTrouble
  /\ faults' = faults + 1
  /\ toServer' = [toServer EXCEPT ![c] = Append(@, CloseFrame)]
  /\ UNCHANGED <<loop, cur, ws_connected, link, tasks, pinging, topic, toAgent,
                 agent, client, stalls>>

LinkFails(c) ==
  /\ link[c] = "up"
  /\ faults + stalls < MaxTrouble
  /\ faults' = faults + 1
  /\ \E how \in {"dead", "broken"} : link' = [link EXCEPT ![c] = how]
  /\ toAgent' = [toAgent EXCEPT ![c] = << >>]
  /\ toServer' = [toServer EXCEPT ![c] = << >>]
  /\ UNCHANGED <<loop, cur, ws_connected, tasks, pinging, topic, agent, client,
                 stalls>>

-----------------------------------------------------------------------------
LoopStep == \/ \E c \in Conns : Connect(c)
            \/ ConnectFails \/ Established \/ Disconnected \/ Retry

ConnStep(c) == \/ SendPing(c) \/ CountPing(c) \/ ReceivePong(c)
               \/ Poll(c) \/ Forward(c) \/ Receive(c) \/ ReceiveFails(c)

CallStep(r) == CheckConnected(r) \/ PublishRequest(r) \/ CallTimesOut(r)

AgentStep(c) == \/ AgentReceive(c) \/ AgentCloses(c) \/ LinkFails(c)
                \/ \E r \in Calls : AgentRespond(c, r)

Next ==
  \/ LoopStep
  \/ \E c \in Conns : ConnStep(c) \/ AgentStep(c)
  \/ \E r \in Calls : CallStep(r)
  \/ PublishOther

Spec == Init /\ [][Next]_vars

(* A task that can run is run, timers fire, and what is on a live wire       *)
(* arrives.  The agent can be reached again and again.                       *)
Fairness ==
  /\ WF_vars(Established) /\ WF_vars(Disconnected) /\ WF_vars(Retry)
  /\ SF_vars(\E c \in Conns : Connect(c))
  /\ \A c \in Conns : /\ WF_vars(SendPing(c)) /\ WF_vars(CountPing(c)) /\ WF_vars(ReceivePong(c))
                     /\ WF_vars(Poll(c)) /\ WF_vars(Forward(c)) /\ WF_vars(Receive(c)) /\ WF_vars(ReceiveFails(c))
                     /\ WF_vars(AgentReceive(c))
                     /\ \A r \in Calls : WF_vars(AgentRespond(c, r))
  /\ \A r \in Calls : WF_vars(PublishRequest(r)) /\ WF_vars(CallTimesOut(r))

FairSpec == Spec /\ Fairness

-----------------------------------------------------------------------------
(* Properties                                                              *)

(* A connection is given up by the keep-alive task only when a ping failed   *)
(* or its 15 s passed without a pong: the pong that is read between the      *)
(* send and fetch_add leaves a one in the counter, but never kills a link    *)
(* that answers.                                                             *)
NoFalseDead == \A c \in Conns : keep_alive[c] = "ended" => lost[c]

(* As long as live connections answer their pings in time, the agent is      *)
(* given every request at most once, and at most one terminal response is    *)
(* published on its operation id, however often the link is replaced and     *)
(* although the tasks of replaced links are not aborted.                     *)
ServedOnce == stalls = 0 => \A r \in Calls : served[r] <= 1 /\ responses[r] <= 1

(* A link that breaks, is closed or silently dies is noticed and replaced:   *)
(* once connections stop failing, the server is connected for good.          *)
EventuallyConnected == <>[](ws_connected /\ link[cur] = "up")

(* A request that got past the ws_connected test reaches the agent: the      *)
(* outgoing subscription is there before the flag.  It is lost only when a   *)
(* connection fails, or when so many requests are published while the        *)
(* connection is slow that the topic drops it; the caller then times out.    *)
PublishedIsServed ==
  \A r \in Calls :
    call[r] = "waiting" ~> served[r] > 0 \/ faults > 0 \/ r \in skipped
=============================================================================
