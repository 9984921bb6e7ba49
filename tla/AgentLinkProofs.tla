-------------------------- MODULE AgentLinkProofs ----------------------------
(***************************************************************************)
(* Proofs about AgentLink for any number of connections and calls: the     *)
(* keep-alive task gives up no connection that answers, and as long as     *)
(* live connections answer in time no request is served twice, although    *)
(* the tasks of replaced connections run on.                               *)
(***************************************************************************)
EXTENDS AgentLink, Integers, TLAPS

-----------------------------------------------------------------------------
(* The inductive invariant                                                 *)

(* Connections not yet made have no tasks and carry nothing. *)
Unmade ==
  \A c \in Conns : c > cur =>
    /\ link[c] = "unused" /\ keep_alive[c] = "off" /\ forward_outgoing[c] = "off"
    /\ missed[c] = 0 /\ pings[c] = 0 /\ ~lost[c]
    /\ outgoing[c] = << >> /\ ahead[c] = << >>
    /\ toAgent[c] = << >> /\ toServer[c] = << >>

(* The counter of missed pings: without a ping that is lost, it counts at   *)
(* most the one ping that is under way and the one whose pong was read      *)
(* before it was counted.                                                   *)
MissedBounded ==
  \A c \in Conns :
    /\ keep_alive[c] \in {"sleeping", "sent"} => missed[c] < MissLimit
    /\ ~lost[c] => /\ keep_alive[c] # "ended"
                   /\ keep_alive[c] = "sleeping" => pings[c] <= 1 /\ missed[c] <= 1 + pings[c]
                   /\ keep_alive[c] = "sent" => pings[c] <= 1 /\ missed[c] <= pings[c]

(* A connection that has lost a ping or a task is not up, so that at most   *)
(* the last one is.                                                         *)
OneUp ==
  /\ \A c \in Conns : link[c] = "up" => c = cur /\ loop \in {"established", "connected"}
  /\ \A c \in Conns : \/ lost[c] \/ forward_outgoing[c] = "ended" \/ publish_incoming[c] = "ended"
                      => link[c] # "up"

Has(s, r) == \E i \in 1..Len(s) : s[i] = r
Once(s, r) == \A i, j \in 1..Len(s) : s[i] = r /\ s[j] = r => i = j

(* A request is in one place on its way to the agent, ...                   *)
Unsent == {"idle", "checked", "disconnected"}

InTransit(c, r) == Has(outgoing[c], r) \/ Has(ahead[c], r) \/ Has(toAgent[c], r)

InOnePlace(c, r) ==
  /\ Once(outgoing[c], r) /\ Once(ahead[c], r) /\ Once(toAgent[c], r)
  /\ Has(outgoing[c], r) => ~Has(ahead[c], r) /\ ~Has(toAgent[c], r)
  /\ Has(ahead[c], r) => ~Has(toAgent[c], r)

RequestOnce(r) ==
  /\ served[r] <= 1
  /\ call[r] \in Unsent => served[r] = 0 /\ \A c \in Conns : ~InTransit(c, r)
  /\ \A c \in Conns : link[c] = "up" => InOnePlace(c, r) /\ (InTransit(c, r) => served[r] = 0)

(* ... and so is its answer on the way back.                                *)
ResponseOnce(r) ==
  /\ responses[r] <= 1
  /\ \A c, d \in Conns : <<c, r>> \in serving /\ <<d, r>> \in serving => c = d
  /\ (\E c \in Conns : <<c, r>> \in serving) => served[r] = 1 /\ responses[r] = 0
  /\ served[r] = 0 => responses[r] = 0
  /\ \A c \in Conns : link[c] = "up" =>
       /\ Once(toServer[c], r)
       /\ Has(toServer[c], r) =>
            served[r] = 1 /\ responses[r] = 0 /\ \A d \in Conns : <<d, r>> \notin serving

IInv ==
  /\ TypeOK /\ Unmade /\ MissedBounded
  /\ stalls = 0 => OneUp /\ \A r \in Calls : RequestOnce(r) /\ ResponseOnce(r)

-----------------------------------------------------------------------------
(* Streams                                                                 *)

(* What is behind the first of a stream. *)
LEMMA TailHas ==
  ASSUME NEW S, NEW s \in Seq(S), s # << >>, NEW r
  PROVE  /\ Tail(s) \in Seq(S) /\ Head(s) \in S
         /\ Has(Tail(s), r) => Has(s, r)
         /\ Head(s) = r => Has(s, r)
         /\ Once(s, r) => Once(Tail(s), r) /\ (Head(s) = r => ~Has(Tail(s), r))
<1> DEFINE t == Tail(s)
<1>1. /\ t \in Seq(S) /\ Len(t) = Len(s) - 1 /\ \A i \in 1..Len(t) : t[i] = s[i + 1]
      /\ Len(s) \in Nat \ {0} /\ Head(s) = s[1] /\ s[1] \in S
  OBVIOUS
<1> HIDE DEF t
<1>2. \A i \in 1..Len(t) : i + 1 \in 1..Len(s) /\ t[i] = s[i + 1] BY <1>1
<1>3. Has(t, r) => Has(s, r) BY <1>2 DEF Has
<1>4. Head(s) = r => Has(s, r) BY <1>1 DEF Has
<1>5. ASSUME Once(s, r) PROVE Once(t, r)
  <2> SUFFICES ASSUME NEW i \in 1..Len(t), NEW j \in 1..Len(t), t[i] = r, t[j] = r PROVE i = j
    BY DEF Once
  <2>1. i + 1 = j + 1 BY <1>2, <1>5 DEF Once
  <2>2. i \in Int /\ j \in Int OBVIOUS
  <2> QED BY <2>1, <2>2
<1>6. ASSUME Once(s, r), Head(s) = r, NEW i \in 1..Len(t), t[i] = r PROVE FALSE
  <2>1. i + 1 = 1 BY <1>1, <1>2, <1>6 DEF Once
  <2> QED BY <2>1
<1> QED BY <1>1, <1>3, <1>4, <1>5, <1>6 DEF t, Has

(* What is added to a stream. *)
LEMMA AppendHas ==
  ASSUME NEW S, NEW s \in Seq(S), NEW x \in S, NEW r
  PROVE  /\ Append(s, x) \in Seq(S)
         /\ Has(Append(s, x), r) => Has(s, r) \/ x = r
         /\ Once(s, r) /\ (x = r => ~Has(s, r)) => Once(Append(s, x), r)
<1> DEFINE t == Append(s, x)
<1>1. /\ t \in Seq(S) /\ Len(t) = Len(s) + 1 /\ t[Len(s) + 1] = x /\ Len(s) \in Nat
      /\ \A i \in 1..Len(s) : t[i] = s[i]
  OBVIOUS
<1> HIDE DEF t
<1>2. \A i \in 1..Len(t) : i = Len(s) + 1 \/ (i \in 1..Len(s) /\ t[i] = s[i]) BY <1>1
<1>3. Has(t, r) => Has(s, r) \/ x = r BY <1>1, <1>2 DEF Has
<1>4. Once(s, r) /\ (x = r => ~Has(s, r)) => Once(t, r)
  BY <1>1, <1>2 DEF Has, Once
<1> QED BY <1>1, <1>3, <1>4 DEF t

(* An empty stream. *)
LEMMA EmptyHas ==
  ASSUME NEW r
  PROVE  ~Has(<< >>, r) /\ Once(<< >>, r)
BY DEF Has, Once

(* The topics after a publication. *)
LEMMA PublishHas ==
  ASSUME TypeOK, NEW q \in Requests, Publish(q), NEW c \in Conns, NEW r
  PROVE  /\ outgoing'[c] \in Seq(Requests) /\ Len(outgoing'[c]) <= Capacity
         /\ Has(outgoing'[c], r) => Has(outgoing[c], r) \/ q = r
         /\ Once(outgoing[c], r) /\ (q = r => ~Has(outgoing[c], r)) => Once(outgoing'[c], r)
<1>1. outgoing[c] \in Seq(Requests) /\ Len(outgoing[c]) <= Capacity BY DEF TypeOK
<1>2. CASE ~Subscribed(c)
  <2>1. outgoing'[c] = outgoing[c] BY <1>2 DEF Publish
  <2> QED BY <1>1, <2>1
<1>3. CASE Subscribed(c)
  <2> DEFINE s == outgoing[c]
             u == IF Full(c) THEN Tail(s) ELSE s
             t == outgoing'[c]
  <2>1. Capacity \in Nat \ {0} /\ s \in Seq(Requests) /\ Len(s) <= Capacity
    BY <1>1, ConstantsAssumption
  <2>2. t = Append(u, q) BY <1>3 DEF Publish
  <2>3. /\ u \in Seq(Requests) /\ Len(u) < Capacity
        /\ Has(u, r) => Has(s, r)
        /\ Once(s, r) => Once(u, r)
    <3>1. CASE Full(c)
      <4>1. s # << >> /\ Len(s) = Capacity BY <2>1, <3>1 DEF Full
      <4>2. Tail(s) \in Seq(Requests) /\ Len(Tail(s)) < Capacity BY <2>1, <4>1
      <4> QED BY <2>1, <3>1, <4>1, <4>2, TailHas
    <3>2. CASE ~Full(c) BY <2>1, <3>2 DEF Full
    <3> QED BY <3>1, <3>2
  <2> HIDE DEF s, t, u
  <2>4. /\ Has(Append(u, q), r) => Has(u, r) \/ q = r
        /\ Once(u, r) /\ (q = r => ~Has(u, r)) => Once(Append(u, q), r)
    BY <2>3, AppendHas
  <2>5. t \in Seq(Requests) /\ Len(t) <= Capacity BY <2>1, <2>2, <2>3
  <2>6. Has(t, r) => Has(s, r) \/ q = r BY <2>2, <2>3, <2>4
  <2>7. Once(s, r) /\ (q = r => ~Has(s, r)) => Once(t, r) BY <2>2, <2>3, <2>4
  <2> QED BY <2>5, <2>6, <2>7 DEF s, t
<1> QED BY <1>2, <1>3

-----------------------------------------------------------------------------
(* Types, and connections not yet made                                     *)

(* Every step keeps the types; the counter of missed pings stops at its     *)
(* limit.                                                                   *)
LEMMA TypeStep ==
  ASSUME TypeOK, Unmade, MissedBounded, [Next]_vars
  PROVE  TypeOK'
<1> USE DEF tasks, pinging, topic, wire, client, agent
<1>1. ASSUME NEW c \in Conns, Connect(c) PROVE TypeOK'
  <2>1. cur' \in 0..MaxConns BY <1>1, ConstantsAssumption DEF Connect, TypeOK, Conns
  <2>2. /\ link' \in [Conns -> {"unused", "up", "dead", "broken", "closed"}]
        /\ keep_alive' \in [Conns -> {"off", "sleeping", "sent", "ended"}]
        /\ forward_outgoing' \in [Conns -> {"off", "running", "ended"}]
        /\ publish_incoming' \in [Conns -> {"off", "running", "ended"}]
    BY <1>1 DEF Connect, TypeOK
  <2> QED BY <1>1, <2>1, <2>2 DEF Connect, TypeOK
<1>2. CASE ConnectFails \/ Established \/ Disconnected \/ Retry
  BY <1>2 DEF ConnectFails, Established, Disconnected, Retry, TypeOK
<1>3. ASSUME NEW c \in Conns, SendPing(c) PROVE TypeOK'
  <2>1. stalls' \in Nat /\ faults' + stalls' <= MaxTrouble
    <3>1. faults \in Nat /\ stalls \in Nat /\ faults + stalls <= MaxTrouble /\ MaxTrouble \in Nat
      BY ConstantsAssumption DEF TypeOK
    <3>2. /\ faults' = faults
          /\ stalls' = stalls \/ (faults + stalls < MaxTrouble /\ stalls' = stalls + 1)
      BY <1>3 DEF SendPing
    <3> QED BY <3>1, <3>2
  <2>2. pings' \in [Conns -> Nat] /\ lost' \in [Conns -> BOOLEAN]
    BY <1>3 DEF SendPing, TypeOK
  <2> QED BY <1>3, <2>1, <2>2 DEF SendPing, TypeOK
<1>4. ASSUME NEW c \in Conns, CountPing(c) PROVE TypeOK'
  <2>1. missed[c] \in 0..MissLimit /\ missed[c] < MissLimit
    BY <1>4 DEF CountPing, MissedBounded, TypeOK
  <2>2. missed[c] + 1 \in 0..MissLimit BY <2>1 DEF MissLimit
  <2>3. missed' \in [Conns -> 0..MissLimit] BY <1>4, <2>2 DEF CountPing, TypeOK
  <2> QED BY <1>4, <2>3 DEF CountPing, TypeOK
<1>5. ASSUME NEW c \in Conns, ReceivePong(c) PROVE TypeOK'
  BY <1>5 DEF ReceivePong, TypeOK, MissLimit
<1>6. ASSUME NEW c \in Conns, Forward(c) PROVE TypeOK'
  <2> DEFINE h == Head(ahead[c])
             a == Tail(ahead[c])
  <2>1. ahead[c] \in Seq(Requests) /\ ahead[c] # << >> /\ toAgent[c] \in Seq(Calls)
        /\ Len(ahead[c]) <= Prefetch
    BY <1>6 DEF Forward, TypeOK
  <2>2. a \in Seq(Requests) /\ h \in Requests /\ Len(a) <= Prefetch
    BY <2>1, ConstantsAssumption
  <2>3. h # Other => Append(toAgent[c], h) \in Seq(Calls) BY <2>1, <2>2 DEF Requests
  <2> HIDE DEF h, a
  <2>4. ahead' = [ahead EXCEPT ![c] = a] BY <1>6 DEF Forward, a
  <2>5. ahead' \in [Conns -> Seq(Requests)] /\ \A d \in Conns : Len(ahead'[d]) <= Prefetch
    BY <2>2, <2>4 DEF TypeOK
  <2>6. toAgent' = [toAgent EXCEPT ![c] = IF h = Other THEN @ ELSE Append(@, h)] \/ UNCHANGED toAgent
    BY <1>6 DEF Forward, h
  <2>7. toAgent' \in [Conns -> Seq(Calls)] BY <2>3, <2>6 DEF TypeOK
  <2>8. forward_outgoing' \in [Conns -> {"off", "running", "ended"}] BY <1>6 DEF Forward, TypeOK
  <2> QED BY <1>6, <2>5, <2>7, <2>8 DEF Forward, TypeOK
<1>16. ASSUME NEW c \in Conns, Poll(c) PROVE TypeOK'
  <2> DEFINE h == Head(outgoing[c])
             o == Tail(outgoing[c])
             a == Append(ahead[c], h)
  <2>1. outgoing[c] \in Seq(Requests) /\ outgoing[c] # << >> /\ Len(outgoing[c]) <= Capacity
        /\ ahead[c] \in Seq(Requests) /\ Len(ahead[c]) < Prefetch
    BY <1>16 DEF Poll, TypeOK
  <2>2. o \in Seq(Requests) /\ h \in Requests /\ Len(o) <= Capacity BY <2>1, ConstantsAssumption
  <2>3. a \in Seq(Requests) /\ Len(a) <= Prefetch BY <2>1, <2>2, ConstantsAssumption
  <2> HIDE DEF h, o, a
  <2>4. outgoing' = [outgoing EXCEPT ![c] = o] /\ ahead' = [ahead EXCEPT ![c] = a]
    BY <1>16 DEF Poll, h, o, a
  <2>5. /\ outgoing' \in [Conns -> Seq(Requests)] /\ \A d \in Conns : Len(outgoing'[d]) <= Capacity
        /\ ahead' \in [Conns -> Seq(Requests)] /\ \A d \in Conns : Len(ahead'[d]) <= Prefetch
    BY <2>2, <2>3, <2>4 DEF TypeOK
  <2> QED BY <1>16, <2>5 DEF Poll, TypeOK
<1>7. ASSUME NEW c \in Conns, Receive(c) PROVE TypeOK'
  <2>1. Tail(toServer[c]) \in Seq(Calls \cup {CloseFrame}) BY <1>7 DEF Receive, TypeOK
  <2>2. toServer' \in [Conns -> Seq(Calls \cup {CloseFrame})] BY <1>7, <2>1 DEF Receive, TypeOK
  <2>3. CASE UNCHANGED client /\ link' = [link EXCEPT ![c] = "closed"]
             /\ publish_incoming' = [publish_incoming EXCEPT ![c] = "ended"]
    BY <1>7, <2>2, <2>3 DEF Receive, TypeOK
  <2>4. ASSUME NEW r \in Calls, PublishResponse(c, r) PROVE TypeOK'
    <3>1. responses' \in [Calls -> Nat] BY <2>4 DEF PublishResponse, TypeOK
    <3>2. call' \in [Calls -> {"idle", "checked", "waiting", "ok", "timeout", "disconnected"}]
      BY <2>4 DEF PublishResponse, TypeOK
    <3> QED BY <1>7, <2>2, <2>4, <3>1, <3>2 DEF Receive, PublishResponse, TypeOK
  <2> QED BY <1>7, <2>3, <2>4 DEF Receive
<1>8. ASSUME NEW c \in Conns, ReceiveFails(c) PROVE TypeOK' BY <1>8 DEF ReceiveFails, TypeOK
<1>9. ASSUME NEW r \in Calls, CheckConnected(r) \/ CallTimesOut(r) PROVE TypeOK'
  BY <1>9 DEF CheckConnected, CallTimesOut, TypeOK
<1>10. ASSUME NEW q \in Requests, Publish(q),
              call' \in [Calls -> {"idle", "checked", "waiting", "ok", "timeout", "disconnected"}]
       PROVE  TypeOK'
  <2>1. \A c \in Conns : outgoing'[c] \in Seq(Requests) /\ Len(outgoing'[c]) <= Capacity
    BY <1>10, PublishHas
  <2>2. outgoing' \in [Conns -> Seq(Requests)] BY <1>10, <2>1 DEF Publish
  <2>3. skipped' \subseteq Calls BY <1>10 DEF Publish, TypeOK
  <2> QED BY <1>10, <2>1, <2>2, <2>3 DEF Publish, TypeOK
<1>17. ASSUME NEW r \in Calls, PublishRequest(r) PROVE TypeOK'
  <2>1. call' \in [Calls -> {"idle", "checked", "waiting", "ok", "timeout", "disconnected"}]
    BY <1>17 DEF PublishRequest, TypeOK
  <2> QED BY <1>10, <1>17, <2>1 DEF PublishRequest, Requests
<1>18. CASE PublishOther
  BY <1>10, <1>18 DEF PublishOther, Requests, TypeOK
<1>11. ASSUME NEW c \in Conns, AgentReceive(c) PROVE TypeOK'
  <2>1. /\ Tail(toAgent[c]) \in Seq(Calls) /\ Head(toAgent[c]) \in Calls
    BY <1>11 DEF AgentReceive, TypeOK
  <2>2. served' \in [Calls -> Nat] BY <1>11, <2>1, SMTT(30) DEF AgentReceive, TypeOK
  <2>3. toAgent' \in [Conns -> Seq(Calls)] BY <1>11, <2>1 DEF AgentReceive, TypeOK
  <2>4. serving' \subseteq Conns \X Calls BY <1>11, <2>1 DEF AgentReceive, TypeOK
  <2> QED BY <1>11, <2>2, <2>3, <2>4 DEF AgentReceive, TypeOK
<1>12. ASSUME NEW c \in Conns, NEW r \in Calls, AgentRespond(c, r) PROVE TypeOK'
  <2>1. Append(toServer[c], r) \in Seq(Calls \cup {CloseFrame}) BY DEF TypeOK
  <2> QED BY <1>12, <2>1 DEF AgentRespond, TypeOK
<1>13. ASSUME NEW c \in Conns, AgentCloses(c) PROVE TypeOK'
  <2>1. Append(toServer[c], CloseFrame) \in Seq(Calls \cup {CloseFrame}) BY DEF TypeOK
  <2>2. faults' \in Nat /\ faults' + stalls' <= MaxTrouble
    BY <1>13, ConstantsAssumption DEF AgentCloses, TypeOK
  <2> QED BY <1>13, <2>1, <2>2 DEF AgentCloses, TypeOK
<1>14. ASSUME NEW c \in Conns, LinkFails(c) PROVE TypeOK'
  <2>1. faults' \in Nat /\ faults' + stalls' <= MaxTrouble
    BY <1>14, ConstantsAssumption DEF LinkFails, TypeOK
  <2>2. << >> \in Seq(Calls) /\ << >> \in Seq(Calls \cup {CloseFrame}) OBVIOUS
  <2>4. toAgent' \in [Conns -> Seq(Calls)] BY <1>14, <2>2 DEF LinkFails, TypeOK
  <2>5. toServer' \in [Conns -> Seq(Calls \cup {CloseFrame})] BY <1>14, <2>2 DEF LinkFails, TypeOK
  <2>3. link' \in [Conns -> {"unused", "up", "dead", "broken", "closed"}]
    BY <1>14 DEF LinkFails, TypeOK
  <2> QED BY <1>14, <2>1, <2>3, <2>4, <2>5 DEF LinkFails, TypeOK
<1>15. CASE UNCHANGED vars BY <1>15 DEF vars, TypeOK
<1> QED
  BY <1>1, <1>2, <1>3, <1>4, <1>5, <1>6, <1>7, <1>8, <1>9, <1>10, <1>11, <1>12, <1>13, <1>14, <1>15,
     <1>16, <1>17, <1>18
  DEF Next, LoopStep, ConnStep, CallStep, AgentStep

(* Only Connect touches a connection that is not yet made. *)
LEMMA UnmadeStep ==
  ASSUME TypeOK, Unmade, [Next]_vars
  PROVE  Unmade'
<1> USE DEF tasks, pinging, topic, wire, client, agent
<1> SUFFICES ASSUME NEW d \in Conns, d > cur'
             PROVE  /\ link'[d] = "unused" /\ keep_alive'[d] = "off" /\ forward_outgoing'[d] = "off"
                    /\ missed'[d] = 0 /\ pings'[d] = 0 /\ ~lost'[d]
                    /\ outgoing'[d] = << >> /\ ahead'[d] = << >>
                    /\ toAgent'[d] = << >> /\ toServer'[d] = << >>
  BY DEF Unmade
<1>0. d > cur
  <2>1. ASSUME NEW c \in Conns, Connect(c) PROVE d > cur
    BY <2>1 DEF Connect, TypeOK, Conns
  <2>2. CASE UNCHANGED cur BY <2>2
  <2>3. ASSUME NEW c \in Conns, ConnStep(c) \/ AgentStep(c) PROVE UNCHANGED cur
    BY <2>3 DEF ConnStep, AgentStep, SendPing, CountPing, ReceivePong, Poll, Forward, Receive,
      ReceiveFails, AgentReceive, AgentRespond, AgentCloses, LinkFails
  <2>4. ASSUME NEW r \in Calls, CallStep(r) PROVE UNCHANGED cur
    BY <2>4 DEF CallStep, CheckConnected, PublishRequest, Publish, CallTimesOut
  <2>6. CASE PublishOther BY <2>2, <2>6 DEF PublishOther, Publish
  <2>5. CASE ConnectFails \/ Established \/ Disconnected \/ Retry \/ UNCHANGED vars
    BY <2>2, <2>5 DEF ConnectFails, Established, Disconnected, Retry, vars
  <2> QED BY <2>1, <2>2, <2>3, <2>4, <2>5, <2>6 DEF Next, LoopStep
<1>1. /\ link[d] = "unused" /\ keep_alive[d] = "off" /\ forward_outgoing[d] = "off"
      /\ missed[d] = 0 /\ pings[d] = 0 /\ ~lost[d]
      /\ outgoing[d] = << >> /\ ahead[d] = << >> /\ toAgent[d] = << >> /\ toServer[d] = << >>
  BY <1>0 DEF Unmade
<1>2. ASSUME NEW c \in Conns, Connect(c)
      PROVE  /\ link'[d] = link[d] /\ keep_alive'[d] = keep_alive[d]
             /\ forward_outgoing'[d] = forward_outgoing[d]
             /\ UNCHANGED <<missed, pings, lost, outgoing, ahead, toAgent, toServer>>
  <2>1. d # c BY <1>2 DEF Connect, TypeOK, Conns
  <2> QED BY <1>2, <2>1 DEF Connect, TypeOK
<1>3. ASSUME NEW c \in Conns, ConnStep(c) \/ AgentStep(c)
      PROVE  /\ link'[d] = link[d] /\ keep_alive'[d] = keep_alive[d]
             /\ forward_outgoing'[d] = forward_outgoing[d]
             /\ missed'[d] = missed[d] /\ pings'[d] = pings[d] /\ lost'[d] = lost[d]
             /\ outgoing'[d] = outgoing[d] /\ ahead'[d] = ahead[d]
             /\ toAgent'[d] = toAgent[d] /\ toServer'[d] = toServer[d]
  <2>1. CASE SendPing(c) BY <1>1, <2>1 DEF SendPing, TypeOK
  <2>2. CASE CountPing(c) BY <1>1, <2>2 DEF CountPing, TypeOK
  <2>3. CASE ReceivePong(c) BY <1>1, <2>3 DEF ReceivePong, TypeOK
  <2>4. CASE Forward(c) BY <1>1, <2>4 DEF Forward, TypeOK
  <2>5. CASE Receive(c) BY <1>1, <2>5 DEF Receive, PublishResponse, TypeOK
  <2>6. CASE ReceiveFails(c) BY <1>1, <2>6 DEF ReceiveFails, TypeOK
  <2>7. CASE AgentReceive(c) BY <1>1, <2>7 DEF AgentReceive, TypeOK
  <2>8. CASE \E r \in Calls : AgentRespond(c, r) BY <1>1, <2>8 DEF AgentRespond, TypeOK
  <2>9. CASE AgentCloses(c) BY <1>1, <2>9 DEF AgentCloses, TypeOK
  <2>10. CASE LinkFails(c) BY <1>1, <2>10 DEF LinkFails, TypeOK
  <2>11. CASE Poll(c) BY <1>1, <2>11 DEF Poll, TypeOK
  <2> QED BY <1>3, <2>1, <2>2, <2>3, <2>4, <2>5, <2>6, <2>7, <2>8, <2>9, <2>10, <2>11
    DEF ConnStep, AgentStep
<1>4. ASSUME PublishOther \/ \E r \in Calls : CallStep(r)
      PROVE  /\ UNCHANGED <<link, keep_alive, forward_outgoing, missed, pings, lost, ahead,
                            toAgent, toServer>>
             /\ outgoing'[d] = outgoing[d]
  BY <1>1, <1>4 DEF CallStep, CheckConnected, PublishRequest, PublishOther, Publish, Subscribed,
     CallTimesOut, TypeOK
<1>5. CASE ConnectFails \/ Established \/ Disconnected \/ Retry \/ UNCHANGED vars
  BY <1>1, <1>5 DEF ConnectFails, Established, Disconnected, Retry, vars
<1> QED BY <1>1, <1>2, <1>3, <1>4, <1>5 DEF Next, LoopStep

-----------------------------------------------------------------------------
(* The keep-alive task                                                     *)

(* Every step keeps the bounds on the counter of missed pings: a pong that  *)
(* is read between the send of a ping and its fetch_add leaves a one        *)
(* behind, never more.                                                      *)
LEMMA MissedStep ==
  ASSUME TypeOK, Unmade, MissedBounded, [Next]_vars
  PROVE  MissedBounded'
<1> USE DEF tasks, pinging, topic, wire, client, agent
<1> DEFINE Bounded(d) ==
      /\ keep_alive[d] \in {"sleeping", "sent"} => missed[d] < MissLimit
      /\ ~lost[d] =>
           /\ keep_alive[d] # "ended"
           /\ keep_alive[d] = "sleeping" => pings[d] <= 1 /\ missed[d] <= 1 + pings[d]
           /\ keep_alive[d] = "sent" => pings[d] <= 1 /\ missed[d] <= pings[d]
<1> SUFFICES ASSUME NEW d \in Conns PROVE Bounded(d)' BY DEF MissedBounded
<1>1. Bounded(d) BY DEF MissedBounded
<1>2. missed[d] \in 0..MissLimit /\ pings[d] \in Nat BY DEF TypeOK
<1>3. ASSUME NEW c \in Conns, Connect(c) PROVE Bounded(d)'
  <2>1. CASE d = c
    <3>1. missed[d] = 0 /\ pings[d] = 0 BY <1>3, <2>1 DEF Connect, Unmade, TypeOK, Conns
    <3>2. missed'[d] = 0 /\ pings'[d] = 0 /\ keep_alive'[d] = "sleeping"
      BY <1>3, <2>1, <3>1 DEF Connect, TypeOK
    <3> QED BY <3>2 DEF MissLimit
  <2>2. CASE d # c BY <1>1, <1>3, <2>2 DEF Connect, TypeOK
  <2> QED BY <2>1, <2>2
<1>4. ASSUME NEW c \in Conns, SendPing(c) PROVE Bounded(d)'
  <2>1. CASE d = c
    <3>1. /\ keep_alive[d] = "sleeping" /\ keep_alive'[d] = "sent" /\ missed'[d] = missed[d]
          /\ lost'[d] = (lost[d] \/ pings[d] > 0 \/ ~Sendable(d))
          /\ pings'[d] = IF Sendable(d) THEN pings[d] + 1 ELSE pings[d]
      BY <1>4, <2>1 DEF SendPing, TypeOK
    <3>4. ~lost'[d] => ~lost[d] /\ ~(pings[d] > 0) /\ Sendable(d) BY <3>1, Zenon
    <3>2. ~lost'[d] => ~lost[d] /\ pings[d] = 0 /\ Sendable(d) BY <1>2, <3>4
    <3>3. ~lost'[d] => pings'[d] = 1 /\ missed'[d] <= 1 BY <1>1, <3>1, <3>2
    <3> QED BY <1>1, <3>1, <3>3
  <2>2. CASE d # c BY <1>1, <1>4, <2>2 DEF SendPing, TypeOK
  <2> QED BY <2>1, <2>2
<1>5. ASSUME NEW c \in Conns, CountPing(c) PROVE Bounded(d)'
  <2>1. CASE d = c
    <3>1. /\ keep_alive[d] = "sent" /\ missed'[d] = missed[d] + 1
          /\ keep_alive'[d] = IF missed[d] + 1 < MissLimit THEN "sleeping" ELSE "ended"
          /\ pings'[d] = pings[d] /\ lost'[d] = lost[d]
      BY <1>5, <2>1 DEF CountPing, TypeOK
    <3> QED BY <1>1, <1>2, <3>1 DEF MissLimit
  <2>2. CASE d # c BY <1>1, <1>5, <2>2 DEF CountPing, TypeOK
  <2> QED BY <2>1, <2>2
<1>6. ASSUME NEW c \in Conns, ReceivePong(c) PROVE Bounded(d)'
  <2>1. CASE d = c
    <3>1. /\ keep_alive'[d] = keep_alive[d] /\ missed'[d] = 0 /\ pings[d] > 0
          /\ pings'[d] = pings[d] - 1 /\ lost'[d] = lost[d]
      BY <1>6, <2>1 DEF ReceivePong, TypeOK
    <3> QED BY <1>1, <1>2, <3>1 DEF MissLimit
  <2>2. CASE d # c BY <1>1, <1>6, <2>2 DEF ReceivePong, TypeOK
  <2> QED BY <2>1, <2>2
<1>7. CASE UNCHANGED <<keep_alive, missed, pings, lost>> BY <1>1, <1>7
<1>8. ASSUME NEW c \in Conns, Poll(c) \/ Forward(c) \/ Receive(c) \/ ReceiveFails(c) \/ AgentStep(c)
      PROVE  UNCHANGED <<keep_alive, missed, pings, lost>>
  BY <1>8 DEF AgentStep, Poll, Forward, Receive, ReceiveFails, AgentReceive, AgentRespond, AgentCloses,
    LinkFails
<1>9. ASSUME PublishOther \/ \E r \in Calls : CallStep(r)
      PROVE  UNCHANGED <<keep_alive, missed, pings, lost>>
  BY <1>9 DEF CallStep, CheckConnected, PublishRequest, PublishOther, Publish, CallTimesOut
<1>10. CASE ConnectFails \/ Established \/ Disconnected \/ Retry \/ UNCHANGED vars
  BY <1>7, <1>10 DEF ConnectFails, Established, Disconnected, Retry, vars
<1> QED BY <1>3, <1>4, <1>5, <1>6, <1>7, <1>8, <1>9, <1>10 DEF Next, LoopStep, ConnStep

-----------------------------------------------------------------------------
(* At most one connection is up                                            *)

(* Late pongs are counted and never forgotten. *)
LEMMA StallStep ==
  ASSUME TypeOK, [Next]_vars, stalls' = 0
  PROVE  stalls = 0 /\ UNCHANGED stalls
<1>1. ASSUME NEW c \in Conns, SendPing(c) PROVE UNCHANGED stalls
  BY <1>1 DEF SendPing, TypeOK
<1>2. ASSUME NEW c \in Conns,
             CountPing(c) \/ ReceivePong(c) \/ Poll(c) \/ Forward(c) \/ Receive(c) \/ ReceiveFails(c)
      PROVE  UNCHANGED stalls
  BY <1>2 DEF CountPing, ReceivePong, Poll, Forward, Receive, ReceiveFails
<1>3. ASSUME NEW c \in Conns, AgentStep(c) PROVE UNCHANGED stalls
  BY <1>3 DEF AgentStep, AgentReceive, AgentRespond, AgentCloses, LinkFails
<1>4. ASSUME PublishOther \/ \E r \in Calls : CallStep(r) PROVE UNCHANGED stalls
  BY <1>4 DEF CallStep, CheckConnected, PublishRequest, PublishOther, Publish, CallTimesOut
<1>5. CASE LoopStep \/ UNCHANGED vars
  BY <1>5 DEF LoopStep, Connect, ConnectFails, Established, Disconnected, Retry, vars
<1> QED BY <1>1, <1>2, <1>3, <1>4, <1>5 DEF Next, ConnStep

(* While live connections answer in time, a connection is replaced only     *)
(* after it has failed, and no task of a live one ends.                     *)
LEMMA OneUpStep ==
  ASSUME TypeOK, Unmade, MissedBounded, OneUp, [Next]_vars, stalls' = 0
  PROVE  OneUp'
<1> USE DEF tasks, pinging, topic, wire, client, agent
<1>0. stalls' = stalls BY StallStep
<1> DEFINE Spoilt(d) == lost[d] \/ forward_outgoing[d] = "ended" \/ publish_incoming[d] = "ended"
<1> SUFFICES ASSUME NEW d \in Conns, link'[d] = "up"
             PROVE  d = cur' /\ loop' \in {"established", "connected"} /\ ~Spoilt(d)'
  BY DEF OneUp
<1>1. link[d] = "up" => d = cur /\ loop \in {"established", "connected"} /\ ~Spoilt(d)
  BY DEF OneUp
<1>2. ASSUME NEW c \in Conns, Connect(c)
      PROVE  d = cur' /\ loop' \in {"established", "connected"} /\ ~Spoilt(d)'
  <2>1. d = c /\ d > cur BY <1>1, <1>2 DEF Connect, TypeOK, Conns
  <2>2. ~lost[d] BY <2>1 DEF Unmade
  <2> QED BY <1>2, <2>1, <2>2 DEF Connect, TypeOK
<1>3. CASE Disconnected
  <2>1. link[d] = "up" /\ d = cur /\ ~Spoilt(d) BY <1>1, <1>3 DEF Disconnected
  <2>2. keep_alive[d] = "ended" BY <1>3, <2>1 DEF Disconnected, TaskEnded
  <2> QED BY <2>1, <2>2 DEF MissedBounded
<1>4. CASE ConnectFails \/ Established \/ Retry \/ UNCHANGED vars
  BY <1>1, <1>4 DEF ConnectFails, Established, Retry, vars
<1>5. ASSUME NEW c \in Conns, SendPing(c)
      PROVE  UNCHANGED <<cur, loop>> /\ link[d] = "up" /\ ~Spoilt(d)'
  <2>1. link[d] = "up" /\ UNCHANGED <<cur, loop, link, forward_outgoing, publish_incoming>>
    BY <1>5 DEF SendPing
  <2>2. CASE d = c
    <3>1. pings[c] = 0 BY <1>0, <1>5, <2>1, <2>2 DEF SendPing, TypeOK
    <3> QED BY <1>1, <1>5, <2>1, <2>2, <3>1 DEF SendPing, TypeOK, Sendable
  <2>3. CASE d # c BY <1>1, <1>5, <2>1, <2>3 DEF SendPing, TypeOK
  <2> QED BY <2>1, <2>2, <2>3
<1>6. ASSUME NEW c \in Conns, CountPing(c) \/ ReceivePong(c) \/ AgentReceive(c) \/ AgentCloses(c)
                              \/ Poll(c) \/ \E r \in Calls : AgentRespond(c, r)
      PROVE  UNCHANGED <<cur, loop>> /\ link[d] = "up" /\ ~Spoilt(d)'
  BY <1>1, <1>6 DEF CountPing, ReceivePong, Poll, AgentReceive, AgentCloses, AgentRespond
<1>7. ASSUME NEW c \in Conns, Forward(c)
      PROVE  UNCHANGED <<cur, loop>> /\ link[d] = "up" /\ ~Spoilt(d)'
  BY <1>1, <1>7 DEF Forward, TypeOK, Sendable
<1>8. ASSUME NEW c \in Conns, Receive(c)
      PROVE  UNCHANGED <<cur, loop>> /\ link[d] = "up" /\ ~Spoilt(d)'
  <2>1. UNCHANGED <<cur, loop, lost, forward_outgoing>> BY <1>8 DEF Receive
  <2>2. CASE UNCHANGED <<link, publish_incoming>> BY <1>1, <2>1, <2>2
  <2>3. CASE link' = [link EXCEPT ![c] = "closed"]
             /\ publish_incoming' = [publish_incoming EXCEPT ![c] = "ended"]
    BY <1>1, <2>1, <2>3 DEF TypeOK
  <2> QED BY <1>8, <2>2, <2>3 DEF Receive, PublishResponse
<1>9. ASSUME NEW c \in Conns, ReceiveFails(c) \/ LinkFails(c)
      PROVE  UNCHANGED <<cur, loop>> /\ link[d] = "up" /\ ~Spoilt(d)'
  BY <1>1, <1>9 DEF ReceiveFails, LinkFails, TypeOK
<1>10. ASSUME PublishOther \/ \E r \in Calls : CallStep(r)
      PROVE  UNCHANGED <<cur, loop>> /\ link[d] = "up" /\ ~Spoilt(d)'
  BY <1>1, <1>10 DEF CallStep, CheckConnected, PublishRequest, PublishOther, Publish, CallTimesOut
<1> QED BY <1>1, <1>2, <1>3, <1>4, <1>5, <1>6, <1>7, <1>8, <1>9, <1>10
  DEF Next, LoopStep, ConnStep, AgentStep

-----------------------------------------------------------------------------
(* A request is served once                                                *)

(* A step that puts the request nowhere new on the way to the agent keeps   *)
(* it in its one place.                                                     *)
LEMMA RequestKept ==
  ASSUME NEW r \in Calls, RequestOnce(r), served'[r] = served[r],
         call'[r] \in Unsent => call[r] \in Unsent,
         \A c \in Conns : InTransit(c, r)' => InTransit(c, r),
         \A c \in Conns : link'[c] = "up" =>
           \/ link[c] = "up" /\ (InOnePlace(c, r) => InOnePlace(c, r)')
           \/ InOnePlace(c, r)' /\ ~InTransit(c, r)'
  PROVE  RequestOnce(r)'
<1>1. served'[r] <= 1 BY DEF RequestOnce
<1>2. call'[r] \in Unsent => served'[r] = 0 /\ \A c \in Conns : ~InTransit(c, r)'
  BY DEF RequestOnce
<1>3. \A c \in Conns : link'[c] = "up" => InOnePlace(c, r)' /\ (InTransit(c, r)' => served'[r] = 0)
  BY DEF RequestOnce
<1> QED BY <1>1, <1>2, <1>3 DEF RequestOnce

(* Every step keeps each request in one place: the call publishes it once,  *)
(* and of the tasks that take it only that of the live connection can send. *)
LEMMA RequestStep ==
  ASSUME TypeOK, Unmade, OneUp, [Next]_vars, NEW r \in Calls, RequestOnce(r)
  PROVE  RequestOnce(r)'
<1> USE DEF tasks, pinging, topic, wire, client, agent
<1> DEFINE Quiet == /\ UNCHANGED <<served, outgoing, ahead, toAgent>>
                    /\ call'[r] \in Unsent => call[r] \in Unsent
                    /\ \A c \in Conns : link'[c] = "up" => link[c] = "up"
<1>1. CASE Quiet
  <2>1. \A c \in Conns : /\ InTransit(c, r)' <=> InTransit(c, r)
                         /\ InOnePlace(c, r)' <=> InOnePlace(c, r)
    BY <1>1 DEF InTransit, InOnePlace
  <2> QED BY <1>1, <2>1, RequestKept
<1>2. ASSUME NEW c \in Conns, Connect(c) PROVE RequestOnce(r)'
  <2>1. outgoing[c] = << >> /\ ahead[c] = << >> /\ toAgent[c] = << >>
    BY <1>2 DEF Connect, Unmade, TypeOK, Conns
  <2>2. UNCHANGED <<served, outgoing, ahead, toAgent, call>>
        /\ \A d \in Conns : link'[d] = "up" => link[d] = "up" \/ d = c
    BY <1>2 DEF Connect, TypeOK
  <2>3. \A d \in Conns : /\ InTransit(d, r)' <=> InTransit(d, r)
                         /\ InOnePlace(d, r)' <=> InOnePlace(d, r)
    BY <2>2 DEF InTransit, InOnePlace
  <2>4. InOnePlace(c, r) /\ ~InTransit(c, r) BY <2>1, EmptyHas DEF InOnePlace, InTransit
  <2> QED BY <2>2, <2>3, <2>4, RequestKept
<1>3. CASE ConnectFails \/ Established \/ Disconnected \/ Retry \/ UNCHANGED vars
  BY <1>1, <1>3 DEF ConnectFails, Established, Disconnected, Retry, vars
<1>4. ASSUME NEW c \in Conns, SendPing(c) \/ CountPing(c) \/ ReceivePong(c) \/ ReceiveFails(c)
                              \/ AgentCloses(c) \/ \E q \in Calls : AgentRespond(c, q)
      PROVE  Quiet
  BY <1>4 DEF SendPing, CountPing, ReceivePong, ReceiveFails, AgentCloses, AgentRespond
<1>5. ASSUME NEW c \in Conns, Receive(c) PROVE Quiet
  <2>1. UNCHANGED <<served, outgoing, ahead, toAgent>> BY <1>5 DEF Receive
  <2>2. \A d \in Conns : link'[d] = "up" => link[d] = "up"
    BY <1>5 DEF Receive, PublishResponse, TypeOK
  <2>3. call'[r] \in Unsent => call[r] \in Unsent
    BY <1>5 DEF Receive, PublishResponse, TypeOK, Unsent
  <2> QED BY <2>1, <2>2, <2>3
<1>6. ASSUME NEW q \in Calls, CheckConnected(q) \/ CallTimesOut(q) PROVE Quiet
  <2>1. call'[r] \in Unsent => call[r] \in Unsent
    BY <1>6 DEF CheckConnected, CallTimesOut, TypeOK, Unsent
  <2> QED BY <1>6, <2>1 DEF CheckConnected, CallTimesOut
<1>7. ASSUME NEW c \in Conns, LinkFails(c) PROVE RequestOnce(r)'
  <2>1. UNCHANGED <<served, outgoing, ahead, call>> BY <1>7 DEF LinkFails
  <2>2. \A d \in Conns : (d # c /\ toAgent'[d] = toAgent[d] /\ link'[d] = link[d])
                         \/ (d = c /\ toAgent'[d] = << >> /\ link'[d] # "up")
    BY <1>7 DEF LinkFails, TypeOK
  <2>3. \A d \in Conns : InTransit(d, r)' => InTransit(d, r)
    BY <2>1, <2>2, EmptyHas DEF InTransit
  <2>4. \A d \in Conns : link'[d] = "up" => link[d] = "up" /\ toAgent'[d] = toAgent[d] BY <2>2
  <2>5. \A d \in Conns : link'[d] = "up" => (InOnePlace(d, r)' <=> InOnePlace(d, r))
    BY <2>1, <2>4 DEF InOnePlace
  <2> QED BY <2>1, <2>3, <2>4, <2>5, RequestKept
<1>8. ASSUME NEW q \in Requests, Publish(q)
      PROVE  /\ UNCHANGED <<served, link, ahead, toAgent>>
             /\ \A d \in Conns :
                  /\ Has(outgoing'[d], r) => Has(outgoing[d], r) \/ q = r
                  /\ Once(outgoing[d], r) /\ (q = r => ~Has(outgoing[d], r)) => Once(outgoing'[d], r)
  <2>1. UNCHANGED <<served, link, ahead, toAgent>> BY <1>8 DEF Publish
  <2> QED BY <1>8, <2>1, PublishHas
<1>a. ASSUME NEW q \in Requests, Publish(q), q # r, call'[r] = call[r] PROVE RequestOnce(r)'
  <2>1. \A d \in Conns : InTransit(d, r)' => InTransit(d, r) BY <1>8, <1>a DEF InTransit
  <2>2. \A d \in Conns : InOnePlace(d, r) => InOnePlace(d, r)' BY <1>8, <1>a DEF InOnePlace
  <2> QED BY <1>8, <1>a, <2>1, <2>2, RequestKept
<1>b. ASSUME NEW q \in Calls, PublishRequest(q) PROVE RequestOnce(r)'
  <2>0. q \in Requests /\ Publish(q) BY <1>b DEF PublishRequest, Requests
  <2>1. CASE q = r
    <3>1. call[r] = "checked" /\ call'[r] = "waiting" BY <1>b, <2>1 DEF PublishRequest, TypeOK
    <3>2. served[r] = 0 /\ \A d \in Conns : ~InTransit(d, r)
      BY <3>1 DEF RequestOnce, Unsent
    <3>3. UNCHANGED <<served, link, ahead, toAgent>> BY <1>8, <2>0
    <3>4. \A d \in Conns : InOnePlace(d, r) => InOnePlace(d, r)'
      BY <1>8, <2>0, <3>2 DEF InOnePlace, InTransit
    <3>5. \A d \in Conns : link'[d] = "up" => InOnePlace(d, r)' BY <3>3, <3>4 DEF RequestOnce
    <3>6. served'[r] = 0 /\ call'[r] \notin Unsent BY <3>1, <3>2, <3>3 DEF Unsent
    <3> QED BY <3>5, <3>6 DEF RequestOnce
  <2>2. CASE q # r
    <3>1. call'[r] = call[r] BY <1>b, <2>2 DEF PublishRequest, TypeOK
    <3> QED BY <1>a, <2>0, <2>2, <3>1
  <2> QED BY <2>1, <2>2
<1>c. CASE PublishOther
  <2>1. Other \in Requests /\ Other # r /\ Publish(Other) /\ call'[r] = call[r]
    BY <1>c, ConstantsAssumption DEF PublishOther, Requests
  <2> QED BY <1>a, <2>1
<1>9. ASSUME NEW c \in Conns, Poll(c) PROVE RequestOnce(r)'
  <2> DEFINE h == Head(outgoing[c])
  <2>1. UNCHANGED <<served, link, call, toAgent>> BY <1>9 DEF Poll
  <2>2. /\ outgoing[c] \in Seq(Requests) /\ outgoing[c] # << >> /\ ahead[c] \in Seq(Requests)
        /\ h \in Requests
    BY <1>9 DEF Poll, TypeOK
  <2>3. /\ outgoing'[c] = Tail(outgoing[c]) /\ ahead'[c] = Append(ahead[c], h)
        /\ \A d \in Conns : d # c => outgoing'[d] = outgoing[d] /\ ahead'[d] = ahead[d]
    BY <1>9 DEF Poll, TypeOK
  <2> HIDE DEF h
  <2>4. /\ Has(outgoing'[c], r) => Has(outgoing[c], r)
        /\ h = r => Has(outgoing[c], r)
        /\ Once(outgoing[c], r) => Once(outgoing'[c], r) /\ (h = r => ~Has(outgoing'[c], r))
    BY <2>2, <2>3, TailHas DEF h
  <2>5. /\ Has(ahead'[c], r) => Has(ahead[c], r) \/ h = r
        /\ Once(ahead[c], r) /\ (h = r => ~Has(ahead[c], r)) => Once(ahead'[c], r)
    BY <2>2, <2>3, AppendHas
  <2>6. \A d \in Conns : InTransit(d, r)' => InTransit(d, r)
    BY <2>1, <2>3, <2>4, <2>5 DEF InTransit
  <2>7. InOnePlace(c, r) => InOnePlace(c, r)' BY <2>1, <2>4, <2>5 DEF InOnePlace
  <2>8. \A d \in Conns : d # c => (InOnePlace(d, r) => InOnePlace(d, r)')
    BY <2>1, <2>3 DEF InOnePlace
  <2> QED BY <2>1, <2>6, <2>7, <2>8, RequestKept
<1>10. ASSUME NEW c \in Conns, Forward(c) PROVE RequestOnce(r)'
  <2> DEFINE h == Head(ahead[c])
  <2>1. UNCHANGED <<served, link, call, outgoing>> BY <1>10 DEF Forward
  <2>2. /\ ahead[c] \in Seq(Requests) /\ ahead[c] # << >> /\ toAgent[c] \in Seq(Calls)
        /\ h \in Requests
    BY <1>10 DEF Forward, TypeOK
  <2>3. /\ ahead'[c] = Tail(ahead[c])
        /\ \A d \in Conns : d # c => ahead'[d] = ahead[d] /\ toAgent'[d] = toAgent[d]
    BY <1>10 DEF Forward, TypeOK
  <2>4. toAgent'[c] = toAgent[c] \/ (h # Other /\ toAgent'[c] = Append(toAgent[c], h))
    BY <1>10 DEF Forward, TypeOK
  <2> HIDE DEF h
  <2>5. /\ Has(ahead'[c], r) => Has(ahead[c], r)
        /\ h = r => Has(ahead[c], r)
        /\ Once(ahead[c], r) => Once(ahead'[c], r) /\ (h = r => ~Has(ahead'[c], r))
    BY <2>2, <2>3, TailHas DEF h
  <2>6. /\ Has(toAgent'[c], r) => Has(toAgent[c], r) \/ h = r
        /\ Once(toAgent[c], r) /\ (h = r => ~Has(toAgent[c], r)) => Once(toAgent'[c], r)
    <3>1. CASE h # Other
      <4>1. h \in Calls BY <2>2, <3>1 DEF Requests
      <4>2. /\ Has(Append(toAgent[c], h), r) => Has(toAgent[c], r) \/ h = r
            /\ Once(toAgent[c], r) /\ (h = r => ~Has(toAgent[c], r)) => Once(Append(toAgent[c], h), r)
        BY <2>2, <4>1, AppendHas
      <4> QED BY <2>4, <4>2
    <3>2. CASE h = Other BY <2>4, <3>2
    <3> QED BY <3>1, <3>2
  <2>7. \A d \in Conns : InTransit(d, r)' => InTransit(d, r)
    BY <2>1, <2>3, <2>5, <2>6 DEF InTransit
  <2>8. InOnePlace(c, r) => InOnePlace(c, r)' BY <2>1, <2>5, <2>6 DEF InOnePlace
  <2>9. \A d \in Conns : d # c => (InOnePlace(d, r) => InOnePlace(d, r)')
    BY <2>1, <2>3 DEF InOnePlace
  <2> QED BY <2>1, <2>7, <2>8, <2>9, RequestKept
<1>11. ASSUME NEW c \in Conns, AgentReceive(c) PROVE RequestOnce(r)'
  <2> DEFINE h == Head(toAgent[c])
  <2>1. UNCHANGED <<outgoing, ahead, link, call>> /\ link[c] = "up" BY <1>11 DEF AgentReceive
  <2>2. toAgent[c] \in Seq(Calls) /\ toAgent[c] # << >> /\ h \in Calls
    BY <1>11 DEF AgentReceive, TypeOK
  <2>3. /\ toAgent'[c] = Tail(toAgent[c])
        /\ \A d \in Conns : d # c => toAgent'[d] = toAgent[d]
        /\ served'[r] = IF h = r THEN served[r] + 1 ELSE served[r]
    BY <1>11, <2>2 DEF AgentReceive, TypeOK
  <2> HIDE DEF h
  <2>4. /\ Has(toAgent'[c], r) => Has(toAgent[c], r)
        /\ h = r => Has(toAgent[c], r)
        /\ Once(toAgent[c], r) => Once(toAgent'[c], r) /\ (h = r => ~Has(toAgent'[c], r))
    BY <2>2, <2>3, TailHas DEF h
  <2>5. \A d \in Conns : link[d] = "up" => d = c BY <2>1 DEF OneUp
  <2>6. CASE h = r
    <3>1. InOnePlace(c, r) /\ InTransit(c, r) /\ served[r] = 0 /\ call[r] \notin Unsent
      BY <2>1, <2>4, <2>6 DEF RequestOnce, InTransit
    <3>2. InOnePlace(c, r)' /\ ~InTransit(c, r)'
      BY <2>1, <2>4, <2>6, <3>1 DEF InOnePlace, InTransit
    <3>3. served'[r] = 1 BY <2>3, <2>6, <3>1
    <3> QED BY <2>1, <2>5, <3>1, <3>2, <3>3 DEF RequestOnce
  <2>7. CASE h # r
    <3>1. \A d \in Conns : InTransit(d, r)' => InTransit(d, r)
      BY <2>1, <2>3, <2>4 DEF InTransit
    <3>2. \A d \in Conns : InOnePlace(d, r) => InOnePlace(d, r)'
      BY <2>1, <2>3, <2>4 DEF InOnePlace
    <3>3. served'[r] = served[r] BY <2>3, <2>7
    <3> QED BY <2>1, <3>1, <3>2, <3>3, RequestKept
  <2> QED BY <2>6, <2>7
<1> QED BY <1>1, <1>2, <1>3, <1>4, <1>5, <1>6, <1>7, <1>b, <1>c, <1>9, <1>10, <1>11
  DEF Next, LoopStep, ConnStep, AgentStep, CallStep

-----------------------------------------------------------------------------
(* A request is answered once                                              *)

(* A step that leaves the agent, the streams from it and the responses      *)
(* alone keeps every answer in its one place.                               *)
LEMMA ResponseQuiet ==
  ASSUME NEW r \in Calls, ResponseOnce(r), UNCHANGED <<serving, served, responses, toServer>>,
         \A c \in Conns : link'[c] = "up" => link[c] = "up" \/ toServer[c] = << >>
  PROVE  ResponseOnce(r)'
<1>1. ASSUME NEW c \in Conns, link'[c] = "up"
      PROVE  /\ Once(toServer'[c], r)
             /\ Has(toServer'[c], r) =>
                  served'[r] = 1 /\ responses'[r] = 0 /\ \A d \in Conns : <<d, r>> \notin serving'
  <2>1. CASE link[c] = "up" BY <2>1 DEF ResponseOnce
  <2>2. CASE toServer[c] = << >> BY <2>2, EmptyHas
  <2> QED BY <1>1, <2>1, <2>2
<1> QED BY <1>1 DEF ResponseOnce

(* Every step keeps each answer in one place: the agent has the request     *)
(* once, and answers on the connection it came on.                          *)
LEMMA ResponseStep ==
  ASSUME TypeOK, Unmade, OneUp, [Next]_vars, NEW r \in Calls, RequestOnce(r), ResponseOnce(r)
  PROVE  ResponseOnce(r)'
<1> USE DEF tasks, pinging, topic, wire, client, agent
<1>0. /\ served[r] \in Nat /\ responses[r] \in Nat /\ r # CloseFrame
      /\ \A c \in Conns : toServer[c] \in Seq(Calls \cup {CloseFrame})
  BY ConstantsAssumption DEF TypeOK
<1> DEFINE Quiet == /\ UNCHANGED <<serving, served, responses, toServer>>
                    /\ \A c \in Conns : link'[c] = "up" => link[c] = "up" \/ toServer[c] = << >>
<1>1. CASE Quiet BY <1>1, ResponseQuiet
<1>2. ASSUME NEW c \in Conns, Connect(c) PROVE Quiet
  <2>1. toServer[c] = << >> BY <1>2 DEF Connect, Unmade, TypeOK, Conns
  <2> QED BY <1>2, <2>1 DEF Connect, TypeOK
<1>3. CASE ConnectFails \/ Established \/ Disconnected \/ Retry \/ UNCHANGED vars
  BY <1>1, <1>3 DEF ConnectFails, Established, Disconnected, Retry, vars
<1>4. ASSUME NEW c \in Conns, SendPing(c) \/ CountPing(c) \/ ReceivePong(c) \/ Poll(c)
                              \/ Forward(c) \/ ReceiveFails(c)
      PROVE  Quiet
  BY <1>4 DEF SendPing, CountPing, ReceivePong, Poll, Forward, ReceiveFails
<1>5. ASSUME PublishOther \/ \E q \in Calls : CallStep(q) PROVE Quiet
  BY <1>5 DEF CallStep, CheckConnected, PublishRequest, PublishOther, Publish, CallTimesOut
<1>6. ASSUME NEW c \in Conns, LinkFails(c) PROVE ResponseOnce(r)'
  <2>1. UNCHANGED <<serving, served, responses>> BY <1>6 DEF LinkFails
  <2>2. \A d \in Conns : link'[d] = "up" => link[d] = "up" /\ toServer'[d] = toServer[d]
    BY <1>6 DEF LinkFails, TypeOK
  <2> QED BY <2>1, <2>2 DEF ResponseOnce
<1>7. ASSUME NEW c \in Conns, AgentCloses(c) PROVE ResponseOnce(r)'
  <2>1. UNCHANGED <<serving, served, responses, link>> BY <1>7 DEF AgentCloses
  <2>2. \A d \in Conns : toServer'[d] = toServer[d] \/ toServer'[d] = Append(toServer[d], CloseFrame)
    BY <1>7 DEF AgentCloses, TypeOK
  <2>3. ASSUME NEW d \in Conns
        PROVE  /\ Has(toServer'[d], r) => Has(toServer[d], r)
               /\ Once(toServer[d], r) => Once(toServer'[d], r)
    <3>1. /\ Has(Append(toServer[d], CloseFrame), r) => Has(toServer[d], r) \/ CloseFrame = r
          /\ Once(toServer[d], r) /\ (CloseFrame = r => ~Has(toServer[d], r))
             => Once(Append(toServer[d], CloseFrame), r)
      BY <1>0, AppendHas
    <3> QED BY <1>0, <2>2, <3>1
  <2> QED BY <2>1, <2>3 DEF ResponseOnce
<1>8. ASSUME NEW c \in Conns, Receive(c) PROVE ResponseOnce(r)'
  <2> DEFINE h == Head(toServer[c])
  <2>1. UNCHANGED <<serving, served>> /\ link[c] = "up" /\ toServer[c] # << >>
    BY <1>8 DEF Receive
  <2>2. /\ toServer'[c] = Tail(toServer[c])
        /\ \A d \in Conns : d # c => toServer'[d] = toServer[d]
        /\ \A d \in Conns : link'[d] = "up" => link[d] = "up"
    BY <1>8 DEF Receive, PublishResponse, TypeOK
  <2>3. \A d \in Conns : link[d] = "up" => d = c BY <2>1 DEF OneUp
  <2>4. responses'[r] = IF h = r THEN responses[r] + 1 ELSE responses[r]
    <3>1. CASE h = CloseFrame /\ UNCHANGED responses BY <1>0, <3>1
    <3>2. ASSUME NEW q \in Calls, h = q, PublishResponse(c, q)
          PROVE  responses'[r] = IF h = r THEN responses[r] + 1 ELSE responses[r]
      BY <3>2 DEF PublishResponse, TypeOK
    <3> QED BY <1>8, <3>1, <3>2, ConstantsAssumption DEF Receive, PublishResponse
  <2> HIDE DEF h
  <2>5. /\ Has(toServer'[c], r) => Has(toServer[c], r)
        /\ h = r => Has(toServer[c], r)
        /\ Once(toServer[c], r) => Once(toServer'[c], r) /\ (h = r => ~Has(toServer'[c], r))
    BY <1>0, <2>1, <2>2, TailHas DEF h
  <2>6. CASE h = r
    <3>1. /\ served[r] = 1 /\ responses[r] = 0 /\ \A d \in Conns : <<d, r>> \notin serving
          /\ ~Has(toServer'[c], r) /\ Once(toServer'[c], r)
      BY <2>1, <2>5, <2>6 DEF ResponseOnce
    <3>2. responses'[r] = 1 BY <2>4, <2>6, <3>1
    <3>3. \A d \in Conns : link'[d] = "up" => Once(toServer'[d], r) /\ ~Has(toServer'[d], r)
      BY <2>2, <2>3, <3>1
    <3>4. served'[r] = 1 /\ \A d \in Conns : <<d, r>> \notin serving' BY <2>1, <3>1
    <3>5. responses'[r] <= 1 /\ (served'[r] = 0 => responses'[r] = 0) BY <3>2, <3>4
    <3> QED BY <3>3, <3>4, <3>5 DEF ResponseOnce
  <2>7. CASE h # r
    <3>1. \A d \in Conns : /\ Has(toServer'[d], r) => Has(toServer[d], r)
                           /\ Once(toServer[d], r) => Once(toServer'[d], r)
      BY <2>2, <2>5
    <3>2. responses'[r] = responses[r] BY <2>4, <2>7
    <3> QED BY <2>1, <2>2, <3>1, <3>2 DEF ResponseOnce
  <2> QED BY <2>6, <2>7
<1>9. ASSUME NEW c \in Conns, AgentReceive(c) PROVE ResponseOnce(r)'
  <2> DEFINE h == Head(toAgent[c])
  <2>1. UNCHANGED <<responses, toServer, link>> /\ link[c] = "up" BY <1>9 DEF AgentReceive
  <2>2. toAgent[c] \in Seq(Calls) /\ toAgent[c] # << >> /\ h \in Calls
    BY <1>9 DEF AgentReceive, TypeOK
  <2>3. /\ serving' = serving \cup {<<c, h>>}
        /\ served'[r] = IF h = r THEN served[r] + 1 ELSE served[r]
    BY <1>9, <2>2 DEF AgentReceive, TypeOK
  <2> HIDE DEF h
  <2>4. h = r => Has(toAgent[c], r) BY <2>2, TailHas DEF h
  <2>5. CASE h = r
    <3>1. served[r] = 0 BY <2>1, <2>4, <2>5 DEF RequestOnce, InTransit
    <3>2. /\ responses[r] = 0 /\ \A d \in Conns : <<d, r>> \notin serving
          /\ \A d \in Conns : link[d] = "up" => Once(toServer[d], r) /\ ~Has(toServer[d], r)
      BY <3>1 DEF ResponseOnce
    <3>3. served'[r] = 1 /\ \A d \in Conns : <<d, r>> \in serving' => d = c
      BY <2>3, <2>5, <3>1, <3>2
    <3> QED BY <2>1, <3>2, <3>3 DEF ResponseOnce
  <2>6. CASE h # r
    <3>1. served'[r] = served[r] /\ \A d \in Conns : <<d, r>> \in serving' <=> <<d, r>> \in serving
      BY <2>3, <2>6
    <3> QED BY <2>1, <3>1 DEF ResponseOnce
  <2> QED BY <2>5, <2>6
<1>10. ASSUME NEW c \in Conns, NEW q \in Calls, AgentRespond(c, q) PROVE ResponseOnce(r)'
  <2>1. /\ UNCHANGED <<responses, served, link>>
        /\ <<c, q>> \in serving /\ serving' = serving \ {<<c, q>>}
    BY <1>10 DEF AgentRespond
  <2>2. \A d \in Conns : toServer'[d] = toServer[d] \/ toServer'[d] = Append(toServer[d], q)
    BY <1>10 DEF AgentRespond, TypeOK
  <2>3. ASSUME NEW d \in Conns
        PROVE  /\ Has(toServer'[d], r) => Has(toServer[d], r) \/ q = r
               /\ Once(toServer[d], r) /\ (q = r => ~Has(toServer[d], r)) => Once(toServer'[d], r)
    <3>1. /\ Has(Append(toServer[d], q), r) => Has(toServer[d], r) \/ q = r
          /\ Once(toServer[d], r) /\ (q = r => ~Has(toServer[d], r)) => Once(Append(toServer[d], q), r)
      BY <1>0, AppendHas
    <3> QED BY <2>2, <3>1
  <2>4. CASE q = r
    <3>1. /\ served[r] = 1 /\ responses[r] = 0
          /\ \A d \in Conns : link[d] = "up" => Once(toServer[d], r) /\ ~Has(toServer[d], r)
      BY <2>1, <2>4 DEF ResponseOnce
    <3>2. \A d \in Conns : <<d, r>> \notin serving' BY <2>1, <2>4 DEF ResponseOnce
    <3>3. \A d \in Conns : link[d] = "up" => Once(toServer'[d], r) BY <2>3, <3>1
    <3> QED BY <2>1, <3>1, <3>2, <3>3 DEF ResponseOnce
  <2>5. CASE q # r
    <3>1. \A d \in Conns : <<d, r>> \in serving' <=> <<d, r>> \in serving BY <2>1, <2>5
    <3>2. \A d \in Conns : /\ Has(toServer'[d], r) => Has(toServer[d], r)
                           /\ Once(toServer[d], r) => Once(toServer'[d], r)
      BY <2>3, <2>5
    <3> QED BY <2>1, <3>1, <3>2 DEF ResponseOnce
  <2> QED BY <2>4, <2>5
<1> QED BY <1>1, <1>2, <1>3, <1>4, <1>5, <1>6, <1>7, <1>8, <1>9, <1>10
  DEF Next, LoopStep, ConnStep, AgentStep

-----------------------------------------------------------------------------
(* The invariant holds                                                     *)

(* It holds before the first connection is made. *)
LEMMA InitInv == Init => IInv
<1> SUFFICES ASSUME Init PROVE IInv OBVIOUS
<1>1. TypeOK
  <2>1. /\ << >> \in Seq(Calls) /\ << >> \in Seq(Calls \cup {CloseFrame})
        /\ << >> \in Seq(Requests) /\ Len(<< >>) = 0
    OBVIOUS
  <2>8. /\ outgoing \in [Conns -> Seq(Requests)] /\ ahead \in [Conns -> Seq(Requests)]
        /\ \A c \in Conns : Len(outgoing[c]) <= Capacity /\ Len(ahead[c]) <= Prefetch
        /\ skipped \subseteq Calls
    BY <2>1, ConstantsAssumption DEF Init
  <2>2. /\ toAgent \in [Conns -> Seq(Calls)]
        /\ toServer \in [Conns -> Seq(Calls \cup {CloseFrame})]
    BY <2>1 DEF Init
  <2>3. /\ link \in [Conns -> {"unused", "up", "dead", "broken", "closed"}]
        /\ keep_alive \in [Conns -> {"off", "sleeping", "sent", "ended"}]
        /\ forward_outgoing \in [Conns -> {"off", "running", "ended"}]
        /\ publish_incoming \in [Conns -> {"off", "running", "ended"}]
        /\ missed \in [Conns -> 0..MissLimit] /\ pings \in [Conns -> Nat]
        /\ lost \in [Conns -> BOOLEAN]
    BY DEF Init, MissLimit
  <2>4. /\ call \in [Calls -> {"idle", "checked", "waiting", "ok", "timeout", "disconnected"}]
        /\ served \in [Calls -> Nat] /\ responses \in [Calls -> Nat]
    BY DEF Init
  <2>5. /\ loop \in {"connect", "established", "connected", "retry"} /\ ws_connected \in BOOLEAN
    BY DEF Init
  <2>6. /\ cur \in 0..MaxConns /\ faults \in Nat /\ stalls \in Nat /\ faults + stalls <= MaxTrouble
    BY ConstantsAssumption DEF Init
  <2>7. serving \subseteq Conns \X Calls BY DEF Init
  <2> QED BY <2>2, <2>3, <2>4, <2>5, <2>6, <2>7, <2>8 DEF TypeOK
<1>2. Unmade BY DEF Init, Unmade
<1>3. MissedBounded BY DEF Init, MissedBounded
<1>4. OneUp BY DEF Init, OneUp
<1>5. \A r \in Calls : RequestOnce(r) 
  BY EmptyHas DEF Init, RequestOnce, InTransit, InOnePlace
<1>6. \A r \in Calls : ResponseOnce(r) BY EmptyHas DEF Init, ResponseOnce
<1> QED BY <1>1, <1>2, <1>3, <1>4, <1>5, <1>6 DEF IInv

(* Every step keeps it. *)
LEMMA NextInv == IInv /\ [Next]_vars => IInv'
<1> SUFFICES ASSUME IInv, [Next]_vars PROVE IInv' OBVIOUS
<1>1. TypeOK /\ Unmade /\ MissedBounded BY DEF IInv
<1>2. TypeOK' /\ Unmade' /\ MissedBounded' BY <1>1, TypeStep, UnmadeStep, MissedStep
<1>3. ASSUME stalls' = 0 PROVE OneUp' /\ \A r \in Calls : RequestOnce(r)' /\ ResponseOnce(r)'
  <2>1. OneUp /\ \A r \in Calls : RequestOnce(r) /\ ResponseOnce(r)
    BY <1>1, <1>3, StallStep DEF IInv
  <2>2. OneUp' BY <1>1, <1>3, <2>1, OneUpStep
  <2>3. ASSUME NEW r \in Calls PROVE RequestOnce(r)' /\ ResponseOnce(r)'
    BY <1>1, <2>1, RequestStep, ResponseStep
  <2> QED BY <2>2, <2>3
<1> QED BY <1>2, <1>3 DEF IInv

(* The inductive invariant holds in every reachable state. *)
THEOREM Invariance == Spec => []IInv
BY InitInv, NextInv, PTL DEF Spec

(* Every variable of the link keeps its type; consecutive_missed_pings       *)
(* never passes its limit.                                                   *)
THEOREM TypeCorrectness == Spec => []TypeOK
<1>1. IInv => TypeOK BY DEF IInv
<1> QED BY <1>1, Invariance, PTL

(* The keep-alive task gives up only a connection that has lost a ping,      *)
(* whatever the order in which the pong is read and fetch_add counts.        *)
THEOREM NoFalseDeadTheorem == Spec => []NoFalseDead
<1>1. IInv => NoFalseDead BY DEF IInv, MissedBounded, NoFalseDead
<1> QED BY <1>1, Invariance, PTL

(* While live connections answer in time, the agent is given each request    *)
(* at most once and one response at most is published for it, for any        *)
(* number of replaced connections whose tasks run on.                        *)
THEOREM ServedOnceTheorem == Spec => []ServedOnce
<1>1. IInv => ServedOnce BY DEF IInv, RequestOnce, ResponseOnce, ServedOnce
<1> QED BY <1>1, Invariance, PTL
=============================================================================
