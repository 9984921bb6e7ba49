------------------------ MODULE OperationStreamProofs ------------------------
(***************************************************************************)
(* Proofs about OperationStream: no reply of an operation slips through    *)
(* between the Ack, stream_at and the hand-over of the WebSocket, a stream *)
(* that the server ends has delivered the terminal reply, and a download   *)
(* that ends normally is whole, for any number of operations and replies   *)
(* and any capacity of the topic and of the stream's buffer.               *)
(***************************************************************************)
EXTENDS OperationStream, Integers, TLAPS

(* The replies s are those of operation o from number a on. *)
Run(s, o, a) == \A i \in 1..Len(s) : s[i] = <<o, a + i - 1>>

(* Of the replies of o, those in b come before those in q, each in order    *)
(* and with a number below n.                                               *)
Ordered(b, q, o, n) ==
  /\ \A i \in 1..Len(b) : b[i][1] = o /\ b[i][2] < n
  /\ \A i, j \in 1..Len(b) : i < j => b[i][2] < b[j][2]
  /\ \A i \in 1..Len(q) : q[i][1] = o => q[i][2] < n
  /\ \A i, j \in 1..Len(q) : i < j /\ q[i][1] = o /\ q[j][1] = o => q[i][2] < q[j][2]
  /\ \A i \in 1..Len(b), j \in 1..Len(q) : q[j][1] = o => b[i][2] < q[j][2]

(* No reply of o is in q. *)
NoneOf(q, o) == \A i \in 1..Len(q) : q[i][1] # o

(* Where the call, the receiver, the stream, its writer and the browser can *)
(* be together.                                                             *)
StageInv(o) ==
  /\ sub[o] <=> \/ op[o] = "acking"
                \/ op[o] = "acked" /\ stream[o] \in {"spawned", "waiting", "expired", "connected"}
  /\ op[o] = "idle" => sent[o] = 0 /\ ~lagged[o]
  /\ ~sub[o] => queue[o] = << >> /\ buffer[o] = << >>
  /\ op[o] # "acked" => /\ stream[o] = "none" /\ peer[o] = "none"
                        /\ received[o] = << >>
  /\ stream[o] \in {"none", "spawned", "waiting", "expired"} =>
       fuse[o] = "open" /\ writer[o] = "none"
  /\ stream[o] = "fused" => fuse[o] = "cancelled"
  /\ writer[o] = "none" => outgoing[o] = << >>
  /\ writer[o] = "closed" => outgoing[o] = << >> /\ stream[o] \in Finished

(* The same for a stream to a WebSocket. *)
SocketInv(o) ==
  o \notin Downloads => /\ writer[o] = "running" => peer[o] \in {"open", "left"}
                        /\ peer[o] = "closed" => writer[o] = "closed"
                        /\ stream[o] = "connected" => writer[o] = "running"

(* The same for a download. *)
BodyInv(o) ==
  o \in Downloads => /\ writer[o] = "none"
                     /\ stream[o] \in {"none", "connected", "fused", "left"}
                     /\ peer[o] \in {"none", "open", "left", "closed"}
                     /\ op[o] = "acked" => peer[o] # "none"
                     /\ peer[o] = "closed" => fuse[o] = "cancelled"

(* Once the valve is signalled, the terminal reply has been yielded and     *)
(* nothing follows it.                                                      *)
FuseInv(o) ==
  fuse[o] # "open" =>
    /\ sent[o] = Terminal + 1 /\ buffer[o] = << >> /\ NoneOf(queue[o], o)
    /\ o \notin Downloads /\ peer[o] # "left" =>
         IF outgoing[o] # << >> THEN outgoing[o][Len(outgoing[o])] = <<o, Terminal>>
         ELSE received[o] # << >> /\ received[o][Len(received[o])] = <<o, Terminal>>
    /\ o \in Downloads /\ ~lagged[o] => Run(received[o], o, 1) /\ Len(received[o]) = Ongoing

(* The number of the next reply the stream yields, if none is missing: the  *)
(* Ack is not passed on.                                                    *)
Taken(o) == (IF op[o] = "acking" THEN 0 ELSE 1) + Len(received[o]) + Len(outgoing[o])

(* Every reply sent is with the browser or on its way, in order. *)
Complete(o) ==
  /\ Run(received[o], o, 1)
  /\ Run(outgoing[o], o, Len(received[o]) + 1)
  /\ Run(buffer[o], o, Taken(o))
  /\ Holds(queue[o], o, Taken(o) + Len(buffer[o]), sent[o])

(* The operation failed at once: there never was an Ack. *)
FailedAtOnce(o) ==
  /\ op[o] = "acking" /\ sent[o] = Terminal + 1
  /\ \A i \in 1..Len(buffer[o]) : buffer[o][i] = <<o, Terminal>>
  /\ \A i \in 1..Len(queue[o]) : queue[o][i][1] = o => queue[o][i] = <<o, Terminal>>

(* A receiver that has not lagged, of a stream that is not over and whose   *)
(* browser is there, has everything.                                        *)
Whole(o) == /\ sub[o] /\ ~lagged[o]
            /\ o \in Downloads => fuse[o] = "open"
            /\ o \notin Downloads => peer[o] # "left"

CompleteInv(o) == Whole(o) => Complete(o) \/ FailedAtOnce(o)

OrderInv(o) == Ordered(buffer[o], queue[o], o, sent[o])

OpInv(o) == StageInv(o) /\ SocketInv(o) /\ BodyInv(o) /\ FuseInv(o) /\ CompleteInv(o) /\ OrderInv(o)

(* Only a browser that is connecting, or has gone, is in a handshake. *)
RouterInv ==
  router.at # "idle" => router.op \in Ops \ Downloads /\ peer[router.op] \in {"connecting", "left"}

(* The inductive invariant. *)
IInv == TypeOK /\ RouterInv /\ \A o \in Ops : OpInv(o)

-----------------------------------------------------------------------------
(* Sequences of replies                                                    *)

(* The reply numbers are numbers. *)
LEMMA NumbersLemma ==
  Terminal \in Nat \ {0} /\ Ongoing \in Nat /\ Terminal = Ongoing + 1
  BY ConstantsAssumption DEF Terminal

(* What a queue is without its head. *)
LEMMA TailLemma ==
  ASSUME NEW S, NEW s \in Seq(S), s # << >>
  PROVE  /\ Tail(s) \in Seq(S) /\ Len(s) \in Nat \ {0} /\ Len(Tail(s)) = Len(s) - 1
         /\ \A i \in 1..Len(Tail(s)) : Tail(s)[i] = s[i + 1]
         /\ Head(s) = s[1] /\ Head(s) \in S
  OBVIOUS

(* What a queue is with one more. *)
LEMMA AppendLemma ==
  ASSUME NEW S, NEW s \in Seq(S), NEW e \in S
  PROVE  /\ Append(s, e) \in Seq(S) /\ Len(s) \in Nat /\ Len(Append(s, e)) = Len(s) + 1
         /\ \A i \in 1..Len(s) : Append(s, e)[i] = s[i]
         /\ Append(s, e)[Len(s) + 1] = e
         /\ Append(s, e) # << >>
  OBVIOUS

(* A queue of length 0 is empty. *)
LEMMA NoneLeft ==
  ASSUME NEW S, NEW s \in Seq(S), Len(s) = 0
  PROVE  s = << >>
  OBVIOUS

(* The first of a run of replies is the one with its first number. *)
LEMMA RunPop ==
  ASSUME NEW o, NEW s \in Seq(Events), s # << >>, NEW a \in Nat, Run(s, o, a)
  PROVE  Head(s) = <<o, a>> /\ Run(Tail(s), o, a + 1)
<1>1. /\ Len(s) \in Nat \ {0} /\ Len(Tail(s)) = Len(s) - 1 /\ Head(s) = s[1]
      /\ \A i \in 1..Len(Tail(s)) : Tail(s)[i] = s[i + 1]
  BY TailLemma
<1>2. Head(s) = <<o, a>>
  BY <1>1 DEF Run
<1>3. ASSUME NEW i \in 1..Len(Tail(s)) PROVE Tail(s)[i] = <<o, (a + 1) + i - 1>>
  <2>1. i + 1 \in 1..Len(s) /\ Tail(s)[i] = s[i + 1]
    BY <1>1
  <2>2. s[i + 1] = <<o, a + (i + 1) - 1>>
    BY <2>1 DEF Run
  <2>. QED BY <2>1, <2>2
<1>. QED BY <1>2, <1>3 DEF Run

(* A run is continued by the reply that comes next. *)
LEMMA RunPush ==
  ASSUME NEW o, NEW s \in Seq(Events), NEW a \in Nat, Run(s, o, a),
         NEW e \in Events, e = <<o, a + Len(s)>>
  PROVE  Run(Append(s, e), o, a)
<1>1. /\ Len(s) \in Nat /\ Len(Append(s, e)) = Len(s) + 1
      /\ \A i \in 1..Len(s) : Append(s, e)[i] = s[i]
      /\ Append(s, e)[Len(s) + 1] = e
  BY AppendLemma
<1>2. ASSUME NEW i \in 1..Len(Append(s, e)) PROVE Append(s, e)[i] = <<o, a + i - 1>>
  <2>1. CASE i = Len(s) + 1
    <3>1. a + i - 1 = a + Len(s)
      BY <2>1, <1>1
    <3>. QED BY <2>1, <1>1, <3>1
  <2>2. CASE i # Len(s) + 1
    BY <2>2, <1>1 DEF Run
  <2>. QED BY <2>1, <2>2
<1>. QED BY <1>2 DEF Run

(* Two runs make one. *)
LEMMA RunConcat ==
  ASSUME NEW o, NEW s \in Seq(Events), NEW t \in Seq(Events), NEW a \in Nat,
         Run(s, o, a), Run(t, o, a + Len(s))
  PROVE  Run(s \o t, o, a)
<1>1. /\ Len(s) \in Nat /\ Len(t) \in Nat /\ Len(s \o t) = Len(s) + Len(t)
      /\ \A i \in 1..Len(s) : (s \o t)[i] = s[i]
      /\ \A i \in (Len(s) + 1)..(Len(s) + Len(t)) : (s \o t)[i] = t[i - Len(s)]
  OBVIOUS
<1>2. ASSUME NEW i \in 1..Len(s \o t) PROVE (s \o t)[i] = <<o, a + i - 1>>
  <2>1. CASE i <= Len(s)
    BY <2>1, <1>1 DEF Run
  <2>2. CASE i > Len(s)
    <3>1. i - Len(s) \in 1..Len(t) /\ (s \o t)[i] = t[i - Len(s)]
      BY <2>2, <1>1
    <3>2. t[i - Len(s)] = <<o, (a + Len(s)) + (i - Len(s)) - 1>>
      BY <3>1 DEF Run
    <3>3. (a + Len(s)) + (i - Len(s)) - 1 = a + i - 1
      BY <1>1
    <3>. QED BY <3>1, <3>2, <3>3
  <2>3. i <= Len(s) \/ i > Len(s)
    <3>1. Len(s) \in Nat /\ i \in Int
      BY <1>1
    <3>. QED BY <3>1
  <2>. QED BY <2>1, <2>2, <2>3, Zenon
<1>. QED BY <1>2 DEF Run

(* If all replies are there, the next one of the operation is the one it    *)
(* waits for, and the others are still there when it is taken.              *)
LEMMA HoldsPopOwn ==
  ASSUME NEW o, NEW q \in Seq(Events), q # << >>, NEW a \in Nat, NEW b \in Nat,
         Holds(q, o, a, b), Head(q)[1] = o
  PROVE  Head(q) = <<o, a>> /\ Holds(Tail(q), o, a + 1, b)
<1>1. /\ Len(q) \in Nat \ {0} /\ Len(Tail(q)) = Len(q) - 1 /\ Head(q) = q[1] /\ Head(q) \in Events
      /\ \A i \in 1..Len(Tail(q)) : Tail(q)[i] = q[i + 1]
  BY TailLemma
<1>2. \A i \in 1..Len(q) : q[i] \in Events /\ q[i][2] \in Nat /\ q[i] = <<q[i][1], q[i][2]>>
  BY ConstantsAssumption DEF Events, Terminal
<1>3. q[1][1] = o /\ q[1][2] \in a..(b - 1) /\ a < b
  BY <1>1, <1>2 DEF Holds
<1>4. PICK k \in 1..Len(q) : q[k] = <<o, a>>
  <2>1. a \in a..(b - 1)
    BY <1>3
  <2>. QED BY <2>1 DEF Holds
<1>5. k = 1
  <2>1. q[k][1] = o /\ q[k][2] = a
    BY <1>4
  <2>2. k # 1 => q[1][2] < q[k][2]
    BY <1>1, <1>3, <2>1 DEF Holds
  <2>. QED BY <1>2, <1>3, <2>1, <2>2
<1>6. ASSUME NEW i \in 1..Len(Tail(q)), Tail(q)[i][1] = o
      PROVE  Tail(q)[i][2] \in (a + 1)..(b - 1)
  <2>1. i + 1 \in 1..Len(q) /\ Tail(q)[i] = q[i + 1] /\ 1 < i + 1
    BY <1>1
  <2>2. q[1][2] < q[i + 1][2] /\ q[i + 1][2] \in a..(b - 1)
    BY <1>1, <1>3, <1>6, <2>1 DEF Holds
  <2>3. q[1][2] = a
    BY <1>4, <1>5
  <2>. QED BY <2>1, <2>2, <2>3, <1>2
<1>7. ASSUME NEW i \in 1..Len(Tail(q)), NEW j \in 1..Len(Tail(q)), i < j,
             Tail(q)[i][1] = o, Tail(q)[j][1] = o
      PROVE  Tail(q)[i][2] < Tail(q)[j][2]
  <2>1. i + 1 \in 1..Len(q) /\ j + 1 \in 1..Len(q) /\ i + 1 < j + 1
        /\ Tail(q)[i] = q[i + 1] /\ Tail(q)[j] = q[j + 1]
    BY <1>1, <1>7
  <2>. QED BY <2>1, <1>7 DEF Holds
<1>8. ASSUME NEW n \in (a + 1)..(b - 1)
      PROVE  \E i \in 1..Len(Tail(q)) : Tail(q)[i] = <<o, n>>
  <2>0. n \in a..(b - 1)
    OBVIOUS
  <2>1. PICK i \in 1..Len(q) : q[i] = <<o, n>>
    BY <2>0 DEF Holds
  <2>2. i # 1
    BY <2>1, <1>4, <1>5
  <2>3. i - 1 \in 1..Len(Tail(q)) /\ Tail(q)[i - 1] = q[(i - 1) + 1] /\ (i - 1) + 1 = i
    BY <2>2, <1>1
  <2>. QED BY <2>1, <2>3
<1>9. Head(q) = <<o, a>>
  BY <1>1, <1>4, <1>5
<1>10. a + 1 <= b
  BY <1>3
<1>11. \A i \in 1..Len(Tail(q)) : Tail(q)[i][1] = o => Tail(q)[i][2] \in (a + 1)..(b - 1)
  BY <1>6
<1>12. \A i, j \in 1..Len(Tail(q)) : i < j /\ Tail(q)[i][1] = o /\ Tail(q)[j][1] = o
                                       => Tail(q)[i][2] < Tail(q)[j][2]
  BY <1>7
<1>. QED BY <1>8, <1>9, <1>10, <1>11, <1>12 DEF Holds

(* An event of another operation is dropped without loss. *)
LEMMA HoldsPopOther ==
  ASSUME NEW o, NEW q \in Seq(Events), q # << >>, NEW a \in Nat, NEW b \in Nat,
         Holds(q, o, a, b), Head(q)[1] # o
  PROVE  Holds(Tail(q), o, a, b)
<1>1. /\ Len(q) \in Nat \ {0} /\ Len(Tail(q)) = Len(q) - 1 /\ Head(q) = q[1]
      /\ \A i \in 1..Len(Tail(q)) : i + 1 \in 1..Len(q) /\ Tail(q)[i] = q[i + 1]
  BY TailLemma
<1>2. ASSUME NEW i \in 1..Len(Tail(q)), NEW j \in 1..Len(Tail(q)), i < j,
             Tail(q)[i][1] = o, Tail(q)[j][1] = o
      PROVE  Tail(q)[i][2] < Tail(q)[j][2]
  <2>1. i + 1 < j + 1
    BY <1>1, <1>2
  <2>. QED BY <2>1, <1>1, <1>2 DEF Holds
<1>3. ASSUME NEW n \in a..(b - 1)
      PROVE  \E i \in 1..Len(Tail(q)) : Tail(q)[i] = <<o, n>>
  <2>1. PICK i \in 1..Len(q) : q[i] = <<o, n>>
    BY DEF Holds
  <2>2. i # 1
    BY <2>1, <1>1
  <2>3. i - 1 \in 1..Len(Tail(q)) /\ Tail(q)[i - 1] = q[(i - 1) + 1] /\ (i - 1) + 1 = i
    BY <2>2, <1>1
  <2>. QED BY <2>1, <2>3
<1>4. \A i \in 1..Len(Tail(q)) : Tail(q)[i][1] = o => Tail(q)[i][2] \in a..(b - 1)
  BY <1>1 DEF Holds
<1>. QED BY <1>2, <1>3, <1>4 DEF Holds

(* The next reply is published. *)
LEMMA HoldsPushOwn ==
  ASSUME NEW o, NEW q \in Seq(Events), NEW a \in Nat, NEW b \in Nat,
         Holds(q, o, a, b), NEW e \in Events, e = <<o, b>>
  PROVE  Holds(Append(q, e), o, a, b + 1)
<1> DEFINE r == Append(q, e)
<1>1. /\ Len(q) \in Nat /\ Len(r) = Len(q) + 1
      /\ \A i \in 1..Len(q) : r[i] = q[i]
      /\ r[Len(q) + 1] = e
  BY AppendLemma
<1>2. \A i \in 1..Len(r) : i \in 1..Len(q) \/ i = Len(q) + 1
  BY <1>1
<1>3. \A i \in 1..Len(q) : i \in 1..Len(r) /\ i < Len(q) + 1
  BY <1>1
<1>4. a <= b
  BY DEF Holds
<1> HIDE DEF r
<1>5. ASSUME NEW i \in 1..Len(r), r[i][1] = o PROVE r[i][2] \in a..((b + 1) - 1)
  <2>1. CASE i \in 1..Len(q)
    <3>1. q[i][2] \in a..(b - 1)
      BY <1>1, <1>5, <2>1 DEF Holds
    <3>. QED BY <3>1, <1>1, <2>1
  <2>2. CASE i = Len(q) + 1
    BY <2>2, <1>1, <1>4
  <2>. QED BY <1>2, <2>1, <2>2
<1>6. ASSUME NEW i \in 1..Len(r), NEW j \in 1..Len(r), i < j, r[i][1] = o, r[j][1] = o
      PROVE  r[i][2] < r[j][2]
  <2>1. CASE j \in 1..Len(q)
    <3>1. i \in 1..Len(q)
      BY <1>1, <1>6, <2>1
    <3>. QED BY <1>1, <1>6, <2>1, <3>1 DEF Holds
  <2>2. CASE j = Len(q) + 1
    <3>1. i \in 1..Len(q)
      BY <1>1, <1>6, <2>2
    <3>2. q[i][2] \in a..(b - 1)
      BY <1>1, <1>6, <3>1 DEF Holds
    <3>3. r[j][2] = b
      BY <1>1, <2>2
    <3>. QED BY <1>1, <3>1, <3>2, <3>3
  <2>. QED BY <1>2, <2>1, <2>2
<1>7. ASSUME NEW n \in a..((b + 1) - 1) PROVE \E i \in 1..Len(r) : r[i] = <<o, n>>
  <2>1. CASE n = b
    <3>1. Len(q) + 1 \in 1..Len(r)
      BY <1>1
    <3>. QED BY <2>1, <1>1, <3>1
  <2>2. CASE n # b
    <3>1. n \in a..(b - 1)
      BY <2>2
    <3>2. PICK i \in 1..Len(q) : q[i] = <<o, n>>
      BY <3>1 DEF Holds
    <3>. QED BY <3>2, <1>1, <1>3
  <2>. QED BY <2>1, <2>2
<1>8. /\ \A i \in 1..Len(r) : r[i][1] = o => r[i][2] \in a..((b + 1) - 1)
      /\ \A i, j \in 1..Len(r) : i < j /\ r[i][1] = o /\ r[j][1] = o => r[i][2] < r[j][2]
  <2>1. \A i \in 1..Len(r) : r[i][1] = o => r[i][2] \in a..((b + 1) - 1)
    BY <1>5
  <2>. QED BY <2>1, <1>6
<1>9. /\ a <= b + 1
      /\ \A n \in a..((b + 1) - 1) : \E i \in 1..Len(r) : r[i] = <<o, n>>
  <2>1. a <= b + 1
    BY <1>4
  <2>2. \A n \in a..((b + 1) - 1) : \E i \in 1..Len(r) : r[i] = <<o, n>>
    BY <1>7
  <2>. QED BY <2>1, <2>2
<1>10. Holds(r, o, a, b + 1)
  BY <1>8, <1>9 DEF Holds
<1>. QED BY <1>10 DEF r

(* A reply of another operation is published. *)
LEMMA HoldsPushOther ==
  ASSUME NEW o, NEW q \in Seq(Events), NEW a \in Nat, NEW b \in Nat,
         Holds(q, o, a, b), NEW e \in Events, e[1] # o
  PROVE  Holds(Append(q, e), o, a, b)
<1> DEFINE r == Append(q, e)
<1>1. /\ Len(q) \in Nat /\ Len(r) = Len(q) + 1
      /\ \A i \in 1..Len(q) : r[i] = q[i]
      /\ r[Len(q) + 1] = e
  BY AppendLemma
<1>2. \A i \in 1..Len(r) : r[i][1] = o => i \in 1..Len(q)
  BY <1>1
<1>3. \A i \in 1..Len(q) : i \in 1..Len(r)
  BY <1>1
<1> HIDE DEF r
<1>4. a <= b /\ \A i \in 1..Len(r) : r[i][1] = o => r[i][2] \in a..(b - 1)
  BY <1>1, <1>2 DEF Holds
<1>5. \A i, j \in 1..Len(r) : i < j /\ r[i][1] = o /\ r[j][1] = o => r[i][2] < r[j][2]
  BY <1>1, <1>2 DEF Holds
<1>6. \A n \in a..(b - 1) : \E i \in 1..Len(r) : r[i] = <<o, n>>
  BY <1>1, <1>3 DEF Holds
<1>. QED BY <1>4, <1>5, <1>6 DEF Holds, r

(* Dropping a receiver leaves nothing. *)
LEMMA OrderedEmpty ==
  ASSUME NEW o, NEW n
  PROVE  Ordered(<< >>, << >>, o, n) /\ NoneOf(<< >>, o)
  BY DEF Ordered, NoneOf

(* An event is taken ahead. *)
LEMMA OrderedTake ==
  ASSUME NEW o, NEW b \in Seq(Events), NEW q \in Seq(Events), q # << >>, NEW n \in Nat,
         Ordered(b, q, o, n)
  PROVE  Ordered(IF Head(q)[1] = o THEN Append(b, Head(q)) ELSE b, Tail(q), o, n)
<1> DEFINE t == Tail(q)
           c == Append(b, Head(q))
<1>1. /\ t \in Seq(Events) /\ Len(q) \in Nat \ {0} /\ Len(t) = Len(q) - 1
      /\ Head(q) = q[1] /\ Head(q) \in Events /\ 1 \in 1..Len(q)
      /\ \A i \in 1..Len(t) : i + 1 \in 1..Len(q) /\ 1 < i + 1 /\ t[i] = q[i + 1]
  BY TailLemma
<1>2. /\ Len(b) \in Nat /\ Len(c) = Len(b) + 1
      /\ \A i \in 1..Len(b) : c[i] = b[i]
      /\ c[Len(b) + 1] = q[1]
  BY <1>1, AppendLemma
<1>3. \A i \in 1..Len(c) : i \in 1..Len(b) \/ i = Len(b) + 1
  BY <1>2
<1> HIDE DEF t, c
<1>0. \A i, j \in 1..Len(q) : i < j /\ q[i][1] = o /\ q[j][1] = o => q[i][2] < q[j][2]
  BY DEF Ordered
<1>4. \A i \in 1..Len(t) : t[i][1] = o => t[i][2] < n
  BY <1>1 DEF Ordered
<1>5. ASSUME NEW i \in 1..Len(t), NEW j \in 1..Len(t), i < j, t[i][1] = o, t[j][1] = o
      PROVE  t[i][2] < t[j][2]
  <2>1. i + 1 < j + 1
    BY <1>5, <1>1
  <2>. QED BY <2>1, <1>0, <1>1, <1>5
<1>6. \A i \in 1..Len(b), j \in 1..Len(t) : t[j][1] = o => b[i][2] < t[j][2]
  BY <1>1 DEF Ordered
<1>7. CASE q[1][1] = o
  <2>1. \A i \in 1..Len(c) : c[i][1] = o /\ c[i][2] < n
    BY <1>1, <1>2, <1>3, <1>7 DEF Ordered
  <2>2. ASSUME NEW i \in 1..Len(c), NEW j \in 1..Len(c), i < j PROVE c[i][2] < c[j][2]
    <3>1. i \in 1..Len(b)
      BY <1>2, <2>2
    <3>2. CASE j \in 1..Len(b)
      BY <1>2, <2>2, <3>1, <3>2 DEF Ordered
    <3>3. CASE j = Len(b) + 1
      BY <1>1, <1>2, <1>7, <3>1, <3>3 DEF Ordered
    <3>. QED BY <1>3, <3>2, <3>3
  <2>3. ASSUME NEW i \in 1..Len(c), NEW j \in 1..Len(t), t[j][1] = o PROVE c[i][2] < t[j][2]
    <3>1. CASE i \in 1..Len(b)
      BY <1>2, <1>6, <2>3, <3>1
    <3>2. CASE i = Len(b) + 1
      BY <1>0, <1>1, <1>2, <1>7, <2>3, <3>2
    <3>. QED BY <1>3, <3>1, <3>2
  <2>4. /\ \A i, j \in 1..Len(c) : i < j => c[i][2] < c[j][2]
        /\ \A i \in 1..Len(c), j \in 1..Len(t) : t[j][1] = o => c[i][2] < t[j][2]
        /\ \A i, j \in 1..Len(t) : i < j /\ t[i][1] = o /\ t[j][1] = o => t[i][2] < t[j][2]
    BY <1>5, <2>2, <2>3
  <2>5. Ordered(c, t, o, n)
    BY <1>4, <2>1, <2>4 DEF Ordered
  <2>. QED BY <1>1, <1>7, <2>5 DEF c, t
<1>8. CASE q[1][1] # o
  <2>1. \A i, j \in 1..Len(t) : i < j /\ t[i][1] = o /\ t[j][1] = o => t[i][2] < t[j][2]
    BY <1>5
  <2>2. Ordered(b, t, o, n)
    BY <1>4, <1>6, <2>1 DEF Ordered
  <2>. QED BY <1>1, <1>8, <2>2 DEF t
<1>. QED BY <1>7, <1>8

(* A reply is yielded. *)
LEMMA OrderedYield ==
  ASSUME NEW o, NEW b \in Seq(Events), NEW q \in Seq(Events), b # << >>, NEW n \in Nat,
         Ordered(b, q, o, n)
  PROVE  Ordered(Tail(b), q, o, n)
<1> DEFINE t == Tail(b)
<1>1. \A i \in 1..Len(t) : i + 1 \in 1..Len(b) /\ t[i] = b[i + 1]
  BY TailLemma
<1>2. Len(t) \in Nat
  BY TailLemma
<1> HIDE DEF t
<1>3. ASSUME NEW i \in 1..Len(t), NEW j \in 1..Len(t), i < j PROVE t[i][2] < t[j][2]
  <2>1. i + 1 < j + 1
    BY <1>2, <1>3
  <2>. QED BY <2>1, <1>1 DEF Ordered
<1>4. \A i, j \in 1..Len(t) : i < j => t[i][2] < t[j][2]
  BY <1>3
<1>5. Ordered(t, q, o, n)
  BY <1>1, <1>4 DEF Ordered
<1>. QED BY <1>5 DEF t

(* The oldest event is lost. *)
LEMMA OrderedDrop ==
  ASSUME NEW o, NEW b \in Seq(Events), NEW q \in Seq(Events), q # << >>, NEW n \in Nat,
         Ordered(b, q, o, n)
  PROVE  Ordered(b, Tail(q), o, n)
<1> DEFINE t == Tail(q)
<1>1. \A i \in 1..Len(t) : i + 1 \in 1..Len(q) /\ t[i] = q[i + 1]
  BY TailLemma
<1>2. Len(t) \in Nat
  BY TailLemma
<1> HIDE DEF t
<1>3. ASSUME NEW i \in 1..Len(t), NEW j \in 1..Len(t), i < j, t[i][1] = o, t[j][1] = o
      PROVE  t[i][2] < t[j][2]
  <2>1. i + 1 < j + 1
    BY <1>2, <1>3
  <2>. QED BY <2>1, <1>1, <1>3 DEF Ordered
<1>4. \A i, j \in 1..Len(t) : i < j /\ t[i][1] = o /\ t[j][1] = o => t[i][2] < t[j][2]
  BY <1>3
<1>5. Ordered(b, t, o, n)
  BY <1>1, <1>4 DEF Ordered
<1>. QED BY <1>5 DEF t

(* An event is published: the operation's own next reply, or another's. *)
LEMMA OrderedPush ==
  ASSUME NEW o, NEW b \in Seq(Events), NEW q \in Seq(Events), NEW n \in Nat, NEW m \in Nat,
         Ordered(b, q, o, n), NEW e \in Events,
         \/ e[1] = o /\ n <= e[2] /\ m = e[2] + 1
         \/ e[1] # o /\ m = n
  PROVE  Ordered(b, Append(q, e), o, m)
<1> DEFINE r == Append(q, e)
<1>1. /\ Len(q) \in Nat /\ Len(r) = Len(q) + 1
      /\ \A i \in 1..Len(q) : r[i] = q[i]
      /\ r[Len(q) + 1] = e
  BY AppendLemma
<1>2. \A i \in 1..Len(r) : i \in 1..Len(q) \/ i = Len(q) + 1
  BY <1>1
<1>3. /\ \A i \in 1..Len(q) : q[i][2] \in Nat
      /\ \A i \in 1..Len(b) : b[i][2] \in Nat
      /\ e[2] \in Nat
  <2>1. \A x \in Events : x[2] \in Nat
    BY NumbersLemma DEF Events
  <2>2. \A k \in 1..Len(q) : q[k] \in Events
    OBVIOUS
  <2>3. \A k \in 1..Len(b) : b[k] \in Events
    OBVIOUS
  <2>. QED BY <2>1, <2>2, <2>3
<1> HIDE DEF r
<1>4. n <= m /\ (e[1] = o => n <= e[2] /\ e[2] < m)
  BY <1>3
<1>5. \A i \in 1..Len(b) : b[i][1] = o /\ b[i][2] < m
  BY <1>3, <1>4 DEF Ordered
<1>6. ASSUME NEW i \in 1..Len(r), r[i][1] = o PROVE r[i][2] < m
  <2>1. CASE i \in 1..Len(q)
    BY <1>1, <1>3, <1>4, <1>6, <2>1 DEF Ordered
  <2>2. CASE i = Len(q) + 1
    BY <1>1, <1>4, <1>6, <2>2
  <2>. QED BY <1>2, <2>1, <2>2
<1>7. ASSUME NEW i \in 1..Len(r), NEW j \in 1..Len(r), i < j, r[i][1] = o, r[j][1] = o
      PROVE  r[i][2] < r[j][2]
  <2>1. i \in 1..Len(q)
    BY <1>1, <1>7
  <2>2. CASE j \in 1..Len(q)
    BY <1>1, <1>7, <2>1, <2>2 DEF Ordered
  <2>3. CASE j = Len(q) + 1
    <3>1. q[i][2] < n
      BY <1>1, <1>7, <2>1 DEF Ordered
    <3>. QED BY <1>1, <1>3, <1>4, <1>7, <2>1, <2>3, <3>1
  <2>. QED BY <1>2, <2>2, <2>3
<1>8. ASSUME NEW i \in 1..Len(b), NEW j \in 1..Len(r), r[j][1] = o PROVE b[i][2] < r[j][2]
  <2>1. CASE j \in 1..Len(q)
    BY <1>1, <1>8, <2>1 DEF Ordered
  <2>2. CASE j = Len(q) + 1
    <3>1. b[i][2] < n
      BY DEF Ordered
    <3>. QED BY <1>1, <1>3, <1>4, <1>8, <2>2, <3>1
  <2>. QED BY <1>2, <2>1, <2>2
<1>9. /\ \A i \in 1..Len(r) : r[i][1] = o => r[i][2] < m
      /\ \A i, j \in 1..Len(r) : i < j /\ r[i][1] = o /\ r[j][1] = o => r[i][2] < r[j][2]
      /\ \A i \in 1..Len(b), j \in 1..Len(r) : r[j][1] = o => b[i][2] < r[j][2]
      /\ \A i, j \in 1..Len(b) : i < j => b[i][2] < b[j][2]
  BY <1>6, <1>7, <1>8 DEF Ordered
<1>10. Ordered(b, r, o, m)
  BY <1>5, <1>9 DEF Ordered
<1>. QED BY <1>10 DEF r

(* Nothing follows the terminal reply. *)
LEMMA OrderedTerminal ==
  ASSUME NEW o, NEW b \in Seq(Events), NEW q \in Seq(Events), b # << >>,
         NEW n \in 0..(Terminal + 1), Ordered(b, q, o, n), Head(b)[2] = Terminal
  PROVE  /\ Head(b) = <<o, Terminal>> /\ n = Terminal + 1
         /\ Tail(b) = << >> /\ NoneOf(q, o)
<1>1. /\ Len(b) \in Nat \ {0} /\ Head(b) = b[1] /\ 1 \in 1..Len(b) /\ b[1] \in Events
      /\ Tail(b) \in Seq(Events) /\ Len(Tail(b)) = Len(b) - 1
  BY TailLemma
<1>2. /\ \A i \in 1..Len(b) : b[i][2] \in Nat
      /\ \A i \in 1..Len(q) : q[i][2] \in Nat
      /\ Terminal \in Nat /\ b[1] = <<b[1][1], b[1][2]>>
  BY <1>1, ConstantsAssumption DEF Events, Terminal
<1>3. b[1][1] = o /\ b[1][2] < n /\ b[1][2] = Terminal
  BY <1>1 DEF Ordered
<1>4. n = Terminal + 1
  BY <1>2, <1>3
<1>5. Len(b) = 1
  <2>1. SUFFICES ASSUME 2 \in 1..Len(b) PROVE FALSE
    BY <1>1
  <2>2. b[1][2] < b[2][2] /\ b[2][2] < n
    BY <1>1, <2>1 DEF Ordered
  <2>. QED BY <1>2, <1>3, <1>4, <2>1, <2>2
<1>6. Tail(b) = << >>
  <2>1. Len(Tail(b)) = 0
    BY <1>1, <1>5
  <2>. QED BY <1>1, <2>1, NoneLeft
<1>7. ASSUME NEW i \in 1..Len(q), q[i][1] = o PROVE FALSE
  <2>1. b[1][2] < q[i][2] /\ q[i][2] < n
    BY <1>1, <1>7 DEF Ordered
  <2>. QED BY <1>2, <1>3, <1>4, <2>1
<1>. QED BY <1>1, <1>2, <1>3, <1>4, <1>6, <1>7 DEF NoneOf

-----------------------------------------------------------------------------
(* One operation                                                           *)

(* What is not written to, per operation. *)
SameTopic(o) == /\ sub'[o] = sub[o] /\ queue'[o] = queue[o]
                /\ lagged'[o] = lagged[o] /\ buffer'[o] = buffer[o]
SameReplies(o) == /\ op'[o] = op[o] /\ sent'[o] = sent[o]
                  /\ outgoing'[o] = outgoing[o] /\ received'[o] = received[o]
SameStages(o) == /\ fuse'[o] = fuse[o] /\ stream'[o] = stream[o]
                 /\ writer'[o] = writer[o] /\ peer'[o] = peer[o]
SameAt(o) == SameTopic(o) /\ SameReplies(o) /\ SameStages(o)

(* The valve is as open as before, and the browser has not come back. *)
SameEnds(o) == /\ fuse'[o] = "open" <=> fuse[o] = "open"
               /\ peer'[o] # "left" => peer[o] # "left"

(* The receiver is dropped, if there is one. *)
Dropped(o) == /\ sub'[o] = FALSE /\ queue'[o] = << >> /\ buffer'[o] = << >>
              /\ lagged'[o] = lagged[o]

(* The invariant of an operation in two halves: where its parts are, and    *)
(* where its replies are.                                                   *)
Stages(o) == StageInv(o) /\ SocketInv(o) /\ BodyInv(o)
Data(o) == FuseInv(o) /\ CompleteInv(o) /\ OrderInv(o)

(* The types of what belongs to one operation. *)
Typed(o) ==
  /\ queue[o] \in Seq(Events) /\ buffer[o] \in Seq(Events)
  /\ outgoing[o] \in Seq(Events) /\ received[o] \in Seq(Events)
  /\ sent[o] \in 0..(Terminal + 1)
  /\ sub[o] \in BOOLEAN /\ lagged[o] \in BOOLEAN

(* The types of the parts follow from TypeOK. *)
LEMMA TypedLemma ==
  ASSUME TypeOK, NEW o \in Ops
  PROVE  Typed(o)
  BY DEF TypeOK, Typed

(* How many replies the stream has yielded. *)
LEMMA TakenLemma ==
  ASSUME TypeOK, NEW o \in Ops
  PROVE  /\ Taken(o) \in Nat /\ (Taken(o) = 0 => op[o] = "acking")
         /\ Len(received[o]) \in Nat /\ Len(outgoing[o]) \in Nat /\ Len(buffer[o]) \in Nat
<1>1. Len(received[o]) \in Nat /\ Len(outgoing[o]) \in Nat /\ Len(buffer[o]) \in Nat
  BY TypedLemma DEF Typed
<1>2. CASE op[o] = "acking"
  <2>1. Taken(o) = 0 + Len(received[o]) + Len(outgoing[o])
    BY <1>2 DEF Taken
  <2>2. \A x, y \in Nat : 0 + x + y \in Nat
    OBVIOUS
  <2>3. Taken(o) \in Nat
    BY <1>1, <2>1, <2>2
  <2>. QED BY <1>1, <1>2, <2>3
<1>3. CASE op[o] # "acking"
  <2>1. Taken(o) = 1 + Len(received[o]) + Len(outgoing[o])
    BY <1>3 DEF Taken
  <2>2. \A x, y \in Nat : 1 + x + y \in Nat /\ 1 + x + y # 0
    OBVIOUS
  <2>3. Taken(o) \in Nat /\ Taken(o) # 0
    BY <1>1, <2>1, <2>2
  <2>. QED BY <1>1, <1>3, <2>3
<1>. QED BY <1>2, <1>3

(* It depends on the following only. *)
LEMMA TakenSame ==
  ASSUME NEW o \in Ops, op'[o] = op[o], received'[o] = received[o], outgoing'[o] = outgoing[o]
  PROVE  Taken(o)' = Taken(o)
  BY DEF Taken

(* An operation that a step leaves alone keeps its invariant. *)
LEMMA Unmoved ==
  ASSUME NEW o \in Ops, OpInv(o), SameAt(o)
  PROVE  OpInv(o)'
<1>1. Stages(o)'
  BY DEF OpInv, Stages, StageInv, SocketInv, BodyInv, SameAt, SameTopic, SameReplies, SameStages
<1>2. FuseInv(o)'
  BY DEF OpInv, FuseInv, SameAt, SameTopic, SameReplies, SameStages
<1>3. CompleteInv(o)'
  <2>1. Taken(o)' = Taken(o)
    BY TakenSame DEF SameAt, SameReplies
  <2>2. Complete(o) => Complete(o)'
    BY <2>1 DEF Complete, SameAt, SameTopic, SameReplies
  <2>3. FailedAtOnce(o) => FailedAtOnce(o)'
    BY DEF FailedAtOnce, SameAt, SameTopic, SameReplies
  <2>4. Whole(o)' => Whole(o)
    BY DEF Whole, SameAt, SameTopic, SameStages
  <2>. QED BY <2>2, <2>3, <2>4 DEF OpInv, CompleteInv
<1>4. OrderInv(o)'
  BY DEF OpInv, OrderInv, SameAt, SameTopic, SameReplies
<1>. QED BY <1>1, <1>2, <1>3, <1>4 DEF OpInv, Stages

(* A step that moves no reply keeps what is known of the replies. *)
LEMMA DataKept ==
  ASSUME NEW o \in Ops, OpInv(o), SameTopic(o), SameReplies(o), SameEnds(o)
  PROVE  Data(o)'
<1>1. FuseInv(o)'
  BY DEF OpInv, FuseInv, SameTopic, SameReplies, SameEnds
<1>2. CompleteInv(o)'
  <2>1. Taken(o)' = Taken(o)
    BY TakenSame DEF SameReplies
  <2>2. Complete(o) => Complete(o)'
    BY <2>1 DEF Complete, SameTopic, SameReplies
  <2>3. FailedAtOnce(o) => FailedAtOnce(o)'
    BY DEF FailedAtOnce, SameTopic, SameReplies
  <2>4. Whole(o)' => Whole(o)
    BY DEF Whole, SameTopic, SameEnds
  <2>. QED BY <2>2, <2>3, <2>4 DEF OpInv, CompleteInv
<1>3. OrderInv(o)'
  BY DEF OpInv, OrderInv, SameTopic, SameReplies
<1>. QED BY <1>1, <1>2, <1>3 DEF Data

(* So does one that drops the receiver. *)
LEMMA DataDropped ==
  ASSUME NEW o \in Ops, OpInv(o), Dropped(o), SameEnds(o),
         sent'[o] = sent[o], outgoing'[o] = outgoing[o], received'[o] = received[o]
  PROVE  Data(o)'
<1>1. NoneOf(<< >>, o) /\ Ordered(<< >>, << >>, o, sent[o])
  BY OrderedEmpty
<1>2. FuseInv(o)'
  BY <1>1 DEF OpInv, FuseInv, Dropped, SameEnds
<1>3. CompleteInv(o)'
  BY DEF CompleteInv, Whole, Dropped
<1>4. OrderInv(o)'
  BY <1>1 DEF OrderInv, Dropped
<1>. QED BY <1>2, <1>3, <1>4 DEF Data

(* An operation that has a receiver is being acknowledged or served. *)
LEMMA SubLemma ==
  ASSUME NEW o \in Ops, StageInv(o), queue[o] # << >> \/ buffer[o] # << >>
  PROVE  sub[o]
  BY DEF StageInv

(* Steps of the API call. *)
LEMMA RequestOwn ==
  ASSUME TypeOK, NEW o \in Ops, OpInv(o), Request(o)
  PROVE  OpInv(o)'
<1>1. /\ op[o] = "idle" /\ op'[o] = "acking" /\ sub'[o] = TRUE
      /\ sent'[o] = sent[o] /\ queue'[o] = queue[o] /\ lagged'[o] = lagged[o]
      /\ buffer'[o] = buffer[o] /\ outgoing'[o] = outgoing[o] /\ received'[o] = received[o]
      /\ SameStages(o)
  BY DEF TypeOK, Request, SameStages
<1>2. /\ sent[o] = 0 /\ queue[o] = << >> /\ buffer[o] = << >> /\ outgoing[o] = << >>
      /\ received[o] = << >> /\ fuse[o] = "open" /\ stream[o] = "none" /\ writer[o] = "none"
      /\ peer[o] = "none"
  BY <1>1 DEF OpInv, StageInv
<1>3. Stages(o)'
  BY <1>1, <1>2 DEF OpInv, Stages, StageInv, SocketInv, BodyInv, SameStages
<1>4. FuseInv(o)'
  BY <1>1, <1>2 DEF FuseInv, SameStages
<1>5. CompleteInv(o)'
  <2>1. Taken(o)' = 0
    BY <1>1, <1>2 DEF Taken
  <2>2. Run(<< >>, o, 1) /\ Run(<< >>, o, 0) /\ Holds(<< >>, o, 0, 0)
    BY DEF Run, Holds
  <2>3. Complete(o)'
    BY <1>1, <1>2, <2>1, <2>2 DEF Complete
  <2>. QED BY <2>3 DEF CompleteInv
<1>6. OrderInv(o)'
  BY <1>1, <1>2, OrderedEmpty DEF OrderInv
<1>. QED BY <1>3, <1>4, <1>5, <1>6 DEF OpInv, Stages

(* The first reply is taken for the Ack; the rest stays in the stream. *)
LEMMA AckedOwn ==
  ASSUME TypeOK, NEW o \in Ops, OpInv(o), Acked(o)
  PROVE  OpInv(o)'
<1>1. /\ op[o] = "acking" /\ op'[o] = "acked" /\ buffer[o] # << >>
      /\ buffer'[o] = Tail(buffer[o]) /\ Head(buffer[o]) = <<o, 0>>
  BY DEF TypeOK, Acked, Yield
<1>2. /\ sub'[o] = sub[o] /\ queue'[o] = queue[o] /\ lagged'[o] = lagged[o]
      /\ sent'[o] = sent[o] /\ outgoing'[o] = outgoing[o] /\ received'[o] = received[o]
      /\ fuse'[o] = fuse[o] /\ writer'[o] = writer[o]
  BY DEF TypeOK, Acked, Yield
<1>3. /\ o \in Downloads => stream'[o] = "connected" /\ peer'[o] = "open"
      /\ o \notin Downloads => stream'[o] = "spawned" /\ peer'[o] = peer[o]
  BY DEF TypeOK, Acked
<1>4. /\ outgoing[o] = << >> /\ received[o] = << >> /\ fuse[o] = "open" /\ stream[o] = "none"
      /\ writer[o] = "none" /\ peer[o] = "none" /\ sub[o]
  BY <1>1 DEF OpInv, StageInv
<1>5. Stages(o)'
  BY <1>1, <1>2, <1>3, <1>4 DEF OpInv, Stages, StageInv, SocketInv, BodyInv, Finished
<1>6. FuseInv(o)'
  BY <1>2, <1>4 DEF FuseInv
<1>7. /\ Tail(buffer[o]) \in Seq(Events) /\ Len(Tail(buffer[o])) = Len(buffer[o]) - 1
      /\ Len(buffer[o]) \in Nat \ {0} /\ Head(buffer[o]) = buffer[o][1]
      /\ 1 \in 1..Len(buffer[o])
  BY <1>1, TypedLemma, TailLemma DEF Typed
<1>8. CompleteInv(o)'
  <2>1. SUFFICES ASSUME Whole(o)' PROVE Complete(o)'
    BY DEF CompleteInv
  <2>2. Whole(o)
    BY <2>1, <1>2, <1>3, <1>4 DEF Whole
  <2>3. ~FailedAtOnce(o)
    <3>1. <<o, 0>> # <<o, Terminal>>
      BY NumbersLemma
    <3>. QED BY <3>1, <1>1, <1>7 DEF FailedAtOnce
  <2>4. Complete(o)
    BY <2>2, <2>3 DEF OpInv, CompleteInv
  <2>5. Taken(o) = 0 /\ Taken(o)' = 1
    BY <1>1, <1>2, <1>4 DEF Taken
  <2>6. Run(Tail(buffer[o]), o, 1)
    <3>1. Run(buffer[o], o, 0)
      BY <2>4, <2>5 DEF Complete
    <3>2. Run(Tail(buffer[o]), o, 0 + 1)
      BY <3>1, <1>1, TypedLemma, RunPop DEF Typed
    <3>. QED BY <3>2
  <2>7. Holds(queue[o], o, 1 + Len(Tail(buffer[o])), sent[o])
    <3>1. 0 + Len(buffer[o]) = 1 + Len(Tail(buffer[o]))
      BY <1>7
    <3>. QED BY <3>1, <2>4, <2>5 DEF Complete
  <2>. QED BY <2>4, <2>5, <2>6, <2>7, <1>1, <1>2 DEF Complete
<1>9. OrderInv(o)'
  <2>1. sent[o] \in Nat
    BY TypedLemma, NumbersLemma DEF Typed
  <2>. QED BY <2>1, <1>1, <1>2, TypedLemma, OrderedYield DEF OrderInv, OpInv, Typed
<1>. QED BY <1>5, <1>6, <1>8, <1>9 DEF OpInv, Stages

(* The call fails, and its receiver is dropped. *)
LEMMA NotAckedOwn ==
  ASSUME TypeOK, NEW o \in Ops, OpInv(o), NotAcked(o) \/ AckTimesOut(o)
  PROVE  OpInv(o)'
<1>1. op[o] = "acking" /\ op'[o] = "error" /\ Dropped(o) /\ SameStages(o)
  BY DEF TypeOK, NotAcked, AckTimesOut, DropReceiver, Dropped, SameStages
<1>2. sent'[o] = sent[o] /\ outgoing'[o] = outgoing[o] /\ received'[o] = received[o]
  BY DEF NotAcked, AckTimesOut
<1>3. Stages(o)'
  BY <1>1, <1>2 DEF OpInv, Stages, StageInv, SocketInv, BodyInv, Dropped, SameStages
<1>4. Data(o)'
  BY <1>1, <1>2, DataDropped DEF SameEnds, SameStages
<1>. QED BY <1>3, <1>4 DEF OpInv, Stages, Data

(* An event is taken ahead: it is the next one the stream waits for. *)
LEMMA TakeAheadOwn ==
  ASSUME TypeOK, NEW o \in Ops, OpInv(o), TakeAhead(o)
  PROVE  OpInv(o)'
<1> DEFINE own == Head(queue[o])[1] = o
<1>1. /\ queue[o] # << >> /\ queue'[o] = Tail(queue[o])
      /\ buffer'[o] = IF own THEN Append(buffer[o], Head(queue[o])) ELSE buffer[o]
      /\ sub'[o] = sub[o] /\ lagged'[o] = lagged[o]
      /\ SameReplies(o) /\ SameStages(o)
  BY DEF TypeOK, TakeAhead, SameReplies, SameStages
<1>2. sub[o]
  BY <1>1, SubLemma DEF OpInv
<1>3. Stages(o)'
  BY <1>1, <1>2 DEF OpInv, Stages, StageInv, SocketInv, BodyInv, SameReplies, SameStages
<1>4. /\ Head(queue[o]) = queue[o][1] /\ Head(queue[o]) \in Events /\ 1 \in 1..Len(queue[o])
      /\ \A i \in 1..Len(Tail(queue[o])) : /\ i + 1 \in 1..Len(queue[o])
                                           /\ Tail(queue[o])[i] = queue[o][i + 1]
  BY <1>1, TypedLemma, TailLemma DEF Typed
<1>5. FuseInv(o)'
  <2>1. CASE fuse[o] = "open"
    BY <2>1, <1>1 DEF FuseInv, SameStages
  <2>2. CASE fuse[o] # "open"
    <3>1. NoneOf(queue[o], o)
      BY <2>2 DEF OpInv, FuseInv
    <3>2. ~own /\ NoneOf(Tail(queue[o]), o)
      BY <3>1, <1>4 DEF NoneOf
    <3>. QED BY <2>2, <3>2, <1>1 DEF OpInv, FuseInv, SameReplies, SameStages
  <2>. QED BY <2>1, <2>2
<1>6. sent[o] \in Nat
  BY TypedLemma, NumbersLemma DEF Typed
<1>7. OrderInv(o)'
  BY <1>1, <1>6, TypedLemma, OrderedTake DEF OrderInv, OpInv, Typed, SameReplies
<1>8. CompleteInv(o)'
  <2>1. SUFFICES ASSUME Whole(o)' PROVE Complete(o)' \/ FailedAtOnce(o)'
    BY DEF CompleteInv
  <2>2. Whole(o)
    BY <2>1, <1>1 DEF Whole, SameStages
  <2>3. CASE Complete(o)
    <3>1. /\ Taken(o)' = Taken(o) /\ Taken(o) \in Nat
          /\ Len(buffer[o]) \in Nat /\ Taken(o) + Len(buffer[o]) \in Nat
      <4>1. Len(buffer[o]) \in Nat /\ Taken(o) \in Nat
        BY TakenLemma
      <4>2. Taken(o)' = Taken(o)
        BY <1>1, TakenSame DEF SameReplies
      <4>. QED BY <4>1, <4>2
    <3>2. /\ Run(buffer[o], o, Taken(o))
          /\ Holds(queue[o], o, Taken(o) + Len(buffer[o]), sent[o])
      BY <2>3 DEF Complete
    <3>3. CASE own
      <4>1. /\ Head(queue[o]) = <<o, Taken(o) + Len(buffer[o])>>
            /\ Holds(Tail(queue[o]), o, (Taken(o) + Len(buffer[o])) + 1, sent[o])
        BY <3>1, <3>2, <3>3, <1>1, <1>6, TypedLemma, HoldsPopOwn DEF Typed
      <4>2. Run(Append(buffer[o], Head(queue[o])), o, Taken(o))
        BY <3>1, <3>2, <4>1, <1>4, TypedLemma, RunPush DEF Typed
      <4>3. Len(Append(buffer[o], Head(queue[o]))) = Len(buffer[o]) + 1
        BY <1>4, TypedLemma, AppendLemma DEF Typed
      <4>4. Holds(queue[o], o, Taken(o) + Len(buffer[o]), sent[o])'
        <5>1. (Taken(o) + Len(buffer[o])) + 1 = Taken(o) + (Len(buffer[o]) + 1)
          BY <3>1
        <5>. QED BY <5>1, <4>1, <4>3, <3>1, <3>3, <1>1 DEF SameReplies
      <4>5. Run(buffer[o], o, Taken(o))'
        BY <4>2, <3>1, <3>3, <1>1
      <4>. QED BY <2>3, <4>4, <4>5, <1>1 DEF Complete, SameReplies
    <3>4. CASE ~own
      <4>1. Holds(Tail(queue[o]), o, Taken(o) + Len(buffer[o]), sent[o])
        BY <3>1, <3>2, <3>4, <1>1, <1>6, TypedLemma, HoldsPopOther DEF Typed
      <4>. QED BY <2>3, <3>1, <3>4, <4>1, <1>1 DEF Complete, SameReplies
    <3>. QED BY <3>3, <3>4
  <2>4. CASE FailedAtOnce(o)
    <3>1. \A i \in 1..Len(Tail(queue[o])) : Tail(queue[o])[i][1] = o => Tail(queue[o])[i] = <<o, Terminal>>
      BY <2>4, <1>4 DEF FailedAtOnce
    <3>2. CASE own
      <4>1. Head(queue[o]) = <<o, Terminal>>
        BY <2>4, <3>2, <1>4 DEF FailedAtOnce
      <4>2. \A i \in 1..Len(Append(buffer[o], Head(queue[o]))) :
              Append(buffer[o], Head(queue[o]))[i] = <<o, Terminal>>
        BY <2>4, <4>1, <1>4, TypedLemma, AppendLemma DEF FailedAtOnce, Typed
      <4>. QED BY <2>4, <3>1, <3>2, <4>2, <1>1 DEF FailedAtOnce, SameReplies
    <3>3. CASE ~own
      BY <2>4, <3>1, <3>3, <1>1 DEF FailedAtOnce, SameReplies
    <3>. QED BY <3>2, <3>3
  <2>. QED BY <2>2, <2>3, <2>4 DEF OpInv, CompleteInv
<1>. QED BY <1>3, <1>5, <1>7, <1>8 DEF OpInv, Stages

(* The agent replies to another operation: the receiver of this one takes   *)
(* the event if it has room, and loses its oldest one otherwise.            *)
LEMMA PublishOther ==
  ASSUME TypeOK, NEW o \in Ops, OpInv(o), NEW e \in Events, e[1] # o,
         Publish(e), SameReplies(o), SameStages(o)
  PROVE  OpInv(o)'
<1>1. CASE ~sub[o]
  <2>1. SameTopic(o)
    BY <1>1 DEF TypeOK, Publish, SameTopic
  <2>. QED BY <2>1, Unmoved DEF SameAt
<1>2. CASE sub[o]
  <2>1. /\ sub'[o] = sub[o] /\ buffer'[o] = buffer[o]
        /\ lagged'[o] = (lagged[o] \/ Len(queue[o]) = Capacity)
        /\ queue'[o] = IF Len(queue[o]) < Capacity THEN Append(queue[o], e)
                       ELSE Append(Tail(queue[o]), e)
    BY <1>2 DEF TypeOK, Publish
  <2>2. /\ sent[o] \in Nat /\ Len(queue[o]) \in Nat /\ Len(queue[o]) <= Capacity
        /\ Capacity \in Nat \ {0} /\ queue[o] \in Seq(Events) /\ buffer[o] \in Seq(Events)
    BY TypedLemma, NumbersLemma, ConstantsAssumption DEF Typed, TypeOK
  <2>3. Stages(o)'
    BY <1>2, <2>1 DEF OpInv, Stages, StageInv, SocketInv, BodyInv, SameReplies, SameStages
  <2>4. CASE Len(queue[o]) < Capacity
    <3>1. queue'[o] = Append(queue[o], e) /\ lagged'[o] = lagged[o]
      BY <2>1, <2>2, <2>4, TypedLemma DEF Typed
    <3>2. /\ Len(Append(queue[o], e)) = Len(queue[o]) + 1
          /\ \A i \in 1..Len(queue[o]) : Append(queue[o], e)[i] = queue[o][i]
          /\ Append(queue[o], e)[Len(queue[o]) + 1] = e
          /\ \A i \in 1..Len(Append(queue[o], e)) : i \in 1..Len(queue[o]) \/ i = Len(queue[o]) + 1
      BY <2>2, AppendLemma
    <3>3. FuseInv(o)'
      <4>1. NoneOf(queue[o], o) => NoneOf(Append(queue[o], e), o)
        BY <3>2 DEF NoneOf
      <4>. QED BY <4>1, <2>1, <3>1 DEF OpInv, FuseInv, SameReplies, SameStages
    <3>4. OrderInv(o)'
      <4>1. Ordered(buffer[o], Append(queue[o], e), o, sent[o])
        BY <2>2, OrderedPush DEF OpInv, OrderInv
      <4>. QED BY <4>1, <2>1, <3>1 DEF OrderInv, SameReplies
    <3>5. CompleteInv(o)'
      <4>1. SUFFICES ASSUME Whole(o)' PROVE Complete(o)' \/ FailedAtOnce(o)'
        BY DEF CompleteInv
      <4>2. Whole(o)
        BY <4>1, <2>1, <3>1 DEF Whole, SameStages
      <4>3. CASE Complete(o)
        <5>1. Taken(o)' = Taken(o) /\ Taken(o) + Len(buffer[o]) \in Nat
          <6>1. Taken(o) \in Nat /\ Len(buffer[o]) \in Nat
            BY TakenLemma
          <6>2. Taken(o)' = Taken(o)
            BY TakenSame DEF SameReplies
          <6>. QED BY <6>1, <6>2
        <5>2. Holds(Append(queue[o], e), o, Taken(o) + Len(buffer[o]), sent[o])
          BY <4>3, <5>1, <2>2, HoldsPushOther DEF Complete
        <5>. QED BY <4>3, <5>1, <5>2, <2>1, <3>1 DEF Complete, SameReplies
      <4>4. CASE FailedAtOnce(o)
        <5>1. \A i \in 1..Len(Append(queue[o], e)) :
                Append(queue[o], e)[i][1] = o => Append(queue[o], e)[i] = <<o, Terminal>>
          BY <4>4, <3>2 DEF FailedAtOnce
        <5>. QED BY <4>4, <5>1, <2>1, <3>1 DEF FailedAtOnce, SameReplies
      <4>. QED BY <4>2, <4>3, <4>4 DEF OpInv, CompleteInv
    <3>. QED BY <2>3, <3>3, <3>4, <3>5 DEF OpInv, Stages
  <2>5. CASE ~(Len(queue[o]) < Capacity)
    <3> DEFINE t == Tail(queue[o])
    <3>1. queue'[o] = Append(t, e) /\ lagged'[o] = TRUE /\ queue[o] # << >>
      <4>1. Len(queue[o]) = Capacity /\ Len(queue[o]) # 0
        BY <2>2, <2>5
      <4>2. queue[o] # << >>
        BY <4>1
      <4>. QED BY <2>1, <2>5, <4>1, <4>2
    <3>2. /\ t \in Seq(Events) /\ Len(t) \in Nat
          /\ \A i \in 1..Len(t) : i + 1 \in 1..Len(queue[o]) /\ t[i] = queue[o][i + 1]
      BY <2>2, <3>1, TailLemma
    <3> HIDE DEF t
    <3>3. /\ \A i \in 1..Len(t) : Append(t, e)[i] = t[i]
          /\ Append(t, e)[Len(t) + 1] = e
          /\ \A i \in 1..Len(Append(t, e)) : i \in 1..Len(t) \/ i = Len(t) + 1
      BY <3>2, AppendLemma
    <3>4. FuseInv(o)'
      <4>1. NoneOf(queue[o], o) => NoneOf(t, o)
        BY <3>2 DEF NoneOf
      <4>2. NoneOf(t, o) => NoneOf(Append(t, e), o)
        BY <3>3 DEF NoneOf
      <4>. QED BY <4>1, <4>2, <2>1, <3>1 DEF OpInv, FuseInv, SameReplies, SameStages
    <3>5. OrderInv(o)'
      <4>1. Ordered(buffer[o], t, o, sent[o])
        BY <2>2, <3>1, OrderedDrop DEF OpInv, OrderInv, t
      <4>2. Ordered(buffer[o], Append(t, e), o, sent[o])
        BY <4>1, <2>2, <3>2, OrderedPush
      <4>. QED BY <4>2, <2>1, <3>1 DEF OrderInv, SameReplies
    <3>6. CompleteInv(o)'
      BY <3>1 DEF CompleteInv, Whole
    <3>. QED BY <2>3, <3>4, <3>5, <3>6 DEF OpInv, Stages
  <2>. QED BY <2>4, <2>5
<1>. QED BY <1>1, <1>2

(* The agent replies to this operation. *)
LEMMA AgentRepliesOwn ==
  ASSUME TypeOK, NEW o \in Ops, OpInv(o), op[o] # "idle",
         NEW i \in 0..Terminal, i = sent[o] \/ (sent[o] = 0 /\ i = Terminal),
         sent'[o] = i + 1, Publish(<<o, i>>), SameStages(o),
         op'[o] = op[o], outgoing'[o] = outgoing[o], received'[o] = received[o]
  PROVE  OpInv(o)'
<1> DEFINE e == <<o, i>>
<1>1. e \in Events /\ e[1] = o /\ e[2] = i /\ i \in Nat
  BY NumbersLemma DEF Events
<1>2. /\ sent[o] \in Nat /\ Len(queue[o]) \in Nat /\ Len(queue[o]) <= Capacity
      /\ Capacity \in Nat \ {0} /\ queue[o] \in Seq(Events) /\ buffer[o] \in Seq(Events)
      /\ sent[o] <= i /\ sent[o] # Terminal + 1
  <2>1. sent[o] \in Nat
    BY TypedLemma, NumbersLemma DEF Typed
  <2>2. sent[o] <= i /\ sent[o] # Terminal + 1
    BY <2>1, NumbersLemma
  <2>. QED BY <2>1, <2>2, TypedLemma, ConstantsAssumption DEF Typed, TypeOK
<1>3. fuse[o] = "open"
  BY <1>2 DEF OpInv, FuseInv
<1>4. FuseInv(o)'
  BY <1>3 DEF FuseInv, SameStages
<1>5. CASE ~sub[o]
  <2>1. SameTopic(o)
    BY <1>5 DEF TypeOK, Publish, SameTopic
  <2>2. Stages(o)'
    BY <1>5, <2>1 DEF OpInv, Stages, StageInv, SocketInv, BodyInv, SameTopic, SameStages
  <2>3. CompleteInv(o)'
    BY <1>5, <2>1 DEF CompleteInv, Whole, SameTopic
  <2>4. OrderInv(o)'
    BY <1>5, <2>1, OrderedEmpty DEF OpInv, StageInv, OrderInv, SameTopic
  <2>. QED BY <1>4, <2>2, <2>3, <2>4 DEF OpInv, Stages
<1>6. CASE sub[o]
  <2>1. /\ sub'[o] = sub[o] /\ buffer'[o] = buffer[o]
        /\ lagged'[o] = (lagged[o] \/ Len(queue[o]) = Capacity)
        /\ queue'[o] = IF Len(queue[o]) < Capacity THEN Append(queue[o], e)
                       ELSE Append(Tail(queue[o]), e)
    BY <1>6 DEF TypeOK, Publish
  <2>2. Stages(o)'
    BY <1>6, <2>1 DEF OpInv, Stages, StageInv, SocketInv, BodyInv, SameStages
  <2>3. CASE Len(queue[o]) < Capacity
    <3>1. queue'[o] = Append(queue[o], e) /\ lagged'[o] = lagged[o]
      BY <2>1, <2>3, <1>2, TypedLemma DEF Typed
    <3> HIDE DEF e
    <3>2. /\ \A k \in 1..Len(queue[o]) : Append(queue[o], e)[k] = queue[o][k]
          /\ Append(queue[o], e)[Len(queue[o]) + 1] = e
          /\ \A k \in 1..Len(Append(queue[o], e)) : k \in 1..Len(queue[o]) \/ k = Len(queue[o]) + 1
      BY <1>1, <1>2, AppendLemma
    <3>3. OrderInv(o)'
      <4>1. Ordered(buffer[o], Append(queue[o], e), o, i + 1)
        BY <1>1, <1>2, OrderedPush DEF OpInv, OrderInv
      <4>. QED BY <4>1, <2>1, <3>1 DEF OrderInv
    <3>4. CompleteInv(o)'
      <4>1. SUFFICES ASSUME Whole(o)' PROVE Complete(o)' \/ FailedAtOnce(o)'
        BY DEF CompleteInv
      <4>2. Whole(o)
        BY <4>1, <2>1, <3>1 DEF Whole, SameStages
      <4>3. Complete(o)
        <5>1. ~FailedAtOnce(o)
          BY <1>2 DEF FailedAtOnce
        <5>. QED BY <4>2, <5>1 DEF OpInv, CompleteInv
      <4>4. Taken(o) \in Nat /\ Len(buffer[o]) \in Nat /\ Taken(o) + Len(buffer[o]) \in Nat
        <5>1. Taken(o) \in Nat /\ Len(buffer[o]) \in Nat
          BY TakenLemma
        <5>. QED BY <5>1
      <4>5. Taken(o)' = Taken(o)
        BY TakenSame
      <4>6. Holds(queue[o], o, Taken(o) + Len(buffer[o]), sent[o])
        BY <4>3 DEF Complete
      <4>7. CASE i = sent[o]
        <5>1. e = <<o, sent[o]>>
          BY <4>7 DEF e
        <5>2. Holds(Append(queue[o], e), o, Taken(o) + Len(buffer[o]), i + 1)
          BY <4>4, <4>6, <4>7, <5>1, <1>1, <1>2, HoldsPushOwn
        <5>. QED BY <4>3, <4>5, <5>2, <2>1, <3>1 DEF Complete
      <4>8. CASE sent[o] = 0 /\ i = Terminal
        <5>1. Taken(o) = 0 /\ Len(buffer[o]) = 0
          BY <4>4, <4>6, <4>8 DEF Holds
        <5>2. op[o] = "acking"
          BY <5>1, TakenLemma
        <5>3. \A k \in 1..Len(queue[o]) : queue[o][k][1] # o
          BY <4>6, <4>8, <5>1 DEF Holds
        <5>4. \A k \in 1..Len(Append(queue[o], e)) :
                Append(queue[o], e)[k][1] = o => Append(queue[o], e)[k] = <<o, Terminal>>
          BY <5>3, <3>2, <4>8 DEF e
        <5>5. sent'[o] = Terminal + 1
          BY <4>8
        <5>6. FailedAtOnce(o)'
          <6>1. buffer'[o] = << >>
            BY <5>1, <1>2, <2>1, NoneLeft
          <6>2. \A k \in 1..Len(queue'[o]) : queue'[o][k][1] = o => queue'[o][k] = <<o, Terminal>>
            BY <5>4, <3>1
          <6>3. \A k \in 1..Len(buffer'[o]) : buffer'[o][k] = <<o, Terminal>>
            BY <6>1
          <6>. QED BY <5>2, <5>5, <6>2, <6>3 DEF FailedAtOnce
        <5>. QED BY <5>6
      <4>. QED BY <4>7, <4>8
    <3>. QED BY <1>4, <2>2, <3>3, <3>4 DEF OpInv, Stages
  <2>4. CASE ~(Len(queue[o]) < Capacity)
    <3> DEFINE t == Tail(queue[o])
    <3>1. queue'[o] = Append(t, e) /\ lagged'[o] = TRUE /\ queue[o] # << >>
      <4>1. Len(queue[o]) = Capacity /\ Len(queue[o]) # 0
        BY <1>2, <2>4
      <4>2. queue[o] # << >>
        BY <4>1
      <4>. QED BY <2>1, <2>4, <4>1, <4>2
    <3>2. t \in Seq(Events)
      BY <1>2, <3>1, TailLemma
    <3> HIDE DEF t, e
    <3>3. OrderInv(o)'
      <4>1. Ordered(buffer[o], t, o, sent[o])
        BY <1>2, <3>1, OrderedDrop DEF OpInv, OrderInv, t
      <4>2. Ordered(buffer[o], Append(t, e), o, i + 1)
        BY <4>1, <1>1, <1>2, <3>2, OrderedPush
      <4>. QED BY <4>2, <2>1, <3>1 DEF OrderInv
    <3>4. CompleteInv(o)'
      BY <3>1 DEF CompleteInv, Whole
    <3>. QED BY <1>4, <2>2, <3>3, <3>4 DEF OpInv, Stages
  <2>. QED BY <2>3, <2>4
<1>. QED BY <1>5, <1>6

(* Steps that move no reply: the stream waits, is routed, and is closed. *)
LEMMA WaitOwn ==
  ASSUME TypeOK, NEW o \in Ops, OpInv(o), StreamAt(o) \/ Unconnected(o) \/ Remove(o)
  PROVE  OpInv(o)'
<1>1. SameReplies(o) /\ fuse'[o] = fuse[o] /\ writer'[o] = writer[o] /\ peer'[o] = peer[o]
  BY DEF StreamAt, Unconnected, Remove, SameReplies
<1>2. SameEnds(o)
  BY <1>1 DEF SameEnds
<1>3. CASE StreamAt(o) \/ Unconnected(o)
  <2>1. SameTopic(o)
    BY <1>3 DEF StreamAt, Unconnected, SameTopic, topic
  <2>2. \/ stream[o] = "spawned" /\ stream'[o] = "waiting"
        \/ stream[o] = "waiting" /\ stream'[o] = "expired"
    BY <1>3 DEF TypeOK, StreamAt, Unconnected
  <2>3. Stages(o)'
    BY <1>1, <2>1, <2>2 DEF OpInv, Stages, StageInv, SocketInv, BodyInv, SameReplies, SameTopic
  <2>4. Data(o)'
    BY <1>1, <1>2, <2>1, DataKept
  <2>. QED BY <2>3, <2>4 DEF OpInv, Stages, Data
<1>4. CASE Remove(o)
  <2>1. Dropped(o) /\ stream[o] = "expired" /\ stream'[o] = "unclaimed"
    BY <1>4 DEF TypeOK, Remove, DropReceiver, Dropped
  <2>2. Stages(o)'
    BY <1>1, <2>1 DEF OpInv, Stages, StageInv, SocketInv, BodyInv, SameReplies, Dropped
  <2>3. Data(o)'
    BY <1>1, <1>2, <2>1, DataDropped DEF SameReplies
  <2>. QED BY <2>2, <2>3 DEF OpInv, Stages, Data
<1>. QED BY <1>3, <1>4

(* The browser connects or goes. *)
LEMMA PeerOwn ==
  ASSUME TypeOK, NEW o \in Ops, OpInv(o), PeerConnects(o) \/ PeerLeaves(o)
  PROVE  OpInv(o)'
<1>1. /\ SameReplies(o) /\ SameTopic(o)
      /\ fuse'[o] = fuse[o] /\ writer'[o] = writer[o] /\ stream'[o] = stream[o]
  BY DEF PeerConnects, PeerLeaves, SameReplies, SameTopic, topic
<1>2. \/ op[o] = "acked" /\ peer[o] = "none" /\ peer'[o] = "connecting"
      \/ peer[o] \in {"connecting", "open"} /\ peer'[o] = "left"
  BY DEF TypeOK, PeerConnects, PeerLeaves
<1>3. Stages(o)'
  BY <1>1, <1>2 DEF OpInv, Stages, StageInv, SocketInv, BodyInv, SameReplies, SameTopic
<1>4. Data(o)'
  BY <1>1, <1>2, DataKept DEF SameEnds
<1>. QED BY <1>3, <1>4 DEF OpInv, Stages, Data

(* The accept loop serves the browser of this operation. *)
LEMMA RouteOwn ==
  ASSUME TypeOK, RouterInv, NEW o \in Ops, OpInv(o), RouteStep(o)
  PROVE  OpInv(o)'
<1>1. SameReplies(o) /\ fuse'[o] = fuse[o]
  BY DEF RouteStep, Accept, OnRequest, HandOver, HandshakeFails, SameReplies
<1>2. CASE Accept(o)
  BY <1>2, Unmoved DEF Accept, SameAt, SameTopic, SameReplies, SameStages, topic
<1>3. CASE OnRequest(o)
  <2>1. SameTopic(o) /\ stream'[o] = stream[o] /\ writer'[o] = writer[o]
    BY <1>3 DEF OnRequest, SameTopic, topic
  <2>2. o \notin Downloads /\ peer[o] \in {"connecting", "left"}
    BY <1>3 DEF OnRequest, RouterInv
  <2>3. peer'[o] = peer[o] \/ (peer[o] # "left" /\ peer'[o] = "refused")
    BY <1>3 DEF TypeOK, OnRequest
  <2>4. Stages(o)'
    BY <1>1, <2>1, <2>2, <2>3 DEF OpInv, Stages, StageInv, SocketInv, BodyInv, SameReplies, SameTopic
  <2>5. Data(o)'
    BY <1>1, <2>1, <2>3, DataKept DEF SameEnds
  <2>. QED BY <2>4, <2>5 DEF OpInv, Stages, Data
<1>4. CASE HandOver(o)
  <2>1. SameTopic(o)
    BY <1>4 DEF HandOver, SameTopic, topic
  <2>2. o \notin Downloads /\ peer[o] \in {"connecting", "left"}
    BY <1>4 DEF HandOver, RouterInv
  <2>3. \/ /\ stream[o] = "waiting" /\ stream'[o] = "connected" /\ writer'[o] = "running"
           /\ peer'[o] = (IF peer[o] = "connecting" THEN "open" ELSE peer[o])
        \/ /\ stream'[o] = stream[o] /\ writer'[o] = writer[o]
           /\ peer'[o] = (IF peer[o] = "connecting" THEN "dropped" ELSE peer[o])
    BY <1>4 DEF TypeOK, HandOver
  <2>4. peer'[o] # "left" => peer[o] # "left"
    BY <2>3
  <2>5. stream[o] = "waiting" => op[o] = "acked" /\ writer[o] = "none" /\ outgoing[o] = << >> /\ sub[o]
    BY DEF OpInv, StageInv
  <2>6. StageInv(o)'
    BY <1>1, <2>1, <2>3, <2>5 DEF OpInv, StageInv, SameReplies, SameTopic
  <2>7. SocketInv(o)' /\ BodyInv(o)'
    BY <1>1, <2>2, <2>3 DEF OpInv, StageInv, SocketInv, BodyInv
  <2>8. Data(o)'
    BY <1>1, <2>1, <2>4, DataKept DEF SameEnds
  <2>. QED BY <2>6, <2>7, <2>8 DEF OpInv, Data
<1>5. CASE HandshakeFails(o)
  <2>1. writer'[o] = writer[o] /\ peer'[o] = peer[o]
    BY <1>5 DEF HandshakeFails
  <2>2. SameEnds(o)
    BY <1>1, <2>1 DEF SameEnds
  <2>3. o \notin Downloads
    BY <1>5 DEF HandshakeFails, RouterInv
  <2>4. CASE SameTopic(o) /\ stream'[o] = stream[o]
    BY <1>1, <2>1, <2>4, Unmoved DEF SameAt, SameStages
  <2>5. CASE Dropped(o) /\ stream[o] = "waiting" /\ stream'[o] = "left"
    <3>1. Stages(o)'
      BY <1>1, <2>1, <2>3, <2>5
      DEF OpInv, Stages, StageInv, SocketInv, BodyInv, SameReplies, Dropped
    <3>2. Data(o)'
      BY <1>1, <2>2, <2>5, DataDropped DEF SameReplies
    <3>. QED BY <3>1, <3>2 DEF OpInv, Stages, Data
  <2>6. \/ SameTopic(o) /\ stream'[o] = stream[o]
        \/ Dropped(o) /\ stream[o] = "waiting" /\ stream'[o] = "left"
    BY <1>5 DEF TypeOK, HandshakeFails, DropReceiver, Dropped, SameTopic, topic
  <2>. QED BY <2>4, <2>5, <2>6
<1>. QED BY <1>2, <1>3, <1>4, <1>5 DEF RouteStep

(* The valve closes. *)
LEMMA CancelOwn ==
  ASSUME TypeOK, NEW o \in Ops, OpInv(o), Cancel(o)
  PROVE  OpInv(o)'
<1>1. /\ SameReplies(o) /\ SameTopic(o) /\ fuse[o] = "signalled" /\ fuse'[o] = "cancelled"
      /\ writer'[o] = writer[o] /\ stream'[o] = stream[o] /\ peer'[o] = peer[o]
  BY DEF TypeOK, Cancel, SameReplies, SameTopic, topic
<1>2. Stages(o)'
  BY <1>1 DEF OpInv, Stages, StageInv, SocketInv, BodyInv, SameReplies, SameTopic
<1>3. Data(o)'
  BY <1>1, DataKept DEF SameEnds
<1>. QED BY <1>2, <1>3 DEF OpInv, Stages, Data

(* The stream ends: the operation is over, the browser has gone, or nothing *)
(* has happened for an hour.                                                *)
LEMMA EndOwn ==
  ASSUME TypeOK, NEW o \in Ops, OpInv(o), StreamEnds(o) \/ PeerGone(o) \/ Inactive(o)
  PROVE  OpInv(o)'
<1>1. /\ SameReplies(o) /\ Dropped(o) /\ fuse'[o] = fuse[o] /\ writer'[o] = writer[o]
      /\ stream[o] = "connected"
  BY DEF TypeOK, StreamEnds, PeerGone, Inactive, DropReceiver, SameReplies, Dropped
<1>2. \/ /\ fuse[o] = "cancelled" /\ stream'[o] = "fused"
         /\ peer'[o] = IF o \in Downloads /\ peer[o] = "open" THEN "closed" ELSE peer[o]
      \/ stream'[o] = "left" /\ peer'[o] = peer[o]
      \/ o \notin Downloads /\ stream'[o] = "inactive" /\ peer'[o] = peer[o]
  BY DEF TypeOK, StreamEnds, PeerGone, Inactive
<1>3. op[o] = "acked" /\ writer[o] # "closed"
  BY <1>1 DEF OpInv, StageInv, Finished
<1>4. StageInv(o)'
  BY <1>1, <1>2, <1>3 DEF OpInv, StageInv, SameReplies, Dropped, Finished
<1>5. SocketInv(o)' /\ BodyInv(o)'
  BY <1>1, <1>2, <1>3 DEF OpInv, SocketInv, BodyInv, SameReplies
<1>6. Data(o)'
  BY <1>1, <1>2, DataDropped DEF SameReplies, SameEnds
<1>. QED BY <1>4, <1>5, <1>6 DEF OpInv, Data

(* The writer closes the WebSocket once its channel is drained. *)
LEMMA WriterClosesOwn ==
  ASSUME TypeOK, NEW o \in Ops, OpInv(o), WriterCloses(o)
  PROVE  OpInv(o)'
<1>1. /\ SameReplies(o) /\ SameTopic(o) /\ fuse'[o] = fuse[o] /\ stream'[o] = stream[o]
      /\ writer[o] = "running" /\ writer'[o] = "closed" /\ stream[o] \in Finished
      /\ outgoing[o] = << >>
      /\ peer'[o] = IF peer[o] = "open" THEN "closed" ELSE peer[o]
  BY DEF TypeOK, WriterCloses, SameReplies, SameTopic, topic
<1>2. o \notin Downloads
  BY <1>1 DEF OpInv, BodyInv
<1>3. StageInv(o)'
  BY <1>1 DEF OpInv, StageInv, SameReplies, SameTopic, Finished
<1>4. SocketInv(o)' /\ BodyInv(o)'
  BY <1>1, <1>2 DEF OpInv, SocketInv, BodyInv, Finished
<1>5. Data(o)'
  BY <1>1, DataKept DEF SameEnds
<1>. QED BY <1>3, <1>4, <1>5 DEF OpInv, Data

(* A stream that yields a reply has not yielded the terminal one. *)
LEMMA OpenLemma ==
  ASSUME NEW o \in Ops, OpInv(o), stream[o] = "connected", buffer[o] # << >>
  PROVE  fuse[o] = "open" /\ op[o] = "acked" /\ sub[o]
  BY DEF OpInv, FuseInv, StageInv

(* The yielded reply is the next one, if none is missing. *)
LEMMA YieldLemma ==
  ASSUME TypeOK, NEW o \in Ops, OpInv(o), Complete(o), op[o] = "acked", buffer[o] # << >>
  PROVE  /\ Head(buffer[o]) = <<o, 1 + Len(received[o]) + Len(outgoing[o])>>
         /\ Run(Tail(buffer[o]), o, (1 + Len(received[o]) + Len(outgoing[o])) + 1)
         /\ Taken(o) = 1 + Len(received[o]) + Len(outgoing[o])
         /\ Taken(o) \in Nat
<1>1. Taken(o) = 1 + Len(received[o]) + Len(outgoing[o])
  BY DEF Taken
<1>2. Taken(o) \in Nat
  BY TakenLemma
<1>3. Run(buffer[o], o, Taken(o))
  BY DEF Complete
<1>4. Head(buffer[o]) = <<o, Taken(o)>> /\ Run(Tail(buffer[o]), o, Taken(o) + 1)
  BY <1>2, <1>3, TypedLemma, RunPop DEF Typed
<1>. QED BY <1>1, <1>2, <1>4

(* The stream yields a reply and it is sent to the writer. *)
LEMMA ForwardOwn ==
  ASSUME TypeOK, NEW o \in Ops, OpInv(o), Forward(o)
  PROVE  OpInv(o)'
<1> DEFINE e == Head(buffer[o])
<1>1. /\ stream[o] = "connected" /\ o \notin Downloads /\ buffer[o] # << >>
      /\ buffer'[o] = Tail(buffer[o]) /\ outgoing'[o] = Append(outgoing[o], e)
      /\ fuse'[o] = IF e[2] = Terminal THEN "signalled" ELSE fuse[o]
  BY DEF TypeOK, Forward, Yield, Inspect
<1>2. /\ sub'[o] = sub[o] /\ queue'[o] = queue[o] /\ lagged'[o] = lagged[o]
      /\ op'[o] = op[o] /\ sent'[o] = sent[o] /\ received'[o] = received[o]
      /\ stream'[o] = stream[o] /\ writer'[o] = writer[o] /\ peer'[o] = peer[o]
  BY DEF Forward, Yield
<1>3. fuse[o] = "open" /\ op[o] = "acked" /\ sub[o] /\ writer[o] = "running"
  BY <1>1, OpenLemma DEF OpInv, SocketInv
<1>4. /\ Tail(buffer[o]) \in Seq(Events) /\ Len(Tail(buffer[o])) = Len(buffer[o]) - 1
      /\ Len(buffer[o]) \in Nat \ {0} /\ e \in Events
  BY <1>1, TypedLemma, TailLemma DEF Typed
<1>5. /\ Append(outgoing[o], e) # << >>
      /\ Append(outgoing[o], e) \in Seq(Events)
      /\ Len(Append(outgoing[o], e)) = Len(outgoing[o]) + 1
      /\ Append(outgoing[o], e)[Len(outgoing[o]) + 1] = e
  BY <1>4, TypedLemma, AppendLemma DEF Typed
<1>6. sent[o] \in Nat /\ sent[o] \in 0..(Terminal + 1)
  BY TypedLemma, NumbersLemma DEF Typed
<1> HIDE DEF e
<1>7. StageInv(o)'
  BY <1>1, <1>2, <1>3 DEF OpInv, StageInv, Finished
<1>8. SocketInv(o)' /\ BodyInv(o)'
  BY <1>1, <1>2 DEF OpInv, SocketInv, BodyInv
<1>9. FuseInv(o)'
  <2>1. CASE e[2] = Terminal
    <3>1. e = <<o, Terminal>> /\ sent[o] = Terminal + 1 /\ Tail(buffer[o]) = << >> /\ NoneOf(queue[o], o)
      <4>1. Ordered(buffer[o], queue[o], o, sent[o])
        BY DEF OpInv, OrderInv
      <4>2. buffer[o] \in Seq(Events) /\ queue[o] \in Seq(Events) /\ buffer[o] # << >>
        BY <1>1, TypedLemma DEF Typed
      <4>3. Head(buffer[o])[2] = Terminal
        BY <2>1 DEF e
      <4>. QED BY <4>1, <4>2, <4>3, <1>6, OrderedTerminal DEF e
    <3>2. outgoing'[o] # << >> /\ outgoing'[o][Len(outgoing'[o])] = <<o, Terminal>>
      BY <3>1, <1>1, <1>5
    <3>. QED BY <3>1, <3>2, <1>1, <1>2 DEF FuseInv
  <2>2. CASE e[2] # Terminal
    BY <2>2, <1>1, <1>3 DEF FuseInv
  <2>. QED BY <2>1, <2>2
<1>10. CompleteInv(o)'
  <2>1. SUFFICES ASSUME Whole(o)' PROVE Complete(o)'
    BY DEF CompleteInv
  <2>2. Complete(o)
    <3>1. Whole(o)
      BY <2>1, <1>1, <1>2 DEF Whole
    <3>2. ~FailedAtOnce(o)
      BY <1>3 DEF FailedAtOnce
    <3>. QED BY <3>1, <3>2 DEF OpInv, CompleteInv
  <2>3. /\ e = <<o, 1 + Len(received[o]) + Len(outgoing[o])>>
        /\ Run(Tail(buffer[o]), o, (1 + Len(received[o]) + Len(outgoing[o])) + 1)
        /\ Taken(o) = 1 + Len(received[o]) + Len(outgoing[o])
        /\ Taken(o) \in Nat
    BY <2>2, <1>1, <1>3, YieldLemma DEF e
  <2>4. /\ Len(received[o]) \in Nat /\ Len(outgoing[o]) \in Nat
    BY TakenLemma
  <2>5. Taken(o)' = 1 + Len(received[o]) + (Len(outgoing[o]) + 1)
    BY <1>1, <1>2, <1>3, <1>5 DEF Taken
  <2>6. Taken(o)' = Taken(o) + 1
    <3>1. \A x, y \in Nat : 1 + x + (y + 1) = (1 + x + y) + 1
      OBVIOUS
    <3>. QED BY <3>1, <2>3, <2>4, <2>5
  <2>7. Run(outgoing[o], o, Len(received[o]) + 1)'
    <3>1. Run(outgoing[o], o, Len(received[o]) + 1)
      BY <2>2 DEF Complete
    <3>2. 1 + Len(received[o]) + Len(outgoing[o]) = (Len(received[o]) + 1) + Len(outgoing[o])
          /\ Len(received[o]) + 1 \in Nat
      <4>1. \A x, y \in Nat : 1 + x + y = (x + 1) + y /\ x + 1 \in Nat
        OBVIOUS
      <4>. QED BY <4>1, <2>4
    <3>3. Run(Append(outgoing[o], e), o, Len(received[o]) + 1)
      BY <3>1, <3>2, <2>3, <1>4, TypedLemma, RunPush DEF Typed
    <3>. QED BY <3>3, <1>1, <1>2
  <2>8. Run(buffer[o], o, Taken(o))'
    BY <2>3, <2>6, <1>1
  <2>9. Holds(queue[o], o, Taken(o) + Len(buffer[o]), sent[o])'
    <3>1. Holds(queue[o], o, Taken(o) + Len(buffer[o]), sent[o])
      BY <2>2 DEF Complete
    <3>2. Taken(o)' + Len(Tail(buffer[o])) = Taken(o) + Len(buffer[o])
      <4>1. \A x \in Nat, y \in Nat \ {0} : (x + 1) + (y - 1) = x + y
        OBVIOUS
      <4>. QED BY <4>1, <2>3, <2>6, <1>4
    <3>. QED BY <3>1, <3>2, <1>1, <1>2
  <2>10. Run(received[o], o, 1)'
    BY <2>2, <1>2 DEF Complete
  <2>. QED BY <2>7, <2>8, <2>9, <2>10 DEF Complete
<1>11. OrderInv(o)'
  BY <1>1, <1>2, <1>6, TypedLemma, OrderedYield DEF OrderInv, OpInv, Typed
<1>. QED BY <1>7, <1>8, <1>9, <1>10, <1>11 DEF OpInv

(* The stream of a download yields a reply: its bytes, or the sentinel. *)
LEMMA DownloadOwn ==
  ASSUME TypeOK, NEW o \in Ops, OpInv(o), Download(o)
  PROVE  OpInv(o)'
<1> DEFINE e == Head(buffer[o])
<1>1. /\ stream[o] = "connected" /\ o \in Downloads /\ buffer[o] # << >> /\ peer[o] = "open"
      /\ buffer'[o] = Tail(buffer[o])
      /\ received'[o] = IF e[2] = Terminal THEN received[o] ELSE Append(received[o], e)
      /\ fuse'[o] = IF e[2] = Terminal THEN "signalled" ELSE fuse[o]
  BY DEF TypeOK, Download, Yield, Inspect
<1>2. /\ sub'[o] = sub[o] /\ queue'[o] = queue[o] /\ lagged'[o] = lagged[o]
      /\ op'[o] = op[o] /\ sent'[o] = sent[o] /\ outgoing'[o] = outgoing[o]
      /\ stream'[o] = stream[o] /\ writer'[o] = writer[o] /\ peer'[o] = peer[o]
  BY DEF Download, Yield
<1>3. fuse[o] = "open" /\ op[o] = "acked" /\ sub[o] /\ outgoing[o] = << >>
  BY <1>1, OpenLemma DEF OpInv, BodyInv, StageInv
<1>4. /\ Tail(buffer[o]) \in Seq(Events) /\ Len(Tail(buffer[o])) = Len(buffer[o]) - 1
      /\ Len(buffer[o]) \in Nat \ {0} /\ e \in Events
  BY <1>1, TypedLemma, TailLemma DEF Typed
<1>5. Len(Append(received[o], e)) = Len(received[o]) + 1
  BY <1>4, TypedLemma, AppendLemma DEF Typed
<1>6. sent[o] \in Nat /\ sent[o] \in 0..(Terminal + 1)
  BY TypedLemma, NumbersLemma DEF Typed
<1> HIDE DEF e
<1>7. StageInv(o)'
  BY <1>1, <1>2, <1>3 DEF OpInv, StageInv, Finished
<1>8. SocketInv(o)' /\ BodyInv(o)'
  BY <1>1, <1>2 DEF OpInv, SocketInv, BodyInv
<1>9. ~lagged[o] => Complete(o)
  <2>1. ~lagged[o] => Whole(o)
    BY <1>1, <1>3 DEF Whole
  <2>2. ~FailedAtOnce(o)
    BY <1>3 DEF FailedAtOnce
  <2>. QED BY <2>1, <2>2 DEF OpInv, CompleteInv
<1>10. Len(received[o]) \in Nat /\ Len(outgoing[o]) = 0
  BY <1>3, TakenLemma
<1>11. ~lagged[o] =>
         /\ e = <<o, 1 + Len(received[o])>> /\ Run(Tail(buffer[o]), o, (1 + Len(received[o])) + 1)
         /\ Taken(o) = 1 + Len(received[o]) /\ Run(received[o], o, 1)
  <2>1. 1 + Len(received[o]) + Len(outgoing[o]) = 1 + Len(received[o])
    BY <1>10
  <2>. QED BY <2>1, <1>1, <1>3, <1>9, YieldLemma DEF Complete, e
<1>12. FuseInv(o)'
  <2>1. CASE e[2] = Terminal
    <3>1. e = <<o, Terminal>> /\ sent[o] = Terminal + 1 /\ Tail(buffer[o]) = << >> /\ NoneOf(queue[o], o)
      <4>1. Ordered(buffer[o], queue[o], o, sent[o])
        BY DEF OpInv, OrderInv
      <4>2. buffer[o] \in Seq(Events) /\ queue[o] \in Seq(Events) /\ buffer[o] # << >>
        BY <1>1, TypedLemma DEF Typed
      <4>3. Head(buffer[o])[2] = Terminal
        BY <2>1 DEF e
      <4>. QED BY <4>1, <4>2, <4>3, <1>6, OrderedTerminal DEF e
    <3>2. ~lagged[o] => Run(received[o], o, 1) /\ Len(received[o]) = Ongoing
      <4>1. ~lagged[o] => Terminal = 1 + Len(received[o])
        BY <3>1, <1>11
      <4>. QED BY <4>1, <1>10, <1>11, NumbersLemma
    <3>. QED BY <2>1, <3>1, <3>2, <1>1, <1>2 DEF FuseInv
  <2>2. CASE e[2] # Terminal
    BY <2>2, <1>1, <1>3 DEF FuseInv
  <2>. QED BY <2>1, <2>2
<1>13. CompleteInv(o)'
  <2>1. SUFFICES ASSUME Whole(o)' PROVE Complete(o)'
    BY DEF CompleteInv
  <2>2. e[2] # Terminal /\ ~lagged[o]
    BY <2>1, <1>1, <1>2 DEF Whole
  <2>3. received'[o] = Append(received[o], e)
    BY <2>2, <1>1
  <2>4. Taken(o)' = 1 + (Len(received[o]) + 1) + Len(outgoing[o])
    BY <2>3, <1>2, <1>3, <1>5 DEF Taken
  <2>5. Taken(o)' = (1 + Len(received[o])) + 1
    BY <2>4, <1>10
  <2>6. Run(received[o], o, 1)'
    <3>1. Run(Append(received[o], e), o, 1)
      BY <2>2, <1>4, <1>11, TypedLemma, RunPush DEF Typed
    <3>. QED BY <3>1, <2>3
  <2>7. Run(outgoing[o], o, Len(received[o]) + 1)'
    BY <1>2, <1>3 DEF Run
  <2>8. Run(buffer[o], o, Taken(o))'
    BY <2>2, <2>5, <1>1, <1>11
  <2>9. Holds(queue[o], o, Taken(o) + Len(buffer[o]), sent[o])'
    <3>1. Holds(queue[o], o, Taken(o) + Len(buffer[o]), sent[o])
      BY <2>2, <1>9 DEF Complete
    <3>2. Taken(o)' + Len(Tail(buffer[o])) = Taken(o) + Len(buffer[o])
      <4>1. \A x \in Nat, y \in Nat \ {0} : ((1 + x) + 1) + (y - 1) = (1 + x) + y
        OBVIOUS
      <4>2. Taken(o)' = (1 + Len(received[o])) + 1 /\ Taken(o) = 1 + Len(received[o])
        BY <2>2, <2>5, <1>11
      <4>3. Len(received[o]) \in Nat /\ Len(buffer[o]) \in Nat \ {0}
            /\ Len(Tail(buffer[o])) = Len(buffer[o]) - 1
        BY <1>4, <1>10
      <4>. QED BY <4>1, <4>2, <4>3
    <3>. QED BY <3>1, <3>2, <1>1, <1>2
  <2>. QED BY <2>6, <2>7, <2>8, <2>9 DEF Complete
<1>14. OrderInv(o)'
  BY <1>1, <1>2, <1>6, TypedLemma, OrderedYield DEF OrderInv, OpInv, Typed
<1>. QED BY <1>7, <1>8, <1>12, <1>13, <1>14 DEF OpInv

(* The writer sends a reply to the browser. *)
LEMMA WriterSendsOwn ==
  ASSUME TypeOK, NEW o \in Ops, OpInv(o), WriterSends(o)
  PROVE  OpInv(o)'
<1> DEFINE e == Head(outgoing[o])
<1>1. /\ writer[o] = "running" /\ outgoing[o] # << >> /\ outgoing'[o] = Tail(outgoing[o])
      /\ received'[o] = IF peer[o] = "open" THEN Append(received[o], e) ELSE received[o]
      /\ op'[o] = op[o] /\ sent'[o] = sent[o] /\ SameTopic(o) /\ SameStages(o)
  BY DEF TypeOK, WriterSends, SameTopic, SameStages, topic
<1>2. /\ o \notin Downloads /\ peer[o] \in {"open", "left"} /\ op[o] = "acked"
      /\ stream[o] \notin {"none", "spawned", "waiting", "expired"}
  BY <1>1 DEF OpInv, StageInv, SocketInv, BodyInv
<1>3. StageInv(o)'
  BY <1>1, <1>2 DEF OpInv, StageInv, SameTopic, SameStages
<1>4. SocketInv(o)' /\ BodyInv(o)'
  BY <1>1, <1>2 DEF OpInv, SocketInv, BodyInv, SameStages
<1>5. /\ Tail(outgoing[o]) \in Seq(Events) /\ Len(Tail(outgoing[o])) = Len(outgoing[o]) - 1
      /\ Len(outgoing[o]) \in Nat \ {0} /\ e \in Events /\ e = outgoing[o][1]
      /\ \A i \in 1..Len(Tail(outgoing[o])) : Tail(outgoing[o])[i] = outgoing[o][i + 1]
  BY <1>1, TypedLemma, TailLemma DEF Typed
<1>6. /\ Append(received[o], e) # << >>
      /\ Len(received[o]) \in Nat /\ Len(Append(received[o], e)) = Len(received[o]) + 1
      /\ Append(received[o], e)[Len(received[o]) + 1] = e
  BY <1>5, TypedLemma, AppendLemma DEF Typed
<1> HIDE DEF e
<1>7. FuseInv(o)'
  <2>1. CASE fuse[o] # "open" /\ peer[o] = "open"
    <3>1. outgoing[o][Len(outgoing[o])] = <<o, Terminal>>
      BY <2>1, <1>1, <1>2 DEF OpInv, FuseInv
    <3>2. CASE Tail(outgoing[o]) # << >>
      <4>1. Len(Tail(outgoing[o])) # 0
        BY <3>2, <1>5, NoneLeft
      <4>2. Tail(outgoing[o])[Len(Tail(outgoing[o]))] = outgoing[o][Len(outgoing[o])]
        <5>1. \A n \in Nat \ {0} : n - 1 # 0 => n - 1 \in 1..(n - 1) /\ (n - 1) + 1 = n
          OBVIOUS
        <5>. QED BY <4>1, <5>1, <1>5
      <4>. QED BY <2>1, <3>1, <3>2, <4>2, <1>1, <1>2 DEF OpInv, FuseInv, SameTopic, SameStages
    <3>3. CASE Tail(outgoing[o]) = << >>
      <4>1. Len(outgoing[o]) = 1
        <5>1. \A n \in Nat \ {0} : n - 1 = 0 => n = 1
          OBVIOUS
        <5>2. \A s : s = << >> => Len(s) = 0
          OBVIOUS
        <5>3. Len(Tail(outgoing[o])) = 0
          BY <3>3, <5>2, Zenon
        <5>. QED BY <5>1, <5>3, <1>5
      <4>2. e = <<o, Terminal>>
        BY <3>1, <4>1, <1>5
      <4>3. received'[o] # << >> /\ received'[o][Len(received'[o])] = <<o, Terminal>>
        BY <2>1, <4>2, <1>1, <1>6
      <4>. QED BY <2>1, <3>3, <4>3, <1>1, <1>2 DEF OpInv, FuseInv, SameTopic, SameStages
    <3>. QED BY <3>2, <3>3
  <2>2. CASE fuse[o] = "open"
    BY <2>2, <1>1 DEF FuseInv, SameStages
  <2>3. CASE peer[o] = "left"
    BY <2>3, <1>1, <1>2 DEF OpInv, FuseInv, SameTopic, SameStages
  <2>. QED BY <1>2, <2>1, <2>2, <2>3
<1>8. CompleteInv(o)'
  <2>1. SUFFICES ASSUME Whole(o)' PROVE Complete(o)'
    BY DEF CompleteInv
  <2>2. Whole(o) /\ peer[o] = "open"
    BY <2>1, <1>1, <1>2 DEF Whole, SameTopic, SameStages
  <2>3. Complete(o)
    <3>1. ~FailedAtOnce(o)
      BY <1>2 DEF FailedAtOnce
    <3>. QED BY <2>2, <3>1 DEF OpInv, CompleteInv
  <2>4. received'[o] = Append(received[o], e) /\ Len(received'[o]) = Len(received[o]) + 1
    BY <2>2, <1>1, <1>6
  <2>5. e = <<o, Len(received[o]) + 1>> /\ Run(Tail(outgoing[o]), o, (Len(received[o]) + 1) + 1)
    <3>1. Run(outgoing[o], o, Len(received[o]) + 1) /\ Len(received[o]) + 1 \in Nat
      BY <2>3, <1>6 DEF Complete
    <3>. QED BY <3>1, <1>1, TypedLemma, RunPop DEF Typed, e
  <2>6. Run(received[o], o, 1)'
    <3>1. Len(received[o]) + 1 = 1 + Len(received[o])
      BY <1>6
    <3>2. Run(Append(received[o], e), o, 1)
      BY <2>3, <2>5, <3>1, <1>5, TypedLemma, RunPush DEF Typed, Complete
    <3>. QED BY <3>2, <2>4
  <2>7. Run(outgoing[o], o, Len(received[o]) + 1)'
    BY <2>4, <2>5, <1>1
  <2>8. Taken(o)' = Taken(o)
    <3>1. Taken(o) = 1 + Len(received[o]) + Len(outgoing[o])
      BY <1>2 DEF Taken
    <3>2. Taken(o)' = 1 + (Len(received[o]) + 1) + (Len(outgoing[o]) - 1)
      BY <1>1, <1>2, <1>5, <2>4 DEF Taken
    <3>3. \A x \in Nat, y \in Nat \ {0} : 1 + (x + 1) + (y - 1) = 1 + x + y
      OBVIOUS
    <3>. QED BY <3>1, <3>2, <3>3, <1>5, <1>6
  <2>. QED BY <2>3, <2>6, <2>7, <2>8, <1>1 DEF Complete, SameTopic
<1>9. OrderInv(o)'
  BY <1>1 DEF OpInv, OrderInv, SameTopic
<1>. QED BY <1>3, <1>4, <1>7, <1>8, <1>9 DEF OpInv

-----------------------------------------------------------------------------
(* All operations                                                          *)

(* A step of an operation, other than a reply of its agent, leaves the      *)
(* others alone.                                                            *)
LEMMA OthersUnmoved ==
  ASSUME TypeOK, NEW o \in Ops, NEW u \in Ops, u # o,
         \/ CallStep(o) \/ WaitStep(o) \/ RouteStep(o) \/ StreamStep(o)
         \/ PeerConnects(o) \/ PeerLeaves(o)
  PROVE  SameAt(u)
<1> USE DEF SameAt, SameTopic, SameReplies, SameStages, TypeOK
<1>1. CASE CallStep(o)
  BY <1>1 DEF CallStep, Request, Acked, NotAcked, AckTimesOut, TakeAhead, Yield, DropReceiver
<1>2. CASE WaitStep(o)
  BY <1>2 DEF WaitStep, StreamAt, Unconnected, Remove, DropReceiver, topic
<1>3. CASE RouteStep(o)
  BY <1>3 DEF RouteStep, Accept, OnRequest, HandOver, HandshakeFails, DropReceiver, topic
<1>4. CASE StreamStep(o)
  <2>1. CASE Forward(o) \/ Download(o) \/ Cancel(o)
    BY <2>1 DEF Forward, Download, Cancel, Yield, Inspect, topic
  <2>2. CASE StreamEnds(o) \/ PeerGone(o) \/ Inactive(o)
    BY <2>2 DEF StreamEnds, PeerGone, Inactive, DropReceiver
  <2>3. CASE WriterSends(o) \/ WriterCloses(o)
    BY <2>3 DEF WriterSends, WriterCloses, topic
  <2>. QED BY <1>4, <2>1, <2>2, <2>3 DEF StreamStep
<1>5. CASE PeerConnects(o) \/ PeerLeaves(o)
  BY <1>5 DEF PeerConnects, PeerLeaves, topic
<1>. QED BY <1>1, <1>2, <1>3, <1>4, <1>5

(* A step keeps the invariant of the operation it is about. *)
LEMMA OwnStep ==
  ASSUME TypeOK, RouterInv, NEW o \in Ops, OpInv(o),
         \/ CallStep(o) \/ WaitStep(o) \/ RouteStep(o) \/ StreamStep(o)
         \/ PeerConnects(o) \/ PeerLeaves(o)
  PROVE  OpInv(o)'
<1>1. CASE CallStep(o)
  BY <1>1, RequestOwn, AckedOwn, NotAckedOwn, TakeAheadOwn DEF CallStep
<1>2. CASE WaitStep(o)
  BY <1>2, WaitOwn DEF WaitStep
<1>3. CASE RouteStep(o)
  BY <1>3, RouteOwn
<1>4. CASE StreamStep(o)
  BY <1>4, ForwardOwn, DownloadOwn, CancelOwn, EndOwn, WriterSendsOwn, WriterClosesOwn DEF StreamStep
<1>5. CASE PeerConnects(o) \/ PeerLeaves(o)
  BY <1>5, PeerOwn
<1>. QED BY <1>1, <1>2, <1>3, <1>4, <1>5

(* Every step keeps the invariant of every operation. *)
LEMMA OpStep ==
  ASSUME TypeOK, RouterInv, \A u \in Ops : OpInv(u), [Next]_vars, NEW u \in Ops
  PROVE  OpInv(u)'
<1>1. CASE UNCHANGED vars
  BY <1>1, Unmoved DEF vars, SameAt, SameTopic, SameReplies, SameStages
<1>2. CASE Next
  <2>1. PICK o \in Ops : \/ CallStep(o) \/ WaitStep(o) \/ RouteStep(o) \/ StreamStep(o)
                         \/ AgentReplies(o) \/ PeerConnects(o) \/ PeerLeaves(o)
    BY <1>2 DEF Next
  <2>2. CASE AgentReplies(o)
    <3>1. PICK i \in 0..Terminal : /\ i = sent[o] \/ (sent[o] = 0 /\ i = Terminal)
                                   /\ sent' = [sent EXCEPT ![o] = i + 1]
                                   /\ Publish(<<o, i>>)
      BY <2>2 DEF AgentReplies
    <3>2. /\ op[o] # "idle" /\ op' = op /\ outgoing' = outgoing /\ received' = received
          /\ SameStages(u)
      BY <2>2 DEF AgentReplies, SameStages
    <3>3. CASE u = o
      <4>1. sent'[o] = i + 1
        BY <3>1 DEF TypeOK
      <4>. QED BY <3>1, <3>2, <3>3, <4>1, AgentRepliesOwn
    <3>4. CASE u # o
      <4>1. sent'[u] = sent[u]
        BY <3>1, <3>4 DEF TypeOK
      <4>2. <<o, i>> \in Events /\ <<o, i>>[1] # u
        BY <3>4 DEF Events
      <4>. QED BY <3>1, <3>2, <4>1, <4>2, PublishOther DEF SameReplies
    <3>. QED BY <3>3, <3>4
  <2>3. CASE \/ CallStep(o) \/ WaitStep(o) \/ RouteStep(o) \/ StreamStep(o)
             \/ PeerConnects(o) \/ PeerLeaves(o)
    <3>1. CASE u = o
      BY <2>3, <3>1, OwnStep
    <3>2. CASE u # o
      BY <2>3, <3>2, OthersUnmoved, Unmoved
    <3>. QED BY <3>1, <3>2
  <2>. QED BY <2>1, <2>2, <2>3
<1>. QED BY <1>1, <1>2

(* The router serves one browser at a time, which is connecting or has gone. *)
LEMMA RouterStep ==
  ASSUME TypeOK, RouterInv, \A u \in Ops : OpInv(u), [Next]_vars
  PROVE  RouterInv'
<1>1. CASE UNCHANGED vars
  BY <1>1 DEF vars, RouterInv
<1>2. CASE Next
  <2>1. PICK o \in Ops : \/ CallStep(o) \/ WaitStep(o) \/ RouteStep(o) \/ StreamStep(o)
                         \/ AgentReplies(o) \/ PeerConnects(o) \/ PeerLeaves(o)
    BY <1>2 DEF Next
  <2>2. CASE RouteStep(o)
    <3>1. CASE Accept(o)
      <4>1. o \notin Downloads
        BY <3>1 DEF Accept, OpInv, BodyInv
      <4>. QED BY <3>1, <4>1 DEF Accept, RouterInv
    <3>2. CASE OnRequest(o)
      BY <3>2 DEF OnRequest, RouterInv, Idle
    <3>3. CASE HandOver(o) \/ HandshakeFails(o)
      BY <3>3 DEF HandOver, HandshakeFails, RouterInv, Idle
    <3>. QED BY <2>2, <3>1, <3>2, <3>3 DEF RouteStep
  <2>3. CASE ~RouteStep(o)
    <3>1. router' = router
      BY <2>1, <2>3
      DEF CallStep, WaitStep, StreamStep, AgentReplies, PeerConnects, PeerLeaves, Request, Acked,
          NotAcked, AckTimesOut, TakeAhead, StreamAt, Unconnected, Remove, Forward, Download,
          Cancel, StreamEnds, PeerGone, Inactive, WriterSends, WriterCloses
    <3>2. ASSUME NEW u \in Ops \ Downloads, peer[u] \in {"connecting", "left"}
          PROVE  peer'[u] \in {"connecting", "left"}
      <4>1. CASE Acked(o)
        BY <3>2, <4>1 DEF TypeOK, Acked
      <4>2. CASE StreamEnds(o)
        BY <3>2, <4>2 DEF TypeOK, StreamEnds
      <4>3. CASE WriterCloses(o)
        BY <3>2, <4>3 DEF TypeOK, WriterCloses
      <4>4. CASE PeerConnects(o) \/ PeerLeaves(o)
        BY <3>2, <4>4 DEF TypeOK, PeerConnects, PeerLeaves
      <4>5. CASE ~(Acked(o) \/ StreamEnds(o) \/ WriterCloses(o) \/ PeerConnects(o) \/ PeerLeaves(o))
        <5>1. peer' = peer
          BY <2>1, <2>3, <4>5
          DEF CallStep, WaitStep, StreamStep, AgentReplies, Request,
              NotAcked, AckTimesOut, TakeAhead, StreamAt, Unconnected, Remove, Forward, Download,
              Cancel, PeerGone, Inactive, WriterSends
        <5>. QED BY <3>2, <5>1
      <4>. QED BY <4>1, <4>2, <4>3, <4>4, <4>5
    <3>. QED BY <3>1, <3>2 DEF RouterInv
  <2>. QED BY <2>2, <2>3
<1>. QED BY <1>1, <1>2

(* Types, in three parts. *)
StateTypes ==
  /\ op \in [Ops -> {"idle", "acking", "acked", "error"}]
  /\ sent \in [Ops -> 0..(Terminal + 1)]
  /\ sub \in [Ops -> BOOLEAN]
  /\ lagged \in [Ops -> BOOLEAN]
  /\ fuse \in [Ops -> {"open", "signalled", "cancelled"}]
  /\ stream \in [Ops -> {"none", "spawned", "waiting", "expired", "connected"} \cup Finished]
  /\ writer \in [Ops -> {"none", "running", "closed"}]
  /\ peer \in [Ops -> {"none", "connecting", "open", "refused", "dropped", "left", "closed"}]
RouteTypes ==
  /\ waiting \subseteq Ops \ Downloads
  /\ router \in [at : {"idle", "handshake", "upgrade"}, op : Ops \cup {NoOp}]
ReplyTypes ==
  /\ queue \in [Ops -> Seq(Events)]
  /\ buffer \in [Ops -> Seq(Events)]
  /\ outgoing \in [Ops -> Seq(Events)]
  /\ received \in [Ops -> Seq(Events)]
Lengths == \A o \in Ops : Len(queue[o]) <= Capacity /\ Len(buffer[o]) <= Prefetch

(* TypeOK is these parts. *)
LEMMA TypeParts == TypeOK <=> StateTypes /\ RouteTypes /\ ReplyTypes /\ Lengths
  BY DEF TypeOK, StateTypes, RouteTypes, ReplyTypes, Lengths

(* Every step keeps the first part. *)
LEMMA StateTypesStep ==
  ASSUME StateTypes, NEW o \in Ops,
         \/ CallStep(o) \/ WaitStep(o) \/ RouteStep(o) \/ StreamStep(o)
         \/ AgentReplies(o) \/ PeerConnects(o) \/ PeerLeaves(o)
  PROVE  StateTypes'
<1> USE DEF StateTypes, Finished
<1>1. CASE CallStep(o)
  BY <1>1 DEF CallStep, Request, Acked, NotAcked, AckTimesOut, TakeAhead, Yield, DropReceiver
<1>2. CASE WaitStep(o)
  BY <1>2 DEF WaitStep, StreamAt, Unconnected, Remove, DropReceiver, topic
<1>3. CASE RouteStep(o)
  <2>1. CASE Accept(o) \/ OnRequest(o)
    BY <2>1 DEF Accept, OnRequest, topic
  <2>2. CASE HandOver(o)
    BY <2>2 DEF HandOver, topic
  <2>3. CASE HandshakeFails(o)
    BY <2>3 DEF HandshakeFails, DropReceiver, topic
  <2>. QED BY <1>3, <2>1, <2>2, <2>3 DEF RouteStep
<1>4. CASE StreamStep(o)
  <2>1. CASE Forward(o) \/ Download(o) \/ Cancel(o)
    BY <2>1 DEF Forward, Download, Cancel, Yield, Inspect, topic
  <2>2. CASE StreamEnds(o) \/ PeerGone(o) \/ Inactive(o)
    BY <2>2 DEF StreamEnds, PeerGone, Inactive, DropReceiver
  <2>3. CASE WriterSends(o) \/ WriterCloses(o)
    BY <2>3 DEF WriterSends, WriterCloses, topic
  <2>. QED BY <1>4, <2>1, <2>2, <2>3 DEF StreamStep
<1>5. CASE PeerConnects(o) \/ PeerLeaves(o)
  BY <1>5 DEF PeerConnects, PeerLeaves, topic
<1>6. CASE AgentReplies(o)
  <2>1. PICK i \in 0..Terminal : sent' = [sent EXCEPT ![o] = i + 1] /\ Publish(<<o, i>>)
    BY <1>6 DEF AgentReplies
  <2>2. i + 1 \in 0..(Terminal + 1)
    BY NumbersLemma
  <2>3. lagged' \in [Ops -> BOOLEAN]
    <3>1. lagged' = [u \in Ops |-> lagged[u] \/ (sub[u] /\ Len(queue[u]) = Capacity)]
      BY <2>1 DEF Publish
    <3>. QED BY <3>1, Zenon
  <2>4. sent' \in [Ops -> 0..(Terminal + 1)]
    BY <2>1, <2>2
  <2>. QED BY <1>6, <2>1, <2>3, <2>4 DEF AgentReplies, Publish
<1>. QED BY <1>1, <1>2, <1>3, <1>4, <1>5, <1>6

(* Every step keeps the second: no download is ever registered at a path. *)
LEMMA RouteTypesStep ==
  ASSUME RouteTypes, NEW o \in Ops, OpInv(o),
         \/ CallStep(o) \/ WaitStep(o) \/ RouteStep(o) \/ StreamStep(o)
         \/ AgentReplies(o) \/ PeerConnects(o) \/ PeerLeaves(o)
  PROVE  RouteTypes'
<1>1. CASE StreamAt(o)
  <2>1. o \notin Downloads
    BY <1>1 DEF StreamAt, OpInv, BodyInv
  <2>. QED BY <1>1, <2>1 DEF StreamAt, RouteTypes
<1>2. CASE Remove(o)
  BY <1>2 DEF Remove, RouteTypes
<1>3. CASE RouteStep(o)
  BY <1>3 DEF RouteStep, Accept, OnRequest, HandOver, HandshakeFails, RouteTypes, Idle
<1>4. CASE ~StreamAt(o) /\ ~Remove(o) /\ ~RouteStep(o)
  <2>1. waiting' = waiting /\ router' = router
    BY <1>4
    DEF CallStep, WaitStep, StreamStep, AgentReplies, PeerConnects, PeerLeaves, Request, Acked,
        NotAcked, AckTimesOut, TakeAhead, Unconnected, Forward, Download,
        Cancel, StreamEnds, PeerGone, Inactive, WriterSends, WriterCloses
  <2>. QED BY <2>1 DEF RouteTypes
<1>. QED BY <1>1, <1>2, <1>3, <1>4

(* Dropping a receiver, or leaving it alone, keeps its queues small. *)
LEMMA TopicTypes ==
  ASSUME ReplyTypes, Lengths, NEW o \in Ops,
         outgoing' \in [Ops -> Seq(Events)], received' \in [Ops -> Seq(Events)],
         DropReceiver(o) \/ (queue' = queue /\ buffer' = buffer)
  PROVE  ReplyTypes' /\ Lengths'
<1>1. << >> \in Seq(Events) /\ Len(<< >>) = 0
  OBVIOUS
<1>2. Capacity \in Nat /\ Prefetch \in Nat
  BY ConstantsAssumption
<1>3. CASE DropReceiver(o)
  <2>1. queue' = [queue EXCEPT ![o] = << >>] /\ buffer' = [buffer EXCEPT ![o] = << >>]
    BY <1>3 DEF DropReceiver
  <2>2. ReplyTypes'
    BY <1>1, <2>1 DEF ReplyTypes
  <2>3. ASSUME NEW u \in Ops PROVE Len(queue'[u]) <= Capacity /\ Len(buffer'[u]) <= Prefetch
    <3>1. CASE u = o
      <4>1. queue'[u] = << >> /\ buffer'[u] = << >>
        BY <2>1, <3>1 DEF ReplyTypes
      <4>. QED BY <4>1, <1>1, <1>2
    <3>2. CASE u # o
      BY <2>1, <3>2 DEF ReplyTypes, Lengths
    <3>. QED BY <3>1, <3>2
  <2>. QED BY <2>2, <2>3 DEF Lengths
<1>4. CASE queue' = queue /\ buffer' = buffer
  BY <1>4 DEF ReplyTypes, Lengths
<1>. QED BY <1>3, <1>4

(* Yielding a reply makes room. *)
LEMMA YieldTypes ==
  ASSUME ReplyTypes, Lengths, NEW o \in Ops, Yield(o),
         outgoing' \in [Ops -> Seq(Events)], received' \in [Ops -> Seq(Events)]
  PROVE  ReplyTypes' /\ Lengths' /\ Head(buffer[o]) \in Events
<1>1. /\ queue' = queue /\ buffer[o] # << >> /\ buffer' = [buffer EXCEPT ![o] = Tail(buffer[o])]
  BY DEF Yield
<1>2. /\ Tail(buffer[o]) \in Seq(Events) /\ Len(buffer[o]) \in Nat \ {0}
      /\ Len(Tail(buffer[o])) = Len(buffer[o]) - 1 /\ Head(buffer[o]) \in Events
  BY <1>1, TailLemma DEF ReplyTypes
<1>3. ReplyTypes'
  BY <1>1, <1>2 DEF ReplyTypes
<1>4. ASSUME NEW u \in Ops PROVE Len(queue'[u]) <= Capacity /\ Len(buffer'[u]) <= Prefetch
  <2>1. CASE u = o
    <3>1. buffer'[u] = Tail(buffer[o])
      BY <1>1, <2>1 DEF ReplyTypes
    <3>2. \A n \in Nat \ {0}, m \in Nat : n <= m => n - 1 <= m
      OBVIOUS
    <3>3. Len(Tail(buffer[o])) <= Prefetch
      BY <1>2, <3>2, ConstantsAssumption DEF Lengths
    <3>. QED BY <1>1, <3>1, <3>3 DEF Lengths
  <2>2. CASE u # o
    BY <1>1, <2>2 DEF ReplyTypes, Lengths
  <2>. QED BY <2>1, <2>2
<1>. QED BY <1>2, <1>3, <1>4 DEF Lengths

(* So does taking an event ahead, unless the buffer is full. *)
LEMMA TakeTypes ==
  ASSUME ReplyTypes, Lengths, NEW o \in Ops, TakeAhead(o)
  PROVE  ReplyTypes' /\ Lengths'
<1> DEFINE b == IF Head(queue[o])[1] = o THEN Append(buffer[o], Head(queue[o])) ELSE buffer[o]
<1>1. /\ queue[o] # << >> /\ Len(buffer[o]) < Prefetch
      /\ queue' = [queue EXCEPT ![o] = Tail(queue[o])] /\ buffer' = [buffer EXCEPT ![o] = b]
      /\ outgoing' = outgoing /\ received' = received
  BY DEF TakeAhead
<1>2. /\ Tail(queue[o]) \in Seq(Events) /\ Len(queue[o]) \in Nat \ {0}
      /\ Len(Tail(queue[o])) = Len(queue[o]) - 1 /\ Head(queue[o]) \in Events
  BY <1>1, TailLemma DEF ReplyTypes
<1>3. /\ Append(buffer[o], Head(queue[o])) \in Seq(Events) /\ Len(buffer[o]) \in Nat
      /\ Len(Append(buffer[o], Head(queue[o]))) = Len(buffer[o]) + 1
  BY <1>2, AppendLemma DEF ReplyTypes
<1>4. \A n, m \in Nat : n < m => n <= m /\ n + 1 <= m
  OBVIOUS
<1>5. \A n \in Nat \ {0}, m \in Nat : n <= m => n - 1 <= m
  OBVIOUS
<1>6. b \in Seq(Events) /\ Len(b) <= Prefetch
  <2>1. CASE Head(queue[o])[1] = o
    <3>1. b = Append(buffer[o], Head(queue[o]))
      BY <2>1
    <3>. QED BY <3>1, <1>1, <1>3, <1>4, ConstantsAssumption
  <2>2. CASE Head(queue[o])[1] # o
    BY <2>2, <1>1, <1>3, <1>4, ConstantsAssumption DEF ReplyTypes
  <2>. QED BY <2>1, <2>2
<1>7. Len(Tail(queue[o])) <= Capacity
  BY <1>2, <1>5, ConstantsAssumption DEF Lengths
<1> HIDE DEF b
<1>8. ReplyTypes'
  BY <1>1, <1>2, <1>6 DEF ReplyTypes
<1>9. ASSUME NEW u \in Ops PROVE Len(queue'[u]) <= Capacity /\ Len(buffer'[u]) <= Prefetch
  <2>1. CASE u = o
    <3>1. queue'[u] = Tail(queue[o]) /\ buffer'[u] = b
      BY <1>1, <2>1 DEF ReplyTypes
    <3>. QED BY <3>1, <1>6, <1>7
  <2>2. CASE u # o
    BY <1>1, <2>2 DEF ReplyTypes, Lengths
  <2>. QED BY <2>1, <2>2
<1>. QED BY <1>8, <1>9 DEF Lengths

(* A topic never keeps more than its capacity for a receiver. *)
LEMMA PublishTypes ==
  ASSUME ReplyTypes, Lengths, NEW e \in Events, Publish(e),
         outgoing' = outgoing, received' = received
  PROVE  ReplyTypes' /\ Lengths'
<1>1. buffer' = buffer
  BY DEF Publish
<1>2. queue' = [u \in Ops |-> IF ~sub[u] THEN queue[u]
                              ELSE IF Len(queue[u]) < Capacity THEN Append(queue[u], e)
                              ELSE Append(Tail(queue[u]), e)]
  BY DEF Publish
<1>3. \A n, m \in Nat : n < m => n + 1 <= m
  OBVIOUS
<1>4. ASSUME NEW u \in Ops PROVE queue'[u] \in Seq(Events) /\ Len(queue'[u]) <= Capacity
  <2>1. /\ queue[u] \in Seq(Events) /\ Len(queue[u]) \in Nat /\ Len(queue[u]) <= Capacity
        /\ Capacity \in Nat \ {0}
    BY ConstantsAssumption DEF ReplyTypes, Lengths
  <2>2. CASE ~sub[u]
    BY <1>2, <2>1, <2>2
  <2>3. CASE sub[u] /\ Len(queue[u]) < Capacity
    <3>1. queue'[u] = Append(queue[u], e)
      BY <1>2, <2>3
    <3>2. Append(queue[u], e) \in Seq(Events) /\ Len(Append(queue[u], e)) = Len(queue[u]) + 1
      BY <2>1, AppendLemma
    <3>. QED BY <3>1, <3>2, <1>3, <2>1, <2>3
  <2>4. CASE sub[u] /\ ~(Len(queue[u]) < Capacity)
    <3>1. queue'[u] = Append(Tail(queue[u]), e)
      BY <1>2, <2>4
    <3>2. queue[u] # << >>
      <4>1. \A n \in Nat, m \in Nat \ {0} : n <= m /\ ~(n < m) => n # 0
        OBVIOUS
      <4>2. Len(queue[u]) # 0
        BY <2>1, <2>4, <4>1
      <4>. QED BY <4>2
    <3>3. Tail(queue[u]) \in Seq(Events) /\ Len(Tail(queue[u])) = Len(queue[u]) - 1
      BY <2>1, <3>2, TailLemma
    <3>4. /\ Append(Tail(queue[u]), e) \in Seq(Events)
          /\ Len(Append(Tail(queue[u]), e)) = Len(Tail(queue[u])) + 1
      BY <3>3, AppendLemma
    <3>5. \A n \in Nat : (n - 1) + 1 = n
      OBVIOUS
    <3>. QED BY <2>1, <3>1, <3>3, <3>4, <3>5
  <2>. QED BY <2>2, <2>3, <2>4
<1>5. queue' \in [Ops -> Seq(Events)]
  BY <1>2, <1>4
<1>. QED BY <1>1, <1>4, <1>5 DEF ReplyTypes, Lengths

(* Every step keeps the third, and the lengths. *)
LEMMA ReplyTypesStep ==
  ASSUME ReplyTypes, Lengths, NEW o \in Ops,
         \/ CallStep(o) \/ WaitStep(o) \/ RouteStep(o) \/ StreamStep(o)
         \/ AgentReplies(o) \/ PeerConnects(o) \/ PeerLeaves(o)
  PROVE  ReplyTypes' /\ Lengths'
<1>1. CASE outgoing' = outgoing /\ received' = received
           /\ (DropReceiver(o) \/ (queue' = queue /\ buffer' = buffer))
  BY <1>1, TopicTypes DEF ReplyTypes
<1>2. CASE CallStep(o)
  <2>1. CASE Request(o) \/ NotAcked(o) \/ AckTimesOut(o)
    BY <1>1, <2>1 DEF Request, NotAcked, AckTimesOut
  <2>2. CASE Acked(o)
    BY <2>2, YieldTypes DEF Acked, ReplyTypes
  <2>3. CASE TakeAhead(o)
    BY <2>3, TakeTypes
  <2>. QED BY <1>2, <2>1, <2>2, <2>3 DEF CallStep
<1>3. CASE WaitStep(o)
  BY <1>1, <1>3 DEF WaitStep, StreamAt, Unconnected, Remove, topic
<1>4. CASE RouteStep(o)
  BY <1>1, <1>4 DEF RouteStep, Accept, OnRequest, HandOver, HandshakeFails, topic
<1>5. CASE StreamStep(o)
  <2>1. CASE Forward(o)
    <3>1. Head(buffer[o]) \in Events
      BY <2>1, TailLemma DEF Forward, Yield, ReplyTypes
    <3>2. Append(outgoing[o], Head(buffer[o])) \in Seq(Events)
      BY <3>1, AppendLemma DEF ReplyTypes
    <3>3. outgoing' = [outgoing EXCEPT ![o] = Append(outgoing[o], Head(buffer[o]))]
          /\ received' = received /\ Yield(o)
      BY <2>1 DEF Forward
    <3>. QED BY <3>2, <3>3, YieldTypes DEF ReplyTypes
  <2>2. CASE Download(o)
    <3>1. Head(buffer[o]) \in Events
      BY <2>2, TailLemma DEF Download, Yield, ReplyTypes
    <3>2. Append(received[o], Head(buffer[o])) \in Seq(Events)
      BY <3>1, AppendLemma DEF ReplyTypes
    <3>3. received' \in [Ops -> Seq(Events)]
      BY <2>2, <3>2 DEF Download, ReplyTypes
    <3>4. outgoing' = outgoing /\ Yield(o)
      BY <2>2 DEF Download
    <3>. QED BY <3>3, <3>4, YieldTypes DEF ReplyTypes
  <2>3. CASE Cancel(o) \/ StreamEnds(o) \/ PeerGone(o) \/ Inactive(o) \/ WriterCloses(o)
    BY <1>1, <2>3 DEF Cancel, StreamEnds, PeerGone, Inactive, WriterCloses, topic
  <2>4. CASE WriterSends(o)
    <3>1. Head(outgoing[o]) \in Events /\ Tail(outgoing[o]) \in Seq(Events)
      BY <2>4, TailLemma DEF WriterSends, ReplyTypes
    <3>2. Append(received[o], Head(outgoing[o])) \in Seq(Events)
      BY <3>1, AppendLemma DEF ReplyTypes
    <3>3. received' \in [Ops -> Seq(Events)]
      BY <2>4, <3>2 DEF WriterSends, ReplyTypes
    <3>4. outgoing' \in [Ops -> Seq(Events)]
      BY <2>4, <3>1 DEF WriterSends, ReplyTypes
    <3>5. queue' = queue /\ buffer' = buffer
      BY <2>4 DEF WriterSends, topic
    <3>. QED BY <3>3, <3>4, <3>5, TopicTypes
  <2>. QED BY <1>5, <2>1, <2>2, <2>3, <2>4 DEF StreamStep
<1>6. CASE PeerConnects(o) \/ PeerLeaves(o)
  BY <1>1, <1>6 DEF PeerConnects, PeerLeaves, topic
<1>7. CASE AgentReplies(o)
  <2>1. PICK i \in 0..Terminal : Publish(<<o, i>>)
    BY <1>7 DEF AgentReplies
  <2>2. <<o, i>> \in Events
    BY DEF Events
  <2>. QED BY <1>7, <2>1, <2>2, PublishTypes DEF AgentReplies
<1>. QED BY <1>2, <1>3, <1>4, <1>5, <1>6, <1>7

(* Every step keeps the types. *)
LEMMA TypeStep ==
  ASSUME TypeOK, \A u \in Ops : OpInv(u), [Next]_vars
  PROVE  TypeOK'
<1>1. CASE UNCHANGED vars
  BY <1>1 DEF vars, TypeOK
<1>2. CASE Next
  <2>1. PICK o \in Ops : \/ CallStep(o) \/ WaitStep(o) \/ RouteStep(o) \/ StreamStep(o)
                         \/ AgentReplies(o) \/ PeerConnects(o) \/ PeerLeaves(o)
    BY <1>2 DEF Next
  <2>2. StateTypes /\ RouteTypes /\ ReplyTypes /\ Lengths
    BY TypeParts
  <2>3. StateTypes'
    BY <2>1, <2>2, StateTypesStep
  <2>4. RouteTypes'
    BY <2>1, <2>2, RouteTypesStep
  <2>5. ReplyTypes' /\ Lengths'
    BY <2>1, <2>2, ReplyTypesStep
  <2>. QED BY <2>3, <2>4, <2>5 DEF TypeOK, StateTypes, RouteTypes, ReplyTypes, Lengths
<1>. QED BY <1>1, <1>2

-----------------------------------------------------------------------------
(* Theorems                                                                *)

(* The invariant holds initially. *)
LEMMA InitLemma == Init => IInv
<1> SUFFICES ASSUME Init PROVE IInv
  OBVIOUS
<1>1. StateTypes
  <2>1. 0 \in 0..(Terminal + 1)
    BY NumbersLemma
  <2>. QED BY <2>1 DEF Init, StateTypes
<1>2. RouteTypes
  BY DEF Init, RouteTypes, Idle
<1>3. << >> \in Seq(Events) /\ Len(<< >>) = 0
  OBVIOUS
<1>4. ReplyTypes
  BY <1>3 DEF Init, ReplyTypes
<1>5. Lengths
  <2>1. Len(<< >>) <= Capacity /\ Len(<< >>) <= Prefetch
    BY <1>3, ConstantsAssumption
  <2>. QED BY <2>1 DEF Init, Lengths
<1>6. RouterInv
  BY DEF Init, RouterInv, Idle
<1>7. ASSUME NEW o \in Ops PROVE OpInv(o)
  <2>1. Stages(o)
    BY DEF Init, Stages, StageInv, SocketInv, BodyInv
  <2>2. FuseInv(o) /\ CompleteInv(o)
    BY DEF Init, FuseInv, CompleteInv, Whole
  <2>3. OrderInv(o)
    BY OrderedEmpty DEF Init, OrderInv
  <2>. QED BY <2>1, <2>2, <2>3 DEF OpInv, Stages
<1>8. TypeOK
  BY <1>1, <1>2, <1>4, <1>5, TypeParts
<1>. QED BY <1>6, <1>7, <1>8 DEF IInv

(* The inductive invariant holds of every reachable state. *)
THEOREM Invariance == Spec => []IInv
<1>1. Init => IInv
  BY InitLemma
<1>2. IInv /\ [Next]_vars => IInv'
  <2> SUFFICES ASSUME IInv, [Next]_vars PROVE IInv'
    OBVIOUS
  <2>1. TypeOK'
    BY TypeStep DEF IInv
  <2>2. RouterInv'
    BY RouterStep DEF IInv
  <2>3. \A o \in Ops : OpInv(o)'
    BY OpStep DEF IInv
  <2>. QED BY <2>1, <2>2, <2>3 DEF IInv
<1>. QED BY <1>1, <1>2, PTL DEF Spec

(* Every variable keeps its type; in particular a topic never holds more    *)
(* than Capacity events for a receiver, nor a stream more than Prefetch     *)
(* replies (TOPIC_CAPACITY and buffered(20) in events/broker.rs).           *)
THEOREM TypeCorrectness == Spec => []TypeOK
<1>1. IInv => TypeOK
  BY DEF IInv
<1>. QED BY <1>1, Invariance, PTL

(* No reply slips through between the Ack that ack_or_timeout takes from    *)
(* the stream, the registration by stream_at and the hand-over of the       *)
(* WebSocket by route, unless the receiver lagged.                          *)
THEOREM NothingMissingTheorem == Spec => []NothingMissing
<1>1. IInv => NothingMissing
  <2> SUFFICES ASSUME IInv, NEW o \in Ops \ Downloads,
                      ~lagged[o], stream[o] \in {"spawned", "waiting", "connected"}, peer[o] # "left"
               PROVE  LET ahead == received[o] \o outgoing[o] \o buffer[o]
                      IN  /\ ahead = [i \in 1..Len(ahead) |-> <<o, i>>]
                          /\ Holds(queue[o], o, Len(ahead) + 1, sent[o])
    BY DEF NothingMissing
  <2> DEFINE r == received[o]
             g == outgoing[o]
             b == buffer[o]
  <2>1. TypeOK /\ OpInv(o) /\ o \in Ops
    BY DEF IInv
  <2>2. op[o] = "acked" /\ sub[o]
    BY <2>1 DEF OpInv, StageInv
  <2>3. Complete(o)
    <3>1. Whole(o)
      BY <2>2 DEF Whole
    <3>2. ~FailedAtOnce(o)
      BY <2>2 DEF FailedAtOnce
    <3>. QED BY <2>1, <3>1, <3>2 DEF OpInv, CompleteInv
  <2>4. /\ r \in Seq(Events) /\ g \in Seq(Events) /\ b \in Seq(Events)
    BY <2>1, TypedLemma DEF Typed
  <2>5. Len(r) \in Nat /\ Len(g) \in Nat /\ Len(b) \in Nat
    BY <2>1, TakenLemma
  <2>6. Taken(o) = 1 + Len(r) + Len(g)
    BY <2>2 DEF Taken
  <2>7. /\ Run(r, o, 1) /\ Run(g, o, Len(r) + 1) /\ Run(b, o, 1 + Len(r) + Len(g))
        /\ Holds(queue[o], o, (1 + Len(r) + Len(g)) + Len(b), sent[o])
    BY <2>3, <2>6 DEF Complete
  <2> HIDE DEF r, g, b
  <2>8. /\ r \o g \in Seq(Events) /\ Len(r \o g) = Len(r) + Len(g)
    BY <2>4
  <2>9. /\ (r \o g) \o b \in Seq(Events) /\ Len((r \o g) \o b) = (Len(r) + Len(g)) + Len(b)
    BY <2>4, <2>8
  <2>10. Run(r \o g, o, 1)
    <3>1. Len(r) + 1 = 1 + Len(r)
      BY <2>5
    <3>. QED BY <2>4, <2>7, <3>1, RunConcat
  <2>11. Run((r \o g) \o b, o, 1)
    <3>1. 1 + Len(r) + Len(g) = 1 + Len(r \o g)
      BY <2>5, <2>8
    <3>. QED BY <2>4, <2>7, <2>8, <2>10, <3>1, RunConcat
  <2>12. (r \o g) \o b = [i \in 1..Len((r \o g) \o b) |-> <<o, i>>]
    <3> DEFINE a == (r \o g) \o b
    <3>1. a \in Seq(Events) /\ Run(a, o, 1)
      BY <2>9, <2>11
    <3> HIDE DEF a
    <3>2. \A i \in 1..Len(a) : a[i] = <<o, i>>
      <4>1. \A i \in 1..Len(a) : 1 + i - 1 = i
        OBVIOUS
      <4>. QED BY <3>1, <4>1 DEF Run
    <3>3. a = [i \in 1..Len(a) |-> a[i]]
      BY <3>1
    <3>4. a = [i \in 1..Len(a) |-> <<o, i>>]
      BY <3>2, <3>3
    <3>. QED BY <3>4 DEF a
  <2>13. Holds(queue[o], o, Len((r \o g) \o b) + 1, sent[o])
    <3>1. (1 + Len(r) + Len(g)) + Len(b) = Len((r \o g) \o b) + 1
      BY <2>5, <2>9
    <3>. QED BY <2>7, <3>1
  <2>. QED BY <2>12, <2>13 DEF r, g, b
<1>. QED BY <1>1, Invariance, PTL

(* A stream that fuse_agent_response_stream ends has delivered the terminal *)
(* reply by the time the writer task closes the WebSocket.                  *)
THEOREM ClosedAfterTerminalTheorem == Spec => []ClosedAfterTerminal
<1>1. IInv => ClosedAfterTerminal
  <2> SUFFICES ASSUME IInv, NEW o \in Ops \ Downloads, stream[o] = "fused", peer[o] = "closed"
               PROVE  received[o] # << >> /\ received[o][Len(received[o])] = <<o, Terminal>>
    BY DEF ClosedAfterTerminal
  <2>1. OpInv(o)
    BY DEF IInv
  <2>2. fuse[o] = "cancelled" /\ outgoing[o] = << >>
    BY <2>1 DEF OpInv, StageInv, SocketInv
  <2>. QED BY <2>1, <2>2 DEF OpInv, FuseInv
<1>. QED BY <1>1, Invariance, PTL

(* A download whose response ends normally has all its bytes, in order,     *)
(* unless its receiver lagged.                                              *)
THEOREM DownloadWholeTheorem == Spec => []DownloadWhole
<1>1. IInv => DownloadWhole
  <2> SUFFICES ASSUME IInv, NEW o \in Downloads, peer[o] = "closed", ~lagged[o]
               PROVE  received[o] = [i \in 1..Ongoing |-> <<o, i>>]
    BY DEF DownloadWhole
  <2>1. o \in Ops /\ OpInv(o) /\ TypeOK
    BY ConstantsAssumption DEF IInv
  <2>2. fuse[o] = "cancelled"
    BY <2>1 DEF OpInv, BodyInv
  <2>3. Run(received[o], o, 1) /\ Len(received[o]) = Ongoing
    BY <2>1, <2>2 DEF OpInv, FuseInv
  <2>4. received[o] \in Seq(Events)
    BY <2>1, TypedLemma DEF Typed
  <2> DEFINE a == received[o]
  <2> HIDE DEF a
  <2>5. a \in Seq(Events) /\ Run(a, o, 1) /\ Len(a) = Ongoing
    BY <2>3, <2>4 DEF a
  <2>6. \A i \in 1..Len(a) : a[i] = <<o, i>>
    <3>1. \A i \in 1..Len(a) : 1 + i - 1 = i
      OBVIOUS
    <3>. QED BY <2>5, <3>1 DEF Run
  <2>7. a = [i \in 1..Len(a) |-> a[i]]
    BY <2>5
  <2>8. a = [i \in 1..Ongoing |-> <<o, i>>]
    BY <2>5, <2>6, <2>7
  <2>. QED BY <2>8 DEF a
<1>. QED BY <1>1, Invariance, PTL

=============================================================================
