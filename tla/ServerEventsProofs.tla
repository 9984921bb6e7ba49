------------------------- MODULE ServerEventsProofs --------------------------
(***************************************************************************)
(* Proofs about ServerEvents for any scripts, connections, channel         *)
(* capacities and failures: a line that nothing has dropped is where its   *)
(* kind asks for, or in a queue that leads there; and while no connection  *)
(* has outlived its replacement, Discord and a browser get lines in order, *)
(* each once.                                                              *)
(***************************************************************************)
EXTENDS ServerEvents, WellFoundedInduction, FiniteSetTheorems, TLAPS

-----------------------------------------------------------------------------
(* The inductive invariant                                                 *)

(* A connection's task publishes a line it has tagged. *)
LineTagged ==
  \A c \in Conns : topics[c] # {} => line[c] \in Lines /\ topics[c] \subseteq Tags(Kind(line[c]))

(* A connection that reads no more has nothing left on its bus, and a bus   *)
(* is in the order printed.                                                 *)
BusInOrder ==
  \A c \in Conns :
    /\ bus[c] # << >> => Live(c)
    /\ Ordered(bus[c])
    /\ topics[c] # {} => \A m \in ToSet(bus[c]) : line[c] < m

(* Only one connection at a time publishes. *)
Active(c) == Live(c) \/ topics[c] # {}
Alone == \A c, d \in Conns : Active(c) /\ Active(d) => c = d

(* What is still to come to a subscriber. *)
InFront(t) == {n \in Lines : Ahead(n, t)}
ToCome(s) == ToSet(queue[s]) \cup InFront(TopicOf[s])

Below(S, T) == \A a \in S, b \in T : a < b
OrdIn(q, S) == \A i, j \in 1..Len(q) : i < j /\ q[i] \in S /\ q[j] \in S => q[i] < q[j]
OfKind(K) == {n \in Nat : Kind(n) \in K}

(* A queue holds what is tagged for its topic, ...                          *)
QueueTagged == \A s \in Subscribers : \A n \in ToSet(queue[s]) : TopicOf[s] \in Tags(Kind(n))

(* ... in order, and before what is still ahead of the broker.              *)
QueueInOrder ==
  \A s \in Subscribers : Ordered(queue[s]) /\ Below(ToSet(queue[s]), InFront(TopicOf[s]))

(* What a subscriber has taken comes before what is still to come to it.    *)
StoredFirst == Below(db, ToCome("ingest"))

(* A channel q to Discord with what was posted from it, p, of the lines in  *)
(* S: in order, and before what is still to come to its source.             *)
InChannel(p, q, S, coming) ==
  /\ OrdIn(p, S) /\ OrdIn(q, S)
  /\ Below(ToSet(p) \cap S, ToSet(q) \cap S)
  /\ Below((ToSet(p) \cup ToSet(q)) \cap S, coming)

PlainSources == {<<{"join"}, "g2d_join">>, <<{"leave"}, "g2d_leave">>, <<StateKinds, "g2d_state">>}

DiscordOrder ==
  /\ InChannel(posted["webhook"], webhook, Nat, ToCome("g2d_chat"))
  /\ \A p \in PlainSources : InChannel(posted["say"], say, OfKind(p[1]), ToCome(p[2]))

(* The end of a save is not in the channel of plain messages. *)
NoSaves == \A n \in ToSet(posted["say"]) \cup ToSet(say) : Kind(n) # "saved"

(* An alert is in one place. *)
Handling == {h[1] : h \in handling}
AlertsOnce ==
  /\ \A g, h \in handling : g[1] = h[1] => g = h
  /\ IsInjective(posted["alert"]) /\ IsInjective(alert)
  /\ ToSet(posted["alert"]) \cap ToSet(alert) = {}
  /\ (ToSet(posted["alert"]) \cup ToSet(alert)) \cap Handling = {}
  /\ (ToSet(posted["alert"]) \cup ToSet(alert) \cup Handling) \cap ToCome("rpc") = {}

(* The browser's marker and stream. *)
ViewerOrder ==
  /\ viewer # "streaming" => seen = << >> /\ queue[Viewer] = << >>
  /\ viewer # "none" => /\ marker \in db \cup {NoMarker}
                        /\ category \in Stored
                        /\ Below({marker}, ToSet(seen) \cup ToCome(Viewer))
  /\ Ordered(seen) /\ Below(ToSet(seen), ToCome(Viewer))
  /\ viewer # "none" /\ ~lagged[Viewer] =>
       \A n \in Of(category, Lines) \ lost : ~Ahead(n, "stdout") =>
         /\ n <= marker => n \in db
         /\ viewer = "streaming" /\ n \notin early => n \in ToSet(seen) \cup ToSet(queue[Viewer])

IInv ==
  /\ TypeOK /\ LineTagged /\ NothingVanishes /\ BusInOrder /\ QueueTagged /\ NoSaves
  /\ ~overlap => Alone /\ QueueInOrder /\ StoredFirst /\ DiscordOrder /\ AlertsOnce /\ ViewerOrder

-----------------------------------------------------------------------------
(* Channels                                                                *)

(* The elements of a sequence. *)
LEMMA ToSetIs ==
  ASSUME NEW S, NEW s \in Seq(S)
  PROVE  /\ ToSet(s) \subseteq S
         /\ \A x : x \in ToSet(s) <=> \E i \in 1..Len(s) : s[i] = x
BY DEF ToSet

(* A sequence over a set is one over any larger set. *)
LEMMA SeqWider ==
  ASSUME NEW S, NEW T, S \subseteq T, NEW s \in Seq(S)
  PROVE  s \in Seq(T)
<1>1. Len(s) \in Nat /\ s \in [1..Len(s) -> S] OBVIOUS
<1>2. s \in [1..Len(s) -> T] BY <1>1
<1> QED BY <1>1, <1>2

(* The empty sequence. *)
LEMMA EmptySet == ToSet(<< >>) = {}
BY DEF ToSet

(* What is appended is added. *)
LEMMA AppendSet ==
  ASSUME NEW S, NEW s \in Seq(S), NEW x \in S
  PROVE  Append(s, x) \in Seq(S) /\ ToSet(Append(s, x)) = ToSet(s) \cup {x}
<1> DEFINE t == Append(s, x)
<1>1. /\ t \in Seq(S) /\ Len(t) = Len(s) + 1 /\ t[Len(s) + 1] = x /\ Len(s) \in Nat
      /\ \A i \in 1..Len(s) : t[i] = s[i]
  OBVIOUS
<1> HIDE DEF t
<1>2. \A i \in 1..Len(t) : i = Len(s) + 1 \/ (i \in 1..Len(s) /\ t[i] = s[i]) BY <1>1
<1>3. \A i \in 1..Len(s) : i \in 1..Len(t) /\ t[i] = s[i] BY <1>1
<1>4. Len(s) + 1 \in 1..Len(t) BY <1>1
<1>5. \A y : y \in ToSet(t) <=> y \in ToSet(s) \/ y = x
  BY <1>1, <1>2, <1>3, <1>4, ToSetIs
<1> QED BY <1>1, <1>5 DEF t

(* What is taken from the front is the head. *)
LEMMA TailSet ==
  ASSUME NEW S, NEW s \in Seq(S), s # << >>
  PROVE  /\ Tail(s) \in Seq(S) /\ Head(s) \in S /\ Len(Tail(s)) = Len(s) - 1
         /\ ToSet(s) = ToSet(Tail(s)) \cup {Head(s)}
<1> DEFINE t == Tail(s)
<1>1. /\ t \in Seq(S) /\ Len(t) = Len(s) - 1 /\ \A i \in 1..Len(t) : t[i] = s[i + 1]
      /\ Len(s) \in Nat \ {0} /\ Head(s) = s[1] /\ s[1] \in S
  OBVIOUS
<1> HIDE DEF t
<1>2. \A i \in 1..Len(t) : i + 1 \in 1..Len(s) /\ t[i] = s[i + 1] BY <1>1
<1>3. ASSUME NEW i \in 1..Len(s) PROVE i = 1 \/ (i - 1 \in 1..Len(t) /\ t[i - 1] = s[i])
  <2>1. CASE i = 1 BY <2>1
  <2>2. CASE i # 1
    <3>1. i - 1 \in 1..Len(t) /\ (i - 1) + 1 = i BY <1>1, <2>2
    <3> QED BY <1>1, <3>1
  <2> QED BY <2>1, <2>2
<1>4. \A y : y \in ToSet(s) <=> y \in ToSet(t) \/ y = Head(s)
  <2>1. ASSUME NEW y, y \in ToSet(s) PROVE y \in ToSet(t) \/ y = Head(s)
    BY <1>1, <1>3, <2>1, ToSetIs
  <2>2. ASSUME NEW y, y \in ToSet(t) \/ y = Head(s) PROVE y \in ToSet(s)
    <3>1. CASE y = Head(s) BY <1>1, <3>1, ToSetIs
    <3>2. CASE y \in ToSet(t) BY <1>1, <1>2, <3>2, ToSetIs
    <3> QED BY <2>2, <3>1, <3>2
  <2> QED BY <2>1, <2>2
<1> QED BY <1>1, <1>4 DEF t

(* A broadcast channel holds the new event, and of the old ones all but the *)
(* one it has dropped; it never outgrows its capacity.                      *)
LEMMA PushSet ==
  ASSUME NEW S, NEW q \in Seq(S), NEW n \in S, NEW cap \in Nat \ {0}, Len(q) <= cap
  PROVE  /\ Push(q, n, cap) \in Seq(S) /\ Len(Push(q, n, cap)) <= cap
         /\ Dropped(q, cap) \subseteq ToSet(q)
         /\ n \in ToSet(Push(q, n, cap))
         /\ ToSet(q) \subseteq ToSet(Push(q, n, cap)) \cup Dropped(q, cap)
         /\ ToSet(Push(q, n, cap)) \subseteq ToSet(q) \cup {n}
<1> DEFINE b == IF Len(q) < cap THEN q ELSE Tail(q)
<1>0. Len(q) \in Nat OBVIOUS
<1>1. CASE Len(q) < cap
  <2>1. Append(q, n) \in Seq(S) /\ ToSet(Append(q, n)) = ToSet(q) \cup {n} BY AppendSet
  <2>2. Len(Append(q, n)) = Len(q) + 1 OBVIOUS
  <2>3. Push(q, n, cap) = Append(q, n) /\ Dropped(q, cap) = {} BY <1>1 DEF Push, Dropped
  <2> QED BY <1>0, <1>1, <2>1, <2>2, <2>3
<1>2. CASE ~(Len(q) < cap)
  <2>1. q # << >> BY <1>0, <1>2
  <2>2. /\ Tail(q) \in Seq(S) /\ Head(q) \in S /\ Len(Tail(q)) = Len(q) - 1
        /\ ToSet(q) = ToSet(Tail(q)) \cup {Head(q)}
    BY <2>1, TailSet
  <2>3. Push(q, n, cap) = Append(Tail(q), n) /\ Dropped(q, cap) = {Head(q)}
    BY <1>2 DEF Push, Dropped
  <2> DEFINE t == Tail(q)
  <2> HIDE DEF t
  <2>4. t \in Seq(S) BY <2>2 DEF t
  <2>5. /\ Append(t, n) \in Seq(S) /\ ToSet(Append(t, n)) = ToSet(t) \cup {n} BY <2>4, AppendSet
  <2>6. Len(Append(t, n)) = Len(t) + 1 BY <2>4
  <2>7. Len(Append(t, n)) <= cap BY <1>0, <2>2, <2>6 DEF t
  <2> QED BY <2>2, <2>3, <2>5, <2>7 DEF t
<1> QED BY <1>1, <1>2

(* The last of the stored records is one of them. *)
LEMMA LatestIs ==
  ASSUME NEW k \in Nat, NEW S \in SUBSET (1..k)
  PROVE  /\ Latest(S) \in S \cup {NoMarker}
         /\ \A m \in S : Latest(S) \in S /\ m <= Latest(S)
<1>1. CASE S = {} BY <1>1 DEF Latest
<1>2. CASE S # {}
  <2> DEFINE After(m) == {j \in S : j > m}
             F == {After(m) : m \in S}
  <2>1. IsFiniteSet(S)
    <3>1. IsFiniteSet(1..k) BY FS_Interval
    <3> QED BY <3>1, FS_Subset
  <2>2. F \subseteq FiniteSubsetsOf(S) /\ F # {}
    <3>1. \A m \in S : After(m) \in SUBSET S OBVIOUS
    <3>2. \A m \in S : IsFiniteSet(After(m)) BY <2>1, <3>1, FS_Subset
    <3> QED BY <1>2, <3>1, <3>2 DEF FiniteSubsetsOf
  <2>3. PICK U \in F : \A V \in F : <<V, U>> \notin StrictSubsetOrdering(S)
    <3> HIDE DEF F
    <3> QED BY <2>2, FS_StrictSubsetOrderingWellFounded, WFMin
  <2>4. PICK n \in S : U = After(n) BY <2>3
  <2>5. ASSUME NEW m \in S PROVE m <= n
    <3>1. m \in Nat /\ n \in Nat OBVIOUS
    <3>2. SUFFICES ASSUME m > n PROVE FALSE BY <3>1
    <3>3. After(m) \subseteq After(n) /\ m \in After(n) /\ m \notin After(m)
      <4>1. \A j \in S : j > m => j > n BY <3>1, <3>2
      <4>2. ~(m > m) BY <3>1
      <4> QED BY <3>2, <4>1, <4>2
    <3>4. After(m) \in F OBVIOUS
    <3>5. After(m) \in SUBSET S /\ After(n) \in SUBSET S OBVIOUS
    <3>6. After(m) # After(n) BY <3>3
    <3> HIDE DEF After, F
    <3>7. <<After(m), After(n)>> \in StrictSubsetOrdering(S)
      BY <3>3, <3>5, <3>6 DEF StrictSubsetOrdering
    <3> QED BY <2>3, <2>4, <3>4, <3>7
  <2>6. Latest(S) \in S /\ \A m \in S : m <= Latest(S) BY <1>2, <2>5 DEF Latest
  <2> QED BY <2>6
<1> QED BY <1>1, <1>2

(* Order among the members of S. *)
LEMMA OrderedIs ==
  ASSUME NEW q \in Seq(Nat)
  PROVE  Ordered(q) <=> OrdIn(q, Nat)
<1>1. \A i \in 1..Len(q) : q[i] \in Nat OBVIOUS
<1> QED BY <1>1 DEF Ordered, OrdIn

(* What is larger can be appended. *)
LEMMA OrdAppend ==
  ASSUME NEW S, NEW q \in Seq(Nat), NEW x \in Nat, OrdIn(q, S), Below(ToSet(q) \cap S, {x} \cap S)
  PROVE  OrdIn(Append(q, x), S)
<1> DEFINE t == Append(q, x)
<1>1. /\ Len(t) = Len(q) + 1 /\ t[Len(q) + 1] = x /\ Len(q) \in Nat
      /\ \A i \in 1..Len(q) : t[i] = q[i]
  OBVIOUS
<1> HIDE DEF t
<1>2. SUFFICES ASSUME NEW i \in 1..Len(t), NEW j \in 1..Len(t), i < j, t[i] \in S, t[j] \in S
               PROVE  t[i] < t[j]
  BY DEF OrdIn, t
<1>3. i \in 1..Len(q) /\ t[i] = q[i] BY <1>1, <1>2
<1>4. CASE j \in 1..Len(q)
  <2>1. t[j] = q[j] BY <1>1, <1>4
  <2> QED BY <1>2, <1>3, <1>4, <2>1 DEF OrdIn
<1>5. CASE j \notin 1..Len(q)
  <2>1. t[j] = x BY <1>1, <1>5
  <2>2. q[i] \in ToSet(q) BY <1>3, ToSetIs
  <2> QED BY <1>2, <1>3, <2>1, <2>2 DEF Below
<1> QED BY <1>4, <1>5

(* The head comes before the tail. *)
LEMMA OrdTail ==
  ASSUME NEW S, NEW q \in Seq(Nat), q # << >>, OrdIn(q, S)
  PROVE  OrdIn(Tail(q), S) /\ Below({Head(q)} \cap S, ToSet(Tail(q)) \cap S)
<1> DEFINE t == Tail(q)
<1>1. /\ t \in Seq(Nat) /\ Len(t) = Len(q) - 1 /\ \A i \in 1..Len(t) : t[i] = q[i + 1]
      /\ Len(q) \in Nat \ {0} /\ Head(q) = q[1]
  OBVIOUS
<1> HIDE DEF t
<1>2. \A i \in 1..Len(t) : i \in Nat /\ i + 1 \in 1..Len(q) /\ t[i] = q[i + 1] /\ 1 < i + 1 BY <1>1
<1>3. OrdIn(t, S)
  <2> SUFFICES ASSUME NEW i \in 1..Len(t), NEW j \in 1..Len(t), i < j, t[i] \in S, t[j] \in S
               PROVE  t[i] < t[j]
    BY DEF OrdIn
  <2>1. i + 1 < j + 1 BY <1>2
  <2> QED BY <1>2, <2>1 DEF OrdIn
<1>4. ASSUME NEW b \in ToSet(t), b \in S, Head(q) \in S PROVE Head(q) < b
  <2>1. PICK i \in 1..Len(t) : t[i] = b BY <1>1, ToSetIs
  <2>2. 1 \in 1..Len(q) BY <1>1
  <2> QED BY <1>1, <1>2, <1>4, <2>1, <2>2 DEF OrdIn
<1> QED BY <1>3, <1>4 DEF t, Below

(* A channel that drops its oldest event stays in order. *)
LEMMA OrderedPush ==
  ASSUME NEW q \in Seq(Nat), NEW n \in Nat, NEW cap \in Nat \ {0}, Len(q) <= cap, Ordered(q),
         Below(ToSet(q), {n})
  PROVE  Ordered(Push(q, n, cap))
<1>0. OrdIn(q, Nat) BY OrderedIs
<1>1. CASE Len(q) < cap
  <2>1. Below(ToSet(q) \cap Nat, {n} \cap Nat) BY DEF Below
  <2>2. OrdIn(Append(q, n), Nat) /\ Append(q, n) \in Seq(Nat) BY <1>0, <2>1, OrdAppend, AppendSet
  <2> QED BY <1>1, <2>2, OrderedIs DEF Push
<1>2. CASE ~(Len(q) < cap)
  <2>1. q # << >> BY <1>2
  <2> DEFINE t == Tail(q)
  <2>2. t \in Seq(Nat) /\ OrdIn(t, Nat) /\ ToSet(t) \subseteq ToSet(q) BY <1>0, <2>1, OrdTail, TailSet
  <2>3. Push(q, n, cap) = Append(t, n) BY <1>2 DEF Push
  <2> HIDE DEF t
  <2>4. Below(ToSet(t) \cap Nat, {n} \cap Nat) BY <2>2 DEF Below
  <2>5. OrdIn(Append(t, n), Nat) /\ Append(t, n) \in Seq(Nat) BY <2>2, <2>4, OrdAppend, AppendSet
  <2> QED BY <2>3, <2>5, OrderedIs
<1> QED BY <1>1, <1>2

(* Sequences without repetition. *)
LEMMA InjAppend ==
  ASSUME NEW S, NEW q \in Seq(S), NEW x \in S, IsInjective(q), x \notin ToSet(q)
  PROVE  IsInjective(Append(q, x))
<1> DEFINE t == Append(q, x)
<1>1. /\ DOMAIN t = 1..(Len(q) + 1) /\ t[Len(q) + 1] = x /\ Len(q) \in Nat /\ DOMAIN q = 1..Len(q)
      /\ \A i \in 1..Len(q) : t[i] = q[i]
  OBVIOUS
<1> HIDE DEF t
<1>2. \A i \in DOMAIN t : i = Len(q) + 1 \/ (i \in 1..Len(q) /\ t[i] = q[i]) BY <1>1
<1>3. \A i \in 1..Len(q) : q[i] # x BY ToSetIs
<1>4. \A i, j \in DOMAIN t : t[i] = t[j] => i = j BY <1>1, <1>2, <1>3 DEF IsInjective
<1> QED BY <1>4 DEF t, IsInjective

(* The head of one is not in its tail. *)
LEMMA InjTail ==
  ASSUME NEW S, NEW q \in Seq(S), q # << >>, IsInjective(q)
  PROVE  IsInjective(Tail(q)) /\ Head(q) \notin ToSet(Tail(q))
<1> DEFINE t == Tail(q)
<1>1. /\ t \in Seq(S) /\ Len(t) = Len(q) - 1 /\ \A i \in 1..Len(t) : t[i] = q[i + 1]
      /\ Len(q) \in Nat \ {0} /\ Head(q) = q[1] /\ DOMAIN q = 1..Len(q) /\ DOMAIN t = 1..Len(t)
  OBVIOUS
<1> HIDE DEF t
<1>2. \A i \in 1..Len(t) : i \in Nat /\ i + 1 \in 1..Len(q) /\ t[i] = q[i + 1] /\ 1 # i + 1 BY <1>1
<1>3. \A i, j \in DOMAIN t : t[i] = t[j] => i = j
  <2> SUFFICES ASSUME NEW i \in 1..Len(t), NEW j \in 1..Len(t), t[i] = t[j] PROVE i = j BY <1>1
  <2>1. i + 1 = j + 1 BY <1>1, <1>2 DEF IsInjective
  <2> QED BY <1>2, <2>1
<1>4. \A i \in 1..Len(t) : t[i] # Head(q)
  <2>1. 1 \in 1..Len(q) BY <1>1
  <2> QED BY <1>1, <1>2, <2>1 DEF IsInjective
<1>5. Head(q) \notin ToSet(t) BY <1>1, <1>4, ToSetIs
<1> QED BY <1>3, <1>5 DEF t, IsInjective

-----------------------------------------------------------------------------
(* Types                                                                   *)

(* The subscribers, one by one. *)
LEMMA SubscriberNames ==
  /\ Tasks = {"g2d_chat", "g2d_join", "g2d_leave", "g2d_state", "ingest", "rpc"}
  /\ Subscribers = Tasks \cup {Viewer}
<1>1. DOMAIN Startup = {1, 2, 3, 4, 5, 6} BY DEF Startup
<1>2. Tasks = {Startup[1], Startup[2], Startup[3], Startup[4], Startup[5], Startup[6]}
  BY <1>1 DEF Tasks, ToSet
<1>3. /\ Startup[1] = "g2d_chat" /\ Startup[2] = "g2d_join" /\ Startup[3] = "g2d_leave"
      /\ Startup[4] = "g2d_state" /\ Startup[5] = "ingest" /\ Startup[6] = "rpc"
  BY DEF Startup
<1> QED BY <1>2, <1>3 DEF Subscribers

(* Every kind of line is tagged for topics that exist. *)
LEMMA TagsAreTopics ==
  ASSUME NEW k \in Kinds
  PROVE  Tags(k) \in SUBSET Topics
BY DEF Kinds, Tags, Topics

(* The kind of a line that was printed. *)
LEMMA LineKind ==
  ASSUME TypeOK, NEW n \in Lines
  PROVE  Kind(n) \in Kinds
<1>1. script \in Seq(Kinds) BY ConstantsAssumption DEF TypeOK
<1>2. n \in 1..Len(script) BY <1>1 DEF TypeOK, Lines
<1> QED BY <1>1, <1>2 DEF Kind

(* The numbers of lines that were printed stay numbers of lines. *)
LEMMA LinesGrow ==
  ASSUME TypeOK, printed' = printed \/ printed' = printed + 1
  PROVE  Lines \subseteq Lines' /\ printed' \in Nat /\ (printed' = printed + 1 => printed' \in Lines')
<1>1. printed \in Nat BY ConstantsAssumption DEF TypeOK
<1> QED BY <1>1 DEF Lines

(* A step by which the server prints nothing keeps the types if it keeps    *)
(* those of the variables it changes.                                       *)
LEMMA TypeStep ==
  ASSUME TypeOK, LineTagged, [Next]_vars
  PROVE  TypeOK'
<1> USE DEF source, link, broker, store, discord, browser
<1>0. printed \in Nat /\ trouble \in Nat /\ MaxTrouble[script] \in Nat /\ BusCapacity \in Nat \ {0}
      /\ Capacity \in Nat \ {0}
  BY ConstantsAssumption DEF TypeOK
<1>a. NewTrouble => trouble' \in 0..MaxTrouble[script] BY <1>0 DEF NewTrouble, TypeOK
<1>1. CASE PrintLine
  <2>1. /\ Lines \subseteq Lines' /\ printed' = printed + 1 /\ printed' \in Lines'
        /\ printed' \in 0..Len(script)
    BY <1>0, <1>1, LinesGrow, SMTT(30) DEF PrintLine, TypeOK
  <2>2. \A s \in Seq(Lines) : s \in Seq(Lines')
    BY <2>1, SeqWider
  <2>3. ASSUME NEW c \in Conns
        PROVE  /\ bus[c] \in Seq(Lines') /\ Len(bus[c]) <= BusCapacity
               /\ Push(bus[c], printed', BusCapacity) \in Seq(Lines')
               /\ Len(Push(bus[c], printed', BusCapacity)) <= BusCapacity
               /\ Dropped(bus[c], BusCapacity) \subseteq Lines'
    <3>1. bus[c] \in Seq(Lines') /\ Len(bus[c]) <= BusCapacity BY <2>2 DEF TypeOK
    <3>2. ToSet(bus[c]) \subseteq Lines' BY <3>1, ToSetIs
    <3> QED BY <1>0, <2>1, <3>1, <3>2, PushSet
  <2>4. /\ bus' \in [Conns -> Seq(Lines')]
        /\ \A c \in Conns : Len(bus'[c]) <= BusCapacity
    BY <1>1, <2>3 DEF PrintLine
  <2>5. lost' \subseteq Lines'
    <3>1. UNION {Dropped(bus[c], BusCapacity) : c \in {d \in Conns : Live(d)}} \subseteq Lines' BY <2>3
    <3>2. lost \subseteq Lines' BY <2>1 DEF TypeOK
    <3> QED BY <1>1, <2>1, <3>1, <3>2 DEF PrintLine
  <2>6. /\ line' \in [Conns -> Lines' \cup {0}] /\ queue' \in [Subscribers -> Seq(Lines')]
        /\ {webhook, say, alert, seen}' \subseteq Seq(Lines')
        /\ posted' \in [{"webhook", "say", "alert"} -> Seq(Lines')]
    BY <1>1, <2>1, <2>2 DEF PrintLine, TypeOK
  <2>7. /\ db' \subseteq Lines' /\ metrics' \subseteq Lines' /\ handling' \subseteq (Lines' \X {1, 2})
        /\ marker' \in {NoMarker} \cup Lines' /\ early' \subseteq Lines'
    BY <1>1, <2>1 DEF PrintLine, TypeOK
  <2> QED BY <1>1, <2>1, <2>4, <2>5, <2>6, <2>7 DEF PrintLine, TypeOK
<1>2. ASSUME UNCHANGED printed PROVE Lines' = Lines BY <1>2 DEF Lines
<1>3. ASSUME NEW c \in Conns, Connect(c) \/ Replace(c) PROVE TypeOK'
  <2>1. UNCHANGED <<source, bus, line, topics, up, broker, store, discord, browser, lost>>
    BY <1>3 DEF Connect, Replace
  <2>2. conn' \in [Conns -> {"none", "open", "replaced", "closed"}]
    BY <1>3 DEF Connect, Replace, TypeOK
  <2>3. overlap' \in BOOLEAN /\ trouble' \in 0..MaxTrouble[script]
    BY <1>3, <1>a DEF Connect, Replace, TypeOK
  <2> QED BY <1>2, <2>1, <2>2, <2>3 DEF TypeOK
<1>4. ASSUME NEW c \in Conns, Close(c) PROVE TypeOK'
  <2>1. bus[c] \in Seq(Lines) /\ ToSet(bus[c]) \subseteq Lines BY ToSetIs DEF TypeOK
  <2>2. << >> \in Seq(Lines) /\ Len(<< >>) = 0 OBVIOUS
  <2>3. /\ bus' \in [Conns -> Seq(Lines)]
        /\ \A d \in Conns : Len(bus'[d]) <= BusCapacity
        /\ conn' \in [Conns -> {"none", "open", "replaced", "closed"}]
    BY <1>0, <1>4, <2>2 DEF Close, TypeOK
  <2>4. lost' \subseteq Lines /\ trouble' \in 0..MaxTrouble[script] BY <1>4, <1>a, <2>1 DEF Close, TypeOK
  <2> QED BY <1>2, <1>4, <2>3, <2>4 DEF Close, TypeOK
<1>5. ASSUME NEW c \in Conns, Receive(c) PROVE TypeOK'
  <2>1. bus[c] \in Seq(Lines) /\ bus[c] # << >> /\ Len(bus[c]) <= BusCapacity
    BY <1>5 DEF Receive, TypeOK
  <2>2. Tail(bus[c]) \in Seq(Lines) /\ Head(bus[c]) \in Lines /\ Len(Tail(bus[c])) = Len(bus[c]) - 1
    BY <2>1, TailSet
  <2>3. Tags(Kind(Head(bus[c]))) \in SUBSET Topics BY <2>2, LineKind, TagsAreTopics
  <2>4. Len(Tail(bus[c])) <= BusCapacity BY <1>0, <2>1, <2>2
  <2>5. /\ bus' \in [Conns -> Seq(Lines)]
        /\ \A d \in Conns : Len(bus'[d]) <= BusCapacity
    BY <1>5, <2>2, <2>4 DEF Receive, TypeOK
  <2>6. line' \in [Conns -> Lines \cup {0}] /\ topics' \in [Conns -> SUBSET Topics]
    BY <1>5, <2>2, <2>3 DEF Receive, TypeOK
  <2> QED BY <1>2, <1>5, <2>5, <2>6 DEF Receive, TypeOK
<1>6. ASSUME NEW c \in Conns, NEW t \in Topics, Publish(c, t) PROVE TypeOK'
  <2>1. line[c] \in Lines BY <1>6 DEF Publish, LineTagged
  <2>2. ASSUME NEW s \in Subscribers
        PROVE  /\ Push(queue[s], line[c], Capacity) \in Seq(Lines)
               /\ Len(Push(queue[s], line[c], Capacity)) <= Capacity
               /\ Dropped(queue[s], Capacity) \subseteq Lines
    <3>1. queue[s] \in Seq(Lines) /\ Len(queue[s]) <= Capacity BY DEF TypeOK
    <3>2. ToSet(queue[s]) \subseteq Lines BY <3>1, ToSetIs
    <3> QED BY <1>0, <2>1, <3>1, <3>2, PushSet
  <2>3. /\ queue' \in [Subscribers -> Seq(Lines)]
        /\ \A s \in Subscribers : Len(queue'[s]) <= Capacity
    BY <1>6, <2>2 DEF Publish, TypeOK
  <2>4. lagged' \in [Subscribers -> BOOLEAN] BY <1>6 DEF Publish
  <2>5. lost' \subseteq Lines
    <3> DEFINE on == {s \in {r \in Subscribers : TopicOf[r] = t} : Subscribed(s)}
    <3>1. UNION {Dropped(queue[s], Capacity) : s \in on \ {Viewer}} \subseteq Lines BY <2>2
    <3>2. lost \subseteq Lines BY DEF TypeOK
    <3> QED BY <1>6, <2>1, <3>1, <3>2 DEF Publish
  <2>6. line' \in [Conns -> Lines \cup {0}] /\ topics' \in [Conns -> SUBSET Topics]
    BY <1>6 DEF Publish, TypeOK
  <2> QED BY <1>2, <1>6, <2>3, <2>4, <2>5, <2>6 DEF Publish, TypeOK
<1>7. CASE Subscribe
  <2>1. up' \in 0..Len(Startup) BY <1>7 DEF Subscribe, TypeOK, Startup
  <2> QED BY <1>2, <1>7, <2>1 DEF Subscribe, TypeOK
<1>8. ASSUME NEW s \in Subscribers, Pop(s), UNCHANGED printed
      PROVE  /\ queue' \in [Subscribers -> Seq(Lines)] /\ Head(queue[s]) \in Lines
             /\ \A r \in Subscribers : Len(queue'[r]) <= Capacity
  <2>1. queue[s] \in Seq(Lines) /\ queue[s] # << >> /\ Len(queue[s]) <= Capacity
    BY <1>8 DEF Pop, TypeOK
  <2>2. Tail(queue[s]) \in Seq(Lines) /\ Head(queue[s]) \in Lines /\ Len(Tail(queue[s])) = Len(queue[s]) - 1
    BY <2>1, TailSet
  <2>3. Len(Tail(queue[s])) <= Capacity BY <1>0, <2>1, <2>2
  <2> QED BY <1>8, <2>2, <2>3 DEF Pop, TypeOK
<1>9. \A s \in {"g2d_chat", "g2d_join", "g2d_leave", "g2d_state", "ingest", "rpc", Viewer} :
        s \in Subscribers
  BY SubscriberNames
<1>10. CASE Ingest
  <2>1. /\ queue' \in [Subscribers -> Seq(Lines)] /\ Head(queue["ingest"]) \in Lines
        /\ \A r \in Subscribers : Len(queue'[r]) <= Capacity
    BY <1>8, <1>9, <1>10 DEF Ingest
  <2>2. db' \subseteq Lines /\ lost' \subseteq Lines /\ trouble' \in 0..MaxTrouble[script]
    BY <1>10, <1>a, <2>1 DEF Ingest, TypeOK
  <2> QED BY <1>2, <1>10, <2>1, <2>2 DEF Ingest, TypeOK
<1>11. CASE SpawnRpc
  <2>1. /\ queue' \in [Subscribers -> Seq(Lines)] /\ Head(queue["rpc"]) \in Lines
        /\ \A r \in Subscribers : Len(queue'[r]) <= Capacity
    BY <1>8, <1>9, <1>11 DEF SpawnRpc
  <2>2. handling' \subseteq (Lines \X {1, 2}) BY <1>11, <2>1 DEF SpawnRpc, TypeOK
  <2> QED BY <1>2, <1>11, <2>1, <2>2 DEF SpawnRpc, TypeOK
<1>12. ASSUME NEW h \in handling, HandleRpc(h) PROVE TypeOK'
  <2>1. h[1] \in Lines /\ alert \in Seq(Lines) BY DEF TypeOK
  <2>2. Append(alert, h[1]) \in Seq(Lines) BY <2>1
  <2>3. /\ alert' \in Seq(Lines) /\ metrics' \subseteq Lines /\ handling' \subseteq (Lines \X {1, 2})
        /\ lost' \subseteq Lines /\ trouble' \in 0..MaxTrouble[script]
    BY <1>12, <1>a, <2>1, <2>2 DEF HandleRpc, TypeOK
  <2> QED BY <1>2, <1>12, <2>3 DEF HandleRpc, TypeOK
<1>13. CASE ForwardChat
  <2>1. /\ queue' \in [Subscribers -> Seq(Lines)] /\ Head(queue["g2d_chat"]) \in Lines
        /\ \A r \in Subscribers : Len(queue'[r]) <= Capacity
    BY <1>8, <1>9, <1>13 DEF ForwardChat
  <2>2. webhook \in Seq(Lines) BY DEF TypeOK
  <2>3. Append(webhook, Head(queue["g2d_chat"])) \in Seq(Lines) BY <2>1, <2>2
  <2> QED BY <1>2, <1>13, <2>1, <2>3 DEF ForwardChat, TypeOK
<1>14. ASSUME NEW s \in {"g2d_join", "g2d_leave", "g2d_state"}, ForwardPlain(s) PROVE TypeOK'
  <2>1. /\ queue' \in [Subscribers -> Seq(Lines)] /\ Head(queue[s]) \in Lines
        /\ \A r \in Subscribers : Len(queue'[r]) <= Capacity
    BY <1>8, <1>9, <1>14 DEF ForwardPlain
  <2>2. say \in Seq(Lines) BY DEF TypeOK
  <2>3. Append(say, Head(queue[s])) \in Seq(Lines) BY <2>1, <2>2
  <2>4. say' \in Seq(Lines) BY <1>14, <2>2, <2>3 DEF ForwardPlain
  <2> QED BY <1>2, <1>14, <2>1, <2>4 DEF ForwardPlain, TypeOK
<1>15. ASSUME NEW d \in {"webhook", "say", "alert"}, NEW chan \in Seq(Lines), Post(d, chan),
              d = "webhook" => chan = webhook, d = "say" => chan = say, d = "alert" => chan = alert
       PROVE  TypeOK'
  <2>1. chan # << >> /\ Tail(chan) \in Seq(Lines) /\ Head(chan) \in Lines
    BY <1>15, TailSet DEF Post
  <2>2. posted[d] \in Seq(Lines) BY DEF TypeOK
  <2>3. Append(posted[d], Head(chan)) \in Seq(Lines) BY <2>1, <2>2
  <2>4. posted' \in [{"webhook", "say", "alert"} -> Seq(Lines)] BY <1>15, <2>3 DEF Post, TypeOK
  <2>5. webhook' \in Seq(Lines) /\ say' \in Seq(Lines) /\ alert' \in Seq(Lines)
    BY <1>15, <2>1 DEF Post, TypeOK
  <2>6. lost' \subseteq Lines /\ trouble' \in 0..MaxTrouble[script] BY <1>15, <1>a, <2>1 DEF Post, TypeOK
  <2> QED BY <1>2, <1>15, <2>4, <2>5, <2>6 DEF Post, TypeOK
<1>16. CASE Post("webhook", webhook) \/ Post("say", say) \/ Post("alert", alert)
  <2>1. webhook \in Seq(Lines) /\ say \in Seq(Lines) /\ alert \in Seq(Lines) BY DEF TypeOK
  <2> QED BY <1>15, <1>16, <2>1
<1>17. ASSUME NEW cat \in Watched, Mark(cat) PROVE TypeOK'
  <2>1. Of(cat, db) \in SUBSET (1..printed) BY DEF Of, TypeOK, Lines
  <2>2. marker' \in {NoMarker} \cup Lines BY <1>0, <1>17, <2>1, LatestIs DEF Mark, Lines
  <2>3. category' \in Stored \cup {"none"} BY <1>17, WatchedAssumption DEF Mark
  <2> QED BY <1>2, <1>17, <2>2, <2>3 DEF Mark, TypeOK
<1>18. CASE Stream
  <2>1. early' \subseteq Lines BY <1>18 DEF Stream
  <2> QED BY <1>2, <1>18, <2>1 DEF Stream, TypeOK
<1>19. CASE View
  <2>1. /\ queue' \in [Subscribers -> Seq(Lines)] /\ Head(queue[Viewer]) \in Lines
        /\ \A r \in Subscribers : Len(queue'[r]) <= Capacity
    BY <1>8, <1>9, <1>19 DEF View
  <2>2. seen \in Seq(Lines) BY DEF TypeOK
  <2>3. Append(seen, Head(queue[Viewer])) \in Seq(Lines) BY <2>1, <2>2
  <2>4. seen' \in Seq(Lines) BY <1>19, <2>2, <2>3 DEF View
  <2> QED BY <1>2, <1>19, <2>1, <2>4 DEF View, TypeOK
<1>20. CASE Restart
  <2>1. << >> \in Seq(Lines) /\ Len(<< >>) = 0 OBVIOUS
  <2>2. /\ bus' \in [Conns -> Seq(Lines)] /\ queue' \in [Subscribers -> Seq(Lines)]
        /\ \A c \in Conns : Len(bus'[c]) <= BusCapacity
        /\ \A s \in Subscribers : Len(queue'[s]) <= Capacity
    BY <1>0, <1>20, <2>1 DEF Restart
  <2>3. InMemory \subseteq Lines
    <3>1. \A c \in Conns : ToSet(bus[c]) \subseteq Lines BY ToSetIs DEF TypeOK
    <3>2. \A s \in Tasks : ToSet(queue[s]) \subseteq Lines BY ToSetIs, SubscriberNames DEF TypeOK
    <3>3. ToSet(webhook) \subseteq Lines /\ ToSet(say) \subseteq Lines /\ ToSet(alert) \subseteq Lines
      BY ToSetIs DEF TypeOK
    <3>4. {line[c] : c \in Conns} \ {0} \subseteq Lines /\ {h[1] : h \in handling} \subseteq Lines
      BY DEF TypeOK
    <3>5. UNION {ToSet(bus[c]) : c \in Conns} \subseteq Lines BY <3>1
    <3>6. UNION {ToSet(queue[s]) : s \in Tasks} \subseteq Lines BY <3>2
    <3> QED BY <3>3, <3>4, <3>5, <3>6 DEF InMemory
  <2>4. lost' \subseteq Lines /\ trouble' \in 0..MaxTrouble[script] BY <1>20, <1>a, <2>3 DEF Restart, TypeOK
  <2>5. /\ conn' \in [Conns -> {"none", "open", "replaced", "closed"}]
        /\ line' \in [Conns -> Lines \cup {0}] /\ topics' \in [Conns -> SUBSET Topics]
        /\ lagged' \in [Subscribers -> BOOLEAN] /\ up' \in 0..Len(Startup)
    BY <1>20 DEF Restart, Startup
  <2> QED BY <1>2, <1>20, <2>1, <2>2, <2>4, <2>5 DEF Restart, TypeOK
<1>21. CASE UNCHANGED vars BY <1>2, <1>21 DEF vars, TypeOK
<1> QED
  BY <1>1, <1>3, <1>4, <1>5, <1>6, <1>7, <1>10, <1>11, <1>12, <1>13, <1>14, <1>16, <1>17, <1>18,
     <1>19, <1>20, <1>21
  DEF Next

-----------------------------------------------------------------------------
(* A connection publishes what it has tagged                               *)

(* What a line is does not change. *)
LEMMA SameKinds ==
  ASSUME [Next]_vars
  PROVE  script' = script
<1> USE DEF source, link, broker, store, discord, browser
<1>1. ASSUME NEW c \in Conns, Connect(c) \/ Replace(c) \/ Close(c) \/ Receive(c)
      PROVE  script' = script
  BY <1>1 DEF Connect, Replace, Close, Receive
<1>2. ASSUME NEW c \in Conns, NEW t \in Topics, Publish(c, t) PROVE script' = script
  BY <1>2 DEF Publish
<1>3. CASE PrintLine \/ Subscribe \/ Ingest \/ SpawnRpc \/ ForwardChat
  BY <1>3 DEF PrintLine, Subscribe, Ingest, SpawnRpc, ForwardChat
<1>4. ASSUME NEW h \in handling, HandleRpc(h) PROVE script' = script BY <1>4 DEF HandleRpc
<1>5. ASSUME NEW s, ForwardPlain(s) PROVE script' = script BY <1>5 DEF ForwardPlain
<1>6. ASSUME NEW d, NEW chan, Post(d, chan) PROVE script' = script BY <1>6 DEF Post
<1>7. ASSUME NEW cat, Mark(cat) PROVE script' = script BY <1>7 DEF Mark
<1>8. CASE Stream \/ View \/ Restart \/ UNCHANGED vars BY <1>8 DEF Stream, View, Restart, vars
<1> QED BY <1>1, <1>2, <1>3, <1>4, <1>5, <1>6, <1>7, <1>8 DEF Next

(* The steps of the tasks behind the broker leave the connections alone. *)
Behind ==
  \/ Subscribe \/ Ingest \/ SpawnRpc \/ ForwardChat \/ Stream \/ View \/ UNCHANGED vars
  \/ \E h \in handling : HandleRpc(h)
  \/ \E s \in {"g2d_join", "g2d_leave", "g2d_state"} : ForwardPlain(s)
  \/ Post("webhook", webhook) \/ Post("say", say) \/ Post("alert", alert)
  \/ \E cat \in Watched : Mark(cat)

(* Every step is one of the source, of a connection, behind the broker, or  *)
(* a restart.                                                               *)
LEMMA StepKinds ==
  ASSUME [Next]_vars
  PROVE  \/ PrintLine \/ Behind \/ Restart
         \/ \E c \in Conns : Connect(c) \/ Replace(c) \/ Close(c) \/ Receive(c)
         \/ \E c \in Conns : \E t \in Topics : Publish(c, t)
BY DEF Next, Behind

(* What they leave alone. *)
LEMMA BehindKeeps ==
  ASSUME Behind
  PROVE  UNCHANGED <<source, link>>
<1> USE DEF source, link, broker, store, discord, browser
<1>1. CASE Subscribe \/ Ingest \/ SpawnRpc \/ ForwardChat \/ Stream \/ View \/ UNCHANGED vars
  BY <1>1 DEF Subscribe, Ingest, SpawnRpc, ForwardChat, Stream, View, vars
<1>2. ASSUME NEW h \in handling, HandleRpc(h) PROVE UNCHANGED <<source, link>>
  BY <1>2 DEF HandleRpc
<1>3. ASSUME NEW s, ForwardPlain(s) PROVE UNCHANGED <<source, link>> BY <1>3 DEF ForwardPlain
<1>4. ASSUME NEW d, NEW chan, Post(d, chan) PROVE UNCHANGED <<source, link>> BY <1>4 DEF Post
<1>5. ASSUME NEW cat, Mark(cat) PROVE UNCHANGED <<source, link>> BY <1>5 DEF Mark
<1> QED BY <1>1, <1>2, <1>3, <1>4, <1>5 DEF Behind

(* Every step keeps the tags with the line they belong to. *)
LEMMA LineTaggedStep ==
  ASSUME TypeOK, LineTagged, [Next]_vars
  PROVE  LineTagged'
<1> USE DEF source, link, broker, store, discord, browser
<1> SUFFICES ASSUME NEW d \in Conns, topics'[d] # {}
             PROVE  line'[d] \in Lines' /\ topics'[d] \subseteq Tags(script'[line'[d]])
  BY DEF LineTagged, Kind
<1>0. script' = script BY SameKinds
<1>1. topics[d] # {} => line[d] \in Lines /\ topics[d] \subseteq Tags(script[line[d]])
  BY DEF LineTagged, Kind
<1>2. CASE UNCHANGED <<line, topics>> /\ Lines \subseteq Lines' BY <1>0, <1>1, <1>2
<1>3. CASE PrintLine BY <1>2, <1>3, LinesGrow DEF PrintLine
<1>4. CASE Behind BY <1>2, <1>4, BehindKeeps DEF Lines
<1>5. CASE Restart BY <1>5 DEF Restart
<1>6. ASSUME NEW c \in Conns, Connect(c) \/ Replace(c) \/ Close(c)
      PROVE  UNCHANGED <<line, topics>> /\ Lines \subseteq Lines'
  BY <1>6 DEF Connect, Replace, Close, Lines
<1>7. ASSUME NEW c \in Conns, Receive(c)
      PROVE  line'[d] \in Lines' /\ topics'[d] \subseteq Tags(script'[line'[d]])
  <2>1. bus[c] \in Seq(Lines) /\ bus[c] # << >> BY <1>7 DEF Receive, TypeOK
  <2>2. Head(bus[c]) \in Lines BY <2>1, TailSet
  <2>3. Lines' = Lines BY <1>7 DEF Receive, Lines
  <2>4. CASE d = c BY <1>0, <1>7, <2>2, <2>3, <2>4 DEF Receive, TypeOK, Kind
  <2>5. CASE d # c BY <1>0, <1>1, <1>7, <2>3, <2>5 DEF Receive, TypeOK
  <2> QED BY <2>4, <2>5
<1>8. ASSUME NEW c \in Conns, NEW t \in Topics, Publish(c, t)
      PROVE  line'[d] \in Lines' /\ topics'[d] \subseteq Tags(script'[line'[d]])
  <2>1. Lines' = Lines BY <1>8 DEF Publish, Lines
  <2>2. topics'[d] \subseteq topics[d] /\ line'[d] = line[d] BY <1>8 DEF Publish, TypeOK
  <2> QED BY <1>0, <1>1, <2>1, <2>2
<1> QED BY <1>2, <1>3, <1>4, <1>5, <1>6, <1>7, <1>8, StepKinds

-----------------------------------------------------------------------------
(* Nothing vanishes on the way to the broker                               *)

(* What is dropped is never forgotten, and what is stored or posted stays. *)
LEMMA Lasting ==
  ASSUME TypeOK, [Next]_vars
  PROVE  /\ lost \subseteq lost' /\ db \subseteq db' /\ metrics \subseteq metrics'
         /\ \A d \in {"webhook", "say", "alert"} : ToSet(posted[d]) \subseteq ToSet(posted'[d])
<1> USE DEF source, link, broker, store, discord, browser
<1>1. ASSUME NEW c \in Conns, Connect(c) \/ Replace(c) \/ Close(c) \/ Receive(c)
      PROVE  lost \subseteq lost' /\ UNCHANGED <<db, metrics, posted>>
  BY <1>1 DEF Connect, Replace, Close, Receive
<1>2. ASSUME NEW c \in Conns, NEW t \in Topics, Publish(c, t)
      PROVE  lost \subseteq lost' /\ UNCHANGED <<db, metrics, posted>>
  BY <1>2 DEF Publish
<1>3. CASE PrintLine \/ Subscribe \/ SpawnRpc \/ ForwardChat \/ Stream \/ View \/ Restart
           \/ UNCHANGED vars
  BY <1>3 DEF PrintLine, Subscribe, SpawnRpc, ForwardChat, Stream, View, Restart, vars
<1>4. CASE Ingest BY <1>4 DEF Ingest
<1>5. ASSUME NEW h \in handling, HandleRpc(h)
      PROVE  lost \subseteq lost' /\ metrics \subseteq metrics' /\ UNCHANGED <<db, posted>>
  BY <1>5 DEF HandleRpc
<1>6. ASSUME NEW s, ForwardPlain(s) PROVE UNCHANGED <<lost, db, metrics, posted>>
  BY <1>6 DEF ForwardPlain
<1>7. ASSUME NEW d \in {"webhook", "say", "alert"}, NEW chan \in Seq(Lines), Post(d, chan)
      PROVE  /\ lost \subseteq lost' /\ UNCHANGED <<db, metrics>>
             /\ \A e \in {"webhook", "say", "alert"} : ToSet(posted[e]) \subseteq ToSet(posted'[e])
  <2>1. Head(chan) \in Lines /\ posted[d] \in Seq(Lines) BY <1>7, TailSet DEF Post, TypeOK
  <2>2. ToSet(posted[d]) \subseteq ToSet(Append(posted[d], Head(chan))) BY <2>1, AppendSet
  <2>3. UNCHANGED posted \/ posted' = [posted EXCEPT ![d] = Append(@, Head(chan))]
    BY <1>7 DEF Post
  <2>4. \A e \in {"webhook", "say", "alert"} : ToSet(posted[e]) \subseteq ToSet(posted'[e])
    BY <2>2, <2>3 DEF TypeOK
  <2> QED BY <1>7, <2>4 DEF Post
<1>8. CASE Post("webhook", webhook) \/ Post("say", say) \/ Post("alert", alert)
  <2>1. webhook \in Seq(Lines) /\ say \in Seq(Lines) /\ alert \in Seq(Lines) BY DEF TypeOK
  <2> QED BY <1>7, <1>8, <2>1
<1>9. ASSUME NEW cat, Mark(cat) PROVE UNCHANGED <<lost, db, metrics, posted>> BY <1>9 DEF Mark
<1> QED BY <1>1, <1>2, <1>3, <1>4, <1>5, <1>6, <1>8, <1>9 DEF Next

(* A line that is printed is on a connection's bus, or lost. *)
LEMMA PrintedAhead ==
  ASSUME TypeOK, [Next]_vars, NEW n \in Lines', n \notin Lines, NEW t
  PROVE  n \in lost' \/ Ahead(n, t)'
<1> USE DEF source, link, broker, store, discord, browser
<1>1. CASE PrintLine
  <2>1. n = printed' BY <1>1, ConstantsAssumption DEF PrintLine, TypeOK, Lines
  <2>2. ASSUME NEW c \in Conns, Live(c) PROVE n \in ToSet(bus'[c])
    <3>1. bus[c] \in Seq(Nat) /\ n \in Nat /\ Len(bus[c]) <= BusCapacity
      BY <2>1, ConstantsAssumption, <1>1 DEF PrintLine, TypeOK, Lines
    <3>2. n \in ToSet(Push(bus[c], n, BusCapacity)) BY <3>1, PushSet, ConstantsAssumption
    <3> QED BY <1>1, <2>1, <2>2, <3>2 DEF PrintLine
  <2> QED BY <1>1, <2>1, <2>2 DEF PrintLine, Ahead
<1>2. printed' # printed BY DEF Lines
<1>3. ~Behind BY <1>2, BehindKeeps
<1>4. ASSUME NEW c \in Conns, Connect(c) \/ Replace(c) \/ Close(c) \/ Receive(c) PROVE FALSE
  BY <1>2, <1>4 DEF Connect, Replace, Close, Receive
<1>5. ASSUME NEW c \in Conns, NEW u \in Topics, Publish(c, u) PROVE FALSE
  BY <1>2, <1>5 DEF Publish
<1>6. ~Restart BY <1>2 DEF Restart
<1> QED BY <1>1, <1>3, <1>4, <1>5, <1>6, StepKinds

(* A line on its way to a topic stays on its way until it is published      *)
(* there, or lost.                                                          *)
LEMMA AheadStep ==
  ASSUME TypeOK, LineTagged, [Next]_vars, NEW n \in Lines, NEW t \in Tags(Kind(n)), Ahead(n, t)
  PROVE  n \in lost' \/ Ahead(n, t)' \/ \E c \in Conns : line[c] = n /\ Publish(c, t)
<1> USE DEF source, link, broker, store, discord, browser
<1>0. PICK c \in Conns : n \in ToSet(bus[c]) \/ (line[c] = n /\ t \in topics[c]) BY DEF Ahead
<1>a. /\ bus[c] \in Seq(Lines) /\ Len(bus[c]) <= BusCapacity
      /\ BusCapacity \in Nat \ {0} /\ Capacity \in Nat \ {0}
  BY ConstantsAssumption DEF TypeOK
<1>1. CASE UNCHANGED <<bus, line, topics>> BY <1>1 DEF Ahead
<1>2. CASE PrintLine
  <2>1. bus[c] \in Seq(Nat) /\ printed' \in Nat
    <3>1. Lines \subseteq Nat /\ printed \in Nat BY ConstantsAssumption DEF TypeOK, Lines
    <3>2. bus[c] \in Seq(Nat) BY <1>a, <3>1, SeqWider
    <3> QED BY <1>2, <3>1, <3>2 DEF PrintLine
  <2>2. ToSet(bus[c]) \subseteq ToSet(Push(bus[c], printed', BusCapacity)) \cup Dropped(bus[c], BusCapacity)
    BY <1>a, <2>1, PushSet
  <2>3. CASE n \in ToSet(bus[c]) BY <1>2, <2>2, <2>3 DEF PrintLine, Ahead
  <2>4. CASE line[c] = n /\ t \in topics[c] BY <1>2, <2>4 DEF PrintLine, Ahead
  <2> QED BY <1>0, <2>3, <2>4
<1>3. CASE Behind BY <1>1, <1>3, BehindKeeps
<1>4. CASE Restart
  <2>1. n \in InMemory
    <3>1. CASE n \in ToSet(bus[c]) BY <3>1 DEF InMemory
    <3>2. CASE line[c] = n
      <4>1. n # 0 BY DEF Lines
      <4> QED BY <3>2, <4>1 DEF InMemory
    <3> QED BY <1>0, <3>1, <3>2
  <2> QED BY <1>4, <2>1 DEF Restart
<1>5. ASSUME NEW d \in Conns, Connect(d) \/ Replace(d) PROVE UNCHANGED <<bus, line, topics>>
  BY <1>5 DEF Connect, Replace
<1>6. ASSUME NEW d \in Conns, Close(d) PROVE n \in lost' \/ Ahead(n, t)'
  <2>1. CASE d = c /\ n \in ToSet(bus[c]) BY <1>6, <2>1 DEF Close
  <2>2. CASE d # c \/ (line[c] = n /\ t \in topics[c])
    BY <1>0, <1>6, <2>2 DEF Close, Ahead, TypeOK
  <2> QED BY <1>0, <2>1, <2>2
<1>7. ASSUME NEW d \in Conns, Receive(d) PROVE Ahead(n, t)'
  <2>1. CASE d = c
    <3>1. n \in ToSet(bus[c]) /\ bus[c] # << >> BY <1>0, <1>7, <2>1 DEF Receive
    <3>2. n \in ToSet(Tail(bus[c])) \/ n = Head(bus[c]) BY <1>a, <3>1, TailSet
    <3>3. CASE n \in ToSet(Tail(bus[c])) BY <1>7, <2>1, <3>3 DEF Receive, Ahead, TypeOK
    <3>4. CASE n = Head(bus[c]) BY <1>7, <2>1, <3>4 DEF Receive, Ahead, TypeOK
    <3> QED BY <3>2, <3>3, <3>4
  <2>2. CASE d # c BY <1>0, <1>7, <2>2 DEF Receive, Ahead, TypeOK
  <2> QED BY <2>1, <2>2
<1>8. ASSUME NEW d \in Conns, NEW u \in Topics, Publish(d, u)
      PROVE  Ahead(n, t)' \/ \E e \in Conns : line[e] = n /\ Publish(e, t)
  <2>1. CASE n \in ToSet(bus[c]) BY <1>8, <2>1 DEF Publish, Ahead
  <2>2. CASE line[c] = n /\ t \in topics[c] /\ (d # c \/ u # t)
    <3>1. t \in topics'[c] BY <1>8, <2>2 DEF Publish, TypeOK
    <3>2. line'[c] = line[c]
      <4>1. CASE d # c BY <1>8, <4>1 DEF Publish, TypeOK
      <4>2. CASE d = c
        <5>1. topics[d] # {u} BY <2>2, <4>2
        <5> QED BY <1>8, <5>1 DEF Publish
      <4> QED BY <4>1, <4>2
    <3> QED BY <2>2, <3>1, <3>2 DEF Ahead
  <2>3. CASE line[c] = n /\ d = c /\ u = t BY <1>8, <2>3
  <2> QED BY <1>0, <2>1, <2>2, <2>3
<1> QED BY <1>1, <1>2, <1>3, <1>4, <1>5, <1>6, <1>7, <1>8, StepKinds

(* What is published on a topic is in the queue of the task that reads the  *)
(* topic, or lost.                                                          *)
LEMMA PublishReaches ==
  ASSUME TypeOK, LineTagged, NEW c \in Conns, NEW s \in Tasks, Publish(c, TopicOf[s])
  PROVE  line[c] \in lost' \/ line[c] \in ToSet(queue'[s])
<1>1. s \in Subscribers /\ s # Viewer BY SubscriberNames DEF Viewer
<1>2. line[c] \in Lines BY DEF Publish, LineTagged
<1>3. CASE Subscribed(s)
  <2>1. queue[s] \in Seq(Lines) /\ Len(queue[s]) <= Capacity BY <1>1 DEF TypeOK
  <2>2. line[c] \in ToSet(Push(queue[s], line[c], Capacity))
    BY <1>2, <2>1, PushSet, ConstantsAssumption
  <2>3. queue'[s] = Push(queue[s], line[c], Capacity) BY <1>1, <1>3 DEF Publish
  <2> QED BY <2>2, <2>3
<1>4. CASE ~Subscribed(s) BY <1>1, <1>4 DEF Publish
<1> QED BY <1>3, <1>4

-----------------------------------------------------------------------------
(* Nothing vanishes behind the broker                                      *)

(* Where the task s brings what it takes from its queue. *)
Brought(s, n) ==
  /\ s = "ingest" => (Storable(n) => n \in db)
  /\ s = "rpc" => Handled(n)
  /\ s = "g2d_chat" => n \in ToSet(webhook)
  /\ s \in {"g2d_join", "g2d_leave"} => n \in ToSet(say)
  /\ s = "g2d_state" => (Announced(n) => n \in ToSet(say))

(* What leaves the front of one queue is its head. *)
LEMMA PopSet ==
  ASSUME TypeOK, NEW s \in Subscribers, Pop(s)
  PROVE  /\ queue[s] \in Seq(Lines) /\ queue[s] # << >> /\ Head(queue[s]) \in Lines
         /\ queue'[s] = Tail(queue[s]) /\ Tail(queue[s]) \in Seq(Lines)
         /\ ToSet(queue[s]) = ToSet(queue'[s]) \cup {Head(queue[s])}
         /\ \A r \in Subscribers : r # s => queue'[r] = queue[r]
<1>1. queue[s] \in Seq(Lines) /\ queue[s] # << >> BY DEF TypeOK, Pop
<1>2. /\ Tail(queue[s]) \in Seq(Lines) /\ Head(queue[s]) \in Lines
      /\ ToSet(queue[s]) = ToSet(Tail(queue[s])) \cup {Head(queue[s])}
  BY <1>1, TailSet
<1>3. queue'[s] = Tail(queue[s]) /\ \A r \in Subscribers : r # s => queue'[r] = queue[r]
  BY DEF Pop, TypeOK
<1> QED BY <1>1, <1>2, <1>3

(* A line in the queue of a task stays there until the task has brought it  *)
(* where it belongs, or it is lost.                                         *)
LEMMA QueueStep ==
  ASSUME TypeOK, LineTagged, [Next]_vars, NEW s \in Tasks, NEW n \in ToSet(queue[s])
  PROVE  n \in lost' \/ n \in ToSet(queue'[s]) \/ Brought(s, n)'
<1> USE DEF source, link, broker, store, discord, browser
<1>0. /\ s \in Subscribers /\ s # Viewer /\ queue[s] \in Seq(Lines) /\ Len(queue[s]) <= Capacity
      /\ Capacity \in Nat \ {0}
  BY SubscriberNames, ConstantsAssumption DEF TypeOK, Viewer
<1>a. {"g2d_chat", "g2d_join", "g2d_leave", "g2d_state", "ingest", "rpc", Viewer} \subseteq Subscribers
  BY SubscriberNames
<1>b. script' = script BY SameKinds
<1>1. CASE UNCHANGED queue BY <1>1
<1>2. CASE PrintLine \/ Subscribe \/ Stream \/ UNCHANGED vars
  BY <1>1, <1>2 DEF PrintLine, Subscribe, Stream, vars
<1>3. ASSUME NEW c \in Conns, Connect(c) \/ Replace(c) \/ Close(c) \/ Receive(c) PROVE UNCHANGED queue
  BY <1>3 DEF Connect, Replace, Close, Receive
<1>4. ASSUME NEW c \in Conns, NEW t \in Topics, Publish(c, t)
      PROVE  n \in lost' \/ n \in ToSet(queue'[s])
  <2> DEFINE on == {r \in {q \in Subscribers : TopicOf[q] = t} : Subscribed(r)}
  <2>1. CASE s \in on
    <3>1. queue'[s] = Push(queue[s], line[c], Capacity) BY <1>0, <1>4, <2>1 DEF Publish
    <3>2. line[c] \in Lines BY <1>4 DEF Publish, LineTagged
    <3>3. ToSet(queue[s]) \subseteq ToSet(queue'[s]) \cup Dropped(queue[s], Capacity)
      BY <1>0, <3>1, <3>2, PushSet
    <3>4. Dropped(queue[s], Capacity) \subseteq lost' BY <1>0, <1>4, <2>1 DEF Publish
    <3> QED BY <3>3, <3>4
  <2>2. CASE s \notin on
    <3>1. queue'[s] = queue[s] BY <1>0, <1>4, <2>2 DEF Publish
    <3> QED BY <3>1
  <2> QED BY <2>1, <2>2
<1>5. ASSUME NEW r \in Subscribers, Pop(r), r # s PROVE n \in ToSet(queue'[s])
  BY <1>0, <1>5, PopSet
<1>6. ASSUME Pop(s), n # Head(queue[s]) PROVE n \in ToSet(queue'[s])
  BY <1>0, <1>6, PopSet
<1>7. CASE Ingest
  <2>1. CASE s = "ingest" /\ n = Head(queue["ingest"])
    <3>1. Storable(n)' => Storable(n) BY <1>b DEF Storable, Kind
    <3>2. n \in lost' \/ (Storable(n) => n \in db') BY <1>7, <2>1 DEF Ingest
    <3> QED BY <2>1, <3>1, <3>2 DEF Brought
  <2>2. CASE ~(s = "ingest" /\ n = Head(queue["ingest"])) BY <1>a, <1>5, <1>6, <1>7, <2>2 DEF Ingest
  <2> QED BY <2>1, <2>2
<1>8. CASE SpawnRpc
  <2>1. CASE s = "rpc" /\ n = Head(queue["rpc"])
    <3>1. \E k \in {1, 2} : <<n, k>> \in handling' BY <1>8, <2>1 DEF SpawnRpc
    <3>2. \E h \in handling' : h[1] = n BY <3>1
    <3> QED BY <2>1, <3>2 DEF Brought, Handled
  <2>2. CASE ~(s = "rpc" /\ n = Head(queue["rpc"])) BY <1>a, <1>5, <1>6, <1>8, <2>2 DEF SpawnRpc
  <2> QED BY <2>1, <2>2
<1>9. ASSUME NEW h \in handling, HandleRpc(h) PROVE UNCHANGED queue BY <1>9 DEF HandleRpc
<1>10. CASE ForwardChat
  <2>1. CASE s = "g2d_chat" /\ n = Head(queue["g2d_chat"])
    <3>1. n \in Lines /\ webhook \in Seq(Lines) BY <1>0, ToSetIs DEF TypeOK
    <3>2. n \in ToSet(Append(webhook, n)) BY <3>1, AppendSet
    <3>3. webhook' = Append(webhook, n) BY <1>10, <2>1 DEF ForwardChat
    <3> QED BY <2>1, <3>2, <3>3 DEF Brought
  <2>2. CASE ~(s = "g2d_chat" /\ n = Head(queue["g2d_chat"]))
    BY <1>a, <1>5, <1>6, <1>10, <2>2 DEF ForwardChat
  <2> QED BY <2>1, <2>2
<1>11. ASSUME NEW r \in {"g2d_join", "g2d_leave", "g2d_state"}, ForwardPlain(r)
       PROVE  n \in ToSet(queue'[s]) \/ Brought(s, n)'
  <2>1. CASE s = r /\ n = Head(queue[s])
    <3>1. n \in Lines /\ say \in Seq(Lines) BY <1>0, ToSetIs DEF TypeOK
    <3>2. n \in ToSet(Append(say, n)) BY <3>1, AppendSet
    <3>3. ~(s = "g2d_state" /\ ~Announced(n)) => say' = Append(say, n)
      BY <1>11, <2>1 DEF ForwardPlain
    <3>4. Announced(n)' => Announced(n) BY <1>b DEF Announced, Kind
    <3> QED BY <2>1, <3>2, <3>3, <3>4 DEF Brought
  <2>2. CASE ~(s = r /\ n = Head(queue[s])) BY <1>a, <1>5, <1>6, <1>11, <2>2 DEF ForwardPlain
  <2> QED BY <2>1, <2>2
<1>12. ASSUME NEW d, NEW chan, Post(d, chan) PROVE UNCHANGED queue BY <1>12 DEF Post
<1>13. ASSUME NEW cat, Mark(cat) PROVE UNCHANGED queue BY <1>13 DEF Mark
<1>14. CASE View BY <1>0, <1>a, <1>5, <1>14 DEF View
<1>15. CASE Restart
  <2>1. n \in InMemory BY DEF InMemory
  <2> QED BY <1>15, <2>1 DEF Restart
<1> QED BY <1>1, <1>2, <1>3, <1>4, <1>7, <1>8, <1>9, <1>10, <1>11, <1>12, <1>13, <1>14, <1>15 DEF Next

(* A message in a channel to Discord stays there until it is posted or      *)
(* lost.                                                                    *)
LEMMA ChannelStep ==
  ASSUME TypeOK, [Next]_vars, NEW n \in Lines
  PROVE  /\ n \in ToSet(webhook) => n \in lost' \cup ToSet(webhook') \cup ToSet(posted'["webhook"])
         /\ n \in ToSet(say) => n \in lost' \cup ToSet(say') \cup ToSet(posted'["say"])
         /\ n \in ToSet(alert) => n \in lost' \cup ToSet(alert') \cup ToSet(posted'["alert"])
<1> USE DEF source, link, broker, store, discord, browser
<1>0. /\ webhook \in Seq(Lines) /\ say \in Seq(Lines) /\ alert \in Seq(Lines)
      /\ \A d \in {"webhook", "say", "alert"} : posted[d] \in Seq(Lines)
  BY DEF TypeOK
<1>1. CASE UNCHANGED <<webhook, say, alert>> BY <1>1
<1>2. CASE PrintLine \/ Subscribe \/ Ingest \/ SpawnRpc \/ Stream \/ View \/ UNCHANGED vars
  BY <1>1, <1>2 DEF PrintLine, Subscribe, Ingest, SpawnRpc, Stream, View, vars
<1>3. ASSUME NEW c \in Conns, Connect(c) \/ Replace(c) \/ Close(c) \/ Receive(c)
      PROVE  UNCHANGED <<webhook, say, alert>>
  BY <1>3 DEF Connect, Replace, Close, Receive
<1>4. ASSUME NEW c \in Conns, NEW t \in Topics, Publish(c, t) PROVE UNCHANGED <<webhook, say, alert>>
  BY <1>4 DEF Publish
<1>5. ASSUME NEW cat, Mark(cat) PROVE UNCHANGED <<webhook, say, alert>> BY <1>5 DEF Mark
<1>6. CASE Restart
  <2>1. n \in ToSet(webhook) \cup ToSet(say) \cup ToSet(alert) => n \in InMemory BY DEF InMemory
  <2> QED BY <1>6, <2>1 DEF Restart
<1>7. ASSUME NEW h \in handling, HandleRpc(h)
      PROVE  UNCHANGED <<webhook, say>> /\ ToSet(alert) \subseteq ToSet(alert')
  <2>1. h[1] \in Lines BY DEF TypeOK
  <2>2. ToSet(alert) \subseteq ToSet(Append(alert, h[1])) BY <1>0, <2>1, AppendSet
  <2> QED BY <1>7, <2>2 DEF HandleRpc
<1>8. CASE ForwardChat
  <2>1. Head(queue["g2d_chat"]) \in Lines BY <1>8, PopSet, SubscriberNames DEF ForwardChat
  <2>2. ToSet(webhook) \subseteq ToSet(Append(webhook, Head(queue["g2d_chat"]))) BY <1>0, <2>1, AppendSet
  <2> QED BY <1>8, <2>2 DEF ForwardChat
<1>9. ASSUME NEW s \in {"g2d_join", "g2d_leave", "g2d_state"}, ForwardPlain(s)
      PROVE  UNCHANGED <<webhook, alert>> /\ ToSet(say) \subseteq ToSet(say')
  <2>1. Head(queue[s]) \in Lines BY <1>9, PopSet, SubscriberNames DEF ForwardPlain
  <2>2. ToSet(say) \subseteq ToSet(Append(say, Head(queue[s]))) BY <1>0, <2>1, AppendSet
  <2> QED BY <1>9, <2>2 DEF ForwardPlain
<1>10. ASSUME NEW d \in {"webhook", "say", "alert"}, NEW chan \in Seq(Lines), Post(d, chan),
              n \in ToSet(chan)
       PROVE  n \in lost' \cup ToSet(Tail(chan)) \cup ToSet(posted'[d])
  <2>1. Head(chan) \in Lines /\ ToSet(chan) = ToSet(Tail(chan)) \cup {Head(chan)}
    BY <1>10, TailSet DEF Post
  <2>2. Head(chan) \in ToSet(Append(posted[d], Head(chan))) BY <1>0, <2>1, AppendSet
  <2>3. CASE posted' = [posted EXCEPT ![d] = Append(@, Head(chan))]
    <3>1. posted'[d] = Append(posted[d], Head(chan)) BY <2>3 DEF TypeOK
    <3> QED BY <1>10, <2>1, <2>2, <3>1
  <2>4. CASE lost' = lost \cup {Head(chan)} BY <1>10, <2>1, <2>4
  <2> QED BY <1>10, <2>3, <2>4 DEF Post
<1>11. CASE Post("webhook", webhook)
  <2>1. webhook' = Tail(webhook) /\ UNCHANGED <<say, alert>> BY <1>11 DEF Post
  <2> QED BY <1>0, <1>10, <1>11, <2>1
<1>12. CASE Post("say", say)
  <2>1. say' = Tail(say) /\ UNCHANGED <<webhook, alert>> BY <1>12 DEF Post
  <2> QED BY <1>0, <1>10, <1>12, <2>1
<1>13. CASE Post("alert", alert)
  <2>1. alert' = Tail(alert) /\ UNCHANGED <<webhook, say>> BY <1>13 DEF Post
  <2> QED BY <1>0, <1>10, <1>13, <2>1
<1> QED BY <1>1, <1>2, <1>3, <1>4, <1>5, <1>6, <1>7, <1>8, <1>9, <1>11, <1>12, <1>13 DEF Next

(* A command that is being handled stays so until its data points are       *)
(* stored or its alert is in the channel, or it is lost.                    *)
LEMMA HandledStep ==
  ASSUME TypeOK, [Next]_vars, NEW n \in Lines, Handled(n)
  PROVE  \/ n \in lost' \/ Handled(n)'
         \/ /\ Kind(n) = "stream" => n \in metrics'
            /\ Kind(n) = "oneshot" => n \in ToSet(alert')
<1> USE DEF source, link, broker, store, discord, browser
<1>1. PICK g \in handling : g[1] = n BY DEF Handled
<1>2. CASE handling \subseteq handling' BY <1>1, <1>2 DEF Handled
<1>3. CASE PrintLine \/ Subscribe \/ Ingest \/ SpawnRpc \/ ForwardChat \/ Stream \/ View
           \/ UNCHANGED vars
  BY <1>2, <1>3 DEF PrintLine, Subscribe, Ingest, SpawnRpc, ForwardChat, Stream, View, vars
<1>4. ASSUME NEW c \in Conns, Connect(c) \/ Replace(c) \/ Close(c) \/ Receive(c)
      PROVE  UNCHANGED handling
  BY <1>4 DEF Connect, Replace, Close, Receive
<1>5. ASSUME NEW c \in Conns, NEW t \in Topics, Publish(c, t) PROVE UNCHANGED handling
  BY <1>5 DEF Publish
<1>6. ASSUME NEW cat, Mark(cat) PROVE UNCHANGED handling BY <1>6 DEF Mark
<1>7. ASSUME NEW s, ForwardPlain(s) PROVE UNCHANGED handling BY <1>7 DEF ForwardPlain
<1>8. ASSUME NEW d, NEW chan, Post(d, chan) PROVE UNCHANGED handling BY <1>8 DEF Post
<1>9. CASE Restart
  <2>1. n \in InMemory BY <1>1 DEF InMemory
  <2> QED BY <1>9, <2>1 DEF Restart
<1>10. ASSUME NEW h \in handling, HandleRpc(h)
       PROVE  \/ n \in lost' \/ Handled(n)'
              \/ /\ Kind(n) = "stream" => n \in metrics'
                 /\ Kind(n) = "oneshot" => n \in ToSet(alert')
  <2>1. CASE g # h
    <3>1. g \in handling' BY <1>1, <1>10, <2>1 DEF HandleRpc
    <3> QED BY <1>1, <3>1 DEF Handled
  <2>2. CASE g = h
    <3>1. alert \in Seq(Lines) BY DEF TypeOK
    <3>2. n \in ToSet(Append(alert, n)) BY <3>1, AppendSet
    <3> QED BY <1>1, <1>10, <2>2, <3>2 DEF HandleRpc
  <2> QED BY <2>1, <2>2
<1> QED BY <1>2, <1>3, <1>4, <1>5, <1>6, <1>7, <1>8, <1>9, <1>10 DEF Next

(* No step makes a line vanish that it does not drop. *)
LEMMA VanishStep ==
  ASSUME TypeOK, LineTagged, NothingVanishes, [Next]_vars
  PROVE  NothingVanishes'
<1>0. script' = script BY SameKinds
<1>1. ASSUME NEW n \in Lines', n \notin lost'
    PROVE
    /\ Kind(n) \in {"chat", "join", "leave", "started", "saved", "closed", "other"} =>
         n \in db' \cup ToSet(queue'["ingest"]) \/ Ahead(n, "stdout")'
    /\ Kind(n) = "chat" =>
         \/ n \in ToSet(posted'["webhook"]) \cup ToSet(webhook') \cup ToSet(queue'["g2d_chat"])
         \/ Ahead(n, "chat")'
    /\ Kind(n) \in {"join", "leave"} =>
         \/ n \in ToSet(posted'["say"]) \cup ToSet(say') \cup ToSet(queue'["g2d_join"])
                    \cup ToSet(queue'["g2d_leave"])
         \/ Ahead(n, Kind(n))'
    /\ Kind(n) \in {"started", "closed"} =>
         \/ n \in ToSet(posted'["say"]) \cup ToSet(say') \cup ToSet(queue'["g2d_state"])
         \/ Ahead(n, "serverstate")'
    /\ Kind(n) = "stream" =>
         n \in metrics' \cup ToSet(queue'["rpc"]) \/ Handled(n)' \/ Ahead(n, "rpc")'
    /\ Kind(n) = "oneshot" =>
         \/ n \in ToSet(posted'["alert"]) \cup ToSet(alert') \cup ToSet(queue'["rpc"])
         \/ Handled(n)' \/ Ahead(n, "rpc")'
  <2>1. CASE n \notin Lines
    <3>1. \A t : Ahead(n, t)' BY <1>1, <2>1, PrintedAhead
    <3> QED BY <3>1
  <2>2. CASE n \in Lines
    <3>0. n \notin lost BY <1>1, Lasting
    <3>1. /\ n \in db => n \in db'
          /\ n \in metrics => n \in metrics'
          /\ \A d \in {"webhook", "say", "alert"} : n \in ToSet(posted[d]) => n \in ToSet(posted'[d])
      BY Lasting
    <3>2. ASSUME NEW s \in Tasks, TopicOf[s] \in Tags(Kind(n)), Ahead(n, TopicOf[s])
          PROVE  Ahead(n, TopicOf[s])' \/ n \in ToSet(queue'[s])
      BY <1>1, <2>2, <3>2, AheadStep, PublishReaches
    <3>3. ASSUME NEW s \in Tasks, n \in ToSet(queue[s])
          PROVE  n \in ToSet(queue'[s]) \/ Brought(s, n)'
      BY <1>1, <3>3, QueueStep
    <3>4. /\ n \in ToSet(webhook) => n \in ToSet(webhook') \cup ToSet(posted'["webhook"])
          /\ n \in ToSet(say) => n \in ToSet(say') \cup ToSet(posted'["say"])
          /\ n \in ToSet(alert) => n \in ToSet(alert') \cup ToSet(posted'["alert"])
      BY <1>1, <2>2, ChannelStep
    <3>5. Handled(n) => \/ Handled(n)'
                        \/ /\ Kind(n) = "stream" => n \in metrics'
                           /\ Kind(n) = "oneshot" => n \in ToSet(alert')
      BY <1>1, <2>2, HandledStep
    <3>6. {"g2d_chat", "g2d_join", "g2d_leave", "g2d_state", "ingest", "rpc"} \subseteq Tasks
      BY SubscriberNames
    <3>7. /\ TopicOf["g2d_chat"] = "chat" /\ TopicOf["g2d_join"] = "join" /\ TopicOf["g2d_leave"] = "leave"
          /\ TopicOf["g2d_state"] = "serverstate" /\ TopicOf["ingest"] = "stdout" /\ TopicOf["rpc"] = "rpc"
      BY DEF TopicOf
    <3>8. ASSUME Kind(n) \in {"chat", "join", "leave", "started", "saved", "closed", "other"}
          PROVE  n \in db' \cup ToSet(queue'["ingest"]) \/ Ahead(n, "stdout")'
      <4>1. "stdout" \in Tags(Kind(n)) /\ StdoutCategory(Kind(n)) \in Stored
        BY <3>8 DEF Tags, StdoutCategory, Stored
      <4>2. Storable(n)' BY <1>0, <4>1 DEF Storable, Kind
      <4>3. n \in db \cup ToSet(queue["ingest"]) \/ Ahead(n, "stdout")
        BY <2>2, <3>0, <3>8 DEF NothingVanishes
      <4>4. CASE n \in ToSet(queue["ingest"]) BY <3>3, <3>6, <4>2, <4>4 DEF Brought
      <4>5. CASE Ahead(n, "stdout") BY <3>2, <3>6, <3>7, <4>1, <4>5
      <4> QED BY <3>1, <4>3, <4>4, <4>5
    <3>9. ASSUME Kind(n) = "chat"
          PROVE  \/ n \in ToSet(posted'["webhook"]) \cup ToSet(webhook') \cup ToSet(queue'["g2d_chat"])
                 \/ Ahead(n, "chat")'
      <4>1. "chat" \in Tags(Kind(n)) BY <3>9 DEF Tags
      <4>2. n \in ToSet(posted["webhook"]) \cup ToSet(webhook) \cup ToSet(queue["g2d_chat"]) \/ Ahead(n, "chat")
        BY <2>2, <3>0, <3>9 DEF NothingVanishes, Posted
      <4>3. CASE n \in ToSet(queue["g2d_chat"]) BY <3>3, <3>6, <4>3 DEF Brought
      <4>4. CASE Ahead(n, "chat") BY <3>2, <3>6, <3>7, <4>1, <4>4
      <4> QED BY <3>1, <3>4, <4>2, <4>3, <4>4
    <3>10. ASSUME Kind(n) \in {"join", "leave"}
           PROVE  \/ n \in ToSet(posted'["say"]) \cup ToSet(say') \cup ToSet(queue'["g2d_join"])
                             \cup ToSet(queue'["g2d_leave"])
                  \/ Ahead(n, Kind(n))'
      <4>1. Kind(n) \in Tags(Kind(n)) BY <3>10 DEF Tags
      <4>2. \/ n \in ToSet(posted["say"]) \cup ToSet(say) \cup ToSet(queue["g2d_join"])
                       \cup ToSet(queue["g2d_leave"])
            \/ Ahead(n, Kind(n))
        BY <2>2, <3>0, <3>10 DEF NothingVanishes, Posted
      <4>3. CASE n \in ToSet(queue["g2d_join"]) BY <3>3, <3>6, <4>3 DEF Brought
      <4>4. CASE n \in ToSet(queue["g2d_leave"]) BY <3>3, <3>6, <4>4 DEF Brought
      <4>5. CASE Ahead(n, Kind(n))
        <5>1. ASSUME Kind(n) = "join" PROVE Ahead(n, "join")' \/ n \in ToSet(queue'["g2d_join"])
          BY <3>2, <3>6, <3>7, <4>1, <4>5, <5>1
        <5>2. ASSUME Kind(n) = "leave" PROVE Ahead(n, "leave")' \/ n \in ToSet(queue'["g2d_leave"])
          BY <3>2, <3>6, <3>7, <4>1, <4>5, <5>2
        <5>3. Kind(n)' = Kind(n) BY <1>0 DEF Kind
        <5> QED BY <3>10, <5>1, <5>2, <5>3
      <4> QED BY <3>1, <3>4, <4>2, <4>3, <4>4, <4>5
    <3>11. ASSUME Kind(n) \in {"started", "closed"}
           PROVE  \/ n \in ToSet(posted'["say"]) \cup ToSet(say') \cup ToSet(queue'["g2d_state"])
                  \/ Ahead(n, "serverstate")'
      <4>1. "serverstate" \in Tags(Kind(n)) BY <3>11 DEF Tags
      <4>2. Announced(n)' BY <1>0, <3>11 DEF Announced, Kind
      <4>3. n \in ToSet(posted["say"]) \cup ToSet(say) \cup ToSet(queue["g2d_state"]) \/ Ahead(n, "serverstate")
        BY <2>2, <3>0, <3>11 DEF NothingVanishes, Posted
      <4>4. CASE n \in ToSet(queue["g2d_state"]) BY <3>3, <3>6, <4>2, <4>4 DEF Brought
      <4>5. CASE Ahead(n, "serverstate") BY <3>2, <3>6, <3>7, <4>1, <4>5
      <4> QED BY <3>1, <3>4, <4>3, <4>4, <4>5
    <3>12. ASSUME Kind(n) \in {"stream", "oneshot"}, n \in ToSet(queue["rpc"]) \/ Ahead(n, "rpc")
           PROVE  n \in ToSet(queue'["rpc"]) \/ Handled(n)' \/ Ahead(n, "rpc")'
      <4>1. "rpc" \in Tags(Kind(n)) BY <3>12 DEF Tags
      <4>2. CASE n \in ToSet(queue["rpc"]) BY <3>3, <3>6, <4>2 DEF Brought
      <4>3. CASE Ahead(n, "rpc") BY <3>2, <3>6, <3>7, <4>1, <4>3
      <4> QED BY <3>12, <4>2, <4>3
    <3>13. ASSUME Kind(n) = "stream"
           PROVE  n \in metrics' \cup ToSet(queue'["rpc"]) \/ Handled(n)' \/ Ahead(n, "rpc")'
      <4>1. n \in metrics \cup ToSet(queue["rpc"]) \/ Handled(n) \/ Ahead(n, "rpc")
        BY <2>2, <3>0, <3>13 DEF NothingVanishes
      <4> QED BY <3>1, <3>5, <3>12, <3>13, <4>1
    <3>14. ASSUME Kind(n) = "oneshot"
           PROVE  \/ n \in ToSet(posted'["alert"]) \cup ToSet(alert') \cup ToSet(queue'["rpc"])
                  \/ Handled(n)' \/ Ahead(n, "rpc")'
      <4>1. \/ n \in ToSet(posted["alert"]) \cup ToSet(alert) \cup ToSet(queue["rpc"])
            \/ Handled(n) \/ Ahead(n, "rpc")
        BY <2>2, <3>0, <3>14 DEF NothingVanishes, Posted
      <4> QED BY <3>1, <3>4, <3>5, <3>12, <3>14, <4>1
    <3> QED BY <3>8, <3>9, <3>10, <3>11, <3>13, <3>14
  <2> QED BY <2>1, <2>2
<1> QED BY <1>0, <1>1 DEF NothingVanishes, Posted, Kind

-----------------------------------------------------------------------------
(* Order on the way to the broker                                          *)

(* A new line has a larger number than every earlier one. *)
LEMMA NewAbove ==
  ASSUME TypeOK, [Next]_vars, NEW n \in Lines', n \notin Lines, NEW m \in Lines
  PROVE  m < n
BY ConstantsAssumption DEF TypeOK, Lines

(* Only one that has just been printed comes to a topic anew. *)
LEMMA FrontStep ==
  ASSUME TypeOK, LineTagged, [Next]_vars, NEW t, NEW n \in Lines, Ahead(n, t)'
  PROVE  Ahead(n, t)
<1> USE DEF source, link, broker, store, discord, browser
<1>0. PICK c \in Conns : n \in ToSet(bus'[c]) \/ (line'[c] = n /\ t \in topics'[c]) BY DEF Ahead
<1>a. bus[c] \in Seq(Lines) /\ Len(bus[c]) <= BusCapacity /\ BusCapacity \in Nat \ {0}
  BY ConstantsAssumption DEF TypeOK
<1>1. CASE UNCHANGED <<bus, line, topics>> BY <1>0, <1>1 DEF Ahead
<1>2. CASE PrintLine
  <2>1. bus[c] \in Seq(Nat) /\ printed' \in Nat /\ n # printed'
    <3>1. Lines \subseteq Nat /\ printed \in Nat /\ printed' \notin Lines
      BY <1>2, ConstantsAssumption DEF TypeOK, Lines, PrintLine
    <3>2. bus[c] \in Seq(Nat) BY <1>a, <3>1, SeqWider
    <3> QED BY <1>2, <3>1, <3>2 DEF PrintLine
  <2>2. ToSet(Push(bus[c], printed', BusCapacity)) \subseteq ToSet(bus[c]) \cup {printed'}
    BY <1>a, <2>1, PushSet
  <2>3. ToSet(bus'[c]) \subseteq ToSet(bus[c]) \cup {printed'} /\ UNCHANGED <<line, topics>>
    BY <1>2, <2>2 DEF PrintLine
  <2> QED BY <1>0, <2>1, <2>3 DEF Ahead
<1>3. CASE Behind BY <1>1, <1>3, BehindKeeps
<1>4. CASE Restart
  <2>1. bus'[c] = << >> /\ topics'[c] = {} BY <1>4 DEF Restart
  <2> QED BY <1>0, <2>1, EmptySet
<1>5. ASSUME NEW d \in Conns, Connect(d) \/ Replace(d) PROVE UNCHANGED <<bus, line, topics>>
  BY <1>5 DEF Connect, Replace
<1>6. ASSUME NEW d \in Conns, Close(d) PROVE Ahead(n, t)
  <2>1. bus'[c] = << >> \/ bus'[c] = bus[c] BY <1>6 DEF Close, TypeOK
  <2>2. UNCHANGED <<line, topics>> BY <1>6 DEF Close
  <2> QED BY <1>0, <2>1, <2>2, EmptySet DEF Ahead
<1>7. ASSUME NEW d \in Conns, Receive(d) PROVE Ahead(n, t)
  <2>1. CASE d = c
    <3>1. bus[c] # << >> BY <1>7, <2>1 DEF Receive
    <3>2. ToSet(bus[c]) = ToSet(Tail(bus[c])) \cup {Head(bus[c])} BY <1>a, <3>1, TailSet
    <3>3. bus'[c] = Tail(bus[c]) /\ (line'[c] = 0 \/ line'[c] = Head(bus[c]))
      BY <1>7, <2>1 DEF Receive, TypeOK
    <3>4. n # 0 BY DEF Lines
    <3> QED BY <1>0, <3>2, <3>3, <3>4 DEF Ahead
  <2>2. CASE d # c BY <1>0, <1>7, <2>2 DEF Receive, Ahead, TypeOK
  <2> QED BY <2>1, <2>2
<1>8. ASSUME NEW d \in Conns, NEW u \in Topics, Publish(d, u) PROVE Ahead(n, t)
  <2>1. topics'[c] \subseteq topics[c] /\ UNCHANGED bus BY <1>8 DEF Publish, TypeOK
  <2>2. line'[c] = line[c] \/ line'[c] = 0 BY <1>8 DEF Publish, TypeOK
  <2>3. n # 0 BY DEF Lines
  <2> QED BY <1>0, <2>1, <2>2, <2>3 DEF Ahead
<1> QED BY <1>1, <1>2, <1>3, <1>4, <1>5, <1>6, <1>7, <1>8, StepKinds

(* Every step keeps what a connection has still to publish in order. *)
LEMMA BusStep ==
  ASSUME TypeOK, LineTagged, BusInOrder, [Next]_vars
  PROVE  BusInOrder'
<1> USE DEF source, link, broker, store, discord, browser
<1> SUFFICES ASSUME NEW d \in Conns
             PROVE  /\ bus'[d] # << >> => Live(d)'
                    /\ Ordered(bus'[d])
                    /\ topics'[d] # {} => \A m \in ToSet(bus'[d]) : line'[d] < m
  BY DEF BusInOrder
<1>0. /\ bus[d] # << >> => Live(d)
      /\ Ordered(bus[d])
      /\ topics[d] # {} => \A m \in ToSet(bus[d]) : line[d] < m
  BY DEF BusInOrder
<1>a. bus[d] \in Seq(Lines) /\ Len(bus[d]) <= BusCapacity /\ BusCapacity \in Nat \ {0}
  BY ConstantsAssumption DEF TypeOK
<1>b. Lines \subseteq Nat /\ printed \in Nat BY ConstantsAssumption DEF TypeOK, Lines
<1>c. bus[d] \in Seq(Nat) BY <1>a, <1>b, SeqWider
<1>d. Ordered(<< >>) BY DEF Ordered
<1>1. CASE UNCHANGED <<bus, line, topics>> /\ (Live(d) => Live(d)')
  <2>1. bus'[d] = bus[d] /\ line'[d] = line[d] /\ topics'[d] = topics[d] BY <1>1
  <2> QED BY <1>0, <1>1, <2>1
<1>2. CASE PrintLine
  <2>1. UNCHANGED <<conn, line, topics>> BY <1>2 DEF PrintLine
  <2>2. Live(d)' <=> Live(d) BY <2>1 DEF Live
  <2>3. CASE ~Live(d)
    <3>1. bus'[d] = bus[d] BY <1>2, <2>3 DEF PrintLine
    <3> QED BY <1>0, <2>1, <2>2, <3>1
  <2>4. CASE Live(d)
    <3> DEFINE n == printed'
    <3>1. bus'[d] = Push(bus[d], n, BusCapacity) BY <1>2, <2>4 DEF PrintLine
    <3>2. n \in Nat /\ \A m \in Lines : m < n BY <1>2, <1>b DEF PrintLine, Lines
    <3> HIDE DEF n
    <3>3. ToSet(bus[d]) \subseteq Lines BY <1>a, ToSetIs
    <3>4. Below(ToSet(bus[d]), {n}) BY <3>2, <3>3 DEF Below
    <3>5. Ordered(Push(bus[d], n, BusCapacity)) BY <1>0, <1>a, <1>c, <3>2, <3>4, OrderedPush
    <3>6. ToSet(Push(bus[d], n, BusCapacity)) \subseteq ToSet(bus[d]) \cup {n}
      BY <1>a, <1>c, <3>2, PushSet
    <3>7. topics[d] # {} => line[d] < n BY <3>2 DEF LineTagged
    <3> QED BY <1>0, <2>1, <2>2, <2>4, <3>1, <3>5, <3>6, <3>7
  <2> QED BY <2>3, <2>4
<1>3. CASE Behind
  <2>1. UNCHANGED <<conn, bus, line, topics>> BY <1>3, BehindKeeps
  <2> QED BY <1>1, <2>1 DEF Live
<1>4. CASE Restart
  <2>1. bus'[d] = << >> /\ topics'[d] = {} BY <1>4 DEF Restart
  <2> QED BY <1>d, <2>1
<1>5. ASSUME NEW c \in Conns, Connect(c) \/ Replace(c)
      PROVE  UNCHANGED <<bus, line, topics>> /\ (Live(d) => Live(d)')
  BY <1>5 DEF Connect, Replace, Live, TypeOK
<1>6. ASSUME NEW c \in Conns, Close(c)
      PROVE  /\ bus'[d] # << >> => Live(d)'
             /\ Ordered(bus'[d])
             /\ topics'[d] # {} => \A m \in ToSet(bus'[d]) : line'[d] < m
  <2>0. UNCHANGED <<line, topics>> BY <1>6 DEF Close
  <2>1. CASE d = c
    <3>1. bus'[d] = << >> BY <1>6, <2>1 DEF Close, TypeOK
    <3> QED BY <1>d, <3>1, EmptySet
  <2>2. CASE d # c
    <3>1. bus'[d] = bus[d] /\ conn'[d] = conn[d] BY <1>6, <2>2 DEF Close, TypeOK
    <3> QED BY <1>0, <2>0, <3>1 DEF Live
  <2> QED BY <2>1, <2>2
<1>7. ASSUME NEW c \in Conns, Receive(c)
      PROVE  /\ bus'[d] # << >> => Live(d)'
             /\ Ordered(bus'[d])
             /\ topics'[d] # {} => \A m \in ToSet(bus'[d]) : line'[d] < m
  <2>1. CASE d = c
    <3>1. bus[d] # << >> /\ conn' = conn BY <1>7, <2>1 DEF Receive
    <3>2. Live(d)' BY <1>0, <3>1 DEF Live
    <3>3. bus'[d] = Tail(bus[d]) /\ (topics'[d] # {} => line'[d] = Head(bus[d]))
      BY <1>7, <2>1 DEF Receive, TypeOK
    <3>4. OrdIn(bus[d], Nat) BY <1>0, <1>c, OrderedIs
    <3>5. Tail(bus[d]) \in Seq(Nat) /\ Head(bus[d]) \in Nat BY <1>c, <3>1, TailSet
    <3>6. OrdIn(Tail(bus[d]), Nat) /\ Below({Head(bus[d])} \cap Nat, ToSet(Tail(bus[d])) \cap Nat)
      BY <1>c, <3>1, <3>4, OrdTail
    <3> DEFINE q == Tail(bus[d])
    <3> HIDE DEF q
    <3>7. Ordered(q) BY <3>5, <3>6, OrderedIs DEF q
    <3>8. ToSet(q) \subseteq Nat BY <3>5, ToSetIs DEF q
    <3>9. \A m \in ToSet(q) : Head(bus[d]) < m BY <3>5, <3>6, <3>8 DEF q, Below
    <3> QED BY <3>2, <3>3, <3>7, <3>9 DEF q
  <2>2. CASE d # c
    <3>1. bus'[d] = bus[d] /\ topics'[d] = topics[d] /\ line'[d] = line[d] /\ conn' = conn
      BY <1>7, <2>2 DEF Receive, TypeOK
    <3> QED BY <1>0, <3>1 DEF Live
  <2> QED BY <2>1, <2>2
<1>8. ASSUME NEW c \in Conns, NEW t \in Topics, Publish(c, t)
      PROVE  /\ bus'[d] # << >> => Live(d)'
             /\ Ordered(bus'[d])
             /\ topics'[d] # {} => \A m \in ToSet(bus'[d]) : line'[d] < m
  <2>1. bus' = bus /\ conn' = conn /\ topics'[d] \subseteq topics[d] BY <1>8 DEF Publish, TypeOK
  <2>2. topics'[d] # {} => line'[d] = line[d] BY <1>8 DEF Publish, TypeOK
  <2> QED BY <1>0, <2>1, <2>2 DEF Live
<1> QED BY <1>1, <1>2, <1>3, <1>4, <1>5, <1>6, <1>7, <1>8, StepKinds

(* Without overlap there is only one connection that publishes. *)
LEMMA AloneStep ==
  ASSUME TypeOK, LineTagged, BusInOrder, [Next]_vars, ~overlap'
  PROVE  ~overlap /\ (Alone => Alone')
<1> USE DEF source, link, broker, store, discord, browser
<1>1. CASE ~overlap /\ \A d \in Conns : Active(d)' => Active(d) BY <1>1 DEF Alone
<1>2. CASE PrintLine BY <1>1, <1>2 DEF PrintLine, Active, Live
<1>3. CASE Behind BY <1>1, <1>3, BehindKeeps DEF Active, Live
<1>4. CASE Restart BY <1>1, <1>4 DEF Restart, Active, Live
<1>5. ASSUME NEW c \in Conns, Connect(c) PROVE ~overlap /\ Alone'
  <2>1. /\ ~overlap /\ \A d \in Conns : conn[d] \notin {"open", "replaced"} /\ topics[d] = {}
    BY <1>5 DEF Connect
  <2>2. \A d \in Conns : Active(d)' => d = c BY <1>5, <2>1 DEF Connect, Active, Live, TypeOK
  <2> QED BY <2>1, <2>2 DEF Alone
<1>6. ASSUME NEW c \in Conns, Replace(c) \/ Close(c) \/ Receive(c)
      PROVE  ~overlap /\ \A d \in Conns : Active(d)' => Active(d)
  <2>0. overlap' = overlap BY <1>6 DEF Replace, Close, Receive
  <2>1. ASSUME NEW d \in Conns, Active(d)' PROVE Active(d)
    <3>1. CASE Replace(c) BY <2>1, <3>1 DEF Replace, Active, Live, TypeOK
    <3>2. CASE Close(c) BY <2>1, <3>2 DEF Close, Active, Live, TypeOK
    <3>3. CASE Receive(c) BY <2>1, <3>3 DEF Receive, Active, Live, TypeOK, BusInOrder
    <3> QED BY <1>6, <3>1, <3>2, <3>3
  <2> QED BY <2>0, <2>1
<1>7. ASSUME NEW c \in Conns, NEW t \in Topics, Publish(c, t)
      PROVE  ~overlap /\ \A d \in Conns : Active(d)' => Active(d)
  BY <1>7 DEF Publish, Active, Live, TypeOK
<1> QED BY <1>1, <1>2, <1>3, <1>4, <1>5, <1>6, <1>7, StepKinds

(* What is published comes before everything that is left for its topic. *)
LEMMA PublishLeast ==
  ASSUME TypeOK, LineTagged, BusInOrder, Alone, NEW c \in Conns, NEW t \in Topics, Publish(c, t)
  PROVE  /\ line[c] \in InFront(t) /\ t \in Tags(Kind(line[c]))
         /\ Below({line[c]}, InFront(t)')
<1>1. /\ t \in topics[c] /\ line[c] \in Lines /\ topics[c] \subseteq Tags(Kind(line[c]))
      /\ Active(c) /\ UNCHANGED <<printed, bus, conn>>
  BY DEF Publish, LineTagged, Active, source
<1>2. line[c] \in InFront(t) BY <1>1 DEF InFront, Ahead
<1>3. ASSUME NEW m \in InFront(t)' PROVE line[c] < m
  <2>1. PICK e \in Conns : m \in ToSet(bus'[e]) \/ (line'[e] = m /\ t \in topics'[e])
    BY DEF InFront, Ahead
  <2>2. CASE m \in ToSet(bus'[e])
    <3>1. m \in ToSet(bus[e]) BY <1>1, <2>2
    <3>2. Live(e) BY <3>1, EmptySet DEF BusInOrder
    <3>3. e = c BY <1>1, <3>2 DEF Alone, Active
    <3> QED BY <1>1, <3>1, <3>3 DEF BusInOrder
  <2>3. CASE t \in topics'[e]
    <3>1. t \in topics[e] /\ e # c BY <2>3 DEF Publish, TypeOK
    <3>2. Active(e) BY <3>1 DEF Active
    <3> QED BY <1>1, <3>1, <3>2 DEF Alone
  <2> QED BY <2>1, <2>2, <2>3
<1> QED BY <1>1, <1>2, <1>3 DEF Below

-----------------------------------------------------------------------------
(* Order in the queues                                                     *)

(* What a step does to the queue of a subscriber. *)
LEMMA QueueChange ==
  ASSUME TypeOK, LineTagged, [Next]_vars, NEW s \in Subscribers
  PROVE  \/ queue'[s] = queue[s] \/ queue'[s] = << >> \/ Pop(s)
         \/ \E c \in Conns : /\ TopicOf[s] \in Topics /\ Publish(c, TopicOf[s])
                             /\ queue'[s] = Push(queue[s], line[c], Capacity)
<1> USE DEF source, link, broker, store, discord, browser
<1>a. {"g2d_chat", "g2d_join", "g2d_leave", "g2d_state", "ingest", "rpc", Viewer} \subseteq Subscribers
  BY SubscriberNames
<1>1. CASE UNCHANGED queue BY <1>1
<1>2. CASE PrintLine \/ Subscribe \/ Stream \/ UNCHANGED vars
  BY <1>1, <1>2 DEF PrintLine, Subscribe, Stream, vars
<1>3. ASSUME NEW c \in Conns, Connect(c) \/ Replace(c) \/ Close(c) \/ Receive(c) PROVE UNCHANGED queue
  BY <1>3 DEF Connect, Replace, Close, Receive
<1>4. ASSUME NEW c \in Conns, NEW t \in Topics, Publish(c, t)
      PROVE  \/ queue'[s] = queue[s]
             \/ /\ TopicOf[s] \in Topics /\ Publish(c, TopicOf[s])
                /\ queue'[s] = Push(queue[s], line[c], Capacity)
  BY <1>4 DEF Publish
<1>5. ASSUME NEW r \in Subscribers, Pop(r) PROVE queue'[s] = queue[s] \/ Pop(s) BY <1>5, PopSet
<1>6. CASE Ingest \/ SpawnRpc \/ ForwardChat \/ View
  BY <1>a, <1>5, <1>6 DEF Ingest, SpawnRpc, ForwardChat, View
<1>7. ASSUME NEW h \in handling, HandleRpc(h) PROVE UNCHANGED queue BY <1>7 DEF HandleRpc
<1>8. ASSUME NEW r \in {"g2d_join", "g2d_leave", "g2d_state"}, ForwardPlain(r)
      PROVE  queue'[s] = queue[s] \/ Pop(s)
  BY <1>a, <1>5, <1>8 DEF ForwardPlain
<1>9. ASSUME NEW d, NEW chan, Post(d, chan) PROVE UNCHANGED queue BY <1>9 DEF Post
<1>10. ASSUME NEW cat, Mark(cat) PROVE UNCHANGED queue BY <1>10 DEF Mark
<1>11. CASE Restart BY <1>11 DEF Restart
<1> QED BY <1>1, <1>2, <1>3, <1>4, <1>6, <1>7, <1>8, <1>9, <1>10, <1>11 DEF Next

(* What has been in front of what comes to a topic still is. *)
LEMMA FrontKept ==
  ASSUME TypeOK, LineTagged, [Next]_vars, NEW t, NEW D \in SUBSET Lines, Below(D, InFront(t))
  PROVE  Below(D, InFront(t)')
<1>1. ASSUME NEW a \in D, NEW n \in InFront(t)' PROVE a < n
  <2>1. n \in Lines' /\ Ahead(n, t)' BY DEF InFront
  <2>2. CASE n \in Lines
    <3>1. n \in InFront(t) BY <2>1, <2>2, FrontStep DEF InFront
    <3> QED BY <3>1 DEF Below
  <2>3. CASE n \notin Lines
    <3>1. a \in Lines OBVIOUS
    <3> QED BY <2>1, <2>3, <3>1, NewAbove
  <2> QED BY <2>2, <2>3
<1> QED BY <1>1 DEF Below

(* Every step leaves the queues in order. *)
LEMMA QueueOrderStep ==
  ASSUME TypeOK, LineTagged, BusInOrder, Alone, QueueInOrder, [Next]_vars
  PROVE  QueueInOrder'
<1>0. ASSUME NEW s \in Subscribers
      PROVE  Ordered(queue'[s]) /\ Below(ToSet(queue'[s]), InFront(TopicOf[s])')
  <2>1. /\ queue[s] \in Seq(Lines) /\ Len(queue[s]) <= Capacity /\ Capacity \in Nat \ {0}
        /\ Lines \subseteq Nat
    BY ConstantsAssumption DEF TypeOK, Lines
  <2>2. queue[s] \in Seq(Nat) /\ ToSet(queue[s]) \in SUBSET Lines BY <2>1, SeqWider, ToSetIs
  <2>3. Ordered(queue[s]) /\ Below(ToSet(queue[s]), InFront(TopicOf[s])) BY DEF QueueInOrder
  <2>4. Below(ToSet(queue[s]), InFront(TopicOf[s])') BY <2>2, <2>3, FrontKept
  <2>5. CASE queue'[s] = queue[s] BY <2>3, <2>4, <2>5
  <2>6. CASE queue'[s] = << >>
    <3>1. Ordered(<< >>) BY DEF Ordered
    <3> QED BY <2>6, <3>1, EmptySet DEF Below
  <2>7. CASE Pop(s)
    <3>1. /\ queue[s] # << >> /\ queue'[s] = Tail(queue[s]) /\ Tail(queue[s]) \in Seq(Lines)
          /\ ToSet(queue'[s]) \subseteq ToSet(queue[s])
      BY <2>7, PopSet
    <3>2. OrdIn(queue[s], Nat) BY <2>2, <2>3, OrderedIs
    <3>3. OrdIn(Tail(queue[s]), Nat) BY <2>2, <3>1, <3>2, OrdTail
    <3>4. Tail(queue[s]) \in Seq(Nat) BY <2>1, <3>1, SeqWider
    <3>5. Ordered(queue'[s]) BY <3>1, <3>3, <3>4, OrderedIs
    <3> QED BY <2>4, <3>1, <3>5 DEF Below
  <2>8. ASSUME NEW c \in Conns, TopicOf[s] \in Topics, Publish(c, TopicOf[s]),
               queue'[s] = Push(queue[s], line[c], Capacity)
        PROVE  Ordered(queue'[s]) /\ Below(ToSet(queue'[s]), InFront(TopicOf[s])')
    <3>1. line[c] \in InFront(TopicOf[s]) /\ Below({line[c]}, InFront(TopicOf[s])')
      BY <2>8, PublishLeast
    <3>2. line[c] \in Nat BY <2>1, <3>1 DEF InFront
    <3>3. Below(ToSet(queue[s]), {line[c]}) BY <2>3, <3>1 DEF Below
    <3>4. Ordered(Push(queue[s], line[c], Capacity)) BY <2>1, <2>2, <2>3, <3>2, <3>3, OrderedPush
    <3>5. ToSet(Push(queue[s], line[c], Capacity)) \subseteq ToSet(queue[s]) \cup {line[c]}
      BY <2>1, <2>2, <3>2, PushSet
    <3>6. Below(ToSet(queue'[s]), InFront(TopicOf[s])') BY <2>4, <2>8, <3>1, <3>5 DEF Below
    <3> QED BY <2>8, <3>4, <3>6
  <2> QED BY <2>5, <2>6, <2>7, <2>8, QueueChange
<1> QED BY <1>0 DEF QueueInOrder

(* Every queue holds what is tagged for its topic. *)
LEMMA QueueTaggedStep ==
  ASSUME TypeOK, LineTagged, QueueTagged, [Next]_vars
  PROVE  QueueTagged'
<1>0. script' = script BY SameKinds
<1>1. ASSUME NEW s \in Subscribers, NEW n \in ToSet(queue'[s]) PROVE TopicOf[s] \in Tags(Kind(n))
  <2>1. queue[s] \in Seq(Lines) /\ Len(queue[s]) <= Capacity /\ Capacity \in Nat \ {0}
    BY ConstantsAssumption DEF TypeOK
  <2>2. n \in ToSet(queue[s]) => TopicOf[s] \in Tags(Kind(n)) BY DEF QueueTagged
  <2>3. CASE queue'[s] = queue[s] BY <1>1, <2>2, <2>3
  <2>4. CASE queue'[s] = << >> BY <1>1, <2>4, EmptySet
  <2>5. CASE Pop(s) BY <1>1, <2>2, <2>5, PopSet
  <2>6. ASSUME NEW c \in Conns, Publish(c, TopicOf[s]), queue'[s] = Push(queue[s], line[c], Capacity)
        PROVE  TopicOf[s] \in Tags(Kind(n))
    <3>1. line[c] \in Lines /\ TopicOf[s] \in Tags(Kind(line[c])) BY <2>6 DEF Publish, LineTagged
    <3>2. ToSet(Push(queue[s], line[c], Capacity)) \subseteq ToSet(queue[s]) \cup {line[c]}
      BY <2>1, <3>1, PushSet
    <3> QED BY <1>1, <2>2, <2>6, <3>1, <3>2
  <2> QED BY <2>3, <2>4, <2>5, <2>6, QueueChange
<1> QED BY <1>0, <1>1 DEF QueueTagged, Kind

(* Nothing comes to a subscriber anew but what has just been printed.       *)
LEMMA ComingStep ==
  ASSUME TypeOK, LineTagged, BusInOrder, Alone, [Next]_vars, NEW s \in Subscribers,
         NEW n \in ToCome(s)'
  PROVE  n \in ToCome(s) \/ (n \in Lines' /\ n \notin Lines)
<1>1. queue[s] \in Seq(Lines) /\ Len(queue[s]) <= Capacity /\ Capacity \in Nat \ {0}
  BY ConstantsAssumption DEF TypeOK
<1>2. CASE n \in InFront(TopicOf[s])'
  <2>1. n \in Lines' /\ Ahead(n, TopicOf[s])' BY <1>2 DEF InFront
  <2>2. n \in Lines => n \in InFront(TopicOf[s]) BY <2>1, FrontStep DEF InFront
  <2> QED BY <2>1, <2>2 DEF ToCome
<1>3. CASE n \in ToSet(queue'[s])
  <2>1. CASE queue'[s] = queue[s] BY <1>3, <2>1 DEF ToCome
  <2>2. CASE queue'[s] = << >> BY <1>3, <2>2, EmptySet
  <2>3. CASE Pop(s) BY <1>3, <2>3, PopSet DEF ToCome
  <2>4. ASSUME NEW c \in Conns, TopicOf[s] \in Topics, Publish(c, TopicOf[s]),
               queue'[s] = Push(queue[s], line[c], Capacity)
        PROVE  n \in ToCome(s)
    <3>1. line[c] \in InFront(TopicOf[s]) /\ line[c] \in Lines BY <2>4, PublishLeast DEF InFront
    <3>2. ToSet(Push(queue[s], line[c], Capacity)) \subseteq ToSet(queue[s]) \cup {line[c]}
      BY <1>1, <3>1, PushSet
    <3> QED BY <1>3, <2>4, <3>1, <3>2 DEF ToCome
  <2> QED BY <2>1, <2>2, <2>3, <2>4, QueueChange
<1> QED BY <1>2, <1>3 DEF ToCome

(* What comes before all that is to come to a subscriber still does, ...    *)
LEMMA ComingKept ==
  ASSUME TypeOK, LineTagged, BusInOrder, Alone, [Next]_vars, NEW s \in Subscribers,
         NEW D \in SUBSET Lines, Below(D, ToCome(s))
  PROVE  Below(D, ToCome(s)')
<1>1. ASSUME NEW a \in D, NEW n \in ToCome(s)' PROVE a < n
  <2>1. CASE n \in ToCome(s) BY <2>1 DEF Below
  <2>2. CASE n \in Lines' /\ n \notin Lines
    <3>1. a \in Lines OBVIOUS
    <3> QED BY <2>2, <3>1, NewAbove
  <2> QED BY <2>1, <2>2, ComingStep
<1> QED BY <1>1 DEF Below

(* ... and so does what it takes from its queue.                            *)
LEMMA Taken ==
  ASSUME TypeOK, LineTagged, BusInOrder, Alone, QueueInOrder, [Next]_vars, NEW s \in Subscribers,
         Pop(s)
  PROVE  /\ Head(queue[s]) \in Lines /\ Head(queue[s]) \in ToSet(queue[s])
         /\ Head(queue[s]) \in ToCome(s) /\ Below({Head(queue[s])}, ToCome(s)')
<1> DEFINE h == Head(queue[s])
<1>1. /\ queue[s] \in Seq(Lines) /\ queue[s] # << >> /\ h \in Lines
      /\ queue'[s] = Tail(queue[s]) /\ Tail(queue[s]) \in Seq(Lines)
      /\ h \in ToSet(queue[s])
  BY PopSet
<1>2. Lines \subseteq Nat BY DEF Lines
<1>3. queue[s] \in Seq(Nat) /\ Tail(queue[s]) \in Seq(Nat) /\ h \in Nat BY <1>1, <1>2, SeqWider
<1>4. OrdIn(queue[s], Nat) BY <1>3, OrderedIs DEF QueueInOrder
<1>5. Below({h} \cap Nat, ToSet(Tail(queue[s])) \cap Nat) BY <1>1, <1>3, <1>4, OrdTail
<1>6. ToSet(Tail(queue[s])) \subseteq Nat BY <1>3, ToSetIs
<1>7. Below({h}, ToSet(queue'[s])) BY <1>1, <1>3, <1>5, <1>6 DEF Below
<1>8. Below({h}, InFront(TopicOf[s])) BY <1>1 DEF QueueInOrder, Below
<1>9. Below({h}, InFront(TopicOf[s])')
  <2>1. {h} \in SUBSET Lines BY <1>1
  <2> HIDE DEF h
  <2> QED BY <1>8, <2>1, FrontKept
<1>10. Below({h}, ToCome(s)') BY <1>7, <1>9 DEF Below, ToCome
<1> QED BY <1>1, <1>10 DEF ToCome

-----------------------------------------------------------------------------
(* Order in the database and on Discord                                    *)

(* Only log ingestion writes to the database. *)
LEMMA DbStep ==
  ASSUME [Next]_vars
  PROVE  UNCHANGED db \/ (Pop("ingest") /\ db' \subseteq db \cup {Head(queue["ingest"])})
<1> USE DEF source, link, broker, store, discord, browser
<1>1. CASE Ingest BY <1>1 DEF Ingest
<1>2. CASE PrintLine \/ Subscribe \/ SpawnRpc \/ ForwardChat \/ Stream \/ View \/ Restart
           \/ UNCHANGED vars
  BY <1>2 DEF PrintLine, Subscribe, SpawnRpc, ForwardChat, Stream, View, Restart, vars
<1>3. ASSUME NEW c \in Conns, Connect(c) \/ Replace(c) \/ Close(c) \/ Receive(c) PROVE UNCHANGED db
  BY <1>3 DEF Connect, Replace, Close, Receive
<1>4. ASSUME NEW c \in Conns, NEW t \in Topics, Publish(c, t) PROVE UNCHANGED db BY <1>4 DEF Publish
<1>5. ASSUME NEW h \in handling, HandleRpc(h) PROVE UNCHANGED db BY <1>5 DEF HandleRpc
<1>6. ASSUME NEW r, ForwardPlain(r) PROVE UNCHANGED db BY <1>6 DEF ForwardPlain
<1>7. ASSUME NEW d, NEW chan, Post(d, chan) PROVE UNCHANGED db BY <1>7 DEF Post
<1>8. ASSUME NEW cat, Mark(cat) PROVE UNCHANGED db BY <1>8 DEF Mark
<1> QED BY <1>1, <1>2, <1>3, <1>4, <1>5, <1>6, <1>7, <1>8 DEF Next

(* What is stored comes before what is still to be stored. *)
LEMMA StoredStep ==
  ASSUME TypeOK, LineTagged, BusInOrder, Alone, QueueInOrder, StoredFirst, [Next]_vars
  PROVE  StoredFirst'
<1>0. "ingest" \in Subscribers BY SubscriberNames
<1>1. db \in SUBSET Lines BY DEF TypeOK
<1>2. Below(db, ToCome("ingest")') BY <1>0, <1>1, ComingKept DEF StoredFirst
<1>3. CASE UNCHANGED db BY <1>2, <1>3 DEF StoredFirst
<1>4. CASE Pop("ingest") /\ db' \subseteq db \cup {Head(queue["ingest"])}
  <2>1. Below({Head(queue["ingest"])}, ToCome("ingest")') BY <1>0, <1>4, Taken
  <2> QED BY <1>2, <1>4, <2>1 DEF StoredFirst, Below
<1> QED BY <1>3, <1>4, DbStep

(* What comes later can be appended to a channel. *)
LEMMA Forwarded ==
  ASSUME NEW S, NEW C, NEW D, NEW p \in Seq(Nat), NEW q \in Seq(Nat), NEW x \in Nat,
         InChannel(p, q, S, C), x \in S => x \in C,
         Below({x} \cap S, D), Below((ToSet(p) \cup ToSet(q)) \cap S, D)
  PROVE  InChannel(p, Append(q, x), S, D)
<1>1. Append(q, x) \in Seq(Nat) /\ ToSet(Append(q, x)) = ToSet(q) \cup {x} BY AppendSet
<1>2. Below((ToSet(p) \cup ToSet(q)) \cap S, {x} \cap S) BY DEF InChannel, Below
<1>3. OrdIn(q, S) /\ Below(ToSet(q) \cap S, {x} \cap S) BY <1>2 DEF InChannel, Below
<1>4. OrdIn(Append(q, x), S) BY <1>3, OrdAppend
<1>5. Below(ToSet(p) \cap S, ToSet(Append(q, x)) \cap S) BY <1>1, <1>2 DEF InChannel, Below
<1>6. Below((ToSet(p) \cup ToSet(Append(q, x))) \cap S, D) BY <1>1 DEF Below
<1>7. OrdIn(p, S) BY DEF InChannel
<1> QED BY <1>4, <1>5, <1>6, <1>7 DEF InChannel

(* The head of a channel can be posted, or dropped. *)
LEMMA Delivered ==
  ASSUME NEW S, NEW C, NEW p \in Seq(Nat), NEW q \in Seq(Nat), InChannel(p, q, S, C), q # << >>
  PROVE  InChannel(Append(p, Head(q)), Tail(q), S, C) /\ InChannel(p, Tail(q), S, C)
<1> DEFINE h == Head(q)
           t == Tail(q)
<1>1. t \in Seq(Nat) /\ h \in Nat /\ ToSet(q) = ToSet(t) \cup {h} BY TailSet
<1>2. OrdIn(t, S) /\ Below({h} \cap S, ToSet(t) \cap S) BY OrdTail DEF InChannel
<1> HIDE DEF h, t
<1>3. Append(p, h) \in Seq(Nat) /\ ToSet(Append(p, h)) = ToSet(p) \cup {h} BY <1>1, AppendSet
<1>4. OrdIn(p, S) /\ Below(ToSet(p) \cap S, {h} \cap S) BY <1>1 DEF InChannel, Below
<1>5. OrdIn(Append(p, h), S) BY <1>1, <1>4, OrdAppend
<1>6. Below(ToSet(Append(p, h)) \cap S, ToSet(t) \cap S) BY <1>1, <1>2, <1>3 DEF InChannel, Below
<1>7. Below(ToSet(p) \cap S, ToSet(t) \cap S) BY <1>1 DEF InChannel, Below
<1>8. Below((ToSet(p) \cup ToSet(t)) \cap S, C) BY <1>1 DEF InChannel, Below
<1>9. Below((ToSet(Append(p, h)) \cup ToSet(t)) \cap S, C) BY <1>1, <1>3 DEF InChannel, Below
<1> QED BY <1>2, <1>4, <1>5, <1>6, <1>7, <1>8, <1>9 DEF InChannel, h, t

(* A channel can be emptied. *)
LEMMA Emptied ==
  ASSUME NEW S, NEW C, NEW p, NEW q, InChannel(p, q, S, C)
  PROVE  InChannel(p, << >>, S, C)
<1>1. OrdIn(<< >>, S) BY DEF OrdIn
<1>2. Below((ToSet(p) \cup {}) \cap S, C) BY DEF InChannel, Below
<1> QED BY <1>1, <1>2, EmptySet DEF InChannel, Below

(* A channel stays in order while what is to come only loses members.       *)
LEMMA ChannelKept ==
  ASSUME TypeOK, LineTagged, BusInOrder, Alone, [Next]_vars, NEW s \in Subscribers, NEW S,
         NEW p \in Seq(Lines), NEW q \in Seq(Lines), InChannel(p, q, S, ToCome(s))
  PROVE  InChannel(p, q, S, ToCome(s)')
<1>1. (ToSet(p) \cup ToSet(q)) \cap S \in SUBSET Lines BY ToSetIs
<1>2. Below((ToSet(p) \cup ToSet(q)) \cap S, ToCome(s)) BY DEF InChannel
<1>3. Below((ToSet(p) \cup ToSet(q)) \cap S, ToCome(s)')
  <2> DEFINE D == (ToSet(p) \cup ToSet(q)) \cap S
  <2> HIDE DEF D
  <2>1. D \in SUBSET Lines /\ Below(D, ToCome(s)) BY <1>1, <1>2 DEF D
  <2>2. Below(D, ToCome(s)') BY <2>1, ComingKept
  <2> QED BY <2>2 DEF D
<1> QED BY <1>3 DEF InChannel

(* What a step does to a channel q to Discord and the messages p posted     *)
(* from it: nothing, append what a bridge task has taken from its queue,    *)
(* post or drop the oldest message, or clear the channel.                   *)
Moved(p, q, pp, qq, sources) ==
  \/ pp = p /\ qq = q
  \/ \E s \in sources : Pop(s) /\ pp = p /\ qq = Append(q, Head(queue[s]))
  \/ q # << >> /\ qq = Tail(q) /\ (pp = p \/ pp = Append(p, Head(q)))
  \/ pp = p /\ qq = << >>

Bridged == {"g2d_join", "g2d_leave", "g2d_state"}

(* Every step moves both channels so. *)
LEMMA ChannelMoves ==
  ASSUME TypeOK, [Next]_vars
  PROVE  /\ Moved(posted["webhook"], webhook, posted'["webhook"], webhook', {"g2d_chat"})
         /\ Moved(posted["say"], say, posted'["say"], say', Bridged)
<1> USE DEF source, link, broker, store, discord, browser
<1>1. CASE UNCHANGED <<webhook, say, posted>> BY <1>1 DEF Moved
<1>2. CASE PrintLine \/ Subscribe \/ Ingest \/ SpawnRpc \/ Stream \/ View \/ UNCHANGED vars
  BY <1>1, <1>2 DEF PrintLine, Subscribe, Ingest, SpawnRpc, Stream, View, vars
<1>3. ASSUME NEW c \in Conns, Connect(c) \/ Replace(c) \/ Close(c) \/ Receive(c)
      PROVE  UNCHANGED <<webhook, say, posted>>
  BY <1>3 DEF Connect, Replace, Close, Receive
<1>4. ASSUME NEW c \in Conns, NEW t \in Topics, Publish(c, t) PROVE UNCHANGED <<webhook, say, posted>>
  BY <1>4 DEF Publish
<1>5. ASSUME NEW h \in handling, HandleRpc(h) PROVE UNCHANGED <<webhook, say, posted>>
  BY <1>5 DEF HandleRpc
<1>6. ASSUME NEW cat, Mark(cat) PROVE UNCHANGED <<webhook, say, posted>> BY <1>6 DEF Mark
<1>7. CASE Restart BY <1>7 DEF Restart, Moved
<1>8. CASE ForwardChat BY <1>8 DEF ForwardChat, Moved
<1>9. ASSUME NEW s \in {"g2d_join", "g2d_leave", "g2d_state"}, ForwardPlain(s)
      PROVE  /\ UNCHANGED <<webhook, posted>>
             /\ say' = say \/ (Pop(s) /\ s \in Bridged /\ say' = Append(say, Head(queue[s])))
  BY <1>9 DEF ForwardPlain, Bridged
<1>10. \A s \in {"g2d_join", "g2d_leave", "g2d_state"} : ForwardPlain(s) =>
         /\ Moved(posted["webhook"], webhook, posted'["webhook"], webhook', {"g2d_chat"})
         /\ Moved(posted["say"], say, posted'["say"], say', Bridged)
  BY <1>9 DEF Moved
<1>11. CASE Post("webhook", webhook)
  <2>1. /\ webhook # << >> /\ webhook' = Tail(webhook) /\ say' = say /\ posted'["say"] = posted["say"]
        /\ \/ posted'["webhook"] = posted["webhook"]
           \/ posted'["webhook"] = Append(posted["webhook"], Head(webhook))
    BY <1>11 DEF Post, TypeOK
  <2> QED BY <2>1 DEF Moved
<1>12. CASE Post("say", say)
  <2>1. /\ say # << >> /\ say' = Tail(say) /\ webhook' = webhook
        /\ posted'["webhook"] = posted["webhook"]
        /\ \/ posted'["say"] = posted["say"]
           \/ posted'["say"] = Append(posted["say"], Head(say))
    BY <1>12 DEF Post, TypeOK
  <2> QED BY <2>1 DEF Moved
<1>13. CASE Post("alert", alert)
  <2>1. /\ say' = say /\ webhook' = webhook
        /\ posted'["webhook"] = posted["webhook"] /\ posted'["say"] = posted["say"]
    BY <1>13 DEF Post, TypeOK
  <2> QED BY <2>1 DEF Moved
<1> QED BY <1>1, <1>2, <1>3, <1>4, <1>5, <1>6, <1>7, <1>8, <1>10, <1>11, <1>12, <1>13 DEF Next

(* A channel stays in order for the lines S that reach it only through the  *)
(* subscriber s.                                                            *)
LEMMA ChannelOrderStep ==
  ASSUME TypeOK, LineTagged, BusInOrder, Alone, QueueInOrder, [Next]_vars,
         NEW S, NEW sources \in SUBSET Subscribers, NEW s \in sources,
         \A r \in sources : r # s => ToSet(queue[r]) \cap S = {},
         NEW p \in Seq(Lines), NEW q \in Seq(Lines), NEW pp, NEW qq, Moved(p, q, pp, qq, sources),
         InChannel(p, q, S, ToCome(s))
  PROVE  InChannel(pp, qq, S, ToCome(s)')
<1>0. Lines \subseteq Nat /\ s \in Subscribers BY DEF Lines
<1>1. p \in Seq(Nat) /\ q \in Seq(Nat) BY <1>0, SeqWider
<1>2. InChannel(p, q, S, ToCome(s)') BY <1>0, ChannelKept
<1>3. CASE pp = p /\ qq = q BY <1>2, <1>3
<1>4. ASSUME NEW r \in sources, Pop(r), pp = p, qq = Append(q, Head(queue[r]))
      PROVE  InChannel(pp, qq, S, ToCome(s)')
  <2> DEFINE x == Head(queue[r])
  <2>1. /\ x \in Lines /\ x \in ToSet(queue[r]) /\ x \in ToCome(r) /\ Below({x}, ToCome(r)')
    BY <1>4, Taken
  <2>2. Below((ToSet(p) \cup ToSet(q)) \cap S, ToCome(s)') BY <1>2 DEF InChannel
  <2>3. CASE r = s
    <3>1. (x \in S => x \in ToCome(s)) /\ Below({x} \cap S, ToCome(s)') BY <2>1, <2>3 DEF Below
    <3>2. x \in Nat BY <1>0, <2>1
    <3> HIDE DEF x
    <3>3. InChannel(p, Append(q, x), S, ToCome(s)') BY <1>1, <2>2, <3>1, <3>2, Forwarded
    <3> QED BY <1>4, <3>3 DEF x
  <2>4. CASE r # s
    <3>1. x \notin S BY <2>1, <2>4
    <3>2. (x \in S => x \in ToCome(s)) /\ Below({x} \cap S, ToCome(s)') BY <3>1 DEF Below
    <3>3. x \in Nat BY <1>0, <2>1
    <3> HIDE DEF x
    <3>4. InChannel(p, Append(q, x), S, ToCome(s)') BY <1>1, <2>2, <3>2, <3>3, Forwarded
    <3> QED BY <1>4, <3>4 DEF x
  <2> QED BY <2>3, <2>4
<1>5. CASE q # << >> /\ qq = Tail(q) /\ (pp = p \/ pp = Append(p, Head(q)))
  BY <1>1, <1>2, <1>5, Delivered
<1>6. CASE pp = p /\ qq = << >> BY <1>2, <1>6, Emptied
<1> QED BY <1>3, <1>4, <1>5, <1>6 DEF Moved

(* Both channels stay in order. *)
LEMMA DiscordStep ==
  ASSUME TypeOK, LineTagged, BusInOrder, Alone, QueueTagged, QueueInOrder, DiscordOrder, [Next]_vars
  PROVE  DiscordOrder'
<1>0. /\ webhook \in Seq(Lines) /\ say \in Seq(Lines)
      /\ posted["webhook"] \in Seq(Lines) /\ posted["say"] \in Seq(Lines)
  BY DEF TypeOK
<1>1. {"g2d_chat"} \in SUBSET Subscribers /\ Bridged \in SUBSET Subscribers
  BY SubscriberNames DEF Bridged
<1>2. /\ Moved(posted["webhook"], webhook, posted'["webhook"], webhook', {"g2d_chat"})
      /\ Moved(posted["say"], say, posted'["say"], say', Bridged)
  BY ChannelMoves
<1>3. InChannel(posted'["webhook"], webhook', Nat, ToCome("g2d_chat")')
  <2>1. InChannel(posted["webhook"], webhook, Nat, ToCome("g2d_chat")) BY DEF DiscordOrder
  <2>2. "g2d_chat" \in {"g2d_chat"} /\ \A r \in {"g2d_chat"} : r # "g2d_chat" => ToSet(queue[r]) \cap Nat = {}
    OBVIOUS
  <2> QED BY <1>0, <1>1, <1>2, <2>1, <2>2, ChannelOrderStep
<1>4. ASSUME NEW k \in PlainSources
      PROVE  InChannel(posted'["say"], say', OfKind(k[1]), ToCome(k[2])')
  <2>1. InChannel(posted["say"], say, OfKind(k[1]), ToCome(k[2])) BY DEF DiscordOrder
  <2>2. k[2] \in Bridged BY DEF PlainSources, Bridged
  <2>3. ASSUME NEW r \in Bridged, r # k[2], NEW n \in ToSet(queue[r]) PROVE n \notin OfKind(k[1])
    <3>1. r \in Subscribers BY <1>1
    <3>2. n \in Lines BY <3>1, ToSetIs DEF TypeOK
    <3>3. Kind(n) \in Kinds BY <3>2, LineKind
    <3>4. TopicOf[r] \in Tags(Kind(n)) BY <3>1 DEF QueueTagged
    <3>5. CASE k = <<{"join"}, "g2d_join">>
      BY <2>3, <3>3, <3>4, <3>5 DEF Bridged, Kinds, Tags, TopicOf, OfKind
    <3>6. CASE k = <<{"leave"}, "g2d_leave">>
      BY <2>3, <3>3, <3>4, <3>6 DEF Bridged, Kinds, Tags, TopicOf, OfKind
    <3>7. CASE k = <<StateKinds, "g2d_state">>
      BY <2>3, <3>3, <3>4, <3>7 DEF Bridged, Kinds, Tags, TopicOf, OfKind, StateKinds
    <3> QED BY <3>5, <3>6, <3>7 DEF PlainSources
  <2>4. \A r \in Bridged : r # k[2] => ToSet(queue[r]) \cap OfKind(k[1]) = {} BY <2>3
  <2> DEFINE S == OfKind(k[1])
             s == k[2]
  <2> HIDE DEF S, s
  <2>5. /\ InChannel(posted["say"], say, S, ToCome(s)) /\ s \in Bridged
        /\ \A r \in Bridged : r # s => ToSet(queue[r]) \cap S = {}
    BY <2>1, <2>2, <2>4 DEF S, s
  <2>6. InChannel(posted'["say"], say', S, ToCome(s)') BY <1>0, <1>1, <1>2, <2>5, ChannelOrderStep
  <2> QED BY <2>6 DEF S, s
<1>5. script' = script BY SameKinds
<1>6. \A K : OfKind(K)' = OfKind(K) BY <1>5 DEF OfKind, Kind
<1>7. \A k \in PlainSources : InChannel(posted["say"], say, OfKind(k[1]), ToCome(k[2]))'
  BY <1>4, <1>6
<1> QED BY <1>3, <1>7 DEF DiscordOrder

(* The end of a save is never forwarded. *)
LEMMA NoSavesStep ==
  ASSUME TypeOK, QueueTagged, NoSaves, [Next]_vars
  PROVE  NoSaves'
<1> USE DEF source, link, broker, store, discord, browser
<1> DEFINE All == ToSet(posted["say"]) \cup ToSet(say)
<1>0. script' = script BY SameKinds
<1>a. say \in Seq(Lines) /\ posted["say"] \in Seq(Lines) BY DEF TypeOK
<1>1. CASE All' \subseteq All BY <1>0, <1>1 DEF NoSaves, Kind
<1>2. ASSUME NEW s \in {"g2d_join", "g2d_leave", "g2d_state"}, ForwardPlain(s) PROVE NoSaves'
  <2> DEFINE n == Head(queue[s])
  <2>1. s \in Subscribers /\ Pop(s) BY <1>2, SubscriberNames DEF ForwardPlain
  <2>2. n \in Lines /\ n \in ToSet(queue[s]) BY <2>1, PopSet
  <2>3. TopicOf[s] \in Tags(Kind(n)) /\ Kind(n) \in Kinds BY <2>1, <2>2, LineKind DEF QueueTagged
  <2>4. CASE s = "g2d_state" /\ ~Announced(n)
    <3>1. UNCHANGED <<say, posted>> BY <1>2, <2>4 DEF ForwardPlain
    <3> QED BY <1>1, <3>1
  <2>5. CASE ~(s = "g2d_state" /\ ~Announced(n))
    <3>1. say' = Append(say, n) /\ UNCHANGED posted BY <1>2, <2>5 DEF ForwardPlain
    <3>2. Kind(n) # "saved" BY <2>3, <2>5 DEF Announced, TopicOf, Tags, Kinds
    <3> HIDE DEF n
    <3>3. ToSet(say') = ToSet(say) \cup {n} BY <1>a, <2>2, <3>1, AppendSet
    <3> QED BY <1>0, <3>1, <3>2, <3>3 DEF NoSaves, Kind
  <2> QED BY <2>4, <2>5
<1>3. CASE Post("say", say)
  <2>1. /\ say # << >> /\ say' = Tail(say)
        /\ \/ posted'["say"] = posted["say"]
           \/ posted'["say"] = Append(posted["say"], Head(say))
    BY <1>3 DEF Post, TypeOK
  <2>2. Head(say) \in Lines /\ ToSet(say) = ToSet(Tail(say)) \cup {Head(say)} BY <1>a, <2>1, TailSet
  <2>3. ToSet(Append(posted["say"], Head(say))) = ToSet(posted["say"]) \cup {Head(say)}
    BY <1>a, <2>2, AppendSet
  <2> QED BY <1>1, <2>1, <2>2, <2>3
<1>4. CASE posted'["say"] = posted["say"] /\ (say' = say \/ say' = << >>) BY <1>1, <1>4, EmptySet
<1>5. CASE Post("webhook", webhook) \/ Post("alert", alert) BY <1>4, <1>5 DEF Post, TypeOK
<1>6. CASE PrintLine \/ Subscribe \/ Ingest \/ SpawnRpc \/ ForwardChat \/ Stream \/ View \/ Restart
           \/ UNCHANGED vars
  BY <1>4, <1>6 DEF PrintLine, Subscribe, Ingest, SpawnRpc, ForwardChat, Stream, View, Restart, vars
<1>7. ASSUME NEW c \in Conns, Connect(c) \/ Replace(c) \/ Close(c) \/ Receive(c)
      PROVE  UNCHANGED <<say, posted>>
  BY <1>7 DEF Connect, Replace, Close, Receive
<1>8. ASSUME NEW c \in Conns, NEW t \in Topics, Publish(c, t) PROVE UNCHANGED <<say, posted>>
  BY <1>8 DEF Publish
<1>9. ASSUME NEW h \in handling, HandleRpc(h) PROVE UNCHANGED <<say, posted>> BY <1>9 DEF HandleRpc
<1>10. ASSUME NEW cat, Mark(cat) PROVE UNCHANGED <<say, posted>> BY <1>10 DEF Mark
<1> QED BY <1>2, <1>3, <1>4, <1>5, <1>6, <1>7, <1>8, <1>9, <1>10 DEF Next

-----------------------------------------------------------------------------
(* Alerts                                                                  *)

(* No step makes a second copy of an alert. *)
LEMMA AlertsStep ==
  ASSUME TypeOK, LineTagged, BusInOrder, Alone, QueueInOrder, AlertsOnce, [Next]_vars
  PROVE  AlertsOnce'
<1> USE DEF source, link, broker, store, discord, browser
<1> DEFINE Out == ToSet(posted["alert"]) \cup ToSet(alert)
<1>0. /\ "rpc" \in Subscribers /\ alert \in Seq(Lines) /\ posted["alert"] \in Seq(Lines)
      /\ handling \subseteq (Lines \X {1, 2})
  BY SubscriberNames DEF TypeOK
<1>a. Out \subseteq Lines /\ Handling \subseteq Lines BY <1>0, ToSetIs DEF Handling
<1>b. ASSUME NEW n \in Lines, n \notin ToCome("rpc") PROVE n \notin ToCome("rpc")'
  <2>1. n \in ToCome("rpc")' => n \in ToCome("rpc") \/ n \notin Lines BY <1>0, ComingStep
  <2> QED BY <1>b, <2>1
<1>c. (Out \cup Handling) \cap ToCome("rpc")' = {} BY <1>a, <1>b DEF AlertsOnce
<1>1. CASE UNCHANGED <<handling, alert>> /\ posted'["alert"] = posted["alert"]
  <2>1. Handling' = Handling BY <1>1 DEF Handling
  <2> QED BY <1>1, <1>c, <2>1 DEF AlertsOnce
<1>2. CASE SpawnRpc
  <2> DEFINE n == Head(queue["rpc"])
  <2>1. Pop("rpc") /\ UNCHANGED <<alert, posted>> BY <1>2 DEF SpawnRpc
  <2>2. n \in Lines /\ n \in ToCome("rpc") /\ Below({n}, ToCome("rpc")') BY <1>0, <2>1, Taken
  <2>3. n \notin Out /\ n \notin Handling BY <2>2 DEF AlertsOnce
  <2>4. n \notin ToCome("rpc")'
    <3>1. ~(n < n) BY <2>2 DEF Lines
    <3> QED BY <2>2, <3>1 DEF Below
  <2>5. <<n, 1>> \notin handling /\ \A g \in handling : g[1] # n BY <2>3 DEF Handling
  <2>6. handling' = handling \cup {<<n, 1>>} BY <1>2, <2>5 DEF SpawnRpc
  <2> HIDE DEF n
  <2>7. Handling' \subseteq Handling \cup {n}
    <3>1. \A h \in handling' : h[1] \in Handling \/ h[1] = n BY <2>6 DEF Handling
    <3> QED BY <3>1 DEF Handling
  <2>8. \A g, h \in handling' : g[1] = h[1] => g = h BY <2>5, <2>6 DEF AlertsOnce
  <2>9. Out' = Out BY <2>1
  <2>10. (Out \cup Handling)' \cap ToCome("rpc")' = {} BY <1>c, <2>4, <2>7, <2>9
  <2>11. Out' \cap Handling' = {} BY <2>3, <2>7, <2>9 DEF AlertsOnce
  <2> QED BY <2>1, <2>8, <2>10, <2>11 DEF AlertsOnce
<1>3. ASSUME NEW h \in handling, HandleRpc(h) PROVE AlertsOnce'
  <2>1. handling' = handling \ {h} /\ UNCHANGED posted BY <1>3 DEF HandleRpc
  <2>2. h[1] \in Lines /\ h[1] \in Handling BY <1>0 DEF Handling
  <2>3. Handling' \subseteq Handling \ {h[1]} BY <2>1 DEF Handling, AlertsOnce
  <2>4. \A f, g \in handling' : f[1] = g[1] => f = g BY <2>1 DEF AlertsOnce
  <2>5. h[1] \notin Out BY <2>2 DEF AlertsOnce
  <2>6. ToSet(Append(alert, h[1])) = ToSet(alert) \cup {h[1]} /\ IsInjective(Append(alert, h[1]))
    BY <1>0, <2>2, <2>5, AppendSet, InjAppend DEF AlertsOnce
  <2>7. CASE alert' = alert
    <3>1. Out' = Out BY <2>1, <2>7
    <3>2. (Out \cup Handling)' \cap ToCome("rpc")' = {} BY <1>c, <2>3, <3>1
    <3>3. Out' \cap Handling' = {} BY <2>3, <3>1 DEF AlertsOnce
    <3>4. ToSet(posted'["alert"]) \cap ToSet(alert') = {} BY <2>1, <2>7 DEF AlertsOnce
    <3>5. IsInjective(posted'["alert"]) /\ IsInjective(alert') BY <2>1, <2>7 DEF AlertsOnce
    <3> QED BY <2>4, <3>2, <3>3, <3>4, <3>5 DEF AlertsOnce
  <2>8. CASE alert' = Append(alert, h[1])
    <3>1. Out' = Out \cup {h[1]} BY <2>1, <2>6, <2>8
    <3>2. (Out \cup Handling)' \cap ToCome("rpc")' = {} BY <1>c, <2>2, <2>3, <3>1
    <3>3. Out' \cap Handling' = {} BY <2>3, <3>1 DEF AlertsOnce
    <3>4. ToSet(posted'["alert"]) \cap ToSet(alert') = {} BY <2>1, <2>5, <2>6, <2>8 DEF AlertsOnce
    <3>5. IsInjective(posted'["alert"]) /\ IsInjective(alert') BY <2>1, <2>6, <2>8 DEF AlertsOnce
    <3> QED BY <2>4, <3>2, <3>3, <3>4, <3>5 DEF AlertsOnce
  <2> QED BY <1>3, <2>7, <2>8 DEF HandleRpc
<1>4. CASE Post("alert", alert)
  <2>1. /\ alert # << >> /\ alert' = Tail(alert) /\ UNCHANGED handling
        /\ \/ posted'["alert"] = posted["alert"]
           \/ posted'["alert"] = Append(posted["alert"], Head(alert))
    BY <1>4 DEF Post, TypeOK
  <2>2. Head(alert) \in Lines /\ ToSet(alert) = ToSet(Tail(alert)) \cup {Head(alert)}
    BY <1>0, <2>1, TailSet
  <2>3. IsInjective(Tail(alert)) /\ Head(alert) \notin ToSet(Tail(alert))
    BY <1>0, <2>1, InjTail DEF AlertsOnce
  <2>4. Head(alert) \notin ToSet(posted["alert"]) BY <2>2 DEF AlertsOnce
  <2>5. /\ ToSet(Append(posted["alert"], Head(alert))) = ToSet(posted["alert"]) \cup {Head(alert)}
        /\ IsInjective(Append(posted["alert"], Head(alert)))
    BY <1>0, <2>2, <2>4, AppendSet, InjAppend DEF AlertsOnce
  <2>6. Out' \subseteq Out /\ Handling' = Handling BY <2>1, <2>2, <2>5 DEF Handling
  <2>7. (Out \cup Handling)' \cap ToCome("rpc")' = {} BY <1>c, <2>6
  <2>8. Out' \cap Handling' = {} BY <2>6 DEF AlertsOnce
  <2>9. ToSet(posted'["alert"]) \cap ToSet(alert') = {} BY <2>1, <2>2, <2>3, <2>5 DEF AlertsOnce
  <2>10. IsInjective(posted'["alert"]) /\ IsInjective(alert') BY <2>1, <2>3, <2>5 DEF AlertsOnce
  <2>11. \A f, g \in handling' : f[1] = g[1] => f = g BY <2>1 DEF AlertsOnce
  <2> QED BY <2>7, <2>8, <2>9, <2>10, <2>11 DEF AlertsOnce
<1>5. CASE Restart
  <2>1. handling' = {} /\ alert' = << >> /\ UNCHANGED posted BY <1>5 DEF Restart
  <2>2. ToSet(alert') = {} /\ Handling' = {} BY <2>1, EmptySet DEF Handling
  <2>3. IsInjective(<< >>) BY DEF IsInjective
  <2>4. Out' \subseteq Out BY <2>1, <2>2
  <2>5. (Out \cup Handling)' \cap ToCome("rpc")' = {} BY <1>c, <2>2, <2>4
  <2> QED BY <2>1, <2>2, <2>3, <2>5 DEF AlertsOnce
<1>6. CASE Post("webhook", webhook) \/ Post("say", say) BY <1>1, <1>6 DEF Post, TypeOK
<1>7. CASE PrintLine \/ Subscribe \/ Ingest \/ ForwardChat \/ Stream \/ View \/ UNCHANGED vars
  BY <1>1, <1>7 DEF PrintLine, Subscribe, Ingest, ForwardChat, Stream, View, vars
<1>8. ASSUME NEW c \in Conns, Connect(c) \/ Replace(c) \/ Close(c) \/ Receive(c)
      PROVE  UNCHANGED <<handling, alert, posted>>
  BY <1>8 DEF Connect, Replace, Close, Receive
<1>9. ASSUME NEW c \in Conns, NEW t \in Topics, Publish(c, t)
      PROVE  UNCHANGED <<handling, alert, posted>>
  BY <1>9 DEF Publish
<1>10. ASSUME NEW cat, Mark(cat) PROVE UNCHANGED <<handling, alert, posted>> BY <1>10 DEF Mark
<1>11. ASSUME NEW s, ForwardPlain(s) PROVE UNCHANGED <<handling, alert, posted>> BY <1>11 DEF ForwardPlain
<1> QED BY <1>1, <1>2, <1>3, <1>4, <1>5, <1>6, <1>7, <1>8, <1>9, <1>10, <1>11 DEF Next

-----------------------------------------------------------------------------
(* The browser                                                             *)

(* The lines of a category are stored, and of the kinds that are. *)
LEMMA OfCategory ==
  ASSUME TypeOK, NEW cat, NEW n \in Lines, n \in Of(cat, Lines)
  PROVE  /\ Storable(n) /\ StdoutCategory(Kind(n)) = cat /\ "stdout" \in Tags(Kind(n))
         /\ Kind(n) \in {"chat", "join", "leave", "started", "saved", "closed", "other"}
<1>1. Storable(n) /\ StdoutCategory(Kind(n)) = cat BY DEF Of
<1>2. Kind(n) \in Kinds BY LineKind
<1>3. StdoutCategory(Kind(n)) \in {"chat", "joinleave", "systemlog"} /\ "stdout" \in Tags(Kind(n))
  BY <1>1 DEF Storable, Stored
<1>4. Kind(n) \notin {"echo", "stream", "oneshot", "badstate"}
  <2>1. Kind(n) \notin {"echo", "stream", "oneshot"} BY <1>3 DEF StdoutCategory
  <2>2. Kind(n) # "badstate" BY <1>3 DEF Tags
  <2> QED BY <2>1, <2>2
<1> QED BY <1>1, <1>2, <1>3, <1>4 DEF Kinds

(* Which steps concern the browser. *)
LEMMA ViewerSteps ==
  ASSUME TypeOK, [Next]_vars
  PROVE  \/ Restart \/ View
         \/ \E cat \in Watched : Mark(cat)
         \/ \E c \in Conns : \E t \in Topics : Publish(c, t)
         \/ /\ UNCHANGED <<seen, marker, category, lagged>> /\ queue'[Viewer] = queue[Viewer]
            /\ UNCHANGED <<viewer, early>> \/ (Stream /\ viewer = "marked" /\ viewer' = "streaming")
<1> USE DEF source, link, broker, store, discord, browser
<1> DEFINE Kept == /\ UNCHANGED <<seen, marker, category, lagged>>
                   /\ queue'[Viewer] = queue[Viewer]
                   /\ UNCHANGED <<viewer, early>>
<1>a. /\ Viewer \in Subscribers
      /\ \A s \in {"g2d_chat", "g2d_join", "g2d_leave", "g2d_state", "ingest", "rpc"} :
           s \in Subscribers /\ s # Viewer
  BY SubscriberNames DEF Viewer
<1>1. ASSUME NEW s \in {"g2d_chat", "g2d_join", "g2d_leave", "g2d_state", "ingest", "rpc"}, Pop(s)
      PROVE  queue'[Viewer] = queue[Viewer]
  BY <1>a, <1>1, PopSet
<1>2. CASE PrintLine \/ Subscribe \/ UNCHANGED vars BY <1>2 DEF PrintLine, Subscribe, vars
<1>3. CASE Stream BY <1>3 DEF Stream
<1>4. CASE Ingest BY <1>1, <1>4 DEF Ingest
<1>5. CASE SpawnRpc BY <1>1, <1>5 DEF SpawnRpc
<1>6. CASE ForwardChat BY <1>1, <1>6 DEF ForwardChat
<1>7. ASSUME NEW s \in {"g2d_join", "g2d_leave", "g2d_state"}, ForwardPlain(s) PROVE Kept
  BY <1>1, <1>7 DEF ForwardPlain
<1>8. ASSUME NEW c \in Conns, Connect(c) \/ Replace(c) \/ Close(c) \/ Receive(c) PROVE Kept
  BY <1>8 DEF Connect, Replace, Close, Receive
<1>9. ASSUME NEW h \in handling, HandleRpc(h) PROVE Kept BY <1>9 DEF HandleRpc
<1>10. ASSUME NEW d, NEW chan, Post(d, chan) PROVE Kept BY <1>10 DEF Post
<1> QED BY <1>2, <1>3, <1>4, <1>5, <1>6, <1>7, <1>8, <1>9, <1>10 DEF Next

(* What the browser was sent stays in order, and before what is to come. *)
LEMMA SeenStep ==
  ASSUME TypeOK, LineTagged, BusInOrder, Alone, QueueInOrder, ViewerOrder, [Next]_vars
  PROVE  /\ viewer' # "streaming" => seen' = << >> /\ queue'[Viewer] = << >>
         /\ Ordered(seen') /\ Below(ToSet(seen'), ToCome(Viewer)')
         /\ seen' = << >> \/ seen' = seen \/ (Pop(Viewer) /\ seen' = Append(seen, Head(queue[Viewer])))
<1> USE DEF source, link, broker, store, discord, browser
<1>0. Viewer \in Subscribers /\ seen \in Seq(Lines) /\ Lines \subseteq Nat
  BY SubscriberNames DEF TypeOK, Lines
<1>a. seen \in Seq(Nat) /\ ToSet(seen) \in SUBSET Lines BY <1>0, SeqWider, ToSetIs
<1>b. Ordered(seen) /\ Below(ToSet(seen), ToCome(Viewer)) BY DEF ViewerOrder
<1>c. Below(ToSet(seen), ToCome(Viewer)') BY <1>0, <1>a, <1>b, ComingKept
<1>1. CASE seen' = seen /\ queue'[Viewer] = queue[Viewer]
           /\ (viewer' # "streaming" => viewer # "streaming")
  BY <1>1, <1>b, <1>c DEF ViewerOrder
<1>2. CASE Restart
  <2>1. seen' = << >> /\ queue'[Viewer] = << >> BY <1>0, <1>2 DEF Restart
  <2>2. Ordered(<< >>) BY DEF Ordered
  <2> QED BY <2>1, <2>2, EmptySet DEF Below
<1>3. CASE View
  <2> DEFINE n == Head(queue[Viewer])
  <2>1. Pop(Viewer) /\ viewer' = viewer /\ (seen' = seen \/ seen' = Append(seen, n)) BY <1>3 DEF View
  <2>2. viewer = "streaming" BY <2>1 DEF ViewerOrder, Pop
  <2>3. n \in Lines /\ n \in ToCome(Viewer) /\ Below({n}, ToCome(Viewer)') BY <1>0, <2>1, Taken
  <2>4. CASE seen' = seen BY <1>b, <1>c, <2>1, <2>2, <2>4
  <2>5. CASE seen' = Append(seen, n)
    <3>1. n \in Nat BY <1>0, <2>3
    <3>2. Below(ToSet(seen), {n}) BY <1>b, <2>3 DEF Below
    <3> HIDE DEF n
    <3>3. Append(seen, n) \in Seq(Nat) /\ ToSet(Append(seen, n)) = ToSet(seen) \cup {n}
      BY <1>a, <3>1, AppendSet
    <3>4. OrdIn(seen, Nat) /\ Below(ToSet(seen) \cap Nat, {n} \cap Nat)
      BY <1>a, <1>b, <3>2, OrderedIs DEF Below
    <3>5. OrdIn(Append(seen, n), Nat) BY <1>a, <3>1, <3>4, OrdAppend
    <3>6. Ordered(Append(seen, n)) BY <3>3, <3>5, OrderedIs
    <3>7. Below(ToSet(seen'), ToCome(Viewer)') BY <1>c, <2>3, <2>5, <3>3 DEF Below
    <3> QED BY <2>1, <2>2, <2>5, <3>6, <3>7 DEF n
  <2> QED BY <2>1, <2>4, <2>5
<1>4. ASSUME NEW cat \in Watched, Mark(cat)
      PROVE  seen' = seen /\ queue'[Viewer] = queue[Viewer]
             /\ (viewer' # "streaming" => viewer # "streaming")
  BY <1>4 DEF Mark
<1>5. ASSUME NEW c \in Conns, NEW t \in Topics, Publish(c, t)
      PROVE  /\ viewer' # "streaming" => seen' = << >> /\ queue'[Viewer] = << >>
             /\ Ordered(seen') /\ Below(ToSet(seen'), ToCome(Viewer)')
             /\ seen' = seen
  <2>1. seen' = seen /\ viewer' = viewer BY <1>5 DEF Publish
  <2>2. ASSUME viewer # "streaming" PROVE seen = << >> /\ queue'[Viewer] = << >>
    <3>1. ~Subscribed(Viewer) BY <2>2 DEF Subscribed
    <3>2. queue'[Viewer] = queue[Viewer] BY <1>0, <1>5, <3>1 DEF Publish
    <3> QED BY <2>2, <3>2 DEF ViewerOrder
  <2> QED BY <1>b, <1>c, <2>1, <2>2
<1> QED BY <1>1, <1>2, <1>3, <1>4, <1>5, ViewerSteps

(* The marker is a stored line, and comes before what the browser is sent. *)
LEMMA MarkerStep ==
  ASSUME TypeOK, LineTagged, BusInOrder, Alone, QueueInOrder, StoredFirst, ViewerOrder, [Next]_vars,
         viewer' # "none"
  PROVE  /\ marker' \in db' \cup {NoMarker} /\ category' \in Stored
         /\ Below({marker'}, ToSet(seen') \cup ToCome(Viewer)')
<1> USE DEF source, link, broker, store, discord, browser
<1>0. /\ Viewer \in Subscribers /\ "ingest" \in Subscribers /\ seen \in Seq(Lines)
      /\ TopicOf[Viewer] = "stdout" /\ TopicOf["ingest"] = "stdout"
      /\ Lines \subseteq Nat \ {0} /\ db \subseteq Lines /\ printed \in Nat
  <2>1. Viewer \in Subscribers /\ "ingest" \in Subscribers BY SubscriberNames
  <2>2. TopicOf[Viewer] = "stdout" /\ TopicOf["ingest"] = "stdout" BY DEF TopicOf, Viewer
  <2>3. printed \in Nat /\ seen \in Seq(Lines) /\ db \subseteq Lines
    BY ConstantsAssumption DEF TypeOK
  <2>4. Lines \subseteq Nat \ {0} BY <2>3 DEF Lines
  <2> QED BY <2>1, <2>2, <2>3, <2>4
<1>1. db \subseteq db' BY Lasting
<1>2. ASSUME viewer # "none", marker' = marker, category' = category
      PROVE  /\ marker' \in db' \cup {NoMarker} /\ category' \in Stored
             /\ Below({marker'}, ToSet(seen') \cup ToCome(Viewer)')
  <2>1. /\ marker \in db \cup {NoMarker} /\ category \in Stored
        /\ Below({marker}, ToSet(seen) \cup ToCome(Viewer))
    BY <1>2 DEF ViewerOrder
  <2>2. ASSUME NEW n \in ToCome(Viewer)' PROVE marker < n
    <3>1. CASE n \in ToCome(Viewer) BY <2>1, <3>1 DEF Below
    <3>2. CASE n \in Lines' /\ n \notin Lines
      <4>1. CASE marker \in Lines BY <3>2, <4>1, NewAbove
      <4>2. CASE marker = 0 BY <3>2, <4>2 DEF Lines
      <4> QED BY <1>0, <2>1, <4>1, <4>2 DEF NoMarker
    <3> QED BY <1>0, <3>1, <3>2, ComingStep
  <2>3. ToSet(seen') \subseteq ToSet(seen) \cup ToCome(Viewer)
    <3>1. CASE seen' = << >> BY <3>1, EmptySet
    <3>2. CASE Pop(Viewer) /\ seen' = Append(seen, Head(queue[Viewer]))
      <4>1. Head(queue[Viewer]) \in Lines /\ Head(queue[Viewer]) \in ToCome(Viewer)
        BY <1>0, <3>2, Taken
      <4>2. ToSet(Append(seen, Head(queue[Viewer]))) = ToSet(seen) \cup {Head(queue[Viewer])}
        BY <1>0, <4>1, AppendSet
      <4> QED BY <3>2, <4>1, <4>2
    <3> QED BY <3>1, <3>2, SeenStep
  <2>4. \A n \in ToSet(seen') : marker < n BY <2>1, <2>3 DEF Below
  <2> QED BY <1>1, <1>2, <2>1, <2>2, <2>4 DEF Below
<1>3. ASSUME NEW cat \in Watched, Mark(cat)
      PROVE  /\ marker' \in db' \cup {NoMarker} /\ category' \in Stored
             /\ Below({marker'}, ToSet(seen') \cup ToCome(Viewer)')
  <2>1. Of(cat, db) \in SUBSET (1..printed) /\ Of(cat, db) \subseteq db BY <1>0 DEF Of, Lines
  <2>2. marker' = Latest(Of(cat, db)) /\ category' = cat BY <1>3 DEF Mark
  <2>3. marker' \in db \cup {NoMarker} BY <1>0, <2>1, <2>2, LatestIs
  <2>4. viewer = "none" /\ UNCHANGED <<bus, line, topics, printed, queue, seen>> BY <1>3 DEF Mark
  <2>5. seen' = << >> /\ queue'[Viewer] = << >> BY <2>4 DEF ViewerOrder
  <2>6. ToSet(seen') \cup ToCome(Viewer)' \subseteq InFront("stdout")
    <3>1. InFront("stdout")' = InFront("stdout") BY <2>4 DEF InFront, Lines, Ahead
    <3> QED BY <1>0, <2>5, <3>1, EmptySet DEF ToCome
  <2>7. \A n \in InFront("stdout") : n \in Lines /\ n \in ToCome("ingest") BY <1>0 DEF ToCome, InFront
  <2>8. ASSUME NEW n \in InFront("stdout") PROVE marker' < n
    <3>1. CASE marker' \in db BY <2>7, <3>1 DEF StoredFirst, Below
    <3>2. CASE marker' = 0 BY <2>7, <3>2 DEF Lines
    <3> QED BY <2>3, <3>1, <3>2 DEF NoMarker
  <2>9. category' \in Stored BY <2>2, WatchedAssumption
  <2> QED BY <1>1, <2>3, <2>6, <2>8, <2>9 DEF Below
<1>4. CASE Restart BY <1>4 DEF Restart
<1>5. CASE View BY <1>2, <1>5 DEF View
<1>6. ASSUME NEW c \in Conns, NEW t \in Topics, Publish(c, t)
      PROVE  viewer # "none" /\ marker' = marker /\ category' = category
  BY <1>6 DEF Publish
<1> QED BY <1>2, <1>3, <1>4, <1>5, <1>6, ViewerSteps

(* While the browser does not lag, a line of its category that nothing has  *)
(* dropped and that is not ahead of the broker is stored if it is not after *)
(* the marker, and in the stream unless it had been published before.       *)
LEMMA StreamStep ==
  ASSUME TypeOK, LineTagged, BusInOrder, NothingVanishes, Alone, QueueInOrder, StoredFirst,
         ViewerOrder, [Next]_vars, viewer' # "none", ~lagged'[Viewer],
         NEW n \in Of(category, Lines)', n \notin lost', ~Ahead(n, "stdout")'
  PROVE  /\ n <= marker' => n \in db'
         /\ viewer' = "streaming" /\ n \notin early' => n \in ToSet(seen') \cup ToSet(queue'[Viewer])
<1> USE DEF source, link, broker, store, discord, browser
<1>0. /\ Viewer \in Subscribers /\ "ingest" \in Subscribers /\ seen \in Seq(Lines)
      /\ queue[Viewer] \in Seq(Lines) /\ Len(queue[Viewer]) <= Capacity /\ Capacity \in Nat \ {0}
  BY SubscriberNames, ConstantsAssumption DEF TypeOK
<1>a. TopicOf[Viewer] = "stdout" /\ TopicOf["ingest"] = "stdout" BY DEF TopicOf, Viewer
<1>b. /\ Lines \subseteq Nat \ {0} /\ printed \in Nat /\ marker \in Nat /\ db \subseteq Lines
      /\ lost \subseteq lost' /\ db \subseteq db'
  <2>1. printed \in Nat BY ConstantsAssumption DEF TypeOK
  <2>2. Lines \subseteq Nat \ {0} BY <2>1 DEF Lines
  <2>3. marker \in Nat /\ db \subseteq Lines BY <2>2 DEF TypeOK, NoMarker
  <2> QED BY <2>1, <2>2, <2>3, Lasting
<1>c. n \in Lines' /\ n \in Lines /\ n \notin lost
  <2>1. n \in Lines' BY DEF Of
  <2> QED BY <1>b, <2>1, PrintedAhead
<1>d. script' = script BY SameKinds
<1>e. n \in Of(category', Lines) BY <1>c, <1>d DEF Of, Storable, Kind
<1>f. "stdout" \in Tags(Kind(n)) BY <1>c, <1>e, OfCategory
<1>1. ASSUME NEW cat \in Watched, Mark(cat)
      PROVE  viewer' = "marked" /\ (n <= marker' => n \in db')
  <2>1. /\ UNCHANGED <<bus, line, topics, queue, db>> /\ category' = cat
        /\ marker' = Latest(Of(cat, db)) /\ viewer' = "marked"
    BY <1>1 DEF Mark
  <2>2. ~Ahead(n, "stdout") BY <2>1 DEF Ahead
  <2>3. Kind(n) \in {"chat", "join", "leave", "started", "saved", "closed", "other"}
    BY <1>c, <1>e, OfCategory
  <2>4. n \in db \cup ToSet(queue["ingest"]) BY <1>c, <2>2, <2>3 DEF NothingVanishes
  <2> DEFINE S == Of(cat, db)
  <2>5. S \in SUBSET (1..printed) /\ S \subseteq db BY <1>b DEF Of, Lines
  <2> HIDE DEF S
  <2>6. Latest(S) \in S \cup {NoMarker} BY <1>b, <2>5, LatestIs
  <2>7. ASSUME n \in ToSet(queue["ingest"]), n <= marker' PROVE FALSE
    <3>1. n \in ToCome("ingest") BY <2>7 DEF ToCome
    <3>2. marker' # 0 BY <1>b, <1>c, <2>7
    <3>3. marker' \in db BY <2>1, <2>5, <2>6, <3>2 DEF S, NoMarker
    <3>4. marker' < n BY <3>1, <3>3 DEF StoredFirst, Below
    <3>5. marker' \in Nat /\ n \in Nat BY <1>b, <1>c, <3>3
    <3> QED BY <2>7, <3>4, <3>5
  <2> QED BY <2>1, <2>4, <2>7
<1>2. CASE Restart BY <1>2 DEF Restart
<1>3. ASSUME viewer # "none", UNCHANGED <<viewer, early, category, marker>>, ~lagged[Viewer],
             ~Ahead(n, "stdout"),
             n \in ToSet(seen) \cup ToSet(queue[Viewer]) => n \in ToSet(seen') \cup ToSet(queue'[Viewer])
      PROVE  /\ n <= marker' => n \in db'
             /\ viewer' = "streaming" /\ n \notin early' => n \in ToSet(seen') \cup ToSet(queue'[Viewer])
  <2>1. n \in Of(category, Lines) BY <1>3, <1>e
  <2>2. /\ n <= marker => n \in db
        /\ viewer = "streaming" /\ n \notin early => n \in ToSet(seen) \cup ToSet(queue[Viewer])
    BY <1>3, <1>c, <2>1 DEF ViewerOrder
  <2> QED BY <1>3, <1>b, <2>2
<1>4. CASE View
  <2> DEFINE h == Head(queue[Viewer])
  <2>1. /\ viewer # "none" /\ UNCHANGED <<viewer, early, category, marker, lagged, bus, line, topics>>
        /\ Pop(Viewer)
    BY <1>4 DEF View
  <2>2. ~Ahead(n, "stdout") BY <2>1 DEF Ahead
  <2>3. h \in Lines /\ ToSet(queue[Viewer]) = ToSet(queue'[Viewer]) \cup {h} BY <1>0, <2>1, PopSet
  <2>4. ToSet(Append(seen, h)) = ToSet(seen) \cup {h} BY <1>0, <2>3, AppendSet
  <2>5. StdoutCategory(Kind(n)) = category BY <1>c, <1>e, <2>1, OfCategory
  <2>6. n = h => seen' = Append(seen, h) BY <1>4, <2>5 DEF View
  <2>7. seen' = seen \/ seen' = Append(seen, h) BY <1>4 DEF View
  <2>8. n \in ToSet(seen) \cup ToSet(queue[Viewer]) => n \in ToSet(seen') \cup ToSet(queue'[Viewer])
    BY <2>3, <2>4, <2>6, <2>7
  <2> QED BY <1>3, <2>1, <2>2, <2>8
<1>5. ASSUME NEW c \in Conns, NEW t \in Topics, Publish(c, t)
      PROVE  /\ n <= marker' => n \in db'
             /\ viewer' = "streaming" /\ n \notin early' => n \in ToSet(seen') \cup ToSet(queue'[Viewer])
  <2>1. viewer # "none" /\ UNCHANGED <<viewer, early, category, marker, seen>>
    BY <1>5 DEF Publish
  <2>2. ~lagged[Viewer] /\ (TopicOf[Viewer] = t /\ Subscribed(Viewer) => Len(queue[Viewer]) # Capacity)
    <3>1. lagged'[Viewer] = (lagged[Viewer] \/ (Viewer \in {s \in {s \in Subscribers : TopicOf[s] = t} : Subscribed(s)}
                                                /\ Len(queue[Viewer]) = Capacity))
      BY <1>0, <1>5 DEF Publish
    <3> QED BY <1>0, <3>1, Zenon
  <2>3. CASE ~Ahead(n, "stdout")
    <3>1. ToSet(queue[Viewer]) \subseteq ToSet(queue'[Viewer])
      <4>1. CASE TopicOf[Viewer] = t /\ Subscribed(Viewer)
        <5>1. queue'[Viewer] = Push(queue[Viewer], line[c], Capacity) BY <1>0, <1>5, <4>1 DEF Publish
        <5>2. line[c] \in Lines BY <1>5 DEF Publish, LineTagged
        <5>3. Len(queue[Viewer]) < Capacity BY <1>0, <2>2, <4>1
        <5>4. Dropped(queue[Viewer], Capacity) = {} BY <5>3 DEF Dropped
        <5>5. ToSet(queue[Viewer]) \subseteq ToSet(Push(queue[Viewer], line[c], Capacity))
                                               \cup Dropped(queue[Viewer], Capacity)
          BY <1>0, <5>2, PushSet
        <5> QED BY <5>1, <5>4, <5>5
      <4>2. CASE ~(TopicOf[Viewer] = t /\ Subscribed(Viewer))
        <5>1. queue'[Viewer] = queue[Viewer] BY <1>0, <1>5, <4>2 DEF Publish
        <5> QED BY <5>1
      <4> QED BY <4>1, <4>2
    <3> QED BY <1>3, <2>1, <2>2, <2>3, <3>1
  <2>4. CASE Ahead(n, "stdout")
    <3>1. PICK d \in Conns : line[d] = n /\ Publish(d, "stdout")
      BY <1>c, <1>f, <2>4, AheadStep
    <3>2. n \in ToCome(Viewer) BY <1>a, <1>c, <2>4 DEF ToCome, InFront
    <3>3. marker < n BY <2>1, <3>2 DEF ViewerOrder, Below
    <3>4. ~(n <= marker) BY <1>b, <1>c, <3>3
    <3>5. CASE viewer = "marked" BY <2>1, <3>4, <3>5
    <3>6. CASE viewer = "streaming"
      <4>1. Subscribed(Viewer) BY <3>6 DEF Subscribed
      <4>2. queue'[Viewer] = Push(queue[Viewer], n, Capacity) BY <1>0, <1>a, <3>1, <4>1 DEF Publish
      <4>3. n \in ToSet(Push(queue[Viewer], n, Capacity)) BY <1>0, <1>c, PushSet
      <4> QED BY <2>1, <3>4, <4>2, <4>3
    <3> QED BY <2>1, <3>5, <3>6 DEF TypeOK
  <2> QED BY <2>3, <2>4
<1>6. ASSUME UNCHANGED <<seen, marker, category, lagged>>, queue'[Viewer] = queue[Viewer],
             UNCHANGED <<viewer, early>> \/ (Stream /\ viewer = "marked" /\ viewer' = "streaming"),
             \A c \in Conns : \A t \in Topics : ~Publish(c, t)
      PROVE  /\ n <= marker' => n \in db'
             /\ viewer' = "streaming" /\ n \notin early' => n \in ToSet(seen') \cup ToSet(queue'[Viewer])
  <2>1. "stdout" \in Topics BY DEF Topics
  <2>2. ~Ahead(n, "stdout") BY <1>c, <1>f, <1>6, <2>1, AheadStep
  <2>3. viewer # "none" /\ ~lagged[Viewer] BY <1>6
  <2>4. CASE UNCHANGED <<viewer, early>> BY <1>3, <1>6, <2>2, <2>3, <2>4
  <2>5. CASE Stream
    <3>1. n \in early' BY <1>c, <2>2, <2>5 DEF Stream
    <3>2. n \in Of(category, Lines) BY <1>6, <1>e
    <3>3. n <= marker => n \in db BY <1>c, <2>2, <2>3, <3>2 DEF ViewerOrder
    <3> QED BY <1>6, <1>b, <3>1, <3>3
  <2> QED BY <1>6, <2>4, <2>5
<1> QED BY <1>1, <1>2, <1>4, <1>5, <1>6, ViewerSteps

(* So the marker and the stream fit together after every step. *)
LEMMA ViewerStep ==
  ASSUME TypeOK, LineTagged, BusInOrder, NothingVanishes, Alone, QueueInOrder, StoredFirst,
         ViewerOrder, [Next]_vars
  PROVE  ViewerOrder'
<1>1. /\ viewer' # "streaming" => seen' = << >> /\ queue'[Viewer] = << >>
      /\ Ordered(seen') /\ Below(ToSet(seen'), ToCome(Viewer)')
  BY SeenStep
<1>2. ASSUME viewer' # "none"
      PROVE  /\ marker' \in db' \cup {NoMarker} /\ category' \in Stored
             /\ Below({marker'}, ToSet(seen') \cup ToCome(Viewer)')
  BY <1>2, MarkerStep
<1>3. ASSUME viewer' # "none", ~lagged'[Viewer],
             NEW n \in Of(category, Lines)', n \notin lost', ~Ahead(n, "stdout")'
      PROVE  /\ n <= marker' => n \in db'
             /\ viewer' = "streaming" /\ n \notin early' => n \in ToSet(seen') \cup ToSet(queue'[Viewer])
  BY <1>3, StreamStep
<1> QED BY <1>1, <1>2, <1>3 DEF ViewerOrder

-----------------------------------------------------------------------------
(* The theorems                                                            *)

(* The invariant holds at the start. *)
LEMMA InitInv == Init => IInv
<1> SUFFICES ASSUME Init PROVE IInv OBVIOUS
<1>0. /\ printed = 0 /\ Lines = {} /\ script \in Seq(Kinds) /\ Len(script) \in Nat
      /\ MaxTrouble[script] \in Nat /\ BusCapacity \in Nat /\ Capacity \in Nat
  BY ConstantsAssumption DEF Init, Lines
<1>1. << >> \in Seq(Lines) /\ Len(<< >>) = 0 OBVIOUS
<1>2. TypeOK
  <2>1. script \in Scripts /\ printed \in 0..Len(script) BY <1>0 DEF Init
  <2>2. /\ conn \in [Conns -> {"none", "open", "replaced", "closed"}]
        /\ line \in [Conns -> Lines \cup {0}] /\ topics \in [Conns -> SUBSET Topics]
        /\ overlap \in BOOLEAN /\ lagged \in [Subscribers -> BOOLEAN]
    BY DEF Init
  <2>3. up \in 0..Len(Startup) BY DEF Init, Startup
  <2>4. /\ bus \in [Conns -> Seq(Lines)] /\ queue \in [Subscribers -> Seq(Lines)]
        /\ posted \in [{"webhook", "say", "alert"} -> Seq(Lines)]
    BY <1>1 DEF Init
  <2>5. /\ \A c \in Conns : Len(bus[c]) <= BusCapacity
        /\ \A s \in Subscribers : Len(queue[s]) <= Capacity
    BY <1>0, <1>1 DEF Init
  <2>6. {webhook, say, alert, seen} \subseteq Seq(Lines) BY <1>1 DEF Init
  <2>7. /\ db \subseteq Lines /\ metrics \subseteq Lines /\ handling \subseteq (Lines \X {1, 2})
        /\ early \subseteq Lines /\ lost \subseteq Lines
    BY DEF Init
  <2>8. /\ viewer \in {"none", "marked", "streaming"} /\ category \in Stored \cup {"none"}
        /\ marker \in {NoMarker} \cup Lines
    BY DEF Init
  <2>9. trouble \in 0..MaxTrouble[script] BY <1>0 DEF Init
  <2> QED BY <2>1, <2>2, <2>3, <2>4, <2>5, <2>6, <2>7, <2>8, <2>9 DEF TypeOK
<1>3. Ordered(<< >>) /\ IsInjective(<< >>) /\ \A S : OrdIn(<< >>, S)
  BY DEF Ordered, IsInjective, OrdIn
<1>4. \A s \in Subscribers : queue[s] = << >> /\ ToCome(s) = {}
  BY <1>0, EmptySet DEF Init, ToCome, InFront
<1>5. {"g2d_chat", "g2d_join", "g2d_leave", "g2d_state", "ingest", "rpc", Viewer} \subseteq Subscribers
  BY SubscriberNames
<1>6. LineTagged /\ BusInOrder BY <1>3 DEF Init, LineTagged, BusInOrder
<1>7. NothingVanishes BY <1>0 DEF NothingVanishes
<1>8. QueueTagged BY <1>4, EmptySet DEF QueueTagged
<1>9. NoSaves BY EmptySet DEF Init, NoSaves
<1>10. Alone BY DEF Init, Alone, Active, Live
<1>11. QueueInOrder BY <1>3, <1>4, EmptySet DEF QueueInOrder, Below
<1>12. StoredFirst BY DEF Init, StoredFirst, Below
<1>13. \A S, C : InChannel(<< >>, << >>, S, C) BY <1>3, EmptySet DEF InChannel, Below
<1>14. DiscordOrder BY <1>13 DEF Init, DiscordOrder
<1>15. AlertsOnce
  <2>1. Handling = {} BY DEF Init, Handling
  <2> QED BY <1>3, <2>1, EmptySet DEF Init, AlertsOnce
<1>16. ViewerOrder BY <1>3, <1>4, <1>5, EmptySet DEF Init, ViewerOrder, Below
<1> QED BY <1>2, <1>6, <1>7, <1>8, <1>9, <1>10, <1>11, <1>12, <1>14, <1>15, <1>16 DEF IInv

(* Every step keeps the invariant. *)
LEMMA NextInv == IInv /\ [Next]_vars => IInv'
<1> SUFFICES ASSUME IInv, [Next]_vars PROVE IInv' OBVIOUS
<1>0. TypeOK /\ LineTagged /\ NothingVanishes /\ BusInOrder /\ QueueTagged /\ NoSaves BY DEF IInv
<1>1. TypeOK' /\ LineTagged' /\ NothingVanishes' /\ BusInOrder' /\ QueueTagged' /\ NoSaves'
  BY <1>0, TypeStep, LineTaggedStep, VanishStep, BusStep, QueueTaggedStep, NoSavesStep
<1>2. ASSUME ~overlap'
      PROVE  (Alone /\ QueueInOrder /\ StoredFirst /\ DiscordOrder /\ AlertsOnce /\ ViewerOrder)'
  <2>1. ~overlap /\ (Alone => Alone') BY <1>0, <1>2, AloneStep
  <2>2. Alone /\ QueueInOrder /\ StoredFirst /\ DiscordOrder /\ AlertsOnce /\ ViewerOrder
    BY <2>1 DEF IInv
  <2>3. QueueInOrder' BY <1>0, <2>2, QueueOrderStep
  <2>4. StoredFirst' BY <1>0, <2>2, StoredStep
  <2>5. DiscordOrder' BY <1>0, <2>2, DiscordStep
  <2>6. AlertsOnce' BY <1>0, <2>2, AlertsStep
  <2>7. ViewerOrder' BY <1>0, <2>2, ViewerStep
  <2> QED BY <2>1, <2>2, <2>3, <2>4, <2>5, <2>6, <2>7
<1> QED BY <1>1, <1>2 DEF IInv

(* The inductive invariant holds in every reachable state of the lines'    *)
(* way through the system.                                                  *)
THEOREM Invariance == Spec => []IInv
<1>1. Init => IInv BY InitInv
<1>2. IInv /\ [Next]_vars => IInv' BY NextInv
<1> QED BY <1>1, <1>2, PTL DEF Spec

(* Type correctness: no bus and no queue outgrows its capacity, and nothing *)
(* is anywhere that the server has not printed.                             *)
THEOREM TypeCorrectness == Spec => []TypeOK
<1>1. IInv => TypeOK BY DEF IInv
<1> QED BY <1>1, Invariance, PTL

(* No line vanishes: one that no full channel, failure or restart has       *)
(* dropped is stored, posted and counted as its kind asks for, or in a      *)
(* queue that leads there.                                                  *)
THEOREM NothingVanishesTheorem == Spec => []NothingVanishes
<1>1. IInv => NothingVanishes BY DEF IInv
<1> QED BY <1>1, Invariance, PTL

(* While no connection has outlived its replacement, Discord gets each      *)
(* message once and in order, and no start or stop of the server is left    *)
(* out between two that are announced.                                      *)
THEOREM DiscordInOrderTheorem == Spec => []DiscordInOrder
<1>1. ASSUME IInv, ~overlap
      PROVE  LET plain == posted["say"]
                 At(K) == {i \in 1..Len(plain) : Kind(plain[i]) \in K}
             IN  /\ Ordered(posted["webhook"])
                 /\ \A K \in {{"join"}, {"leave"}, StateKinds} : InOrder(plain, K)
                 /\ IsInjective(posted["alert"])
                 /\ At({"saved"}) = {}
                 /\ lost = {} => \A i, j \in At(StateKinds) :
                      i < j /\ (\A k \in At(StateKinds) : k <= i \/ j <= k) =>
                        \A n \in Lines : plain[i] < n /\ n < plain[j] => ~Announced(n)
  <2> DEFINE plain == posted["say"]
             At(K) == {i \in 1..Len(plain) : Kind(plain[i]) \in K}
  <2>0. /\ Lines \subseteq Nat /\ plain \in Seq(Lines) /\ posted["webhook"] \in Seq(Lines)
        /\ say \in Seq(Lines)
    BY <1>1 DEF IInv, TypeOK, Lines
  <2>1. plain \in Seq(Nat) /\ posted["webhook"] \in Seq(Nat) BY <2>0, SeqWider
  <2>2. Ordered(posted["webhook"]) BY <1>1, <2>1, OrderedIs DEF IInv, DiscordOrder, InChannel
  <2>3. \A i \in 1..Len(plain) : plain[i] \in Nat /\ plain[i] \in ToSet(plain) BY <2>1, ToSetIs
  <2>4. ASSUME NEW K \in {{"join"}, {"leave"}, StateKinds} PROVE OrdIn(plain, OfKind(K))
    <3>1. PICK p \in PlainSources : p[1] = K BY DEF PlainSources
    <3> QED BY <1>1, <3>1 DEF IInv, DiscordOrder, InChannel
  <2>5. ASSUME NEW K \in {{"join"}, {"leave"}, StateKinds} PROVE InOrder(plain, K)
    BY <2>3, <2>4 DEF InOrder, OrdIn, OfKind
  <2>6. IsInjective(posted["alert"]) BY <1>1 DEF IInv, AlertsOnce
  <2>7. At({"saved"}) = {} BY <1>1, <2>3 DEF IInv, NoSaves
  <2>8. ASSUME lost = {}, NEW i \in At(StateKinds), NEW j \in At(StateKinds), i < j,
               \A k \in At(StateKinds) : k <= i \/ j <= k,
               NEW n \in Lines, plain[i] < n, n < plain[j], Announced(n)
        PROVE  FALSE
    <3> DEFINE S == OfKind(StateKinds)
    <3>1. n \in Nat /\ Kind(n) \in {"started", "closed"} /\ n \in S
      BY <2>0, <2>8 DEF Announced, OfKind, StateKinds
    <3>2. i \in 1..Len(plain) /\ j \in 1..Len(plain) /\ plain[i] \in S /\ plain[j] \in S
      BY <2>3 DEF OfKind
    <3>3. InChannel(plain, say, S, ToCome("g2d_state"))
      <4>1. <<StateKinds, "g2d_state">> \in PlainSources BY DEF PlainSources
      <4>2. DiscordOrder BY <1>1 DEF IInv
      <4> QED BY <4>1, <4>2 DEF DiscordOrder
    <3>4. n \in ToSet(plain) \cup ToSet(say) \cup ToSet(queue["g2d_state"]) \/ Ahead(n, "serverstate")
      BY <1>1, <2>8, <3>1 DEF IInv, NothingVanishes, Posted
    <3>5. ~(n < n) /\ ~(plain[i] < plain[i]) /\ plain[i] \in Nat /\ plain[j] \in Nat BY <2>3, <3>1, <3>2
    <3>6. CASE n \in ToSet(plain)
      <4>1. PICK k \in 1..Len(plain) : plain[k] = n BY <2>1, <3>6, ToSetIs
      <4>2. k \in At(StateKinds) BY <3>1, <4>1 DEF StateKinds
      <4>3. k <= i \/ j <= k BY <2>8, <4>2
      <4>4. k # i /\ k # j BY <2>8, <3>1, <3>5, <4>1
      <4>5. OrdIn(plain, S) BY <3>3 DEF InChannel
      <4>6. CASE k < i
        <5>1. plain[k] < plain[i] BY <3>1, <3>2, <4>1, <4>5, <4>6 DEF OrdIn
        <5> QED BY <2>8, <3>1, <3>5, <4>1, <5>1
      <4>7. CASE j < k
        <5>1. plain[j] < plain[k] BY <3>1, <3>2, <4>1, <4>5, <4>7 DEF OrdIn
        <5> QED BY <2>8, <3>1, <3>5, <4>1, <5>1
      <4> QED BY <4>3, <4>4, <4>6, <4>7
    <3>7. CASE n \in ToSet(say)
      <4>1. plain[j] < n BY <2>3, <3>1, <3>2, <3>3, <3>7 DEF InChannel, Below
      <4> QED BY <2>8, <3>1, <3>5, <4>1
    <3>8. CASE n \in ToSet(queue["g2d_state"]) \/ Ahead(n, "serverstate")
      <4>1. TopicOf["g2d_state"] = "serverstate" BY DEF TopicOf
      <4>2. n \in ToCome("g2d_state") BY <2>8, <3>8, <4>1 DEF ToCome, InFront
      <4>3. plain[j] < n BY <2>3, <3>2, <3>3, <4>2 DEF InChannel, Below
      <4> QED BY <2>8, <3>1, <3>5, <4>3
    <3> QED BY <3>4, <3>6, <3>7, <3>8
  <2> QED BY <2>2, <2>5, <2>6, <2>7, <2>8
<1>2. IInv => DiscordInOrder BY <1>1 DEF DiscordInOrder
<1> QED BY <1>2, Invariance, PTL

(* Two sequences in order, the second after the first, are in order         *)
(* together.                                                                *)
LEMMA OrderedConcat ==
  ASSUME NEW p \in Seq(Nat), NEW q \in Seq(Nat), Ordered(p), Ordered(q), Below(ToSet(p), ToSet(q))
  PROVE  Ordered(p \o q)
<1> DEFINE t == p \o q
<1>1. /\ Len(p) \in Nat /\ Len(q) \in Nat /\ Len(t) = Len(p) + Len(q)
      /\ \A i \in 1..Len(t) : t[i] = IF i <= Len(p) THEN p[i] ELSE q[i - Len(p)]
  OBVIOUS
<1> HIDE DEF t
<1>2. \A i \in 1..Len(t) : i <= Len(p) => i \in 1..Len(p) /\ t[i] = p[i] /\ p[i] \in ToSet(p)
  BY <1>1, ToSetIs
<1>3. ASSUME NEW i \in 1..Len(t), ~(i <= Len(p))
      PROVE  i - Len(p) \in 1..Len(q) /\ t[i] = q[i - Len(p)] /\ q[i - Len(p)] \in ToSet(q)
  <2>1. i - Len(p) \in 1..Len(q) BY <1>1, <1>3
  <2> QED BY <1>1, <1>3, <2>1, ToSetIs
<1>4. ASSUME NEW i \in 1..Len(t), NEW j \in 1..Len(t), i < j PROVE t[i] < t[j]
  <2>1. CASE j <= Len(p)
    <3>1. i <= Len(p) BY <1>1, <1>4, <2>1
    <3> QED BY <1>2, <1>4, <2>1, <3>1 DEF Ordered
  <2>2. CASE i <= Len(p) /\ ~(j <= Len(p)) BY <1>2, <1>3, <2>2 DEF Below
  <2>3. CASE ~(i <= Len(p))
    <3>1. ~(j <= Len(p)) /\ i - Len(p) < j - Len(p) BY <1>1, <1>4, <2>3
    <3> QED BY <1>3, <2>3, <3>1 DEF Ordered
  <2> QED BY <2>1, <2>2, <2>3
<1> QED BY <1>4 DEF t, Ordered

(* While no connection has outlived its replacement and the browser does    *)
(* not lag, the stream is in order and has every line of the category       *)
(* published since the browser subscribed, and the lines up to the marker   *)
(* are stored and not in it (routes/logs.rs).                               *)
THEOREM ViewerSeesEachOnceTheorem == Spec => []ViewerSeesEachOnce
<1>1. IInv => ViewerSeesEachOnce
  <2> SUFFICES ASSUME IInv, viewer = "streaming", ~overlap, ~lagged[Viewer] PROVE ViewerSeesEachOnce
    BY DEF ViewerSeesEachOnce
  <2> DEFINE stream == ToSet(seen) \cup {n \in ToSet(queue[Viewer]) : StdoutCategory(Kind(n)) = category}
  <2>0. /\ TypeOK /\ Viewer \in Subscribers /\ Lines \subseteq Nat
        /\ seen \in Seq(Lines) /\ queue[Viewer] \in Seq(Lines)
    <3>1. TypeOK /\ Viewer \in Subscribers BY SubscriberNames DEF IInv
    <3>2. seen \in Seq(Lines) /\ queue[Viewer] \in Seq(Lines) BY <3>1 DEF TypeOK
    <3>3. Lines \subseteq Nat BY DEF Lines
    <3> QED BY <3>1, <3>2, <3>3
  <2>1. seen \in Seq(Nat) /\ queue[Viewer] \in Seq(Nat) BY <2>0, SeqWider
  <2>2. ViewerOrder /\ Ordered(queue[Viewer]) BY <2>0 DEF IInv, QueueInOrder
  <2>3. Below(ToSet(seen), ToSet(queue[Viewer])) BY <2>2 DEF ViewerOrder, ToCome, Below
  <2>4. Ordered(seen \o queue[Viewer]) BY <2>1, <2>2, <2>3, OrderedConcat DEF ViewerOrder
  <2>5. Below({marker}, ToSet(seen) \cup ToSet(queue[Viewer])) BY <2>2 DEF ViewerOrder, ToCome, Below
  <2>6. marker \in Nat BY <2>0 DEF TypeOK, NoMarker
  <2>7. ASSUME NEW n \in Of(category, Lines) \ lost, ~Ahead(n, "stdout")
        PROVE  (n \notin early => n \in stream) /\ (n <= marker => n \in db /\ n \notin stream)
    <3>1. /\ n <= marker => n \in db
          /\ n \notin early => n \in ToSet(seen) \cup ToSet(queue[Viewer])
      BY <2>2, <2>7 DEF ViewerOrder
    <3>2. n \in Lines BY DEF Of
    <3>3. n \in Nat /\ StdoutCategory(Kind(n)) = category BY <2>0, <3>2, OfCategory
    <3>4. n <= marker => n \notin ToSet(seen) \cup ToSet(queue[Viewer])
      BY <2>5, <2>6, <3>3 DEF Below
    <3> QED BY <3>1, <3>3, <3>4
  <2> QED BY <2>4, <2>7 DEF ViewerSeesEachOnce
<1> QED BY <1>1, Invariance, PTL
=============================================================================
