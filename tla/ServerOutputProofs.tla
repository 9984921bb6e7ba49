------------------------- MODULE ServerOutputProofs --------------------------
(***************************************************************************)
(* Proofs about ServerOutput for any number of players, of unread lines    *)
(* and of bits in the counter: as long as the refreshes are quiet, the     *)
(* player count is exact up to the lines that wait in the pipe.            *)
(***************************************************************************)
EXTENDS ServerOutput, FiniteSetTheorems, FunctionTheorems, TLAPS

-----------------------------------------------------------------------------
(* Lines that wait                                                         *)

Lines == {"JOIN", "LEAVE", "RCON"} \cup GameStates

(* The lines l of s behind the first n. *)
Behind(s, n, l) == {i \in (n + 1)..Len(s) : s[i] = l}
Waiting(s, n, l) == Cardinality(Behind(s, n, l))

(* They are counted by a number. *)
LEMMA WaitingType ==
  ASSUME NEW s \in Seq(Lines), NEW n \in Nat, NEW l
  PROVE  IsFiniteSet(Behind(s, n, l)) /\ Waiting(s, n, l) \in Nat
<1>1. IsFiniteSet((n + 1)..Len(s)) BY FS_Interval
<1>2. Behind(s, n, l) \in SUBSET ((n + 1)..Len(s)) BY DEF Behind
<1>3. IsFiniteSet(Behind(s, n, l)) BY <1>1, <1>2, FS_Subset
<1> QED BY <1>3, FS_CardinalityType DEF Waiting

(* r is s with x behind it, and s has no joins and leaves. *)
Extended(s, r, x) == Len(r) = Len(s) + 1 /\ r[Len(s) + 1] = x /\ \A i \in 1..Len(s) : r[i] = s[i]
NoMoves(s) == \A i \in 1..Len(s) : s[i] \notin {"JOIN", "LEAVE"}

(* A line that is written adds to those of its kind behind every place, and *)
(* nothing is behind the last.                                              *)
LEMMA WaitingAppend ==
  ASSUME NEW s \in Seq(Lines), NEW r \in Seq(Lines), NEW x, Extended(s, r, x),
         NEW l, NEW n \in 0..Len(s)
  PROVE  /\ Waiting(r, n, l) = Waiting(s, n, l) + (IF x = l THEN 1 ELSE 0)
         /\ Waiting(r, Len(s) + 1, l) = 0
<1>1. /\ Len(s) \in Nat /\ Len(r) = Len(s) + 1 /\ r[Len(s) + 1] = x
      /\ \A i \in 1..Len(s) : r[i] = s[i]
  BY DEF Extended
<1>2. Waiting(r, n, l) = Waiting(s, n, l) + (IF x = l THEN 1 ELSE 0)
  <2>1. IsFiniteSet(Behind(s, n, l)) /\ Waiting(s, n, l) \in Nat BY WaitingType
  <2>2. Len(s) + 1 \notin Behind(s, n, l) BY DEF Behind
  <2>3. CASE x = l
    <3>1. Behind(r, n, l) = Behind(s, n, l) \cup {Len(s) + 1}
      BY <1>1, <2>3 DEF Behind
    <3> QED BY <2>1, <2>2, <2>3, <3>1, FS_AddElement DEF Waiting
  <2>4. CASE x # l
    <3>1. Behind(r, n, l) = Behind(s, n, l) BY <1>1, <2>4 DEF Behind
    <3> QED BY <2>1, <2>4, <3>1 DEF Waiting
  <2> QED BY <2>3, <2>4
<1>3. Waiting(r, Len(s) + 1, l) = 0
  <2>1. Behind(r, Len(s) + 1, l) = {} BY <1>1 DEF Behind
  <2> QED BY <2>1, FS_EmptySet DEF Waiting
<1> QED BY <1>2, <1>3

(* When the first line is taken, every place moves by one. *)
LEMMA WaitingTail ==
  ASSUME NEW s \in Seq(Lines), s # << >>, NEW l, NEW n \in 0..(Len(s) - 1)
  PROVE  Waiting(Tail(s), n, l) = Waiting(s, n + 1, l)
<1> DEFINE r == Tail(s)
<1>1. r \in Seq(Lines) /\ Len(r) = Len(s) - 1 /\ \A i \in 1..Len(r) : r[i] = s[i + 1]
  OBVIOUS
<1>2. Len(s) \in Nat \ {0} OBVIOUS
<1> HIDE DEF r
<1> DEFINE A == Behind(r, n, l)
           B == Behind(s, n + 1, l)
           f == [i \in A |-> i + 1]
<1>3. IsFiniteSet(A) BY <1>1, <1>2, WaitingType
<1>4. f \in Bijection(A, B)
  <2>1. ASSUME NEW i \in A PROVE f[i] \in B BY <1>1, <1>2 DEF Behind
  <2>2. \A i, j \in A : f[i] = f[j] => i = j BY <1>1, <1>2 DEF Behind
  <2>3. ASSUME NEW j \in B PROVE \E i \in A : f[i] = j
    <3>1. j - 1 \in A /\ (j - 1) + 1 = j BY <1>1, <1>2 DEF Behind
    <3> QED BY <3>1
  <2>4. f \in [A -> B] BY <2>1
  <2> HIDE DEF A, B, f
  <2> QED BY <2>2, <2>3, <2>4 DEF Bijection, Injection, Surjection, IsInjective
<1> HIDE DEF f, A, B
<1>5. Cardinality(A) = Cardinality(B) BY <1>3, <1>4, FS_Bijection DEF ExistsBijection
<1> QED BY <1>5 DEF Waiting, A, B, r

(* The first line is one more than those behind it. *)
LEMMA WaitingHead ==
  ASSUME NEW s \in Seq(Lines), s # << >>, NEW l
  PROVE  Waiting(s, 0, l) = Waiting(s, 1, l) + (IF Head(s) = l THEN 1 ELSE 0)
<1>1. Len(s) \in Nat \ {0} /\ Head(s) = s[1] OBVIOUS
<1>2. IsFiniteSet(Behind(s, 1, l)) /\ Waiting(s, 1, l) \in Nat BY WaitingType
<1>3. 1 \notin Behind(s, 1, l) BY DEF Behind
<1>4. CASE Head(s) = l
  <2>1. Behind(s, 0, l) = Behind(s, 1, l) \cup {1} BY <1>1, <1>4 DEF Behind
  <2> QED BY <1>2, <1>3, <1>4, <2>1, FS_AddElement DEF Waiting
<1>5. CASE Head(s) # l
  <2>1. Behind(s, 0, l) = Behind(s, 1, l) BY <1>1, <1>5 DEF Behind
  <2> QED BY <1>2, <1>5, <2>1 DEF Waiting
<1> QED BY <1>4, <1>5

(* The counter. *)
LEMMA Wraps ==
  /\ 2 ^ Width \in Nat /\ 2 ^ Width > MaxPlayers
  /\ \A n \in Int : Wrap(n) \in Counts
  /\ \A n \in 0..MaxPlayers : Wrap(n) = n /\ n \in Counts
<1> DEFINE D == 2 ^ Width
<1>1. D \in Int /\ D > MaxPlayers /\ MaxPlayers \in Nat BY ConstantsAssumption
<1> HIDE DEF D
<1>2. \A n \in Int : n % D \in 0..(D - 1) BY <1>1
<1>3. \A n \in 0..MaxPlayers : n % D = n /\ n \in 0..(D - 1) BY <1>1
<1> QED BY <1>1, <1>2, <1>3 DEF D, Wrap, Counts

-----------------------------------------------------------------------------
(* The inductive invariant                                                 *)

(* How many players there were when line n of s was written, if there are o *)
(* now.                                                                     *)
OnlineAt(o, s, n) == o - Waiting(s, n, "JOIN") + Waiting(s, n, "LEAVE")

(* The count is what it was when the last line that was read was written,   *)
(* and will at no later line be out of range ...                            *)
Exact == /\ player_count = OnlineAt(online, lines, 0)
         /\ \A n \in 0..Len(lines) : OnlineAt(online, lines, n) \in 0..MaxPlayers

(* ... and a quiet refresh finds nothing unread, and brings the truth.      *)
QuietRefresh ==
  quiet => Unread = {} /\ (refresh = "answered" => answer = online)

IInv ==
  /\ TypeOK
  /\ settled => Exact
  /\ QuietRefresh

(* What the steps of the server and of the tasks keep of the types. *)
LEMMA TypeStep ==
  ASSUME TypeOK, [Next]_vars
  PROVE  TypeOK'
<1>1. ASSUME NEW x \in Lines, WriteOut(x) PROVE lines' \in Seq(Lines)
  BY <1>1 DEF WriteOut, TypeOK, Lines
<1>2. ASSUME NEW t \in GameStates, ChangeState(t) PROVE TypeOK'
  <2>1. lines' \in Seq(Lines) BY <1>1, <1>2 DEF ChangeState, Lines
  <2>2. online' \in 0..MaxPlayers BY <1>2, ConstantsAssumption DEF ChangeState, TypeOK
  <2> QED BY <1>2, <2>1, <2>2 DEF ChangeState, TypeOK, learnt, Lines
<1>3. CASE AnnounceRcon BY <1>1, <1>3 DEF AnnounceRcon, TypeOK, learnt, Lines
<1>4. ASSUME NEW l \in {"JOIN", "LEAVE"}, NEW n, Move(l, n) PROVE TypeOK'
  <2>1. lines' \in Seq(Lines) BY <1>1, <1>4 DEF Move, Lines
  <2>2. moves' \in 0..MaxMoves BY <1>4, ConstantsAssumption DEF Move, TypeOK
  <2> QED BY <1>4, <2>1, <2>2 DEF Move, TypeOK, learnt, Lines
<1>5. CASE Exit
  <2>1. online' \in 0..MaxPlayers BY <1>5, ConstantsAssumption DEF Exit
  <2> QED BY <1>5, <2>1 DEF Exit, TypeOK, learnt
<1>6. CASE ReadLine
  <2>1. lines' \in Seq(Lines) /\ Head(lines) \in Lines
    BY <1>6 DEF ReadLine, TypeOK, Lines
  <2>2. player_count \in Int BY Wraps DEF TypeOK, Counts
  <2>3. Count(Head(lines)) \in Counts
    BY <2>2, Wraps DEF Count, TypeOK
  <2> QED BY <1>6, <2>1, <2>3 DEF ReadLine, TypeOK, server, Lines
<1>7. CASE RconConnect BY <1>7 DEF RconConnect, TypeOK, server
<1>8. CASE ReaderEnds BY <1>8 DEF ReaderEnds, TypeOK, server, learnt
<1>9. CASE RefreshAsks BY <1>9 DEF RefreshAsks, TypeOK, server, learnt
<1>10. CASE RefreshAnswered BY <1>10 DEF RefreshAnswered, TypeOK, server, learnt
<1>11. CASE RefreshFails BY <1>11 DEF RefreshFails, TypeOK, server, learnt
<1>12. CASE RefreshStores BY <1>12, Wraps DEF RefreshStores, TypeOK, server
<1>13. CASE Stop BY <1>13 DEF Stop, TypeOK, server, learnt
<1>14. CASE Waited BY <1>14 DEF Waited, TypeOK, server, learnt
<1>15. CASE UNCHANGED vars BY <1>15 DEF vars, TypeOK
<1> QED
  BY <1>2, <1>3, <1>4, <1>5, <1>6, <1>7, <1>8, <1>9, <1>10, <1>11, <1>12, <1>13, <1>14, <1>15
  DEF Next, ServerStep

(* A line that the server writes when n players are online: a join when     *)
(* there is one more, a leave when there is one less, another when as many. *)
LEMMA WriteStep ==
  ASSUME TypeOK, Exact, NEW x \in Lines, WriteOut(x), online' \in 0..MaxPlayers,
         online' = online + (IF x = "JOIN" THEN 1 ELSE 0) - (IF x = "LEAVE" THEN 1 ELSE 0),
         player_count' = player_count
  PROVE  Exact'
<1>1. lines \in Seq(Lines) /\ lines' = Append(lines, x) /\ online \in Int
  BY DEF TypeOK, Lines, WriteOut
<1>2. Len(lines') = Len(lines) + 1 /\ Len(lines) \in Nat BY <1>1
<1>3. \A n \in 0..Len(lines) : \A l : Waiting(lines, n, l) \in Nat BY <1>1, WaitingType
<1>4. ASSUME NEW l, NEW n \in 0..Len(lines)
      PROVE  /\ Waiting(lines', n, l) = Waiting(lines, n, l) + (IF x = l THEN 1 ELSE 0)
             /\ Waiting(lines', Len(lines) + 1, l) = 0
  <2>1. lines \in Seq(Lines) /\ lines' \in Seq(Lines) /\ Extended(lines, lines', x)
    BY <1>1 DEF Extended
  <2> QED BY <2>1, WaitingAppend
<1>5. ASSUME NEW n \in 0..Len(lines)
      PROVE  OnlineAt(online', lines', n) = OnlineAt(online, lines, n)
  <2>1. /\ Waiting(lines', n, "JOIN") = Waiting(lines, n, "JOIN") + (IF x = "JOIN" THEN 1 ELSE 0)
        /\ Waiting(lines', n, "LEAVE") = Waiting(lines, n, "LEAVE") + (IF x = "LEAVE" THEN 1 ELSE 0)
    BY <1>4
  <2>2. Waiting(lines, n, "JOIN") \in Nat /\ Waiting(lines, n, "LEAVE") \in Nat BY <1>3
  <2>3. CASE x = "JOIN" BY <1>1, <2>1, <2>2, <2>3 DEF OnlineAt
  <2>4. CASE x = "LEAVE" BY <1>1, <2>1, <2>2, <2>4 DEF OnlineAt
  <2>5. CASE x \notin {"JOIN", "LEAVE"} BY <1>1, <2>1, <2>2, <2>5 DEF OnlineAt
  <2> QED BY <2>3, <2>4, <2>5
<1>6. OnlineAt(online', lines', Len(lines) + 1) = online'
  <2>1. 0 \in 0..Len(lines) BY <1>2
  <2>2. /\ Waiting(lines', Len(lines) + 1, "JOIN") = 0
        /\ Waiting(lines', Len(lines) + 1, "LEAVE") = 0
    BY <1>4, <2>1
  <2> QED BY <1>1, <2>2 DEF OnlineAt
<1>7. player_count' = OnlineAt(online', lines', 0) BY <1>2, <1>5 DEF Exact
<1>8. ASSUME NEW n \in 0..Len(lines') PROVE OnlineAt(online', lines', n) \in 0..MaxPlayers
  <2>1. CASE n = Len(lines) + 1 BY <2>1, <1>6
  <2>2. CASE n \in 0..Len(lines) BY <2>2, <1>5 DEF Exact
  <2> QED BY <2>1, <2>2, <1>2
<1> QED BY <1>7, <1>8 DEF Exact

(* A line that is read is counted, and the counter does not wrap. *)
LEMMA ReadStep ==
  ASSUME TypeOK, Exact, ReadLine
  PROVE  Exact'
<1>1. /\ lines \in Seq(Lines) /\ lines # << >> /\ lines' = Tail(lines)
      /\ online \in Int /\ online' = online
  BY DEF TypeOK, Lines, ReadLine, server
<1>2. Len(lines') = Len(lines) - 1 /\ Len(lines) \in Nat \ {0} BY <1>1
<1>3. \A n \in 0..Len(lines) : \A l : Waiting(lines, n, l) \in Nat BY <1>1, WaitingType
<1>4. \A n \in 0..Len(lines') : \A l : Waiting(lines', n, l) = Waiting(lines, n + 1, l)
  BY <1>1, <1>2, WaitingTail
<1>5. \A n \in 0..Len(lines') : OnlineAt(online', lines', n) = OnlineAt(online, lines, n + 1)
  BY <1>1, <1>4 DEF OnlineAt
<1>6. \A n \in 0..Len(lines') : OnlineAt(online', lines', n) \in 0..MaxPlayers
  BY <1>2, <1>5 DEF Exact
<1>7. \A l : Waiting(lines, 0, l) = Waiting(lines, 1, l) + (IF Head(lines) = l THEN 1 ELSE 0)
  BY <1>1, WaitingHead
<1> DEFINE change == (IF Head(lines) = "JOIN" THEN 1 ELSE 0)
                       - (IF Head(lines) = "LEAVE" THEN 1 ELSE 0)
<1>8. OnlineAt(online, lines, 1) = player_count + change
  <2>1. \A l : Waiting(lines, 0, l) \in Nat /\ Waiting(lines, 1, l) \in Nat
    BY <1>2, <1>3
  <2>2. player_count = OnlineAt(online, lines, 0) BY DEF Exact
  <2>3. /\ Waiting(lines, 0, "JOIN") =
             Waiting(lines, 1, "JOIN") + (IF Head(lines) = "JOIN" THEN 1 ELSE 0)
        /\ Waiting(lines, 0, "LEAVE") =
             Waiting(lines, 1, "LEAVE") + (IF Head(lines) = "LEAVE" THEN 1 ELSE 0)
    BY <1>7
  <2>4. /\ Waiting(lines, 1, "JOIN") \in Nat /\ Waiting(lines, 1, "LEAVE") \in Nat BY <2>1
  <2>5. CASE Head(lines) = "JOIN" BY <1>1, <2>2, <2>3, <2>4, <2>5 DEF OnlineAt
  <2>6. CASE Head(lines) = "LEAVE" BY <1>1, <2>2, <2>3, <2>4, <2>6, SMTT(30) DEF OnlineAt
  <2>7. CASE Head(lines) \notin {"JOIN", "LEAVE"} BY <1>1, <2>2, <2>3, <2>4, <2>7 DEF OnlineAt
  <2> QED BY <2>5, <2>6, <2>7
<1>9. OnlineAt(online, lines, 1) \in 0..MaxPlayers /\ OnlineAt(online', lines', 0) = OnlineAt(online, lines, 1)
  <2>1. 1 \in 0..Len(lines) /\ 0 \in 0..Len(lines') /\ 0 + 1 = 1 BY <1>2
  <2> QED BY <1>5, <2>1 DEF Exact
<1>10. player_count \in 0..MaxPlayers BY <1>2 DEF Exact
<1>11. player_count' = OnlineAt(online, lines, 1)
  <2>1. player_count' = Count(Head(lines)) BY DEF ReadLine
  <2>2. CASE Head(lines) = "JOIN"
    <3>1. OnlineAt(online, lines, 1) = player_count + 1 BY <1>8, <1>10, <2>2
    <3> QED BY <2>1, <2>2, <3>1, <1>9, Wraps DEF Count
  <2>3. CASE Head(lines) = "LEAVE"
    <3>1. OnlineAt(online, lines, 1) = player_count - 1 BY <1>8, <1>10, <2>3
    <3> QED BY <2>1, <2>3, <3>1, <1>9, Wraps DEF Count
  <2>4. CASE Head(lines) \notin {"JOIN", "LEAVE"}
    BY <2>1, <2>4, <1>8, <1>10 DEF Count
  <2> QED BY <2>2, <2>3, <2>4
<1> QED BY <1>6, <1>9, <1>11 DEF Exact

(* When nothing of the kind waits, there were as many players as now. *)
LEMMA NothingUnread ==
  ASSUME NEW s \in Seq(Lines), NoMoves(s), NEW o \in Int, NEW n \in 0..Len(s)
  PROVE  OnlineAt(o, s, n) = o
<1>1. ASSUME NEW l \in {"JOIN", "LEAVE"} PROVE Waiting(s, n, l) = 0
  <2>1. Len(s) \in Nat OBVIOUS
  <2>2. Behind(s, n, l) = {} BY <2>1 DEF Behind, NoMoves
  <2> QED BY <2>2, FS_EmptySet DEF Waiting
<1> QED BY <1>1 DEF OnlineAt

(* Exactness looks at the count, the players and the lines only. *)
LEMMA ExactKept ==
  ASSUME Exact, UNCHANGED <<lines, online, player_count>>
  PROVE  Exact'
BY DEF Exact, OnlineAt, Waiting, Behind

(* The server and the tasks start within the invariant. *)
LEMMA InitInv == Init => IInv
<1> SUFFICES ASSUME Init PROVE IInv OBVIOUS
<1>1. TypeOK
  <2>1. 0 \in 0..MaxPlayers /\ 0 \in 0..MaxMoves /\ 0 \in Counts
    BY ConstantsAssumption, Wraps
  <2>2. lines \in Seq({"JOIN", "LEAVE", "RCON"} \cup GameStates) BY DEF Init
  <2>3. "Ready" \in GameStates BY DEF GameStates
  <2> QED BY <2>1, <2>2, <2>3 DEF Init, TypeOK
<1>2. lines = << >> /\ online = 0 /\ player_count = 0 BY DEF Init
<1>3. Exact
  <2>1. lines \in Seq(Lines) /\ Len(lines) = 0 BY <1>2
  <2>2. ASSUME NEW n \in 0..Len(lines) PROVE OnlineAt(0, lines, n) = 0
    <3>1. lines \in Seq(Lines) /\ NoMoves(lines) BY <2>1 DEF NoMoves
    <3> QED BY <2>2, <3>1, NothingUnread
  <2>3. 0 \in 0..MaxPlayers BY ConstantsAssumption
  <2> QED BY <1>2, <2>1, <2>2, <2>3 DEF Exact
<1> QED BY <1>1, <1>3 DEF IInv, Init, QuietRefresh

(* Every step of the server and of the two tasks keeps it. *)
LEMMA NextInv == IInv /\ [Next]_vars => IInv'
<1> SUFFICES ASSUME IInv, [Next]_vars PROVE IInv' OBVIOUS
<1> USE DEF IInv
<1>0. TypeOK' BY TypeStep
<1>1. lines \in Seq(Lines) /\ lines' \in Seq(Lines) BY <1>0 DEF TypeOK, Lines
<1>2. ASSUME NEW x \in Lines \ {"JOIN", "LEAVE"}, WriteOut(x) PROVE Unread' = Unread
  BY <1>1, <1>2 DEF Unread, WriteOut
<1>3. ASSUME NEW t \in GameStates, ChangeState(t) PROVE IInv'
  <2>1. t \in Lines \ {"JOIN", "LEAVE"} BY DEF Lines, GameStates
  <2>2. QuietRefresh' BY <1>2, <1>3, <2>1 DEF QuietRefresh, ChangeState
  <2>3. ASSUME settled' PROVE Exact'
    <3>1. settled /\ online' = online /\ WriteOut(t) /\ player_count' = player_count
      BY <1>3, <2>3 DEF ChangeState, learnt, TypeOK
    <3>2. online \in 0..MaxPlayers BY DEF TypeOK
    <3> QED BY <2>1, <3>1, <3>2, WriteStep
  <2> QED BY <1>0, <2>2, <2>3
<1>4. CASE AnnounceRcon
  <2>1. "RCON" \in Lines \ {"JOIN", "LEAVE"} BY DEF Lines
  <2>2. QuietRefresh' BY <1>2, <1>4, <2>1 DEF QuietRefresh, AnnounceRcon
  <2>3. ASSUME settled' PROVE Exact'
    <3>1. settled /\ online' = online /\ WriteOut("RCON") /\ player_count' = player_count
      BY <1>4, <2>3 DEF AnnounceRcon, learnt
    <3>2. online \in 0..MaxPlayers BY DEF TypeOK
    <3> QED BY <2>1, <3>1, <3>2, WriteStep
  <2> QED BY <1>0, <2>2, <2>3
<1>5. ASSUME NEW l \in {"JOIN", "LEAVE"},
             Move(l, IF l = "JOIN" THEN online + 1 ELSE online - 1)
      PROVE  IInv'
  <2>1. l \in Lines BY DEF Lines
  <2>2. QuietRefresh' BY <1>5 DEF QuietRefresh, Move
  <2>3. ASSUME settled' PROVE Exact'
    <3>1. /\ settled /\ WriteOut(l) /\ player_count' = player_count
          /\ online' = IF l = "JOIN" THEN online + 1 ELSE online - 1
          /\ online' \in 0..MaxPlayers
      BY <1>5, <2>3 DEF Move, learnt
    <3>2. online \in 0..MaxPlayers BY DEF TypeOK
    <3> QED BY <2>1, <3>1, <3>2, WriteStep
  <2> QED BY <1>0, <2>2, <2>3
<1>6. CASE Exit BY <1>0, <1>6 DEF Exit, QuietRefresh
<1>7. CASE ReadLine
  <2>1. Unread' \subseteq Unread
    <3>1. lines # << >> /\ lines' = Tail(lines) BY <1>7 DEF ReadLine
    <3>2. Len(lines') = Len(lines) - 1 /\ \A i \in 1..Len(lines') : lines'[i] = lines[i + 1]
      BY <1>1, <3>1
    <3> QED BY <1>1, <3>2 DEF Unread
  <2>2. QuietRefresh' BY <1>7, <2>1 DEF QuietRefresh, ReadLine, server
  <2>3. settled' => Exact' BY <1>7, ReadStep DEF ReadLine
  <2> QED BY <1>0, <2>2, <2>3
<1>8. CASE RconConnect
  BY <1>0, <1>8, ExactKept DEF RconConnect, server, QuietRefresh, Unread
<1>9. CASE ReaderEnds
  BY <1>0, <1>9, ExactKept DEF ReaderEnds, server, learnt, QuietRefresh, Unread
<1>10. CASE RefreshAsks
  BY <1>0, <1>10, ExactKept DEF RefreshAsks, server, learnt, QuietRefresh, Unread
<1>11. CASE RefreshAnswered
  BY <1>0, <1>11, ExactKept DEF RefreshAnswered, server, learnt, QuietRefresh, Unread
<1>12. CASE RefreshFails
  BY <1>0, <1>12, ExactKept DEF RefreshFails, server, learnt, QuietRefresh, Unread
<1>13. CASE RefreshStores
  <2>1. QuietRefresh' BY <1>13 DEF RefreshStores, server, QuietRefresh, Unread
  <2>2. ASSUME settled' PROVE Exact'
    <3>1. quiet /\ UNCHANGED <<lines, online>> /\ player_count' = answer
      BY <1>13, <2>2 DEF RefreshStores, server
    <3>2. Unread' = {} /\ player_count' = online'
      BY <1>13, <3>1 DEF QuietRefresh, Unread, RefreshStores
    <3>3. NoMoves(lines') BY <3>2 DEF Unread, NoMoves
    <3>4. online' \in 0..MaxPlayers BY <1>0 DEF TypeOK
    <3>5. Len(lines') \in Nat BY <1>1
    <3> QED BY <1>1, <3>2, <3>3, <3>4, <3>5, NothingUnread DEF Exact
  <2> QED BY <1>0, <2>1, <2>2
<1>14. CASE Stop BY <1>0, <1>14, ExactKept DEF Stop, server, learnt, QuietRefresh, Unread
<1>15. CASE Waited BY <1>0, <1>15, ExactKept DEF Waited, server, learnt, QuietRefresh, Unread
<1>16. CASE UNCHANGED vars BY <1>0, <1>16, ExactKept DEF vars, QuietRefresh, Unread
<1>17. CASE ServerStep
  BY <1>17, <1>3, <1>4, <1>5, <1>6 DEF ServerStep
<1> QED
  BY <1>7, <1>8, <1>9, <1>10, <1>11, <1>12, <1>13, <1>14, <1>15, <1>16, <1>17 DEF Next

(* The inductive invariant holds throughout. *)
THEOREM Invariance == Spec => []IInv
BY InitInv, NextInv, PTL DEF Spec

(* Whatever the server writes and however the tasks interleave, the state   *)
(* the agent keeps of a running server is of the kinds the code gives it;   *)
(* the atomic counter wraps and never leaves its width.                     *)
THEOREM TypeCorrectness == Spec => []TypeOK
<1>1. IInv => TypeOK BY DEF IInv
<1> QED BY <1>1, Invariance, PTL

(* For any number of players, any pipe and any width of the counter that    *)
(* holds them: while the refreshes are quiet, player_count is the number    *)
(* online less the joins and plus the leaves that wait to be read, so that  *)
(* fetch_sub never takes it below zero.                                     *)
THEOREM CountExactTheorem == Spec => []CountExact
<1>1. ASSUME IInv PROVE CountExact
  <2>1. DOMAIN lines = (0 + 1)..Len(lines) BY <1>1 DEF IInv, TypeOK
  <2>2. \A l : {i \in DOMAIN lines : lines[i] = l} = Behind(lines, 0, l)
    BY <2>1 DEF Behind
  <2> QED BY <1>1, <2>2 DEF IInv, Exact, OnlineAt, Waiting, CountExact
<1> QED BY <1>1, Invariance, PTL
=============================================================================
