------------------------- MODULE SaveTransferProofs --------------------------
(***************************************************************************)
(* Proofs about SaveTransfer for any number of browsers, downloads, links  *)
(* and files of any length: a completed upload is kept, a download is one  *)
(* version of the file, and a link lives as long as was promised.          *)
(***************************************************************************)
EXTENDS SaveTransfer, FiniteSetTheorems, FunctionTheorems, TLAPS

-----------------------------------------------------------------------------
(* The inductive invariant                                                 *)

(* The first n chunks of s are of content c. *)
Prefix(s, n, c) == n <= Len(s) /\ \A i \in 1..n : s[i] = c

Unmet(u) == u \notin mixed /\ upload[u] # Idle

(* Nothing is created or deleted, and no other content is written, beside   *)
(* an upload that nobody has met.                                           *)
Alone(c) == /\ ~deleting /\ ~creating
            /\ \A v \in Uploads : Writing(v) => content[v] = c /\ v \notin strayed

UnmetAlone == \A u \in Uploads : Unmet(u) => Alone(content[u])

(* Unless another file was selected, a chunk is one of the upload's own.    *)
OwnChunks ==
  \A u \in Uploads : u \notin strayed =>
    /\ selected[u] \in {content[u], NoContent}
    /\ task[u] # "none" => body[u] = IF IsSentinel(u) THEN Empty ELSE content[u]

(* A handler has the name open, unless its upload has been met. *)
HandlesName ==
  \A u \in Uploads : task[u] # "none" => /\ upload[u] # Idle
                                         /\ task[u] = "opened" /\ u \notin mixed => fd[u] = name

(* What was answered with Ok is on the disk. *)
SentStored ==
  \A u \in Uploads : Unmet(u) /\ upload[u] \in {"sending", "waiting"} /\ next[u] > 0 =>
    name # NoInode /\ Prefix(disk[name], next[u], content[u])

(* A promise to a download is kept as long as it reads ... *)
PromiseStands ==
  \A d \in Downloads : promised[d] # NoContent /\ download[d] \in {"listed", "reading"} =>
    /\ Alone(promised[d])
    /\ name # NoInode /\ disk[name] = Full(promised[d])

(* ... and what it has read is the beginning of what was promised.          *)
ReadSoFar ==
  \A d \in Downloads : promised[d] # NoContent =>
    /\ download[d] = "listed" => got[d] = << >>
    /\ download[d] = "reading" =>
         /\ rfd[d] = name
         /\ Len(got[d]) <= Size[promised[d]] /\ Prefix(got[d], Len(got[d]), promised[d])
    /\ download[d] \in {"read", "delivered"} => got[d] = Full(promised[d])

(* A link is at most as old as the last cleanup lets it be. *)
LinksYoung == \A l \in Links : /\ age[l] <= Expiry => l \in links
                               /\ l \in links => age[l] <= Expiry + timer

FileInv == /\ UnmetAlone /\ OwnChunks /\ HandlesName /\ SentStored /\ UploadKept
           /\ PromiseStands /\ ReadSoFar

IInv == TypeOK /\ FileInv /\ LinksYoung

-----------------------------------------------------------------------------
(* Files                                                                   *)

(* A file that is a run of one content, from its chunks. *)
LEMMA FullFile ==
  ASSUME NEW c \in Contents
  PROVE  /\ Size[c] \in Nat /\ Full(c) \in Seq(Cells) /\ Len(Full(c)) = Size[c]
         /\ Prefix(Full(c), Size[c], c)
         /\ \A s \in Seq(Cells) : Len(s) = Size[c] /\ Prefix(s, Size[c], c) => s = Full(c)
<1>1. Size[c] \in Nat /\ c \in Cells BY ConstantsAssumption DEF Cells
<1>2. Full(c) \in Seq(Cells) /\ Len(Full(c)) = Size[c] BY <1>1 DEF Full
<1>3. Prefix(Full(c), Size[c], c) BY <1>1, <1>2 DEF Full, Prefix
<1>4. ASSUME NEW s \in Seq(Cells), Len(s) = Size[c], Prefix(s, Size[c], c) PROVE s = Full(c)
  BY <1>1, <1>2, <1>4 DEF Full, Prefix
<1> QED BY <1>1, <1>2, <1>3, <1>4

(* A chunk written at k: what is before, behind and at k. *)
LEMMA Written ==
  ASSUME NEW s \in Seq(Cells), NEW k \in Nat \ {0}, NEW c \in Cells
  PROVE  /\ WriteAt(s, k, c) \in Seq(Cells)
         /\ Len(WriteAt(s, k, c)) = IF Len(s) < k THEN k ELSE Len(s)
         /\ WriteAt(s, k, c)[k] = c
         /\ \A i \in 1..Len(s) : i # k => WriteAt(s, k, c)[i] = s[i]
<1> DEFINE n == IF Len(s) < k THEN k ELSE Len(s)
           f == [i \in 1..n |-> IF i = k THEN c ELSE IF i <= Len(s) THEN s[i] ELSE Hole]
<1>1. WriteAt(s, k, c) = f BY DEF WriteAt
<1>2. Len(s) \in Nat /\ n \in Nat /\ k \in 1..n /\ 1..Len(s) \subseteq 1..n OBVIOUS
<1>3. \A i \in 1..n : f[i] \in Cells BY DEF Cells
<1> HIDE DEF n
<1>4. f \in Seq(Cells) /\ Len(f) = n BY <1>2, <1>3
<1> QED BY <1>1, <1>2, <1>4 DEF n

(* A file that is cut or extended. *)
LEMMA Cut ==
  ASSUME NEW s \in Seq(Cells), NEW n \in Nat
  PROVE  /\ SetLen(s, n) \in Seq(Cells) /\ Len(SetLen(s, n)) = n
         /\ \A i \in 1..n : i <= Len(s) => SetLen(s, n)[i] = s[i]
<1> DEFINE f == [i \in 1..n |-> IF i <= Len(s) THEN s[i] ELSE Hole]
<1>1. SetLen(s, n) = f BY DEF SetLen
<1>2. \A i \in 1..n : f[i] \in Cells BY DEF Cells
<1>3. f \in Seq(Cells) /\ Len(f) = n BY <1>2
<1> QED BY <1>1, <1>3

(* What a handler does to a file of its own content: chunks that are there   *)
(* stay, and a complete file stays complete.                                *)
Keeps(s, t, c) == /\ \A n \in 0..Size[c] : Prefix(s, n, c) => Prefix(t, n, c)
                  /\ s = Full(c) => t = Full(c)

(* A chunk in its place. *)
LEMMA ChunkKeeps ==
  ASSUME NEW s \in Seq(Cells), NEW c \in Contents, NEW k \in 1..Size[c]
  PROVE  /\ WriteAt(s, k, c) \in Seq(Cells) /\ Keeps(s, WriteAt(s, k, c), c)
         /\ Prefix(s, k - 1, c) => Prefix(WriteAt(s, k, c), k, c)
<1> DEFINE t == WriteAt(s, k, c)
<1>1. Size[c] \in Nat /\ c \in Cells /\ k \in Nat \ {0} BY FullFile DEF Cells
<1>2. /\ t \in Seq(Cells) /\ Len(t) = (IF Len(s) < k THEN k ELSE Len(s)) /\ t[k] = c
      /\ \A i \in 1..Len(s) : i # k => t[i] = s[i]
  BY <1>1, Written
<1> HIDE DEF t
<1>3. Len(s) \in Nat OBVIOUS
<1>4. \A n \in 0..Size[c] : Prefix(s, n, c) => Prefix(t, n, c)
  BY <1>1, <1>2, <1>3 DEF Prefix
<1>5. Prefix(s, k - 1, c) => Prefix(t, k, c) BY <1>1, <1>2, <1>3 DEF Prefix
<1>6. ASSUME s = Full(c) PROVE t = Full(c)
  <2>1. Prefix(s, Size[c], c) /\ Len(s) = Size[c] BY <1>6, FullFile
  <2>2. Prefix(t, Size[c], c) /\ Len(t) = Size[c] BY <1>1, <1>2, <1>4, <2>1
  <2> QED BY <1>2, <2>2, FullFile
<1> QED BY <1>2, <1>4, <1>5, <1>6 DEF Keeps, t

(* The sentinel, which trims the file. *)
LEMMA SentinelKeeps ==
  ASSUME NEW s \in Seq(Cells), NEW c \in Contents
  PROVE  /\ SetLen(s, Size[c]) \in Seq(Cells) /\ Keeps(s, SetLen(s, Size[c]), c)
         /\ Prefix(s, Size[c], c) => SetLen(s, Size[c]) = Full(c)
<1> DEFINE t == SetLen(s, Size[c])
<1>1. Size[c] \in Nat BY FullFile
<1>2. t \in Seq(Cells) /\ Len(t) = Size[c] /\ \A i \in 1..Size[c] : i <= Len(s) => t[i] = s[i]
  BY <1>1, Cut
<1> HIDE DEF t
<1>3. Len(s) \in Nat OBVIOUS
<1>4. \A n \in 0..Size[c] : Prefix(s, n, c) => Prefix(t, n, c)
  BY <1>1, <1>2, <1>3 DEF Prefix
<1>5. Prefix(s, Size[c], c) => t = Full(c)
  <2>1. Size[c] \in 0..Size[c] BY <1>1
  <2> QED BY <1>2, <1>4, <2>1, FullFile
<1>6. s = Full(c) => t = Full(c) BY <1>5, FullFile
<1> QED BY <1>2, <1>4, <1>5, <1>6 DEF Keeps, t

(* A chunk that is written in part where it was not yet. *)
LEMMA TornKeeps ==
  ASSUME NEW s \in Seq(Cells), NEW c \in Contents, NEW k \in 1..Size[c],
         ~(k <= Len(s) /\ s[k] = c)
  PROVE  WriteAt(s, k, Torn) \in Seq(Cells) /\ Keeps(s, WriteAt(s, k, Torn), c)
<1> DEFINE t == WriteAt(s, k, Torn)
<1>1. Size[c] \in Nat /\ Torn \in Cells /\ k \in Nat \ {0} BY FullFile DEF Cells
<1>2. /\ t \in Seq(Cells) /\ Len(t) = (IF Len(s) < k THEN k ELSE Len(s))
      /\ \A i \in 1..Len(s) : i # k => t[i] = s[i]
  BY <1>1, Written
<1> HIDE DEF t
<1>3. Len(s) \in Nat OBVIOUS
<1>4. \A n \in 0..Size[c] : Prefix(s, n, c) => Prefix(t, n, c)
  BY <1>1, <1>2, <1>3 DEF Prefix
<1>5. s # Full(c)
  BY <1>1, FullFile DEF Prefix
<1> QED BY <1>2, <1>4, <1>5 DEF Keeps, t

(* There is an inode for a new file: the name and the handles, one for each *)
(* upload and download, do not use them all.                                *)
LEMMA FreshInode ==
  ASSUME TypeOK
  PROVE  /\ Fresh \in Inodes /\ Fresh # name
         /\ \A u \in Uploads : fd[u] # Fresh
         /\ \A d \in Downloads : rfd[d] # Fresh
<1> DEFINE F == {fd[u] : u \in Uploads}
           R == {rfd[d] : d \in Downloads}
           nF == Cardinality(F)
           nR == Cardinality(R)
<1>1. IsFiniteSet(F) /\ nF <= Cardinality(Uploads)
  <2>1. fd \in Surjection(Uploads, F) BY DEF TypeOK, Surjection
  <2> HIDE DEF F
  <2> QED BY <2>1, ConstantsAssumption, FS_Surjection
<1>2. IsFiniteSet(R) /\ nR <= Cardinality(Downloads)
  <2>1. rfd \in Surjection(Downloads, R) BY DEF TypeOK, Surjection
  <2> HIDE DEF R
  <2> QED BY <2>1, ConstantsAssumption, FS_Surjection
<1> HIDE DEF F, R
<1> DEFINE U == (F \cup R) \cup {name}
<1>3. nF \in Nat /\ nR \in Nat BY <1>1, <1>2, FS_CardinalityType
<1>4. IsFiniteSet(F \cup R) /\ Cardinality(F \cup R) <= nF + nR
  <2>1. IsFiniteSet(F \cap R) BY <1>1, FS_Intersection
  <2>2. Cardinality(F \cap R) \in Nat BY <2>1, FS_CardinalityType
  <2>3. IsFiniteSet(F \cup R) /\ Cardinality(F \cup R) = nF + nR - Cardinality(F \cap R)
    BY <1>1, <1>2, FS_Union
  <2> QED BY <1>3, <2>2, <2>3
<1>5. Cardinality(F \cup R) \in Nat BY <1>4, FS_CardinalityType
<1>6. IsFiniteSet(U) /\ Cardinality(U) <= nF + nR + 1
  <2>1. IsFiniteSet(U) /\ Cardinality(U) \in {Cardinality(F \cup R), Cardinality(F \cup R) + 1}
    BY <1>4, FS_AddElement
  <2> QED BY <1>3, <1>4, <1>5, <2>1
<1>7. ASSUME Inodes \subseteq U PROVE FALSE
  <2>1. Cardinality(Inodes) <= Cardinality(U)
    <3> HIDE DEF U
    <3> QED BY <1>6, <1>7, FS_Subset
  <2>2. /\ Cardinality(Inodes) \in Nat /\ Cardinality(Uploads) \in Nat
        /\ Cardinality(Downloads) \in Nat /\ Cardinality(U) \in Nat
    BY <1>6, FS_CardinalityType, ConstantsAssumption
  <2> QED BY <1>1, <1>2, <1>3, <1>6, <2>1, <2>2, ConstantsAssumption
<1>8. \E i \in Inodes : /\ i # name
                        /\ \A u \in Uploads : fd[u] # i
                        /\ \A d \in Downloads : rfd[d] # i
  BY <1>7 DEF F, R
<1> QED BY <1>8 DEF Fresh

-----------------------------------------------------------------------------
(* Types                                                                   *)

(* A writer that begins changes what may be expected, to something that may.*)
LEMMA MeetType ==
  ASSUME TypeOK, NEW me \in SUBSET Uploads, NEW c, Meet(me, c)
  PROVE  mixed' \subseteq Uploads /\ promised' \in [Downloads -> Contents \cup {NoContent}]
BY DEF Meet, TypeOK

(* What a handler stores is a file, whatever the chunk is a part of. *)
LEMMA StoredType ==
  ASSUME TypeOK, NEW u \in Uploads, NEW s \in Seq(Cells)
  PROVE  Stored(s, u) \in Seq(Cells)
<1>1. next[u] \in Nat /\ next[u] + 1 \in Nat \ {0} /\ body[u] \in Contents \cup {Empty}
  BY DEF TypeOK
<1>2. CASE body[u] = Empty BY <1>1, <1>2, Cut DEF Stored
<1>3. CASE body[u] # Empty
  <2>1. body[u] \in Cells BY <1>1, <1>3 DEF Cells
  <2> QED BY <1>1, <1>3, <2>1, Written DEF Stored
<1> QED BY <1>2, <1>3

(* What a handler makes of the file of its own content. *)
LEMMA StoredFile ==
  ASSUME TypeOK, NEW u \in Uploads, upload[u] # Idle, NEW s \in Seq(Cells),
         body[u] = IF IsSentinel(u) THEN Empty ELSE content[u]
  PROVE  /\ content[u] \in Contents /\ next[u] \in 0..Size[content[u]]
         /\ Size[content[u]] \in Nat
         /\ ~IsSentinel(u) => next[u] + 1 \in 1..Size[content[u]]
         /\ Stored(s, u) \in Seq(Cells) /\ Keeps(s, Stored(s, u), content[u])
         /\ Prefix(s, next[u], content[u]) =>
              IF IsSentinel(u) THEN Stored(s, u) = Full(content[u])
              ELSE Prefix(Stored(s, u), next[u] + 1, content[u])
<1>1. content[u] \in Contents /\ next[u] \in 0..Size[content[u]] BY DEF TypeOK
<1>2. Size[content[u]] \in Nat /\ content[u] # Empty BY <1>1, FullFile, ConstantsAssumption
<1>3. CASE IsSentinel(u)
  BY <1>1, <1>2, <1>3, SentinelKeeps DEF IsSentinel, Stored
<1>4. CASE ~IsSentinel(u)
  <2>1. next[u] + 1 \in 1..Size[content[u]] /\ (next[u] + 1) - 1 = next[u]
    BY <1>1, <1>2, <1>4 DEF IsSentinel
  <2> QED BY <1>1, <1>2, <1>4, <2>1, ChunkKeeps DEF Stored
<1> QED BY <1>3, <1>4

(* The inode that a handler has opened. *)
LEMMA HandleType ==
  ASSUME TypeOK
  PROVE  /\ \A u \in Uploads : task[u] = "opened" => fd[u] \in Inodes /\ disk[fd[u]] \in Seq(Cells)
         /\ \A d \in Downloads : download[d] = "reading" => rfd[d] \in Inodes /\ disk[rfd[d]] \in Seq(Cells)
         /\ name # NoInode => name \in Inodes /\ disk[name] \in Seq(Cells)
BY DEF TypeOK

(* A browser begins. *)
LEMMA TypeBegin ==
  ASSUME TypeOK, NEW u \in Uploads, NEW c \in Contents, Begin(u, c)
  PROVE  TypeOK'
<1>1. mixed' \subseteq Uploads /\ promised' \in [Downloads -> Contents \cup {NoContent}]
  BY MeetType DEF Begin
<1>2. Size[c] \in Nat BY FullFile
<1>3. requests' \in 0..MaxRequests
  BY ConstantsAssumption DEF Begin, NewRequest, TypeOK
<1>4. /\ upload' \in [Uploads -> {Idle, "sending", "waiting", "complete", "failed"}]
      /\ content' \in [Uploads -> Contents \cup {NoContent}] /\ next' \in [Uploads -> Nat]
  BY DEF Begin, TypeOK
<1>5. ASSUME NEW v \in Uploads, upload'[v] # Idle
      PROVE  content'[v] \in Contents /\ next'[v] \in 0..Size[content'[v]]
  BY <1>2, <1>5 DEF Begin, TypeOK
<1>6. selected' \in [Uploads -> Contents \cup {NoContent}] /\ strayed' \subseteq Uploads
  BY DEF Begin, TypeOK
<1> QED
  BY <1>1, <1>3, <1>4, <1>5, <1>6 DEF Begin, TypeOK, file, handling, downloading, linking

(* Another file is selected. *)
LEMMA TypeSelect ==
  ASSUME TypeOK, NEW u \in Uploads, NEW c \in Contents \cup {NoContent}, Select(u, c)
  PROVE  TypeOK'
<1>1. mixed' \subseteq Uploads /\ promised' \in [Downloads -> Contents \cup {NoContent}]
  <2>1. CASE UNCHANGED <<mixed, promised>> BY <2>1 DEF TypeOK
  <2>2. CASE Meet({}, NoContent) BY <2>2, MeetType
  <2> QED BY <2>1, <2>2 DEF Select
<1>2. trouble' \in 0..MaxTrouble
  BY ConstantsAssumption DEF TypeOK, Select, NewTrouble
<1>3. selected' \in [Uploads -> Contents \cup {NoContent}] /\ strayed' \subseteq Uploads
  BY DEF Select, TypeOK
<1> QED BY <1>1, <1>2, <1>3 DEF Select, TypeOK, file, handling, downloading, linking

(* What is cut from a file is a part of it, or nothing. *)
LEMMA SliceType ==
  ASSUME TypeOK, NEW u \in Uploads, Put(u)
  PROVE  body' \in [Uploads -> Contents \cup {Empty}]
<1>1. (IF IsSentinel(u) THEN Empty ELSE Slice(u)) \in Contents \cup {Empty}
  BY DEF TypeOK, Put, Slice
<1> QED BY <1>1 DEF TypeOK, Put

(* A request is sent, given up or lost. *)
LEMMA TypePut ==
  ASSUME TypeOK, NEW u \in Uploads, Put(u) \/ PutThrows(u) \/ TimesOut(u) \/ Lost(u)
  PROVE  TypeOK'
<1>1. trouble' \in 0..MaxTrouble
  BY ConstantsAssumption DEF TypeOK, Put, PutThrows, TimesOut, Lost, NewTrouble
<1>2. CASE Put(u)
  BY <1>1, <1>2, SliceType DEF Put, TypeOK, Idle, file, selection, downloading, linking
<1>3. CASE PutThrows(u)
  BY <1>1, <1>3 DEF PutThrows, TypeOK, Idle, file, selection, handling, downloading, linking
<1>4. CASE TimesOut(u)
  BY <1>1, <1>4 DEF TimesOut, GivesUp, TypeOK, Idle, file, selection, handling, downloading,
    linking
<1>5. CASE Lost(u)
  BY <1>1, <1>5 DEF Lost, TypeOK, Idle, file, selection, downloading, linking
<1> QED BY <1>2, <1>3, <1>4, <1>5

(* The agent opens the file, a new one if there is none. *)
LEMMA TypeOpen ==
  ASSUME TypeOK, NEW u \in Uploads, Open(u)
  PROVE  TypeOK'
<1>1. name' \in Inodes /\ disk' \in [Inodes -> Seq(Cells)]
      /\ fd' = [fd EXCEPT ![u] = name'] /\ task' = [task EXCEPT ![u] = "opened"]
  BY FreshInode, ConstantsAssumption DEF Open, TypeOK
<1>2. name' # NoInode BY <1>1, ConstantsAssumption
<1>3. fd' \in [Uploads -> Inodes \cup {NoInode}]
      /\ \A v \in Uploads : (task'[v] = "opened") = (fd'[v] # NoInode)
  BY <1>1, <1>2 DEF TypeOK
<1>4. task' \in [Uploads -> {"none", "spawned", "opened"}] BY <1>1 DEF TypeOK
<1> QED BY <1>1, <1>3, <1>4 DEF Open, TypeOK, selection, downloading, linking

(* Both ends of a handler. *)
LEMMA TypeFinish ==
  ASSUME TypeOK, NEW u \in Uploads, Finish(u)
  PROVE  /\ task' \in [Uploads -> {"none", "spawned", "opened"}]
         /\ body' \in [Uploads -> Contents \cup {Empty}]
         /\ fd' \in [Uploads -> Inodes \cup {NoInode}]
         /\ \A v \in Uploads : (task'[v] = "opened") = (fd'[v] # NoInode)
BY DEF TypeOK, Finish

(* A handler stores and answers. *)
LEMMA TypeStore ==
  ASSUME TypeOK, NEW u \in Uploads, upload[u] # Idle, Store(u)
  PROVE  TypeOK'
<1>1. fd[u] \in Inodes /\ disk[fd[u]] \in Seq(Cells) BY HandleType DEF Store
<1>2. Stored(disk[fd[u]], u) \in Seq(Cells) BY <1>1, StoredType
<1>3. disk' \in [Inodes -> Seq(Cells)] BY <1>1, <1>2 DEF Store, TypeOK
<1>4. /\ upload' \in [Uploads -> {Idle, "sending", "waiting", "complete", "failed"}]
      /\ next' \in [Uploads -> Nat]
  <2>1. next[u] + 1 \in Nat BY DEF TypeOK
  <2>2. CASE UNCHANGED <<upload, next>> BY <2>2 DEF TypeOK
  <2>3. CASE upload' = [upload EXCEPT ![u] = "complete"] /\ UNCHANGED next BY <2>3 DEF TypeOK
  <2>4. CASE upload' = [upload EXCEPT ![u] = "sending"] /\ next' = [next EXCEPT ![u] = @ + 1]
    BY <2>1, <2>4 DEF TypeOK
  <2> QED BY <2>2, <2>3, <2>4 DEF Store, Answered
<1>5. content[u] \in Contents /\ next[u] \in 0..Size[content[u]] /\ Size[content[u]] \in Nat
      /\ (~IsSentinel(u) => next[u] + 1 \in 1..Size[content[u]])
  <2>1. content[u] \in Contents /\ next[u] \in 0..Size[content[u]] BY DEF TypeOK
  <2> QED BY <2>1, FullFile DEF IsSentinel
<1>6. ASSUME NEW v \in Uploads, upload'[v] # Idle
      PROVE  content'[v] \in Contents /\ next'[v] \in 0..Size[content'[v]]
  <2>1. content' = content BY DEF Store, selection
  <2>2. CASE v = u BY <1>5, <2>1, <2>2 DEF Store, Answered, TypeOK
  <2>3. CASE v # u
    <3>1. upload'[v] = upload[v] /\ next'[v] = next[v] BY <2>3 DEF Store, Answered, TypeOK
    <3> QED BY <1>6, <2>1, <3>1 DEF TypeOK
  <2> QED BY <2>2, <2>3
<1>7. /\ task' \in [Uploads -> {"none", "spawned", "opened"}]
      /\ body' \in [Uploads -> Contents \cup {Empty}]
      /\ fd' \in [Uploads -> Inodes \cup {NoInode}]
      /\ \A v \in Uploads : (task'[v] = "opened") = (fd'[v] # NoInode)
  BY TypeFinish DEF Store
<1> QED BY <1>3, <1>4, <1>6, <1>7 DEF Store, TypeOK, selection, downloading, linking

(* A handler fails. *)
LEMMA TypeStoreFails ==
  ASSUME TypeOK, NEW u \in Uploads, upload[u] # Idle, StoreFails(u)
  PROVE  TypeOK'
<1>1. disk' \in [Inodes -> Seq(Cells)]
  <2>1. CASE UNCHANGED disk BY <2>1 DEF TypeOK
  <2>2. CASE ~UNCHANGED disk
    <3> DEFINE s == disk[fd[u]]
               k == next[u] + 1
    <3>1. task[u] = "opened"
          /\ disk' = [disk EXCEPT ![fd[u]] =
                        IF k <= Len(s) /\ s[k] = body[u] THEN s ELSE WriteAt(s, k, Torn)]
      BY <2>2 DEF StoreFails
    <3>2. fd[u] \in Inodes /\ s \in Seq(Cells) BY <3>1, HandleType
    <3>3. k \in Nat \ {0} /\ Torn \in Cells BY DEF TypeOK, Cells
    <3>4. (IF k <= Len(s) /\ s[k] = body[u] THEN s ELSE WriteAt(s, k, Torn)) \in Seq(Cells)
      BY <3>2, <3>3, Written
    <3> HIDE DEF s, k
    <3> QED BY <3>1, <3>2, <3>4 DEF TypeOK
  <2> QED BY <2>1, <2>2
<1>2. trouble' \in 0..MaxTrouble
  BY ConstantsAssumption DEF TypeOK, StoreFails, NewTrouble
<1>3. /\ upload' \in [Uploads -> {Idle, "sending", "waiting", "complete", "failed"}]
      /\ \A v \in Uploads : upload'[v] # Idle => upload[v] # Idle
  BY DEF StoreFails, GivesUp, TypeOK, Idle
<1>4. /\ task' \in [Uploads -> {"none", "spawned", "opened"}]
      /\ body' \in [Uploads -> Contents \cup {Empty}]
      /\ fd' \in [Uploads -> Inodes \cup {NoInode}]
      /\ \A v \in Uploads : (task'[v] = "opened") = (fd'[v] # NoInode)
  BY TypeFinish DEF StoreFails
<1> QED BY <1>1, <1>2, <1>3, <1>4 DEF StoreFails, TypeOK, selection, downloading, linking

(* Deletions and creations. *)
LEMMA TypeOther ==
  ASSUME TypeOK, Delete \/ Remove \/ Create \/ CreateEnds
  PROVE  TypeOK'
<1>1. requests' \in 0..MaxRequests /\ trouble' \in 0..MaxTrouble
  BY ConstantsAssumption DEF Delete, Remove, Create, CreateEnds, NewRequest, NewTrouble, TypeOK
<1>2. mixed' \subseteq Uploads /\ promised' \in [Downloads -> Contents \cup {NoContent}]
  <2>1. CASE Delete BY <2>1, MeetType DEF Delete
  <2>2. CASE Create BY <2>2, MeetType DEF Create
  <2>3. CASE Remove \/ CreateEnds BY <2>3 DEF Remove, CreateEnds, TypeOK
  <2> QED BY <2>1, <2>2, <2>3
<1>3. name' \in Inodes \cup {NoInode} /\ disk' \in [Inodes -> Seq(Cells)]
  <2>1. CASE Delete \/ Create \/ Remove BY <2>1 DEF Delete, Create, Remove, file, TypeOK
  <2>2. CASE CreateEnds
    <3>1. <<Created>> \in Seq(Cells) BY DEF Cells
    <3>2. CASE UNCHANGED file BY <3>2 DEF file, TypeOK
    <3>3. ASSUME NEW i \in {name, Fresh} \ {NoInode},
                 name' = i, disk' = [disk EXCEPT ![i] = <<Created>>]
          PROVE  name' \in Inodes \cup {NoInode} /\ disk' \in [Inodes -> Seq(Cells)]
      BY <3>1, <3>3, FreshInode DEF TypeOK
    <3> QED BY <2>2, <3>2, <3>3 DEF CreateEnds
  <2> QED BY <2>1, <2>2
<1>4. deleting' \in BOOLEAN /\ creating' \in BOOLEAN
  BY DEF Delete, Remove, Create, CreateEnds, TypeOK
<1>5. UNCHANGED <<uploading, downloading, linking>>
  BY DEF Delete, Remove, Create, CreateEnds
<1> QED
  BY <1>1, <1>2, <1>3, <1>4, <1>5
  DEF TypeOK, uploading, selection, handling, downloading, linking

(* The agent dies. *)
LEMMA TypeCrash ==
  ASSUME TypeOK, Crash
  PROVE  TypeOK'
<1>1. trouble' \in 0..MaxTrouble
  BY ConstantsAssumption DEF TypeOK, Crash, NewTrouble
<1>2. /\ task' \in [Uploads -> {"none", "spawned", "opened"}]
      /\ body' \in [Uploads -> Contents \cup {Empty}]
      /\ fd' \in [Uploads -> Inodes \cup {NoInode}]
      /\ \A v \in Uploads : (task'[v] = "opened") = (fd'[v] # NoInode)
  BY DEF Crash
<1>3. /\ download' \in [Downloads -> {Idle, "listed", "reading", "read", "delivered", "failed"}]
      /\ rfd' \in [Downloads -> Inodes \cup {NoInode}]
      /\ \A d \in Downloads : (download'[d] = "reading") = (rfd'[d] # NoInode)
  BY DEF Crash, TypeOK
<1> QED BY <1>1, <1>2, <1>3 DEF Crash, TypeOK, file, selection, linking

(* A download begins, reads and ends. *)
LEMMA TypeDownload ==
  ASSUME TypeOK, NEW d \in Downloads,
         (\E l \in Links : Download(d, l)) \/ ReadOpens(d) \/ Read(d) \/ Deliver(d) \/ DownloadFails(d)
  PROVE  TypeOK'
<1>1. requests' \in 0..MaxRequests /\ trouble' \in 0..MaxTrouble
  BY ConstantsAssumption
  DEF Download, ReadOpens, Read, Deliver, DownloadFails, NewRequest, NewTrouble, TypeOK
<1>2. UNCHANGED <<file, uploading, mixed, deleting, creating, linking>>
  BY DEF Download, ReadOpens, Read, Deliver, DownloadFails
<1>3. CASE \E l \in Links : Download(d, l)
  <2>1. Expected \in Contents \cup {NoContent} BY DEF Expected, TypeOK
  <2>2. promised' \in [Downloads -> Contents \cup {NoContent}] BY <1>3, <2>1 DEF Download, TypeOK
  <2>3. got' \in [Downloads -> Seq(Cells)] BY <1>3 DEF Download, TypeOK
  <2>4. /\ download' \in [Downloads -> {Idle, "listed", "reading", "read", "delivered", "failed"}]
        /\ rfd' \in [Downloads -> Inodes \cup {NoInode}]
        /\ \A e \in Downloads : (download'[e] = "reading") = (rfd'[e] # NoInode)
    BY <1>3 DEF Download, TypeOK
  <2> QED BY <1>1, <1>2, <2>2, <2>3, <2>4 DEF TypeOK, file, uploading, selection, handling, linking
<1>4. CASE ReadOpens(d)
  BY <1>1, <1>2, <1>4 DEF ReadOpens, TypeOK, file, uploading, selection, handling, linking
<1>5. CASE Read(d)
  <2> DEFINE s == disk[rfd[d]]
             k == Len(got[d]) + 1
  <2>1. rfd[d] \in Inodes /\ s \in Seq(Cells) BY <1>5, HandleType DEF Read
  <2>2. got[d] \in Seq(Cells) /\ k \in Nat \ {0} BY DEF TypeOK
  <2>3. k <= Len(s) => s[k] \in Cells BY <2>1, <2>2
  <2>4. k <= Len(s) => Append(got[d], s[k]) \in Seq(Cells) BY <2>2, <2>3
  <2> HIDE DEF s, k
  <2>5. got' \in [Downloads -> Seq(Cells)] BY <1>5, <2>4 DEF Read, TypeOK, s, k
  <2>6. /\ download' \in [Downloads -> {Idle, "listed", "reading", "read", "delivered", "failed"}]
        /\ rfd' \in [Downloads -> Inodes \cup {NoInode}]
        /\ \A e \in Downloads : (download'[e] = "reading") = (rfd'[e] # NoInode)
    <3>1. CASE UNCHANGED <<download, rfd>> BY <3>1 DEF TypeOK
    <3>2. CASE /\ download' = [download EXCEPT ![d] = "read"]
               /\ rfd' = [rfd EXCEPT ![d] = NoInode]
      BY <3>2 DEF TypeOK
    <3> QED BY <1>5, <3>1, <3>2 DEF Read
  <2>7. UNCHANGED promised BY <1>5 DEF Read
  <2> QED BY <1>1, <1>2, <2>5, <2>6, <2>7 DEF TypeOK, file, uploading, selection, handling, linking
<1>6. CASE Deliver(d)
  BY <1>1, <1>2, <1>6 DEF Deliver, TypeOK, file, uploading, selection, handling, linking
<1>7. CASE DownloadFails(d)
  BY <1>1, <1>2, <1>7 DEF DownloadFails, TypeOK, file, uploading, selection, handling, linking
<1> QED BY <1>3, <1>4, <1>5, <1>6, <1>7

(* Links, time and cleanups. *)
LEMMA TypeLink ==
  ASSUME TypeOK, Tick \/ Cleanup \/ \E l \in Links : CreateLink(l)
  PROVE  TypeOK'
<1>1. UNCHANGED <<file, uploading, mixed, deleting, creating, downloading, promised, requests, trouble>>
  BY DEF Tick, Cleanup, CreateLink
<1>2. NeverMade \in Nat /\ 0 \in 0..NeverMade /\ 0 \in 0..Interval
  BY ConstantsAssumption DEF NeverMade
<1>3. links' \subseteq Links BY DEF Tick, Cleanup, CreateLink, TypeOK
<1>4. age' \in [Links -> 0..NeverMade]
  <2>1. CASE Tick BY <2>1, <1>2 DEF Tick, TypeOK
  <2>2. CASE Cleanup BY <2>2 DEF Cleanup, TypeOK
  <2>3. CASE \E l \in Links : CreateLink(l) BY <2>3, <1>2 DEF CreateLink, TypeOK
  <2> QED BY <2>1, <2>2, <2>3
<1>5. timer' \in 0..Interval
  BY <1>2, ConstantsAssumption DEF Tick, Cleanup, CreateLink, TypeOK
<1> QED BY <1>1, <1>3, <1>4, <1>5 DEF TypeOK, file, uploading, selection, handling, downloading

(* Every step keeps the types; a handler needs an upload that has begun. *)
LEMMA TypeStep ==
  ASSUME TypeOK, HandlesName, [Next]_vars
  PROVE  TypeOK'
<1>1. ASSUME NEW u \in Uploads, NEW c \in Contents, Begin(u, c) PROVE TypeOK' BY <1>1, TypeBegin
<1>2. ASSUME NEW u \in Uploads, Put(u) \/ PutThrows(u) \/ TimesOut(u) \/ Lost(u) PROVE TypeOK'
  BY <1>2, TypePut
<1>3. ASSUME NEW u \in Uploads, Open(u) PROVE TypeOK' BY <1>3, TypeOpen
<1>4. ASSUME NEW u \in Uploads, Store(u) PROVE TypeOK'
  BY <1>4, TypeStore DEF HandlesName, Store
<1>5. ASSUME NEW u \in Uploads, StoreFails(u) PROVE TypeOK'
  BY <1>5, TypeStoreFails DEF HandlesName, StoreFails
<1>6. CASE Delete \/ Remove \/ Create \/ CreateEnds BY <1>6, TypeOther
<1>7. CASE Crash BY <1>7, TypeCrash
<1>8. ASSUME NEW d \in Downloads,
             (\E l \in Links : Download(d, l)) \/ ReadOpens(d) \/ Read(d) \/ Deliver(d) \/ DownloadFails(d)
      PROVE  TypeOK'
  BY <1>8, TypeDownload
<1>9. CASE Tick \/ Cleanup \/ \E l \in Links : CreateLink(l) BY <1>9, TypeLink
<1>10. CASE UNCHANGED vars
  BY <1>10 DEF TypeOK, vars, file, uploading, selection, handling, downloading, linking
<1>11. ASSUME NEW u \in Uploads, NEW c \in Contents \cup {NoContent}, Select(u, c) PROVE TypeOK'
  BY <1>11, TypeSelect
<1> QED
  BY <1>1, <1>2, <1>3, <1>4, <1>5, <1>6, <1>7, <1>8, <1>9, <1>10, <1>11 DEF Next

-----------------------------------------------------------------------------
(* Links                                                                   *)

(* Time, cleanups and new links. *)
LEMMA LinkStep ==
  ASSUME TypeOK, LinksYoung, [Next]_vars
  PROVE  LinksYoung'
<1>1. NeverMade = Expiry + Interval + 2 /\ Expiry \in Nat /\ Interval \in Nat
      /\ age \in [Links -> 0..NeverMade] /\ timer \in 0..Interval
  BY ConstantsAssumption DEF NeverMade, TypeOK
<1>2. CASE Tick
  BY <1>1, <1>2 DEF Tick, LinksYoung
<1>3. CASE Cleanup
  BY <1>1, <1>3 DEF Cleanup, LinksYoung
<1>4. ASSUME NEW l \in Links, CreateLink(l) PROVE LinksYoung'
  BY <1>1, <1>4 DEF CreateLink, LinksYoung
<1>5. CASE UNCHANGED linking
  BY <1>5 DEF linking, LinksYoung
<1>6. [Next]_vars => \/ Tick \/ Cleanup \/ UNCHANGED linking
                     \/ \E l \in Links : CreateLink(l)
  BY DEF Next, Begin, Select, Put, PutThrows, TimesOut, Open, Store, StoreFails, Lost, Delete, Remove, Create,
    CreateEnds, Crash, Download, ReadOpens, Read, Deliver, DownloadFails, vars
<1> QED BY <1>2, <1>3, <1>4, <1>5, <1>6

-----------------------------------------------------------------------------
(* The file                                                                *)

(* A browser begins.  Uploads and downloads of another content lose their   *)
(* expectations; its own are empty.                                         *)
LEMMA FileBegin ==
  ASSUME TypeOK, FileInv, NEW u \in Uploads, NEW c \in Contents, Begin(u, c)
  PROVE  FileInv'
<1>1. /\ upload' = [upload EXCEPT ![u] = "sending"] /\ content' = [content EXCEPT ![u] = c]
      /\ next' = [next EXCEPT ![u] = 0] /\ ~Writing(u) /\ Meet({u}, c)
      /\ selected' = [selected EXCEPT ![u] = c] /\ strayed' = strayed \ {u}
      /\ UNCHANGED <<name, disk, task, body, fd, deleting, creating, download, rfd, got>>
  BY DEF Begin, file, handling, downloading
<1>2. \A v \in Uploads : v # u => /\ upload'[v] = upload[v] /\ content'[v] = content[v]
                                  /\ next'[v] = next[v] /\ Writing(v)' = Writing(v)
                                  /\ selected'[v] = selected[v]
                                  /\ v \in strayed' <=> v \in strayed
  BY <1>1 DEF TypeOK, Writing
<1>3. /\ upload'[u] = "sending" /\ content'[u] = c /\ next'[u] = 0 /\ task[u] = "none"
      /\ selected'[u] = c /\ u \notin strayed'
  BY <1>1 DEF TypeOK, Writing
<1>4. ASSUME NEW v \in Uploads, v # u, Unmet(v)' PROVE Unmet(v) /\ content[v] = c
  <2>1. v \notin mixed /\ content[v] \in {c, NoContent} BY <1>1, <1>4 DEF Meet, Unmet
  <2>2. upload[v] # Idle BY <1>2, <1>4 DEF Unmet
  <2> QED BY <2>1, <2>2, ConstantsAssumption DEF Unmet, TypeOK
<1>5. ASSUME u \notin mixed'
      PROVE  /\ ~deleting /\ ~creating
             /\ \A v \in Uploads : v # u /\ Writing(v) => content[v] = c /\ v \notin strayed
  BY <1>1, <1>5 DEF Meet
<1>6. ASSUME ~deleting, ~creating,
             \A v \in Uploads : v # u /\ Writing(v) => content[v] = c /\ v \notin strayed
      PROVE  /\ ~deleting' /\ ~creating'
             /\ \A v \in Uploads : Writing(v)' => content'[v] = c /\ v \notin strayed'
  BY <1>1, <1>2, <1>3, <1>6
<1>7. UnmetAlone'
  <2> SUFFICES ASSUME NEW v \in Uploads, Unmet(v)'
               PROVE  /\ ~deleting' /\ ~creating'
                      /\ \A w \in Uploads :
                           Writing(w)' => content'[w] = content'[v] /\ w \notin strayed'
    BY DEF UnmetAlone, Alone
  <2>1. CASE v = u
    <3>1. u \notin mixed' BY <2>1 DEF Unmet
    <3> QED BY <1>3, <1>5, <1>6, <2>1, <3>1
  <2>2. CASE v # u
    <3>1. Unmet(v) /\ content[v] = c /\ content'[v] = c BY <1>2, <1>4, <2>2
    <3>2. Alone(c) BY <3>1 DEF FileInv, UnmetAlone
    <3> QED BY <1>6, <3>1, <3>2 DEF Alone
  <2> QED BY <2>1, <2>2
<1>8. HandlesName'
  <2> SUFFICES ASSUME NEW v \in Uploads, task'[v] # "none"
               PROVE  upload'[v] # Idle /\ (task'[v] = "opened" /\ v \notin mixed' => fd'[v] = name')
    BY DEF HandlesName
  <2>1. v # u /\ task[v] # "none" BY <1>1, <1>3
  <2>2. upload[v] # Idle /\ upload'[v] # Idle BY <1>2, <2>1 DEF FileInv, HandlesName
  <2>3. v \notin mixed' => v \notin mixed BY <1>1, <2>1 DEF Meet
  <2> QED BY <1>1, <2>1, <2>2, <2>3 DEF FileInv, HandlesName
<1>9. SentStored'
  <2> SUFFICES ASSUME NEW v \in Uploads, Unmet(v)', upload'[v] \in {"sending", "waiting"}, next'[v] > 0
               PROVE  name' # NoInode /\ Prefix(disk'[name'], next'[v], content'[v])
    BY DEF SentStored
  <2>1. v # u BY <1>3
  <2> QED BY <1>1, <1>2, <1>4, <2>1 DEF FileInv, SentStored
<1>10. UploadKept'
  <2> SUFFICES ASSUME NEW v \in Uploads, Kept(v)'
               PROVE  name' # NoInode /\ disk'[name'] = Full(content'[v])
    BY DEF UploadKept, Full
  <2>1. v # u BY <1>3 DEF Kept
  <2>2. Kept(v) BY <1>2, <1>4, <2>1 DEF Kept, Unmet, Idle
  <2> QED BY <1>1, <1>2, <2>1, <2>2 DEF FileInv, UploadKept
<1>11. ASSUME NEW d \in Downloads, promised'[d] # NoContent
       PROVE  /\ promised'[d] = promised[d]
              /\ download[d] \in {"listed", "reading"} => promised[d] = c
  BY <1>1, <1>11 DEF Meet
<1>12. PromiseStands'
  <2> SUFFICES ASSUME NEW d \in Downloads, promised'[d] # NoContent,
                      download'[d] \in {"listed", "reading"}
               PROVE  /\ ~deleting' /\ ~creating'
                      /\ \A v \in Uploads :
                           Writing(v)' => content'[v] = promised'[d] /\ v \notin strayed'
                      /\ name' # NoInode /\ disk'[name'] = Full(promised'[d])
    BY DEF PromiseStands, Full, Alone
  <2>1. promised'[d] = promised[d] /\ promised[d] = c /\ download[d] \in {"listed", "reading"}
    BY <1>1, <1>11
  <2>2. Alone(c) /\ name # NoInode /\ disk[name] = Full(c)
    BY <2>1 DEF FileInv, PromiseStands
  <2> QED BY <1>1, <1>6, <2>1, <2>2 DEF Alone
<1>13. ReadSoFar'
  BY <1>1, <1>11 DEF FileInv, ReadSoFar, Full, Prefix
<1>14. OwnChunks'
  <2> SUFFICES ASSUME NEW v \in Uploads, v \notin strayed'
               PROVE  /\ selected'[v] \in {content'[v], NoContent}
                      /\ task'[v] # "none" => body'[v] = IF IsSentinel(v)' THEN Empty ELSE content'[v]
    BY DEF OwnChunks
  <2>1. CASE v = u BY <1>1, <1>3, <2>1
  <2>2. CASE v # u
    <3>1. IsSentinel(v)' = IsSentinel(v) BY <1>2, <2>2 DEF IsSentinel
    <3> QED BY <1>1, <1>2, <2>2, <3>1 DEF FileInv, OwnChunks
  <2> QED BY <2>1, <2>2
<1> QED BY <1>7, <1>8, <1>9, <1>10, <1>12, <1>13, <1>14 DEF FileInv

(* Another file is selected: if it is another one, nobody who has begun may *)
(* expect anything any more.                                                *)
LEMMA FileSelect ==
  ASSUME TypeOK, FileInv, NEW u \in Uploads, NEW c \in Contents \cup {NoContent}, Select(u, c)
  PROVE  FileInv'
<1>1. /\ UNCHANGED <<name, disk, upload, content, next, task, body, fd, deleting, creating,
                     download, rfd, got>>
      /\ selected' = [selected EXCEPT ![u] = c]
  BY DEF Select, file, handling, downloading
<1>2. \A v \in Uploads : /\ Writing(v)' = Writing(v) /\ IsSentinel(v)' = IsSentinel(v)
                         /\ v # u => selected'[v] = selected[v]
  BY <1>1 DEF Writing, IsSentinel, TypeOK
<1>3. CASE UNCHANGED <<strayed, mixed, promised>> /\ c \in {content[u], NoContent}
  <2>1. \A v \in Uploads : Unmet(v)' = Unmet(v) /\ Kept(v)' = Kept(v)
    BY <1>1, <1>3 DEF Unmet, Kept
  <2>2. UnmetAlone' BY <1>1, <1>2, <1>3, <2>1 DEF FileInv, UnmetAlone, Alone
  <2>3. selected'[u] = c BY <1>1 DEF TypeOK
  <2>4. OwnChunks' BY <1>1, <1>2, <1>3, <2>3 DEF FileInv, OwnChunks
  <2>5. HandlesName' BY <1>1, <1>3 DEF FileInv, HandlesName
  <2>6. SentStored' BY <1>1, <2>1 DEF FileInv, SentStored, Prefix
  <2>7. UploadKept' BY <1>1, <2>1 DEF FileInv, UploadKept, Full
  <2>8. PromiseStands' BY <1>1, <1>2, <1>3 DEF FileInv, PromiseStands, Alone, Full
  <2>9. ReadSoFar' BY <1>1, <1>3 DEF FileInv, ReadSoFar, Prefix, Full
  <2> QED BY <2>2, <2>4, <2>5, <2>6, <2>7, <2>8, <2>9 DEF FileInv
<1>4. CASE strayed' = strayed \cup {u} /\ Meet({}, NoContent)
  <2>1. \A v \in Uploads : ~Unmet(v)' /\ (upload[v] # Idle => v \in mixed')
    BY <1>1, <1>4, ConstantsAssumption DEF Meet, Unmet, TypeOK
  <2>2. \A d \in Downloads : /\ download[d] \in {"listed", "reading"} => promised'[d] = NoContent
                             /\ promised'[d] # NoContent => promised'[d] = promised[d]
    BY <1>4 DEF Meet, TypeOK
  <2>3. UnmetAlone' /\ SentStored' BY <2>1 DEF UnmetAlone, SentStored
  <2>4. OwnChunks' BY <1>1, <1>2, <1>4 DEF FileInv, OwnChunks
  <2>5. HandlesName' BY <1>1, <2>1 DEF FileInv, HandlesName
  <2>6. UploadKept' BY <1>1, <2>1 DEF UploadKept, Kept, Idle
  <2>7. PromiseStands' BY <1>1, <2>2 DEF PromiseStands
  <2>8. ReadSoFar' BY <1>1, <2>2 DEF FileInv, ReadSoFar, Full
  <2> QED BY <2>3, <2>4, <2>5, <2>6, <2>7, <2>8 DEF FileInv
<1> QED BY <1>3, <1>4 DEF Select

(* Fewer writers: a request or an answer is sent, lost or given up. *)
LEMMA FilePut ==
  ASSUME TypeOK, FileInv, NEW u \in Uploads, Put(u) \/ PutThrows(u) \/ TimesOut(u) \/ Lost(u)
  PROVE  FileInv'
<1>1. UNCHANGED <<name, disk, content, selected, strayed, next, fd, mixed, deleting, creating,
                  download, rfd, got, promised>>
  BY DEF Put, PutThrows, TimesOut, Lost, file, selection, handling, downloading
<1>2. \A v \in Uploads :
        /\ Writing(v)' => Writing(v)
        /\ (upload'[v] = Idle) = (upload[v] = Idle)
        /\ upload'[v] \in {"sending", "waiting"} => upload[v] \in {"sending", "waiting"}
        /\ upload'[v] = "complete" => upload[v] = "complete"
        /\ task'[v] # "none" => upload'[v] # Idle
        /\ task'[v] = "opened" => task[v] = "opened"
  <2>1. CASE Put(u) BY <2>1 DEF Put, TypeOK, Writing, Idle, FileInv, HandlesName
  <2>2. CASE PutThrows(u)
    BY <2>2 DEF PutThrows, handling, TypeOK, Writing, Idle, FileInv, HandlesName
  <2>3. CASE TimesOut(u)
    BY <2>3 DEF TimesOut, GivesUp, handling, TypeOK, Writing, Idle, FileInv, HandlesName
  <2>4. CASE Lost(u) BY <2>4 DEF Lost, TypeOK, Writing, FileInv, HandlesName
  <2> QED BY <2>1, <2>2, <2>3, <2>4
<1>3. \A c : Alone(c) => Alone(c)' BY <1>1, <1>2 DEF Alone
<1>4. \A v \in Uploads : Unmet(v)' = Unmet(v) BY <1>1, <1>2 DEF Unmet
<1>5. UnmetAlone' BY <1>1, <1>3, <1>4 DEF FileInv, UnmetAlone
<1>6. HandlesName' BY <1>1, <1>2 DEF FileInv, HandlesName
<1>7. SentStored' BY <1>1, <1>2, <1>4 DEF FileInv, SentStored, Prefix
<1>8. UploadKept' BY <1>1, <1>2 DEF FileInv, UploadKept, Kept, Full
<1>9. PromiseStands' BY <1>1, <1>3 DEF FileInv, PromiseStands, Full
<1>10. ReadSoFar' BY <1>1 DEF FileInv, ReadSoFar, Prefix, Full
<1>11. OwnChunks'
  <2>1. \A v \in Uploads : IsSentinel(v)' = IsSentinel(v) BY <1>1 DEF IsSentinel
  <2>2. CASE Put(u)
    <3>1. ASSUME u \notin strayed
          PROVE  body'[u] = IF IsSentinel(u) THEN Empty ELSE content[u]
      <4>1. body'[u] = IF IsSentinel(u) THEN Empty ELSE Slice(u) BY <2>2 DEF Put, TypeOK
      <4>2. ASSUME ~IsSentinel(u) PROVE Slice(u) = content[u]
        <5>1. selected[u] = content[u] BY <2>2, <3>1, <4>2 DEF Put, FileInv, OwnChunks
        <5>2. content[u] \in Contents /\ next[u] \in 0..Size[content[u]]
          BY <2>2 DEF Put, TypeOK, Idle
        <5>3. next[u] < Size[content[u]] BY <4>2, <5>2, FullFile DEF IsSentinel
        <5> QED BY <5>1, <5>3 DEF Slice
      <4> QED BY <4>1, <4>2
    <3>2. \A v \in Uploads : v # u => task'[v] = task[v] /\ body'[v] = body[v]
      BY <2>2 DEF Put, TypeOK
    <3> QED BY <1>1, <2>1, <3>1, <3>2 DEF FileInv, OwnChunks
  <2>3. CASE ~Put(u)
    <3>1. \A v \in Uploads : task'[v] # "none" => task'[v] = task[v] /\ body'[v] = body[v]
      BY <2>3 DEF PutThrows, TimesOut, Lost, handling, TypeOK
    <3> QED BY <1>1, <2>1, <3>1 DEF FileInv, OwnChunks
  <2> QED BY <2>2, <2>3
<1> QED BY <1>5, <1>6, <1>7, <1>8, <1>9, <1>10, <1>11 DEF FileInv

(* The agent opens the file.  If it makes a new one, there was none, so     *)
(* that nothing was sent or promised yet.                                   *)
LEMMA FileOpen ==
  ASSUME TypeOK, FileInv, NEW u \in Uploads, Open(u)
  PROVE  FileInv'
<1>1. /\ task[u] = "spawned" /\ task' = [task EXCEPT ![u] = "opened"]
      /\ fd' = [fd EXCEPT ![u] = name']
      /\ UNCHANGED <<upload, content, selected, strayed, next, body, mixed, deleting, creating,
                     download, rfd, got, promised>>
  BY DEF Open, selection, downloading
<1>2. name # NoInode => UNCHANGED <<name, disk>> BY DEF Open
<1>3. \A v \in Uploads : /\ Writing(v)' = Writing(v) /\ Unmet(v)' = Unmet(v)
                         /\ Kept(v)' = Kept(v)
  BY <1>1 DEF Writing, Unmet, Kept, TypeOK
<1>4. UnmetAlone' BY <1>1, <1>3 DEF FileInv, UnmetAlone, Alone
<1>5. HandlesName'
  <2> SUFFICES ASSUME NEW v \in Uploads, task'[v] # "none"
               PROVE  upload'[v] # Idle /\ (task'[v] = "opened" /\ v \notin mixed' => fd'[v] = name')
    BY DEF HandlesName
  <2>1. CASE v = u BY <1>1, <2>1 DEF FileInv, HandlesName, TypeOK
  <2>2. CASE v # u
    <3>1. task'[v] = task[v] /\ fd'[v] = fd[v] BY <1>1, <2>2 DEF TypeOK
    <3>2. task[v] = "opened" => fd[v] # NoInode BY DEF TypeOK
    <3> QED BY <1>1, <1>2, <3>1, <3>2 DEF FileInv, HandlesName
  <2> QED BY <2>1, <2>2
<1>6. SentStored' BY <1>1, <1>2, <1>3 DEF FileInv, SentStored
<1>7. UploadKept' BY <1>1, <1>2, <1>3 DEF FileInv, UploadKept, Full
<1>8. PromiseStands' BY <1>1, <1>2, <1>3 DEF FileInv, PromiseStands, Full, Alone
<1>9. ReadSoFar'
  <2>1. \A d \in Downloads : download[d] = "reading" => rfd[d] # NoInode BY DEF TypeOK
  <2> QED BY <1>1, <1>2, <2>1 DEF FileInv, ReadSoFar, Full
<1>10. OwnChunks'
  <2>1. \A v \in Uploads : /\ IsSentinel(v)' = IsSentinel(v)
                           /\ task'[v] # "none" => task[v] # "none"
    BY <1>1 DEF IsSentinel, TypeOK
  <2> QED BY <1>1, <2>1 DEF FileInv, OwnChunks
<1> QED BY <1>4, <1>5, <1>6, <1>7, <1>8, <1>9, <1>10 DEF FileInv

(* A handler of upload u has done what it does to the file.  Whoever still  *)
(* expects anything of the file expects u's content.                        *)
LEMMA WriterStep ==
  ASSUME TypeOK, FileInv, NEW u \in Uploads, task[u] # "none", Finish(u),
         UNCHANGED <<name, content, selected, strayed, mixed, deleting, creating, download, rfd, got,
                     promised>>,
         name # NoInode /\ u \notin strayed => Keeps(disk[name], disk'[name], content[u]),
         \A v \in Uploads : v # u => upload'[v] = upload[v] /\ next'[v] = next[v],
         upload'[u] # Idle,
         upload'[u] \in {"sending", "waiting"} => upload[u] \in {"sending", "waiting"},
         Unmet(u) /\ upload'[u] \in {"sending", "waiting"} /\ next'[u] > 0 =>
           name # NoInode /\ Prefix(disk'[name], next'[u], content[u]),
         Unmet(u) /\ upload'[u] = "complete" => name # NoInode /\ disk'[name] = Full(content[u])
  PROVE  FileInv'
<1>1. Writing(u) /\ upload[u] # Idle BY DEF Writing, FileInv, HandlesName
<1>2. /\ task' = [task EXCEPT ![u] = "none"] /\ fd' = [fd EXCEPT ![u] = NoInode]
      /\ body' = [body EXCEPT ![u] = Empty]
  BY DEF Finish
<1>3. \A v \in Uploads : /\ v # u => task'[v] = task[v] /\ fd'[v] = fd[v] /\ body'[v] = body[v]
                         /\ task'[u] = "none"
  BY <1>2 DEF TypeOK
<1>4. \A v \in Uploads : /\ Writing(v)' => Writing(v)
                         /\ Unmet(v)' => Unmet(v)
                         /\ v # u /\ Kept(v)' => Kept(v) /\ Unmet(v)
  BY <1>1, <1>3 DEF Writing, Unmet, Kept, Idle
<1>5. \A c : Alone(c) => content[u] = c /\ u \notin strayed BY <1>1 DEF Alone
<1>6. UnmetAlone' BY <1>4 DEF FileInv, UnmetAlone, Alone
<1>7. HandlesName' BY <1>3 DEF FileInv, HandlesName
<1>8. SentStored'
  <2> SUFFICES ASSUME NEW v \in Uploads, Unmet(v)', upload'[v] \in {"sending", "waiting"}, next'[v] > 0
               PROVE  name # NoInode /\ Prefix(disk'[name], next'[v], content[v])
    BY DEF SentStored
  <2>1. CASE v = u BY <1>4, <2>1
  <2>2. CASE v # u
    <3>1. Unmet(v) /\ upload[v] \in {"sending", "waiting"} /\ next'[v] = next[v]
      BY <1>4, <2>2
    <3>2. name # NoInode /\ Prefix(disk[name], next[v], content[v])
      BY <3>1 DEF FileInv, SentStored
    <3>3. content[v] = content[u] /\ u \notin strayed BY <1>5, <3>1 DEF FileInv, UnmetAlone
    <3>4. next[v] \in 0..Size[content[v]] BY <3>1 DEF TypeOK, Unmet
    <3> QED BY <3>1, <3>2, <3>3, <3>4 DEF Keeps
  <2> QED BY <2>1, <2>2
<1>9. UploadKept'
  <2> SUFFICES ASSUME NEW v \in Uploads, Kept(v)'
               PROVE  name # NoInode /\ disk'[name] = Full(content[v])
    BY DEF UploadKept, Full
  <2>1. CASE v = u
    <3>1. upload'[u] = "complete" /\ Unmet(u) BY <1>1, <2>1 DEF Kept, Unmet
    <3> QED BY <2>1, <3>1
  <2>2. CASE v # u
    <3>1. Kept(v) /\ Unmet(v) BY <1>4, <2>2
    <3>2. name # NoInode /\ disk[name] = Full(content[v]) BY <3>1 DEF FileInv, UploadKept
    <3>3. content[v] = content[u] /\ u \notin strayed BY <1>5, <3>1 DEF FileInv, UnmetAlone
    <3> QED BY <3>2, <3>3 DEF Keeps
  <2> QED BY <2>1, <2>2
<1>10. PromiseStands'
  <2> SUFFICES ASSUME NEW d \in Downloads, promised[d] # NoContent,
                      download[d] \in {"listed", "reading"}
               PROVE  /\ ~deleting /\ ~creating
                      /\ \A v \in Uploads : Writing(v)' => content[v] = promised[d] /\ v \notin strayed
                      /\ name # NoInode /\ disk'[name] = Full(promised[d])
    BY DEF PromiseStands, Full, Alone
  <2>1. Alone(promised[d]) /\ name # NoInode /\ disk[name] = Full(promised[d])
    BY DEF FileInv, PromiseStands
  <2>2. promised[d] = content[u] /\ u \notin strayed BY <1>5, <2>1
  <2> QED BY <1>4, <2>1, <2>2 DEF Alone, Keeps
<1>11. ReadSoFar' BY DEF FileInv, ReadSoFar, Full, Prefix
<1>12. OwnChunks'
  <2>1. \A v \in Uploads : v # u => IsSentinel(v)' = IsSentinel(v) BY DEF IsSentinel
  <2> QED BY <1>3, <2>1 DEF FileInv, OwnChunks
<1> QED BY <1>6, <1>7, <1>8, <1>9, <1>10, <1>11, <1>12 DEF FileInv

(* A chunk is written, or the file is trimmed, and the browser is answered. *)
LEMMA FileStore ==
  ASSUME TypeOK, FileInv, NEW u \in Uploads, Store(u)
  PROVE  FileInv'
<1>1. /\ task[u] = "opened" /\ Finish(u) /\ Answered(u)
      /\ disk' = [disk EXCEPT ![fd[u]] = Stored(disk[fd[u]], u)]
      /\ UNCHANGED <<name, content, selected, strayed, mixed, deleting, creating, download, rfd, got,
                     promised>>
  BY DEF Store, selection, downloading
<1>2. fd[u] \in Inodes /\ disk[fd[u]] \in Seq(Cells) /\ disk \in [Inodes -> Seq(Cells)]
  BY <1>1, HandleType DEF TypeOK
<1>3. upload[u] # Idle /\ (u \notin mixed => fd[u] = name)
  BY <1>1 DEF FileInv, HandlesName
<1>4. content[u] \in Contents /\ next[u] \in 0..Size[content[u]] /\ Size[content[u]] \in Nat
  BY <1>3, FullFile DEF TypeOK
<1>5. ASSUME u \notin strayed
      PROVE  /\ Keeps(disk[fd[u]], Stored(disk[fd[u]], u), content[u])
             /\ Prefix(disk[fd[u]], next[u], content[u]) =>
                  IF IsSentinel(u) THEN Stored(disk[fd[u]], u) = Full(content[u])
                  ELSE Prefix(Stored(disk[fd[u]], u), next[u] + 1, content[u])
  <2>1. body[u] = IF IsSentinel(u) THEN Empty ELSE content[u]
    BY <1>1, <1>5 DEF FileInv, OwnChunks
  <2> QED BY <1>2, <1>3, <2>1, StoredFile
<1>6. name # NoInode /\ u \notin strayed => Keeps(disk[name], disk'[name], content[u])
  <2>1. CASE name = fd[u]
    <3>1. disk'[name] = Stored(disk[fd[u]], u) BY <1>1, <1>2, <2>1
    <3> QED BY <1>5, <2>1, <3>1
  <2>2. CASE name # fd[u] /\ name # NoInode
    <3>1. name \in Inodes BY <2>2 DEF TypeOK
    <3>2. disk'[name] = disk[name] BY <1>1, <1>2, <2>2, <3>1
    <3> QED BY <3>2 DEF Keeps
  <2> QED BY <2>1, <2>2
<1>7. \A v \in Uploads : v # u => upload'[v] = upload[v] /\ next'[v] = next[v]
  BY <1>1 DEF Answered, TypeOK
<1>8. /\ upload'[u] # Idle
      /\ upload'[u] \in {"sending", "waiting"} => upload[u] \in {"sending", "waiting"}
  BY <1>1, <1>3 DEF Answered, TypeOK, Idle
<1>9. ASSUME Unmet(u), upload[u] = "waiting"
      PROVE  /\ fd[u] = name /\ name # NoInode /\ disk'[name] = Stored(disk[name], u)
             /\ Prefix(disk[name], next[u], content[u])
  <2>1. fd[u] = name /\ name # NoInode BY <1>2, <1>3, <1>9, ConstantsAssumption DEF Unmet
  <2>2. disk'[name] = Stored(disk[name], u) BY <1>1, <1>2, <2>1
  <2>3. next[u] = 0 => Prefix(disk[name], next[u], content[u])
    BY <1>2, <2>1 DEF Prefix
  <2>4. next[u] > 0 => Prefix(disk[name], next[u], content[u])
    BY <1>9 DEF FileInv, SentStored
  <2> QED BY <1>4, <2>1, <2>2, <2>3, <2>4
<1>10. Unmet(u) => u \notin strayed
  BY <1>1 DEF FileInv, UnmetAlone, Alone, Writing
<1>11. ASSUME Unmet(u), upload'[u] \in {"sending", "waiting"}, next'[u] > 0
      PROVE  name # NoInode /\ Prefix(disk'[name], next'[u], content[u])
  <2>1. CASE upload[u] # "waiting"
    <3>1. UNCHANGED <<upload, next>> BY <1>1, <2>1 DEF Answered
    <3>2. name # NoInode /\ Prefix(disk[name], next[u], content[u])
      BY <1>11, <3>1 DEF FileInv, SentStored
    <3> QED BY <1>4, <1>6, <1>10, <1>11, <3>1, <3>2 DEF Keeps
  <2>2. CASE upload[u] = "waiting"
    <3>1. ~IsSentinel(u) /\ next'[u] = next[u] + 1
      BY <1>1, <1>11, <2>2 DEF Answered, TypeOK
    <3> QED BY <1>4, <1>5, <1>9, <1>10, <1>11, <2>2, <3>1
  <2> QED BY <2>1, <2>2
<1>12. ASSUME Unmet(u), upload'[u] = "complete"
       PROVE  name # NoInode /\ disk'[name] = Full(content[u])
  <2>1. CASE upload[u] # "waiting"
    <3>1. UNCHANGED upload BY <1>1, <2>1 DEF Answered
    <3>2. Kept(u) BY <1>12, <3>1 DEF Kept, Unmet
    <3>3. name # NoInode /\ disk[name] = Full(content[u]) BY <3>2 DEF FileInv, UploadKept
    <3> QED BY <1>6, <1>10, <1>12, <3>3 DEF Keeps
  <2>2. CASE upload[u] = "waiting"
    <3>1. IsSentinel(u) BY <1>1, <1>12, <2>2 DEF Answered, TypeOK
    <3> QED BY <1>5, <1>9, <1>10, <1>12, <2>2, <3>1
  <2> QED BY <2>1, <2>2
<1> QED BY <1>1, <1>6, <1>7, <1>8, <1>11, <1>12, WriterStep

(* A handler fails, and may have torn a chunk that was not yet there. *)
LEMMA FileStoreFails ==
  ASSUME TypeOK, FileInv, NEW u \in Uploads, StoreFails(u)
  PROVE  FileInv'
<1>1. /\ task[u] # "none" /\ Finish(u) /\ GivesUp(u)
      /\ UNCHANGED <<name, content, selected, strayed, next, mixed, deleting, creating, download, rfd,
                     got, promised>>
  BY DEF StoreFails, selection, downloading
<1>2. upload[u] # Idle /\ (Unmet(u) => u \notin strayed)
  BY <1>1 DEF FileInv, HandlesName, UnmetAlone, Alone, Writing
<1>3. ASSUME name # NoInode, u \notin strayed PROVE Keeps(disk[name], disk'[name], content[u])
  <2>1. CASE UNCHANGED disk BY <2>1 DEF Keeps
  <2>2. CASE ~UNCHANGED disk
    <3> DEFINE s == disk[fd[u]]
               k == next[u] + 1
               t == IF k <= Len(s) /\ s[k] = content[u] THEN s ELSE WriteAt(s, k, Torn)
    <3>1. task[u] = "opened" /\ ~IsSentinel(u) /\ disk' = [disk EXCEPT ![fd[u]] = t]
      <4>1. body[u] = IF IsSentinel(u) THEN Empty ELSE content[u]
        BY <1>1, <1>3 DEF FileInv, OwnChunks
      <4>2. task[u] = "opened" /\ body[u] # Empty
            /\ disk' = [disk EXCEPT ![fd[u]] =
                          IF k <= Len(s) /\ s[k] = body[u] THEN s ELSE WriteAt(s, k, Torn)]
        BY <2>2 DEF StoreFails
      <4> QED BY <4>1, <4>2
    <3>2. fd[u] \in Inodes /\ s \in Seq(Cells) /\ disk \in [Inodes -> Seq(Cells)]
      BY <3>1, HandleType DEF TypeOK
    <3>3. content[u] \in Contents /\ k \in 1..Size[content[u]]
      BY <1>2, <3>1, FullFile DEF TypeOK, IsSentinel
    <3>4. Keeps(s, t, content[u])
      <4>1. CASE k <= Len(s) /\ s[k] = content[u] BY <4>1 DEF Keeps
      <4>2. CASE ~(k <= Len(s) /\ s[k] = content[u]) BY <4>2, <3>2, <3>3, TornKeeps
      <4> QED BY <4>1, <4>2
    <3> HIDE DEF t
    <3>5. CASE name = fd[u] BY <3>1, <3>2, <3>4, <3>5
    <3>6. CASE name # fd[u]
      <4>1. name \in Inodes BY <1>3 DEF TypeOK
      <4>2. disk'[name] = disk[name] BY <3>1, <3>2, <3>6, <4>1
      <4> QED BY <4>2 DEF Keeps
    <3> QED BY <3>5, <3>6
  <2> QED BY <2>1, <2>2
<1>4. /\ \A v \in Uploads : v # u => upload'[v] = upload[v]
      /\ upload'[u] = IF upload[u] = "waiting" THEN "failed" ELSE upload[u]
  BY <1>1 DEF GivesUp, TypeOK
<1>5. ASSUME Unmet(u), upload'[u] \in {"sending", "waiting"}, next'[u] > 0
      PROVE  name # NoInode /\ Prefix(disk'[name], next'[u], content[u])
  <2>1. upload[u] \in {"sending", "waiting"} /\ next'[u] = next[u] BY <1>1, <1>4, <1>5
  <2>2. name # NoInode /\ Prefix(disk[name], next[u], content[u])
    BY <1>5, <2>1 DEF FileInv, SentStored
  <2>3. next[u] \in 0..Size[content[u]] BY <1>2 DEF TypeOK
  <2> QED BY <1>2, <1>3, <1>5, <2>1, <2>2, <2>3 DEF Keeps
<1>6. ASSUME Unmet(u), upload'[u] = "complete"
      PROVE  name # NoInode /\ disk'[name] = Full(content[u])
  <2>1. Kept(u) BY <1>4, <1>6 DEF Kept, Unmet
  <2>2. name # NoInode /\ disk[name] = Full(content[u]) BY <2>1 DEF FileInv, UploadKept
  <2> QED BY <1>2, <1>3, <1>6, <2>2 DEF Keeps
<1>7. /\ upload'[u] # Idle
      /\ upload'[u] \in {"sending", "waiting"} => upload[u] \in {"sending", "waiting"}
  BY <1>2, <1>4 DEF Idle
<1> QED BY <1>1, <1>3, <1>4, <1>5, <1>6, <1>7, WriterStep

(* A deletion or a creation begins: nobody who has begun may expect         *)
(* anything any more.                                                       *)
LEMMA FileOtherBegins ==
  ASSUME TypeOK, FileInv, Delete \/ Create
  PROVE  FileInv'
<1>1. UNCHANGED <<name, disk, upload, content, selected, strayed, next, task, body, fd, download,
                  rfd, got>>
  BY DEF Delete, Create, file, uploading, selection, handling, downloading
<1>2. PICK c \in {NoContent, Created} : Meet({}, c) BY DEF Delete, Create
<1>3. c \notin Contents BY ConstantsAssumption
<1>4. \A u \in Uploads : ~Unmet(u)' /\ (upload[u] # Idle => u \in mixed')
  BY <1>1, <1>2, <1>3, ConstantsAssumption DEF Meet, Unmet, TypeOK
<1>5. \A d \in Downloads : /\ download[d] \in {"listed", "reading"} => promised'[d] = NoContent
                           /\ promised'[d] # NoContent => promised'[d] = promised[d]
  BY <1>2, <1>3 DEF Meet, TypeOK
<1>6. UnmetAlone' /\ SentStored' BY <1>4 DEF UnmetAlone, SentStored
<1>7. HandlesName' BY <1>1, <1>4 DEF FileInv, HandlesName
<1>8. UploadKept' BY <1>1, <1>4 DEF UploadKept, Kept, Idle
<1>9. PromiseStands' BY <1>1, <1>5 DEF PromiseStands
<1>10. ReadSoFar' BY <1>1, <1>5 DEF FileInv, ReadSoFar, Full
<1>11. OwnChunks' BY <1>1 DEF FileInv, OwnChunks, IsSentinel
<1> QED BY <1>6, <1>7, <1>8, <1>9, <1>10, <1>11 DEF FileInv

(* It acts: then too nobody expects anything. *)
LEMMA FileOtherEnds ==
  ASSUME TypeOK, FileInv, Remove \/ CreateEnds
  PROVE  FileInv'
<1>1. UNCHANGED <<upload, content, selected, strayed, next, task, body, fd, mixed, download, rfd,
                  got, promised>>
  BY DEF Remove, CreateEnds, uploading, selection, handling, downloading
<1>2. deleting \/ creating BY DEF Remove, CreateEnds
<1>3. \A u \in Uploads : ~Unmet(u) /\ ~Unmet(u)'
  BY <1>1, <1>2 DEF FileInv, UnmetAlone, Alone, Unmet
<1>4. \A d \in Downloads : promised[d] # NoContent => download[d] \notin {"listed", "reading"}
  BY <1>2 DEF FileInv, PromiseStands, Alone
<1>5. UnmetAlone' /\ SentStored' BY <1>3 DEF UnmetAlone, SentStored
<1>6. HandlesName' BY <1>1, <1>3 DEF FileInv, HandlesName, Unmet
<1>7. UploadKept' BY <1>1, <1>3 DEF UploadKept, Kept, Unmet, Idle
<1>8. PromiseStands' BY <1>1, <1>4 DEF PromiseStands
<1>9. ReadSoFar' BY <1>1, <1>4 DEF FileInv, ReadSoFar, Full
<1>10. OwnChunks' BY <1>1 DEF FileInv, OwnChunks, IsSentinel
<1> QED BY <1>5, <1>6, <1>7, <1>8, <1>9, <1>10 DEF FileInv

(* The agent dies: fewer writers, and no downloads. *)
LEMMA FileCrash ==
  ASSUME TypeOK, FileInv, Crash
  PROVE  FileInv'
<1>1. UNCHANGED <<name, disk, upload, content, selected, strayed, next, mixed, creating, got,
                  promised>>
      /\ ~deleting' /\ task' = [u \in Uploads |-> "none"]
  BY DEF Crash, file, selection
<1>2. \A d \in Downloads : /\ download'[d] \notin {"listed", "reading", "read"}
                           /\ download'[d] = "delivered" => download[d] = "delivered"
  BY DEF Crash
<1>3. \A v \in Uploads : /\ Writing(v)' => Writing(v)
                         /\ Unmet(v)' = Unmet(v) /\ Kept(v)' = Kept(v)
  BY <1>1 DEF Writing, Unmet, Kept
<1>4. UnmetAlone' BY <1>1, <1>3 DEF FileInv, UnmetAlone, Alone
<1>5. HandlesName' BY <1>1 DEF HandlesName
<1>6. SentStored' BY <1>1, <1>3 DEF FileInv, SentStored, Prefix
<1>7. UploadKept' BY <1>1, <1>3 DEF FileInv, UploadKept, Full
<1>8. PromiseStands' BY <1>2 DEF PromiseStands
<1>9. ReadSoFar' BY <1>1, <1>2 DEF FileInv, ReadSoFar, Full
<1>10. OwnChunks' BY <1>1 DEF FileInv, OwnChunks
<1> QED BY <1>4, <1>5, <1>6, <1>7, <1>8, <1>9, <1>10 DEF FileInv

(* What a download reads is what it was promised. *)
LEMMA ReadStep ==
  ASSUME TypeOK, FileInv, NEW d \in Downloads, Read(d)
  PROVE  ReadSoFar'
<1> DEFINE s == disk[rfd[d]]
           k == Len(got[d]) + 1
           p == promised[d]
<1>1. UNCHANGED <<name, promised>> /\ download[d] = "reading" BY DEF Read, file
<1>2. \A e \in Downloads : e # d => UNCHANGED <<download[e], rfd[e], got[e]>>
  BY DEF Read, TypeOK
<1>3. ASSUME p # NoContent
      PROVE  /\ download'[d] \in {"reading", "read"}
             /\ download'[d] = "reading" => /\ rfd'[d] = name
                                            /\ Len(got'[d]) <= Size[p] /\ Prefix(got'[d], Len(got'[d]), p)
             /\ download'[d] = "read" => got'[d] = Full(p)
  <2>1. p \in Contents BY <1>3 DEF TypeOK
  <2>2. name # NoInode /\ disk[name] = Full(p) BY <1>1, <1>3 DEF FileInv, PromiseStands
  <2>3. rfd[d] = name /\ Len(got[d]) <= Size[p] /\ Prefix(got[d], Len(got[d]), p)
    BY <1>1, <1>3 DEF FileInv, ReadSoFar
  <2>4. s = Full(p) BY <2>2, <2>3
  <2>5. Len(s) = Size[p] /\ Size[p] \in Nat /\ Prefix(s, Size[p], p) BY <2>1, <2>4, FullFile
  <2>6. got[d] \in Seq(Cells) /\ Len(got[d]) \in Nat /\ p \in Cells BY <2>1 DEF TypeOK, Cells
  <2> HIDE DEF s, k, p
  <2>7. CASE k <= Len(s)
    <3>1. got' = [got EXCEPT ![d] = Append(got[d], s[k])] /\ UNCHANGED <<download, rfd>>
      BY <2>7 DEF Read, s, k
    <3>2. s[k] = p BY <2>5, <2>6, <2>7 DEF Prefix, k
    <3>3. got'[d] = Append(got[d], p) BY <3>1, <3>2 DEF TypeOK
    <3>4. Len(got'[d]) = k /\ Prefix(got'[d], k, p)
      BY <2>3, <2>6, <3>3 DEF Prefix, k
    <3> QED BY <1>1, <2>3, <2>5, <2>7, <3>1, <3>4
  <2>8. CASE ~(k <= Len(s))
    <3>1. /\ download' = [download EXCEPT ![d] = "read"]
          /\ rfd' = [rfd EXCEPT ![d] = NoInode]
          /\ UNCHANGED got
      BY <2>8 DEF Read, s, k
    <3>2. Len(got[d]) = Size[p] BY <2>3, <2>5, <2>6, <2>8 DEF k
    <3>3. got[d] = Full(p) BY <2>1, <2>3, <2>6, <3>2, FullFile
    <3> QED BY <3>1, <3>3 DEF TypeOK
  <2> QED BY <2>7, <2>8
<1> SUFFICES ASSUME NEW e \in Downloads, promised[e] # NoContent
             PROVE  /\ download'[e] = "listed" => got'[e] = << >>
                    /\ download'[e] = "reading" =>
                         /\ rfd'[e] = name
                         /\ Len(got'[e]) <= Size[promised[e]]
                         /\ Prefix(got'[e], Len(got'[e]), promised[e])
                    /\ download'[e] \in {"read", "delivered"} => got'[e] = Full(promised[e])
  BY <1>1 DEF ReadSoFar, Prefix, Full
<1>4. CASE e = d BY <1>3, <1>4
<1>5. CASE e # d BY <1>2, <1>5 DEF FileInv, ReadSoFar
<1> QED BY <1>4, <1>5

(* A download begins, reads and ends. *)
LEMMA FileDownload ==
  ASSUME TypeOK, FileInv, NEW d \in Downloads,
         (\E l \in Links : Download(d, l)) \/ ReadOpens(d) \/ Read(d) \/ Deliver(d) \/ DownloadFails(d)
  PROVE  FileInv'
<1>1. UNCHANGED <<name, disk, upload, content, selected, strayed, next, task, body, fd, mixed,
                  deleting, creating>>
  BY DEF Download, ReadOpens, Read, Deliver, DownloadFails, file, uploading, selection, handling
<1>2. UnmetAlone' /\ OwnChunks' /\ HandlesName' /\ SentStored' /\ UploadKept'
  BY <1>1 DEF FileInv, UnmetAlone, OwnChunks, IsSentinel, HandlesName, SentStored, UploadKept, Alone, Unmet, Writing,
    Kept, Prefix, Full
<1>3. \A c : Alone(c)' = Alone(c) BY <1>1 DEF Alone, Writing
<1>4. ASSUME UNCHANGED promised,
             \A e \in Downloads :
               download'[e] \in {"listed", "reading"} => download[e] \in {"listed", "reading"}
      PROVE  PromiseStands'
  <2>1. \A v \in Uploads : Writing(v)' = Writing(v) BY <1>1 DEF Writing
  <2> QED BY <1>1, <1>4, <2>1 DEF FileInv, PromiseStands, Alone, Full
<1>5. CASE \E l \in Links : Download(d, l)
  <2>1. /\ download' = [download EXCEPT ![d] = "listed"] /\ got' = [got EXCEPT ![d] = << >>]
        /\ promised' = [promised EXCEPT ![d] = Expected] /\ UNCHANGED rfd
    BY <1>5 DEF Download
  <2>2. /\ download'[d] = "listed" /\ got'[d] = << >> /\ promised'[d] = Expected
        /\ \A e \in Downloads : e # d => UNCHANGED <<download[e], got[e], promised[e]>>
    BY <2>1 DEF TypeOK
  <2>3. ASSUME Expected # NoContent
        PROVE  Alone(Expected) /\ name # NoInode /\ disk[name] = Full(Expected)
    <3>1. PICK u \in Uploads : Kept(u) /\ Expected = content[u] BY <2>3 DEF Expected
    <3>2. Unmet(u) BY <3>1 DEF Kept, Unmet, Idle
    <3> QED BY <3>1, <3>2 DEF FileInv, UnmetAlone, UploadKept
  <2>4. PromiseStands'
    <3> SUFFICES ASSUME NEW e \in Downloads, NEW p, p = promised'[e], p # NoContent,
                        download'[e] \in {"listed", "reading"}
                 PROVE  Alone(p)' /\ name # NoInode /\ disk[name] = Full(p)
      BY <1>1 DEF PromiseStands, Alone, Full
    <3>1. Alone(p) /\ name # NoInode /\ disk[name] = Full(p)
      BY <2>2, <2>3 DEF FileInv, PromiseStands
    <3> QED BY <1>3, <3>1
  <2>5. ReadSoFar'
    BY <1>1, <2>1, <2>2 DEF FileInv, ReadSoFar, Full
  <2> QED BY <1>2, <2>4, <2>5 DEF FileInv
<1>6. CASE ReadOpens(d)
  <2>1. /\ rfd' = [rfd EXCEPT ![d] = name] /\ UNCHANGED <<got, promised>> /\ download[d] = "listed"
        /\ download' = [download EXCEPT ![d] = IF name = NoInode THEN "failed" ELSE "reading"]
    BY <1>6 DEF ReadOpens
  <2>2. PromiseStands'
    <3>1. \A e \in Downloads : download'[e] \in {"listed", "reading"} => download[e] \in {"listed", "reading"}
      BY <2>1 DEF TypeOK
    <3> QED BY <1>4, <2>1, <3>1
  <2>3. ReadSoFar'
    <3> SUFFICES ASSUME NEW e \in Downloads, promised[e] # NoContent
                 PROVE  /\ download'[e] = "listed" => got[e] = << >>
                        /\ download'[e] = "reading" =>
                             /\ rfd'[e] = name
                             /\ Len(got[e]) <= Size[promised[e]]
                             /\ Prefix(got[e], Len(got[e]), promised[e])
                        /\ download'[e] \in {"read", "delivered"} => got[e] = Full(promised[e])
      BY <1>1, <2>1 DEF ReadSoFar, Prefix, Full
    <3>1. CASE e = d
      <4>1. got[e] = << >> /\ promised[e] \in Contents BY <2>1, <3>1 DEF FileInv, ReadSoFar, TypeOK
      <4>2. Size[promised[e]] \in Nat BY <4>1, FullFile
      <4>3. download'[e] \in {"failed", "reading"} /\ rfd'[e] = name BY <2>1, <3>1 DEF TypeOK
      <4> QED BY <4>1, <4>2, <4>3 DEF Prefix
    <3>2. CASE e # d
      <4>1. download'[e] = download[e] /\ rfd'[e] = rfd[e] BY <2>1, <3>2 DEF TypeOK
      <4> QED BY <4>1 DEF FileInv, ReadSoFar
    <3> QED BY <3>1, <3>2
  <2> QED BY <1>2, <2>2, <2>3 DEF FileInv
<1>7. CASE Read(d)
  <2>1. /\ UNCHANGED promised
        /\ \A e \in Downloads : download'[e] \in {"listed", "reading"} => download[e] \in {"listed", "reading"}
    BY <1>7 DEF Read, TypeOK
  <2>2. PromiseStands' BY <1>4, <2>1
  <2> QED BY <1>2, <1>7, <2>2, ReadStep DEF FileInv
<1>8. CASE Deliver(d) \/ DownloadFails(d)
  <2>1. UNCHANGED <<got, promised>> BY <1>8 DEF Deliver, DownloadFails
  <2>2. \A e \in Downloads :
          /\ download'[e] \in {"listed", "reading"} => download'[e] = download[e] /\ rfd'[e] = rfd[e]
          /\ download'[e] \in {"read", "delivered"} => download[e] \in {"read", "delivered"}
    BY <1>8 DEF Deliver, DownloadFails, TypeOK
  <2>3. PromiseStands' BY <1>4, <2>1, <2>2
  <2>4. ReadSoFar' BY <1>1, <2>1, <2>2 DEF FileInv, ReadSoFar, Prefix, Full
  <2> QED BY <1>2, <2>3, <2>4 DEF FileInv
<1> QED BY <1>5, <1>6, <1>7, <1>8

-----------------------------------------------------------------------------
(* The theorems                                                            *)

(* Browsers, agent and links start within the invariant. *)
LEMMA InitInv == Init => IInv
<1> SUFFICES ASSUME Init PROVE IInv OBVIOUS
<1>1. NeverMade \in Nat /\ NeverMade > Expiry /\ 0 \in 0..Interval
      /\ 0 \in 0..MaxRequests /\ 0 \in 0..MaxTrouble
  BY ConstantsAssumption DEF NeverMade
<1>2. Inodes # {} BY ConstantsAssumption, FS_EmptySet, FS_CardinalityType
<1>3. name \in Inodes \cup {NoInode} BY <1>2 DEF Init
<1>4. disk \in [Inodes -> Seq(Cells)]
  <2>1. PICK c \in Contents : disk = [i \in Inodes |-> IF i = name THEN Full(c) ELSE << >>]
    BY DEF Init
  <2>2. Full(c) \in Seq(Cells) BY FullFile
  <2>3. << >> \in Seq(Cells) OBVIOUS
  <2> QED BY <2>1, <2>2, <2>3
<1>5. got \in [Downloads -> Seq(Cells)] BY DEF Init
<1>6. TypeOK
  <2>1. /\ upload \in [Uploads -> {Idle, "sending", "waiting", "complete", "failed"}]
        /\ content \in [Uploads -> Contents \cup {NoContent}] /\ next \in [Uploads -> Nat]
        /\ selected \in [Uploads -> Contents \cup {NoContent}] /\ strayed \subseteq Uploads
        /\ task \in [Uploads -> {"none", "spawned", "opened"}]
        /\ body \in [Uploads -> Contents \cup {Empty}]
        /\ fd \in [Uploads -> Inodes \cup {NoInode}]
        /\ \A u \in Uploads : upload[u] = Idle /\ task[u] # "opened" /\ fd[u] = NoInode
    BY DEF Init
  <2>2. /\ download \in [Downloads -> {Idle, "listed", "reading", "read", "delivered", "failed"}]
        /\ rfd \in [Downloads -> Inodes \cup {NoInode}]
        /\ promised \in [Downloads -> Contents \cup {NoContent}]
        /\ \A d \in Downloads : download[d] # "reading" /\ rfd[d] = NoInode
    BY DEF Init, Idle
  <2>3. links \subseteq Links /\ age \in [Links -> 0..NeverMade] /\ timer \in 0..Interval
    BY <1>1 DEF Init
  <2>4. /\ mixed \subseteq Uploads /\ deleting \in BOOLEAN /\ creating \in BOOLEAN
        /\ requests \in 0..MaxRequests /\ trouble \in 0..MaxTrouble
    BY <1>1 DEF Init
  <2> QED BY <1>3, <1>4, <1>5, <2>1, <2>2, <2>3, <2>4 DEF TypeOK
<1>7. FileInv
  BY DEF Init, FileInv, UnmetAlone, OwnChunks, HandlesName, SentStored, UploadKept, PromiseStands,
    ReadSoFar, Unmet, Kept, Idle
<1>8. LinksYoung BY <1>1, ConstantsAssumption DEF Init, LinksYoung
<1> QED BY <1>6, <1>7, <1>8 DEF IInv

(* Every step keeps it. *)
LEMMA NextInv == IInv /\ [Next]_vars => IInv'
<1> SUFFICES ASSUME TypeOK, FileInv, LinksYoung, [Next]_vars PROVE TypeOK' /\ FileInv' /\ LinksYoung'
  BY DEF IInv
<1>1. TypeOK' BY TypeStep DEF FileInv
<1>2. LinksYoung' BY LinkStep
<1>3. FileInv'
  <2>1. ASSUME NEW u \in Uploads, NEW c \in Contents, Begin(u, c) PROVE FileInv' BY <2>1, FileBegin
  <2>2. ASSUME NEW u \in Uploads, Put(u) \/ PutThrows(u) \/ TimesOut(u) \/ Lost(u) PROVE FileInv'
    BY <2>2, FilePut
  <2>3. ASSUME NEW u \in Uploads, Open(u) PROVE FileInv' BY <2>3, FileOpen
  <2>4. ASSUME NEW u \in Uploads, Store(u) PROVE FileInv' BY <2>4, FileStore
  <2>5. ASSUME NEW u \in Uploads, StoreFails(u) PROVE FileInv' BY <2>5, FileStoreFails
  <2>6. CASE Delete \/ Create BY <2>6, FileOtherBegins
  <2>7. CASE Remove \/ CreateEnds BY <2>7, FileOtherEnds
  <2>8. CASE Crash BY <2>8, FileCrash
  <2>9. ASSUME NEW d \in Downloads,
               (\E l \in Links : Download(d, l)) \/ ReadOpens(d) \/ Read(d) \/ Deliver(d) \/ DownloadFails(d)
        PROVE  FileInv'
    BY <2>9, FileDownload
  <2>10. CASE UNCHANGED <<file, uploading, mixed, deleting, creating, downloading, promised>>
    BY <2>10 DEF file, uploading, selection, handling, downloading, FileInv, UnmetAlone, OwnChunks,
      IsSentinel, HandlesName, SentStored,
      UploadKept, PromiseStands, ReadSoFar, Alone, Unmet, Writing, Kept, Prefix, Full
  <2>11. CASE Tick \/ Cleanup \/ \E l \in Links : CreateLink(l)
    BY <2>10, <2>11 DEF Tick, Cleanup, CreateLink
  <2>12. CASE UNCHANGED vars BY <2>10, <2>12 DEF vars
  <2>13. ASSUME NEW u \in Uploads, NEW c \in Contents \cup {NoContent}, Select(u, c)
         PROVE  FileInv'
    BY <2>13, FileSelect
  <2> QED
    BY <2>1, <2>2, <2>3, <2>4, <2>5, <2>6, <2>7, <2>8, <2>9, <2>11, <2>12, <2>13 DEF Next
<1> QED BY <1>1, <1>2, <1>3

(* The inductive invariant holds throughout. *)
THEOREM Invariance == Spec => []IInv
BY InitInv, NextInv, PTL DEF Spec

(* For any number of uploads, downloads and links: every variable keeps a   *)
(* value of its kind, there is always an inode for a new file, and exactly  *)
(* the handlers that have opened the file hold a handle.                    *)
THEOREM TypeCorrectness == Spec => []TypeOK
<1>1. IInv => TypeOK BY DEF IInv
<1> QED BY <1>1, Invariance, PTL

(* However many browsers upload files of whatever length side by side, and  *)
(* whatever fails: the file of an upload that was reported complete, that   *)
(* no writer of anything else has met, and during which no other file was   *)
(* selected, is the one that was uploaded (util/saves.rs set_savefile,      *)
(* save_put, the chunks that the browser cuts from the selected file).      *)
THEOREM UploadKeptTheorem == Spec => []UploadKept
<1>1. IInv => UploadKept BY DEF IInv, FileInv
<1> QED BY <1>1, Invariance, PTL

(* What is delivered is what was there when the download was asked for, if  *)
(* nobody began to write another while the agent read (get_savefile).       *)
THEOREM DownloadExactTheorem == Spec => []DownloadExact
<1>1. IInv => DownloadExact BY DEF IInv, FileInv, ReadSoFar, DownloadExact
<1> QED BY <1>1, Invariance, PTL

(* For every expiry and every cleanup interval, a link works for as long as *)
(* was promised and is gone at the first cleanup after (link_download.rs).  *)
THEOREM LinkWindowTheorem == Spec => []LinkWindow
<1>1. IInv => LinkWindow
  BY ConstantsAssumption DEF IInv, TypeOK, LinksYoung, LinkWindow
<1> QED BY <1>1, Invariance, PTL
=============================================================================
