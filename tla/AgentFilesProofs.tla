-------------------------- MODULE AgentFilesProofs ---------------------------
(***************************************************************************)
(* Proofs about AgentFiles: what was reported as set is kept, the mods on  *)
(* disk are those of the last list applied, and every file can be read, as *)
(* long as no two handlers that write a file overlap and nothing fails,    *)
(* for any number of handlers, mods, requests and failures.                *)
(***************************************************************************)
EXTENDS AgentFiles, Integers, TLAPS

Has(s, o) == \E i \in 1..Len(s) : s[i] = o

WriteModlist == {<<"write", "modlist">>, <<"init", "modlist">>}

(* A read of the mod list comes before one of the mod settings, and making  *)
(* the directory before a write of the mod list, whose failure counts.      *)
Sound(s) ==
  /\ \A i \in 1..Len(s) : s[i] = <<"read", "modlist">> =>
       i + 1 \in 1..Len(s) /\ s[i + 1] = <<"read", "modsettings">>
  /\ \A i \in 1..Len(s) : s[i][1] = "mkdir" =>
       i + 1 \in 1..Len(s) /\ s[i + 1] \in WriteModlist
  /\ \A i \in 1..Len(s) : s[i] # <<"try", "modlist">>

(* What is set is written last, each file once. *)
Last == {"write", "join"}
Ordered(s) ==
  \A i, j \in 1..Len(s) : i < j /\ s[i][1] = "write" => s[j][1] \in Last /\ s[j] # s[i]

(* mod_list_set reads, spawns its jobs once, writes, and ends with the join. *)
Applying == {"mkdir", "write", "join"}
ModPlan(s) ==
  /\ s # << >> => s[Len(s)][1] = "join"
  /\ \A i \in 1..Len(s) : s[i][1] = "join" => i = Len(s)
  /\ \/ \E i \in 1..Len(s) : s[i][1] = "delta"
     \/ \A i \in 1..Len(s) : s[i][1] \in Applying
  /\ \A i, j \in 1..Len(s) : i < j /\ s[i][1] = "delta" => s[j][1] \in Applying

(* Until what request r sets is written, the write is still to be done. *)
Pending(r, s) ==
  r \in Requests =>
    \A f \in Files : (\E x \in FieldsOf(f) : x \in Sets[r]) =>
      Has(s, <<"write", f>>) \/ \A i \in 1..Len(s) : s[i][1] \in Last

(* Only the start of a public server writes back what it has read, the      *)
(* server settings, and does not read it again.                             *)
Saves(r, s) ==
  /\ \A i \in 1..Len(s) : s[i][1] = "rewrite" => r = "server_start_public" /\ s[i][2] = "server"
  /\ \A i, j \in 1..Len(s) : i < j /\ s[i][1] = "rewrite" => s[j][2] # s[i][2]

(* What can be left of the handler of request r. *)
Plan(r, s) ==
  /\ Sound(s)
  /\ Ordered(s)
  /\ Saves(r, s)
  /\ Pending(r, s)
  /\ r = "mod_list_set" => ModPlan(s)
  /\ r # "mod_list_set" => \A i \in 1..Len(s) : s[i][1] \notin {"join", "delta"}
  /\ r = "config_server_settings_get" => \A i \in 1..Len(s) : s[i][2] = "server"
  /\ r # "config_server_settings_get" => \A i \in 1..Len(s) : s[i][1] # "look"

ControlInv(t) ==
  /\ Plan(req[t], todo[t])
  /\ writing[t] => Doing(t, Writes) /\ ~NoSettings(t)
  /\ req[t] = "mod_settings_set" =>
       arg[t] = "a" /\ (Has(todo[t], <<"mkdir", "modlist">>) \/ mod_dir)

(* Two handlers that may write the same file have disturbed it. *)
OverlapInv ==
  \A t, u \in Tasks : t # u => \A f \in Files : f \in Involved(t) /\ f \in Involved(u) => f \in disturbed

MixedInv == \A t \in mixed : writing[t] /\ File(t) \in disturbed

(* A file is torn only while it is being written. *)
TornInv ==
  \A f \in Files : f \notin disturbed /\ state[f] = "torn" => \E t \in Tasks : writing[t] /\ File(t) = f

(* A directory without a mod list is about to get one. *)
DirInv ==
  mod_dir /\ state["modlist"] # "ok" /\ "modlist" \notin disturbed =>
    \E t \in Tasks : todo[t] # << >> /\ Head(todo[t]) \in WriteModlist

(* The task has compared the mods it wants with those on disk. *)
Spawned(t) == req[t] = "mod_list_set" /\ \A i \in 1..Len(todo[t]) : todo[t][i][1] # "delta"

JobsInv == \A j \in jobs : j[1] # Nobody => Spawned(j[1]) /\ todo[j[1]] # << >>

(* The jobs under way are what is missing between the mods on disk and the  *)
(* ones wanted.                                                             *)
DeltaInv(t) ==
  \A m \in Mods : /\ <<t, "delete", m>> \in jobs <=> m \in zips /\ m \notin want[t]
                  /\ m \in want[t] /\ m \notin zips => <<t, "install", m>> \in jobs
                  /\ <<t, "install", m>> \in jobs => m \in want[t]

ModsInv ==
  "modlist" \notin disturbed =>
    /\ failed = {}
    /\ \A j \in jobs : j[1] # Nobody
    /\ \A t \in Tasks : Spawned(t) => DeltaInv(t)
    /\ (\A t \in Tasks : ~Spawned(t)) => zips = promised_mods

(* Task t has written field x of file f, and has not replied yet. *)
Changed(t, f, x) ==
  req[t] # NoRequest /\ x \in Sets[req[t]] /\ ~Has(todo[t], <<"write", f>>) /\ disk[x] = arg[t]

(* What is promised is on disk or about to be replaced, nothing is about to *)
(* overwrite it with a default, and a handler that will write the file has  *)
(* it in its copy.                                                          *)
PromiseInv(f, x) ==
  promised[x] # "none" =>
    /\ state[f] # "missing"
    /\ disk[x] = promised[x] \/ \E t \in Tasks : Changed(t, f, x)
    /\ \A t \in Tasks : ~Has(todo[t], <<"try", f>>) /\ ~Has(todo[t], <<"init", f>>)
    /\ \A t \in Tasks, o \in {"write", "rewrite"} :
         req[t] # NoRequest /\ Has(todo[t], <<o, f>>) /\ ~Has(todo[t], <<"read", f>>) /\ x \notin Sets[req[t]]
           => mem[t][x] = promised[x]

(* What a handler sets is on disk once it has written it. *)
WrittenInv(f, x) ==
  \A t \in Tasks : req[t] # NoRequest /\ x \in Sets[req[t]] /\ ~Has(todo[t], <<"write", f>>) =>
    state[f] = "ok" /\ disk[x] = arg[t]

KeptInv(f, x) == PromiseInv(f, x) /\ WrittenInv(f, x)

SettingsInv ==
  /\ \A f \in Files : f \notin disturbed => \A x \in FieldsOf(f) \ {"use_whitelist"} : KeptInv(f, x)
  /\ promised["settings"] # "none" => mod_dir

Inv ==
  /\ TypeOK
  /\ \A t \in Tasks : ControlInv(t)
  /\ OverlapInv /\ MixedInv /\ TornInv /\ DirInv
  /\ JobsInv /\ ModsInv /\ SettingsInv

-----------------------------------------------------------------------------
(* Lists of operations                                                     *)

(* The rest of a list. *)
LEMMA TailFacts ==
  ASSUME NEW s \in Seq(Operations), s # << >>
  PROVE  /\ Tail(s) \in Seq(Operations)
         /\ Len(s) \in Nat /\ Len(s) >= 1
         /\ Len(Tail(s)) = Len(s) - 1
         /\ Head(s) = s[1] /\ s[1] \in Operations
         /\ \A i \in 1..Len(Tail(s)) : i + 1 \in 1..Len(s) /\ Tail(s)[i] = s[i + 1]
         /\ \A i \in 1..Len(s) : i # 1 => i - 1 \in 1..Len(Tail(s)) /\ Tail(s)[i - 1] = s[i]
OBVIOUS

(* A list with elements is not empty. *)
LEMMA NonEmpty ==
  ASSUME NEW s, Len(s) >= 1
  PROVE  s # << >>
OBVIOUS

(* A list whose rest is empty has one element. *)
LEMMA TailEmpty ==
  ASSUME NEW s \in Seq(Operations), s # << >>, Tail(s) = << >>
  PROVE  Len(s) = 1
<1> DEFINE q == Tail(s)
<1>1. Len(s) \in Nat /\ Len(q) = Len(s) - 1 /\ q = << >>
  BY TailFacts
<1> HIDE DEF q
<1> QED
  BY <1>1

(* Elements are operations. *)
LEMMA Elements ==
  ASSUME NEW s \in Seq(Operations)
  PROVE  \A i \in 1..Len(s) : s[i] \in Operations /\ s[i] = <<s[i][1], s[i][2]>> /\ s[i][2] \in Files
BY DEF Operations

(* The list s2 is s with its first n operations replaced. *)
Replaces(s2, s, n) ==
  /\ Len(s2) = Len(s)
  /\ \A i \in 1..Len(s) : i > n => s2[i] = s[i]

(* One operation replaced by another one. *)
LEMMA ReplaceOne ==
  ASSUME NEW s \in Seq(Operations), s # << >>, NEW a \in Operations
  PROVE  /\ <<a>> \o Tail(s) \in Seq(Operations)
         /\ Replaces(<<a>> \o Tail(s), s, 1)
         /\ (<<a>> \o Tail(s))[1] = a
BY DEF Replaces

(* Two operations replaced. *)
LEMMA ReplaceTwo ==
  ASSUME NEW s \in Seq(Operations), Len(s) >= 2, NEW a \in Operations, NEW b \in Operations
  PROVE  /\ <<a, b>> \o Tail(Tail(s)) \in Seq(Operations)
         /\ Replaces(<<a, b>> \o Tail(Tail(s)), s, 2)
         /\ (<<a, b>> \o Tail(Tail(s)))[1] = a
         /\ (<<a, b>> \o Tail(Tail(s)))[2] = b
<1>1. Tail(s) \in Seq(Operations) /\ Len(Tail(s)) = Len(s) - 1 /\ Tail(s) # << >>
  OBVIOUS
<1>2. \A i \in 1..Len(Tail(s)) : Tail(s)[i] = s[i + 1]
  OBVIOUS
<1>3. Tail(Tail(s)) \in Seq(Operations) /\ Len(Tail(Tail(s))) = Len(s) - 2
  BY <1>1
<1>4. \A i \in 1..Len(Tail(Tail(s))) : Tail(Tail(s))[i] = s[i + 2]
  BY <1>1, <1>2, <1>3
<1> DEFINE q == Tail(Tail(s))
           r == <<a, b>> \o q
<1>5. /\ q \in Seq(Operations) /\ Len(q) = Len(s) - 2 /\ Len(s) \in Nat
      /\ \A i \in 1..Len(q) : q[i] = s[i + 2]
  BY <1>3, <1>4
<1> HIDE DEF q
<1>6. r \in Seq(Operations) /\ Len(r) = Len(s)
  BY <1>5
<1>7. \A i \in 1..Len(s) : i > 2 => r[i] = q[i - 2]
  BY <1>5
<1>8. r[1] = a /\ r[2] = b
  BY <1>5
<1>9. \A i \in 1..Len(s) : i > 2 => r[i] = s[i]
  BY <1>5, <1>7
<1>10. Replaces(r, s, 2)
  BY <1>6, <1>9 DEF Replaces
<1> QED
  BY <1>6, <1>8, <1>10 DEF q

-----------------------------------------------------------------------------
(* The plan of a handler                                                   *)

(* Nothing left. *)
LEMMA PlanEmpty ==
  ASSUME NEW r
  PROVE  Plan(r, << >>)
BY DEF Plan, Sound, Ordered, Saves, Pending, ModPlan

(* One operation done. *)
LEMMA PlanAdvance ==
  ASSUME NEW r, NEW s \in Seq(Operations), s # << >>, Plan(r, s)
  PROVE  Plan(r, Tail(s))
<1> DEFINE s2 == Tail(s)
<1>a. /\ Len(s) \in Nat /\ Len(s) >= 1 /\ Len(s2) = Len(s) - 1
      /\ \A i \in 1..Len(s2) : i + 1 \in 1..Len(s) /\ s2[i] = s[i + 1]
      /\ \A i \in 1..Len(s) : i # 1 => i - 1 \in 1..Len(s2) /\ s2[i - 1] = s[i]
      /\ s2 \in Seq(Operations)
  BY TailFacts
<1> HIDE DEF s2
<1>1. Sound(s2)
  <2>1. ASSUME NEW i \in 1..Len(s2), s2[i] = <<"read", "modlist">>
        PROVE  i + 1 \in 1..Len(s2) /\ s2[i + 1] = <<"read", "modsettings">>
    <3>1. i + 2 \in 1..Len(s) /\ s[i + 2] = <<"read", "modsettings">>
      BY <1>a, <2>1 DEF Plan, Sound
    <3> QED BY <3>1, <1>a
  <2>2. ASSUME NEW i \in 1..Len(s2), s2[i][1] = "mkdir"
        PROVE  i + 1 \in 1..Len(s2) /\ s2[i + 1] \in WriteModlist
    <3>1. i + 2 \in 1..Len(s) /\ s[i + 2] \in WriteModlist
      BY <1>a, <2>2 DEF Plan, Sound
    <3> QED BY <3>1, <1>a
  <2>3. \A i \in 1..Len(s2) : s2[i] # <<"try", "modlist">>
    BY <1>a DEF Plan, Sound
  <2> QED BY <2>1, <2>2, <2>3 DEF Sound
<1>2. Ordered(s2)
  <2>1. ASSUME NEW i \in 1..Len(s2), NEW j \in 1..Len(s2), i < j, s2[i][1] = "write"
        PROVE  s2[j][1] \in Last /\ s2[j] # s2[i]
    <3>1. i + 1 \in 1..Len(s) /\ j + 1 \in 1..Len(s) /\ i + 1 < j + 1 /\ s[i + 1][1] = "write"
      BY <1>a, <2>1
    <3>2. s[j + 1][1] \in Last /\ s[j + 1] # s[i + 1]
      BY <3>1 DEF Plan, Ordered
    <3> QED BY <3>2, <1>a
  <2> QED BY <2>1 DEF Ordered
<1>3. Pending(r, s2)
  <2>1. SUFFICES ASSUME r \in Requests, NEW f \in Files, \E x \in FieldsOf(f) : x \in Sets[r],
                        ~Has(s2, <<"write", f>>)
                 PROVE  \A i \in 1..Len(s2) : s2[i][1] \in Last
    BY DEF Pending
  <2>2. CASE s[1] = <<"write", f>>
    <3>1. \A i \in 1..Len(s2) : 1 < i + 1 /\ 1 \in 1..Len(s) /\ s[1][1] = "write"
      BY <1>a, <2>2
    <3>2. \A i \in 1..Len(s2) : s[i + 1][1] \in Last
      BY <3>1, <1>a DEF Plan, Ordered
    <3> QED BY <3>2, <1>a
  <2>3. CASE s[1] # <<"write", f>>
    <3>1. ~Has(s, <<"write", f>>)
      BY <2>1, <2>3, <1>a DEF Has
    <3>2. \A i \in 1..Len(s) : s[i][1] \in Last
      BY <3>1, <2>1 DEF Plan, Pending
    <3> QED BY <3>2, <1>a
  <2> QED BY <2>2, <2>3
<1>4. ASSUME r = "mod_list_set" PROVE ModPlan(s2)
  <2>0. ModPlan(s)
    BY <1>4 DEF Plan
  <2>1. s2 # << >> => s2[Len(s2)][1] = "join"
    <3>1. SUFFICES ASSUME s2 # << >> PROVE s2[Len(s2)][1] = "join"
      OBVIOUS
    <3>2. Len(s2) \in 1..Len(s2) /\ s2[Len(s2)] = s[Len(s)]
      BY <1>a, <3>1
    <3>3. s[Len(s)][1] = "join"
      BY <2>0 DEF ModPlan
    <3> QED BY <3>2, <3>3
  <2>2. \A i \in 1..Len(s2) : s2[i][1] = "join" => i = Len(s2)
    <3>1. \A i \in 1..Len(s2) : s[i + 1][1] = "join" => i + 1 = Len(s)
      BY <1>a, <2>0 DEF ModPlan
    <3> QED BY <3>1, <1>a
  <2>3. \/ \E i \in 1..Len(s2) : s2[i][1] = "delta"
        \/ \A i \in 1..Len(s2) : s2[i][1] \in Applying
    <3>1. CASE s[1][1] = "delta"
      <4>1. \A i \in 1..Len(s2) : 1 < i + 1 /\ 1 \in 1..Len(s)
        BY <1>a
      <4>2. \A i \in 1..Len(s2) : s[i + 1][1] \in Applying
        BY <4>1, <3>1, <1>a, <2>0 DEF ModPlan
      <4> QED BY <4>2, <1>a
    <3>2. CASE s[1][1] # "delta"
      <4>1. CASE \E i \in 1..Len(s) : s[i][1] = "delta"
        <5>1. PICK i \in 1..Len(s) : s[i][1] = "delta"
          BY <4>1
        <5>2. i - 1 \in 1..Len(s2) /\ s2[i - 1][1] = "delta"
          BY <5>1, <3>2, <1>a
        <5> QED BY <5>2
      <4>2. CASE \A i \in 1..Len(s) : s[i][1] \in Applying
        BY <4>2, <1>a
      <4> QED BY <4>1, <4>2, <2>0 DEF ModPlan
    <3> QED BY <3>1, <3>2
  <2>4. ASSUME NEW i \in 1..Len(s2), NEW j \in 1..Len(s2), i < j, s2[i][1] = "delta"
        PROVE  s2[j][1] \in Applying
    <3>1. i + 1 \in 1..Len(s) /\ j + 1 \in 1..Len(s) /\ i + 1 < j + 1 /\ s[i + 1][1] = "delta"
      BY <1>a, <2>4
    <3>2. s[j + 1][1] \in Applying
      BY <3>1, <2>0 DEF ModPlan
    <3> QED BY <3>2, <1>a
  <2> QED BY <2>1, <2>2, <2>3, <2>4 DEF ModPlan
<1>5. /\ r # "mod_list_set" => \A i \in 1..Len(s2) : s2[i][1] \notin {"join", "delta"}
      /\ r = "config_server_settings_get" => \A i \in 1..Len(s2) : s2[i][2] = "server"
      /\ r # "config_server_settings_get" => \A i \in 1..Len(s2) : s2[i][1] # "look"
  BY <1>a DEF Plan
<1>6. Saves(r, s2)
  <2>1. \A i \in 1..Len(s2) : s2[i][1] = "rewrite" => r = "server_start_public" /\ s2[i][2] = "server"
    BY <1>a DEF Plan, Saves
  <2>2. ASSUME NEW i \in 1..Len(s2), NEW j \in 1..Len(s2), i < j, s2[i][1] = "rewrite"
        PROVE  s2[j][2] # s2[i][2]
    <3>1. i + 1 \in 1..Len(s) /\ j + 1 \in 1..Len(s) /\ i + 1 < j + 1 /\ s[i + 1][1] = "rewrite"
      BY <1>a, <2>2
    <3>2. s[j + 1][2] # s[i + 1][2]
      BY <3>1 DEF Plan, Saves
    <3> QED BY <3>2, <1>a
  <2> QED BY <2>1, <2>2 DEF Saves
<1> QED
  BY <1>1, <1>2, <1>3, <1>4, <1>5, <1>6 DEF Plan, s2

(* Reads of what is missing replaced by what creates it. *)
LEMMA PlanReplace ==
  ASSUME NEW r, NEW s \in Seq(Operations), NEW s2 \in Seq(Operations), NEW n \in {1, 2},
         n <= Len(s), Replaces(s2, s, n), Plan(r, s), Sound(s2),
         \A i \in 1..n : s[i][1] = "read" /\ s2[i][1] \in {"try", "init", "mkdir"},
         r = "config_server_settings_get" => \A i \in 1..n : s2[i][2] = "server"
  PROVE  Plan(r, s2)
<1>a. /\ Len(s) \in Nat /\ Len(s2) = Len(s) /\ n \in 1..Len(s)
      /\ \A i \in 1..Len(s) : i > n => s2[i] = s[i]
  BY DEF Replaces
<1>b. \A i \in 1..Len(s) : i \in 1..n \/ i > n
  OBVIOUS
<1>c. \A i \in 1..n : i \in 1..Len(s)
  BY <1>a
<1>2. Ordered(s2)
  <2>1. ASSUME NEW i \in 1..Len(s2), NEW j \in 1..Len(s2), i < j, s2[i][1] = "write"
        PROVE  s2[j][1] \in Last /\ s2[j] # s2[i]
    <3>1. i > n /\ j > n
      BY <2>1, <1>a, <1>b
    <3>2. s[j][1] \in Last /\ s[j] # s[i]
      BY <3>1, <2>1, <1>a DEF Plan, Ordered
    <3> QED BY <3>1, <3>2, <1>a
  <2> QED BY <2>1 DEF Ordered
<1>3. Pending(r, s2)
  <2>1. SUFFICES ASSUME r \in Requests, NEW f \in Files, \E x \in FieldsOf(f) : x \in Sets[r]
                 PROVE  Has(s2, <<"write", f>>)
    BY DEF Pending
  <2>2. ~ \A i \in 1..Len(s) : s[i][1] \in Last
    BY <1>a DEF Last
  <2>3. PICK i \in 1..Len(s) : s[i] = <<"write", f>>
    BY <2>1, <2>2 DEF Plan, Pending, Has
  <2>4. i > n
    BY <2>3, <1>b
  <2> QED BY <2>3, <2>4, <1>a DEF Has
<1>4. ASSUME r = "mod_list_set" PROVE ModPlan(s2)
  <2>0. ModPlan(s)
    BY <1>4 DEF Plan
  <2>a. s # << >> /\ s[Len(s)][1] = "join" /\ Len(s) \in 1..Len(s)
    BY <1>a, <2>0 DEF ModPlan
  <2>b. Len(s) > n
    BY <2>a, <1>b
  <2>1. s2[Len(s2)][1] = "join"
    BY <2>a, <2>b, <1>a
  <2>2. \A i \in 1..Len(s2) : s2[i][1] = "join" => i = Len(s2)
    BY <2>0, <1>a, <1>b DEF ModPlan
  <2>3. \E i \in 1..Len(s2) : s2[i][1] = "delta"
    <3>1. ~ \A i \in 1..Len(s) : s[i][1] \in Applying
      BY <1>a DEF Applying
    <3>2. PICK i \in 1..Len(s) : s[i][1] = "delta"
      BY <3>1, <2>0 DEF ModPlan
    <3>3. i > n
      BY <3>2, <1>b
    <3> QED BY <3>2, <3>3, <1>a
  <2>4. ASSUME NEW i \in 1..Len(s2), NEW j \in 1..Len(s2), i < j, s2[i][1] = "delta"
        PROVE  s2[j][1] \in Applying
    <3>1. i > n /\ j > n
      BY <2>4, <1>a, <1>b
    <3>2. s[j][1] \in Applying
      BY <3>1, <2>4, <1>a, <2>0 DEF ModPlan
    <3> QED BY <3>1, <3>2, <1>a
  <2> QED BY <2>1, <2>2, <2>3, <2>4 DEF ModPlan
<1>5. r # "mod_list_set" => \A i \in 1..Len(s2) : s2[i][1] \notin {"join", "delta"}
  BY <1>a, <1>b DEF Plan
<1>6. r = "config_server_settings_get" => \A i \in 1..Len(s2) : s2[i][2] = "server"
  BY <1>a, <1>b DEF Plan
<1>7. r # "config_server_settings_get" => \A i \in 1..Len(s2) : s2[i][1] # "look"
  BY <1>a, <1>b DEF Plan
<1>8. Saves(r, s2)
  <2>1. \A i \in 1..Len(s2) : s2[i][1] = "rewrite" => i > n /\ s[i][1] = "rewrite"
    BY <1>a, <1>b
  <2>2. ASSUME NEW i \in 1..Len(s2), NEW j \in 1..Len(s2), i < j, s2[i][1] = "rewrite"
        PROVE  s2[j][2] # s2[i][2]
    <3>1. i > n /\ j > n /\ s[i][1] = "rewrite"
      BY <2>1, <2>2, <1>a
    <3>2. s[j][2] # s[i][2]
      BY <3>1, <2>2, <1>a DEF Plan, Saves
    <3> QED BY <3>1, <3>2, <1>a
  <2> QED BY <2>1, <2>2, <1>a DEF Saves, Plan
<1> QED
  BY <1>2, <1>3, <1>4, <1>5, <1>6, <1>7, <1>8 DEF Plan

(* What a handler's first steps create: launch settings, lists and server   *)
(* settings.                                                                *)
LEMMA PlanCreate ==
  ASSUME NEW r, NEW s \in Seq(Operations), s # << >>, Plan(r, s), NEW f \in Files,
         s[1] = <<"read", f>>, f \notin {"modlist", "modsettings", "secrets"}
  PROVE  /\ Create(f) \o Tail(s) \in Seq(Operations)
         /\ Replaces(Create(f) \o Tail(s), s, 1)
         /\ (Create(f) \o Tail(s))[1] \in {<<"try", f>>, <<"init", f>>}
         /\ Plan(r, Create(f) \o Tail(s))
<1>1. PICK a \in {<<"try", f>>, <<"init", f>>} : Create(f) = <<a>>
  BY DEF Create
<1>2. a \in Operations /\ a[1] \in {"try", "init"} /\ a[2] = f
  BY <1>1 DEF Operations
<1> DEFINE s2 == <<a>> \o Tail(s)
<1>3. /\ s2 \in Seq(Operations)
      /\ Replaces(s2, s, 1)
      /\ s2[1] = a
  BY <1>2, ReplaceOne
<1> HIDE DEF s2
<1>4. Len(s) \in Nat /\ Len(s) >= 1 /\ Len(s2) = Len(s) /\ \A i \in 1..Len(s) : i > 1 => s2[i] = s[i]
  BY <1>3, TailFacts DEF Replaces
<1>5. Sound(s2)
  <2>0. Sound(s)
    BY DEF Plan
  <2>1. ASSUME NEW i \in 1..Len(s2), s2[i] = <<"read", "modlist">>
        PROVE  i + 1 \in 1..Len(s2) /\ s2[i + 1] = <<"read", "modsettings">>
    <3>1. i > 1
      BY <1>2, <1>3, <2>1
    <3>2. i + 1 \in 1..Len(s) /\ s[i + 1] = <<"read", "modsettings">>
      BY <3>1, <2>0, <2>1, <1>4 DEF Sound
    <3> QED BY <3>1, <3>2, <1>4
  <2>2. ASSUME NEW i \in 1..Len(s2), s2[i][1] = "mkdir"
        PROVE  i + 1 \in 1..Len(s2) /\ s2[i + 1] \in WriteModlist
    <3>1. i > 1
      BY <1>2, <1>3, <2>2
    <3>2. i + 1 \in 1..Len(s) /\ s[i + 1] \in WriteModlist
      BY <3>1, <2>0, <2>2, <1>4 DEF Sound
    <3> QED BY <3>1, <3>2, <1>4
  <2>3. \A i \in 1..Len(s2) : s2[i] # <<"try", "modlist">>
    <3>1. s2[1] # <<"try", "modlist">>
      BY <1>1, <1>3
    <3> QED BY <3>1, <2>0, <1>4 DEF Sound
  <2> QED BY <2>1, <2>2, <2>3 DEF Sound
<1>6. \A i \in 1..1 : s[i][1] = "read" /\ s2[i][1] \in {"try", "init", "mkdir"}
  BY <1>2, <1>3
<1>7. r = "config_server_settings_get" => \A i \in 1..1 : s2[i][2] = "server"
  <2>1. r = "config_server_settings_get" => s[1][2] = "server"
    BY <1>4 DEF Plan
  <2> QED BY <2>1, <1>2, <1>3
<1>8. Plan(r, s2)
  BY <1>3, <1>4, <1>5, <1>6, <1>7, PlanReplace
<1> QED
  BY <1>1, <1>3, <1>8 DEF s2

(* The mod directory and the mod list, in place of the two reads. *)
LEMMA PlanCreateMods ==
  ASSUME NEW r, NEW s \in Seq(Operations), s # << >>, Plan(r, s), s[1] = <<"read", "modlist">>
  PROVE  /\ Create("modlist") \o Tail(Tail(s)) \in Seq(Operations)
         /\ Replaces(Create("modlist") \o Tail(Tail(s)), s, 2)
         /\ Len(s) >= 2
         /\ s[2] = <<"read", "modsettings">>
         /\ (Create("modlist") \o Tail(Tail(s)))[1] = <<"mkdir", "modlist">>
         /\ (Create("modlist") \o Tail(Tail(s)))[2] = <<"init", "modlist">>
         /\ Plan(r, Create("modlist") \o Tail(Tail(s)))
<1> DEFINE a == <<"mkdir", "modlist">>
           b == <<"init", "modlist">>
           s2 == <<a, b>> \o Tail(Tail(s))
<1>1. Create("modlist") = <<a, b>>
  BY DEF Create
<1>2. a \in Operations /\ b \in Operations
  BY DEF Operations, Files
<1>0. Sound(s)
  BY DEF Plan
<1>3. Len(s) \in Nat /\ Len(s) >= 2 /\ s[2] = <<"read", "modsettings">>
  <2>1. Len(s) \in Nat /\ 1 \in 1..Len(s)
    BY TailFacts
  <2>2. 1 + 1 \in 1..Len(s) /\ s[1 + 1] = <<"read", "modsettings">>
    BY <1>0, <2>1 DEF Sound
  <2> QED BY <2>1, <2>2
<1>4. /\ s2 \in Seq(Operations)
      /\ Replaces(s2, s, 2)
      /\ s2[1] = a /\ s2[2] = b
  <2> HIDE DEF a, b
  <2>1. Len(s) >= 2 /\ a \in Operations /\ b \in Operations
    BY <1>2, <1>3
  <2>2. /\ <<a, b>> \o Tail(Tail(s)) \in Seq(Operations)
        /\ Replaces(<<a, b>> \o Tail(Tail(s)), s, 2)
        /\ (<<a, b>> \o Tail(Tail(s)))[1] = a
        /\ (<<a, b>> \o Tail(Tail(s)))[2] = b
    BY <2>1, ReplaceTwo
  <2> QED BY <2>2
<1> HIDE DEF s2
<1>5. Len(s2) = Len(s) /\ \A i \in 1..Len(s) : i > 2 => s2[i] = s[i]
  BY <1>4 DEF Replaces
<1>6. \A i \in 1..Len(s2) : i = 1 \/ i = 2 \/ i > 2
  OBVIOUS
<1>7. Sound(s2)
  <2>1. ASSUME NEW i \in 1..Len(s2), s2[i] = <<"read", "modlist">>
        PROVE  i + 1 \in 1..Len(s2) /\ s2[i + 1] = <<"read", "modsettings">>
    <3>1. i > 2
      BY <1>4, <1>6, <2>1
    <3>2. i + 1 \in 1..Len(s) /\ s[i + 1] = <<"read", "modsettings">>
      BY <3>1, <1>0, <2>1, <1>5 DEF Sound
    <3> QED BY <3>1, <3>2, <1>5
  <2>2. ASSUME NEW i \in 1..Len(s2), s2[i][1] = "mkdir"
        PROVE  i + 1 \in 1..Len(s2) /\ s2[i + 1] \in WriteModlist
    <3>1. CASE i = 1
      <4>1. i + 1 = 2 /\ 2 \in 1..Len(s2)
        BY <3>1, <1>3, <1>5
      <4> QED BY <4>1, <1>4 DEF WriteModlist
    <3>2. CASE i > 2
      <4>1. i + 1 \in 1..Len(s) /\ s[i + 1] \in WriteModlist
        BY <3>2, <1>0, <2>2, <1>5 DEF Sound
      <4> QED BY <3>2, <4>1, <1>5
    <3>3. i # 2
      BY <1>4, <2>2
    <3> QED BY <3>1, <3>2, <3>3, <1>6
  <2>3. \A i \in 1..Len(s2) : s2[i] # <<"try", "modlist">>
    BY <1>0, <1>4, <1>5, <1>6 DEF Sound
  <2> QED BY <2>1, <2>2, <2>3 DEF Sound
<1>8. \A i \in 1..2 : s[i][1] = "read" /\ s2[i][1] \in {"try", "init", "mkdir"}
  <2>1. \A i \in 1..2 : i = 1 \/ i = 2
    OBVIOUS
  <2> QED BY <2>1, <1>3, <1>4
<1>9. r # "config_server_settings_get"
  <2>1. 1 \in 1..Len(s) /\ s[1][2] # "server"
    BY <1>3
  <2> QED BY <2>1 DEF Plan
<1>10. Plan(r, s2)
  BY <1>3, <1>4, <1>7, <1>8, <1>9, PlanReplace
<1> QED
  BY <1>1, <1>3, <1>4, <1>10 DEF s2

-----------------------------------------------------------------------------
(* The handlers                                                            *)

(* The elements of two lists put together. *)
LEMMA Concatenation ==
  ASSUME NEW a \in Seq(Operations), NEW b \in Seq(Operations)
  PROVE  /\ a \o b \in Seq(Operations)
         /\ Len(a \o b) = Len(a) + Len(b)
         /\ \A i \in 1..(Len(a) + Len(b)) :
              (a \o b)[i] = IF i <= Len(a) THEN a[i] ELSE b[i - Len(a)]
OBVIOUS

(* The handlers of the mod requests, operation by operation. *)
LEMMA ModReads ==
  /\ ReadMods \in Seq(Operations) /\ Len(ReadMods) = 2
  /\ ReadMods[1] = <<"read", "modlist">> /\ ReadMods[2] = <<"read", "modsettings">>
BY DEF ReadMods, Operations, Files

(* What ModManager::apply_metadata_only does, element by element. *)
LEMMA ModWrites ==
  /\ WriteMods \in Seq(Operations) /\ Len(WriteMods) = 3
  /\ WriteMods[1] = <<"mkdir", "modlist">> /\ WriteMods[2] = <<"write", "modlist">>
  /\ WriteMods[3] = <<"write", "modsettings">>
BY DEF WriteMods, Operations, Files

(* The handlers that read the mods and write them back. *)
LEMMA ModChange ==
  ASSUME NEW s, s = ReadMods \o WriteMods
  PROVE  /\ s \in Seq(Operations) /\ Len(s) = 5
         /\ s[1] = <<"read", "modlist">> /\ s[2] = <<"read", "modsettings">>
         /\ s[3] = <<"mkdir", "modlist">> /\ s[4] = <<"write", "modlist">>
         /\ s[5] = <<"write", "modsettings">>
<1>1. /\ s \in Seq(Operations)
      /\ Len(s) = Len(ReadMods) + Len(WriteMods)
      /\ \A i \in 1..(Len(ReadMods) + Len(WriteMods)) :
           s[i] = IF i <= Len(ReadMods) THEN ReadMods[i] ELSE WriteMods[i - Len(ReadMods)]
  BY Concatenation, ModReads, ModWrites, Zenon
<1>2. s[1] = ReadMods[1] /\ s[2] = ReadMods[2]
  BY <1>1, ModReads, ModWrites
<1>3. s[3] = WriteMods[1] /\ s[4] = WriteMods[2] /\ s[5] = WriteMods[3]
  BY <1>1, ModReads, ModWrites
<1> QED
  BY <1>1, <1>2, <1>3, ModReads, ModWrites

(* mod_list_set, element by element. *)
LEMMA ModList ==
  /\ mod_list_set \in Seq(Operations) /\ Len(mod_list_set) = 8
  /\ mod_list_set[1] = <<"read", "modlist">> /\ mod_list_set[2] = <<"read", "modsettings">>
  /\ mod_list_set[3] = <<"read", "secrets">> /\ mod_list_set[4] = <<"delta", "modlist">>
  /\ mod_list_set[5] = <<"mkdir", "modlist">> /\ mod_list_set[6] = <<"write", "modlist">>
  /\ mod_list_set[7] = <<"write", "modsettings">> /\ mod_list_set[8] = <<"join", "modlist">>
<1> DEFINE b == << <<"read", "secrets">>, <<"delta", "modlist">> >>
           c == << <<"join", "modlist">> >>
           x == ReadMods \o b
           y == x \o WriteMods
           z == y \o c
<1>1. b \in Seq(Operations) /\ Len(b) = 2 /\ b[1] = <<"read", "secrets">> /\ b[2] = <<"delta", "modlist">>
  BY DEF Operations, Files
<1>2. c \in Seq(Operations) /\ Len(c) = 1 /\ c[1] = <<"join", "modlist">>
  BY DEF Operations, Files
<1>0. mod_list_set = z
  BY DEF mod_list_set
<1> HIDE DEF b, c
<1>3. /\ x \in Seq(Operations)
      /\ Len(x) = Len(ReadMods) + Len(b)
      /\ \A i \in 1..(Len(ReadMods) + Len(b)) :
           x[i] = IF i <= Len(ReadMods) THEN ReadMods[i] ELSE b[i - Len(ReadMods)]
  BY <1>1, Concatenation, ModReads, Zenon
<1>4. x[1] = ReadMods[1] /\ x[2] = ReadMods[2] /\ x[3] = b[1] /\ x[4] = b[2] /\ Len(x) = 4
  BY <1>1, <1>3, ModReads
<1> HIDE DEF x
<1>5. /\ y \in Seq(Operations)
      /\ Len(y) = Len(x) + Len(WriteMods)
      /\ \A i \in 1..(Len(x) + Len(WriteMods)) :
           y[i] = IF i <= Len(x) THEN x[i] ELSE WriteMods[i - Len(x)]
  BY <1>3, Concatenation, ModWrites, Zenon
<1>6. /\ y[1] = x[1] /\ y[2] = x[2] /\ y[3] = x[3] /\ y[4] = x[4]
      /\ y[5] = WriteMods[1] /\ y[6] = WriteMods[2] /\ y[7] = WriteMods[3]
      /\ Len(y) = 7
  BY <1>4, <1>5, ModWrites
<1> HIDE DEF y
<1>7. /\ z \in Seq(Operations)
      /\ Len(z) = Len(y) + Len(c)
      /\ \A i \in 1..(Len(y) + Len(c)) :
           z[i] = IF i <= Len(y) THEN y[i] ELSE c[i - Len(y)]
  BY <1>2, <1>5, Concatenation, Zenon
<1>8. /\ z[1] = y[1] /\ z[2] = y[2] /\ z[3] = y[3] /\ z[4] = y[4]
      /\ z[5] = y[5] /\ z[6] = y[6] /\ z[7] = y[7] /\ z[8] = c[1] /\ Len(z) = 8
  BY <1>2, <1>6, <1>7
<1> HIDE DEF z
<1> QED
  BY <1>0, <1>1, <1>2, <1>4, <1>6, <1>7, <1>8, ModReads, ModWrites

(* What server_start reads, element by element. *)
LEMMA BeforeStart ==
  /\ ReadBeforeStart \in Seq(Operations) /\ Len(ReadBeforeStart) = 4
  /\ ReadBeforeStart[1] = <<"read", "modlist">>
  /\ ReadBeforeStart[2] = <<"read", "modsettings">>
  /\ ReadBeforeStart[3] = <<"read", "launch">>
  /\ ReadBeforeStart[4] = <<"read", "server">>
<1> DEFINE b == << <<"read", "launch">>, <<"read", "server">> >>
<1>1. b \in Seq(Operations) /\ Len(b) = 2 /\ b[1] = <<"read", "launch">> /\ b[2] = <<"read", "server">>
  BY DEF Operations, Files
<1>0. ReadBeforeStart = ReadMods \o b
  BY DEF ReadBeforeStart
<1> HIDE DEF b
<1>2. /\ ReadMods \o b \in Seq(Operations)
      /\ Len(ReadMods \o b) = Len(ReadMods) + Len(b)
      /\ \A i \in 1..(Len(ReadMods) + Len(b)) :
           (ReadMods \o b)[i] = IF i <= Len(ReadMods) THEN ReadMods[i] ELSE b[i - Len(ReadMods)]
  BY <1>1, Concatenation, ModReads, Zenon
<1> QED
  BY <1>0, <1>1, <1>2, ModReads

(* The lists it reads last. *)
LEMMA ListReads ==
  /\ ReadLists \in Seq(Operations) /\ Len(ReadLists) = 2
  /\ ReadLists[1] = <<"read", "admin">> /\ ReadLists[2] = <<"read", "whitelist">>
BY DEF ReadLists, Operations, Files

(* server_start of a server that is not public, element by element. *)
LEMMA StartReads ==
  /\ server_start \in Seq(Operations) /\ Len(server_start) = 6
  /\ server_start[1] = <<"read", "modlist">>
  /\ server_start[2] = <<"read", "modsettings">>
  /\ server_start[3] = <<"read", "launch">>
  /\ server_start[4] = <<"read", "server">>
  /\ server_start[5] = <<"read", "admin">>
  /\ server_start[6] = <<"read", "whitelist">>
<1>1. /\ server_start \in Seq(Operations)
      /\ Len(server_start) = Len(ReadBeforeStart) + Len(ReadLists)
      /\ \A i \in 1..(Len(ReadBeforeStart) + Len(ReadLists)) :
           server_start[i] = IF i <= Len(ReadBeforeStart) THEN ReadBeforeStart[i]
                             ELSE ReadLists[i - Len(ReadBeforeStart)]
  BY Concatenation, BeforeStart, ListReads, Zenon DEF server_start
<1> QED
  BY <1>1, BeforeStart, ListReads

(* server_start of a public server, element by element. *)
LEMMA PublicStart ==
  /\ server_start_public \in Seq(Operations) /\ Len(server_start_public) = 8
  /\ server_start_public[1] = <<"read", "modlist">>
  /\ server_start_public[2] = <<"read", "modsettings">>
  /\ server_start_public[3] = <<"read", "launch">>
  /\ server_start_public[4] = <<"read", "server">>
  /\ server_start_public[5] = <<"read", "secrets">>
  /\ server_start_public[6] = <<"rewrite", "server">>
  /\ server_start_public[7] = <<"read", "admin">>
  /\ server_start_public[8] = <<"read", "whitelist">>
<1> DEFINE b == << <<"read", "secrets">>, <<"rewrite", "server">> >>
           y == ReadBeforeStart \o b
           z == y \o ReadLists
<1>1. b \in Seq(Operations) /\ Len(b) = 2 /\ b[1] = <<"read", "secrets">> /\ b[2] = <<"rewrite", "server">>
  BY DEF Operations, Files
<1>0. server_start_public = z
  BY DEF server_start_public
<1> HIDE DEF b
<1>2. /\ y \in Seq(Operations)
      /\ Len(y) = Len(ReadBeforeStart) + Len(b)
      /\ \A i \in 1..(Len(ReadBeforeStart) + Len(b)) :
           y[i] = IF i <= Len(ReadBeforeStart) THEN ReadBeforeStart[i] ELSE b[i - Len(ReadBeforeStart)]
  BY <1>1, Concatenation, BeforeStart, Zenon
<1>3. /\ y[1] = ReadBeforeStart[1] /\ y[2] = ReadBeforeStart[2] /\ y[3] = ReadBeforeStart[3]
      /\ y[4] = ReadBeforeStart[4] /\ y[5] = b[1] /\ y[6] = b[2] /\ Len(y) = 6
  BY <1>1, <1>2, BeforeStart
<1> HIDE DEF y
<1>4. /\ z \in Seq(Operations)
      /\ Len(z) = Len(y) + Len(ReadLists)
      /\ \A i \in 1..(Len(y) + Len(ReadLists)) :
           z[i] = IF i <= Len(y) THEN y[i] ELSE ReadLists[i - Len(y)]
  BY <1>2, Concatenation, ListReads, Zenon
<1>5. /\ z[1] = y[1] /\ z[2] = y[2] /\ z[3] = y[3] /\ z[4] = y[4] /\ z[5] = y[5] /\ z[6] = y[6]
      /\ z[7] = ReadLists[1] /\ z[8] = ReadLists[2] /\ Len(z) = 8
  BY <1>3, <1>4, ListReads
<1> HIDE DEF z
<1> QED
  BY <1>0, <1>1, <1>3, <1>4, <1>5, BeforeStart, ListReads

(* The requests, and what each sets. *)
LEMMA RequestFacts ==
  /\ Requests = {"config_rcon_get", "config_rcon_set", "config_white_list_get",
                 "config_white_list_set", "config_admin_list_get", "config_admin_list_set",
                 "config_secrets_set", "config_server_settings_get", "config_server_settings_set",
                 "mod_settings_get", "mod_dlcs_set", "mod_settings_set",
                 "mod_list_set", "server_start", "server_start_public"}
  /\ Sets["config_rcon_get"] = {}
  /\ Sets["config_rcon_set"] = {"rcon_password"}
  /\ Sets["config_white_list_get"] = {}
  /\ Sets["config_white_list_set"] = {"use_whitelist", "whitelist"}
  /\ Sets["config_admin_list_get"] = {}
  /\ Sets["config_admin_list_set"] = {"admin"}
  /\ Sets["config_secrets_set"] = {"secrets"}
  /\ Sets["config_server_settings_get"] = {}
  /\ Sets["config_server_settings_set"] = {"server"}
  /\ Sets["mod_settings_get"] = {}
  /\ Sets["mod_dlcs_set"] = {"dlcs"}
  /\ Sets["mod_settings_set"] = {"settings"}
  /\ Sets["mod_list_set"] = {}
  /\ Sets["server_start"] = {}
  /\ Sets["server_start_public"] = {}
BY DEF Requests, Sets

(* Which handler serves which request. *)
LEMMA HandlerFacts ==
  /\ Handler["config_rcon_get"] = config_rcon_get
  /\ Handler["config_rcon_set"] = config_rcon_set
  /\ Handler["config_white_list_get"] = config_white_list_get
  /\ Handler["config_white_list_set"] = config_white_list_set
  /\ Handler["config_admin_list_get"] = config_admin_list_get
  /\ Handler["config_admin_list_set"] = config_admin_list_set
  /\ Handler["config_secrets_set"] = config_secrets_set
  /\ Handler["config_server_settings_get"] = config_server_settings_get
  /\ Handler["config_server_settings_set"] = config_server_settings_set
  /\ Handler["mod_settings_get"] = mod_settings_get
  /\ Handler["mod_dlcs_set"] = mod_dlcs_set
  /\ Handler["mod_settings_set"] = mod_settings_set
  /\ Handler["mod_list_set"] = mod_list_set
  /\ Handler["server_start"] = server_start
  /\ Handler["server_start_public"] = server_start_public
BY DEF Handler


(* The fields of each file; no field is in two files. *)
LEMMA FieldFacts ==
  /\ FieldsOf("launch") = {"rcon_password", "use_whitelist"}
  /\ FieldsOf("modlist") = {"dlcs"}
  /\ FieldsOf("modsettings") = {"settings"}
  /\ \A f \in {"server", "whitelist", "admin", "secrets"} : FieldsOf(f) = {f}
BY DEF FieldsOf

(* A field belongs to one file. *)
LEMMA FieldsDisjoint ==
  ASSUME NEW f \in Files, NEW x \in FieldsOf(f)
  PROVE  x \in Fields /\ \A g \in Files : x \in FieldsOf(g) => g = f
BY FieldFacts DEF Files, Fields

(* What a handler writes when it sets something, and what it reads before    *)
(* it writes a field it does not set.                                        *)
Fresh(r, s) ==
  /\ \A f \in Files : \A x \in FieldsOf(f) : x \in Sets[r] => Has(s, <<"write", f>>)
  /\ \A f \in Files : \A x \in FieldsOf(f) \ {"use_whitelist"} :
       Has(s, <<"write", f>>) /\ x \notin Sets[r] => Has(s, <<"read", f>>)
  /\ \A f \in Files : Has(s, <<"rewrite", f>>) => Has(s, <<"read", f>>)
  /\ \A f \in Files : ~Has(s, <<"try", f>>) /\ ~Has(s, <<"init", f>>)
  /\ r = "mod_settings_set" => Has(s, <<"mkdir", "modlist">>)
  /\ r = "mod_list_set" => Has(s, <<"delta", "modlist">>)

(* What a handler starts with is a plan if it sets what it writes. *)
LEMMA FreshPlan ==
  ASSUME NEW r, NEW s, Fresh(r, s), Sound(s), Ordered(s), Saves(r, s),
         r = "mod_list_set" => ModPlan(s),
         r # "mod_list_set" => \A i \in 1..Len(s) : s[i][1] \notin {"join", "delta"},
         r = "config_server_settings_get" => \A i \in 1..Len(s) : s[i][2] = "server",
         r # "config_server_settings_get" => \A i \in 1..Len(s) : s[i][1] # "look"
  PROVE  Plan(r, s)
BY DEF Plan, Fresh, Pending

(* Every handler starts with a plan. *)
LEMMA HandlerPlan ==
  ASSUME NEW r \in Requests
  PROVE  /\ Handler[r] \in Seq(Operations)
         /\ Fresh(r, Handler[r])
         /\ Plan(r, Handler[r])
<1> DEFINE s == Handler[r]
<1>1. CASE r = "config_rcon_get"
  <2>1. s \in Seq(Operations) /\ Len(s) = 1
    BY <1>1, HandlerFacts DEF config_rcon_get, Operations, Files
  <2>2. /\ s[1] = <<"read", "launch">>
    BY <1>1, HandlerFacts DEF config_rcon_get, Operations, Files
  <2>3. Sets[r] = {}
    BY <1>1, RequestFacts
  <2> HIDE DEF s
  <2>4. \A i \in 1..Len(s) : i = 1
    BY <2>1
  <2>5. Fresh(r, s)
    <3>1. /\ \A f \in Files : Has(s, <<"write", f>>) <=> f \in {}
          /\ \A f \in Files : f \in {"launch"} => Has(s, <<"read", f>>)
          /\ \A f \in Files : ~Has(s, <<"try", f>>) /\ ~Has(s, <<"init", f>>)
          /\ \A f \in Files : ~Has(s, <<"rewrite", f>>)
      BY <2>1, <2>2, <2>4 DEF Has
    <3>2. /\ \A f \in Files : \A x \in FieldsOf(f) : x \in Sets[r] => Has(s, <<"write", f>>)
          /\ \A f \in Files : \A x \in FieldsOf(f) \ {"use_whitelist"} :
               Has(s, <<"write", f>>) /\ x \notin Sets[r] => Has(s, <<"read", f>>)
      BY <3>1, <2>3, FieldFacts DEF Files
    <3>3. /\ r = "mod_settings_set" => Has(s, <<"mkdir", "modlist">>)
          /\ r = "mod_list_set" => Has(s, <<"delta", "modlist">>)
      BY <1>1, <2>1, <2>2 DEF Has
    <3> QED BY <3>1, <3>2, <3>3 DEF Fresh
  <2>6. Sound(s)
    BY <2>1, <2>2, <2>4 DEF Sound, WriteModlist
  <2>7. Ordered(s)
    BY <2>1, <2>2, <2>4 DEF Ordered, Last
  <2>8. /\ r # "mod_list_set" => \A i \in 1..Len(s) : s[i][1] \notin {"join", "delta"}
        /\ r = "config_server_settings_get" => \A i \in 1..Len(s) : s[i][2] = "server"
        /\ r # "config_server_settings_get" => \A i \in 1..Len(s) : s[i][1] # "look"
    BY <1>1, <2>1, <2>2, <2>4
  <2>9. r = "mod_list_set" => ModPlan(s)
    BY <1>1
  <2>10. Saves(r, s)
    <3>1. \A i \in 1..Len(s) : s[i][1] # "rewrite"
      BY <2>2, <2>4
    <3> QED BY <3>1 DEF Saves
  <2> QED
    BY <2>1, <2>5, <2>6, <2>7, <2>8, <2>9, <2>10, FreshPlan DEF s
<1>2. CASE r = "config_rcon_set"
  <2>1. s \in Seq(Operations) /\ Len(s) = 2
    BY <1>2, HandlerFacts DEF config_rcon_set, Operations, Files
  <2>2. /\ s[1] = <<"read", "launch">> /\ s[2] = <<"write", "launch">>
    BY <1>2, HandlerFacts DEF config_rcon_set, Operations, Files
  <2>3. Sets[r] = {"rcon_password"}
    BY <1>2, RequestFacts
  <2> HIDE DEF s
  <2>4. \A i \in 1..Len(s) : i = 1 \/ i = 2
    BY <2>1
  <2>5. Fresh(r, s)
    <3>1. /\ \A f \in Files : Has(s, <<"write", f>>) <=> f \in {"launch"}
          /\ \A f \in Files : f \in {"launch"} => Has(s, <<"read", f>>)
          /\ \A f \in Files : ~Has(s, <<"try", f>>) /\ ~Has(s, <<"init", f>>)
          /\ \A f \in Files : ~Has(s, <<"rewrite", f>>)
      BY <2>1, <2>2, <2>4 DEF Has
    <3>2. /\ \A f \in Files : \A x \in FieldsOf(f) : x \in Sets[r] => Has(s, <<"write", f>>)
          /\ \A f \in Files : \A x \in FieldsOf(f) \ {"use_whitelist"} :
               Has(s, <<"write", f>>) /\ x \notin Sets[r] => Has(s, <<"read", f>>)
      BY <3>1, <2>3, FieldFacts DEF Files
    <3>3. /\ r = "mod_settings_set" => Has(s, <<"mkdir", "modlist">>)
          /\ r = "mod_list_set" => Has(s, <<"delta", "modlist">>)
      BY <1>2, <2>1, <2>2 DEF Has
    <3> QED BY <3>1, <3>2, <3>3 DEF Fresh
  <2>6. Sound(s)
    BY <2>1, <2>2, <2>4 DEF Sound, WriteModlist
  <2>7. Ordered(s)
    BY <2>1, <2>2, <2>4 DEF Ordered, Last
  <2>8. /\ r # "mod_list_set" => \A i \in 1..Len(s) : s[i][1] \notin {"join", "delta"}
        /\ r = "config_server_settings_get" => \A i \in 1..Len(s) : s[i][2] = "server"
        /\ r # "config_server_settings_get" => \A i \in 1..Len(s) : s[i][1] # "look"
    BY <1>2, <2>1, <2>2, <2>4
  <2>9. r = "mod_list_set" => ModPlan(s)
    BY <1>2
  <2>10. Saves(r, s)
    <3>1. \A i \in 1..Len(s) : s[i][1] # "rewrite"
      BY <2>2, <2>4
    <3> QED BY <3>1 DEF Saves
  <2> QED
    BY <2>1, <2>5, <2>6, <2>7, <2>8, <2>9, <2>10, FreshPlan DEF s
<1>3. CASE r = "config_white_list_get"
  <2>1. s \in Seq(Operations) /\ Len(s) = 2
    BY <1>3, HandlerFacts DEF config_white_list_get, Operations, Files
  <2>2. /\ s[1] = <<"read", "launch">> /\ s[2] = <<"read", "whitelist">>
    BY <1>3, HandlerFacts DEF config_white_list_get, Operations, Files
  <2>3. Sets[r] = {}
    BY <1>3, RequestFacts
  <2> HIDE DEF s
  <2>4. \A i \in 1..Len(s) : i = 1 \/ i = 2
    BY <2>1
  <2>5. Fresh(r, s)
    <3>1. /\ \A f \in Files : Has(s, <<"write", f>>) <=> f \in {}
          /\ \A f \in Files : f \in {"launch", "whitelist"} => Has(s, <<"read", f>>)
          /\ \A f \in Files : ~Has(s, <<"try", f>>) /\ ~Has(s, <<"init", f>>)
          /\ \A f \in Files : ~Has(s, <<"rewrite", f>>)
      BY <2>1, <2>2, <2>4 DEF Has
    <3>2. /\ \A f \in Files : \A x \in FieldsOf(f) : x \in Sets[r] => Has(s, <<"write", f>>)
          /\ \A f \in Files : \A x \in FieldsOf(f) \ {"use_whitelist"} :
               Has(s, <<"write", f>>) /\ x \notin Sets[r] => Has(s, <<"read", f>>)
      BY <3>1, <2>3, FieldFacts DEF Files
    <3>3. /\ r = "mod_settings_set" => Has(s, <<"mkdir", "modlist">>)
          /\ r = "mod_list_set" => Has(s, <<"delta", "modlist">>)
      BY <1>3, <2>1, <2>2 DEF Has
    <3> QED BY <3>1, <3>2, <3>3 DEF Fresh
  <2>6. Sound(s)
    BY <2>1, <2>2, <2>4 DEF Sound, WriteModlist
  <2>7. Ordered(s)
    BY <2>1, <2>2, <2>4 DEF Ordered, Last
  <2>8. /\ r # "mod_list_set" => \A i \in 1..Len(s) : s[i][1] \notin {"join", "delta"}
        /\ r = "config_server_settings_get" => \A i \in 1..Len(s) : s[i][2] = "server"
        /\ r # "config_server_settings_get" => \A i \in 1..Len(s) : s[i][1] # "look"
    BY <1>3, <2>1, <2>2, <2>4
  <2>9. r = "mod_list_set" => ModPlan(s)
    BY <1>3
  <2>10. Saves(r, s)
    <3>1. \A i \in 1..Len(s) : s[i][1] # "rewrite"
      BY <2>2, <2>4
    <3> QED BY <3>1 DEF Saves
  <2> QED
    BY <2>1, <2>5, <2>6, <2>7, <2>8, <2>9, <2>10, FreshPlan DEF s
<1>4. CASE r = "config_white_list_set"
  <2>1. s \in Seq(Operations) /\ Len(s) = 3
    BY <1>4, HandlerFacts DEF config_white_list_set, Operations, Files
  <2>2. /\ s[1] = <<"read", "launch">> /\ s[2] = <<"write", "launch">> /\ s[3] = <<"write", "whitelist">>
    BY <1>4, HandlerFacts DEF config_white_list_set, Operations, Files
  <2>3. Sets[r] = {"use_whitelist", "whitelist"}
    BY <1>4, RequestFacts
  <2> HIDE DEF s
  <2>4. \A i \in 1..Len(s) : i = 1 \/ i = 2 \/ i = 3
    BY <2>1
  <2>5. Fresh(r, s)
    <3>1. /\ \A f \in Files : Has(s, <<"write", f>>) <=> f \in {"launch", "whitelist"}
          /\ \A f \in Files : f \in {"launch"} => Has(s, <<"read", f>>)
          /\ \A f \in Files : ~Has(s, <<"try", f>>) /\ ~Has(s, <<"init", f>>)
          /\ \A f \in Files : ~Has(s, <<"rewrite", f>>)
      BY <2>1, <2>2, <2>4 DEF Has
    <3>2. /\ \A f \in Files : \A x \in FieldsOf(f) : x \in Sets[r] => Has(s, <<"write", f>>)
          /\ \A f \in Files : \A x \in FieldsOf(f) \ {"use_whitelist"} :
               Has(s, <<"write", f>>) /\ x \notin Sets[r] => Has(s, <<"read", f>>)
      BY <3>1, <2>3, FieldFacts DEF Files
    <3>3. /\ r = "mod_settings_set" => Has(s, <<"mkdir", "modlist">>)
          /\ r = "mod_list_set" => Has(s, <<"delta", "modlist">>)
      BY <1>4, <2>1, <2>2 DEF Has
    <3> QED BY <3>1, <3>2, <3>3 DEF Fresh
  <2>6. Sound(s)
    BY <2>1, <2>2, <2>4 DEF Sound, WriteModlist
  <2>7. Ordered(s)
    BY <2>1, <2>2, <2>4 DEF Ordered, Last
  <2>8. /\ r # "mod_list_set" => \A i \in 1..Len(s) : s[i][1] \notin {"join", "delta"}
        /\ r = "config_server_settings_get" => \A i \in 1..Len(s) : s[i][2] = "server"
        /\ r # "config_server_settings_get" => \A i \in 1..Len(s) : s[i][1] # "look"
    BY <1>4, <2>1, <2>2, <2>4
  <2>9. r = "mod_list_set" => ModPlan(s)
    BY <1>4
  <2>10. Saves(r, s)
    <3>1. \A i \in 1..Len(s) : s[i][1] # "rewrite"
      BY <2>2, <2>4
    <3> QED BY <3>1 DEF Saves
  <2> QED
    BY <2>1, <2>5, <2>6, <2>7, <2>8, <2>9, <2>10, FreshPlan DEF s
<1>5. CASE r = "config_admin_list_get"
  <2>1. s \in Seq(Operations) /\ Len(s) = 1
    BY <1>5, HandlerFacts DEF config_admin_list_get, Operations, Files
  <2>2. /\ s[1] = <<"read", "admin">>
    BY <1>5, HandlerFacts DEF config_admin_list_get, Operations, Files
  <2>3. Sets[r] = {}
    BY <1>5, RequestFacts
  <2> HIDE DEF s
  <2>4. \A i \in 1..Len(s) : i = 1
    BY <2>1
  <2>5. Fresh(r, s)
    <3>1. /\ \A f \in Files : Has(s, <<"write", f>>) <=> f \in {}
          /\ \A f \in Files : f \in {"admin"} => Has(s, <<"read", f>>)
          /\ \A f \in Files : ~Has(s, <<"try", f>>) /\ ~Has(s, <<"init", f>>)
          /\ \A f \in Files : ~Has(s, <<"rewrite", f>>)
      BY <2>1, <2>2, <2>4 DEF Has
    <3>2. /\ \A f \in Files : \A x \in FieldsOf(f) : x \in Sets[r] => Has(s, <<"write", f>>)
          /\ \A f \in Files : \A x \in FieldsOf(f) \ {"use_whitelist"} :
               Has(s, <<"write", f>>) /\ x \notin Sets[r] => Has(s, <<"read", f>>)
      BY <3>1, <2>3, FieldFacts DEF Files
    <3>3. /\ r = "mod_settings_set" => Has(s, <<"mkdir", "modlist">>)
          /\ r = "mod_list_set" => Has(s, <<"delta", "modlist">>)
      BY <1>5, <2>1, <2>2 DEF Has
    <3> QED BY <3>1, <3>2, <3>3 DEF Fresh
  <2>6. Sound(s)
    BY <2>1, <2>2, <2>4 DEF Sound, WriteModlist
  <2>7. Ordered(s)
    BY <2>1, <2>2, <2>4 DEF Ordered, Last
  <2>8. /\ r # "mod_list_set" => \A i \in 1..Len(s) : s[i][1] \notin {"join", "delta"}
        /\ r = "config_server_settings_get" => \A i \in 1..Len(s) : s[i][2] = "server"
        /\ r # "config_server_settings_get" => \A i \in 1..Len(s) : s[i][1] # "look"
    BY <1>5, <2>1, <2>2, <2>4
  <2>9. r = "mod_list_set" => ModPlan(s)
    BY <1>5
  <2>10. Saves(r, s)
    <3>1. \A i \in 1..Len(s) : s[i][1] # "rewrite"
      BY <2>2, <2>4
    <3> QED BY <3>1 DEF Saves
  <2> QED
    BY <2>1, <2>5, <2>6, <2>7, <2>8, <2>9, <2>10, FreshPlan DEF s
<1>6. CASE r = "config_admin_list_set"
  <2>1. s \in Seq(Operations) /\ Len(s) = 1
    BY <1>6, HandlerFacts DEF config_admin_list_set, Operations, Files
  <2>2. /\ s[1] = <<"write", "admin">>
    BY <1>6, HandlerFacts DEF config_admin_list_set, Operations, Files
  <2>3. Sets[r] = {"admin"}
    BY <1>6, RequestFacts
  <2> HIDE DEF s
  <2>4. \A i \in 1..Len(s) : i = 1
    BY <2>1
  <2>5. Fresh(r, s)
    <3>1. /\ \A f \in Files : Has(s, <<"write", f>>) <=> f \in {"admin"}
          /\ \A f \in Files : f \in {} => Has(s, <<"read", f>>)
          /\ \A f \in Files : ~Has(s, <<"try", f>>) /\ ~Has(s, <<"init", f>>)
          /\ \A f \in Files : ~Has(s, <<"rewrite", f>>)
      BY <2>1, <2>2, <2>4 DEF Has
    <3>2. /\ \A f \in Files : \A x \in FieldsOf(f) : x \in Sets[r] => Has(s, <<"write", f>>)
          /\ \A f \in Files : \A x \in FieldsOf(f) \ {"use_whitelist"} :
               Has(s, <<"write", f>>) /\ x \notin Sets[r] => Has(s, <<"read", f>>)
      BY <3>1, <2>3, FieldFacts DEF Files
    <3>3. /\ r = "mod_settings_set" => Has(s, <<"mkdir", "modlist">>)
          /\ r = "mod_list_set" => Has(s, <<"delta", "modlist">>)
      BY <1>6, <2>1, <2>2 DEF Has
    <3> QED BY <3>1, <3>2, <3>3 DEF Fresh
  <2>6. Sound(s)
    BY <2>1, <2>2, <2>4 DEF Sound, WriteModlist
  <2>7. Ordered(s)
    BY <2>1, <2>2, <2>4 DEF Ordered, Last
  <2>8. /\ r # "mod_list_set" => \A i \in 1..Len(s) : s[i][1] \notin {"join", "delta"}
        /\ r = "config_server_settings_get" => \A i \in 1..Len(s) : s[i][2] = "server"
        /\ r # "config_server_settings_get" => \A i \in 1..Len(s) : s[i][1] # "look"
    BY <1>6, <2>1, <2>2, <2>4
  <2>9. r = "mod_list_set" => ModPlan(s)
    BY <1>6
  <2>10. Saves(r, s)
    <3>1. \A i \in 1..Len(s) : s[i][1] # "rewrite"
      BY <2>2, <2>4
    <3> QED BY <3>1 DEF Saves
  <2> QED
    BY <2>1, <2>5, <2>6, <2>7, <2>8, <2>9, <2>10, FreshPlan DEF s
<1>7. CASE r = "config_secrets_set"
  <2>1. s \in Seq(Operations) /\ Len(s) = 1
    BY <1>7, HandlerFacts DEF config_secrets_set, Operations, Files
  <2>2. /\ s[1] = <<"write", "secrets">>
    BY <1>7, HandlerFacts DEF config_secrets_set, Operations, Files
  <2>3. Sets[r] = {"secrets"}
    BY <1>7, RequestFacts
  <2> HIDE DEF s
  <2>4. \A i \in 1..Len(s) : i = 1
    BY <2>1
  <2>5. Fresh(r, s)
    <3>1. /\ \A f \in Files : Has(s, <<"write", f>>) <=> f \in {"secrets"}
          /\ \A f \in Files : f \in {} => Has(s, <<"read", f>>)
          /\ \A f \in Files : ~Has(s, <<"try", f>>) /\ ~Has(s, <<"init", f>>)
          /\ \A f \in Files : ~Has(s, <<"rewrite", f>>)
      BY <2>1, <2>2, <2>4 DEF Has
    <3>2. /\ \A f \in Files : \A x \in FieldsOf(f) : x \in Sets[r] => Has(s, <<"write", f>>)
          /\ \A f \in Files : \A x \in FieldsOf(f) \ {"use_whitelist"} :
               Has(s, <<"write", f>>) /\ x \notin Sets[r] => Has(s, <<"read", f>>)
      BY <3>1, <2>3, FieldFacts DEF Files
    <3>3. /\ r = "mod_settings_set" => Has(s, <<"mkdir", "modlist">>)
          /\ r = "mod_list_set" => Has(s, <<"delta", "modlist">>)
      BY <1>7, <2>1, <2>2 DEF Has
    <3> QED BY <3>1, <3>2, <3>3 DEF Fresh
  <2>6. Sound(s)
    BY <2>1, <2>2, <2>4 DEF Sound, WriteModlist
  <2>7. Ordered(s)
    BY <2>1, <2>2, <2>4 DEF Ordered, Last
  <2>8. /\ r # "mod_list_set" => \A i \in 1..Len(s) : s[i][1] \notin {"join", "delta"}
        /\ r = "config_server_settings_get" => \A i \in 1..Len(s) : s[i][2] = "server"
        /\ r # "config_server_settings_get" => \A i \in 1..Len(s) : s[i][1] # "look"
    BY <1>7, <2>1, <2>2, <2>4
  <2>9. r = "mod_list_set" => ModPlan(s)
    BY <1>7
  <2>10. Saves(r, s)
    <3>1. \A i \in 1..Len(s) : s[i][1] # "rewrite"
      BY <2>2, <2>4
    <3> QED BY <3>1 DEF Saves
  <2> QED
    BY <2>1, <2>5, <2>6, <2>7, <2>8, <2>9, <2>10, FreshPlan DEF s
<1>8. CASE r = "config_server_settings_get"
  <2>1. s \in Seq(Operations) /\ Len(s) = 2
    BY <1>8, HandlerFacts DEF config_server_settings_get, Operations, Files
  <2>2. /\ s[1] = <<"look", "server">> /\ s[2] = <<"read", "server">>
    BY <1>8, HandlerFacts DEF config_server_settings_get, Operations, Files
  <2>3. Sets[r] = {}
    BY <1>8, RequestFacts
  <2> HIDE DEF s
  <2>4. \A i \in 1..Len(s) : i = 1 \/ i = 2
    BY <2>1
  <2>5. Fresh(r, s)
    <3>1. /\ \A f \in Files : Has(s, <<"write", f>>) <=> f \in {}
          /\ \A f \in Files : f \in {"server"} => Has(s, <<"read", f>>)
          /\ \A f \in Files : ~Has(s, <<"try", f>>) /\ ~Has(s, <<"init", f>>)
          /\ \A f \in Files : ~Has(s, <<"rewrite", f>>)
      BY <2>1, <2>2, <2>4 DEF Has
    <3>2. /\ \A f \in Files : \A x \in FieldsOf(f) : x \in Sets[r] => Has(s, <<"write", f>>)
          /\ \A f \in Files : \A x \in FieldsOf(f) \ {"use_whitelist"} :
               Has(s, <<"write", f>>) /\ x \notin Sets[r] => Has(s, <<"read", f>>)
      BY <3>1, <2>3, FieldFacts DEF Files
    <3>3. /\ r = "mod_settings_set" => Has(s, <<"mkdir", "modlist">>)
          /\ r = "mod_list_set" => Has(s, <<"delta", "modlist">>)
      BY <1>8, <2>1, <2>2 DEF Has
    <3> QED BY <3>1, <3>2, <3>3 DEF Fresh
  <2>6. Sound(s)
    BY <2>1, <2>2, <2>4 DEF Sound, WriteModlist
  <2>7. Ordered(s)
    BY <2>1, <2>2, <2>4 DEF Ordered, Last
  <2>8. /\ r # "mod_list_set" => \A i \in 1..Len(s) : s[i][1] \notin {"join", "delta"}
        /\ r = "config_server_settings_get" => \A i \in 1..Len(s) : s[i][2] = "server"
        /\ r # "config_server_settings_get" => \A i \in 1..Len(s) : s[i][1] # "look"
    BY <1>8, <2>1, <2>2, <2>4
  <2>9. r = "mod_list_set" => ModPlan(s)
    BY <1>8
  <2>10. Saves(r, s)
    <3>1. \A i \in 1..Len(s) : s[i][1] # "rewrite"
      BY <2>2, <2>4
    <3> QED BY <3>1 DEF Saves
  <2> QED
    BY <2>1, <2>5, <2>6, <2>7, <2>8, <2>9, <2>10, FreshPlan DEF s
<1>9. CASE r = "config_server_settings_set"
  <2>1. s \in Seq(Operations) /\ Len(s) = 1
    BY <1>9, HandlerFacts DEF config_server_settings_set, Operations, Files
  <2>2. /\ s[1] = <<"write", "server">>
    BY <1>9, HandlerFacts DEF config_server_settings_set, Operations, Files
  <2>3. Sets[r] = {"server"}
    BY <1>9, RequestFacts
  <2> HIDE DEF s
  <2>4. \A i \in 1..Len(s) : i = 1
    BY <2>1
  <2>5. Fresh(r, s)
    <3>1. /\ \A f \in Files : Has(s, <<"write", f>>) <=> f \in {"server"}
          /\ \A f \in Files : f \in {} => Has(s, <<"read", f>>)
          /\ \A f \in Files : ~Has(s, <<"try", f>>) /\ ~Has(s, <<"init", f>>)
          /\ \A f \in Files : ~Has(s, <<"rewrite", f>>)
      BY <2>1, <2>2, <2>4 DEF Has
    <3>2. /\ \A f \in Files : \A x \in FieldsOf(f) : x \in Sets[r] => Has(s, <<"write", f>>)
          /\ \A f \in Files : \A x \in FieldsOf(f) \ {"use_whitelist"} :
               Has(s, <<"write", f>>) /\ x \notin Sets[r] => Has(s, <<"read", f>>)
      BY <3>1, <2>3, FieldFacts DEF Files
    <3>3. /\ r = "mod_settings_set" => Has(s, <<"mkdir", "modlist">>)
          /\ r = "mod_list_set" => Has(s, <<"delta", "modlist">>)
      BY <1>9, <2>1, <2>2 DEF Has
    <3> QED BY <3>1, <3>2, <3>3 DEF Fresh
  <2>6. Sound(s)
    BY <2>1, <2>2, <2>4 DEF Sound, WriteModlist
  <2>7. Ordered(s)
    BY <2>1, <2>2, <2>4 DEF Ordered, Last
  <2>8. /\ r # "mod_list_set" => \A i \in 1..Len(s) : s[i][1] \notin {"join", "delta"}
        /\ r = "config_server_settings_get" => \A i \in 1..Len(s) : s[i][2] = "server"
        /\ r # "config_server_settings_get" => \A i \in 1..Len(s) : s[i][1] # "look"
    BY <1>9, <2>1, <2>2, <2>4
  <2>9. r = "mod_list_set" => ModPlan(s)
    BY <1>9
  <2>10. Saves(r, s)
    <3>1. \A i \in 1..Len(s) : s[i][1] # "rewrite"
      BY <2>2, <2>4
    <3> QED BY <3>1 DEF Saves
  <2> QED
    BY <2>1, <2>5, <2>6, <2>7, <2>8, <2>9, <2>10, FreshPlan DEF s
<1>10. CASE r = "mod_settings_get"
  <2>1. s \in Seq(Operations) /\ Len(s) = 2
    BY <1>10, HandlerFacts, ModReads DEF mod_settings_get
  <2>2. /\ s[1] = <<"read", "modlist">> /\ s[2] = <<"read", "modsettings">>
    BY <1>10, HandlerFacts, ModReads DEF mod_settings_get
  <2>3. Sets[r] = {}
    BY <1>10, RequestFacts
  <2> HIDE DEF s
  <2>4. \A i \in 1..Len(s) : i = 1 \/ i = 2
    BY <2>1
  <2>5. Fresh(r, s)
    <3>1. /\ \A f \in Files : Has(s, <<"write", f>>) <=> f \in {}
          /\ \A f \in Files : f \in {"modlist", "modsettings"} => Has(s, <<"read", f>>)
          /\ \A f \in Files : ~Has(s, <<"try", f>>) /\ ~Has(s, <<"init", f>>)
          /\ \A f \in Files : ~Has(s, <<"rewrite", f>>)
      BY <2>1, <2>2, <2>4 DEF Has
    <3>2. /\ \A f \in Files : \A x \in FieldsOf(f) : x \in Sets[r] => Has(s, <<"write", f>>)
          /\ \A f \in Files : \A x \in FieldsOf(f) \ {"use_whitelist"} :
               Has(s, <<"write", f>>) /\ x \notin Sets[r] => Has(s, <<"read", f>>)
      BY <3>1, <2>3, FieldFacts DEF Files
    <3>3. /\ r = "mod_settings_set" => Has(s, <<"mkdir", "modlist">>)
          /\ r = "mod_list_set" => Has(s, <<"delta", "modlist">>)
      BY <1>10, <2>1, <2>2 DEF Has
    <3> QED BY <3>1, <3>2, <3>3 DEF Fresh
  <2>6. Sound(s)
    BY <2>1, <2>2, <2>4 DEF Sound, WriteModlist
  <2>7. Ordered(s)
    BY <2>1, <2>2, <2>4 DEF Ordered, Last
  <2>8. /\ r # "mod_list_set" => \A i \in 1..Len(s) : s[i][1] \notin {"join", "delta"}
        /\ r = "config_server_settings_get" => \A i \in 1..Len(s) : s[i][2] = "server"
        /\ r # "config_server_settings_get" => \A i \in 1..Len(s) : s[i][1] # "look"
    BY <1>10, <2>1, <2>2, <2>4
  <2>9. r = "mod_list_set" => ModPlan(s)
    BY <1>10
  <2>10. Saves(r, s)
    <3>1. \A i \in 1..Len(s) : s[i][1] # "rewrite"
      BY <2>2, <2>4
    <3> QED BY <3>1 DEF Saves
  <2> QED
    BY <2>1, <2>5, <2>6, <2>7, <2>8, <2>9, <2>10, FreshPlan DEF s
<1>11. CASE r = "mod_dlcs_set"
  <2>1. s \in Seq(Operations) /\ Len(s) = 5
    BY <1>11, HandlerFacts, ModChange DEF mod_dlcs_set
  <2>2. /\ s[1] = <<"read", "modlist">>
            /\ s[2] = <<"read", "modsettings">>
            /\ s[3] = <<"mkdir", "modlist">>
            /\ s[4] = <<"write", "modlist">>
            /\ s[5] = <<"write", "modsettings">>
    BY <1>11, HandlerFacts, ModChange DEF mod_dlcs_set
  <2>3. Sets[r] = {"dlcs"}
    BY <1>11, RequestFacts
  <2> HIDE DEF s
  <2>4. \A i \in 1..Len(s) : i = 1 \/ i = 2 \/ i = 3 \/ i = 4 \/ i = 5
    BY <2>1
  <2>5. Fresh(r, s)
    <3>1. /\ \A f \in Files : Has(s, <<"write", f>>) <=> f \in {"modlist", "modsettings"}
          /\ \A f \in Files : f \in {"modlist", "modsettings"} => Has(s, <<"read", f>>)
          /\ \A f \in Files : ~Has(s, <<"try", f>>) /\ ~Has(s, <<"init", f>>)
          /\ \A f \in Files : ~Has(s, <<"rewrite", f>>)
      BY <2>1, <2>2, <2>4 DEF Has
    <3>2. /\ \A f \in Files : \A x \in FieldsOf(f) : x \in Sets[r] => Has(s, <<"write", f>>)
          /\ \A f \in Files : \A x \in FieldsOf(f) \ {"use_whitelist"} :
               Has(s, <<"write", f>>) /\ x \notin Sets[r] => Has(s, <<"read", f>>)
      BY <3>1, <2>3, FieldFacts DEF Files
    <3>3. /\ r = "mod_settings_set" => Has(s, <<"mkdir", "modlist">>)
          /\ r = "mod_list_set" => Has(s, <<"delta", "modlist">>)
      BY <1>11, <2>1, <2>2 DEF Has
    <3> QED BY <3>1, <3>2, <3>3 DEF Fresh
  <2>6. Sound(s)
    <3>1. ASSUME NEW i \in 1..Len(s), s[i] = <<"read", "modlist">>
          PROVE  i + 1 \in 1..Len(s) /\ s[i + 1] = <<"read", "modsettings">>
      <4>1. i = 1
        BY <3>1, <2>2, <2>4
      <4>2. i + 1 = 2 /\ 2 \in 1..Len(s)
        BY <4>1, <2>1
      <4> QED BY <4>2, <2>2
    <3>2. ASSUME NEW i \in 1..Len(s), s[i][1] = "mkdir"
          PROVE  i + 1 \in 1..Len(s) /\ s[i + 1] \in WriteModlist
      <4>1. i = 3
        BY <3>2, <2>2, <2>4
      <4>2. i + 1 = 4 /\ 4 \in 1..Len(s)
        BY <4>1, <2>1
      <4> QED BY <4>2, <2>2 DEF WriteModlist
    <3>3. \A i \in 1..Len(s) : s[i] # <<"try", "modlist">>
      BY <2>2, <2>4
    <3> QED BY <3>1, <3>2, <3>3 DEF Sound
  <2>7. Ordered(s)
    BY <2>1, <2>2, <2>4 DEF Ordered, Last
  <2>8. /\ r # "mod_list_set" => \A i \in 1..Len(s) : s[i][1] \notin {"join", "delta"}
        /\ r = "config_server_settings_get" => \A i \in 1..Len(s) : s[i][2] = "server"
        /\ r # "config_server_settings_get" => \A i \in 1..Len(s) : s[i][1] # "look"
    BY <1>11, <2>1, <2>2, <2>4
  <2>9. r = "mod_list_set" => ModPlan(s)
    BY <1>11
  <2>10. Saves(r, s)
    <3>1. \A i \in 1..Len(s) : s[i][1] # "rewrite"
      BY <2>2, <2>4
    <3> QED BY <3>1 DEF Saves
  <2> QED
    BY <2>1, <2>5, <2>6, <2>7, <2>8, <2>9, <2>10, FreshPlan DEF s
<1>12. CASE r = "mod_settings_set"
  <2>1. s \in Seq(Operations) /\ Len(s) = 5
    BY <1>12, HandlerFacts, ModChange DEF mod_settings_set
  <2>2. /\ s[1] = <<"read", "modlist">>
            /\ s[2] = <<"read", "modsettings">>
            /\ s[3] = <<"mkdir", "modlist">>
            /\ s[4] = <<"write", "modlist">>
            /\ s[5] = <<"write", "modsettings">>
    BY <1>12, HandlerFacts, ModChange DEF mod_settings_set
  <2>3. Sets[r] = {"settings"}
    BY <1>12, RequestFacts
  <2> HIDE DEF s
  <2>4. \A i \in 1..Len(s) : i = 1 \/ i = 2 \/ i = 3 \/ i = 4 \/ i = 5
    BY <2>1
  <2>5. Fresh(r, s)
    <3>1. /\ \A f \in Files : Has(s, <<"write", f>>) <=> f \in {"modlist", "modsettings"}
          /\ \A f \in Files : f \in {"modlist", "modsettings"} => Has(s, <<"read", f>>)
          /\ \A f \in Files : ~Has(s, <<"try", f>>) /\ ~Has(s, <<"init", f>>)
          /\ \A f \in Files : ~Has(s, <<"rewrite", f>>)
      BY <2>1, <2>2, <2>4 DEF Has
    <3>2. /\ \A f \in Files : \A x \in FieldsOf(f) : x \in Sets[r] => Has(s, <<"write", f>>)
          /\ \A f \in Files : \A x \in FieldsOf(f) \ {"use_whitelist"} :
               Has(s, <<"write", f>>) /\ x \notin Sets[r] => Has(s, <<"read", f>>)
      BY <3>1, <2>3, FieldFacts DEF Files
    <3>3. /\ r = "mod_settings_set" => Has(s, <<"mkdir", "modlist">>)
          /\ r = "mod_list_set" => Has(s, <<"delta", "modlist">>)
      BY <1>12, <2>1, <2>2 DEF Has
    <3> QED BY <3>1, <3>2, <3>3 DEF Fresh
  <2>6. Sound(s)
    <3>1. ASSUME NEW i \in 1..Len(s), s[i] = <<"read", "modlist">>
          PROVE  i + 1 \in 1..Len(s) /\ s[i + 1] = <<"read", "modsettings">>
      <4>1. i = 1
        BY <3>1, <2>2, <2>4
      <4>2. i + 1 = 2 /\ 2 \in 1..Len(s)
        BY <4>1, <2>1
      <4> QED BY <4>2, <2>2
    <3>2. ASSUME NEW i \in 1..Len(s), s[i][1] = "mkdir"
          PROVE  i + 1 \in 1..Len(s) /\ s[i + 1] \in WriteModlist
      <4>1. i = 3
        BY <3>2, <2>2, <2>4
      <4>2. i + 1 = 4 /\ 4 \in 1..Len(s)
        BY <4>1, <2>1
      <4> QED BY <4>2, <2>2 DEF WriteModlist
    <3>3. \A i \in 1..Len(s) : s[i] # <<"try", "modlist">>
      BY <2>2, <2>4
    <3> QED BY <3>1, <3>2, <3>3 DEF Sound
  <2>7. Ordered(s)
    BY <2>1, <2>2, <2>4 DEF Ordered, Last
  <2>8. /\ r # "mod_list_set" => \A i \in 1..Len(s) : s[i][1] \notin {"join", "delta"}
        /\ r = "config_server_settings_get" => \A i \in 1..Len(s) : s[i][2] = "server"
        /\ r # "config_server_settings_get" => \A i \in 1..Len(s) : s[i][1] # "look"
    BY <1>12, <2>1, <2>2, <2>4
  <2>9. r = "mod_list_set" => ModPlan(s)
    BY <1>12
  <2>10. Saves(r, s)
    <3>1. \A i \in 1..Len(s) : s[i][1] # "rewrite"
      BY <2>2, <2>4
    <3> QED BY <3>1 DEF Saves
  <2> QED
    BY <2>1, <2>5, <2>6, <2>7, <2>8, <2>9, <2>10, FreshPlan DEF s
<1>13. CASE r = "mod_list_set"
  <2>1. s \in Seq(Operations) /\ Len(s) = 8
    BY <1>13, HandlerFacts, ModList
  <2>2. /\ s[1] = <<"read", "modlist">>
            /\ s[2] = <<"read", "modsettings">>
            /\ s[3] = <<"read", "secrets">>
            /\ s[4] = <<"delta", "modlist">>
            /\ s[5] = <<"mkdir", "modlist">>
            /\ s[6] = <<"write", "modlist">>
            /\ s[7] = <<"write", "modsettings">>
            /\ s[8] = <<"join", "modlist">>
    BY <1>13, HandlerFacts, ModList
  <2>3. Sets[r] = {}
    BY <1>13, RequestFacts
  <2> HIDE DEF s
  <2>4. \A i \in 1..Len(s) : i = 1 \/ i = 2 \/ i = 3 \/ i = 4 \/ i = 5 \/ i = 6 \/ i = 7 \/ i = 8
    BY <2>1
  <2>5. Fresh(r, s)
    <3>1. /\ \A f \in Files : Has(s, <<"write", f>>) <=> f \in {"modlist", "modsettings"}
          /\ \A f \in Files : f \in {"modlist", "modsettings", "secrets"} => Has(s, <<"read", f>>)
          /\ \A f \in Files : ~Has(s, <<"try", f>>) /\ ~Has(s, <<"init", f>>)
          /\ \A f \in Files : ~Has(s, <<"rewrite", f>>)
      BY <2>1, <2>2, <2>4 DEF Has
    <3>2. /\ \A f \in Files : \A x \in FieldsOf(f) : x \in Sets[r] => Has(s, <<"write", f>>)
          /\ \A f \in Files : \A x \in FieldsOf(f) \ {"use_whitelist"} :
               Has(s, <<"write", f>>) /\ x \notin Sets[r] => Has(s, <<"read", f>>)
      BY <3>1, <2>3, FieldFacts DEF Files
    <3>3. /\ r = "mod_settings_set" => Has(s, <<"mkdir", "modlist">>)
          /\ r = "mod_list_set" => Has(s, <<"delta", "modlist">>)
      BY <1>13, <2>1, <2>2 DEF Has
    <3> QED BY <3>1, <3>2, <3>3 DEF Fresh
  <2>6. Sound(s)
    <3>1. ASSUME NEW i \in 1..Len(s), s[i] = <<"read", "modlist">>
          PROVE  i + 1 \in 1..Len(s) /\ s[i + 1] = <<"read", "modsettings">>
      <4>1. i = 1
        BY <3>1, <2>2, <2>4
      <4>2. i + 1 = 2 /\ 2 \in 1..Len(s)
        BY <4>1, <2>1
      <4> QED BY <4>2, <2>2
    <3>2. ASSUME NEW i \in 1..Len(s), s[i][1] = "mkdir"
          PROVE  i + 1 \in 1..Len(s) /\ s[i + 1] \in WriteModlist
      <4>1. i = 5
        BY <3>2, <2>2, <2>4
      <4>2. i + 1 = 6 /\ 6 \in 1..Len(s)
        BY <4>1, <2>1
      <4> QED BY <4>2, <2>2 DEF WriteModlist
    <3>3. \A i \in 1..Len(s) : s[i] # <<"try", "modlist">>
      BY <2>2, <2>4
    <3> QED BY <3>1, <3>2, <3>3 DEF Sound
  <2>7. Ordered(s)
    BY <2>1, <2>2, <2>4 DEF Ordered, Last
  <2>8. /\ r # "mod_list_set" => \A i \in 1..Len(s) : s[i][1] \notin {"join", "delta"}
        /\ r = "config_server_settings_get" => \A i \in 1..Len(s) : s[i][2] = "server"
        /\ r # "config_server_settings_get" => \A i \in 1..Len(s) : s[i][1] # "look"
    BY <1>13, <2>1, <2>2, <2>4
  <2>9. r = "mod_list_set" => ModPlan(s)
    BY <1>13, <2>1, <2>2, <2>4 DEF ModPlan, Applying
  <2>10. Saves(r, s)
    <3>1. \A i \in 1..Len(s) : s[i][1] # "rewrite"
      BY <2>2, <2>4
    <3> QED BY <3>1 DEF Saves
  <2> QED
    BY <2>1, <2>5, <2>6, <2>7, <2>8, <2>9, <2>10, FreshPlan DEF s
<1>14. CASE r = "server_start"
  <2>1. s \in Seq(Operations) /\ Len(s) = 6
    BY <1>14, HandlerFacts, StartReads
  <2>2. /\ s[1] = <<"read", "modlist">>
        /\ s[2] = <<"read", "modsettings">>
        /\ s[3] = <<"read", "launch">>
        /\ s[4] = <<"read", "server">>
        /\ s[5] = <<"read", "admin">>
        /\ s[6] = <<"read", "whitelist">>
    BY <1>14, HandlerFacts, StartReads
  <2>3. Sets[r] = {}
    BY <1>14, RequestFacts
  <2> HIDE DEF s
  <2>4. \A i \in 1..Len(s) : i = 1 \/ i = 2 \/ i = 3 \/ i = 4 \/ i = 5 \/ i = 6
    BY <2>1
  <2>5. Fresh(r, s)
    <3>1. /\ \A f \in Files : ~Has(s, <<"write", f>>)
          /\ \A f \in Files : Has(s, <<"rewrite", f>>) => f = "server"
          /\ Has(s, <<"read", "server">>)
          /\ \A f \in Files : ~Has(s, <<"try", f>>) /\ ~Has(s, <<"init", f>>)
      BY <2>1, <2>2, <2>4 DEF Has
    <3> QED BY <1>14, <2>3, <3>1 DEF Fresh
  <2>6. Sound(s)
    <3>1. ASSUME NEW i \in 1..Len(s), s[i] = <<"read", "modlist">>
          PROVE  i + 1 \in 1..Len(s) /\ s[i + 1] = <<"read", "modsettings">>
      <4>1. i = 1
        BY <3>1, <2>2, <2>4
      <4>2. i + 1 = 2 /\ 2 \in 1..Len(s)
        BY <4>1, <2>1
      <4> QED BY <4>2, <2>2
    <3>2. \A i \in 1..Len(s) : s[i][1] # "mkdir" /\ s[i] # <<"try", "modlist">>
      BY <2>2, <2>4
    <3> QED BY <3>1, <3>2 DEF Sound
  <2>7. Ordered(s)
    BY <2>2, <2>4 DEF Ordered
  <2>8. /\ r # "mod_list_set" => \A i \in 1..Len(s) : s[i][1] \notin {"join", "delta"}
        /\ r = "config_server_settings_get" => \A i \in 1..Len(s) : s[i][2] = "server"
        /\ r # "config_server_settings_get" => \A i \in 1..Len(s) : s[i][1] # "look"
    BY <1>14, <2>2, <2>4
  <2>9. r = "mod_list_set" => ModPlan(s)
    BY <1>14
  <2>10. Saves(r, s)
    BY <1>14, <2>1, <2>2, <2>4 DEF Saves
  <2> QED
    BY <2>1, <2>5, <2>6, <2>7, <2>8, <2>9, <2>10, FreshPlan DEF s
<1>15. CASE r = "server_start_public"
  <2>1. s \in Seq(Operations) /\ Len(s) = 8
    BY <1>15, HandlerFacts, PublicStart
  <2>2. /\ s[1] = <<"read", "modlist">>
        /\ s[2] = <<"read", "modsettings">>
        /\ s[3] = <<"read", "launch">>
        /\ s[4] = <<"read", "server">>
        /\ s[5] = <<"read", "secrets">>
        /\ s[6] = <<"rewrite", "server">>
        /\ s[7] = <<"read", "admin">>
        /\ s[8] = <<"read", "whitelist">>
    BY <1>15, HandlerFacts, PublicStart
  <2>3. Sets[r] = {}
    BY <1>15, RequestFacts
  <2> HIDE DEF s
  <2>4. \A i \in 1..Len(s) : i = 1 \/ i = 2 \/ i = 3 \/ i = 4 \/ i = 5 \/ i = 6 \/ i = 7 \/ i = 8
    BY <2>1
  <2>5. Fresh(r, s)
    <3>1. /\ \A f \in Files : ~Has(s, <<"write", f>>)
          /\ \A f \in Files : Has(s, <<"rewrite", f>>) => f = "server"
          /\ Has(s, <<"read", "server">>)
          /\ \A f \in Files : ~Has(s, <<"try", f>>) /\ ~Has(s, <<"init", f>>)
      BY <2>1, <2>2, <2>4 DEF Has
    <3> QED BY <1>15, <2>3, <3>1 DEF Fresh
  <2>6. Sound(s)
    <3>1. ASSUME NEW i \in 1..Len(s), s[i] = <<"read", "modlist">>
          PROVE  i + 1 \in 1..Len(s) /\ s[i + 1] = <<"read", "modsettings">>
      <4>1. i = 1
        BY <3>1, <2>2, <2>4
      <4>2. i + 1 = 2 /\ 2 \in 1..Len(s)
        BY <4>1, <2>1
      <4> QED BY <4>2, <2>2
    <3>2. \A i \in 1..Len(s) : s[i][1] # "mkdir" /\ s[i] # <<"try", "modlist">>
      BY <2>2, <2>4
    <3> QED BY <3>1, <3>2 DEF Sound
  <2>7. Ordered(s)
    BY <2>2, <2>4 DEF Ordered
  <2>8. /\ r # "mod_list_set" => \A i \in 1..Len(s) : s[i][1] \notin {"join", "delta"}
        /\ r = "config_server_settings_get" => \A i \in 1..Len(s) : s[i][2] = "server"
        /\ r # "config_server_settings_get" => \A i \in 1..Len(s) : s[i][1] # "look"
    <3>1. \A i \in 1..Len(s) : s[i][1] \in {"read", "rewrite"}
      BY <2>2, <2>4
    <3> QED BY <1>15, <3>1
  <2>9. r = "mod_list_set" => ModPlan(s)
    BY <1>15
  <2>10. Saves(r, s)
    BY <1>15, <2>1, <2>2, <2>4 DEF Saves
  <2> QED
    BY <2>1, <2>5, <2>6, <2>7, <2>8, <2>9, <2>10, FreshPlan DEF s
<1> QED
  BY <1>1, <1>2, <1>3, <1>4, <1>5, <1>6, <1>7, <1>8, <1>9, <1>10, <1>11, <1>12, <1>13, <1>14, <1>15, RequestFacts
-----------------------------------------------------------------------------
(* A step of one handler                                                   *)

(* What the first operation left to a handler is. *)
LEMMA HeadFacts ==
  ASSUME TypeOK, NEW t \in Tasks, todo[t] # << >>
  PROVE  /\ todo[t] \in Seq(Operations) /\ Tail(todo[t]) \in Seq(Operations)
         /\ Head(todo[t]) = todo[t][1] /\ 1 \in 1..Len(todo[t])
         /\ File(t) \in Files /\ Head(todo[t]) = <<Head(todo[t])[1], File(t)>>
         /\ req[t] \in Requests /\ req[t] # NoRequest
<1>1. todo[t] \in Seq(Operations)
  BY DEF TypeOK
<1>2. Head(todo[t]) = todo[t][1] /\ 1 \in 1..Len(todo[t]) /\ Tail(todo[t]) \in Seq(Operations)
  BY <1>1, TailFacts
<1>3. File(t) \in Files /\ Head(todo[t]) = <<Head(todo[t])[1], File(t)>>
  BY <1>1, <1>2, Elements DEF File
<1>4. req[t] # NoRequest /\ req[t] \in Requests
  BY DEF TypeOK
<1> QED
  BY <1>1, <1>2, <1>3, <1>4

(* An idle task serves no request. *)
LEMMA NoRequestFacts == NoRequest \notin Requests
BY RequestFacts DEF NoRequest

(* Nothing of another handler changes. *)
SameAt(u) ==
  /\ req'[u] = req[u] /\ arg'[u] = arg[u] /\ want'[u] = want[u]
  /\ todo'[u] = todo[u] /\ mem'[u] = mem[u] /\ writing'[u] = writing[u]

(* Files are not removed, and files once disturbed stay so. *)
Grows ==
  /\ \A f \in Files : state'[f] = "missing" => state[f] = "missing"
  /\ \A f \in disturbed : f \in disturbed'
  /\ mod_dir => mod_dir'

(* What s2 writes, s may write already. *)
Within(s2, s) ==
  \A f \in Files :
    /\ f \in Rewrites(s2) => f \in MayWrite(s)
    /\ (\E i \in 1..Len(s2) : s2[i][2] = f) => \E i \in 1..Len(s) : s[i][2] = f

(* The handler ends, ... *)
Ended(t) == req'[t] = NoRequest /\ todo'[t] = << >> /\ writing'[t] = FALSE

(* ... or goes on with its plan. *)
Moved(t) ==
  /\ req[t] # NoRequest /\ req'[t] = req[t] /\ arg'[t] = arg[t] /\ want'[t] = want[t]
  /\ todo'[t] \in Seq(Operations)
  /\ Plan(req[t], todo'[t])
  /\ Within(todo'[t], todo[t])

(* The step of a handler that is not its first. *)
LaterStep(t) ==
  \/ Look(t) \/ ReadOk(t) \/ ReadMissing(t) \/ ReadFails(t)
  \/ MakeDir(t) \/ SkipSettings(t) \/ WriteBegins(t) \/ WriteEnds(t) \/ WriteFails(t)
  \/ SpawnJobs(t) \/ Join(t) \/ Refuse(t) \/ Succeed(t)

(* A list writes what it writes. *)
LEMMA WithinSame ==
  ASSUME NEW s
  PROVE  Within(s, s)
BY DEF Within, MayWrite

(* An empty list writes nothing. *)
LEMMA WithinEmpty ==
  ASSUME NEW s
  PROVE  Within(<< >>, s)
BY DEF Within, Rewrites

(* The rest of a list writes no more than the list. *)
LEMMA WithinTail ==
  ASSUME NEW s \in Seq(Operations), s # << >>
  PROVE  Within(Tail(s), s)
<1>1. \A i \in 1..Len(Tail(s)) : i + 1 \in 1..Len(s) /\ Tail(s)[i] = s[i + 1]
  BY TailFacts
<1>2. \A f \in Files : f \in Rewrites(Tail(s)) => f \in Rewrites(s)
  BY <1>1 DEF Rewrites
<1>3. \A f \in Files : (\E i \in 1..Len(Tail(s)) : Tail(s)[i][2] = f) => \E i \in 1..Len(s) : s[i][2] = f
  BY <1>1
<1> QED
  BY <1>2, <1>3 DEF Within, MayWrite

(* A list whose first operations create a missing file instead of reading it. *)
LEMMA WithinReplaced ==
  ASSUME NEW s \in Seq(Operations), NEW s2 \in Seq(Operations), NEW n \in {1, 2},
         n <= Len(s), Replaces(s2, s, n), NEW f \in Files \ {"secrets", "modsettings"},
         s[1][2] = f, state[f] = "missing", \A i \in 1..n : s2[i][2] = f
  PROVE  Within(s2, s)
<1>1. /\ Len(s) \in Nat /\ Len(s2) = Len(s) /\ 1 \in 1..Len(s)
      /\ \A i \in 1..Len(s) : i > n => s2[i] = s[i]
  BY DEF Replaces
<1>2. \A i \in 1..Len(s) : i \in 1..n \/ i > n
  OBVIOUS
<1>3. f \in MayWrite(s)
  BY <1>1 DEF MayWrite, Creates
<1>4. \A g \in Files : g \in Rewrites(s2) => g = f \/ g \in Rewrites(s)
  BY <1>1, <1>2 DEF Rewrites
<1>5. \A g \in Files : (\E i \in 1..Len(s2) : s2[i][2] = g) => \E i \in 1..Len(s) : s[i][2] = g
  BY <1>1, <1>2
<1> QED
  BY <1>3, <1>4, <1>5 DEF Within, MayWrite

(* The plan goes on with the next operation. *)
LEMMA ContinueMoves ==
  ASSUME TypeOK, NEW t \in Tasks, Plan(req[t], todo[t]), todo[t] # << >>, Continue(t)
  PROVE  Moved(t) /\ todo'[t] = Tail(todo[t])
<1>1. todo'[t] = Tail(todo[t]) /\ req' = req /\ arg' = arg /\ want' = want
  BY DEF Continue, request, TypeOK
<1>2. Plan(req[t], Tail(todo[t])) /\ Within(Tail(todo[t]), todo[t])
  BY HeadFacts, PlanAdvance, WithinTail
<1> QED
  BY <1>1, <1>2, HeadFacts DEF Moved

(* A reply leaves the task idle. *)
LEMMA EndEnds ==
  ASSUME TypeOK, NEW t \in Tasks, End(t)
  PROVE  Ended(t)
BY DEF End, Ended, TypeOK

(* What a read that finds nothing makes of the plan. *)
LEMMA ReadMissingMoves ==
  ASSUME TypeOK, NEW t \in Tasks, Plan(req[t], todo[t]), ReadMissing(t)
  PROVE  /\ Moved(t)
         /\ todo[t] # << >> /\ todo[t][1] = <<"read", File(t)>>
         /\ \/ File(t) = "modsettings" /\ todo'[t] = Tail(todo[t])
            \/ /\ File(t) = "modlist" /\ Len(todo[t]) >= 2 /\ todo[t][2] = <<"read", "modsettings">>
               /\ Replaces(todo'[t], todo[t], 2)
               /\ todo'[t][1] = <<"mkdir", "modlist">> /\ todo'[t][2] = <<"init", "modlist">>
            \/ /\ File(t) \in Files \ {"modlist", "modsettings", "secrets"}
               /\ Replaces(todo'[t], todo[t], 1)
               /\ todo'[t][1] \in {<<"try", File(t)>>, <<"init", File(t)>>}
<1> DEFINE s == todo[t]
           f == File(t)
<1>1. s # << >> /\ s[1] = <<"read", f>> /\ f \in Files /\ s \in Seq(Operations) /\ req[t] # NoRequest
      /\ Len(s) \in Nat /\ 1 <= Len(s)
  <2>1. s # << >> /\ Head(s)[1] = "read"
    BY DEF ReadMissing, Doing
  <2> QED BY <2>1, HeadFacts
<1>2. req' = req /\ arg' = arg /\ want' = want /\ state[f] = "missing" /\ f # "secrets"
  BY DEF ReadMissing, request
<1>3. CASE f = "modsettings"
  <2>1. todo'[t] = Tail(s)
    BY <1>3 DEF ReadMissing, TypeOK
  <2>2. Plan(req[t], Tail(s)) /\ Within(Tail(s), s) /\ Tail(s) \in Seq(Operations)
    BY <1>1, HeadFacts, PlanAdvance, WithinTail
  <2> QED BY <1>1, <1>2, <1>3, <2>1, <2>2 DEF Moved
<1>4. CASE f = "modlist"
  <2>1. todo'[t] = Create("modlist") \o Tail(Tail(s))
    BY <1>4 DEF ReadMissing, TypeOK
  <2>2. /\ todo'[t] \in Seq(Operations)
        /\ Replaces(todo'[t], s, 2)
        /\ Len(s) >= 2
        /\ s[2] = <<"read", "modsettings">>
        /\ todo'[t][1] = <<"mkdir", "modlist">>
        /\ todo'[t][2] = <<"init", "modlist">>
        /\ Plan(req[t], todo'[t])
    BY <1>1, <1>4, <2>1, PlanCreateMods
  <2>3. \A i \in 1..2 : todo'[t][i][2] = "modlist"
    <3>1. \A i \in 1..2 : i = 1 \/ i = 2
      OBVIOUS
    <3> QED BY <3>1, <2>2
  <2>4. Within(todo'[t], s)
    <3> DEFINE s2 == todo'[t]
    <3>1. s2 \in Seq(Operations) /\ Replaces(s2, s, 2) /\ Len(s) >= 2 /\ \A i \in 1..2 : s2[i][2] = "modlist"
      BY <2>2, <2>3
    <3> HIDE DEF s2
    <3>2. "modlist" \in Files \ {"secrets", "modsettings"} /\ s[1][2] = "modlist" /\ state["modlist"] = "missing"
      BY <1>1, <1>2, <1>4
    <3>3. Within(s2, s)
      BY <1>1, <3>1, <3>2, WithinReplaced
    <3> QED BY <3>3 DEF s2
  <2> QED BY <1>1, <1>2, <1>4, <2>2, <2>4 DEF Moved
<1>5. CASE f \notin {"modsettings", "modlist"}
  <2>1. todo'[t] = Create(f) \o Tail(s)
    BY <1>5 DEF ReadMissing, TypeOK
  <2>2. /\ todo'[t] \in Seq(Operations)
        /\ Replaces(todo'[t], s, 1)
        /\ todo'[t][1] \in {<<"try", f>>, <<"init", f>>}
        /\ Plan(req[t], todo'[t])
    <3>1. /\ Create(f) \o Tail(s) \in Seq(Operations)
          /\ Replaces(Create(f) \o Tail(s), s, 1)
          /\ (Create(f) \o Tail(s))[1] \in {<<"try", f>>, <<"init", f>>}
          /\ Plan(req[t], Create(f) \o Tail(s))
      BY <1>1, <1>2, <1>5, PlanCreate, Zenon
    <3> QED BY <2>1, <3>1
  <2>3. \A i \in 1..1 : todo'[t][i][2] = f
    <3>1. \A i \in 1..1 : i = 1
      OBVIOUS
    <3> QED BY <3>1, <2>2
  <2>4. Within(todo'[t], s)
    <3> DEFINE s2 == todo'[t]
    <3>1. s2 \in Seq(Operations) /\ Replaces(s2, s, 1) /\ \A i \in 1..1 : s2[i][2] = f
      BY <2>2, <2>3
    <3> HIDE DEF s2
    <3>2. f \in Files \ {"secrets", "modsettings"} /\ s[1][2] = f /\ state[f] = "missing"
      BY <1>1, <1>2, <1>5
    <3>3. Within(s2, s)
      BY <1>1, <3>1, <3>2, WithinReplaced
    <3> QED BY <3>3 DEF s2
  <2> QED BY <1>1, <1>2, <1>5, <2>2, <2>4 DEF Moved
<1> QED
  BY <1>3, <1>4, <1>5

(* Each step of a handler ends it or leaves it with a plan. *)
LEMMA LaterMoves ==
  ASSUME TypeOK, NEW t \in Tasks, Plan(req[t], todo[t]), LaterStep(t)
  PROVE  Ended(t) \/ Moved(t)
<1>1. CASE Look(t)
  <2>1. todo[t] # << >> /\ todo'[t] \in {<< >>, Tail(todo[t])} /\ req' = req /\ arg' = arg /\ want' = want
    BY <1>1 DEF Look, Doing, request, TypeOK
  <2>2. << >> \in Seq(Operations)
    OBVIOUS
  <2> QED BY <2>1, <2>2, HeadFacts, PlanAdvance, PlanEmpty, WithinTail, WithinEmpty DEF Moved
<1>2. CASE ReadOk(t) \/ MakeDir(t) \/ SkipSettings(t) \/ WriteEnds(t) \/ SpawnJobs(t)
  <2>1. todo[t] # << >> /\ Continue(t)
    BY <1>2 DEF ReadOk, MakeDir, SkipSettings, WriteEnds, SpawnJobs, Doing
  <2> QED BY <2>1, ContinueMoves
<1>3. CASE ReadMissing(t)
  BY <1>3, ReadMissingMoves
<1>4. CASE ReadFails(t) \/ Refuse(t) \/ Succeed(t)
  BY <1>4, EndEnds DEF ReadFails, Refuse, Succeed
<1>5. CASE WriteBegins(t)
  <2>1. todo[t] # << >> /\ todo' = todo /\ req' = req /\ arg' = arg /\ want' = want
    BY <1>5 DEF WriteBegins, Doing, request
  <2> QED BY <2>1, HeadFacts, WithinSame DEF Moved
<1>6. CASE WriteFails(t)
  <2>1. todo[t] # << >> /\ (Continue(t) \/ End(t))
    BY <1>6 DEF WriteFails, Doing
  <2> QED BY <2>1, ContinueMoves, EndEnds
<1>7. CASE Join(t)
  <2>1. todo[t] # << >> /\ (Continue(t) \/ End(t))
    BY <1>7 DEF Join, Doing
  <2> QED BY <2>1, ContinueMoves, EndEnds
<1> QED
  BY <1>1, <1>2, <1>3, <1>4, <1>5, <1>6, <1>7 DEF LaterStep

(* A handler takes over a message. *)
LEMMA HandleMoves ==
  ASSUME TypeOK, NEW t \in Tasks, NEW r \in Requests, HandleMessage(t, r)
  PROVE  /\ req[t] = NoRequest /\ req'[t] = r
         /\ todo'[t] = Handler[r] /\ todo'[t] \in Seq(Operations) /\ Plan(r, todo'[t])
         /\ writing'[t] = FALSE
         /\ r = "mod_settings_set" => arg'[t] = "a"
<1>1. req[t] = NoRequest /\ req'[t] = r /\ todo'[t] = Handler[r] /\ writing' = writing
  BY DEF HandleMessage, TypeOK
<1>2. writing[t] = FALSE
  BY <1>1 DEF TypeOK
<1>3. r = "mod_settings_set" => arg'[t] = "a"
  BY DEF HandleMessage, Args, TypeOK
<1> QED
  BY <1>1, <1>2, <1>3, HandlerPlan

(* A reply of one handler leaves the others alone. *)
LEMMA EndOthers ==
  ASSUME TypeOK, NEW t \in Tasks, End(t), NEW u \in Tasks, u # t
  PROVE  SameAt(u)
BY DEF End, Forget, SameAt, TypeOK

(* Handlers do not touch one another. *)
LEMMA OthersSame ==
  ASSUME TypeOK, NEW t \in Tasks, TaskStep(t), NEW u \in Tasks, u # t
  PROVE  SameAt(u)
<1>1. ASSUME NEW r \in Requests, HandleMessage(t, r) PROVE SameAt(u)
  BY <1>1 DEF HandleMessage, SameAt, TypeOK
<1>2. CASE Look(t) \/ ReadMissing(t)
  BY <1>2 DEF Look, ReadMissing, SameAt, TypeOK, request
<1>3. CASE ReadOk(t) \/ MakeDir(t) \/ SkipSettings(t) \/ SpawnJobs(t)
  BY <1>3 DEF ReadOk, MakeDir, SkipSettings, SpawnJobs, Continue, SameAt, TypeOK, request
<1>4. CASE ReadFails(t) \/ Refuse(t) \/ Succeed(t)
  BY <1>4, EndOthers DEF ReadFails, Refuse, Succeed
<1>5. CASE WriteBegins(t)
  BY <1>5 DEF WriteBegins, SameAt, TypeOK, request
<1>6. CASE WriteEnds(t)
  BY <1>6 DEF WriteEnds, Continue, SameAt, TypeOK, request
<1>7. CASE WriteFails(t)
  <2>1. CASE End(t)
    BY <2>1, EndOthers
  <2>2. CASE ~End(t)
    BY <1>7, <2>2 DEF WriteFails, Continue, SameAt, TypeOK, request
  <2> QED BY <2>1, <2>2
<1>8. CASE Join(t)
  <2>1. CASE End(t)
    BY <2>1, EndOthers
  <2>2. CASE ~End(t)
    BY <1>8, <2>2 DEF Join, Continue, SameAt, TypeOK, request
  <2> QED BY <2>1, <2>2
<1> QED
  BY <1>1, <1>2, <1>3, <1>4, <1>5, <1>6, <1>7, <1>8 DEF TaskStep

(* The files a step leaves alone. *)
LEMMA FilesGrow ==
  ASSUME TypeOK, Next
  PROVE  Grows
<1>1. ASSUME NEW t \in Tasks, TaskStep(t) PROVE Grows
  <2>1. ASSUME NEW r \in Requests, HandleMessage(t, r) PROVE Grows
    BY <2>1 DEF HandleMessage, Grows, files
  <2>2. CASE Look(t) \/ ReadMissing(t) \/ ReadOk(t) \/ SkipSettings(t) \/ SpawnJobs(t)
    BY <2>2 DEF Look, ReadMissing, ReadOk, SkipSettings, SpawnJobs, Grows, files
  <2>3. CASE ReadFails(t) \/ Refuse(t) \/ Succeed(t) \/ Join(t)
    BY <2>3 DEF ReadFails, Refuse, Succeed, Join, Grows, files
  <2>4. CASE MakeDir(t)
    BY <2>4 DEF MakeDir, Grows
  <2>5. CASE WriteBegins(t)
    <3>1. File(t) \in Files
      BY <2>5, HeadFacts DEF WriteBegins, Doing
    <3> QED BY <2>5, <3>1 DEF WriteBegins, Grows, TypeOK
  <2>6. CASE WriteEnds(t)
    <3>1. File(t) \in Files
      BY <2>6, HeadFacts DEF WriteEnds, Doing
    <3> QED BY <2>6, <3>1 DEF WriteEnds, Grows, TypeOK
  <2>7. CASE WriteFails(t)
    BY <2>7 DEF WriteFails, Grows, files
  <2> QED BY <1>1, <2>1, <2>2, <2>3, <2>4, <2>5, <2>6, <2>7 DEF TaskStep
<1>2. ASSUME NEW j \in jobs, Job(j) \/ JobFails(j) PROVE Grows
  BY <1>2 DEF Job, JobFails, Grows, files
<1>3. CASE Crash
  BY <1>3 DEF Crash, Grows, files
<1> QED
  BY <1>1, <1>2, <1>3 DEF Next

-----------------------------------------------------------------------------
(* Types                                                                   *)

(* The type invariant without the lists of operations. *)
SimpleTypes ==
  /\ state \in [Files -> {"missing", "torn", "ok"}]
  /\ disk \in [Fields -> Values]
  /\ mod_dir \in BOOLEAN
  /\ zips \subseteq Mods
  /\ req \in [Tasks -> Requests \cup {NoRequest}]
  /\ arg \in [Tasks -> Values]
  /\ want \in [Tasks -> SUBSET Mods]
  /\ mem \in [Tasks -> [Fields -> Values]]
  /\ writing \in [Tasks -> BOOLEAN]
  /\ mixed \subseteq Tasks
  /\ jobs \subseteq (Tasks \cup {Nobody}) \X {"install", "delete"} \X Mods
  /\ failed \subseteq Tasks
  /\ promised \in [Fields -> Values \cup {"none"}]
  /\ promised_mods \in SUBSET Mods
  /\ disturbed \subseteq Files
  /\ requests \in 0..MaxRequests /\ trouble \in 0..MaxTrouble

(* A reply keeps the types. *)
LEMMA EndTypes ==
  ASSUME TypeOK, NEW t \in Tasks, End(t)
  PROVE  /\ req' \in [Tasks -> Requests \cup {NoRequest}]
         /\ arg' \in [Tasks -> Values]
         /\ want' \in [Tasks -> SUBSET Mods]
         /\ mem' \in [Tasks -> [Fields -> Values]]
         /\ writing' \in [Tasks -> BOOLEAN]
         /\ mixed' \subseteq Tasks
         /\ jobs' \subseteq (Tasks \cup {Nobody}) \X {"install", "delete"} \X Mods
         /\ failed' \subseteq Tasks
         /\ requests' \in 0..MaxRequests
<1>1. jobs' \subseteq (Tasks \cup {Nobody}) \X {"install", "delete"} \X Mods
  BY DEF End, TypeOK
<1>2. /\ arg' \in [Tasks -> Values]
      /\ want' \in [Tasks -> SUBSET Mods]
      /\ mem' \in [Tasks -> [Fields -> Values]]
  BY DEF End, Forget, TypeOK, Defaults, Values
<1> QED
  BY <1>1, <1>2 DEF End, TypeOK

(* Operations write files only. *)
LEMMA MayWriteFiles ==
  ASSUME NEW ops \in Seq(Operations)
  PROVE  MayWrite(ops) \subseteq Files /\ Rewrites(ops) \subseteq Files
<1>1. \A k \in 1..Len(ops) : ops[k][2] \in Files
  BY DEF Operations
<1> QED BY <1>1 DEF MayWrite, Rewrites, Creates

(* A handler is involved with files only. *)
LEMMA InvolvedFiles ==
  ASSUME TypeOK, NEW t \in Tasks
  PROVE  Involved(t) \subseteq Files
<1>1. CASE req[t] = NoRequest
  BY <1>1 DEF Involved
<1>2. CASE req[t] # NoRequest
  <2>1. req[t] \in Requests /\ todo[t] \in Seq(Operations)
    BY <1>2 DEF TypeOK
  <2>2. Handler[req[t]] \in Seq(Operations)
    BY <2>1, HandlerPlan
  <2> QED BY <1>2, <2>1, <2>2, MayWriteFiles DEF Involved
<1> QED BY <1>1, <1>2

(* Every variable but the plans keeps its type. *)
LEMMA SimpleTypesStep ==
  ASSUME TypeOK, Next
  PROVE  SimpleTypes'
<1>a. trouble \in Nat /\ requests \in Nat /\ MaxTrouble \in Nat /\ MaxRequests \in Nat
  BY ConstantsAssumption DEF TypeOK
<1>1. ASSUME NEW t \in Tasks, TaskStep(t) PROVE SimpleTypes'
  <2>1. ASSUME NEW r \in Requests, HandleMessage(t, r) PROVE SimpleTypes'
    <3>1. arg' \in [Tasks -> Values] /\ want' \in [Tasks -> SUBSET Mods]
      BY <2>1 DEF HandleMessage, TypeOK, Args, Values
    <3>2. disturbed' \subseteq Files
      <4>1. Handler[r] \in Seq(Operations)
        BY HandlerPlan
      <4>2. MayWrite(Handler[r]) \subseteq Files
        BY <4>1, MayWriteFiles
      <4> QED BY <2>1, <4>2 DEF HandleMessage, TypeOK
    <3>3. mem' \in [Tasks -> [Fields -> Values]]
      BY <2>1 DEF HandleMessage, TypeOK, Defaults, Values
    <3>4. req' \in [Tasks -> Requests \cup {NoRequest}] /\ requests' \in 0..MaxRequests
      BY <1>a, <2>1 DEF HandleMessage, TypeOK
    <3>5. UNCHANGED <<files, writing, mixed, jobs, failed, promises, trouble>>
      BY <2>1 DEF HandleMessage
    <3> QED BY <3>1, <3>2, <3>3, <3>4, <3>5 DEF TypeOK, SimpleTypes, files, promises
  <2>2. CASE Look(t) \/ ReadMissing(t)
    BY <2>2 DEF Look, ReadMissing, TypeOK, SimpleTypes, files, promises, request
  <2>3. CASE ReadOk(t)
    <3>1. Loaded(t, File(t)) \in [Fields -> Values]
      BY DEF Loaded, TypeOK
    <3>2. mem' \in [Tasks -> [Fields -> Values]]
      BY <2>3, <3>1 DEF ReadOk, TypeOK
    <3> QED BY <2>3, <3>2 DEF ReadOk, Continue, TypeOK, SimpleTypes, files, promises, request
  <2>4. CASE MakeDir(t) \/ SkipSettings(t)
    BY <2>4 DEF MakeDir, SkipSettings, Continue, TypeOK, SimpleTypes, files, promises, request
  <2>5. CASE ReadFails(t) \/ Refuse(t)
    <3>1. End(t) /\ UNCHANGED <<files, promises, disturbed, trouble>>
      BY <2>5 DEF ReadFails, Refuse
    <3> QED BY <3>1, EndTypes DEF TypeOK, SimpleTypes, files, promises
  <2>6. CASE Succeed(t)
    <3>1. End(t) /\ UNCHANGED <<files, disturbed, trouble>>
      BY <2>6 DEF Succeed
    <3>2. promised' \in [Fields -> Values \cup {"none"}] /\ promised_mods' \in SUBSET Mods
      BY <2>6 DEF Succeed, TypeOK
    <3> QED BY <3>1, <3>2, EndTypes DEF TypeOK, SimpleTypes, files
  <2>7. CASE WriteBegins(t)
    <3>1. state' \in [Files -> {"missing", "torn", "ok"}] /\ writing' \in [Tasks -> BOOLEAN]
      BY <2>7 DEF WriteBegins, TypeOK
    <3>2. mixed' \subseteq Tasks
      BY <2>7 DEF WriteBegins, TypeOK
    <3>3. UNCHANGED <<disk, mod_dir, zips, request, todo, mem, jobs, failed, promises, disturbed,
                      requests, trouble>>
      BY <2>7 DEF WriteBegins
    <3> QED BY <3>1, <3>2, <3>3 DEF TypeOK, SimpleTypes, promises, request
  <2>8. CASE WriteEnds(t)
    <3>1. state' \in [Files -> {"missing", "torn", "ok"}] /\ writing' \in [Tasks -> BOOLEAN]
      BY <2>8 DEF WriteEnds, TypeOK
    <3>2. Written(t) \in [Fields -> Values]
      BY DEF Written, TypeOK
    <3>3. disk' \in [Fields -> Values]
      BY <2>8, <3>2 DEF WriteEnds, TypeOK
    <3>4. mixed' \subseteq Tasks
      BY <2>8 DEF WriteEnds, TypeOK
    <3>5. /\ UNCHANGED <<mod_dir, zips, mem, jobs, failed, promises, disturbed, trouble>>
          /\ UNCHANGED <<request, requests>>
      BY <2>8 DEF WriteEnds, Continue
    <3> QED BY <3>1, <3>3, <3>4, <3>5 DEF TypeOK, SimpleTypes, promises, request
  <2>9. CASE WriteFails(t)
    <3>1. trouble' \in 0..MaxTrouble /\ UNCHANGED <<files, promises>>
      BY <1>a, <2>9 DEF WriteFails, TypeOK
    <3>2. disturbed' \subseteq Files
      BY <2>9, InvolvedFiles DEF WriteFails, TypeOK
    <3>3. CASE End(t)
      BY <3>1, <3>2, <3>3, EndTypes DEF TypeOK, SimpleTypes, files, promises
    <3>4. CASE ~End(t)
      <4>1. writing' \in [Tasks -> BOOLEAN] /\ mixed' \subseteq Tasks
        BY <2>9, <3>4 DEF WriteFails, TypeOK
      <4>2. UNCHANGED <<mem, jobs, failed>> /\ UNCHANGED <<request, requests>>
        BY <2>9, <3>4 DEF WriteFails, Continue
      <4> QED BY <3>1, <3>2, <4>1, <4>2 DEF TypeOK, SimpleTypes, files, promises, request
    <3> QED BY <3>3, <3>4
  <2>10. CASE SpawnJobs(t)
    <3>1. Delta(t) \subseteq (Tasks \cup {Nobody}) \X {"install", "delete"} \X Mods
      BY DEF Delta, TypeOK
    <3>2. jobs' \subseteq (Tasks \cup {Nobody}) \X {"install", "delete"} \X Mods
      BY <2>10, <3>1 DEF SpawnJobs, TypeOK
    <3>3. /\ UNCHANGED <<files, mem, writing, mixed, failed, promises, disturbed, trouble>>
          /\ UNCHANGED <<request, requests>>
      BY <2>10 DEF SpawnJobs, Continue
    <3> QED BY <3>2, <3>3 DEF TypeOK, SimpleTypes, files, promises, request
  <2>11. CASE Join(t)
    <3>1. UNCHANGED <<files, promises, disturbed, trouble>>
      BY <2>11 DEF Join
    <3>2. CASE End(t)
      BY <3>1, <3>2, EndTypes DEF TypeOK, SimpleTypes, files, promises
    <3>3. CASE ~End(t)
      <4>1. UNCHANGED <<mem, writing, mixed, jobs, failed>> /\ UNCHANGED <<request, requests>>
        BY <2>11, <3>3 DEF Join, Continue
      <4> QED BY <3>1, <4>1 DEF TypeOK, SimpleTypes, files, promises, request
    <3> QED BY <3>2, <3>3
  <2> QED
    BY <1>1, <2>1, <2>2, <2>3, <2>4, <2>5, <2>6, <2>7, <2>8, <2>9, <2>10, <2>11 DEF TaskStep
<1>2. ASSUME NEW j \in jobs, Job(j) PROVE SimpleTypes'
  <2>1. j \in (Tasks \cup {Nobody}) \X {"install", "delete"} \X Mods
    BY DEF TypeOK
  <2>2. zips' \subseteq Mods /\ failed' \subseteq Tasks /\ jobs' \subseteq jobs
    BY <1>2, <2>1 DEF Job, TypeOK
  <2>3. UNCHANGED <<state, disk, mod_dir, request, mem, writing, mixed, promises, disturbed,
                    requests, trouble>>
    BY <1>2 DEF Job
  <2> QED BY <2>2, <2>3 DEF TypeOK, SimpleTypes, promises, request
<1>3. ASSUME NEW j \in jobs, JobFails(j) PROVE SimpleTypes'
  <2>1. j \in (Tasks \cup {Nobody}) \X {"install", "delete"} \X Mods
    BY DEF TypeOK
  <2>2. failed' \subseteq Tasks /\ jobs' \subseteq jobs
    BY <1>3, <2>1 DEF JobFails, TypeOK
  <2>3. disturbed' \subseteq Files /\ trouble' \in 0..MaxTrouble
    BY <1>a, <1>3 DEF JobFails, TypeOK, Files
  <2>4. UNCHANGED <<state, disk, mod_dir, request, mem, writing, mixed, promises, requests>>
    BY <1>3 DEF JobFails
  <2>5. zips' \subseteq Mods
    BY <1>3, <2>1 DEF JobFails, TypeOK
  <2> QED BY <2>2, <2>3, <2>4, <2>5 DEF TypeOK, SimpleTypes, promises, request
<1>4. CASE Crash
  <2>1. disturbed' \subseteq Files
    BY <1>4, InvolvedFiles DEF Crash, TypeOK
  <2>2. trouble' \in 0..MaxTrouble
    BY <1>a, <1>4 DEF Crash, TypeOK
  <2>3. /\ req' \in [Tasks -> Requests \cup {NoRequest}] /\ writing' \in [Tasks -> BOOLEAN]
        /\ mixed' = {} /\ jobs' = {} /\ failed' = {}
    BY <1>4 DEF Crash
  <2>4. UNCHANGED <<state, disk, mod_dir, promises, requests>>
    BY <1>4 DEF Crash
  <2>5. /\ arg' \in [Tasks -> Values]
        /\ want' \in [Tasks -> SUBSET Mods]
        /\ mem' \in [Tasks -> [Fields -> Values]]
    BY <1>4 DEF Crash, Defaults, Values
  <2>6. zips' \subseteq Mods
    <3>1. PICK M \in SUBSET {j[3] : j \in {k \in jobs : k[2] = "install"}} : zips' = zips \cup M
      BY <1>4 DEF Crash
    <3>2. \A j \in jobs : j[3] \in Mods
      BY DEF TypeOK
    <3> QED BY <3>1, <3>2 DEF TypeOK
  <2> QED BY <2>1, <2>2, <2>3, <2>4, <2>5, <2>6 DEF TypeOK, SimpleTypes, promises
<1> QED
  BY <1>1, <1>2, <1>3, <1>4 DEF Next

(* The lists of operations stay lists of operations. *)
LEMMA TodoDomain ==
  ASSUME TypeOK, Next
  PROVE  DOMAIN todo' = Tasks /\ todo' = [t \in Tasks |-> todo'[t]]
<1>a. ASSUME NEW t \in Tasks, \E v : todo' = [todo EXCEPT ![t] = v]
      PROVE  DOMAIN todo' = Tasks /\ todo' = [u \in Tasks |-> todo'[u]]
  BY <1>a DEF TypeOK
<1>1. ASSUME NEW t \in Tasks, TaskStep(t)
      PROVE  (\E v : todo' = [todo EXCEPT ![t] = v]) \/ todo' = todo
  BY <1>1 DEF TaskStep, HandleMessage, Look, ReadOk, ReadMissing, ReadFails, MakeDir, SkipSettings,
              WriteBegins, WriteEnds, WriteFails, SpawnJobs, Join, Refuse, Succeed, Continue, End
<1>2. ASSUME NEW j \in jobs, Job(j) \/ JobFails(j) PROVE todo' = todo
  BY <1>2 DEF Job, JobFails
<1>3. CASE Crash
  BY <1>3 DEF Crash
<1>4. CASE todo' = todo
  BY <1>4 DEF TypeOK
<1> QED
  BY <1>a, <1>1, <1>2, <1>3, <1>4 DEF Next

(* After a crash every task is idle. *)
LEMMA CrashEnds ==
  ASSUME TypeOK, Crash, NEW t \in Tasks
  PROVE  Ended(t)
BY DEF Crash, Ended

(* Jobs leave the handlers alone. *)
LEMMA JobSame ==
  ASSUME TypeOK, NEW j \in jobs, Job(j) \/ JobFails(j), NEW t \in Tasks
  PROVE  SameAt(t)
BY DEF Job, JobFails, SameAt, request

(* What can happen to a handler in a step. *)
LEMMA EveryTask ==
  ASSUME TypeOK, NEW u \in Tasks, Plan(req[u], todo[u]), Next
  PROVE  \/ SameAt(u)
         \/ Ended(u)
         \/ LaterStep(u) /\ Moved(u)
         \/ \E r \in Requests : HandleMessage(u, r)
<1>1. ASSUME NEW t \in Tasks, TaskStep(t), u # t PROVE SameAt(u)
  BY <1>1, OthersSame
<1>2. ASSUME TaskStep(u)
      PROVE  \/ LaterStep(u) /\ (Ended(u) \/ Moved(u))
             \/ \E r \in Requests : HandleMessage(u, r)
  <2>1. LaterStep(u) \/ \E r \in Requests : HandleMessage(u, r)
    BY <1>2 DEF TaskStep, LaterStep
  <2> QED BY <2>1, LaterMoves
<1>3. CASE Crash
  BY <1>3, CrashEnds
<1>4. ASSUME NEW j \in jobs, Job(j) \/ JobFails(j) PROVE SameAt(u)
  BY <1>4, JobSame
<1> QED
  BY <1>1, <1>2, <1>3, <1>4 DEF Next

(* Types are kept. *)
LEMMA TypeStep ==
  ASSUME TypeOK, \A t \in Tasks : ControlInv(t), Next
  PROVE  TypeOK'
<1>1. ASSUME NEW u \in Tasks
      PROVE  /\ todo'[u] \in Seq(Operations)
             /\ req'[u] = NoRequest => todo'[u] = << >> /\ ~writing'[u]
  <2>0. Plan(req[u], todo[u])
    BY DEF ControlInv
  <2>1. CASE SameAt(u)
    BY <2>1 DEF SameAt, TypeOK
  <2>2. CASE Ended(u)
    BY <2>2 DEF Ended
  <2>3. CASE Moved(u)
    BY <2>3 DEF Moved
  <2>4. ASSUME NEW r \in Requests, HandleMessage(u, r)
        PROVE  /\ todo'[u] \in Seq(Operations)
               /\ req'[u] = NoRequest => todo'[u] = << >> /\ ~writing'[u]
    BY <2>4, HandleMoves, NoRequestFacts
  <2> QED BY <2>0, <2>1, <2>2, <2>3, <2>4, EveryTask
<1>2. todo' \in [Tasks -> Seq(Operations)]
  BY <1>1, TodoDomain
<1>3. \A t \in Tasks : req'[t] = NoRequest => todo'[t] = << >> /\ ~writing'[t]
  BY <1>1
<1>4. SimpleTypes'
  BY SimpleTypesStep
<1> QED
  BY <1>2, <1>3, <1>4 DEF TypeOK, SimpleTypes

-----------------------------------------------------------------------------
(* Control                                                                 *)

(* Only the operation that opens a file leaves it open. *)
LEMMA StillWriting ==
  ASSUME TypeOK, NEW t \in Tasks, ControlInv(t), LaterStep(t), ~WriteBegins(t)
  PROVE  writing'[t] = FALSE
<1>1. writing[t] \in BOOLEAN
  BY DEF TypeOK
<1>2. writing[t] => Head(todo[t])[1] \in {"write", "rewrite", "try", "init"} /\ ~NoSettings(t) /\ todo[t] # << >>
  BY DEF ControlInv, Doing, Writes
<1>3. CASE Look(t) \/ ReadOk(t) \/ ReadMissing(t) \/ MakeDir(t) \/ SpawnJobs(t)
  <2>1. Head(todo[t])[1] \notin {"write", "rewrite", "try", "init"} /\ writing' = writing
    BY <1>3 DEF Look, ReadOk, ReadMissing, MakeDir, SpawnJobs, Doing
  <2> QED BY <1>1, <1>2, <2>1
<1>4. CASE SkipSettings(t)
  <2>1. NoSettings(t) /\ writing' = writing
    BY <1>4 DEF SkipSettings
  <2> QED BY <1>1, <1>2, <2>1
<1>5. CASE ReadFails(t) \/ Refuse(t) \/ Succeed(t)
  BY <1>5, EndEnds DEF ReadFails, Refuse, Succeed, Ended
<1>6. CASE WriteEnds(t)
  BY <1>6 DEF WriteEnds, TypeOK
<1>7. CASE WriteFails(t)
  <2>1. CASE End(t)
    BY <2>1, EndEnds DEF Ended
  <2>2. CASE ~End(t)
    BY <1>7, <2>2 DEF WriteFails, TypeOK
  <2> QED BY <2>1, <2>2
<1>8. CASE Join(t)
  <2>1. CASE End(t)
    BY <2>1, EndEnds DEF Ended
  <2>2. CASE ~End(t)
    <3>1. Head(todo[t])[1] \notin {"write", "rewrite", "try", "init"} /\ writing' = writing
      BY <1>8, <2>2 DEF Join, Doing
    <3> QED BY <1>1, <1>2, <3>1
  <2> QED BY <2>1, <2>2
<1> QED
  BY <1>3, <1>4, <1>5, <1>6, <1>7, <1>8 DEF LaterStep

(* What the plan of a handler becomes in a step. *)
LEMMA TodoCases ==
  ASSUME TypeOK, NEW t \in Tasks, Plan(req[t], todo[t]), LaterStep(t), Moved(t)
  PROVE  \/ WriteBegins(t) /\ todo'[t] = todo[t]
         \/ Look(t) /\ todo[t] # << >> /\ todo[t][1][1] = "look" /\ todo'[t] = << >>
         \/ ReadMissing(t) /\ File(t) # "modsettings"
         \/ todo[t] # << >> /\ todo'[t] = Tail(todo[t])
<1>0. req'[t] # NoRequest
  BY DEF Moved
<1>1. CASE Look(t)
  <2>1. todo[t] # << >> /\ Head(todo[t])[1] = "look"
    BY <1>1 DEF Look, Doing
  <2>2. todo'[t] \in {<< >>, Tail(todo[t])}
    BY <1>1 DEF Look, TypeOK
  <2> QED BY <1>1, <2>1, <2>2, HeadFacts
<1>2. CASE ReadOk(t) \/ MakeDir(t) \/ SkipSettings(t) \/ WriteEnds(t) \/ SpawnJobs(t)
  <2>1. todo[t] # << >> /\ Continue(t)
    BY <1>2 DEF ReadOk, MakeDir, SkipSettings, WriteEnds, SpawnJobs, Doing
  <2> QED BY <2>1, ContinueMoves
<1>3. CASE ReadMissing(t)
  BY <1>3, ReadMissingMoves
<1>4. CASE End(t)
  BY <1>0, <1>4, EndEnds DEF Ended
<1>5. CASE WriteBegins(t)
  BY <1>5 DEF WriteBegins
<1>6. CASE WriteFails(t) \/ Join(t)
  <2>1. todo[t] # << >> /\ (Continue(t) \/ End(t))
    BY <1>6 DEF WriteFails, Join, Doing
  <2> QED BY <1>4, <2>1, ContinueMoves
<1>7. CASE ReadFails(t) \/ Refuse(t) \/ Succeed(t)
  BY <1>4, <1>7 DEF ReadFails, Refuse, Succeed
<1> QED
  BY <1>1, <1>2, <1>3, <1>5, <1>6, <1>7 DEF LaterStep

(* Operations leave a plan one by one. *)
LEMMA HasTail ==
  ASSUME NEW s \in Seq(Operations), s # << >>, NEW o
  PROVE  /\ Has(Tail(s), o) => Has(s, o)
         /\ Has(s, o) => s[1] = o \/ Has(Tail(s), o)
<1>1. /\ \A i \in 1..Len(Tail(s)) : i + 1 \in 1..Len(s) /\ Tail(s)[i] = s[i + 1]
      /\ \A i \in 1..Len(s) : i # 1 => i - 1 \in 1..Len(Tail(s)) /\ Tail(s)[i - 1] = s[i]
  BY TailFacts
<1> QED
  BY <1>1 DEF Has

(* What a replacement in front can add to a list or take from it. *)
LEMMA HasReplaced ==
  ASSUME NEW s \in Seq(Operations), NEW s2, NEW n \in {1, 2}, n <= Len(s), Replaces(s2, s, n), NEW o
  PROVE  /\ Has(s, o) => (\E i \in 1..n : s[i] = o) \/ Has(s2, o)
         /\ Has(s2, o) => (\E i \in 1..n : s2[i] = o) \/ Has(s, o)
<1>1. Len(s2) = Len(s) /\ Len(s) \in Nat /\ \A i \in 1..Len(s) : i > n => s2[i] = s[i]
  BY DEF Replaces
<1>2. \A i \in 1..Len(s) : i \in 1..n \/ i > n
  OBVIOUS
<1> QED
  BY <1>1, <1>2 DEF Has

(* Which operations a read that finds nothing takes from and adds to a plan. *)
LEMMA HasCreated ==
  ASSUME TypeOK, NEW t \in Tasks, Plan(req[t], todo[t]), ReadMissing(t), File(t) # "modsettings", NEW o
  PROVE  /\ Has(todo[t], o) => \/ Has(todo'[t], o)
                               \/ o[1] = "read" /\ (o[2] = File(t) \/ (File(t) = "modlist" /\ o[2] = "modsettings"))
         /\ Has(todo'[t], o) =>
              Has(todo[t], o) \/ o \in {<<"mkdir", "modlist">>, <<"init", File(t)>>, <<"try", File(t)>>}
<1>a. /\ todo[t] \in Seq(Operations) /\ Len(todo[t]) \in Nat /\ Len(todo[t]) >= 1
      /\ todo[t][1] = <<"read", File(t)>>
  BY ReadMissingMoves, HeadFacts
<1>1. CASE File(t) = "modlist"
  <2>1. /\ Len(todo[t]) >= 2 /\ todo[t][2] = <<"read", "modsettings">>
        /\ Replaces(todo'[t], todo[t], 2)
        /\ todo'[t][1] = <<"mkdir", "modlist">> /\ todo'[t][2] = <<"init", "modlist">>
    BY <1>1, ReadMissingMoves
  <2>2. /\ Has(todo[t], o) => (\E i \in 1..2 : todo[t][i] = o) \/ Has(todo'[t], o)
        /\ Has(todo'[t], o) => (\E i \in 1..2 : todo'[t][i] = o) \/ Has(todo[t], o)
    BY <1>a, <2>1, HasReplaced
  <2>3. \A i \in 1..2 : i = 1 \/ i = 2
    OBVIOUS
  <2>4. (\E i \in 1..2 : todo[t][i] = o) => o[1] = "read" /\ o[2] \in {File(t), "modsettings"}
    BY <1>a, <2>1, <2>3
  <2>5. (\E i \in 1..2 : todo'[t][i] = o) => o \in {<<"mkdir", "modlist">>, <<"init", "modlist">>}
    BY <2>1, <2>3, Zenon
  <2> QED BY <1>1, <2>2, <2>4, <2>5
<1>2. CASE File(t) # "modlist"
  <2>1. /\ Replaces(todo'[t], todo[t], 1)
        /\ todo'[t][1] \in {<<"try", File(t)>>, <<"init", File(t)>>}
    BY <1>2, ReadMissingMoves
  <2>2. /\ Has(todo[t], o) => (\E i \in 1..1 : todo[t][i] = o) \/ Has(todo'[t], o)
        /\ Has(todo'[t], o) => (\E i \in 1..1 : todo'[t][i] = o) \/ Has(todo[t], o)
    BY <1>a, <2>1, HasReplaced
  <2>3. \A i \in 1..1 : i = 1
    OBVIOUS
  <2>4. (\E i \in 1..1 : todo[t][i] = o) => o[1] = "read" /\ o[2] = File(t)
    BY <1>a, <2>3
  <2>5. (\E i \in 1..1 : todo'[t][i] = o) => o \in {<<"try", File(t)>>, <<"init", File(t)>>}
    BY <2>1, <2>3, Zenon
  <2> QED BY <2>2, <2>4, <2>5, Zenon
<1> QED
  BY <1>1, <1>2

(* A handler that goes on from making the directory has made it. *)
LEMMA MakesDir ==
  ASSUME TypeOK, NEW t \in Tasks, LaterStep(t), Moved(t), todo[t] # << >>, Head(todo[t])[1] = "mkdir"
  PROVE  MakeDir(t)
<1>1. ~End(t)
  BY EndEnds DEF Moved, Ended
<1>2. ~Look(t) /\ ~ReadOk(t) /\ ~ReadMissing(t) /\ ~ReadFails(t) /\ ~SpawnJobs(t) /\ ~Join(t)
  BY DEF Look, ReadOk, ReadMissing, ReadFails, SpawnJobs, Join, Doing
<1>3. ~SkipSettings(t) /\ ~WriteBegins(t) /\ ~WriteEnds(t)
  BY DEF SkipSettings, WriteBegins, WriteEnds, Doing, Writes
<1>4. ~WriteFails(t) /\ ~Refuse(t) /\ ~Succeed(t)
  BY <1>1 DEF WriteFails, Refuse, Succeed
<1> QED
  BY <1>2, <1>3, <1>4 DEF LaterStep

(* Every handler stays within its plan. *)
LEMMA ControlStep ==
  ASSUME TypeOK, NEW u \in Tasks, ControlInv(u), Next
  PROVE  ControlInv(u)'
<1>0. Plan(req[u], todo[u])
  BY DEF ControlInv
<1>g. mod_dir => mod_dir'
  BY FilesGrow DEF Grows
<1>1. CASE SameAt(u)
  <2>1. /\ Doing(u, Writes)' <=> Doing(u, Writes)
        /\ NoSettings(u)' <=> NoSettings(u)
    <3>1. req'[u] = req[u] /\ arg'[u] = arg[u] /\ todo'[u] = todo[u] /\ mem'[u] = mem[u]
      BY <1>1 DEF SameAt
    <3>2. Written(u)' = Written(u)
      BY <3>1 DEF Written
    <3> QED BY <3>1, <3>2 DEF Doing, NoSettings, File, Writes
  <2> QED BY <1>1, <1>g, <2>1 DEF SameAt, ControlInv
<1>2. CASE Ended(u)
  BY <1>2, PlanEmpty DEF Ended, ControlInv, NoRequest
<1>3. CASE LaterStep(u) /\ Moved(u)
  <2>1. Plan(req'[u], todo'[u]) /\ req'[u] = req[u] /\ arg'[u] = arg[u]
    BY <1>3 DEF Moved
  <2>2. writing'[u] => Doing(u, Writes)' /\ ~NoSettings(u)'
    <3>1. CASE WriteBegins(u)
      <4>1. req' = req /\ arg' = arg /\ todo' = todo /\ mem' = mem /\ Doing(u, Writes) /\ ~NoSettings(u)
        BY <3>1 DEF WriteBegins, request
      <4>2. Written(u)' = Written(u)
        BY <4>1 DEF Written
      <4> QED BY <4>1, <4>2 DEF Doing, NoSettings, File, Writes
    <3>2. CASE ~WriteBegins(u)
      BY <1>3, <3>2, StillWriting
    <3> QED BY <3>1, <3>2
  <2>3. ASSUME req[u] = "mod_settings_set"
        PROVE  Has(todo'[u], <<"mkdir", "modlist">>) \/ mod_dir'
    <3> DEFINE o == <<"mkdir", "modlist">>
    <3>1. CASE mod_dir
      BY <1>g, <3>1
    <3>2. CASE ~mod_dir
      <4>1. Has(todo[u], o)
        BY <2>3, <3>2 DEF ControlInv
      <4>2. CASE todo'[u] = todo[u]
        BY <4>1, <4>2
      <4>3. ~(todo[u] # << >> /\ todo[u][1][1] = "look")
        BY <1>0, <2>3, HeadFacts DEF Plan
      <4>4. CASE ReadMissing(u) /\ File(u) # "modsettings"
        <5>1. Has(todo[u], o) => Has(todo'[u], o) \/ o[1] = "read"
          BY <1>0, <4>4, HasCreated
        <5> QED BY <4>1, <5>1
      <4>5. CASE todo[u] # << >> /\ todo'[u] = Tail(todo[u])
        <5>1. todo[u] \in Seq(Operations) /\ Head(todo[u]) = todo[u][1]
          BY <4>5, HeadFacts
        <5>2. todo[u][1] = o \/ Has(Tail(todo[u]), o)
          BY <4>1, <4>5, <5>1, HasTail
        <5>3. CASE todo[u][1] = o
          <6>1. MakeDir(u)
            BY <1>3, <4>5, <5>1, <5>3, MakesDir
          <6> QED BY <6>1 DEF MakeDir
        <5> QED BY <4>5, <5>2, <5>3
      <4> QED BY <1>0, <1>3, <4>2, <4>3, <4>4, <4>5, TodoCases
    <3> QED BY <3>1, <3>2
  <2> QED BY <2>1, <2>2, <2>3 DEF ControlInv
<1>4. ASSUME NEW r \in Requests, HandleMessage(u, r) PROVE ControlInv(u)'
  <2>1. /\ req'[u] = r /\ todo'[u] = Handler[r] /\ Plan(r, todo'[u]) /\ writing'[u] = FALSE
        /\ r = "mod_settings_set" => arg'[u] = "a"
    BY <1>4, HandleMoves
  <2>2. r = "mod_settings_set" => Has(Handler[r], <<"mkdir", "modlist">>)
    BY HandlerPlan DEF Fresh
  <2> QED BY <2>1, <2>2 DEF ControlInv
<1> QED
  BY <1>0, <1>1, <1>2, <1>3, <1>4, EveryTask

-----------------------------------------------------------------------------
(* Overlapping handlers                                                    *)

(* A handler takes on no more files than when it started. *)
LEMMA InvolvedShrinks ==
  ASSUME NEW u \in Tasks, Grows, SameAt(u) \/ Ended(u) \/ Moved(u), NEW f \in Files, f \in Involved(u)'
  PROVE  f \in Involved(u) /\ req'[u] = req[u] /\ req[u] # NoRequest
<1>1. req'[u] # NoRequest /\ f \in MayWrite(todo[u])' \cup Rewrites(Handler[req'[u]])
  BY DEF Involved
<1>2. req'[u] = req[u] /\ Within(todo'[u], todo[u])
  BY <1>1, WithinSame DEF SameAt, Ended, Moved
<1>3. CASE f \in Rewrites(Handler[req'[u]])
  BY <1>1, <1>2, <1>3 DEF Involved
<1>4. CASE f \in Rewrites(todo'[u])
  BY <1>1, <1>2, <1>4 DEF Involved, Within
<1>5. CASE f \in Creates(todo[u])'
  <2>1. /\ f \in Files \ {"secrets", "modsettings"} /\ state'[f] = "missing"
        /\ \E i \in 1..Len(todo'[u]) : todo'[u][i][2] = f
    BY <1>5 DEF Creates
  <2>2. state[f] = "missing" /\ \E i \in 1..Len(todo[u]) : todo[u][i][2] = f
    BY <1>2, <2>1 DEF Grows, Within
  <2>3. f \in Creates(todo[u])
    BY <2>1, <2>2 DEF Creates
  <2> QED BY <1>1, <1>2, <2>3 DEF Involved, MayWrite
<1>6. f \in Rewrites(todo'[u]) \/ f \in Creates(todo[u])' \/ f \in Rewrites(Handler[req'[u]])
  BY <1>1 DEF MayWrite, Rewrites
<1> QED
  BY <1>3, <1>4, <1>5, <1>6

(* A new handler disturbs what it shares with the others. *)
LEMMA HandleOverlaps ==
  ASSUME TypeOK, NEW t \in Tasks, NEW r \in Requests, HandleMessage(t, r),
         NEW f \in Files, f \in Involved(t)', NEW u \in Tasks, u # t, f \in Involved(u)
  PROVE  f \in disturbed'
<1>1. req'[t] = r /\ todo'[t] = Handler[r] /\ state' = state
  BY HandleMoves DEF HandleMessage, files
<1>2. f \in MayWrite(todo[t])' \cup Rewrites(Handler[r])
  BY <1>1 DEF Involved
<1>3. f \in MayWrite(Handler[r])
  BY <1>1, <1>2 DEF MayWrite, Rewrites, Creates
<1> QED
  BY <1>3 DEF HandleMessage

(* Two handlers that come to share a file disturb it. *)
LEMMA OverlapStep ==
  ASSUME TypeOK, \A t \in Tasks : ControlInv(t), OverlapInv, Next
  PROVE  OverlapInv'
<1>0. Grows
  BY FilesGrow
<1>1. SUFFICES ASSUME NEW t \in Tasks, NEW u \in Tasks, t # u, NEW f \in Files,
                      f \in Involved(t)', f \in Involved(u)'
               PROVE  f \in disturbed'
  BY DEF OverlapInv
<1>2. ASSUME NEW v \in Tasks, NEW w \in Tasks, w # v, NEW r \in Requests, HandleMessage(v, r)
      PROVE  SameAt(w)
  BY <1>2, OthersSame DEF TaskStep
<1>3. ASSUME NEW v \in Tasks
      PROVE  SameAt(v) \/ Ended(v) \/ Moved(v) \/ \E r \in Requests : HandleMessage(v, r)
  BY EveryTask DEF ControlInv
<1>4. ASSUME NEW r \in Requests, HandleMessage(t, r) PROVE f \in disturbed'
  <2>1. f \in Involved(u)
    BY <1>0, <1>1, <1>2, <1>4, InvolvedShrinks
  <2> QED BY <1>1, <1>4, <2>1, HandleOverlaps
<1>5. ASSUME NEW r \in Requests, HandleMessage(u, r) PROVE f \in disturbed'
  <2>1. f \in Involved(t)
    BY <1>0, <1>1, <1>2, <1>5, InvolvedShrinks
  <2> QED BY <1>1, <1>5, <2>1, HandleOverlaps
<1>6. CASE (SameAt(t) \/ Ended(t) \/ Moved(t)) /\ (SameAt(u) \/ Ended(u) \/ Moved(u))
  <2>1. f \in Involved(t) /\ f \in Involved(u)
    BY <1>0, <1>1, <1>6, InvolvedShrinks
  <2>2. f \in disturbed
    BY <1>1, <2>1 DEF OverlapInv
  <2> QED BY <1>0, <2>2 DEF Grows
<1> QED
  BY <1>3, <1>4, <1>5, <1>6

(* The file an operation other than a read is about is involved. *)
LEMMA InvolvedHead ==
  ASSUME TypeOK, NEW t \in Tasks, todo[t] # << >>, Head(todo[t])[1] \notin {"read", "look"}
  PROVE  File(t) \in Involved(t)
<1>1. /\ Head(todo[t]) = todo[t][1] /\ 1 \in 1..Len(todo[t])
      /\ File(t) \in Files /\ req[t] # NoRequest
  BY HeadFacts
<1>2. File(t) \in Rewrites(todo[t])
  BY <1>1 DEF Rewrites, File
<1> QED
  BY <1>1, <1>2 DEF Involved, MayWrite

(* A handler is involved with the file it has open. *)
LEMMA InvolvedWriting ==
  ASSUME TypeOK, NEW t \in Tasks, ControlInv(t), writing[t]
  PROVE  File(t) \in Involved(t) /\ File(t) \in Files /\ todo[t] # << >>
<1>1. todo[t] # << >> /\ Head(todo[t])[1] \notin {"read", "look"}
  BY DEF ControlInv, Doing, Writes
<1> QED
  BY <1>1, InvolvedHead, HeadFacts

-----------------------------------------------------------------------------
(* Torn files                                                              *)

(* What a handler refuses to do. *)
LEMMA RefuseCases ==
  ASSUME TypeOK, NEW t \in Tasks, Refuse(t)
  PROVE  /\ todo[t] # << >>
         /\ \/ req[t] = "mod_dlcs_set" /\ Head(todo[t])[1] = "read" /\ Has(todo[t], <<"write", "modlist">>)
            \/ req[t] = "mod_settings_set" /\ Head(todo[t])[1] = "mkdir"
                 /\ Has(todo[t], <<"write", "modsettings">>)
            \/ req[t] = "config_server_settings_get" /\ Head(todo[t])[1] \in {"read", "init"}
                 /\ ~writing[t]
            \/ req[t] \in {"server_start", "server_start_public"} /\ ~writing[t]
                 /\ (Head(todo[t])[1] = "read" \/ File(t) = "server")
<1>1. CASE req[t] = "mod_dlcs_set" /\ todo[t] = mod_dlcs_set
  <2>1. /\ todo[t] \in Seq(Operations) /\ Len(todo[t]) = 5
        /\ todo[t][1] = <<"read", "modlist">> /\ todo[t][4] = <<"write", "modlist">>
    BY <1>1, ModChange DEF mod_dlcs_set
  <2>2. todo[t] # << >> /\ Has(todo[t], <<"write", "modlist">>)
    BY <2>1 DEF Has
  <2> QED BY <1>1, <2>1, <2>2, HeadFacts
<1>2. CASE req[t] = "mod_settings_set" /\ todo[t] = WriteMods
  <2>1. /\ todo[t] \in Seq(Operations) /\ Len(todo[t]) = 3
        /\ todo[t][1] = <<"mkdir", "modlist">> /\ todo[t][3] = <<"write", "modsettings">>
    BY <1>2, ModWrites
  <2>2. todo[t] # << >> /\ Has(todo[t], <<"write", "modsettings">>)
    BY <2>1 DEF Has
  <2> QED BY <1>2, <2>1, <2>2, HeadFacts
<1>3. CASE req[t] = "config_server_settings_get" /\ Doing(t, {"read", "init"}) /\ ~writing[t]
  BY <1>3 DEF Doing
<1>4. CASE /\ req[t] \in {"server_start", "server_start_public"} /\ ~writing[t]
           /\ todo[t] = Handler[req[t]]
  <2>1. todo[t] \in Seq(Operations) /\ Len(todo[t]) >= 6 /\ todo[t][1] = <<"read", "modlist">>
    <3>1. CASE req[t] = "server_start"
      BY <1>4, <3>1, HandlerFacts, StartReads
    <3>2. CASE req[t] = "server_start_public"
      BY <1>4, <3>2, HandlerFacts, PublicStart
    <3> QED BY <1>4, <3>1, <3>2
  <2>2. todo[t] # << >>
    BY <2>1, NonEmpty
  <2> QED BY <1>4, <2>1, <2>2, HeadFacts
<1>5. CASE /\ req[t] \in {"server_start", "server_start_public"} /\ ~writing[t]
           /\ Doing(t, {"init", "rewrite"}) /\ File(t) = "server"
  BY <1>5 DEF Doing
<1> QED
  BY <1>1, <1>2, <1>3, <1>4, <1>5 DEF Refuse

(* What a handler that writes can do next. *)
LEMMA WriterActs ==
  ASSUME TypeOK, NEW t \in Tasks, LaterStep(t), Doing(t, Writes)
  PROVE  \/ SkipSettings(t) \/ WriteBegins(t) \/ WriteEnds(t) \/ WriteFails(t)
         \/ Refuse(t) /\ ~writing[t] /\ (req[t] = "config_server_settings_get" \/ File(t) = "server")
              /\ req[t] \in {"config_server_settings_get", "server_start", "server_start_public"}
<1>1. todo[t] # << >> /\ Head(todo[t])[1] \in {"write", "rewrite", "try", "init"}
  BY DEF Doing, Writes
<1>2. /\ ~Look(t) /\ ~ReadOk(t) /\ ~ReadMissing(t) /\ ~ReadFails(t) /\ ~MakeDir(t) /\ ~SpawnJobs(t)
      /\ ~Join(t) /\ ~Succeed(t)
  BY <1>1 DEF Look, ReadOk, ReadMissing, ReadFails, MakeDir, SpawnJobs, Join, Succeed, Doing
<1>3. Refuse(t) => /\ ~writing[t] /\ (req[t] = "config_server_settings_get" \/ File(t) = "server")
                   /\ req[t] \in {"config_server_settings_get", "server_start", "server_start_public"}
  BY <1>1, RefuseCases
<1> QED
  BY <1>2, <1>3 DEF LaterStep

(* A handler with an open file can only finish or fail. *)
LEMMA OpenActs ==
  ASSUME TypeOK, NEW t \in Tasks, ControlInv(t), LaterStep(t), writing[t]
  PROVE  WriteEnds(t) \/ WriteFails(t)
<1>1. Doing(t, Writes) /\ ~NoSettings(t)
  BY DEF ControlInv
<1>2. ~SkipSettings(t) /\ ~WriteBegins(t)
  BY <1>1 DEF SkipSettings, WriteBegins
<1> QED
  BY <1>1, <1>2, WriterActs

(* A step of a handler that is not its first, or not a handler's. *)
LEMMA TaskSteps ==
  ASSUME NEW t \in Tasks, TaskStep(t)
  PROVE  LaterStep(t) \/ \E r \in Requests : HandleMessage(t, r)
BY DEF TaskStep, LaterStep

(* Only opening a file makes writes overlap. *)
LEMMA MixedShrinks ==
  ASSUME TypeOK, NEW t \in Tasks, TaskStep(t), ~WriteBegins(t)
  PROVE  mixed' \subseteq mixed /\ (t \in mixed' => writing' = writing)
<1>1. ASSUME NEW r \in Requests, HandleMessage(t, r)
      PROVE  mixed' \subseteq mixed /\ (t \in mixed' => writing' = writing)
  BY <1>1 DEF HandleMessage
<1>2. CASE Look(t) \/ ReadOk(t) \/ ReadMissing(t) \/ MakeDir(t) \/ SkipSettings(t) \/ SpawnJobs(t)
  BY <1>2 DEF Look, ReadOk, ReadMissing, MakeDir, SkipSettings, SpawnJobs
<1>3. CASE End(t)
  BY <1>3 DEF End
<1>4. CASE ReadFails(t) \/ Refuse(t) \/ Succeed(t)
  BY <1>3, <1>4 DEF ReadFails, Refuse, Succeed
<1>5. CASE WriteEnds(t) \/ WriteFails(t) \/ Join(t)
  BY <1>3, <1>5 DEF WriteEnds, WriteFails, Join
<1> QED
  BY <1>1, <1>2, <1>4, <1>5 DEF TaskStep

(* Overlapping writes have disturbed the file. *)
LEMMA MixedStep ==
  ASSUME TypeOK, \A t \in Tasks : ControlInv(t), OverlapInv, MixedInv, Next
  PROVE  MixedInv'
<1>0. Grows
  BY FilesGrow
<1>a. ASSUME NEW v \in Tasks, SameAt(v), writing[v], File(v) \in disturbed
      PROVE  writing'[v] /\ File(v)' \in disturbed'
  BY <1>0, <1>a DEF SameAt, Grows, File
<1>b. mixed \subseteq Tasks
  BY DEF TypeOK
<1>1. ASSUME NEW t \in Tasks, TaskStep(t), NEW v \in mixed'
      PROVE  writing'[v] /\ File(v)' \in disturbed'
  <2>1. CASE WriteBegins(t)
    <3> DEFINE others == {u \in Tasks \ {t} : writing[u] /\ File(u) = File(t)}
    <3>1. /\ mixed' = mixed \cup others \cup (IF others = {} THEN {} ELSE {t})
          /\ Doing(t, Writes) /\ ~writing[t] /\ todo' = todo /\ disturbed' = disturbed
          /\ writing' = [writing EXCEPT ![t] = TRUE]
      BY <2>1 DEF WriteBegins
    <3>2. t \notin mixed
      BY <3>1 DEF MixedInv
    <3>3. ASSUME NEW u \in others PROVE File(t) \in disturbed
      <4>1. File(t) \in Involved(t) /\ File(t) \in Files
        BY <3>1, InvolvedHead, HeadFacts DEF Doing, Writes
      <4>2. File(t) \in Involved(u)
        BY InvolvedWriting
      <4> QED BY <4>1, <4>2 DEF OverlapInv
    <3>4. CASE v = t
      <4>1. others # {}
        BY <1>1, <3>1, <3>2, <3>4
      <4>2. writing'[t] = TRUE /\ File(t) \in disturbed
        BY <3>1, <3>3, <4>1 DEF TypeOK
      <4> QED BY <3>1, <3>4, <4>2 DEF File
    <3>5. CASE v # t
      <4>1. v \in Tasks /\ writing[v] /\ File(v) \in disturbed
        BY <1>1, <1>b, <3>1, <3>3, <3>5 DEF MixedInv
      <4>2. SameAt(v)
        BY <1>1, <3>5, <4>1, OthersSame
      <4> QED BY <1>a, <4>1, <4>2
    <3> QED BY <3>4, <3>5
  <2>2. CASE ~WriteBegins(t)
    <3>1. v \in mixed /\ v \in Tasks /\ writing[v] /\ File(v) \in disturbed
      BY <1>1, <1>b, <2>2, MixedShrinks DEF MixedInv
    <3>2. CASE v # t
      BY <1>1, <1>a, <3>1, <3>2, OthersSame
    <3>3. v # t
      <4>1. SUFFICES ASSUME v = t PROVE FALSE
        OBVIOUS
      <4>2. writing' = writing /\ writing[t]
        BY <1>1, <2>2, <3>1, <4>1, MixedShrinks
      <4>3. ASSUME NEW r \in Requests, HandleMessage(t, r) PROVE FALSE
        BY <4>2, <4>3, HandleMoves
      <4>4. ASSUME LaterStep(t) PROVE FALSE
        BY <2>2, <4>2, <4>4, StillWriting
      <4> QED BY <1>1, <4>3, <4>4, TaskSteps
    <3> QED BY <3>2, <3>3
  <2> QED BY <2>1, <2>2
<1>2. ASSUME NEW j \in jobs, Job(j) \/ JobFails(j), NEW v \in mixed'
      PROVE  writing'[v] /\ File(v)' \in disturbed'
  <2>1. v \in mixed
    BY <1>2 DEF Job, JobFails
  <2> QED BY <1>2, <1>a, <1>b, <2>1, JobSame DEF MixedInv
<1>3. CASE Crash
  BY <1>3 DEF Crash, MixedInv
<1> QED
  BY <1>1, <1>2, <1>3 DEF Next, MixedInv

(* Only a write changes the state of a file. *)
LEMMA StateSteps ==
  ASSUME TypeOK, Next, NEW f \in Files, state'[f] # state[f]
  PROVE  \E t \in Tasks : (WriteBegins(t) \/ WriteEnds(t)) /\ File(t) = f
<1>1. ASSUME NEW t \in Tasks, TaskStep(t), ~WriteBegins(t), ~WriteEnds(t) PROVE state' = state
  <2>1. ASSUME NEW r \in Requests, HandleMessage(t, r) PROVE state' = state
    BY <2>1 DEF HandleMessage, files
  <2>2. ASSUME LaterStep(t) PROVE state' = state
    BY <1>1, <2>2 DEF LaterStep, Look, ReadOk, ReadMissing, ReadFails, MakeDir, SkipSettings, WriteFails,
                      SpawnJobs, Join, Refuse, Succeed, files
  <2> QED BY <1>1, <2>1, <2>2, TaskSteps
<1>2. ASSUME NEW t \in Tasks, WriteBegins(t) \/ WriteEnds(t) PROVE File(t) = f
  BY <1>2 DEF WriteBegins, WriteEnds, TypeOK
<1>3. ASSUME NEW j \in jobs, Job(j) \/ JobFails(j) PROVE state' = state
  BY <1>3 DEF Job, JobFails, files
<1>4. Crash => state' = state
  BY DEF Crash, files
<1> QED
  BY <1>1, <1>2, <1>3, <1>4 DEF Next

(* A write that ends leaves the file readable, or it was disturbed. *)
LEMMA WriteEndsOk ==
  ASSUME TypeOK, MixedInv, NEW t \in Tasks, WriteEnds(t)
  PROVE  state'[File(t)] = "ok" \/ File(t) \in disturbed'
<1>1. File(t) \in Files
  BY HeadFacts DEF WriteEnds, Doing
<1>2. disturbed' = disturbed
  BY DEF WriteEnds
<1>3. CASE t \in mixed
  BY <1>2, <1>3 DEF MixedInv
<1>4. CASE t \notin mixed
  BY <1>1, <1>4 DEF WriteEnds, TypeOK
<1> QED
  BY <1>3, <1>4

(* A failure disturbs what its handler is involved with. *)
LEMMA FailureDisturbs ==
  ASSUME NEW t \in Tasks, WriteFails(t) \/ Crash, NEW f \in Involved(t)
  PROVE  f \in disturbed'
BY DEF WriteFails, Crash

(* A torn file is still being written. *)
LEMMA TornStep ==
  ASSUME TypeOK, \A t \in Tasks : ControlInv(t), MixedInv, TornInv, Next
  PROVE  TornInv'
<1>0. Grows
  BY FilesGrow
<1>1. SUFFICES ASSUME NEW f \in Files, f \notin disturbed', state'[f] = "torn"
               PROVE  \E t \in Tasks : writing'[t] /\ File(t)' = f
  BY DEF TornInv
<1>2. ASSUME NEW t \in Tasks, WriteBegins(t), File(t) = f
      PROVE  writing'[t] /\ File(t)' = f
  BY <1>2 DEF WriteBegins, File, TypeOK
<1>3. ASSUME NEW t \in Tasks, WriteEnds(t), File(t) = f PROVE FALSE
  BY <1>1, <1>3, WriteEndsOk
<1>4. CASE state[f] = "torn"
  <2>1. f \notin disturbed
    BY <1>0, <1>1 DEF Grows
  <2>2. PICK v \in Tasks : writing[v] /\ File(v) = f
    BY <1>4, <2>1 DEF TornInv
  <2>3. f \in Involved(v)
    BY <2>2, InvolvedWriting
  <2>4. CASE SameAt(v)
    BY <2>2, <2>4 DEF SameAt, File
  <2>5. ASSUME LaterStep(v) PROVE FALSE
    BY <1>1, <1>3, <2>2, <2>3, <2>5, OpenActs, FailureDisturbs
  <2>6. ASSUME NEW r \in Requests, HandleMessage(v, r) PROVE FALSE
    BY <2>2, <2>6 DEF HandleMessage, TypeOK
  <2>7. ~Crash
    BY <1>1, <2>3, FailureDisturbs
  <2>8. ASSUME NEW t \in Tasks, TaskStep(t) PROVE SameAt(v)
    <3>1. CASE t = v
      BY <2>5, <2>6, <2>8, <3>1, TaskSteps
    <3>2. CASE t # v
      BY <2>8, <3>2, OthersSame
    <3> QED BY <3>1, <3>2
  <2>9. ASSUME NEW j \in jobs, Job(j) \/ JobFails(j) PROVE SameAt(v)
    BY <2>9, JobSame
  <2> QED BY <2>4, <2>7, <2>8, <2>9 DEF Next
<1>5. CASE state[f] # "torn"
  <2>1. \E t \in Tasks : (WriteBegins(t) \/ WriteEnds(t)) /\ File(t) = f
    BY <1>1, <1>5, StateSteps
  <2> QED BY <1>2, <1>3, <2>1
<1> QED
  BY <1>4, <1>5

(* Only MakeDir makes the directory. *)
LEMMA DirSteps ==
  ASSUME TypeOK, Next, mod_dir' # mod_dir
  PROVE  \E t \in Tasks : MakeDir(t)
<1>1. ASSUME NEW t \in Tasks, TaskStep(t), ~MakeDir(t) PROVE mod_dir' = mod_dir
  <2>1. ASSUME NEW r \in Requests, HandleMessage(t, r) PROVE mod_dir' = mod_dir
    BY <2>1 DEF HandleMessage, files
  <2>2. ASSUME LaterStep(t) PROVE mod_dir' = mod_dir
    BY <1>1, <2>2 DEF LaterStep, Look, ReadOk, ReadMissing, ReadFails, SkipSettings, WriteBegins, WriteEnds,
                      WriteFails, SpawnJobs, Join, Refuse, Succeed, files
  <2> QED BY <1>1, <2>1, <2>2, TaskSteps
<1>2. ASSUME NEW j \in jobs, Job(j) \/ JobFails(j) PROVE mod_dir' = mod_dir
  BY <1>2 DEF Job, JobFails, files
<1>3. Crash => mod_dir' = mod_dir
  BY DEF Crash, files
<1> QED
  BY <1>1, <1>2, <1>3 DEF Next

(* A directory without a mod list is about to get one. *)
LEMMA DirStep ==
  ASSUME TypeOK, \A t \in Tasks : ControlInv(t), MixedInv, DirInv, Next
  PROVE  DirInv'
<1>0. Grows
  BY FilesGrow
<1> DEFINE AboutTo(t) == todo[t] # << >> /\ Head(todo[t]) \in WriteModlist
<1>1. SUFFICES ASSUME mod_dir', state'["modlist"] # "ok", "modlist" \notin disturbed'
               PROVE  \E t \in Tasks : AboutTo(t)'
  BY DEF DirInv
<1>a. "modlist" \in Files
  BY DEF Files
<1>2. ASSUME NEW t \in Tasks, MakeDir(t) PROVE AboutTo(t)'
  <2>1. todo[t] # << >> /\ Head(todo[t])[1] = "mkdir" /\ todo'[t] = Tail(todo[t])
    BY <1>2 DEF MakeDir, Doing, Continue, TypeOK
  <2>2. 1 \in 1..Len(todo[t]) /\ todo[t][1][1] = "mkdir" /\ todo[t] \in Seq(Operations)
    BY <2>1, HeadFacts
  <2>3. 1 + 1 \in 1..Len(todo[t]) /\ todo[t][1 + 1] \in WriteModlist
    BY <2>2 DEF ControlInv, Plan, Sound
  <2>4. Tail(todo[t]) # << >> /\ Head(Tail(todo[t])) = todo[t][2]
    <3>1. Len(Tail(todo[t])) = Len(todo[t]) - 1 /\ Tail(todo[t]) \in Seq(Operations) /\ Len(todo[t]) \in Nat
      BY <2>1, <2>2, TailFacts
    <3>2. Tail(todo[t]) # << >>
      <4>1. Len(Tail(todo[t])) >= 1
        BY <2>3, <3>1
      <4> QED BY <4>1, NonEmpty
    <3>3. Head(Tail(todo[t])) = Tail(todo[t])[1]
      BY <3>1, <3>2, TailFacts
    <3>4. 1 \in 1..Len(Tail(todo[t]))
      BY <2>3, <3>1
    <3>5. Tail(todo[t])[1] = todo[t][1 + 1]
      BY <2>1, <2>2, <3>4, TailFacts
    <3> QED BY <3>2, <3>3, <3>5
  <2> QED BY <2>1, <2>3, <2>4
<1>3. ASSUME NEW t \in Tasks, WriteBegins(t), File(t) = "modlist" PROVE AboutTo(t)'
  <2>1. todo[t] # << >> /\ Head(todo[t])[1] \in {"write", "rewrite", "try", "init"} /\ todo' = todo
    BY <1>3 DEF WriteBegins, Doing, Writes
  <2>2. Head(todo[t]) = <<Head(todo[t])[1], "modlist">> /\ Head(todo[t]) = todo[t][1] /\ 1 \in 1..Len(todo[t])
    BY <1>3, <2>1, HeadFacts
  <2>3. Head(todo[t]) # <<"try", "modlist">>
    BY <2>2 DEF ControlInv, Plan, Sound
  <2>a. Head(todo[t])[1] # "rewrite"
    BY <2>1, <2>2 DEF ControlInv, Plan, Saves
  <2>4. Head(todo[t]) \in WriteModlist
    BY <2>1, <2>2, <2>3, <2>a DEF WriteModlist
  <2> QED BY <2>1, <2>4
<1>4. ASSUME NEW t \in Tasks, WriteEnds(t), File(t) = "modlist" PROVE FALSE
  BY <1>1, <1>4, WriteEndsOk
<1>5. CASE \E t \in Tasks : MakeDir(t) \/ (WriteBegins(t) /\ File(t) = "modlist")
  BY <1>2, <1>3, <1>5
<1>6. CASE ~ \E t \in Tasks : MakeDir(t) \/ (WriteBegins(t) /\ File(t) = "modlist")
  <2>1. mod_dir /\ state["modlist"] # "ok" /\ "modlist" \notin disturbed
    BY <1>0, <1>1, <1>4, <1>6, <1>a, DirSteps, StateSteps DEF Grows
  <2>2. PICK v \in Tasks : AboutTo(v)
    BY <2>1 DEF DirInv
  <2>3. CASE SameAt(v)
    BY <2>2, <2>3 DEF SameAt
  <2>4. /\ Doing(v, Writes) /\ File(v) = "modlist" /\ Head(todo[v])[1] \notin {"read", "look"}
        /\ req[v] # NoRequest
    BY <2>2, HeadFacts DEF WriteModlist, Doing, Writes, File
  <2>5. "modlist" \in Involved(v)
    BY <2>2, <2>4, InvolvedHead
  <2>6. ASSUME LaterStep(v) PROVE FALSE
    <3>1. ~SkipSettings(v)
      BY <2>4 DEF SkipSettings, NoSettings
    <3>2. req[v] # "config_server_settings_get"
      <4>1. 1 \in 1..Len(todo[v]) /\ todo[v][1][2] = "modlist"
        BY <2>2, <2>4, HeadFacts DEF File
      <4> QED BY <4>1 DEF ControlInv, Plan
    <3> QED BY <1>1, <1>4, <1>6, <2>4, <2>5, <2>6, <3>1, <3>2, WriterActs, FailureDisturbs
  <2>7. ASSUME NEW r \in Requests, HandleMessage(v, r) PROVE FALSE
    BY <2>4, <2>7 DEF HandleMessage
  <2>8. ~Crash
    BY <1>1, <2>5, FailureDisturbs
  <2>9. ASSUME NEW t \in Tasks, TaskStep(t) PROVE SameAt(v)
    <3>1. CASE t = v
      BY <2>6, <2>7, <2>9, <3>1, TaskSteps
    <3>2. CASE t # v
      BY <2>9, <3>2, OthersSame
    <3> QED BY <3>1, <3>2
  <2>10. ASSUME NEW j \in jobs, Job(j) \/ JobFails(j) PROVE SameAt(v)
    BY <2>10, JobSame
  <2> QED BY <2>3, <2>8, <2>9, <2>10 DEF Next
<1> QED
  BY <1>5, <1>6

(* A file at rest can be read. *)
LEMMA ReadableFromInv ==
  ASSUME TypeOK, \A t \in Tasks : ControlInv(t), TornInv, DirInv
  PROVE  Readable
<1>1. SUFFICES ASSUME NEW f \in AtRest
               PROVE  state[f] # "torn" /\ (f = "modlist" /\ mod_dir => state[f] = "ok")
  BY DEF Readable
<1>2. f \notin disturbed /\ \A t \in Tasks : f \notin Involved(t)
  BY <1>1 DEF AtRest
<1>a. f \in Files
  BY <1>1 DEF AtRest
<1>3. state[f] # "torn"
  BY <1>2, <1>a, InvolvedWriting DEF TornInv
<1>4. ASSUME f = "modlist", mod_dir, state[f] # "ok" PROVE FALSE
  <2>1. PICK t \in Tasks : todo[t] # << >> /\ Head(todo[t]) \in WriteModlist
    BY <1>2, <1>4 DEF DirInv
  <2>2. Head(todo[t])[1] \notin {"read", "look"} /\ File(t) = "modlist"
    BY <2>1 DEF WriteModlist, File
  <2> QED BY <1>2, <1>4, <2>1, <2>2, InvolvedHead
<1> QED
  BY <1>3, <1>4

-----------------------------------------------------------------------------
(* Downloads and removals of mods                                          *)

(* A list of mods involves the mod list. *)
LEMMA ModListInvolved ==
  ASSUME NEW t \in Tasks, req[t] = "mod_list_set"
  PROVE  "modlist" \in Involved(t)
<1>1. "mod_list_set" \in Requests /\ "mod_list_set" # NoRequest /\ "modlist" \in Files
  BY RequestFacts DEF NoRequest, Files
<1>2. Has(Handler["mod_list_set"], <<"delta", "modlist">>)
  BY <1>1, HandlerPlan DEF Fresh
<1>3. "modlist" \in Rewrites(Handler["mod_list_set"])
  BY <1>1, <1>2 DEF Rewrites, Has
<1> QED
  BY <1>1, <1>3 DEF Involved

(* Once the jobs are spawned, the handler neither reads nor spawns again. *)
LEMMA SpawnedHead ==
  ASSUME TypeOK, NEW t \in Tasks, ControlInv(t), Spawned(t), todo[t] # << >>
  PROVE  Head(todo[t])[1] \in Applying
<1>1. ModPlan(todo[t]) /\ \A i \in 1..Len(todo[t]) : todo[t][i][1] # "delta"
  BY DEF ControlInv, Plan, Spawned
<1>2. \A i \in 1..Len(todo[t]) : todo[t][i][1] \in Applying
  BY <1>1 DEF ModPlan
<1> QED
  BY <1>2, HeadFacts

(* Jobs once spawned stay so until they are joined. *)
LEMMA SpawnedMoves ==
  ASSUME TypeOK, NEW t \in Tasks, ControlInv(t), LaterStep(t), Moved(t), Spawned(t), todo[t] # << >>
  PROVE  Spawned(t)' /\ (todo'[t] # << >> \/ Head(todo[t])[1] = "join")
<1>0. Head(todo[t])[1] \in Applying /\ req'[t] = req[t] /\ Plan(req[t], todo[t])
  BY SpawnedHead DEF Moved, ControlInv
<1>1. CASE todo'[t] = todo[t]
  BY <1>0, <1>1 DEF Spawned
<1>2. todo[t][1][1] # "look" /\ ~ReadMissing(t)
  BY <1>0, HeadFacts DEF Applying, ReadMissing, Doing
<1>3. CASE todo'[t] = Tail(todo[t])
  <2>1. /\ todo[t] \in Seq(Operations) /\ Len(todo[t]) \in Nat /\ Len(todo[t]) >= 1
        /\ Len(Tail(todo[t])) = Len(todo[t]) - 1
        /\ Head(todo[t]) = todo[t][1]
        /\ \A i \in 1..Len(Tail(todo[t])) : i + 1 \in 1..Len(todo[t]) /\ Tail(todo[t])[i] = todo[t][i + 1]
    BY HeadFacts, TailFacts
  <2>2. \A i \in 1..Len(Tail(todo[t])) : Tail(todo[t])[i][1] # "delta"
    BY <2>1 DEF Spawned
  <2>3. Spawned(t)'
    BY <1>0, <1>3, <2>2 DEF Spawned
  <2>4. CASE Len(todo[t]) = 1
    <3>1. todo[t][Len(todo[t])][1] = "join"
      BY <1>0 DEF Plan, ModPlan, Spawned
    <3> QED BY <2>1, <2>3, <2>4, <3>1
  <2>5. CASE Len(todo[t]) # 1
    BY <1>3, <2>1, <2>3, <2>5, TailEmpty
  <2> QED BY <2>3, <2>4, <2>5
<1> QED
  BY <1>0, <1>1, <1>2, <1>3, TodoCases

(* Spawning them is the only way to have them spawned. *)
LEMMA SpawnedBefore ==
  ASSUME TypeOK, NEW t \in Tasks, ControlInv(t), LaterStep(t), Moved(t), Spawned(t)', ~SpawnJobs(t)
  PROVE  Spawned(t)
<1>0. req[t] = "mod_list_set" /\ Plan(req[t], todo[t]) /\ req'[t] = req[t]
  BY DEF Spawned, Moved, ControlInv
<1>a. \A i \in 1..Len(todo'[t]) : todo'[t][i][1] # "delta"
  BY DEF Spawned
<1>1. CASE todo'[t] = todo[t]
  BY <1>0, <1>1, <1>a DEF Spawned
<1>2. ~(todo[t] # << >> /\ todo[t][1][1] = "look")
  BY <1>0, HeadFacts DEF Plan
<1>3. CASE ReadMissing(t) /\ File(t) # "modsettings"
  <2>1. ASSUME NEW i \in 1..Len(todo[t]), todo[t][i][1] = "delta" PROVE FALSE
    <3> DEFINE o == todo[t][i]
    <3>1. Has(todo[t], o)
      BY DEF Has
    <3>2. Has(todo'[t], o) \/ o[1] = "read"
      BY <1>0, <1>3, <3>1, HasCreated
    <3> QED BY <1>a, <2>1, <3>2 DEF Has
  <2> QED BY <1>0, <2>1 DEF Spawned
<1>4. CASE todo[t] # << >> /\ todo'[t] = Tail(todo[t])
  <2>1. /\ todo[t] \in Seq(Operations) /\ Head(todo[t]) = todo[t][1]
        /\ \A i \in 1..Len(todo[t]) : i # 1 => i - 1 \in 1..Len(Tail(todo[t])) /\ Tail(todo[t])[i - 1] = todo[t][i]
    BY <1>4, HeadFacts, TailFacts
  <2>2. Head(todo[t])[1] # "delta"
    <3>1. SUFFICES ASSUME Head(todo[t])[1] = "delta" PROVE FALSE
      OBVIOUS
    <3>2. ~End(t)
      BY EndEnds DEF Moved, Ended
    <3>3. /\ ~Look(t) /\ ~ReadOk(t) /\ ~ReadMissing(t) /\ ~MakeDir(t) /\ ~SkipSettings(t) /\ ~WriteBegins(t)
          /\ ~WriteEnds(t) /\ ~Join(t)
      BY <3>1 DEF Look, ReadOk, ReadMissing, MakeDir, SkipSettings, WriteBegins, WriteEnds, Join, Doing, Writes
    <3>4. ~WriteFails(t) /\ ~ReadFails(t) /\ ~Refuse(t) /\ ~Succeed(t)
      BY <3>2, <3>1 DEF WriteFails, ReadFails, Refuse, Succeed, Doing, Writes
    <3> QED BY <3>3, <3>4 DEF LaterStep
  <2>3. \A i \in 1..Len(todo[t]) : todo[t][i][1] # "delta"
    BY <1>4, <1>a, <2>1, <2>2
  <2> QED BY <1>0, <2>3 DEF Spawned
<1> QED
  BY <1>0, <1>1, <1>2, <1>3, <1>4, TodoCases

(* Spawning the jobs is done once, and the join is still to come. *)
LEMMA SpawnJobsSpawns ==
  ASSUME TypeOK, NEW t \in Tasks, ControlInv(t), SpawnJobs(t)
  PROVE  /\ req[t] = "mod_list_set" /\ ~Spawned(t)
         /\ Spawned(t)' /\ todo'[t] # << >>
         /\ want' = want
<1>1. todo[t] # << >> /\ Head(todo[t])[1] = "delta" /\ Continue(t)
  BY DEF SpawnJobs, Doing
<1>2. todo'[t] = Tail(todo[t]) /\ req' = req /\ want' = want
  BY <1>1 DEF Continue, request, TypeOK
<1>3. /\ todo[t] \in Seq(Operations) /\ Len(todo[t]) \in Nat /\ Len(todo[t]) >= 1
      /\ 1 \in 1..Len(todo[t]) /\ todo[t][1][1] = "delta"
      /\ Len(Tail(todo[t])) = Len(todo[t]) - 1
      /\ \A i \in 1..Len(Tail(todo[t])) : i + 1 \in 1..Len(todo[t]) /\ Tail(todo[t])[i] = todo[t][i + 1]
  BY <1>1, HeadFacts, TailFacts
<1>4. req[t] = "mod_list_set" /\ ModPlan(todo[t])
  BY <1>3 DEF ControlInv, Plan
<1>5. ~Spawned(t)
  BY <1>3 DEF Spawned
<1>6. \A i \in 1..Len(Tail(todo[t])) : Tail(todo[t])[i][1] # "delta"
  <2>1. \A i \in 1..Len(Tail(todo[t])) : 1 < i + 1
    OBVIOUS
  <2>2. \A i \in 1..Len(Tail(todo[t])) : todo[t][i + 1][1] \in Applying
    BY <1>3, <1>4, <2>1 DEF ModPlan
  <2> QED BY <1>3, <2>2 DEF Applying
<1>7. Len(todo[t]) # 1
  BY <1>1, <1>3, <1>4 DEF ModPlan
<1>8. Tail(todo[t]) # << >>
  BY <1>1, <1>3, <1>7, TailEmpty
<1> QED
  BY <1>2, <1>4, <1>5, <1>6, <1>8 DEF Spawned

(* What the steps of a handler do to the jobs. *)
LEMMA JobsSteps ==
  ASSUME TypeOK, NEW t \in Tasks, TaskStep(t)
  PROVE  \/ jobs' = jobs /\ failed' = failed
         \/ SpawnJobs(t)
         \/ End(t)
<1>1. ASSUME NEW r \in Requests, HandleMessage(t, r) PROVE jobs' = jobs /\ failed' = failed
  BY <1>1 DEF HandleMessage
<1>2. CASE \/ Look(t) \/ ReadOk(t) \/ ReadMissing(t) \/ MakeDir(t) \/ SkipSettings(t)
           \/ WriteBegins(t) \/ WriteEnds(t)
  BY <1>2 DEF Look, ReadOk, ReadMissing, MakeDir, SkipSettings, WriteBegins, WriteEnds
<1>3. CASE ReadFails(t) \/ Refuse(t) \/ Succeed(t)
  BY <1>3 DEF ReadFails, Refuse, Succeed
<1>4. CASE WriteFails(t) \/ Join(t)
  BY <1>4 DEF WriteFails, Join
<1> QED
  BY <1>1, <1>2, <1>3, <1>4 DEF TaskStep

(* Whether another handler's jobs are spawned does not change. *)
LEMMA SameSpawned ==
  ASSUME NEW u \in Tasks, SameAt(u)
  PROVE  (Spawned(u)' <=> Spawned(u)) /\ todo'[u] = todo[u] /\ want'[u] = want[u]
BY DEF SameAt, Spawned

(* What a job is made of. *)
LEMMA JobTypes ==
  ASSUME TypeOK, NEW j \in jobs
  PROVE  /\ j = <<j[1], j[2], j[3]>> /\ j[1] \in Tasks \cup {Nobody}
         /\ j[2] \in {"install", "delete"} /\ j[3] \in Mods
BY DEF TypeOK

(* A job's handler waits for it. *)
LEMMA JobsStep ==
  ASSUME TypeOK, \A t \in Tasks : ControlInv(t), JobsInv, Next
  PROVE  JobsInv'
<1>1. ASSUME NEW t \in Tasks, TaskStep(t), NEW j \in jobs', j[1] # Nobody
      PROVE  Spawned(j[1])' /\ todo'[j[1]] # << >>
  <2>a. ASSUME j \in jobs, j[1] # t PROVE Spawned(j[1])' /\ todo'[j[1]] # << >>
    <3>1. j[1] \in Tasks /\ Spawned(j[1]) /\ todo[j[1]] # << >>
      BY <1>1, <2>a, JobTypes DEF JobsInv
    <3> QED BY <1>1, <2>a, <3>1, OthersSame, SameSpawned
  <2>1. CASE jobs' = jobs
    <3>1. CASE j[1] = t
      <4>1. Spawned(t) /\ todo[t] # << >> /\ j \in jobs
        BY <1>1, <2>1, <3>1 DEF JobsInv
      <4>2. ASSUME NEW r \in Requests, HandleMessage(t, r) PROVE FALSE
        BY <4>1, <4>2, HandleMoves DEF Spawned, NoRequest
      <4>3. LaterStep(t)
        BY <1>1, <4>2, TaskSteps
      <4>4. CASE Ended(t)
        <5>1. ~Continue(t) /\ ~WriteBegins(t) /\ ~Look(t) /\ ~ReadMissing(t)
          BY <4>1, <4>4 DEF Ended, Continue, WriteBegins, Look, ReadMissing, request, Spawned, NoRequest
        <5>2. End(t)
          BY <4>3, <5>1 DEF LaterStep, ReadOk, ReadFails, MakeDir, SkipSettings, WriteEnds, WriteFails,
                            SpawnJobs, Join, Refuse, Succeed
        <5>3. jobs' = {IF i[1] = t THEN <<Nobody, i[2], i[3]>> ELSE i : i \in jobs}
          BY <5>2 DEF End
        <5> QED BY <1>1, <3>1, <5>3, ConstantsAssumption
      <4>5. CASE Moved(t)
        <5>1. Head(todo[t])[1] # "join"
          <6>1. SUFFICES ASSUME Head(todo[t])[1] = "join" PROVE FALSE
            OBVIOUS
          <6>2. ~End(t)
            BY <4>5, EndEnds DEF Moved, Ended
          <6>3. ~Join(t)
            BY <3>1, <4>1 DEF Join
          <6>4. /\ ~Look(t) /\ ~ReadOk(t) /\ ~ReadMissing(t) /\ ~MakeDir(t) /\ ~SkipSettings(t)
                /\ ~WriteBegins(t) /\ ~WriteEnds(t) /\ ~SpawnJobs(t)
            BY <6>1 DEF Look, ReadOk, ReadMissing, MakeDir, SkipSettings, WriteBegins, WriteEnds, SpawnJobs,
                        Doing, Writes
          <6>5. ~WriteFails(t) /\ ~ReadFails(t) /\ ~Refuse(t) /\ ~Succeed(t)
            BY <6>1, <6>2 DEF WriteFails, ReadFails, Refuse, Succeed, Doing, Writes
          <6> QED BY <4>3, <6>3, <6>4, <6>5 DEF LaterStep
        <5> QED BY <3>1, <4>1, <4>3, <4>5, <5>1, SpawnedMoves
      <4> QED BY <4>3, <4>4, <4>5, LaterMoves DEF ControlInv
    <3> QED BY <1>1, <2>1, <2>a, <3>1
  <2>2. CASE SpawnJobs(t)
    <3>1. jobs' = jobs \cup Delta(t)
      BY <2>2 DEF SpawnJobs
    <3>2. CASE j \in Delta(t)
      BY <2>2, <3>2, SpawnJobsSpawns DEF Delta
    <3>3. CASE j \in jobs
      <4>1. j[1] # t
        BY <1>1, <2>2, <3>3, SpawnJobsSpawns DEF JobsInv
      <4> QED BY <2>a, <3>3, <4>1
    <3> QED BY <1>1, <3>1, <3>2, <3>3
  <2>3. CASE End(t)
    <3>1. jobs' = {IF i[1] = t THEN <<Nobody, i[2], i[3]>> ELSE i : i \in jobs}
      BY <2>3 DEF End
    <3>2. j \in jobs /\ j[1] # t
      BY <1>1, <3>1
    <3> QED BY <2>a, <3>2
  <2> QED BY <1>1, <2>1, <2>2, <2>3, JobsSteps
<1>2. ASSUME NEW i \in jobs, Job(i) \/ JobFails(i), NEW j \in jobs', j[1] # Nobody
      PROVE  Spawned(j[1])' /\ todo'[j[1]] # << >>
  <2>1. j \in jobs /\ j[1] \in Tasks
    BY <1>2, JobTypes DEF Job, JobFails
  <2> QED BY <1>2, <2>1, JobSame, SameSpawned DEF JobsInv
<1>3. CASE Crash
  BY <1>3 DEF Crash, JobsInv
<1> QED
  BY <1>1, <1>2, <1>3 DEF Next, JobsInv

(* While nothing disturbs the mod list, one handler at most works on it. *)
LEMMA OneSpawned ==
  ASSUME TypeOK, OverlapInv, "modlist" \notin disturbed,
         NEW t \in Tasks, NEW u \in Tasks, Spawned(t), req[u] = "mod_list_set"
  PROVE  t = u
<1>1. "modlist" \in Involved(t) /\ "modlist" \in Involved(u) /\ "modlist" \in Files
  BY ModListInvolved DEF Spawned, Files
<1> QED
  BY <1>1 DEF OverlapInv

(* A handler that has not spawned jobs ends without leaving any. *)
LEMMA EndWithoutJobs ==
  ASSUME TypeOK, JobsInv, ModsInv, "modlist" \notin disturbed, NEW t \in Tasks,
         End(t), \A j \in jobs : j[1] # t, UNCHANGED zips
  PROVE  /\ failed' = {} /\ jobs' = jobs
         /\ \A u \in Tasks : Spawned(u)' => Spawned(u) /\ u # t
         /\ \A u \in Tasks : u # t => (Spawned(u)' <=> Spawned(u)) /\ want'[u] = want[u]
<1>1. failed' = {}
  BY DEF End, ModsInv
<1>2. jobs' = jobs
  BY DEF End
<1>3. ~Spawned(t)'
  BY EndEnds DEF Ended, Spawned, NoRequest
<1>4. \A u \in Tasks : u # t => (Spawned(u)' <=> Spawned(u)) /\ want'[u] = want[u]
  BY EndOthers, SameSpawned
<1> QED
  BY <1>1, <1>2, <1>3, <1>4

(* The jobs of the handlers other than t. *)
LEMMA NoJobs ==
  ASSUME TypeOK, JobsInv, ModsInv, "modlist" \notin disturbed, NEW t \in Tasks, ~Spawned(t) \/ todo[t] = << >>
  PROVE  \A j \in jobs : j[1] # t
BY ConstantsAssumption DEF JobsInv, ModsInv

(* A handler's jobs fit as long as neither they nor the mods change. *)
LEMMA SameDelta ==
  ASSUME NEW u \in Tasks, DeltaInv(u), jobs' = jobs, zips' = zips, want'[u] = want[u]
  PROVE  DeltaInv(u)'
BY DEF DeltaInv

(* The jobs under way remain the difference to the mods on disk: handlers. *)
LEMMA ModsTaskStep ==
  ASSUME TypeOK, \A t \in Tasks : ControlInv(t), OverlapInv, JobsInv, ModsInv,
         NEW t \in Tasks, TaskStep(t)
  PROVE  ModsInv'
<1>0. SUFFICES ASSUME "modlist" \notin disturbed'
               PROVE  /\ failed' = {}
                      /\ \A j \in jobs' : j[1] # Nobody
                      /\ \A u \in Tasks : Spawned(u)' => DeltaInv(u)'
                      /\ (\A u \in Tasks : ~Spawned(u)') => zips' = promised_mods'
  BY DEF ModsInv
<1>a. "modlist" \notin disturbed
  <2>1. Next
    BY DEF Next
  <2> QED BY <1>0, <2>1, FilesGrow DEF Grows
<1>b. /\ failed = {}
      /\ \A j \in jobs : j[1] # Nobody
      /\ \A u \in Tasks : Spawned(u) => DeltaInv(u)
      /\ (\A u \in Tasks : ~Spawned(u)) => zips = promised_mods
  BY <1>a DEF ModsInv
<1>c. ASSUME jobs' = jobs, failed' = {}, zips' = zips, promised_mods' = promised_mods,
             \A u \in Tasks : (Spawned(u)' <=> Spawned(u)) /\ (Spawned(u) => want'[u] = want[u])
      PROVE  /\ failed' = {}
             /\ \A j \in jobs' : j[1] # Nobody
             /\ \A u \in Tasks : Spawned(u)' => DeltaInv(u)'
             /\ (\A u \in Tasks : ~Spawned(u)') => zips' = promised_mods'
  BY <1>b, <1>c, SameDelta
<1>d. ASSUME NEW u \in Tasks, u # t PROVE (Spawned(u)' <=> Spawned(u)) /\ want'[u] = want[u]
  BY <1>d, OthersSame, SameSpawned
<1> DEFINE Goal == /\ failed' = {}
                   /\ \A j \in jobs' : j[1] # Nobody
                   /\ \A u \in Tasks : Spawned(u)' => DeltaInv(u)'
                   /\ (\A u \in Tasks : ~Spawned(u)') => zips' = promised_mods'
<1>1. ASSUME NEW r \in Requests, HandleMessage(t, r) PROVE Goal
  <2>1. jobs' = jobs /\ failed' = failed /\ zips' = zips /\ promised_mods' = promised_mods
    BY <1>1 DEF HandleMessage, files, promises
  <2>2. ~Spawned(t)
    BY <1>1, HandleMoves DEF Spawned, NoRequest
  <2>3. ~Spawned(t)'
    <3>1. r = "mod_list_set" => Has(Handler[r], <<"delta", "modlist">>)
      BY HandlerPlan DEF Fresh
    <3>2. req'[t] = r /\ todo'[t] = Handler[r]
      BY <1>1, HandleMoves
    <3>3. r = "mod_list_set" => \E i \in 1..Len(todo'[t]) : todo'[t][i][1] = "delta"
      BY <3>1, <3>2 DEF Has
    <3> QED BY <3>2, <3>3 DEF Spawned
  <2> QED BY <1>b, <1>c, <1>d, <2>1, <2>2, <2>3
<1>2. CASE SpawnJobs(t)
  <2>1. /\ req[t] = "mod_list_set" /\ ~Spawned(t) /\ Spawned(t)' /\ want' = want
        /\ jobs' = jobs \cup Delta(t) /\ failed' = failed /\ zips' = zips
    BY <1>2, SpawnJobsSpawns DEF SpawnJobs, files
  <2>2. \A u \in Tasks : ~Spawned(u)
    BY <1>a, <2>1, OneSpawned
  <2>3. jobs = {}
    BY <1>b, <2>2, JobTypes DEF JobsInv
  <2>4. DeltaInv(t)'
    <3>1. jobs' = Delta(t)
      BY <2>1, <2>3
    <3>2. \A m \in Mods : /\ <<t, "delete", m>> \in Delta(t) <=> m \in zips /\ m \notin want[t]
                          /\ <<t, "install", m>> \in Delta(t) <=> m \in want[t] /\ m \notin zips
      BY DEF Delta, TypeOK
    <3> QED BY <2>1, <3>1, <3>2 DEF DeltaInv
  <2>5. \A j \in jobs' : j[1] # Nobody
    BY <2>1, <2>3, ConstantsAssumption DEF Delta
  <2>6. \A u \in Tasks : Spawned(u)' => u = t
    BY <1>d, <2>2
  <2> QED BY <1>b, <2>1, <2>4, <2>5, <2>6
<1>3. CASE LaterStep(t) /\ Moved(t) /\ ~SpawnJobs(t)
  <2>0. ~End(t)
    BY <1>3, EndEnds DEF Moved, Ended
  <2>1. jobs' = jobs /\ failed' = failed
    BY <1>3, <2>0, JobsSteps
  <2>2. zips' = zips /\ promised_mods' = promised_mods
    BY <1>3, <2>0 DEF LaterStep, Look, ReadOk, ReadMissing, ReadFails, MakeDir, SkipSettings, WriteBegins,
                      WriteEnds, WriteFails, Join, Refuse, Succeed, files, promises
  <2>3. want'[t] = want[t]
    BY <1>3 DEF Moved
  <2>4. Spawned(t)' => Spawned(t)
    BY <1>3, SpawnedBefore
  <2>5. Spawned(t) => Spawned(t)'
    <3>1. CASE todo[t] # << >>
      BY <1>3, <3>1, SpawnedMoves
    <3>2. CASE todo[t] = << >>
      <4>1. FALSE
        BY <1>3, <2>0, <3>2 DEF LaterStep, Look, ReadOk, ReadMissing, ReadFails, MakeDir, SkipSettings,
                                WriteBegins, WriteEnds, WriteFails, Join, Refuse, Succeed, Doing
      <4> QED BY <4>1
    <3> QED BY <3>1, <3>2
  <2> QED BY <1>b, <1>c, <1>d, <2>1, <2>2, <2>3, <2>4, <2>5
<1>4. CASE LaterStep(t) /\ Ended(t) /\ ~SpawnJobs(t)
  <2>0. End(t)
    <3>1. req[t] # NoRequest
      <4>1. CASE todo[t] # << >>
        BY <4>1, HeadFacts
      <4>2. CASE todo[t] = << >>
        <5>1. Succeed(t) \/ Refuse(t)
          BY <1>4, <4>2 DEF LaterStep, Look, ReadOk, ReadMissing, ReadFails, MakeDir, SkipSettings,
                            WriteBegins, WriteEnds, WriteFails, Join, Doing
        <5> QED BY <4>2, <5>1, RefuseCases DEF Succeed
      <4> QED BY <4>1, <4>2
    <3>2. ~Continue(t) /\ ~WriteBegins(t) /\ ~Look(t) /\ ~ReadMissing(t)
      BY <1>4, <3>1 DEF Ended, Continue, WriteBegins, Look, ReadMissing, request
    <3> QED BY <1>4, <3>2 DEF LaterStep, ReadOk, ReadFails, MakeDir, SkipSettings, WriteEnds, WriteFails,
                              Join, Refuse, Succeed
  <2>1. zips' = zips
    BY <1>4 DEF LaterStep, Look, ReadOk, ReadMissing, ReadFails, MakeDir, SkipSettings, WriteBegins,
                WriteEnds, WriteFails, Join, Refuse, Succeed, files
  <2>2. CASE ~Spawned(t)
    <3>1. /\ failed' = {} /\ jobs' = jobs
          /\ \A u \in Tasks : Spawned(u)' => Spawned(u) /\ u # t
          /\ \A u \in Tasks : u # t => (Spawned(u)' <=> Spawned(u)) /\ want'[u] = want[u]
      BY <1>a, <2>0, <2>1, <2>2, NoJobs, EndWithoutJobs
    <3>2. promised_mods' = promised_mods
      <4>1. CASE Succeed(t)
        <5>1. req[t] # "mod_list_set"
          BY <2>2, <4>1 DEF Succeed, Spawned
        <5> QED BY <4>1, <5>1 DEF Succeed
      <4>2. CASE ~Succeed(t)
        BY <1>4, <4>2 DEF LaterStep, Look, ReadOk, ReadMissing, ReadFails, MakeDir, SkipSettings,
                          WriteBegins, WriteEnds, WriteFails, Join, Refuse, promises
      <4> QED BY <4>1, <4>2
    <3> QED BY <1>c, <2>1, <2>2, <3>1, <3>2
  <2>3. CASE Spawned(t)
    <3>0. req[t] = "mod_list_set"
      BY <2>3 DEF Spawned
    <3>1. ~WriteFails(t)
      BY <1>0, <3>0, ModListInvolved, FailureDisturbs
    <3>2. ~Join(t)
      <4>1. SUFFICES ASSUME Join(t) PROVE FALSE
        OBVIOUS
      <4>2. t \notin failed
        BY <1>b
      <4>3. Continue(t)
        BY <4>1, <4>2 DEF Join
      <4> QED BY <1>4, <3>0, <4>3 DEF Continue, Ended, request, NoRequest
    <3>3. ~ReadFails(t)
      <4>1. SUFFICES ASSUME ReadFails(t) PROVE FALSE
        OBVIOUS
      <4>2. todo[t] # << >> /\ Head(todo[t])[1] \in {"read", "delta"}
        BY <4>1 DEF ReadFails, Doing
      <4> QED BY <2>3, <4>2, SpawnedHead DEF Applying
    <3>4. ~Refuse(t)
      BY <3>0 DEF Refuse
    <3>5. ~Continue(t) /\ ~WriteBegins(t) /\ ~Look(t) /\ ~ReadMissing(t)
      BY <1>4, <3>0 DEF Ended, Continue, WriteBegins, Look, ReadMissing, request, NoRequest
    <3>6. Succeed(t)
      BY <1>4, <3>1, <3>2, <3>3, <3>4, <3>5 DEF LaterStep, ReadOk, MakeDir, SkipSettings, WriteEnds
    <3>7. todo[t] = << >> /\ promised_mods' = want[t]
      BY <3>0, <3>6 DEF Succeed
    <3>8. \A j \in jobs : j[1] # t
      BY <1>a, <3>7, NoJobs
    <3>9. zips = want[t]
      <4>1. \A m \in Mods : <<t, "delete", m>> \notin jobs /\ <<t, "install", m>> \notin jobs
        BY <3>8
      <4>2. \A m \in Mods : m \in zips <=> m \in want[t]
        BY <1>b, <2>3, <4>1 DEF DeltaInv
      <4> QED BY <4>2 DEF TypeOK
    <3>10. /\ failed' = {} /\ jobs' = jobs
           /\ \A u \in Tasks : Spawned(u)' => Spawned(u) /\ u # t
      BY <1>a, <2>0, <2>1, <3>8, EndWithoutJobs
    <3>11. \A u \in Tasks : ~Spawned(u)'
      BY <1>a, <2>3, <3>0, <3>10, OneSpawned
    <3> QED BY <1>b, <2>1, <3>7, <3>9, <3>10, <3>11
  <2> QED BY <2>2, <2>3
<1> QED
  BY <1>1, <1>2, <1>3, <1>4, TaskSteps, LaterMoves DEF ControlInv

(* The same for every step: jobs and crashes too. *)
LEMMA ModsStep ==
  ASSUME TypeOK, \A t \in Tasks : ControlInv(t), OverlapInv, JobsInv, ModsInv, Next
  PROVE  ModsInv'
<1>0. Grows
  BY FilesGrow
<1>1. ASSUME NEW t \in Tasks, TaskStep(t) PROVE ModsInv'
  BY <1>1, ModsTaskStep
<1>2. ASSUME NEW j \in jobs, Job(j) PROVE ModsInv'
  <2>0. SUFFICES ASSUME "modlist" \notin disturbed PROVE ModsInv'
    BY <1>0 DEF ModsInv, Grows
  <2> DEFINE t == j[1]
             m == j[3]
  <2>1. t \in Tasks /\ Spawned(t) /\ j = <<t, j[2], m>> /\ m \in Mods /\ j[2] \in {"install", "delete"}
    BY <2>0, JobTypes DEF JobsInv, ModsInv
  <2>2. DeltaInv(t) /\ failed = {} /\ \A i \in jobs : i[1] # Nobody
    BY <2>0, <2>1 DEF ModsInv
  <2>3. jobs' = jobs \ {j} /\ promised_mods' = promised_mods /\ want' = want
    BY <1>2 DEF Job, promises, request
  <2>4. \A u \in Tasks : Spawned(u)' <=> Spawned(u)
    BY <1>2, JobSame, SameSpawned
  <2>5. \A u \in Tasks : Spawned(u) => u = t
    BY <2>0, <2>1, OneSpawned DEF Spawned
  <2> HIDE DEF t, m
  <2>6. CASE j[2] = "install"
    <3>1. zips' = zips \cup {m} /\ failed' = failed
      BY <1>2, <2>6 DEF Job, m
    <3>2. m \in want[t]
      BY <2>1, <2>2, <2>6 DEF DeltaInv
    <3>3. j = <<t, "install", m>>
      BY <2>1, <2>6
    <3>4. \A n \in Mods : /\ <<t, "delete", n>> \in jobs' <=> <<t, "delete", n>> \in jobs
                          /\ <<t, "install", n>> \in jobs' <=> <<t, "install", n>> \in jobs /\ n # m
      BY <2>3, <3>3
    <3>5. DeltaInv(t)'
      BY <2>2, <2>3, <3>1, <3>2, <3>4 DEF DeltaInv
    <3> QED BY <2>1, <2>2, <2>3, <2>4, <2>5, <3>1, <3>5 DEF ModsInv
  <2>7. CASE j[2] = "delete"
    <3>1. m \in zips /\ m \notin want[t]
      BY <2>1, <2>2, <2>7 DEF DeltaInv
    <3>2. zips' = zips \ {m} /\ failed' = failed
      BY <1>2, <2>7, <3>1 DEF Job, m
    <3>3. j = <<t, "delete", m>>
      BY <2>1, <2>7
    <3>4. \A n \in Mods : /\ <<t, "delete", n>> \in jobs' <=> <<t, "delete", n>> \in jobs /\ n # m
                          /\ <<t, "install", n>> \in jobs' <=> <<t, "install", n>> \in jobs
      BY <2>3, <3>3
    <3>5. DeltaInv(t)'
      BY <2>2, <2>3, <3>1, <3>2, <3>4 DEF DeltaInv
    <3> QED BY <2>1, <2>2, <2>3, <2>4, <2>5, <3>2, <3>5 DEF ModsInv
  <2> QED BY <2>1, <2>6, <2>7
<1>3. ASSUME NEW j \in jobs, JobFails(j) PROVE ModsInv'
  BY <1>3 DEF JobFails, ModsInv
<1>4. CASE Crash
  <2>0. SUFFICES ASSUME "modlist" \notin disturbed' PROVE ModsInv'
    BY DEF ModsInv
  <2>1. \A t \in Tasks : ~Spawned(t)
    BY <1>4, <2>0, ModListInvolved, FailureDisturbs DEF Spawned
  <2>2. zips = promised_mods
    BY <1>0, <2>0, <2>1 DEF ModsInv, Grows
  <2>a. jobs = {}
    <3>1. \A j \in jobs : j[1] # Nobody
      BY <1>0, <2>0 DEF ModsInv, Grows
    <3>2. \A j \in jobs : j[1] \in Tasks
      BY <3>1 DEF TypeOK
    <3> QED BY <2>1, <3>1, <3>2 DEF JobsInv
  <2>3. zips' = zips /\ promised_mods' = promised_mods /\ jobs' = {} /\ failed' = {}
    BY <1>4, <2>a DEF Crash, promises
  <2>4. \A t \in Tasks : ~Spawned(t)'
    BY <1>4, CrashEnds DEF Ended, Spawned, NoRequest
  <2> QED BY <2>2, <2>3, <2>4 DEF ModsInv
<1> QED
  BY <1>1, <1>2, <1>3, <1>4 DEF Next

(* The mods at rest are those of the last list. *)
LEMMA ModsKeptFromInv ==
  ASSUME TypeOK, ModsInv
  PROVE  ModsKept
BY ModListInvolved DEF ModsKept, AtRest, ModsInv, Spawned

-----------------------------------------------------------------------------
(* What was reported as set                                                *)

(* A handler is involved with the files whose fields it sets. *)
LEMMA SetsInvolved ==
  ASSUME NEW t \in Tasks, req[t] \in Requests, NEW f \in Files, NEW x \in FieldsOf(f), x \in Sets[req[t]]
  PROVE  f \in Involved(t)
<1>1. Has(Handler[req[t]], <<"write", f>>)
  BY HandlerPlan DEF Fresh
<1>2. f \in Rewrites(Handler[req[t]])
  BY <1>1 DEF Rewrites, Has
<1> QED
  BY <1>2, NoRequestFacts DEF Involved

(* A handler is involved with the files it is going to write. *)
LEMMA HasInvolved ==
  ASSUME TypeOK, NEW t \in Tasks, NEW f \in Files, NEW o \in {"write", "rewrite", "try", "init"}, Has(todo[t], <<o, f>>)
  PROVE  f \in Involved(t) /\ req[t] \in Requests /\ todo[t] # << >>
<1>1. todo[t] # << >>
  BY DEF Has
<1>2. f \in Rewrites(todo[t])
  BY DEF Rewrites, Has
<1> QED
  BY <1>1, <1>2, HeadFacts DEF Involved, MayWrite

(* While a file is not disturbed, one handler at most is involved with it. *)
LEMMA Alone ==
  ASSUME OverlapInv, NEW f \in Files, f \notin disturbed, NEW t \in Tasks, NEW u \in Tasks,
         f \in Involved(t), f \in Involved(u)
  PROVE  t = u
BY DEF OverlapInv

(* No write is added to a plan. *)
LEMMA MovedHas ==
  ASSUME TypeOK, NEW t \in Tasks, ControlInv(t), LaterStep(t), Moved(t), NEW f \in Files,
         NEW o \in {"write", "rewrite"}, Has(todo'[t], <<o, f>>)
  PROVE  Has(todo[t], <<o, f>>)
<1>0. Plan(req[t], todo[t])
  BY DEF ControlInv
<1>1. CASE todo'[t] = todo[t]
  BY <1>1
<1>2. todo'[t] # << >>
  BY DEF Has
<1>3. CASE ReadMissing(t) /\ File(t) # "modsettings"
  BY <1>0, <1>3, HasCreated
<1>4. CASE todo[t] # << >> /\ todo'[t] = Tail(todo[t])
  BY <1>4, HeadFacts, HasTail
<1> QED
  BY <1>0, <1>1, <1>2, <1>3, <1>4, TodoCases

(* After the write of a file it is not read, nor written again. *)
LEMMA AfterWrite ==
  ASSUME TypeOK, NEW t \in Tasks, ControlInv(t), NEW f \in Files, todo[t] # << >>, todo[t][1] = <<"write", f>>
  PROVE  ~Has(Tail(todo[t]), <<"write", f>>) /\ ~Has(todo[t], <<"read", f>>)
<1>1. /\ todo[t] \in Seq(Operations) /\ Len(todo[t]) \in Nat /\ 1 \in 1..Len(todo[t])
      /\ \A i \in 1..Len(Tail(todo[t])) : i + 1 \in 1..Len(todo[t]) /\ Tail(todo[t])[i] = todo[t][i + 1]
  BY HeadFacts, TailFacts
<1>2. \A j \in 1..Len(todo[t]) : 1 < j => todo[t][j][1] \in Last /\ todo[t][j] # todo[t][1]
  BY <1>1 DEF ControlInv, Plan, Ordered
<1>3. \A i \in 1..Len(Tail(todo[t])) : 1 < i + 1
  OBVIOUS
<1>4. ~Has(Tail(todo[t]), <<"write", f>>)
  BY <1>1, <1>2, <1>3 DEF Has
<1>5. \A j \in 1..Len(todo[t]) : j = 1 \/ 1 < j
  OBVIOUS
<1>6. ~Has(todo[t], <<"read", f>>)
  BY <1>2, <1>5 DEF Has, Last
<1> QED
  BY <1>4, <1>6

(* Only a reply of success changes what is promised. *)
LEMMA PromisedSteps ==
  ASSUME TypeOK, Next, NEW x \in Fields, promised'[x] # promised[x]
  PROVE  \E t \in Tasks : Succeed(t) /\ x \in Sets[req[t]] /\ promised'[x] = arg[t]
<1>1. ASSUME NEW t \in Tasks, TaskStep(t), ~Succeed(t) PROVE promised' = promised
  <2>1. ASSUME NEW r \in Requests, HandleMessage(t, r) PROVE promised' = promised
    BY <2>1 DEF HandleMessage, promises
  <2>2. ASSUME LaterStep(t) PROVE promised' = promised
    BY <1>1, <2>2 DEF LaterStep, Look, ReadOk, ReadMissing, ReadFails, MakeDir, SkipSettings, WriteBegins,
                      WriteEnds, WriteFails, SpawnJobs, Join, Refuse, promises
  <2> QED BY <1>1, <2>1, <2>2, TaskSteps
<1>2. ASSUME NEW t \in Tasks, Succeed(t) PROVE x \in Sets[req[t]] /\ promised'[x] = arg[t]
  BY <1>2 DEF Succeed
<1>3. ASSUME NEW j \in jobs, Job(j) \/ JobFails(j) PROVE promised' = promised
  BY <1>3 DEF Job, JobFails, promises
<1>4. Crash => promised' = promised
  BY DEF Crash, promises
<1> QED
  BY <1>1, <1>2, <1>3, <1>4 DEF Next

(* Only the end of a write changes what is on disk. *)
LEMMA DiskSteps ==
  ASSUME TypeOK, Next, NEW f \in Files, NEW x \in FieldsOf(f), disk'[x] # disk[x]
  PROVE  \E t \in Tasks : WriteEnds(t) /\ File(t) = f /\ disk'[x] = Written(t)[x]
<1>0. x \in Fields
  BY FieldsDisjoint
<1>1. ASSUME NEW t \in Tasks, TaskStep(t), ~WriteEnds(t) PROVE disk' = disk
  <2>1. ASSUME NEW r \in Requests, HandleMessage(t, r) PROVE disk' = disk
    BY <2>1 DEF HandleMessage, files
  <2>2. ASSUME LaterStep(t) PROVE disk' = disk
    BY <1>1, <2>2 DEF LaterStep, Look, ReadOk, ReadMissing, ReadFails, MakeDir, SkipSettings, WriteBegins,
                      WriteFails, SpawnJobs, Join, Refuse, Succeed, files
  <2> QED BY <1>1, <2>1, <2>2, TaskSteps
<1>2. ASSUME NEW t \in Tasks, WriteEnds(t) PROVE File(t) = f /\ disk'[x] = Written(t)[x]
  <2>1. disk' = [y \in Fields |-> IF y \in FieldsOf(File(t)) THEN Written(t)[y] ELSE disk[y]]
    BY <1>2 DEF WriteEnds
  <2>2. x \in FieldsOf(File(t)) /\ disk'[x] = Written(t)[x]
    BY <1>0, <2>1
  <2>3. File(t) \in Files
    BY <1>2, HeadFacts DEF WriteEnds, Doing
  <2> QED BY <2>2, <2>3, FieldsDisjoint
<1>3. ASSUME NEW j \in jobs, Job(j) \/ JobFails(j) PROVE disk' = disk
  BY <1>3 DEF Job, JobFails, files
<1>4. Crash => disk' = disk
  BY DEF Crash, files
<1> QED
  BY <1>1, <1>2, <1>3, <1>4 DEF Next

(* Only reading its file changes a handler's copy of a field. *)
LEMMA MemSteps ==
  ASSUME TypeOK, NEW t \in Tasks, LaterStep(t), ~End(t), NEW f \in Files, NEW x \in FieldsOf(f),
         mem'[t][x] # mem[t][x]
  PROVE  ReadOk(t) /\ File(t) = f /\ mem'[t][x] = disk[x]
<1>0. x \in Fields
  BY FieldsDisjoint
<1>2. ReadOk(t)
  BY DEF LaterStep, Look, ReadMissing, ReadFails, MakeDir, SkipSettings, WriteBegins, WriteEnds,
              WriteFails, SpawnJobs, Join, Refuse, Succeed
<1>3. mem'[t] = Loaded(t, File(t))
  BY <1>2 DEF ReadOk, TypeOK
<1>4. x \in FieldsOf(File(t)) /\ mem'[t][x] = disk[x]
  BY <1>0, <1>3 DEF Loaded
<1>5. File(t) \in Files
  BY <1>2, HeadFacts DEF ReadOk, Doing
<1> QED
  BY <1>2, <1>4, <1>5, FieldsDisjoint

(* Between its last write and its reply a handler has nothing to fail at   *)
(* that would not disturb the file.                                        *)
LEMMA WrittenAll ==
  ASSUME TypeOK, NEW t \in Tasks, ControlInv(t), req[t] # NoRequest, NEW f \in Files, NEW x \in FieldsOf(f),
         x \in Sets[req[t]], ~Has(todo[t], <<"write", f>>)
  PROVE  /\ \A i \in 1..Len(todo[t]) : todo[t][i][1] \in Last
         /\ todo[t] # << >> => Head(todo[t])[1] \in Last
<1>1. req[t] \in Requests
  BY DEF TypeOK
<1>2. \A i \in 1..Len(todo[t]) : todo[t][i][1] \in Last
  BY <1>1 DEF ControlInv, Plan, Pending
<1> QED
  BY <1>2, HeadFacts

(* What a handler has written stays on disk until its reply. *)
LEMMA WrittenStep ==
  ASSUME TypeOK, \A t \in Tasks : ControlInv(t), OverlapInv, MixedInv, Next,
         NEW f \in Files, f \notin disturbed', NEW x \in FieldsOf(f), WrittenInv(f, x)
  PROVE  WrittenInv(f, x)'
<1> DEFINE w == <<"write", f>>
<1>0. Grows /\ f \notin disturbed
  BY FilesGrow DEF Grows
<1>1. SUFFICES ASSUME NEW u \in Tasks, req'[u] # NoRequest, x \in Sets[req'[u]], ~Has(todo'[u], w)
               PROVE  state'[f] = "ok" /\ disk'[x] = arg'[u]
  BY DEF WrittenInv
<1>a. ASSUME NEW t \in Tasks, WriteBegins(t) \/ WriteEnds(t), File(t) = f
      PROVE  f \in Involved(t) /\ todo[t] # << >> /\ Head(todo[t])[1] \in {"write", "rewrite", "try", "init"}
             /\ todo[t][1] = <<Head(todo[t])[1], f>> /\ todo[t] \in Seq(Operations) /\ writing'[t] # writing[t]
  <2>1. todo[t] # << >> /\ Head(todo[t])[1] \in {"write", "rewrite", "try", "init"}
    BY <1>a DEF WriteBegins, WriteEnds, Doing, Writes
  <2>2. writing'[t] # writing[t]
    BY <1>a DEF WriteBegins, WriteEnds, TypeOK
  <2> QED BY <1>a, <2>1, <2>2, InvolvedHead, HeadFacts
<1>b. ASSUME req[u] # NoRequest, x \in Sets[req[u]], state[f] = "ok", disk[x] = arg[u], arg'[u] = arg[u],
             ~(WriteBegins(u) /\ File(u) = f), ~(WriteEnds(u) /\ File(u) = f)
      PROVE  state'[f] = "ok" /\ disk'[x] = arg'[u]
  <2>1. f \in Involved(u)
    BY <1>b, SetsInvolved DEF TypeOK
  <2>2. ASSUME NEW t \in Tasks, WriteBegins(t) \/ WriteEnds(t), File(t) = f PROVE FALSE
    <3>1. t = u
      BY <1>0, <1>a, <2>1, <2>2, Alone
    <3> QED BY <1>b, <2>2, <3>1
  <2>3. state'[f] = state[f] /\ disk'[x] = disk[x]
    BY <2>2, StateSteps, DiskSteps
  <2> QED BY <1>b, <2>3
<1>2. CASE SameAt(u)
  <2>1. req[u] # NoRequest /\ x \in Sets[req[u]] /\ ~Has(todo[u], w) /\ arg'[u] = arg[u]
    BY <1>1, <1>2 DEF SameAt
  <2>2. state[f] = "ok" /\ disk[x] = arg[u]
    BY <2>1 DEF WrittenInv
  <2>3. ~(WriteBegins(u) /\ File(u) = f) /\ ~(WriteEnds(u) /\ File(u) = f)
    BY <1>2, <1>a DEF SameAt
  <2> QED BY <1>b, <2>1, <2>2, <2>3
<1>3. CASE Ended(u)
  BY <1>1, <1>3 DEF Ended
<1>4. ASSUME NEW r \in Requests, HandleMessage(u, r) PROVE FALSE
  BY <1>1, <1>4, HandleMoves, HandlerPlan DEF Fresh
<1>5. CASE LaterStep(u) /\ Moved(u)
  <2>0. req[u] # NoRequest /\ x \in Sets[req[u]] /\ arg'[u] = arg[u] /\ req[u] \in Requests /\ ~End(u)
        /\ Plan(req[u], todo[u])
    BY <1>1, <1>5, EndEnds DEF Moved, TypeOK, Ended, ControlInv
  <2>1. CASE ~Has(todo[u], w)
    <3>1. state[f] = "ok" /\ disk[x] = arg[u]
      BY <2>0, <2>1 DEF WrittenInv
    <3>2. todo[u] # << >> => Head(todo[u])[1] \in Last
      BY <2>0, <2>1, WrittenAll
    <3>3. ~((WriteBegins(u) \/ WriteEnds(u)) /\ File(u) = f)
      <4>1. SUFFICES ASSUME WriteBegins(u) \/ WriteEnds(u), File(u) = f PROVE FALSE
        OBVIOUS
      <4>2. /\ todo[u] # << >> /\ Head(todo[u])[1] \in {"write", "rewrite", "try", "init"}
            /\ todo[u][1] = <<Head(todo[u])[1], f>> /\ todo[u] \in Seq(Operations)
        BY <1>a, <4>1
      <4>3. todo[u][1] = w /\ 1 \in 1..Len(todo[u])
        BY <3>2, <4>2, HeadFacts DEF Last
      <4> QED BY <2>1, <4>3 DEF Has
    <3> QED BY <1>b, <2>0, <3>1, <3>3
  <2>2. CASE Has(todo[u], w)
    <3>1. todo'[u] # todo[u]
      BY <1>1, <2>2
    <3>2. ~(todo[u] # << >> /\ todo[u][1][1] = "look")
      <4>1. req[u] # "config_server_settings_get"
        BY <2>0, RequestFacts
      <4> QED BY <2>0, <4>1, HeadFacts DEF Plan
    <3>3. ~(ReadMissing(u) /\ File(u) # "modsettings")
      <4>1. ASSUME ReadMissing(u), File(u) # "modsettings" PROVE Has(todo'[u], w) \/ w[1] = "read"
        BY <2>0, <2>2, <4>1, HasCreated
      <4> QED BY <1>1, <4>1
    <3>4. todo[u] # << >> /\ todo'[u] = Tail(todo[u])
      BY <1>5, <2>0, <3>1, <3>2, <3>3, TodoCases
    <3>5. todo[u][1] = w /\ Head(todo[u]) = w
      BY <1>1, <2>2, <3>4, HeadFacts, HasTail
    <3>6. Doing(u, Writes) /\ File(u) = f
      BY <3>4, <3>5 DEF Doing, Writes, File
    <3>7. ~WriteFails(u)
      BY <1>1, <2>2, FailureDisturbs, HasInvolved
    <3>8. ~Refuse(u) /\ ~WriteBegins(u)
      BY <2>0, <3>1 DEF Refuse, WriteBegins
    <3>a. Written(u)[x] = arg[u]
      BY <2>0, <3>5, FieldsDisjoint DEF Written
    <3>9. ~SkipSettings(u)
      <4>1. SUFFICES ASSUME SkipSettings(u) PROVE FALSE
        OBVIOUS
      <4>2. f = "modsettings" /\ Written(u)["settings"] = "default"
        BY <3>6, <4>1 DEF SkipSettings, NoSettings
      <4>3. x = "settings"
        BY <4>2, FieldFacts
      <4>4. req[u] = "mod_settings_set"
        BY <2>0, <4>3, RequestFacts
      <4>5. arg[u] = "a"
        BY <4>4 DEF ControlInv
      <4> QED BY <3>a, <4>2, <4>3, <4>5
    <3>10. WriteEnds(u)
      BY <1>5, <3>6, <3>7, <3>8, <3>9, WriterActs
    <3>11. state'[f] = "ok"
      BY <1>1, <3>6, <3>10, WriteEndsOk
    <3>12. disk'[x] = Written(u)[x]
      BY <3>6, <3>10, FieldsDisjoint DEF WriteEnds
    <3> QED BY <2>0, <3>a, <3>11, <3>12
  <2> QED BY <2>1, <2>2
<1> QED
  BY <1>2, <1>3, <1>4, <1>5, EveryTask DEF ControlInv

(* What a handler has written stays until it replies. *)
LEMMA ChangedStays ==
  ASSUME TypeOK, \A t \in Tasks : ControlInv(t), Next, NEW f \in Files, f \notin disturbed',
         NEW x \in FieldsOf(f), NEW v \in Tasks, Changed(v, f, x), disk'[x] = disk[x]
  PROVE  disk'[x] = promised'[x] \/ Changed(v, f, x)'
<1>0. /\ req[v] # NoRequest /\ req[v] \in Requests /\ x \in Sets[req[v]] /\ ~Has(todo[v], <<"write", f>>)
      /\ disk[x] = arg[v] /\ x \in Fields
  BY FieldsDisjoint DEF Changed, TypeOK
<1>1. CASE SameAt(v)
  BY <1>1 DEF SameAt, Changed
<1>2. CASE LaterStep(v) /\ Moved(v)
  <2>1. req'[v] = req[v] /\ arg'[v] = arg[v]
    BY <1>2 DEF Moved
  <2> QED BY <1>0, <1>2, <2>1, MovedHas DEF Changed
<1>3. CASE LaterStep(v) /\ ~Moved(v)
  <2>0. todo[v] # << >> => Head(todo[v])[1] \in Last
    BY <1>0, WrittenAll
  <2>1. ~WriteFails(v)
    BY <1>0, FailureDisturbs, SetsInvolved
  <2>2. ~ReadFails(v)
    BY <2>0 DEF ReadFails, Doing, Last
  <2>3. ~Join(v)
    <3>1. SUFFICES ASSUME Join(v) PROVE FALSE
      OBVIOUS
    <3>2. todo[v] # << >> /\ Head(todo[v])[1] = "join"
      BY <3>1 DEF Join, Doing
    <3>3. req[v] = "mod_list_set"
      BY <3>2, HeadFacts DEF ControlInv, Plan
    <3> QED BY <1>0, <3>3, RequestFacts
  <2>4. ~Refuse(v)
    <3>1. SUFFICES ASSUME Refuse(v) PROVE FALSE
      OBVIOUS
    <3>2. CASE req[v] = "mod_dlcs_set" /\ Has(todo[v], <<"write", "modlist">>)
      <4>1. x = "dlcs"
        BY <1>0, <3>2, RequestFacts
      <4>2. f = "modlist"
        BY <4>1, FieldFacts, FieldsDisjoint DEF Files
      <4> QED BY <1>0, <3>2, <4>2
    <3>3. CASE req[v] = "mod_settings_set" /\ Has(todo[v], <<"write", "modsettings">>)
      <4>1. x = "settings"
        BY <1>0, <3>3, RequestFacts
      <4>2. f = "modsettings"
        BY <4>1, FieldFacts, FieldsDisjoint DEF Files
      <4> QED BY <1>0, <3>3, <4>2
    <3>4. CASE req[v] \in {"config_server_settings_get", "server_start", "server_start_public"}
      BY <1>0, <3>4, RequestFacts
    <3> QED BY <3>1, <3>2, <3>3, <3>4, RefuseCases
  <2>5. ASSUME todo[v] # << >>, Continue(v) PROVE FALSE
    BY <1>3, <2>5, ContinueMoves DEF ControlInv
  <2>6. ~Look(v) /\ ~ReadMissing(v)
    BY <2>0 DEF Look, ReadMissing, Doing, Last
  <2>7. ~WriteBegins(v)
    <3>1. SUFFICES ASSUME WriteBegins(v) PROVE FALSE
      OBVIOUS
    <3>2. todo' = todo /\ req' = req /\ arg' = arg /\ want' = want
      BY <3>1 DEF WriteBegins, request
    <3> QED BY <1>0, <1>3, <3>2, WithinSame DEF Moved, ControlInv, TypeOK
  <2>8. Succeed(v)
    BY <1>3, <2>1, <2>2, <2>3, <2>4, <2>5, <2>6, <2>7
       DEF LaterStep, ReadOk, MakeDir, SkipSettings, WriteEnds, SpawnJobs, Doing
  <2>9. promised'[x] = arg[v]
    BY <1>0, <2>8 DEF Succeed
  <2> QED BY <1>0, <2>9
<1>4. ASSUME NEW r \in Requests, HandleMessage(v, r) PROVE FALSE
  BY <1>0, <1>4 DEF HandleMessage
<1>5. ~Crash
  BY <1>0, FailureDisturbs, SetsInvolved
<1>6. ASSUME NEW t \in Tasks, TaskStep(t), t # v PROVE SameAt(v)
  BY <1>6, OthersSame
<1>7. ASSUME NEW j \in jobs, Job(j) \/ JobFails(j) PROVE SameAt(v)
  BY <1>7, JobSame
<1> QED
  BY <1>1, <1>2, <1>3, <1>4, <1>5, <1>6, <1>7, TaskSteps DEF Next

(* A new promise is about a file no other handler is involved with. *)
LEMMA NewPromise ==
  ASSUME TypeOK, \A t \in Tasks : ControlInv(t), OverlapInv, Next, NEW f \in Files, f \notin disturbed,
         NEW x \in FieldsOf(f), WrittenInv(f, x), promised'[x] # promised[x]
  PROVE  /\ state'[f] = "ok" /\ disk'[x] = promised'[x]
         /\ \A u \in Tasks, o \in {"write", "rewrite", "try", "init"} : ~Has(todo'[u], <<o, f>>)
<1>1. PICK t \in Tasks : Succeed(t) /\ x \in Sets[req[t]] /\ promised'[x] = arg[t]
  BY PromisedSteps, FieldsDisjoint
<1>2. req[t] # NoRequest /\ req[t] \in Requests /\ todo[t] = << >> /\ End(t) /\ state' = state /\ disk' = disk
  BY <1>1 DEF Succeed, files, TypeOK
<1>3. ~Has(todo[t], <<"write", f>>)
  BY <1>2 DEF Has
<1>4. state[f] = "ok" /\ disk[x] = arg[t]
  BY <1>1, <1>2, <1>3 DEF WrittenInv
<1>5. f \in Involved(t)
  BY <1>1, <1>2, SetsInvolved
<1>6. ASSUME NEW u \in Tasks, NEW o \in {"write", "rewrite", "try", "init"}, Has(todo'[u], <<o, f>>) PROVE FALSE
  <2>1. CASE u = t
    <3>1. todo'[u] = << >>
      BY <1>2, <2>1, EndEnds DEF Ended
    <3> QED BY <1>6, <3>1 DEF Has
  <2>2. CASE u # t
    <3>1. Has(todo[u], <<o, f>>)
      BY <1>2, <1>6, <2>2, EndOthers DEF SameAt
    <3>2. f \in Involved(u)
      BY <3>1, HasInvolved
    <3> QED BY <1>5, <2>2, <3>2, Alone
  <2> QED BY <2>1, <2>2
<1> QED
  BY <1>1, <1>2, <1>4, <1>6

(* What overwrites a promised field writes what was promised, or what its   *)
(* own request sets.                                                        *)
LEMMA PromiseOnDisk ==
  ASSUME TypeOK, \A t \in Tasks : ControlInv(t), Next, NEW f \in Files, f \notin disturbed',
         NEW x \in FieldsOf(f), PromiseInv(f, x), promised[x] # "none", promised'[x] = promised[x]
  PROVE  disk'[x] = promised'[x] \/ \E t \in Tasks : Changed(t, f, x)'
<1>1. CASE disk'[x] = disk[x]
  <2>1. disk[x] = promised[x] \/ \E t \in Tasks : Changed(t, f, x)
    BY DEF PromiseInv
  <2>2. ASSUME NEW v \in Tasks, Changed(v, f, x) PROVE disk'[x] = promised'[x] \/ Changed(v, f, x)'
    BY <1>1, <2>2, ChangedStays
  <2> QED BY <1>1, <2>1, <2>2
<1>2. CASE disk'[x] # disk[x]
  <2>1. PICK t \in Tasks : WriteEnds(t) /\ File(t) = f /\ disk'[x] = Written(t)[x]
    BY <1>2, DiskSteps
  <2>2. /\ todo[t] # << >> /\ Head(todo[t])[1] \in {"write", "rewrite", "try", "init"} /\ Continue(t)
    BY <2>1 DEF WriteEnds, Doing, Writes
  <2>3. /\ todo[t] \in Seq(Operations) /\ Head(todo[t]) = todo[t][1] /\ 1 \in 1..Len(todo[t])
        /\ todo[t][1] = <<Head(todo[t])[1], f>> /\ req[t] # NoRequest
    BY <2>1, <2>2, HeadFacts
  <2>4. Head(todo[t])[1] \in {"write", "rewrite"}
    <3>1. Has(todo[t], <<Head(todo[t])[1], f>>)
      BY <2>3 DEF Has
    <3>2. ~Has(todo[t], <<"try", f>>) /\ ~Has(todo[t], <<"init", f>>)
      BY DEF PromiseInv
    <3> QED BY <2>2, <3>1, <3>2
  <2>5. Has(todo[t], <<Head(todo[t])[1], f>>) /\ ~Has(todo[t], <<"read", f>>)
    <3>1. CASE Head(todo[t])[1] = "write"
      BY <2>2, <2>3, <3>1, AfterWrite DEF Has
    <3>2. CASE Head(todo[t])[1] = "rewrite"
      <4>1. \A i \in 1..Len(todo[t]) : 1 < i => todo[t][i][2] # f
        BY <2>3, <3>2 DEF ControlInv, Plan, Saves
      <4>2. \A i \in 1..Len(todo[t]) : i = 1 \/ 1 < i
        OBVIOUS
      <4> QED BY <2>3, <3>2, <4>1, <4>2 DEF Has
    <3> QED BY <2>4, <3>1, <3>2
  <2>6. req'[t] = req[t] /\ arg'[t] = arg[t] /\ todo'[t] = Tail(todo[t])
    BY <2>2 DEF Continue, request, TypeOK
  <2>7. CASE x \in Sets[req[t]]
    <3>0. Head(todo[t])[1] = "write"
      <4>1. req[t] # "server_start_public"
        BY <2>7, RequestFacts
      <4> QED BY <2>3, <2>4, <4>1 DEF ControlInv, Plan, Saves
    <3>1. disk'[x] = arg[t]
      BY <2>1, <2>7, <3>0, FieldsDisjoint DEF Written
    <3>2. ~Has(Tail(todo[t]), <<"write", f>>)
      BY <2>2, <2>3, <3>0, AfterWrite
    <3>3. Changed(t, f, x)'
      BY <2>3, <2>6, <2>7, <3>1, <3>2 DEF Changed
    <3> QED BY <3>3
  <2>8. CASE x \notin Sets[req[t]]
    <3>1. disk'[x] = mem[t][x]
      BY <2>1, <2>8, FieldsDisjoint DEF Written
    <3>2. mem[t][x] = promised[x]
      BY <2>3, <2>4, <2>5, <2>8 DEF PromiseInv
    <3> QED BY <3>1, <3>2
  <2> QED BY <2>7, <2>8
<1> QED
  BY <1>1, <1>2

(* A promised field is not about to be overwritten by a default. *)
LEMMA PromiseNoDefault ==
  ASSUME TypeOK, \A t \in Tasks : ControlInv(t), Next, NEW f \in Files,
         NEW x \in FieldsOf(f), PromiseInv(f, x), promised[x] # "none",
         NEW u \in Tasks, NEW o \in {"try", "init"}, Has(todo'[u], <<o, f>>)
  PROVE  FALSE
<1>0. ~Has(todo[u], <<o, f>>) /\ state[f] # "missing" /\ Plan(req[u], todo[u])
  BY DEF PromiseInv, ControlInv
<1>1. CASE todo'[u] = todo[u]
  BY <1>0, <1>1
<1>2. todo'[u] # << >>
  BY DEF Has
<1>3. ASSUME NEW r \in Requests, HandleMessage(u, r) PROVE FALSE
  <2>1. todo'[u] = Handler[r]
    BY <1>3, HandleMoves
  <2>2. ~Has(Handler[r], <<"try", f>>) /\ ~Has(Handler[r], <<"init", f>>)
    BY HandlerPlan DEF Fresh
  <2>3. Has(Handler[r], <<o, f>>)
    BY <2>1
  <2> QED BY <2>2, <2>3
<1>4. CASE LaterStep(u) /\ Moved(u)
  <2>1. CASE ReadMissing(u) /\ File(u) # "modsettings"
    <3>1. <<o, f>> \in {<<"mkdir", "modlist">>, <<"init", File(u)>>, <<"try", File(u)>>}
      BY <1>0, <2>1, HasCreated
    <3>2. f = File(u)
      BY <3>1
    <3> QED BY <1>0, <2>1, <3>2 DEF ReadMissing
  <2>2. CASE todo[u] # << >> /\ todo'[u] = Tail(todo[u])
    BY <1>0, <2>2, HeadFacts, HasTail
  <2> QED BY <1>0, <1>1, <1>2, <1>4, <2>1, <2>2, TodoCases
<1>5. SameAt(u) => todo'[u] = todo[u]
  BY DEF SameAt
<1>6. Ended(u) => todo'[u] = << >>
  BY DEF Ended
<1> QED
  BY <1>0, <1>1, <1>2, <1>3, <1>4, <1>5, <1>6, EveryTask

(* A handler that will write a promised field has it in its copy. *)
LEMMA PromiseInCopy ==
  ASSUME TypeOK, \A t \in Tasks : ControlInv(t), OverlapInv, Next, NEW f \in Files, f \notin disturbed,
         NEW x \in FieldsOf(f) \ {"use_whitelist"}, PromiseInv(f, x), promised[x] # "none",
         promised["settings"] # "none" => mod_dir,
         NEW u \in Tasks, req'[u] # NoRequest, NEW o \in {"write", "rewrite"}, Has(todo'[u], <<o, f>>),
         ~Has(todo'[u], <<"read", f>>), x \notin Sets[req'[u]]
  PROVE  mem'[u][x] = promised[x]
<1> DEFINE w == <<o, f>>
           r == <<"read", f>>
<1>a. state[f] # "missing" /\ Plan(req[u], todo[u])
  BY DEF PromiseInv, ControlInv
<1>b. ASSUME req[u] # NoRequest, Has(todo[u], w), ~Has(todo[u], r), x \notin Sets[req[u]]
      PROVE  mem[u][x] = promised[x]
  BY <1>b DEF PromiseInv
<1>1. CASE SameAt(u)
  BY <1>1, <1>b DEF SameAt
<1>2. CASE Ended(u)
  BY <1>2 DEF Ended
<1>3. ASSUME NEW q \in Requests, HandleMessage(u, q) PROVE FALSE
  BY <1>3, HandleMoves, HandlerPlan DEF Fresh
<1>4. CASE LaterStep(u) /\ Moved(u)
  <2>0. req[u] # NoRequest /\ x \notin Sets[req[u]] /\ ~End(u)
    BY <1>4, EndEnds DEF Moved, Ended
  <2>1. Has(todo[u], w) /\ f \in Involved(u)
    BY <1>4, MovedHas, HasInvolved
  <2>2. CASE ~Has(todo[u], r)
    <3>1. mem[u][x] = promised[x]
      BY <1>b, <2>0, <2>1, <2>2
    <3>2. ~(ReadOk(u) /\ File(u) = f)
      <4>1. SUFFICES ASSUME ReadOk(u), File(u) = f PROVE FALSE
        OBVIOUS
      <4>2. todo[u] # << >> /\ Head(todo[u])[1] = "read"
        BY <4>1 DEF ReadOk, Doing
      <4>3. todo[u][1] = r /\ 1 \in 1..Len(todo[u])
        BY <4>1, <4>2, HeadFacts
      <4> QED BY <2>2, <4>3 DEF Has
    <3>3. mem'[u][x] = mem[u][x]
      BY <1>4, <2>0, <3>2, MemSteps
    <3> QED BY <3>1, <3>3
  <2>3. CASE Has(todo[u], r)
    <3>1. todo'[u] # todo[u] /\ todo'[u] # << >>
      BY <2>3 DEF Has
    <3>2. ~(ReadMissing(u) /\ File(u) # "modsettings")
      <4>1. SUFFICES ASSUME ReadMissing(u), File(u) # "modsettings" PROVE FALSE
        OBVIOUS
      <4>2. state[File(u)] = "missing" /\ ~(File(u) = "modlist" /\ mod_dir)
        BY <4>1 DEF ReadMissing
      <4>3. r[2] = File(u) \/ (File(u) = "modlist" /\ r[2] = "modsettings")
        BY <1>a, <2>3, <4>1, HasCreated
      <4>4. f = "modsettings" /\ File(u) = "modlist"
        BY <1>a, <4>2, <4>3
      <4>5. x = "settings"
        BY <4>4, FieldFacts
      <4> QED BY <4>2, <4>4, <4>5
    <3>3. todo[u] # << >> /\ todo'[u] = Tail(todo[u])
      BY <1>4, <1>a, <3>1, <3>2, TodoCases
    <3>4. todo[u][1] = r /\ Head(todo[u]) = r
      BY <2>3, <3>3, HeadFacts, HasTail
    <3>5. Head(todo[u])[1] = "read" /\ File(u) = f
      BY <3>4 DEF File
    <3>6. ~ReadMissing(u)
      BY <1>a, <3>5 DEF ReadMissing
    <3>7. /\ ~Look(u) /\ ~MakeDir(u) /\ ~SkipSettings(u) /\ ~WriteBegins(u)
          /\ ~WriteEnds(u) /\ ~SpawnJobs(u) /\ ~Join(u)
      BY <3>5 DEF Look, MakeDir, SkipSettings, WriteBegins, WriteEnds, SpawnJobs, Join, Doing, Writes
    <3>8. ~WriteFails(u) /\ ~ReadFails(u) /\ ~Refuse(u) /\ ~Succeed(u)
      BY <2>0, <3>5 DEF WriteFails, ReadFails, Refuse, Succeed, Doing, Writes
    <3>9. ReadOk(u)
      BY <1>4, <3>6, <3>7, <3>8 DEF LaterStep
    <3>10. mem'[u] = Loaded(u, f)
      BY <3>5, <3>9 DEF ReadOk, TypeOK
    <3>11. mem'[u][x] = disk[x]
      BY <3>10, FieldsDisjoint DEF Loaded
    <3>12. ASSUME NEW t \in Tasks, Changed(t, f, x) PROVE FALSE
      <4>1. req[t] \in Requests /\ x \in Sets[req[t]]
        BY <3>12 DEF Changed, TypeOK
      <4>2. f \in Involved(t)
        BY <4>1, SetsInvolved
      <4>3. t = u
        BY <2>1, <4>2, Alone
      <4> QED BY <2>0, <4>1, <4>3
    <3>13. disk[x] = promised[x]
      BY <3>12 DEF PromiseInv
    <3> QED BY <3>11, <3>13
  <2> QED BY <2>2, <2>3
<1> QED
  BY <1>a, <1>1, <1>2, <1>3, <1>4, EveryTask

(* Promises are kept. *)
LEMMA SettingsStep ==
  ASSUME TypeOK, \A t \in Tasks : ControlInv(t), OverlapInv, MixedInv, SettingsInv, Next
  PROVE  SettingsInv'
<1>0. Grows
  BY FilesGrow
<1>1. ASSUME NEW f \in Files, f \notin disturbed', NEW x \in FieldsOf(f) \ {"use_whitelist"}
      PROVE  KeptInv(f, x)'
  <2>1. f \notin disturbed /\ PromiseInv(f, x) /\ WrittenInv(f, x) /\ (promised["settings"] # "none" => mod_dir)
    BY <1>0, <1>1 DEF SettingsInv, KeptInv, Grows
  <2>2. WrittenInv(f, x)'
    BY <1>1, <2>1, WrittenStep
  <2>3. PromiseInv(f, x)'
    <3>1. CASE promised'[x] # promised[x]
      <4>1. /\ state'[f] = "ok" /\ disk'[x] = promised'[x]
            /\ \A u \in Tasks, o \in {"write", "rewrite", "try", "init"} : ~Has(todo'[u], <<o, f>>)
        BY <2>1, <3>1, NewPromise
      <4> QED BY <4>1 DEF PromiseInv
    <3>2. CASE promised'[x] = promised[x] /\ promised[x] # "none"
      <4>1. state'[f] # "missing"
        BY <1>0, <2>1, <3>2 DEF PromiseInv, Grows
      <4>2. disk'[x] = promised'[x] \/ \E t \in Tasks : Changed(t, f, x)'
        BY <1>1, <2>1, <3>2, PromiseOnDisk
      <4>3. \A u \in Tasks : ~Has(todo'[u], <<"try", f>>) /\ ~Has(todo'[u], <<"init", f>>)
        BY <2>1, <3>2, PromiseNoDefault
      <4>4. ASSUME NEW u \in Tasks, NEW o \in {"write", "rewrite"}, req'[u] # NoRequest, Has(todo'[u], <<o, f>>),
                   ~Has(todo'[u], <<"read", f>>), x \notin Sets[req'[u]]
            PROVE  mem'[u][x] = promised'[x]
        BY <2>1, <3>2, <4>4, PromiseInCopy
      <4> QED BY <4>1, <4>2, <4>3, <4>4 DEF PromiseInv
    <3>3. CASE promised'[x] = promised[x] /\ promised[x] = "none"
      BY <3>3 DEF PromiseInv
    <3> QED BY <3>1, <3>2, <3>3
  <2> QED BY <2>2, <2>3 DEF KeptInv
<1>2. ASSUME promised'["settings"] # "none" PROVE mod_dir'
  <2>1. CASE promised["settings"] # "none"
    BY <1>0, <2>1 DEF SettingsInv, Grows
  <2>2. CASE promised["settings"] = "none"
    <3>1. PICK t \in Tasks : Succeed(t) /\ "settings" \in Sets[req[t]]
      BY <1>2, <2>2, PromisedSteps DEF Fields
    <3>2. req[t] \in Requests /\ todo[t] = << >>
      BY <3>1 DEF Succeed, TypeOK
    <3>3. req[t] = "mod_settings_set"
      BY <3>1, <3>2, RequestFacts
    <3>4. mod_dir
      BY <3>2, <3>3 DEF ControlInv, Has
    <3> QED BY <1>0, <3>4 DEF Grows
  <2> QED BY <2>1, <2>2
<1> QED
  BY <1>1, <1>2 DEF SettingsInv

(* What is promised is on disk when the file is at rest. *)
LEMMA SettingsKeptFromInv ==
  ASSUME TypeOK, \A t \in Tasks : ControlInv(t), TornInv, DirInv, SettingsInv
  PROVE  SettingsKept
<1>1. SUFFICES ASSUME NEW f \in AtRest, NEW x \in FieldsOf(f) \ {"use_whitelist"}, promised[x] # "none"
               PROVE  state[f] = "ok" /\ disk[x] = promised[x]
  BY DEF SettingsKept
<1>2. f \in Files /\ f \notin disturbed /\ \A t \in Tasks : f \notin Involved(t)
  BY <1>1 DEF AtRest
<1>3. PromiseInv(f, x)
  BY <1>1, <1>2 DEF SettingsInv, KeptInv
<1>4. ASSUME NEW t \in Tasks, Changed(t, f, x) PROVE FALSE
  BY <1>2, <1>4, SetsInvolved DEF Changed, TypeOK
<1>5. state[f] # "torn"
  BY <1>1, ReadableFromInv DEF Readable
<1>6. state[f] # "missing" /\ disk[x] = promised[x]
  BY <1>1, <1>3, <1>4 DEF PromiseInv
<1>7. state[f] \in {"missing", "torn", "ok"}
  BY <1>2 DEF TypeOK
<1> QED
  BY <1>5, <1>6, <1>7

-----------------------------------------------------------------------------
(* The theorems                                                            *)

(* The invariant holds at the start. *)
LEMMA InitInv == Init => Inv
<1>1. SUFFICES ASSUME Init PROVE Inv
  OBVIOUS
<1>2. << >> \in Seq(Operations)
  OBVIOUS
<1>3. TypeOK
  <2>1. /\ state \in [Files -> {"missing", "torn", "ok"}]
        /\ disk \in [Fields -> Values]
        /\ mod_dir \in BOOLEAN
        /\ zips \subseteq Mods
    BY <1>1 DEF Init, Defaults, Values
  <2>2. /\ req \in [Tasks -> Requests \cup {NoRequest}]
        /\ arg \in [Tasks -> Values]
        /\ want \in [Tasks -> SUBSET Mods]
    BY <1>1 DEF Init, Values
  <2>3. /\ todo \in [Tasks -> Seq(Operations)]
        /\ \A t \in Tasks : req[t] = NoRequest => todo[t] = << >> /\ ~writing[t]
        /\ writing \in [Tasks -> BOOLEAN]
    BY <1>1, <1>2 DEF Init
  <2>4. mem \in [Tasks -> [Fields -> Values]]
    BY <1>1 DEF Init, Defaults, Values
  <2>5. /\ mixed \subseteq Tasks
        /\ jobs \subseteq (Tasks \cup {Nobody}) \X {"install", "delete"} \X Mods
        /\ failed \subseteq Tasks
        /\ promised \in [Fields -> Values \cup {"none"}]
        /\ promised_mods \in SUBSET Mods
        /\ disturbed \subseteq Files
    BY <1>1 DEF Init
  <2>6. requests \in 0..MaxRequests /\ trouble \in 0..MaxTrouble
    BY <1>1, ConstantsAssumption DEF Init
  <2> QED BY <2>1, <2>2, <2>3, <2>4, <2>5, <2>6 DEF TypeOK
<1>4. \A t \in Tasks : req[t] = NoRequest /\ todo[t] = << >> /\ writing[t] = FALSE /\ Involved(t) = {}
  BY <1>1 DEF Init, Involved
<1>5. \A t \in Tasks : ControlInv(t)
  BY <1>4, PlanEmpty DEF ControlInv, NoRequest
<1>6. OverlapInv /\ MixedInv /\ TornInv /\ DirInv
  BY <1>1, <1>4 DEF Init, OverlapInv, MixedInv, TornInv, DirInv
<1>7. \A t \in Tasks : ~Spawned(t)
  BY <1>4 DEF Spawned, NoRequest
<1>8. JobsInv /\ ModsInv
  BY <1>1, <1>7 DEF Init, JobsInv, ModsInv
<1>9. SettingsInv
  <2>1. \A x \in Fields : promised[x] = "none"
    BY <1>1 DEF Init
  <2>2. \A f \in Files : \A x \in FieldsOf(f) : KeptInv(f, x)
    BY <1>4, <2>1, FieldsDisjoint DEF KeptInv, PromiseInv, WrittenInv
  <2> QED BY <2>1, <2>2 DEF SettingsInv, Fields
<1> QED
  BY <1>3, <1>5, <1>6, <1>8, <1>9 DEF Inv

(* Every step keeps the invariant. *)
LEMMA StepInv == Inv /\ [Next]_vars => Inv'
<1>1. ASSUME Inv, Next PROVE Inv'
  <2>1. TypeOK /\ (\A t \in Tasks : ControlInv(t))
    BY <1>1 DEF Inv
  <2>2. OverlapInv /\ MixedInv /\ TornInv /\ DirInv /\ JobsInv /\ ModsInv /\ SettingsInv
    BY <1>1 DEF Inv
  <2>3. TypeOK'
    BY <1>1, <2>1, TypeStep
  <2>4. \A t \in Tasks : ControlInv(t)'
    BY <1>1, <2>1, ControlStep
  <2>5. OverlapInv' /\ MixedInv' /\ TornInv' /\ DirInv'
    BY <1>1, <2>1, <2>2, OverlapStep, MixedStep, TornStep, DirStep
  <2>6. JobsInv' /\ ModsInv' /\ SettingsInv'
    BY <1>1, <2>1, <2>2, JobsStep, ModsStep, SettingsStep
  <2> QED BY <2>3, <2>4, <2>5, <2>6 DEF Inv
<1>2. ASSUME Inv, UNCHANGED vars PROVE Inv'
  <2>1. /\ state' = state /\ disk' = disk /\ mod_dir' = mod_dir /\ zips' = zips
        /\ req' = req /\ arg' = arg /\ want' = want /\ todo' = todo /\ mem' = mem
        /\ writing' = writing /\ mixed' = mixed /\ jobs' = jobs /\ failed' = failed
        /\ promised' = promised /\ promised_mods' = promised_mods
        /\ disturbed' = disturbed /\ requests' = requests /\ trouble' = trouble
    BY <1>2 DEF vars
  <2>2. TypeOK'
    BY <1>2, <2>1 DEF Inv, TypeOK
  <2>3. \A t \in Tasks : Doing(t, Writes)' = Doing(t, Writes) /\ NoSettings(t)' = NoSettings(t)
    BY <2>1 DEF Doing, NoSettings, Written, File
  <2>4. \A t \in Tasks : ControlInv(t)'
    BY <1>2, <2>1, <2>3 DEF Inv, ControlInv
  <2>5. \A t \in Tasks : Involved(t)' = Involved(t)
    BY <2>1 DEF Involved, MayWrite, Creates
  <2>6. OverlapInv'
    BY <1>2, <2>1, <2>5 DEF Inv, OverlapInv
  <2>7. MixedInv' /\ TornInv' /\ DirInv'
    BY <1>2, <2>1 DEF Inv, MixedInv, TornInv, DirInv, File
  <2>8. JobsInv' /\ ModsInv'
    BY <1>2, <2>1 DEF Inv, JobsInv, ModsInv, DeltaInv, Spawned
  <2>9. ASSUME NEW f \in Files, NEW x \in FieldsOf(f), KeptInv(f, x) PROVE KeptInv(f, x)'
    BY <2>1, <2>9 DEF KeptInv, PromiseInv, WrittenInv, Changed
  <2>10. SettingsInv'
    BY <1>2, <2>1, <2>9 DEF Inv, SettingsInv
  <2> QED BY <2>2, <2>4, <2>6, <2>7, <2>8, <2>10 DEF Inv
<1> QED
  BY <1>1, <1>2

(* The invariant above holds throughout: every handler is somewhere in its  *)
(* plan, whatever the others do to the files it reads and writes.           *)
THEOREM Invariance == Spec => []Inv
BY InitInv, StepInv, PTL DEF Spec

(* The handlers of settings.rs and mods.rs keep every variable in its type, *)
(* and only one that runs has anything left to do.                          *)
THEOREM TypeCorrectness == Spec => []TypeOK
<1>1. Inv => TypeOK
  BY DEF Inv
<1> QED
  BY <1>1, Invariance, PTL

(* A file that no failure, crash or overlap has touched can be read: the    *)
(* truncating fs::write is always followed by the one that fills the file,  *)
(* and create_dir_all of the mod directory by the mod list's first write.   *)
THEOREM ReadableTheorem == Spec => []Readable
<1>1. Inv => Readable
  BY ReadableFromInv DEF Inv
<1> QED
  BY <1>1, Invariance, PTL

(* ModManager::apply: the zips on disk are the mods of the last list that   *)
(* was reported as applied, whatever requests ran in between.               *)
THEOREM ModsKeptTheorem == Spec => []ModsKept
<1>1. Inv => ModsKept
  BY ModsKeptFromInv DEF Inv
<1> QED
  BY <1>1, Invariance, PTL

(* What a config_..._set or mod_..._set handler reported as set stays set,  *)
(* although other handlers rewrite the whole file from their own copy.      *)
THEOREM SettingsKeptTheorem == Spec => []SettingsKept
<1>1. Inv => SettingsKept
  BY SettingsKeptFromInv DEF Inv
<1> QED
  BY <1>1, Invariance, PTL
=============================================================================
