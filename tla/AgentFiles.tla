----------------------------- MODULE AgentFiles ------------------------------
(***************************************************************************)
(* The agent's configuration files and mod directory                       *)
(* (src/src/agent/server/settings.rs, mods.rs) and the handlers of main.rs *)
(* that read and write them.  The handlers run concurrently and share no   *)
(* lock: each reads whole files into memory, changes its copy and writes   *)
(* whole files back.                                                       *)
(*                                                                         *)
(* A handler is the list of file operations it has still to do.  fs::write *)
(* truncates the file before it fills it, so that a reader in between, or  *)
(* a restart after a crash in between, finds a file it cannot parse.       *)
(***************************************************************************)
EXTENDS Naturals, Sequences, FiniteSets

CONSTANTS
  Tasks,        \* handlers that can be in flight together
  Mods,         \* mods of the mod portal
  MaxRequests,  \* bound on the requests handled, one less for each trouble
  MaxTrouble    \* bound on failed operations and crashes together

(* Who waits for a job whose handler has ended. *)
Nobody == "nobody"

ASSUME ConstantsAssumption ==
  /\ MaxRequests \in Nat /\ MaxTrouble \in Nat
  /\ Nobody \notin Tasks

(* The files, and the fields of each that handlers set.  The admin list     *)
(* stands for the ban list too.                                             *)
Files == {"launch", "server", "whitelist", "admin", "secrets", "modlist", "modsettings"}
Fields == {"rcon_password", "use_whitelist", "server", "whitelist", "admin", "secrets",
           "dlcs", "settings"}
FieldsOf(f) == CASE f = "launch"      -> {"rcon_password", "use_whitelist"}
                 [] f = "modlist"     -> {"dlcs"}
                 [] f = "modsettings" -> {"settings"}
                 [] OTHER             -> {f}
Values == {"default", "a"}

(* What a request sets, and the file operations of its handler.             *)
(* config_secrets_get writes nothing, whatever it finds, and is left out.   *)
Sets == [config_rcon_set |-> {"rcon_password"}, config_white_list_set |-> {"use_whitelist", "whitelist"},
         config_admin_list_set |-> {"admin"}, config_secrets_set |-> {"secrets"},
         config_server_settings_set |-> {"server"}, config_server_settings_get |-> {},
         mod_dlcs_set |-> {"dlcs"}, mod_settings_set |-> {"settings"}, mod_list_set |-> {},
         config_rcon_get |-> {}, config_white_list_get |-> {}, config_admin_list_get |-> {},
         mod_settings_get |-> {}, server_start |-> {}, server_start_public |-> {}]
Requests == DOMAIN Sets
Operations == {"read", "look", "write", "rewrite", "try", "init", "mkdir", "delta", "join"} \X Files

ReadMods  == << <<"read", "modlist">>, <<"read", "modsettings">> >>

WriteMods == << <<"mkdir", "modlist">>, <<"write", "modlist">>, <<"write", "modsettings">> >>

config_rcon_get == << <<"read", "launch">> >>

config_rcon_set == << <<"read", "launch">>, <<"write", "launch">> >>

config_white_list_get == << <<"read", "launch">>, <<"read", "whitelist">> >>

config_white_list_set == << <<"read", "launch">>, <<"write", "launch">>, <<"write", "whitelist">> >>

config_admin_list_get == << <<"read", "admin">> >>

config_admin_list_set == << <<"write", "admin">> >>

config_secrets_set == << <<"write", "secrets">> >>

(* The version lock it takes between the two reads is in AgentServer. *)
config_server_settings_get == << <<"look", "server">>, <<"read", "server">> >>

config_server_settings_set == << <<"write", "server">> >>

(* mod_list_get and mod_dlcs_get read the same. *)
mod_settings_get == ReadMods

mod_dlcs_set == ReadMods \o WriteMods

mod_settings_set == ReadMods \o WriteMods

mod_list_set == ReadMods \o << <<"read", "secrets">>, <<"delta", "modlist">> >>
                  \o WriteMods \o << <<"join", "modlist">> >>

(* A start, by its own request or at the end of version_install, of a server *)
(* that is not public, and of one that is, which the server settings say:    *)
(* they are written back, from the copy that was read, with the user name    *)
(* and token of the secrets in them.  The field "server" stands for all the  *)
(* other settings.                                                           *)
ReadBeforeStart == ReadMods \o << <<"read", "launch">>, <<"read", "server">> >>

ReadLists == << <<"read", "admin">>, <<"read", "whitelist">> >>

server_start == ReadBeforeStart \o ReadLists

server_start_public ==
  ReadBeforeStart \o << <<"read", "secrets">>, <<"rewrite", "server">> >> \o ReadLists

Handler ==
  [config_rcon_set |-> config_rcon_set, config_rcon_get |-> config_rcon_get,
   config_white_list_set |-> config_white_list_set,
   config_white_list_get |-> config_white_list_get,
   config_admin_list_set |-> config_admin_list_set,
   config_admin_list_get |-> config_admin_list_get,
   config_server_settings_get |-> config_server_settings_get,
   config_server_settings_set |-> config_server_settings_set,
   config_secrets_set |-> config_secrets_set, mod_settings_get |-> mod_settings_get,
   mod_dlcs_set |-> mod_dlcs_set, mod_settings_set |-> mod_settings_set,
   mod_list_set |-> mod_list_set,
   server_start |-> server_start, server_start_public |-> server_start_public]

NoRequest == "none"
Args(r) == IF r \in {"config_white_list_set", "config_admin_list_set", "mod_dlcs_set"}
           THEN Values ELSE {"a"}

VARIABLES
  state,      \* of each file: missing, torn (not parseable) or ok
  disk,       \* the fields the files hold
  mod_dir,    \* does the mod directory exist?
  zips,       \* the mods with a zip file in it, whole or not
  req, arg, want,   \* each task's request, the value and the mods it asks for
  todo,       \* what is left of its handler
  mem,        \* the fields it has read
  writing,    \* has it opened the file it writes?
  mixed,      \* tasks whose write overlaps with another of the same file
  jobs,       \* downloads and removals of mods under way, with the task that
              \* waits for them
  failed,     \* has one of the task's jobs failed?
  promised,   \* the value last reported as set, field by field
  promised_mods,
  disturbed,  \* files that overlapping handlers, a failure or a crash have touched
  requests, trouble

vars == <<state, disk, mod_dir, zips, req, arg, want, todo, mem, writing, mixed, jobs,
          failed, promised, promised_mods, disturbed, requests, trouble>>
files == <<state, disk, mod_dir, zips>>
request == <<req, arg, want>>
promises == <<promised, promised_mods>>

(* Every variable holds a value of the kind the code keeps in it, and only a *)
(* handler that runs has anything left to do.                                *)
TypeOK ==
  /\ state \in [Files -> {"missing", "torn", "ok"}]
  /\ disk \in [Fields -> Values]
  /\ mod_dir \in BOOLEAN
  /\ zips \subseteq Mods
  /\ req \in [Tasks -> Requests \cup {NoRequest}]
  /\ arg \in [Tasks -> Values]
  /\ want \in [Tasks -> SUBSET Mods]
  /\ todo \in [Tasks -> Seq(Operations)]
  /\ \A t \in Tasks : req[t] = NoRequest => todo[t] = << >> /\ ~writing[t]
  /\ mem \in [Tasks -> [Fields -> Values]]
  /\ writing \in [Tasks -> BOOLEAN]
  /\ mixed \subseteq Tasks
  /\ jobs \subseteq (Tasks \cup {Nobody}) \X {"install", "delete"} \X Mods
  /\ failed \subseteq Tasks
  /\ promised \in [Fields -> Values \cup {"none"}]
  /\ promised_mods \in SUBSET Mods
  /\ disturbed \subseteq Files
  /\ requests \in 0..MaxRequests /\ trouble \in 0..MaxTrouble

Defaults == [x \in Fields |-> "default"]

Init ==
  /\ state = [f \in Files |-> "missing"]
  /\ disk = Defaults
  /\ mod_dir = FALSE /\ zips = {}
  /\ req = [t \in Tasks |-> NoRequest]
  /\ arg = [t \in Tasks |-> "default"]
  /\ want = [t \in Tasks |-> {}]
  /\ todo = [t \in Tasks |-> << >>]
  /\ mem = [t \in Tasks |-> Defaults]
  /\ writing = [t \in Tasks |-> FALSE]
  /\ mixed = {} /\ jobs = {} /\ failed = {}
  /\ promised = [x \in Fields |-> "none"] /\ promised_mods = {}
  /\ disturbed = {}
  /\ requests = 0 /\ trouble = 0

-----------------------------------------------------------------------------
(* Handlers                                                                *)

Doing(t, ops) == todo[t] # << >> /\ Head(todo[t])[1] \in ops
File(t) == Head(todo[t])[2]

(* The files a list of operations writes, and those it may write: a read     *)
(* creates what is missing.                                                  *)
Rewrites(ops) ==
  {ops[i][2] : i \in {k \in 1..Len(ops) : ops[k][1] \notin {"read", "look"}}}
Creates(ops) ==
  {ops[i][2] : i \in {k \in 1..Len(ops) : /\ state[ops[k][2]] = "missing"
                                          /\ ops[k][2] \notin {"secrets", "modsettings"}}}
MayWrite(ops) == Rewrites(ops) \cup Creates(ops)
Involved(t) == IF req[t] = NoRequest THEN {}
               ELSE MayWrite(todo[t]) \cup Rewrites(Handler[req[t]])

HandleMessage(t, r) ==
  /\ req[t] = NoRequest /\ requests + trouble < MaxRequests
  /\ requests' = requests + 1
  /\ req' = [req EXCEPT ![t] = r]
  /\ \E v \in Args(r) : arg' = [arg EXCEPT ![t] = v]
  /\ \E w \in IF r = "mod_list_set" THEN SUBSET Mods ELSE {{}} : want' = [want EXCEPT ![t] = w]
  /\ todo' = [todo EXCEPT ![t] = Handler[r]]
  /\ UNCHANGED mem
  /\ disturbed' = disturbed \cup
       (MayWrite(Handler[r]) \cap UNION {Involved(u) : u \in Tasks \ {t}})
  /\ UNCHANGED <<files, writing, mixed, jobs, failed, promises, trouble>>

(* What a handler has been asked for and has read goes with it. *)
Forget(t) ==
  /\ arg' = [arg EXCEPT ![t] = "default"]
  /\ want' = [want EXCEPT ![t] = {}]
  /\ mem' = [mem EXCEPT ![t] = Defaults]

(* Mutant: a handler that fails leaves its file open. *)
EndKeepsOpen(t) ==
  /\ req' = [req EXCEPT ![t] = NoRequest]
  /\ todo' = [todo EXCEPT ![t] = << >>]
  /\ failed' = failed \ {t}
  /\ jobs' = {IF j[1] = t THEN <<Nobody, j[2], j[3]>> ELSE j : j \in jobs}
  /\ Forget(t)
  /\ UNCHANGED <<writing, mixed, requests>>

(* The handler replies and ends; jobs it did not wait for run on. *)
End(t) ==
  /\ req' = [req EXCEPT ![t] = NoRequest]
  /\ todo' = [todo EXCEPT ![t] = << >>]
  /\ writing' = [writing EXCEPT ![t] = FALSE]
  /\ mixed' = mixed \ {t}
  /\ failed' = failed \ {t}
  /\ jobs' = {IF j[1] = t THEN <<Nobody, j[2], j[3]>> ELSE j : j \in jobs}
  /\ Forget(t)
  /\ UNCHANGED requests

(* The checks that refuse a request: DLCs without the base game, no version  *)
(* installed, one that knows no DLCs or is being replaced; mod settings that *)
(* cannot be parsed; no version, or no example file in it, to take the       *)
(* default server settings from; a server that runs already, a save or a     *)
(* version that is not there, or secrets without a user name or a token.     *)
Refuse(t) ==
  /\ \/ req[t] = "mod_dlcs_set" /\ todo[t] = mod_dlcs_set
     \/ req[t] = "mod_settings_set" /\ todo[t] = WriteMods /\ ~writing[t]
     \/ req[t] = "config_server_settings_get" /\ Doing(t, {"read", "init"}) /\ ~writing[t]
     \/ /\ req[t] \in {"server_start", "server_start_public"} /\ ~writing[t]
        /\ \/ todo[t] = Handler[req[t]]
           \/ Doing(t, {"init", "rewrite"}) /\ File(t) = "server"
  /\ End(t)
  /\ UNCHANGED <<files, promises, disturbed, trouble>>

Continue(t) ==
  /\ todo' = [todo EXCEPT ![t] = Tail(@)]
  /\ UNCHANGED <<request, requests>>

(* reply_success *)
Succeed(t) ==
  /\ req[t] # NoRequest /\ todo[t] = << >>
  /\ promised' = [x \in Fields |-> IF x \in Sets[req[t]] THEN arg[t] ELSE promised[x]]
  /\ promised_mods' = IF req[t] = "mod_list_set" THEN want[t] ELSE promised_mods
  /\ End(t)
  /\ UNCHANGED <<files, disturbed, trouble>>

-----------------------------------------------------------------------------
(* Reading                                                                 *)

(* Mutant: everything but the file's presence is ignored. *)
LoadedDefaults(t, f) == mem[t]

(* LaunchSettings::read takes over the password only. *)
Loaded(t, f) == [x \in Fields |-> IF x \in FieldsOf(f) \ {"use_whitelist"} THEN disk[x]
                                  ELSE mem[t][x]]

(* Mutant: the mod list is left to a later request to write. *)
CreateDirOnly(f) == IF f = "modlist" THEN << <<"mkdir", f>> >> ELSE << <<"try", f>> >>

(* read_or_apply_default writes what is missing; for the mods and the       *)
(* server settings a failure of that fails the request.                     *)
Create(f) == CASE f = "modlist" -> << <<"mkdir", f>>, <<"init", f>> >>
               [] f = "server"  -> << <<"init", f>> >>
               [] OTHER         -> << <<"try", f>> >>

(* config_server_settings_get: what it finds is the answer; anything else,  *)
(* an error too, makes it read again.                                       *)
Look(t) ==
  /\ Doing(t, {"look"})
  /\ todo' = [todo EXCEPT ![t] = IF state[File(t)] = "ok" THEN << >> ELSE Tail(@)]
  /\ UNCHANGED <<request, requests>>
  /\ UNCHANGED <<files, mem, writing, mixed, jobs, failed, promises, disturbed, trouble>>

ReadOk(t) ==
  /\ Doing(t, {"read"}) /\ state[File(t)] = "ok"
  /\ mem' = [mem EXCEPT ![t] = Loaded(t, File(t))]
  /\ Continue(t)
  /\ UNCHANGED <<files, writing, mixed, jobs, failed, promises, disturbed, trouble>>

(* The settings of mods are optional, and not looked for in a directory that *)
(* did not exist.                                                            *)
ReadMissing(t) ==
  /\ Doing(t, {"read"}) /\ state[File(t)] = "missing"
  /\ File(t) # "secrets" /\ ~(File(t) = "modlist" /\ mod_dir)
  /\ todo' = [todo EXCEPT ![t] =
       CASE File(t) = "modsettings" -> Tail(@)
         [] File(t) = "modlist"     -> Create("modlist") \o Tail(Tail(@))
         [] OTHER                   -> Create(File(t)) \o Tail(@)]
  /\ UNCHANGED <<request, requests>>
  /\ UNCHANGED <<files, mem, writing, mixed, jobs, failed, promises, disturbed, trouble>>

(* A file that cannot be parsed, a mod directory without a mod list, or no  *)
(* secrets to download mods or to publish a server with.                    *)
ReadFails(t) ==
  /\ Doing(t, {"read", "delta"})
  /\ \/ state[File(t)] = "torn"
     \/ Doing(t, {"delta"}) /\ state["modsettings"] = "torn"
     \/ state[File(t)] = "missing" /\ (File(t) = "secrets" \/ (File(t) = "modlist" /\ mod_dir))
  /\ End(t)
  /\ UNCHANGED <<files, promises, disturbed, trouble>>

-----------------------------------------------------------------------------
(* Writing                                                                 *)

MakeDir(t) ==
  /\ Doing(t, {"mkdir"})
  /\ mod_dir' = TRUE
  /\ Continue(t)
  /\ UNCHANGED <<state, disk, zips, mem, writing, mixed, jobs, failed, promises, disturbed, trouble>>

Writes == {"write", "rewrite", "try", "init"}

(* What the task writes: its copy, with what its request sets. *)
Written(t) == [x \in Fields |-> IF Head(todo[t])[1] = "write" /\ x \in Sets[req[t]]
                                THEN arg[t] ELSE mem[t][x]]

NoSettings(t) == File(t) = "modsettings" /\ Written(t)["settings"] = "default"

SkipSettings(t) ==
  /\ Doing(t, Writes) /\ NoSettings(t)
  /\ Continue(t)
  /\ UNCHANGED <<files, mem, writing, mixed, jobs, failed, promises, disturbed, trouble>>

(* fs::write opens and truncates the file ... *)
WriteBegins(t) ==
  /\ Doing(t, Writes) /\ ~NoSettings(t) /\ ~writing[t]
  /\ writing' = [writing EXCEPT ![t] = TRUE]
  /\ state' = [state EXCEPT ![File(t)] = "torn"]
  /\ LET others == {u \in Tasks \ {t} : writing[u] /\ File(u) = File(t)}
     IN  mixed' = mixed \cup others \cup (IF others = {} THEN {} ELSE {t})
  /\ UNCHANGED <<disk, mod_dir, zips, request, todo, mem, jobs, failed, promises, disturbed,
                 requests, trouble>>

(* ... and then fills it; two writes that overlap can leave a mixture. *)
WriteEnds(t) ==
  /\ Doing(t, Writes) /\ writing[t]
  /\ writing' = [writing EXCEPT ![t] = FALSE]
  /\ mixed' = mixed \ {t}
  /\ disk' = [x \in Fields |-> IF x \in FieldsOf(File(t)) THEN Written(t)[x] ELSE disk[x]]
  /\ \/ state' = [state EXCEPT ![File(t)] = "ok"]
     \/ t \in mixed /\ UNCHANGED state
  /\ Continue(t)
  /\ UNCHANGED <<mod_dir, zips, mem, jobs, failed, promises, disturbed, trouble>>

(* Only the failure to write a default is not an error. *)
WriteFails(t) ==
  /\ trouble < MaxTrouble /\ trouble' = trouble + 1
  /\ Doing(t, Writes \cup {"mkdir"})
  /\ disturbed' = disturbed \cup Involved(t)
  /\ \/ /\ Head(todo[t])[1] = "try"
        /\ writing' = [writing EXCEPT ![t] = FALSE]
        /\ mixed' = mixed \ {t}
        /\ Continue(t)
        /\ UNCHANGED <<mem, jobs, failed>>
     \/ /\ Head(todo[t])[1] # "try"
        /\ End(t)
  /\ UNCHANGED <<files, promises>>

-----------------------------------------------------------------------------
(* ModManager::apply                                                       *)

(* Mutant: mods that are not wanted any more stay. *)
DeltaNoDelete(t) == {<<t, "install", m>> : m \in want[t] \ zips}

Delta(t) == {<<t, "install", m>> : m \in want[t] \ zips}
              \cup {<<t, "delete", m>> : m \in zips \ want[t]}

(* The mods on disk are read again, after the Ack, and the jobs spawned. *)
SpawnJobs(t) ==
  /\ Doing(t, {"delta"}) /\ state["modlist"] = "ok" /\ state["modsettings"] # "torn"
  /\ jobs' = jobs \cup Delta(t)
  /\ Continue(t)
  /\ UNCHANGED <<files, mem, writing, mixed, failed, promises, disturbed, trouble>>

Job(j) ==
  /\ j \in jobs
  /\ jobs' = jobs \ {j}
  /\ IF j[2] = "install" THEN zips' = zips \cup {j[3]} /\ UNCHANGED failed
     ELSE zips' = zips \ {j[3]} /\ failed' = IF j[3] \in zips \/ j[1] = Nobody THEN failed
                                             ELSE failed \cup {j[1]}
  /\ UNCHANGED <<state, disk, mod_dir, request, todo, mem, writing, mixed, promises, disturbed,
                 requests, trouble>>

(* A download that fails when the archive is being written leaves a part of  *)
(* it.  Nobody hears of a job that panics.                                   *)
JobFails(j) ==
  /\ trouble < MaxTrouble /\ trouble' = trouble + 1
  /\ j \in jobs
  /\ jobs' = jobs \ {j}
  /\ \/ UNCHANGED zips
     \/ j[2] = "install" /\ zips' = zips \cup {j[3]}
  /\ \/ UNCHANGED failed
     \/ j[1] # Nobody /\ failed' = failed \cup {j[1]}
  /\ disturbed' = disturbed \cup {"modlist"}
  /\ UNCHANGED <<state, disk, mod_dir, request, todo, mem, writing, mixed, promises, requests>>

(* join_all, and the errors of all jobs together. *)
Join(t) ==
  /\ Doing(t, {"join"})
  /\ \A j \in jobs : j[1] # t
  /\ \/ /\ t \notin failed
        /\ Continue(t)
        /\ UNCHANGED <<mem, writing, mixed, jobs, failed>>
     \/ t \in failed /\ End(t)
  /\ UNCHANGED <<files, promises, disturbed, trouble>>

-----------------------------------------------------------------------------
(* The agent is killed and started again; archives that were being written  *)
(* are left as they are.                                                    *)
Crash ==
  /\ trouble < MaxTrouble /\ trouble' = trouble + 1
  /\ disturbed' = disturbed \cup UNION {Involved(t) : t \in Tasks}
  /\ req' = [t \in Tasks |-> NoRequest]
  /\ todo' = [t \in Tasks |-> << >>]
  /\ writing' = [t \in Tasks |-> FALSE]
  /\ mixed' = {} /\ jobs' = {} /\ failed' = {}
  /\ \E M \in SUBSET {j[3] : j \in {k \in jobs : k[2] = "install"}} : zips' = zips \cup M
  /\ arg' = [t \in Tasks |-> "default"]
  /\ want' = [t \in Tasks |-> {}]
  /\ mem' = [t \in Tasks |-> Defaults]
  /\ UNCHANGED <<state, disk, mod_dir, promises, requests>>

TaskStep(t) ==
  \/ \E r \in Requests : HandleMessage(t, r)
  \/ Look(t) \/ ReadOk(t) \/ ReadMissing(t) \/ ReadFails(t)
  \/ MakeDir(t) \/ SkipSettings(t) \/ WriteBegins(t) \/ WriteEnds(t) \/ WriteFails(t)
  \/ SpawnJobs(t) \/ Join(t) \/ Refuse(t) \/ Succeed(t)

Next == \/ \E t \in Tasks : TaskStep(t)
        \/ \E j \in jobs : Job(j) \/ JobFails(j)
        \/ Crash

Spec == Init /\ [][Next]_vars

-----------------------------------------------------------------------------
(* Properties                                                              *)

AtRest == Files \ (disturbed \cup UNION {Involved(t) : t \in Tasks})

(* What was reported as set stays set, whatever other requests do to other   *)
(* fields of the same file, as long as no two handlers that write a file     *)
(* overlap and nothing fails.  A handler that only reads does no harm to a   *)
(* file that exists, even while another one writes it.  The start of a       *)
(* public server is a handler that writes the server settings.               *)
SettingsKept ==
  \A f \in AtRest :
    \A x \in FieldsOf(f) \ {"use_whitelist"} :
      promised[x] # "none" => state[f] = "ok" /\ disk[x] = promised[x]

(* The mods on disk are exactly those of the last list that was reported as  *)
(* applied, no matter what DLC and settings requests came in between.        *)
ModsKept == "modlist" \in AtRest => zips = promised_mods

(* A file no failure, crash or overlap has touched can be read: in           *)
(* particular no mod directory is left without its mod list.                 *)
Readable ==
  \A f \in AtRest : /\ state[f] # "torn"
                    /\ f = "modlist" /\ mod_dir => state[f] = "ok"

(* What the comment in LaunchSettings::read says and the code does not keep: *)
(* only the binds of the saved file are ignored, so that a white list that   *)
(* was switched on is on when the file is read.                              *)
WhitelistKept ==
  \A t \in Tasks :
    "launch" \in AtRest /\ promised["use_whitelist"] # "none" =>
      state["launch"] = "ok" /\ Loaded(t, "launch")["use_whitelist"] = promised["use_whitelist"]
=============================================================================
