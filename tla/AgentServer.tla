---------------------------- MODULE AgentServer ----------------------------
(***************************************************************************)
(* The agent's control of the Factorio installations and of the Factorio   *)
(* processes (src/src/agent/main.rs, server/proc.rs, server/mod.rs,        *)
(* factorio.rs, util/saves.rs).                                            *)
(*                                                                         *)
(* Every WebSocket message is handled in a task of its own, so any number  *)
(* of handlers interleave at their await points.  They share               *)
(*   - the VersionManager behind a tokio RwLock (versions, writer,         *)
(*     readers) and the installation directories (disk),                   *)
(*   - the ProcessManager's running_instance behind a tokio Mutex          *)
(*     (instance, mutex) and the child processes (proc),                   *)
(*   - the save directory (saves), which no lock protects.                 *)
(* A handler is a task t with a control point pc[t] and its local          *)
(* variables; one action is the code between two await points at which     *)
(* another handler can be noticed.                                         *)
(***************************************************************************)
EXTENDS Naturals, Sequences

CONSTANTS
  Tasks,       \* handler tasks that can be in flight at once
  Main,        \* the task of main(), which stops the server on SIGINT
  Versions,    \* Factorio versions a client may ask for
  NewScheme,   \* those whose directory is named factorio-headless_linux_<v>
  Saves,       \* names of save files
  Pids,        \* identities of child processes
  Ops,         \* requests the clients send
  Faults,      \* failures that can happen
  NoTask, NoVersion, NoSave, Latest, NoPid

(* The requests that take the version lock or the process mutex, or create   *)
(* or delete a save.  Those that only transfer a save are in SaveTransfer,  *)
(* those that only read or write settings and mods in AgentFiles.           *)
Requests == {"version_install", "version_get", "server_start", "server_stop",
             "server_status", "save_create", "save_delete", "rcon_command",
             "mod_dlcs_set", "config_server_settings_get"}

(* "stop": the SIGTERM to a child, or the wait for it, fails.  "config": an  *)
(* I/O error on the settings files or on the save directory.                *)
FaultKinds == {"download", "unpack", "delete", "spawn", "stop", "poll",
               "config", "crash", "sigint"}

Workers == Tasks \cup {Main}

ASSUME ConstantsAssumption ==
  /\ Main \notin Tasks /\ NoTask \notin Workers
  /\ NoVersion \notin Versions /\ NewScheme \subseteq Versions
  /\ NoSave \notin Saves /\ Latest \notin Saves /\ NoSave # Latest
  /\ NoPid \notin Pids
  /\ Ops \subseteq Requests /\ Faults \subseteq FaultKinds

VARIABLES
  versions,  \* keys of VersionManager.versions
  disk,      \* state of each installation directory
  saves,     \* save files on disk
  writer,    \* holder of version_manager.write()
  readers,   \* holders of version_manager.read()
  mutex,     \* holder of running_instance across an await
  instance,  \* running_instance: the pid of the StartedInstance, or NoPid
  proc,      \* child processes
  pc,        \* where each task is
  op,        \* the request it serves
  to,        \* version_to_install
  force,     \* force_install
  from,      \* version_from / the installation picked for a start
  save,      \* save name; in an install, the savefile of opt_stopped_instance
  child,     \* process the task is waiting for with the mutex held
  found,     \* history: what stop_instance made of the running instance
  sent       \* statuses of the replies sent for the operation

vars == <<versions, disk, saves, writer, readers, mutex, instance, proc,
          pc, op, to, force, from, save, child, found, sent>>
install == <<versions, disk>>
locks   == <<writer, readers>>
process == <<mutex, instance, proc, child>>
request == <<op, to, force, found>>

FreeProc == [state |-> "free", kind |-> "host",
             version |-> NoVersion, save |-> NoSave]

Steps == {"idle", "vi_lock", "in_download", "in_unpack", "st_lock", "st_wait",
          "rm_start", "rm_wait", "ss_lock", "start_check", "start_config",
          "start_lock", "stat_poll", "stat_read", "vg_lock", "sc_exists",
          "sc_lock", "sc_build", "sc_mutex", "sc_wait", "sd_exists",
          "sd_remove", "rc_lock", "rc_wait", "md_lock", "md_apply", "sg_read",
          "sg_lock", "sg_init", "done"}

Statuses == {"Ack", "Ongoing", "Completed", "Failed"}

DirStates == {"absent", "partial", "complete"}

(* What stop_instance finds: no instance, one that it stops, or one that it  *)
(* fails to stop and drops.                                                 *)
Outcomes == {"nothing", "stopped", "dropped"}

(* A dropped process is one whose handles the agent has let go of: it is     *)
(* killed (kill_on_drop) and exits at some time, but nobody waits for it.   *)
ProcRecords == [state: {"free", "running", "terminating", "exited", "failed", "dropped"},
                kind: {"host", "create"},
                version: Versions \cup {NoVersion},
                save: Saves \cup {NoSave, Latest}]

(* Every variable holds a value of the kind the code keeps in it.          *)
TypeOK ==
  /\ versions \subseteq Versions
  /\ disk \in [Versions -> DirStates]
  /\ saves \subseteq Saves
  /\ writer \in Workers \cup {NoTask}
  /\ readers \subseteq Workers
  /\ mutex \in Workers \cup {NoTask}
  /\ instance \in Pids \cup {NoPid}
  /\ proc \in [Pids -> ProcRecords]
  /\ pc \in [Workers -> Steps]
  /\ op \in [Workers -> Requests \cup {"none", "shutdown"}]
  /\ to \in [Workers -> Versions \cup {NoVersion}]
  /\ force \in [Workers -> BOOLEAN]
  /\ from \in [Workers -> Versions \cup {NoVersion}]
  /\ save \in [Workers -> Saves \cup {NoSave, Latest}]
  /\ child \in [Workers -> Pids \cup {NoPid}]
  /\ found \in [Workers -> Outcomes]
  /\ sent \in [Workers -> Seq(Statuses)]

-----------------------------------------------------------------------------
(* Replies and locks.                                                      *)

Goto(t, s) == pc' = [pc EXCEPT ![t] = s]

Send(t, status) == sent' = [sent EXCEPT ![t] = Append(@, status)]

(* Progress messages: a run of them counts once. *)
Progress(t) ==
  sent' = [sent EXCEPT ![t] = IF @ # << >> /\ @[Len(@)] = "Ongoing"
                              THEN @ ELSE Append(@, "Ongoing")]

(* Mutant: the read guard outlives the handler. *)
FinishKeepsGuard(t, status) ==
  /\ Goto(t, "done")
  /\ Send(t, status)
  /\ writer' = IF writer = t THEN NoTask ELSE writer
  /\ UNCHANGED readers

(* The last reply, after which the handler returns and drops its guards. *)
Finish(t, status) ==
  /\ Goto(t, "done")
  /\ Send(t, status)
  /\ readers' = readers \ {t}
  /\ writer' = IF writer = t THEN NoTask ELSE writer

Reply(t, status) ==
  /\ Finish(t, status)
  /\ UNCHANGED <<install, saves, process, request, from, save>>

(* tokio RwLock, bounded by timeout(250 ms): a waiter times out only while  *)
(* the lock is not to be had; a reader also queues behind a waiting writer. *)
CanWrite == writer = NoTask /\ readers = {}
CanRead  == writer = NoTask
WriteTimesOut(t) == ~CanWrite
ReadTimesOut(t) == ~CanRead \/ \E u \in Tasks \ {t} : pc[u] = "vi_lock"

-----------------------------------------------------------------------------
Init ==
  /\ versions = {}
  /\ disk = [v \in Versions |-> "absent"]
  /\ saves = {}
  /\ writer = NoTask /\ readers = {} /\ mutex = NoTask
  /\ instance = NoPid
  /\ proc = [p \in Pids |-> FreeProc]
  /\ pc = [t \in Workers |-> "idle"]
  /\ op = [t \in Workers |-> "none"]
  /\ to = [t \in Workers |-> NoVersion]
  /\ force = [t \in Workers |-> FALSE]
  /\ from = [t \in Workers |-> NoVersion]
  /\ save = [t \in Workers |-> NoSave]
  /\ child = [t \in Workers |-> NoPid]
  /\ found = [t \in Workers |-> "nothing"]
  /\ sent = [t \in Workers |-> << >>]

FirstStep(o) ==
  CASE o = "version_install" -> "vi_lock"
    [] o = "version_get"     -> "vg_lock"
    [] o = "server_start"    -> "ss_lock"
    [] o = "server_stop"     -> "st_lock"
    [] o = "server_status"   -> "stat_poll"
    [] o = "save_create"     -> "sc_exists"
    [] o = "save_delete"     -> "sd_exists"
    [] o = "rcon_command"    -> "rc_lock"
    [] o = "mod_dlcs_set"    -> "md_lock"
    [] o = "config_server_settings_get" -> "sg_read"

(* message_loop spawns handle_message, which calls the request's handler. *)
HandleMessage(t) ==
  \E o \in Ops, v \in Versions, f \in BOOLEAN, s \in Saves \cup {Latest} :
    /\ pc[t] = "idle"
    /\ s = Latest => o = "server_start"
    /\ Goto(t, FirstStep(o))
    /\ op' = [op EXCEPT ![t] = o]
    /\ to' = [to EXCEPT ![t] = IF o = "version_install" THEN v ELSE NoVersion]
    /\ force' = [force EXCEPT ![t] = f /\ o = "version_install"]
    /\ save' = [save EXCEPT ![t] =
                  IF o \in {"server_start", "save_create", "save_delete"}
                  THEN s ELSE NoSave]
    /\ UNCHANGED <<install, saves, locks, process, found, from, sent>>

(* The handler's future completes and its task goes away. *)
Retire(t) ==
  /\ pc[t] = "done"
  /\ Goto(t, "idle")
  /\ op' = [op EXCEPT ![t] = "none"]
  /\ to' = [to EXCEPT ![t] = NoVersion]
  /\ force' = [force EXCEPT ![t] = FALSE]
  /\ from' = [from EXCEPT ![t] = NoVersion]
  /\ save' = [save EXCEPT ![t] = NoSave]
  /\ found' = [found EXCEPT ![t] = "nothing"]
  /\ sent' = [sent EXCEPT ![t] = << >>]
  /\ UNCHANGED <<install, saves, locks, process>>

-----------------------------------------------------------------------------
(* version_install                                                         *)

InstallConflict(t) ==
  /\ pc[t] = "vi_lock"
  /\ WriteTimesOut(t)
  /\ Reply(t, "Failed")

(* Mutant: a forced re-install does not stop the server first. *)
InstallLockNoStop(t) ==
  /\ pc[t] = "vi_lock"
  /\ CanWrite
  /\ \E v \in IF versions = {} THEN {NoVersion} ELSE versions :
       /\ from' = [from EXCEPT ![t] = v]
       /\ v # to[t] \/ force[t]
  /\ Goto(t, "in_download")
  /\ Send(t, "Ack")
  /\ writer' = t
  /\ UNCHANGED <<install, saves, readers, process, request, save>>

(* The write lock is taken, the request acknowledged, and an arbitrary key *)
(* of the map taken for the installed version.                             *)
InstallLock(t) ==
  /\ pc[t] = "vi_lock"
  /\ CanWrite
  /\ \E v \in IF versions = {} THEN {NoVersion} ELSE versions :
       /\ from' = [from EXCEPT ![t] = v]
       /\ \/ /\ v = to[t] /\ ~force[t]
             /\ Goto(t, "done")
             /\ sent' = [sent EXCEPT ![t] = @ \o <<"Ack", "Completed">>]
             /\ UNCHANGED writer
          \/ /\ v = to[t] /\ force[t]
             /\ Goto(t, "st_lock")
             /\ Send(t, "Ack")
             /\ writer' = t
          \/ /\ v # to[t]
             /\ Goto(t, "in_download")
             /\ sent' = [sent EXCEPT ![t] = @ \o <<"Ack", "Ongoing">>]
             /\ writer' = t
  /\ UNCHANGED <<install, saves, readers, process, request, save>>

(* VersionManager::install, the download. *)
InstallDownload(t) ==
  /\ pc[t] = "in_download"
  /\ \/ /\ "download" \in Faults
        /\ Reply(t, "Failed")
     \/ /\ Goto(t, "in_unpack")
        /\ disk' = [disk EXCEPT ![to[t]] = "partial"]
        /\ UNCHANGED <<versions, saves, locks, process, request, from, save, sent>>

(* Mutant: the stopped server is not started again. *)
FinishWithoutRestart(t) == Finish(t, "Completed")

(* Where version_install goes when to[t] is installed (and, if that was an *)
(* upgrade, from[t] removed): restart what was stopped, or reply.          *)
RestartOrFinish(t) ==
  \/ /\ save[t] = NoSave
     /\ Finish(t, "Completed")
  \/ /\ save[t] # NoSave
     /\ Goto(t, "start_check")
     /\ Progress(t)
     /\ UNCHANGED locks

(* Mutant: an upgrade removes the old version without stopping the server. *)
InstallUnpackNoStop(t) ==
  /\ pc[t] = "in_unpack"
  /\ versions' = versions \cup {to[t]}
  /\ disk' = [disk EXCEPT ![to[t]] = "complete"]
  /\ \/ /\ from[t] \in {NoVersion, to[t]}
        /\ RestartOrFinish(t)
     \/ /\ from[t] \notin {NoVersion, to[t]}
        /\ Goto(t, "rm_start")
        /\ Progress(t)
        /\ UNCHANGED locks
  /\ UNCHANGED <<saves, process, request, from, save>>

(* Mutant: the new installation is not entered in the map. *)
InstallUnpackNotMapped(t) ==
  /\ pc[t] = "in_unpack"
  /\ disk' = [disk EXCEPT ![to[t]] = "complete"]
  /\ \/ /\ from[t] \in {NoVersion, to[t]}
        /\ RestartOrFinish(t)
     \/ /\ from[t] \notin {NoVersion, to[t]}
        /\ Goto(t, "st_lock")
        /\ Progress(t)
        /\ UNCHANGED locks
  /\ versions' = IF from[t] = NoVersion THEN {to[t]} ELSE versions
  /\ UNCHANGED <<saves, process, request, from, save>>

(* VersionManager::install, the end of the unpacking. *)
InstallUnpack(t) ==
  /\ pc[t] = "in_unpack"
  /\ \/ /\ "unpack" \in Faults
        /\ Reply(t, "Failed")
     \/ /\ versions' = versions \cup {to[t]}
        /\ disk' = [disk EXCEPT ![to[t]] = "complete"]
        /\ \/ /\ from[t] = NoVersion
              /\ Finish(t, "Completed")
           \/ /\ from[t] = to[t]
              /\ RestartOrFinish(t)
           \/ /\ from[t] \notin {NoVersion, to[t]}
              /\ Goto(t, "st_lock")
              /\ Progress(t)
              /\ UNCHANGED locks
        /\ UNCHANGED <<saves, process, request, from, save>>

(* VersionManager::delete of the previous version after an upgrade. *)
DeleteStart(t) ==
  /\ pc[t] = "rm_start"
  /\ \/ /\ "delete" \in Faults \/ from[t] \notin versions
        /\ Reply(t, "Failed")
     \/ /\ from[t] \in versions
        /\ Goto(t, "rm_wait")
        /\ disk' = [disk EXCEPT ![from[t]] = "partial"]
        /\ UNCHANGED <<versions, saves, locks, process, request, from, save, sent>>

(* Mutant: the version stays in the map after its directory is gone. *)
DeleteEndKeepsKey(t) ==
  /\ pc[t] = "rm_wait"
  /\ disk' = [disk EXCEPT ![from[t]] = "absent"]
  /\ RestartOrFinish(t)
  /\ UNCHANGED <<versions, saves, process, request, from, save>>

(* Mutant: no return after the removal has failed. *)
DeleteEndNoReturn(t) ==
  /\ pc[t] = "rm_wait"
  /\ "delete" \in Faults
  /\ Goto(t, "start_check")
  /\ Send(t, "Failed")
  /\ UNCHANGED <<install, saves, locks, process, request, from, save>>

DeleteEnd(t) ==
  /\ pc[t] = "rm_wait"
  /\ \/ /\ "delete" \in Faults
        /\ Reply(t, "Failed")
     \/ /\ disk' = [disk EXCEPT ![from[t]] = "absent"]
        /\ versions' = versions \ {from[t]}
        /\ RestartOrFinish(t)
        /\ UNCHANGED <<saves, process, request, from, save>>

-----------------------------------------------------------------------------
(* ProcessManager::stop_instance, called by server_stop, by both branches   *)
(* of version_install and by main on SIGINT.  s is the savefile of the      *)
(* StoppedInstance it returns, NoSave for None: the caller cannot tell an   *)
(* instance that could not be stopped from no instance at all.              *)

AfterStop(t, s, outcome) ==
  \/ /\ op[t] = "server_stop"
     /\ Finish(t, "Completed")
     /\ UNCHANGED <<save, found>>
  \/ /\ op[t] = "shutdown"
     /\ Goto(t, "done")
     /\ UNCHANGED <<save, found, sent, locks>>
  \/ /\ op[t] = "version_install"
     /\ Goto(t, IF from[t] = to[t] THEN "in_download" ELSE "rm_start")
     /\ save' = [save EXCEPT ![t] = s]
     /\ found' = [found EXCEPT ![t] = outcome]
     /\ Progress(t)
     /\ UNCHANGED locks

Exited(p) == proc[p].state \in {"exited", "failed"}

(* The handles of child p are dropped with the process in whatever state it  *)
(* is ("hope the underlying process exits and cleans up eventually"); all   *)
(* that matters of it from then on is the save it may still write.          *)
Drop(p) == proc' = [proc EXCEPT ![p] = [FreeProc EXCEPT !.state = "dropped",
                                                        !.save = proc[p].save]]

StopInstance(t) ==
  /\ pc[t] = "st_lock"
  /\ mutex = NoTask
  /\ instance' = NoPid
  /\ \/ /\ instance = NoPid
        /\ AfterStop(t, NoSave, "nothing")
        /\ UNCHANGED <<mutex, proc, child>>
     \/ /\ instance # NoPid /\ Exited(instance)
        /\ proc' = [proc EXCEPT ![instance] = FreeProc]
        /\ AfterStop(t, proc[instance].save, "stopped")
        /\ UNCHANGED <<mutex, child>>
     \/ /\ instance # NoPid /\ ~Exited(instance)
        /\ proc' = [proc EXCEPT ![instance].state = "terminating"]
        /\ mutex' = t
        /\ child' = [child EXCEPT ![t] = instance]
        /\ Goto(t, "st_wait")
        /\ UNCHANGED <<locks, found, save, sent>>
     \/ /\ "stop" \in Faults /\ instance # NoPid
        /\ Drop(instance)
        /\ AfterStop(t, NoSave, "dropped")
        /\ UNCHANGED <<mutex, child>>
  /\ UNCHANGED <<install, saves, op, to, force, from>>

StopWait(t) ==
  /\ pc[t] = "st_wait"
  /\ \/ /\ Exited(child[t])
        /\ proc' = [proc EXCEPT ![child[t]] = FreeProc]
        /\ AfterStop(t, proc[child[t]].save, "stopped")
     \/ /\ "stop" \in Faults
        /\ Drop(child[t])
        /\ AfterStop(t, NoSave, "dropped")
  /\ child' = [child EXCEPT ![t] = NoPid]
  /\ mutex' = NoTask
  /\ UNCHANGED <<install, saves, instance, op, to, force, from>>

-----------------------------------------------------------------------------
(* server_start and internal_server_start_with_version                     *)

ReadConflict(t) ==
  /\ pc[t] \in {"ss_lock", "vg_lock", "sc_lock", "md_lock"}
  /\ ReadTimesOut(t)
  /\ Reply(t, "Failed")

(* Mutant: the read guard is dropped once the version is known. *)
ServerStartDropsGuard(t) ==
  /\ pc[t] = "ss_lock"
  /\ CanRead
  /\ \/ /\ versions = {}
        /\ Reply(t, "Failed")
     \/ \E v \in versions :
          /\ from' = [from EXCEPT ![t] = v]
          /\ Goto(t, "start_check")
          /\ UNCHANGED <<install, saves, writer, readers, process, request, save, sent>>

ServerStart(t) ==
  /\ pc[t] = "ss_lock"
  /\ CanRead
  /\ \/ /\ versions = {}
        /\ Reply(t, "Failed")
     \/ \E v \in versions :
          /\ from' = [from EXCEPT ![t] = v]
          /\ readers' = readers \cup {t}
          /\ Goto(t, "start_check")
          /\ UNCHANGED <<install, saves, writer, process, request, save, sent>>

StartCheckSave(t) ==
  /\ pc[t] = "start_check"
  /\ \/ /\ save[t] \notin saves      \* Latest included: it is never allowed
        /\ Reply(t, "Failed")
     \/ /\ save[t] \in saves
        /\ Goto(t, "start_config")
        /\ UNCHANGED <<install, saves, locks, process, request, from, save, sent>>

(* Mods, launch and server settings, secrets, admin, ban and white list. *)
StartReadConfig(t) ==
  /\ pc[t] = "start_config"
  /\ \/ /\ "config" \in Faults
        /\ Reply(t, "Failed")
     \/ /\ Goto(t, "start_lock")
        /\ UNCHANGED <<install, saves, locks, process, request, from, save, sent>>

(* The installation a start uses: the one just installed, or the one picked *)
StartVersion(t) == IF op[t] = "version_install" THEN to[t] ELSE from[t]

SpawnFails(v) == "spawn" \in Faults \/ disk[v] # "complete"

Spawn(p, kind, v, s) ==
  /\ proc[p] = FreeProc
  /\ proc' = [proc EXCEPT ![p] = [state |-> "running", kind |-> kind,
                                  version |-> v, save |-> s]]

(* Mutant: running_instance is replaced without looking. *)
StartInstanceUnchecked(t) ==
  /\ pc[t] = "start_lock"
  /\ mutex = NoTask
  /\ \E p \in Pids :
       /\ Spawn(p, "host", StartVersion(t), save[t])
       /\ instance' = p
  /\ Finish(t, "Completed")
  /\ UNCHANGED <<install, saves, mutex, child, request, from, save>>

(* ProcessManager::start_instance: no await between lock and unlock. *)
StartInstance(t) ==
  /\ pc[t] = "start_lock"
  /\ mutex = NoTask
  /\ \/ /\ instance # NoPid \/ SpawnFails(StartVersion(t))
        /\ Reply(t, "Failed")
     \/ /\ instance = NoPid
        /\ \E p \in Pids :
             /\ Spawn(p, "host", StartVersion(t), save[t])
             /\ instance' = p
        /\ Finish(t, "Completed")
        /\ UNCHANGED <<install, saves, mutex, child, request, from, save>>

-----------------------------------------------------------------------------
(* server_status: the mutex is taken twice.                                *)

(* Mutant: the cleanup forgets an instance that has not exited. *)
StatusPollForgets(t) ==
  /\ pc[t] = "stat_poll"
  /\ mutex = NoTask
  /\ instance' = NoPid
  /\ Finish(t, "Completed")
  /\ UNCHANGED <<install, saves, mutex, proc, child, request, from, save>>

StatusPoll(t) ==
  /\ pc[t] = "stat_poll"
  /\ mutex = NoTask
  /\ \/ /\ instance = NoPid
        /\ Reply(t, "Completed")
     \/ /\ instance # NoPid /\ Exited(instance)
        /\ instance' = NoPid
        /\ proc' = [proc EXCEPT ![instance] = FreeProc]
        /\ Finish(t, "Completed")
        /\ UNCHANGED <<install, saves, mutex, child, request, from, save>>
     \/ /\ instance # NoPid
        /\ ~Exited(instance) \/ "poll" \in Faults
        /\ Goto(t, "stat_read")
        /\ UNCHANGED <<install, saves, locks, process, request, from, save, sent>>

StatusRead(t) ==
  /\ pc[t] = "stat_read"
  /\ mutex = NoTask
  /\ Reply(t, "Completed")

VersionGet(t) ==
  /\ pc[t] = "vg_lock"
  /\ CanRead
  /\ Reply(t, "Completed")

-----------------------------------------------------------------------------
(* save_create                                                             *)

SaveCreateExists(t) ==
  /\ pc[t] = "sc_exists"
  /\ \/ /\ save[t] \in saves \/ "config" \in Faults
        /\ Reply(t, "Failed")
     \/ /\ save[t] \notin saves
        /\ Goto(t, "sc_lock")
        /\ UNCHANGED <<install, saves, locks, process, request, from, save, sent>>

SaveCreateLock(t) ==
  /\ pc[t] = "sc_lock"
  /\ CanRead
  /\ \/ /\ versions = {}
        /\ Goto(t, "done")
        /\ sent' = [sent EXCEPT ![t] = @ \o <<"Ack", "Failed">>]
        /\ UNCHANGED <<from, readers>>
     \/ \E v \in versions :
          /\ from' = [from EXCEPT ![t] = v]
          /\ readers' = readers \cup {t}
          /\ Goto(t, "sc_build")
          /\ Send(t, "Ack")
  /\ UNCHANGED <<install, saves, writer, process, request, save>>

(* create_dir_all and the builder, which writes the settings files. *)
SaveCreateBuild(t) ==
  /\ pc[t] = "sc_build"
  /\ \/ /\ "config" \in Faults
        /\ Reply(t, "Failed")
     \/ /\ Goto(t, "sc_mutex")
        /\ UNCHANGED <<install, saves, locks, process, request, from, save, sent>>

(* Mutant: the mutex is released while the process runs. *)
SaveCreateStartUnlocked(t) ==
  /\ pc[t] = "sc_mutex"
  /\ mutex = NoTask
  /\ instance = NoPid
  /\ \E p \in Pids :
       /\ Spawn(p, "create", from[t], save[t])
       /\ child' = [child EXCEPT ![t] = p]
  /\ Goto(t, "sc_wait")
  /\ UNCHANGED <<install, saves, locks, mutex, instance, request, from, save, sent>>

(* start_and_wait_for_shortlived_instance keeps the mutex while it waits. *)
SaveCreateStart(t) ==
  /\ pc[t] = "sc_mutex"
  /\ mutex = NoTask
  /\ \/ /\ instance # NoPid \/ SpawnFails(from[t])
        /\ Reply(t, "Failed")
     \/ /\ instance = NoPid
        /\ \E p \in Pids :
             /\ Spawn(p, "create", from[t], save[t])
             /\ child' = [child EXCEPT ![t] = p]
        /\ mutex' = t
        /\ Goto(t, "sc_wait")
        /\ UNCHANGED <<install, saves, locks, instance, request, from, save, sent>>

SaveCreateWait(t) ==
  /\ pc[t] = "sc_wait"
  /\ \/ /\ Exited(child[t])
        /\ proc' = [proc EXCEPT ![child[t]] = FreeProc]
        /\ Finish(t, IF proc[child[t]].state = "exited" THEN "Completed" ELSE "Failed")
     \/ /\ "stop" \in Faults
        /\ Drop(child[t])
        /\ Finish(t, "Failed")
  /\ child' = [child EXCEPT ![t] = NoPid]
  /\ mutex' = NoTask
  /\ UNCHANGED <<install, saves, instance, request, from, save>>

-----------------------------------------------------------------------------
(* save_delete, rcon_command, mod_dlcs_set, config_server_settings_get     *)

SaveDeleteExists(t) ==
  /\ pc[t] = "sd_exists"
  /\ \/ /\ save[t] \notin saves \/ "config" \in Faults
        /\ Reply(t, "Failed")
     \/ /\ save[t] \in saves
        /\ Goto(t, "sd_remove")
        /\ UNCHANGED <<install, saves, locks, process, request, from, save, sent>>

SaveDeleteRemove(t) ==
  /\ pc[t] = "sd_remove"
  /\ saves' = saves \ {save[t]}
  /\ Finish(t, IF save[t] \in saves THEN "Completed" ELSE "Failed")
  /\ UNCHANGED <<install, process, request, from, save>>

(* Not running, RCON not connected or an empty command: an error at once;   *)
(* otherwise the mutex is held until RCON answers.                          *)
RconSend(t) ==
  /\ pc[t] = "rc_lock"
  /\ mutex = NoTask
  /\ \/ Reply(t, "Failed")
     \/ /\ instance # NoPid
        /\ mutex' = t
        /\ Goto(t, "rc_wait")
        /\ UNCHANGED <<install, saves, locks, instance, proc, child, request,
                       from, save, sent>>

(* Mutant: the mutex stays locked after the answer. *)
RconAnswerKeepsMutex(t) ==
  /\ pc[t] = "rc_wait"
  /\ Finish(t, "Completed")
  /\ UNCHANGED <<install, saves, mutex, instance, proc, child, request, from, save>>

RconAnswer(t) ==
  /\ pc[t] = "rc_wait"
  /\ mutex' = NoTask
  /\ \E status \in {"Completed", "Failed"} : Finish(t, status)
  /\ UNCHANGED <<install, saves, instance, proc, child, request, from, save>>

(* A list without the base game is refused before the lock is asked for. *)
ModDlcsLock(t) ==
  /\ pc[t] = "md_lock"
  /\ \/ Reply(t, "Failed")
     \/ \E v \in versions :
          /\ CanRead
          /\ from' = [from EXCEPT ![t] = v]
          /\ readers' = readers \cup {t}
          /\ Goto(t, "md_apply")
          /\ UNCHANGED <<install, saves, writer, process, request, save, sent>>

(* The list is written with the read guard held; it may not suit version 1. *)
ModDlcsApply(t) ==
  /\ pc[t] = "md_apply"
  /\ \E status \in {"Completed", "Failed"} : Reply(t, status)

SettingsGetRead(t) ==
  /\ pc[t] = "sg_read"
  /\ \/ Reply(t, "Completed")
     \/ /\ Goto(t, "sg_lock")
        /\ UNCHANGED <<install, saves, locks, process, request, from, save, sent>>

(* This read lock has no timeout. *)
SettingsGetLock(t) ==
  /\ pc[t] = "sg_lock"
  /\ CanRead
  /\ \/ /\ versions = {}
        /\ Reply(t, "Failed")
     \/ \E v \in versions :
          /\ from' = [from EXCEPT ![t] = v]
          /\ readers' = readers \cup {t}
          /\ Goto(t, "sg_init")
          /\ UNCHANGED <<install, saves, writer, process, request, save, sent>>

SettingsGetInit(t) ==
  /\ pc[t] = "sg_init"
  /\ \E status \in {"Completed", "Failed"} : Reply(t, status)

-----------------------------------------------------------------------------
(* The child processes, and the agent's own end                            *)

(* A host may save its game on its way out. *)
HostExits(p) ==
  /\ proc[p].kind = "host"
  /\ proc[p].state \in {"running", "terminating"}
  /\ proc' = [proc EXCEPT ![p].state = "exited"]
  /\ saves' \in {saves, saves \cup {proc[p].save}}
  /\ UNCHANGED <<install, locks, mutex, instance, child, pc, request, from, save, sent>>

CreateExits(p) ==
  /\ proc[p].kind = "create"
  /\ proc[p].state = "running"
  /\ \/ /\ proc' = [proc EXCEPT ![p].state = "exited"]
        /\ saves' = saves \cup {proc[p].save}
     \/ /\ proc' = [proc EXCEPT ![p].state = "failed"]
        /\ UNCHANGED saves
  /\ UNCHANGED <<install, locks, mutex, instance, child, pc, request, from, save, sent>>

(* A process that was let go is gone at last, and may have saved before. *)
DroppedExits(p) ==
  /\ proc[p].state = "dropped"
  /\ proc' = [proc EXCEPT ![p] = FreeProc]
  /\ saves' \in {saves, saves \cup {proc[p].save}}
  /\ UNCHANGED <<install, locks, mutex, instance, child, pc, request, from, save, sent>>

(* SIGINT ends WebSocketListener::run; main then calls stop_instance while *)
(* the handlers in flight go on.                                           *)
Sigint ==
  /\ "sigint" \in Faults
  /\ pc[Main] = "idle"
  /\ Goto(Main, "st_lock")
  /\ op' = [op EXCEPT ![Main] = "shutdown"]
  /\ UNCHANGED <<install, saves, locks, process, to, force, found, from, save, sent>>

(* VersionManager::new looks only for factorio_headless_x64_ directories.  *)
Scan == {v \in Versions : disk[v] # "absent"} \ NewScheme

(* main returns, or the agent is killed (it is the container's first        *)
(* process: its children die with it), and a new agent starts.              *)
Restart ==
  /\ pc[Main] = "done" \/ "crash" \in Faults
  /\ versions' = Scan
  /\ writer' = NoTask /\ readers' = {} /\ mutex' = NoTask
  /\ instance' = NoPid
  /\ proc' = [p \in Pids |-> FreeProc]
  /\ pc' = [t \in Workers |-> "idle"]
  /\ op' = [t \in Workers |-> "none"]
  /\ to' = [t \in Workers |-> NoVersion]
  /\ force' = [t \in Workers |-> FALSE]
  /\ from' = [t \in Workers |-> NoVersion]
  /\ save' = [t \in Workers |-> NoSave]
  /\ child' = [t \in Workers |-> NoPid]
  /\ found' = [t \in Workers |-> "nothing"]
  /\ sent' = [t \in Workers |-> << >>]
  /\ UNCHANGED <<disk, saves>>

-----------------------------------------------------------------------------
TaskStep(t) ==
  \/ InstallConflict(t) \/ InstallLock(t) \/ InstallDownload(t) \/ InstallUnpack(t)
  \/ DeleteStart(t) \/ DeleteEnd(t)
  \/ StopInstance(t) \/ StopWait(t)
  \/ ReadConflict(t) \/ ServerStart(t) \/ StartCheckSave(t) \/ StartReadConfig(t)
  \/ StartInstance(t)
  \/ StatusPoll(t) \/ StatusRead(t) \/ VersionGet(t)
  \/ SaveCreateExists(t) \/ SaveCreateLock(t) \/ SaveCreateBuild(t)
  \/ SaveCreateStart(t) \/ SaveCreateWait(t)
  \/ SaveDeleteExists(t) \/ SaveDeleteRemove(t)
  \/ RconSend(t) \/ RconAnswer(t)
  \/ ModDlcsLock(t) \/ ModDlcsApply(t)
  \/ SettingsGetRead(t) \/ SettingsGetLock(t) \/ SettingsGetInit(t)

Next ==
  \/ \E t \in Tasks : HandleMessage(t) \/ TaskStep(t) \/ Retire(t)
  \/ StopInstance(Main) \/ StopWait(Main)
  \/ \E p \in Pids : HostExits(p) \/ CreateExits(p) \/ DroppedExits(p)
  \/ Sigint
  \/ Restart

Spec == Init /\ [][Next]_vars

(* A task that can run is run, and a task waiting for the mutex (which tokio *)
(* hands over first come, first served) or for the untimed read lock gets it *)
(* if it becomes free again and again.  A process told to terminate, and one *)
(* that creates a map, exits; a host that is left alone need never exit.     *)
(* Nothing is assumed of the game's RCON port and of the download server:    *)
(* the code waits for both without a timeout.                                *)
MutexSteps(t) ==
  StopInstance(t) \/ StartInstance(t) \/ StatusPoll(t) \/ StatusRead(t)
    \/ SaveCreateStart(t) \/ RconSend(t) \/ SettingsGetLock(t)

Untimed == {"rc_wait", "in_download"}

Fairness ==
  /\ \A t \in Tasks : /\ WF_vars(TaskStep(t) /\ pc[t] \notin Untimed)
                      /\ SF_vars(MutexSteps(t))
                      /\ WF_vars(Retire(t))
  /\ \A p \in Pids : /\ WF_vars(CreateExits(p))
                     /\ WF_vars(HostExits(p) /\ proc[p].state = "terminating")

FairSpec == Spec /\ Fairness

-----------------------------------------------------------------------------
(* Properties                                                              *)

(* A process that runs under the agent's eye. *)
Live(p) == proc[p].state \in {"running", "terminating"}

Tracked(p) == proc[p].kind = "host" /\ p = instance
Awaited(p) == \E t \in Workers : pc[t] \in {"st_wait", "sc_wait"} /\ mutex = t /\ child[t] = p

(* At most one Factorio process is alive at any time, whichever handlers    *)
(* race to start one (the comment of start_and_wait_for_shortlived_instance *)
(* says "hold mutex to prevent anything else from running"), but for those  *)
(* that a failed stop or wait has dropped and whose kill has not taken      *)
(* effect yet: proc.rs starts the next one beside them.                     *)
OneProcess == \A p, q \in Pids : Live(p) /\ Live(q) => p = q

(* Only a failed stop or wait loses a child process: every other one that   *)
(* is not reaped is the tracked running_instance, or is waited for by the   *)
(* task that holds the mutex, and not both.  One that was dropped is        *)
(* neither: the agent cannot stop it any more.                              *)
NoLostChild ==
  \A p \in Pids : proc[p].state # "free" =>
    IF proc[p].state = "dropped"
    THEN "stop" \in Faults /\ ~Tracked(p) /\ ~Awaited(p)
    ELSE (Tracked(p) \/ Awaited(p)) /\ ~(p = instance /\ Awaited(p))

(* The installation a live process runs from is in the version map and on   *)
(* disk: an upgrade removes it only after stop_instance, and no start can   *)
(* slip in before the removal because the write lock is held.  (A dropped   *)
(* process may outlive its installation.)                                   *)
InstalledWhileRunning ==
  \A p \in Pids : Live(p) =>
    proc[p].version \in versions /\ disk[proc[p].version] # "absent"

Replacing(t) ==
  \/ pc[t] \in {"rm_start", "rm_wait"}
  \/ pc[t] \in {"in_download", "in_unpack"} /\ from[t] = to[t]

(* While version_install removes the old version, or re-installs the        *)
(* current one, no Factorio process is alive but for dropped ones.          *)
QuietWhileReplacing ==
  \A t \in Tasks : Replacing(t) => \A p \in Pids : ~Live(p)

(* version_install "assumes there is at most one version installed": only   *)
(* when that fails can it unpack over the installation of a live process.   *)
OverwriteNeedsTwoVersions ==
  \A t \in Tasks, p \in Pids :
    pc[t] = "in_unpack" /\ Live(p) /\ proc[p].version = to[t]
      => \E v \in versions : v # to[t]

(* The restart at the end of version_install unwraps versions.get(..): the  *)
(* version is in the map, and completely unpacked, until the server starts. *)
RestartVersionPresent ==
  \A t \in Tasks :
    op[t] = "version_install" /\ pc[t] \in {"start_check", "start_config", "start_lock"}
      => to[t] \in versions /\ disk[to[t]] = "complete"

(* When neither unpacking nor removal fails and the agent is not killed, the *)
(* map lists only complete installations, save for the one being replaced.  *)
MapListsCompleteInstalls ==
  Faults \cap {"unpack", "delete", "crash", "sigint"} = {} =>
    \A v \in versions :
      \/ disk[v] = "complete"
      \/ \E t \in Tasks : writer = t /\ \/ pc[t] = "in_unpack" /\ to[t] = v
                                        \/ pc[t] = "rm_wait" /\ from[t] = v

Terminal == {"Completed", "Failed"}

(* The reply protocol of OperationStatus: one terminal reply, sent last and  *)
(* by every handler; progress only after an Ack, and nothing before the Ack. *)
ReplyProtocol ==
  \A t \in Tasks :
    LET s == sent[t] IN
      /\ \A i \in 1..Len(s) : s[i] \in Terminal <=> (pc[t] = "done" /\ i = Len(s))
      /\ \A i \in 1..Len(s) : s[i] = "Ack" => i = 1
      /\ \A i \in 1..Len(s) : s[i] = "Ongoing" => s[1] = "Ack"
      /\ pc[t] = "done" => s # << >>

(* An install that is reported Completed has started again the server it    *)
(* stopped, on the new version and with the same save.  It has not when     *)
(* there was no server to stop, nor when the stop failed: stop_instance     *)
(* then gives None, and success is reported with no server running.         *)
UpgradeRestarts ==
  [][\A t \in Tasks :
       /\ op[t] = "version_install"
       /\ pc[t] # "done" /\ pc'[t] = "done"
       /\ sent'[t][Len(sent'[t])] = "Completed"
       => CASE found[t] = "stopped" ->
                 /\ instance' # NoPid
                 /\ proc'[instance'].state = "running"
                 /\ proc'[instance'].version = to[t]
                 /\ proc'[instance'].save = save[t]
            [] found[t] = "dropped" -> instance' = NoPid
            [] OTHER -> TRUE]_vars

(* Every request is answered, whatever the other handlers do, as long as no *)
(* RCON command and no download is left without an answer for ever; the     *)
(* requests that need neither the mutex nor an untimed lock are answered in *)
(* that case too.                                                           *)
EveryRequestAnswered ==
  /\ (\A u \in Tasks : []<>(pc[u] \notin Untimed))
       => \A t \in Tasks : pc[t] # "idle" ~> pc[t] = "done"
  /\ \A t \in Tasks :
       op[t] \in {"version_get", "save_delete", "mod_dlcs_set"} ~> pc[t] = "done"

(* What a comment of the code says and the code does not keep:              *)
(* "Scan install dir for versions on disk": after a restart the agent knows *)
(* the installations that are complete on disk.                             *)
ScanFindsInstalled ==
  [][Restart => \A v \in Versions : disk[v] = "complete" => v \in versions']_vars

-----------------------------------------------------------------------------
(* The inductive invariant behind the safety properties                     *)

StartSteps == {"start_check", "start_config", "start_lock"}
WaitSteps  == {"st_wait", "sc_wait"}

(* What the control points say of the request being served. *)
ControlInv ==
  /\ pc[Main] \in {"idle", "st_lock", "st_wait", "done"}
  /\ pc[Main] # "idle" => op[Main] = "shutdown"
  /\ \A t \in Tasks :
       /\ op[t] # "shutdown"
       /\ pc[t] \in {"vi_lock", "in_download", "in_unpack", "rm_start", "rm_wait"}
            => op[t] = "version_install"
       /\ pc[t] \in {"st_lock", "st_wait"} => op[t] \in {"version_install", "server_stop"}
       /\ pc[t] = "ss_lock" => op[t] = "server_start"
       /\ pc[t] \in StartSteps => op[t] \in {"version_install", "server_start"}
       /\ pc[t] \in {"sc_exists", "sc_lock", "sc_build", "sc_mutex", "sc_wait"}
            => op[t] = "save_create" /\ save[t] \in Saves
       /\ op[t] = "version_install" => to[t] \in Versions
       /\ pc[t] \in {"start_config", "start_lock"} => save[t] \in Saves

HoldsWrite(t) ==
  /\ op[t] = "version_install"
  /\ pc[t] \in {"in_download", "in_unpack", "rm_start", "rm_wait",
                "st_lock", "st_wait"} \cup StartSteps
HoldsRead(t) ==
  \/ pc[t] \in {"sc_build", "sc_mutex", "sc_wait", "md_apply", "sg_init"}
  \/ op[t] = "server_start" /\ pc[t] \in StartSteps

(* The lock variables agree with the control points, and a writer excludes  *)
(* every reader.                                                            *)
LockInv ==
  /\ \A t \in Workers : /\ writer = t <=> HoldsWrite(t)
                        /\ t \in readers <=> HoldsRead(t)
                        /\ mutex = t <=> pc[t] \in {"st_wait", "sc_wait", "rc_wait"}
  /\ writer # NoTask => readers = {}

Owned(p) == proc[p].state \notin {"free", "dropped"}

(* Who owns the child processes. *)
ProcInv ==
  /\ \A t \in Workers : pc[t] \in WaitSteps =>
       /\ child[t] \in Pids
       /\ Owned(child[t])
       /\ instance = NoPid
  /\ instance # NoPid => Owned(instance) /\ proc[instance].kind = "host"
  /\ \A p \in Pids :
       /\ Owned(p) => p = instance \/ \E t \in Workers : pc[t] \in WaitSteps /\ child[t] = p
       /\ proc[p].state # "free" => proc[p].save \in Saves
       /\ proc[p].state = "dropped" => "stop" \in Faults

(* Which installations a handler relies on. *)
TaskInstallInv(t) ==
  /\ HoldsRead(t) => from[t] \in versions
  /\ HoldsWrite(t) =>
       /\ pc[t] \in {"in_download", "in_unpack"} =>
            IF from[t] = NoVersion THEN versions = {} ELSE from[t] \in versions
       /\ pc[t] \in {"st_lock", "st_wait"} => from[t] \in versions
       /\ pc[t] \in {"rm_start", "rm_wait"} => from[t] \in versions /\ from[t] # to[t]
       /\ \/ pc[t] \in {"rm_start", "rm_wait"} \cup StartSteps
          \/ pc[t] \in {"st_lock", "st_wait"} /\ from[t] # to[t]
          => to[t] \in versions /\ disk[to[t]] = "complete"

(* Mapped installations exist, processes run from mapped ones. *)
InstallInv ==
  /\ \A v \in versions : disk[v] # "absent"
  /\ \A p \in Pids : Live(p) => proc[p].version \in versions
  /\ \A t \in Tasks : TaskInstallInv(t)

(* All of it, with the one safety property that is part of the induction.   *)
IInv == TypeOK /\ ControlInv /\ LockInv /\ ProcInv /\ InstallInv /\ QuietWhileReplacing

-----------------------------------------------------------------------------
(* What the agent promises of the Factorio server, seen from outside.       *)
LiveProcesses ==
  {[kind |-> proc[p].kind, version |-> proc[p].version, save |-> proc[p].save] :
     p \in {q \in Pids : Live(q)}}

Lifecycle == INSTANCE ServerLifecycle WITH installed <- versions, live <- LiveProcesses

(* The handlers implement ServerLifecycle: one process at a time, launched  *)
(* only from an installed version, and versions removed only when nothing   *)
(* runs.                                                                    *)
ImplementsLifecycle == Lifecycle!Spec
=============================================================================
