-------------------------- MODULE AgentServerProofs --------------------------
(***************************************************************************)
(* Proofs about AgentServer for any number of tasks, versions, saves and   *)
(* pids and any set of failures: the inductive invariant IInv, the safety  *)
(* properties that follow from it, and the refinement of ServerLifecycle.  *)
(***************************************************************************)
EXTENDS AgentServer, TLAPS

-----------------------------------------------------------------------------
(* Type correctness                                                        *)

(* Replies keep sent a sequence of statuses. *)
LEMMA SendType ==
  ASSUME TypeOK, NEW t \in Workers, NEW s \in Statuses,
         Send(t, s) \/ Progress(t) \/ sent' = [sent EXCEPT ![t] = @ \o <<"Ack", s>>]
  PROVE  sent' \in [Workers -> Seq(Statuses)]
<1>1. sent \in [Workers -> Seq(Statuses)]
  BY DEF TypeOK
<1>2. Append(sent[t], s) \in Seq(Statuses) /\ Append(sent[t], "Ongoing") \in Seq(Statuses)
  BY <1>1 DEF Statuses
<1>3. <<"Ack", s>> \in Seq(Statuses)
  BY DEF Statuses
<1>4. sent[t] \o <<"Ack", s>> \in Seq(Statuses)
  BY <1>1, <1>3
<1> QED BY <1>1, <1>2, <1>4 DEF Send, Progress

(* The last reply keeps the types of what it changes. *)
LEMMA FinishType ==
  ASSUME TypeOK, NEW t \in Workers, NEW s \in Statuses, Finish(t, s)
  PROVE  /\ sent' \in [Workers -> Seq(Statuses)]
         /\ pc' \in [Workers -> Steps]
         /\ readers' \subseteq Workers
         /\ writer' \in Workers \cup {NoTask}
<1>1. sent' \in [Workers -> Seq(Statuses)]
  BY SendType DEF Finish
<1> QED BY <1>1 DEF TypeOK, Finish, Goto, Steps

(* A step that only replies keeps the types. *)
LEMMA ReplyType ==
  ASSUME TypeOK, NEW t \in Workers, NEW s \in Statuses, Reply(t, s)
  PROVE  TypeOK'
<1>1. Finish(t, s) BY DEF Reply
<1>2. UNCHANGED <<install, saves, process, request, from, save>> BY DEF Reply
<1> QED BY <1>1, <1>2, FinishType DEF TypeOK, install, process, request

(* Moving to another control point keeps pc a function to Steps. *)
LEMMA GotoType ==
  ASSUME TypeOK, NEW t \in Workers, NEW s \in Steps, Goto(t, s)
  PROVE  pc' \in [Workers -> Steps]
BY DEF TypeOK, Goto

(* Taking the write lock keeps the types. *)
LEMMA InstallLockType ==
  ASSUME TypeOK, NEW t \in Tasks, InstallLock(t)
  PROVE  TypeOK'
<1>0. t \in Workers BY DEF Workers
<1>1. sent' \in [Workers -> Seq(Statuses)]
  BY <1>0, SendType DEF InstallLock, Statuses
<1>2. from' \in [Workers -> Versions \cup {NoVersion}] BY <1>0 DEF InstallLock, TypeOK
<1>3. pc' \in [Workers -> Steps]
  BY <1>0, GotoType DEF InstallLock, Steps
<1> QED BY <1>0, <1>1, <1>2, <1>3 DEF TypeOK, InstallLock, install, process, request

(* The end of version_install keeps the types of what it changes. *)
LEMMA RestartType ==
  ASSUME TypeOK, NEW t \in Workers, RestartOrFinish(t)
  PROVE  /\ sent' \in [Workers -> Seq(Statuses)]
         /\ pc' \in [Workers -> Steps]
         /\ readers' \subseteq Workers
         /\ writer' \in Workers \cup {NoTask}
<1>1. CASE Finish(t, "Completed")
  BY <1>1, FinishType DEF Statuses
<1>2. CASE Goto(t, "start_check") /\ Progress(t) /\ UNCHANGED locks
  <2>1. sent' \in [Workers -> Seq(Statuses)] BY <1>2, SendType DEF Statuses
  <2> QED BY <1>2, <2>1 DEF TypeOK, Goto, locks, Steps
<1> QED BY <1>1, <1>2 DEF RestartOrFinish

(* What follows stop_instance keeps the types of what it changes. *)
LEMMA AfterStopType ==
  ASSUME TypeOK, NEW t \in Workers, NEW s \in Saves \cup {NoSave, Latest}, NEW o \in Outcomes,
         AfterStop(t, s, o)
  PROVE  /\ sent' \in [Workers -> Seq(Statuses)]
         /\ pc' \in [Workers -> Steps]
         /\ readers' \subseteq Workers
         /\ writer' \in Workers \cup {NoTask}
         /\ save' \in [Workers -> Saves \cup {NoSave, Latest}]
         /\ found' \in [Workers -> Outcomes]
<1>1. CASE Finish(t, "Completed") /\ UNCHANGED <<save, found>>
  BY <1>1, FinishType DEF Statuses, TypeOK
<1>2. CASE Goto(t, "done") /\ UNCHANGED <<save, found, sent, locks>>
  BY <1>2 DEF TypeOK, Goto, locks, Steps
<1>3. CASE /\ Goto(t, IF from[t] = to[t] THEN "in_download" ELSE "rm_start")
           /\ save' = [save EXCEPT ![t] = s] /\ found' = [found EXCEPT ![t] = o]
           /\ Progress(t) /\ UNCHANGED locks
  <2>1. sent' \in [Workers -> Seq(Statuses)] BY <1>3, SendType DEF Statuses
  <2> QED BY <1>3, <2>1 DEF TypeOK, Goto, locks, Steps
<1> QED BY <1>1, <1>2, <1>3 DEF AfterStop

(* Reaping, signalling and exiting keep the process table typed. *)
LEMMA ProcType ==
  ASSUME TypeOK, NEW p \in Pids,
         \/ UNCHANGED proc
         \/ proc' = [proc EXCEPT ![p] = FreeProc]
         \/ Drop(p)
         \/ proc' = [proc EXCEPT ![p].state = "terminating"]
         \/ proc' = [proc EXCEPT ![p].state = "exited"]
         \/ proc' = [proc EXCEPT ![p].state = "failed"]
  PROVE  proc' \in [Pids -> ProcRecords]
<1>1. proc \in [Pids -> ProcRecords] BY DEF TypeOK
<1>2. proc[p] \in ProcRecords BY <1>1
<1>3. FreeProc \in ProcRecords BY DEF FreeProc, ProcRecords
<1>4. \A s \in {"terminating", "exited", "failed"} : [proc[p] EXCEPT !.state = s] \in ProcRecords
  BY <1>2 DEF ProcRecords
<1>5. [FreeProc EXCEPT !.state = "dropped", !.save = proc[p].save] \in ProcRecords
  BY <1>2 DEF FreeProc, ProcRecords
<1> QED BY <1>1, <1>3, <1>4, <1>5 DEF Drop

(* What dropping the handles of a process leaves of it. *)
LEMMA DropLemma ==
  ASSUME NEW p \in Pids, proc \in [Pids -> ProcRecords], Drop(p)
  PROVE  /\ proc'[p].state = "dropped" /\ proc'[p].save = proc[p].save
         /\ \A q \in Pids \ {p} : proc'[q] = proc[q]
<1> DEFINE left == [FreeProc EXCEPT !.state = "dropped", !.save = proc[p].save]
<1>1. left.state = "dropped" /\ left.save = proc[p].save BY DEF FreeProc
<1>2. proc' = [proc EXCEPT ![p] = left] BY DEF Drop
<1> HIDE DEF left
<1> QED BY <1>1, <1>2

(* Spawning keeps the process table typed. *)
LEMMA SpawnType ==
  ASSUME TypeOK, NEW p \in Pids, NEW k \in {"host", "create"},
         NEW v \in Versions \cup {NoVersion}, NEW s \in Saves \cup {NoSave, Latest},
         Spawn(p, k, v, s)
  PROVE  proc' \in [Pids -> ProcRecords]
<1>1. proc \in [Pids -> ProcRecords] BY DEF TypeOK
<1>2. [state |-> "running", kind |-> k, version |-> v, save |-> s] \in ProcRecords
  BY DEF ProcRecords
<1> QED BY <1>1, <1>2 DEF Spawn

(* Actions that only reply or only move on. *)
LEMMA QuietStepType ==
  ASSUME TypeOK, NEW t \in Workers, NEW s \in Steps, Goto(t, s),
         UNCHANGED <<install, saves, locks, process, request, from, save, sent>>
  PROVE  TypeOK'
<1>1. pc' \in [Workers -> Steps] BY GotoType
<1> QED BY <1>1 DEF TypeOK, install, locks, process, request

(* Every step keeps TypeOK. *)
LEMMA TypeStep ==
  ASSUME IInv, Next
  PROVE  TypeOK'
<1> USE DEF IInv
<1>0. Tasks \subseteq Workers /\ Main \in Workers /\ Statuses = {"Ack", "Ongoing", "Completed", "Failed"}
  BY DEF Workers, Statuses
<1>1. ASSUME NEW t \in Tasks, HandleMessage(t) PROVE TypeOK'
  <2>1. PICK o \in Ops : Goto(t, FirstStep(o)) /\ op' = [op EXCEPT ![t] = o]
    BY <1>1 DEF HandleMessage
  <2>2. o \in Requests BY ConstantsAssumption
  <2>3. FirstStep(o) \in Steps BY <2>2 DEF FirstStep, Requests, Steps
  <2>4. pc' \in [Workers -> Steps] BY <1>0, <2>1, <2>3, GotoType
  <2>5. /\ to' \in [Workers -> Versions \cup {NoVersion}]
        /\ force' \in [Workers -> BOOLEAN]
        /\ save' \in [Workers -> Saves \cup {NoSave, Latest}]
    BY <1>0, <1>1 DEF HandleMessage, TypeOK
  <2>6. op' \in [Workers -> Requests \cup {"none", "shutdown"}]
    BY <1>0, <2>1, <2>2 DEF TypeOK
  <2>7. UNCHANGED <<install, saves, locks, process, found, from, sent>> BY <1>1 DEF HandleMessage
  <2> QED BY <2>4, <2>5, <2>6, <2>7 DEF TypeOK, install, locks, process
<1>2. ASSUME NEW t \in Tasks, Retire(t) PROVE TypeOK'
  BY <1>0, <1>2, GotoType DEF Retire, TypeOK, install, locks, process, Steps, Outcomes
<1>3. ASSUME NEW t \in Tasks,
             InstallConflict(t) \/ ReadConflict(t) \/ StatusRead(t) \/ VersionGet(t)
               \/ ModDlcsApply(t) \/ SettingsGetInit(t)
      PROVE  TypeOK'
  BY <1>0, <1>3, ReplyType DEF InstallConflict, ReadConflict, StatusRead, VersionGet,
     ModDlcsApply, SettingsGetInit
<1>4. ASSUME NEW t \in Tasks,
             StartCheckSave(t) \/ StartReadConfig(t) \/ SaveCreateExists(t)
               \/ SaveCreateBuild(t) \/ SaveDeleteExists(t) \/ SettingsGetRead(t)
      PROVE  TypeOK'
  BY <1>0, <1>4, ReplyType, QuietStepType DEF StartCheckSave, StartReadConfig,
     SaveCreateExists, SaveCreateBuild, SaveDeleteExists, SettingsGetRead, Steps
<1>5. ASSUME NEW t \in Tasks, InstallLock(t) PROVE TypeOK'
  BY <1>5, InstallLockType
<1>6. ASSUME NEW t \in Tasks, InstallDownload(t) PROVE TypeOK'
  <2>1. CASE Reply(t, "Failed") BY <1>0, <2>1, ReplyType
  <2>2. CASE ~Reply(t, "Failed")
    BY <1>0, <1>6, <2>2, GotoType DEF InstallDownload, TypeOK, DirStates, Steps,
       locks, process, request
  <2> QED BY <2>1, <2>2
<1>7. ASSUME NEW t \in Tasks, InstallUnpack(t) PROVE TypeOK'
  <2>1. CASE Reply(t, "Failed") BY <1>0, <2>1, ReplyType
  <2>2. CASE ~Reply(t, "Failed")
    <3>1. /\ sent' \in [Workers -> Seq(Statuses)]
          /\ pc' \in [Workers -> Steps]
          /\ readers' \subseteq Workers
          /\ writer' \in Workers \cup {NoTask}
      <4>1. CASE Finish(t, "Completed") BY <1>0, <4>1, FinishType
      <4>2. CASE RestartOrFinish(t) BY <1>0, <4>2, RestartType
      <4>3. CASE Goto(t, "st_lock") /\ Progress(t) /\ UNCHANGED locks
        <5>1. sent' \in [Workers -> Seq(Statuses)] BY <1>0, <4>3, SendType
        <5> QED BY <1>0, <4>3, <5>1, GotoType DEF TypeOK, locks, Steps
      <4> QED BY <1>7, <2>2, <4>1, <4>2, <4>3 DEF InstallUnpack
    <3>2. to[t] \in Versions
      BY <1>7 DEF InstallUnpack, ControlInv
    <3> QED BY <1>7, <2>2, <3>1, <3>2 DEF InstallUnpack, TypeOK, DirStates, process, request
  <2> QED BY <2>1, <2>2
<1>8. ASSUME NEW t \in Tasks, DeleteStart(t) PROVE TypeOK'
  <2>1. CASE Reply(t, "Failed") BY <1>0, <2>1, ReplyType
  <2>2. CASE ~Reply(t, "Failed")
    BY <1>0, <1>8, <2>2, GotoType, ZenonT(40) DEF DeleteStart, TypeOK, DirStates, Steps,
       locks, process, request
  <2> QED BY <2>1, <2>2
<1>9. ASSUME NEW t \in Tasks, DeleteEnd(t) PROVE TypeOK'
  <2>1. CASE Reply(t, "Failed") BY <1>0, <2>1, ReplyType
  <2>2. CASE ~Reply(t, "Failed")
    BY <1>0, <1>9, <2>2, RestartType DEF DeleteEnd, TypeOK, DirStates, process, request
  <2> QED BY <2>1, <2>2
<1>10. ASSUME NEW t \in Workers, StopInstance(t) PROVE TypeOK'
  <2>0. instance # NoPid => instance \in Pids /\ proc[instance].save \in Saves \cup {NoSave, Latest}
    BY DEF TypeOK, ProcRecords
  <2>a. proc' \in [Pids -> ProcRecords]
    BY <1>10, <2>0, ProcType DEF StopInstance, TypeOK
  <2>b. /\ mutex' \in Workers \cup {NoTask} /\ instance' \in Pids \cup {NoPid}
        /\ child' \in [Workers -> Pids \cup {NoPid}]
    <3>1. mutex' \in {mutex, t} /\ instance' = NoPid /\ (child' = child \/ (instance # NoPid /\ child' = [child EXCEPT ![t] = instance]))
      BY <1>10 DEF StopInstance
    <3>2. mutex \in Workers \cup {NoTask} /\ child \in [Workers -> Pids \cup {NoPid}] BY DEF TypeOK
    <3> QED BY <2>0, <3>1, <3>2
  <2>c. UNCHANGED <<versions, disk, saves, op, to, force, from>>
    BY <1>10 DEF StopInstance, install
  <2>1. CASE \E s \in Saves \cup {NoSave, Latest}, o \in Outcomes : AfterStop(t, s, o)
    <3>1. /\ sent' \in [Workers -> Seq(Statuses)] /\ pc' \in [Workers -> Steps]
          /\ readers' \subseteq Workers /\ writer' \in Workers \cup {NoTask}
          /\ save' \in [Workers -> Saves \cup {NoSave, Latest}]
          /\ found' \in [Workers -> Outcomes]
      BY <2>1, AfterStopType
    <3> QED BY <2>a, <2>b, <2>c, <3>1 DEF TypeOK
  <2>2. CASE Goto(t, "st_wait") /\ UNCHANGED <<locks, found, save, sent>>
    <3>2. pc' \in [Workers -> Steps] BY <2>2, GotoType DEF Steps
    <3> QED BY <2>a, <2>b, <2>c, <2>2, <3>2 DEF TypeOK, locks
  <2> QED BY <1>10, <2>0, <2>1, <2>2 DEF StopInstance, Outcomes
<1>11. ASSUME NEW t \in Workers, StopWait(t) PROVE TypeOK'
  <2>1. child[t] \in Pids /\ proc[child[t]].save \in Saves \cup {NoSave, Latest}
    BY <1>11 DEF StopWait, ProcInv, TypeOK, ProcRecords, WaitSteps
  <2>2. \E s \in Saves \cup {NoSave, Latest}, o \in Outcomes : AfterStop(t, s, o)
    BY <1>11, <2>1 DEF StopWait, Outcomes
  <2>3. proc' \in [Pids -> ProcRecords]
    BY <1>11, <2>1, ProcType DEF StopWait
  <2> QED BY <1>11, <2>2, <2>3, AfterStopType DEF StopWait, TypeOK, install
<1>12. ASSUME NEW t \in Tasks, ServerStart(t) \/ ModDlcsLock(t) \/ SettingsGetLock(t) PROVE TypeOK'
  <2>1. CASE Reply(t, "Failed") BY <1>0, <2>1, ReplyType
  <2>2. CASE /\ \E v \in versions : from' = [from EXCEPT ![t] = v]
             /\ readers' = readers \cup {t}
             /\ \E s \in {"start_check", "md_apply", "sg_init"} : Goto(t, s)
             /\ UNCHANGED <<install, saves, writer, process, request, save, sent>>
    <3>1. pc' \in [Workers -> Steps] BY <1>0, <2>2, GotoType DEF Steps
    <3>2. from' \in [Workers -> Versions \cup {NoVersion}] BY <1>0, <2>2 DEF TypeOK
    <3> QED BY <1>0, <1>12, <2>2, <3>1, <3>2 DEF TypeOK, install, process, request
  <2> QED BY <1>12, <2>1, <2>2 DEF ServerStart, ModDlcsLock, SettingsGetLock
<1>13. ASSUME NEW t \in Tasks, StartInstance(t) PROVE TypeOK'
  <2>1. CASE Reply(t, "Failed") BY <1>0, <2>1, ReplyType
  <2>2. CASE ~Reply(t, "Failed")
    <3>1. proc' \in [Pids -> ProcRecords]
      <4>1. StartVersion(t) \in Versions \cup {NoVersion} /\ save[t] \in Saves \cup {NoSave, Latest}
        BY <1>0 DEF StartVersion, TypeOK
      <4> QED BY <1>13, <2>2, <4>1, SpawnType DEF StartInstance
    <3> QED BY <1>0, <1>13, <2>2, <3>1, FinishType DEF StartInstance, TypeOK, install, request
  <2> QED BY <2>1, <2>2
<1>14. ASSUME NEW t \in Tasks, StatusPoll(t) PROVE TypeOK'
  <2>1. CASE Reply(t, "Completed") BY <1>0, <2>1, ReplyType
  <2>2. CASE Finish(t, "Completed") /\ ~Reply(t, "Completed")
    <3>1. proc' \in [Pids -> ProcRecords]
      <4>1. instance # NoPid => instance \in Pids BY DEF TypeOK
      <4> QED BY <1>14, <2>2, <4>1, ProcType DEF StatusPoll, TypeOK, process
    <3> QED BY <1>0, <1>14, <2>2, <3>1, FinishType DEF StatusPoll, TypeOK, install, request, process
  <2>3. CASE ~Finish(t, "Completed") /\ ~Reply(t, "Completed")
    BY <1>0, <1>14, <2>3, QuietStepType DEF StatusPoll, Steps
  <2> QED BY <2>1, <2>2, <2>3
<1>15. ASSUME NEW t \in Tasks, SaveCreateLock(t) PROVE TypeOK'
  <2>1. sent' \in [Workers -> Seq(Statuses)]
    BY <1>0, <1>15, SendType DEF SaveCreateLock
  <2>2. pc' \in [Workers -> Steps]
    BY <1>0, <1>15, GotoType DEF SaveCreateLock, Steps
  <2>3. /\ \/ UNCHANGED <<from, readers>>
           \/ /\ \E v \in versions : from' = [from EXCEPT ![t] = v]
              /\ readers' = readers \cup {t}
        /\ UNCHANGED <<install, saves, writer, process, request, save>>
    BY <1>15 DEF SaveCreateLock
  <2>4. from' \in [Workers -> Versions \cup {NoVersion}] /\ readers' \subseteq Workers
    BY <1>0, <2>3 DEF TypeOK
  <2> QED BY <2>1, <2>2, <2>3, <2>4 DEF TypeOK, install, process, request
<1>16. ASSUME NEW t \in Tasks, SaveCreateStart(t) PROVE TypeOK'
  <2>1. CASE Reply(t, "Failed") BY <1>0, <2>1, ReplyType
  <2>2. CASE ~Reply(t, "Failed")
    <3>1. proc' \in [Pids -> ProcRecords]
      <4>1. from[t] \in Versions \cup {NoVersion} /\ save[t] \in Saves \cup {NoSave, Latest}
        BY <1>0 DEF TypeOK
      <4> QED BY <1>16, <2>2, <4>1, SpawnType DEF SaveCreateStart
    <3>2. pc' \in [Workers -> Steps]
      BY <1>0, <1>16, <2>2, GotoType DEF SaveCreateStart, Steps
    <3> QED BY <1>0, <1>16, <2>2, <3>1, <3>2, ZenonT(40) DEF SaveCreateStart, TypeOK, install, locks, request
  <2> QED BY <2>1, <2>2
<1>17. ASSUME NEW t \in Tasks, SaveCreateWait(t) PROVE TypeOK'
  <2>0. child[t] \in Pids BY <1>0, <1>17 DEF SaveCreateWait, ProcInv, WaitSteps
  <2>1. proc' \in [Pids -> ProcRecords]
    BY <1>17, <2>0, ProcType DEF SaveCreateWait
  <2>2. \E s \in Statuses : Finish(t, s) BY <1>0, <1>17 DEF SaveCreateWait
  <2> QED BY <1>0, <1>17, <2>1, <2>2, FinishType DEF SaveCreateWait, TypeOK, install, request
<1>18. ASSUME NEW t \in Tasks, SaveDeleteRemove(t) PROVE TypeOK'
  <2>1. \E s \in Statuses : Finish(t, s) BY <1>0, <1>18 DEF SaveDeleteRemove
  <2> QED BY <1>0, <1>18, <2>1, FinishType DEF SaveDeleteRemove, TypeOK, install, process, request
<1>19. ASSUME NEW t \in Tasks, RconSend(t) PROVE TypeOK'
  <2>1. CASE Reply(t, "Failed") BY <1>0, <2>1, ReplyType
  <2>2. CASE ~Reply(t, "Failed")
    BY <1>0, <1>19, <2>2, GotoType DEF RconSend, TypeOK, Steps, install, locks, request
  <2> QED BY <2>1, <2>2
<1>20. ASSUME NEW t \in Tasks, RconAnswer(t) PROVE TypeOK'
  <2>1. \E s \in Statuses : Finish(t, s) BY <1>0, <1>20 DEF RconAnswer
  <2> QED BY <1>0, <1>20, <2>1, FinishType DEF RconAnswer, TypeOK, install, request
<1>21. ASSUME NEW p \in Pids, HostExits(p) \/ CreateExits(p) \/ DroppedExits(p) PROVE TypeOK'
  <2>1. proc' \in [Pids -> ProcRecords]
    BY <1>21, ProcType DEF HostExits, CreateExits, DroppedExits
  <2>2. proc[p].save \in Saves
    BY <1>21 DEF HostExits, CreateExits, DroppedExits, ProcInv
  <2> QED BY <1>21, <2>1, <2>2 DEF HostExits, CreateExits, DroppedExits, TypeOK, install, locks, request
<1>22. CASE Sigint
  BY <1>0, <1>22, GotoType DEF Sigint, TypeOK, Steps, install, locks, process
<1>23. CASE Restart
  <2>1. << >> \in Seq(Statuses) OBVIOUS
  <2>2. sent' \in [Workers -> Seq(Statuses)] BY <1>23, <2>1 DEF Restart
  <2>3. proc' \in [Pids -> ProcRecords] BY <1>23 DEF Restart, FreeProc, ProcRecords
  <2>4. pc' \in [Workers -> Steps] BY <1>23 DEF Restart, Steps
  <2> QED BY <1>23, <2>2, <2>3, <2>4 DEF Restart, TypeOK, Scan, Outcomes
<1> QED
  BY <1>0, <1>1, <1>2, <1>3, <1>4, <1>5, <1>6, <1>7, <1>8, <1>9, <1>10, <1>11, <1>12,
     <1>13, <1>14, <1>15, <1>16, <1>17, <1>18, <1>19, <1>20, <1>21, <1>22, <1>23
  DEF Next, TaskStep

-----------------------------------------------------------------------------
(* What steps leave alone                                                  *)

(* What a step of task t leaves alone. *)
Others(t) ==
  \A u \in Workers \ {t} : /\ pc'[u] = pc[u] /\ op'[u] = op[u] /\ to'[u] = to[u]
                           /\ from'[u] = from[u] /\ child'[u] = child[u]
                           /\ save'[u] = save[u] /\ sent'[u] = sent[u]
                           /\ found'[u] = found[u]

(* No process comes to life, and those that stay alive stay the same. *)
LiveShrinks ==
  \A p \in Pids :
    proc'[p].state \in {"running", "terminating"} =>
      /\ Live(p)
      /\ proc'[p].version = proc[p].version
      /\ proc'[p].kind = proc[p].kind /\ proc'[p].save = proc[p].save

(* The step has nothing to do with the child processes. *)
ProcQuiet ==
  /\ UNCHANGED <<proc, child, instance>>
  /\ \A u \in Workers : pc'[u] \in WaitSteps <=> pc[u] \in WaitSteps

FunctionTypes ==
  /\ pc \in [Workers -> Steps]
  /\ op \in [Workers -> Requests \cup {"none", "shutdown"}]
  /\ to \in [Workers -> Versions \cup {NoVersion}]
  /\ from \in [Workers -> Versions \cup {NoVersion}]
  /\ child \in [Workers -> Pids \cup {NoPid}]
  /\ save \in [Workers -> Saves \cup {NoSave, Latest}]
  /\ found \in [Workers -> Outcomes]
  /\ sent \in [Workers -> Seq(Statuses)]

(* The function types used by the frame lemmas. *)
LEMMA FunctionTypesLemma == TypeOK => FunctionTypes
BY DEF TypeOK, FunctionTypes

(* A step of t changes the locals of t only. *)
LEMMA OthersLemma ==
  ASSUME FunctionTypes, NEW t \in Workers,
         \/ HandleMessage(t) \/ Retire(t) \/ InstallConflict(t) \/ InstallLock(t)
         \/ InstallDownload(t) \/ InstallUnpack(t) \/ DeleteStart(t) \/ DeleteEnd(t)
         \/ ReadConflict(t) \/ ServerStart(t) \/ StartCheckSave(t)
         \/ StartReadConfig(t) \/ StartInstance(t) \/ StatusPoll(t) \/ StatusRead(t)
         \/ VersionGet(t) \/ SaveCreateExists(t) \/ SaveCreateLock(t)
         \/ SaveCreateBuild(t) \/ SaveCreateStart(t) \/ SaveCreateWait(t)
         \/ SaveDeleteExists(t) \/ SaveDeleteRemove(t) \/ RconSend(t) \/ RconAnswer(t)
         \/ SettingsGetRead(t) \/ ModDlcsLock(t) \/ SettingsGetLock(t) \/ ModDlcsApply(t) \/ SettingsGetInit(t)
         \/ StopInstance(t) \/ StopWait(t)
  PROVE Others(t)
<1>1. CASE HandleMessage(t) \/ Retire(t)
  BY <1>1 DEF HandleMessage, Retire, FirstStep, Goto, Reply, Finish, Send, install,
       locks, process, request, Others, FunctionTypes
<1>2. CASE InstallConflict(t) \/ InstallLock(t) \/ InstallDownload(t)
  BY <1>2 DEF InstallConflict, InstallLock, InstallDownload, Goto, Reply, Finish, Send,
       install, locks, process, request, Others, FunctionTypes
<1>3. CASE InstallUnpack(t)
  BY <1>3 DEF InstallUnpack, RestartOrFinish, Progress, Goto, Reply, Finish, Send,
       install, locks, process, request, Others, FunctionTypes
<1>4. CASE DeleteStart(t) \/ DeleteEnd(t)
  BY <1>4 DEF DeleteStart, DeleteEnd, RestartOrFinish, Progress, Goto, Reply, Finish,
       Send, install, locks, process, request, Others, FunctionTypes
<1>5. CASE ReadConflict(t) \/ ServerStart(t) \/ StartCheckSave(t) \/ StartReadConfig(t)
  BY <1>5 DEF ReadConflict, ServerStart, StartCheckSave, StartReadConfig, Goto, Reply,
       Finish, Send, install, locks, process, request, Others, FunctionTypes
<1>6. CASE StartInstance(t)
  BY <1>6 DEF StartInstance, Spawn, Goto, Reply, Finish, Send, install, locks, process,
       request, Others, FunctionTypes
<1>7. CASE StatusPoll(t) \/ StatusRead(t) \/ VersionGet(t)
  BY <1>7 DEF StatusPoll, StatusRead, VersionGet, Goto, Reply, Finish, Send, install,
       locks, process, request, Others, FunctionTypes
<1>8. CASE SaveCreateExists(t) \/ SaveCreateLock(t) \/ SaveCreateBuild(t)
  BY <1>8 DEF SaveCreateExists, SaveCreateLock, SaveCreateBuild, Goto, Reply, Finish,
       Send, install, locks, process, request, Others, FunctionTypes
<1>9. CASE SaveCreateStart(t) \/ SaveCreateWait(t)
  BY <1>9 DEF SaveCreateStart, SaveCreateWait, Spawn, Goto, Reply, Finish, Send,
       install, locks, process, request, Others, FunctionTypes
<1>10. CASE SaveDeleteExists(t) \/ SaveDeleteRemove(t) \/ RconSend(t) \/ RconAnswer(t)
  BY <1>10 DEF SaveDeleteExists, SaveDeleteRemove, RconSend, RconAnswer, Goto, Reply,
       Finish, Send, install, locks, process, request, Others, FunctionTypes
<1>11. CASE SettingsGetRead(t) \/ ModDlcsLock(t) \/ SettingsGetLock(t) \/ ModDlcsApply(t) \/ SettingsGetInit(t)
  BY <1>11 DEF SettingsGetRead, ModDlcsLock, SettingsGetLock, ModDlcsApply, SettingsGetInit, Goto, Reply, Finish,
       Send, install, locks, process, request, Others, FunctionTypes
<1>12. CASE StopInstance(t)
  BY <1>12 DEF StopInstance, AfterStop, Progress, Goto, Reply, Finish, Send, install,
       locks, process, request, Others, FunctionTypes
<1>13. CASE StopWait(t)
  BY <1>13 DEF StopWait, AfterStop, Progress, Goto, Reply, Finish, Send, install, locks,
       process, request, Others, FunctionTypes
<1> QED BY <1>1, <1>2, <1>3, <1>4, <1>5, <1>6, <1>7, <1>8, <1>9, <1>10, <1>11, <1>12, <1>13

(* These steps have nothing to do with child processes. *)
LEMMA ProcQuietLemma ==
  ASSUME FunctionTypes, NEW t \in Workers,
         \/ Retire(t) \/ InstallConflict(t) \/ InstallLock(t) \/ InstallDownload(t)
         \/ InstallUnpack(t) \/ DeleteStart(t) \/ DeleteEnd(t) \/ ReadConflict(t)
         \/ ServerStart(t) \/ StartCheckSave(t) \/ StartReadConfig(t) \/ StatusRead(t)
         \/ VersionGet(t) \/ SaveCreateExists(t) \/ SaveCreateLock(t)
         \/ SaveCreateBuild(t) \/ SaveDeleteExists(t) \/ SaveDeleteRemove(t)
         \/ RconSend(t) \/ RconAnswer(t) \/ SettingsGetRead(t) \/ ModDlcsLock(t) \/ SettingsGetLock(t)
         \/ ModDlcsApply(t) \/ SettingsGetInit(t)
  PROVE ProcQuiet
<1>1. CASE Retire(t)
  BY <1>1 DEF Retire, Goto, Reply, Finish, Send, install, locks, process, request,
       ProcQuiet, FunctionTypes, WaitSteps
<1>2. CASE InstallConflict(t) \/ InstallLock(t) \/ InstallDownload(t)
  BY <1>2 DEF InstallConflict, InstallLock, InstallDownload, Goto, Reply, Finish, Send,
       install, locks, process, request, ProcQuiet, FunctionTypes, WaitSteps
<1>3. CASE InstallUnpack(t)
  BY <1>3 DEF InstallUnpack, RestartOrFinish, Progress, Goto, Reply, Finish, Send,
       install, locks, process, request, ProcQuiet, FunctionTypes, WaitSteps
<1>4. CASE DeleteStart(t) \/ DeleteEnd(t)
  BY <1>4 DEF DeleteStart, DeleteEnd, RestartOrFinish, Progress, Goto, Reply, Finish,
       Send, install, locks, process, request, ProcQuiet, FunctionTypes, WaitSteps
<1>5. CASE ReadConflict(t) \/ ServerStart(t) \/ StartCheckSave(t) \/ StartReadConfig(t)
  BY <1>5 DEF ReadConflict, ServerStart, StartCheckSave, StartReadConfig, Goto, Reply,
       Finish, Send, install, locks, process, request, ProcQuiet, FunctionTypes,
       WaitSteps
<1>6. CASE StatusRead(t) \/ VersionGet(t)
  BY <1>6 DEF StatusRead, VersionGet, Goto, Reply, Finish, Send, install, locks,
       process, request, ProcQuiet, FunctionTypes, WaitSteps
<1>7. CASE SaveCreateExists(t) \/ SaveCreateLock(t) \/ SaveCreateBuild(t)
  BY <1>7 DEF SaveCreateExists, SaveCreateLock, SaveCreateBuild, Goto, Reply, Finish,
       Send, install, locks, process, request, ProcQuiet, FunctionTypes, WaitSteps
<1>8. CASE SaveDeleteExists(t) \/ SaveDeleteRemove(t) \/ RconSend(t) \/ RconAnswer(t)
  BY <1>8 DEF SaveDeleteExists, SaveDeleteRemove, RconSend, RconAnswer, Goto, Reply,
       Finish, Send, install, locks, process, request, ProcQuiet, FunctionTypes,
       WaitSteps
<1>9. CASE SettingsGetRead(t) \/ ModDlcsLock(t) \/ SettingsGetLock(t) \/ ModDlcsApply(t) \/ SettingsGetInit(t)
  BY <1>9 DEF SettingsGetRead, ModDlcsLock, SettingsGetLock, ModDlcsApply, SettingsGetInit, Goto, Reply, Finish,
       Send, install, locks, process, request, ProcQuiet, FunctionTypes, WaitSteps
<1> QED BY <1>1, <1>2, <1>3, <1>4, <1>5, <1>6, <1>7, <1>8, <1>9

(* These steps leave the installations alone. *)
LEMMA InstallQuietLemma ==
  ASSUME FunctionTypes, NEW t \in Workers,
         \/ HandleMessage(t) \/ Retire(t) \/ InstallConflict(t) \/ InstallLock(t)
         \/ ReadConflict(t) \/ ServerStart(t) \/ StartCheckSave(t) \/ StartReadConfig(t)
         \/ StartInstance(t) \/ StatusPoll(t) \/ StatusRead(t) \/ VersionGet(t)
         \/ SaveCreateExists(t) \/ SaveCreateLock(t) \/ SaveCreateBuild(t)
         \/ SaveCreateStart(t) \/ SaveCreateWait(t) \/ SaveDeleteExists(t)
         \/ SaveDeleteRemove(t) \/ RconSend(t) \/ RconAnswer(t) \/ SettingsGetRead(t)
         \/ ModDlcsLock(t) \/ SettingsGetLock(t) \/ ModDlcsApply(t) \/ SettingsGetInit(t) \/ StopInstance(t) \/ StopWait(t)
  PROVE UNCHANGED <<versions, disk>>
BY DEF HandleMessage, Goto, FirstStep, Retire, InstallConflict, Reply, Finish, Send,
   WriteTimesOut, CanWrite, InstallLock, ReadConflict, ServerStart, CanRead,
   StartCheckSave, StartReadConfig, StartInstance, Spawn, StartVersion, FreeProc,
   StatusPoll, Exited, StatusRead, VersionGet, SaveCreateExists, SaveCreateLock,
   SaveCreateBuild, SaveCreateStart, SaveCreateWait, SaveDeleteExists, SaveDeleteRemove,
   RconSend, RconAnswer, SettingsGetRead, ModDlcsLock, SettingsGetLock, ModDlcsApply, SettingsGetInit,
   StopInstance, AfterStop, Progress, StopWait, install, locks, process, request


(* Where handle_message sends a request. *)
LEMMA FirstStepLemma ==
  \A o \in Ops :
    /\ FirstStep(o) \in {"vi_lock", "vg_lock", "ss_lock", "st_lock", "stat_poll",
                         "sc_exists", "sd_exists", "rc_lock", "md_lock", "sg_read"}
    /\ FirstStep(o) = "st_lock" => o = "server_stop"
BY ConstantsAssumption DEF FirstStep, Requests

(* With the mutex free, the only child process not dropped is the tracked   *)
(* instance.                                                               *)
LEMMA MutexFree ==
  ASSUME IInv, mutex = NoTask
  PROVE  /\ \A u \in Workers : pc[u] \notin WaitSteps
         /\ \A p \in Pids : Owned(p) => p = instance
BY ConstantsAssumption DEF IInv, LockInv, ProcInv, WaitSteps

(* The task that waits with the mutex waits for the only child process not  *)
(* dropped.                                                                *)
LEMMA MutexHeld ==
  ASSUME IInv, NEW t \in Workers, pc[t] \in WaitSteps
  PROVE  /\ mutex = t /\ instance = NoPid /\ child[t] \in Pids
         /\ \A u \in Workers : pc[u] \in WaitSteps => u = t
         /\ \A p \in Pids : Owned(p) => p = child[t]
BY ConstantsAssumption DEF IInv, LockInv, ProcInv, WaitSteps

(* The step lets go of process p: it is reaped, or dropped after a failure. *)
LetsGo(p) == proc' = [proc EXCEPT ![p] = FreeProc] \/ ("stop" \in Faults /\ Drop(p))

(* Once the only child process that was not dropped is let go of, there is  *)
(* none, and the dropped ones are as ProcInv says.                          *)
LEMMA LetsGoLemma ==
  ASSUME IInv, NEW p \in Pids, LetsGo(p), proc[p].state # "free",
         \A q \in Pids : Owned(q) => q = p
  PROVE  \A q \in Pids : /\ ~Owned(q)' /\ ~Live(q)'
                         /\ proc'[q].state # "free" => proc'[q].save \in Saves
                         /\ proc'[q].state = "dropped" => "stop" \in Faults
<1>1. proc \in [Pids -> ProcRecords] /\ ProcInv BY DEF IInv, TypeOK
<1>2. \A q \in Pids \ {p} : proc'[q] = proc[q] BY <1>1, DropLemma DEF LetsGo
<1>3. \/ proc'[p].state = "free"
      \/ proc'[p].state = "dropped" /\ proc'[p].save = proc[p].save /\ "stop" \in Faults
  BY <1>1, DropLemma DEF LetsGo, FreeProc
<1>4. \A q \in Pids \ {p} : ~Owned(q) OBVIOUS
<1>5. \A q \in Pids : proc'[q].state \in {"free", "dropped"}
  BY <1>2, <1>3, <1>4 DEF Owned
<1>6. \A q \in Pids : /\ proc'[q].state # "free" => proc[q].state # "free" /\ proc'[q].save = proc[q].save
                      /\ proc'[q].state = "dropped" => proc[q].state = "dropped" \/ "stop" \in Faults
  BY <1>2, <1>3
<1>7. \A q \in Pids : /\ proc'[q].state # "free" => proc'[q].save \in Saves
                      /\ proc'[q].state = "dropped" => "stop" \in Faults
  BY <1>1, <1>6 DEF ProcInv
<1> QED BY <1>5, <1>7 DEF Owned, Live


(* Only a spawn makes a process alive. *)
LEMMA LiveShrinksLemma ==
  ASSUME IInv, NEW t \in Workers,
         HandleMessage(t) \/ Retire(t) \/ TaskStep(t), ~StartInstance(t), ~SaveCreateStart(t)
  PROVE  LiveShrinks
<1>1. proc \in [Pids -> ProcRecords] /\ TypeOK BY DEF IInv, TypeOK
<1>2. CASE UNCHANGED proc BY <1>2 DEF LiveShrinks, Live
<1>3. CASE \E q \in Pids \cup {NoPid} : proc' = [proc EXCEPT ![q] = FreeProc] \/ Drop(q)
  <2>1. PICK q \in Pids \cup {NoPid} : proc' = [proc EXCEPT ![q] = FreeProc] \/ Drop(q) BY <1>3
  <2>2. \A p \in Pids : proc'[p] = proc[p] \/ proc'[p].state \in {"free", "dropped"}
    <3>1. CASE q \in Pids /\ Drop(q) BY <1>1, <3>1, DropLemma
    <3>2. CASE q \notin Pids BY <1>1, <2>1, <3>2 DEF Drop
    <3>3. CASE proc' = [proc EXCEPT ![q] = FreeProc] BY <1>1, <3>3 DEF FreeProc
    <3> QED BY <2>1, <3>1, <3>2, <3>3
  <2> QED BY <2>2 DEF LiveShrinks, Live
<1>4. CASE StopInstance(t)
  <2>1. CASE instance # NoPid /\ ~Exited(instance) /\ proc' = [proc EXCEPT ![instance].state = "terminating"]
    BY <1>1, <1>4, <2>1 DEF StopInstance, LiveShrinks, Live, Exited, ProcRecords, IInv, ProcInv, Owned
  <2> QED BY <1>1, <1>2, <1>3, <1>4, <2>1 DEF StopInstance, TypeOK
<1>5. CASE ~StopInstance(t)
  BY <1>1, <1>2, <1>3, <1>5 DEF TypeOK, HandleMessage, Retire, TaskStep,
     InstallConflict, InstallLock, InstallDownload, InstallUnpack, DeleteStart, DeleteEnd,
     StopWait, ReadConflict, ServerStart, StartCheckSave, StartReadConfig, StatusPoll,
     StatusRead, VersionGet, SaveCreateExists, SaveCreateLock, SaveCreateBuild,
     SaveCreateWait, SaveDeleteExists, SaveDeleteRemove, RconSend, RconAnswer,
     SettingsGetRead, ModDlcsLock, SettingsGetLock, ModDlcsApply, SettingsGetInit, Reply, process
<1> QED BY <1>4, <1>5

-----------------------------------------------------------------------------
(* ControlInv and LockInv                                                  *)

(* Every step keeps ControlInv. *)
LEMMA ControlStep ==
  ASSUME IInv, Next
  PROVE  ControlInv'
<1>0. /\ Tasks \subseteq Workers /\ Main \in Workers /\ Main \notin Tasks /\ ControlInv
      /\ pc \in [Workers -> Steps] /\ op \in [Workers -> Requests \cup {"none", "shutdown"}]
      /\ to \in [Workers -> Versions \cup {NoVersion}]
      /\ save \in [Workers -> Saves \cup {NoSave, Latest}] /\ saves \subseteq Saves
  BY ConstantsAssumption DEF IInv, TypeOK, Workers
<1>1. ASSUME NEW t \in Tasks, HandleMessage(t) PROVE ControlInv'
  <2>1. PICK o \in Ops, v \in Versions, s \in Saves \cup {Latest} :
          /\ s = Latest => o = "server_start"
          /\ pc' = [pc EXCEPT ![t] = FirstStep(o)] /\ op' = [op EXCEPT ![t] = o]
          /\ to' = [to EXCEPT ![t] = IF o = "version_install" THEN v ELSE NoVersion]
          /\ save' = [save EXCEPT ![t] =
                  IF o \in {"server_start", "save_create", "save_delete"}
                  THEN s ELSE NoSave]
    BY <1>1 DEF HandleMessage, Goto
  <2>2. o \in Requests BY ConstantsAssumption
  <2>3. \A u \in Workers \ {t} : /\ pc'[u] = pc[u] /\ op'[u] = op[u]
                                 /\ to'[u] = to[u] /\ save'[u] = save[u]
    BY <1>0, <2>1
  <2>4. /\ pc'[t] = FirstStep(o) /\ op'[t] = o
        /\ o = "version_install" => to'[t] \in Versions
        /\ o = "save_create" => save'[t] \in Saves
    BY <1>0, <2>1
  <2>5. /\ FirstStep(o) \in {"vi_lock", "vg_lock", "ss_lock", "st_lock", "stat_poll",
                         "sc_exists", "sd_exists", "rc_lock", "md_lock", "sg_read"}
        /\ FirstStep(o) = "st_lock" => o = "server_stop"
        /\ FirstStep(o) = "vi_lock" => o = "version_install"
        /\ FirstStep(o) = "ss_lock" => o = "server_start"
        /\ FirstStep(o) = "sc_exists" => o = "save_create"
        /\ o # "shutdown"
    BY <2>2 DEF FirstStep, Requests
  <2> QED BY <1>0, <2>3, <2>4, <2>5 DEF ControlInv, StartSteps
<1> USE <1>0 DEF ControlInv, StartSteps, Reply, Finish, Goto, request
<1>2. ASSUME NEW t \in Tasks, Retire(t) PROVE ControlInv'
  BY <1>2 DEF Retire
<1>3. ASSUME NEW t \in Tasks, NEW s, Reply(t, s) PROVE ControlInv'
  BY <1>3
<1>4. ASSUME NEW t \in Tasks,
             \/ InstallConflict(t) \/ ReadConflict(t) \/ StatusRead(t) \/ VersionGet(t)
             \/ ModDlcsApply(t) \/ SettingsGetInit(t) \/ InstallDownload(t) \/ DeleteStart(t)
             \/ StartCheckSave(t) \/ StartReadConfig(t)
      PROVE  ControlInv'
  BY <1>3, <1>4 DEF InstallConflict, ReadConflict, StatusRead, VersionGet, ModDlcsApply, SettingsGetInit,
     InstallDownload, DeleteStart, StartCheckSave, StartReadConfig
<1>5. ASSUME NEW t \in Tasks,
             \/ SaveCreateExists(t) \/ SaveCreateBuild(t) \/ SaveDeleteExists(t)
             \/ SettingsGetRead(t) \/ StartInstance(t) \/ StatusPoll(t)
             \/ SaveCreateStart(t) \/ SaveCreateWait(t) \/ SaveDeleteRemove(t)
             \/ RconSend(t) \/ RconAnswer(t)
      PROVE  ControlInv'
  BY <1>3, <1>5 DEF SaveCreateExists, SaveCreateBuild, SaveDeleteExists, SettingsGetRead,
     StartInstance, StatusPoll, SaveCreateStart, SaveCreateWait, SaveDeleteRemove, RconSend,
     RconAnswer
<1>6. ASSUME NEW t \in Tasks, InstallLock(t) PROVE ControlInv'
  BY <1>6 DEF InstallLock
<1>7. ASSUME NEW t \in Tasks, InstallUnpack(t) \/ DeleteEnd(t) PROVE ControlInv'
  BY <1>3, <1>7 DEF InstallUnpack, DeleteEnd, RestartOrFinish
<1>8. ASSUME NEW t \in Tasks, ServerStart(t) PROVE ControlInv'
  <2>1. CASE versions = {} BY <1>3, <1>8, <2>1 DEF ServerStart
  <2>2. CASE versions # {}
    <3>1. pc[t] = "ss_lock" /\ pc' = [pc EXCEPT ![t] = "start_check"] /\ UNCHANGED <<op, to, save>>
      BY <1>8, <2>2 DEF ServerStart
    <3> QED BY <3>1
  <2> QED BY <2>1, <2>2
<1>9. ASSUME NEW t \in Tasks, ModDlcsLock(t) \/ SettingsGetLock(t) \/ SaveCreateLock(t) PROVE ControlInv'
  <2>1. CASE Reply(t, "Failed") BY <1>3, <2>1
  <2>2. CASE ~Reply(t, "Failed")
    <3>1. /\ UNCHANGED <<op, to, save>>
          /\ \/ pc[t] = "sg_lock" /\ pc' = [pc EXCEPT ![t] = "sg_init"]
             \/ pc[t] = "md_lock" /\ pc' = [pc EXCEPT ![t] = "md_apply"]
             \/ pc[t] = "sc_lock" /\ pc' = [pc EXCEPT ![t] = "sc_build"]
             \/ pc' = [pc EXCEPT ![t] = "done"]
      BY <1>9, <2>2 DEF ModDlcsLock, SettingsGetLock, SaveCreateLock
    <3> QED BY <3>1
  <2> QED BY <2>1, <2>2
<1>10. ASSUME NEW t \in Workers, StopInstance(t) PROVE ControlInv'
  BY <1>10 DEF StopInstance, AfterStop, Workers
<1>11. ASSUME NEW t \in Workers, StopWait(t) PROVE ControlInv'
  BY <1>11 DEF StopWait, AfterStop, Workers
<1>12. ASSUME NEW p \in Pids, HostExits(p) \/ CreateExits(p) \/ DroppedExits(p) PROVE ControlInv'
  BY <1>12 DEF HostExits, CreateExits, DroppedExits
<1>13. CASE Sigint
  BY <1>13 DEF Sigint
<1>14. CASE Restart
  BY <1>14 DEF Restart
<1> QED
  BY <1>1, <1>2, <1>4, <1>5, <1>6, <1>7, <1>8, <1>9, <1>10, <1>11, <1>12, <1>13, <1>14
  DEF Next, TaskStep

(* The last reply drops the guards of the task. *)
LEMMA FinishLock ==
  ASSUME IInv, NEW t \in Workers, NEW s, Finish(t, s), UNCHANGED op,
         \/ pc[t] \notin {"st_wait", "sc_wait", "rc_wait"} /\ UNCHANGED mutex
         \/ mutex = t /\ mutex' = NoTask
  PROVE  LockInv'
<1>1. /\ pc \in [Workers -> Steps] /\ LockInv /\ NoTask \notin Workers
      /\ writer \in Workers \cup {NoTask} /\ readers \subseteq Workers
  BY ConstantsAssumption DEF IInv, TypeOK, Workers
<1>2. \A u \in Workers : pc'[u] = IF u = t THEN "done" ELSE pc[u]
  BY <1>1 DEF Finish, Goto
<1> QED BY <1>1, <1>2 DEF LockInv, HoldsWrite, HoldsRead, StartSteps, Finish

(* A step that keeps the locks and stays on the same side of them. *)
LEMMA MoveLock ==
  ASSUME IInv, NEW t \in Workers, NEW s \in Steps, Goto(t, s), UNCHANGED <<writer, readers, mutex, op>>,
         HoldsWrite(t)' <=> HoldsWrite(t), HoldsRead(t)' <=> HoldsRead(t),
         pc[t] \notin {"st_wait", "sc_wait", "rc_wait"}, s \notin {"st_wait", "sc_wait", "rc_wait"}
  PROVE  LockInv'
<1>1. pc \in [Workers -> Steps] /\ LockInv
  BY DEF IInv, TypeOK
<1>2. \A u \in Workers : pc'[u] = IF u = t THEN s ELSE pc[u]
  BY <1>1 DEF Goto
<1>3. \A u \in Workers : (HoldsWrite(u)' <=> HoldsWrite(u)) /\ (HoldsRead(u)' <=> HoldsRead(u))
  BY <1>2 DEF HoldsWrite, HoldsRead
<1> QED BY <1>1, <1>2, <1>3 DEF LockInv

(* Every step keeps LockInv. *)
LEMMA LockStep ==
  ASSUME IInv, Next
  PROVE  LockInv'
<1>0. /\ Tasks \subseteq Workers /\ Main \in Workers /\ NoTask \notin Workers /\ LockInv
      /\ pc \in [Workers -> Steps] /\ op \in [Workers -> Requests \cup {"none", "shutdown"}]
      /\ writer \in Workers \cup {NoTask} /\ readers \subseteq Workers
  BY ConstantsAssumption DEF IInv, TypeOK, Workers
<1>1. ASSUME NEW t \in Tasks, HandleMessage(t) PROVE LockInv'
  <2>1. PICK o \in Ops : pc' = [pc EXCEPT ![t] = FirstStep(o)] /\ op' = [op EXCEPT ![t] = o]
    BY <1>1 DEF HandleMessage, Goto
  <2>2. pc[t] = "idle" /\ UNCHANGED <<writer, readers, mutex>>
    BY <1>1 DEF HandleMessage, locks, process
  <2> QED BY <1>0, <2>1, <2>2, FirstStepLemma DEF LockInv, HoldsWrite, HoldsRead, StartSteps
<1>2. ASSUME NEW t \in Tasks, Retire(t) PROVE LockInv'
  BY <1>0, <1>2 DEF Retire, Goto, locks, process, LockInv, HoldsWrite, HoldsRead, StartSteps
<1>3. ASSUME NEW t \in Tasks, NEW s, Reply(t, s),
             pc[t] \notin {"st_wait", "sc_wait", "rc_wait"}
      PROVE  LockInv'
  BY <1>0, <1>3, FinishLock DEF Reply, request, process
<1>4. ASSUME NEW t \in Tasks,
             \/ InstallConflict(t) \/ ReadConflict(t) \/ StatusRead(t) \/ VersionGet(t)
             \/ ModDlcsApply(t) \/ SettingsGetInit(t)
      PROVE  LockInv'
  BY <1>3, <1>4 DEF InstallConflict, ReadConflict, StatusRead, VersionGet, ModDlcsApply, SettingsGetInit
<1>5. ASSUME NEW t \in Tasks,
             \/ StartCheckSave(t) \/ StartReadConfig(t) \/ SaveCreateExists(t)
             \/ SaveCreateBuild(t) \/ SaveDeleteExists(t) \/ SettingsGetRead(t)
             \/ InstallDownload(t) \/ DeleteStart(t)
      PROVE  LockInv'
  <2>1. CASE \E s : Reply(t, s)
    BY <1>3, <1>5, <2>1 DEF StartCheckSave, StartReadConfig, SaveCreateExists, SaveCreateBuild,
       SaveDeleteExists, SettingsGetRead, InstallDownload, DeleteStart
  <2>2. CASE ~\E s : Reply(t, s)
    <3>1. UNCHANGED <<writer, readers, mutex, op>>
      BY <1>5, <2>2 DEF StartCheckSave, StartReadConfig, SaveCreateExists, SaveCreateBuild,
         SaveDeleteExists, SettingsGetRead, InstallDownload, DeleteStart, locks, process, request
    <3>2. \/ pc[t] = "start_check" /\ Goto(t, "start_config")
          \/ pc[t] = "start_config" /\ Goto(t, "start_lock")
          \/ pc[t] = "sc_exists" /\ Goto(t, "sc_lock")
          \/ pc[t] = "sc_build" /\ Goto(t, "sc_mutex")
          \/ pc[t] = "sd_exists" /\ Goto(t, "sd_remove")
          \/ pc[t] = "sg_read" /\ Goto(t, "sg_lock")
          \/ pc[t] = "in_download" /\ Goto(t, "in_unpack")
          \/ pc[t] = "rm_start" /\ Goto(t, "rm_wait")
      BY <1>5, <2>2 DEF StartCheckSave, StartReadConfig, SaveCreateExists, SaveCreateBuild,
         SaveDeleteExists, SettingsGetRead, InstallDownload, DeleteStart
    <3>3. PICK s \in Steps : Goto(t, s)
      BY <3>2 DEF Steps
    <3>4. pc'[t] = s BY <1>0, <3>3 DEF Goto
    <3>5. /\ HoldsWrite(t)' <=> HoldsWrite(t)
          /\ HoldsRead(t)' <=> HoldsRead(t)
          /\ pc[t] \notin {"st_wait", "sc_wait", "rc_wait"} /\ s \notin {"st_wait", "sc_wait", "rc_wait"}
      BY <1>0, <3>1, <3>2, <3>4 DEF Goto, HoldsWrite, HoldsRead, StartSteps
    <3> QED BY <1>0, <3>1, <3>3, <3>5, MoveLock
  <2> QED BY <2>1, <2>2


<1> USE <1>0 DEF LockInv, HoldsWrite, HoldsRead, StartSteps, Reply, Finish, Goto, locks, process, request
<1>6. ASSUME NEW t \in Tasks, InstallLock(t) PROVE LockInv'
  BY <1>6 DEF InstallLock, CanWrite, IInv, ControlInv
<1>7. ASSUME NEW t \in Tasks, InstallUnpack(t) PROVE LockInv'
  BY <1>7 DEF InstallUnpack, RestartOrFinish, IInv, ControlInv
<1>8. ASSUME NEW t \in Tasks, DeleteEnd(t) PROVE LockInv'
  BY <1>8 DEF DeleteEnd, RestartOrFinish, IInv, ControlInv
<1>9. ASSUME NEW t \in Tasks, ServerStart(t) PROVE LockInv'
  <2>1. CASE versions = {} BY <1>3, <1>9, <2>1 DEF ServerStart
  <2>2. CASE versions # {}
    <3>1. /\ pc[t] = "ss_lock" /\ pc' = [pc EXCEPT ![t] = "start_check"] /\ writer = NoTask
          /\ UNCHANGED <<writer, mutex, op>> /\ readers' = readers \cup {t}
      BY <1>9, <2>2 DEF ServerStart, CanRead
    <3>2. op[t] = "server_start" BY <3>1 DEF IInv, ControlInv
    <3> QED BY <3>1, <3>2
  <2> QED BY <2>1, <2>2
<1>10. ASSUME NEW t \in Tasks, ModDlcsLock(t) \/ SettingsGetLock(t) PROVE LockInv'
  <2>1. CASE Reply(t, "Failed")
    BY <1>3, <1>10, <2>1 DEF ModDlcsLock, SettingsGetLock
  <2>2. CASE ~Reply(t, "Failed")
    <3>1. /\ writer = NoTask /\ UNCHANGED <<writer, mutex, op>> /\ readers' = readers \cup {t}
          /\ \/ pc[t] = "sg_lock" /\ pc' = [pc EXCEPT ![t] = "sg_init"]
             \/ pc[t] = "md_lock" /\ pc' = [pc EXCEPT ![t] = "md_apply"]
      BY <1>10, <2>2 DEF ModDlcsLock, SettingsGetLock, CanRead
    <3> QED BY <3>1
  <2> QED BY <2>1, <2>2
<1>11. ASSUME NEW t \in Tasks, SaveCreateLock(t) PROVE LockInv'
  <2>1. /\ pc[t] = "sc_lock" /\ writer = NoTask /\ UNCHANGED <<writer, mutex, op>>
        /\ \/ pc' = [pc EXCEPT ![t] = "done"] /\ readers' = readers
           \/ pc' = [pc EXCEPT ![t] = "sc_build"] /\ readers' = readers \cup {t}
    BY <1>11 DEF SaveCreateLock, CanRead
  <2>2. op[t] = "save_create" BY <2>1 DEF IInv, ControlInv
  <2> QED BY <2>1, <2>2
<1>12. ASSUME NEW t \in Tasks, StartInstance(t) PROVE LockInv'
  BY <1>12 DEF StartInstance
<1>13. ASSUME NEW t \in Tasks, StatusPoll(t) PROVE LockInv'
  <2>1. /\ pc[t] = "stat_poll" /\ UNCHANGED <<mutex, op>>
        /\ \/ Finish(t, "Completed")
           \/ Goto(t, "stat_read") /\ UNCHANGED <<writer, readers>>
    BY <1>13 DEF StatusPoll
  <2>2. CASE Finish(t, "Completed") BY <2>1, <2>2, FinishLock
  <2>3. CASE ~Finish(t, "Completed") BY <2>1, <2>3
  <2> QED BY <2>2, <2>3
<1>14. ASSUME NEW t \in Tasks, SaveCreateStart(t) PROVE LockInv'
  BY <1>14 DEF SaveCreateStart
<1>15. ASSUME NEW t \in Tasks, SaveCreateWait(t) PROVE LockInv'
  BY <1>15, FinishLock DEF SaveCreateWait
<1>16. ASSUME NEW t \in Tasks, SaveDeleteRemove(t) PROVE LockInv'
  BY <1>16, FinishLock DEF SaveDeleteRemove
<1>17. ASSUME NEW t \in Tasks, RconSend(t) \/ RconAnswer(t) PROVE LockInv'
  BY <1>3, <1>17, FinishLock DEF RconSend, RconAnswer
<1>18. ASSUME NEW t \in Workers, StopInstance(t) PROVE LockInv'
  BY <1>18 DEF StopInstance, AfterStop, IInv, ControlInv, Workers
<1>19. ASSUME NEW t \in Workers, StopWait(t) PROVE LockInv'
  <2>1. /\ pc[t] = "st_wait" /\ mutex = t /\ mutex' = NoTask /\ UNCHANGED op
        /\ op[t] \in {"version_install", "server_stop", "shutdown"}
    BY <1>19 DEF StopWait, IInv, ControlInv, Workers
  <2>2. CASE Finish(t, "Completed") BY <2>1, <2>2, FinishLock
  <2>3. CASE ~Finish(t, "Completed")
    <3>1. /\ UNCHANGED locks /\ op[t] \in {"version_install", "shutdown"}
          /\ \/ op[t] = "shutdown" /\ Goto(t, "done")
             \/ op[t] = "version_install" /\ (Goto(t, "in_download") \/ Goto(t, "rm_start"))
      BY <1>19, <2>1, <2>3 DEF StopWait, AfterStop
    <3> QED BY <2>1, <3>1
  <2> QED BY <2>2, <2>3
<1>20. ASSUME NEW p \in Pids, HostExits(p) \/ CreateExits(p) \/ DroppedExits(p) PROVE LockInv'
  BY <1>20 DEF HostExits, CreateExits, DroppedExits
<1>21. CASE Sigint
  BY <1>21 DEF Sigint
<1>22. CASE Restart
  BY <1>22 DEF Restart
<1> QED
  BY <1>1, <1>2, <1>4, <1>5, <1>6, <1>7, <1>8, <1>9, <1>10, <1>11, <1>12, <1>13, <1>14,
     <1>15, <1>16, <1>17, <1>18, <1>19, <1>20, <1>21, <1>22 DEF Next, TaskStep

-----------------------------------------------------------------------------
(* ProcInv                                                                 *)

(* Every step keeps ProcInv. *)
LEMMA ProcStep ==
  ASSUME IInv, Next
  PROVE  ProcInv'
<1>0. FunctionTypes /\ TypeOK /\ ProcInv /\ Tasks \subseteq Workers /\ Main \in Workers
  BY FunctionTypesLemma DEF IInv, Workers
<1>a. proc \in [Pids -> ProcRecords] /\ instance \in Pids \cup {NoPid}
  BY <1>0 DEF TypeOK
<1>b. CASE ProcQuiet
  BY <1>0, <1>b DEF ProcInv, ProcQuiet, Owned
<1>1. ASSUME NEW t \in Tasks, HandleMessage(t) PROVE ProcInv'
  <2>1. ProcQuiet
    BY <1>0, <1>1, FirstStepLemma DEF HandleMessage, Goto, FunctionTypes, ProcQuiet, WaitSteps, process
  <2> QED BY <2>1, <1>b
<1>2. ASSUME NEW t \in Tasks, TaskStep(t) \/ Retire(t),
             ~StopInstance(t), ~StopWait(t), ~StartInstance(t), ~StatusPoll(t),
             ~SaveCreateStart(t), ~SaveCreateWait(t)
      PROVE  ProcInv'
  <2>1. ProcQuiet BY <1>0, <1>2, ProcQuietLemma DEF TaskStep
  <2> QED BY <2>1, <1>b
<1>3. ASSUME NEW t \in Workers, StopInstance(t) PROVE ProcInv'
  <2>1. mutex = NoTask /\ instance' = NoPid /\ pc[t] = "st_lock" BY <1>3 DEF StopInstance
  <2>2. /\ \A u \in Workers : pc[u] \notin WaitSteps
        /\ \A p \in Pids : Owned(p) => p = instance
    BY <2>1, MutexFree
  <2>3. Others(t) BY <1>0, <1>3, OthersLemma
  <2>4. CASE Goto(t, "st_wait") /\ child' = [child EXCEPT ![t] = instance] /\ instance # NoPid
             /\ proc' = [proc EXCEPT ![instance].state = "terminating"]
    <3>1. /\ pc'[t] = "st_wait" /\ child'[t] = instance
          /\ \A u \in Workers : pc'[u] \in WaitSteps => u = t
      BY <1>0, <2>2, <2>3, <2>4 DEF Goto, FunctionTypes, Others, WaitSteps
    <3>2. \A p \in Pids : /\ Owned(p)' => p = instance
                          /\ proc'[p].save = proc[p].save
                          /\ p # instance => proc'[p] = proc[p]
      BY <1>a, <2>2, <2>4 DEF ProcRecords, Owned
    <3>3. proc'[instance].state = "terminating" BY <1>a, <2>4 DEF ProcRecords
    <3>4. instance \in Pids /\ proc[instance].state # "free" BY <1>0, <1>a, <2>4 DEF ProcInv, Owned
    <3>5. \A p \in Pids : proc'[p].state # "free" => proc'[p].save \in Saves
      BY <1>0, <3>2, <3>4 DEF ProcInv
    <3>6. \A p \in Pids : proc'[p].state = "dropped" => "stop" \in Faults
      BY <1>0, <3>2, <3>3 DEF ProcInv
    <3>7. \A u \in Workers : pc'[u] \in WaitSteps => child'[u] \in Pids /\ proc'[child'[u]].state \notin {"free", "dropped"}
      <4>1. proc'[child'[t]].state = "terminating" BY <3>1, <3>3
      <4> QED BY <3>1, <3>4, <4>1
    <3>8. \A p \in Pids : Owned(p)' => p = instance' \/ \E u \in Workers : pc'[u] \in WaitSteps /\ child'[u] = p
      BY <3>1, <3>2 DEF WaitSteps
    <3> QED BY <2>1, <3>5, <3>6, <3>7, <3>8 DEF ProcInv, Owned
  <2>5. CASE \E s, o : AfterStop(t, s, o)
    <3>1. pc'[t] \notin WaitSteps
      BY <1>0, <2>5 DEF AfterStop, Finish, Goto, FunctionTypes, WaitSteps
    <3>2. \A u \in Workers : pc'[u] \notin WaitSteps BY <2>2, <2>3, <3>1 DEF Others
    <3>3. CASE instance = NoPid /\ UNCHANGED proc
      BY <1>0, <2>1, <2>2, <3>2, <3>3, ConstantsAssumption DEF ProcInv, Owned
    <3>4. CASE instance # NoPid /\ LetsGo(instance)
      <4>1. instance \in Pids /\ proc[instance].state # "free"
        BY <1>0, <1>a, <3>4 DEF ProcInv, Owned
      <4> QED BY <2>1, <2>2, <3>2, <3>4, <4>1, LetsGoLemma DEF ProcInv
    <3> QED BY <1>3, <2>4, <3>3, <3>4 DEF StopInstance, LetsGo
  <2> QED BY <1>3, <2>4, <2>5 DEF StopInstance
<1>4. ASSUME NEW t \in Workers, NEW w \in WaitSteps, pc[t] = w, LetsGo(child[t]),
             Others(t), pc'[t] \notin WaitSteps, UNCHANGED instance
      PROVE  ProcInv'
  <2>1. /\ instance = NoPid /\ child[t] \in Pids
        /\ \A u \in Workers : pc[u] \in WaitSteps => u = t
        /\ \A p \in Pids : Owned(p) => p = child[t]
    BY <1>4, MutexHeld
  <2>2. proc[child[t]].state # "free" BY <1>0, <1>4 DEF ProcInv, Owned
  <2>3. \A u \in Workers : pc'[u] \notin WaitSteps BY <1>4, <2>1 DEF Others
  <2> QED BY <1>4, <2>1, <2>2, <2>3, LetsGoLemma DEF ProcInv
<1>c. ASSUME NEW t \in Workers, StopWait(t) PROVE ProcInv'
  <2>1. pc[t] = "st_wait" /\ UNCHANGED instance /\ LetsGo(child[t])
    BY <1>c DEF StopWait, LetsGo
  <2>2. Others(t) BY <1>0, <1>c, OthersLemma
  <2>3. pc'[t] \notin WaitSteps
    BY <1>0, <1>c DEF StopWait, AfterStop, Finish, Goto, FunctionTypes, WaitSteps
  <2> QED BY <1>4, <2>1, <2>2, <2>3 DEF WaitSteps
<1>5. ASSUME NEW t \in Tasks, StartInstance(t) PROVE ProcInv'
  <2>1. mutex = NoTask /\ pc[t] = "start_lock" BY <1>5 DEF StartInstance
  <2>2. /\ \A u \in Workers : pc[u] \notin WaitSteps
        /\ \A p \in Pids : Owned(p) => p = instance
    BY <2>1, MutexFree
  <2>3. Others(t) /\ pc'[t] = "done"
    BY <1>0, <1>5, OthersLemma DEF StartInstance, Reply, Finish, Goto, FunctionTypes
  <2>4. CASE Reply(t, "Failed")
    <3>1. ProcQuiet BY <1>0, <2>2, <2>3, <2>4 DEF Reply, process, ProcQuiet, Others, WaitSteps
    <3> QED BY <3>1, <1>b
  <2>5. CASE instance = NoPid /\ \E p \in Pids : Spawn(p, "host", StartVersion(t), save[t]) /\ instance' = p
    <3>1. PICK p \in Pids : Spawn(p, "host", StartVersion(t), save[t]) /\ instance' = p
      BY <2>5
    <3>2. /\ proc'[p].state = "running" /\ proc'[p].kind = "host" /\ proc'[p].save = save[t]
          /\ \A q \in Pids \ {p} : proc'[q] = proc[q]
      BY <1>a, <3>1 DEF Spawn
    <3>3. save[t] \in Saves BY <2>1, <1>0 DEF IInv, ControlInv
    <3>4. \A u \in Workers : pc'[u] \notin WaitSteps
      BY <2>2, <2>3 DEF Others, WaitSteps
    <3> QED BY <1>0, <1>a, <2>2, <2>5, <3>1, <3>2, <3>3, <3>4, ConstantsAssumption DEF ProcInv, Owned
  <2> QED BY <1>5, <2>4, <2>5 DEF StartInstance
<1>6. ASSUME NEW t \in Tasks, StatusPoll(t) PROVE ProcInv'
  <2>1. mutex = NoTask /\ pc[t] = "stat_poll" BY <1>6 DEF StatusPoll
  <2>2. /\ \A u \in Workers : pc[u] \notin WaitSteps
        /\ \A p \in Pids : Owned(p) => p = instance
    BY <2>1, MutexFree
  <2>3. Others(t) /\ pc'[t] \in {"done", "stat_read"}
    BY <1>0, <1>6, OthersLemma DEF StatusPoll, Reply, Finish, Goto, FunctionTypes
  <2>4. \A u \in Workers : pc'[u] \notin WaitSteps BY <2>2, <2>3 DEF Others, WaitSteps
  <2>5. CASE UNCHANGED <<proc, child, instance>>
    BY <1>b, <2>2, <2>4, <2>5 DEF ProcQuiet
  <2>6. CASE instance # NoPid /\ instance' = NoPid /\ proc' = [proc EXCEPT ![instance] = FreeProc]
    <3>1. LetsGo(instance) /\ instance \in Pids /\ proc[instance].state # "free"
      BY <1>0, <1>a, <2>6 DEF LetsGo, ProcInv, Owned
    <3> QED BY <2>2, <2>4, <2>6, <3>1, LetsGoLemma DEF ProcInv
  <2> QED BY <1>6, <2>5, <2>6 DEF StatusPoll, Reply, process
<1>7. ASSUME NEW t \in Tasks, SaveCreateStart(t) PROVE ProcInv'
  <2>1. mutex = NoTask /\ pc[t] = "sc_mutex" BY <1>7 DEF SaveCreateStart
  <2>2. /\ \A u \in Workers : pc[u] \notin WaitSteps
        /\ \A p \in Pids : Owned(p) => p = instance
    BY <2>1, MutexFree
  <2>3. Others(t) BY <1>0, <1>7, OthersLemma
  <2>4. CASE Reply(t, "Failed")
    <3>1. pc'[t] = "done" BY <1>0, <2>4 DEF Reply, Finish, Goto, FunctionTypes
    <3>2. ProcQuiet BY <2>2, <2>3, <2>4, <3>1 DEF Reply, process, ProcQuiet, Others, WaitSteps
    <3> QED BY <3>2, <1>b
  <2>5. CASE /\ instance = NoPid /\ instance' = instance /\ Goto(t, "sc_wait")
             /\ \E p \in Pids : Spawn(p, "create", from[t], save[t]) /\ child' = [child EXCEPT ![t] = p]
    <3>1. PICK p \in Pids : Spawn(p, "create", from[t], save[t]) /\ child' = [child EXCEPT ![t] = p]
      BY <2>5
    <3>2. /\ proc'[p].state = "running" /\ proc'[p].save = save[t]
          /\ \A q \in Pids \ {p} : proc'[q] = proc[q]
      BY <1>a, <3>1 DEF Spawn
    <3>3. save[t] \in Saves BY <2>1 DEF IInv, ControlInv
    <3>4. /\ pc'[t] = "sc_wait" /\ child'[t] = p
          /\ \A u \in Workers : pc'[u] \in WaitSteps => u = t
      BY <1>0, <2>2, <2>3, <2>5, <3>1 DEF Others, WaitSteps, Goto, FunctionTypes
    <3> QED BY <1>0, <1>a, <2>2, <2>5, <3>1, <3>2, <3>3, <3>4, ConstantsAssumption
            DEF ProcInv, WaitSteps, Owned
  <2> QED BY <1>7, <2>4, <2>5 DEF SaveCreateStart
<1>8. ASSUME NEW t \in Tasks, SaveCreateWait(t) PROVE ProcInv'
  <2>1. pc[t] = "sc_wait" /\ UNCHANGED instance /\ LetsGo(child[t])
    BY <1>8 DEF SaveCreateWait, LetsGo
  <2>2. Others(t) BY <1>0, <1>8, OthersLemma
  <2>3. pc'[t] \notin WaitSteps
    BY <1>0, <1>8 DEF SaveCreateWait, Finish, Goto, FunctionTypes, WaitSteps
  <2> QED BY <1>0, <1>4, <2>1, <2>2, <2>3 DEF WaitSteps
<1>9. ASSUME NEW p \in Pids, HostExits(p) \/ CreateExits(p) PROVE ProcInv'
  <2>1. /\ UNCHANGED <<instance, child, pc>> /\ Owned(p)
        /\ \/ proc' = [proc EXCEPT ![p].state = "exited"]
           \/ proc' = [proc EXCEPT ![p].state = "failed"]
    BY <1>9 DEF HostExits, CreateExits, Owned
  <2>2. \A q \in Pids : /\ Owned(q)' <=> Owned(q)
                        /\ proc'[q].state # "free" <=> proc[q].state # "free"
                        /\ proc'[q].state = "dropped" <=> proc[q].state = "dropped"
                        /\ proc'[q].kind = proc[q].kind /\ proc'[q].save = proc[q].save
    BY <1>a, <2>1 DEF ProcRecords, Owned
  <2> QED BY <1>0, <1>a, <2>1, <2>2 DEF ProcInv
<1>d. ASSUME NEW p \in Pids, DroppedExits(p) PROVE ProcInv'
  <2>1. /\ UNCHANGED <<instance, child, pc>> /\ proc[p].state = "dropped"
        /\ proc' = [proc EXCEPT ![p] = FreeProc]
    BY <1>d DEF DroppedExits
  <2>2. /\ \A q \in Pids \ {p} : proc'[q] = proc[q]
        /\ proc'[p].state = "free" /\ ~Owned(p)
    BY <1>a, <2>1 DEF FreeProc, Owned
  <2>3. \A q \in Pids : (Owned(q)' <=> Owned(q)) /\ (Owned(q) => proc'[q] = proc[q])
    BY <2>2 DEF Owned
  <2> QED BY <1>0, <1>a, <2>1, <2>2, <2>3 DEF ProcInv
<1>10. CASE Sigint
  <2>1. ProcQuiet BY <1>0, <1>10 DEF Sigint, Goto, FunctionTypes, ProcQuiet, WaitSteps, process
  <2> QED BY <2>1, <1>b
<1>11. CASE Restart
  BY <1>11 DEF Restart, ProcInv, FreeProc, WaitSteps, Owned
<1> QED
  BY <1>0, <1>1, <1>2, <1>3, <1>c, <1>5, <1>6, <1>7, <1>8, <1>9, <1>d, <1>10, <1>11 DEF Next, TaskStep

-----------------------------------------------------------------------------
(* InstallInv and QuietWhileReplacing                                      *)

(* While a task holds the write lock no other task holds either lock. *)
LEMMA WriterAlone ==
  ASSUME IInv, NEW t \in Tasks, HoldsWrite(t)
  PROVE  \A u \in Tasks \ {t} : ~HoldsWrite(u) /\ ~HoldsRead(u)
<1>1. t \in Workers /\ Tasks \subseteq Workers BY DEF Workers
<1>2. writer = t /\ readers = {} BY <1>1, ConstantsAssumption DEF IInv, LockInv
<1> QED BY <1>1, <1>2 DEF IInv, LockInv

(* The installations the other tasks rely on stay. *)
LEMMA OthersInstall ==
  ASSUME IInv, NEW t \in Workers, Others(t),
         UNCHANGED <<versions, disk>> \/ (t \in Tasks /\ HoldsWrite(t))
  PROVE  \A u \in Tasks \ {t} : TaskInstallInv(u)'
<1>0. Tasks \subseteq Workers BY DEF Workers
<1>1. \A u \in Tasks \ {t} : (HoldsWrite(u)' <=> HoldsWrite(u)) /\ (HoldsRead(u)' <=> HoldsRead(u))
  BY <1>0 DEF Others, HoldsWrite, HoldsRead
<1>2. CASE UNCHANGED <<versions, disk>>
  BY <1>0, <1>1, <1>2 DEF IInv, InstallInv, TaskInstallInv, Others
<1>3. CASE t \in Tasks /\ HoldsWrite(t)
  BY <1>1, <1>3, WriterAlone DEF TaskInstallInv
<1> QED BY <1>2, <1>3

(* A task's own step keeps what it relies on. *)
LEMMA OwnInstall ==
  ASSUME IInv, NEW t \in Tasks, HandleMessage(t) \/ Retire(t) \/ TaskStep(t)
  PROVE  TaskInstallInv(t)'
<1>0. /\ FunctionTypes /\ t \in Workers /\ TaskInstallInv(t) /\ disk \in [Versions -> DirStates]
      /\ op[t] = "version_install" => to[t] \in Versions
      /\ pc[t] \in {"vi_lock", "in_download", "in_unpack", "rm_start", "rm_wait"}
           => op[t] = "version_install"
      /\ pc[t] \in {"sc_exists", "sc_lock", "sc_build", "sc_mutex", "sc_wait"}
            => op[t] = "save_create"
      /\ versions \subseteq Versions
      /\ \A v \in versions : v # NoVersion
  BY FunctionTypesLemma, ConstantsAssumption DEF IInv, TypeOK, Workers, ControlInv, InstallInv
<1>1. CASE HandleMessage(t)
  <2>1. PICK o \in Ops : pc'[t] = FirstStep(o) /\ op'[t] = o
    BY <1>0, <1>1 DEF HandleMessage, Goto, FunctionTypes
  <2> QED BY <2>1, FirstStepLemma DEF TaskInstallInv, HoldsRead, HoldsWrite, StartSteps
<1>2. CASE pc'[t] \in {"idle", "done", "stat_read", "rc_wait", "sg_lock", "sc_lock", "sd_remove"}
  BY <1>2 DEF TaskInstallInv, HoldsRead, HoldsWrite, StartSteps
<1> USE <1>0 DEF TaskInstallInv, HoldsRead, HoldsWrite, StartSteps, FunctionTypes, Reply, Finish, Goto, install, request
<1>3. CASE InstallLock(t)
  <2>1. PICK v \in IF versions = {} THEN {NoVersion} ELSE versions :
          /\ from'[t] = v
          /\ \/ pc'[t] = "done"
             \/ v = to[t] /\ pc'[t] = "st_lock"
             \/ v # to[t] /\ pc'[t] = "in_download"
    BY <1>3 DEF InstallLock
  <2>2. UNCHANGED <<versions, disk, op, to>> BY <1>3 DEF InstallLock
  <2>3. IF v = NoVersion THEN versions = {} ELSE v \in versions BY <2>1
  <2>4. CASE pc'[t] = "st_lock" 
    <3>1. to[t] # NoVersion BY <1>3, ConstantsAssumption DEF InstallLock
    <3> QED BY <2>1, <2>2, <2>3, <2>4, <3>1
  <2>5. CASE pc'[t] = "in_download" BY <2>1, <2>2, <2>3, <2>5
  <2> QED BY <1>2, <2>1, <2>4, <2>5
<1>4. CASE InstallDownload(t)
  BY <1>2, <1>4 DEF InstallDownload
<1>5. CASE InstallUnpack(t)
  BY <1>2, <1>5 DEF InstallUnpack, RestartOrFinish
<1>6. CASE DeleteStart(t)
  BY <1>2, <1>6 DEF DeleteStart
<1>7. CASE DeleteEnd(t)
  BY <1>2, <1>7 DEF DeleteEnd, RestartOrFinish
<1>8. CASE StopInstance(t)
  BY <1>2, <1>8 DEF StopInstance, AfterStop
<1>9. CASE StopWait(t)
  BY <1>2, <1>9 DEF StopWait, AfterStop
<1>10. CASE ServerStart(t) \/ ModDlcsLock(t) \/ SettingsGetLock(t) \/ SaveCreateLock(t)
  <2>1. CASE pc'[t] # "done"
    <3>1. /\ from'[t] \in versions /\ op'[t] = op[t] /\ versions' = versions
          /\ pc'[t] \in {"sc_build", "md_apply", "sg_init"} \/ pc[t] = "ss_lock"
      BY <1>10, <2>1 DEF ServerStart, ModDlcsLock, SettingsGetLock, SaveCreateLock
    <3>2. pc[t] = "ss_lock" => op[t] # "version_install"
      BY DEF IInv, ControlInv
    <3> QED BY <3>1, <3>2
  <2> QED BY <1>2, <2>1
<1>11. CASE StartCheckSave(t) \/ StartReadConfig(t) \/ SaveCreateBuild(t) \/ SaveCreateStart(t)
  BY <1>2, <1>11 DEF StartCheckSave, StartReadConfig, SaveCreateBuild, SaveCreateStart
<1>12. CASE \/ InstallConflict(t) \/ ReadConflict(t) \/ StartInstance(t) \/ StatusPoll(t)
            \/ StatusRead(t) \/ VersionGet(t) \/ SaveCreateExists(t) \/ SaveCreateWait(t)
            \/ SaveDeleteExists(t) \/ SaveDeleteRemove(t) \/ RconSend(t) \/ RconAnswer(t)
            \/ SettingsGetRead(t) \/ ModDlcsApply(t) \/ SettingsGetInit(t) \/ Retire(t)
  BY <1>2, <1>12 DEF InstallConflict, ReadConflict, StartInstance, StatusPoll, StatusRead,
     VersionGet, SaveCreateExists, SaveCreateWait, SaveDeleteExists, SaveDeleteRemove,
     RconSend, RconAnswer, SettingsGetRead, ModDlcsApply, SettingsGetInit, Retire
<1> QED BY <1>1, <1>3, <1>4, <1>5, <1>6, <1>7, <1>8, <1>9, <1>10, <1>11, <1>12 DEF TaskStep

(* Every step keeps InstallInv. *)
LEMMA InstallStep ==
  ASSUME IInv, Next
  PROVE  InstallInv'
<1>0. FunctionTypes /\ TypeOK /\ InstallInv /\ Tasks \subseteq Workers /\ Main \in Workers /\ Main \notin Tasks
  BY FunctionTypesLemma, ConstantsAssumption DEF IInv, Workers
<1>a. proc \in [Pids -> ProcRecords] /\ disk \in [Versions -> DirStates] /\ versions \subseteq Versions
  BY <1>0 DEF TypeOK
<1>1. ASSUME NEW t \in Tasks, HandleMessage(t) \/ Retire(t) \/ TaskStep(t)
      PROVE  InstallInv'
  <2>1. Others(t) BY <1>0, <1>1, OthersLemma DEF TaskStep
  <2>2. TaskInstallInv(t)' BY <1>1, OwnInstall
  <2>3. CASE ~(InstallDownload(t) \/ InstallUnpack(t) \/ DeleteStart(t) \/ DeleteEnd(t))
    <3>1. UNCHANGED <<versions, disk>>
      BY <1>0, <1>1, <2>3, InstallQuietLemma DEF TaskStep
    <3>2. \A u \in Tasks : TaskInstallInv(u)'
      BY <1>0, <2>1, <2>2, <3>1, OthersInstall
    <3>3. \A p \in Pids : Live(p)' => proc'[p].version \in versions
      <4>1. CASE ~StartInstance(t) /\ ~SaveCreateStart(t)
        <5>1. LiveShrinks BY <1>0, <1>1, <4>1, LiveShrinksLemma
        <5> QED BY <1>0, <5>1 DEF LiveShrinks, Live, InstallInv
      <4>2. CASE StartInstance(t)
        <5>1. StartVersion(t) \in versions
          BY <1>0, <4>2 DEF StartInstance, IInv, ControlInv, InstallInv, TaskInstallInv,
             HoldsRead, HoldsWrite, StartSteps, StartVersion
        <5> QED BY <1>0, <1>a, <4>2, <5>1 DEF StartInstance, Reply, process, Spawn, Live, InstallInv
      <4>3. CASE SaveCreateStart(t)
        <5>1. from[t] \in versions
          BY <1>0, <4>3 DEF SaveCreateStart, InstallInv, TaskInstallInv, HoldsRead
        <5> QED BY <1>0, <1>a, <4>3, <5>1 DEF SaveCreateStart, Reply, process, Spawn, Live, InstallInv
      <4> QED BY <4>1, <4>2, <4>3
    <3> QED BY <1>0, <3>1, <3>2, <3>3 DEF InstallInv
  <2>4. CASE InstallDownload(t) \/ InstallUnpack(t) \/ DeleteStart(t) \/ DeleteEnd(t)
    <3>1. HoldsWrite(t) /\ to[t] \in Versions
      BY <1>0, <2>4 DEF InstallDownload, InstallUnpack, DeleteStart, DeleteEnd, IInv,
         ControlInv, HoldsWrite
    <3>2. \A u \in Tasks : TaskInstallInv(u)'
      BY <1>0, <2>1, <2>2, <3>1, OthersInstall
    <3>3. \A v \in versions' : disk'[v] # "absent"
      BY <1>0, <1>a, <2>4, <3>1 DEF InstallDownload, InstallUnpack, DeleteStart, DeleteEnd,
         Reply, install, InstallInv
    <3>4. UNCHANGED proc
      BY <2>4 DEF InstallDownload, InstallUnpack, DeleteStart, DeleteEnd, Reply, process
    <3>5. \A p \in Pids : Live(p)' => proc'[p].version \in versions'
      <4>1. CASE versions \subseteq versions' BY <1>0, <3>4, <4>1 DEF Live, InstallInv
      <4>2. CASE DeleteEnd(t)
        BY <3>4, <4>2 DEF DeleteEnd, IInv, QuietWhileReplacing, Replacing, Live
      <4> QED BY <2>4, <4>1, <4>2 DEF InstallDownload, InstallUnpack, DeleteStart, Reply, install
    <3> QED BY <3>2, <3>3, <3>5 DEF InstallInv
  <2> QED BY <2>3, <2>4
<1>2. CASE StopInstance(Main) \/ StopWait(Main)
  <2>1. Others(Main) BY <1>0, <1>2, OthersLemma
  <2>2. UNCHANGED <<versions, disk>> BY <1>2 DEF StopInstance, StopWait, install
  <2>3. \A u \in Tasks : TaskInstallInv(u)' BY <1>0, <2>1, <2>2, OthersInstall
  <2>4. LiveShrinks
    <3>1. ~StartInstance(Main) /\ ~SaveCreateStart(Main)
      BY <1>2 DEF StopInstance, StopWait, StartInstance, SaveCreateStart
    <3> QED BY <1>0, <1>2, <3>1, LiveShrinksLemma DEF TaskStep
  <2> QED BY <1>0, <2>2, <2>3, <2>4 DEF LiveShrinks, Live, InstallInv
<1>3. ASSUME NEW p \in Pids, HostExits(p) \/ CreateExits(p) \/ DroppedExits(p) PROVE InstallInv'
  <2>1. UNCHANGED <<versions, disk, pc, op, to, from>>
    BY <1>3 DEF HostExits, CreateExits, DroppedExits, install, request
  <2>2. \A q \in Pids : Live(q)' => Live(q) /\ proc'[q].version = proc[q].version
    BY <1>a, <1>3 DEF HostExits, CreateExits, DroppedExits, Live, ProcRecords, FreeProc
  <2> QED BY <1>0, <2>1, <2>2 DEF InstallInv, TaskInstallInv, HoldsRead, HoldsWrite
<1>4. CASE Sigint
  <2>1. UNCHANGED <<versions, disk, proc, to, from>> BY <1>4 DEF Sigint, install, process
  <2>2. \A u \in Tasks : pc'[u] = pc[u] /\ op'[u] = op[u]
    BY <1>0, <1>4 DEF Sigint, Goto, FunctionTypes
  <2> QED BY <1>0, <2>1, <2>2 DEF InstallInv, TaskInstallInv, HoldsRead, HoldsWrite, Live
<1>5. CASE Restart
  <2>1. \A u \in Tasks : TaskInstallInv(u)'
    BY <1>0, <1>5 DEF Restart, TaskInstallInv, HoldsRead, HoldsWrite, StartSteps
  <2> QED BY <1>5, <2>1 DEF Restart, InstallInv, Scan, Live, FreeProc
<1> QED BY <1>1, <1>2, <1>3, <1>4, <1>5 DEF Next

(* Every step keeps QuietWhileReplacing. *)
LEMMA QuietStep ==
  ASSUME IInv, Next
  PROVE  QuietWhileReplacing'
<1>0. FunctionTypes /\ TypeOK /\ QuietWhileReplacing /\ Tasks \subseteq Workers /\ Main \in Workers /\ Main \notin Tasks
  BY FunctionTypesLemma, ConstantsAssumption DEF IInv, Workers
<1>a. proc \in [Pids -> ProcRecords] /\ instance \in Pids \cup {NoPid}
  BY <1>0 DEF TypeOK
<1>b. CASE \A p \in Pids : ~Live(p)'
  BY <1>b DEF QuietWhileReplacing
<1>1. ASSUME NEW t \in Tasks, HandleMessage(t) \/ Retire(t) \/ TaskStep(t)
      PROVE  QuietWhileReplacing'
  <2>1. Others(t) BY <1>0, <1>1, OthersLemma DEF TaskStep
  <2>2. CASE StartInstance(t) \/ SaveCreateStart(t)
    <3>1. /\ HoldsRead(t) \/ HoldsWrite(t)
          /\ ~Replacing(t)'
      BY <1>0, <2>2 DEF StartInstance, SaveCreateStart, IInv, ControlInv, HoldsRead, HoldsWrite,
         StartSteps, Reply, Finish, Goto, FunctionTypes, Replacing
    <3>2. \A u \in Tasks \ {t} : ~Replacing(u)
      <4>1. SUFFICES ASSUME NEW u \in Tasks \ {t}, Replacing(u) PROVE FALSE
        OBVIOUS
      <4>2. HoldsWrite(u) BY <4>1 DEF Replacing, IInv, ControlInv, HoldsWrite
      <4> QED BY <3>1, <4>1, <4>2, WriterAlone
    <3> QED BY <1>0, <2>1, <3>1, <3>2 DEF QuietWhileReplacing, Replacing, Others
  <2>3. CASE ~StartInstance(t) /\ ~SaveCreateStart(t)
    <3>1. LiveShrinks BY <1>0, <1>1, <2>3, LiveShrinksLemma
    <3>2. CASE Replacing(t)' => Replacing(t)
      BY <1>0, <2>1, <3>1, <3>2 DEF QuietWhileReplacing, Replacing, Others, LiveShrinks, Live
    <3>3. CASE StopInstance(t)
      <4>1. mutex = NoTask BY <3>3 DEF StopInstance
      <4>2. \A p \in Pids : Owned(p) => p = instance BY <4>1, MutexFree
      <4>3. CASE Goto(t, "st_wait")
        BY <1>0, <3>2, <4>3 DEF Goto, FunctionTypes, Replacing
      <4>4. CASE instance = NoPid /\ UNCHANGED proc
        BY <1>a, <1>b, <4>2, <4>4, ConstantsAssumption DEF Live, Owned
      <4>5. CASE instance # NoPid /\ LetsGo(instance)
        <5>1. instance \in Pids /\ proc[instance].state # "free"
          BY <1>a, <4>5 DEF IInv, ProcInv, Owned
        <5> QED BY <1>b, <4>2, <4>5, <5>1, LetsGoLemma
      <4> QED BY <3>3, <4>3, <4>4, <4>5 DEF StopInstance, LetsGo
    <3>4. CASE StopWait(t)
      <4>1. /\ pc[t] = "st_wait"
            /\ LetsGo(child[t])
        BY <3>4 DEF StopWait, LetsGo
      <4>2. child[t] \in Pids /\ \A p \in Pids : Owned(p) => p = child[t]
        BY <1>0, <4>1, MutexHeld DEF WaitSteps
      <4>3. proc[child[t]].state # "free"
        BY <1>0, <4>1 DEF IInv, ProcInv, Owned, WaitSteps
      <4> QED BY <1>b, <4>1, <4>2, <4>3, LetsGoLemma
    <3>5. CASE ~StopInstance(t) /\ ~StopWait(t)
      <4>1. CASE HandleMessage(t)
        BY <1>0, <3>2, <4>1, FirstStepLemma DEF HandleMessage, Goto, FunctionTypes, Replacing
      <4>2. CASE InstallLock(t)
        <5>1. ~Replacing(t)'
          BY <1>0, <4>2 DEF InstallLock, Goto, FunctionTypes, Replacing, request
        <5> QED BY <3>2, <5>1
      <4>3. CASE InstallDownload(t) \/ InstallUnpack(t) \/ DeleteStart(t) \/ DeleteEnd(t)
        <5>1. Replacing(t)' => Replacing(t)
          BY <1>0, <4>3 DEF InstallDownload, InstallUnpack, DeleteStart, DeleteEnd, Reply, Finish,
             RestartOrFinish, Goto, FunctionTypes, Replacing, request
        <5> QED BY <3>2, <5>1
      <4>4. CASE ~HandleMessage(t) /\ ~InstallLock(t)
                 /\ ~(InstallDownload(t) \/ InstallUnpack(t) \/ DeleteStart(t) \/ DeleteEnd(t))
        <5>1. ~Replacing(t)'
          BY <1>0, <1>1, <2>3, <3>5, <4>4 DEF TaskStep, Retire,
            InstallConflict, ReadConflict, ServerStart, StartCheckSave, StartReadConfig,
            StatusPoll, StatusRead, VersionGet, SaveCreateExists, SaveCreateLock,
            SaveCreateBuild, SaveCreateWait, SaveDeleteExists, SaveDeleteRemove, RconSend,
            RconAnswer, SettingsGetRead, ModDlcsLock, SettingsGetLock, ModDlcsApply, SettingsGetInit, Reply, Finish,
            Goto, FunctionTypes, Replacing
        <5> QED BY <3>2, <5>1
      <4> QED BY <4>1, <4>2, <4>3, <4>4
    <3> QED BY <3>3, <3>4, <3>5
  <2> QED BY <2>2, <2>3
<1>2. CASE StopInstance(Main) \/ StopWait(Main)
  <2>1. Others(Main) BY <1>0, <1>2, OthersLemma
  <2>2. ~StartInstance(Main) /\ ~SaveCreateStart(Main)
    BY <1>2 DEF StopInstance, StopWait, StartInstance, SaveCreateStart
  <2>3. LiveShrinks BY <1>0, <1>2, <2>2, LiveShrinksLemma DEF TaskStep
  <2> QED BY <1>0, <2>1, <2>3 DEF QuietWhileReplacing, Replacing, Others, LiveShrinks, Live
<1>3. ASSUME NEW p \in Pids, HostExits(p) \/ CreateExits(p) \/ DroppedExits(p) PROVE QuietWhileReplacing'
  <2>1. UNCHANGED <<pc, to, from>>
    BY <1>3 DEF HostExits, CreateExits, DroppedExits, request
  <2>2. \A q \in Pids : Live(q)' => Live(q)
    BY <1>a, <1>3 DEF HostExits, CreateExits, DroppedExits, Live, ProcRecords, FreeProc
  <2> QED BY <1>0, <2>1, <2>2 DEF QuietWhileReplacing, Replacing
<1>4. CASE Sigint
  <2>1. UNCHANGED <<proc, to, from>> BY <1>4 DEF Sigint, process
  <2>2. \A u \in Tasks : pc'[u] = pc[u]
    BY <1>0, <1>4 DEF Sigint, Goto, FunctionTypes
  <2> QED BY <1>0, <2>1, <2>2 DEF QuietWhileReplacing, Replacing, Live
<1>5. CASE Restart
  BY <1>5, <1>b DEF Restart, Live, FreeProc
<1> QED BY <1>1, <1>2, <1>3, <1>4, <1>5 DEF Next

-----------------------------------------------------------------------------
(* The theorems                                                            *)

(* The agent starts with nothing installed and nothing running. *)
LEMMA InitInv == Init => IInv
<1> SUFFICES ASSUME Init PROVE IInv OBVIOUS
<1>1. TypeOK
  <2>1. << >> \in Seq(Statuses) OBVIOUS
  <2>2. sent \in [Workers -> Seq(Statuses)] BY <2>1 DEF Init
  <2>3. proc \in [Pids -> ProcRecords] BY DEF Init, FreeProc, ProcRecords
  <2>4. pc \in [Workers -> Steps] BY DEF Init, Steps
  <2> QED BY <2>2, <2>3, <2>4 DEF Init, TypeOK, DirStates, Outcomes
<1>2. ControlInv /\ LockInv
  BY ConstantsAssumption DEF Init, ControlInv, LockInv, HoldsWrite, HoldsRead, StartSteps, Workers
<1>3. ProcInv /\ QuietWhileReplacing
  BY DEF Init, ProcInv, Owned, WaitSteps, FreeProc, QuietWhileReplacing, Replacing, Workers
<1>4. InstallInv
  BY DEF Init, InstallInv, TaskInstallInv, HoldsRead, HoldsWrite, StartSteps, Live, FreeProc, Workers
<1> QED BY <1>1, <1>2, <1>3, <1>4 DEF IInv

(* Every step keeps the invariant. *)
LEMMA NextInv == IInv /\ [Next]_vars => IInv'
<1> SUFFICES ASSUME IInv, [Next]_vars PROVE IInv' OBVIOUS
<1>1. CASE Next
  BY <1>1, TypeStep, ControlStep, LockStep, ProcStep, InstallStep, QuietStep DEF IInv
<1>2. CASE UNCHANGED vars
  <2>1. TypeOK' BY <1>2 DEF vars, IInv, TypeOK
  <2>2. ControlInv' /\ LockInv'
    BY <1>2 DEF vars, IInv, ControlInv, LockInv, HoldsWrite, HoldsRead
  <2>3. ProcInv' BY <1>2 DEF vars, IInv, ProcInv, Owned
  <2>4. InstallInv' BY <1>2 DEF vars, IInv, InstallInv, TaskInstallInv, HoldsWrite, HoldsRead, Live
  <2>5. QuietWhileReplacing' BY <1>2 DEF vars, IInv, QuietWhileReplacing, Replacing, Live
  <2> QED BY <2>1, <2>2, <2>3, <2>4, <2>5 DEF IInv
<1> QED BY <1>1, <1>2

(* IInv is an invariant of the agent. *)
THEOREM Invariance == Spec => []IInv
BY InitInv, NextInv, PTL DEF Spec

(* The variables keep their types. *)
THEOREM TypeCorrectness == Spec => []TypeOK
<1>1. IInv => TypeOK BY DEF IInv
<1> QED BY <1>1, Invariance, PTL

(* Two children neither reaped nor dropped would have to be both the tracked instance  *)
(* or both awaited by the one task that holds the mutex.                   *)
LEMMA OneChild ==
  ASSUME IInv, NEW p \in Pids, NEW q \in Pids,
         Owned(p), Owned(q)
  PROVE  p = q
<1>1. CASE \E t \in Workers : pc[t] \in WaitSteps
  BY <1>1, MutexHeld
<1>2. CASE ~\E t \in Workers : pc[t] \in WaitSteps
  BY <1>2 DEF IInv, ProcInv
<1> QED BY <1>1, <1>2

(* At most one Factorio process is alive, whatever the handlers do.        *)
THEOREM OneProcessTheorem == Spec => []OneProcess
<1>1. IInv => OneProcess
  BY OneChild DEF OneProcess, Live, Owned
<1> QED BY <1>1, Invariance, PTL

(* Every child process is tracked or awaited, never both, unless a failed  *)
(* stop or wait dropped it.                                                *)
THEOREM NoLostChildTheorem == Spec => []NoLostChild
<1>1. ASSUME IInv, NEW p \in Pids, Owned(p)
      PROVE  (Tracked(p) \/ Awaited(p)) /\ ~(p = instance /\ Awaited(p))
  <2>1. CASE \E t \in Workers : pc[t] \in WaitSteps
    <3>1. PICK t \in Workers : pc[t] \in WaitSteps BY <2>1
    <3>2. mutex = t /\ instance = NoPid /\ child[t] = p BY <1>1, <3>1, MutexHeld
    <3> QED BY <3>1, <3>2, ConstantsAssumption DEF Awaited, WaitSteps
  <2>2. CASE ~\E t \in Workers : pc[t] \in WaitSteps
    <3>1. p = instance /\ proc[p].kind = "host" BY <1>1, <2>2, ConstantsAssumption DEF IInv, ProcInv
    <3>2. ~Awaited(p) BY <2>2 DEF Awaited, WaitSteps
    <3> QED BY <3>1, <3>2 DEF Tracked
  <2> QED BY <2>1, <2>2
<1>2. ASSUME IInv, NEW p \in Pids, proc[p].state = "dropped"
      PROVE  "stop" \in Faults /\ ~Tracked(p) /\ ~Awaited(p)
  <2>1. ~Owned(p) BY <1>2 DEF Owned
  <2>2. "stop" \in Faults BY <1>2 DEF IInv, ProcInv
  <2>3. ~Tracked(p) BY <1>2, <2>1, ConstantsAssumption DEF Tracked, IInv, ProcInv
  <2>4. ~Awaited(p) BY <1>2, <2>1 DEF Awaited, WaitSteps, IInv, ProcInv
  <2> QED BY <2>2, <2>3, <2>4
<1>3. IInv => NoLostChild
  BY <1>1, <1>2 DEF NoLostChild, Owned
<1> QED BY <1>3, Invariance, PTL

(* A live process runs from an installation that is mapped and on disk.    *)
THEOREM InstalledWhileRunningTheorem == Spec => []InstalledWhileRunning
<1>1. IInv => InstalledWhileRunning
  BY DEF IInv, InstallInv, InstalledWhileRunning
<1> QED BY <1>1, Invariance, PTL

(* Nothing is alive while an installation is removed or re-installed.      *)
THEOREM QuietWhileReplacingTheorem == Spec => []QuietWhileReplacing
<1>1. IInv => QuietWhileReplacing BY DEF IInv
<1> QED BY <1>1, Invariance, PTL

(* Only with two versions mapped can an install unpack over a live server. *)
THEOREM OverwriteTheorem == Spec => []OverwriteNeedsTwoVersions
<1>1. ASSUME IInv PROVE OverwriteNeedsTwoVersions
  <2> SUFFICES ASSUME NEW t \in Tasks, NEW p \in Pids,
                      pc[t] = "in_unpack", Live(p), proc[p].version = to[t]
               PROVE  \E v \in versions : v # to[t]
    BY DEF OverwriteNeedsTwoVersions
  <2>1. op[t] = "version_install" /\ HoldsWrite(t) BY <1>1 DEF IInv, ControlInv, HoldsWrite
  <2>2. to[t] \in versions BY <1>1 DEF IInv, InstallInv
  <2>3. from[t] # to[t] BY <1>1 DEF IInv, QuietWhileReplacing, Replacing
  <2>4. from[t] \in versions BY <1>1, <2>1, <2>2 DEF IInv, InstallInv, TaskInstallInv
  <2> QED BY <2>3, <2>4
<1> QED BY <1>1, Invariance, PTL

(* The unwrap before the restart is safe, and the restart uses a complete  *)
(* installation.                                                           *)
THEOREM RestartVersionTheorem == Spec => []RestartVersionPresent
<1>1. IInv => RestartVersionPresent
  BY DEF IInv, InstallInv, TaskInstallInv, HoldsWrite, StartSteps, RestartVersionPresent
<1> QED BY <1>1, Invariance, PTL

-----------------------------------------------------------------------------
(* Refinement of ServerLifecycle                                           *)

(* When no process comes to life, the live ones stay or there are none.    *)
LEMMA LiveStaysOrEnds ==
  ASSUME IInv, LiveShrinks
  PROVE  LiveProcesses' = LiveProcesses \/ LiveProcesses' = {}
<1>1. CASE ~\E p \in Pids : Live(p)'
  BY <1>1 DEF LiveProcesses
<1>2. CASE \E p \in Pids : Live(p)'
  <2>1. PICK p \in Pids : Live(p)' BY <1>2
  <2>2. /\ Live(p)
        /\ proc'[p].version = proc[p].version
        /\ proc'[p].kind = proc[p].kind /\ proc'[p].save = proc[p].save
    BY <2>1 DEF LiveShrinks, Live
  <2>3. \A q \in Pids : (Live(q) => q = p) /\ (Live(q)' => q = p)
    BY <2>2, OneChild DEF LiveShrinks, Live, Owned
  <2>4. LiveProcesses = {[kind |-> proc[p].kind, version |-> proc[p].version, save |-> proc[p].save]}
    BY <2>2, <2>3 DEF LiveProcesses
  <2>5. LiveProcesses' = {[kind |-> proc'[p].kind, version |-> proc'[p].version, save |-> proc'[p].save]}
    BY <2>1, <2>3 DEF LiveProcesses
  <2> QED BY <2>2, <2>4, <2>5
<1> QED BY <1>1, <1>2

(* A spawn with the mutex held and no instance launches the only process.  *)
LEMMA SpawnLaunches ==
  ASSUME IInv, mutex = NoTask, instance = NoPid, UNCHANGED versions,
         NEW p \in Pids, NEW k \in {"host", "create"}, NEW v \in versions, NEW s \in Saves,
         Spawn(p, k, v, s)
  PROVE  Lifecycle!Next
<1>1. \A q \in Pids : ~Owned(q)
  BY MutexFree, ConstantsAssumption
<1>2. proc \in [Pids -> ProcRecords] /\ versions \subseteq Versions BY DEF IInv, TypeOK
<1>3. LiveProcesses = {} BY <1>1 DEF LiveProcesses, Live, Owned
<1>4. proc'[p] = [state |-> "running", kind |-> k, version |-> v, save |-> s]
  BY <1>2 DEF Spawn
<1>5. \A q \in Pids : Live(q)' <=> q = p
  BY <1>1, <1>2, <1>4 DEF Spawn, Live, Owned
<1> DEFINE r == [kind |-> k, version |-> v, save |-> s]
<1>6. LiveProcesses' = {r}
  BY <1>4, <1>5 DEF LiveProcesses
<1>7. r \in Lifecycle!Processes /\ r.version \in versions
  BY <1>2 DEF Lifecycle!Processes
<1>8. Lifecycle!Launch(r)
  BY <1>3, <1>6, <1>7 DEF Lifecycle!Launch
<1> QED BY <1>7, <1>8 DEF Lifecycle!Next

(* Every step of the agent is a step, or a stutter, of the lifecycle.      *)
LEMMA LifecycleStep ==
  ASSUME IInv, [Next]_vars
  PROVE  [Lifecycle!Next]_<<versions, LiveProcesses>>
<1>0. Tasks \subseteq Workers /\ Main \in Workers /\ FunctionTypes /\ versions \subseteq Versions
  BY FunctionTypesLemma DEF Workers, IInv, TypeOK
<1>1. CASE UNCHANGED vars
  BY <1>1 DEF vars, LiveProcesses, Live
<1>2. CASE UNCHANGED versions /\ LiveShrinks
  BY <1>2, LiveStaysOrEnds DEF Lifecycle!Next, Lifecycle!Halt
<1>3. ASSUME NEW t \in Tasks, HandleMessage(t) \/ Retire(t) \/ TaskStep(t)
      PROVE  [Lifecycle!Next]_<<versions, LiveProcesses>>
  <2>1. CASE StartInstance(t)
    <3>1. CASE Reply(t, "Failed")
      BY <1>2, <3>1 DEF Reply, install, process, LiveShrinks, Live
    <3>2. CASE ~Reply(t, "Failed")
      <4>1. StartVersion(t) \in versions /\ save[t] \in Saves
        BY <2>1 DEF StartInstance, IInv, ControlInv, InstallInv, TaskInstallInv,
             HoldsRead, HoldsWrite, StartSteps, StartVersion
      <4>2. /\ mutex = NoTask /\ instance = NoPid /\ UNCHANGED versions
            /\ \E p \in Pids : Spawn(p, "host", StartVersion(t), save[t])
        BY <2>1, <3>2 DEF StartInstance, install
      <4> QED BY <4>1, <4>2, SpawnLaunches
    <3> QED BY <3>1, <3>2
  <2>2. CASE SaveCreateStart(t)
    <3>1. CASE Reply(t, "Failed")
      BY <1>2, <3>1 DEF Reply, install, process, LiveShrinks, Live
    <3>2. CASE ~Reply(t, "Failed")
      <4>1. from[t] \in versions /\ save[t] \in Saves
        BY <2>2 DEF SaveCreateStart, IInv, ControlInv, InstallInv, TaskInstallInv, HoldsRead
      <4>2. /\ mutex = NoTask /\ instance = NoPid /\ UNCHANGED versions
            /\ \E p \in Pids : Spawn(p, "create", from[t], save[t])
        BY <2>2, <3>2 DEF SaveCreateStart, install
      <4> QED BY <4>1, <4>2, SpawnLaunches
    <3> QED BY <3>1, <3>2
  <2>3. CASE ~StartInstance(t) /\ ~SaveCreateStart(t)
    <3>1. LiveShrinks BY <1>0, <1>3, <2>3, LiveShrinksLemma
    <3>2. CASE UNCHANGED versions BY <1>2, <3>1, <3>2
    <3>3. CASE InstallUnpack(t)
      <4>1. CASE Reply(t, "Failed") BY <3>2, <4>1 DEF Reply, install
      <4>2. CASE ~Reply(t, "Failed")
        <5>1. versions' = versions \cup {to[t]} /\ UNCHANGED LiveProcesses
          BY <3>3, <4>2 DEF InstallUnpack, process, LiveProcesses, Live
        <5>2. to[t] \in Versions BY <3>3 DEF InstallUnpack, IInv, ControlInv
        <5> QED BY <5>1, <5>2 DEF Lifecycle!Next, Lifecycle!Install
      <4> QED BY <4>1, <4>2
    <3>4. CASE DeleteEnd(t)
      <4>1. CASE Reply(t, "Failed") BY <3>2, <4>1 DEF Reply, install
      <4>2. CASE ~Reply(t, "Failed")
        <5>1. versions' = versions \ {from[t]} /\ UNCHANGED LiveProcesses
          BY <3>4, <4>2 DEF DeleteEnd, process, LiveProcesses, Live
        <5>2. LiveProcesses = {}
          BY <3>4 DEF DeleteEnd, IInv, QuietWhileReplacing, Replacing, LiveProcesses
        <5>3. from[t] \in Versions
          BY <1>0, <3>4 DEF DeleteEnd, IInv, ControlInv, InstallInv, TaskInstallInv, HoldsWrite
        <5> QED BY <5>1, <5>2, <5>3 DEF Lifecycle!Next, Lifecycle!Remove
      <4> QED BY <4>1, <4>2
    <3>5. CASE ~InstallUnpack(t) /\ ~DeleteEnd(t)
      <4>1. CASE InstallDownload(t) \/ DeleteStart(t)
        BY <3>2, <4>1 DEF InstallDownload, DeleteStart, Reply, install
      <4>2. CASE ~(InstallDownload(t) \/ DeleteStart(t))
        BY <1>0, <1>3, <3>2, <3>5, <4>2, InstallQuietLemma DEF TaskStep
      <4> QED BY <4>1, <4>2
    <3> QED BY <3>3, <3>4, <3>5
  <2> QED BY <2>1, <2>2, <2>3
<1>4. CASE StopInstance(Main) \/ StopWait(Main)
  <2>1. ~StartInstance(Main) /\ ~SaveCreateStart(Main)
    BY <1>4 DEF StopInstance, StopWait, StartInstance, SaveCreateStart
  <2>2. LiveShrinks BY <1>0, <1>4, <2>1, LiveShrinksLemma DEF TaskStep
  <2>3. UNCHANGED versions BY <1>4 DEF StopInstance, StopWait, install
  <2> QED BY <1>2, <2>2, <2>3
<1>5. ASSUME NEW p \in Pids, HostExits(p) \/ CreateExits(p) \/ DroppedExits(p)
      PROVE  [Lifecycle!Next]_<<versions, LiveProcesses>>
  <2>1. UNCHANGED versions BY <1>5 DEF HostExits, CreateExits, DroppedExits, install
  <2>2. proc \in [Pids -> ProcRecords] BY DEF IInv, TypeOK
  <2>3. LiveShrinks
    BY <1>5, <2>2 DEF HostExits, CreateExits, DroppedExits, LiveShrinks, Live, ProcRecords, FreeProc
  <2> QED BY <1>2, <2>1, <2>3
<1>6. CASE Sigint
  BY <1>2, <1>6 DEF Sigint, install, process, LiveShrinks, Live
<1>7. CASE Restart
  <2>1. LiveProcesses' = {} BY <1>7 DEF Restart, LiveProcesses, Live, FreeProc
  <2>2. versions' \in SUBSET Versions BY <1>7 DEF Restart, Scan
  <2> QED BY <2>1, <2>2 DEF Lifecycle!Next, Lifecycle!Reset
<1> QED BY <1>1, <1>3, <1>4, <1>5, <1>6, <1>7 DEF Next

(* The agent implements ServerLifecycle: one process at a time, launched   *)
(* from an installed version, versions removed only when nothing runs.     *)
THEOREM Refinement == Spec => ImplementsLifecycle
<1>1. Init => Lifecycle!Init
  BY DEF Init, Lifecycle!Init, LiveProcesses, Live, FreeProc
<1>2. IInv /\ [Next]_vars => [Lifecycle!Next]_<<versions, LiveProcesses>>
  BY LifecycleStep
<1> QED BY <1>1, <1>2, Invariance, PTL DEF Spec, ImplementsLifecycle, Lifecycle!Spec

-----------------------------------------------------------------------------
(* The reply protocol                                                      *)

(* The replies of a handler under way: an Ack, if anything, then progress. *)
Opening(s) == \A i \in 1..Len(s) : s[i] = IF i = 1 THEN "Ack" ELSE "Ongoing"

(* The replies of a handler that has ended: a terminal one closes them. *)
Closed(s) ==
  /\ s # << >> /\ s[Len(s)] \in Terminal
  /\ \A i \in 1..(Len(s) - 1) : s[i] = IF i = 1 THEN "Ack" ELSE "Ongoing"

(* Where the replies of task t stand: progress is sent only with the write  *)
(* lock held, hence after the Ack, and the Ack is the first reply.          *)
TaskReplyInv(t) ==
  /\ pc[t] = "done" => Closed(sent[t])
  /\ pc[t] # "done" => Opening(sent[t])
  /\ HoldsWrite(t) => sent[t] # << >>
  /\ pc[t] \in {"idle", "vi_lock", "sc_exists", "sc_lock"} => sent[t] = << >>

ReplyInv == \A t \in Tasks : TaskReplyInv(t)

(* A terminal reply closes an opening. *)
LEMMA OpeningCloses ==
  ASSUME NEW s \in Seq(Statuses), Opening(s), NEW x \in Terminal
  PROVE  Closed(Append(s, x))
<1>1. x \in Statuses BY DEF Statuses, Terminal
<1>2. /\ Len(Append(s, x)) = Len(s) + 1 /\ Len(s) \in Nat
      /\ Append(s, x)[Len(s) + 1] = x
      /\ \A i \in 1..Len(s) : Append(s, x)[i] = s[i]
  BY <1>1
<1>3. Append(s, x) # << >> BY <1>2
<1>4. Len(Append(s, x)) - 1 = Len(s) BY <1>2
<1> QED BY <1>2, <1>3, <1>4 DEF Opening, Closed

(* Progress after the Ack continues an opening. *)
LEMMA OpeningGrows ==
  ASSUME NEW s \in Seq(Statuses), Opening(s), s # << >>
  PROVE  Opening(Append(s, "Ongoing")) /\ Append(s, "Ongoing") # << >>
BY DEF Opening, Statuses

(* The replies sent when a lock is taken, after none. *)
LEMMA FirstReplies ==
  /\ Opening(<< >>)
  /\ Opening(Append(<< >>, "Ack")) /\ Append(<< >>, "Ack") # << >>
  /\ Opening(<< >> \o <<"Ack", "Ongoing">>) /\ << >> \o <<"Ack", "Ongoing">> # << >>
  /\ \A x \in Terminal : Closed(<< >> \o <<"Ack", x>>)
<1>1. Opening(<< >>) BY DEF Opening
<1>2. Opening(Append(<< >>, "Ack")) /\ Append(<< >>, "Ack") # << >> BY DEF Opening
<1>3. Opening(<< >> \o <<"Ack", "Ongoing">>) /\ << >> \o <<"Ack", "Ongoing">> # << >>
  BY DEF Opening
<1>4. \A x \in Terminal : Closed(<< >> \o <<"Ack", x>>)
  BY DEF Closed
<1> QED BY <1>1, <1>2, <1>3, <1>4

(* The last reply of a handler under way closes its replies. *)
LEMMA FinishReply ==
  ASSUME IInv, NEW t \in Tasks, TaskReplyInv(t), pc[t] # "done",
         NEW x \in Terminal, Finish(t, x)
  PROVE  TaskReplyInv(t)'
<1>1. t \in Workers /\ pc \in [Workers -> Steps] /\ sent \in [Workers -> Seq(Statuses)]
  BY DEF IInv, TypeOK, Workers
<1>2. pc'[t] = "done" /\ sent'[t] = Append(sent[t], x) BY <1>1 DEF Finish, Goto, Send
<1>3. Closed(sent'[t]) BY <1>1, <1>2, OpeningCloses DEF TaskReplyInv
<1> QED BY <1>2, <1>3 DEF TaskReplyInv, HoldsWrite, StartSteps

(* A step that moves on without a reply keeps the protocol. *)
LEMMA MoveReply ==
  ASSUME IInv, NEW t \in Tasks, TaskReplyInv(t), pc[t] # "done", pc'[t] # "done",
         sent'[t] = sent[t], HoldsWrite(t)' => HoldsWrite(t),
         pc'[t] \in {"idle", "vi_lock", "sc_exists", "sc_lock"}
           => pc[t] \in {"idle", "vi_lock", "sc_exists", "sc_lock"}
  PROVE  TaskReplyInv(t)'
BY DEF TaskReplyInv

(* Progress sent by the holder of the write lock keeps the protocol. *)
LEMMA ProgressReply ==
  ASSUME IInv, NEW t \in Tasks, TaskReplyInv(t), HoldsWrite(t), Progress(t),
         pc'[t] \notin {"done", "idle", "vi_lock", "sc_exists", "sc_lock"}
  PROVE  TaskReplyInv(t)'
<1>1. t \in Workers /\ sent \in [Workers -> Seq(Statuses)]
  BY DEF IInv, TypeOK, Workers
<1>2. Opening(sent[t]) /\ sent[t] # << >>
  BY DEF TaskReplyInv, HoldsWrite, StartSteps
<1>3. sent'[t] = sent[t] \/ sent'[t] = Append(sent[t], "Ongoing")
  BY <1>1 DEF Progress
<1>4. Opening(sent'[t]) /\ sent'[t] # << >>
  BY <1>1, <1>2, <1>3, OpeningGrows
<1> QED BY <1>4 DEF TaskReplyInv

(* A step of task t keeps its own replies in order. *)
LEMMA OwnReply ==
  ASSUME IInv, NEW t \in Tasks, TaskReplyInv(t), HandleMessage(t) \/ Retire(t) \/ TaskStep(t)
  PROVE  TaskReplyInv(t)'
<1>0. /\ FunctionTypes /\ t \in Workers /\ Terminal = {"Completed", "Failed"}
      /\ op[t] # "shutdown"
      /\ pc[t] \in {"vi_lock", "in_download", "in_unpack", "rm_start", "rm_wait"}
           => op[t] = "version_install"
      /\ pc[t] \in {"sc_exists", "sc_lock", "sc_build", "sc_mutex", "sc_wait"}
            => op[t] = "save_create"
      /\ pc[t] = "ss_lock" => op[t] = "server_start"
  BY FunctionTypesLemma DEF IInv, Workers, ControlInv, Terminal
<1>1. CASE HandleMessage(t)
  <2>1. PICK o \in Ops : pc'[t] = FirstStep(o) /\ op'[t] = o
    BY <1>0, <1>1 DEF HandleMessage, Goto, FunctionTypes
  <2>2. pc[t] = "idle" /\ sent'[t] = sent[t] BY <1>1 DEF HandleMessage
  <2> QED BY <2>1, <2>2, FirstStepLemma, MoveReply DEF HoldsWrite, StartSteps
<1>2. CASE Retire(t)
  <2>1. pc'[t] = "idle" /\ sent'[t] = << >>
    BY <1>0, <1>2 DEF Retire, Goto, FunctionTypes
  <2> QED BY <2>1, FirstReplies DEF TaskReplyInv, HoldsWrite, StartSteps
<1>3. ASSUME NEW x \in Terminal, Finish(t, x), pc[t] # "done" PROVE TaskReplyInv(t)'
  BY <1>3, FinishReply
<1>4. ASSUME NEW x \in Terminal, Reply(t, x), pc[t] # "done" PROVE TaskReplyInv(t)'
  BY <1>4, <1>3 DEF Reply
<1>5. CASE \/ InstallConflict(t) \/ ReadConflict(t) \/ StatusRead(t) \/ VersionGet(t)
           \/ ModDlcsApply(t) \/ SettingsGetInit(t)
  BY <1>0, <1>4, <1>5 DEF InstallConflict, ReadConflict, StatusRead, VersionGet, ModDlcsApply, SettingsGetInit
<1>6. CASE SaveCreateWait(t) \/ SaveDeleteRemove(t) \/ RconAnswer(t)
  <2>1. pc[t] # "done" /\ \E x \in Terminal : Finish(t, x)
    BY <1>0, <1>6 DEF SaveCreateWait, SaveDeleteRemove, RconAnswer
  <2> QED BY <1>3, <2>1
<1>7. CASE InstallLock(t)
  <2>1. sent[t] = << >> BY <1>7 DEF InstallLock, TaskReplyInv
  <2>2. \/ pc'[t] = "done" /\ sent'[t] = sent[t] \o <<"Ack", "Completed">>
        \/ pc'[t] = "st_lock" /\ sent'[t] = Append(sent[t], "Ack")
        \/ pc'[t] = "in_download" /\ sent'[t] = sent[t] \o <<"Ack", "Ongoing">>
    BY <1>0, <1>7 DEF InstallLock, Goto, Send, FunctionTypes
  <2>3. \/ pc'[t] = "done" /\ Closed(sent'[t])
        \/ pc'[t] \in {"st_lock", "in_download"} /\ Opening(sent'[t]) /\ sent'[t] # << >>
    BY <1>0, <2>1, <2>2, FirstReplies
  <2> QED BY <2>3 DEF TaskReplyInv, HoldsWrite, StartSteps
<1>8. CASE SaveCreateLock(t)
  <2>1. sent[t] = << >> BY <1>8 DEF SaveCreateLock, TaskReplyInv
  <2>2. \/ pc'[t] = "done" /\ sent'[t] = sent[t] \o <<"Ack", "Failed">>
        \/ pc'[t] = "sc_build" /\ sent'[t] = Append(sent[t], "Ack")
    BY <1>0, <1>8 DEF SaveCreateLock, Goto, Send, FunctionTypes
  <2>3. \/ pc'[t] = "done" /\ Closed(sent'[t])
        \/ pc'[t] = "sc_build" /\ Opening(sent'[t])
    BY <1>0, <2>1, <2>2, FirstReplies
  <2> QED BY <2>3 DEF TaskReplyInv, HoldsWrite, StartSteps
<1>9. ASSUME RestartOrFinish(t), HoldsWrite(t), pc[t] # "done" PROVE TaskReplyInv(t)'
  <2>1. CASE Finish(t, "Completed") BY <1>0, <1>3, <1>9, <2>1
  <2>2. CASE Goto(t, "start_check") /\ Progress(t)
    <3>1. pc'[t] = "start_check" BY <1>0, <2>2 DEF Goto, FunctionTypes
    <3> QED BY <1>9, <2>2, <3>1, ProgressReply
  <2> QED BY <1>9, <2>1, <2>2 DEF RestartOrFinish
<1>10. CASE InstallUnpack(t)
  <2>1. HoldsWrite(t) /\ pc[t] # "done" BY <1>0, <1>10 DEF InstallUnpack, HoldsWrite
  <2>2. CASE Goto(t, "st_lock") /\ Progress(t)
    <3>1. pc'[t] = "st_lock" BY <1>0, <2>2 DEF Goto, FunctionTypes
    <3> QED BY <2>1, <2>2, <3>1, ProgressReply
  <2> QED BY <1>0, <1>3, <1>4, <1>9, <1>10, <2>1, <2>2 DEF InstallUnpack
<1>11. CASE DeleteEnd(t)
  <2>1. HoldsWrite(t) /\ pc[t] # "done" BY <1>0, <1>11 DEF DeleteEnd, HoldsWrite
  <2> QED BY <1>0, <1>4, <1>9, <1>11, <2>1 DEF DeleteEnd
<1>12. ASSUME NEW s, NEW o, AfterStop(t, s, o), pc[t] \in {"st_lock", "st_wait"} PROVE TaskReplyInv(t)'
  <2>1. CASE Finish(t, "Completed") BY <1>0, <1>3, <1>12, <2>1
  <2>2. CASE ~Finish(t, "Completed")
    <3>1. op[t] = "version_install" /\ Progress(t) /\ (Goto(t, "in_download") \/ Goto(t, "rm_start"))
      BY <1>0, <1>12, <2>2 DEF AfterStop
    <3>2. HoldsWrite(t) BY <1>12, <3>1 DEF HoldsWrite
    <3>3. pc'[t] \in {"in_download", "rm_start"} BY <1>0, <3>1 DEF Goto, FunctionTypes
    <3> QED BY <3>1, <3>2, <3>3, ProgressReply
  <2> QED BY <2>1, <2>2
<1>13. CASE StopInstance(t)
  <2>1. CASE Goto(t, "st_wait") /\ UNCHANGED sent
    <3>1. pc'[t] = "st_wait" /\ sent'[t] = sent[t] /\ op'[t] = op[t] /\ pc[t] = "st_lock"
      BY <1>0, <1>13, <2>1 DEF Goto, FunctionTypes, StopInstance, request
    <3> QED BY <3>1, MoveReply DEF HoldsWrite
  <2>2. CASE ~(Goto(t, "st_wait") /\ UNCHANGED sent)
    <3>1. pc[t] = "st_lock" /\ \E s, o : AfterStop(t, s, o) BY <1>13, <2>2 DEF StopInstance
    <3> QED BY <1>12, <3>1
  <2> QED BY <2>1, <2>2
<1>14. CASE StopWait(t)
  <2>1. pc[t] = "st_wait" /\ \E s, o : AfterStop(t, s, o) BY <1>14 DEF StopWait
  <2> QED BY <1>12, <2>1
<1>15. CASE StartInstance(t)
  <2>1. pc[t] = "start_lock" /\ \E x \in Terminal : Finish(t, x)
    BY <1>0, <1>15 DEF StartInstance, Reply
  <2> QED BY <1>3, <2>1
<1>16. ASSUME pc[t] # "done", UNCHANGED <<op, sent>>,
              \/ pc[t] = "start_check" /\ Goto(t, "start_config")
              \/ pc[t] = "start_config" /\ Goto(t, "start_lock")
              \/ pc[t] = "sc_exists" /\ Goto(t, "sc_lock")
              \/ pc[t] = "sc_build" /\ Goto(t, "sc_mutex")
              \/ pc[t] = "sc_mutex" /\ Goto(t, "sc_wait")
              \/ pc[t] = "sd_exists" /\ Goto(t, "sd_remove")
              \/ pc[t] = "sg_read" /\ Goto(t, "sg_lock")
              \/ pc[t] = "sg_lock" /\ Goto(t, "sg_init")
              \/ pc[t] = "md_lock" /\ Goto(t, "md_apply")
              \/ pc[t] = "rc_lock" /\ Goto(t, "rc_wait")
              \/ pc[t] = "stat_poll" /\ Goto(t, "stat_read")
              \/ pc[t] = "ss_lock" /\ Goto(t, "start_check")
              \/ pc[t] = "in_download" /\ Goto(t, "in_unpack")
              \/ pc[t] = "rm_start" /\ Goto(t, "rm_wait")
       PROVE  TaskReplyInv(t)'
  BY <1>0, <1>16, MoveReply DEF Goto, FunctionTypes, HoldsWrite, StartSteps
<1>17. CASE \/ InstallDownload(t) \/ DeleteStart(t) \/ ServerStart(t) \/ StartCheckSave(t)
            \/ StartReadConfig(t)
  <2>1. CASE Reply(t, "Failed")
    BY <1>0, <1>4, <1>17, <2>1 DEF InstallDownload, DeleteStart, ServerStart, StartCheckSave,
       StartReadConfig
  <2>2. CASE ~Reply(t, "Failed")
    BY <1>16, <1>17, <2>2 DEF InstallDownload, DeleteStart, ServerStart, StartCheckSave,
       StartReadConfig, request
  <2> QED BY <2>1, <2>2
<1>18. CASE \/ SaveCreateExists(t) \/ SaveCreateBuild(t) \/ SaveCreateStart(t)
            \/ SaveDeleteExists(t) \/ RconSend(t) \/ ModDlcsLock(t) \/ SettingsGetLock(t)
  <2>1. CASE Reply(t, "Failed")
    BY <1>0, <1>4, <1>18, <2>1 DEF SaveCreateExists, SaveCreateBuild, SaveCreateStart,
       SaveDeleteExists, RconSend, ModDlcsLock, SettingsGetLock
  <2>2. CASE ~Reply(t, "Failed")
    BY <1>16, <1>18, <2>2 DEF SaveCreateExists, SaveCreateBuild, SaveCreateStart,
       SaveDeleteExists, RconSend, ModDlcsLock, SettingsGetLock, request
  <2> QED BY <2>1, <2>2
<1>19. CASE StatusPoll(t) \/ SettingsGetRead(t)
  <2>1. CASE Finish(t, "Completed")
    BY <1>0, <1>3, <1>19, <2>1 DEF StatusPoll, SettingsGetRead
  <2>2. CASE ~Finish(t, "Completed")
    BY <1>16, <1>19, <2>2 DEF StatusPoll, SettingsGetRead, Reply, request
  <2> QED BY <2>1, <2>2
<1> QED BY <1>1, <1>2, <1>5, <1>6, <1>7, <1>8, <1>10, <1>11, <1>13, <1>14, <1>15, <1>17,
           <1>18, <1>19 DEF TaskStep

(* Every step keeps the replies of every task in order. *)
LEMMA ReplyStep ==
  ASSUME IInv, ReplyInv, Next
  PROVE  ReplyInv'
<1>0. FunctionTypes /\ Tasks \subseteq Workers /\ Main \in Workers /\ Main \notin Tasks
  BY FunctionTypesLemma, ConstantsAssumption DEF IInv, Workers
<1>1. ASSUME NEW t \in Workers, Others(t) PROVE \A u \in Tasks \ {t} : TaskReplyInv(u)'
  BY <1>0, <1>1 DEF ReplyInv, TaskReplyInv, Others, HoldsWrite
<1>2. ASSUME NEW t \in Tasks, HandleMessage(t) \/ Retire(t) \/ TaskStep(t) PROVE ReplyInv'
  <2>1. Others(t) BY <1>0, <1>2, OthersLemma DEF TaskStep
  <2>2. TaskReplyInv(t)' BY <1>2, OwnReply DEF ReplyInv
  <2> QED BY <1>0, <1>1, <2>1, <2>2 DEF ReplyInv
<1>3. CASE StopInstance(Main) \/ StopWait(Main)
  <2>1. Others(Main) BY <1>0, <1>3, OthersLemma
  <2> QED BY <1>0, <1>1, <2>1 DEF ReplyInv
<1>4. ASSUME NEW p \in Pids, HostExits(p) \/ CreateExits(p) \/ DroppedExits(p) PROVE ReplyInv'
  BY <1>4 DEF HostExits, CreateExits, DroppedExits, request, ReplyInv, TaskReplyInv, HoldsWrite
<1>5. CASE Sigint
  <2>1. \A u \in Tasks : pc'[u] = pc[u] /\ op'[u] = op[u] /\ sent'[u] = sent[u]
    BY <1>0, <1>5 DEF Sigint, Goto, FunctionTypes
  <2> QED BY <2>1 DEF ReplyInv, TaskReplyInv, HoldsWrite
<1>6. CASE Restart
  <2>1. \A u \in Tasks : pc'[u] = "idle" /\ sent'[u] = << >> BY <1>0, <1>6 DEF Restart
  <2> QED BY <2>1, FirstReplies DEF ReplyInv, TaskReplyInv, HoldsWrite, StartSteps
<1> QED BY <1>2, <1>3, <1>4, <1>5, <1>6 DEF Next

(* The replies of every handler follow the protocol of OperationStatus.    *)
THEOREM ReplyProtocolTheorem == Spec => []ReplyProtocol
<1>1. Init => ReplyInv
  <2> SUFFICES ASSUME Init PROVE ReplyInv OBVIOUS
  <2>1. \A u \in Tasks : pc[u] = "idle" /\ sent[u] = << >> BY DEF Init, Workers
  <2> QED BY <2>1, FirstReplies DEF ReplyInv, TaskReplyInv, HoldsWrite, StartSteps
<1>2. IInv /\ ReplyInv /\ [Next]_vars => ReplyInv'
  <2>1. IInv /\ ReplyInv /\ UNCHANGED vars => ReplyInv'
    BY DEF vars, ReplyInv, TaskReplyInv, HoldsWrite
  <2> QED BY <2>1, ReplyStep
<1>3. ASSUME TypeOK, ReplyInv PROVE ReplyProtocol
  <2> SUFFICES ASSUME NEW t \in Tasks, NEW s, s = sent[t]
               PROVE  /\ \A i \in 1..Len(s) : s[i] \in Terminal <=> (pc[t] = "done" /\ i = Len(s))
                      /\ \A i \in 1..Len(s) : s[i] = "Ack" => i = 1
                      /\ \A i \in 1..Len(s) : s[i] = "Ongoing" => s[1] = "Ack"
                      /\ pc[t] = "done" => s # << >>
    BY DEF ReplyProtocol
  <2>1. s \in Seq(Statuses) /\ TaskReplyInv(t) /\ "Ack" \notin Terminal /\ "Ongoing" \notin Terminal
    BY <1>3 DEF TypeOK, Workers, ReplyInv, Terminal
  <2>2. Len(s) \in Nat BY <2>1
  <2>3. CASE pc[t] # "done"
    <3>1. Opening(s) BY <2>1, <2>3 DEF TaskReplyInv
    <3> QED BY <2>1, <2>2, <2>3, <3>1 DEF Opening
  <2>4. CASE pc[t] = "done"
    <3>1. Closed(s) BY <2>1, <2>4 DEF TaskReplyInv
    <3>2. Len(s) > 0 BY <2>1, <3>1 DEF Closed
    <3>3. \A i \in 1..Len(s) : i # Len(s) => i \in 1..(Len(s) - 1) BY <2>2
    <3> QED BY <2>1, <2>2, <2>4, <3>1, <3>2, <3>3 DEF Closed
  <2> QED BY <2>3, <2>4
<1>4. IInv => TypeOK BY DEF IInv
<1>5. Spec => []ReplyInv BY <1>1, <1>2, Invariance, PTL DEF Spec
<1> QED BY <1>3, <1>4, <1>5, Invariance, PTL

-----------------------------------------------------------------------------
(* An upgrade that stopped the server starts it again                      *)

InstallSteps == {"vi_lock", "in_download", "in_unpack", "st_lock", "st_wait",
                 "rm_start", "rm_wait", "start_check", "start_config",
                 "start_lock", "done"}

(* Before stop_instance has returned there is no stopped server that        *)
(* version_install would have to start again; afterwards the savefile says  *)
(* whether there is one.                                                    *)
TaskStopInv(t) ==
  /\ pc[t] = "idle" => found[t] = "nothing"
  /\ op[t] = "version_install" =>
       /\ pc[t] \in InstallSteps
       /\ \/ pc[t] \in {"vi_lock", "st_lock", "st_wait"}
          \/ pc[t] \in {"in_download", "in_unpack"} /\ from[t] # to[t]
          => found[t] = "nothing"
       /\ save[t] # NoSave <=> found[t] = "stopped"

StopInv == \A t \in Tasks : TaskStopInv(t)

(* What stop_instance passes on: the savefile of the server, if it stopped. *)
LEMMA StopPasses ==
  ASSUME IInv, NEW t \in Tasks, StopInstance(t) \/ StopWait(t)
  PROVE  \/ Goto(t, "st_wait") /\ UNCHANGED <<op, to, from, found, save>>
         \/ /\ UNCHANGED <<op, to, from>>
            /\ \E s, o : /\ AfterStop(t, s, o)
                         /\ s # NoSave <=> o = "stopped"
<1>1. CASE StopInstance(t)
  <2>1. instance # NoPid => proc[instance].save # NoSave
    <3>1. instance \in Pids \cup {NoPid} /\ ProcInv BY DEF IInv, TypeOK
    <3> QED BY <3>1, ConstantsAssumption DEF ProcInv, Owned
  <2> QED BY <1>1, <2>1 DEF StopInstance
<1>2. CASE StopWait(t)
  <2>1. proc[child[t]].save # NoSave
    <3>1. pc[t] \in WaitSteps /\ t \in Workers /\ ProcInv
      BY <1>2 DEF StopWait, WaitSteps, Workers, IInv
    <3> QED BY <3>1, ConstantsAssumption DEF ProcInv, Owned
  <2> QED BY <1>2, <2>1 DEF StopWait
<1> QED BY <1>1, <1>2

(* A step of task t keeps what its stopped server says. *)
LEMMA OwnStop ==
  ASSUME IInv, NEW t \in Tasks, TaskStopInv(t), HandleMessage(t) \/ Retire(t) \/ TaskStep(t)
  PROVE  TaskStopInv(t)'
<1>0. FunctionTypes /\ t \in Workers /\ op[t] # "shutdown"
  BY FunctionTypesLemma DEF IInv, Workers, ControlInv
<1>1. CASE HandleMessage(t)
  <2>0. found'[t] = "nothing" BY <1>1 DEF HandleMessage, TaskStopInv
  <2>1. PICK o \in Ops : /\ pc'[t] = FirstStep(o) /\ op'[t] = o
                         /\ o = "version_install" => save'[t] = NoSave
    BY <1>0, <1>1 DEF HandleMessage, Goto, FunctionTypes
  <2>2. o = "version_install" => FirstStep(o) = "vi_lock" BY DEF FirstStep
  <2> QED BY <2>0, <2>1, <2>2 DEF TaskStopInv, InstallSteps
<1>2. CASE Retire(t)
  <2>1. op'[t] = "none" /\ found'[t] = "nothing" BY <1>0, <1>2 DEF Retire, FunctionTypes
  <2> QED BY <2>1 DEF TaskStopInv
<1>3. ASSUME UNCHANGED <<op, to, from, found, save>>, pc[t] # "idle", pc'[t] # "idle",
             op[t] = "version_install" =>
               /\ pc'[t] \in InstallSteps
               /\ pc'[t] \in {"vi_lock", "st_lock", "st_wait"} => found[t] = "nothing"
               /\ pc'[t] \in {"in_download", "in_unpack"} /\ from[t] # to[t] => found[t] = "nothing"
      PROVE  TaskStopInv(t)'
  BY <1>3 DEF TaskStopInv
<1>a. ASSUME UNCHANGED <<op, found, save>>, pc'[t] = "done", pc[t] # "idle" PROVE TaskStopInv(t)'
  BY <1>a DEF TaskStopInv, InstallSteps
<1>b. ASSUME UNCHANGED <<op, found, save>>, pc'[t] # "idle", op[t] # "version_install"
      PROVE TaskStopInv(t)'
  BY <1>b DEF TaskStopInv
<1>4. CASE InstallLock(t)
  <2>1. /\ UNCHANGED <<op, to, found, save>> /\ pc[t] = "vi_lock"
        /\ pc'[t] \in {"done", "st_lock", "in_download"}
    BY <1>0, <1>4 DEF InstallLock, Goto, FunctionTypes, request
  <2> QED BY <2>1 DEF TaskStopInv, InstallSteps
<1>c. ASSUME NEW s, Reply(t, s), pc[t] # "idle" PROVE TaskStopInv(t)'
  BY <1>0, <1>a, <1>c DEF Reply, Finish, Goto, FunctionTypes, request
<1>5. CASE InstallDownload(t) \/ InstallUnpack(t) \/ DeleteStart(t) \/ DeleteEnd(t)
  <2>1. CASE Reply(t, "Failed")
    BY <1>5, <1>c, <2>1 DEF InstallDownload, InstallUnpack, DeleteStart, DeleteEnd
  <2>2. CASE ~Reply(t, "Failed")
    <3>1. /\ UNCHANGED <<op, to, from, found, save>>
          /\ \/ pc[t] = "in_download" /\ pc'[t] = "in_unpack"
             \/ pc[t] = "rm_start" /\ pc'[t] = "rm_wait"
             \/ pc[t] = "in_unpack" /\ from[t] # to[t] /\ pc'[t] = "st_lock"
             \/ pc[t] # "idle" /\ pc'[t] \in {"done", "start_check"}
      BY <1>0, <1>5, <2>2 DEF InstallDownload, InstallUnpack, DeleteStart, DeleteEnd,
         RestartOrFinish, Finish, Goto, FunctionTypes, request
    <3> QED BY <1>3, <3>1 DEF TaskStopInv, InstallSteps
  <2> QED BY <2>1, <2>2
<1>6. CASE StopInstance(t) \/ StopWait(t)
  <2>0. pc[t] \in {"st_lock", "st_wait"} BY <1>6 DEF StopInstance, StopWait
  <2>1. CASE Goto(t, "st_wait") /\ UNCHANGED <<op, to, from, found, save>>
    <3>1. pc'[t] = "st_wait" BY <1>0, <2>1 DEF Goto, FunctionTypes
    <3> QED BY <1>3, <2>0, <2>1, <3>1 DEF TaskStopInv, InstallSteps
  <2>2. ASSUME UNCHANGED <<op, to, from>>, NEW s, NEW o, AfterStop(t, s, o),
               s # NoSave <=> o = "stopped"
        PROVE  TaskStopInv(t)'
    <3>1. CASE op[t] # "version_install"
      <4>1. UNCHANGED <<save, found>> /\ pc'[t] = "done"
        BY <1>0, <2>2, <3>1 DEF AfterStop, Finish, Goto, FunctionTypes
      <4> QED BY <1>a, <2>0, <2>2, <4>1
    <3>2. CASE op[t] = "version_install"
      <4>1. /\ save'[t] = s /\ found'[t] = o
            /\ \/ from[t] = to[t] /\ pc'[t] = "in_download"
               \/ pc'[t] = "rm_start"
        BY <1>0, <2>2, <3>2 DEF AfterStop, Goto, FunctionTypes
      <4> QED BY <2>2, <3>2, <4>1 DEF TaskStopInv, InstallSteps
    <3> QED BY <3>1, <3>2
  <2> QED BY <1>6, <2>1, <2>2, StopPasses
<1>8. CASE \/ StartCheckSave(t) \/ StartReadConfig(t) \/ StartInstance(t) \/ InstallConflict(t)
           \/ ReadConflict(t) \/ StatusRead(t) \/ VersionGet(t) \/ ModDlcsApply(t) \/ SettingsGetInit(t)
  <2>1. CASE \E s : Reply(t, s)
    BY <1>8, <1>c, <2>1 DEF StartCheckSave, StartReadConfig, StartInstance, InstallConflict,
       ReadConflict, StatusRead, VersionGet, ModDlcsApply, SettingsGetInit
  <2>2. CASE ~\E s : Reply(t, s)
    <3>1. /\ UNCHANGED <<op, to, from, found, save>> /\ pc[t] # "idle"
          /\ pc'[t] \in {"start_config", "start_lock", "done"}
      BY <1>0, <1>8, <2>2 DEF StartCheckSave, StartReadConfig, StartInstance, InstallConflict,
         ReadConflict, StatusRead, VersionGet, ModDlcsApply, SettingsGetInit, Finish, Goto,
         FunctionTypes, request
    <3> QED BY <1>3, <3>1 DEF InstallSteps
  <2> QED BY <2>1, <2>2
<1>9. CASE \/ SaveCreateExists(t) \/ SaveCreateLock(t) \/ SaveCreateBuild(t) \/ SaveCreateStart(t)
           \/ SaveCreateWait(t) \/ SaveDeleteExists(t) \/ SaveDeleteRemove(t)
  <2>0. pc[t] \in {"sc_exists", "sc_lock", "sc_build", "sc_mutex", "sc_wait", "sd_exists", "sd_remove"}
    BY <1>9 DEF SaveCreateExists, SaveCreateLock, SaveCreateBuild, SaveCreateStart,
       SaveCreateWait, SaveDeleteExists, SaveDeleteRemove
  <2>1. op[t] # "version_install" BY <2>0 DEF TaskStopInv, InstallSteps
  <2>2. UNCHANGED <<op, found, save>> /\ pc'[t] # "idle"
    BY <1>0, <1>9 DEF SaveCreateExists, SaveCreateLock, SaveCreateBuild, SaveCreateStart,
       SaveCreateWait, SaveDeleteExists, SaveDeleteRemove, Reply, Finish, Goto, FunctionTypes, request
  <2> QED BY <1>b, <2>1, <2>2
<1>10. CASE \/ RconSend(t) \/ RconAnswer(t) \/ SettingsGetRead(t) \/ ModDlcsLock(t) \/ SettingsGetLock(t)
            \/ StatusPoll(t) \/ ServerStart(t)
  <2>0. pc[t] \in {"rc_lock", "rc_wait", "sg_read", "sg_lock", "md_lock", "stat_poll", "ss_lock"}
    BY <1>10 DEF RconSend, RconAnswer, SettingsGetRead, ModDlcsLock, SettingsGetLock, StatusPoll, ServerStart
  <2>1. op[t] # "version_install" BY <2>0 DEF TaskStopInv, InstallSteps
  <2>2. UNCHANGED <<op, found, save>> /\ pc'[t] # "idle"
    BY <1>0, <1>10 DEF RconSend, RconAnswer, SettingsGetRead, ModDlcsLock, SettingsGetLock,
       StatusPoll, ServerStart, Reply, Finish, Goto, FunctionTypes, request
  <2> QED BY <1>b, <2>1, <2>2
<1> QED BY <1>1, <1>2, <1>4, <1>5, <1>6, <1>8, <1>9, <1>10 DEF TaskStep

(* Every step keeps StopInv. *)
LEMMA StopStep ==
  ASSUME IInv, StopInv, Next
  PROVE  StopInv'
<1>0. FunctionTypes /\ Tasks \subseteq Workers /\ Main \in Workers /\ Main \notin Tasks
  BY FunctionTypesLemma, ConstantsAssumption DEF IInv, Workers
<1>1. ASSUME NEW t \in Workers, Others(t) PROVE \A u \in Tasks \ {t} : TaskStopInv(u)'
  BY <1>0, <1>1 DEF StopInv, TaskStopInv, Others
<1>2. ASSUME NEW t \in Tasks, HandleMessage(t) \/ Retire(t) \/ TaskStep(t) PROVE StopInv'
  <2>1. Others(t) BY <1>0, <1>2, OthersLemma DEF TaskStep
  <2>2. TaskStopInv(t)' BY <1>2, OwnStop DEF StopInv
  <2> QED BY <1>0, <1>1, <2>1, <2>2 DEF StopInv
<1>3. CASE StopInstance(Main) \/ StopWait(Main)
  <2>1. Others(Main) BY <1>0, <1>3, OthersLemma
  <2> QED BY <1>0, <1>1, <2>1 DEF StopInv
<1>4. ASSUME NEW p \in Pids, HostExits(p) \/ CreateExits(p) \/ DroppedExits(p) PROVE StopInv'
  BY <1>4 DEF HostExits, CreateExits, DroppedExits, request, StopInv, TaskStopInv
<1>5. CASE Sigint
  <2>1. UNCHANGED <<to, from, found, save>> BY <1>5 DEF Sigint
  <2>2. \A u \in Tasks : pc'[u] = pc[u] /\ op'[u] = op[u]
    BY <1>0, <1>5 DEF Sigint, Goto, FunctionTypes
  <2> QED BY <2>1, <2>2 DEF StopInv, TaskStopInv
<1>6. CASE Restart
  <2>1. \A u \in Tasks : op'[u] = "none" /\ found'[u] = "nothing" BY <1>0, <1>6 DEF Restart
  <2> QED BY <2>1 DEF StopInv, TaskStopInv
<1> QED BY <1>2, <1>3, <1>4, <1>5, <1>6 DEF Next

(* While an install whose stop failed goes on, no server is tracked: the    *)
(* write lock it holds keeps every start away.                              *)
DownInv ==
  \A t \in Tasks : op[t] = "version_install" /\ pc[t] # "done" /\ found[t] = "dropped"
                     => instance = NoPid

(* Only a start makes an instance. *)
LEMMA InstanceStays ==
  ASSUME NEW t, HandleMessage(t) \/ Retire(t) \/ TaskStep(t), ~StartInstance(t)
  PROVE  instance' \in {instance, NoPid}
BY DEF TaskStep, HandleMessage, Retire, InstallConflict, InstallLock, InstallDownload,
   InstallUnpack, DeleteStart, DeleteEnd, StopInstance, StopWait, ReadConflict, ServerStart,
   StartCheckSave, StartReadConfig, StatusPoll, StatusRead, VersionGet, SaveCreateExists,
   SaveCreateLock, SaveCreateBuild, SaveCreateStart, SaveCreateWait, SaveDeleteExists,
   SaveDeleteRemove, RconSend, RconAnswer, ModDlcsLock, ModDlcsApply, SettingsGetRead,
   SettingsGetLock, SettingsGetInit, Reply, process

(* An install that has called stop_instance holds the write lock. *)
LEMMA FoundHolds ==
  ASSUME StopInv, NEW t \in Tasks, op[t] = "version_install", pc[t] # "done",
         found[t] # "nothing"
  PROVE  HoldsWrite(t)
BY DEF StopInv, TaskStopInv, HoldsWrite, InstallSteps, StartSteps

(* No server is started while an install that has called stop_instance is   *)
(* under way, but by that install.                                          *)
LEMMA OnlyOwnStart ==
  ASSUME IInv, StopInv, NEW t \in Tasks, NEW u \in Tasks, StartInstance(u),
         op[t] = "version_install", pc[t] # "done", found[t] # "nothing"
  PROVE  u = t
<1>1. HoldsWrite(t) BY FoundHolds
<1>2. HoldsRead(u) \/ HoldsWrite(u)
  BY DEF StartInstance, IInv, ControlInv, HoldsRead, HoldsWrite, StartSteps
<1> QED BY <1>1, <1>2, WriterAlone

(* Every step keeps DownInv. *)
LEMMA DownStep ==
  ASSUME IInv, StopInv, DownInv, Next
  PROVE  DownInv'
<1>0. FunctionTypes /\ Tasks \subseteq Workers /\ Main \in Workers /\ Main \notin Tasks
  BY FunctionTypesLemma, ConstantsAssumption DEF IInv, Workers
<1>a. CASE instance' = NoPid
  BY <1>a DEF DownInv
<1>b. ASSUME NEW t \in Workers, Others(t), instance' = instance \/ instance' = NoPid,
             t \in Tasks => (op'[t] = "version_install" /\ pc'[t] # "done" /\ found'[t] = "dropped"
                              => instance = NoPid)
      PROVE  DownInv'
  BY <1>0, <1>b DEF DownInv, Others
<1>1. ASSUME NEW t \in Tasks, HandleMessage(t) \/ Retire(t) \/ TaskStep(t) PROVE DownInv'
  <2>1. Others(t) BY <1>0, <1>1, OthersLemma DEF TaskStep
  <2>2. CASE StartInstance(t)
    <3>1. pc'[t] = "done"
      BY <1>0, <2>2 DEF StartInstance, Reply, Finish, Goto, FunctionTypes
    <3>2. SUFFICES ASSUME NEW u \in Tasks, op'[u] = "version_install", pc'[u] # "done",
                          found'[u] = "dropped"
                   PROVE  instance' = NoPid
      BY DEF DownInv
    <3>3. u # t BY <3>1, <3>2
    <3>4. op[u] = "version_install" /\ pc[u] # "done" /\ found[u] # "nothing"
      BY <1>0, <2>1, <3>2, <3>3 DEF Others
    <3> QED BY <2>2, <3>3, <3>4, OnlyOwnStart
  <2>3. CASE StopInstance(t) BY <1>a, <2>3 DEF StopInstance
  <2>4. CASE StopWait(t)
    <3>1. instance = NoPid /\ instance' = instance
      BY <1>0, <2>4, MutexHeld DEF StopWait, WaitSteps
    <3> QED BY <1>a, <3>1
  <2>5. CASE ~StartInstance(t) /\ ~StopInstance(t) /\ ~StopWait(t)
    <3>1. instance' \in {instance, NoPid} BY <1>1, <2>5, InstanceStays
    <3>2. CASE HandleMessage(t)
      <4>1. found'[t] = "nothing" BY <3>2 DEF HandleMessage, StopInv, TaskStopInv
      <4> QED BY <1>0, <1>b, <2>1, <3>1, <4>1
    <3>3. CASE Retire(t)
      <4>1. found'[t] = "nothing" BY <1>0, <3>3 DEF Retire, FunctionTypes
      <4> QED BY <1>0, <1>b, <2>1, <3>1, <4>1
    <3>4. CASE ~HandleMessage(t) /\ ~Retire(t)
      <4>1. UNCHANGED <<op, found>> /\ pc[t] # "done"
        BY <1>1, <2>5, <3>4 DEF TaskStep, InstallConflict, InstallLock, InstallDownload,
           InstallUnpack, DeleteStart, DeleteEnd, ReadConflict, ServerStart,
           StartCheckSave, StartReadConfig, StatusPoll, StatusRead, VersionGet, SaveCreateExists,
           SaveCreateLock, SaveCreateBuild, SaveCreateStart, SaveCreateWait, SaveDeleteExists,
           SaveDeleteRemove, RconSend, RconAnswer, ModDlcsLock, ModDlcsApply, SettingsGetRead,
           SettingsGetLock, SettingsGetInit, Reply, request
      <4>2. op[t] = "version_install" /\ found[t] = "dropped" => instance = NoPid
        BY <4>1 DEF DownInv
      <4> QED BY <1>0, <1>b, <2>1, <3>1, <4>1, <4>2
    <3> QED BY <3>2, <3>3, <3>4
  <2> QED BY <2>2, <2>3, <2>4, <2>5
<1>2. CASE StopInstance(Main) \/ StopWait(Main)
  <2>1. Others(Main) BY <1>0, <1>2, OthersLemma
  <2>2. instance' = instance \/ instance' = NoPid BY <1>2 DEF StopInstance, StopWait
  <2> QED BY <1>0, <1>b, <2>1, <2>2
<1>3. ASSUME NEW p \in Pids, HostExits(p) \/ CreateExits(p) \/ DroppedExits(p) PROVE DownInv'
  BY <1>3 DEF HostExits, CreateExits, DroppedExits, request, DownInv
<1>4. CASE Sigint
  <2>1. UNCHANGED <<instance, found>> BY <1>4 DEF Sigint, process
  <2>2. \A u \in Tasks : pc'[u] = pc[u] /\ op'[u] = op[u]
    BY <1>0, <1>4 DEF Sigint, Goto, FunctionTypes
  <2> QED BY <2>1, <2>2 DEF DownInv
<1>5. CASE Restart BY <1>a, <1>5 DEF Restart
<1> QED BY <1>1, <1>2, <1>3, <1>4, <1>5 DEF Next

(* Only a step of task t takes its handler to the end. *)
LEMMA OwnEnd ==
  ASSUME IInv, Next, NEW t \in Tasks, pc[t] # "done", pc'[t] = "done"
  PROVE  HandleMessage(t) \/ Retire(t) \/ TaskStep(t)
<1>0. FunctionTypes /\ Tasks \subseteq Workers /\ Main \in Workers /\ Main \notin Tasks
  BY FunctionTypesLemma, ConstantsAssumption DEF IInv, Workers
<1>1. ASSUME NEW u \in Workers, u # t, Others(u) PROVE FALSE
  BY <1>0, <1>1 DEF Others
<1>2. ASSUME NEW u \in Tasks, HandleMessage(u) \/ Retire(u) \/ TaskStep(u) PROVE u = t
  BY <1>0, <1>1, <1>2, OthersLemma DEF TaskStep
<1>3. ~(StopInstance(Main) \/ StopWait(Main))
  BY <1>0, <1>1, OthersLemma
<1>4. \A p \in Pids : ~(HostExits(p) \/ CreateExits(p) \/ DroppedExits(p))
  BY DEF HostExits, CreateExits, DroppedExits
<1>5. ~Sigint /\ ~Restart
  BY <1>0 DEF Sigint, Restart, Goto, FunctionTypes
<1> QED BY <1>2, <1>3, <1>4, <1>5 DEF Next

(* A handler of version_install that had stopped the server and replies     *)
(* Completed has just spawned a server on the new version and the old save. *)
LEMMA RestartsStep ==
  ASSUME IInv, StopInv, Next, NEW t \in Tasks,
         op[t] = "version_install", found[t] = "stopped", pc[t] # "done", pc'[t] = "done",
         sent'[t][Len(sent'[t])] = "Completed"
  PROVE  instance' # NoPid /\ proc'[instance'].state = "running"
                           /\ proc'[instance'].version = to[t]
                           /\ proc'[instance'].save = save[t]
<1>0. /\ FunctionTypes /\ Tasks \subseteq Workers /\ save[t] # NoSave
      /\ sent[t] \in Seq(Statuses) /\ pc[t] \in InstallSteps /\ to[t] \in Versions
      /\ TaskStopInv(t) /\ proc \in [Pids -> ProcRecords]
  BY FunctionTypesLemma, ConstantsAssumption
  DEF IInv, TypeOK, Workers, FunctionTypes, StopInv, TaskStopInv, ControlInv
<1>1. ~Reply(t, "Failed")
  <2> SUFFICES ASSUME Reply(t, "Failed") PROVE FALSE OBVIOUS
  <2>1. sent'[t] = Append(sent[t], "Failed")
    BY <1>0 DEF Reply, Finish, Send, FunctionTypes
  <2>2. Append(sent[t], "Failed")[Len(Append(sent[t], "Failed"))] = "Failed"
    BY <1>0 DEF Statuses
  <2> QED BY <2>1, <2>2
<1>2. ~RestartOrFinish(t)
  BY <1>0 DEF RestartOrFinish, Goto, FunctionTypes
<1>3. \A s, o : ~AfterStop(t, s, o)
  BY <1>0 DEF AfterStop, Goto, FunctionTypes
<1>4. HandleMessage(t) \/ Retire(t) \/ TaskStep(t)
  BY OwnEnd
<1>5. ~HandleMessage(t) /\ ~Retire(t)
  BY <1>0 DEF HandleMessage, Retire, InstallSteps
<1>6. ~InstallConflict(t) /\ ~InstallLock(t) /\ ~InstallDownload(t)
  BY <1>0, <1>1 DEF InstallConflict, InstallLock, InstallDownload, Goto, FunctionTypes, TaskStopInv
<1>7. ~InstallUnpack(t)
  <2>1. InstallUnpack(t) => from[t] # NoVersion
    BY <1>0, <1>1, ConstantsAssumption DEF InstallUnpack, TaskStopInv
  <2> QED BY <1>0, <1>1, <1>2, <2>1 DEF InstallUnpack, Goto, FunctionTypes
<1>8. ~DeleteStart(t) /\ ~DeleteEnd(t)
  BY <1>0, <1>1, <1>2 DEF DeleteStart, DeleteEnd, Goto, FunctionTypes
<1>9. ~StopInstance(t) /\ ~StopWait(t)
  BY <1>0, <1>3 DEF StopInstance, StopWait, Goto, FunctionTypes
<1>10. ~StartCheckSave(t) /\ ~StartReadConfig(t)
  BY <1>0, <1>1 DEF StartCheckSave, StartReadConfig, Goto, FunctionTypes
<1>11. StartInstance(t)
  BY <1>0, <1>4, <1>5, <1>6, <1>7, <1>8, <1>9, <1>10 DEF TaskStep, ReadConflict, ServerStart,
     StatusPoll, StatusRead, VersionGet, SaveCreateExists, SaveCreateLock, SaveCreateBuild,
     SaveCreateStart, SaveCreateWait, SaveDeleteExists, SaveDeleteRemove, RconSend, RconAnswer,
     SettingsGetRead, ModDlcsLock, SettingsGetLock, ModDlcsApply, SettingsGetInit, InstallSteps
<1>12. PICK p \in Pids : Spawn(p, "host", to[t], save[t]) /\ instance' = p
  BY <1>1, <1>11 DEF StartInstance, StartVersion
<1> QED BY <1>0, <1>12, ConstantsAssumption DEF Spawn

(* A handler of version_install whose stop failed ends with no server: it   *)
(* has no savefile to start one with.                                       *)
LEMMA DownEnd ==
  ASSUME IInv, StopInv, DownInv, Next, NEW t \in Tasks,
         op[t] = "version_install", found[t] = "dropped", pc[t] # "done", pc'[t] = "done"
  PROVE  instance' = NoPid
<1>1. instance = NoPid BY DEF DownInv
<1>2. save[t] = NoSave BY DEF StopInv, TaskStopInv
<1>3. ~StartInstance(t)
  BY <1>2, ConstantsAssumption DEF StartInstance, IInv, ControlInv
<1>4. instance' \in {instance, NoPid} BY <1>3, OwnEnd, InstanceStays
<1> QED BY <1>1, <1>4

(* The server an upgrade stopped is back, on the new version and with its   *)
(* save, when version_install reports success; after a failed stop no       *)
(* server runs.                                                             *)
THEOREM UpgradeRestartsTheorem == Spec => UpgradeRestarts
<1>1. Init => StopInv /\ DownInv
  BY DEF Init, StopInv, TaskStopInv, DownInv, Workers
<1>2. IInv /\ StopInv /\ DownInv /\ [Next]_vars => StopInv' /\ DownInv'
  <2>1. StopInv /\ UNCHANGED vars => StopInv'
    BY DEF vars, StopInv, TaskStopInv
  <2>2. DownInv /\ UNCHANGED vars => DownInv'
    BY DEF vars, DownInv
  <2> QED BY <2>1, <2>2, StopStep, DownStep
<1>3. IInv /\ StopInv /\ DownInv /\ [Next]_vars =>
        [\A t \in Tasks :
           /\ op[t] = "version_install"
           /\ pc[t] # "done" /\ pc'[t] = "done"
           /\ sent'[t][Len(sent'[t])] = "Completed"
           => CASE found[t] = "stopped" ->
                     /\ instance' # NoPid
                     /\ proc'[instance'].state = "running"
                     /\ proc'[instance'].version = to[t]
                     /\ proc'[instance'].save = save[t]
                [] found[t] = "dropped" -> instance' = NoPid
                [] OTHER -> TRUE]_vars
  <2> SUFFICES ASSUME IInv, StopInv, DownInv, Next, NEW t \in Tasks,
                      op[t] = "version_install", pc[t] # "done", pc'[t] = "done",
                      sent'[t][Len(sent'[t])] = "Completed"
               PROVE  CASE found[t] = "stopped" ->
                             /\ instance' # NoPid
                             /\ proc'[instance'].state = "running"
                             /\ proc'[instance'].version = to[t]
                             /\ proc'[instance'].save = save[t]
                        [] found[t] = "dropped" -> instance' = NoPid
                        [] OTHER -> TRUE
    OBVIOUS
  <2>1. CASE found[t] = "stopped" BY <2>1, RestartsStep
  <2>2. CASE found[t] = "dropped" BY <2>2, DownEnd
  <2>3. CASE found[t] \notin {"stopped", "dropped"} BY <2>3
  <2> QED BY <2>1, <2>2, <2>3
<1>4. Spec => [](StopInv /\ DownInv) BY <1>1, <1>2, Invariance, PTL DEF Spec
<1> QED BY <1>3, <1>4, Invariance, PTL DEF Spec, UpgradeRestarts

-----------------------------------------------------------------------------
(* The version map lists complete installations                            *)

NoDamage == Faults \cap {"unpack", "delete", "crash", "sigint"} = {}

(* The installation that task t is unpacking or removing. *)
Halfway(t, v) == \/ pc[t] = "in_unpack" /\ to[t] = v
                 \/ pc[t] = "rm_wait" /\ from[t] = v

MapInv ==
  /\ pc[Main] = "idle"
  /\ \A v \in versions :
       disk[v] = "complete" \/ \E t \in Tasks : HoldsWrite(t) /\ Halfway(t, v)

(* Every step of a task keeps MapInv. *)
LEMMA OwnMap ==
  ASSUME IInv, NoDamage, MapInv, NEW t \in Tasks,
         HandleMessage(t) \/ Retire(t) \/ TaskStep(t)
  PROVE  \A v \in versions' :
           disk'[v] = "complete" \/ \E u \in Tasks : HoldsWrite(u)' /\ Halfway(u, v)'
<1>0. /\ FunctionTypes /\ Tasks \subseteq Workers /\ disk \in [Versions -> DirStates]
      /\ versions \subseteq Versions
  BY FunctionTypesLemma DEF IInv, TypeOK, Workers
<1>1. Others(t) BY <1>0, OthersLemma DEF TaskStep
<1>2. CASE ~(InstallDownload(t) \/ InstallUnpack(t) \/ DeleteStart(t) \/ DeleteEnd(t))
  <2>1. UNCHANGED <<versions, disk>>
    BY <1>0, <1>2, InstallQuietLemma DEF TaskStep
  <2>2. pc[t] \notin {"in_unpack", "rm_wait"}
    BY <1>2 DEF HandleMessage, Retire, TaskStep,
       InstallConflict, InstallLock, StopInstance, StopWait, ReadConflict, ServerStart,
       StartCheckSave, StartReadConfig, StartInstance, StatusPoll, StatusRead, VersionGet,
       SaveCreateExists, SaveCreateLock, SaveCreateBuild, SaveCreateStart, SaveCreateWait,
       SaveDeleteExists, SaveDeleteRemove, RconSend, RconAnswer, SettingsGetRead,
       ModDlcsLock, SettingsGetLock, ModDlcsApply, SettingsGetInit
  <2>3. \A u \in Tasks, v \in versions : HoldsWrite(u) /\ Halfway(u, v)
                                           => HoldsWrite(u)' /\ Halfway(u, v)'
    BY <1>0, <1>1, <2>2 DEF Others, HoldsWrite, Halfway
  <2> QED BY <2>1, <2>3 DEF MapInv
<1>3. CASE InstallDownload(t) \/ InstallUnpack(t) \/ DeleteStart(t) \/ DeleteEnd(t)
  <2>1. HoldsWrite(t) /\ to[t] \in Versions
    BY <1>3 DEF InstallDownload, InstallUnpack, DeleteStart, DeleteEnd, IInv,
       ControlInv, HoldsWrite
  <2>2. \A u \in Tasks : HoldsWrite(u) => u = t BY <2>1, WriterAlone
  <2>3. \A v \in versions : disk[v] = "complete" \/ Halfway(t, v)
    BY <2>2 DEF MapInv
  <2>4. CASE InstallDownload(t)
    <3>1. \A v \in versions : disk[v] = "complete"
      BY <2>3, <2>4 DEF InstallDownload, Halfway
    <3>2. CASE Reply(t, "Failed") BY <3>1, <3>2 DEF Reply, install
    <3>3. CASE ~Reply(t, "Failed")
      <4>1. /\ pc'[t] = "in_unpack" /\ to'[t] = to[t] /\ op'[t] = op[t] /\ versions' = versions
            /\ disk' = [disk EXCEPT ![to[t]] = "partial"]
        BY <1>0, <2>4, <3>3 DEF InstallDownload, Goto, FunctionTypes, request
      <4>2. HoldsWrite(t)' /\ Halfway(t, to[t])'
        BY <2>1, <4>1 DEF HoldsWrite, Halfway
      <4>3. \A v \in versions : v # to[t] => disk'[v] = "complete"
        BY <1>0, <3>1, <4>1
      <4>4. \A v : v = to[t] => Halfway(t, v)' BY <4>1 DEF Halfway
      <4> QED BY <4>1, <4>2, <4>3, <4>4
    <3> QED BY <3>2, <3>3
  <2>5. CASE InstallUnpack(t)
    <3>1. versions' = versions \cup {to[t]} /\ disk' = [disk EXCEPT ![to[t]] = "complete"]
      BY <2>5 DEF InstallUnpack, NoDamage
    <3>2. \A v \in versions : v # to[t] => disk[v] = "complete"
      BY <2>3, <2>5 DEF InstallUnpack, Halfway
    <3> QED BY <1>0, <2>1, <3>1, <3>2
  <2>6. CASE DeleteStart(t)
    <3>1. \A v \in versions : disk[v] = "complete"
      BY <2>3, <2>6 DEF DeleteStart, Halfway
    <3>2. CASE Reply(t, "Failed") BY <3>1, <3>2 DEF Reply, install
    <3>3. CASE ~Reply(t, "Failed")
      <4>1. /\ pc'[t] = "rm_wait" /\ from'[t] = from[t] /\ op'[t] = op[t] /\ versions' = versions
            /\ disk' = [disk EXCEPT ![from[t]] = "partial"]
        BY <1>0, <2>6, <3>3 DEF DeleteStart, Goto, FunctionTypes, request
      <4>2. HoldsWrite(t)'
        BY <2>1, <4>1 DEF HoldsWrite
      <4>3. \A v \in versions : v # from[t] => disk'[v] = "complete"
        BY <1>0, <3>1, <4>1
      <4>4. \A v : v = from[t] => Halfway(t, v)' BY <4>1 DEF Halfway
      <4> QED BY <4>1, <4>2, <4>3, <4>4
    <3> QED BY <3>2, <3>3
  <2>7. CASE DeleteEnd(t)
    <3>1. versions' = versions \ {from[t]} /\ disk' = [disk EXCEPT ![from[t]] = "absent"]
      BY <2>7 DEF DeleteEnd, NoDamage
    <3>2. \A v \in versions : v # from[t] => disk[v] = "complete"
      BY <2>3, <2>7 DEF DeleteEnd, Halfway
    <3> QED BY <1>0, <3>1, <3>2
  <2> QED BY <1>3, <2>4, <2>5, <2>6, <2>7
<1> QED BY <1>2, <1>3

(* Every step keeps MapInv when nothing can damage an installation. *)
LEMMA MapStep ==
  ASSUME IInv, NoDamage, MapInv, Next
  PROVE  MapInv'
<1>0. FunctionTypes /\ Tasks \subseteq Workers /\ Main \in Workers /\ Main \notin Tasks
  BY FunctionTypesLemma, ConstantsAssumption DEF IInv, Workers
<1>1. ASSUME NEW t \in Tasks, HandleMessage(t) \/ Retire(t) \/ TaskStep(t) PROVE MapInv'
  <2>1. Others(t) BY <1>0, <1>1, OthersLemma DEF TaskStep
  <2>2. pc'[Main] = "idle" BY <1>0, <2>1 DEF Others, MapInv
  <2>3. \A v \in versions' :
          disk'[v] = "complete" \/ \E u \in Tasks : HoldsWrite(u)' /\ Halfway(u, v)'
    BY <1>1, OwnMap
  <2> QED BY <2>2, <2>3 DEF MapInv
<1>2. ~StopInstance(Main) /\ ~StopWait(Main) /\ ~Sigint /\ ~Restart
  BY DEF StopInstance, StopWait, Sigint, Restart, MapInv, NoDamage
<1>3. ASSUME NEW p \in Pids, HostExits(p) \/ CreateExits(p) \/ DroppedExits(p) PROVE MapInv'
  BY <1>3 DEF HostExits, CreateExits, DroppedExits, request, install, MapInv, HoldsWrite, Halfway
<1> QED BY <1>1, <1>2, <1>3 DEF Next

(* Without damage to an installation the map lists only complete ones, but  *)
(* for the one that the holder of the write lock is replacing.              *)
THEOREM MapListsTheorem == Spec => []MapListsCompleteInstalls
<1>1. Init /\ NoDamage => MapInv
  BY DEF Init, MapInv, Workers
<1>2. IInv /\ NoDamage /\ MapInv /\ [Next]_vars => MapInv'
  <2>1. MapInv /\ UNCHANGED vars => MapInv'
    BY DEF vars, MapInv, HoldsWrite, Halfway
  <2> QED BY <2>1, MapStep
<1>3. ASSUME IInv, NoDamage => MapInv PROVE MapListsCompleteInstalls
  <2> SUFFICES ASSUME NoDamage, NEW v \in versions, disk[v] # "complete"
               PROVE  \E t \in Tasks : writer = t /\ \/ pc[t] = "in_unpack" /\ to[t] = v
                                                     \/ pc[t] = "rm_wait" /\ from[t] = v
    BY DEF MapListsCompleteInstalls, NoDamage
  <2>1. PICK t \in Tasks : HoldsWrite(t) /\ Halfway(t, v) BY <1>3 DEF MapInv
  <2>2. writer = t BY <1>3, <2>1 DEF IInv, LockInv, Workers
  <2> QED BY <2>1, <2>2 DEF Halfway
<1>4. Spec => [](NoDamage => MapInv)
  <2> DEFINE J == NoDamage => MapInv
  <2>1. Init => J BY <1>1
  <2>2. IInv /\ J /\ [Next]_vars => J' BY <1>2 DEF NoDamage
  <2> HIDE DEF J
  <2>3. Spec => []J BY <2>1, <2>2, Invariance, PTL DEF Spec
  <2> QED BY <2>3 DEF J
<1> QED BY <1>3, <1>4, Invariance, PTL
=============================================================================
