--------------------------- MODULE ServerLifecycle ---------------------------
(***************************************************************************)
(* What the agent promises about the Factorio installations and processes, *)
(* without locks, tasks or partial states.  live is the set of processes   *)
(* that are running; it never holds more than one.  A process that the     *)
(* agent failed to stop and let go of is no longer in it.                  *)
(***************************************************************************)
CONSTANTS Versions, Saves

VARIABLES installed, live

Processes == [kind: {"host", "create"}, version: Versions, save: Saves]

Init == installed = {} /\ live = {}

Install(v) == installed' = installed \cup {v} /\ UNCHANGED live

(* A version goes away only when no process is alive. *)
Remove(v) == live = {} /\ installed' = installed \ {v} /\ UNCHANGED live

(* A process is launched alone, and from an installed version. *)
Launch(p) ==
  /\ live = {}
  /\ p.version \in installed
  /\ live' = {p}
  /\ UNCHANGED installed

(* The process exits, is stopped, is killed or is let go of. *)
Halt == live' = {} /\ UNCHANGED installed

(* A new agent starts: nothing runs, and it knows what its scan found. *)
Reset == live' = {} /\ installed' \in SUBSET Versions

Next ==
  \/ \E v \in Versions : Install(v) \/ Remove(v)
  \/ \E p \in Processes : Launch(p)
  \/ Halt
  \/ Reset

Spec == Init /\ [][Next]_<<installed, live>>
=============================================================================
