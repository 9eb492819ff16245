------------------------------ MODULE Lockfile ------------------------------
(***************************************************************************)
(* Lockfile.lock: a rake task runs its block while a file exists.  The      *)
(* file is looked at, read, removed and created by separate system calls,   *)
(* and a file older than an hour is taken for one left by a dead process.  *)
(* What the block does is another module's business.                       *)
(***************************************************************************)
EXTENDS Naturals

CONSTANTS
  Runs,     \* processes cron starts; one that has ended may be started again
  Spaced,   \* cron starts no run while another is taking the lock
  Prompt,   \* no block lasts more than an hour
  MaxKills  \* bound: runs that are killed in a behaviour

ASSUME LockfileAssumption ==
  /\ Spaced \in BOOLEAN
  /\ Prompt \in BOOLEAN
  /\ MaxKills \in Nat

VARIABLES
  file,     \* the lock file: "absent", "recent", or "old" after an hour
  at,       \* where each run is in Lockfile.lock
  kills

lockVars == <<file, at, kills>>

(* look, ctime, remove and check are the steps before the file is created.   *)
Taking == {"look", "ctime", "remove", "check", "create"}
Places == Taking \cup {"out", "block", "unlock"}

LockTypeOK ==
  /\ file \in {"absent", "recent", "old"}
  /\ at \in [Runs -> Places]
  /\ kills \in 0..MaxKills

LockInit ==
  /\ file = "absent"
  /\ at = [r \in Runs |-> "out"]
  /\ kills = 0

Holds(r) == at[r] \in {"block", "unlock"}

Goto(r, from, to) == at[r] = from /\ at' = [at EXCEPT ![r] = to]

Start(r) ==
  /\ Spaced => \A s \in Runs : at[s] \notin Taking
  /\ Goto(r, "out", "look")
  /\ UNCHANGED <<file, kills>>

(* The first File.exists?                                                   *)
Look(r) ==
  /\ Goto(r, "look", IF file = "absent" THEN "check" ELSE "ctime")
  /\ UNCHANGED <<file, kills>>

(* Mutant: the age of the file is not looked at.                            *)
ReadNoCtime(r) ==
  /\ Goto(r, "ctime", "check")
  /\ UNCHANGED <<file, kills>>

(* File.new(file_name).ctime raises when the file is gone.                   *)
ReadCtime(r) ==
  /\ Goto(r, "ctime", CASE file = "absent" -> "out"
                        [] file = "old" -> "remove"
                        [] file = "recent" -> "check")
  /\ UNCHANGED <<file, kills>>

(* So does File.unlink.                                                     *)
RemoveOld(r) ==
  /\ Goto(r, "remove", IF file = "absent" THEN "out" ELSE "check")
  /\ file' = "absent"
  /\ UNCHANGED kills

(* Mutant: the second File.exists? is forgotten.                            *)
CheckNothing(r) ==
  /\ Goto(r, "check", "create")
  /\ UNCHANGED <<file, kills>>

(* The second File.exists?                                                  *)
Check(r) ==
  /\ Goto(r, "check", IF file = "absent" THEN "create" ELSE "out")
  /\ UNCHANGED <<file, kills>>

(* File.open(file_name, "w"), whoever created the file.                      *)
CreateFile(r) ==
  /\ Goto(r, "create", "block")
  /\ file' = "recent"
  /\ UNCHANGED kills

(* The block returns or raises; ensure comes next.                          *)
LeaveBlock(r) ==
  /\ Goto(r, "block", "unlock")
  /\ UNCHANGED <<file, kills>>

Unlock(r) ==
  /\ Goto(r, "unlock", "out")
  /\ file' = "absent"
  /\ UNCHANGED kills

(* An hour passes.                                                          *)
HourPasses ==
  /\ file = "recent"
  /\ Prompt => \A r \in Runs : ~Holds(r)
  /\ file' = "old"
  /\ UNCHANGED <<at, kills>>

(* A run is killed: ensure does not run.                                    *)
Kill(r) ==
  /\ kills < MaxKills
  /\ at[r] # "out"
  /\ at' = [at EXCEPT ![r] = "out"]
  /\ kills' = kills + 1
  /\ UNCHANGED file

Lock(r) == Look(r) \/ ReadCtime(r) \/ RemoveOld(r) \/ Check(r) \/ CreateFile(r)

LockNext ==
  \/ \E r \in Runs :
       Start(r) \/ Lock(r) \/ LeaveBlock(r) \/ Unlock(r) \/ Kill(r)
  \/ HourPasses

LockSpec == LockInit /\ [][LockNext]_lockVars

(* Cron starts the task for ever, a run that is not killed goes on, and time *)
(* does not stop.                                                           *)
LockFairSpec ==
  /\ LockSpec
  /\ \A r \in Runs : WF_lockVars(Lock(r) \/ LeaveBlock(r) \/ Unlock(r))
  /\ WF_lockVars(\E r \in Runs : Start(r))
  /\ WF_lockVars(HourPasses)

-----------------------------------------------------------------------------
(* Two blocks never run at the same time.                                   *)
MutualExclusion == \A r, s \in Runs : Holds(r) /\ Holds(s) => r = s

(* A task runs again and again, although a killed run leaves its lock.       *)
TaskRunsAgain == []<>(\E r \in Runs : at[r] = "block")
=============================================================================
