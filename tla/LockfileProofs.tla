--------------------------- MODULE LockfileProofs ---------------------------
(***************************************************************************)
(* For any number of runs, the lock excludes them from each other when no   *)
(* two take it at once and none keeps it for more than an hour.  The        *)
(* invariant says what a run relies on when it creates the file: that the   *)
(* absence it saw lasts, since nobody else is about to create it; and when  *)
(* it removes one: that an old file is nobody's.                           *)
(***************************************************************************)
EXTENDS Lockfile, TLAPS

Schedule == Spaced /\ Prompt

(* Only one run at a time takes the lock.                                   *)
OneTaker == \A r, s \in Runs : at[r] \in Taking /\ at[s] \in Taking => r = s

(* The file of a run in its block is there and recent.                      *)
HolderHasFile == \A r \in Runs : Holds(r) => file = "recent"

CreatorAlone == \A r \in Runs : at[r] = "create" => file = "absent"
RemoverRight == \A r \in Runs : at[r] = "remove" => file = "old"

LockInv ==
  /\ LockTypeOK
  /\ OneTaker
  /\ HolderHasFile
  /\ CreatorAlone
  /\ RemoverRight
  /\ MutualExclusion

LEMMA LockInvInit == LockInit => LockInv
BY LockfileAssumption
DEF LockInit, LockInv, LockTypeOK, OneTaker, HolderHasFile, CreatorAlone,
    RemoverRight, MutualExclusion, Holds, Places, Taking

LEMMA LockInvStep ==
  ASSUME Schedule, LockInv, [LockNext]_lockVars
  PROVE  LockInv'
<1> USE LockfileAssumption
    DEF LockInv, LockTypeOK, OneTaker, HolderHasFile, CreatorAlone,
        RemoverRight, MutualExclusion, Holds, Places, Taking
<1>1. ASSUME NEW r \in Runs, Start(r) PROVE LockInv'
  BY <1>1 DEF Start, Goto, Schedule
<1>2. ASSUME NEW r \in Runs, Look(r) PROVE LockInv'
  BY <1>2 DEF Look, Goto
<1>3. ASSUME NEW r \in Runs, ReadCtime(r) PROVE LockInv'
  BY <1>3 DEF ReadCtime, Goto
<1>4. ASSUME NEW r \in Runs, RemoveOld(r) PROVE LockInv'
  BY <1>4 DEF RemoveOld, Goto
<1>5. ASSUME NEW r \in Runs, Check(r) PROVE LockInv'
  BY <1>5 DEF Check, Goto
<1>6. ASSUME NEW r \in Runs, CreateFile(r) PROVE LockInv'
  BY <1>6 DEF CreateFile, Goto
<1>7. ASSUME NEW r \in Runs, LeaveBlock(r) PROVE LockInv'
  BY <1>7 DEF LeaveBlock, Goto
<1>8. ASSUME NEW r \in Runs, Unlock(r) PROVE LockInv'
  BY <1>8 DEF Unlock, Goto
<1>9. ASSUME NEW r \in Runs, Kill(r) PROVE LockInv'
  BY <1>9 DEF Kill
<1>10. CASE HourPasses
  BY <1>10 DEF HourPasses, Schedule
<1>11. CASE UNCHANGED lockVars
  BY <1>11 DEF lockVars
<1> QED
  BY <1>1, <1>2, <1>3, <1>4, <1>5, <1>6, <1>7, <1>8, <1>9, <1>10, <1>11
  DEF LockNext, Lock

(* Two blocks never run at the same time, if cron spaces the runs and no     *)
(* block lasts more than an hour.                                           *)
THEOREM LockExcludes == Schedule => (LockSpec => []MutualExclusion)
<1> SUFFICES ASSUME Schedule PROVE LockSpec => []MutualExclusion
  OBVIOUS
<1>1. LockInit => LockInv
  BY LockInvInit
<1>2. LockInv /\ [LockNext]_lockVars => LockInv'
  BY LockInvStep
<1>3. LockInv => MutualExclusion
  BY DEF LockInv
<1> QED
  BY <1>1, <1>2, <1>3, PTL DEF LockSpec
=============================================================================
