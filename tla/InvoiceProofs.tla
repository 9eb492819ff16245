---------------------------- MODULE InvoiceProofs ----------------------------
(***************************************************************************)
(* For any invoices, any number of runs and any failures: only confirmed    *)
(* payments are credited, and what is marked paid was credited.  When the   *)
(* lock does its work, a run's copies are never stale enough to undo a      *)
(* state, to credit an invoice again, or to tell a merchant what he was not *)
(* credited; only interrupted runs repeat a credit.                         *)
(***************************************************************************)
EXTENDS InvoiceProperties, LockfileProofs

(* A run past the poll holds a copy of an invoice.                          *)
HoldsCopy ==
  \A r \in Runs : run[r].step \notin {"load", "poll"} => run[r].copy \in Copies

(* A run is about to credit a confirmed payment, and has credited it when it *)
(* goes on to tell the merchant.                                            *)
CreditDue ==
  \A r \in Runs :
    run[r].step = "credit" => payment[run[r].copy.id] = "confirmed"
CreditDone ==
  \A r \in Runs :
    run[r].step \in {"call", "mail", "save"} => credits[run[r].copy.id] > 0

PayInv ==
  /\ InvoicesTypeOK
  /\ HoldsCopy
  /\ CreditDue
  /\ CreditDone
  /\ PaidWasCredited
  /\ CreditsBacked

LEMMA PayInvInit == Init => PayInv
BY InvoicesAssumption, LockfileAssumption
DEF Init, LockInit, PayInv, InvoicesTypeOK, LockTypeOK, HoldsCopy, CreditDue,
    CreditDone, PaidWasCredited, CreditsBacked, States, Memories, Fresh, Places,
    Taking, Copies, NoCopy, Steps

(* What happens outside the runs leaves their memories alone.               *)
LEMMA PayInvOutside ==
  ASSUME PayInv,
         \/ \E i \in Invoices : \/ Create(i) \/ Destroy(i)
                                \/ Arrive(i) \/ ConfirmPayment(i) \/ Vanish(i)
         \/ Prune
         \/ DayPasses
         \/ Locking
  PROVE  PayInv'
<1> USE InvoicesAssumption, LockfileAssumption
    DEF PayInv, InvoicesTypeOK, LockTypeOK, HoldsCopy, CreditDue, CreditDone,
        PaidWasCredited, CreditsBacked, States, lockVars, shopVars, effects,
        Copies
<1>1. ASSUME NEW i \in Invoices, Create(i) PROVE PayInv'
  BY <1>1 DEF Create, Insert
<1>2. ASSUME NEW i \in Invoices, Destroy(i) PROVE PayInv'
  BY <1>2 DEF Destroy
<1>3. ASSUME NEW i \in Invoices, Arrive(i) PROVE PayInv'
  BY <1>3 DEF Arrive
<1>4. ASSUME NEW i \in Invoices, ConfirmPayment(i) PROVE PayInv'
  BY <1>4 DEF ConfirmPayment
<1>5. ASSUME NEW i \in Invoices, Vanish(i) PROVE PayInv'
  BY <1>5 DEF Vanish
<1>6. CASE Prune
  BY <1>6 DEF Prune
<1>7. CASE DayPasses
  BY <1>7 DEF DayPasses
<1>8. CASE Locking
  <2>1. LockTypeOK'
    BY <1>8 DEF Locking, Apart, Lock, Start, Look, ReadCtime, RemoveOld, Check,
                CreateFile, Unlock, HourPasses, Goto, Places, Taking
  <2> QED
    BY <1>8, <2>1 DEF Locking, Apart
<1> QED
  BY <1>1, <1>2, <1>3, <1>4, <1>5, <1>6, <1>7, <1>8

(* A run goes on, fails or is killed.                                       *)
LEMMA PayInvRun ==
  ASSUME PayInv, NEW r \in Runs, Process(r) \/ Fail(r) \/ KillRun(r)
  PROVE  PayInv'
<1> USE InvoicesAssumption, LockfileAssumption
    DEF PayInv, InvoicesTypeOK, HoldsCopy, CreditDue, CreditDone,
        PaidWasCredited, CreditsBacked, States, Unpaid, Copies, Memories, Steps,
        lockVars, shopVars, effects, Inside, Running
<1>1. LockTypeOK'
  <2>1. CASE UNCHANGED lockVars
    BY <2>1 DEF LockTypeOK
  <2>2. CASE LeaveBlock(r) \/ Kill(r)
    BY <2>2 DEF LockTypeOK, LeaveBlock, Kill, Goto, Places
  <2> QED
    BY <2>1, <2>2
    DEF Process, Load, Poll, PollUnseen, CreditFunds, PostToCallback,
        EmailConfirmation, SavePaid, Finish, MailRefused, Fail, KillRun
<1>2. CASE Load(r)
  BY <1>1, <1>2 DEF Load
<1>3. CASE Poll(r)
  BY <1>1, <1>3 DEF Poll, Take
<1>4. CASE PollUnseen(r)
  BY <1>1, <1>4 DEF PollUnseen, Done, Copy, Exists
<1>5. CASE CreditFunds(r)
  BY <1>1, <1>5 DEF CreditFunds, Continue, Counted, Copy
<1>6. CASE PostToCallback(r)
  BY <1>1, <1>6 DEF PostToCallback, Continue, Counted, Copy
<1>7. CASE EmailConfirmation(r)
  BY <1>1, <1>7 DEF EmailConfirmation, Continue, Counted, Copy
<1>8. CASE SavePaid(r)
  BY <1>1, <1>8 DEF SavePaid, Done, Copy, Exists
<1>9. CASE Finish(r) \/ MailRefused(r) \/ KillRun(r) \/ Fail(r)
  <2>1. failures' \in 0..MaxFailures
    BY <1>9 DEF Finish, MailRefused, KillRun, Fail, LockTypeOK
  <2>2. run' = [run EXCEPT ![r] = Fresh] /\ UNCHANGED <<shopVars, effects>>
    BY <1>9 DEF Finish, MailRefused, KillRun, Fail
  <2> QED
    BY <1>1, <2>1, <2>2 DEF Fresh
<1> QED
  BY <1>2, <1>3, <1>4, <1>5, <1>6, <1>7, <1>8, <1>9 DEF Process

LEMMA PayInvariant == Spec => []PayInv
<1>1. Init => PayInv
  BY PayInvInit
<1>2. PayInv /\ [Next]_vars => PayInv'
  <2> SUFFICES ASSUME PayInv, [Next]_vars PROVE PayInv'
    OBVIOUS
  <2>1. CASE Next
    BY <2>1, PayInvOutside, PayInvRun DEF Next
  <2>2. CASE UNCHANGED vars
    BY <2>2 DEF PayInv, InvoicesTypeOK, LockTypeOK, HoldsCopy, CreditDue,
                CreditDone, PaidWasCredited, CreditsBacked, vars, lockVars,
                shopVars, effects
  <2> QED
    BY <2>1, <2>2
<1> QED
  BY <1>1, <1>2, PTL DEF Spec

(* Every invoice that is marked paid was credited, whatever fails.           *)
THEOREM PaidIsCredited == Spec => []PaidWasCredited
<1>1. PayInv => PaidWasCredited
  BY DEF PayInv
<1> QED
  BY <1>1, PayInvariant, PTL

(* Tables, copies and lock keep their types, whatever fails.                 *)
THEOREM InvoicesTypeCorrect == Spec => []InvoicesTypeOK
<1>1. PayInv => InvoicesTypeOK
  BY DEF PayInv
<1> QED
  BY <1>1, PayInvariant, PTL

(* Only confirmed payments are credited, whatever fails.                     *)
THEOREM CreditsAreBacked == Spec => []CreditsBacked
<1>1. PayInv => CreditsBacked
  BY DEF PayInv
<1> QED
  BY <1>1, PayInvariant, PTL

-----------------------------------------------------------------------------
(* The lock as the runs use it is the lock of Lockfile.                      *)

LEMMA LockInitially == Init => LockInit
BY DEF Init

LEMMA LockSteps == InvoicesTypeOK /\ [Next]_vars => [LockNext]_lockVars
<1> SUFFICES ASSUME LockTypeOK, [Next]_vars PROVE [LockNext]_lockVars
  BY DEF InvoicesTypeOK
<1>1. CASE UNCHANGED lockVars
  BY <1>1
<1>2. ASSUME NEW r \in Runs, LeaveBlock(r) \/ Kill(r) PROVE LockNext
  BY <1>2 DEF LockNext
<1>3. CASE Locking
  BY <1>3 DEF Locking, LockNext
<1>4. CASE DayPasses
  BY <1>4 DEF DayPasses, LockTypeOK, LockNext, HourPasses, lockVars
<1>5. CASE UNCHANGED vars
  BY <1>5 DEF vars, lockVars
<1> QED
  BY <1>1, <1>2, <1>3, <1>4, <1>5
  DEF Next, Create, Insert, Destroy, Arrive, ConfirmPayment, Vanish, Prune, Process,
      Load, Poll, PollUnseen, CreditFunds, PostToCallback, EmailConfirmation,
      SavePaid, Finish, MailRefused, Fail, KillRun, Inside

(* The invoices' runs implement the lock: none of their steps touches the    *)
(* file or the place of a run but as Lockfile.lock does.                    *)
THEOREM InvoicesUseTheLock == Spec => LockSpec
<1>1. PayInv => InvoicesTypeOK
  BY DEF PayInv
<1> QED
  BY <1>1, LockInitially, LockSteps, PayInvariant, PTL DEF Spec, LockSpec

(* A run that is not in its block remembers nothing.                        *)
OutsideFresh == \A r \in Runs : at[r] # "block" => run[r] = Fresh

(* The rows of a run's copies are not paid, since no other run marks them.   *)
CopiesUnpaid ==
  \A r \in Runs :
    /\ \A c \in run[r].todo : state[c.id] # "paid"
    /\ run[r].step \notin {"load", "poll"} => state[run[r].copy.id] # "paid"

(* A run holds one copy of an invoice at most.                              *)
CopiesDistinct ==
  \A r \in Runs :
    /\ \A c, d \in run[r].todo : c.id = d.id => c = d
    /\ run[r].step \notin {"load", "poll"} =>
         \A c \in run[r].todo : c.id # run[r].copy.id

StateInv ==
  /\ PayInv
  /\ LockInv
  /\ OutsideFresh
  /\ CopiesUnpaid
  /\ CopiesDistinct

LEMMA StateInvInit == Init => StateInv
BY PayInvInit, LockInitially, LockInvInit
DEF Init, StateInv, OutsideFresh, CopiesUnpaid, CopiesDistinct, Fresh

LEMMA StateInvOutside ==
  ASSUME StateInv,
         \/ \E i \in Invoices : \/ Create(i) \/ Destroy(i)
                                \/ Arrive(i) \/ ConfirmPayment(i) \/ Vanish(i)
         \/ Prune
         \/ DayPasses
         \/ Locking
  PROVE  (OutsideFresh /\ CopiesUnpaid /\ CopiesDistinct)'
<1> USE DEF StateInv, PayInv, InvoicesTypeOK, LockTypeOK, HoldsCopy,
            OutsideFresh, CopiesUnpaid, CopiesDistinct, Copies, Memories,
            lockVars, shopVars, effects
<1>1. ASSUME NEW i \in Invoices, Create(i) PROVE CopiesUnpaid'
  BY <1>1 DEF Create, Insert
<1>2. ASSUME NEW i \in Invoices, Destroy(i) PROVE CopiesUnpaid'
  BY <1>2 DEF Destroy
<1>3. CASE Prune
  <2>1. CopiesUnpaid'
    BY <1>3 DEF Prune
  <2> QED
    BY <1>3, <2>1 DEF Prune
<1>4. CASE Locking
  BY <1>4 DEF Locking, Apart, Lock, Start, Look, ReadCtime, RemoveOld, Check,
              CreateFile, Unlock, HourPasses, Goto, Fresh
<1> QED
  BY <1>1, <1>2, <1>3, <1>4
  DEF Create, Insert, Destroy, Arrive, ConfirmPayment, Vanish, DayPasses

LEMMA StateInvRun ==
  ASSUME StateInv, NEW r \in Runs, Process(r) \/ Fail(r) \/ KillRun(r)
  PROVE  (OutsideFresh /\ CopiesUnpaid /\ CopiesDistinct)'
<1> USE DEF StateInv, PayInv, InvoicesTypeOK, LockTypeOK, HoldsCopy,
            OutsideFresh, CopiesUnpaid, CopiesDistinct, Copies, Memories,
            Unpaid, Steps, lockVars, shopVars, effects, Inside, Running
<1>1. \A s \in Runs : at[r] = "block" /\ s # r => run[s] = Fresh
  BY DEF LockInv, MutualExclusion, Holds
<1>2. CASE Load(r)
  BY <1>2 DEF Load
<1>3. CASE Poll(r)
  <2>1. PICK c \in run[r].todo : \E step \in Steps : Take(r, c, step)
    BY <1>3 DEF Poll
  <2>2. (OutsideFresh /\ CopiesDistinct)'
    BY <1>3, <2>1 DEF Poll, Take
  <2>3. CopiesUnpaid'
    BY <1>3, <2>1 DEF Poll, Take
  <2> QED
    BY <2>2, <2>3
<1>4. CASE PollUnseen(r)
  BY <1>4 DEF PollUnseen, Done, Copy, Exists
<1>5. CASE CreditFunds(r) \/ PostToCallback(r) \/ EmailConfirmation(r)
  <2>1. PICK step \in {"call", "mail", "save"} :
          /\ at[r] = "block"
          /\ run[r].step \notin {"load", "poll"}
          /\ run' = [run EXCEPT ![r].step = step]
          /\ UNCHANGED <<at, state>>
    BY <1>5 DEF CreditFunds, PostToCallback, EmailConfirmation, Continue
  <2>2. OutsideFresh'
    BY <2>1
  <2>3. CopiesUnpaid'
    BY <2>1
  <2>4. CopiesDistinct'
    BY <2>1
  <2> QED
    BY <2>2, <2>3, <2>4
<1>6. CASE SavePaid(r)
  <2>1. OutsideFresh'
    BY <1>6 DEF SavePaid, Done
  <2>2. CopiesDistinct'
    BY <1>6 DEF SavePaid, Done
  <2>3. \A s \in Runs : \A c \in run'[s].todo : s = r /\ c.id # run[r].copy.id
    BY <1>1, <1>6 DEF SavePaid, Done, Fresh
  <2>4. \A s \in Runs : run'[s].step \in {"load", "poll"}
    BY <1>1, <1>6 DEF SavePaid, Done, Fresh
  <2>5. CopiesUnpaid'
    BY <1>6, <2>3, <2>4 DEF SavePaid, Done, Copy, Exists
  <2> QED
    BY <2>1, <2>2, <2>5
<1>7. CASE Finish(r) \/ MailRefused(r) \/ KillRun(r) \/ Fail(r)
  <2>1. run' = [run EXCEPT ![r] = Fresh] /\ UNCHANGED state
    BY <1>7 DEF Finish, MailRefused, KillRun, Fail
  <2>2. \A s \in Runs : s # r => at'[s] = at[s]
    BY <1>7 DEF Finish, MailRefused, KillRun, Fail, LeaveBlock, Kill, Goto
  <2>3. OutsideFresh'
    BY <2>1, <2>2
  <2>4. (CopiesUnpaid /\ CopiesDistinct)'
    BY <2>1 DEF Fresh
  <2> QED
    BY <2>3, <2>4
<1> QED
  BY <1>2, <1>3, <1>4, <1>5, <1>6, <1>7 DEF Process

LEMMA StateInvariant == Schedule => (Spec => []StateInv)
<1> SUFFICES ASSUME Schedule PROVE Spec => []StateInv
  OBVIOUS
<1>1. Init => StateInv
  BY StateInvInit
<1>2. StateInv /\ PayInv' /\ [Next]_vars => StateInv'
  <2> SUFFICES ASSUME StateInv, PayInv', [Next]_vars PROVE StateInv'
    OBVIOUS
  <2>1. LockInv'
    BY LockSteps, LockInvStep DEF StateInv, PayInv
  <2>2. CASE Next
    BY <2>1, <2>2, StateInvOutside, StateInvRun DEF Next, StateInv
  <2>3. CASE UNCHANGED vars
    BY <2>1, <2>3 DEF StateInv, OutsideFresh, CopiesUnpaid, CopiesDistinct,
                      vars, lockVars, shopVars
  <2> QED
    BY <2>2, <2>3
<1> QED
  BY <1>1, <1>2, PayInvariant, PTL DEF Spec

(* The state of an invoice only goes forward, if the lock excludes the runs  *)
(* from each other.                                                         *)
THEOREM StatesGoForward == Schedule => (Spec => StateNeverRegresses)
<1> SUFFICES ASSUME Schedule PROVE Spec => StateNeverRegresses
  OBVIOUS
<1> DEFINE Forward ==
      \A i \in Invoices :
        /\ state[i] = "paid" => state'[i] \in {"paid", "gone"}
        /\ state[i] = "processing" => state'[i] # "pending"
        /\ state[i] = "gone" => state'[i] = "gone"
<1>1. StateInv /\ [Next]_vars => [Forward]_vars
  <2> SUFFICES ASSUME StateInv, Next PROVE Forward
    OBVIOUS
  <2> USE DEF StateInv, PayInv, InvoicesTypeOK, States
  <2>1. ASSUME NEW r \in Runs, PollUnseen(r) PROVE Forward
    BY <2>1 DEF PollUnseen, Copy, Exists, CopiesUnpaid, Running
  <2>2. ASSUME NEW r \in Runs, SavePaid(r) PROVE Forward
    BY <2>2 DEF SavePaid, Copy, Exists
  <2>3. ASSUME NEW i \in Invoices, Create(i) \/ Destroy(i) PROVE Forward
    BY <2>3 DEF Create, Insert, Destroy, Exists
  <2>4. CASE Prune
    BY <2>4 DEF Prune
  <2>5. CASE UNCHANGED state
    BY <2>5
  <2> QED
    BY <2>1, <2>2, <2>3, <2>4, <2>5
    DEF Next, Process, Arrive, ConfirmPayment, Vanish, DayPasses, Load, Poll,
        CreditFunds, PostToCallback, EmailConfirmation, Finish, MailRefused,
        Fail, KillRun, Locking, Apart, shopVars
<1> QED
  BY <1>1, StateInvariant, PTL DEF Spec, StateNeverRegresses

-----------------------------------------------------------------------------
(* What merchants are credited and told, when the lock excludes the runs     *)
(* from each other.                                                         *)

(* Run r has credited its copy of invoice i, and has not saved it yet.        *)
Telling(r, i) ==
  run[r].step \in {"call", "mail", "save"} /\ run[r].copy.id = i

(* What is told next leaves room: the credit came first.                     *)
RoomToTell ==
  \A r \in Runs :
    LET i == run[r].copy.id
    IN  /\ run[r].step = "call" => calls[i] < credits[i] \/ credits[i] = Cap
        /\ run[r].step \in {"call", "mail"} =>
             mails[i] < credits[i] \/ credits[i] = Cap

(* An invoice that a run may still credit: its row says so, or a copy does.  *)
Listed(r, i) ==
  \/ \E c \in run[r].todo : c.id = i
  \/ run[r].step \in {"poll0", "credit"} /\ run[r].copy.id = i
Owed(i) ==
  state[i] \in Unpaid \cup {"unborn"} \/ \E r \in Runs : Listed(r, i)

(* Copies are of rows that were once inserted.                              *)
CopiesBorn ==
  \A r \in Runs :
    /\ \A c \in run[r].todo : state[c.id] # "unborn"
    /\ run[r].step \notin {"load", "poll"} => state[run[r].copy.id] # "unborn"

(* While an invoice may still be credited, every credit it has had is        *)
(* accounted for by an interrupted run, or its run goes on.                 *)
CreditsExplained ==
  \A i \in Invoices \ Unreachable :
    /\ credits[i] <= 1 + failures + kills
    /\ Owed(i) /\ (\A r \in Runs : ~Telling(r, i)) =>
         credits[i] <= failures + kills

CreditInv ==
  /\ ToldAfterCredit
  /\ RoomToTell
  /\ CopiesBorn
  /\ CreditsExplained

LEMMA CreditInvInit == Init => CreditInv
BY InvoicesAssumption
DEF Init, LockInit, CreditInv, ToldAfterCredit, RoomToTell, CopiesBorn,
    CreditsExplained, Fresh

LEMMA CreditInvOutside ==
  ASSUME StateInv, CreditInv,
         \/ \E i \in Invoices : \/ Create(i) \/ Destroy(i)
                                \/ Arrive(i) \/ ConfirmPayment(i) \/ Vanish(i)
         \/ Prune
         \/ DayPasses
         \/ Locking
  PROVE  CreditInv'
<1> USE InvoicesAssumption
    DEF StateInv, PayInv, InvoicesTypeOK, Copies, Memories, lockVars, shopVars,
        effects
<1>1. UNCHANGED <<run, failures, kills, effects>>
  BY DEF Create, Destroy, Arrive, ConfirmPayment, Vanish, Prune, DayPasses,
         Locking, Apart, Lock, Start, Look, ReadCtime, RemoveOld, Check,
         CreateFile, Unlock, HourPasses
<1>2. (ToldAfterCredit /\ RoomToTell)'
  BY <1>1 DEF CreditInv, ToldAfterCredit, RoomToTell
<1>3. \A i \in Invoices : /\ state'[i] = "unborn" => state[i] = "unborn"
                          /\ state'[i] \in Unpaid =>
                               state[i] \in Unpaid \cup {"unborn"}
  BY DEF Create, Insert, Destroy, Arrive, ConfirmPayment, Vanish, Prune,
         DayPasses, Locking, Apart, Unpaid, Exists, States
<1>4. CopiesBorn'
  <2>1. \A s \in Runs : run[s].todo \subseteq Copies
    OBVIOUS
  <2>2. \A s \in Runs : \A c \in run'[s].todo : state'[c.id] # "unborn"
    <3>1. \A s \in Runs : \A c \in run[s].todo :
            c.id \in Invoices /\ state[c.id] # "unborn"
      BY <2>1 DEF CreditInv, CopiesBorn
    <3> HIDE DEF StateInv
    <3> QED
      BY <1>1, <1>3, <3>1
  <2>3. \A s \in Runs : run'[s].step \notin {"load", "poll"} =>
                         state'[run'[s].copy.id] # "unborn"
    BY <1>1, <1>3 DEF CreditInv, CopiesBorn, HoldsCopy
  <2> QED
    BY <2>2, <2>3 DEF CopiesBorn
<1>5. CreditsExplained'
  <2>1. \A i \in Invoices : Owed(i)' => Owed(i)
    BY <1>1, <1>3 DEF Owed, Listed
  <2>2. \A i \in Invoices, r \in Runs : Telling(r, i)' <=> Telling(r, i)
    BY <1>1 DEF Telling
  <2> QED
    BY <1>1, <2>1, <2>2 DEF CreditInv, CreditsExplained
<1> QED
  BY <1>2, <1>4, <1>5 DEF CreditInv

LEMMA CreditInvRun ==
  ASSUME StateInv, CreditInv, PayInv',
         NEW r \in Runs, Process(r) \/ Fail(r) \/ KillRun(r)
  PROVE  CreditInv'
<1> USE InvoicesAssumption, LockfileAssumption
    DEF Copies, lockVars, shopVars, effects, Inside, Running
<1> USE DEF StateInv, PayInv, InvoicesTypeOK, HoldsCopy, CreditInv,
            ToldAfterCredit, RoomToTell, CopiesBorn, CreditsExplained, Owed,
            Listed, Telling
<1>1. CASE Fail(r) \/ KillRun(r)
  <2>1. /\ run' = [run EXCEPT ![r] = Fresh]
        /\ UNCHANGED <<state, effects>>
        /\ failures' + kills' = failures + kills + 1
    <3>1. CASE Fail(r)
      BY <3>1 DEF Fail, LeaveBlock, LockTypeOK
    <3>2. CASE KillRun(r)
      BY <3>2 DEF KillRun, Kill, LockTypeOK
    <3> QED
      BY <1>1, <3>1, <3>2
  <2>2. \A s \in Runs : run'[s] = Fresh \/ run'[s] = run[s]
    BY <2>1
  <2>3. (ToldAfterCredit /\ RoomToTell /\ CopiesBorn)'
    BY <2>1, <2>2 DEF Fresh
  <2>4. CreditsExplained'
    <3>1. ASSUME NEW i \in Invoices \ Unreachable
          PROVE  credits'[i] <= failures' + kills'
      <4>1. credits[i] <= 1 + failures + kills /\ credits'[i] = credits[i]
        BY <2>1
      <4>2. credits[i] \in Nat /\ failures \in Nat /\ kills \in Nat
        BY DEF LockTypeOK
      <4> HIDE DEF StateInv, CreditInv, PayInv
      <4> QED
        BY <2>1, <4>1, <4>2
    <3>2. failures' \in Nat /\ kills' \in Nat /\ credits' \in [Invoices -> Nat]
      BY DEF LockTypeOK
    <3>3. ASSUME NEW i \in Invoices \ Unreachable
          PROVE  credits'[i] <= 1 + failures' + kills'
      BY <3>1, <3>2
    <3> QED
      BY <3>1, <3>3
  <2> QED
    BY <2>3, <2>4
<1>2. CASE Process(r)
  <2>1. /\ at[r] = "block"
        /\ \A s \in Runs : s # r => run[s] = Fresh
        /\ failures' = failures /\ kills' = kills
    BY <1>2 DEF LockInv, MutualExclusion, Holds, OutsideFresh, Process, Load,
                Poll, PollUnseen, CreditFunds, PostToCallback,
                EmailConfirmation, SavePaid, Finish, MailRefused, LeaveBlock, Goto
  <2>2. failures + kills \in Nat
    BY DEF LockTypeOK
  <2>3. CASE Load(r)
    <3>1. (ToldAfterCredit /\ RoomToTell)'
      BY <2>1, <2>3 DEF Load, Fresh
    <3>2. CopiesBorn'
      BY <2>1, <2>3 DEF Load, Fresh, Unpaid
    <3>3. \A i \in Invoices : Owed(i)' => Owed(i)
      BY <2>1, <2>3 DEF Load, Fresh, Unpaid
    <3>4. \A i \in Invoices, s \in Runs : ~Telling(s, i)
      <4>1. \A s \in Runs : run[s].step = "load"
        BY <2>1, <2>3 DEF Load, Fresh
      <4> QED
        BY <4>1
    <3> QED
      BY <2>1, <2>3, <3>1, <3>2, <3>3, <3>4 DEF Load
  <2>4. CASE Poll(r)
    <3>1. PICK c \in run[r].todo, step \in {"credit", "poll", "poll0"} :
            Take(r, c, step)
      BY <2>4 DEF Poll
    <3>2. /\ c.id \in Invoices /\ UNCHANGED <<state, effects>>
          /\ run'[r].step = step /\ run'[r].todo = run[r].todo \ {c}
          /\ step # "poll" => run'[r].copy = c
          /\ \A s \in Runs : s # r => run'[s] = run[s]
          /\ run[r].step = "poll"
      BY <2>4, <3>1 DEF Poll, Take, Memories
    <3>3. (ToldAfterCredit /\ RoomToTell)'
      BY <2>1, <3>2 DEF Fresh
    <3>4. CopiesBorn'
      BY <2>1, <3>2 DEF Fresh
    <3>5. \A i \in Invoices : Owed(i)' => Owed(i)
      BY <2>1, <3>2 DEF Fresh
    <3>6. \A i \in Invoices, s \in Runs : ~Telling(s, i)
      BY <2>1, <3>2 DEF Fresh
    <3> QED
      BY <2>1, <3>2, <3>3, <3>4, <3>5, <3>6
  <2>5. CASE PollUnseen(r)
    <3> DEFINE id == run[r].copy.id
    <3>1. /\ id \in Invoices /\ run[r].step = "poll0"
          /\ UNCHANGED effects
          /\ run' = [run EXCEPT ![r] =
               [step |-> "poll", copy |-> NoCopy, todo |-> run[r].todo]]
      BY <2>5 DEF PollUnseen, Done
    <3>2. run'[r].step = "poll" /\ run'[r].todo = run[r].todo
      BY <3>1
    <3>3. \A s \in Runs : s # r => run'[s].step = "load" /\ run'[s].todo = {}
      BY <2>1, <3>1 DEF Fresh
    <3>4. /\ \A i \in Invoices : state'[i] = "unborn" => state[i] = "unborn"
          /\ \A i \in Invoices : state'[i] # state[i] => i = id
      BY <2>5 DEF PollUnseen, Copy
    <3>5. (ToldAfterCredit /\ RoomToTell)'
      BY <3>1, <3>2, <3>3
    <3>6. CopiesBorn'
      <4>1. \A c \in run[r].todo : c.id \in Invoices /\ state[c.id] # "unborn"
        BY DEF Memories
      <4> HIDE DEF StateInv
      <4> QED
        BY <3>2, <3>3, <3>4, <4>1
    <3>7. \A i \in Invoices : Owed(i)' => Owed(i)
      BY <3>1, <3>2, <3>3, <3>4
    <3>8. \A i \in Invoices, s \in Runs : ~Telling(s, i)
      BY <2>1, <3>1 DEF Fresh
    <3> QED
      BY <2>1, <3>1, <3>5, <3>6, <3>7, <3>8
  <2>6. CASE CreditFunds(r)
    <3> DEFINE id == run[r].copy.id
    <3>1. /\ id \in Invoices
          /\ credits' = [credits EXCEPT ![id] = IF @ < Cap THEN @ + 1 ELSE @]
          /\ run' = [run EXCEPT ![r].step = "call"]
          /\ UNCHANGED <<state, calls, mails>>
      BY <2>1, <2>6 DEF CreditFunds, Continue, Counted, Copy
    <3>2. \A s \in Runs : s # r => run'[s].step = "load" /\ run'[s].todo = {}
      BY <2>1, <3>1 DEF Fresh
    <3>3. /\ run'[r].step = "call" /\ run'[r].copy.id = id
          /\ run'[r].todo = run[r].todo
      BY <3>1 DEF Memories
    <3>4. (ToldAfterCredit /\ RoomToTell)'
      BY <3>1, <3>2, <3>3
    <3>5. CopiesBorn'
      BY <2>6, <3>1, <3>2, <3>3 DEF CreditFunds
    <3>6. Owed(id) /\ \A s \in Runs : ~Telling(s, id)
      BY <2>1, <2>6 DEF CreditFunds, Fresh
    <3>7. ASSUME NEW i \in Invoices \ Unreachable
          PROVE  /\ credits'[i] <= 1 + failures' + kills'
                 /\ Owed(i)' /\ (\A s \in Runs : ~Telling(s, i)') =>
                      credits'[i] <= failures' + kills'
      <4>1. CASE i = id
        <5>1. credits[i] <= failures + kills /\ Telling(r, i)'
          BY <3>3, <3>6, <4>1
        <5>2. credits'[i] <= credits[i] + 1 /\ credits[i] \in Nat
          BY <3>1, <4>1
        <5>3. credits'[i] \in Nat /\ failures \in Nat /\ kills \in Nat
          BY DEF LockTypeOK
        <5> HIDE DEF StateInv, CreditInv, PayInv
        <5> QED
          BY <2>1, <3>3, <4>1, <5>1, <5>2, <5>3
      <4>2. CASE i # id
        <5>1. credits'[i] = credits[i] /\ (Owed(i)' => Owed(i))
          BY <3>1, <3>2, <3>3, <4>2
        <5>2. \A s \in Runs : ~Telling(s, i)
          BY <2>1, <4>2 DEF Fresh
        <5> QED
          BY <2>1, <5>1, <5>2
      <4> QED
        BY <4>1, <4>2
    <3> QED
      BY <3>4, <3>5, <3>7 DEF CreditInv
  <2>7. CASE PostToCallback(r)
    BY <2>1, <2>2, <2>7 DEF PostToCallback, Continue, Counted, Copy, Fresh
  <2>8. CASE EmailConfirmation(r)
    BY <2>1, <2>2, <2>8 DEF EmailConfirmation, Continue, Counted, Copy, Fresh
  <2>9. CASE SavePaid(r)
    BY <2>1, <2>2, <2>9 DEF SavePaid, Done, Copy, Exists, States, Unpaid, CopiesDistinct, Fresh
  <2>10. CASE Finish(r)
    BY <2>1, <2>2, <2>10 DEF Finish, Fresh
  <2>11. CASE MailRefused(r)
    <3>1. /\ run' = [run EXCEPT ![r] = Fresh]
          /\ UNCHANGED <<state, effects>>
          /\ run[r].copy.id \in Unreachable
          /\ run[r].step = "mail"
      BY <2>11 DEF MailRefused, Copy
    <3>2. \A s \in Runs : run'[s] = Fresh
      BY <2>1, <3>1
    <3>3. (ToldAfterCredit /\ RoomToTell /\ CopiesBorn)'
      BY <3>1, <3>2 DEF Fresh
    <3>4. \A i \in Invoices : Owed(i)' => Owed(i)
      BY <3>1, <3>2 DEF Fresh
    <3>5. \A i \in Invoices \ Unreachable, s \in Runs : ~Telling(s, i)
      BY <2>1, <3>1 DEF Fresh
    <3> QED
      BY <2>1, <3>1, <3>3, <3>4, <3>5
  <2> QED
    BY <1>2, <2>3, <2>4, <2>5, <2>6, <2>7, <2>8, <2>9, <2>10, <2>11 DEF Process
<1> QED
  BY <1>1, <1>2

LEMMA CreditInvariant == Schedule => (Spec => []CreditInv)
<1> SUFFICES ASSUME Schedule PROVE Spec => []CreditInv
  OBVIOUS
<1>1. Init => CreditInv
  BY CreditInvInit
<1>2. StateInv /\ PayInv' /\ CreditInv /\ [Next]_vars => CreditInv'
  <2> SUFFICES ASSUME StateInv, PayInv', CreditInv, [Next]_vars
               PROVE  CreditInv'
    OBVIOUS
  <2>1. CASE Next
    BY <2>1, CreditInvOutside, CreditInvRun DEF Next
  <2>2. CASE UNCHANGED vars
    BY <2>2 DEF CreditInv, ToldAfterCredit, RoomToTell, CopiesBorn,
                CreditsExplained, Owed, Listed, Telling, vars, lockVars,
                shopVars, effects
  <2> QED
    BY <2>1, <2>2
<1> QED
  BY <1>1, <1>2, PayInvariant, StateInvariant, PTL DEF Spec

(* However many runs fail and are killed, a merchant is credited at most     *)
(* once more for each of them.                                              *)
THEOREM CreditsAreExplained ==
  Schedule => (Spec => []CreditedOncePerFailure)
<1>1. CreditInv => CreditedOncePerFailure
  BY DEF CreditInv, CreditsExplained, CreditedOncePerFailure
<1> QED
  BY <1>1, CreditInvariant, PTL

(* No failure tells a merchant of money he was not credited.                 *)
THEOREM TellingFollowsCredit == Schedule => (Spec => []ToldAfterCredit)
<1>1. CreditInv => ToldAfterCredit
  BY DEF CreditInv
<1> QED
  BY <1>1, CreditInvariant, PTL
=============================================================================
