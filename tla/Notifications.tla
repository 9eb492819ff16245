--------------------------- MODULE Notifications ---------------------------
(***************************************************************************)
(* The task that mails users about their trades (notifications:trades,      *)
(* under a lock file).  Of every user it loads the id of the last trade he   *)
(* was told of, queries the purchases after it, then the sales after it,     *)
(* mails both, and notes the highest id among them, whatever was committed   *)
(* meanwhile.  A mail that cannot be sent ends the whole run.               *)
(***************************************************************************)
EXTENDS Lockfile, TradeRecording, FiniteSetsExt

CONSTANTS
  Unreachable,  \* users whose mail server refuses the mail
  MaxFailures,  \* bound: exceptions and killed runs, apart from those mails
  Cap           \* bound: mails are counted up to Cap

ASSUME NotificationsAssumption ==
  /\ Users \subseteq Nat
  /\ Unreachable \subseteq Users
  /\ MaxFailures \in Nat
  /\ Cap \in Nat \ {0}

VARIABLES
  last,     \* column last_notified_trade_id of each user
  mails,    \* how many mails told each user of each trade
  run,      \* what each run holds in memory, while in its block
  failures

vars == <<lockVars, recording, last, mails, run, failures>>

(* A user as loaded.                                                        *)
Copies == [id : Users, last : Ids \cup {0}]
NoCopy == [id |-> 0, last |-> 0]

\* copy: the user it is about; todo: those that come after.
Memories == [step : {"load", "purchases", "sales", "mail", "update"},
             copy : Copies \cup {NoCopy}, todo : SUBSET Copies,
             purchases : SUBSET Ids, sales : SUBSET Ids]
Fresh == [step |-> "load", copy |-> NoCopy, todo |-> {}, purchases |-> {},
          sales |-> {}]

Init ==
  /\ LockInit
  /\ RecordingInit
  /\ last = [u \in Users |-> 0]
  /\ mails = [u \in Users |-> [i \in Ids |-> 0]]
  /\ run = [r \in Runs |-> Fresh]
  /\ failures = 0

PurchaseOf(i, u) == Committed(i) /\ rows[i].buyer = u
SaleOf(i, u) == Committed(i) /\ rows[i].seller = u

-----------------------------------------------------------------------------
(* One run of the task.                                                     *)

Running(r, step) == at[r] = "block" /\ run[r].step = step
Inside == UNCHANGED <<lockVars, recording, failures>>

(* Every user asks for notifications: the column is true by default and not  *)
(* accessible to the form that shows it.                                    *)
Load(r) ==
  /\ Running(r, "load")
  /\ run' = [run EXCEPT ![r].step = "purchases",
       ![r].todo = {[id |-> u, last |-> last[u]] : u \in Users}]
  /\ UNCHANGED <<last, mails>>
  /\ Inside

(* The next user, in the order of the primary key.                          *)
QueryPurchases(r) ==
  /\ Running(r, "purchases")
  /\ \E c \in run[r].todo :
       /\ \A d \in run[r].todo : c.id <= d.id
       /\ run' = [run EXCEPT ![r] =
            [step |-> "sales", copy |-> c, todo |-> @.todo \ {c}, sales |-> {},
             purchases |-> {i \in Ids : PurchaseOf(i, c.id) /\ i > c.last}]]
  /\ UNCHANGED <<last, mails>>
  /\ Inside

User(r) == run[r].copy.id
News(r) == run[r].purchases \cup run[r].sales

QuerySales(r) ==
  /\ Running(r, "sales")
  /\ LET sales == {i \in Ids : SaleOf(i, User(r)) /\ i > run[r].copy.last}
     IN run' = [run EXCEPT ![r].sales = sales,
          ![r].step = IF run[r].purchases \cup sales = {} THEN "purchases" ELSE "mail"]
  /\ UNCHANGED <<last, mails>>
  /\ Inside

(* trade_notification, delivered.                                           *)
Delivered(r) ==
  /\ Running(r, "mail")
  /\ User(r) \notin Unreachable
  /\ mails' = [mails EXCEPT ![User(r)] = [i \in Ids |->
       IF i \in News(r) /\ @[i] < Cap THEN @[i] + 1 ELSE @[i]]]

Mail(r) ==
  /\ Delivered(r)
  /\ run' = [run EXCEPT ![r].step = "update"]
  /\ UNCHANGED last
  /\ Inside

(* Mutant: the lowest id is noted.                                          *)
NoteFirst(r) ==
  /\ Running(r, "update")
  /\ last' = [last EXCEPT ![User(r)] = Min(News(r))]
  /\ run' = [run EXCEPT ![r] = [Fresh EXCEPT !.step = "purchases",
                                             !.todo = run[r].todo]]
  /\ UNCHANGED mails
  /\ Inside

NoteLast(r) ==
  /\ Running(r, "update")
  /\ last' = [last EXCEPT ![User(r)] = Max(News(r))]
  /\ run' = [run EXCEPT ![r] = [Fresh EXCEPT !.step = "purchases",
                                             !.todo = run[r].todo]]
  /\ UNCHANGED mails
  /\ Inside

Apart == UNCHANGED <<recording, last, mails>>

Finish(r) ==
  /\ Running(r, "purchases")
  /\ run[r].todo = {}
  /\ LeaveBlock(r)
  /\ run' = [run EXCEPT ![r] = Fresh]
  /\ UNCHANGED failures
  /\ Apart

(* The mail is refused every time.                                          *)
MailRefused(r) ==
  /\ Running(r, "mail")
  /\ User(r) \in Unreachable
  /\ LeaveBlock(r)
  /\ run' = [run EXCEPT ![r] = Fresh]
  /\ UNCHANGED failures
  /\ Apart

(* An exception; if it is a time-out, the mail may have been sent.           *)
Fail(r) ==
  /\ failures + kills < MaxFailures
  /\ Delivered(r) \/ UNCHANGED mails
  /\ LeaveBlock(r)
  /\ run' = [run EXCEPT ![r] = Fresh]
  /\ failures' = failures + 1
  /\ UNCHANGED <<recording, last>>

KillRun(r) ==
  /\ failures + kills < MaxFailures
  /\ Kill(r)
  /\ run' = [run EXCEPT ![r] = Fresh]
  /\ UNCHANGED failures
  /\ Apart

Notify(r) ==
  \/ Load(r) \/ QueryPurchases(r) \/ QuerySales(r) \/ Mail(r) \/ NoteLast(r)
  \/ Finish(r) \/ MailRefused(r)

-----------------------------------------------------------------------------
Trading == RecordingNext /\ UNCHANGED <<lockVars, last, mails, run, failures>>

Idling == UNCHANGED <<run, failures>> /\ Apart

Locking ==
  /\ \/ \E r \in Runs : Start(r) \/ Lock(r) \/ Unlock(r)
     \/ HourPasses
  /\ Idling

Next ==
  \/ Trading
  \/ Locking
  \/ \E r \in Runs : Notify(r) \/ Fail(r) \/ KillRun(r)

Spec == Init /\ [][Next]_vars

(* A transaction that has begun goes on, cron starts the task for ever, a    *)
(* run goes on, time does not stop.                                         *)
FairSpec ==
  /\ Spec
  /\ \A w \in Workers :
       WF_vars(Recording(w) /\ UNCHANGED <<lockVars, last, mails, run, failures>>)
  /\ \A r \in Runs : WF_vars(Notify(r) \/ ((Lock(r) \/ Unlock(r)) /\ Idling))
  /\ WF_vars((\E r \in Runs : Start(r)) /\ Idling)
  /\ WF_vars(HourPasses /\ Idling)
=============================================================================
