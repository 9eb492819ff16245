------------------------------ MODULE Invoices ------------------------------
(***************************************************************************)
(* Invoices and the task that polls their payments and pays the merchants   *)
(* (Invoice.process_pending, under a lock file).  A run loads the unpaid    *)
(* invoices once and works through the copies, newest first; to pay one it  *)
(* commits the credit, calls the merchant back, sends a mail and only then  *)
(* saves the state.  An exception anywhere ends the whole run.              *)
(***************************************************************************)
EXTENDS Lockfile, FiniteSets

CONSTANTS
  Invoices,    \* ids, a set of the form 1..n
  Unreachable, \* invoices whose merchant's mail server refuses the mail
  MaxFailures, \* bound: exceptions and killed runs, apart from those mails
  Cap          \* bound: effects are counted up to Cap

ASSUME InvoicesAssumption ==
  /\ Invoices \subseteq Nat
  /\ Unreachable \subseteq Invoices
  /\ MaxFailures \in Nat
  /\ Cap \in Nat \ {0}

VARIABLES
  state,     \* column state of each invoice, or that it has no row
  age,       \* days since its creation, up to 2
  payment,   \* what the bitcoin client has received for it
  credits,   \* committed credits to the merchant
  calls,     \* callbacks received by the merchant
  mails,     \* mails received by the merchant
  run,       \* what each run holds in memory, while in its block
  failures

shopVars == <<state, age, payment>>
effects == <<credits, calls, mails>>
vars == <<lockVars, shopVars, effects, run, failures>>

States == {"pending", "processing", "paid"}
Unpaid == {"pending", "processing"}
Steps == {"load", "poll", "poll0", "credit", "call", "mail", "save"}

Copies == [id : Invoices, state : Unpaid]
NoCopy == [id |-> 0, state |-> "none"]

\* copy: the one being processed; todo: those that come after it.
Memories == [step : Steps, copy : Copies \cup {NoCopy}, todo : SUBSET Copies]
Fresh == [step |-> "load", copy |-> NoCopy, todo |-> {}]

Init ==
  /\ LockInit
  /\ state = [i \in Invoices |-> "unborn"]
  /\ age = [i \in Invoices |-> 0]
  /\ payment = [i \in Invoices |-> "none"]
  /\ credits = [i \in Invoices |-> 0]
  /\ calls = [i \in Invoices |-> 0]
  /\ mails = [i \in Invoices |-> 0]
  /\ run = [r \in Runs |-> Fresh]
  /\ failures = 0

Exists(i) == state[i] \in States
Counted(f, i) == [f EXCEPT ![i] = IF @ < Cap THEN @ + 1 ELSE @]

-----------------------------------------------------------------------------
(* The merchant, the customer, the bitcoin network and time.                *)

(* A valid invoice is saved as pending, with an address of its own that was   *)
(* generated for it and to which nothing has been paid.                     *)
Insert(i) == state' = [state EXCEPT ![i] = "pending"]

(* InvoicesController#create; ids are given in order of creation.            *)
Create(i) ==
  /\ state[i] = "unborn"
  /\ \A j \in Invoices : j < i => state[j] # "unborn"
  /\ Insert(i)
  /\ UNCHANGED <<lockVars, age, payment, effects, run, failures>>

(* InvoicesController#destroy, whatever the state.                          *)
Destroy(i) ==
  /\ Exists(i)
  /\ state' = [state EXCEPT ![i] = "gone"]
  /\ UNCHANGED <<lockVars, age, payment, effects, run, failures>>

(* The task that prunes: one statement, without a lock.                     *)
Prune ==
  /\ \E i \in Invoices : state[i] = "pending" /\ age[i] >= 2
  /\ state' = [i \in Invoices |->
       IF state[i] = "pending" /\ age[i] >= 2 THEN "gone" ELSE state[i]]
  /\ UNCHANGED <<lockVars, age, payment, effects, run, failures>>

(* A payment of the whole amount reaches the address, and is confirmed, or   *)
(* is replaced by another before it is.                                     *)
Arrive(i) ==
  /\ state[i] # "unborn"
  /\ payment[i] = "none"
  /\ payment' = [payment EXCEPT ![i] = "seen"]
  /\ UNCHANGED <<lockVars, state, age, effects, run, failures>>

ConfirmPayment(i) ==
  /\ payment[i] = "seen"
  /\ payment' = [payment EXCEPT ![i] = "confirmed"]
  /\ UNCHANGED <<lockVars, state, age, effects, run, failures>>

Vanish(i) ==
  /\ payment[i] = "seen"
  /\ payment' = [payment EXCEPT ![i] = "none"]
  /\ UNCHANGED <<lockVars, state, age, effects, run, failures>>

DayPasses ==
  /\ Prompt => \A r \in Runs : ~Holds(r)
  /\ \E i \in Invoices : Exists(i) /\ age[i] < 2
  /\ age' = [i \in Invoices |->
       IF Exists(i) /\ age[i] < 2 THEN age[i] + 1 ELSE age[i]]
  /\ file' = IF file = "absent" THEN "absent" ELSE "old"
  /\ UNCHANGED <<at, kills, state, payment, effects, run, failures>>

-----------------------------------------------------------------------------
(* One run of the task.                                                     *)

Running(r, step) == at[r] = "block" /\ run[r].step = step
Inside == UNCHANGED <<lockVars, failures>>

(* where("state <> ?", "paid"): all rows are loaded before the first is      *)
(* processed.                                                               *)
Load(r) ==
  /\ Running(r, "load")
  /\ run' = [run EXCEPT ![r] =
       [step |-> "poll",
        copy |-> NoCopy,
        todo |-> {[id |-> i, state |-> state[i]] :
                    i \in {j \in Invoices : state[j] \in Unpaid}}]]
  /\ UNCHANGED <<shopVars, effects>>
  /\ Inside

Copy(r) == run[r].copy
Continue(r, step) == run' = [run EXCEPT ![r].step = step]
Done(r) == run' = [run EXCEPT ![r] =
             [step |-> "poll", copy |-> NoCopy, todo |-> run[r].todo]]

(* The default scope is created_at DESC: the newest comes first.             *)
Take(r, c, step) ==
  /\ \A d \in run[r].todo : d.id <= c.id
  /\ run' = [run EXCEPT ![r] =
       [step |-> step,
        copy |-> IF step = "poll" THEN NoCopy ELSE c,
        todo |-> run[r].todo \ {c}]]

(* Mutants: payments without confirmations are enough; a confirmed one marks *)
(* the invoice and credits nobody.                                          *)
PollSavesOnly(r) ==
  /\ Running(r, "poll")
  /\ \E c \in run[r].todo :
       Take(r, c, IF payment[c.id] = "confirmed" THEN "save" ELSE "poll")
  /\ UNCHANGED <<shopVars, effects>>
  /\ Inside

PollUnconfirmed(r) ==
  /\ Running(r, "poll")
  /\ \E c \in run[r].todo :
       Take(r, c, IF payment[c.id] # "none" THEN "credit" ELSE "poll")
  /\ UNCHANGED <<shopVars, effects>>
  /\ Inside

(* check_payment: the copies loaded are not paid.                           *)
Poll(r) ==
  /\ Running(r, "poll")
  /\ \E c \in run[r].todo :
       Take(r, c, CASE payment[c.id] = "confirmed" -> "credit"
                    [] payment[c.id] # "confirmed" /\ c.state = "pending"
                         -> "poll0"
                    [] OTHER -> "poll")
  /\ UNCHANGED <<shopVars, effects>>
  /\ Inside

(* Mutant: a row that is gone is written again.                             *)
PollUnseenInserting(r) ==
  /\ Running(r, "poll0")
  /\ LET i == Copy(r).id
     IN state' = IF payment[i] # "none"
                 THEN [state EXCEPT ![i] = "processing"] ELSE state
  /\ Done(r)
  /\ UNCHANGED <<age, payment, effects>>
  /\ Inside

(* payment_seen!: saves the state of the copy, over that of the row.         *)
PollUnseen(r) ==
  /\ Running(r, "poll0")
  /\ LET i == Copy(r).id
     IN state' = IF payment[i] # "none" /\ Exists(i)
                 THEN [state EXCEPT ![i] = "processing"] ELSE state
  /\ Done(r)
  /\ UNCHANGED <<age, payment, effects>>
  /\ Inside

(* Mutant: the credit is left to the end.                                   *)
CreditLater(r) ==
  /\ Running(r, "credit")
  /\ Continue(r, "call")
  /\ UNCHANGED <<shopVars, effects>>
  /\ Inside

(* credit_funds commits a transaction of its own.                           *)
CreditFunds(r) ==
  /\ Running(r, "credit")
  /\ credits' = Counted(credits, Copy(r).id)
  /\ Continue(r, "call")
  /\ UNCHANGED <<shopVars, calls, mails>>
  /\ Inside

(* Most errors of the callback are swallowed by rescue nil.                 *)
PostToCallback(r) ==
  /\ Running(r, "call")
  /\ \/ calls' = Counted(calls, Copy(r).id)
     \/ UNCHANGED calls
  /\ Continue(r, "mail")
  /\ UNCHANGED <<shopVars, credits, mails>>
  /\ Inside

EmailConfirmation(r) ==
  /\ Running(r, "mail")
  /\ Copy(r).id \notin Unreachable
  /\ mails' = Counted(mails, Copy(r).id)
  /\ Continue(r, "save")
  /\ UNCHANGED <<shopVars, credits, calls>>
  /\ Inside

(* Mutant: the state is set and not saved.                                  *)
SaveNothing(r) ==
  /\ Running(r, "save")
  /\ Done(r)
  /\ UNCHANGED <<shopVars, effects>>
  /\ Inside

(* The update of a row that is gone changes nothing.                        *)
SavePaid(r) ==
  /\ Running(r, "save")
  /\ LET i == Copy(r).id
     IN state' = IF Exists(i) THEN [state EXCEPT ![i] = "paid"] ELSE state
  /\ Done(r)
  /\ UNCHANGED <<age, payment, effects>>
  /\ Inside

(* The block ends when every copy is processed,                             *)
Finish(r) ==
  /\ Running(r, "poll")
  /\ run[r].todo = {}
  /\ LeaveBlock(r)
  /\ run' = [run EXCEPT ![r] = Fresh]
  /\ UNCHANGED <<shopVars, effects, failures>>

(* or with an exception: of the bitcoin client, of a validation, of a        *)
(* market order executed by the credit, of the callback (a timeout is not   *)
(* rescued), of the mail.                                                   *)
Fail(r) ==
  /\ failures + kills < MaxFailures
  /\ LeaveBlock(r)
  /\ run' = [run EXCEPT ![r] = Fresh]
  /\ failures' = failures + 1
  /\ UNCHANGED <<shopVars, effects>>

(* The mail is refused every time.                                          *)
MailRefused(r) ==
  /\ Running(r, "mail")
  /\ Copy(r).id \in Unreachable
  /\ LeaveBlock(r)
  /\ run' = [run EXCEPT ![r] = Fresh]
  /\ UNCHANGED <<shopVars, effects, failures>>

Process(r) ==
  \/ Load(r) \/ Poll(r) \/ PollUnseen(r) \/ CreditFunds(r)
  \/ PostToCallback(r) \/ EmailConfirmation(r) \/ SavePaid(r)
  \/ Finish(r) \/ MailRefused(r)

(* Between its system calls the lock knows nothing of invoices.              *)
Apart == UNCHANGED <<shopVars, effects, run, failures>>

Locking ==
  /\ \/ \E r \in Runs : Start(r) \/ Lock(r) \/ Unlock(r)
     \/ HourPasses
  /\ Apart

KillRun(r) ==
  /\ failures + kills < MaxFailures
  /\ Kill(r)
  /\ run' = [run EXCEPT ![r] = Fresh]
  /\ UNCHANGED <<shopVars, effects, failures>>

Next ==
  \/ \E i \in Invoices : \/ Create(i) \/ Destroy(i)
                         \/ Arrive(i) \/ ConfirmPayment(i) \/ Vanish(i)
  \/ Prune
  \/ DayPasses
  \/ \E r \in Runs : Process(r) \/ Fail(r) \/ KillRun(r)
  \/ Locking

Spec == Init /\ [][Next]_vars

(* Cron starts the task for ever, a run goes on, time does not stop.         *)
FairSpec ==
  /\ Spec
  /\ \A r \in Runs :
       WF_vars(Process(r) \/ ((Lock(r) \/ Unlock(r)) /\ Apart))
  /\ WF_vars((\E r \in Runs : Start(r)) /\ Apart)
  /\ WF_vars(HourPasses /\ Apart)
=============================================================================
