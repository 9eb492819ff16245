-------------------------- MODULE PaymentCallbacks --------------------------
(***************************************************************************)
(* Deposits through Pecunix and Liberty Reserve.  A request handles each    *)
(* callback of a provider: it looks the payment up, and credits it in a     *)
(* transaction of its own if it found nothing.  Liberty Reserve payments    *)
(* are also credited when their user comes back from the provider's site    *)
(* and by a task that reads the provider's history; only they have a unique *)
(* index.                                                                  *)
(***************************************************************************)
EXTENDS Naturals, FiniteSets

CONSTANTS
  Pecunix,            \* payments through Pecunix
  Liberty,            \* payments through Liberty Reserve, in their order
  PageSize,           \* how many payments the provider's history lists
  Unknown,            \* payments that name no user of the exchange
  Workers,            \* web processes
  Jobs,               \* processes of the task; nothing keeps them apart
  MaxCalls,           \* bound: callbacks and returning users in a behaviour
  MaxInterruptions,   \* bound: exceptions and killed processes in a behaviour
  Cap                 \* bound: credits of a payment are counted up to Cap

Payments == Pecunix \cup Liberty

ASSUME CallbacksAssumption ==
  /\ Payments \subseteq Nat
  /\ Pecunix \cap Liberty = {}
  /\ Unknown \subseteq Payments
  /\ PageSize \in Nat
  /\ MaxCalls \in Nat
  /\ MaxInterruptions \in Nat
  /\ Cap \in Nat \ {0, 1}

VARIABLES
  paid,      \* payments the providers have received
  credits,   \* how often each was credited
  request,   \* what each web process is doing
  task,      \* what each process of the task is doing
  calls, interruptions

bounds == <<calls, interruptions>>
callbackVars == <<paid, credits, request, task, bounds>>

Idle == [at |-> "idle", payment |-> 0]
Requests == {Idle} \cup [at : {"look", "insert"}, payment : Payments]
Tasks == [at : {"idle", "look", "insert"}, todo : SUBSET Liberty,
          payment : Liberty \cup {0}]
Asleep == [at |-> "idle", todo |-> {}, payment |-> 0]

CallbackInit ==
  /\ paid = {}
  /\ credits = [p \in Payments |-> 0]
  /\ request = [w \in Workers |-> Idle]
  /\ task = [j \in Jobs |-> Asleep]
  /\ calls = 0
  /\ interruptions = 0

(* A customer pays.                                                         *)
Pay(p) ==
  /\ p \notin paid
  /\ p \in Liberty => \A q \in Liberty : q < p => q \in paid
  /\ paid' = paid \cup {p}
  /\ UNCHANGED <<credits, request, task, bounds>>

Credited(p) == credits[p] > 0

(* The memo of the payment names a user.  Where it names nobody, there is no  *)
(* account to credit, or not even a receipt to read.                        *)
Named(p) == p \notin Unknown

(* Mutant: the index of Liberty Reserve's payments is missing.              *)
AcceptsTwice(p) == Named(p)

(* What the transaction of a credit does: it is refused, or raises, when      *)
(* there is no user, and the unique index refuses it when there is a credit   *)
(* already; nothing refuses a second credit of a Pecunix payment.           *)
Accepts(p) == Named(p) /\ (p \in Pecunix \/ ~Credited(p))

Credit(p) ==
  credits' = IF Accepts(p) /\ credits[p] < Cap
             THEN [credits EXCEPT ![p] = @ + 1] ELSE credits

-----------------------------------------------------------------------------
(* Requests.                                                                *)

(* The provider calls, as often as it likes, or the user comes back; the     *)
(* hash of the call, or the provider's own record, shows it is paid.        *)
Call(w, p) ==
  /\ calls < MaxCalls
  /\ p \in paid
  /\ request[w] = Idle
  /\ request' = [request EXCEPT ![w] = [at |-> "look", payment |-> p]]
  /\ calls' = calls + 1
  /\ UNCHANGED <<paid, credits, task, interruptions>>

(* find_by_px_tx_id or find_by_lr_transaction_id, before the transaction.    *)
LookUp(w) ==
  /\ request[w].at = "look"
  /\ request' = [request EXCEPT ![w] =
       IF Credited(@.payment) THEN Idle ELSE [@ EXCEPT !.at = "insert"]]
  /\ UNCHANGED <<paid, credits, task, bounds>>

Insert(w) ==
  /\ request[w].at = "insert"
  /\ Credit(request[w].payment)
  /\ request' = [request EXCEPT ![w] = Idle]
  /\ UNCHANGED <<paid, task, bounds>>

-----------------------------------------------------------------------------
(* The task looks up and credits every payment of a page of the history, in  *)
(* an order that is the provider's.                                         *)

Page ==
  LET made == paid \cap Liberty
  IN {p \in made : Cardinality({q \in made : q > p}) < PageSize}

StartTask(j) ==
  /\ task[j] = Asleep
  /\ task' = [task EXCEPT ![j] = [Asleep EXCEPT !.at = "look", !.todo = Page]]
  /\ UNCHANGED <<paid, credits, request, bounds>>

Without(j, p) ==
  [at |-> "look", todo |-> task[j].todo \ {p}, payment |-> 0]

(* Mutant: the task goes through the page and credits nothing.               *)
TaskSkips(j) ==
  /\ task[j].at = "look"
  /\ \/ /\ task[j].todo = {}
        /\ task' = [task EXCEPT ![j] = Asleep]
     \/ \E p \in task[j].todo : task' = [task EXCEPT ![j] = Without(j, p)]
  /\ UNCHANGED <<paid, credits, request, bounds>>

TaskLooksUp(j) ==
  /\ task[j].at = "look"
  /\ \/ /\ task[j].todo = {}
        /\ task' = [task EXCEPT ![j] = Asleep]
     \/ \E p \in task[j].todo :
          task' = [task EXCEPT ![j] =
            IF Credited(p) THEN Without(j, p)
            ELSE [@ EXCEPT !.at = "insert", !.payment = p]]
  /\ UNCHANGED <<paid, credits, request, bounds>>

(* A refused credit raises and ends the task.                               *)
TaskInserts(j) ==
  /\ task[j].at = "insert"
  /\ Credit(task[j].payment)
  /\ task' = [task EXCEPT ![j] =
       IF Accepts(task[j].payment) THEN Without(j, task[j].payment)
       ELSE Asleep]
  /\ UNCHANGED <<paid, request, bounds>>

RunTask(j) == StartTask(j) \/ TaskLooksUp(j) \/ TaskInserts(j)

(* An exception, of the provider or of an order the credit executes, or the  *)
(* end of the process.                                                      *)
Interrupt ==
  /\ interruptions < MaxInterruptions
  /\ \/ /\ \E j \in Jobs :
             task[j] # Asleep /\ task' = [task EXCEPT ![j] = Asleep]
        /\ UNCHANGED request
     \/ /\ \E w \in Workers :
             request[w] # Idle /\ request' = [request EXCEPT ![w] = Idle]
        /\ UNCHANGED task
  /\ interruptions' = interruptions + 1
  /\ UNCHANGED <<paid, credits, calls>>

CallbackNext ==
  \/ \E p \in Payments : Pay(p) \/ \E w \in Workers : Call(w, p)
  \/ \E w \in Workers : LookUp(w) \/ Insert(w)
  \/ \E j \in Jobs : RunTask(j)
  \/ Interrupt

CallbackSpec == CallbackInit /\ [][CallbackNext]_callbackVars

(* Cron starts the task for ever, and it goes on; nothing says that a        *)
(* provider calls.                                                          *)
CallbackFairSpec == CallbackSpec /\ \A j \in Jobs : WF_callbackVars(RunTask(j))

-----------------------------------------------------------------------------

(* Requests, tasks and counts of credits stay within their ranges.           *)
CallbacksTypeOK ==
  /\ paid \subseteq Payments
  /\ credits \in [Payments -> 0..Cap]
  /\ request \in [Workers -> Requests]
  /\ task \in [Jobs -> Tasks]
  /\ calls \in 0..MaxCalls
  /\ interruptions \in 0..MaxInterruptions

(* A Liberty Reserve payment is credited once, whichever of the callback,    *)
(* the returning user and the task come first or at the same time           *)
(* (AccountOperation.create_from_lr_transaction_id, create_from_lr_post!).  *)
LibertyCreditedOnce == \A p \in Liberty : credits[p] <= 1

(* A Liberty Reserve payment that stays on a page of the history without     *)
(* payments that name no user is credited in the end, although no callback  *)
(* may come, tasks fail, and several run at once                            *)
(* (liberty_reserve:synchronize_transactions).                              *)
LibertyCredited ==
  \A p \in Liberty :
    <>[](p \in Page /\ Page \cap Unknown = {}) => <>Credited(p)

(* The callback of a Pecunix payment may come several times and credits it   *)
(* once (ThirdPartyCallbacksController#px_status).                          *)
PecunixCreditedOnce == \A p \in Pecunix : credits[p] <= 1
=============================================================================
