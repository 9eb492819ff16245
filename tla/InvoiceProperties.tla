------------------------- MODULE InvoiceProperties -------------------------
(***************************************************************************)
(* What a merchant may rely on.                                            *)
(***************************************************************************)
EXTENDS Invoices

InvoicesTypeOK ==
  /\ LockTypeOK
  /\ state \in [Invoices -> States \cup {"unborn", "gone"}]
  /\ age \in [Invoices -> 0..2]
  /\ payment \in [Invoices -> {"none", "seen", "confirmed"}]
  /\ credits \in [Invoices -> 0..Cap]
  /\ calls \in [Invoices -> 0..Cap]
  /\ mails \in [Invoices -> 0..Cap]
  /\ run \in [Runs -> Memories]
  /\ failures \in 0..MaxFailures

(* An invoice that is marked paid was credited to its merchant: no failure   *)
(* and no overlap of two runs loses the money (Invoice#pay).                *)
PaidWasCredited ==
  \A i \in Invoices : state[i] = "paid" => credits[i] > 0

(* Only a confirmed payment is credited, although the row, the copy and the  *)
(* bitcoin client are read at different times (Invoice#check_payment).      *)
CreditsBacked ==
  \A i \in Invoices : credits[i] > 0 => payment[i] = "confirmed"

(* An invoice is credited once, and at most once more for every run that     *)
(* was interrupted: the lock and the saved state exclude any other repeat.  *)
(* (A mail that is always refused interrupts every run.)                    *)
CreditedOncePerFailure ==
  \A i \in Invoices \ Unreachable : credits[i] <= 1 + failures + kills

(* The merchant is never told more often than he was credited, by the        *)
(* callback nor by mail.                                                    *)
ToldAfterCredit ==
  \A i \in Invoices : calls[i] <= credits[i] /\ mails[i] <= credits[i]

(* The state of an invoice only goes forward: no run saves a copy that an    *)
(* earlier run has made stale (Invoice.process_pending, Lockfile.lock).     *)
StateNeverRegresses ==
  [][\A i \in Invoices :
       /\ state[i] = "paid" => state'[i] \in {"paid", "gone"}
       /\ state[i] = "processing" => state'[i] # "pending"
       /\ state[i] = "gone" => state'[i] = "gone"]_vars

Honoured(i) ==
  payment[i] = "confirmed" /\ state[i] \in Unpaid
    ~> state[i] \in {"paid", "gone"}

(* Whoever has paid an invoice will see it paid, unless it is deleted,       *)
(* although runs fail and are killed and leave the lock behind, and older   *)
(* invoices make every run fail (Invoice.process_pending).                  *)
PaymentsHonoured ==
  \A i \in Invoices : (\A j \in Unreachable : j < i) => Honoured(i)
=============================================================================
