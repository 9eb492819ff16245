----------------------- MODULE WithdrawalProperties -----------------------
(* What withdrawals keep, what they do not, and what they come to.          *)
EXTENDS Withdrawals

(* Types.  A transfer is recorded with the amount that was validated.        *)
WithdrawalsTypeOK ==
  /\ bal \in [Users -> Int]
  /\ rows \in [Transfers -> Rows \cup {NoRow}]
  /\ tx \in [Workers -> Transactions \cup {Idle}]
  /\ fresh \subseteq Workers
  /\ hot \in Nat
  /\ sent \in [Transfers -> Nat]
  /\ admin \in [Admins -> Visits \cup {Away}]
  /\ told \subseteq Transfers
  /\ failures \in 0..MaxFailures

(* A debit leaves a negative balance only if it is made by the first          *)
(* transaction of a connection: all others are serializable, so the balance   *)
(* user_balance read is still there when they commit.                       *)
OnlyFirstTransactionsOverdraw ==
  [][\A u \in Users :
       bal'[u] < bal[u] /\ bal'[u] < 0 =>
         \E w \in Workers : /\ At(w, "commit") /\ tx'[w] = Idle
                            /\ Row(w).user = u /\ ~tx[w].serial]_vars

(* The table tells what was sent: the whole amount of a transfer with a        *)
(* provider's id, nothing of a transfer without.  So an administrator who     *)
(* pays a pending transfer by hand does not pay it twice (execute, process!). *)
RowsTellWhatWasSent ==
  \A t \in Transfers :
    Recorded(t) => sent[t] = IF rows[t].id THEN rows[t].amount ELSE 0

Lost == {t \in Transfers : sent[t] > 0 /\ ~Recorded(t) /\ ~InFlight(t)}

(* Money that left the exchange without a debit of its user left in a request *)
(* that was interrupted after the provider was called: the send inside the   *)
(* transaction that records it cannot be rolled back (BitcoinTransfer#execute).*)
LossesAreInterruptions == Cardinality(Lost) <= failures

(* Users are told of processed transfers only (process_tx).                 *)
AnnouncedIsProcessed ==
  \A t \in told : Recorded(t) /\ rows[t].state = "processed"

(* A recorded transfer keeps its user, amount and id, and a processed one its *)
(* state, also when two administrators work on copies of it.                 *)
TransfersAreFinal ==
  [][\A t \in Transfers :
       Recorded(t) =>
         \/ rows'[t] = rows[t]
         \/ /\ rows[t].state = "pending"
            /\ rows'[t] = [rows[t] EXCEPT !.state = "processed"]]_vars

(* A request ends, although requests wait for each other's locks.            *)
RequestsEnd == \A w \in Workers : tx[w] # Idle ~> tx[w] = Idle
=============================================================================
