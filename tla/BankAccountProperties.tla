----------------------- MODULE BankAccountProperties -----------------------
(* What bank accounts add to withdrawals.                                   *)
EXTENDS BankAccounts, WithdrawalProperties

(* Types.  A wire that is requested or recorded has an account.              *)
BanksTypeOK ==
  /\ banks \in [Banks -> Accounts \cup {NoAccount, Destroyed}]
  /\ payee \in [Wires -> Banks \cup {Nobody}]
  /\ erasing \in [Users -> Erasures \cup {Away}]
  /\ \A t \in Wires : payee[t] # Nobody <=> Recorded(t) \/ InFlight(t)

(* A wire is committed to an account that exists then and is its user's,      *)
(* unless it is the first transaction of a connection: what                  *)
(* check_bank_account_id found is locked, and a destroy that tested the       *)
(* account before waits.                                                   *)
WiresGoToAccounts ==
  [][\A t \in Wires :
       ~Recorded(t) /\ Recorded(t)' =>
         \/ Exists(payee[t])' /\ banks'[payee'[t]].user = rows'[t].user
         \/ \E w \in Workers : /\ At(w, "commit") /\ tx[w].transfer = t
                               /\ ~tx[w].serial]_bankVars
=============================================================================
