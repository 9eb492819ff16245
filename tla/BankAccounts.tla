---------------------------- MODULE BankAccounts ----------------------------
(***************************************************************************)
(* The bank accounts that wires go to.  A user registers an account, or      *)
(* enters a new one with the wire that goes to it, and may destroy one that   *)
(* is not verified and has no wires.  The test is made before the            *)
(* transaction that destroys the account, and sees committed wires only.     *)
(*                                                                         *)
(* The validations of a wire find its account again in the transaction; a     *)
(* serializable one locks the row, so that it is neither destroyed nor        *)
(* verified before the transaction ends.                                    *)
(***************************************************************************)
EXTENDS Withdrawals

CONSTANT Banks      \* bank accounts

Nobody == "nobody"

ASSUME BankAssumption == Nobody \notin Banks

VARIABLES
  banks,    \* the table of bank accounts
  payee,    \* bank_account_id of the wires that are requested or recorded
  erasing   \* what each user's request to destroy an account is doing

accounts == <<banks, payee, erasing>>
bankVars == <<vars, accounts>>

Accounts == [user : Users, state : {"unverified", "verified"}]
NoAccount == [state |-> "none"]
Destroyed == [state |-> "destroyed"]
Exists(b) == banks[b] \in Accounts

Erasures == [at : {"check", "delete"}, bank : Banks,
             state : {"unverified", "verified"}]

BankInit ==
  /\ Init
  /\ banks = [b \in Banks |-> NoAccount]
  /\ payee = [t \in Wires |-> Nobody]
  /\ erasing = [u \in Users |-> Away]

(* The account is being entered with a wire, and has this id already.        *)
Reserved(b) == banks[b] = NoAccount /\ \E t \in Wires : payee[t] = b

WiresTo(b) == {t \in Wires : Recorded(t) /\ payee[t] = b}

(* Mutant: the row of the account is read without a lock.                    *)
NeverLocked(b) == FALSE

(* A serializable request has read the row of the account.                   *)
Locked(b) ==
  \E w \in Workers : /\ Reading(w)
                     /\ tx[w].transfer \in Wires
                     /\ payee[tx[w].transfer] = b

-----------------------------------------------------------------------------
(* Requests for transfers.                                                  *)

(* The user picks an account, possibly from a page that is old, or enters a  *)
(* new one.                                                                *)
RequestTransfer(w, t, u, amount) ==
  /\ Request(w, t, u, amount)
  /\ \/ t \in Instant /\ UNCHANGED payee
     \/ /\ t \in Wires
        /\ \E b \in Banks : /\ ~Reserved(b)
                            /\ payee' = [payee EXCEPT ![t] = b]
  /\ UNCHANGED <<banks, erasing>>

(* check_bank_account_id; an account entered with the wire is not yet saved.  *)
Payable(t, u) ==
  \/ banks[payee[t]] = NoAccount
  \/ Exists(payee[t]) /\ banks[payee[t]].user = u

(* The choice of an account ends with a request that is rolled back.         *)
Forgets(w) ==
  payee' = IF tx'[w] = Idle /\ tx[w].transfer \in Wires
             THEN [payee EXCEPT ![tx[w].transfer] = Nobody]
             ELSE payee

ValidateTransfer(w) ==
  /\ Validate(w)
  /\ tx'[w] # Idle /\ tx[w].transfer \in Wires =>
       Payable(tx[w].transfer, Row(w).user)
  /\ Forgets(w)
  /\ UNCHANGED <<banks, erasing>>

(* The steps that leave the accounts alone or roll back.                     *)
OtherStep(w) ==
  /\ Insert(w) \/ Deadlock(w) \/ CheckReserve(w) \/ Send(w) \/ Record(w)
  /\ Forgets(w)
  /\ UNCHANGED <<banks, erasing>>

Interrupt(w) ==
  /\ AnswerLost(w) \/ Fail(w)
  /\ Forgets(w)
  /\ UNCHANGED <<banks, erasing>>

(* An account that was entered with the wire is saved with it.               *)
CommitTransfer(w) ==
  LET b == payee[tx[w].transfer] IN
  /\ Commit(w)
  /\ banks' =
       IF tx[w].transfer \in Wires /\ banks[b] = NoAccount
         THEN [banks EXCEPT ![b] =
                 [user |-> Row(w).user, state |-> "unverified"]]
         ELSE banks
  /\ UNCHANGED <<payee, erasing>>

(* The mail of a wire names its account, and is not sent without.            *)
MailWithAccount(a) ==
  LET t == admin[a].transfer IN
  /\ Mail(a)
  /\ told' # told => Exists(payee[t])
  /\ t \in Wires /\ Exists(payee[t]) => t \in told'
  /\ UNCHANGED accounts

-----------------------------------------------------------------------------
(* Requests for accounts.                                                   *)

CreateAccount(u, b) ==
  /\ banks[b] = NoAccount /\ ~Reserved(b)
  /\ banks' = [banks EXCEPT ![b] = [user |-> u, state |-> "unverified"]]
  /\ UNCHANGED <<vars, payee, erasing>>

Verify(b) ==
  /\ Exists(b) /\ banks[b].state = "unverified"
  /\ ~Locked(b)
  /\ banks' = [banks EXCEPT ![b].state = "verified"]
  /\ UNCHANGED <<vars, payee, erasing>>

FindAccount(u, b) ==
  /\ erasing[u] = Away
  /\ Exists(b) /\ banks[b].user = u
  /\ erasing' = [erasing EXCEPT ![u] =
       [at |-> "check", bank |-> b, state |-> banks[b].state]]
  /\ UNCHANGED <<vars, banks, payee>>

CheckAccount(u) ==
  /\ erasing[u].at = "check"
  /\ erasing' = [erasing EXCEPT ![u] =
       IF WiresTo(@.bank) = {} /\ @.state # "verified"
         THEN [@ EXCEPT !.at = "delete"] ELSE Away]
  /\ UNCHANGED <<vars, banks, payee>>

DestroyAccount(u) ==
  /\ erasing[u].at = "delete"
  /\ ~Locked(erasing[u].bank)
  /\ banks' = [banks EXCEPT ![erasing[u].bank] = Destroyed]
  /\ erasing' = [erasing EXCEPT ![u] = Away]
  /\ UNCHANGED <<vars, payee>>

(* The request to destroy an account fails.                                 *)
KeepAccount(u) ==
  /\ erasing[u] # Away
  /\ erasing' = [erasing EXCEPT ![u] = Away]
  /\ UNCHANGED <<vars, banks, payee>>

-----------------------------------------------------------------------------
AccountStep ==
  \/ \E u \in Users :
       \/ \E b \in Banks : CreateAccount(u, b) \/ FindAccount(u, b)
       \/ CheckAccount(u) \/ DestroyAccount(u) \/ KeepAccount(u)
  \/ \E b \in Banks : Verify(b)

TransferStep(w) == ValidateTransfer(w) \/ OtherStep(w) \/ CommitTransfer(w)

WithdrawalStep ==
  \/ \E w \in Workers :
       \/ \E t \in Transfers, u \in Users, amount \in Amounts :
            RequestTransfer(w, t, u, amount)
       \/ TransferStep(w) \/ Interrupt(w)
       \/ Restart(w) /\ UNCHANGED accounts
  \/ \E a \in Admins :
       \/ \E t \in Transfers : Find(a, t) /\ UNCHANGED accounts
       \/ Process(a) /\ UNCHANGED accounts
       \/ MailWithAccount(a)
       \/ OfficeFails(a) /\ UNCHANGED accounts

BankNext == WithdrawalStep \/ AccountStep

BankSpec == BankInit /\ [][BankNext]_bankVars

(* A request that has begun goes on.                                        *)
BankFairSpec == BankSpec /\ \A w \in Workers : WF_bankVars(TransferStep(w))
=============================================================================
