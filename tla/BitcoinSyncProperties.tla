----------------------- MODULE BitcoinSyncProperties -----------------------
(***************************************************************************)
(* What users and the exchange may rely on about received bitcoins.         *)
(***************************************************************************)
EXTENDS BitcoinSync

SyncTypeOK ==
  /\ LockTypeOK
  /\ arrived \subseteq Outputs
  /\ chain \in [Txs -> Confirmations]
  /\ rows \subseteq Row
  /\ run \in [Runs -> Memories]
  /\ failures \in 0..MaxFailures
  /\ reorgs \in 0..MaxReorgs

(* A transaction is credited to an account once, although no index of the    *)
(* database forbids more and runs fail, are killed and list it again        *)
(* (AccountOperation.synchronize_transactions!).                            *)
CreditedOncePerAccount ==
  \A row \in rows : Matching(row.output) = {row}

(* Unless the block chain was reorganised, no user can spend more received   *)
(* bitcoins than the chain has confirmed for him, although confirmations    *)
(* are written from a list that may be old (AccountOperation#confirmed?).   *)
Spendable(a) ==
  {row \in rows : AccountOf[row.output] = a /\ row.confirmations = Enough}
SpendableIsConfirmed ==
  reorgs = 0 =>
    \A a \in Accounts :
      Cardinality(Spendable(a)) <=
        Cardinality({o \in arrived : AccountOf[o] = a
                                     /\ chain[TxOf[o]] = Enough})

(* Unless the block chain was reorganised, a user's received bitcoins do not *)
(* become unconfirmed again, when he may already have spent them: no run    *)
(* writes what an earlier run has made stale (Lockfile.lock).               *)
SpendableStays ==
  [][reorgs' = 0 =>
       \A a \in Accounts : Spendable(a) \subseteq Spendable(a)']_vars

(* A transaction that stays in the list of its account until it is           *)
(* confirmed becomes spendable, although runs fail and are killed, and      *)
(* whatever happened to the chain before.                                   *)
ConfirmedIsCredited ==
  \A o \in Outputs :
    <>[](o \in Recent(AccountOf[o]) /\ chain[TxOf[o]] = Enough)
      => <>[](\E row \in Matching(o) : row.confirmations = Enough)
=============================================================================
