---------------------------- MODULE BitcoinSync ----------------------------
(***************************************************************************)
(* The task that credits the bitcoins users receive, under a lock file      *)
(* (AccountOperation.synchronize_transactions!).  For each account it asks  *)
(* the bitcoin client for the latest outputs received, then looks each one  *)
(* up and either creates an account operation or updates the confirmations  *)
(* of the one it found.  Meanwhile outputs arrive and are confirmed, and a  *)
(* reorganisation of the block chain may take confirmations away.           *)
(***************************************************************************)
EXTENDS Lockfile, FiniteSets

CONSTANTS
  Outputs,     \* received outputs, a set 1..n in the order of their arrival
  AccountOf,   \* the account each of them is for
  TxOf,        \* the transaction each of them belongs to
  Window,      \* how many outputs of an account the client lists
  Enough,      \* MIN_BTC_CONFIRMATIONS; confirmations are counted up to it
  MaxFailures, \* bound: exceptions in a behaviour
  MaxReorgs    \* bound: reorganisations in a behaviour

Accounts == {AccountOf[o] : o \in Outputs}
Txs == {TxOf[o] : o \in Outputs}

ASSUME SyncAssumption ==
  /\ Outputs \subseteq Nat \ {0}
  /\ Accounts \subseteq Nat
  /\ Window \in Nat
  /\ Enough \in Nat \ {0}
  /\ MaxFailures \in Nat
  /\ MaxReorgs \in Nat

VARIABLES
  arrived,  \* outputs the client has seen
  chain,    \* confirmations of each transaction
  rows,     \* account operations created by the task
  run,      \* what each run holds in memory, while in its block
  failures,
  reorgs

world == <<arrived, chain, reorgs>>
vars == <<lockVars, world, rows, run, failures>>

Confirmations == 0..Enough
Row == [id : Nat \ {0}, output : Outputs, confirmations : Confirmations]
Steps == {"load", "account", "find", "write"}

\* accounts and list: what is left to do; seen: the confirmations listed;
\* entry: the output being written; found: the ids of the rows found.
Memories ==
  [step : Steps, accounts : SUBSET Accounts, list : SUBSET Outputs,
   seen : [Txs -> Confirmations], entry : Outputs \cup {0},
   found : SUBSET Nat]
Fresh ==
  [step |-> "load", accounts |-> {}, list |-> {},
   seen |-> [t \in Txs |-> 0], entry |-> 0, found |-> {}]

Init ==
  /\ LockInit
  /\ arrived = {}
  /\ chain = [t \in Txs |-> 0]
  /\ rows = {}
  /\ run = [r \in Runs |-> Fresh]
  /\ failures = 0
  /\ reorgs = 0

-----------------------------------------------------------------------------
(* The bitcoin network.                                                     *)

(* All outputs of a transaction arrive together.                            *)
Arrive(t) ==
  LET new == {o \in Outputs : TxOf[o] = t}
  IN /\ \A o \in new : o \notin arrived
     /\ \A o \in Outputs, n \in new : o < n => o \in arrived \cup new
     /\ arrived' = arrived \cup new
     /\ UNCHANGED <<lockVars, chain, reorgs, rows, run, failures>>

(* A block confirms what is in the chain once more, and some of what is not. *)
Block ==
  \E mined \in SUBSET {TxOf[o] : o \in arrived} :
    /\ chain' = [t \in Txs |->
         IF (chain[t] > 0 \/ t \in mined) /\ chain[t] < Enough
         THEN chain[t] + 1 ELSE chain[t]]
    /\ chain' # chain
    /\ UNCHANGED <<lockVars, arrived, reorgs, rows, run, failures>>

Reorganise ==
  /\ reorgs < MaxReorgs
  /\ \E t \in Txs : chain[t] > 0 /\ chain' = [chain EXCEPT ![t] = 0]
  /\ reorgs' = reorgs + 1
  /\ UNCHANGED <<lockVars, arrived, rows, run, failures>>

-----------------------------------------------------------------------------
(* One run of the task.                                                     *)

Running(r, step) == at[r] = "block" /\ run[r].step = step

Newest(S) == CHOOSE x \in S : \A y \in S : y <= x

(* Account.all                                                              *)
Load(r) ==
  /\ Running(r, "load")
  /\ run' = [run EXCEPT ![r].step = "account", ![r].accounts = Accounts]
  /\ UNCHANGED <<lockVars, world, rows, failures>>

(* The Window latest outputs of an account.                                 *)
Recent(a) ==
  LET received == {o \in arrived : AccountOf[o] = a}
  IN {o \in received : Cardinality({p \in received : p > o}) < Window}

ListTransactions(r) ==
  /\ Running(r, "account")
  /\ \E a \in run[r].accounts :
       LET listed == Recent(a)
       IN run' = [run EXCEPT ![r] =
            [Fresh EXCEPT !.step = IF listed = {} THEN "account" ELSE "find",
                          !.accounts = run[r].accounts \ {a},
                          !.list = listed,
                          !.seen = IF listed = {} THEN @ ELSE chain]]
  /\ UNCHANGED <<lockVars, world, rows, failures>>

(* The rows of the same transaction and account; the default scope puts the  *)
(* newest first.                                                            *)
Matching(o) ==
  {row \in rows : TxOf[row.output] = TxOf[o]
                  /\ AccountOf[row.output] = AccountOf[o]}

Lookup(r, o, found) ==
  run' = [run EXCEPT ![r] =
    [run[r] EXCEPT !.step = "write", !.list = run[r].list \ {o},
                   !.entry = o, !.found = {row.id : row \in found}]]

(* Mutant: only confirmed rows are looked up.                               *)
FindConfirmed(r) ==
  /\ Running(r, "find")
  /\ \E o \in run[r].list :
       Lookup(r, o, {row \in Matching(o) : row.confirmations = Enough})
  /\ UNCHANGED <<lockVars, world, rows, failures>>

(* The look-up is not in the transaction that writes.                        *)
Find(r) ==
  /\ Running(r, "find")
  /\ \E o \in run[r].list : Lookup(r, o, Matching(o))
  /\ UNCHANGED <<lockVars, world, rows, failures>>

(* The entry is done with, and so is its account after the last one.         *)
Advance(r) ==
  run' = [run EXCEPT ![r] =
    [Fresh EXCEPT !.step = IF run[r].list = {} THEN "account" ELSE "find",
                  !.accounts = run[r].accounts,
                  !.list = run[r].list,
                  !.seen = IF run[r].list = {} THEN @ ELSE run[r].seen]]

Create(r, confirmations) ==
  rows \cup {[id |-> Cardinality(rows) + 1, output |-> run[r].entry,
              confirmations |-> confirmations]}
Update(r, confirmations) ==
  {IF row.id = Newest(run[r].found)
   THEN [row EXCEPT !.confirmations = confirmations] ELSE row : row \in rows}

Listed(r) == run[r].seen[TxOf[run[r].entry]]

(* Mutants: confirmations are never updated; or counted from one.            *)
WriteNew(r) ==
  /\ Running(r, "write")
  /\ rows' = IF run[r].found = {} THEN Create(r, Listed(r)) ELSE rows
  /\ Advance(r)
  /\ UNCHANGED <<lockVars, world, failures>>

WriteOneMore(r) ==
  /\ Running(r, "write")
  /\ rows' = IF run[r].found = {} THEN Create(r, Listed(r) + 1)
             ELSE Update(r, Listed(r) + 1)
  /\ Advance(r)
  /\ UNCHANGED <<lockVars, world, failures>>

(* One transaction creates an account operation, or updates the one found.   *)
Write(r) ==
  /\ Running(r, "write")
  /\ rows' = IF run[r].found = {} THEN Create(r, Listed(r))
             ELSE Update(r, Listed(r))
  /\ Advance(r)
  /\ UNCHANGED <<lockVars, world, failures>>

(* The block ends after the last account,                                   *)
Finish(r) ==
  /\ Running(r, "account")
  /\ run[r].accounts = {}
  /\ LeaveBlock(r)
  /\ run' = [run EXCEPT ![r] = Fresh]
  /\ UNCHANGED <<world, rows, failures>>

(* or with an exception: of the bitcoin client, or of an order that the new  *)
(* account operation executes; what it was writing is rolled back.           *)
Fail(r) ==
  /\ failures < MaxFailures
  /\ LeaveBlock(r)
  /\ run' = [run EXCEPT ![r] = Fresh]
  /\ failures' = failures + 1
  /\ UNCHANGED <<world, rows>>

KillRun(r) ==
  /\ Kill(r)
  /\ run' = [run EXCEPT ![r] = Fresh]
  /\ UNCHANGED <<world, rows, failures>>

Synchronize(r) ==
  Load(r) \/ ListTransactions(r) \/ Find(r) \/ Write(r) \/ Finish(r)

Locking ==
  /\ \/ \E r \in Runs : Start(r) \/ Lock(r) \/ Unlock(r)
     \/ HourPasses
  /\ UNCHANGED <<world, rows, run, failures>>

Next ==
  \/ \E t \in Txs : Arrive(t)
  \/ Block
  \/ Reorganise
  \/ \E r \in Runs : Synchronize(r) \/ Fail(r) \/ KillRun(r)
  \/ Locking

Spec == Init /\ [][Next]_vars

(* Cron starts the task for ever, a run goes on, time does not stop.         *)
FairSpec ==
  /\ Spec
  /\ \A r \in Runs :
       WF_vars(Synchronize(r) \/ (Locking /\ (Lock(r) \/ Unlock(r))))
  /\ WF_vars(Locking /\ \E r \in Runs : Start(r))
  /\ WF_vars(Locking /\ HourPasses)
=============================================================================
