---------------------------- MODULE Withdrawals ----------------------------
(***************************************************************************)
(* Withdrawals.  A request validates a transfer, inserts it, has the        *)
(* bitcoin client or Liberty Reserve send the money, notes the id of their   *)
(* answer and commits, all in one database transaction: what the provider    *)
(* did stays done when the transaction is rolled back.  Wires, and transfers  *)
(* the provider's balance does not cover, stay pending for an administrator. *)
(*                                                                         *)
(* The locks are InnoDB's.  No index helps to find the operations of an      *)
(* account, so a serializable transaction that reads a balance locks all of   *)
(* them.  The level is set inside a transaction and holds from the           *)
(* connection's next one: its first transaction reads a snapshot and locks   *)
(* nothing.                                                                *)
(***************************************************************************)
EXTENDS Integers, FiniteSets

CONSTANTS
  Workers,      \* web processes, each with a connection of its own
  Admins,       \* administrators
  Users,
  Wires,        \* transfers by wire
  Instant,      \* transfers that a provider sends
  Amounts,      \* amounts users ask for
  Grid,         \* units of an amount of two decimals
  Minimum,      \* Transfer.minimal_amount_for
  Funds,        \* initial balance of every user
  Reserve,      \* initial balance of the exchange at the provider
  MaxFailures   \* bound: exceptions, lost answers and dead processes

Transfers == Wires \cup Instant

ASSUME WithdrawalsAssumption ==
  /\ Wires \cap Instant = {}
  /\ Amounts \subseteq Nat
  /\ Grid \in Nat \ {0}
  /\ Minimum \in Nat \ {0}
  /\ Funds \in Nat
  /\ Reserve \in Nat
  /\ MaxFailures \in Nat

VARIABLES
  bal,        \* committed balances
  rows,       \* committed transfers
  tx,         \* what each web process is doing in its transaction
  fresh,      \* connections that have had no transaction yet
  hot,        \* balance of the exchange at the provider
  sent,       \* what the provider has sent for each transfer
  admin,      \* what each administrator's request is doing
  told,       \* transfers whose user was told they are processed
  failures

database == <<bal, rows>>
provider == <<hot, sent>>
office == <<admin, told>>
vars == <<database, provider, office, tx, fresh, failures>>

(* A transfer in the database; id: the provider's id of it is known.         *)
Rows == [user : Users, amount : Nat, state : {"pending", "processed"},
         id : BOOLEAN]
NoRow == [state |-> "none"]
Recorded(t) == rows[t] # NoRow

Idle == [at |-> "idle"]
Stages == {"validate", "insert", "check", "send", "record", "commit"}
Transactions == [at : Stages, transfer : Transfers, serial : BOOLEAN,
                 row : Rows]

Away == [at |-> "away"]
Visits == [at : {"process", "mail"}, transfer : Transfers,
           state : {"pending", "processed"}]

Init ==
  /\ bal = [u \in Users |-> Funds]
  /\ rows = [t \in Transfers |-> NoRow]
  /\ tx = [w \in Workers |-> Idle]
  /\ fresh = Workers
  /\ hot = Reserve
  /\ sent = [t \in Transfers |-> 0]
  /\ admin = [a \in Admins |-> Away]
  /\ told = {}
  /\ failures = 0

At(w, stage) == tx[w].at = stage
Row(w) == tx[w].row
Goes(w, stage) == tx' = [tx EXCEPT ![w].at = stage]
RolledBack(w) == tx' = [tx EXCEPT ![w] = Idle]
InFlight(t) == \E w \in Workers : tx[w] # Idle /\ tx[w].transfer = t

-----------------------------------------------------------------------------
(* Locks.                                                                   *)

(* The process has inserted an operation and not committed it.               *)
Writing(w) == tx[w].at \in {"check", "send", "record", "commit"}

(* Mutant: validations lock nothing.                                        *)
NoReading(w) == FALSE

(* The process holds all operations against insertion.                      *)
Reading(w) == (At(w, "insert") \/ Writing(w)) /\ tx[w].serial

MayRead(w) == tx[w].serial => \A v \in Workers \ {w} : ~Writing(v)

MayWrite(w) == \A v \in Workers \ {w} : ~Reading(v)

-----------------------------------------------------------------------------
(* A request.                                                               *)

(* Transfer.round_amount, to two decimals and down.                          *)
Rounded(amount) == (amount \div Grid) * Grid

(* A user asks for a transfer that was not asked for before.                 *)
Request(w, t, u, amount) ==
  /\ tx[w] = Idle
  /\ ~Recorded(t) /\ ~InFlight(t) /\ sent[t] = 0
  /\ tx' = [tx EXCEPT ![w] =
       [at |-> "validate", transfer |-> t, serial |-> w \notin fresh,
        row |-> [user |-> u, amount |-> Rounded(amount), state |-> "pending",
                 id |-> FALSE]]]
  /\ fresh' = fresh \ {w}
  /\ UNCHANGED <<database, provider, office, failures>>

(* user_balance and minimal_amount; the other validations, of addresses and  *)
(* bank accounts, may refuse what they let pass.                            *)
Valid(row) == row.amount >= Minimum /\ row.amount <= bal[row.user]

Validate(w) ==
  /\ At(w, "validate")
  /\ MayRead(w)
  /\ \/ Valid(Row(w)) /\ Goes(w, "insert")
     \/ RolledBack(w)
  /\ UNCHANGED <<database, provider, office, fresh, failures>>

(* Nothing is sent for a wire.                                              *)
Insert(w) ==
  /\ At(w, "insert")
  /\ MayWrite(w)
  /\ Goes(w, IF tx[w].transfer \in Wires THEN "commit" ELSE "check")
  /\ UNCHANGED <<database, provider, office, fresh, failures>>

(* Mutant: the database lets the two wait for each other.                   *)
DeadlockStays(w) ==
  /\ At(w, "insert") /\ Reading(w)
  /\ \E v \in Workers \ {w} : At(v, "insert") /\ Reading(v)
  /\ UNCHANGED vars

(* Two readers that both want to insert: the database rolls one back.        *)
Deadlock(w) ==
  /\ At(w, "insert") /\ Reading(w)
  /\ \E v \in Workers \ {w} : At(v, "insert") /\ Reading(v)
  /\ RolledBack(w)
  /\ UNCHANGED <<database, provider, office, fresh, failures>>

CheckReserve(w) ==
  /\ At(w, "check")
  /\ Goes(w, IF hot >= Row(w).amount THEN "send" ELSE "commit")
  /\ UNCHANGED <<database, provider, office, fresh, failures>>

Sent(w) ==
  /\ hot >= Row(w).amount
  /\ hot' = hot - Row(w).amount
  /\ sent' = [sent EXCEPT ![tx[w].transfer] = @ + Row(w).amount]

(* The provider refuses what it has no money left for; the error is raised.  *)
Send(w) ==
  /\ At(w, "send")
  /\ \/ Sent(w) /\ Goes(w, "record")
     \/ /\ hot < Row(w).amount
        /\ RolledBack(w)
        /\ UNCHANGED provider
  /\ UNCHANGED <<database, office, fresh, failures>>

(* Mutant: a request that hears nothing leaves its transfer to be processed. *)
AnswerLostAndPending(w) ==
  /\ At(w, "send")
  /\ failures < MaxFailures
  /\ Sent(w)
  /\ Goes(w, "commit")
  /\ failures' = failures + 1
  /\ UNCHANGED <<database, office, fresh>>

(* The provider sends, and its answer does not arrive.                       *)
AnswerLost(w) ==
  /\ At(w, "send")
  /\ failures < MaxFailures
  /\ Sent(w)
  /\ RolledBack(w)
  /\ failures' = failures + 1
  /\ UNCHANGED <<database, office, fresh>>

(* Mutant: process! is called on a transfer that is processed, and raises.   *)
RecordRaises(w) ==
  /\ At(w, "record")
  /\ RolledBack(w)
  /\ UNCHANGED <<database, provider, office, fresh, failures>>

(* The id is saved, then process! saves the state.                          *)
Record(w) ==
  /\ At(w, "record")
  /\ tx' = [tx EXCEPT ![w].at = "commit", ![w].row.id = TRUE,
                      ![w].row.state = "processed"]
  /\ UNCHANGED <<database, provider, office, fresh, failures>>

(* The operation of the storage account, the save of both, and the commit.   *)
Commit(w) ==
  /\ At(w, "commit")
  /\ rows' = [rows EXCEPT ![tx[w].transfer] = Row(w)]
  /\ bal' = [bal EXCEPT ![Row(w).user] = @ - Row(w).amount]
  /\ RolledBack(w)
  /\ UNCHANGED <<provider, office, fresh, failures>>

(* An exception of any statement or call, or a process that dies.            *)
Fail(w) ==
  /\ tx[w] # Idle
  /\ failures < MaxFailures
  /\ RolledBack(w)
  /\ failures' = failures + 1
  /\ UNCHANGED <<database, provider, office, fresh>>

(* A process is replaced, or its connection.                                *)
Restart(w) ==
  /\ tx[w] = Idle
  /\ w \notin fresh
  /\ fresh' = fresh \cup {w}
  /\ UNCHANGED <<database, provider, office, tx, failures>>

-----------------------------------------------------------------------------
(* An administrator marks a transfer as processed.                          *)

Find(a, t) ==
  /\ admin[a] = Away
  /\ Recorded(t)
  /\ admin' = [admin EXCEPT ![a] =
       [at |-> "process", transfer |-> t, state |-> rows[t].state]]
  /\ UNCHANGED <<database, provider, told, tx, fresh, failures>>

(* Mutant: the state machine has a transition back to pending.              *)
ProcessOrUndo(a) ==
  LET t == admin[a].transfer IN
  /\ admin[a].at = "process"
  /\ \A w \in Workers : ~Reading(w)
  /\ rows' = [rows EXCEPT ![t].state =
               IF admin[a].state = "pending" THEN "processed" ELSE "pending"]
  /\ admin' = [admin EXCEPT ![a].at = "mail"]
  /\ UNCHANGED <<bal, provider, told, tx, fresh, failures>>

(* process! raises unless the copy it was loaded into is pending.            *)
Process(a) ==
  /\ admin[a].at = "process"
  /\ IF admin[a].state = "pending"
       THEN /\ \A w \in Workers : ~Reading(w)
            /\ rows' = [rows EXCEPT ![admin[a].transfer].state = "processed"]
            /\ admin' = [admin EXCEPT ![a].at = "mail"]
       ELSE admin' = [admin EXCEPT ![a] = Away] /\ UNCHANGED rows
  /\ UNCHANGED <<bal, provider, told, tx, fresh, failures>>

(* The mail names the bank account of the transfer, which only wires have;   *)
(* where there is none it is not sent, and the error is raised.              *)
Mail(a) ==
  /\ admin[a].at = "mail"
  /\ \/ /\ admin[a].transfer \in Wires
        /\ told' = told \cup {admin[a].transfer}
     \/ UNCHANGED told
  /\ admin' = [admin EXCEPT ![a] = Away]
  /\ UNCHANGED <<database, provider, tx, fresh, failures>>

OfficeFails(a) ==
  /\ admin[a] # Away
  /\ failures < MaxFailures
  /\ admin' = [admin EXCEPT ![a] = Away]
  /\ failures' = failures + 1
  /\ UNCHANGED <<database, provider, told, tx, fresh>>

-----------------------------------------------------------------------------
Step(w) ==
  \/ Validate(w) \/ Insert(w) \/ Deadlock(w)
  \/ CheckReserve(w) \/ Send(w) \/ Record(w) \/ Commit(w)

Next ==
  \/ \E w \in Workers :
       \/ \E t \in Transfers, u \in Users, amount \in Amounts :
            Request(w, t, u, amount)
       \/ Step(w) \/ AnswerLost(w) \/ Fail(w) \/ Restart(w)
  \/ \E a \in Admins :
       \/ \E t \in Transfers : Find(a, t)
       \/ Process(a) \/ Mail(a) \/ OfficeFails(a)

Spec == Init /\ [][Next]_vars

(* A request that has begun goes on.                                        *)
FairSpec == Spec /\ \A w \in Workers : WF_vars(Step(w))
=============================================================================
