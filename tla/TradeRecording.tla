--------------------------- MODULE TradeRecording ---------------------------
(***************************************************************************)
(* In which order trades get their ids, and in which they are committed.    *)
(* execute! records any number of trades in one transaction.  A trade has   *)
(* its id when its row is inserted; the account operations inserted next,   *)
(* in its after_create, are what the locks of other transactions keep        *)
(* waiting: a serializable transaction that has read a balance holds all     *)
(* account operations.  The first transaction of a connection is not         *)
(* serializable, and locks nothing by reading (see Withdrawals).  A request  *)
(* that executes an order has saved it before, in another transaction; but a *)
(* deposit or transfer executes the market orders of its user in its own,    *)
(* which may be the first one.  What it has posted by then is left out, and   *)
(* so are the locks on orders: both only make others wait.                   *)
(***************************************************************************)
EXTENDS Naturals, FiniteSets

CONSTANTS
  Workers,      \* processes that execute orders: requests and rake tasks
  Users,
  Ids           \* ids of trades, a set of the form 1..n: bounds their number

ASSUME RecordingAssumption == IsFiniteSet(Ids) /\ Ids = 1..Cardinality(Ids)

VARIABLES
  rows,  \* the trades recorded, committed or not
  tx     \* the transaction of each process

recording == <<rows, tx>>

(* A trade, and whether its transaction was serializable, which is no        *)
(* column.  An id is never given twice, whatever became of its row.          *)
Trades == [state : {"inserted", "committed"}, buyer : Users, seller : Users,
           serial : BOOLEAN]
NoTrade == [state |-> "none"]
RolledBack == [state |-> "gone"]

Given(i) == rows[i] # NoTrade
Committed(i) == rows[i].state = "committed"

(* at: what comes next; trades: the ids of those recorded so far.            *)
Idle == [at |-> "idle", trades |-> {}]
Transactions == [at : {"read", "record", "post"}, serial : BOOLEAN,
                 trades : SUBSET Ids]

RecordingTypeOK ==
  /\ rows \in [Ids -> Trades \cup {NoTrade, RolledBack}]
  /\ tx \in [Workers -> Transactions \cup {Idle}]

RecordingInit ==
  /\ rows = [i \in Ids |-> NoTrade]
  /\ tx = [w \in Workers |-> Idle]

(* The newest trade of a transaction has no account operations before "post" *)
(* is done.                                                                 *)
Writing(w) ==
  \/ tx[w].at = "record" /\ tx[w].trades # {}
  \/ tx[w].at = "post" /\ \E i, j \in tx[w].trades : i # j

(* Mutant: no transaction is serializable.                                  *)
ReadingUnlocked(w) == FALSE

(* The shared locks of a serializable transaction, once it has read.         *)
Reading(w) == tx[w].at \in {"record", "post"} /\ tx[w].serial

-----------------------------------------------------------------------------
(* A process begins to execute an order, perhaps in the first transaction of *)
(* its connection.                                                          *)
Begin(w) ==
  /\ tx[w] = Idle
  /\ \E i \in Ids : ~Given(i)
  /\ \E serial \in BOOLEAN : tx' = [tx EXCEPT ![w] =
       [at |-> "read", serial |-> serial, trades |-> {}]]
  /\ UNCHANGED rows

(* user_has_balance? and the balances that limit a trade.                   *)
ReadBalances(w) ==
  /\ tx[w].at = "read"
  /\ tx[w].serial => \A v \in Workers \ {w} : ~Writing(v)
  /\ tx' = [tx EXCEPT ![w].at = "record"]
  /\ UNCHANGED rows

(* Trade.create!, up to its insertion: ids are given in order.               *)
Record(w) ==
  /\ tx[w].at = "record"
  /\ \E i \in Ids, b, s \in Users :
       /\ b # s
       /\ ~Given(i)
       /\ \A j \in Ids : j < i => Given(j)
       /\ rows' = [rows EXCEPT ![i] =
            [state |-> "inserted", buyer |-> b, seller |-> s,
             serial |-> tx[w].serial]]
       /\ tx' = [tx EXCEPT ![w].at = "post", ![w].trades = @ \cup {i}]

(* Its account operations, which wait for every other reader.                *)
PostOperations(w) ==
  /\ tx[w].at = "post"
  /\ \A v \in Workers \ {w} : ~Reading(v)
  /\ tx' = [tx EXCEPT ![w].at = "record"]
  /\ UNCHANGED rows

(* The trades of the transaction become what outcome says of each.           *)
Ends(w, outcome) ==
  /\ rows' = [i \in Ids |-> IF i \in tx[w].trades THEN outcome[i] ELSE rows[i]]
  /\ tx' = [tx EXCEPT ![w] = Idle]

Rollback(w) == Ends(w, [i \in tx[w].trades |-> RolledBack])

(* Each of two readers waits for the other: one is rolled back.              *)
Deadlock(w) ==
  /\ tx[w].at = "post" /\ Reading(w)
  /\ \E v \in Workers \ {w} : tx[v].at = "post" /\ Reading(v)
  /\ Rollback(w)

(* execute! has no order left to match.                                     *)
Commit(w) ==
  /\ tx[w].at = "record"
  /\ Ends(w, [i \in tx[w].trades |-> [rows[i] EXCEPT !.state = "committed"]])

(* An exception, or a process that dies.                                    *)
Fails(w) ==
  /\ tx[w] # Idle
  /\ Rollback(w)

Recording(w) == ReadBalances(w) \/ PostOperations(w) \/ Deadlock(w) \/ Commit(w)

RecordingNext ==
  \E w \in Workers : Begin(w) \/ Record(w) \/ Recording(w) \/ Fails(w)

RecordingSpec == RecordingInit /\ [][RecordingNext]_recording
=============================================================================
