------------------------- MODULE NotificationProofs -------------------------
(***************************************************************************)
(* For any users, trades, processes and runs: which trades a user may never *)
(* hear of, and how often he may hear of one.  Both rest on what committed   *)
(* trades say of those with lower ids (the locks of serializable             *)
(* transactions), on the lock file, and on what a run still knows of the     *)
(* user and of the trades it queried.                                       *)
(***************************************************************************)
EXTENDS NotificationProperties, LockfileProofs, FiniteSetTheorems,
        WellFoundedInduction

LEMMA IdsAreNumbers == Ids \subseteq Nat \ {0}
BY RecordingAssumption, FS_CardinalityType

(* The highest of some ids is one of them.                                  *)
LEMMA MaxOfIds ==
  ASSUME NEW S \in SUBSET Ids, S # {}
  PROVE  Max(S) \in S /\ \A y \in S : y <= Max(S)
<1> DEFINE n == Cardinality(Ids)
           T == {n - y : y \in S}
           R == {ss \in Nat \X Nat : ss[1] < ss[2]}
<1>1. IsWellFoundedOn(R, Nat)
  BY NatLessThanWellFounded DEF OpToRel
<1>2. n \in Nat
  BY RecordingAssumption, FS_CardinalityType
<1>3. \A y \in S : y \in Nat /\ n - y \in Nat
  BY <1>2, RecordingAssumption
<1>4. T \subseteq Nat /\ T # {}
  BY <1>3
<1>5. \E x \in T : \A y \in T : ~ (<<y, x>> \in R)
  <2> HIDE DEF T, R
  <2> QED
    BY <1>1, <1>4, WFMin
<1>6. PICK x \in S : \A y \in S : ~ (<<n - y, n - x>> \in R)
  BY <1>5
<1>7. ASSUME NEW y \in S PROVE x >= y
  <2>1. ~ (n - y < n - x)
    BY <1>3, <1>6
  <2> QED
    BY <1>2, <1>3, <2>1
<1> QED
  BY <1>7 DEF Max

-----------------------------------------------------------------------------
(* The order of commits.                                                    *)

(* The trades that a transaction has inserted are its own, until it ends.    *)
TradesOwned ==
  /\ \A w \in Workers : \A i \in tx[w].trades :
       /\ rows[i].state = "inserted"
       /\ rows[i].serial = tx[w].serial
       /\ tx[w].at \in {"record", "post"}
  /\ \A i \in Ids : rows[i].state = "inserted" => \E w \in Workers : i \in tx[w].trades
  /\ \A v, w \in Workers : v # w => tx[v].trades \cap tx[w].trades = {}

IdsInOrder == \A i, j \in Ids : j < i /\ Given(i) => Given(j)

(* A trade recorded after one of a serializable transaction that goes on is  *)
(* of the same transaction, is gone, or is waiting for its locks.            *)
LaterTradesWait ==
  \A w \in Workers : tx[w].at \in {"record", "post"} /\ tx[w].serial =>
    \A i \in tx[w].trades, j \in Ids : j > i /\ Given(j) =>
      \/ j \in tx[w].trades
      \/ rows[j] = RolledBack
      \/ \E v \in Workers : v # w /\ j \in tx[v].trades /\ tx[v].at = "post"

RecordingInv ==
  /\ RecordingTypeOK
  /\ TradesOwned
  /\ IdsInOrder
  /\ LaterTradesWait

LEMMA RecordingInvInit == RecordingInit => RecordingInv
BY DEF RecordingInit, RecordingInv, RecordingTypeOK, TradesOwned, IdsInOrder,
       LaterTradesWait, Given, Idle, NoTrade

(* What the states of a trade exclude.                                      *)
LEMMA TradeStates ==
  ASSUME RecordingTypeOK, NEW i \in Ids
  PROVE  /\ rows[i].state \in {"inserted", "committed"} <=> rows[i] \in Trades
         /\ rows[i].state = "none" <=> rows[i] = NoTrade
         /\ rows[i].state = "gone" <=> rows[i] = RolledBack
         /\ NoTrade # RolledBack
BY DEF RecordingTypeOK, Trades, NoTrade, RolledBack

LEMMA RecordingBegins ==
  ASSUME RecordingInv, NEW w \in Workers, Begin(w) \/ ReadBalances(w)
  PROVE  RecordingInv'
<1> USE DEF RecordingInv, RecordingTypeOK, TradesOwned, IdsInOrder,
            LaterTradesWait, Given
<1>1. /\ rows' = rows /\ tx[w].at \in {"idle", "read"} /\ tx[w].trades = {}
      /\ tx'[w].at \in {"read", "record"} /\ tx'[w].trades = {}
      /\ tx'[w] \in Transactions
      /\ tx' = [tx EXCEPT ![w] = tx'[w]]
  BY DEF Begin, ReadBalances, Idle, Transactions
<1>2. \A v \in Workers : v # w => tx'[v] = tx[v]
  BY <1>1
<1>3. (RecordingTypeOK /\ IdsInOrder)'
  BY <1>1
<1>4. TradesOwned'
  <2>1. \A v \in Workers : tx'[v].trades = tx[v].trades
    BY <1>1, <1>2
  <2>2. \A v \in Workers : tx[v].trades # {} => tx'[v] = tx[v]
    BY <1>1, <1>2
  <2> QED
    BY <1>1, <2>1, <2>2
<1>5. LaterTradesWait'
  <2>1. \A v \in Workers : tx[v].trades # {} => v # w /\ tx'[v] = tx[v]
    BY <1>1, <1>2
  <2>2. \A v \in Workers : tx'[v].trades = tx[v].trades
    BY <1>1, <1>2
  <2> QED
    BY <1>1, <1>2, <2>1, <2>2
<1> QED
  BY <1>3, <1>4, <1>5

LEMMA RecordingPosts ==
  ASSUME RecordingInv, NEW w \in Workers, PostOperations(w)
  PROVE  RecordingInv'
<1> USE DEF RecordingInv, RecordingTypeOK, TradesOwned, IdsInOrder,
            LaterTradesWait, Given
<1>1. /\ rows' = rows /\ tx[w].at = "post"
      /\ \A v \in Workers : v # w => tx'[v] = tx[v]
      /\ tx'[w].at = "record" /\ tx'[w].trades = tx[w].trades
      /\ tx'[w].serial = tx[w].serial
      /\ tx' \in [Workers -> Transactions \cup {Idle}]
      /\ \A v \in Workers : v # w => ~Reading(v)
  BY DEF PostOperations, Idle, Transactions
<1>2. (RecordingTypeOK /\ IdsInOrder)'
  BY <1>1
<1>3. TradesOwned'
  <2>1. \A v \in Workers : /\ tx'[v].trades = tx[v].trades
                           /\ tx[v].trades # {} => tx'[v].serial = tx[v].serial
    BY <1>1
  <2> QED
    BY <1>1, <2>1
<1>4. LaterTradesWait'
  BY <1>1 DEF Reading
<1> QED
  BY <1>2, <1>3, <1>4

LEMMA RecordingRecords ==
  ASSUME RecordingInv, NEW w \in Workers, Record(w)
  PROVE  RecordingInv'
<1> USE DEF RecordingInv, RecordingTypeOK
<1>1. PICK i \in Ids, b \in Users, s \in Users :
        /\ ~Given(i)
        /\ \A j \in Ids : j < i => Given(j)
        /\ rows' = [rows EXCEPT ![i] =
             [state |-> "inserted", buyer |-> b, seller |-> s,
              serial |-> tx[w].serial]]
        /\ tx' = [tx EXCEPT ![w].at = "post", ![w].trades = @ \cup {i}]
  BY DEF Record
<1>2. tx[w].at = "record" /\ tx[w] \in Transactions
  BY DEF Record, Idle
<1>3. /\ tx'[w] \in Transactions
      /\ tx'[w].at = "post" /\ tx'[w].trades = tx[w].trades \cup {i}
      /\ tx'[w].serial = tx[w].serial
      /\ \A v \in Workers : v # w => tx'[v] = tx[v]
  BY <1>1, <1>2 DEF Transactions
<1>4. /\ rows'[i] \in Trades /\ rows'[i].state = "inserted"
      /\ rows'[i].serial = tx[w].serial
      /\ \A j \in Ids : j # i => rows'[j] = rows[j]
      /\ rows'[i] # NoTrade /\ rows[i] = NoTrade
  BY <1>1, <1>2 DEF Trades, Transactions, Given, NoTrade
<1>5. RecordingTypeOK'
  BY <1>1, <1>2, <1>3, <1>4
<1>6. IdsInOrder'
  BY <1>1, <1>4, RecordingAssumption DEF IdsInOrder, Given
<1>7. \A v \in Workers : i \notin tx[v].trades
  BY <1>4 DEF TradesOwned, NoTrade
<1>8. TradesOwned'
  BY <1>2, <1>3, <1>4, <1>7 DEF TradesOwned, NoTrade, Idle, Transactions
<1>9. \A j \in Ids : j > i => rows[j] = NoTrade
  BY <1>1, RecordingAssumption DEF IdsInOrder, Given
<1>10. LaterTradesWait'
  <2> SUFFICES ASSUME NEW v \in Workers, tx'[v].at \in {"record", "post"}, tx'[v].serial,
                      NEW k \in tx'[v].trades, NEW j \in Ids, j > k,
                      rows'[j] # NoTrade
               PROVE  \/ j \in tx'[v].trades
                      \/ rows'[j] = RolledBack
                      \/ \E u \in Workers : u # v /\ j \in tx'[u].trades /\ tx'[u].at = "post"
    BY DEF LaterTradesWait, Given
  <2>1. CASE k = i
    BY <1>4, <1>9, <2>1, RecordingAssumption
  <2>2. CASE k # i /\ j = i
    BY <1>3, <2>2
  <2>3. CASE k # i /\ j # i
    <3>1. /\ tx[v].at \in {"record", "post"} /\ tx[v].serial
          /\ k \in tx[v].trades /\ rows[j] # NoTrade
      BY <1>2, <1>3, <1>4, <2>3
    <3>2. \/ j \in tx[v].trades
          \/ rows[j] = RolledBack
          \/ \E u \in Workers : u # v /\ j \in tx[u].trades /\ tx[u].at = "post"
      BY <3>1 DEF LaterTradesWait, Given
    <3> QED
      BY <1>3, <1>4, <2>3, <3>2
  <2> QED
    BY <2>1, <2>2, <2>3
<1> QED
  BY <1>5, <1>6, <1>8, <1>10

(* A transaction that commits waits for no lock.                            *)
LEMMA RecordingEnds ==
  ASSUME RecordingInv, NEW w \in Workers, NEW outcome,
         \/ \A i \in tx[w].trades : outcome[i] = RolledBack
         \/ /\ tx[w].at = "record"
            /\ \A i \in tx[w].trades :
                 outcome[i] = [rows[i] EXCEPT !.state = "committed"],
         Ends(w, outcome)
  PROVE  RecordingInv'
<1> USE DEF RecordingInv, RecordingTypeOK
<1>1. /\ \A i \in Ids : rows'[i] = IF i \in tx[w].trades THEN outcome[i] ELSE rows[i]
      /\ tx'[w] = Idle
      /\ \A v \in Workers : v # w => tx'[v] = tx[v]
      /\ tx' \in [Workers -> Transactions \cup {Idle}]
      /\ tx'[w].trades = {} /\ tx'[w].at = "idle"
  BY DEF Ends, Idle
<1>2. \A v \in Workers : tx[v].trades \subseteq Ids
  BY DEF Transactions, Idle
<1>3. \A i \in tx[w].trades : rows[i] \in Trades /\ rows[i].state = "inserted"
  BY <1>2, TradeStates DEF TradesOwned
<1>4. \A i \in tx[w].trades :
        \/ outcome[i] = RolledBack
        \/ outcome[i] \in Trades /\ outcome[i].state = "committed" /\ tx[w].at = "record"
  <2>1. \A t \in Trades : /\ [t EXCEPT !.state = "committed"] \in Trades
                          /\ [t EXCEPT !.state = "committed"].state = "committed"
    BY DEF Trades
  <2>2. ASSUME NEW i \in tx[w].trades,
               outcome[i] = [rows[i] EXCEPT !.state = "committed"]
        PROVE  outcome[i] \in Trades /\ outcome[i].state = "committed"
    BY <1>3, <2>1, <2>2
  <2> HIDE DEF RecordingInv
  <2> QED
    BY <2>2
<1>5. RecordingTypeOK'
  BY <1>1, <1>2, <1>4 DEF Ends
<1>6. \A i \in Ids : rows'[i] = NoTrade <=> rows[i] = NoTrade
  BY <1>1, <1>2, <1>3, <1>4 DEF Trades, NoTrade, RolledBack
<1>7. IdsInOrder'
  BY <1>6 DEF IdsInOrder, Given
<1>8. TradesOwned'
  BY <1>1, <1>2, <1>4 DEF TradesOwned, RolledBack
<1>9. LaterTradesWait'
  <2> SUFFICES ASSUME NEW v \in Workers, tx'[v].at \in {"record", "post"}, tx'[v].serial,
                      NEW k \in tx'[v].trades, NEW j \in Ids, j > k,
                      rows'[j] # NoTrade
               PROVE  \/ j \in tx'[v].trades
                      \/ rows'[j] = RolledBack
                      \/ \E u \in Workers : u # v /\ j \in tx'[u].trades /\ tx'[u].at = "post"
    BY DEF LaterTradesWait, Given
  <2>1. v # w /\ tx'[v] = tx[v]
    BY <1>1
  <2>2. \/ j \in tx[v].trades
        \/ rows[j] = RolledBack
        \/ \E u \in Workers : u # v /\ j \in tx[u].trades /\ tx[u].at = "post"
    BY <1>6, <2>1 DEF LaterTradesWait, Given
  <2>3. CASE j \in tx[w].trades
    <3>1. j \notin tx[v].trades /\ rows[j] # RolledBack
      BY <1>3, <2>1, <2>3 DEF TradesOwned, RolledBack
    <3>2. tx[w].at = "post"
      BY <2>2, <2>3, <3>1 DEF TradesOwned
    <3> QED
      BY <1>1, <1>4, <2>3, <3>2
  <2>4. CASE j \notin tx[w].trades
    BY <1>1, <2>1, <2>2, <2>4
  <2> QED
    BY <2>3, <2>4
<1> QED
  BY <1>5, <1>7, <1>8, <1>9

LEMMA RecordingInvStep == RecordingInv /\ RecordingNext => RecordingInv'
<1> SUFFICES ASSUME RecordingInv, NEW w \in Workers,
                    Begin(w) \/ Record(w) \/ Recording(w) \/ Fails(w)
             PROVE  RecordingInv'
  BY DEF RecordingNext
<1>1. CASE Rollback(w)
  BY <1>1, RecordingEnds DEF Rollback
<1>2. CASE Commit(w)
  BY <1>2, RecordingEnds DEF Commit
<1> QED
  BY <1>1, <1>2, RecordingBegins, RecordingPosts, RecordingRecords
  DEF Recording, Deadlock, Fails

(* A committed trade stays as it is; a trade of a serializable transaction   *)
(* is committed before the later ones, or with them.                        *)
LEMMA CommitsInOrder ==
  ASSUME RecordingInv, RecordingNext, NEW i \in Ids
  PROVE  /\ Committed(i) => rows'[i] = rows[i]
         /\ Committed(i)' /\ ~Committed(i) /\ rows'[i].serial =>
              \A j \in Ids : j > i => ~Committed(j)
<1> USE DEF RecordingInv, RecordingTypeOK, Committed
<1>1. ASSUME rows[i].state = "inserted", rows[i].serial, NEW j \in Ids, j > i
      PROVE  ~Committed(j)
  <2>1. PICK w \in Workers : i \in tx[w].trades
    BY <1>1 DEF TradesOwned
  <2>2. tx[w].at \in {"record", "post"} /\ tx[w].serial
    BY <1>1, <2>1 DEF TradesOwned
  <2>3. SUFFICES ASSUME Committed(j) PROVE FALSE
    OBVIOUS
  <2>4. rows[j] # NoTrade /\ rows[j] # RolledBack
    BY <2>3 DEF NoTrade, RolledBack
  <2>5. \E v \in Workers : j \in tx[v].trades
    BY <1>1, <2>1, <2>2, <2>4 DEF LaterTradesWait, Given
  <2> QED
    BY <2>3, <2>5 DEF TradesOwned
<1>2. PICK w \in Workers : Begin(w) \/ Record(w) \/ Recording(w) \/ Fails(w)
  BY DEF RecordingNext
<1>3. CASE rows' = rows
  BY <1>3
<1>4. CASE Record(w)
  BY <1>4 DEF Record, Given, NoTrade
<1>5. CASE Rollback(w)
  BY <1>5 DEF Rollback, Ends, TradesOwned, RolledBack
<1>6. CASE Commit(w)
  <2>1. CASE i \in tx[w].trades
    <3>1. rows[i].state = "inserted" /\ rows[i] \in Trades
      BY <2>1, TradeStates DEF TradesOwned
    <3>2. rows'[i] = [rows[i] EXCEPT !.state = "committed"]
      BY <1>6, <2>1 DEF Commit, Ends
    <3>3. rows'[i].serial = rows[i].serial
      BY <3>1, <3>2 DEF Trades
    <3> QED
      BY <1>1, <3>1, <3>3
  <2>2. CASE i \notin tx[w].trades
    BY <1>6, <2>2 DEF Commit, Ends
  <2> QED
    BY <2>1, <2>2
<1> QED
  BY <1>2, <1>3, <1>4, <1>5, <1>6
  DEF Begin, Recording, ReadBalances, PostOperations, Deadlock, Fails

-----------------------------------------------------------------------------
(* What a run knows of users and trades.                                    *)

(* A run that is not in its block remembers nothing.                        *)
OutsideFresh == \A r \in Runs : at[r] # "block" => run[r] = Fresh

AboutUser(r) == run[r].step \in {"sales", "mail", "update"}

(* The copies of users still are what the rows say, and one run has one of   *)
(* each.                                                                    *)
CopiesCurrent ==
  \A r \in Runs :
    /\ \A c \in run[r].todo : c.last = last[c.id]
    /\ \A c, d \in run[r].todo : c.id = d.id => c = d
    /\ AboutUser(r) =>
         /\ run[r].copy \in Copies
         /\ run[r].copy.last = last[User(r)]
         /\ \A c \in run[r].todo : c.id # User(r)

(* What a run has found is committed, and news to the user.                  *)
NewsAreNew ==
  \A r \in Runs : AboutUser(r) =>
    /\ \A i \in run[r].purchases : PurchaseOf(i, User(r)) /\ i > last[User(r)]
    /\ \A i \in run[r].sales : SaleOf(i, User(r)) /\ i > last[User(r)]
    /\ run[r].step \in {"mail", "update"} => News(r) # {}

(* What the queries have not found comes after all they have found, or was   *)
(* not recorded by a serializable transaction.                              *)
QueriesComplete ==
  \A r \in Runs : AboutUser(r) =>
    \A i \in Ids : i > last[User(r)] /\ Committed(i) /\ rows[i].serial =>
      /\ \A m \in run[r].purchases :
           i < m /\ PurchaseOf(i, User(r)) => i \in run[r].purchases
      /\ run[r].step \in {"mail", "update"} =>
           \A m \in News(r) : i < m /\ SaleOf(i, User(r)) => i \in run[r].sales

NewsMailed ==
  \A r \in Runs : run[r].step = "update" =>
    \A i \in News(r) : mails[User(r)][i] > 0

(* What was noted of a user is a committed trade.                            *)
LastCommitted == \A u \in Users : last[u] = 0 \/ Committed(last[u])

(* What a run has mailed and not noted, it will note.                        *)
Noting(r, u, i) == run[r].step = "update" /\ User(r) = u /\ i \in News(r)

(* A trade above the noted one was mailed by interrupted runs alone, unless  *)
(* it is about to be noted.                                                 *)
RepeatsExplained ==
  \A u \in Users, i \in Ids :
    /\ mails[u][i] <= 1 + failures + kills
    /\ i > last[u] /\ (\A r \in Runs : ~Noting(r, u, i)) =>
         mails[u][i] <= failures + kills

NewsInv ==
  /\ NotificationsTypeOK
  /\ RecordingInv
  /\ LockInv
  /\ OutsideFresh
  /\ CopiesCurrent
  /\ NewsAreNew
  /\ QueriesComplete
  /\ NewsMailed
  /\ LastCommitted
  /\ RepeatsExplained
  /\ MissedOnlyInRaces

LEMMA FreshMemory ==
  /\ Fresh \in Memories /\ Fresh.step = "load" /\ Fresh.todo = {}
  /\ Fresh.purchases = {} /\ Fresh.sales = {} /\ Fresh.copy = NoCopy
BY DEF Fresh, Memories

LEMMA NewsInvInit == Init => NewsInv
<1> SUFFICES ASSUME Init PROVE NewsInv
  OBVIOUS
<1>1. RecordingInv /\ LockInv
  BY RecordingInvInit, LockInvInit DEF Init
<1>2. \A r \in Runs : run[r] = Fresh
  BY DEF Init
<1>3. NotificationsTypeOK
  BY <1>1, <1>2, FreshMemory, NotificationsAssumption
  DEF Init, NotificationsTypeOK, LockInv, RecordingInv
<1>4. OutsideFresh /\ CopiesCurrent /\ NewsAreNew /\ QueriesComplete /\ NewsMailed
  BY <1>2, FreshMemory
  DEF OutsideFresh, CopiesCurrent, NewsAreNew, QueriesComplete, NewsMailed,
      AboutUser
<1>5. LastCommitted
  BY DEF Init, LastCommitted
<1>6. RepeatsExplained
  BY DEF Init, LockInit, RepeatsExplained
<1>7. MissedOnlyInRaces
  BY DEF Init, RecordingInit, MissedOnlyInRaces, Missed, PurchaseOf, SaleOf,
         Committed, NoTrade
<1> QED
  BY <1>1, <1>3, <1>4, <1>5, <1>6, <1>7 DEF NewsInv

(* The task uses the lock of Lockfile.                                      *)
LEMMA NotificationLockSteps == [Next]_vars => [LockNext]_lockVars
<1> SUFFICES ASSUME [Next]_vars PROVE [LockNext]_lockVars
  OBVIOUS
<1>1. CASE UNCHANGED lockVars
  BY <1>1
<1>2. ASSUME NEW r \in Runs, LeaveBlock(r) \/ Kill(r) PROVE LockNext
  BY <1>2 DEF LockNext
<1>3. CASE Locking
  BY <1>3 DEF Locking, LockNext
<1>4. CASE UNCHANGED vars
  BY <1>4 DEF vars, lockVars
<1> QED
  BY <1>1, <1>2, <1>3, <1>4
  DEF Next, Trading, Notify, Load, QueryPurchases, QuerySales, Mail, NoteLast,
      Finish, MailRefused, Fail, KillRun, Inside

(* Trades are recorded and committed while runs are anywhere.                *)
LEMMA NewsInvTrading ==
  ASSUME NewsInv, Trading
  PROVE  NewsInv'
<1> USE DEF NewsInv, NotificationsTypeOK, RecordingInv
<1>1. UNCHANGED <<lockVars, last, mails, run, failures>> /\ RecordingNext
  BY DEF Trading
<1>2. RecordingInv'
  BY <1>1, RecordingInvStep
<1>3. LockInv' /\ LockTypeOK'
  BY <1>1
  DEF LockInv, LockTypeOK, OneTaker, HolderHasFile, CreatorAlone, RemoverRight,
      MutualExclusion, Holds, lockVars
<1>4. NotificationsTypeOK'
  BY <1>1, <1>2, <1>3
<1>5. OutsideFresh' /\ CopiesCurrent' /\ NewsMailed' /\ RepeatsExplained'
  BY <1>1
  DEF OutsideFresh, CopiesCurrent, NewsMailed, RepeatsExplained, Noting, News,
      User, AboutUser, lockVars
<1>6. \A i \in Ids : Committed(i) => rows'[i] = rows[i]
  BY <1>1, CommitsInOrder
<1>7. \A i \in Ids : Committed(i)' /\ ~Committed(i) /\ rows'[i].serial =>
        \A j \in Ids : j > i => ~Committed(j)
  BY <1>1, CommitsInOrder
<1>8. LastCommitted'
  BY <1>1, <1>6 DEF LastCommitted, Committed
<1>9. \A r \in Runs : run[r].purchases \subseteq Ids /\ run[r].sales \subseteq Ids
  BY DEF Memories
<1>10. NewsAreNew'
  BY <1>1, <1>6, <1>9
  DEF NewsAreNew, PurchaseOf, SaleOf, Committed, AboutUser, User, News
<1>11. QueriesComplete'
  <2> SUFFICES ASSUME NEW r \in Runs, AboutUser(r), NEW i \in Ids,
                      i > last[User(r)], Committed(i)', rows'[i].serial
               PROVE  /\ \A m \in run[r].purchases :
                           i < m /\ PurchaseOf(i, User(r))' => i \in run[r].purchases
                      /\ run[r].step \in {"mail", "update"} =>
                           \A m \in News(r) :
                             i < m /\ SaleOf(i, User(r))' => i \in run[r].sales
    BY <1>1 DEF QueriesComplete, AboutUser, User, News, PurchaseOf, SaleOf
  <2>1. \A m \in News(r) : m \in Ids /\ Committed(m)
    BY <1>9 DEF NewsAreNew, News, PurchaseOf, SaleOf
  <2>2. CASE Committed(i)
    <3>1. rows'[i] = rows[i] /\ User(r)' = User(r)
      BY <1>1, <1>6, <2>2 DEF User
    <3>2. rows[i].serial /\ i > last[User(r)]
      BY <3>1
    <3>3. /\ PurchaseOf(i, User(r))' => PurchaseOf(i, User(r))
          /\ SaleOf(i, User(r))' => SaleOf(i, User(r))
      BY <2>2, <3>1 DEF PurchaseOf, SaleOf
    <3> QED
      BY <2>2, <3>2, <3>3 DEF QueriesComplete
  <2>3. CASE ~Committed(i)
    <3>1. \A m \in News(r) : ~ (i < m)
      BY <1>7, <2>1, <2>3, IdsAreNumbers
    <3> QED
      BY <3>1 DEF News
  <2> QED
    BY <2>2, <2>3
<1>12. MissedOnlyInRaces'
  <2> SUFFICES ASSUME NEW u \in Users, NEW i \in Ids, Missed(i, u)', rows'[i].serial
               PROVE  rows'[i].buyer = u /\ \E j \in Ids : /\ j > i
                                                           /\ SaleOf(j, u)'
                                                           /\ mails[u][j] > 0
    BY <1>1 DEF MissedOnlyInRaces
  <2>1. Committed(i)' /\ i <= last[u] /\ mails[u][i] = 0
    BY <1>1 DEF Missed, PurchaseOf, SaleOf
  <2>2. last[u] \in Ids /\ Committed(last[u])
    BY <2>1, IdsAreNumbers DEF LastCommitted
  <2>3. Committed(i)
    <3>1. CASE i = last[u]
      BY <2>2, <3>1
    <3>2. CASE i # last[u]
      <4>1. i \in Nat /\ last[u] \in Nat
        BY <2>2, IdsAreNumbers
      <4> HIDE DEF NewsInv
      <4>2. last[u] > i
        BY <2>1, <3>2, <4>1
      <4> QED
        BY <1>7, <2>1, <2>2, <4>2
    <3> QED
      BY <3>1, <3>2
  <2>4. rows'[i] = rows[i] /\ Missed(i, u)
    BY <1>1, <1>6, <2>3 DEF Missed, PurchaseOf, SaleOf, Committed
  <2> QED
    BY <1>6, <2>4 DEF MissedOnlyInRaces, SaleOf, Committed
<1> QED
  BY <1>2, <1>3, <1>4, <1>5, <1>8, <1>10, <1>11, <1>12

(* A run moves on, with the other runs outside their blocks.                 *)
LEMMA OthersFresh ==
  ASSUME NewsInv, NEW r \in Runs, at[r] = "block"
  PROVE  \A s \in Runs : s # r => run[s] = Fresh
BY DEF NewsInv, LockInv, MutualExclusion, Holds, OutsideFresh

(* A mail counts once for each trade in it.                                 *)
LEMMA DeliveredCounts ==
  ASSUME mails \in [Users -> [Ids -> 0..Cap]], NEW r \in Runs, Delivered(r)
  PROVE  /\ mails' \in [Users -> [Ids -> 0..Cap]]
         /\ \A u \in Users, i \in Ids :
              mails'[u][i] = IF u = User(r) /\ i \in News(r) /\ mails[u][i] < Cap
                             THEN mails[u][i] + 1 ELSE mails[u][i]
<1> DEFINE told == [i \in Ids |->
             IF i \in News(r) /\ mails[User(r)][i] < Cap
             THEN mails[User(r)][i] + 1 ELSE mails[User(r)][i]]
<1>1. mails' = [mails EXCEPT ![User(r)] = told]
  BY Zenon DEF Delivered
<1>2. ASSUME User(r) \in Users PROVE told \in [Ids -> 0..Cap]
  <2>1. \A i \in Ids : mails[User(r)][i] \in 0..Cap
    BY <1>2
  <2>2. \A n \in 0..Cap : n < Cap => n + 1 \in 0..Cap
    BY NotificationsAssumption
  <2> QED
    BY <2>1, <2>2
<1> QED
  BY <1>1, <1>2

(* A run ends: it forgets what it has found.                                *)
LEMMA NewsInvEnds ==
  ASSUME NewsInv, LockInv', NEW r \in Runs,
         Finish(r) \/ MailRefused(r) \/ Fail(r) \/ KillRun(r)
  PROVE  NewsInv'
<1> USE DEF NewsInv, NotificationsTypeOK, RecordingInv
<1>1. /\ run' = [run EXCEPT ![r] = Fresh]
      /\ rows' = rows /\ tx' = tx /\ last' = last
      /\ failures' \in Nat
  BY NotificationsAssumption
  DEF Finish, MailRefused, Fail, KillRun, Apart, recording
<1>2. \A s \in Runs : run'[s] = Fresh \/ run'[s] = run[s]
  BY <1>1
<1>3. \A s \in Runs : s # r => at'[s] = at[s] /\ run'[s] = run[s]
  BY <1>1
  DEF Finish, MailRefused, Fail, KillRun, LeaveBlock, Kill, Goto, LockTypeOK
<1>4. RecordingInv'
  BY <1>1
  DEF RecordingTypeOK, TradesOwned, IdsInOrder, LaterTradesWait, Given
<1>5. /\ mails' \in [Users -> [Ids -> 0..Cap]]
      /\ \A u \in Users, i \in Ids :
           /\ mails[u][i] \in Nat /\ mails'[u][i] \in Nat
           /\ mails[u][i] <= mails'[u][i]
           /\ mails'[u][i] # mails[u][i] =>
                /\ mails'[u][i] = mails[u][i] + 1
                /\ at[r] = "block" /\ run[r].step = "mail"
                /\ User(r) = u /\ i \in News(r)
                /\ Fail(r)
  <2>1. CASE mails' = mails
    BY <2>1, NotificationsAssumption
  <2>2. CASE Delivered(r) /\ Fail(r)
    BY <2>2, DeliveredCounts, NotificationsAssumption DEF Delivered, Running
  <2> QED
    BY <2>1, <2>2 DEF Finish, MailRefused, Fail, KillRun, Apart
<1>6. NotificationsTypeOK'
  BY <1>1, <1>4, <1>5, FreshMemory DEF LockInv
<1>7. OutsideFresh'
  BY <1>1, <1>3 DEF OutsideFresh
<1>8. (CopiesCurrent /\ NewsAreNew /\ QueriesComplete /\ LastCommitted)'
  BY <1>1, <1>2, FreshMemory
  DEF CopiesCurrent, NewsAreNew, QueriesComplete, LastCommitted, AboutUser,
      PurchaseOf, SaleOf, Committed, User, News
<1>9. NewsMailed'
  <2> SUFFICES ASSUME NEW s \in Runs, run[s].step = "update", NEW i \in News(s)
               PROVE  mails'[User(s)][i] > 0
    BY <1>2, FreshMemory DEF NewsMailed, News, User
  <2>1. User(s) \in Users /\ i \in Ids
    BY DEF User, News, CopiesCurrent, AboutUser, Copies, Memories
  <2>2. mails[User(s)][i] > 0
    BY DEF NewsMailed
  <2> HIDE DEF NewsInv
  <2> QED
    BY <1>5, <2>1, <2>2
<1>10. MissedOnlyInRaces'
  <2> SUFFICES ASSUME NEW u \in Users, NEW i \in Ids, Missed(i, u)', rows[i].serial
               PROVE  rows[i].buyer = u /\ \E j \in Ids : /\ j > i
                                                          /\ SaleOf(j, u)'
                                                          /\ mails'[u][j] > 0
    BY <1>1 DEF MissedOnlyInRaces
  <2>1. Missed(i, u)
    <3>1. mails'[u][i] = 0 /\ mails[u][i] <= mails'[u][i] /\ mails[u][i] \in Nat
      BY <1>5 DEF Missed
    <3>2. mails[u][i] = 0
      BY <3>1
    <3> QED
      BY <1>1, <3>2 DEF Missed, PurchaseOf, SaleOf, Committed
  <2>2. PICK j \in Ids : j > i /\ SaleOf(j, u) /\ mails[u][j] > 0
    BY <2>1 DEF MissedOnlyInRaces
  <2>3. mails[u][j] <= mails'[u][j] /\ mails[u][j] \in Nat /\ mails'[u][j] \in Nat
    BY <1>5
  <2>4. mails'[u][j] > 0
    BY <2>2, <2>3
  <2> QED
    BY <1>1, <2>1, <2>2, <2>4 DEF MissedOnlyInRaces, SaleOf, Committed
<1>11. failures \in Nat /\ kills \in Nat /\ failures' \in Nat /\ kills' \in Nat
  BY <1>6, LockfileAssumption DEF LockTypeOK
<1>12. RepeatsExplained'
  <2> SUFFICES ASSUME NEW u \in Users, NEW i \in Ids
               PROVE  /\ mails'[u][i] <= 1 + failures' + kills'
                      /\ i > last[u] /\ (\A s \in Runs : ~Noting(s, u, i)') =>
                           mails'[u][i] <= failures' + kills'
    BY <1>1 DEF RepeatsExplained
  <2>1. mails[u][i] <= 1 + failures + kills
    BY DEF RepeatsExplained
  <2>2. CASE Fail(r) \/ KillRun(r)
    <3>1. failures' + kills' = failures + kills + 1
      <4>1. CASE Fail(r)
        BY <1>11, <4>1 DEF Fail, LeaveBlock
      <4>2. CASE KillRun(r)
        BY <1>11, <4>2 DEF KillRun, Kill
      <4> QED
        BY <2>2, <4>1, <4>2
    <3>2. mails'[u][i] <= failures + kills + 1
      <4>1. CASE mails'[u][i] = mails[u][i]
        <5> HIDE DEF NewsInv
        <5> QED
          BY <1>5, <1>11, <2>1, <4>1
      <4>2. CASE mails'[u][i] # mails[u][i]
        <5>1. /\ at[r] = "block" /\ run[r].step = "mail"
              /\ User(r) = u /\ i \in News(r)
          BY <1>5, <4>2
        <5>2. i > last[u]
          BY <5>1 DEF NewsAreNew, AboutUser, News
        <5>3. \A s \in Runs : ~Noting(s, u, i)
          BY <5>1, OthersFresh, FreshMemory DEF Noting
        <5>4. mails[u][i] <= failures + kills
          BY <5>2, <5>3 DEF RepeatsExplained
        <5> HIDE DEF NewsInv
        <5> QED
          BY <1>5, <1>11, <4>2, <5>4
      <4> QED
        BY <4>1, <4>2
    <3> HIDE DEF NewsInv
    <3> QED
      BY <1>5, <1>11, <3>1, <3>2
  <2>3. CASE Finish(r) \/ MailRefused(r)
    <3>1. failures' = failures /\ kills' = kills
      BY <2>3 DEF Finish, MailRefused, LeaveBlock
    <3>2. mails'[u][i] = mails[u][i]
      BY <2>3 DEF Finish, MailRefused, Apart
    <3>3. run[r].step # "update"
      BY <2>3 DEF Finish, MailRefused, Running
    <3>4. \A s \in Runs : Noting(s, u, i) => Noting(s, u, i)'
      BY <1>3, <3>3 DEF Noting, User, News
    <3> QED
      BY <2>1, <3>1, <3>2, <3>4 DEF RepeatsExplained
  <2> QED
    BY <2>2, <2>3
<1> QED
  BY <1>4, <1>6, <1>7, <1>8, <1>9, <1>10, <1>12

(* A run looks at users and trades.                                         *)
LEMMA NewsInvLooks ==
  ASSUME NewsInv, LockInv', NEW r \in Runs,
         Load(r) \/ QueryPurchases(r) \/ QuerySales(r)
  PROVE  NewsInv'
<1> USE DEF NewsInv, NotificationsTypeOK, RecordingInv
<1>1. /\ UNCHANGED <<lockVars, recording, last, mails, failures>>
      /\ at[r] = "block"
  BY DEF Load, QueryPurchases, QuerySales, Inside, Running
<1>2. at' = at /\ kills' = kills /\ rows' = rows /\ tx' = tx
  BY <1>1 DEF lockVars, recording
<1>3. \A s \in Runs : s # r => run'[s] = run[s] /\ run[s] = Fresh
  BY <1>1, OthersFresh DEF Load, QueryPurchases, QuerySales
<1>4. RecordingInv'
  BY <1>2
  DEF RecordingTypeOK, TradesOwned, IdsInOrder, LaterTradesWait, Given
<1>5. LastCommitted' /\ MissedOnlyInRaces'
  BY <1>1, <1>2
  DEF LastCommitted, MissedOnlyInRaces, Missed, PurchaseOf, SaleOf, Committed
<1>6. /\ run[r].step \in {"load", "purchases", "sales"}
      /\ run'[r].step \in {"purchases", "sales", "mail"}
      /\ run' \in [Runs -> Memories]
      /\ run[r] \in Memories
  <2>1. CASE Load(r)
    <3>1. {[id |-> u, last |-> last[u]] : u \in Users} \subseteq Copies
      BY DEF Copies
    <3> DEFINE m == [run[r] EXCEPT !.step = "purchases",
                       !.todo = {[id |-> u, last |-> last[u]] : u \in Users}]
    <3>2. run' = [run EXCEPT ![r] = m]
      BY <2>1 DEF Load
    <3>3. run[r] \in Memories /\ m \in Memories /\ m.step = "purchases"
      BY <3>1 DEF Memories
    <3> HIDE DEF m
    <3> QED
      BY <2>1, <3>2, <3>3 DEF Load, Running
  <2>2. CASE QueryPurchases(r)
    BY <2>2 DEF QueryPurchases, Running, Memories
  <2>3. CASE QuerySales(r)
    <3>1. PICK sales \in SUBSET Ids, step \in {"purchases", "mail"} :
            run' = [run EXCEPT ![r].sales = sales, ![r].step = step]
      BY <2>3 DEF QuerySales
    <3> DEFINE m == [run[r] EXCEPT !.sales = sales, !.step = step]
    <3>2. run' = [run EXCEPT ![r] = m]
      BY <3>1
    <3>3. run[r] \in Memories /\ m \in Memories /\ m.step = step
      BY DEF Memories
    <3> HIDE DEF m
    <3> QED
      BY <2>3, <3>2, <3>3 DEF QuerySales, Running
  <2> QED
    BY <2>1, <2>2, <2>3
<1>7. NotificationsTypeOK'
  BY <1>1, <1>4, <1>6 DEF LockInv
<1>8. OutsideFresh'
  BY <1>1, <1>2, <1>3 DEF OutsideFresh
<1>9. NewsMailed'
  BY <1>3, <1>6, FreshMemory DEF NewsMailed
<1>10. RepeatsExplained'
  <2>1. \A s \in Runs : run[s].step # "update" /\ run'[s].step # "update"
    BY <1>3, <1>6, FreshMemory
  <2> QED
    BY <1>1, <1>2, <2>1 DEF RepeatsExplained, Noting
<1>11. \A i \in Ids : \A u : /\ PurchaseOf(i, u)' <=> PurchaseOf(i, u)
                             /\ SaleOf(i, u)' <=> SaleOf(i, u)
                             /\ Committed(i)' <=> Committed(i)
  BY <1>2 DEF PurchaseOf, SaleOf, Committed
<1>12. (CopiesCurrent /\ NewsAreNew /\ QueriesComplete)'
  <2>1. CASE Load(r)
    <3>1. /\ run'[r].step = "purchases"
          /\ run'[r].todo = {[id |-> u, last |-> last[u]] : u \in Users}
      BY <1>6, <2>1 DEF Load, Memories
    <3>2. CopiesCurrent'
      BY <1>1, <1>3, <3>1, FreshMemory DEF CopiesCurrent, AboutUser
    <3> QED
      BY <1>3, <3>1, <3>2, FreshMemory DEF NewsAreNew, QueriesComplete, AboutUser
  <2>2. CASE QueryPurchases(r)
    <3>1. PICK c \in run[r].todo :
            run'[r] = [step |-> "sales", copy |-> c, todo |-> run[r].todo \ {c},
                       sales |-> {},
                       purchases |-> {i \in Ids : PurchaseOf(i, c.id) /\ i > c.last}]
      BY <2>2 DEF QueryPurchases
    <3>2. c \in Copies /\ c.last = last[c.id]
      BY <1>6, <3>1 DEF Memories, CopiesCurrent
    <3>3. CopiesCurrent'
      <4>1. \A d \in run'[r].todo : d.last = last[d.id] /\ d.id # c.id
        BY <3>1 DEF CopiesCurrent
      <4>2. \A d, e \in run'[r].todo : d.id = e.id => d = e
        BY <3>1 DEF CopiesCurrent
      <4> QED
        BY <1>1, <1>3, <3>1, <3>2, <4>1, <4>2, FreshMemory
        DEF CopiesCurrent, AboutUser, User
    <3>4. NewsAreNew'
      BY <1>1, <1>3, <1>11, <3>1, <3>2, FreshMemory
      DEF NewsAreNew, AboutUser, User
    <3>5. QueriesComplete'
      BY <1>1, <1>3, <1>11, <3>1, <3>2, FreshMemory
      DEF QueriesComplete, AboutUser, User
    <3> QED
      BY <3>3, <3>4, <3>5
  <2>3. CASE QuerySales(r)
    <3> DEFINE sales == {i \in Ids : SaleOf(i, User(r)) /\ i > run[r].copy.last}
    <3>1. /\ run'[r].copy = run[r].copy /\ run'[r].todo = run[r].todo
          /\ run'[r].purchases = run[r].purchases /\ run'[r].sales = sales
          /\ run'[r].step = IF run[r].purchases \cup sales = {}
                            THEN "purchases" ELSE "mail"
      BY <1>6, <2>3 DEF QuerySales, Memories
    <3>2. User(r)' = User(r) /\ AboutUser(r) /\ run[r].copy.last = last[User(r)]
      BY <2>3, <3>1 DEF User, AboutUser, QuerySales, Running, CopiesCurrent
    <3>3. CopiesCurrent'
      <4>1. \A d \in run'[r].todo : d.last = last[d.id] /\ d.id # User(r)
        BY <3>1, <3>2 DEF CopiesCurrent
      <4> QED
        BY <1>1, <1>3, <3>1, <3>2, <4>1, FreshMemory
        DEF CopiesCurrent, AboutUser, User
    <3>4. NewsAreNew'
      <4>1. /\ \A i \in run[r].purchases : PurchaseOf(i, User(r)) /\ i > last[User(r)]
            /\ \A i \in sales : SaleOf(i, User(r)) /\ i > last[User(r)]
            /\ run[r].purchases \subseteq Ids
        BY <1>6, <3>2 DEF NewsAreNew, Memories
      <4>2. News(r)' = run[r].purchases \cup sales
        BY <3>1 DEF News
      <4>3. last' = last /\ \A i \in Ids :
              /\ PurchaseOf(i, User(r)) => PurchaseOf(i, User(r))'
              /\ SaleOf(i, User(r)) => SaleOf(i, User(r))'
        BY <1>1, <1>11, <3>2
      <4>4. sales \subseteq Ids
        OBVIOUS
      <4>5. \A s \in Runs : s # r => ~AboutUser(s)'
        BY <1>3, FreshMemory DEF AboutUser
      <4> HIDE DEF sales, NewsInv
      <4> QED
        BY <3>1, <3>2, <4>1, <4>2, <4>3, <4>4, <4>5 DEF NewsAreNew
    <3>5. QueriesComplete'
      <4>1. \A i \in Ids : i > last[User(r)] /\ Committed(i) /\ rows[i].serial =>
              \A m \in run[r].purchases :
                i < m /\ PurchaseOf(i, User(r)) => i \in run[r].purchases
        BY <3>2 DEF QueriesComplete
      <4>2. \A i \in Ids : i > last[User(r)] /\ SaleOf(i, User(r)) => i \in sales
        BY <3>2
      <4> HIDE DEF sales
      <4> QED
        BY <1>1, <1>2, <1>3, <1>11, <3>1, <3>2, <4>1, <4>2, FreshMemory
        DEF QueriesComplete, AboutUser
    <3> QED
      BY <3>3, <3>4, <3>5
  <2> QED
    BY <2>1, <2>2, <2>3
<1> QED
  BY <1>4, <1>5, <1>7, <1>8, <1>9, <1>10, <1>12

(* A run mails a user.                                                      *)
LEMMA NewsInvMails ==
  ASSUME NewsInv, LockInv', NEW r \in Runs, Mail(r)
  PROVE  NewsInv'
<1> USE DEF NewsInv, NotificationsTypeOK, RecordingInv
<1>1. /\ UNCHANGED <<lockVars, recording, last, failures>>
      /\ at[r] = "block" /\ run[r].step = "mail"
      /\ run' = [run EXCEPT ![r].step = "update"]
  BY DEF Mail, Delivered, Inside, Running
<1>2. at' = at /\ kills' = kills /\ rows' = rows /\ tx' = tx
  BY <1>1 DEF lockVars, recording
<1>3. \A s \in Runs : s # r => run'[s] = run[s] /\ run[s] = Fresh
  BY <1>1, OthersFresh
<1>4. /\ run'[r].step = "update" /\ run'[r].copy = run[r].copy
      /\ run'[r].todo = run[r].todo /\ run'[r].purchases = run[r].purchases
      /\ run'[r].sales = run[r].sales
      /\ run' \in [Runs -> Memories]
  BY <1>1 DEF Memories
<1>5. /\ AboutUser(r) /\ AboutUser(r)' /\ User(r)' = User(r) /\ News(r)' = News(r)
      /\ \A s \in Runs : s # r => ~AboutUser(s)' /\ ~AboutUser(s)
  BY <1>1, <1>3, <1>4, FreshMemory DEF AboutUser, User, News
<1>6. /\ mails' \in [Users -> [Ids -> 0..Cap]]
      /\ \A u \in Users, i \in Ids :
           mails'[u][i] = IF u = User(r) /\ i \in News(r) /\ mails[u][i] < Cap
                          THEN mails[u][i] + 1 ELSE mails[u][i]
  BY DeliveredCounts DEF Mail
<1>7. \A u \in Users, i \in Ids :
        /\ mails[u][i] \in Nat /\ mails'[u][i] \in Nat
        /\ mails[u][i] <= mails'[u][i] /\ mails'[u][i] <= mails[u][i] + 1
        /\ u = User(r) /\ i \in News(r) => mails'[u][i] > 0
  <2> SUFFICES ASSUME NEW u \in Users, NEW i \in Ids
               PROVE  /\ mails[u][i] \in Nat /\ mails'[u][i] \in Nat
                      /\ mails[u][i] <= mails'[u][i]
                      /\ mails'[u][i] <= mails[u][i] + 1
                      /\ u = User(r) /\ i \in News(r) => mails'[u][i] > 0
    OBVIOUS
  <2>1. mails[u][i] \in 0..Cap
    OBVIOUS
  <2>2. mails'[u][i] = IF u = User(r) /\ i \in News(r) /\ mails[u][i] < Cap
                       THEN mails[u][i] + 1 ELSE mails[u][i]
    BY <1>6
  <2> HIDE DEF NewsInv
  <2> QED
    BY <2>1, <2>2, NotificationsAssumption
<1>8. RecordingInv'
  BY <1>2
  DEF RecordingTypeOK, TradesOwned, IdsInOrder, LaterTradesWait, Given
<1>9. NotificationsTypeOK'
  BY <1>1, <1>4, <1>6, <1>8 DEF LockInv
<1>10. OutsideFresh'
  BY <1>1, <1>2, <1>3 DEF OutsideFresh
<1>11. CopiesCurrent'
  BY <1>1, <1>3, <1>4, <1>5, FreshMemory DEF CopiesCurrent
<1>12. NewsAreNew'
  BY <1>1, <1>2, <1>3, <1>4, <1>5
  DEF NewsAreNew, PurchaseOf, SaleOf, Committed
<1>13. QueriesComplete'
  BY <1>1, <1>2, <1>3, <1>4, <1>5
  DEF QueriesComplete, PurchaseOf, SaleOf, Committed
<1>14. User(r) \in Users /\ News(r) \subseteq Ids
  BY <1>5 DEF User, News, CopiesCurrent, Copies, Memories
<1>15. NewsMailed'
  BY <1>3, <1>5, <1>7, <1>14, FreshMemory DEF NewsMailed
<1>16. LastCommitted'
  BY <1>1, <1>2 DEF LastCommitted, Committed
<1>17. MissedOnlyInRaces'
  <2> SUFFICES ASSUME NEW u \in Users, NEW i \in Ids, Missed(i, u)', rows[i].serial
               PROVE  rows[i].buyer = u /\ \E j \in Ids : /\ j > i
                                                          /\ SaleOf(j, u)'
                                                          /\ mails'[u][j] > 0
    BY <1>2 DEF MissedOnlyInRaces
  <2>1. Missed(i, u)
    <3>1. mails[u][i] = 0
      BY <1>7 DEF Missed
    <3> QED
      BY <1>1, <1>2, <3>1 DEF Missed, PurchaseOf, SaleOf, Committed
  <2>2. PICK j \in Ids : j > i /\ SaleOf(j, u) /\ mails[u][j] > 0
    BY <2>1 DEF MissedOnlyInRaces
  <2>3. mails'[u][j] > 0
    BY <1>7, <2>2
  <2> QED
    BY <1>2, <2>1, <2>2, <2>3 DEF MissedOnlyInRaces, SaleOf, Committed
<1>18. failures \in Nat /\ kills \in Nat
  BY LockfileAssumption DEF LockTypeOK
<1>19. RepeatsExplained'
  <2> SUFFICES ASSUME NEW u \in Users, NEW i \in Ids
               PROVE  /\ mails'[u][i] <= 1 + failures + kills
                      /\ i > last[u] /\ (\A s \in Runs : ~Noting(s, u, i)') =>
                           mails'[u][i] <= failures + kills
    BY <1>1, <1>2 DEF RepeatsExplained
  <2>1. \A s \in Runs : ~Noting(s, u, i)
    BY <1>1, <1>3, FreshMemory DEF Noting
  <2>2. CASE u = User(r) /\ i \in News(r)
    <3>1. i > last[u]
      BY <1>5, <2>2 DEF NewsAreNew, News
    <3>2. mails[u][i] <= failures + kills
      BY <2>1, <3>1 DEF RepeatsExplained
    <3>3. Noting(r, u, i)'
      BY <1>4, <1>5, <2>2 DEF Noting
    <3> HIDE DEF NewsInv
    <3> QED
      BY <1>7, <1>18, <3>2, <3>3
  <2>3. CASE ~ (u = User(r) /\ i \in News(r))
    <3>1. mails'[u][i] = mails[u][i]
      BY <1>6, <2>3
    <3> QED
      BY <2>1, <3>1 DEF RepeatsExplained
  <2> QED
    BY <2>2, <2>3
<1> QED
  BY <1>8, <1>9, <1>10, <1>11, <1>12, <1>13, <1>15, <1>16, <1>17, <1>19

(* A run notes the highest id it has mailed.                                *)
LEMMA NewsInvNotes ==
  ASSUME NewsInv, LockInv', NEW r \in Runs, NoteLast(r)
  PROVE  NewsInv'
<1> USE DEF NewsInv, NotificationsTypeOK, RecordingInv
<1>0. /\ \A u \in Users : last[u] \in Nat
      /\ \A i \in Ids : i \in Nat
  <2>1. \A i \in Ids : i \in Nat
    BY IdsAreNumbers
  <2>2. ASSUME NEW u \in Users PROVE last[u] \in Nat
    <3>1. last[u] \in Ids \cup {0}
      OBVIOUS
    <3> QED
      BY <2>1, <3>1
  <2> QED
    BY <2>1, <2>2
<1>1. /\ UNCHANGED <<lockVars, recording, mails, failures>>
      /\ at[r] = "block" /\ run[r].step = "update"
      /\ run' = [run EXCEPT ![r] = [Fresh EXCEPT !.step = "purchases",
                                                 !.todo = run[r].todo]]
      /\ last' = [last EXCEPT ![User(r)] = Max(News(r))]
  BY DEF NoteLast, Inside, Running
<1>2. at' = at /\ kills' = kills /\ rows' = rows /\ tx' = tx
  BY <1>1 DEF lockVars, recording
<1>3. \A s \in Runs : s # r => run'[s] = run[s] /\ run[s] = Fresh
  BY <1>1, OthersFresh
<1>4. /\ run'[r].step = "purchases" /\ run'[r].todo = run[r].todo
      /\ run' \in [Runs -> Memories]
  <2> DEFINE m == [Fresh EXCEPT !.step = "purchases", !.todo = run[r].todo]
  <2>1. m \in Memories /\ m.step = "purchases" /\ m.todo = run[r].todo
    BY FreshMemory DEF Memories, Fresh
  <2>2. run' = [run EXCEPT ![r] = m]
    BY <1>1
  <2> HIDE DEF m
  <2> QED
    BY <2>1, <2>2
<1>5. /\ User(r) \in Users /\ News(r) \subseteq Ids /\ News(r) # {}
      /\ \A i \in News(r) : i > last[User(r)] /\ Committed(i)
  BY <1>1
  DEF User, News, CopiesCurrent, NewsAreNew, Copies, Memories, AboutUser,
      PurchaseOf, SaleOf
<1> DEFINE top == Max(News(r))
<1>6. /\ top \in News(r) /\ top \in Ids
      /\ \A i \in News(r) : i <= top
  BY <1>5, MaxOfIds
<1>7. /\ last' \in [Users -> Ids \cup {0}]
      /\ last'[User(r)] = top /\ top > last[User(r)]
      /\ \A u \in Users : u # User(r) => last'[u] = last[u]
  BY <1>1, <1>5, <1>6
<1> HIDE DEF top
<1>8. RecordingInv'
  BY <1>2
  DEF RecordingTypeOK, TradesOwned, IdsInOrder, LaterTradesWait, Given
<1>9. NotificationsTypeOK'
  BY <1>1, <1>4, <1>7, <1>8 DEF LockInv
<1>10. OutsideFresh'
  BY <1>1, <1>2, <1>3 DEF OutsideFresh
<1>11. \A s \in Runs : ~AboutUser(s)' /\ run'[s].step # "update"
  BY <1>3, <1>4, FreshMemory DEF AboutUser
<1>12. CopiesCurrent'
  <2>1. run[r].todo \subseteq Copies /\ \A c \in run[r].todo : c.id # User(r)
    BY <1>1 DEF CopiesCurrent, AboutUser, Memories
  <2>2. \A c \in run[r].todo : c.last = last'[c.id]
    BY <1>7, <2>1 DEF CopiesCurrent, Copies
  <2> QED
    BY <1>3, <1>4, <1>11, <2>2, FreshMemory DEF CopiesCurrent
<1>13. (NewsAreNew /\ QueriesComplete /\ NewsMailed)'
  BY <1>11 DEF NewsAreNew, QueriesComplete, NewsMailed
<1>14. LastCommitted'
  BY <1>2, <1>5, <1>6, <1>7 DEF LastCommitted, Committed
<1>15. MissedOnlyInRaces'
  <2> SUFFICES ASSUME NEW u \in Users, NEW i \in Ids, Missed(i, u)', rows[i].serial
               PROVE  rows[i].buyer = u /\ \E j \in Ids : /\ j > i
                                                          /\ SaleOf(j, u)
                                                          /\ mails[u][j] > 0
    BY <1>1, <1>2 DEF MissedOnlyInRaces, SaleOf, Committed
  <2>1. /\ PurchaseOf(i, u) \/ SaleOf(i, u)
        /\ i <= last'[u] /\ mails[u][i] = 0
    BY <1>1, <1>2 DEF Missed, PurchaseOf, SaleOf, Committed
  <2>2. CASE i <= last[u]
    BY <2>1, <2>2 DEF MissedOnlyInRaces, Missed
  <2>3. CASE ~ (i <= last[u])
    <3>1. u = User(r) /\ i <= top
      BY <1>7, <2>1, <2>3
    <3>2. i > last[u] /\ i \in Nat /\ top \in Nat
      <4>1. i \in Nat /\ top \in Nat /\ last[u] \in Nat
        BY <1>0, <1>6
      <4> HIDE DEF NewsInv
      <4> QED
        BY <2>3, <4>1
    <3>3. i \notin News(r)
      BY <1>1, <2>1, <3>1 DEF NewsMailed
    <3>4. i < top
      <4> HIDE DEF NewsInv
      <4> QED
        BY <1>6, <3>1, <3>2, <3>3
    <3>5. Committed(i) /\ AboutUser(r)
      BY <1>1, <2>1 DEF PurchaseOf, SaleOf, AboutUser
    <3>6. ~SaleOf(i, u)
      BY <1>1, <1>6, <3>1, <3>2, <3>3, <3>4, <3>5 DEF QueriesComplete, News
    <3>7. PurchaseOf(i, u)
      BY <2>1, <3>6
    <3>8. top \notin run[r].purchases
      BY <3>1, <3>2, <3>3, <3>4, <3>5, <3>7 DEF QueriesComplete, News
    <3>9. SaleOf(top, u) /\ mails[u][top] > 0
      BY <1>1, <1>6, <3>1, <3>5, <3>8 DEF NewsAreNew, NewsMailed, News
    <3> QED
      BY <1>6, <3>4, <3>7, <3>9 DEF PurchaseOf
  <2> QED
    BY <2>2, <2>3
<1>16. RepeatsExplained'
  <2> SUFFICES ASSUME NEW u \in Users, NEW i \in Ids
               PROVE  /\ mails[u][i] <= 1 + failures + kills
                      /\ i > last'[u] => mails[u][i] <= failures + kills
    BY <1>1, <1>2 DEF RepeatsExplained
  <2>1. ASSUME i > last'[u]
        PROVE  i > last[u] /\ \A s \in Runs : ~Noting(s, u, i)
    <3>1. \A s \in Runs : Noting(s, u, i) => s = r
      BY <1>3, FreshMemory DEF Noting
    <3>2. CASE u = User(r)
      <4>1. i \in Nat /\ top \in Nat /\ last[u] \in Nat
        BY <1>0, <1>6
      <4>2. i > last[u] /\ i \notin News(r)
        <5> HIDE DEF NewsInv
        <5> QED
          BY <1>6, <1>7, <2>1, <3>2, <4>1
      <4> QED
        BY <3>1, <4>2 DEF Noting
    <3>3. CASE u # User(r)
      BY <1>7, <2>1, <3>1, <3>3 DEF Noting
    <3> QED
      BY <3>2, <3>3
  <2> QED
    BY <2>1 DEF RepeatsExplained
<1> QED
  BY <1>8, <1>9, <1>10, <1>12, <1>13, <1>14, <1>15, <1>16

(* Cron, the lock file and time leave memories alone.                        *)
LEMMA NewsInvLocking ==
  ASSUME NewsInv, LockInv', Locking \/ UNCHANGED vars
  PROVE  NewsInv'
<1> USE DEF NewsInv, NotificationsTypeOK, RecordingInv
<1>1. UNCHANGED <<rows, tx, last, mails, run, failures>> /\ kills' = kills
  BY DEF Locking, Idling, Apart, recording, vars, lockVars, Start, Lock, Look,
         ReadCtime, RemoveOld, Check, CreateFile, Unlock, HourPasses
<1>2. \A r \in Runs : at'[r] # "block" => at[r] # "block"
  BY DEF Locking, vars, lockVars, Start, Lock, Look, ReadCtime, RemoveOld,
         Check, CreateFile, Unlock, HourPasses, Goto, LockTypeOK
<1>3. RecordingInv'
  BY <1>1
  DEF RecordingTypeOK, TradesOwned, IdsInOrder, LaterTradesWait, Given
<1>4. NotificationsTypeOK'
  BY <1>1, <1>3 DEF LockInv
<1>5. OutsideFresh'
  BY <1>1, <1>2 DEF OutsideFresh
<1>6. (CopiesCurrent /\ NewsAreNew /\ QueriesComplete /\ NewsMailed)'
  BY <1>1
  DEF CopiesCurrent, NewsAreNew, QueriesComplete, NewsMailed, AboutUser, User,
      News, PurchaseOf, SaleOf, Committed
<1>7. (LastCommitted /\ RepeatsExplained /\ MissedOnlyInRaces)'
  BY <1>1
  DEF LastCommitted, RepeatsExplained, Noting, MissedOnlyInRaces, Missed, User,
      News, PurchaseOf, SaleOf, Committed
<1> QED
  BY <1>3, <1>4, <1>5, <1>6, <1>7

LEMMA NewsInvariant == Schedule => (Spec => []NewsInv)
<1> SUFFICES ASSUME Schedule PROVE Spec => []NewsInv
  OBVIOUS
<1>1. Init => NewsInv
  BY NewsInvInit
<1>2. NewsInv /\ [Next]_vars => NewsInv'
  <2> SUFFICES ASSUME NewsInv, [Next]_vars PROVE NewsInv'
    OBVIOUS
  <2>1. LockInv'
    BY NotificationLockSteps, LockInvStep DEF NewsInv
  <2> QED
    BY <2>1, NewsInvTrading, NewsInvLocking, NewsInvLooks, NewsInvMails,
       NewsInvNotes, NewsInvEnds DEF Next, Notify
<1> QED
  BY <1>1, <1>2, PTL DEF Spec

(* If the lock keeps the runs apart, a user is told of every committed trade *)
(* that a run has passed by, but in the two races of MissedOnlyInRaces.      *)
THEOREM NoOtherTradeIsMissed == Schedule => (Spec => []MissedOnlyInRaces)
<1>1. NewsInv => MissedOnlyInRaces
  BY DEF NewsInv
<1> QED
  BY <1>1, NewsInvariant, PTL

(* If the lock keeps the runs apart, nobody is told of a trade again but by  *)
(* interrupted runs.                                                        *)
THEOREM TradesAreRepeatedByInterruptions ==
  Schedule => (Spec => []RepeatsAreInterruptions)
<1>1. NewsInv => RepeatsAreInterruptions
  BY DEF NewsInv, RepeatsExplained, RepeatsAreInterruptions
<1> QED
  BY <1>1, NewsInvariant, PTL
=============================================================================
