----------------------------- MODULE SyncProofs -----------------------------
(***************************************************************************)
(* For any outputs, accounts and runs: the synchronisation uses the lock as *)
(* Lockfile specifies it, and when the lock does its work no transaction is *)
(* credited twice to an account.  The look-up that finds nothing is made    *)
(* outside the transaction that creates the row, so the invariant says that *)
(* its answer is still true when the row is created.  Nor is a row ever     *)
(* ahead of the block chain, until that is reorganised, so that what a user *)
(* can spend is confirmed and stays so.                                     *)
(***************************************************************************)
EXTENDS BitcoinSyncProperties, PaymentCallbacks, LockfileProofs,
        FiniteSetTheorems

LEMMA SyncLockInitially == Init => LockInit
BY DEF Init

LEMMA SyncLockSteps == [Next]_vars => [LockNext]_lockVars
<1> SUFFICES ASSUME [Next]_vars PROVE [LockNext]_lockVars
  OBVIOUS
<1>1. CASE UNCHANGED lockVars
  BY <1>1
<1>2. ASSUME NEW r \in Runs, LeaveBlock(r) \/ Kill(r) PROVE LockNext
  BY <1>2 DEF LockNext
<1>3. CASE Locking
  BY <1>3 DEF Locking, LockNext
<1>4. CASE UNCHANGED vars
  BY <1>4 DEF vars, lockVars
<1> QED
  BY <1>1, <1>2, <1>3, <1>4
  DEF Next, Arrive, Block, Reorganise, Synchronize, Load, ListTransactions,
      Find, Write, Finish, Fail, KillRun

(* The runs of the synchronisation touch the lock file and their place in    *)
(* Lockfile.lock only as Lockfile.lock does.                                *)
THEOREM SyncUsesTheLock == Spec => LockSpec
BY SyncLockInitially, SyncLockSteps, PTL DEF Spec, LockSpec

-----------------------------------------------------------------------------

(* A run that writes has an entry to write.                                 *)
WritesAnOutput == \A r \in Runs : run[r].step = "write" => run[r].entry \in Outputs

TypeInv ==
  /\ SyncTypeOK
  /\ IsFiniteSet(rows)
  /\ WritesAnOutput

LEMMA FreshType == Fresh \in Memories /\ Fresh.step = "load"
BY SyncAssumption DEF Fresh, Memories, Steps, Confirmations

LEMMA TypeInitially == Init => TypeInv
BY SyncAssumption, LockfileAssumption, FreshType, FS_EmptySet
DEF Init, LockInit, TypeInv, SyncTypeOK, WritesAnOutput, LockTypeOK,
    Confirmations, Places, Taking

(* A run's new memory, when it does not go on to write.                     *)
LEMMA Remembers ==
  ASSUME TypeInv, NEW r \in Runs, NEW m \in Memories, m.step # "write",
         run' = [run EXCEPT ![r] = m]
  PROVE  run' \in [Runs -> Memories] /\ WritesAnOutput'
BY DEF TypeInv, SyncTypeOK, WritesAnOutput

LEMMA AdvanceType ==
  ASSUME TypeInv, NEW r \in Runs, Advance(r)
  PROVE  run' \in [Runs -> Memories] /\ WritesAnOutput'
<1> DEFINE m == [Fresh EXCEPT
      !.step = IF run[r].list = {} THEN "account" ELSE "find",
      !.accounts = run[r].accounts,
      !.list = run[r].list,
      !.seen = IF run[r].list = {} THEN @ ELSE run[r].seen]
<1>1. run[r] \in Memories
  BY DEF TypeInv, SyncTypeOK
<1>2. m \in Memories /\ m.step # "write"
  BY <1>1, FreshType DEF Memories, Steps, Fresh
<1>3. run' = [run EXCEPT ![r] = m]
  BY DEF Advance
<1> QED
  BY <1>2, <1>3, Remembers

LEMMA ListType ==
  ASSUME TypeInv, NEW r \in Runs, ListTransactions(r)
  PROVE  run' \in [Runs -> Memories] /\ WritesAnOutput'
<1>1. PICK a \in run[r].accounts :
        run' = [run EXCEPT ![r] =
          [Fresh EXCEPT
             !.step = IF Recent(a) = {} THEN "account" ELSE "find",
             !.accounts = run[r].accounts \ {a},
             !.list = Recent(a),
             !.seen = IF Recent(a) = {} THEN @ ELSE chain]]
  BY DEF ListTransactions
<1> DEFINE m == [Fresh EXCEPT
      !.step = IF Recent(a) = {} THEN "account" ELSE "find",
      !.accounts = run[r].accounts \ {a},
      !.list = Recent(a),
      !.seen = IF Recent(a) = {} THEN @ ELSE chain]
<1>2. run[r] \in Memories /\ chain \in [Txs -> Confirmations]
  BY DEF TypeInv, SyncTypeOK
<1>3. Recent(a) \subseteq Outputs
  BY DEF Recent, TypeInv, SyncTypeOK
<1>4. m \in Memories /\ m.step # "write"
  BY <1>2, <1>3, FreshType DEF Memories, Steps, Fresh
<1> QED
  BY <1>1, <1>4, Remembers

(* Updating rows keeps their number finite.                                 *)
LEMMA UpdateFinite ==
  ASSUME IsFiniteSet(rows), NEW r \in Runs, NEW c
  PROVE  IsFiniteSet(Update(r, c))
<1> DEFINE
      f == [row \in rows |->
              IF row.id = Newest(run[r].found)
              THEN [row EXCEPT !.confirmations = c] ELSE row]
<1>1. f \in Surjection(rows, Update(r, c))
  BY DEF Update, Surjection
<1> QED
  BY <1>1, FS_Surjection

LEMMA WriteType ==
  ASSUME TypeInv, NEW r \in Runs, Write(r)
  PROVE  rows' \subseteq Row /\ IsFiniteSet(rows')
<1>1. run[r].entry \in Outputs /\ run[r] \in Memories
  BY DEF TypeInv, SyncTypeOK, WritesAnOutput, Write, Running
<1>2. Listed(r) \in Confirmations
  BY <1>1 DEF Listed, Memories, Txs
<1>3. Create(r, Listed(r)) \subseteq Row
  <2>1. Cardinality(rows) + 1 \in Nat \ {0}
    BY FS_CardinalityType DEF TypeInv
  <2> QED
    BY <1>1, <1>2, <2>1 DEF Create, Row, TypeInv, SyncTypeOK
<1>4. Update(r, Listed(r)) \subseteq Row
  BY <1>2 DEF Update, Row, TypeInv, SyncTypeOK
<1>5. IsFiniteSet(Create(r, Listed(r)))
  BY FS_AddElement DEF Create, TypeInv
<1> QED
  BY <1>3, <1>4, <1>5, UpdateFinite DEF Write, TypeInv

LEMMA TypeStep == TypeInv /\ [Next]_vars => TypeInv'
<1> SUFFICES ASSUME TypeInv, [Next]_vars PROVE TypeInv'
  OBVIOUS
<1> USE DEF TypeInv, SyncTypeOK, WritesAnOutput, world
<1>1. LockTypeOK'
  <2>1. LockTypeOK /\ [LockNext]_lockVars => LockTypeOK'
    BY LockfileAssumption
    DEF LockTypeOK, LockNext, Start, Lock, Look, ReadCtime, RemoveOld, Check,
        CreateFile, LeaveBlock, Unlock, Kill, HourPasses, Goto, Places,
        Taking, lockVars
  <2> QED
    BY <2>1, SyncLockSteps
<1>2. ASSUME NEW t \in Txs, Arrive(t) PROVE TypeInv'
  BY <1>1, <1>2 DEF Arrive
<1>3. CASE Block
  BY <1>1, <1>3, SyncAssumption DEF Block, Confirmations
<1>4. CASE Reorganise
  BY <1>1, <1>4, SyncAssumption DEF Reorganise, Confirmations
<1>5. ASSUME NEW r \in Runs, Load(r) PROVE TypeInv'
  <2> DEFINE m == [run[r] EXCEPT !.step = "account", !.accounts = Accounts]
  <2>1. run' = [run EXCEPT ![r] = m]
    BY <1>5 DEF Load
  <2>2. m \in Memories /\ m.step # "write"
    BY DEF Memories, Steps
  <2> QED
    BY <1>1, <1>5, <2>1, <2>2, Remembers DEF Load
<1>6. ASSUME NEW r \in Runs, ListTransactions(r) PROVE TypeInv'
  BY <1>1, <1>6, ListType DEF ListTransactions
<1>7. ASSUME NEW r \in Runs, Find(r) PROVE TypeInv'
  <2>1. PICK o \in run[r].list : Lookup(r, o, Matching(o))
    BY <1>7 DEF Find
  <2>2. {row.id : row \in Matching(o)} \subseteq Nat
    BY DEF Matching, Row
  <2> DEFINE m == [run[r] EXCEPT
        !.step = "write", !.list = run[r].list \ {o}, !.entry = o,
        !.found = {row.id : row \in Matching(o)}]
  <2>3. run' = [run EXCEPT ![r] = m]
    BY <2>1 DEF Lookup
  <2>4. m \in Memories /\ m.entry \in Outputs
    BY <2>2 DEF Memories, Steps
  <2>5. /\ run' \in [Runs -> Memories]
        /\ run'[r].entry \in Outputs
        /\ \A s \in Runs : s # r => run'[s] = run[s]
    BY <2>3, <2>4
  <2> QED
    BY <1>1, <1>7, <2>5 DEF Find
<1>8. ASSUME NEW r \in Runs, Write(r) PROVE TypeInv'
  BY <1>1, <1>8, AdvanceType, WriteType DEF Write
<1>9. ASSUME NEW r \in Runs, Finish(r) \/ Fail(r) \/ KillRun(r)
      PROVE  TypeInv'
  <2>1. /\ run' = [run EXCEPT ![r] = Fresh]
        /\ UNCHANGED <<arrived, chain, reorgs, rows>>
        /\ failures' \in 0..MaxFailures
    BY <1>9, SyncAssumption DEF Finish, Fail, KillRun
  <2>2. run' \in [Runs -> Memories] /\ WritesAnOutput'
    BY <2>1, FreshType, Remembers
  <2> QED
    BY <1>1, <2>1, <2>2
<1>10. CASE Locking \/ UNCHANGED vars
  BY <1>1, <1>10 DEF Locking, vars
<1> QED
  BY <1>2, <1>3, <1>4, <1>5, <1>6, <1>7, <1>8, <1>9, <1>10
  DEF Next, Synchronize

(* Rows, memories and the chain keep their types, whatever the runs do.      *)
THEOREM SyncTypeCorrect == Spec => []SyncTypeOK
<1>1. TypeInv => SyncTypeOK
  BY DEF TypeInv
<1> QED
  BY <1>1, TypeInitially, TypeStep, PTL DEF Spec
-----------------------------------------------------------------------------
(* A run that is not in its block remembers nothing.                        *)
OutsideFresh == \A r \in Runs : at[r] # "block" => run[r] = Fresh

(* A run that found no row may create one: there still is none.              *)
AnswerStands ==
  \A r \in Runs :
    run[r].step = "write" /\ run[r].found = {} => Matching(run[r].entry) = {}

CreditInv ==
  /\ TypeInv
  /\ LockInv
  /\ OutsideFresh
  /\ AnswerStands
  /\ CreditedOncePerAccount

LEMMA CreditInvInit == Init => CreditInv
BY TypeInitially, SyncLockInitially, LockInvInit, FreshType
DEF Init, CreditInv, OutsideFresh, AnswerStands, CreditedOncePerAccount, Matching

(* Writing keeps one row for each transaction and account.                  *)
LEMMA WriteOnce ==
  ASSUME CreditInv, NEW r \in Runs, Write(r)
  PROVE  CreditedOncePerAccount'
<1> USE DEF CreditInv, CreditedOncePerAccount, Matching
<1>1. CASE run[r].found = {}
  <2> DEFINE new == [id |-> Cardinality(rows) + 1, output |-> run[r].entry,
                     confirmations |-> Listed(r)]
  <2>1. rows' = rows \cup {new} /\ new.output = run[r].entry
    BY <1>1 DEF Write, Create
  <2>2. \A row \in rows : \/ TxOf[row.output] # TxOf[new.output]
                          \/ AccountOf[row.output] # AccountOf[new.output]
    BY <1>1, <2>1 DEF Write, Running, AnswerStands
  <2> QED
    BY <2>1, <2>2
<1>2. CASE run[r].found # {}
  <2> DEFINE f(row) == IF row.id = Newest(run[r].found)
                       THEN [row EXCEPT !.confirmations = Listed(r)] ELSE row
  <2>1. rows' = {f(row) : row \in rows}
    BY <1>2 DEF Write, Update
  <2>2. \A row \in rows : f(row).output = row.output
    BY DEF TypeInv, SyncTypeOK, Row
  <2>3. ASSUME NEW x \in rows, NEW y \in rows,
               TxOf[f(x).output] = TxOf[f(y).output],
               AccountOf[f(x).output] = AccountOf[f(y).output]
        PROVE  x = y
    <3>1. x \in Matching(y.output)
      BY <2>2, <2>3
    <3> QED
      BY <3>1
  <2>4. ASSUME NEW x \in rows
        PROVE  {row \in rows' : TxOf[row.output] = TxOf[f(x).output]
                   /\ AccountOf[row.output] = AccountOf[f(x).output]} = {f(x)}
    <3>1. f(x) \in rows'
      BY <2>1
    <3>2. ASSUME NEW z \in rows', TxOf[z.output] = TxOf[f(x).output],
                 AccountOf[z.output] = AccountOf[f(x).output]
          PROVE  z = f(x)
      <4>1. PICK y \in rows : z = f(y)
        BY <2>1
      <4>2. x = y
        BY <2>3, <3>2, <4>1
      <4> QED
        BY <4>1, <4>2
    <3> HIDE DEF f
    <3> QED
      BY <3>1, <3>2
  <2> QED
    BY <2>1, <2>4
<1> QED
  BY <1>1, <1>2

(* As long as no row is written, answers stand and credits are as they were. *)
LEMMA RowsKept ==
  ASSUME CreditedOncePerAccount, rows' = rows
  PROVE  CreditedOncePerAccount' /\ \A o : Matching(o)' = Matching(o)
BY DEF CreditedOncePerAccount, Matching

LEMMA CreditInvRun ==
  ASSUME CreditInv, NEW r \in Runs, Synchronize(r) \/ Fail(r) \/ KillRun(r)
  PROVE  (OutsideFresh /\ AnswerStands /\ CreditedOncePerAccount)'
<1> USE DEF CreditInv, TypeInv, SyncTypeOK, OutsideFresh, AnswerStands
<1>1. \A s \in Runs : at[r] = "block" /\ s # r => run[s] = Fresh
  BY DEF LockInv, MutualExclusion, Holds
<1>2. CASE Load(r)
  <2>1. rows' = rows /\ at' = at /\ at[r] = "block"
    BY <1>2 DEF Load, Running, lockVars
  <2>2. /\ run'[r].step # "write"
        /\ \A s \in Runs : s # r => run'[s] = run[s]
    BY <1>2 DEF Load, Memories
  <2> QED
    BY <2>1, <2>2, RowsKept
<1>3. CASE ListTransactions(r)
  <2>1. rows' = rows /\ at' = at /\ at[r] = "block"
    BY <1>3 DEF ListTransactions, Running, lockVars
  <2>2. /\ run'[r].step # "write"
        /\ \A s \in Runs : s # r => run'[s] = run[s]
    BY <1>3, FreshType DEF ListTransactions, Memories
  <2> QED
    BY <2>1, <2>2, RowsKept
<1>4. CASE Find(r)
  <2>1. PICK o \in run[r].list : Lookup(r, o, Matching(o))
    BY <1>4 DEF Find
  <2> DEFINE m == [run[r] EXCEPT
        !.step = "write", !.list = run[r].list \ {o}, !.entry = o,
        !.found = {row.id : row \in Matching(o)}]
  <2>2. run' = [run EXCEPT ![r] = m]
    BY <2>1 DEF Lookup
  <2>3. m.entry = o /\ (m.found = {} => Matching(o) = {})
    <3>1. run[r] \in Memories
      OBVIOUS
    <3>2. m.entry = o /\ m.found = {row.id : row \in Matching(o)}
      BY <3>1 DEF Memories
    <3>3. ASSUME NEW x \in Matching(o) PROVE {row.id : row \in Matching(o)} # {}
      OBVIOUS
    <3> QED
      BY <3>2, <3>3
  <2>4. rows' = rows /\ at' = at /\ at[r] = "block"
    BY <1>4 DEF Find, Running, lockVars
  <2>5. /\ run'[r].entry = o /\ run'[r].found = m.found
        /\ \A s \in Runs : s # r => run'[s] = run[s]
    BY <2>2, <2>3
  <2> QED
    BY <2>3, <2>4, <2>5, RowsKept
<1>5. CASE Write(r)
  <2>1. \A s \in Runs : run'[s].step # "write"
    BY <1>1, <1>5, FreshType DEF Write, Running, Advance
  <2>2. at' = at /\ at[r] = "block" /\ \A s \in Runs : s # r => run'[s] = run[s]
    BY <1>5 DEF Write, Running, Advance, lockVars
  <2> QED
    BY <1>5, <2>1, <2>2, WriteOnce
<1>6. CASE Finish(r) \/ Fail(r) \/ KillRun(r)
  <2>1. run' = [run EXCEPT ![r] = Fresh] /\ rows' = rows
    BY <1>6 DEF Finish, Fail, KillRun
  <2>2. \A s \in Runs : s # r => at'[s] = at[s]
    BY <1>6 DEF Finish, Fail, KillRun, LeaveBlock, Kill, Goto, LockTypeOK
  <2> QED
    BY <2>1, <2>2, FreshType, RowsKept
<1> QED
  BY <1>2, <1>3, <1>4, <1>5, <1>6 DEF Synchronize

LEMMA CreditInvOutside ==
  ASSUME CreditInv,
         \/ \E t \in Txs : Arrive(t)
         \/ Block \/ Reorganise \/ Locking \/ UNCHANGED vars
  PROVE  (OutsideFresh /\ AnswerStands /\ CreditedOncePerAccount)'
<1>1. run' = run /\ rows' = rows
  BY DEF Arrive, Block, Reorganise, Locking, vars
<1>2. \A r \in Runs : at'[r] # "block" => at[r] # "block"
  BY DEF Arrive, Block, Reorganise, Locking, vars, lockVars, Lock, Start, Look,
         ReadCtime, RemoveOld, Check, CreateFile, Unlock, HourPasses, Goto,
         CreditInv, TypeInv, SyncTypeOK, LockTypeOK
<1> QED
  BY <1>1, <1>2
  DEF CreditInv, OutsideFresh, AnswerStands, CreditedOncePerAccount, Matching

LEMMA CreditInvStep ==
  ASSUME Schedule, CreditInv, [Next]_vars
  PROVE  CreditInv'
<1>1. TypeInv' /\ LockInv'
  BY TypeStep, SyncLockSteps, LockInvStep DEF CreditInv
<1>2. (OutsideFresh /\ AnswerStands /\ CreditedOncePerAccount)'
  BY CreditInvRun, CreditInvOutside DEF Next
<1> QED
  BY <1>1, <1>2 DEF CreditInv

(* If cron spaces the runs and none lasts more than an hour, no transaction  *)
(* is credited twice to an account, although its look-up and its creation   *)
(* are apart and nothing in the database forbids it.                        *)
THEOREM SyncCreditsOnce == Schedule => (Spec => []CreditedOncePerAccount)
<1> SUFFICES ASSUME Schedule PROVE Spec => []CreditedOncePerAccount
  OBVIOUS
<1>1. Init => CreditInv
  BY CreditInvInit
<1>2. CreditInv /\ [Next]_vars => CreditInv'
  BY CreditInvStep
<1>3. CreditInv => CreditedOncePerAccount
  BY DEF CreditInv
<1> QED
  BY <1>1, <1>2, <1>3, PTL DEF Spec

-----------------------------------------------------------------------------
(* What the task has written is what the chain said, and the chain only      *)
(* gives confirmations as long as it is not reorganised.                    *)

(* Each row has an id of its own, and the next id is free.                   *)
IdsDistinct ==
  /\ \A x, y \in rows : x.id = y.id => x = y
  /\ \A x \in rows : x.id <= Cardinality(rows)

(* A run that found rows will write one of those there are.                  *)
FoundStands ==
  \A r \in Runs :
    run[r].step = "write" /\ run[r].found # {} =>
      run[r].found = {row.id : row \in Matching(run[r].entry)}

(* Only outputs the client has seen are listed, looked up and credited.      *)
OnlyArrived ==
  /\ \A row \in rows : row.output \in arrived
  /\ \A r \in Runs : /\ run[r].list \subseteq arrived
                     /\ run[r].step = "write" => run[r].entry \in arrived

(* Neither rows nor lists are ahead of the chain, and no row is ahead of the *)
(* list that a run is writing.                                              *)
BehindChain ==
  reorgs = 0 =>
    /\ \A row \in rows : row.confirmations <= chain[TxOf[row.output]]
    /\ \A r \in Runs, t \in Txs : run[r].seen[t] <= chain[t]
BehindList ==
  reorgs = 0 =>
    \A r \in Runs : run[r].step \in {"find", "write"} =>
      \A row \in rows : row.confirmations <= run[r].seen[TxOf[row.output]]

SpendInv ==
  /\ IdsDistinct
  /\ FoundStands
  /\ OnlyArrived
  /\ BehindChain
  /\ BehindList

LEMMA SpendInvInit == Init => SpendInv
<1> SUFFICES ASSUME Init PROVE SpendInv
  OBVIOUS
<1>1. \A r \in Runs : /\ run[r].step = "load" /\ run[r].list = {}
                      /\ run[r].seen = [t \in Txs |-> 0]
  BY DEF Init, Fresh
<1> QED
  BY <1>1
  DEF Init, SpendInv, IdsDistinct, FoundStands, OnlyArrived, BehindChain,
      BehindList

LEMMA MatchingOne ==
  ASSUME CreditedOncePerAccount, NEW o, NEW x \in Matching(o)
  PROVE  Matching(o) = {x}
BY DEF CreditedOncePerAccount, Matching

(* What a run writes is one row of its entry's transaction and account.      *)
Replaces(r, old, new) ==
  /\ rows' = (rows \ old) \cup {new}
  /\ new \in Row
  /\ new.output \in arrived
  /\ TxOf[new.output] = TxOf[run[r].entry]
  /\ new.confirmations = Listed(r)
  /\ \/ old = {} /\ new.id = Cardinality(rows) + 1
     \/ \E x \in rows : old = {x} /\ new = [x EXCEPT !.confirmations = Listed(r)]

LEMMA WrittenRow ==
  ASSUME CreditInv, SpendInv, NEW r \in Runs, Write(r)
  PROVE  \E old, new : Replaces(r, old, new)
<1> USE DEF CreditInv, TypeInv, SyncTypeOK, SpendInv, Write, Running
<1>1. run[r].entry \in Outputs /\ run[r].entry \in arrived
  BY DEF WritesAnOutput, OnlyArrived
<1>2. Listed(r) \in Confirmations
  BY <1>1 DEF Listed, Memories, Txs
<1>3. CASE run[r].found = {}
  <2> DEFINE new == [id |-> Cardinality(rows) + 1, output |-> run[r].entry,
                     confirmations |-> Listed(r)]
  <2>1. rows' = (rows \ {}) \cup {new}
    BY <1>3 DEF Create
  <2>2. Cardinality(rows) + 1 \in Nat \ {0}
    BY FS_CardinalityType
  <2>3. /\ new \in Row /\ new.output = run[r].entry
        /\ new.id = Cardinality(rows) + 1 /\ new.confirmations = Listed(r)
    BY <1>1, <1>2, <2>2 DEF Row
  <2> HIDE DEF new
  <2> QED
    BY <1>1, <2>1, <2>3 DEF Replaces
<1>4. CASE run[r].found # {}
  <2>1. run[r].found = {row.id : row \in Matching(run[r].entry)}
    BY <1>4 DEF FoundStands
  <2>2. PICK x \in Matching(run[r].entry) : TRUE
    BY <1>4, <2>1
  <2>3. run[r].found = {x.id}
    BY <2>1, <2>2, MatchingOne
  <2>4. Newest(run[r].found) = x.id
    <3>1. x.id \in Nat
      BY <2>2 DEF Matching, Row
    <3> QED
      BY <2>3, <3>1 DEF Newest
  <2>5. x \in rows /\ TxOf[x.output] = TxOf[run[r].entry] /\ x.output \in arrived
    BY <2>2 DEF Matching, OnlyArrived
  <2> DEFINE new == [x EXCEPT !.confirmations = Listed(r)]
  <2>6. new \in Row /\ new.output = x.output /\ new.confirmations = Listed(r)
    BY <1>2, <2>5 DEF Row
  <2>7. rows' = {IF row.id = x.id THEN [row EXCEPT !.confirmations = Listed(r)]
                 ELSE row : row \in rows}
    BY <1>4, <2>4 DEF Update
  <2>8. rows' = (rows \ {x}) \cup {new}
    BY <2>5, <2>7 DEF IdsDistinct
  <2> QED
    BY <2>5, <2>6, <2>8 DEF Replaces
<1> QED
  BY <1>3, <1>4

LEMMA IdsStayDistinct ==
  ASSUME CreditInv, SpendInv, NEW r \in Runs, Write(r)
  PROVE  IdsDistinct'
<1>0. PICK old, new : Replaces(r, old, new)
  BY WrittenRow
<1>1. /\ rows' = (rows \ old) \cup {new}
      /\ new \in Row
      /\ \/ old = {} /\ new.id = Cardinality(rows) + 1
         \/ \E x \in rows : old = {x} /\ new = [x EXCEPT !.confirmations = Listed(r)]
  BY <1>0 DEF Replaces
<1>2. IsFiniteSet(rows) /\ rows \subseteq Row /\ Cardinality(rows) \in Nat
  BY FS_CardinalityType DEF CreditInv, TypeInv, SyncTypeOK
<1>3. \A x \in rows : x.id \in Nat /\ x.id <= Cardinality(rows)
  BY <1>2 DEF SpendInv, IdsDistinct, Row
<1>4. CASE old = {} /\ new.id = Cardinality(rows) + 1
  <2>1. new \notin rows
    BY <1>2, <1>3, <1>4
  <2>2. rows' = rows \cup {new} /\ Cardinality(rows') = Cardinality(rows) + 1
    BY <1>1, <1>2, <1>4, <2>1, FS_AddElement
  <2>3. \A x \in rows : x.id # new.id
    BY <1>2, <1>3, <1>4
  <2>4. \A x \in rows' : x.id <= Cardinality(rows')
    BY <1>2, <1>3, <1>4, <2>2
  <2> QED
    BY <2>2, <2>3, <2>4 DEF SpendInv, IdsDistinct
<1>5. ASSUME NEW x \in rows, old = {x},
             new = [x EXCEPT !.confirmations = Listed(r)]
      PROVE  IdsDistinct'
  <2>1. new.id = x.id
    BY <1>2, <1>5 DEF Row
  <2>2. \A y \in rows \ {x} : y.id # new.id
    BY <2>1 DEF SpendInv, IdsDistinct
  <2>3. IsFiniteSet(rows \ {x}) /\ Cardinality(rows \ {x}) = Cardinality(rows) - 1
    BY <1>2, FS_RemoveElement
  <2>4. Cardinality((rows \ {x}) \cup {new}) = Cardinality(rows)
    <3>1. new \notin rows \ {x}
      BY <2>2
    <3>2. Cardinality((rows \ {x}) \cup {new}) = Cardinality(rows \ {x}) + 1
      BY <2>3, <3>1, FS_AddElement
    <3> QED
      BY <1>2, <2>3, <3>2
  <2>5. Cardinality(rows') = Cardinality(rows)
    BY <1>1, <1>5, <2>4
  <2> QED
    <3>1. rows' = (rows \ {x}) \cup {new} /\ x.id <= Cardinality(rows')
      BY <1>1, <1>3, <1>5, <2>5
    <3>2. \A y, z \in rows \ {x} : y.id = z.id => y = z
      BY DEF SpendInv, IdsDistinct
    <3>3. \A y \in rows \ {x} : y.id <= Cardinality(rows')
      BY <1>3, <2>5
    <3> QED
      BY <2>1, <2>2, <3>1, <3>2, <3>3 DEF IdsDistinct
<1> QED
  BY <1>1, <1>4, <1>5

LEMMA SpendInvWrite ==
  ASSUME CreditInv, SpendInv, TypeInv', NEW r \in Runs, Write(r)
  PROVE  SpendInv'
<1> USE DEF CreditInv, TypeInv, SyncTypeOK, world
<1>0. PICK old, new : Replaces(r, old, new)
  BY WrittenRow
<1>1. /\ rows' = (rows \ old) \cup {new}
      /\ new \in Row
      /\ new.output \in arrived
      /\ TxOf[new.output] = TxOf[run[r].entry]
      /\ new.confirmations = Listed(r)
  BY <1>0 DEF Replaces
<1>2. /\ at[r] = "block" /\ run[r].step = "write"
      /\ arrived' = arrived /\ chain' = chain /\ reorgs' = reorgs
  BY DEF Write, Running
<1>3. \A s \in Runs : s # r => run[s] = Fresh
  BY <1>2 DEF LockInv, MutualExclusion, Holds, OutsideFresh
<1>4. \A s \in Runs : s # r => run'[s] = Fresh
  BY <1>3 DEF Write, Advance
<1>5. /\ run'[r].step \in {"account", "find"}
      /\ run'[r].list = run[r].list
      /\ run'[r].seen = Fresh.seen \/ run'[r].seen = run[r].seen
      /\ run'[r].step = "find" => run'[r].seen = run[r].seen
  <2>1. run' = [run EXCEPT ![r] =
          [Fresh EXCEPT !.step = IF run[r].list = {} THEN "account" ELSE "find",
                        !.accounts = run[r].accounts,
                        !.list = run[r].list,
                        !.seen = IF run[r].list = {} THEN @ ELSE run[r].seen]]
    BY DEF Write, Advance
  <2> QED
    BY <2>1 DEF Fresh
<1>6. Fresh.step = "load" /\ Fresh.list = {} /\ \A t \in Txs : Fresh.seen[t] = 0
  BY DEF Fresh
<1>7. IdsDistinct'
  BY IdsStayDistinct
<1>8. FoundStands'
  BY <1>4, <1>5, <1>6 DEF FoundStands
<1>9. OnlyArrived'
  BY <1>1, <1>2, <1>4, <1>5, <1>6 DEF SpendInv, OnlyArrived
<1>10. TxOf[run[r].entry] \in Txs /\ run[r].seen \in [Txs -> Confirmations]
  BY <1>2 DEF WritesAnOutput, Txs, Memories
<1>11. ASSUME reorgs = 0, NEW row \in rows'
       PROVE  /\ row.confirmations <= chain[TxOf[row.output]]
              /\ row.confirmations <= run[r].seen[TxOf[row.output]]
  <2>1. CASE row \in rows
    BY <1>2, <1>11, <2>1 DEF SpendInv, BehindChain, BehindList
  <2>2. CASE row = new
    <3>1. row.confirmations = run[r].seen[TxOf[row.output]]
      BY <1>1, <2>2 DEF Listed
    <3>2. run[r].seen[TxOf[row.output]] <= chain[TxOf[row.output]]
      BY <1>1, <1>10, <1>11, <2>2 DEF SpendInv, BehindChain
    <3>3. run[r].seen[TxOf[row.output]] \in Nat
      BY <1>1, <1>10, <2>2, SyncAssumption DEF Confirmations
    <3> QED
      BY <3>1, <3>2, <3>3
  <2> QED
    BY <1>1, <2>1, <2>2
<1>12. chain \in [Txs -> Nat]
  BY SyncAssumption DEF Confirmations
<1>13. BehindChain'
  BY <1>2, <1>4, <1>5, <1>6, <1>11, <1>12 DEF SpendInv, BehindChain
<1>14. BehindList'
  BY <1>2, <1>4, <1>5, <1>6, <1>11 DEF BehindList
<1> QED
  BY <1>7, <1>8, <1>9, <1>13, <1>14 DEF SpendInv

(* Nothing is written by the other steps of a run.                          *)
LEMMA SpendInvRun ==
  ASSUME CreditInv, SpendInv, NEW r \in Runs,
         \/ Load(r) \/ ListTransactions(r) \/ Find(r)
         \/ Finish(r) \/ Fail(r) \/ KillRun(r)
  PROVE  SpendInv'
<1> USE DEF CreditInv, TypeInv, SyncTypeOK, world
<1>1. UNCHANGED <<arrived, chain, reorgs, rows>>
  BY DEF Load, ListTransactions, Find, Finish, Fail, KillRun
<1>2. \A s \in Runs : s # r => run'[s] = run[s]
  BY DEF Load, ListTransactions, Find, Lookup, Finish, Fail, KillRun
<1>3. Fresh.step = "load" /\ Fresh.list = {} /\ \A t \in Txs : Fresh.seen[t] = 0
  BY DEF Fresh
<1>4. chain \in [Txs -> Nat] /\ \A row \in rows : row.confirmations \in Nat
  BY SyncAssumption DEF Confirmations, Row
<1>5. /\ run'[r].list \subseteq arrived
      /\ run'[r].step = "write" =>
           /\ run'[r].entry \in arrived
           /\ run'[r].found = {row.id : row \in Matching(run'[r].entry)}
      /\ \A t \in Txs :
           run'[r].seen[t] \in {0, run[r].seen[t], chain[t]}
      /\ run'[r].step \in {"find", "write"} =>
           \/ run'[r].seen = chain
           \/ run[r].step = "find" /\ run'[r].seen = run[r].seen
  <2>1. CASE Load(r)
    BY <1>3, <2>1 DEF Load, Running, Memories, SpendInv, OnlyArrived
  <2>2. CASE ListTransactions(r)
    <3>1. PICK a \in run[r].accounts :
            run' = [run EXCEPT ![r] =
              [Fresh EXCEPT
                 !.step = IF Recent(a) = {} THEN "account" ELSE "find",
                 !.accounts = run[r].accounts \ {a},
                 !.list = Recent(a),
                 !.seen = IF Recent(a) = {} THEN @ ELSE chain]]
      BY <2>2 DEF ListTransactions
    <3>2. Recent(a) \subseteq arrived
      BY DEF Recent
    <3> QED
      BY <3>1, <3>2 DEF Fresh
  <2>3. CASE Find(r)
    <3>1. PICK o \in run[r].list : Lookup(r, o, Matching(o))
      BY <2>3 DEF Find
    <3>2. /\ run'[r].list = run[r].list \ {o} /\ run'[r].entry = o
          /\ run'[r].found = {row.id : row \in Matching(o)}
          /\ run'[r].seen = run[r].seen
      BY <3>1 DEF Lookup, Memories
    <3> QED
      BY <2>3, <3>2 DEF Find, Running, SpendInv, OnlyArrived
  <2>4. CASE Finish(r) \/ Fail(r) \/ KillRun(r)
    BY <1>3, <2>4 DEF Finish, Fail, KillRun
  <2> QED
    BY <2>1, <2>2, <2>3, <2>4
<1>6. IdsDistinct'
  BY <1>1 DEF SpendInv, IdsDistinct
<1>7. \A o : Matching(o)' = Matching(o)
  BY <1>1 DEF Matching
<1>8. FoundStands'
  BY <1>2, <1>5, <1>7 DEF SpendInv, FoundStands
<1>9. OnlyArrived'
  BY <1>1, <1>2, <1>5 DEF SpendInv, OnlyArrived
<1>10. BehindChain'
  BY <1>1, <1>2, <1>4, <1>5 DEF SpendInv, BehindChain
<1>11. BehindList'
  BY <1>1, <1>2, <1>4, <1>5 DEF SpendInv, BehindChain, BehindList
<1> QED
  BY <1>6, <1>8, <1>9, <1>10, <1>11 DEF SpendInv

(* The chain only gives confirmations, until it is reorganised.             *)
LEMMA SpendInvOutside ==
  ASSUME CreditInv, SpendInv, TypeInv',
         \/ \E t \in Txs : Arrive(t)
         \/ Block \/ Reorganise \/ Locking \/ UNCHANGED vars
  PROVE  SpendInv'
<1> USE DEF CreditInv, TypeInv, SyncTypeOK, world
<1>1. UNCHANGED <<rows, run>> /\ arrived \subseteq arrived'
  BY DEF Arrive, Block, Reorganise, Locking, vars
<1>2. reorgs' = 0 =>
        reorgs = 0 /\ \A t \in Txs : chain[t] <= chain'[t]
  <2>1. chain \in [Txs -> Nat] /\ reorgs \in Nat
    BY SyncAssumption DEF Confirmations
  <2> QED
    BY <2>1 DEF Arrive, Block, Reorganise, Locking, vars
<1>3. /\ chain \in [Txs -> Nat] /\ chain' \in [Txs -> Nat]
      /\ \A row \in rows : TxOf[row.output] \in Txs /\ row.confirmations \in Nat
      /\ \A r \in Runs, t \in Txs : run[r].seen[t] \in Nat
  <2>1. Confirmations \subseteq Nat
    BY SyncAssumption DEF Confirmations
  <2>2. \A row \in rows : TxOf[row.output] \in Txs /\ row.confirmations \in Nat
    BY <2>1 DEF Row, Txs
  <2>3. \A r \in Runs : run[r].seen \in [Txs -> Nat]
    BY <2>1 DEF Memories
  <2> QED
    BY <2>1, <2>2, <2>3
<1>4. (IdsDistinct /\ FoundStands)'
  BY <1>1 DEF SpendInv, IdsDistinct, FoundStands, Matching
<1>5. OnlyArrived'
  BY <1>1 DEF SpendInv, OnlyArrived
<1>6. BehindChain'
  BY <1>1, <1>2, <1>3 DEF SpendInv, BehindChain
<1>7. BehindList'
  BY <1>1, <1>2 DEF SpendInv, BehindList
<1> QED
  BY <1>4, <1>5, <1>6, <1>7 DEF SpendInv

LEMMA SpendInvariant == Schedule => (Spec => [](CreditInv /\ SpendInv))
<1> SUFFICES ASSUME Schedule PROVE Spec => [](CreditInv /\ SpendInv)
  OBVIOUS
<1>1. Init => CreditInv /\ SpendInv
  BY CreditInvInit, SpendInvInit
<1>2. CreditInv /\ SpendInv /\ [Next]_vars => (CreditInv /\ SpendInv)'
  <2> SUFFICES ASSUME CreditInv, SpendInv, [Next]_vars
               PROVE  (CreditInv /\ SpendInv)'
    OBVIOUS
  <2>1. CreditInv'
    BY CreditInvStep
  <2>2. SpendInv'
    BY <2>1, SpendInvWrite, SpendInvRun, SpendInvOutside
    DEF Next, Synchronize, CreditInv
  <2> QED
    BY <2>1, <2>2
<1> QED
  BY <1>1, <1>2, PTL DEF Spec

(* If there are finitely many outputs and the lock excludes the runs from    *)
(* each other, nobody can spend more than the chain has confirmed for him.   *)
THEOREM SpendableWasConfirmed ==
  IsFiniteSet(Outputs) /\ Schedule => (Spec => []SpendableIsConfirmed)
<1> SUFFICES ASSUME IsFiniteSet(Outputs), Schedule
             PROVE  Spec => []SpendableIsConfirmed
  OBVIOUS
<1>1. CreditInv /\ SpendInv => SpendableIsConfirmed
  <2> SUFFICES ASSUME CreditInv, SpendInv, reorgs = 0, NEW a \in Accounts
               PROVE  Cardinality(Spendable(a)) <=
                        Cardinality({o \in arrived :
                          AccountOf[o] = a /\ chain[TxOf[o]] = Enough})
    BY DEF SpendableIsConfirmed
  <2> USE DEF CreditInv, TypeInv, SyncTypeOK
  <2> DEFINE confirmed == {o \in arrived :
                             AccountOf[o] = a /\ chain[TxOf[o]] = Enough}
             f == [row \in Spendable(a) |-> row.output]
  <2>1. IsFiniteSet(confirmed)
    BY FS_Subset
  <2>2. ASSUME NEW row \in Spendable(a) PROVE row.output \in confirmed
    <3>1. row \in Row /\ row \in rows /\ AccountOf[row.output] = a
          /\ row.confirmations = Enough
      BY <2>2 DEF Spendable
    <3>2. chain[TxOf[row.output]] \in 0..Enough
      BY <3>1 DEF Row, Txs, Confirmations
    <3>3. Enough <= chain[TxOf[row.output]]
      BY <3>1 DEF SpendInv, BehindChain
    <3>4. chain[TxOf[row.output]] = Enough
      BY <3>2, <3>3, SyncAssumption
    <3> QED
      BY <3>1, <3>4 DEF SpendInv, OnlyArrived
  <2>3. ASSUME NEW x \in Spendable(a), NEW y \in Spendable(a),
               x.output = y.output
        PROVE  x = y
    <3>1. x \in rows /\ y \in rows
      BY DEF Spendable
    <3>2. Matching(x.output) = {x} /\ Matching(y.output) = {y}
      BY <3>1 DEF CreditedOncePerAccount
    <3> QED
      BY <2>3, <3>2
  <2>4. f \in Injection(Spendable(a), confirmed)
    BY <2>2, <2>3 DEF Injection, IsInjective
  <2> QED
    BY <2>1, <2>4, FS_Injection
<1> QED
  BY <1>1, SpendInvariant, PTL

(* If the lock excludes the runs from each other, bitcoins that a user can   *)
(* spend stay so, as long as the block chain is not reorganised.            *)
THEOREM SpendableForGood == Schedule => (Spec => SpendableStays)
<1> SUFFICES ASSUME Schedule PROVE Spec => SpendableStays
  OBVIOUS
<1> DEFINE Stays ==
      reorgs' = 0 => \A a \in Accounts : Spendable(a) \subseteq Spendable(a)'
<1>1. CreditInv /\ SpendInv /\ [Next]_vars => [Stays]_vars
  <2> SUFFICES ASSUME CreditInv, SpendInv, Next, reorgs' = 0,
                      NEW a \in Accounts, NEW row \in Spendable(a)
               PROVE  row \in Spendable(a)'
    OBVIOUS
  <2>1. row \in rows /\ AccountOf[row.output] = a /\ row.confirmations = Enough
    BY DEF Spendable
  <2>2. ASSUME NEW r \in Runs, Write(r) PROVE row \in rows'
    <3>0. PICK old, new : Replaces(r, old, new)
      BY <2>2, WrittenRow
    <3>1. /\ rows' = (rows \ old) \cup {new}
          /\ TxOf[new.output] = TxOf[run[r].entry]
          /\ \/ old = {}
             \/ \E x \in rows :
                  old = {x} /\ new = [x EXCEPT !.confirmations = Listed(r)]
      BY <3>0 DEF Replaces
    <3>2. ASSUME old = {row}, new = [row EXCEPT !.confirmations = Listed(r)]
          PROVE  new = row
      <4>1. row \in Row
        BY <2>1 DEF CreditInv, TypeInv, SyncTypeOK
      <4>2. TxOf[row.output] = TxOf[run[r].entry]
        BY <3>1, <3>2, <4>1 DEF Row
      <4>3. reorgs = 0 /\ run[r].step = "write"
        BY <2>2 DEF Write, Running, world
      <4>4. Enough <= Listed(r)
        BY <2>1, <4>2, <4>3 DEF SpendInv, BehindList, Listed
      <4>5. Listed(r) \in 0..Enough
        BY <4>3 DEF Listed, CreditInv, TypeInv, SyncTypeOK, WritesAnOutput,
                    Memories, Txs, Confirmations
      <4>6. Listed(r) = row.confirmations
        BY <2>1, <4>4, <4>5, SyncAssumption
      <4> QED
        BY <3>2, <4>1, <4>6 DEF Row
    <3> QED
      BY <2>1, <3>1, <3>2
  <2>3. ASSUME rows' = rows PROVE row \in rows'
    BY <2>1, <2>3
  <2>4. row \in rows'
    BY <2>2, <2>3
    DEF Next, Arrive, Block, Reorganise, Locking, Synchronize, Load,
        ListTransactions, Find, Finish, Fail, KillRun
  <2> QED
    BY <2>1, <2>4 DEF Spendable
<1> QED
  BY <1>1, SpendInvariant, PTL DEF Spec, SpendableStays

-----------------------------------------------------------------------------
(* The other deposits, of any payments, web processes and processes of the   *)
(* task: the unique index makes up for look-ups that may be out of date,     *)
(* since a credit is refused, not only avoided, when there is one already.   *)

(* Whoever is about to credit a payment knows which.                        *)
Busy ==
  /\ \A w \in Workers : request[w].at # "idle" => request[w].payment \in Payments
  /\ \A j \in Jobs : task[j].at = "insert" => task[j].payment \in Liberty

CallbackInv == CallbacksTypeOK /\ Busy /\ LibertyCreditedOnce

LEMMA CallbackInvInit == CallbackInit => CallbackInv
BY CallbacksAssumption
DEF CallbackInit, CallbackInv, CallbacksTypeOK, Busy, LibertyCreditedOnce,
    Requests, Idle,
    Tasks, Asleep, Payments

LEMMA CreditStep ==
  ASSUME CallbackInv, NEW p \in Payments, Credit(p)
  PROVE  credits' \in [Payments -> 0..Cap] /\ LibertyCreditedOnce'
BY CallbacksAssumption
DEF CallbackInv, CallbacksTypeOK, LibertyCreditedOnce, Credit, Accepts, Credited,
    Payments

LEMMA CallbackInvStep ==
  CallbackInv /\ [CallbackNext]_callbackVars => CallbackInv'
<1> SUFFICES ASSUME CallbackInv, [CallbackNext]_callbackVars PROVE CallbackInv'
  OBVIOUS
<1> USE CallbacksAssumption
    DEF CallbackInv, CallbacksTypeOK, Busy, LibertyCreditedOnce, bounds
<1>1. ASSUME NEW p \in Payments, Pay(p) PROVE CallbackInv'
  BY <1>1 DEF Pay
<1>2. ASSUME NEW p \in Payments, NEW w \in Workers, Call(w, p)
      PROVE  CallbackInv'
  BY <1>2 DEF Call, Requests, Idle
<1>3. ASSUME NEW w \in Workers, LookUp(w) PROVE CallbackInv'
  BY <1>3 DEF LookUp, Requests, Idle
<1>4. ASSUME NEW w \in Workers, Insert(w) PROVE CallbackInv'
  <2>1. request[w].payment \in Payments
    BY <1>4 DEF Insert
  <2> QED
    BY <1>4, <2>1, CreditStep DEF Insert, Requests, Idle
<1>5. ASSUME NEW j \in Jobs, StartTask(j) PROVE CallbackInv'
  BY <1>5 DEF StartTask, Page, Tasks, Asleep
<1>6. ASSUME NEW j \in Jobs, TaskLooksUp(j) PROVE CallbackInv'
  <2>1. task[j] \in Tasks
    OBVIOUS
  <2>2. CASE task' = [task EXCEPT ![j] = Asleep]
    BY <1>6, <2>2 DEF TaskLooksUp, Tasks, Asleep
  <2>3. ASSUME NEW p \in task[j].todo,
               \/ task' = [task EXCEPT ![j] = Without(j, p)]
               \/ task' = [task EXCEPT ![j] =
                     [task[j] EXCEPT !.at = "insert", !.payment = p]]
        PROVE  CallbackInv'
    <3>1. p \in Liberty
      BY <2>1, <2>3 DEF Tasks
    <3>2. Without(j, p) \in Tasks /\ Without(j, p).at = "look"
      BY <2>1 DEF Without, Tasks
    <3>3. /\ [task[j] EXCEPT !.at = "insert", !.payment = p] \in Tasks
          /\ [task[j] EXCEPT !.at = "insert", !.payment = p].payment = p
      BY <2>1, <3>1 DEF Tasks
    <3> QED
      BY <1>6, <2>3, <3>1, <3>2, <3>3 DEF TaskLooksUp
  <2> QED
    BY <1>6, <2>2, <2>3 DEF TaskLooksUp
<1>7. ASSUME NEW j \in Jobs, TaskInserts(j) PROVE CallbackInv'
  <2>1. task[j].payment \in Liberty /\ task[j].payment \in Payments
    BY <1>7 DEF TaskInserts, Payments
  <2> QED
    BY <1>7, <2>1, CreditStep DEF TaskInserts, Without, Tasks, Asleep
<1>8. CASE Interrupt
  BY <1>8 DEF Interrupt, Requests, Idle, Tasks, Asleep
<1>9. CASE UNCHANGED callbackVars
  BY <1>9 DEF callbackVars
<1> QED
  BY <1>1, <1>2, <1>3, <1>4, <1>5, <1>6, <1>7, <1>8, <1>9
  DEF CallbackNext, RunTask

(* Requests, tasks and counts of credits stay within their ranges.           *)
THEOREM CallbacksTypeCorrect == CallbackSpec => []CallbacksTypeOK
<1>1. CallbackInv => CallbacksTypeOK
  BY DEF CallbackInv
<1> QED
  BY <1>1, CallbackInvInit, CallbackInvStep, PTL DEF CallbackSpec

(* A Liberty Reserve payment is credited once, whatever number of callbacks, *)
(* returning users and tasks handle it at the same time.                    *)
THEOREM LibertyPaysOnce == CallbackSpec => []LibertyCreditedOnce
<1>1. CallbackInv => LibertyCreditedOnce
  BY DEF CallbackInv
<1> QED
  BY <1>1, CallbackInvInit, CallbackInvStep, PTL DEF CallbackSpec
=============================================================================
