------------------------- MODULE WithdrawalProofs -------------------------
(***************************************************************************)
(* What withdrawals keep, for any number of processes, administrators,       *)
(* users and transfers.                                                    *)
(***************************************************************************)
EXTENDS BankAccountProperties, FiniteSetTheorems, TLAPS

(* The step that one process makes in its request, whichever it is.          *)
WorkerStep(w) ==
  \/ \E t \in Transfers, u \in Users, amount \in Amounts :
       Request(w, t, u, amount)
  \/ Step(w) \/ AnswerLost(w) \/ Fail(w) \/ Restart(w)

(* The step that one administrator's request makes.                         *)
OfficeStep(a) ==
  \/ \E t \in Transfers : Find(a, t)
  \/ Process(a) \/ Mail(a) \/ OfficeFails(a)

(* Rounding an amount down to the grid leaves an amount.                     *)
LEMMA RoundedIsNatural ==
  ASSUME NEW amount \in Amounts
  PROVE  Rounded(amount) \in Nat
BY WithdrawalsAssumption DEF WithdrawalsAssumption, Rounded

-----------------------------------------------------------------------------
(* Types.                                                                   *)

(* An administrator works on a transfer that is recorded.                   *)
VisitsRecorded == \A a \in Admins : admin[a] # Away => Recorded(admin[a].transfer)

TypeInv == WithdrawalsTypeOK /\ VisitsRecorded

LEMMA TypeInit == Init => TypeInv
BY WithdrawalsAssumption
DEF WithdrawalsAssumption, Init, TypeInv, WithdrawalsTypeOK, VisitsRecorded,
    Rows, NoRow, Idle, Away, Transactions, Visits

(* A step of a process keeps the types and what the office relies on.        *)
LEMMA WorkerTypes ==
  ASSUME TypeInv, NEW w \in Workers, WorkerStep(w)
  PROVE  TypeInv'
<1> USE WithdrawalsAssumption
    DEF WithdrawalsAssumption, TypeInv, WithdrawalsTypeOK, VisitsRecorded, Recorded, database, provider, office
<1>1. ASSUME NEW t \in Transfers, NEW u \in Users, NEW amount \in Amounts,
             Request(w, t, u, amount)
      PROVE  TypeInv'
  BY <1>1, RoundedIsNatural DEF Request, Rows, Transactions, Stages
<1>2. CASE Validate(w)
  BY <1>2 DEF Validate, RolledBack, Goes, Row, At, Transactions, Stages, Idle
<1>3. CASE Insert(w)
  BY <1>3 DEF Insert, Goes, At, Transactions, Stages, Idle
<1>4. CASE Deadlock(w)
  BY <1>4 DEF Deadlock, RolledBack
<1>5. CASE CheckReserve(w)
  BY <1>5 DEF CheckReserve, Goes, At, Transactions, Stages, Idle
<1>6. CASE Send(w)
  BY <1>6 DEF Send, Sent, Goes, RolledBack, At, Row, Transactions, Rows,
              Stages, Idle
<1>7. CASE Record(w)
  <2>1. tx[w] \in Transactions
    BY <1>7 DEF Record, At, Idle
  <2> DEFINE row == [tx[w].row EXCEPT !.id = TRUE, !.state = "processed"]
  <2>2. tx'[w] = [tx[w] EXCEPT !.at = "commit", !.row = row]
    BY <1>7, <2>1 DEF Record, Transactions, Rows
  <2>3. row \in Rows
    BY <2>1 DEF Transactions, Rows
  <2>4. tx'[w] \in Transactions
    BY <2>1, <2>2, <2>3 DEF Transactions, Stages
  <2>5. tx' = [tx EXCEPT ![w] = tx'[w]]
    BY <1>7 DEF Record
  <2> QED
    BY <1>7, <2>4, <2>5 DEF Record
<1>8. CASE Commit(w)
  <2>1. tx[w] \in Transactions
    BY <1>8 DEF Commit, At, Idle
  <2>2. Row(w) \in Rows /\ tx[w].transfer \in Transfers
    BY <2>1 DEF Transactions, Row
  <2>3. WithdrawalsTypeOK'
    BY <1>8, <2>2 DEF Commit, RolledBack, Rows
  <2> QED
    BY <1>8, <2>2, <2>3 DEF Commit, Rows, NoRow
<1>9. CASE AnswerLost(w)
  BY <1>9 DEF AnswerLost, Sent, RolledBack, At, Row, Transactions, Rows, Idle
<1>10. CASE Fail(w)
  BY <1>10 DEF Fail, RolledBack
<1>11. CASE Restart(w)
  BY <1>11 DEF Restart
<1> QED
  BY <1>1, <1>2, <1>3, <1>4, <1>5, <1>6, <1>7, <1>8, <1>9, <1>10, <1>11
  DEF WorkerStep, Step

(* A step of an administrator's request does.                               *)
LEMMA OfficeTypes ==
  ASSUME TypeInv, NEW a \in Admins, OfficeStep(a)
  PROVE  TypeInv'
<1> USE WithdrawalsAssumption
    DEF WithdrawalsAssumption, TypeInv, WithdrawalsTypeOK, VisitsRecorded, Recorded, database, provider, Visits, Away
<1>1. ASSUME NEW t \in Transfers, Find(a, t)
      PROVE  TypeInv'
  BY <1>1 DEF Find, Rows, NoRow
<1>2. CASE Process(a)
  BY <1>2 DEF Process, Rows, NoRow
<1>3. CASE Mail(a)
  BY <1>3 DEF Mail
<1>4. CASE OfficeFails(a)
  BY <1>4 DEF OfficeFails
<1> QED
  BY <1>1, <1>2, <1>3, <1>4 DEF OfficeStep

LEMMA TypeStep ==
  ASSUME TypeInv, [Next]_vars
  PROVE  TypeInv'
<1>1. CASE UNCHANGED vars
  BY <1>1 DEF vars, database, provider, office, TypeInv, WithdrawalsTypeOK,
              VisitsRecorded, Recorded
<1>2. CASE Next
  BY <1>2, WorkerTypes, OfficeTypes DEF Next, WorkerStep, OfficeStep
<1> QED
  BY <1>1, <1>2

-----------------------------------------------------------------------------
(* Requests and what was sent for them.                                     *)

(* The provider has sent the money of the request, which has to commit.      *)
HasSent(w) == At(w, "record") \/ (At(w, "commit") /\ Row(w).id)

(* A transfer has one request, is not recorded before it commits, and was     *)
(* sent if its request is past the send.                                    *)
FlightInv ==
  /\ \A v, w \in Workers :
       tx[v] # Idle /\ tx[w] # Idle /\ tx[v].transfer = tx[w].transfer => v = w
  /\ \A w \in Workers : tx[w] # Idle =>
       /\ ~Recorded(tx[w].transfer)
       /\ Row(w).state = IF Row(w).id THEN "processed" ELSE "pending"
       /\ Row(w).id => At(w, "commit")
       /\ sent[tx[w].transfer] = IF HasSent(w) THEN Row(w).amount ELSE 0
  /\ RowsTellWhatWasSent

LEMMA FlightInit == Init => FlightInv
BY DEF Init, FlightInv, RowsTellWhatWasSent, Recorded, HasSent, At

(* A step of a process keeps the account of what was sent.                   *)
LEMMA WorkerFlights ==
  ASSUME TypeInv, FlightInv, NEW w \in Workers, WorkerStep(w)
  PROVE  FlightInv'
<1> USE DEF TypeInv, WithdrawalsTypeOK, FlightInv, RowsTellWhatWasSent,
            Recorded, HasSent, At, Row, database, provider, office
<1> DEFINE t0 == tx[w].transfer
<1>0. tx[w] # Idle =>
        tx[w] \in Transactions /\ t0 \in Transfers /\ Row(w) \in Rows
  BY DEF Transactions
<1>1. ASSUME NEW t \in Transfers, NEW u \in Users, NEW amount \in Amounts,
             Request(w, t, u, amount)
      PROVE  FlightInv'
  BY <1>1, RoundedIsNatural DEF Request, InFlight, Rows, Transactions, Idle
<1>2. CASE Validate(w)
  BY <1>2 DEF Validate, RolledBack, Goes, Transactions, Idle
<1>3. CASE Insert(w)
  BY <1>3 DEF Insert, Goes, Transactions, Idle
<1>4. CASE Deadlock(w)
  BY <1>4 DEF Deadlock, RolledBack, Idle
<1>5. CASE CheckReserve(w)
  BY <1>5 DEF CheckReserve, Goes, Transactions, Idle
<1>6. CASE Send(w)
  BY <1>0, <1>6 DEF Send, Sent, Goes, RolledBack, Transactions, Rows, Idle
<1>7. CASE Record(w)
  BY <1>0, <1>7 DEF Record, Transactions, Rows, Idle
<1>8. CASE Commit(w)
  BY <1>0, <1>8 DEF Commit, RolledBack, Rows, Idle
<1>9. CASE AnswerLost(w)
  BY <1>0, <1>9 DEF AnswerLost, Sent, RolledBack, Rows, Idle
<1>10. CASE Fail(w)
  BY <1>10 DEF Fail, RolledBack, Idle
<1>11. CASE Restart(w)
  BY <1>11 DEF Restart
<1> QED
  BY <1>1, <1>2, <1>3, <1>4, <1>5, <1>6, <1>7, <1>8, <1>9, <1>10, <1>11
  DEF WorkerStep, Step

(* An administrator changes neither amounts nor ids.                        *)
LEMMA OfficeFlights ==
  ASSUME TypeInv, FlightInv, NEW a \in Admins, OfficeStep(a)
  PROVE  FlightInv'
<1> USE DEF TypeInv, WithdrawalsTypeOK, VisitsRecorded, FlightInv,
            RowsTellWhatWasSent, Recorded, HasSent, At, Row, database, provider
<1>1. CASE Process(a)
  <2> DEFINE t0 == admin[a].transfer
  <2>1. t0 \in Transfers /\ rows[t0] \in Rows
    BY <1>1 DEF Process, Visits, Away
  <2>2. UNCHANGED <<tx, sent>>
    BY <1>1 DEF Process
  <2>3. \A t \in Transfers :
          /\ rows'[t] # NoRow <=> rows[t] # NoRow
          /\ rows'[t].id = rows[t].id /\ rows'[t].amount = rows[t].amount
    <3>1. CASE UNCHANGED rows
      BY <3>1
    <3>2. CASE rows' = [rows EXCEPT ![t0] =
                          [@ EXCEPT !.state = "processed"]]
      BY <2>1, <3>2 DEF Rows, NoRow
    <3> QED
      BY <1>1, <3>1, <3>2 DEF Process
  <2>4. \A v \in Workers : tx[v] # Idle => tx[v].transfer \in Transfers
    BY DEF Transactions
  <2> QED
    BY <2>2, <2>3, <2>4
<1>2. CASE Mail(a) \/ OfficeFails(a) \/ \E t \in Transfers : Find(a, t)
  BY <1>2 DEF Mail, OfficeFails, Find
<1> QED
  BY <1>1, <1>2 DEF OfficeStep

LEMMA FlightStep ==
  ASSUME TypeInv, FlightInv, [Next]_vars
  PROVE  FlightInv'
<1>1. CASE UNCHANGED vars
  BY <1>1 DEF vars, database, provider, office, FlightInv,
              RowsTellWhatWasSent, Recorded, HasSent, At, Row
<1>2. CASE Next
  BY <1>2, WorkerFlights, OfficeFlights DEF Next, WorkerStep, OfficeStep
<1> QED
  BY <1>1, <1>2

-----------------------------------------------------------------------------
(* What an administrator's copy and the mails rest on.                      *)

OfficeInv ==
  /\ \A a \in Admins :
       admin[a].at = "mail" => rows[admin[a].transfer].state = "processed"
  /\ AnnouncedIsProcessed

(* A recorded transfer changes from pending to processed at most.            *)
Final ==
  \A t \in Transfers :
    Recorded(t) =>
      \/ rows'[t] = rows[t]
      \/ /\ rows[t].state = "pending"
         /\ rows'[t] = [rows[t] EXCEPT !.state = "processed"]

LEMMA FinalStep ==
  ASSUME TypeInv, FlightInv, [Next]_vars
  PROVE  Final
<1> USE DEF Final, Recorded, database
<1>1. CASE \E w \in Workers : Commit(w)
  BY <1>1 DEF Commit, FlightInv, At, Idle
<1>2. CASE \E a \in Admins : Process(a)
  <2>1. PICK a \in Admins : Process(a)
    BY <1>2
  <2>2. admin[a].transfer \in Transfers /\ rows[admin[a].transfer] \in Rows
    BY <2>1 DEF Process, TypeInv, WithdrawalsTypeOK, VisitsRecorded, Visits,
                Away
  <2>3. rows[admin[a].transfer].state = "processed" =>
          [rows[admin[a].transfer] EXCEPT !.state = "processed"] =
            rows[admin[a].transfer]
    BY <2>2 DEF Rows
  <2> QED
    BY <2>1, <2>2, <2>3 DEF Process, TypeInv, WithdrawalsTypeOK, Rows
<1>3. CASE UNCHANGED rows
  BY <1>3
<1> QED
  BY <1>1, <1>2, <1>3
  DEF Next, Step, Request, Validate, Insert, Deadlock, CheckReserve, Send,
      Record, AnswerLost, Fail, Restart, Find, Mail, OfficeFails, vars

LEMMA OfficeInvStep ==
  ASSUME TypeInv, FlightInv, OfficeInv, [Next]_vars
  PROVE  OfficeInv'
<1>1. Final
  BY FinalStep
<1>2. \A t \in Transfers :
        Recorded(t) /\ rows[t].state = "processed" =>
          Recorded(t)' /\ rows'[t].state = "processed"
  BY <1>1 DEF Final, Recorded
<1>3. \A a \in Admins : admin[a] # Away =>
        admin[a].transfer \in Transfers /\ Recorded(admin[a].transfer)
  BY DEF TypeInv, WithdrawalsTypeOK, VisitsRecorded, Visits
<1> USE DEF OfficeInv, AnnouncedIsProcessed, TypeInv, WithdrawalsTypeOK
<1>4. CASE UNCHANGED office
  BY <1>2, <1>3, <1>4 DEF office, Away
<1>5. ASSUME NEW a \in Admins, OfficeStep(a)
      PROVE  OfficeInv'
  <2>1. CASE \E t \in Transfers : Find(a, t)
    BY <2>1, <1>3 DEF Find, database, Recorded, Away
  <2>2. CASE Process(a)
    <3>1. \A b \in Admins : b # a => admin'[b] = admin[b]
      BY <2>2 DEF Process
    <3>2. \A b \in Admins : admin'[b].at = "mail" =>
            admin'[b].transfer = admin[b].transfer /\ admin[b] # Away
      <4>1. admin[a] # Away /\ admin[a] \in Visits
        BY <2>2 DEF Process, Away
      <4>2. admin'[a] = Away \/ admin'[a] = [admin[a] EXCEPT !.at = "mail"]
        BY <2>2 DEF Process
      <4>3. Away.at # "mail"
        BY DEF Away
      <4> QED
        BY <3>1, <4>1, <4>2, <4>3 DEF Visits
    <3>3. admin'[a].at = "mail" => rows'[admin[a].transfer].state = "processed"
      BY <2>2, <1>3 DEF Process, Away, Recorded, Rows
    <3> QED
      BY <1>2, <1>3, <2>2, <3>1, <3>2, <3>3 DEF Process
  <2>3. CASE Mail(a)
    BY <2>3, <1>3 DEF Mail, database, Recorded, Away
  <2>4. CASE OfficeFails(a)
    BY <2>4, <1>3 DEF OfficeFails, database, Recorded, Away
  <2> QED
    BY <1>5, <2>1, <2>2, <2>3, <2>4 DEF OfficeStep
<1> QED
  BY <1>4, <1>5
  DEF Next, OfficeStep, Step, Request, Validate, Insert, Deadlock,
      CheckReserve, Send, Record, Commit, AnswerLost, Fail, Restart, vars

-----------------------------------------------------------------------------
(* Locks, and the balance they keep.                                        *)

(* Who has read a balance under a lock is not written past, and the balance   *)
(* still covers what was validated.                                         *)
LockInv ==
  \A w \in Workers : Reading(w) =>
    /\ \A v \in Workers \ {w} : ~Writing(v)
    /\ Row(w).amount <= bal[Row(w).user]

LEMMA LockInit == Init => LockInv
BY DEF Init, LockInv, Reading, Writing, At, Idle

LEMMA WorkerLocks ==
  ASSUME TypeInv, LockInv, NEW w \in Workers, WorkerStep(w)
  PROVE  LockInv'
<1> USE DEF TypeInv, WithdrawalsTypeOK, LockInv, Reading, Writing, At, Row,
            database, provider, office
<1>1. ASSUME NEW t \in Transfers, NEW u \in Users, NEW amount \in Amounts,
             Request(w, t, u, amount)
      PROVE  LockInv'
  BY <1>1 DEF Request
<1>2. CASE Validate(w)
  BY <1>2 DEF Validate, MayRead, Valid, RolledBack, Goes, Transactions, Idle
<1>3. CASE Insert(w)
  BY <1>3 DEF Insert, MayWrite, Goes, Transactions, Idle
<1>4. CASE Deadlock(w)
  BY <1>4 DEF Deadlock, RolledBack, Idle
<1>5. CASE CheckReserve(w)
  BY <1>5 DEF CheckReserve, Goes, Transactions, Idle
<1>6. CASE Send(w)
  BY <1>6 DEF Send, Sent, Goes, RolledBack, Transactions, Idle
<1>7. CASE Record(w)
  BY <1>7 DEF Record, Transactions, Rows, Idle
<1>8. CASE Commit(w)
  BY <1>8 DEF Commit, RolledBack, Idle
<1>9. CASE AnswerLost(w)
  BY <1>9 DEF AnswerLost, RolledBack, Idle
<1>10. CASE Fail(w)
  BY <1>10 DEF Fail, RolledBack, Idle
<1>11. CASE Restart(w)
  BY <1>11 DEF Restart
<1> QED
  BY <1>1, <1>2, <1>3, <1>4, <1>5, <1>6, <1>7, <1>8, <1>9, <1>10, <1>11
  DEF WorkerStep, Step

LEMMA LockStep ==
  ASSUME TypeInv, LockInv, [Next]_vars
  PROVE  LockInv'
<1>1. CASE UNCHANGED <<bal, tx>>
  BY <1>1 DEF LockInv, Reading, Writing, At, Row
<1>2. CASE \E w \in Workers : WorkerStep(w)
  BY <1>2, WorkerLocks
<1> QED
  BY <1>1, <1>2 DEF Next, WorkerStep, Find, Process, Mail, OfficeFails, vars,
                    database

-----------------------------------------------------------------------------
(* Losses.                                                                  *)

LossInv == IsFiniteSet(Lost) /\ LossesAreInterruptions

LEMMA LossInit == Init => LossInv
<1> SUFFICES ASSUME Init PROVE LossInv
  OBVIOUS
<1>1. Lost = {}
  BY DEF Init, Lost
<1> QED
  BY <1>1, FS_EmptySet, WithdrawalsAssumption
  DEF LossInv, LossesAreInterruptions, Init, WithdrawalsAssumption

(* A request that goes on or ends without a failure loses nothing: what it     *)
(* was sent for is in flight or recorded.                                   *)
LEMMA KeepsMoney ==
  ASSUME TypeInv, FlightInv, NEW w \in Workers,
         Step(w) \/ (\E t \in Transfers, u \in Users, amount \in Amounts :
                      Request(w, t, u, amount))
  PROVE  Lost' \subseteq Lost /\ failures' = failures
<1> USE DEF TypeInv, WithdrawalsTypeOK, Lost, InFlight, Recorded, database,
            provider, office
<1>0. tx[w] # Idle => tx[w] \in Transactions /\ tx[w].transfer \in Transfers
  BY DEF Transactions
<1>1. CASE \E t \in Transfers, u \in Users, amount \in Amounts :
             Request(w, t, u, amount)
  BY <1>1 DEF Request, Idle
<1>2. ASSUME tx[w] # Idle, ~HasSent(w), RolledBack(w), UNCHANGED <<rows, sent>>
      PROVE  Lost' \subseteq Lost
  <2>1. sent[tx[w].transfer] = 0
    BY <1>2 DEF FlightInv
  <2> QED
    BY <1>2, <2>1 DEF RolledBack
<1>3. ASSUME tx[w] # Idle, tx'[w] # Idle, tx'[w].transfer = tx[w].transfer,
             \A v \in Workers \ {w} : tx'[v] = tx[v],
             UNCHANGED rows,
             \A t \in Transfers : t # tx[w].transfer => sent'[t] = sent[t]
      PROVE  Lost' \subseteq Lost
  BY <1>3
<1>4. CASE Validate(w)
  BY <1>0, <1>2, <1>3, <1>4
  DEF Validate, Goes, At, HasSent, Idle, Transactions
<1>5. CASE Insert(w)
  BY <1>0, <1>3, <1>5 DEF Insert, Goes, At, Idle, Transactions
<1>6. CASE Deadlock(w)
  BY <1>2, <1>6 DEF Deadlock, At, HasSent, Idle
<1>7. CASE CheckReserve(w)
  BY <1>0, <1>3, <1>7 DEF CheckReserve, Goes, At, Idle, Transactions
<1>8. CASE Send(w)
  BY <1>0, <1>2, <1>3, <1>8
  DEF Send, Sent, Goes, At, HasSent, Idle, Transactions
<1>9. CASE Record(w)
  BY <1>0, <1>3, <1>9 DEF Record, At, Idle, Transactions
<1>10. CASE Commit(w)
  <2>1. tx[w] \in Transactions /\ Row(w) # NoRow
    BY <1>0, <1>10 DEF Commit, At, Idle, Transactions, Row, Rows, NoRow
  <2> QED
    BY <1>0, <1>10, <2>1 DEF Commit, RolledBack, At, Idle
<1>11. failures' = failures
  BY DEF Step, Request, Validate, Insert, Deadlock, CheckReserve, Send,
         Record, Commit
<1> QED
  BY <1>1, <1>4, <1>5, <1>6, <1>7, <1>8, <1>9, <1>10, <1>11 DEF Step

(* A request that is interrupted loses what was sent for its transfer.       *)
LEMMA LosesOne ==
  ASSUME TypeInv, NEW w \in Workers, AnswerLost(w) \/ Fail(w)
  PROVE  /\ Lost' \subseteq Lost \cup {tx[w].transfer}
         /\ failures' = failures + 1
BY DEF AnswerLost, Fail, Sent, RolledBack, At, TypeInv, WithdrawalsTypeOK,
       Lost, InFlight, Recorded, database, provider, office, Idle

LEMMA LossStep ==
  ASSUME TypeInv, FlightInv, LossInv, [Next]_vars
  PROVE  LossInv'
<1>1. failures \in Nat
  BY WithdrawalsAssumption DEF TypeInv, WithdrawalsTypeOK, WithdrawalsAssumption
<1>2. IsFiniteSet(Lost) /\ Cardinality(Lost) <= failures
  BY DEF LossInv, LossesAreInterruptions
<1>3. ASSUME Lost' \subseteq Lost, failures' \in {failures, failures + 1}
      PROVE  LossInv'
  <2>1. IsFiniteSet(Lost') /\ Cardinality(Lost') <= Cardinality(Lost)
    BY <1>2, <1>3, FS_Subset
  <2>2. Cardinality(Lost') \in Nat /\ Cardinality(Lost) \in Nat
    BY <1>2, <2>1, FS_CardinalityType
  <2> QED
    BY <1>1, <1>2, <1>3, <2>1, <2>2 DEF LossInv, LossesAreInterruptions
<1>4. ASSUME NEW w \in Workers, AnswerLost(w) \/ Fail(w)
      PROVE  LossInv'
  <2> DEFINE more == Lost \cup {tx[w].transfer}
  <2>0. Cardinality(Lost) \in Nat
    BY <1>2, FS_CardinalityType
  <2>1. IsFiniteSet(more) /\ Cardinality(more) <= Cardinality(Lost) + 1
    <3>1. /\ IsFiniteSet(more)
          /\ \/ Cardinality(more) = Cardinality(Lost)
             \/ Cardinality(more) = Cardinality(Lost) + 1
      BY <1>2, FS_AddElement, Zenon
    <3> HIDE DEF more
    <3> QED
      BY <2>0, <3>1
  <2>2. IsFiniteSet(Lost') /\ Cardinality(Lost') <= Cardinality(more)
    BY <1>4, <2>1, LosesOne, FS_Subset
  <2>3. /\ Cardinality(Lost') \in Nat /\ Cardinality(Lost) \in Nat
        /\ Cardinality(more) \in Nat
    BY <1>2, <2>1, <2>2, FS_CardinalityType
  <2>4. failures' = failures + 1
    BY <1>4, LosesOne
  <2> QED
    BY <1>1, <1>2, <2>1, <2>2, <2>3, <2>4 DEF LossInv, LossesAreInterruptions
<1>5. CASE \E a \in Admins : OfficeStep(a)
  <2>1. Lost' \subseteq Lost
    <3>1. \A t \in Transfers : Recorded(t) => Recorded(t)'
      <4>1. Final
        BY FinalStep
      <4>2. \A t \in Transfers : Recorded(t) =>
              [rows[t] EXCEPT !.state = "processed"] # NoRow
        BY DEF Recorded, TypeInv, WithdrawalsTypeOK, Rows, NoRow
      <4> QED
        BY <4>1, <4>2 DEF Final, Recorded
    <3>2. UNCHANGED <<tx, sent>>
      BY <1>5 DEF OfficeStep, Find, Process, Mail, OfficeFails, provider
    <3> QED
      BY <3>1, <3>2 DEF Lost, InFlight
  <2>2. failures' \in {failures, failures + 1}
    BY <1>5 DEF OfficeStep, Find, Process, Mail, OfficeFails
  <2> QED
    BY <1>3, <2>1, <2>2
<1>6. CASE UNCHANGED <<tx, rows, sent, failures>>
  BY <1>3, <1>6 DEF Lost, InFlight, Recorded
<1>7. CASE \E w \in Workers :
             Step(w) \/ (\E t \in Transfers, u \in Users, amount \in Amounts :
                          Request(w, t, u, amount))
  BY <1>3, <1>7, KeepsMoney
<1> QED
  BY <1>4, <1>5, <1>6, <1>7
  DEF Next, OfficeStep, Restart, vars, database, provider

-----------------------------------------------------------------------------
IInv == TypeInv /\ FlightInv /\ OfficeInv /\ LockInv /\ LossInv

LEMMA Invariance == Spec => []IInv
<1>1. Init => OfficeInv
  BY DEF Init, OfficeInv, AnnouncedIsProcessed, Away
<1>2. Init => IInv
  BY <1>1, TypeInit, FlightInit, LockInit, LossInit DEF IInv
<1>3. IInv /\ [Next]_vars => IInv'
  BY TypeStep, FlightStep, OfficeInvStep, LockStep, LossStep DEF IInv
<1> QED
  BY <1>2, <1>3, PTL DEF Spec

(* Types.                                                                   *)
THEOREM WithdrawalsTypeCorrect == Spec => []WithdrawalsTypeOK
<1>1. IInv => WithdrawalsTypeOK
  BY DEF IInv, TypeInv
<1> QED
  BY <1>1, Invariance, PTL

(* The table tells what was sent (BitcoinTransfer#execute,                   *)
(* LibertyReserveTransfer#execute): a transfer without an id was not.         *)
THEOREM SentIsRecorded == Spec => []RowsTellWhatWasSent
<1>1. IInv => RowsTellWhatWasSent
  BY DEF IInv, FlightInv
<1> QED
  BY <1>1, Invariance, PTL

(* Every loss is that of a request interrupted after the provider was called  *)
(* (BitcoinTransfer#execute, LibertyReserveTransfer#execute).                *)
THEOREM OnlyInterruptionsLose == Spec => []LossesAreInterruptions
<1>1. IInv => LossesAreInterruptions
  BY DEF IInv, LossInv
<1> QED
  BY <1>1, Invariance, PTL

(* Users are told of processed transfers only (process_tx).                 *)
THEOREM AnnouncedAreProcessed == Spec => []AnnouncedIsProcessed
<1>1. IInv => AnnouncedIsProcessed
  BY DEF IInv, OfficeInv
<1> QED
  BY <1>1, Invariance, PTL

(* Recorded transfers change from pending to processed at most (process!).   *)
THEOREM TransfersStayFinal == Spec => TransfersAreFinal
<1>1. IInv /\ [Next]_vars =>
        [\A t \in Transfers :
           Recorded(t) =>
             \/ rows'[t] = rows[t]
             \/ /\ rows[t].state = "pending"
                /\ rows'[t] = [rows[t] EXCEPT !.state = "processed"]]_vars
  BY FinalStep DEF IInv, Final
<1> QED
  BY <1>1, Invariance, PTL DEF Spec, TransfersAreFinal

(* A serializable transaction leaves no negative balance (user_balance,       *)
(* transaction_with_isolation).                                             *)
THEOREM SerializableNeverOverdraws == Spec => OnlyFirstTransactionsOverdraw
<1> DEFINE Overdraws(u) ==
      bal'[u] < bal[u] /\ bal'[u] < 0 =>
        \E w \in Workers : /\ At(w, "commit") /\ tx'[w] = Idle
                           /\ Row(w).user = u /\ ~tx[w].serial
<1>1. ASSUME IInv, [Next]_vars, NEW u \in Users
      PROVE  Overdraws(u)
  <2>1. bal \in [Users -> Int]
    BY <1>1 DEF IInv, TypeInv, WithdrawalsTypeOK
  <2>2. CASE UNCHANGED bal
    BY <2>1, <2>2
  <2>3. ASSUME NEW w \in Workers, Commit(w)
        PROVE  Overdraws(u)
    <3>1. tx[w] \in Transactions /\ Row(w) \in Rows
      BY <1>1, <2>3 DEF IInv, TypeInv, WithdrawalsTypeOK, Commit, At, Idle,
                        Transactions, Row
    <3>2. tx[w].serial => Row(w).amount <= bal[Row(w).user]
      BY <1>1, <2>3 DEF IInv, LockInv, Reading, Writing, Commit, At
    <3>3. tx'[w] = Idle /\ At(w, "commit")
      BY <1>1, <2>3 DEF IInv, TypeInv, WithdrawalsTypeOK, Commit, RolledBack
    <3>4. bal' = [bal EXCEPT ![Row(w).user] = @ - Row(w).amount]
      BY <2>3 DEF Commit
    <3> QED
      BY <2>1, <3>1, <3>2, <3>3, <3>4 DEF Rows
  <2> QED
    BY <1>1, <2>2, <2>3
    DEF Next, Step, Request, Validate, Insert, Deadlock, CheckReserve, Send,
        Record, AnswerLost, Fail, Restart, Find, Process, Mail, OfficeFails,
        vars, database
<1>2. IInv /\ [Next]_vars =>
        [\A u \in Users :
           bal'[u] < bal[u] /\ bal'[u] < 0 =>
             \E w \in Workers : /\ At(w, "commit") /\ tx'[w] = Idle
                                /\ Row(w).user = u /\ ~tx[w].serial]_vars
  BY <1>1
<1> QED
  BY <1>2, Invariance, PTL DEF Spec, OnlyFirstTransactionsOverdraw

-----------------------------------------------------------------------------
(* Withdrawals with bank accounts.                                          *)

(* Every step is one of withdrawals, or one of bank accounts that leaves      *)
(* withdrawals alone.                                                      *)
THEOREM BankAccountsImplementWithdrawals == BankSpec => Spec
<1>1. BankInit => Init
  BY DEF BankInit
<1>2. [BankNext]_bankVars => [Next]_vars
  <2>1. CASE AccountStep
    BY <2>1 DEF AccountStep, CreateAccount, Verify, FindAccount, CheckAccount,
                DestroyAccount, KeepAccount
  <2>2. CASE WithdrawalStep
    BY <2>2 DEF WithdrawalStep, TransferStep, RequestTransfer,
                ValidateTransfer, OtherStep, Interrupt, CommitTransfer,
                MailWithAccount, Next, Step
  <2>3. CASE UNCHANGED bankVars
    BY <2>3 DEF bankVars
  <2> QED
    BY <2>1, <2>2, <2>3 DEF BankNext
<1> QED
  BY <1>1, <1>2, PTL DEF BankSpec, Spec

(* An account that is entered with a wire is that wire's only.  What a        *)
(* serializable request has validated stays payable.                        *)
PayeeInv ==
  /\ \A s, t \in Wires :
       payee[s] # Nobody /\ payee[s] = payee[t] /\ banks[payee[s]] = NoAccount
         => s = t
  /\ \A w \in Workers :
       Reading(w) /\ tx[w].transfer \in Wires =>
         Payable(tx[w].transfer, Row(w).user)

BankInv == BanksTypeOK /\ PayeeInv

LEMMA BankInvInit == BankInit => BankInv
BY BankAssumption
DEF BankInit, Init, BankInv, BanksTypeOK, PayeeInv, Recorded, InFlight, Reading,
    Writing, At, Idle, Transfers

(* A request that stays one keeps its choice, its locks and its account.     *)
LEMMA RequestGoesOn ==
  ASSUME TypeInv, BankInv, NEW w \in Workers, tx[w] # Idle,
         tx'[w] # Idle, tx'[w].transfer = tx[w].transfer,
         tx'[w].serial = tx[w].serial, Row(w)'.user = Row(w).user,
         \A v \in Workers \ {w} : tx'[v] = tx[v],
         Reading(w)' /\ tx[w].transfer \in Wires =>
           Payable(tx[w].transfer, Row(w).user),
         UNCHANGED <<rows, accounts>>
  PROVE  BankInv'
<1>1. BanksTypeOK'
  BY DEF BankInv, BanksTypeOK, accounts, Recorded, InFlight
<1>2. PayeeInv'
  BY DEF BankInv, PayeeInv, accounts, Reading, Writing, At, Row, Payable, Exists
<1> QED
  BY <1>1, <1>2 DEF BankInv

(* A request that is rolled back frees its choice.                          *)
LEMMA RequestForgets ==
  ASSUME TypeInv, FlightInv, BankInv, NEW w \in Workers, tx[w] # Idle,
         RolledBack(w), Forgets(w), UNCHANGED <<rows, banks, erasing>>
  PROVE  BankInv'
<1> DEFINE t0 == tx[w].transfer
<1>1. tx'[w] = Idle /\ \A v \in Workers \ {w} : tx'[v] = tx[v]
  BY DEF RolledBack, TypeInv, WithdrawalsTypeOK
<1>2. ~Recorded(t0) /\ \A v \in Workers \ {w} : tx[v] # Idle => tx[v].transfer # t0
  BY DEF FlightInv
<1>3. payee \in [Wires -> Banks \cup {Nobody}]
  BY DEF BankInv, BanksTypeOK
<1>4. \A t \in Wires : payee'[t] = IF t = t0 THEN Nobody ELSE payee[t]
  BY <1>1, <1>3 DEF Forgets
<1>5. \A t \in Wires : InFlight(t)' <=> InFlight(t) /\ t # t0
  BY <1>1, <1>2 DEF InFlight
<1>6. BanksTypeOK'
  BY <1>1, <1>2, <1>3, <1>4, <1>5 DEF BankInv, BanksTypeOK, Recorded, Forgets
<1>7. ASSUME NEW v \in Workers, Reading(v)', tx'[v].transfer \in Wires
      PROVE  Payable(tx[v].transfer, Row(v).user)'
  <2>1. v # w
    BY <1>1, <1>7 DEF Reading, Writing, At, Idle
  <2>2. tx'[v] = tx[v] /\ tx[v] # Idle /\ Reading(v)
    BY <1>1, <1>7, <2>1 DEF Reading, Writing, At, Idle
  <2> QED
    BY <1>2, <1>4, <1>7, <2>1, <2>2
    DEF BankInv, PayeeInv, Payable, Row, Exists
<1>8. PayeeInv'
  BY <1>4, <1>7 DEF BankInv, PayeeInv
<1> QED
  BY <1>6, <1>8 DEF BankInv

(* The commit of a wire leaves its account with its user.                   *)
LEMMA CommitKeepsAccounts ==
  ASSUME TypeInv, FlightInv, BankInv, NEW w \in Workers, CommitTransfer(w)
  PROVE  BankInv'
<1> DEFINE t0 == tx[w].transfer
           b0 == payee[t0]
<1>1. /\ tx[w] \in Transactions /\ Row(w) \in Rows /\ t0 \in Transfers
      /\ tx[w] # Idle
  BY DEF CommitTransfer, Commit, At, Idle, TypeInv, WithdrawalsTypeOK,
         Transactions, Row
<1>2. /\ tx' = [tx EXCEPT ![w] = Idle]
      /\ rows' = [rows EXCEPT ![t0] = Row(w)]
      /\ UNCHANGED <<payee, erasing>>
  BY DEF CommitTransfer, Commit, RolledBack
<1>3. \A t \in Transfers :
        Recorded(t)' \/ InFlight(t)' <=> Recorded(t) \/ InFlight(t)
  BY <1>1, <1>2 DEF Recorded, InFlight, Rows, NoRow, TypeInv, WithdrawalsTypeOK
<1>4. \/ UNCHANGED banks
      \/ /\ t0 \in Wires /\ b0 \in Banks /\ banks[b0] = NoAccount
         /\ banks' = [banks EXCEPT ![b0] =
                        [user |-> Row(w).user, state |-> "unverified"]]
  BY <1>1, BankAssumption
  DEF CommitTransfer, BankInv, BanksTypeOK, InFlight
<1>5. BanksTypeOK'
  BY <1>1, <1>2, <1>3, <1>4
  DEF BankInv, BanksTypeOK, Accounts, Rows, Transfers
<1>6. \A v \in Workers :
        Reading(v)' => v # w /\ tx'[v] = tx[v] /\ Reading(v) /\ tx[v] # Idle
  BY <1>1, <1>2 DEF Reading, Writing, At, Idle, TypeInv, WithdrawalsTypeOK
<1>7. ASSUME NEW v \in Workers, Reading(v)', tx'[v].transfer \in Wires
      PROVE  Payable(tx[v].transfer, Row(v).user)'
  <2>1. v # w /\ tx'[v] = tx[v] /\ Reading(v) /\ tx[v] # Idle
    BY <1>6, <1>7
  <2>2. Payable(tx[v].transfer, Row(v).user) /\ tx[v].transfer # t0
    BY <1>1, <1>7, <2>1 DEF BankInv, PayeeInv, FlightInv
  <2>3. payee[tx[v].transfer] # Nobody /\ payee[tx[v].transfer] \in Banks
    BY <1>7, <2>1 DEF BankInv, BanksTypeOK, InFlight
  <2>4. banks'[payee[tx[v].transfer]] = banks[payee[tx[v].transfer]]
    <3>1. CASE UNCHANGED banks
      BY <3>1
    <3>2. CASE t0 \in Wires /\ banks[b0] = NoAccount
      <4>1. payee[tx[v].transfer] # b0
        BY <1>7, <2>1, <2>2, <2>3, <3>2 DEF BankInv, PayeeInv
      <4> QED
        BY <1>4, <2>3, <4>1 DEF BankInv, BanksTypeOK
    <3> QED
      BY <1>4, <3>1, <3>2
  <2> QED
    BY <1>2, <2>1, <2>2, <2>4 DEF Payable, Exists, Row
<1>8. \A b \in Banks : banks'[b] = NoAccount => banks[b] = NoAccount
  BY <1>4 DEF BankInv, BanksTypeOK, NoAccount
<1>9. PayeeInv'
  BY <1>2, <1>7, <1>8 DEF BankInv, PayeeInv, BanksTypeOK
<1> QED
  BY <1>5, <1>9 DEF BankInv

(* A step of a request keeps the accounts of wires.                         *)
LEMMA TransfersKeepAccounts ==
  ASSUME TypeInv, FlightInv, BankInv, NEW w \in Workers,
         TransferStep(w) \/ Interrupt(w)
  PROVE  BankInv'
<1>1. tx[w] # Idle /\ tx[w] \in Transactions /\ tx \in [Workers -> Transactions \cup {Idle}]
  BY DEF TransferStep, ValidateTransfer, OtherStep, Interrupt, CommitTransfer,
         Validate, Insert, Deadlock, CheckReserve, Send, Record, Commit,
         AnswerLost, Fail, At, Idle, TypeInv, WithdrawalsTypeOK, Reading, Writing
<1>2. CASE CommitTransfer(w)
  BY <1>2, CommitKeepsAccounts
<1>3. ASSUME RolledBack(w), ValidateTransfer(w) \/ OtherStep(w) \/ Interrupt(w)
      PROVE  BankInv'
  BY <1>1, <1>3, RequestForgets
  DEF ValidateTransfer, OtherStep, Interrupt, Validate, Insert, Deadlock,
      CheckReserve, Send, Record, AnswerLost, Fail, database
<1>4. ASSUME NEW stage \in Stages, Goes(w, stage),
             ValidateTransfer(w) \/ OtherStep(w), At(w, "validate") \/ Reading(w) \/ ~tx[w].serial
      PROVE  BankInv'
  <2>1. /\ tx'[w] # Idle /\ tx'[w].transfer = tx[w].transfer
        /\ tx'[w].serial = tx[w].serial /\ Row(w)'.user = Row(w).user
        /\ \A v \in Workers \ {w} : tx'[v] = tx[v]
    BY <1>1, <1>4 DEF Goes, Transactions, Idle, Row
  <2>2. UNCHANGED <<rows, accounts>>
    BY <1>4, <2>1
    DEF ValidateTransfer, OtherStep, Forgets, Validate, Insert, Deadlock,
        CheckReserve, Send, Record, database, accounts
  <2>3. Reading(w)' /\ tx[w].transfer \in Wires =>
          Payable(tx[w].transfer, Row(w).user)
    <3>1. CASE ValidateTransfer(w)
      BY <2>1, <3>1 DEF ValidateTransfer
    <3>2. CASE OtherStep(w)
      <4>1. ~At(w, "validate")
        BY <3>2 DEF OtherStep, Insert, Deadlock, CheckReserve, Send, Record,
                    At, Reading, Writing
      <4> QED
        BY <1>4, <2>1, <4>1 DEF BankInv, PayeeInv, Reading
    <3> QED
      BY <1>4, <3>1, <3>2
  <2> QED
    BY <1>1, <2>1, <2>2, <2>3, RequestGoesOn
<1>5. CASE ValidateTransfer(w)
  BY <1>3, <1>4, <1>5 DEF ValidateTransfer, Validate, Stages
<1>6. CASE OtherStep(w) /\ (Deadlock(w) \/ Insert(w) \/ CheckReserve(w) \/ Send(w))
  <2>1. Reading(w) \/ ~tx[w].serial
    <3>1. tx[w].at \in {"insert", "check", "send"}
      BY <1>6 DEF Deadlock, Insert, CheckReserve, Send, At
    <3>2. tx[w].serial \in BOOLEAN
      BY <1>1 DEF Transactions
    <3> QED
      BY <3>1, <3>2 DEF Reading, Writing, At
  <2>2. RolledBack(w) \/ \E stage \in Stages : Goes(w, stage)
    BY <1>6 DEF Deadlock, Insert, CheckReserve, Send, Stages
  <2> QED
    BY <1>3, <1>4, <1>6, <2>1, <2>2
<1>7. CASE OtherStep(w) /\ Record(w)
  <2>1. /\ tx'[w] # Idle /\ tx'[w].transfer = tx[w].transfer
        /\ tx'[w].serial = tx[w].serial /\ Row(w)'.user = Row(w).user
        /\ \A v \in Workers \ {w} : tx'[v] = tx[v]
    BY <1>1, <1>7 DEF Record, Transactions, Rows, Idle, Row
  <2>2. UNCHANGED <<rows, accounts>>
    BY <1>7, <2>1 DEF OtherStep, Forgets, Record, database, accounts
  <2>3. Reading(w)' => Reading(w)
    BY <1>7, <2>1 DEF Record, Reading, Writing, At
  <2> QED
    BY <1>1, <2>1, <2>2, <2>3, RequestGoesOn DEF BankInv, PayeeInv
<1>8. CASE Interrupt(w)
  BY <1>3, <1>8 DEF Interrupt, AnswerLost, Fail
<1> QED
  BY <1>2, <1>5, <1>6, <1>7, <1>8 DEF TransferStep, OtherStep

(* A request for a transfer picks an account that no wire is entering.       *)
LEMMA RequestsKeepAccounts ==
  ASSUME TypeInv, BankInv, NEW w \in Workers, NEW t0 \in Transfers,
         NEW u \in Users, NEW amount \in Amounts,
         RequestTransfer(w, t0, u, amount)
  PROVE  BankInv'
<1>1. /\ tx[w] = Idle /\ ~InFlight(t0) /\ ~Recorded(t0)
      /\ tx'[w].transfer = t0 /\ tx'[w].at = "validate" /\ tx'[w] # Idle
      /\ \A v \in Workers \ {w} : tx'[v] = tx[v]
      /\ UNCHANGED <<rows, banks, erasing>>
  BY DEF RequestTransfer, Request, Idle, TypeInv, WithdrawalsTypeOK, database
<1>2. \A t \in Transfers : InFlight(t)' <=> InFlight(t) \/ t = t0
  BY <1>1 DEF InFlight
<1>3. \/ t0 \in Instant /\ UNCHANGED payee
      \/ /\ t0 \in Wires
         /\ \E b \in Banks : ~Reserved(b) /\ payee' = [payee EXCEPT ![t0] = b]
  BY DEF RequestTransfer
<1>4. t0 \in Instant => t0 \notin Wires
  BY WithdrawalsAssumption DEF WithdrawalsAssumption
<1>5. \A t \in Wires : t # t0 => payee'[t] = payee[t]
  BY <1>3 DEF BankInv, BanksTypeOK
<1>6. BanksTypeOK'
  BY <1>1, <1>2, <1>3, <1>4, BankAssumption
  DEF BankInv, BanksTypeOK, Transfers, Recorded
<1>7. ASSUME NEW r \in Wires, NEW t \in Wires, payee'[r] # Nobody,
             payee'[r] = payee'[t], banks[payee'[r]] = NoAccount
      PROVE  r = t
  <2>1. CASE r # t0 /\ t # t0
    BY <1>5, <1>7, <2>1 DEF BankInv, PayeeInv
  <2>2. CASE r = t0 /\ t # t0
    BY <1>3, <1>4, <1>5, <1>7, <2>2 DEF Reserved, BankInv, BanksTypeOK
  <2>3. CASE r # t0 /\ t = t0
    BY <1>3, <1>4, <1>5, <1>7, <2>3 DEF Reserved, BankInv, BanksTypeOK
  <2> QED
    BY <2>1, <2>2, <2>3
<1>8. ASSUME NEW v \in Workers, Reading(v)', tx'[v].transfer \in Wires
      PROVE  Payable(tx[v].transfer, Row(v).user)'
  <2>1. v # w /\ tx'[v] = tx[v] /\ Reading(v)
    BY <1>1, <1>8 DEF Reading, Writing, At
  <2>2. tx[v].transfer # t0
    BY <1>1, <2>1 DEF InFlight, Reading, Writing, At, Idle
  <2> QED
    BY <1>1, <1>5, <1>8, <2>1, <2>2
    DEF BankInv, PayeeInv, Payable, Exists, Row
<1>9. PayeeInv'
  BY <1>1, <1>7, <1>8 DEF PayeeInv
<1> QED
  BY <1>6, <1>9 DEF BankInv

(* An account that a serializable request has found is neither destroyed      *)
(* nor given to another user.                                              *)
LEMMA AccountsKeepPayees ==
  ASSUME TypeInv, BankInv, AccountStep
  PROVE  BankInv'
<1>1. UNCHANGED <<vars, payee>>
  BY DEF AccountStep, CreateAccount, Verify, FindAccount, CheckAccount,
         DestroyAccount, KeepAccount
<1>2. ASSUME banks' \in [Banks -> Accounts \cup {NoAccount, Destroyed}],
             erasing' \in [Users -> Erasures \cup {Away}],
             \A b \in Banks : banks'[b] = NoAccount => banks[b] = NoAccount,
             \A b \in Banks : Locked(b) =>
               \/ banks'[b] = banks[b]
               \/ Exists(b) /\ Exists(b)' /\ banks'[b].user = banks[b].user
      PROVE  BankInv'
  <2>1. BanksTypeOK'
    BY <1>1, <1>2
    DEF BankInv, BanksTypeOK, vars, database, Recorded, InFlight
  <2>2. ASSUME NEW v \in Workers, Reading(v)', tx'[v].transfer \in Wires
        PROVE  Payable(tx[v].transfer, Row(v).user)'
    <3>1. Reading(v) /\ tx[v].transfer \in Wires
      BY <1>1, <2>2 DEF vars, Reading, Writing, At
    <3>2. payee[tx[v].transfer] \in Banks /\ Locked(payee[tx[v].transfer])
      BY <3>1
      DEF BankInv, BanksTypeOK, InFlight, Locked, Reading, Writing, At, Idle
    <3>3. Payable(tx[v].transfer, Row(v).user)
      BY <3>1 DEF BankInv, PayeeInv
    <3>4. ~Exists(payee[tx[v].transfer]) =>
            banks[payee[tx[v].transfer]] = NoAccount
      BY <3>3 DEF Payable
    <3>5. banks[payee[tx[v].transfer]] = NoAccount =>
            ~Exists(payee[tx[v].transfer])
      BY DEF Exists, Accounts, NoAccount
    <3> QED
      BY <1>1, <1>2, <3>2, <3>3, <3>4, <3>5 DEF Payable, Row, vars, Exists
  <2>3. PayeeInv'
    BY <1>1, <1>2, <2>2 DEF BankInv, PayeeInv, BanksTypeOK
  <2> QED
    BY <2>1, <2>3 DEF BankInv
<1> USE DEF BankInv, BanksTypeOK
<1>3. ASSUME NEW u \in Users, NEW b \in Banks, CreateAccount(u, b)
      PROVE  BankInv'
  <2>1. ~Locked(b)
    BY <1>3 DEF CreateAccount, Reserved, Locked
  <2> QED
    BY <1>2, <1>3, <2>1 DEF CreateAccount, Accounts, NoAccount
<1>4. ASSUME NEW b \in Banks, Verify(b)
      PROVE  BankInv'
  BY <1>2, <1>4 DEF Verify, Exists, Accounts, NoAccount
<1>5. ASSUME NEW u \in Users, NEW b \in Banks, FindAccount(u, b)
      PROVE  BankInv'
  BY <1>2, <1>5 DEF FindAccount, Exists, Accounts, Erasures
<1>6. ASSUME NEW u \in Users, CheckAccount(u)
      PROVE  BankInv'
  BY <1>2, <1>6 DEF CheckAccount, Erasures, Away
<1>7. ASSUME NEW u \in Users, DestroyAccount(u)
      PROVE  BankInv'
  BY <1>2, <1>7 DEF DestroyAccount, Erasures, Away, Destroyed, NoAccount
<1>8. ASSUME NEW u \in Users, KeepAccount(u)
      PROVE  BankInv'
  BY <1>2, <1>8 DEF KeepAccount
<1> QED
  BY <1>3, <1>4, <1>5, <1>6, <1>7, <1>8 DEF AccountStep

LEMMA OfficeKeepsAccounts ==
  ASSUME TypeInv, FlightInv, BankInv, [Next]_vars, UNCHANGED <<tx, accounts>>
  PROVE  BankInv'
<1>1. \A t \in Transfers : Recorded(t) => Recorded(t)'
  <2>1. Final
    BY FinalStep
  <2>2. \A t \in Transfers : Recorded(t) =>
          [rows[t] EXCEPT !.state = "processed"] # NoRow
    BY DEF Recorded, TypeInv, WithdrawalsTypeOK, Rows, NoRow
  <2> QED
    BY <2>1, <2>2 DEF Final, Recorded
<1>2. \A t \in Transfers : Recorded(t)' => Recorded(t)
  <2>1. CASE \E w \in Workers : Commit(w)
    BY <2>1 DEF Commit, RolledBack, At, Idle, TypeInv, WithdrawalsTypeOK
  <2>2. CASE \E a \in Admins : Process(a)
    BY <2>2 DEF Process, Recorded, TypeInv, WithdrawalsTypeOK, VisitsRecorded,
                Visits, Away
  <2>3. CASE UNCHANGED rows
    BY <2>3 DEF Recorded
  <2> QED
    BY <2>1, <2>2, <2>3
    DEF Next, Step, Request, Validate, Insert, Deadlock, CheckReserve, Send,
        Record, AnswerLost, Fail, Restart, Find, Mail, OfficeFails, vars,
        database
<1> QED
  BY <1>1, <1>2
  DEF BankInv, BanksTypeOK, PayeeInv, accounts, InFlight, Reading, Writing, At,
      Row, Payable, Exists, Transfers

LEMMA BankInvStep ==
  ASSUME TypeInv, FlightInv, BankInv, [BankNext]_bankVars, [Next]_vars
  PROVE  BankInv'
<1>1. CASE AccountStep
  BY <1>1, AccountsKeepPayees
<1>2. CASE UNCHANGED <<tx, accounts>>
  BY <1>2, OfficeKeepsAccounts
<1>3. CASE WithdrawalStep
  BY <1>2, <1>3, RequestsKeepAccounts, TransfersKeepAccounts
  DEF WithdrawalStep, Restart, Find, Process, MailWithAccount, Mail,
      OfficeFails
<1> QED
  BY <1>1, <1>2, <1>3 DEF BankNext, bankVars, vars

LEMMA BankInvariance == BankSpec => [](TypeInv /\ FlightInv /\ BankInv)
<1>1. BankSpec => Spec
  BY BankAccountsImplementWithdrawals
<1>2. IInv => TypeInv /\ FlightInv
  BY DEF IInv
<1>3. TypeInv /\ FlightInv /\ BankInv /\ [BankNext]_bankVars /\ [Next]_vars
        => BankInv'
  BY BankInvStep
<1> QED
  BY <1>1, <1>2, <1>3, BankInvInit, Invariance, PTL DEF BankSpec, Spec

(* Types.                                                                   *)
THEOREM BanksTypeCorrect == BankSpec => []BanksTypeOK
<1>1. BankInv => BanksTypeOK
  BY DEF BankInv
<1> QED
  BY <1>1, BankInvariance, PTL

(* A wire is committed to an account of its user that exists, unless by the   *)
(* first transaction of a connection (check_bank_account_id, destroy).       *)
THEOREM SerializableWiresGoToAccounts == BankSpec => WiresGoToAccounts
<1> DEFINE Reaches(t) ==
      ~Recorded(t) /\ Recorded(t)' =>
        \/ Exists(payee[t])' /\ banks'[payee'[t]].user = rows'[t].user
        \/ \E w \in Workers : /\ At(w, "commit") /\ tx[w].transfer = t
                              /\ ~tx[w].serial
<1>1. ASSUME TypeInv, FlightInv, BankInv, [BankNext]_bankVars, NEW t \in Wires
      PROVE  Reaches(t)
  <2>1. ASSUME NEW w \in Workers, CommitTransfer(w), tx[w].serial,
               tx[w].transfer = t
        PROVE  Reaches(t)
    <3>1. /\ At(w, "commit") /\ tx[w] \in Transactions /\ Row(w) \in Rows
          /\ rows'[t] = Row(w) /\ payee' = payee
      BY <1>1, <2>1
      DEF CommitTransfer, Commit, At, Idle, TypeInv, WithdrawalsTypeOK,
          Transactions, Row, Transfers
    <3>2. Payable(t, Row(w).user) /\ payee[t] \in Banks
      BY <1>1, <2>1, <3>1, BankAssumption
      DEF BankInv, BanksTypeOK, PayeeInv, InFlight, Reading, Writing, At, Idle
    <3>3. CASE banks[payee[t]] = NoAccount
      <4>1. banks'[payee[t]] = [user |-> Row(w).user, state |-> "unverified"]
        BY <1>1, <2>1, <3>2, <3>3 DEF CommitTransfer, BankInv, BanksTypeOK
      <4> QED
        BY <3>1, <4>1 DEF Exists, Accounts, Rows
    <3>4. CASE banks[payee[t]] # NoAccount
      BY <2>1, <3>1, <3>2, <3>4 DEF CommitTransfer, Payable, Exists
    <3> QED
      BY <3>3, <3>4
  <2>2. ASSUME NEW w \in Workers, CommitTransfer(w)
        PROVE  Reaches(t)
    <3>1. CASE tx[w].transfer = t
      BY <2>1, <2>2, <3>1 DEF CommitTransfer, Commit
    <3>2. CASE tx[w].transfer # t
      BY <1>1, <2>2, <3>2 DEF CommitTransfer, Commit, Recorded, TypeInv,
                              WithdrawalsTypeOK, Transfers
    <3> QED
      BY <3>1, <3>2
  <2>3. CASE \E a \in Admins : Process(a)
    BY <1>1, <2>3 DEF Process, Recorded, TypeInv, WithdrawalsTypeOK,
                      VisitsRecorded, Visits, Away, Transfers
  <2>4. CASE UNCHANGED rows
    BY <2>4 DEF Recorded
  <2> QED
    BY <1>1, <2>2, <2>3, <2>4
    DEF BankNext, WithdrawalStep, AccountStep, TransferStep, RequestTransfer,
        Request, ValidateTransfer, Validate, OtherStep, Insert, Deadlock,
        CheckReserve, Send, Record, Interrupt, AnswerLost, Fail, Restart, Find,
        MailWithAccount, Mail, OfficeFails, CreateAccount, Verify, FindAccount,
        CheckAccount, DestroyAccount, KeepAccount, bankVars, vars, database
<1>2. TypeInv /\ FlightInv /\ BankInv /\ [BankNext]_bankVars =>
        [\A t \in Wires :
           ~Recorded(t) /\ Recorded(t)' =>
             \/ Exists(payee[t])' /\ banks'[payee'[t]].user = rows'[t].user
             \/ \E w \in Workers : /\ At(w, "commit") /\ tx[w].transfer = t
                                   /\ ~tx[w].serial]_bankVars
  BY <1>1
<1> QED
  BY <1>2, BankInvariance, PTL DEF BankSpec, WiresGoToAccounts
=============================================================================
