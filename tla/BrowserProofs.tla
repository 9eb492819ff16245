--------------------------- MODULE BrowserProofs ---------------------------
(***************************************************************************)
(* Theorems of the page: for every set of pages, every delay, timer, lag    *)
(* and jump of the local clock, and every history of fields and answers.    *)
(*                                                                         *)
(* PageInv says what a countdown reads of what its timer last did, and how  *)
(* the page and the session are related; FormInv that the latest question   *)
(* is either on its way, or answered, or disturbed.                         *)
(***************************************************************************)
EXTENDS BrowserProperties, TLAPS

-----------------------------------------------------------------------------
(* The countdowns.                                                          *)

Bounded(p) ==
  /\ inst[p].until <= inst[p].ready + Timeout
  /\ inst[p].ready + Timeout < inst[p].until + Second

(* Of an open page.                                                         *)
Served(p) ==
  /\ served[p] <= inst[p].ready
  /\ inst[p].ready <= served[p] + Latency

Over(i) == i.until - i.now < Second

Paced(p) ==
  /\ clock <= fires[p] + Lag
  /\ Over(inst[p]) \/ fires[p] < inst[p].now + Second + Interval
  /\ ~inst[p].target => Over(inst[p])
  /\ inst[p].location = "logout" => inst[p].until <= clock
  /\ inst[p].now <= inst[p].until

Page(p) ==
  /\ served[p] <= clock
  /\ document[p] = "loading" => clock <= served[p] + Latency
  /\ document[p] = "open" =>
       Served(p) /\ Paced(p) /\ (~Misread(p) => Bounded(p))
  /\ document[p] \in {"loading", "open"}
     /\ session.signed /\ session.since <= served[p]
       => served[p] <= session.last

Sessions == [signed : BOOLEAN, since : Nat, last : Nat]

CountTypes ==
  /\ clock \in 0..MaxClock
  /\ jump \in {-Hour, Hour}
  /\ document \in [Pages -> Documents]
  /\ inst \in [Pages -> Inst]
  /\ fires \in [Pages -> Nat]
  /\ session \in Sessions
  /\ served \in [Pages -> Nat]

PageInv ==
  /\ CountTypes
  /\ \A p \in Pages : Page(p)

(* A quotient and its remainder.                                            *)
LEMMA Division ==
  ASSUME NEW n \in Int, NEW d \in Nat \ {0}
  PROVE  /\ n \div d \in Int
         /\ n % d \in 0..(d - 1)
         /\ n = (n \div d) * d + (n % d)
OBVIOUS

LEMMA TruncateRounds ==
  ASSUME NEW t \in Int
  PROVE  /\ Truncate(t) \in Int
         /\ Truncate(t) <= t
         /\ t < Truncate(t) + Second
<1>1. Second \in Nat \ {0}
  BY CountdownAssumption
<1>2. /\ t \div Second \in Int
      /\ t % Second \in 0..(Second - 1)
      /\ t = (t \div Second) * Second + (t % Second)
  BY <1>1, Division
<1>3. (t \div Second) * Second \in Int
  BY <1>1, <1>2
<1> QED
  BY <1>1, <1>2, <1>3 DEF Truncate

(* Less in whole seconds is less by a second.                               *)
LEMMA WholeSeconds ==
  ASSUME NEW a \in Int, NEW b \in Int, NEW s \in Nat \ {0}, a < b
  PROVE  a * s <= b * s - s
<1>1. a <= b - 1
  OBVIOUS
<1>2. b - 1 - a \in Nat
  BY <1>1
<1>3. (b - 1 - a) * s >= 0
  BY <1>2
<1>4. (b - 1 - a) * s = b * s - s - a * s
  OBVIOUS
<1> QED
  BY <1>3, <1>4

(* The clock jumps on a whole second.                                       *)
LEMMA ZoneOfTruncate ==
  ASSUME NEW t \in Int
  PROVE  Zone(Truncate(t)) = Zone(t)
<1> DEFINE q == t \div Second
           c == Change \div Second
<1>1. Second \in Nat \ {0} /\ Change \in Int /\ Change % Second = 0
  BY CountdownAssumption
<1>2. q \in Int /\ c \in Int /\ Change = c * Second
  BY <1>1, Division
<1>3. Truncate(t) = q * Second /\ Truncate(t) <= t /\ t < Truncate(t) + Second
      /\ Truncate(t) \in Int
  BY TruncateRounds DEF Truncate
<1> HIDE DEF q, c
<1>4. CASE q < c
  <2>1. q * Second <= c * Second - Second
    BY <1>1, <1>2, <1>4, WholeSeconds
  <2>2. t < Change /\ Truncate(t) < Change
    BY <1>1, <1>2, <1>3, <2>1
  <2> QED
    BY <2>2 DEF Zone
<1>5. CASE ~(q < c)
  <2>1. q * Second >= c * Second
    <3>1. CASE q = c
      BY <1>1, <1>2, <3>1
    <3>2. CASE c < q
      BY <1>1, <1>2, <3>2, WholeSeconds
    <3> QED
      BY <1>2, <1>5, <3>1, <3>2
  <2>2. ~(t < Change) /\ ~(Truncate(t) < Change)
    BY <1>1, <1>2, <1>3, <2>1
  <2> QED
    BY <2>2 DEF Zone
<1> QED
  BY <1>4, <1>5

LEMMA ZoneIsInt ==
  ASSUME NEW t \in Int, jump \in {-Hour, Hour}
  PROVE  Zone(t) \in Int /\ Local(t) \in Int
BY CountdownAssumption DEF Zone, Local

LEMMA TimeoutIsNat == Timeout \in Nat
BY CountdownAssumption DEF Timeout

(* A date set by local fields is an instant; unless they are skipped, it     *)
(* reads as they do.                                                        *)
LEMMA InstantsRead ==
  ASSUME NEW l \in Int, jump \in {-Hour, Hour}, NEW t \in Instants(l)
  PROVE  t \in Int /\ (~Skipped(l) => Local(t) = l)
<1>1. t \in {l, l - jump} /\ (~Skipped(l) => Local(t) = l)
  BY DEF Instants
<1> QED
  BY <1>1, CountdownAssumption

(* The end of the countdown is an integer, and if it is not misread less     *)
(* than a second before the session would end if it began now.               *)
LEMMA UntilBounds ==
  ASSUME clock \in Int, jump \in {-Hour, Hour},
         NEW logout \in Instants(Local(clock) + Timeout)
  PROVE  /\ Until(logout) \in Int
         /\ ~Skipped(Local(clock) + Timeout) =>
              /\ Until(logout) <= clock + Timeout
              /\ clock + Timeout < Until(logout) + Second
<1> DEFINE l == Local(clock) + Timeout
<1>1. l \in Int /\ Zone(clock) \in Int
  BY ZoneIsInt, TimeoutIsNat
<1>2. logout \in Int /\ (~Skipped(l) => Local(logout) = l)
  BY <1>1, InstantsRead
<1>3. /\ Truncate(logout) \in Int
      /\ Truncate(logout) <= logout
      /\ logout < Truncate(logout) + Second
  BY <1>2, TruncateRounds
<1>4. Zone(Truncate(logout)) = Zone(logout) /\ Zone(logout) \in Int
  BY <1>2, ZoneOfTruncate, ZoneIsInt
<1>5. Until(logout) = Truncate(logout) + Zone(logout) - Zone(clock)
  <2>1. Local(Truncate(logout)) = Truncate(logout) + Zone(logout)
    BY <1>4 DEF Local
  <2> QED
    BY <1>1, <1>3, <1>4, <2>1 DEF Until, UTCDate
<1>6. Local(logout) = logout + Zone(logout) /\ l = clock + Zone(clock) + Timeout
  BY DEF Local
<1>7. Second \in Nat /\ Timeout \in Nat
  BY CountdownAssumption, TimeoutIsNat
<1> HIDE DEF l
<1>8. Until(logout) \in Int
  BY <1>1, <1>3, <1>4, <1>5
<1>9. ASSUME ~Skipped(l)
      PROVE  /\ Until(logout) <= clock + Timeout
             /\ clock + Timeout < Until(logout) + Second
  BY <1>1, <1>2, <1>3, <1>4, <1>5, <1>6, <1>7, <1>9
<1> QED
  BY <1>8, <1>9 DEF l

LEMMA Expiry ==
  /\ Get("onExpiry") = "logout"
  /\ Get("alwaysExpire") = FALSE
  /\ Get("expiryUrl") = "here"
BY DEF Get, Options, Defaults

(* What _updateCountdown does to a countdown.                               *)
LEMMA UpdateCounts ==
  ASSUME clock \in Nat, NEW i \in Inst
  PROVE  /\ Updated(i) \in Inst
         /\ Updated(i).ready = i.ready
         /\ Updated(i).until = i.until
         /\ Updated(i).now <= i.until
         /\ Over(Updated(i)) \/ clock < Updated(i).now + Second
         /\ Updated(i).target => i.target
         /\ i.target /\ ~Updated(i).target => Over(Updated(i))
         /\ Updated(i).location = "logout" =>
              i.location = "logout" \/ i.until <= clock
<1> DEFINE c == Truncate(clock)
<1>1. c \in Int /\ c <= clock /\ clock < c + Second
  BY TruncateRounds
<1>2. i.until \in Int /\ i.now \in Int /\ i.target \in BOOLEAN
      /\ i.ready \in Nat /\ i.location \in {"here", "logout"}
  BY DEF Inst
<1>3. Second \in Nat \ {0}
  BY CountdownAssumption
<1>4. Now(i.until) = IF c > i.until THEN i.until ELSE c
  BY DEF Now
<1> HIDE DEF c
<1>5. Now(i.until) \in Int /\ Now(i.until) <= i.until
      /\ (Now(i.until) >= i.until => i.until <= clock /\ Now(i.until) = i.until)
      /\ (i.until - Now(i.until) < Second \/ clock < Now(i.until) + Second)
  BY <1>1, <1>2, <1>3, <1>4
<1>6. Expiring(i) <=> Now(i.until) >= i.until /\ i.target
  BY Expiry DEF Expiring
<1>7. Updated(i) = [i EXCEPT !.now = Now(i.until),
                             !.target = i.target /\ ~Expiring(i),
                             !.location = IF Expiring(i) THEN "logout"
                                          ELSE i.location]
  BY Expiry DEF Updated
<1>8. /\ Updated(i).ready = i.ready
      /\ Updated(i).until = i.until
      /\ Updated(i).now = Now(i.until)
      /\ Updated(i).target = (i.target /\ ~Expiring(i))
      /\ Updated(i).location = IF Expiring(i) THEN "logout" ELSE i.location
  BY <1>7 DEF Inst
<1>9. Updated(i) \in Inst
  BY <1>2, <1>5, <1>6, <1>7 DEF Inst
<1> QED
  BY <1>2, <1>3, <1>5, <1>6, <1>8, <1>9 DEF Over

LEMMA AttachCounts ==
  ASSUME clock \in Nat, NEW until \in Int
  PROVE  /\ Attached(until) \in Inst
         /\ Attached(until).ready = clock
         /\ Attached(until).until = until
         /\ Attached(until).now <= until
         /\ Over(Attached(until)) \/ clock < Attached(until).now + Second
         /\ ~Attached(until).target => Over(Attached(until))
         /\ Attached(until).location = "logout" => until <= clock
<1> DEFINE ahead == until > clock
           i == [ready |-> clock, until |-> until, now |-> until,
                 target |-> ahead, location |-> "here"]
<1>1. i \in Inst /\ i.ready = clock /\ i.until = until /\ i.location = "here"
      /\ (i.target <=> until > clock)
  <2>1. ahead \in BOOLEAN /\ (ahead <=> until > clock)
    OBVIOUS
  <2> HIDE DEF ahead
  <2>2. i \in Inst /\ i.ready = clock /\ i.until = until /\ i.location = "here"
        /\ i.target = ahead
    BY <2>1 DEF Inst
  <2> HIDE DEF i
  <2> QED
    BY <2>1, <2>2
<1>2. Attached(until) = Updated(i)
  BY DEF Attached
<1> HIDE DEF i, ahead
<1>3. CASE i.target
  BY <1>1, <1>2, <1>3, UpdateCounts
<1>4. CASE ~i.target
  <2>1. Second \in Nat
    BY CountdownAssumption
  <2>2. Updated(i).now \in Int /\ Updated(i).until = until
    BY <1>1, UpdateCounts DEF Inst
  <2>3. until <= clock
    BY <1>1, <1>4
  <2>4. Over(Updated(i)) \/ clock < Updated(i).now + Second
    BY <1>1, UpdateCounts
  <2>5. Over(Updated(i))
    BY <2>1, <2>2, <2>3, <2>4 DEF Over
  <2> QED
    BY <1>1, <1>2, <2>5, UpdateCounts
<1> QED
  BY <1>3, <1>4

LEMMA Constants ==
  /\ Second \in Nat \ {0} /\ Interval \in Nat \ {0} /\ Minute \in Nat \ {0}
  /\ Lag \in Nat /\ Latency \in Nat /\ MaxClock \in Nat
  /\ Delay \in Nat /\ Hour \in Nat
BY CountdownAssumption, BrowserAssumption

(* What Page says depends on nothing but the parts of its own page.          *)
LEMMA PageUnchanged ==
  ASSUME NEW p \in Pages, CountTypes, Page(p), jump' = jump,
         document'[p] = document[p], inst'[p] = inst[p], fires'[p] = fires[p],
         served'[p] = served[p], clock' = clock, session' = session
  PROVE  Page(p)'
BY DEF Page, Served, Paced, Bounded, Over, Misread, Skipped, Local, Zone, Timeout

LEMMA EndedSession == [signed |-> FALSE, since |-> 0, last |-> 0] \in Sessions
BY DEF Sessions

(* A request, the end of a session and a new one leave the pages alone.      *)
LEMMA SessionUse ==
  ASSUME PageInv, UNCHANGED <<countVars, served>>,
         \/ UNCHANGED session
         \/ Renew
         \/ End
         \/ session' = [signed |-> TRUE, since |-> clock, last |-> clock]
  PROVE  PageInv'
<1>1. UNCHANGED <<clock, jump, document, inst, fires, served>>
  BY DEF countVars
<1>2. clock \in Nat /\ served \in [Pages -> Nat] /\ session \in Sessions
  BY Constants DEF PageInv, CountTypes
<1>3. session' \in Sessions
  <2>1. CASE UNCHANGED session
    BY <1>2, <2>1
  <2>2. CASE Renew
    BY <1>2, <2>2 DEF Renew, Sessions
  <2>3. CASE End
    BY <2>3, EndedSession DEF End
  <2>4. CASE session' = [signed |-> TRUE, since |-> clock, last |-> clock]
    BY <1>2, <2>4 DEF Sessions
  <2> QED
    BY <2>1, <2>2, <2>3, <2>4
<1>4. ASSUME NEW p \in Pages, session'.signed, session'.since <= served[p],
             document[p] \in {"loading", "open"}
      PROVE  served[p] <= session'.last
  <2>1. Page(p) /\ served[p] \in Nat
    BY <1>2 DEF PageInv
  <2>2. served[p] <= clock
    BY <2>1 DEF Page
  <2>3. CASE UNCHANGED session
    BY <2>1, <2>3, <1>4 DEF Page
  <2>4. CASE Renew
    BY <2>2, <2>4, <1>2 DEF Renew, Sessions
  <2>5. CASE End
    BY <2>5, <1>4 DEF End
  <2>6. CASE session' = [signed |-> TRUE, since |-> clock, last |-> clock]
    BY <2>2, <2>6
  <2> QED
    BY <2>3, <2>4, <2>5, <2>6
<1>5. ASSUME NEW p \in Pages
      PROVE  Page(p)'
  <2>1. Page(p)
    BY DEF PageInv
  <2> QED
    BY <1>1, <1>4, <2>1 DEF Page, Served, Paced, Bounded, Over, Misread, Skipped,
                            Local, Zone, Timeout
<1> QED
  BY <1>1, <1>3, <1>5 DEF PageInv, CountTypes

LEMMA UnloadPage ==
  ASSUME PageInv, NEW p \in Pages, Unload(p), UNCHANGED session \/ End
  PROVE  PageInv'
<1>1. /\ document' = [document EXCEPT ![p] = "gone"]
      /\ inst' = [inst EXCEPT ![p] = NoInst]
      /\ fires' = [fires EXCEPT ![p] = 0]
      /\ served' = [served EXCEPT ![p] = 0]
      /\ UNCHANGED <<clock, jump>>
  BY DEF Unload, Replace
<1>2. CountTypes /\ clock \in Nat
  BY Constants DEF PageInv, CountTypes
<1>3. NoInst \in Inst /\ "gone" \in Documents
  BY DEF NoInst, Inst, Documents
<1>4. CountTypes'
  <2>1. session' \in Sessions
    <3>1. CASE UNCHANGED session
      BY <1>2, <3>1 DEF CountTypes
    <3>2. CASE End
      BY <3>2, EndedSession DEF End
    <3> QED
      BY <3>1, <3>2
  <2> QED
    BY <1>1, <1>2, <1>3, <2>1 DEF CountTypes
<1>5. ASSUME NEW q \in Pages
      PROVE  Page(q)'
  <2>1. Page(q)
    BY DEF PageInv
  <2>2. CASE q = p
    <3>1. document'[p] = "gone" /\ served'[p] = 0
      BY <1>1, <1>2 DEF CountTypes
    <3> QED
      BY <1>1, <1>2, <2>2, <3>1 DEF Page
  <2>3. CASE q # p
    <3>1. /\ document'[q] = document[q] /\ inst'[q] = inst[q]
          /\ fires'[q] = fires[q] /\ served'[q] = served[q]
      BY <1>1, <1>2, <2>3 DEF CountTypes
    <3>2. CASE UNCHANGED session
      BY <1>1, <1>2, <2>1, <3>1, <3>2, PageUnchanged
    <3>3. CASE End
      <4>1. ~session'.signed
        BY <3>3 DEF End
      <4> QED
        BY <1>1, <2>1, <3>1, <4>1 DEF Page, Served, Paced, Bounded, Over, Misread,
                                     Skipped, Local, Zone, Timeout
    <3> QED
      BY <3>2, <3>3
  <2> QED
    BY <2>2, <2>3
<1> QED
  BY <1>4, <1>5 DEF PageInv

LEMMA ServePage ==
  ASSUME PageInv, NEW p \in Pages, Serve(p)
  PROVE  PageInv'
<1>1. /\ document[p] = "unsent"
      /\ document' = [document EXCEPT ![p] = "loading"]
      /\ served' = [served EXCEPT ![p] = clock]
      /\ session' = [session EXCEPT !.last = clock]
      /\ UNCHANGED <<clock, jump, inst, fires>>
  BY DEF Serve, Renew
<1>2. CountTypes /\ clock \in Nat
  BY Constants DEF PageInv, CountTypes
<1>3. CountTypes'
  BY <1>1, <1>2 DEF CountTypes, Documents, Sessions
<1>4. session'.last = clock
  BY <1>1, <1>2 DEF CountTypes, Sessions
<1>5. ASSUME NEW q \in Pages
      PROVE  Page(q)'
  <2>1. Page(q) /\ served[q] \in Nat
    BY <1>2 DEF PageInv, CountTypes
  <2>2. CASE q = p
    <3>1. document'[p] = "loading" /\ served'[p] = clock
      BY <1>1, <1>2 DEF CountTypes
    <3> QED
      BY <1>1, <1>2, <1>4, <2>2, <3>1, Constants DEF Page
  <2>3. CASE q # p
    <3>1. document'[q] = document[q] /\ served'[q] = served[q]
      BY <1>1, <1>2, <2>3 DEF CountTypes
    <3>2. served[q] <= clock
      BY <2>1 DEF Page
    <3> QED
      BY <1>1, <1>4, <2>1, <3>1, <3>2
         DEF Page, Served, Paced, Bounded, Over, Misread, Skipped, Local, Zone,
             Timeout
  <2> QED
    BY <2>2, <2>3
<1> QED
  BY <1>3, <1>5 DEF PageInv

LEMMA ReadyPage ==
  ASSUME PageInv, NEW p \in Pages, Ready(p), UNCHANGED sessionVars
  PROVE  PageInv'
<1>1. /\ document[p] = "loading"
      /\ document' = [document EXCEPT ![p] = "open"]
      /\ UNCHANGED <<clock, jump, session, served>>
  BY DEF Ready, sessionVars
<1>2. PICK logout \in Instants(Local(clock) + Timeout) :
        inst' = [inst EXCEPT ![p] = Attached(Until(logout))]
  BY DEF Ready, Timeout
<1>3. PICK phase \in 1..Interval : fires' = [fires EXCEPT ![p] = clock + phase]
  BY DEF Ready
<1>4. CountTypes /\ clock \in Nat /\ clock \in Int /\ jump \in {-Hour, Hour}
  BY Constants DEF PageInv, CountTypes
<1> DEFINE until == Until(logout)
           i == Attached(until)
<1>5. /\ until \in Int
      /\ ~Skipped(Local(clock) + Timeout) =>
           until <= clock + Timeout /\ clock + Timeout < until + Second
  BY <1>4, UntilBounds
<1> HIDE DEF until
<1>6. /\ i \in Inst /\ i.ready = clock /\ i.until = until /\ i.now <= until
      /\ Over(i) \/ clock < i.now + Second
      /\ ~i.target => Over(i)
      /\ i.location = "logout" => until <= clock
  BY <1>4, <1>5, AttachCounts
<1>7. inst' = [inst EXCEPT ![p] = i]
  BY <1>2 DEF until
<1> HIDE DEF i
<1>8. CountTypes'
  BY <1>1, <1>3, <1>4, <1>6, <1>7, Constants DEF CountTypes, Documents
<1>9. ASSUME NEW q \in Pages
      PROVE  Page(q)'
  <2>1. Page(q)
    BY DEF PageInv
  <2>2. CASE q # p
    <3>1. document'[q] = document[q] /\ inst'[q] = inst[q] /\ fires'[q] = fires[q]
      BY <1>1, <1>3, <1>4, <1>7, <2>2 DEF CountTypes
    <3> QED
      BY <1>1, <1>4, <2>1, <3>1, PageUnchanged
  <2>3. CASE q = p
    <3>1. document'[p] = "open" /\ inst'[p] = i /\ fires'[p] = clock + phase
      BY <1>1, <1>3, <1>4, <1>7 DEF CountTypes
    <3>2. i.now \in Int /\ served[p] \in Nat /\ phase \in 1..Interval
      BY <1>4, <1>6 DEF CountTypes, Inst
    <3>3. served[p] <= clock /\ clock <= served[p] + Latency
      BY <1>1, <2>1, <2>3 DEF Page
    <3>4. Served(p)'
      BY <1>1, <1>6, <3>1, <3>3 DEF Served
    <3>5. Paced(p)'
      BY <1>1, <1>4, <1>6, <3>1, <3>2, Constants DEF Paced, Over
    <3>6. ~Misread(p)' => Bounded(p)'
      BY <1>1, <1>5, <1>6, <3>1 DEF Misread, Bounded, Skipped, Local, Zone, Timeout
    <3> QED
      BY <1>1, <2>1, <2>3, <3>1, <3>3, <3>4, <3>5, <3>6 DEF Page
  <2> QED
    BY <2>2, <2>3
<1> QED
  BY <1>8, <1>9 DEF PageInv

LEMMA TimerPage ==
  ASSUME PageInv, NEW p \in Pages, Timer(p), UNCHANGED sessionVars
  PROVE  PageInv'
<1>1. /\ document[p] = "open"
      /\ fires' = [fires EXCEPT ![p] = clock + Interval]
      /\ inst' = IF inst[p].target
                 THEN [inst EXCEPT ![p] = Updated(inst[p])] ELSE inst
      /\ UNCHANGED <<clock, jump, document, session, served>>
  BY DEF Timer, sessionVars
<1>2. CountTypes /\ clock \in Nat /\ inst[p] \in Inst /\ inst[p].until \in Int
      /\ inst[p].target \in BOOLEAN
  BY Constants DEF PageInv, CountTypes, Inst
<1> DEFINE i == Updated(inst[p])
<1>3. /\ i \in Inst /\ i.ready = inst[p].ready /\ i.until = inst[p].until
      /\ i.now <= inst[p].until
      /\ Over(i) \/ clock < i.now + Second
      /\ inst[p].target /\ ~i.target => Over(i)
      /\ i.location = "logout" =>
           inst[p].location = "logout" \/ inst[p].until <= clock
  BY <1>2, UpdateCounts
<1> HIDE DEF i
<1>4. inst' \in [Pages -> Inst] /\ fires' \in [Pages -> Nat]
  BY <1>1, <1>2, <1>3, Constants DEF CountTypes, i
<1>5. CountTypes'
  BY <1>1, <1>2, <1>4 DEF CountTypes
<1>6. ASSUME NEW q \in Pages
      PROVE  Page(q)'
  <2>1. Page(q)
    BY DEF PageInv
  <2>2. CASE q # p
    <3>1. inst'[q] = inst[q] /\ fires'[q] = fires[q]
      BY <1>1, <1>2, <2>2 DEF CountTypes
    <3> QED
      BY <1>1, <1>2, <2>1, <3>1, PageUnchanged
  <2>3. CASE q = p
    <3>1. fires'[p] = clock + Interval
      BY <1>1, <1>2 DEF CountTypes
    <3>2. Served(p) /\ Paced(p) /\ (~Misread(p) => Bounded(p))
      BY <1>1, <2>1, <2>3 DEF Page
    <3>3. CASE inst[p].target
      <4>1. inst'[p] = i
        BY <1>1, <1>2, <3>3 DEF CountTypes, i
      <4>2. i.now \in Int
        BY <1>3 DEF Inst
      <4>3. Paced(p)'
        BY <1>1, <1>2, <1>3, <3>1, <3>2, <3>3, <4>1, <4>2, Constants DEF Paced, Over
      <4> QED
        BY <1>1, <1>3, <2>1, <2>3, <3>2, <4>1, <4>3
           DEF Page, Served, Bounded, Misread, Skipped, Local, Zone, Timeout
    <3>4. CASE ~inst[p].target
      <4>1. inst'[p] = inst[p]
        BY <1>1, <3>4
      <4>2. Paced(p)'
        BY <1>1, <1>2, <3>1, <3>2, <3>4, <4>1, Constants DEF Paced, Over
      <4> QED
        BY <1>1, <2>1, <2>3, <3>2, <4>1, <4>2
           DEF Page, Served, Bounded, Misread, Skipped, Local, Zone, Timeout
    <3> QED
      BY <3>3, <3>4
  <2> QED
    BY <2>2, <2>3
<1> QED
  BY <1>5, <1>6 DEF PageInv

LEMMA AdvancePage ==
  ASSUME PageInv, Advance
  PROVE  PageInv'
<1>1. /\ clock < MaxClock /\ clock' = clock + 1 /\ TimersKept
      /\ \A p \in Pages : document[p] = "loading" => clock < served[p] + Latency
      /\ UNCHANGED <<jump, document, inst, fires, session, served>>
  BY DEF Advance, sessionVars
<1>2. CountTypes /\ clock \in Nat
  BY Constants DEF PageInv, CountTypes
<1>3. CountTypes'
  BY <1>1, <1>2, Constants DEF CountTypes
<1>4. ASSUME NEW p \in Pages
      PROVE  Page(p)'
  <2>1. Page(p) /\ served[p] \in Nat /\ fires[p] \in Nat /\ inst[p] \in Inst
    BY <1>2 DEF PageInv, CountTypes
  <2>2. inst[p].until \in Int
    BY <2>1 DEF Inst
  <2>3. document[p] = "loading" => clock' <= served[p] + Latency
    BY <1>1, <1>2, <2>1, Constants
  <2>4. served[p] <= clock'
    BY <1>1, <1>2, <2>1 DEF Page
  <2>5. document[p] = "open" => Paced(p)'
    <3>1. document[p] = "open" => clock' <= fires[p] + Lag
      BY <1>1, <1>2, <2>1, Constants DEF TimersKept
    <3> QED
      BY <1>1, <1>2, <2>1, <2>2, <3>1 DEF Page, Paced, Over
  <2> QED
    BY <1>1, <2>1, <2>3, <2>4, <2>5
       DEF Page, Served, Bounded, Misread, Skipped, Local, Zone, Timeout
<1> QED
  BY <1>3, <1>4 DEF PageInv

LEMMA PageInit == Init => PageInv
<1> SUFFICES ASSUME Init
             PROVE  PageInv
  OBVIOUS
<1>1. /\ clock = 0 /\ jump \in {-Hour, Hour}
      /\ document = [p \in Pages |-> "unsent"]
      /\ inst = [p \in Pages |-> NoInst]
      /\ fires = [p \in Pages |-> 0]
      /\ session = [signed |-> TRUE, since |-> 0, last |-> 0]
      /\ served = [p \in Pages |-> 0]
  BY DEF Init, CountInit
<1>2. NoInst \in Inst /\ "unsent" \in Documents
  BY DEF NoInst, Inst, Documents
<1>3. session \in Sessions
  BY <1>1 DEF Sessions
<1>4. CountTypes
  BY <1>1, <1>2, <1>3, Constants DEF CountTypes
<1>5. ASSUME NEW p \in Pages
      PROVE  Page(p)
  BY <1>1 DEF Page
<1> QED
  BY <1>4, <1>5 DEF PageInv

LEMMA PageStep == PageInv /\ [Next]_vars => PageInv'
<1> SUFFICES ASSUME PageInv, [Next]_vars
             PROVE  PageInv'
  OBVIOUS
<1>1. CASE SignIn
  BY <1>1, SessionUse DEF SignIn
<1>2. CASE Advance
  BY <1>2, AdvancePage
<1>3. CASE EditForm
  BY <1>3, SessionUse DEF EditForm, sessionVars
<1>4. ASSUME NEW p \in Pages,
             \/ Serve(p) \/ PageReady(p) \/ PageTimer(p) \/ Leave(p) \/ SignOut(p)
             \/ ServeLogout(p) \/ LoseLogout(p)
      PROVE  PageInv'
  <2>1. CASE Serve(p)
    BY <2>1, ServePage
  <2>2. CASE PageReady(p)
    BY <2>2, ReadyPage DEF PageReady
  <2>3. CASE PageTimer(p)
    BY <2>3, TimerPage DEF PageTimer
  <2>4. CASE Leave(p)
    BY <2>4, UnloadPage DEF Leave
  <2>5. CASE SignOut(p)
    BY <2>5, UnloadPage DEF SignOut
  <2>6. CASE ServeLogout(p)
    BY <2>6, UnloadPage DEF ServeLogout
  <2>7. CASE LoseLogout(p)
    BY <2>7, UnloadPage DEF LoseLogout
  <2> QED
    BY <1>4, <2>1, <2>2, <2>3, <2>4, <2>5, <2>6, <2>7
<1>5. ASSUME NEW q \in requests, ServeBalance(q) \/ LoseBalance(q) \/ DeliverBalance(q)
      PROVE  PageInv'
  <2>1. CASE ServeBalance(q)
    BY <2>1, SessionUse DEF ServeBalance
  <2>2. CASE LoseBalance(q)
    BY <2>2, SessionUse DEF LoseBalance, sessionVars
  <2>3. CASE DeliverBalance(q)
    BY <2>3, SessionUse DEF DeliverBalance, sessionVars
  <2> QED
    BY <1>5, <2>1, <2>2, <2>3
<1>6. CASE UNCHANGED vars
  BY <1>6, SessionUse DEF vars, sessionVars
<1> QED
  BY <1>1, <1>2, <1>3, <1>4, <1>5, <1>6 DEF Next

LEMMA PagesAlways == Spec => []PageInv
BY PageInit, PageStep, PTL DEF Spec

(* What the page shows is the time to go, in whole seconds.                  *)
LEMMA ShownIsLeft ==
  ASSUME NEW p \in Pages, inst[p] \in Inst
  PROVE  /\ ShownTime(p) \in Int
         /\ ShownTime(p) <= inst[p].until - inst[p].now
         /\ Over(inst[p]) => ShownTime(p) <= 0
<1> DEFINE left == inst[p].until - inst[p].now
           n == left \div Second
<1>1. left \in Int /\ Second \in Nat \ {0} /\ Minute \in Nat \ {0}
  BY Constants DEF Inst
<1> HIDE DEF left
<1>2. n \in Int /\ left % Second \in 0..(Second - 1)
      /\ left = n * Second + (left % Second)
  BY <1>1, Division
<1> HIDE DEF n
<1>3. n = (n \div Minute) * Minute + (n % Minute)
  BY <1>1, <1>2, Division
<1>4. Shown(p).minutes = n \div Minute /\ Shown(p).seconds = n % Minute
  BY DEF Shown, Periods, n, left
<1>5. ShownTime(p) = n * Second
  BY <1>3, <1>4 DEF ShownTime
<1>6. n * Second \in Int /\ n * Second <= left
  BY <1>1, <1>2
<1>7. ASSUME left < Second
      PROVE  n * Second <= 0
  <2>1. CASE 0 < n
    <3>1. 0 * Second <= n * Second - Second
      BY <1>1, <1>2, <2>1, WholeSeconds
    <3> QED
      BY <1>1, <1>6, <1>7, <3>1
  <2>2. CASE n = 0
    BY <1>1, <2>2
  <2>3. CASE n < 0
    <3>1. n * Second <= 0 * Second - Second
      BY <1>1, <1>2, <2>3, WholeSeconds
    <3> QED
      BY <1>1, <1>6, <3>1
  <2> QED
    BY <1>2, <2>1, <2>2, <2>3
<1> QED
  BY <1>5, <1>6, <1>7 DEF Over, left

(* A page that shows time to go has some, within what its load, its timer    *)
(* and the rounding to seconds take (application.js, jquery.countdown.js).   *)
THEOREM PromisesKept == Spec => []NeverPromisesMore
<1>1. PageInv => NeverPromisesMore
  <2> SUFFICES ASSUME PageInv, NEW p \in Pages,
                      document[p] = "open", ~Misread(p), session.signed,
                      session.since <= served[p], ShownTime(p) > 0
               PROVE  ShownTime(p) <= session.last + Timeout - clock
                                        + Latency + Interval + Lag + Second
    BY DEF NeverPromisesMore
  <2>1. /\ clock \in Nat /\ inst[p] \in Inst /\ fires[p] \in Nat
        /\ served[p] \in Nat /\ session.last \in Nat
    BY Constants DEF PageInv, CountTypes, Sessions
  <2>2. Page(p)
    BY DEF PageInv
  <2>3. Served(p) /\ Paced(p) /\ Bounded(p) /\ served[p] <= session.last
    BY <2>2 DEF Page
  <2>4. /\ inst[p].until \in Int /\ inst[p].now \in Int /\ inst[p].ready \in Nat
    BY <2>1 DEF Inst
  <2>5. /\ ShownTime(p) \in Int
        /\ ShownTime(p) <= inst[p].until - inst[p].now
        /\ ~Over(inst[p])
    BY <2>1, ShownIsLeft
  <2>6. fires[p] < inst[p].now + Second + Interval
    BY <2>3, <2>5 DEF Paced
  <2>7. inst[p].until <= session.last + Latency + Timeout
    BY <2>1, <2>3, <2>4, Constants, TimeoutIsNat DEF Served, Bounded
  <2>8. clock <= fires[p] + Lag
    BY <2>3 DEF Paced
  <2> QED
    BY <2>1, <2>4, <2>5, <2>6, <2>7, <2>8, Constants, TimeoutIsNat
<1> QED
  BY <1>1, PagesAlways, PTL

(* A countdown cuts a session short by a second or more only if something    *)
(* else has used the session (ServeLogout, of any page).                     *)
THEOREM CutShortIfUsed == Spec => CutShortOnlyIfUsedElsewhere
<1> DEFINE Cut(p) == /\ ServeLogout(p) /\ Live /\ ~Misread(p)
                     /\ clock + Second <= session.last + Timeout
<1>1. PageInv => \A p \in Pages : Cut(p) => session.last > served[p]
  <2> SUFFICES ASSUME PageInv, NEW p \in Pages, Cut(p)
               PROVE  session.last > served[p]
    OBVIOUS
  <2>1. /\ document[p] = "open" /\ inst[p].location = "logout" /\ ~Misread(p)
        /\ clock + Second <= session.last + Timeout
    BY DEF ServeLogout, Expired
  <2>2. /\ clock \in Nat /\ inst[p] \in Inst
        /\ served[p] \in Nat /\ session.last \in Nat
    BY Constants DEF PageInv, CountTypes, Sessions
  <2>3. /\ inst[p].until \in Int /\ inst[p].ready \in Nat
    BY <2>2 DEF Inst
  <2>4. Page(p)
    BY DEF PageInv
  <2>5. inst[p].until <= clock /\ served[p] <= inst[p].ready
        /\ inst[p].ready + Timeout < inst[p].until + Second
    BY <2>1, <2>4 DEF Page, Paced, Served, Bounded
  <2> QED
    BY <2>1, <2>2, <2>3, <2>5, Constants, TimeoutIsNat
<1>2. PageInv => [\A p \in Pages : Cut(p) => session.last > served[p]]_vars
  BY <1>1
<1>3. Spec => [][\A p \in Pages : Cut(p) => session.last > served[p]]_vars
  BY <1>2, PagesAlways, PTL
<1> QED
  BY <1>3 DEF CutShortOnlyIfUsedElsewhere

-----------------------------------------------------------------------------
(* The form.                                                                *)

Categories == {"none", "buy", "sell"}
Totals == [value : Int, currency : Currencies \cup {"none"}]
Forms == [category : Categories, currency : Currencies \cup {"none"},
          type : {"limit_order", "market_order"}, priced : BOOLEAN,
          price : Int, amount : Int, focus : {"none", "price", "amount"},
          total : Totals]
Questions == [n : Nat \ {0}, currency : Currencies \cup {"BTC", "none"},
              at : {"sent", "answered"}]
Balances == [currency : Currencies \cup {"BTC", "none"}, n : Nat]

QuestionTypes ==
  /\ balance \in Balances
  /\ asked \in Nat
  /\ requests \in SUBSET Questions
  /\ handled \in Categories

Settled(f) == f.focus = "none" => f.total = Total(f)

(* The currency of the latest question.                                     *)
Wanted == IF handled = "sell" THEN "BTC" ELSE form.currency

Latest ==
  /\ \A q \in requests : q.n = asked => q.currency = Wanted
  /\ balance.n = asked => balance.currency = Wanted
  /\ \/ disturbed
     \/ balance.n = asked
     \/ \E q \in requests : q.n = asked

Numbered ==
  /\ balance.n <= asked
  /\ \A q \in requests : q.n <= asked

QuestionInv ==
  /\ QuestionTypes
  /\ Numbered
  /\ form.category = "none" => handled = "none"
  /\ handled = "none" => asked = 0
  /\ handled # "none" => Latest

FormInv ==
  /\ form \in Forms
  /\ Settled(form)
  /\ QuestionInv
  /\ document[FormPage] # "open" => handled = "none"
  /\ acts \in 0..MaxActs

LEMMA RoundsToInt ==
  ASSUME NEW n \in Int, NEW d \in Nat \ {0}
  PROVE  RoundHalfUp(n, d) \in Int
<1>1. 2 * n + d \in Int /\ 2 * d \in Nat \ {0}
  OBVIOUS
<1> QED
  BY <1>1, Division DEF RoundHalfUp

LEMMA TotalIsTotal ==
  ASSUME NEW f \in Forms
  PROVE  Total(f) \in Totals
<1>1. f.price \in Int /\ f.amount \in Int /\ f.currency \in Currencies \cup {"none"}
  BY DEF Forms
<1>2. f.price * f.amount \in Int
  BY <1>1
<1>3. RoundHalfUp(f.price * f.amount, Fine) \in Int
  BY <1>2, FormAssumption, RoundsToInt
<1> QED
  BY <1>1, <1>3 DEF Total, Totals, NoTotal, NaN

(* A new total, which depends on the price, the amount and the currency.     *)
LEMMA UpdateSettles ==
  ASSUME NEW f \in Forms
  PROVE  /\ UpdateTotal(f) \in Forms
         /\ UpdateTotal(f).total = Total(UpdateTotal(f))
         /\ UpdateTotal(f).category = f.category
         /\ UpdateTotal(f).currency = f.currency
         /\ UpdateTotal(f).focus = f.focus
<1>1. Total(f) \in Totals
  BY TotalIsTotal
<1>2. UpdateTotal(f) = [f EXCEPT !.total = Total(f)]
  BY DEF UpdateTotal
<1>3. /\ UpdateTotal(f) \in Forms
      /\ UpdateTotal(f).total = Total(f)
      /\ UpdateTotal(f).category = f.category
      /\ UpdateTotal(f).currency = f.currency
      /\ UpdateTotal(f).focus = f.focus
      /\ UpdateTotal(f).price = f.price
      /\ UpdateTotal(f).amount = f.amount
  BY <1>1, <1>2 DEF Forms
<1>4. Total(UpdateTotal(f)) = Total(f)
  BY <1>3 DEF Total
<1> QED
  BY <1>3, <1>4

LEMMA LeftSettles ==
  ASSUME NEW f \in Forms, Settled(f)
  PROVE  /\ Left(f) \in Forms
         /\ Left(f).focus = "none"
         /\ Left(f).total = Total(Left(f))
         /\ Left(f).category = f.category
         /\ Left(f).currency = f.currency
<1>1. CASE f.focus = "none"
  BY <1>1 DEF Left, Settled
<1>2. CASE f.focus # "none"
  <2> DEFINE g == UpdateTotal(f)
  <2>1. g \in Forms /\ g.total = Total(g)
        /\ g.category = f.category /\ g.currency = f.currency
    BY UpdateSettles
  <2>2. Left(f) = [g EXCEPT !.focus = "none"]
    BY <1>2 DEF Left
  <2> HIDE DEF g
  <2>3. /\ Left(f) \in Forms /\ Left(f).focus = "none"
        /\ Left(f).total = g.total
        /\ Left(f).category = g.category /\ Left(f).currency = g.currency
        /\ Left(f).price = g.price /\ Left(f).amount = g.amount
    BY <2>1, <2>2 DEF Forms
  <2>4. Total(Left(f)) = Total(g)
    BY <2>3 DEF Total
  <2> QED
    BY <2>1, <2>3, <2>4
<1> QED
  BY <1>1, <1>2

LEMMA NewFormSettled ==
  ASSUME NEW c \in Categories, NEW cur \in Currencies \cup {"none"},
         NEW price \in Int, NEW amount \in Int
  PROVE  /\ NewForm(c, cur, price, amount) \in Forms
         /\ NewForm(c, cur, price, amount).category = c
         /\ NewForm(c, cur, price, amount).currency = cur
         /\ NewForm(c, cur, price, amount).focus = "none"
         /\ NaN \in {price, amount} => Settled(NewForm(c, cur, price, amount))
BY DEF NewForm, Forms, NoTotal, Totals, NaN, Settled, Total

(* updateTradeOrderForm puts the question that the form asks.               *)
LEMMA UpdateAsks ==
  ASSUME NEW f \in Forms, f.focus = "none", UpdateTradeOrderForm(f),
         QuestionTypes, Numbered,
         f.category = "none" => asked = 0
  PROVE  form' \in Forms /\ Settled(form') /\ QuestionInv'
<1>1. form' = UpdateTotal(f) /\ handled' = f.category
  BY DEF UpdateTradeOrderForm
<1>2. /\ form' \in Forms /\ form'.total = Total(form')
      /\ form'.category = f.category /\ form'.currency = f.currency
  BY <1>1, UpdateSettles
<1>3. f.category \in Categories /\ f.currency \in Currencies \cup {"none"}
  BY DEF Forms
<1>4. asked \in Nat /\ balance \in Balances /\ balance.n \in Nat
      /\ \A q \in requests : q \in Questions /\ q.n \in Nat \ {0}
  BY DEF QuestionTypes, Balances, Questions
<1>5. ASSUME NEW c \in Currencies \cup {"BTC", "none"}, SetBalance(c),
             c = Wanted', handled' # "none"
      PROVE  QuestionInv'
  <2> DEFINE new == [n |-> asked + 1, currency |-> c, at |-> "sent"]
  <2>1. /\ asked' = asked + 1 /\ requests' = requests \cup {new}
        /\ UNCHANGED <<balance, disturbed>>
    BY <1>5 DEF SetBalance
  <2>2. new \in Questions /\ new.n = asked + 1 /\ new.currency = c
    BY <1>4 DEF Questions
  <2> HIDE DEF new
  <2>3. QuestionTypes'
    BY <1>1, <1>3, <1>4, <2>1, <2>2 DEF QuestionTypes
  <2>4. Numbered'
    BY <1>4, <2>1, <2>2 DEF Numbered
  <2>5. \A q \in requests : q.n # asked'
    BY <1>4, <2>1 DEF Numbered
  <2>6. balance.n # asked'
    BY <1>4, <2>1 DEF Numbered
  <2>7. Latest'
    BY <1>5, <2>1, <2>2, <2>5, <2>6 DEF Latest
  <2> QED
    BY <1>1, <1>2, <1>5, <2>3, <2>4, <2>7 DEF QuestionInv
<1>6. CASE f.category = "sell" /\ SetBalance("BTC")
  <2>1. Wanted' = "BTC"
    BY <1>1, <1>6 DEF Wanted
  <2> QED
    BY <1>1, <1>2, <1>5, <1>6, <2>1 DEF Settled
<1>7. CASE f.category = "buy" /\ SetBalance(f.currency)
  <2>1. Wanted' = f.currency
    BY <1>1, <1>2, <1>7 DEF Wanted
  <2> QED
    BY <1>1, <1>2, <1>3, <1>5, <1>7, <2>1 DEF Settled
<1>8. CASE f.category = "buy" /\ f.currency = "none" /\ ClearBalance
  <2>1. /\ asked' = asked + 1 /\ requests' = requests
        /\ balance' = [currency |-> "none", n |-> asked + 1]
    BY <1>8 DEF ClearBalance
  <2>2. QuestionTypes'
    BY <1>1, <1>3, <1>4, <2>1 DEF QuestionTypes, Balances
  <2>3. Numbered'
    BY <1>4, <2>1 DEF Numbered
  <2>4. \A q \in requests : q.n # asked'
    BY <1>4, <2>1 DEF Numbered
  <2>5. Wanted' = "none"
    BY <1>1, <1>2, <1>8 DEF Wanted
  <2>6. Latest'
    BY <2>1, <2>4, <2>5 DEF Latest
  <2> QED
    BY <1>1, <1>2, <1>8, <2>2, <2>3, <2>6 DEF QuestionInv, Settled
<1>9. CASE f.category = "none" /\ AskNothing
  <2>1. UNCHANGED <<balance, asked, requests, disturbed>>
    BY <1>9 DEF AskNothing
  <2> QED
    BY <1>1, <1>2, <1>9, <2>1 DEF QuestionInv, QuestionTypes, Numbered, Settled,
                                  Categories
<1> QED
  BY <1>6, <1>7, <1>8, <1>9 DEF UpdateTradeOrderForm

(* An edit that asks nothing, of fields other than the currency.            *)
LEMMA EditAsksNothing ==
  ASSUME QuestionInv, UNCHANGED questionVars, form'.currency = form.currency,
         form'.category = "none" => form.category = "none"
  PROVE  QuestionInv'
BY DEF questionVars, QuestionInv, QuestionTypes, Numbered, Latest, Wanted

LEMMA EditKeeps ==
  ASSUME FormInv, UserEdits, document[FormPage] = "open",
         UNCHANGED document
  PROVE  FormInv'
<1>1. form \in Forms /\ Settled(form) /\ QuestionInv /\ acts \in 0..MaxActs
  BY DEF FormInv
<1>2. /\ Left(form) \in Forms
      /\ Left(form).focus = "none"
      /\ Left(form).total = Total(Left(form))
      /\ Left(form).category = form.category
      /\ Left(form).currency = form.currency
  BY <1>1, LeftSettles
<1>3. ASSUME Act
      PROVE  acts' \in 0..MaxActs
  BY <1>1, <1>3, FormAssumption DEF Act
<1>4. ASSUME form' \in Forms, Settled(form'), QuestionInv', acts' \in 0..MaxActs
      PROVE  FormInv'
  BY <1>4 DEF FormInv
<1>5. ASSUME NEW c \in {"buy", "sell"}, ChooseCategory(c)
      PROVE  FormInv'
  <2> DEFINE f == [Left(form) EXCEPT !.category = c]
  <2>1. f \in Forms /\ f.category = c /\ f.currency = form.currency
    BY <1>2 DEF Forms, Categories
  <2>2. Act /\ form' = UpdateTotal(f) /\ UNCHANGED questionVars
    BY <1>5 DEF ChooseCategory
  <2> HIDE DEF f
  <2>3. /\ form' \in Forms /\ form'.total = Total(form')
        /\ form'.category = c /\ form'.currency = form.currency
    BY <2>1, <2>2, UpdateSettles
  <2> QED
    BY <1>1, <1>3, <1>4, <2>2, <2>3, EditAsksNothing DEF Settled
<1>6. ASSUME NEW c \in Currencies \cup {"none"}, ChooseCurrency(c)
      PROVE  FormInv'
  <2> DEFINE f == [Left(form) EXCEPT !.currency = c]
  <2>1. f \in Forms /\ f.category = form.category /\ f.focus = "none"
    BY <1>2 DEF Forms
  <2>2. Act /\ UpdateTradeOrderForm(f)
    BY <1>6 DEF ChooseCurrency
  <2>3. QuestionTypes /\ Numbered /\ (form.category = "none" => asked = 0)
    BY <1>1 DEF QuestionInv
  <2> HIDE DEF f
  <2> QED
    BY <1>3, <1>4, <2>1, <2>2, <2>3, UpdateAsks
<1>7. ASSUME NEW t \in {"limit_order", "market_order"}, ChooseType(t)
      PROVE  FormInv'
  <2> DEFINE b == t = "limit_order"
             g == Left(form)
  <2>1. b \in BOOLEAN
    OBVIOUS
  <2>2. Act /\ form' = [g EXCEPT !.type = t, !.priced = b] /\ UNCHANGED questionVars
    BY <1>7 DEF ChooseType
  <2> HIDE DEF b, g
  <2>3. g \in Forms /\ g.total = Total(g) /\ g.category = form.category
        /\ g.currency = form.currency
    BY <1>2 DEF g
  <2>4. /\ form' \in Forms /\ form'.total = g.total
        /\ form'.category = g.category /\ form'.currency = g.currency
        /\ form'.price = g.price /\ form'.amount = g.amount
    BY <2>1, <2>2, <2>3 DEF Forms
  <2>5. Total(form') = Total(g)
    BY <2>4 DEF Total
  <2> QED
    BY <1>1, <1>3, <1>4, <2>2, <2>3, <2>4, <2>5, EditAsksNothing DEF Settled
<1>8. ASSUME NEW field \in {"price", "amount"}, Focus(field)
      PROVE  FormInv'
  <2>1. Act /\ form' = [Left(form) EXCEPT !.focus = field] /\ UNCHANGED questionVars
    BY <1>8 DEF Focus
  <2>2. /\ form' \in Forms /\ form'.focus = field
        /\ form'.category = form.category /\ form'.currency = form.currency
    BY <1>2, <2>1 DEF Forms
  <2> QED
    BY <1>1, <1>3, <1>4, <2>1, <2>2, EditAsksNothing DEF Settled
<1>9. ASSUME NEW v, form.focus # "none", v \in Values(form.focus)
      PROVE  LET f == [form EXCEPT ![form.focus] = v]
             IN /\ f \in Forms /\ f.focus = form.focus
                /\ f.category = form.category /\ f.currency = form.currency
  <2>1. v \in Int
    BY <1>9, FormAssumption DEF Values, NaN
  <2>2. CASE form.focus = "price"
    BY <1>1, <2>1, <2>2 DEF Forms
  <2>3. CASE form.focus = "amount"
    BY <1>1, <2>1, <2>3 DEF Forms
  <2> QED
    BY <1>1, <1>9, <2>2, <2>3 DEF Forms
<1>10. ASSUME NEW v, Type(v)
       PROVE  FormInv'
  <2> DEFINE f == [form EXCEPT ![form.focus] = v]
  <2>1. /\ Act /\ form.focus # "none" /\ v \in Values(form.focus)
        /\ form' = UpdateTotal(f) /\ UNCHANGED questionVars
    BY <1>10 DEF Type
  <2>2. f \in Forms /\ f.category = form.category /\ f.currency = form.currency
    BY <1>9, <2>1
  <2> HIDE DEF f
  <2>3. /\ form' \in Forms /\ form'.total = Total(form')
        /\ form'.category = form.category /\ form'.currency = form.currency
    BY <2>1, <2>2, UpdateSettles
  <2> QED
    BY <1>1, <1>3, <1>4, <2>1, <2>3, EditAsksNothing DEF Settled
<1>11. ASSUME NEW v, Paste(v)
       PROVE  FormInv'
  <2>1. /\ Act /\ form.focus # "none" /\ v \in Values(form.focus)
        /\ form' = [form EXCEPT ![form.focus] = v] /\ UNCHANGED questionVars
    BY <1>11 DEF Paste
  <2>2. /\ form' \in Forms /\ form'.focus # "none"
        /\ form'.category = form.category /\ form'.currency = form.currency
    BY <1>9, <2>1
  <2> QED
    BY <1>1, <1>3, <1>4, <2>1, <2>2, EditAsksNothing DEF Settled
<1>12. ASSUME Blur
       PROVE  FormInv'
  <2>1. form' = Left(form) /\ UNCHANGED questionVars /\ acts' = acts
    BY <1>12 DEF Blur
  <2> QED
    BY <1>1, <1>2, <1>4, <2>1, EditAsksNothing DEF Settled
<1> QED
  BY <1>5, <1>6, <1>7, <1>8, <1>10, <1>11, <1>12 DEF UserEdits

LEMMA DiscardKeeps ==
  ASSUME Discard, acts' \in 0..MaxActs
  PROVE  FormInv'
<1> DEFINE f == NewForm("none", "none", NaN, NaN)
<1>1. f \in Forms /\ f.category = "none" /\ Settled(f)
  BY NewFormSettled DEF Categories, NaN
<1>2. /\ form' = f /\ balance' = [currency |-> "none", n |-> 0] /\ asked' = 0
      /\ requests' = {} /\ handled' = "none"
  BY DEF Discard
<1> HIDE DEF f
<1>3. QuestionInv'
  BY <1>1, <1>2 DEF QuestionInv, QuestionTypes, Numbered, Balances, Categories
<1> QED
  BY <1>1, <1>2, <1>3 DEF FormInv

LEMMA ReadyKeeps ==
  ASSUME FormInv, FormReady, document[FormPage] = "loading",
         document'[FormPage] = "open"
  PROVE  FormInv'
<1>1. QuestionTypes /\ Numbered /\ asked = 0 /\ acts' \in 0..MaxActs
  BY DEF FormInv, QuestionInv, FormReady
<1>2. PICK c \in Categories, cur \in Currencies \cup {"none"},
           price \in Int, amount \in Int :
        UpdateTradeOrderForm(NewForm(c, cur, price, amount))
  BY FormAssumption DEF FormReady, Categories, NaN
<1> DEFINE f == NewForm(c, cur, price, amount)
<1>3. f \in Forms /\ f.focus = "none" /\ f.category = c
  BY NewFormSettled
<1> HIDE DEF f
<1>4. UpdateTradeOrderForm(f)
  BY <1>2 DEF f
<1>5. form' \in Forms /\ Settled(form') /\ QuestionInv'
  BY <1>1, <1>3, <1>4, UpdateAsks
<1> QED
  BY <1>1, <1>5 DEF FormInv

(* Answers and losses of balances.                                          *)
LEMMA AnswerKeeps ==
  ASSUME FormInv, NEW q \in requests, Answer(q), UNCHANGED document
  PROVE  FormInv'
<1> DEFINE r == [q EXCEPT !.at = "answered"]
<1>1. requests' = (requests \ {q}) \cup {r}
      /\ UNCHANGED <<form, balance, asked, handled, disturbed, acts>>
  BY DEF Answer
<1>2. q \in Questions
  BY DEF FormInv, QuestionInv, QuestionTypes
<1>3. r \in Questions /\ r.n = q.n /\ r.currency = q.currency
  BY <1>2 DEF Questions
<1> HIDE DEF r
<1>4. QuestionInv'
  BY <1>1, <1>3 DEF FormInv, QuestionInv, QuestionTypes, Numbered, Latest, Wanted
<1> QED
  BY <1>1, <1>4 DEF FormInv, Settled

LEMMA LoseKeeps ==
  ASSUME FormInv, NEW q \in requests, Lose(q), UNCHANGED document
  PROVE  FormInv'
<1>1. requests' = requests \ {q} /\ disturbed' = (disturbed \/ q.n = asked)
      /\ UNCHANGED <<form, balance, asked, handled, acts>>
  BY DEF Lose
<1>2. QuestionTypes' /\ Numbered'
  BY <1>1 DEF FormInv, QuestionInv, QuestionTypes, Numbered
<1>3. Latest => Latest'
  BY <1>1 DEF Latest, Wanted
<1> QED
  BY <1>1, <1>2, <1>3 DEF FormInv, QuestionInv, Settled

LEMMA DeliverKeeps ==
  ASSUME FormInv, NEW q \in requests, Deliver(q), UNCHANGED document
  PROVE  FormInv'
<1>1. /\ balance' = [currency |-> q.currency, n |-> q.n]
      /\ requests' = requests \ {q}
      /\ disturbed' = (q.n # asked /\ (disturbed \/ q.n < balance.n))
      /\ UNCHANGED <<form, asked, handled, acts>>
  BY DEF Deliver
<1>2. /\ QuestionTypes /\ Numbered /\ q \in Questions /\ asked \in Nat
      /\ q.n \in Nat /\ q.currency \in Currencies \cup {"BTC", "none"}
      /\ q.n <= asked /\ balance.n \in Nat
  BY DEF FormInv, QuestionInv, QuestionTypes, Numbered, Questions, Balances
<1>3. QuestionTypes' /\ Numbered'
  BY <1>1, <1>2 DEF QuestionTypes, Numbered, Balances
<1>4. ASSUME Latest
      PROVE  Latest'
  <2>1. CASE q.n = asked
    BY <1>1, <1>4, <2>1 DEF Latest, Wanted
  <2>2. CASE q.n # asked
    <3>1. CASE balance.n = asked
      <4>1. q.n < balance.n
        BY <1>2, <2>2, <3>1
      <4>2. disturbed'
        BY <1>1, <2>2, <4>1
      <4> QED
        BY <1>1, <1>4, <2>2, <4>2 DEF Latest, Wanted
    <3>2. CASE balance.n # asked
      BY <1>1, <1>4, <2>2, <3>2 DEF Latest, Wanted
    <3> QED
      BY <3>1, <3>2
  <2> QED
    BY <2>1, <2>2
<1> QED
  BY <1>1, <1>3, <1>4 DEF FormInv, QuestionInv, Settled

LEMMA FormInitially == Init => FormInv
<1> SUFFICES ASSUME Init
             PROVE  FormInv
  OBVIOUS
<1> DEFINE f == NewForm("none", "none", NaN, NaN)
<1>1. f \in Forms /\ f.category = "none" /\ Settled(f)
  BY NewFormSettled DEF Categories, NaN
<1>2. /\ form = f /\ balance = [currency |-> "none", n |-> 0] /\ asked = 0
      /\ requests = {} /\ handled = "none" /\ acts = 0
  BY DEF Init, FormInit
<1> HIDE DEF f
<1>3. QuestionInv
  BY <1>1, <1>2 DEF QuestionInv, QuestionTypes, Numbered, Balances, Categories
<1> QED
  BY <1>1, <1>2, <1>3, FormAssumption DEF FormInv

(* The document of the form is open only once its countdown is.             *)
LEMMA OtherDocuments ==
  ASSUME FormInv, UNCHANGED <<form, questionVars>>, acts' \in 0..MaxActs,
         document'[FormPage] # "open" => document[FormPage] # "open"
  PROVE  FormInv'
BY DEF FormInv, questionVars, QuestionInv, QuestionTypes, Numbered, Latest, Wanted,
       Settled

LEMMA FormStep == PageInv /\ FormInv /\ [Next]_vars => FormInv'
<1> SUFFICES ASSUME PageInv, FormInv, [Next]_vars
             PROVE  FormInv'
  OBVIOUS
<1>1. /\ acts \in 0..MaxActs /\ FormPage \in Pages
      /\ document \in [Pages -> Documents]
  BY BrowserAssumption DEF FormInv, PageInv, CountTypes
<1>2. ASSUME Act
      PROVE  acts' \in 0..MaxActs
  BY <1>1, <1>2, FormAssumption DEF Act
<1>3. CASE SignIn
  BY <1>2, <1>3, OtherDocuments DEF SignIn, countVars
<1>4. CASE Advance
  BY <1>1, <1>4, OtherDocuments DEF Advance, formVars
<1>5. CASE EditForm
  BY <1>5, EditKeeps DEF EditForm, countVars
<1>6. ASSUME NEW p \in Pages, Unload(p), acts' \in 0..MaxActs
      PROVE  FormInv'
  <2>1. CASE p = FormPage
    BY <1>6, <2>1, DiscardKeeps DEF Unload
  <2>2. CASE p # FormPage
    <3>1. UNCHANGED <<form, questionVars>> /\ document'[FormPage] = document[FormPage]
      BY <1>1, <1>6, <2>2 DEF Unload, Replace
    <3> QED
      BY <1>6, <3>1, OtherDocuments
  <2> QED
    BY <2>1, <2>2
<1>7. ASSUME NEW p \in Pages,
             \/ Serve(p) \/ PageReady(p) \/ PageTimer(p) \/ Leave(p) \/ SignOut(p)
             \/ ServeLogout(p) \/ LoseLogout(p)
      PROVE  FormInv'
  <2>1. CASE Serve(p)
    <3>1. /\ Act /\ UNCHANGED <<form, questionVars>> /\ document[p] = "unsent"
          /\ document' = [document EXCEPT ![p] = "loading"]
      BY <2>1 DEF Serve
    <3>2. document'[FormPage] # "open" => document[FormPage] # "open"
      BY <1>1, <3>1
    <3> QED
      BY <1>2, <3>1, <3>2, OtherDocuments
  <2>2. CASE PageReady(p)
    <3>1. document[p] = "loading" /\ document' = [document EXCEPT ![p] = "open"]
      BY <2>2 DEF PageReady, Ready
    <3>2. CASE p = FormPage
      <4>1. FormReady /\ document'[FormPage] = "open"
        BY <1>1, <2>2, <3>1, <3>2 DEF PageReady
      <4> QED
        BY <3>1, <3>2, <4>1, ReadyKeeps
    <3>3. CASE p # FormPage
      <4>1. UNCHANGED formVars /\ document'[FormPage] = document[FormPage]
        BY <1>1, <2>2, <3>1, <3>3 DEF PageReady
      <4> QED
        BY <1>1, <4>1, OtherDocuments DEF formVars
    <3> QED
      BY <3>2, <3>3
  <2>3. CASE PageTimer(p)
    BY <1>1, <2>3, OtherDocuments DEF PageTimer, Timer, formVars
  <2>4. CASE Leave(p)
    BY <1>2, <1>6, <2>4 DEF Leave
  <2>5. CASE SignOut(p)
    BY <1>2, <1>6, <2>5 DEF SignOut
  <2>6. CASE ServeLogout(p)
    BY <1>1, <1>6, <2>6 DEF ServeLogout
  <2>7. CASE LoseLogout(p)
    BY <1>1, <1>6, <2>7 DEF LoseLogout
  <2> QED
    BY <1>7, <2>1, <2>2, <2>3, <2>4, <2>5, <2>6, <2>7
<1>8. ASSUME NEW q \in requests, ServeBalance(q) \/ LoseBalance(q) \/ DeliverBalance(q)
      PROVE  FormInv'
  <2>1. CASE ServeBalance(q)
    BY <2>1, AnswerKeeps DEF ServeBalance, countVars
  <2>2. CASE LoseBalance(q)
    BY <2>2, LoseKeeps DEF LoseBalance, countVars
  <2>3. CASE DeliverBalance(q)
    BY <2>3, DeliverKeeps DEF DeliverBalance, countVars
  <2> QED
    BY <1>8, <2>1, <2>2, <2>3
<1>9. CASE UNCHANGED vars
  BY <1>1, <1>9, OtherDocuments DEF vars, formVars, countVars
<1> QED
  BY <1>3, <1>4, <1>5, <1>7, <1>8, <1>9 DEF Next

LEMMA FormAlways == Spec => []FormInv
<1>1. Init => FormInv
  BY FormInitially
<1>2. PageInv /\ FormInv /\ [Next]_vars => FormInv'
  BY FormStep
<1> QED
  BY <1>1, <1>2, PagesAlways, PTL DEF Spec

(* Types of the page, its countdowns, its session and the user's actions.    *)
THEOREM BrowserTypeCorrect == Spec => []BrowserTypeOK
<1>1. PageInv /\ FormInv => BrowserTypeOK
  BY DEF PageInv, FormInv, CountTypes, BrowserTypeOK, Sessions
<1> QED
  BY <1>1, PagesAlways, FormAlways, PTL

(* Answers may come in any order and be lost: what is shown when no question *)
(* is open answers the latest one, or the last answer is known to be lost or *)
(* overtaken (the callback of setBalance).                                  *)
THEOREM BalanceAnswers == Spec => []BalanceAnswersChoice
<1>1. FormInv => BalanceAnswersChoice
  BY DEF FormInv, QuestionInv, Latest, Wanted, BalanceAnswersChoice, Spends
<1> QED
  BY <1>1, FormAlways, PTL

(* However the fields were entered, what their blur has left is their total  *)
(* (updateTotal).                                                           *)
THEOREM TotalFollows == Spec => []TotalFollowsFields
<1>1. FormInv => TotalFollowsFields
  BY DEF FormInv, Settled, TotalFollowsFields
<1> QED
  BY <1>1, FormAlways, PTL
=============================================================================
