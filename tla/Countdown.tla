----------------------------- MODULE Countdown -----------------------------
(***************************************************************************)
(* The logout countdown of a page: jquery.countdown.js as application.js    *)
(* uses it, one countdown in each document.  Options that the page leaves   *)
(* at their default and that then do nothing (pause, lap, since, serverSync, *)
(* labels) are left out.  Times are instants in fractions of a second; the  *)
(* clock of the user's place changes once, as for daylight saving.          *)
(***************************************************************************)
EXTENDS Integers

CONSTANTS
  Pages,     \* page loads: each is one document with its own scripts
  Second,    \* units of time in a second
  Minute,    \* seconds in a minute
  Interval,  \* units between two calls of the shared timer (980 ms)
  Delay,     \* the delay attribute, Devise.timeout_in, in seconds
  Lag,       \* by how much a busy browser may call a timer late
  Change,    \* the instant at which local time jumps
  Hour       \* by how much it may jump there, either way

ASSUME CountdownAssumption ==
  /\ Second \in Nat \ {0} /\ Minute \in Nat \ {0} /\ Interval \in Nat \ {0}
  /\ Delay \in Nat \ {0} /\ Lag \in Nat
  /\ Change \in Int /\ Change % Second = 0
  /\ Hour \in Nat /\ Hour % Second = 0

VARIABLES
  clock,
  jump,      \* the jump of this behaviour
  document,  \* "unsent", "loading", "open" or "gone", for each page
  inst,      \* the plugin's data for the span of each page
  fires      \* when the timer of each page is due

countVars == <<clock, jump, document, inst, fires>>

(* What decides about expiry: the defaults, and what application.js passes.  *)
Defaults == [alwaysExpire |-> FALSE, onExpiry |-> "here", expiryUrl |-> "here"]
Options == [onExpiry |-> "logout"]

Get(name) == IF name \in DOMAIN Options THEN Options[name] ELSE Defaults[name]

Truncate(t) == (t \div Second) * Second

Zone(t) == IF t < Change THEN 0 ELSE jump

Local(t) == t + Zone(t)

Skipped(l) == l >= Change /\ l < Change + jump

(* The instants a Date may be set to by a local time.  A local time that is  *)
(* passed twice is either; one that is skipped is an hour off, in the        *)
(* direction the browser likes.                                             *)
Instants(l) ==
  IF Skipped(l) THEN {l, l - jump} ELSE {t \in {l, l - jump} : Local(t) = l}

(* Mutant: the offset is that of the date, not of the page's now.            *)
UTCDateOfThen(zone, t) == t

(* The instant whose local reading, in the given offset, is that of t.       *)
UTCDate(zone, t) == Local(t) - zone

(* _adjustSettings, of the date that application.js sets Delay ahead.        *)
Until(logout) == UTCDate(Zone(clock), Truncate(logout))

(* _calculatePeriods for minutes and seconds; now never exceeds until, and   *)
(* both are whole seconds.                                                  *)
Periods(until, now) ==
  LET diff == (until - now) \div Second
  IN [minutes |-> diff \div Minute, seconds |-> diff % Minute]

(* The span reads "(minutes:seconds)" as of the last update.                 *)
Shown(p) == Periods(inst[p].until, inst[p].now)

Now(until) == IF Truncate(clock) > until THEN until ELSE Truncate(clock)

Expiring(i) ==
  Now(i.until) >= i.until /\ (i.target \/ Get("alwaysExpire"))

(* Mutants: the target is looked for after it was removed; the countdown     *)
(* ends when it first reads a second.                                       *)
UpdatedTooLate(i) ==
  [i EXCEPT !.now = Now(i.until), !.target = @ /\ ~Expiring(i)]

UpdatedEarly(i) ==
  LET last == Now(i.until) + Second >= i.until /\ i.target
  IN [i EXCEPT !.now = Now(i.until),
               !.target = @ /\ ~last,
               !.location = IF last THEN Get("onExpiry") ELSE @]

(* _updateCountdown: redisplay, and on expiry drop the target, then leave.   *)
Updated(i) ==
  [i EXCEPT !.now = Now(i.until),
            !.target = @ /\ ~Expiring(i),
            !.location = IF ~Expiring(i) THEN @
                         ELSE IF Get("expiryUrl") # "here" THEN Get("expiryUrl")
                         ELSE Get("onExpiry")]

(* _attachCountdown and _changeCountdown: a countdown whose end is past is   *)
(* no target of the timer.                                                  *)
Attached(until) ==
  Updated([ready |-> clock, until |-> until, now |-> until,
           target |-> until > clock, location |-> "here"])

NoInst == [ready |-> 0, until |-> 0, now |-> 0, target |-> FALSE,
           location |-> "here"]

CountInit ==
  /\ clock = 0
  /\ jump \in {-Hour, Hour}
  /\ document = [p \in Pages |-> "unsent"]
  /\ inst = [p \in Pages |-> NoInst]
  /\ fires = [p \in Pages |-> 0]

(* $(document).ready: the countdown ends Delay from now.                     *)
Ready(p) ==
  /\ document[p] = "loading"
  /\ document' = [document EXCEPT ![p] = "open"]
  /\ \E logout \in Instants(Local(clock) + Delay * Second) :
       inst' = [inst EXCEPT ![p] = Attached(Until(logout))]
  /\ \E phase \in 1..Interval : fires' = [fires EXCEPT ![p] = clock + phase]
  /\ UNCHANGED <<clock, jump>>

(* _updateTargets                                                           *)
Timer(p) ==
  /\ document[p] = "open"
  /\ clock >= fires[p]
  /\ fires' = [fires EXCEPT ![p] = clock + Interval]
  /\ inst' = IF inst[p].target
             THEN [inst EXCEPT ![p] = Updated(inst[p])]
             ELSE inst
  /\ UNCHANGED <<clock, jump, document>>

TimersKept == \A p \in Pages : document[p] = "open" => clock < fires[p] + Lag

Replace(p) ==
  /\ document[p] = "open"
  /\ document' = [document EXCEPT ![p] = "gone"]
  /\ inst' = [inst EXCEPT ![p] = NoInst]
  /\ fires' = [fires EXCEPT ![p] = 0]
  /\ UNCHANGED <<clock, jump>>
=============================================================================
