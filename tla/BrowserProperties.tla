------------------------- MODULE BrowserProperties -------------------------
(***************************************************************************)
(* What a user may read from a page.                                        *)
(***************************************************************************)
EXTENDS Browser

Documents == {"unsent", "loading", "open", "gone"}
Inst == [ready : Nat, until : Int, now : Int, target : BOOLEAN,
         location : {"here", "logout"}]

BrowserTypeOK ==
  /\ clock \in 0..MaxClock
  /\ jump \in {-Hour, Hour}
  /\ document \in [Pages -> Documents]
  /\ inst \in [Pages -> Inst]
  /\ fires \in [Pages -> Nat]
  /\ session \in [signed : BOOLEAN, since : Nat, last : Nat]
  /\ served \in [Pages -> Nat]
  /\ acts \in 0..MaxActs

(* The end of the countdown falls into the hour that is skipped in spring.   *)
Misread(p) == Skipped(Local(inst[p].ready) + Timeout)

ShownTime(p) == (Shown(p).minutes * Minute + Shown(p).seconds) * Second

(* A page that shows time to go never promises more of the session than is   *)
(* left of it, but for the time it took to load, the second it rounds to     *)
(* and the time since its timer was called; the hour that is passed twice in *)
(* autumn makes no difference (application.js sets local fields, and UTCDate  *)
(* reads them back).  Pages of an ended or an earlier session are excepted.  *)
NeverPromisesMore ==
  \A p \in Pages :
    /\ document[p] = "open" /\ ~Misread(p)
    /\ session.signed /\ session.since <= served[p]
    /\ ShownTime(p) > 0
    => ShownTime(p) <= session.last + Timeout - clock
                         + Latency + Interval + Lag + Second

(* A countdown ends a session a second or more before its time only if       *)
(* another page, a balance or a new sign-in has used the session since the   *)
(* page was served, or the clocks went forward.                             *)
CutShortOnlyIfUsedElsewhere ==
  [][\A p \in Pages :
       /\ ServeLogout(p) /\ Live /\ ~Misread(p)
       /\ clock + Second <= session.last + Timeout
       => session.last > served[p]]_vars

(* A page that is left alone ends: it goes to the logout, whatever the       *)
(* other pages do, unless its countdown was misread and is over at once.     *)
AbandonedPagesLeave ==
  \A p \in Pages :
    document[p] = "open" /\ ~Misread(p) ~> document[p] = "gone"

(* The currency an order spends (LimitOrder, the check of the balance).      *)
Spends == IF form.category = "sell" THEN "BTC" ELSE form.currency

(* When no question is open, the balance next to the order is of the         *)
(* currency the order would spend, unless the latest answer was lost or      *)
(* overtaken, or the category was chosen after the currency.                 *)
BalanceAnswersChoice ==
  /\ document[FormPage] = "open"
  /\ requests = {} /\ ~disturbed
  /\ handled = form.category /\ handled # "none"
  => balance.currency = Spends

(* When no field has the focus, the total is that of the fields and the      *)
(* currency shown, however they were entered.                               *)
TotalFollowsFields ==
  document[FormPage] = "open" /\ form.focus = "none" => form.total = Total(form)
=============================================================================
