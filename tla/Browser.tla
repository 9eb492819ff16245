------------------------------ MODULE Browser ------------------------------
(***************************************************************************)
(* The pages a user has open, their countdowns, one order form among them,   *)
(* and the session on the server that all of them share: each request that   *)
(* is authenticated renews it (devise :timeoutable), and no page but the one *)
(* that is loaded learns of that.                                           *)
(***************************************************************************)
EXTENDS Countdown, OrderForm

CONSTANTS
  FormPage,     \* the page load that shows the order form
  Latency,      \* units between the answer of the server and the ready event
  LastRequest,  \* bound: the last instant at which a page is asked for
  MaxClock      \* bound of the clock

ASSUME BrowserAssumption ==
  /\ FormPage \in Pages
  /\ {Latency, LastRequest, MaxClock} \subseteq Nat

VARIABLES
  session,  \* on the server: signed in, since when, and its last request
  served    \* when the server answered each page load

sessionVars == <<session, served>>
vars == <<countVars, formVars, sessionVars>>

Init ==
  /\ CountInit
  /\ FormInit
  /\ session = [signed |-> TRUE, since |-> 0, last |-> 0]
  /\ served = [p \in Pages |-> 0]

Timeout == Delay * Second

Live == session.signed /\ clock < session.last + Timeout

Renew == session' = [session EXCEPT !.last = clock]

End == session' = [signed |-> FALSE, since |-> 0, last |-> 0]

(* A page is replaced by another, and the scripts of the old one stop.       *)
Unload(p) ==
  /\ Replace(p)
  /\ served' = [served EXCEPT ![p] = 0]
  /\ IF p = FormPage THEN Discard ELSE UNCHANGED <<form, questionVars>>

SignIn ==
  /\ ~Live
  /\ Act
  /\ session' = [signed |-> TRUE, since |-> clock, last |-> clock]
  /\ UNCHANGED <<countVars, form, questionVars, served>>

(* The server renders a page with a countdown for whoever is signed in.      *)
Serve(p) ==
  /\ document[p] = "unsent"
  /\ clock <= LastRequest
  /\ Live
  /\ Act
  /\ document' = [document EXCEPT ![p] = "loading"]
  /\ served' = [served EXCEPT ![p] = clock]
  /\ Renew
  /\ UNCHANGED <<clock, jump, inst, fires, form, questionVars>>

PageReady(p) ==
  /\ Ready(p)
  /\ IF p = FormPage THEN FormReady ELSE UNCHANGED formVars
  /\ UNCHANGED sessionVars

PageTimer(p) ==
  /\ Timer(p)
  /\ UNCHANGED <<formVars, sessionVars>>

(* The user closes the page, or goes on to another: that is a load of its    *)
(* own (so does updateWithdrawForm).                                        *)
Leave(p) ==
  /\ Act
  /\ Unload(p)
  /\ UNCHANGED session

SignOut(p) ==
  /\ Act
  /\ Unload(p)
  /\ End

Expired(p) == document[p] = "open" /\ inst[p].location = "logout"

(* onExpiry has set window.location: the server ends whichever session the   *)
(* browser now has, or the request is lost.                                 *)
ServeLogout(p) ==
  /\ Expired(p)
  /\ Unload(p)
  /\ End
  /\ UNCHANGED acts

LoseLogout(p) ==
  /\ Expired(p)
  /\ Unload(p)
  /\ UNCHANGED <<acts, session>>

EditForm ==
  /\ document[FormPage] = "open"
  /\ UserEdits
  /\ UNCHANGED <<countVars, sessionVars>>

(* AccountsController#balance                                               *)
ServeBalance(q) ==
  /\ q.at = "sent"
  /\ Live
  /\ Answer(q)
  /\ Renew
  /\ UNCHANGED <<countVars, served>>

(* The session has ended, or the network fails.                              *)
LoseBalance(q) ==
  /\ Lose(q)
  /\ UNCHANGED <<countVars, sessionVars>>

DeliverBalance(q) ==
  /\ document[FormPage] = "open"
  /\ Deliver(q)
  /\ UNCHANGED <<countVars, sessionVars>>

Advance ==
  /\ clock < MaxClock
  /\ TimersKept
  /\ \A p \in Pages : document[p] = "loading" => clock < served[p] + Latency
  /\ clock' = clock + 1
  /\ UNCHANGED <<jump, document, inst, fires, formVars, sessionVars>>

Next ==
  \/ SignIn
  \/ Advance
  \/ EditForm
  \/ \E p \in Pages :
       Serve(p) \/ PageReady(p) \/ PageTimer(p) \/ Leave(p) \/ SignOut(p)
         \/ ServeLogout(p) \/ LoseLogout(p)
  \/ \E q \in requests : ServeBalance(q) \/ LoseBalance(q) \/ DeliverBalance(q)

Spec == Init /\ [][Next]_vars

(* Time goes on, and the browser does its part; the user need not.           *)
FairSpec ==
  /\ Spec
  /\ WF_vars(Advance)
  /\ \A p \in Pages :
       /\ WF_vars(PageReady(p))
       /\ WF_vars(PageTimer(p))
       /\ WF_vars(ServeLogout(p) \/ LoseLogout(p))
=============================================================================
