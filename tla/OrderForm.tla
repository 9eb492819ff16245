----------------------------- MODULE OrderForm -----------------------------
(***************************************************************************)
(* The form of a new trade order: the handlers of application.js, the total  *)
(* they compute and the balance they ask the server for.                    *)
(***************************************************************************)
EXTENDS Money

CONSTANTS
  Currencies,  \* what the select offers beside its prompt
  Prices, Amounts,  \* what the user may enter, in units
  Fine,        \* units of the product in the fifth decimal
  MaxActs      \* bound: what the user does

ASSUME FormAssumption ==
  /\ Prices \subseteq Nat /\ Amounts \subseteq Nat
  /\ Fine \in Nat \ {0} /\ MaxActs \in Nat

VARIABLES
  form,       \* the fields
  balance,    \* the currency shown with the balance, and of which question
  asked,      \* questions put, a field that is cleared included
  requests,   \* GETs of a balance, on their way or answered
  handled,    \* history: the category as of the last updateTradeOrderForm
  disturbed,  \* history: the latest answer is lost or was overtaken
  acts        \* what the user has done, here or to other pages

questionVars == <<balance, asked, requests, handled, disturbed>>
formVars == <<form, questionVars, acts>>

NaN == -1
NoTotal == [value |-> NaN, currency |-> "none"]

(* parseFloat of a field that is no number is NaN, and so is the product.    *)
Total(f) ==
  IF NaN \in {f.price, f.amount}
  THEN NoTotal
  ELSE [value |-> RoundHalfUp(f.price * f.amount, Fine), currency |-> f.currency]

UpdateTotal(f) == [f EXCEPT !.total = Total(f)]

(* Mutant: a handler that is not bound to blur.                             *)
LeftSilently(f) == [f EXCEPT !.focus = "none"]

(* Leaving a text field is its blur.                                        *)
Left(f) ==
  IF f.focus = "none" THEN f ELSE [UpdateTotal(f) EXCEPT !.focus = "none"]

NewForm(c, cur, price, amount) ==
  [category |-> c, currency |-> cur, type |-> "limit_order", priced |-> TRUE,
   price |-> price, amount |-> amount, focus |-> "none", total |-> NoTotal]

FormInit ==
  /\ form = NewForm("none", "none", NaN, NaN)
  /\ balance = [currency |-> "none", n |-> 0]
  /\ asked = 0
  /\ requests = {}
  /\ handled = "none"
  /\ disturbed = FALSE
  /\ acts = 0

Act ==
  /\ acts < MaxActs
  /\ acts' = acts + 1

SetBalance(c) ==
  /\ asked' = asked + 1
  /\ requests' = requests \cup {[n |-> asked + 1, currency |-> c, at |-> "sent"]}
  /\ UNCHANGED <<balance, disturbed>>

ClearBalance ==
  /\ asked' = asked + 1
  /\ balance' = [currency |-> "none", n |-> asked + 1]
  /\ disturbed' = FALSE
  /\ UNCHANGED requests

AskNothing == UNCHANGED <<balance, asked, requests, disturbed>>

(* Mutant: a field that has nothing to show is not cleared.                  *)
UpdateOrderFormKeeping(f) ==
  /\ form' = UpdateTotal(f)
  /\ handled' = f.category
  /\ \/ f.category = "sell" /\ SetBalance("BTC")
     \/ f.category = "buy" /\ f.currency # "none" /\ SetBalance(f.currency)
     \/ f.category = "buy" /\ f.currency = "none" /\ AskNothing
     \/ f.category = "none" /\ AskNothing

(* updateTradeOrderForm: sales spend bitcoins, purchases the currency.       *)
UpdateTradeOrderForm(f) ==
  /\ form' = UpdateTotal(f)
  /\ handled' = f.category
  /\ \/ f.category = "sell" /\ SetBalance("BTC")
     \/ f.category = "buy" /\ f.currency # "none" /\ SetBalance(f.currency)
     \/ f.category = "buy" /\ f.currency = "none" /\ ClearBalance
     \/ f.category = "none" /\ AskNothing

(* $(document).ready, of an empty form or of one the server sends back.      *)
FormReady ==
  /\ \/ UpdateTradeOrderForm(NewForm("none", "none", NaN, NaN))
     \/ \E c \in {"buy", "sell"}, cur \in Currencies,
          price \in Prices, amount \in Amounts :
          UpdateTradeOrderForm(NewForm(c, cur, price, amount))
  /\ UNCHANGED acts

(* A radio button is bound to updateTotal, not to updateTradeOrderForm.      *)
ChooseCategory(c) ==
  /\ Act
  /\ form' = UpdateTotal([Left(form) EXCEPT !.category = c])
  /\ UNCHANGED questionVars

ChooseCurrency(c) ==
  /\ Act
  /\ c # form.currency
  /\ UpdateTradeOrderForm([Left(form) EXCEPT !.currency = c])

(* updateDisplayedFields; what was entered in a hidden field stays there.    *)
ChooseType(t) ==
  /\ Act
  /\ t # form.type
  /\ form' = [Left(form) EXCEPT !.type = t, !.priced = (t = "limit_order")]
  /\ UNCHANGED questionVars

Focus(field) ==
  /\ Act
  /\ field \in {"price", "amount"} \ {form.focus}
  /\ field = "price" => form.priced
  /\ form' = [Left(form) EXCEPT !.focus = field]
  /\ UNCHANGED questionVars

Values(field) == {NaN} \cup (IF field = "price" THEN Prices ELSE Amounts)

(* keyup comes after the value has changed.                                 *)
Type(v) ==
  /\ Act
  /\ form.focus # "none"
  /\ v \in Values(form.focus)
  /\ form' = UpdateTotal([form EXCEPT ![form.focus] = v])
  /\ UNCHANGED questionVars

(* Text pasted with the mouse comes with none of the events that are bound.  *)
Paste(v) ==
  /\ Act
  /\ form.focus # "none"
  /\ v \in Values(form.focus)
  /\ form' = [form EXCEPT ![form.focus] = v]
  /\ UNCHANGED questionVars

(* The page is replaced: what it knew is gone, and its requests are dropped.  *)
Discard ==
  /\ form' = NewForm("none", "none", NaN, NaN)
  /\ balance' = [currency |-> "none", n |-> 0]
  /\ asked' = 0
  /\ requests' = {}
  /\ handled' = "none"
  /\ disturbed' = FALSE

Blur ==
  /\ form.focus # "none"
  /\ form' = Left(form)
  /\ UNCHANGED <<questionVars, acts>>

UserEdits ==
  \/ \E c \in {"buy", "sell"} : ChooseCategory(c)
  \/ \E c \in Currencies \cup {"none"} : ChooseCurrency(c)
  \/ \E t \in {"limit_order", "market_order"} : ChooseType(t)
  \/ \E f \in {"price", "amount"} : Focus(f)
  \/ \E v \in Prices \cup Amounts \cup {NaN} : Type(v) \/ Paste(v)
  \/ Blur

(* The server has answered q.                                               *)
Answer(q) ==
  /\ requests' = (requests \ {q}) \cup {[q EXCEPT !.at = "answered"]}
  /\ UNCHANGED <<form, balance, asked, handled, disturbed, acts>>

(* $.get has no handler for a request that fails.                            *)
Lose(q) ==
  /\ requests' = requests \ {q}
  /\ disturbed' = (disturbed \/ q.n = asked)
  /\ UNCHANGED <<form, balance, asked, handled, acts>>

(* The callback of setBalance, in whatever order the answers come.           *)
Deliver(q) ==
  /\ q.at = "answered"
  /\ balance' = [currency |-> q.currency, n |-> q.n]
  /\ requests' = requests \ {q}
  /\ disturbed' = (q.n # asked /\ (disturbed \/ q.n < balance.n))
  /\ UNCHANGED <<form, asked, handled, acts>>
=============================================================================
