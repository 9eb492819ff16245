----------------------------- MODULE Settlement -----------------------------
(***************************************************************************)
(* What the trading core promises about money, with no orders, no frames    *)
(* and no failures: the accounts change by whole operations only.  One      *)
(* commit carries at most one deposit or withdrawal, and any number of      *)
(* trades, each settled in full between buyer, seller and the fees account; *)
(* it leaves every user with a balance that is not negative.                *)
(***************************************************************************)
EXTENDS Integers, Sequences, Functions

CONSTANTS Users, Storage, Fees, Fiat,
          Moves,          \* deposits and withdrawals
          Buyer(_),       \* the users and the currency of a trade
          Seller(_),
          Currency(_),
          Fee(_, _),      \* the commission of a user on an amount
          Net(_, _)       \* what the user gets of the amount

VARIABLES book,           \* spendable balance of each account
          held,           \* how many deposits of each kind are unconfirmed
          log             \* trades, oldest first

vars == <<book, held, log>>

BTC == "BTC"
Accounts == Users \cup {Storage, Fees}
Currencies == Fiat \cup {BTC}
Received == {m \in Moves : ~m.confirmed}

(* What trade t brings to account a in currency c.                          *)
Effect(t, a, c) ==
  LET fiat == c = Currency(t)
      bitcoin == c = BTC
      when(cond, x) == IF cond THEN x ELSE 0
  IN   when(fiat /\ a = Buyer(t), -t.cur)
     + when(fiat /\ a = Seller(t), Net(t.cur, Seller(t)))
     + when(fiat /\ a = Fees, Fee(t.cur, Seller(t)))
     + when(bitcoin /\ a = Seller(t), -t.btc)
     + when(bitcoin /\ a = Buyer(t), Net(t.btc, Buyer(t)))
     + when(bitcoin /\ a = Fees, Fee(t.btc, Buyer(t)))

(* The trades that log' has and log has not.                                *)
Settled(a, c) ==
  SumFunction([i \in (Len(log) + 1)..Len(log') |-> Effect(log'[i], a, c)])

(* What move m brings to account a in currency c, unconfirmed or not.       *)
Moved(m, a, c) ==
  IF c # m.currency THEN 0
  ELSE IF a = m.account THEN m.amount
  ELSE IF a = Storage THEN -m.amount ELSE 0

Extends ==
  /\ Len(log') >= Len(log)
  /\ \A i \in DOMAIN log : log'[i] = log[i]

Solvent == \A u \in Users : \A c \in Currencies : book'[u][c] >= 0

Init ==
  /\ book = [a \in Accounts |-> [c \in Currencies |-> 0]]
  /\ held = [m \in Received |-> 0]
  /\ log = <<>>

Trade ==
  /\ Extends
  /\ book' = [a \in Accounts |-> [c \in Currencies |->
                book[a][c] + Settled(a, c)]]
  /\ Solvent
  /\ UNCHANGED held

Move ==
  \E m \in Moves :
    /\ Extends
    /\ held' = IF m.confirmed THEN held ELSE [held EXCEPT ![m] = @ + 1]
    /\ book' = [a \in Accounts |-> [c \in Currencies |->
                  book[a][c] + Settled(a, c)
                  + IF ~m.confirmed /\ a = m.account THEN 0
                    ELSE Moved(m, a, c)]]
    /\ Solvent

Confirm ==
  \E m \in Received :
    /\ held[m] > 0
    /\ book' = [book EXCEPT ![m.account][BTC] = @ + m.amount]
    /\ held' = [held EXCEPT ![m] = @ - 1]
    /\ UNCHANGED log

Spec == Init /\ [][Trade \/ Move \/ Confirm]_vars
=============================================================================
