----------------------- MODULE TradeEngineProperties -----------------------
(***************************************************************************)
(* What the trading core promises.  Most properties are about committed,    *)
(* the tables as any other transaction sees them.                          *)
(***************************************************************************)
EXTENDS TradeEngine, FiniteSets, Functions

TradeRows == [purchase : Ids, sale : Ids, btc : Int, cur : Int, ppc : Nat]

(* The four tables hold what their columns can hold.                        *)
TablesOK(b, u, o, t) ==
  /\ b \in [Accounts -> [Currencies -> Int]]
  /\ u \in [Received -> Int]
  /\ o \in [Ids -> Rows]
  /\ t \in Seq(TradeRows)

(* Every variable has its type: the tables, the frames of the call stack    *)
(* and the requests between two transactions.                              *)
TypeOK ==
  /\ TablesOK(bal, unconf, orders, trades)
  /\ TablesOK(committed.bal, committed.unconf, committed.orders,
              committed.trades)
  /\ stack \in Seq(Frames)
  /\ worker \in [Workers -> Requests \cup {Idle}]
  /\ createdAt \in [Ids -> Nat]
  /\ clock \in Nat
  /\ moves \in 0..MaxMoves
  /\ crashes \in 0..MaxCrashes
  /\ raised \in BOOLEAN

(* A committed order, and its copy as a new request would read it.           *)
Standing(o) == committed.orders[o].placed /\ committed.orders[o].active

(* No confirmed balance of a user is ever negative, even inside a            *)
(* transaction: user_balance checks the debit before it is inserted, and    *)
(* nothing moves the balance between the check and the insertion.           *)
NoNegativeBalance ==
  \A u \in Users : \A c \in Currencies : bal[u][c] >= 0

(* The commission of user u on amount x lies halfway between two units.      *)
Tie(x, u) == 2 * ((x * Rate[u]) % RateDen) = RateDen

(* The trades that credited one unit more of currency c than they debited:   *)
(* the commission and the net amount were both rounded up.                  *)
RoundedTwice(c) ==
  {i \in DOMAIN committed.trades :
     LET t == committed.trades[i]
     IN \/ c = BTC /\ Tie(t.btc, Owner(t.purchase))
        \/ c = Form[t.purchase].currency /\ Tie(t.cur, Owner(t.sale))}

(* Debits and credits are equal for each currency in every committed state   *)
(* (Operation#check_debit_credit_equality), but for the units that rounding *)
(* created: no other trade, fee, deposit, withdrawal or failure makes or    *)
(* loses money.                                                             *)
BooksBalance ==
  \A c \in Currencies :
    SumFunction([a \in Accounts |-> committed.bal[a][c]])
      + (IF c # BTC THEN 0
         ELSE SumFunction([m \in Received |-> m.amount * committed.unconf[m]]))
      = Cardinality(RoundedTwice(c))

(* A limit order that stands although the balance it would spend does not    *)
(* cover it.                                                                *)
Uncovered(o) ==
  /\ Standing(o)
  /\ IsLimit(o)
  /\ IF Buying(o)
     THEN committed.bal[Owner(o)][Form[o].currency] * PriceDen
            < committed.orders[o].amount * Form[o].ppc
     ELSE committed.bal[Owner(o)][BTC] < committed.orders[o].amount

(* Every active limit order of a user is covered by the balance it would     *)
(* spend: each debit inactivates the orders it leaves uncovered.            *)
StandingOrdersFunded == \A o \in Ids : ~Uncovered(o)

(* With several processes only one thing makes a standing order uncovered:   *)
(* activate! saves it after a balance it checked earlier was spent.  No     *)
(* debit, trade, nested execution or confirmation does.                     *)
CoverLostOnlyByActivation ==
  [][\A o \in Ids : Uncovered(o)' =>
       Uncovered(o) \/ \E w \in Workers : ActivateSave(w)]_vars

Honoured(t) ==
  /\ Owner(t.purchase) # Owner(t.sale)
  /\ IsLimit(t.purchase) => Accepts(t.purchase, t.ppc)
  /\ IsLimit(t.sale) => Accepts(t.sale, t.ppc)

(* A trade is between two users, and at a price that the limit order on      *)
(* either side accepts, whatever nested execution recorded it               *)
(* (TradeOrder.matching_orders, LimitOrder#sub_matching_orders).            *)
TradesHonourLimits == \A i \in DOMAIN trades : Honoured(trades[i])

Filled(o) ==
  SumFunction([i \in DOMAIN committed.trades |->
                 IF o \in {committed.trades[i].purchase,
                           committed.trades[i].sale}
                 THEN committed.trades[i].btc ELSE 0])

(* What was filled of an order and what remains of it make up what its user  *)
(* asked for: an order is never filled twice from two copies of its row.    *)
FillsAddUp ==
  \A o \in Ids :
    /\ Filled(o) <= (IF createdAt[o] = 0 THEN 0 ELSE Form[o].amount)
    /\ committed.orders[o].placed =>
         Filled(o) + committed.orders[o].amount = Form[o].amount

(* An order in the table has something left to fill: an order filled whole   *)
(* is destroyed, on either side, and rounding takes no more than there is.  *)
RemaindersPositive ==
  \A o \in Ids : committed.orders[o].placed => committed.orders[o].amount > 0

(* No execute! ever raises: a trade it computes is always covered by the     *)
(* balances of both sides and never names an order already destroyed.       *)
ExecuteNeverRaises == ~raised

(* A request that has saved order o and not yet executed it.                *)
AwaitsExecution(o) ==
  \E w \in Workers : worker[w] # Idle /\ worker[w].self.id = o

(* Whichever of the two orders is executed, the pair yields a trade.         *)
CanTrade(o, m) ==
  WorthTrading(Copy(o), Copy(m)) /\ WorthTrading(Copy(m), Copy(o))

(* The book is never left crossed: of two standing orders that match and of  *)
(* which the balances would pay a trade, one is still to be executed.       *)
BookUncrossed ==
  AtRest => \A o, m \in Ids :
    Standing(o) /\ Standing(m) /\ Matches(o, m) /\ CanTrade(o, m)
      => AwaitsExecution(o) \/ AwaitsExecution(m)

Prolongs(s, t) == Len(t) >= Len(s) /\ \A i \in DOMAIN s : t[i] = s[i]

(* A recorded trade is never altered nor removed by a later commit: a        *)
(* rollback undoes no trade but its own (TradeOrder#execute!), and to       *)
(* destroy a filled order leaves its trades in place.                       *)
TradesAppendOnly == [][Prolongs(committed.trades, committed'.trades)]_committed

(* Every transaction that begins ends: a market order executed inside a      *)
(* trade, whose own trades execute further market orders, does not recur    *)
(* for ever.                                                                *)
ExecutionTerminates == (stack # <<>>) ~> (stack = <<>>)
=============================================================================
