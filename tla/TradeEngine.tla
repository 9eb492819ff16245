---------------------------- MODULE TradeEngine ----------------------------
(***************************************************************************)
(* The trading core of the exchange: accounts, trade orders, and the       *)
(* execution of an order against the book (TradeOrder#execute!), which     *)
(* posts account operations (Trade#execute), each of which refreshes the   *)
(* orders of the account it credits or debits (AccountOperation#           *)
(* refresh_orders), which may execute a market order of that account in    *)
(* the middle of the trade being recorded.                                 *)
(*                                                                         *)
(* The Ruby call stack is explicit.  A frame holds the objects a method    *)
(* keeps in memory: copies of order rows, read once and not reloaded, so   *)
(* that they may be stale when they are used.  One database transaction    *)
(* runs at a time (they are serializable: config/initializers/             *)
(* transaction.rb), so the tables bal, unconf, orders and trades are what  *)
(* the running transaction sees, and committed is what it started from.    *)
(***************************************************************************)
EXTENDS Money, Sequences

CONSTANTS
  Users,       \* the accounts that are users
  Storage,     \* the storage_for_<currency> accounts, one balance each
  Fees,        \* the storage_for_fees account
  Fiat,        \* the currencies that are not BTC
  Ids,         \* the orders that may be placed
  Form,        \* what the user of an order fills in
  MinAmount,   \* TradeOrder::MIN_AMOUNT, in units
  Tick,        \* units in the fifth decimal, to which trades are rounded
  PriceDen,    \* a ppc is an integer over PriceDen
  Rate,        \* commission_rate of each user, an integer over RateDen
  RateDen,
  Moves,       \* deposits and withdrawals that may happen
  Workers,     \* web processes
  MaxMoves,    \* bound: deposits and withdrawals in a behaviour
  MaxCrashes   \* bound: processes that die in a behaviour

VARIABLES
  bal,         \* confirmed balance of each account in each currency
  unconf,      \* how many deposits of each kind have too few confirmations
  orders,      \* table trade_orders
  trades,      \* table operations, type Trade, oldest first
  committed,   \* the tables as of the last commit
  stack,       \* the frames of the running transaction, innermost first
  worker,      \* what each process does between two transactions
  createdAt,   \* created_at of each order, 0 if it was never placed
  clock,       \* the created_at of the newest order, in seconds
  moves,
  crashes,
  raised       \* an execute! has raised

vars == <<bal, unconf, orders, trades, committed, stack, worker, createdAt,
          clock, moves, crashes, raised>>

(* What only a new request changes.                                         *)
env == <<worker, createdAt, clock, moves, crashes>>

BTC == "BTC"
Currencies == Fiat \cup {BTC}
Accounts == Users \cup {Storage, Fees}

(* ppc of an order without a price: NULL, which MySQL sorts lowest.         *)
NULL == 0

Forms == [user : Users, category : {"buy", "sell"}, currency : Fiat,
          amount : Int, ppc : Nat]

AOs == [account : Accounts, currency : Currencies, amount : Int,
        confirmed : BOOLEAN]

(* Bitcoins that arrive before they have MIN_BTC_CONFIRMATIONS.              *)
Received == {m \in Moves : ~m.confirmed}

ASSUME EngineAssumption ==
  /\ Storage \notin Users
  /\ Fees \notin Users
  /\ Storage # Fees
  /\ BTC \notin Fiat
  /\ Form \in [Ids -> Forms]
  /\ Tick \in Nat \ {0}
  /\ PriceDen \in Nat \ {0}
  /\ RateDen \in Nat \ {0}
  /\ Rate \in [Users -> Nat]
  /\ MinAmount \in Nat \ {0}
  /\ Moves \subseteq {ao \in AOs : ao.account \in Users}
  /\ \A m \in Moves : ~m.confirmed => m.currency = BTC /\ m.amount > 0
  /\ MaxMoves \in Nat
  /\ MaxCrashes \in Nat

-----------------------------------------------------------------------------
(* Orders.                                                                  *)

Copies == [id : Ids, amount : Int, active : BOOLEAN]
Rows == [placed : BOOLEAN, amount : Int, active : BOOLEAN]
NoRow == [placed |-> FALSE, amount |-> 0, active |-> FALSE]

Placed(o) == orders[o].placed

Copy(o) == [id |-> o, amount |-> orders[o].amount,
            active |-> orders[o].active]

Owner(o) == Form[o].user
Buying(o) == Form[o].category = "buy"
IsLimit(o) == Form[o].ppc # NULL

(* The account operations that pay an order: fiat for a purchase.           *)
SpentCurrency(o) == IF Buying(o) THEN Form[o].currency ELSE BTC

UserHasBalance(o) == bal[Owner(o)][SpentCurrency(o)] > 0

(* Mutant: a purchase is compared with the balance without its price.       *)
FundedIgnoringPrice(o, amount) ==
  bal[Owner(o)][SpentCurrency(o)] >= amount

(* The condition of activate!, inactivate_if_needed! and, up to the form of  *)
(* the inequality, of the validation of a new limit order.                  *)
Funded(o, amount) ==
  IF Buying(o)
  THEN bal[Owner(o)][Form[o].currency] * PriceDen >= amount * Form[o].ppc
  ELSE bal[Owner(o)][BTC] >= amount

(* The validations of a new order.                                          *)
Valid(o) ==
  /\ Form[o].amount >= MinAmount
  /\ IsLimit(o) => Funded(o, Form[o].amount)

(* Does the limit of order o accept the price p?                            *)
Accepts(o, p) == IF Buying(o) THEN p <= Form[o].ppc ELSE p >= Form[o].ppc

(* Mutant: the price clause of sub_matching_orders is lost.                 *)
MatchesAnyPrice(o, m) ==
  /\ Form[m].currency = Form[o].currency
  /\ Form[m].category # Form[o].category
  /\ Owner(m) # Owner(o)
  /\ IsLimit(o) \/ IsLimit(m)

Matches(o, m) ==
  /\ Form[m].currency = Form[o].currency
  /\ Form[m].category # Form[o].category
  /\ Owner(m) # Owner(o)
  /\ IF IsLimit(o) THEN IsLimit(m) => Accepts(o, Form[m].ppc)
                   ELSE IsLimit(m)

MatchingOrders(o) ==
  {Copy(m) : m \in {n \in Ids : /\ Placed(n)
                                /\ orders[n].active
                                /\ Matches(o, n)}}

(* The orders mos.pop may return: equal prices come in any order.           *)
Best(o, mos) ==
  {m \in mos : \A n \in mos :
     IF Buying(o) THEN Form[m.id].ppc <= Form[n.id].ppc
                  ELSE Form[m.id].ppc >= Form[n.id].ppc}

-----------------------------------------------------------------------------
(* One trade between the order self being executed and the order mo.        *)

Price(self, mo) ==
  IF IsLimit(mo.id) THEN Form[mo.id].ppc ELSE Form[self.id].ppc

Purchase(self, mo) == IF Buying(self.id) THEN self ELSE mo
Sale(self, mo) == IF Buying(self.id) THEN mo ELSE self

(* Mutants: btc_amount forgets the sale, or what the buyer has.             *)
QuantityIgnoringSale(self, mo) ==
  LET p == Price(self, mo)
      purchase == Purchase(self, mo)
  IN Lesser(purchase.amount * p,
            Lesser(bal[Owner(Sale(self, mo).id)][BTC] * p,
                   bal[Owner(purchase.id)][Form[self.id].currency]
                     * PriceDen))

QuantityIgnoringBuyer(self, mo) ==
  LET p == Price(self, mo)
      sale == Sale(self, mo)
  IN Lesser(Lesser(sale.amount * p, Purchase(self, mo).amount * p),
            bal[Owner(sale.id)][BTC] * p)

(* btc_amount is Quantity / Price, and btc_amount * p is Quantity / PriceDen *)
Quantity(self, mo) ==
  LET p == Price(self, mo)
      purchase == Purchase(self, mo)
      sale == Sale(self, mo)
  IN Lesser(Lesser(sale.amount * p, purchase.amount * p),
            Lesser(bal[Owner(sale.id)][BTC] * p,
                   bal[Owner(purchase.id)][Form[self.id].currency]
                     * PriceDen))

TradedBtc(self, mo) ==
  Tick * RoundHalfUp(Quantity(self, mo), Tick * Price(self, mo))

TradedCurrency(self, mo) ==
  Tick * RoundHalfUp(Quantity(self, mo), Tick * PriceDen)

(* A commission, and what remains of the amount, as the database stores them *)
Fee(amount, u) == RoundHalfUp(amount * Rate[u], RateDen)
Net(amount, u) == RoundHalfUp(amount * (RateDen - Rate[u]), RateDen)

AO(a, c, x) == [account |-> a, currency |-> c, amount |-> x,
                confirmed |-> TRUE]

(* A trade keeps its buyer and seller; that it names the two orders for ever *)
(* is history, since destroying an order nullifies the column.              *)
TradeRow(self, mo) ==
  [purchase |-> Purchase(self, mo).id, sale |-> Sale(self, mo).id,
   btc |-> TradedBtc(self, mo), cur |-> TradedCurrency(self, mo),
   ppc |-> Price(self, mo)]

(* Mutant: the commissions are kept from the users and credited to nobody.   *)
TradeAOsWithoutFees(t) ==
  LET buyer == Owner(t.purchase)
      seller == Owner(t.sale)
      c == Form[t.purchase].currency
  IN << AO(buyer, c, -t.cur), AO(seller, c, Net(t.cur, seller)),
        AO(seller, BTC, -t.btc), AO(buyer, BTC, Net(t.btc, buyer)) >>

TradeAOs(t) ==
  LET buyer == Owner(t.purchase)
      seller == Owner(t.sale)
      c == Form[t.purchase].currency
  IN << AO(buyer, c, -t.cur),
        AO(seller, c, Net(t.cur, seller)),
        AO(seller, BTC, -t.btc),
        AO(buyer, BTC, Net(t.btc, buyer)),
        AO(Fees, BTC, Fee(t.btc, buyer)),
        AO(Fees, c, Fee(t.cur, seller)) >>

-----------------------------------------------------------------------------
(* Frames of the call stack.                                                *)

(* TradeOrder#execute!, at the head of its loop.  alive is !destroyed?.      *)
MatchFrames == [op : {"match"}, self : Copies, mos : SUBSET Copies,
                alive : BOOLEAN]

(* TradeOrder#execute!, once the trade with mo is recorded.                 *)
SettleFrames == [op : {"settle"}, self : Copies, mos : SUBSET Copies,
                 mo : Copies]

(* An operation whose account operations aos are still to be added, those    *)
(* that were not valid when they were, and the last of its currencies.      *)
PostFrames == [op : {"post"}, aos : Seq(AOs), refused : Seq(AOs),
               last : Currencies]

(* The save! of an operation: aos, refused before, are still to be inserted. *)
InsertFrames == [op : {"insert"}, aos : Seq(AOs)]

(* AccountOperation#refresh_orders of ao, with the orders left to refresh.   *)
RefreshFrames == [op : {"refresh"}, ao : AOs, todo : SUBSET Copies]

Frames == MatchFrames \cup SettleFrames \cup PostFrames \cup InsertFrames
            \cup RefreshFrames

AtRest == stack = <<>>
Running(op) == stack # <<>> /\ Head(stack).op = op
Top == Head(stack)
Rest == Tail(stack)

Execution(copy) ==
  [op |-> "match", self |-> copy, mos |-> MatchingOrders(copy.id),
   alive |-> TRUE]

Posting(aos, refused, last) ==
  [op |-> "post", aos |-> aos, refused |-> refused, last |-> last]

Inserting(aos) == [op |-> "insert", aos |-> aos]

Tables == [bal |-> bal, unconf |-> unconf, orders |-> orders,
           trades |-> trades]

(* The transaction commits when its last frame returns.                     *)
Persist == committed' = IF stack' = <<>> THEN Tables' ELSE committed

(* Mutant: the exception is rescued without a rollback.                     *)
RollbackAsCommit ==
  /\ stack' = <<>>
  /\ UNCHANGED <<bal, unconf, orders, trades>>
  /\ Persist

(* An exception unwinds every frame and rolls everything back.              *)
Rollback ==
  /\ stack' = <<>>
  /\ bal' = committed.bal
  /\ unconf' = committed.unconf
  /\ orders' = committed.orders
  /\ trades' = committed.trades
  /\ UNCHANGED committed

(* Did an execute! start the transaction, or does one run inside it?        *)
Executing == \E i \in DOMAIN stack : stack[i].op \in {"match", "settle"}

Idle == [stage |-> "idle"]
Requests == [stage : {"activate", "execute"}, self : Copies]

-----------------------------------------------------------------------------
Init ==
  /\ bal = [a \in Accounts |-> [c \in Currencies |-> 0]]
  /\ unconf = [m \in Received |-> 0]
  /\ orders = [o \in Ids |-> NoRow]
  /\ trades = <<>>
  /\ committed = Tables
  /\ stack = <<>>
  /\ worker = [w \in Workers |-> Idle]
  /\ createdAt = [o \in Ids |-> 0]
  /\ clock = 0
  /\ moves = 0
  /\ crashes = 0
  /\ raised = FALSE

(* TradeOrdersController#create: the order is validated and saved; the same  *)
(* process will execute it in another transaction.                          *)
Create(w, o) ==
  /\ AtRest
  /\ worker[w] = Idle
  /\ createdAt[o] = 0
  /\ Valid(o)
  /\ orders' = [orders EXCEPT ![o] =
       [placed |-> TRUE, amount |-> Form[o].amount, active |-> TRUE]]
  /\ clock' \in {Greater(clock, 1), clock + 1}
  /\ createdAt' = [createdAt EXCEPT ![o] = clock']
  /\ worker' = [worker EXCEPT ![w] =
       [stage |-> "execute",
        self |-> [id |-> o, amount |-> Form[o].amount, active |-> TRUE]]]
  /\ UNCHANGED <<bal, unconf, trades, stack, moves, crashes, raised>>
  /\ Persist

(* activate!, up to the checks, which no transaction encloses.              *)
ActivateCheck(w, o) ==
  /\ AtRest
  /\ worker[w] = Idle
  /\ Placed(o)
  /\ ~orders[o].active
  /\ Funded(o, orders[o].amount)
  /\ worker' = [worker EXCEPT ![w] = [stage |-> "activate", self |-> Copy(o)]]
  /\ UNCHANGED <<bal, unconf, orders, trades, committed, stack, createdAt,
                 clock, moves, crashes, raised>>

(* activate!, its save!: only the changed column is written, and the update  *)
(* of a row that is gone changes nothing.                                   *)
ActivateSave(w) ==
  /\ AtRest
  /\ worker[w].stage = "activate"
  /\ LET o == worker[w].self.id
     IN orders' = IF Placed(o) THEN [orders EXCEPT ![o].active = TRUE]
                               ELSE orders
  /\ worker' = [worker EXCEPT ![w] =
       [stage |-> "execute", self |-> [worker[w].self EXCEPT !.active = TRUE]]]
  /\ UNCHANGED <<bal, unconf, trades, stack, createdAt, clock, moves, crashes,
                 raised>>
  /\ Persist

(* TradeOrdersController#destroy.                                           *)
Destroy(w, o) ==
  /\ AtRest
  /\ worker[w] = Idle
  /\ Placed(o)
  /\ orders' = [orders EXCEPT ![o] = NoRow]
  /\ UNCHANGED <<bal, unconf, trades, stack, raised, env>>
  /\ Persist

(* execute! begins its transaction and loads the matching orders.           *)
BeginExecute(w) ==
  /\ AtRest
  /\ worker[w].stage = "execute"
  /\ stack' = <<Execution(worker[w].self)>>
  /\ worker' = [worker EXCEPT ![w] = Idle]
  /\ UNCHANGED <<bal, unconf, orders, trades, createdAt, clock, moves,
                 crashes, raised>>
  /\ Persist

(* A deposit or a withdrawal: one account operation on the user and its      *)
(* counterpart on a storage account (Admin::AccountOperationsController#     *)
(* create; the deposits and transfers post the same two operations).  A      *)
(* withdrawal is a web request; a deposit may come from another process.    *)
BeginMove(m) ==
  /\ AtRest
  /\ moves < MaxMoves
  /\ m.amount < 0 => \E w \in Workers : worker[w] = Idle
  /\ moves' = moves + 1
  /\ stack' = << Posting(<<m, AO(Storage, m.currency, -m.amount)>>, <<>>,
                         m.currency) >>
  /\ UNCHANGED <<bal, unconf, orders, trades, worker, createdAt, clock,
                 crashes, raised>>
  /\ Persist

(* synchronize_transactions! stores a higher number of confirmations: the    *)
(* balance grows and no order is refreshed.                                 *)
Confirm(m) ==
  /\ AtRest
  /\ unconf[m] > 0
  /\ bal' = [bal EXCEPT ![m.account][BTC] = @ + m.amount]
  /\ unconf' = [unconf EXCEPT ![m] = @ - 1]
  /\ UNCHANGED <<orders, trades, stack, raised, env>>
  /\ Persist

-----------------------------------------------------------------------------
(* The loop of execute!.                                                    *)

(* Mutant: the loop stops before the last matching order.                   *)
LoopStopsEarly(f) ==
  /\ \E m, n \in f.mos : m # n
  /\ f.self.active
  /\ f.alive
  /\ UserHasBalance(f.self.id)

LoopContinues(f) ==
  /\ f.mos # {}
  /\ f.self.active
  /\ f.alive
  /\ UserHasBalance(f.self.id)

WorthTrading(self, mo) ==
  TradedBtc(self, mo) > 0 /\ TradedCurrency(self, mo) > 0

(* Mutant: the loop looks at the next order without taking it.              *)
SkipWithoutPop ==
  /\ Running("match")
  /\ LoopContinues(Top)
  /\ \E mo \in Best(Top.self.id, Top.mos) : ~WorthTrading(Top.self, mo)
  /\ UNCHANGED vars

(* Neither side is paid with nothing: the pair is passed over.              *)
Skip ==
  /\ Running("match")
  /\ LoopContinues(Top)
  /\ \E mo \in Best(Top.self.id, Top.mos) :
       /\ ~WorthTrading(Top.self, mo)
       /\ stack' = <<[Top EXCEPT !.mos = @ \ {mo}]>> \o Rest
  /\ UNCHANGED <<bal, unconf, orders, trades, raised, env>>
  /\ Persist

(* Both orders are saved with what remains of the amounts held in memory,    *)
(* and the trade is recorded.                                               *)
RecordTrade ==
  /\ Running("match")
  /\ LoopContinues(Top)
  /\ \E mo \in Best(Top.self.id, Top.mos) :
       LET self == Top.self
           tb == TradedBtc(self, mo)
           self1 == [self EXCEPT !.amount = @ - tb]
           mo1 == [mo EXCEPT !.amount = @ - tb]
           row == TradeRow(self, mo)
       IN /\ WorthTrading(self, mo)
          /\ Placed(self.id)
          /\ Placed(mo.id)
          /\ orders' = [orders EXCEPT ![mo.id].amount = mo1.amount,
                                      ![self.id].amount = self1.amount]
          /\ trades' = Append(trades, row)
          /\ stack' = << Posting(TradeAOs(row), <<>>, BTC),
                         [op |-> "settle", self |-> self1, mo |-> mo1,
                          mos |-> Top.mos \ {mo}] >> \o Rest
  /\ UNCHANGED <<bal, unconf, raised, env>>
  /\ Persist

(* A trade is invalid when one of its orders is no longer in the table.      *)
OrderMissing ==
  /\ Running("match")
  /\ LoopContinues(Top)
  /\ \E mo \in Best(Top.self.id, Top.mos) :
       /\ WorthTrading(Top.self, mo)
       /\ ~(Placed(Top.self.id) /\ Placed(mo.id))
  /\ Rollback
  /\ raised' = TRUE
  /\ UNCHANGED <<env>>

(* Mutants: only the executed order is destroyed, or its trades go with it.  *)
SettleSelfOnly ==
  /\ Running("settle")
  /\ orders' = [orders EXCEPT ![Top.self.id] =
                  IF Top.self.amount = 0 THEN NoRow ELSE @]
  /\ stack' = << [op |-> "match", self |-> Top.self, mos |-> Top.mos,
                  alive |-> Top.self.amount # 0] >> \o Rest
  /\ UNCHANGED <<bal, unconf, trades, env, raised>>
  /\ Persist

SettleDestroyingTrades ==
  /\ Running("settle")
  /\ LET spent == {o \in {Top.self.id} : Top.self.amount = 0}
                    \cup {o \in {Top.mo.id} : Top.mo.amount = 0}
     IN /\ orders' = [o \in Ids |-> IF o \in spent THEN NoRow ELSE orders[o]]
        /\ trades' = SelectSeq(trades,
             LAMBDA t : {t.purchase, t.sale} \cap spent = {})
  /\ stack' = << [op |-> "match", self |-> Top.self, mos |-> Top.mos,
                  alive |-> Top.self.amount # 0] >> \o Rest
  /\ UNCHANGED <<bal, unconf, raised, env>>
  /\ Persist

(* Each of the two orders is destroyed if nothing remains of it; to save it  *)
(* again writes nothing.                                                    *)
Settle ==
  /\ Running("settle")
  /\ LET spent == {o \in {Top.self.id} : Top.self.amount = 0}
                    \cup {o \in {Top.mo.id} : Top.mo.amount = 0}
     IN orders' = [o \in Ids |-> IF o \in spent THEN NoRow ELSE orders[o]]
  /\ stack' = << [op |-> "match", self |-> Top.self, mos |-> Top.mos,
                  alive |-> Top.self.amount # 0] >> \o Rest
  /\ UNCHANGED <<bal, unconf, trades, raised, env>>
  /\ Persist

ExecuteReturns ==
  /\ Running("match")
  /\ ~LoopContinues(Top)
  /\ stack' = Rest
  /\ UNCHANGED <<bal, unconf, orders, trades, raised, env>>
  /\ Persist

-----------------------------------------------------------------------------
(* Account operations.                                                      *)

(* The user_balance validation: the only guard against a negative balance.   *)
Covered(ao) ==
  ao.account \in Users /\ ao.amount < 0
    => -ao.amount <= bal[ao.account][ao.currency]

(* The row of ao is inserted while the frame left waits; the callback        *)
(* refreshes the orders of the user, read now in one query.                 *)
InsertRow(ao, left) ==
  /\ IF ao.confirmed
     THEN /\ bal' = [bal EXCEPT ![ao.account][ao.currency] = @ + ao.amount]
          /\ UNCHANGED unconf
     ELSE /\ unconf' = [unconf EXCEPT ![ao] = @ + 1]
          /\ UNCHANGED bal
  /\ stack' =
       IF ao.account \in Users
       THEN << [op |-> "refresh", ao |-> ao,
                todo |-> {Copy(o) : o \in
                  {n \in Ids : Placed(n) /\ Owner(n) = ao.account}}],
               left >> \o Rest
       ELSE <<left>> \o Rest

Post ==
  /\ Running("post")
  /\ Top.aos # <<>>
  /\ Covered(Head(Top.aos))
  /\ InsertRow(Head(Top.aos), [Top EXCEPT !.aos = Tail(@)])
  /\ UNCHANGED <<orders, trades, raised, env>>
  /\ Persist

(* An invalid account operation is not inserted, and the next one is added   *)
(* all the same.                                                            *)
Refuse ==
  /\ Running("post")
  /\ Top.aos # <<>>
  /\ ~Covered(Head(Top.aos))
  /\ stack' = << [Top EXCEPT !.aos = Tail(@),
                             !.refused = Append(@, Head(Top.aos))] >> \o Rest
  /\ UNCHANGED <<bal, unconf, orders, trades, raised, env>>
  /\ Persist

(* check_debit_credit_equality does not compare the currency, it assigns it: *)
(* in memory every account operation ends with the last currency.           *)
Rewritten(aos, c) == [i \in DOMAIN aos |-> [aos[i] EXCEPT !.currency = c]]

(* The save! that ends an operation validates what was refused once more: it *)
(* raises, or goes on to the check of the operation and to insert it.       *)
SaveRefused ==
  /\ Running("post")
  /\ Top.aos = <<>>
  /\ Top.refused # <<>>
  /\ IF \A i \in DOMAIN Top.refused : Covered(Top.refused[i])
     THEN /\ stack' = <<Inserting(Rewritten(Top.refused, Top.last))>> \o Rest
          /\ UNCHANGED <<bal, unconf, orders, trades, raised>>
          /\ Persist
     ELSE /\ Rollback
          /\ raised' = (raised \/ Executing)
  /\ UNCHANGED env

(* Mutant: the autosave of the association validates nothing.               *)
InsertUnchecked ==
  /\ Running("insert")
  /\ Top.aos # <<>>
  /\ InsertRow(Head(Top.aos), Inserting(Tail(Top.aos)))
  /\ UNCHANGED <<orders, trades, raised, env>>
  /\ Persist

(* Each is validated again, as it is now: inserted if it is covered,         *)
Insert ==
  /\ Running("insert")
  /\ Top.aos # <<>>
  /\ Covered(Head(Top.aos))
  /\ InsertRow(Head(Top.aos), Inserting(Tail(Top.aos)))
  /\ UNCHANGED <<orders, trades, raised, env>>
  /\ Persist

(* and left out without a word if it is not.                                *)
Drop ==
  /\ Running("insert")
  /\ Top.aos # <<>>
  /\ ~Covered(Head(Top.aos))
  /\ stack' = <<Inserting(Tail(Top.aos))>> \o Rest
  /\ UNCHANGED <<bal, unconf, orders, trades, raised, env>>
  /\ Persist

PostReturns ==
  /\ \/ Running("post") /\ Top.refused = <<>>
     \/ Running("insert")
  /\ Top.aos = <<>>
  /\ stack' = Rest
  /\ UNCHANGED <<bal, unconf, orders, trades, raised, env>>
  /\ Persist

(* The next order of refresh_orders: the default scope of trade_orders is    *)
(* created_at DESC.                                                         *)
Newest(todo) ==
  {t \in todo : \A s \in todo : createdAt[t.id] >= createdAt[s.id]}

(* Does the account operation concern this market order?                    *)
Triggers(ao, o) == ao.amount > 0 /\ ao.currency = SpentCurrency(o)

(* Mutant: limit orders too are refreshed by credits only.                  *)
RefreshOnCredit ==
  /\ Running("refresh")
  /\ \E t \in Newest(Top.todo) :
       /\ IsLimit(t.id)
       /\ orders' =
            IF Top.ao.amount > 0 /\ t.active /\ ~Funded(t.id, t.amount)
                 /\ Placed(t.id)
            THEN [orders EXCEPT ![t.id].active = FALSE]
            ELSE orders
       /\ stack' = <<[Top EXCEPT !.todo = @ \ {t}]>> \o Rest
  /\ UNCHANGED <<bal, unconf, trades, raised, env>>
  /\ Persist

(* inactivate_if_needed!: never activates; the flag is written only when it  *)
(* differs from the copy that was read.                                     *)
RefreshLimitOrder ==
  /\ Running("refresh")
  /\ \E t \in Newest(Top.todo) :
       /\ IsLimit(t.id)
       /\ orders' =
            IF t.active /\ ~Funded(t.id, t.amount) /\ Placed(t.id)
            THEN [orders EXCEPT ![t.id].active = FALSE]
            ELSE orders
       /\ stack' = <<[Top EXCEPT !.todo = @ \ {t}]>> \o Rest
  /\ UNCHANGED <<bal, unconf, trades, raised, env>>
  /\ Persist

RefreshMarketOrder ==
  /\ Running("refresh")
  /\ \E t \in Newest(Top.todo) :
       LET rest == <<[Top EXCEPT !.todo = @ \ {t}]>> \o Rest
       IN /\ ~IsLimit(t.id)
          /\ stack' = IF Triggers(Top.ao, t.id)
                      THEN <<Execution(t)>> \o rest
                      ELSE rest
  /\ UNCHANGED <<bal, unconf, orders, trades, raised, env>>
  /\ Persist

RefreshReturns ==
  /\ Running("refresh")
  /\ Top.todo = {}
  /\ stack' = Rest
  /\ UNCHANGED <<bal, unconf, orders, trades, raised, env>>
  /\ Persist

-----------------------------------------------------------------------------
(* A process dies: between two transactions, or inside one.                 *)

Abandon(w) ==
  /\ crashes < MaxCrashes
  /\ worker[w] # Idle
  /\ crashes' = crashes + 1
  /\ worker' = [worker EXCEPT ![w] = Idle]
  /\ UNCHANGED <<bal, unconf, orders, trades, committed, stack, createdAt,
                 clock, moves, raised>>

Crash ==
  /\ crashes < MaxCrashes
  /\ ~AtRest
  /\ crashes' = crashes + 1
  /\ Rollback
  /\ UNCHANGED <<worker, createdAt, clock, moves, raised>>

Step ==
  \/ Skip \/ RecordTrade \/ OrderMissing \/ Settle \/ ExecuteReturns
  \/ Post \/ Refuse \/ SaveRefused \/ Insert \/ Drop \/ PostReturns
  \/ RefreshLimitOrder \/ RefreshMarketOrder \/ RefreshReturns

Request ==
  \/ \E w \in Workers :
       \/ \E o \in Ids : \/ Create(w, o)
                         \/ ActivateCheck(w, o)
                         \/ Destroy(w, o)
       \/ ActivateSave(w)
       \/ BeginExecute(w)
  \/ \E m \in Moves : BeginMove(m)
  \/ \E m \in Received : Confirm(m)

Failure == Crash \/ \E w \in Workers : Abandon(w)

Next == Step \/ Request \/ Failure

Spec == Init /\ [][Next]_vars

(* A process goes on with the transaction it has begun, and with the next    *)
(* one of the same request.                                                 *)
FairSpec ==
  /\ Spec
  /\ WF_vars(Step)
  /\ \A w \in Workers : WF_vars(ActivateSave(w) \/ BeginExecute(w))
=============================================================================
