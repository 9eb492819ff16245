------------------------- MODULE TradeEngineProofs -------------------------
(***************************************************************************)
(* Theorems of the trading core, for every set of users, currencies,       *)
(* orders and processes, every price and every depth of nesting.           *)
(*                                                                         *)
(* The inductive invariant IInv adds to the types that no balance and no    *)
(* count of deposits is negative, that the recorded trades honour their    *)
(* limits, and, of every frame, that the orders an execution still holds in *)
(* memory match the order it executes: that is what the trade it will      *)
(* record rests on, the book having changed since they were read.          *)
(* GridInv adds that every amount held is a whole number of ticks and that  *)
(* an order with nothing left is about to be destroyed by a frame below;    *)
(* CoverInv, that an order left uncovered inside a transaction is one that  *)
(* a frame of its stack will still look at.                                *)
(***************************************************************************)
EXTENDS TradeEngineProperties, TLAPS

SafeBalances(b) ==
  /\ b \in [Accounts -> [Currencies -> Int]]
  /\ \A u \in Users : \A c \in Currencies : b[u][c] >= 0

SafeRows == {t \in TradeRows : Honoured(t)}

SafeTables(b, u, o, t) ==
  /\ SafeBalances(b)
  /\ u \in [Received -> Nat]
  /\ o \in [Ids -> Rows]
  /\ t \in Seq(SafeRows)

SafeAOs == {ao \in AOs : ~ao.confirmed => ao \in Received}

SafeMatchFrames ==
  {f \in MatchFrames : \A m \in f.mos : Matches(f.self.id, m.id)}
SafeSettleFrames ==
  {f \in SettleFrames : \A m \in f.mos : Matches(f.self.id, m.id)}
(* Only a debit is ever refused, and debits need no confirmation.           *)
ConfirmedAOs == {ao \in SafeAOs : ao.confirmed}
SafePostFrames == [op : {"post"}, aos : Seq(SafeAOs),
                   refused : Seq(ConfirmedAOs), last : Currencies]
SafeInsertFrames == [op : {"insert"}, aos : Seq(ConfirmedAOs)]

SafeFrames ==
  SafeMatchFrames \cup SafeSettleFrames \cup SafePostFrames
    \cup SafeInsertFrames \cup RefreshFrames

IInv ==
  /\ SafeTables(bal, unconf, orders, trades)
  /\ SafeTables(committed.bal, committed.unconf, committed.orders,
                committed.trades)
  /\ stack \in Seq(SafeFrames)
  /\ worker \in [Workers -> Requests \cup {Idle}]
  /\ createdAt \in [Ids -> Nat]
  /\ clock \in Nat
  /\ moves \in 0..MaxMoves
  /\ crashes \in 0..MaxCrashes
  /\ raised \in BOOLEAN

-----------------------------------------------------------------------------
(* Rounding to the nearest integer yields an integer.                       *)
LEMMA RoundHalfUpInt ==
  ASSUME NEW n \in Int, NEW d \in Nat \ {0}
  PROVE  RoundHalfUp(n, d) \in Int
<1>1. 2 * n + d \in Int /\ 2 * d \in Nat \ {0}
  OBVIOUS
<1> QED
  BY <1>1 DEF RoundHalfUp

(* Pushing a frame, and what is left when the top one returns.              *)
LEMMA PushFrame ==
  ASSUME NEW S, NEW s \in Seq(S), NEW f \in S
  PROVE  <<f>> \o s \in Seq(S)
OBVIOUS

LEMMA PushTwoFrames ==
  ASSUME NEW S, NEW s \in Seq(S), NEW f \in S, NEW g \in S
  PROVE  <<f, g>> \o s \in Seq(S)
OBVIOUS

LEMMA TopAndRest ==
  ASSUME NEW S, NEW s \in Seq(S), s # <<>>
  PROVE  Head(s) \in S /\ Tail(s) \in Seq(S)
OBVIOUS

LEMMA SeqOfSubset ==
  ASSUME NEW S, NEW T, S \subseteq T
  PROVE  Seq(S) \subseteq Seq(T)
OBVIOUS

(* Counting one more of something keeps counters natural.                   *)
LEMMA CountOneMore ==
  ASSUME NEW S, NEW f \in [S -> Nat], NEW x
  PROVE  [f EXCEPT ![x] = @ + 1] \in [S -> Nat]
<1> DEFINE g == [f EXCEPT ![x] = @ + 1]
<1>1. \A y \in S : g[y] = IF y = x THEN f[y] + 1 ELSE f[y]
  OBVIOUS
<1>2. \A y \in S : g[y] \in Nat
  BY <1>1
<1>3. g = [y \in S |-> g[y]]
  OBVIOUS
<1> QED
  BY <1>2, <1>3

(* An order read with its matches makes a safe frame.                       *)
LEMMA ExecutionSafe ==
  ASSUME orders \in [Ids -> Rows], NEW copy \in Copies
  PROVE  Execution(copy) \in SafeMatchFrames
BY DEF Execution, SafeMatchFrames, MatchFrames, MatchingOrders, Copies, Copy,
       Rows

(* The price of a pair of matching orders is positive.                      *)
LEMMA PricePositive ==
  ASSUME NEW self \in Copies, NEW mo \in Copies, Matches(self.id, mo.id)
  PROVE  Price(self, mo) \in Nat \ {0}
BY EngineAssumption DEF Price, Matches, IsLimit, NULL, Copies, Forms

(* The trade of two matching orders is between their users, at a price both  *)
(* accept.                                                                  *)
LEMMA TradeRowSafe ==
  ASSUME bal \in [Accounts -> [Currencies -> Int]],
         NEW self \in Copies, NEW mo \in Copies, Matches(self.id, mo.id)
  PROVE  TradeRow(self, mo) \in SafeRows
<1> DEFINE t == TradeRow(self, mo)
<1>1. Price(self, mo) \in Nat \ {0}
  BY PricePositive
<1>2. Quantity(self, mo) \in Int
  BY <1>1, EngineAssumption
  DEF Quantity, Lesser, Purchase, Sale, Copies, Forms, Owner, Accounts,
      Currencies, BTC
<1>3. TradedBtc(self, mo) \in Int
  <2>1. Tick * Price(self, mo) \in Nat \ {0}
    BY <1>1, EngineAssumption
  <2> QED
    BY <1>2, <2>1, RoundHalfUpInt, EngineAssumption DEF TradedBtc
<1>4. TradedCurrency(self, mo) \in Int
  <2>1. Tick * PriceDen \in Nat \ {0}
    BY EngineAssumption
  <2> QED
    BY <1>2, <2>1, RoundHalfUpInt, EngineAssumption DEF TradedCurrency
<1>5. t \in TradeRows
  BY <1>1, <1>3, <1>4 DEF TradeRow, TradeRows, Purchase, Sale, Copies
<1>6. Honoured(t)
  BY EngineAssumption
  DEF TradeRow, Honoured, Matches, Price, Purchase, Sale, Accepts, Buying,
      IsLimit, Owner, Copies, Forms
<1> QED
  BY <1>5, <1>6 DEF SafeRows

(* The account operations of a trade are well formed.                       *)
LEMMA TradeAOsSafe ==
  ASSUME NEW t \in TradeRows
  PROVE  TradeAOs(t) \in Seq(SafeAOs)
<1>1. /\ Owner(t.purchase) \in Users
      /\ Owner(t.sale) \in Users
      /\ Form[t.purchase].currency \in Currencies
      /\ BTC \in Currencies
      /\ t.btc \in Int
      /\ t.cur \in Int
  BY EngineAssumption DEF TradeRows, Owner, Forms, Currencies
<1>2. \A x \in Int, u \in Users : Fee(x, u) \in Int /\ Net(x, u) \in Int
  BY RoundHalfUpInt, EngineAssumption DEF Fee, Net
<1>3. \A a \in Accounts, c \in Currencies, x \in Int : AO(a, c, x) \in SafeAOs
  BY DEF AO, SafeAOs, AOs
<1>4. Users \subseteq Accounts /\ Fees \in Accounts
  BY DEF Accounts
<1> QED
  BY <1>1, <1>2, <1>3, <1>4 DEF TradeAOs

-----------------------------------------------------------------------------
(* The tables a transaction leaves are the committed ones, or committed      *)
(* does not change.                                                         *)
LEMMA PersistSafe ==
  ASSUME IInv, Persist, SafeTables(bal', unconf', orders', trades')
  PROVE  SafeTables(committed'.bal, committed'.unconf, committed'.orders,
                    committed'.trades)
BY DEF IInv, Persist, Tables

LEMMA RollbackSafe ==
  ASSUME IInv, Rollback
  PROVE  /\ SafeTables(bal', unconf', orders', trades')
         /\ SafeTables(committed'.bal, committed'.unconf, committed'.orders,
                       committed'.trades)
         /\ stack' \in Seq(SafeFrames)
BY DEF IInv, Rollback

(* What the top frame is when its kind is known.                            *)
LEMMA TopFrame ==
  ASSUME stack \in Seq(SafeFrames), stack # <<>>
  PROVE  /\ Rest \in Seq(SafeFrames)
         /\ Top.op = "match" => Top \in SafeMatchFrames
         /\ Top.op = "settle" => Top \in SafeSettleFrames
         /\ Top.op = "post" => Top \in SafePostFrames
         /\ Top.op = "insert" => Top \in SafeInsertFrames
         /\ Top.op = "refresh" => Top \in RefreshFrames
<1>1. Top \in SafeFrames /\ Rest \in Seq(SafeFrames)
  BY TopAndRest DEF Top, Rest
<1>2. \A f \in SafeMatchFrames : f.op = "match"
  BY DEF SafeMatchFrames, MatchFrames
<1>3. \A f \in SafeSettleFrames : f.op = "settle"
  BY DEF SafeSettleFrames, SettleFrames
<1>4. \A f \in SafePostFrames : f.op = "post"
  BY DEF SafePostFrames
<1>5. \A f \in RefreshFrames : f.op = "refresh"
  BY DEF RefreshFrames
<1>6. \A f \in SafeInsertFrames : f.op = "insert"
  BY DEF SafeInsertFrames
<1> QED
  BY <1>1, <1>2, <1>3, <1>4, <1>5, <1>6 DEF SafeFrames

LEMMA PostingSafe ==
  ASSUME NEW aos \in Seq(SafeAOs), NEW refused \in Seq(ConfirmedAOs),
         NEW c \in Currencies
  PROVE  Posting(aos, refused, c) \in SafeFrames
<1>1. Posting(aos, refused, c) \in SafePostFrames
  BY DEF Posting, SafePostFrames
<1> QED
  BY <1>1 DEF SafeFrames

LEMMA PostingAnewSafe ==
  ASSUME NEW aos \in Seq(SafeAOs), NEW c \in Currencies
  PROVE  Posting(aos, <<>>, c) \in SafeFrames
<1>1. <<>> \in Seq(ConfirmedAOs)
  OBVIOUS
<1> QED
  BY <1>1, PostingSafe

LEMMA InsertingSafe ==
  ASSUME NEW aos \in Seq(ConfirmedAOs)
  PROVE  Inserting(aos) \in SafeFrames
BY DEF Inserting, SafeFrames, SafeInsertFrames

(* To rewrite the currencies of account operations leaves them well formed.  *)
LEMMA RewrittenSafe ==
  ASSUME NEW aos \in Seq(ConfirmedAOs), NEW c \in Currencies
  PROVE  Rewritten(aos, c) \in Seq(ConfirmedAOs)
<1>1. \A ao \in ConfirmedAOs : [ao EXCEPT !.currency = c] \in ConfirmedAOs
  BY DEF ConfirmedAOs, SafeAOs, AOs
<1>2. \A i \in 1..Len(aos) : aos[i] \in ConfirmedAOs
  OBVIOUS
<1>3. Rewritten(aos, c) \in [1..Len(aos) -> ConfirmedAOs]
  BY <1>1, <1>2 DEF Rewritten
<1> QED
  BY <1>3

(* A step that returns from the top frame.                                  *)
LEMMA ReturnSafe ==
  ASSUME IInv, stack # <<>>, stack' = Rest,
         UNCHANGED <<bal, unconf, orders, trades, env, raised>>, Persist
  PROVE  IInv'
<1>1. Rest \in Seq(SafeFrames)
  BY TopFrame DEF IInv
<1>2. SafeTables(bal', unconf', orders', trades')
  BY DEF IInv
<1> QED
  BY <1>1, <1>2, PersistSafe DEF IInv, env

LEMMA SkipSafe == ASSUME IInv, Skip PROVE IInv'
<1>1. Top \in SafeMatchFrames /\ Rest \in Seq(SafeFrames)
  BY TopFrame DEF IInv, Skip, Running, Top
<1>2. PICK mo \in Best(Top.self.id, Top.mos) :
        stack' = <<[Top EXCEPT !.mos = @ \ {mo}]>> \o Rest
  BY DEF Skip
<1>3. [Top EXCEPT !.mos = @ \ {mo}] \in SafeFrames
  BY <1>1 DEF SafeFrames, SafeMatchFrames, MatchFrames
<1>4. stack' \in Seq(SafeFrames)
  BY <1>1, <1>2, <1>3, PushFrame
<1>5. SafeTables(bal', unconf', orders', trades')
  BY DEF IInv, Skip
<1> QED
  BY <1>4, <1>5, PersistSafe DEF IInv, Skip, env

LEMMA RecordTradeSafe == ASSUME IInv, RecordTrade PROVE IInv'
<1>1. Top \in SafeMatchFrames /\ Rest \in Seq(SafeFrames)
  BY TopFrame DEF IInv, RecordTrade, Running, Top
<1> DEFINE after(c, mo) ==
      [c EXCEPT !.amount = @ - TradedBtc(Top.self, mo)]
<1>2. PICK mo \in Best(Top.self.id, Top.mos) :
        /\ orders' = [orders EXCEPT
                        ![mo.id].amount = after(mo, mo).amount,
                        ![Top.self.id].amount = after(Top.self, mo).amount]
        /\ trades' = Append(trades, TradeRow(Top.self, mo))
        /\ stack' = << Posting(TradeAOs(TradeRow(Top.self, mo)), <<>>, BTC),
                       [op |-> "settle", self |-> after(Top.self, mo),
                        mo |-> after(mo, mo), mos |-> Top.mos \ {mo}] >>
                    \o Rest
  BY DEF RecordTrade
<1>3. /\ mo \in Copies
      /\ mo \in Top.mos
      /\ Top.self \in Copies
      /\ Matches(Top.self.id, mo.id)
  BY <1>1 DEF SafeMatchFrames, MatchFrames, Best
<1>4. TradeRow(Top.self, mo) \in SafeRows
  BY <1>3, TradeRowSafe DEF IInv, SafeTables, SafeBalances
<1>5. TradedBtc(Top.self, mo) \in Int
  BY <1>4 DEF SafeRows, TradeRows, TradeRow
<1>6. /\ after(Top.self, mo) \in Copies
      /\ after(mo, mo) \in Copies
      /\ after(Top.self, mo).id = Top.self.id
      /\ after(Top.self, mo).amount \in Int
      /\ after(mo, mo).amount \in Int
  BY <1>3, <1>5 DEF Copies
<1> HIDE DEF after
<1>7. SafeTables(bal', unconf', orders', trades')
  <2>1. orders' \in [Ids -> Rows]
    <3>1. \A o \in [Ids -> Rows], i \in Ids, x \in Int :
            [o EXCEPT ![i].amount = x] \in [Ids -> Rows]
      BY DEF Rows
    <3>2. mo.id \in Ids /\ Top.self.id \in Ids
      BY <1>3 DEF Copies
    <3> QED
      BY <1>2, <1>6, <3>1, <3>2 DEF IInv, SafeTables
  <2>2. trades' \in Seq(SafeRows)
    BY <1>2, <1>4 DEF IInv, SafeTables
  <2> QED
    BY <2>1, <2>2 DEF IInv, SafeTables, RecordTrade
<1>8. Posting(TradeAOs(TradeRow(Top.self, mo)), <<>>, BTC) \in SafeFrames
  <2>1. TradeAOs(TradeRow(Top.self, mo)) \in Seq(SafeAOs)
    BY <1>4, TradeAOsSafe DEF SafeRows
  <2> QED
    BY <2>1, PostingAnewSafe DEF Currencies
<1>9. [op |-> "settle", self |-> after(Top.self, mo), mo |-> after(mo, mo),
       mos |-> Top.mos \ {mo}] \in SafeFrames
  BY <1>1, <1>6
  DEF SafeFrames, SafeSettleFrames, SettleFrames, SafeMatchFrames, MatchFrames
<1>10. stack' \in Seq(SafeFrames)
  BY <1>1, <1>2, <1>8, <1>9, PushTwoFrames
<1> QED
  BY <1>7, <1>10, PersistSafe DEF IInv, RecordTrade, env

LEMMA OrderMissingSafe == ASSUME IInv, OrderMissing PROVE IInv'
BY RollbackSafe DEF IInv, OrderMissing, env

LEMMA SettleSafe == ASSUME IInv, Settle PROVE IInv'
<1>1. Top \in SafeSettleFrames /\ Rest \in Seq(SafeFrames)
  BY TopFrame DEF IInv, Settle, Running, Top
<1>2. [op |-> "match", self |-> Top.self, mos |-> Top.mos,
       alive |-> Top.self.amount # 0] \in SafeFrames
  BY <1>1
  DEF SafeFrames, SafeSettleFrames, SettleFrames, SafeMatchFrames, MatchFrames
<1>3. stack' \in Seq(SafeFrames)
  BY <1>1, <1>2, PushFrame DEF Settle
<1>4. orders' \in [Ids -> Rows]
  BY DEF IInv, SafeTables, Settle, Rows, NoRow
<1>5. SafeTables(bal', unconf', orders', trades')
  BY <1>4 DEF IInv, SafeTables, Settle
<1> QED
  BY <1>3, <1>5, PersistSafe DEF IInv, Settle, env

(* The row of an account operation that is covered leaves no user with a     *)
(* negative balance.                                                        *)
LEMMA InsertRowSafe ==
  ASSUME IInv, NEW ao \in SafeAOs, NEW left \in SafeFrames, stack # <<>>,
         Covered(ao), InsertRow(ao, left)
  PROVE  /\ SafeBalances(bal') /\ unconf' \in [Received -> Nat]
         /\ stack' \in Seq(SafeFrames)
<1> DEFINE fresh == [op |-> "refresh", ao |-> ao,
                     todo |-> {Copy(o) : o \in
                       {n \in Ids : Placed(n) /\ Owner(n) = ao.account}}]
<1>1. fresh \in SafeFrames
  BY DEF IInv, SafeTables, SafeFrames, RefreshFrames, SafeAOs, Copy, Copies,
         Rows
<1>2. Rest \in Seq(SafeFrames)
  BY TopFrame DEF IInv
<1>3. stack' \in Seq(SafeFrames)
  BY <1>1, <1>2, PushFrame, PushTwoFrames DEF InsertRow
<1>4. CASE ao.confirmed
  <2>1. bal' = [bal EXCEPT ![ao.account][ao.currency] = @ + ao.amount]
    BY <1>4 DEF InsertRow
  <2>2. /\ ao.account \in Accounts
        /\ ao.currency \in Currencies
        /\ ao.amount \in Int
    BY DEF SafeAOs, AOs
  <2>3. /\ bal \in [Accounts -> [Currencies -> Int]]
        /\ \A u \in Users : \A c \in Currencies : bal[u][c] >= 0
        /\ unconf' \in [Received -> Nat]
    BY <1>4 DEF IInv, SafeTables, SafeBalances, InsertRow
  <2>4. ao.account \in Users => bal[ao.account][ao.currency] + ao.amount >= 0
    BY <2>2, <2>3 DEF Covered
  <2>5. bal' \in [Accounts -> [Currencies -> Int]]
    BY <2>1, <2>2, <2>3
  <2>6. \A u \in Users : \A c \in Currencies : bal'[u][c] >= 0
    BY <2>1, <2>2, <2>3, <2>4 DEF Accounts
  <2> QED
    BY <1>3, <2>3, <2>5, <2>6 DEF SafeBalances
<1>5. CASE ~ao.confirmed
  <2>1. unconf' = [unconf EXCEPT ![ao] = @ + 1]
    BY <1>5 DEF InsertRow
  <2>2. unconf \in [Received -> Nat]
    BY DEF IInv, SafeTables
  <2>3. unconf' \in [Received -> Nat]
    BY <2>1, <2>2, CountOneMore
  <2>4. bal' = bal /\ SafeBalances(bal)
    BY <1>5 DEF IInv, SafeTables, InsertRow
  <2> QED
    BY <1>3, <2>3, <2>4
<1> QED
  BY <1>4, <1>5

LEMMA PostSafe == ASSUME IInv, Post PROVE IInv'
<1>1. Top \in SafePostFrames /\ stack # <<>>
  BY TopFrame DEF IInv, Post, Running, Top
<1>2. Head(Top.aos) \in SafeAOs /\ Tail(Top.aos) \in Seq(SafeAOs)
  BY <1>1, TopAndRest DEF Post, SafePostFrames
<1>3. [Top EXCEPT !.aos = Tail(@)] \in SafeFrames
  BY <1>1, <1>2 DEF SafeFrames, SafePostFrames
<1>4. /\ SafeBalances(bal') /\ unconf' \in [Received -> Nat]
      /\ stack' \in Seq(SafeFrames)
  BY <1>1, <1>2, <1>3, InsertRowSafe DEF Post
<1>5. SafeTables(bal', unconf', orders', trades')
  BY <1>4 DEF IInv, SafeTables, Post
<1> QED
  BY <1>4, <1>5, PersistSafe DEF IInv, Post, env

LEMMA RefuseSafe == ASSUME IInv, Refuse PROVE IInv'
<1>1. Top \in SafePostFrames /\ Rest \in Seq(SafeFrames)
  BY TopFrame DEF IInv, Refuse, Running, Top
<1>2. Head(Top.aos) \in SafeAOs /\ Tail(Top.aos) \in Seq(SafeAOs)
  BY <1>1, TopAndRest DEF Refuse, SafePostFrames
<1>3. Head(Top.aos) \in ConfirmedAOs
  BY <1>2, EngineAssumption
  DEF Refuse, Covered, ConfirmedAOs, SafeAOs, AOs, Received
<1>4. Append(Top.refused, Head(Top.aos)) \in Seq(ConfirmedAOs)
  BY <1>1, <1>3 DEF SafePostFrames
<1>5. [Top EXCEPT !.aos = Tail(@),
                  !.refused = Append(@, Head(Top.aos))] \in SafeFrames
  BY <1>1, <1>2, <1>4 DEF SafeFrames, SafePostFrames
<1>6. stack' \in Seq(SafeFrames)
  BY <1>1, <1>5, PushFrame DEF Refuse
<1>7. SafeTables(bal', unconf', orders', trades')
  BY DEF IInv, Refuse
<1> QED
  BY <1>6, <1>7, PersistSafe DEF IInv, Refuse, env

LEMMA SaveRefusedSafe == ASSUME IInv, SaveRefused PROVE IInv'
<1>1. Top \in SafePostFrames /\ Rest \in Seq(SafeFrames)
  BY TopFrame DEF IInv, SaveRefused, Running, Top
<1>2. UNCHANGED env /\ raised' \in BOOLEAN
  BY DEF SaveRefused, IInv, Executing
<1>3. CASE Rollback
  BY <1>2, <1>3, RollbackSafe DEF IInv, env
<1>4. CASE /\ stack' = <<Inserting(Rewritten(Top.refused, Top.last))>> \o Rest
           /\ UNCHANGED <<bal, unconf, orders, trades>>
           /\ Persist
  <2>1. Inserting(Rewritten(Top.refused, Top.last)) \in SafeFrames
    BY <1>1, RewrittenSafe, InsertingSafe DEF SafePostFrames
  <2>2. stack' \in Seq(SafeFrames)
    BY <1>1, <1>4, <2>1, PushFrame
  <2>3. SafeTables(bal', unconf', orders', trades')
    BY <1>4 DEF IInv
  <2> QED
    BY <1>2, <1>4, <2>2, <2>3, PersistSafe DEF IInv, env
<1> QED
  BY <1>3, <1>4 DEF SaveRefused

(* What is left of the account operations a save! inserts.                  *)
LEMMA InsertingRest ==
  ASSUME IInv, Running("insert"), Top.aos # <<>>
  PROVE  /\ Head(Top.aos) \in SafeAOs
         /\ Inserting(Tail(Top.aos)) \in SafeFrames
         /\ Rest \in Seq(SafeFrames)
<1>1. Top \in SafeInsertFrames /\ Rest \in Seq(SafeFrames)
  BY TopFrame DEF IInv, Running, Top
<1>2. Head(Top.aos) \in ConfirmedAOs /\ Tail(Top.aos) \in Seq(ConfirmedAOs)
  BY <1>1, TopAndRest DEF SafeInsertFrames
<1> QED
  BY <1>1, <1>2, InsertingSafe DEF ConfirmedAOs

LEMMA InsertSafe == ASSUME IInv, Insert PROVE IInv'
<1>1. /\ SafeBalances(bal') /\ unconf' \in [Received -> Nat]
      /\ stack' \in Seq(SafeFrames)
  BY InsertingRest, InsertRowSafe DEF Insert, Running
<1>2. SafeTables(bal', unconf', orders', trades')
  BY <1>1 DEF IInv, SafeTables, Insert
<1> QED
  BY <1>1, <1>2, PersistSafe DEF IInv, Insert, env

LEMMA DropSafe == ASSUME IInv, Drop PROVE IInv'
<1>1. stack' \in Seq(SafeFrames)
  BY InsertingRest, PushFrame DEF Drop
<1>2. SafeTables(bal', unconf', orders', trades')
  BY DEF IInv, Drop
<1> QED
  BY <1>1, <1>2, PersistSafe DEF IInv, Drop, env

LEMMA RefreshLimitOrderSafe == ASSUME IInv, RefreshLimitOrder PROVE IInv'
<1>1. Top \in RefreshFrames /\ Rest \in Seq(SafeFrames)
  BY TopFrame DEF IInv, RefreshLimitOrder, Running, Top
<1>2. PICK t \in Newest(Top.todo) :
        /\ orders' = IF t.active /\ ~Funded(t.id, t.amount) /\ Placed(t.id)
                     THEN [orders EXCEPT ![t.id].active = FALSE]
                     ELSE orders
        /\ stack' = <<[Top EXCEPT !.todo = @ \ {t}]>> \o Rest
  BY DEF RefreshLimitOrder
<1>3. [Top EXCEPT !.todo = @ \ {t}] \in SafeFrames
  BY <1>1 DEF SafeFrames, RefreshFrames
<1>4. stack' \in Seq(SafeFrames)
  BY <1>1, <1>2, <1>3, PushFrame
<1>5. orders' \in [Ids -> Rows]
  BY <1>2 DEF IInv, SafeTables, Rows
<1>6. SafeTables(bal', unconf', orders', trades')
  BY <1>5 DEF IInv, SafeTables, RefreshLimitOrder
<1> QED
  BY <1>4, <1>6, PersistSafe DEF IInv, RefreshLimitOrder, env

LEMMA RefreshMarketOrderSafe == ASSUME IInv, RefreshMarketOrder PROVE IInv'
<1>1. Top \in RefreshFrames /\ Rest \in Seq(SafeFrames)
  BY TopFrame DEF IInv, RefreshMarketOrder, Running, Top
<1>2. PICK t \in Newest(Top.todo) :
        \/ stack' = <<Execution(t)>> \o
                       (<<[Top EXCEPT !.todo = @ \ {t}]>> \o Rest)
        \/ stack' = <<[Top EXCEPT !.todo = @ \ {t}]>> \o Rest
  BY DEF RefreshMarketOrder
<1>3. t \in Copies
  BY <1>1 DEF Newest, RefreshFrames
<1>4. Execution(t) \in SafeFrames
  BY <1>3, ExecutionSafe DEF IInv, SafeTables, SafeFrames
<1>5. [Top EXCEPT !.todo = @ \ {t}] \in SafeFrames
  BY <1>1 DEF SafeFrames, RefreshFrames
<1>6. stack' \in Seq(SafeFrames)
  BY <1>1, <1>2, <1>4, <1>5, PushFrame
<1>7. SafeTables(bal', unconf', orders', trades')
  BY DEF IInv, SafeTables, RefreshMarketOrder
<1> QED
  BY <1>6, <1>7, PersistSafe DEF IInv, RefreshMarketOrder, env

-----------------------------------------------------------------------------
LEMMA InitSafe == ASSUME Init PROVE IInv
<1>1. SafeBalances(bal)
  BY DEF Init, SafeBalances, Accounts
<1>2. orders \in [Ids -> Rows]
  BY DEF Init, Rows, NoRow
<1>3. worker \in [Workers -> Requests \cup {Idle}]
  BY DEF Init
<1>4. SafeTables(bal, unconf, orders, trades)
  BY <1>1, <1>2 DEF Init, SafeTables
<1>5. SafeTables(committed.bal, committed.unconf, committed.orders,
                 committed.trades)
  BY <1>4 DEF Init, Tables
<1>6. stack \in Seq(SafeFrames)
  BY DEF Init
<1>7. MaxMoves \in Nat /\ MaxCrashes \in Nat
  BY EngineAssumption
<1>8. moves \in 0..MaxMoves /\ crashes \in 0..MaxCrashes
  BY <1>7 DEF Init
<1>9. createdAt \in [Ids -> Nat] /\ clock \in Nat /\ raised \in BOOLEAN
  BY DEF Init
<1> QED
  BY <1>3, <1>4, <1>5, <1>6, <1>8, <1>9 DEF IInv

LEMMA CreateSafe ==
  ASSUME IInv, NEW w \in Workers, NEW o \in Ids, Create(w, o) PROVE IInv'
<1>1. Form[o].amount \in Int
  BY EngineAssumption DEF Forms
<1>2. orders' \in [Ids -> Rows]
  BY <1>1 DEF IInv, SafeTables, Create, Rows
<1>3. SafeTables(bal', unconf', orders', trades')
  BY <1>2 DEF IInv, SafeTables, Create
<1>4. worker' \in [Workers -> Requests \cup {Idle}]
  BY <1>1 DEF IInv, Create, Requests, Copies
<1>5. createdAt' \in [Ids -> Nat] /\ clock' \in Nat
  BY DEF IInv, Create, Greater
<1> QED
  BY <1>3, <1>4, <1>5, PersistSafe DEF IInv, Create

LEMMA ActivateCheckSafe ==
  ASSUME IInv, NEW w \in Workers, NEW o \in Ids, ActivateCheck(w, o)
  PROVE  IInv'
<1>1. Copy(o) \in Copies
  BY DEF IInv, SafeTables, Rows, Copy, Copies
<1>2. worker' \in [Workers -> Requests \cup {Idle}]
  BY <1>1 DEF IInv, ActivateCheck, Requests
<1> QED
  BY <1>2 DEF IInv, ActivateCheck

LEMMA RequestType ==
  ASSUME IInv, NEW w \in Workers, worker[w].stage \in {"activate", "execute"}
  PROVE  worker[w].self \in Copies
BY DEF IInv, Requests, Idle

LEMMA ActivateSaveSafe ==
  ASSUME IInv, NEW w \in Workers, ActivateSave(w) PROVE IInv'
<1>1. worker[w].self \in Copies
  BY RequestType DEF ActivateSave
<1>2. orders' \in [Ids -> Rows]
  BY <1>1 DEF IInv, SafeTables, ActivateSave, Rows, Copies
<1>3. SafeTables(bal', unconf', orders', trades')
  BY <1>2 DEF IInv, SafeTables, ActivateSave
<1>4. worker' \in [Workers -> Requests \cup {Idle}]
  <2>1. [worker[w].self EXCEPT !.active = TRUE] \in Copies
    BY <1>1 DEF Copies
  <2> QED
    BY <2>1 DEF IInv, ActivateSave, Requests
<1> QED
  BY <1>3, <1>4, PersistSafe DEF IInv, ActivateSave

LEMMA DestroySafe ==
  ASSUME IInv, NEW w \in Workers, NEW o \in Ids, Destroy(w, o) PROVE IInv'
<1>1. SafeTables(bal', unconf', orders', trades')
  BY DEF IInv, SafeTables, Destroy, Rows, NoRow
<1> QED
  BY <1>1, PersistSafe DEF IInv, Destroy, env

LEMMA BeginExecuteSafe ==
  ASSUME IInv, NEW w \in Workers, BeginExecute(w) PROVE IInv'
<1>1. Execution(worker[w].self) \in SafeFrames
  BY RequestType, ExecutionSafe
  DEF IInv, SafeTables, BeginExecute, SafeFrames
<1>2. stack' \in Seq(SafeFrames)
  BY <1>1 DEF BeginExecute
<1>3. SafeTables(bal', unconf', orders', trades')
  BY DEF IInv, BeginExecute
<1>4. worker' \in [Workers -> Requests \cup {Idle}]
  BY DEF IInv, BeginExecute
<1> QED
  BY <1>2, <1>3, <1>4, PersistSafe DEF IInv, BeginExecute

LEMMA BeginMoveSafe ==
  ASSUME IInv, NEW m \in Moves, BeginMove(m) PROVE IInv'
<1> DEFINE counterpart == AO(Storage, m.currency, -m.amount)
<1>1. m \in SafeAOs /\ m.currency \in Currencies
  BY EngineAssumption DEF SafeAOs, AOs, Received
<1>2. counterpart \in SafeAOs
  BY EngineAssumption DEF SafeAOs, AOs, AO, Accounts
<1>3. Posting(<<m, counterpart>>, <<>>, m.currency) \in SafeFrames
  <2>1. <<m, counterpart>> \in Seq(SafeAOs)
    BY <1>1, <1>2
  <2> QED
    BY <1>1, <2>1, PostingAnewSafe
<1>4. stack' \in Seq(SafeFrames)
  BY <1>3 DEF BeginMove
<1>5. SafeTables(bal', unconf', orders', trades')
  BY DEF IInv, BeginMove
<1>6. moves' \in 0..MaxMoves
  BY EngineAssumption DEF IInv, BeginMove
<1> QED
  BY <1>4, <1>5, <1>6, PersistSafe DEF IInv, BeginMove

LEMMA ConfirmSafe ==
  ASSUME IInv, NEW m \in Received, Confirm(m) PROVE IInv'
<1>1. /\ BTC \in Currencies
      /\ m.account \in Users
      /\ m.account \in Accounts
      /\ m.amount \in Nat
  BY EngineAssumption DEF Received, AOs, Currencies, Accounts
<1>2. SafeBalances(bal')
  BY <1>1 DEF IInv, SafeTables, SafeBalances, Confirm
<1>3. unconf' \in [Received -> Nat]
  BY DEF IInv, SafeTables, Confirm
<1>4. SafeTables(bal', unconf', orders', trades')
  BY <1>2, <1>3 DEF IInv, SafeTables, Confirm
<1> QED
  BY <1>4, PersistSafe DEF IInv, Confirm, env

LEMMA FailureSafe == ASSUME IInv, Failure PROVE IInv'
<1>1. CASE Crash
  BY <1>1, RollbackSafe, EngineAssumption DEF IInv, Crash
<1>2. ASSUME NEW w \in Workers, Abandon(w) PROVE IInv'
  BY <1>2, EngineAssumption DEF IInv, Abandon
<1> QED
  BY <1>1, <1>2 DEF Failure

-----------------------------------------------------------------------------
LEMMA StepSafe == ASSUME IInv, Step PROVE IInv'
<1>1. CASE Skip
  BY <1>1, SkipSafe
<1>2. CASE RecordTrade
  BY <1>2, RecordTradeSafe
<1>3. CASE OrderMissing
  BY <1>3, OrderMissingSafe
<1>4. CASE Settle
  BY <1>4, SettleSafe
<1>5. CASE ExecuteReturns
  BY <1>5, ReturnSafe DEF ExecuteReturns, Running
<1>6. CASE Post
  BY <1>6, PostSafe
<1>7. CASE Refuse
  BY <1>7, RefuseSafe
<1>12. CASE SaveRefused
  BY <1>12, SaveRefusedSafe
<1>13. CASE Insert
  BY <1>13, InsertSafe
<1>14. CASE Drop
  BY <1>14, DropSafe
<1>8. CASE PostReturns
  BY <1>8, ReturnSafe DEF PostReturns, Running
<1>9. CASE RefreshLimitOrder
  BY <1>9, RefreshLimitOrderSafe
<1>10. CASE RefreshMarketOrder
  BY <1>10, RefreshMarketOrderSafe
<1>11. CASE RefreshReturns
  BY <1>11, ReturnSafe DEF RefreshReturns, Running
<1> QED
  BY <1>1, <1>2, <1>3, <1>4, <1>5, <1>6, <1>7, <1>8, <1>9, <1>10, <1>11,
     <1>12, <1>13, <1>14
  DEF Step

LEMMA RequestSafe == ASSUME IInv, Request PROVE IInv'
<1>1. ASSUME NEW w \in Workers, NEW o \in Ids, Create(w, o) PROVE IInv'
  BY <1>1, CreateSafe
<1>2. ASSUME NEW w \in Workers, NEW o \in Ids, ActivateCheck(w, o)
      PROVE  IInv'
  BY <1>2, ActivateCheckSafe
<1>3. ASSUME NEW w \in Workers, NEW o \in Ids, Destroy(w, o) PROVE IInv'
  BY <1>3, DestroySafe
<1>4. ASSUME NEW w \in Workers, ActivateSave(w) PROVE IInv'
  BY <1>4, ActivateSaveSafe
<1>5. ASSUME NEW w \in Workers, BeginExecute(w) PROVE IInv'
  BY <1>5, BeginExecuteSafe
<1>6. ASSUME NEW m \in Moves, BeginMove(m) PROVE IInv'
  BY <1>6, BeginMoveSafe
<1>7. ASSUME NEW m \in Received, Confirm(m) PROVE IInv'
  BY <1>7, ConfirmSafe
<1> QED
  BY <1>1, <1>2, <1>3, <1>4, <1>5, <1>6, <1>7 DEF Request

LEMMA NextSafe == ASSUME IInv, [Next]_vars PROVE IInv'
<1>1. CASE Step
  BY <1>1, StepSafe
<1>2. CASE Request
  BY <1>2, RequestSafe
<1>3. CASE Failure
  BY <1>3, FailureSafe
<1>4. CASE UNCHANGED vars
  BY <1>4 DEF vars, IInv
<1> QED
  BY <1>1, <1>2, <1>3, <1>4 DEF Next

(* The inductive invariant holds in every reachable state.                  *)
THEOREM Invariance == Spec => []IInv
<1>1. Init => IInv
  BY InitSafe
<1>2. IInv /\ [Next]_vars => IInv'
  BY NextSafe
<1> QED
  BY <1>1, <1>2, PTL DEF Spec

(* Every variable keeps its type.                                           *)
THEOREM TypeCorrect == Spec => []TypeOK
<1>1. ASSUME IInv PROVE TypeOK
  <2>1. SafeFrames \subseteq Frames
    <3>1. ConfirmedAOs \subseteq AOs /\ SafeAOs \subseteq AOs
      BY DEF ConfirmedAOs, SafeAOs
    <3>2. Seq(ConfirmedAOs) \subseteq Seq(AOs) /\ Seq(SafeAOs) \subseteq Seq(AOs)
      BY <3>1, SeqOfSubset
    <3>3. /\ SafePostFrames \subseteq PostFrames
          /\ SafeInsertFrames \subseteq InsertFrames
      BY <3>2
      DEF SafePostFrames, PostFrames, SafeInsertFrames, InsertFrames
    <3> QED
      BY <3>3 DEF SafeFrames, SafeMatchFrames, SafeSettleFrames, Frames
  <2>2. SafeRows \subseteq TradeRows
    BY DEF SafeRows
  <2>3. stack \in Seq(Frames)
    BY <1>1, <2>1, SeqOfSubset DEF IInv
  <2>4. TablesOK(bal, unconf, orders, trades)
    BY <1>1, <2>2, SeqOfSubset DEF IInv, SafeTables, SafeBalances, TablesOK
  <2>5. TablesOK(committed.bal, committed.unconf, committed.orders,
                 committed.trades)
    BY <1>1, <2>2, SeqOfSubset DEF IInv, SafeTables, SafeBalances, TablesOK
  <2> QED
    BY <1>1, <2>3, <2>4, <2>5 DEF IInv, TypeOK
<1> QED
  BY <1>1, Invariance, PTL

(* No user ever has a negative balance, at any depth of nested execution.   *)
THEOREM BalancesNeverNegative == Spec => []NoNegativeBalance
<1>1. IInv => NoNegativeBalance
  BY DEF IInv, SafeTables, SafeBalances, NoNegativeBalance
<1> QED
  BY <1>1, Invariance, PTL

(* Every recorded trade is between two users, at a price both limits accept. *)
THEOREM LimitsHonoured == Spec => []TradesHonourLimits
<1>1. IInv => TradesHonourLimits
  BY DEF IInv, SafeTables, SafeRows, TradesHonourLimits
<1> QED
  BY <1>1, Invariance, PTL

-----------------------------------------------------------------------------
(* The trades the running transaction sees are the committed ones and some   *)
(* more.                                                                    *)
Working == Prolongs(committed.trades, trades)

LEMMA WorkingStep ==
  ASSUME IInv, Working, [Next]_vars
  PROVE  Working' /\ Prolongs(committed.trades, committed'.trades)
<1>1. trades \in Seq(SafeRows) /\ committed.trades \in Seq(SafeRows)
  BY DEF IInv, SafeTables
<1>2. \/ Persist /\ trades' = trades
      \/ Persist /\ \E row : trades' = Append(trades, row)
      \/ Rollback
      \/ UNCHANGED <<trades, committed>>
  <2>1. CASE Step
    BY <2>1
    DEF Step, Skip, RecordTrade, OrderMissing, Settle, ExecuteReturns, Post,
        Refuse, SaveRefused, Insert, Drop, PostReturns, RefreshLimitOrder,
        RefreshMarketOrder, RefreshReturns
  <2>2. CASE Request
    BY <2>2
    DEF Request, Create, ActivateCheck, ActivateSave, Destroy, BeginExecute,
        BeginMove, Confirm
  <2>3. CASE Failure
    BY <2>3 DEF Failure, Crash, Abandon
  <2>4. CASE UNCHANGED vars
    BY <2>4 DEF vars
  <2> QED
    BY <2>1, <2>2, <2>3, <2>4 DEF Next
<1>3. CASE Persist /\ trades' = trades
  BY <1>1, <1>3 DEF Working, Prolongs, Persist, Tables
<1>4. ASSUME Persist, NEW row, trades' = Append(trades, row)
      PROVE  Working' /\ Prolongs(committed.trades, committed'.trades)
  <2>1. /\ Len(trades') = Len(trades) + 1
        /\ \A i \in DOMAIN trades :
             i \in DOMAIN trades' /\ trades'[i] = trades[i]
    BY <1>1, <1>4
  <2>2. Prolongs(committed.trades, trades')
    BY <1>1, <2>1 DEF Working, Prolongs
  <2>3. committed'.trades = trades' \/ committed' = committed
    BY <1>4 DEF Persist, Tables
  <2> QED
    BY <1>1, <2>1, <2>2, <2>3 DEF Working, Prolongs
<1>5. CASE Rollback
  BY <1>1, <1>5 DEF Rollback, Working, Prolongs
<1>6. CASE UNCHANGED <<trades, committed>>
  BY <1>1, <1>6 DEF Working, Prolongs
<1> QED
  BY <1>2, <1>3, <1>4, <1>5, <1>6

(* No commit ever alters or removes a recorded trade.                       *)
THEOREM TradesNeverUndone == Spec => TradesAppendOnly
<1>1. Init => Working
  BY DEF Init, Working, Prolongs, Tables
<1>2. IInv /\ Working /\ [Next]_vars => Working'
  BY WorkingStep
<1>3. IInv /\ Working /\ [Next]_vars
        => [Prolongs(committed.trades, committed'.trades)]_committed
  BY WorkingStep
<1> QED
  BY <1>1, <1>2, <1>3, Invariance, PTL DEF Spec, TradesAppendOnly

-----------------------------------------------------------------------------
(* Rounding a fraction that is at most the integer k stays at most k.       *)
LEMMA RoundHalfUpBound ==
  ASSUME NEW n \in Int, NEW d \in Nat \ {0}, NEW k \in Int, n <= k * d
  PROVE  RoundHalfUp(n, d) <= k
<1> DEFINE q == RoundHalfUp(n, d)
           m == 2 * d
<1>1. q \in Int
  BY RoundHalfUpInt
<1>2. q * m <= 2 * n + d
  BY DEF RoundHalfUp
<1>3. k * d \in Int /\ k * m = 2 * (k * d)
  OBVIOUS
<1>4. 2 * n + d < k * m + m
  BY <1>3
<1>5. k * m + m = (k + 1) * m
  OBVIOUS
<1>6. q * m < (k + 1) * m
  BY <1>1, <1>2, <1>3, <1>4, <1>5
<1>7. q < k + 1
  <2>1. m > 0 /\ m \in Int /\ k + 1 \in Int
    OBVIOUS
  <2>2. ASSUME q >= k + 1 PROVE FALSE
    <3>1. q * m >= (k + 1) * m
      BY <1>1, <2>1, <2>2
    <3> QED
      BY <1>1, <1>6, <2>1, <3>1
  <2> QED
    BY <1>1, <2>1, <2>2
<1> QED
  BY <1>1, <1>7

LEMMA RoundToTick ==
  ASSUME NEW n \in Int, NEW x \in Int, NEW p \in Nat \ {0}, OnGrid(x, Tick),
         n <= x * p
  PROVE  Tick * RoundHalfUp(n, Tick * p) <= x
<1>1. Tick \in Nat \ {0}
  BY EngineAssumption
<1>2. PICK k \in Int : x = k * Tick
  BY DEF OnGrid
<1>3. Tick * p \in Nat \ {0}
  BY <1>1
<1>4. n <= k * (Tick * p)
  <2>1. x * p = k * (Tick * p)
    BY <1>1, <1>2
  <2> QED
    BY <2>1
<1>5. RoundHalfUp(n, Tick * p) <= k
  BY <1>3, <1>4, RoundHalfUpBound
<1>6. RoundHalfUp(n, Tick * p) \in Int
  BY <1>3, RoundHalfUpInt
<1> HIDE DEF RoundHalfUp
<1> DEFINE r == RoundHalfUp(n, Tick * p)
<1>7. Tick * r <= Tick * k
  BY <1>1, <1>5, <1>6
<1> QED
  BY <1>1, <1>2, <1>7

(* When the amounts of two matching orders and the balances they spend are   *)
(* whole numbers of ticks, the trade execute! computes exceeds neither       *)
(* order and overdraws neither side, although each quantity is rounded to   *)
(* the nearest tick and not downwards.                                      *)
THEOREM TradeWithinMeans ==
  ASSUME bal \in [Accounts -> [Currencies -> Int]],
         NEW self \in Copies, NEW mo \in Copies, Matches(self.id, mo.id),
         OnGrid(Sale(self, mo).amount, Tick),
         OnGrid(Purchase(self, mo).amount, Tick),
         OnGrid(bal[Owner(Sale(self, mo).id)][BTC], Tick),
         OnGrid(bal[Owner(Purchase(self, mo).id)][Form[self.id].currency],
                Tick)
  PROVE  /\ TradedBtc(self, mo) <= Sale(self, mo).amount
         /\ TradedBtc(self, mo) <= Purchase(self, mo).amount
         /\ TradedBtc(self, mo) <= bal[Owner(Sale(self, mo).id)][BTC]
         /\ TradedCurrency(self, mo)
              <= bal[Owner(Purchase(self, mo).id)][Form[self.id].currency]
<1> DEFINE p == Price(self, mo)
           a == Sale(self, mo).amount
           b == Purchase(self, mo).amount
           s == bal[Owner(Sale(self, mo).id)][BTC]
           c == bal[Owner(Purchase(self, mo).id)][Form[self.id].currency]
           q == Quantity(self, mo)
<1>1. p \in Nat \ {0} /\ PriceDen \in Nat \ {0}
  BY PricePositive, EngineAssumption
<1>2. a \in Int /\ b \in Int /\ s \in Int /\ c \in Int
  BY EngineAssumption
  DEF Sale, Purchase, Copies, Owner, Forms, Accounts, Currencies
<1>3. q = Lesser(Lesser(a * p, b * p), Lesser(s * p, c * PriceDen))
  BY DEF Quantity
<1> HIDE DEF p, a, b, s, c, q
<1>4. a * p \in Int /\ b * p \in Int /\ s * p \in Int /\ c * PriceDen \in Int
  BY <1>1, <1>2
<1>5. /\ q \in Int
      /\ q <= a * p
      /\ q <= b * p
      /\ q <= s * p
      /\ q <= c * PriceDen
  BY <1>3, <1>4 DEF Lesser
<1>6. TradedBtc(self, mo) <= a
  BY <1>1, <1>2, <1>5, RoundToTick DEF TradedBtc, p, q, a
<1>7. TradedBtc(self, mo) <= b
  BY <1>1, <1>2, <1>5, RoundToTick DEF TradedBtc, p, q, b
<1>8. TradedBtc(self, mo) <= s
  BY <1>1, <1>2, <1>5, RoundToTick DEF TradedBtc, p, q, s
<1>9. TradedCurrency(self, mo) <= c
  BY <1>1, <1>2, <1>5, RoundToTick DEF TradedCurrency, q, c
<1> QED
  BY <1>6, <1>7, <1>8, <1>9 DEF a, b, s, c

(* The frames of a stack are those of its top and of its rest.              *)
LEMMA RangeOfPush ==
  ASSUME NEW S, NEW s \in Seq(S), NEW f
  PROVE  Range(<<f>> \o s) = {f} \cup Range(s)
<1> DEFINE t == <<f>> \o s
<1>1. /\ DOMAIN t = 1..(Len(s) + 1) /\ DOMAIN s = 1..Len(s) /\ Len(s) \in Nat
      /\ t[1] = f
      /\ \A i \in 1..Len(s) : t[i + 1] = s[i]
  OBVIOUS
<1> HIDE DEF t
<1>2. ASSUME NEW h \in Range(t) PROVE h = f \/ h \in Range(s)
  <2>1. PICK i \in DOMAIN t : h = t[i]
    BY <1>2 DEF Range
  <2>2. i = 1 \/ (i - 1 \in 1..Len(s) /\ i = (i - 1) + 1)
    BY <1>1, <2>1
  <2> QED
    BY <1>1, <2>1, <2>2 DEF Range
<1>3. f \in Range(t)
  <2>1. 1 \in DOMAIN t
    BY <1>1
  <2> QED
    BY <1>1, <2>1 DEF Range
<1>4. ASSUME NEW h \in Range(s) PROVE h \in Range(t)
  <2>1. PICK i \in DOMAIN s : h = s[i]
    BY <1>4 DEF Range
  <2>2. i + 1 \in DOMAIN t
    BY <1>1, <2>1
  <2> QED
    BY <1>1, <2>1, <2>2 DEF Range
<1> QED
  BY <1>2, <1>3, <1>4 DEF t

LEMMA RangeOfTop ==
  ASSUME NEW S, NEW s \in Seq(S), s # <<>>
  PROVE  Range(s) = {Head(s)} \cup Range(Tail(s))
<1>1. s = <<Head(s)>> \o Tail(s) /\ Tail(s) \in Seq(S)
  OBVIOUS
<1>2. Range(<<Head(s)>> \o Tail(s)) = {Head(s)} \cup Range(Tail(s))
  BY <1>1, RangeOfPush
<1> QED
  BY <1>1, <1>2

LEMMA RangeOfTwo ==
  ASSUME NEW S, NEW s \in Seq(S), NEW f \in S, NEW g \in S
  PROVE  Range(<<f, g>> \o s) = {f, g} \cup Range(s)
<1> DEFINE t == <<f, g>> \o s
           u == <<g>> \o s
<1>1. /\ t \in Seq(S) /\ t # <<>> /\ Len(t) = Len(s) + 2 /\ Len(s) \in Nat
      /\ t[1] = f /\ t[2] = g /\ \A i \in 1..Len(s) : t[i + 2] = s[i]
  OBVIOUS
<1>2. /\ u \in Seq(S) /\ Len(u) = Len(s) + 1
      /\ u[1] = g /\ \A i \in 1..Len(s) : u[i + 1] = s[i]
  OBVIOUS
<1>3. Head(t) = f /\ Tail(t) = u
  <2>1. Tail(t) \in Seq(S) /\ Len(Tail(t)) = Len(u)
    BY <1>1, <1>2
  <2>2. ASSUME NEW i \in 1..Len(u) PROVE Tail(t)[i] = u[i]
    <3>1. Tail(t)[i] = t[i + 1]
      BY <1>1, <1>2
    <3>2. \/ i = 1
          \/ i - 1 \in 1..Len(s) /\ i = (i - 1) + 1 /\ i + 1 = (i - 1) + 2
      BY <1>1, <1>2
    <3> QED
      BY <1>1, <1>2, <3>1, <3>2
  <2> QED
    BY <1>1, <1>2, <2>1, <2>2
<1>4. Range(u) = {g} \cup Range(s)
  BY RangeOfPush
<1> HIDE DEF t, u
<1>5. Range(t) = {Head(t)} \cup Range(Tail(t))
  BY <1>1, RangeOfTop
<1> QED
  BY <1>3, <1>4, <1>5 DEF t

LEMMA RangeOfNone == Range(<<>>) = {}
BY DEF Range

-----------------------------------------------------------------------------
(* What remains of an order, when the amounts of all orders are whole        *)
(* numbers of ticks.                                                        *)

AmountsOnGrid == \A o \in Ids : OnGrid(Form[o].amount, Tick)

Whole(x) == x \in Nat /\ OnGrid(x, Tick)

WholeTable(table) == \A o \in Ids : Whole(table[o].amount)

(* The copies a frame holds.                                                *)
WholeFrame(f) ==
  /\ f.op \in {"match", "settle"} =>
       Whole(f.self.amount) /\ \A m \in f.mos : Whole(m.amount)
  /\ f.op = "settle" => Whole(f.mo.amount)
  /\ f.op = "refresh" => \A t \in f.todo : Whole(t.amount)

(* The frame f will destroy the order o.                                     *)
Destroys(f, o) ==
  /\ f.op = "settle"
  /\ \/ f.self.id = o /\ f.self.amount = 0
     \/ f.mo.id = o /\ f.mo.amount = 0

(* Nothing remains of an order only until the execution that filled it      *)
(* comes back to it.                                                        *)
EmptyDestroyed ==
  \A o \in Ids : Placed(o) /\ orders[o].amount = 0 =>
    \E f \in Range(stack) : Destroys(f, o)

GridInv ==
  /\ WholeTable(orders)
  /\ WholeTable(committed.orders)
  /\ \A f \in Range(stack) : WholeFrame(f)
  /\ \A w \in Workers : worker[w] # Idle => Whole(worker[w].self.amount)
  /\ EmptyDestroyed
  /\ RemaindersPositive

LEMMA WholeDifference ==
  ASSUME NEW x, Whole(x), NEW y \in Int, OnGrid(y, Tick), y <= x
  PROVE  Whole(x - y)
<1>1. PICK k \in Int : x = k * Tick
  BY DEF Whole, OnGrid
<1>2. PICK l \in Int : y = l * Tick
  BY DEF OnGrid
<1>3. Tick \in Int
  BY EngineAssumption
<1>4. x - y = (k - l) * Tick
  BY <1>1, <1>2, <1>3
<1> QED
  BY <1>4 DEF Whole, OnGrid

(* A trade takes no more than there is of either order.                      *)
LEMMA TradeWithinOrders ==
  ASSUME bal \in [Accounts -> [Currencies -> Int]],
         NEW self \in Copies, NEW mo \in Copies, Matches(self.id, mo.id),
         Whole(self.amount), Whole(mo.amount)
  PROVE  /\ Whole(self.amount - TradedBtc(self, mo))
         /\ Whole(mo.amount - TradedBtc(self, mo))
<1> DEFINE p == Price(self, mo)
           a == Sale(self, mo).amount
           b == Purchase(self, mo).amount
           s == bal[Owner(Sale(self, mo).id)][BTC]
           c == bal[Owner(Purchase(self, mo).id)][Form[self.id].currency]
           q == Quantity(self, mo)
           r == RoundHalfUp(q, Tick * p)
<1>1. p \in Nat \ {0} /\ PriceDen \in Nat \ {0} /\ Tick \in Nat \ {0}
  BY PricePositive, EngineAssumption
<1>2. a \in Int /\ b \in Int /\ s \in Int /\ c \in Int
  BY EngineAssumption
  DEF Sale, Purchase, Copies, Owner, Forms, Accounts, Currencies
<1>3. q = Lesser(Lesser(a * p, b * p), Lesser(s * p, c * PriceDen))
  BY DEF Quantity
<1>4. \/ a = self.amount /\ b = mo.amount
      \/ a = mo.amount /\ b = self.amount
  BY DEF Sale, Purchase
<1>5. OnGrid(a, Tick) /\ OnGrid(b, Tick)
  BY <1>4 DEF Whole
<1>6. TradedBtc(self, mo) = Tick * r
  BY DEF TradedBtc
<1> HIDE DEF p, a, b, s, c, q
<1>7. a * p \in Int /\ b * p \in Int /\ s * p \in Int /\ c * PriceDen \in Int
  BY <1>1, <1>2
<1>8. q \in Int /\ q <= a * p /\ q <= b * p
  BY <1>3, <1>7 DEF Lesser
<1>9. Tick * r <= a /\ Tick * r <= b
  BY <1>1, <1>2, <1>5, <1>8, RoundToTick
<1>10. Tick * p \in Nat \ {0}
  BY <1>1
<1>11. r \in Int
  BY <1>8, <1>10, RoundHalfUpInt
<1> HIDE DEF r
<1>12. Tick * r \in Int /\ Tick * r = r * Tick
  BY <1>1, <1>11
<1>13. OnGrid(Tick * r, Tick)
  BY <1>11, <1>12 DEF OnGrid
<1>14. Tick * r <= self.amount /\ Tick * r <= mo.amount
  BY <1>4, <1>9
<1> QED
  BY <1>6, <1>12, <1>13, <1>14, WholeDifference

(* A step that leaves whole tables and frames, and orders with something to  *)
(* fill if it is the last one of a transaction.                             *)
LEMMA GridPersists ==
  ASSUME GridInv, WholeTable(orders'),
         \A f \in Range(stack)' : WholeFrame(f),
         \A w \in Workers : worker'[w] # Idle => Whole(worker'[w].self.amount),
         EmptyDestroyed',
         Persist \/ UNCHANGED committed
  PROVE  GridInv'
<1>1. committed'.orders = committed.orders
        \/ (stack' = <<>> /\ committed'.orders = orders')
  BY DEF Persist, Tables
<1>2. CASE committed'.orders = committed.orders
  BY <1>2 DEF GridInv, RemaindersPositive, WholeTable
<1>3. CASE stack' = <<>> /\ committed'.orders = orders'
  <2>1. \A o \in Ids : Placed(o)' => orders'[o].amount # 0
    BY <1>3, RangeOfNone DEF EmptyDestroyed
  <2>2. RemaindersPositive'
    BY <1>3, <2>1 DEF RemaindersPositive, WholeTable, Whole, Placed
  <2> QED
    BY <1>3, <2>2 DEF GridInv, WholeTable
<1> QED
  BY <1>1, <1>2, <1>3

(* A step that leaves the amounts alone, and the frames that will destroy an *)
(* order where they are.                                                    *)
LEMMA GridFrames ==
  ASSUME GridInv,
         \A o \in Ids : /\ orders'[o].amount = orders[o].amount
                        /\ orders'[o].placed = orders[o].placed,
         \A f \in Range(stack') : f \in Range(stack) \/ WholeFrame(f),
         \A f \in Range(stack) : f.op = "settle" => f \in Range(stack'),
         \A w \in Workers : worker'[w] \in {worker[w], Idle},
         Persist
  PROVE  GridInv'
<1>1. WholeTable(orders')
  BY DEF GridInv, WholeTable
<1>2. \A f \in Range(stack)' : WholeFrame(f)
  BY DEF GridInv
<1>3. EmptyDestroyed'
  BY DEF GridInv, EmptyDestroyed, Placed, Destroys
<1>4. \A w \in Workers : worker'[w] # Idle => Whole(worker'[w].self.amount)
  BY DEF GridInv
<1> QED
  BY <1>1, <1>2, <1>3, <1>4, GridPersists

LEMMA GridRollsBack ==
  ASSUME GridInv, Rollback, UNCHANGED worker PROVE GridInv'
<1>1. Range(stack)' = {}
  BY RangeOfNone DEF Rollback
<1>2. WholeTable(orders')
  BY DEF GridInv, Rollback
<1>3. EmptyDestroyed'
  BY DEF GridInv, RemaindersPositive, EmptyDestroyed, Rollback, Placed
<1> QED
  BY <1>1, <1>2, <1>3, GridPersists DEF GridInv, Rollback

LEMMA WholeExecution ==
  ASSUME GridInv, NEW copy, Whole(copy.amount)
  PROVE  WholeFrame(Execution(copy)) /\ Execution(copy).op = "match"
BY DEF GridInv, WholeTable, WholeFrame, Execution, MatchingOrders, Copy

(* What the running frame is, and what is below it.                         *)
LEMMA RunningFrame ==
  ASSUME IInv, stack # <<>>
  PROVE  /\ Rest \in Seq(SafeFrames)
         /\ Range(stack) = {Top} \cup Range(Rest)
BY RangeOfTop, TopFrame DEF IInv, Top, Rest

LEMMA GridRecordTrade == ASSUME IInv, GridInv, RecordTrade PROVE GridInv'
<1>1. /\ Top \in SafeMatchFrames /\ Rest \in Seq(SafeFrames)
      /\ Top.op = "match" /\ Range(stack) = {Top} \cup Range(Rest)
  BY TopFrame, RunningFrame DEF IInv, RecordTrade, Running, Top
<1> DEFINE after(c, mo) ==
      [c EXCEPT !.amount = @ - TradedBtc(Top.self, mo)]
           posting(mo) == Posting(TradeAOs(TradeRow(Top.self, mo)), <<>>, BTC)
           settle(mo) == [op |-> "settle", self |-> after(Top.self, mo),
                          mo |-> after(mo, mo), mos |-> Top.mos \ {mo}]
<1>2. PICK mo \in Best(Top.self.id, Top.mos) :
        /\ orders' = [orders EXCEPT
                        ![mo.id].amount = after(mo, mo).amount,
                        ![Top.self.id].amount = after(Top.self, mo).amount]
        /\ stack' = <<posting(mo), settle(mo)>> \o Rest
  BY DEF RecordTrade
<1>3. /\ mo \in Copies /\ mo \in Top.mos /\ Top.self \in Copies
      /\ Matches(Top.self.id, mo.id)
  BY <1>1 DEF SafeMatchFrames, MatchFrames, Best
<1>4. Whole(Top.self.amount) /\ \A m \in Top.mos : Whole(m.amount)
  BY <1>1 DEF GridInv, WholeFrame
<1>5. /\ Whole(Top.self.amount - TradedBtc(Top.self, mo))
      /\ Whole(mo.amount - TradedBtc(Top.self, mo))
  BY <1>3, <1>4, TradeWithinOrders DEF IInv, SafeTables, SafeBalances
<1>6. /\ after(Top.self, mo).id = Top.self.id
      /\ after(mo, mo).id = mo.id
      /\ Whole(after(Top.self, mo).amount)
      /\ Whole(after(mo, mo).amount)
  BY <1>3, <1>5 DEF Copies
<1> HIDE DEF after
<1>7. mo.id \in Ids /\ Top.self.id \in Ids
  BY <1>3 DEF Copies
<1>8. \A o \in Ids :
        /\ orders'[o].placed = orders[o].placed
        /\ orders'[o].amount = IF o = Top.self.id
                               THEN after(Top.self, mo).amount
                               ELSE IF o = mo.id THEN after(mo, mo).amount
                               ELSE orders[o].amount
  <2>1. orders \in [Ids -> Rows]
    BY DEF IInv, SafeTables
  <2> DEFINE x == after(mo, mo).amount
             y == after(Top.self, mo).amount
             v == [orders EXCEPT ![mo.id].amount = x]
  <2>2. x \in Int /\ y \in Int
    BY <1>6 DEF Whole
  <2> HIDE DEF x, y
  <2>3. v \in [Ids -> Rows]
    BY <1>7, <2>1, <2>2 DEF Rows
  <2>4. \A o \in Ids : /\ v[o].placed = orders[o].placed
                       /\ v[o].amount = IF o = mo.id THEN x
                                        ELSE orders[o].amount
    BY <1>7, <2>1 DEF Rows
  <2>5. orders' = [v EXCEPT ![Top.self.id].amount = y]
    BY <1>2 DEF x, y
  <2> HIDE DEF v
  <2>6. \A o \in Ids : /\ orders'[o].placed = v[o].placed
                       /\ orders'[o].amount = IF o = Top.self.id THEN y
                                              ELSE v[o].amount
    BY <1>7, <2>3, <2>5 DEF Rows
  <2> QED
    BY <2>4, <2>6 DEF x, y
<1>9. WholeTable(orders')
  BY <1>6, <1>8 DEF GridInv, WholeTable
<1>10. WholeFrame(posting(mo)) /\ posting(mo) \in SafeFrames
  <2>1. TradeRow(Top.self, mo) \in SafeRows
    BY <1>3, TradeRowSafe DEF IInv, SafeTables, SafeBalances
  <2>2. TradeAOs(TradeRow(Top.self, mo)) \in Seq(SafeAOs)
    BY <2>1, TradeAOsSafe DEF SafeRows
  <2> QED
    BY <2>2, PostingAnewSafe DEF Currencies, Posting, WholeFrame
<1>11. WholeFrame(settle(mo))
  BY <1>4, <1>6 DEF WholeFrame
<1>12. \A o \in {Top.self.id, mo.id} :
         Placed(o)' /\ orders'[o].amount = 0 => Destroys(settle(mo), o)
  BY <1>6, <1>7, <1>8 DEF Destroys
<1>13. Range(stack') = {posting(mo), settle(mo)} \cup Range(Rest)
  <2>1. after(Top.self, mo) \in Copies /\ after(mo, mo) \in Copies
    BY <1>3, <1>5 DEF after, Copies, Whole
  <2>2. settle(mo) \in SafeFrames
    BY <1>1, <2>1, <1>6 DEF SafeFrames, SafeSettleFrames, SettleFrames,
                      SafeMatchFrames, MatchFrames
  <2> HIDE DEF settle, posting
  <2> QED
    BY <1>1, <1>2, <1>10, <2>2, RangeOfTwo
<1> HIDE DEF settle, posting
<1>14. \A f \in Range(stack)' : WholeFrame(f)
  BY <1>1, <1>10, <1>11, <1>13 DEF GridInv
<1>15. EmptyDestroyed'
  <2>1. ASSUME NEW o \in Ids, Placed(o)', orders'[o].amount = 0
        PROVE  \E f \in Range(stack') : Destroys(f, o)
    <3>1. CASE o \in {Top.self.id, mo.id}
      BY <1>12, <1>13, <2>1, <3>1
    <3>2. CASE o \notin {Top.self.id, mo.id}
      <4>1. PICK f \in Range(stack) : Destroys(f, o)
        BY <1>8, <2>1, <3>2 DEF GridInv, EmptyDestroyed, Placed
      <4>2. f \in Range(Rest)
        BY <1>1, <4>1 DEF Destroys
      <4> QED
        BY <1>13, <4>1, <4>2
    <3> QED
      BY <3>1, <3>2
  <2> QED
    BY <2>1 DEF EmptyDestroyed
<1> QED
  BY <1>9, <1>14, <1>15, GridPersists DEF RecordTrade, env, GridInv

LEMMA GridSettle == ASSUME IInv, GridInv, Settle PROVE GridInv'
<1>1. /\ Rest \in Seq(SafeFrames) /\ Top.op = "settle"
      /\ Range(stack) = {Top} \cup Range(Rest)
  BY RunningFrame DEF Settle, Running, Top
<1> DEFINE f == [op |-> "match", self |-> Top.self, mos |-> Top.mos,
                 alive |-> Top.self.amount # 0]
<1>2. stack' = <<f>> \o Rest
  BY DEF Settle
<1>3. Range(stack') = {f} \cup Range(Rest)
  BY <1>1, <1>2, RangeOfPush
<1>4. WholeFrame(f)
  BY <1>1 DEF GridInv, WholeFrame
<1>5. \A o \in Ids : orders'[o] = IF Destroys(Top, o) THEN NoRow ELSE orders[o]
  BY <1>1 DEF Settle, Destroys
<1>6. WholeTable(orders')
  <2>1. 0 = 0 * Tick
    BY EngineAssumption
  <2>2. Whole(0)
    BY <2>1 DEF Whole, OnGrid
  <2> QED
    BY <1>5, <2>2 DEF GridInv, WholeTable, NoRow
<1>7. EmptyDestroyed'
  BY <1>1, <1>3, <1>5 DEF GridInv, EmptyDestroyed, Placed, NoRow
<1> HIDE DEF f
<1>8. \A g \in Range(stack)' : WholeFrame(g)
  BY <1>1, <1>3, <1>4 DEF GridInv
<1> QED
  BY <1>6, <1>7, <1>8, GridPersists DEF Settle, env, GridInv

(* Steps that replace the running frame by frames without a spent order.     *)
LEMMA GridReplaces ==
  ASSUME IInv, GridInv, stack # <<>>, Top.op # "settle",
         NEW f, WholeFrame(f), stack' = <<f>> \o Rest,
         \A o \in Ids : /\ orders'[o].amount = orders[o].amount
                        /\ orders'[o].placed = orders[o].placed,
         UNCHANGED worker, Persist
  PROVE  GridInv'
<1>1. Range(stack) = {Top} \cup Range(Rest) /\ Rest \in Seq(SafeFrames)
  BY RunningFrame
<1>2. Range(stack') = {f} \cup Range(Rest)
  BY <1>1, RangeOfPush
<1>3. /\ \A g \in Range(stack') : g \in Range(stack) \/ WholeFrame(g)
      /\ \A g \in Range(stack) : g.op = "settle" => g \in Range(stack')
  BY <1>1, <1>2
<1>4. \A w \in Workers : worker'[w] \in {worker[w], Idle}
  OBVIOUS
<1> QED
  BY <1>3, <1>4, GridFrames

LEMMA GridPushes ==
  ASSUME IInv, GridInv, stack # <<>>, Top.op # "settle",
         NEW f \in SafeFrames, WholeFrame(f),
         NEW g \in SafeFrames, WholeFrame(g),
         stack' = <<f>> \o (<<g>> \o Rest),
         UNCHANGED <<orders, worker>>, Persist
  PROVE  GridInv'
<1>1. Range(stack) = {Top} \cup Range(Rest) /\ Rest \in Seq(SafeFrames)
  BY RunningFrame
<1>2. /\ Range(<<g>> \o Rest) = {g} \cup Range(Rest)
      /\ <<g>> \o Rest \in Seq(SafeFrames)
  BY <1>1, RangeOfPush
<1>3. Range(stack') = {f} \cup Range(<<g>> \o Rest)
  BY <1>2, RangeOfPush
<1>4. /\ \A h \in Range(stack') : h \in Range(stack) \/ WholeFrame(h)
      /\ \A h \in Range(stack) : h.op = "settle" => h \in Range(stack')
  BY <1>1, <1>2, <1>3
<1>5. /\ \A o \in Ids : /\ orders'[o].amount = orders[o].amount
                        /\ orders'[o].placed = orders[o].placed
      /\ \A w \in Workers : worker'[w] \in {worker[w], Idle}
  OBVIOUS
<1> QED
  BY <1>4, <1>5, GridFrames

LEMMA GridReturns ==
  ASSUME IInv, GridInv, stack # <<>>, Top.op # "settle", stack' = Rest,
         UNCHANGED <<orders, worker>>, Persist
  PROVE  GridInv'
<1>1. Range(stack) = {Top} \cup Range(Rest)
  BY RunningFrame
<1>2. /\ \A g \in Range(stack') : g \in Range(stack) \/ WholeFrame(g)
      /\ \A g \in Range(stack) : g.op = "settle" => g \in Range(stack')
  BY <1>1
<1>3. /\ \A o \in Ids : /\ orders'[o].amount = orders[o].amount
                        /\ orders'[o].placed = orders[o].placed
      /\ \A w \in Workers : worker'[w] \in {worker[w], Idle}
  OBVIOUS
<1> QED
  BY <1>2, <1>3, GridFrames

LEMMA GridInsertRow ==
  ASSUME IInv, GridInv, stack # <<>>, Top.op # "settle", NEW ao,
         NEW left \in SafeFrames, left.op \in {"post", "insert"},
         InsertRow(ao, left), UNCHANGED <<orders, worker>>, Persist
  PROVE  GridInv'
<1> DEFINE todo == {Copy(o) : o \in
                      {n \in Ids : Placed(n) /\ Owner(n) = ao.account}}
           f == [op |-> "refresh", ao |-> ao, todo |-> todo]
<1>1. WholeFrame(left)
  BY DEF WholeFrame
<1>2. WholeFrame(f)
  BY DEF WholeFrame, GridInv, WholeTable, Copy
<1>3. CASE ao.account \in Users
  <2>1. stack' = <<f, left>> \o Rest
    BY <1>3 DEF InsertRow
  <2>2. Rest \in Seq(SafeFrames) /\ Range(stack) = {Top} \cup Range(Rest)
    BY RunningFrame
  <2> DEFINE S == SafeFrames \cup {f}
  <2>3. Rest \in Seq(S) /\ f \in S /\ left \in S
    BY <2>2, SeqOfSubset
  <2> HIDE DEF f, S
  <2>4. Range(stack') = {f, left} \cup Range(Rest)
    BY <2>1, <2>2, <2>3, RangeOfTwo
  <2>5. /\ \A h \in Range(stack') : h \in Range(stack) \/ WholeFrame(h)
        /\ \A h \in Range(stack) : h.op = "settle" => h \in Range(stack')
    BY <1>1, <1>2, <2>2, <2>4
  <2>6. /\ \A o \in Ids : /\ orders'[o].amount = orders[o].amount
                          /\ orders'[o].placed = orders[o].placed
        /\ \A w \in Workers : worker'[w] \in {worker[w], Idle}
    OBVIOUS
  <2> QED
    BY <2>5, <2>6, GridFrames
<1>4. CASE ao.account \notin Users
  BY <1>1, <1>4, GridReplaces DEF InsertRow
<1> QED
  BY <1>3, <1>4

LEMMA GridStep == ASSUME IInv, GridInv, Step PROVE GridInv'
<1>1. CASE Skip
  <2>1. PICK mo \in Best(Top.self.id, Top.mos) :
          stack' = <<[Top EXCEPT !.mos = @ \ {mo}]>> \o Rest
    BY <1>1 DEF Skip
  <2>2. Top \in SafeMatchFrames /\ Range(stack) = {Top} \cup Range(Rest)
    BY <1>1, TopFrame, RunningFrame DEF IInv, Skip, Running, Top
  <2>3. WholeFrame(Top) /\ Top.op = "match"
    BY <2>2 DEF GridInv, SafeMatchFrames, MatchFrames
  <2>4. WholeFrame([Top EXCEPT !.mos = @ \ {mo}])
    BY <2>2, <2>3 DEF WholeFrame, SafeMatchFrames, MatchFrames
  <2> QED
    BY <1>1, <2>1, <2>3, <2>4, GridReplaces DEF Skip, Running, env
<1>2. CASE RecordTrade
  BY <1>2, GridRecordTrade
<1>3. CASE OrderMissing
  BY <1>3, GridRollsBack DEF OrderMissing, env
<1>4. CASE Settle
  BY <1>4, GridSettle
<1>5. CASE ExecuteReturns
  BY <1>5, GridReturns DEF ExecuteReturns, Running, Top, env
<1>6. CASE Post
  <2>1. Top \in SafePostFrames /\ stack # <<>> /\ Top.op = "post"
    BY <1>6, TopFrame DEF IInv, Post, Running, Top
  <2>2. [Top EXCEPT !.aos = Tail(@)].op = "post"
    BY <2>1 DEF SafePostFrames
  <2>3. [Top EXCEPT !.aos = Tail(@)] \in SafeFrames
    <3>1. Tail(Top.aos) \in Seq(SafeAOs)
      BY <1>6, <2>1, TopAndRest DEF SafePostFrames, Post
    <3> QED
      BY <2>1, <3>1 DEF SafePostFrames, SafeFrames
  <2> QED
    BY <1>6, <2>1, <2>2, <2>3, GridInsertRow DEF Post, env
<1>7. CASE Refuse
  <2>1. Top \in SafePostFrames /\ stack # <<>> /\ Top.op = "post"
    BY <1>7, TopFrame DEF IInv, Refuse, Running, Top
  <2>2. PICK f : /\ stack' = <<f>> \o Rest
                 /\ f = [Top EXCEPT !.aos = Tail(@),
                                    !.refused = Append(@, Head(Top.aos))]
    BY <1>7 DEF Refuse
  <2>3. WholeFrame(f)
    BY <2>1, <2>2 DEF WholeFrame, SafePostFrames
  <2> QED
    BY <1>7, <2>1, <2>2, <2>3, GridReplaces DEF Refuse, env
<1>8. CASE SaveRefused
  <2>1. stack # <<>> /\ Top.op = "post"
    BY <1>8 DEF SaveRefused, Running, Top
  <2>2. CASE Rollback
    BY <1>8, <2>2, GridRollsBack DEF SaveRefused, env
  <2>3. CASE ~Rollback
    <3>1. PICK f : /\ stack' = <<f>> \o Rest /\ f.op = "insert"
                   /\ UNCHANGED orders /\ Persist
      BY <1>8, <2>3 DEF SaveRefused, Inserting
    <3>2. WholeFrame(f)
      BY <3>1 DEF WholeFrame
    <3> QED
      BY <1>8, <2>1, <3>1, <3>2, GridReplaces DEF SaveRefused, env
  <2> QED
    BY <2>2, <2>3
<1>9. CASE Insert
  <2>1. Top \in SafeInsertFrames /\ stack # <<>> /\ Top.op = "insert"
    BY <1>9, TopFrame DEF IInv, Insert, Running, Top
  <2>2. /\ Inserting(Tail(Top.aos)).op = "insert"
        /\ Inserting(Tail(Top.aos)) \in SafeFrames
    <3>1. Tail(Top.aos) \in Seq(ConfirmedAOs)
      BY <1>9, <2>1, TopAndRest DEF SafeInsertFrames, Insert
    <3> QED
      BY <3>1, InsertingSafe DEF Inserting
  <2> QED
    BY <1>9, <2>1, <2>2, GridInsertRow DEF Insert, env
<1>10. CASE Drop
  <2>1. stack # <<>> /\ Top.op = "insert"
    BY <1>10 DEF Drop, Running, Top
  <2>2. WholeFrame(Inserting(Tail(Top.aos)))
    BY DEF WholeFrame, Inserting
  <2> QED
    BY <1>10, <2>1, <2>2, GridReplaces DEF Drop, env
<1>11. CASE PostReturns
  BY <1>11, GridReturns DEF PostReturns, Running, Top, env
<1>12. CASE RefreshLimitOrder
  <2>1. /\ Top \in RefreshFrames /\ stack # <<>> /\ Top.op = "refresh"
        /\ Range(stack) = {Top} \cup Range(Rest)
    BY <1>12, TopFrame, RunningFrame DEF IInv, RefreshLimitOrder, Running, Top
  <2>2. PICK t \in Newest(Top.todo) :
          /\ \/ orders' = orders
             \/ orders' = [orders EXCEPT ![t.id].active = FALSE]
          /\ stack' = <<[Top EXCEPT !.todo = @ \ {t}]>> \o Rest
    BY <1>12 DEF RefreshLimitOrder
  <2>3. WholeFrame([Top EXCEPT !.todo = @ \ {t}])
    BY <2>1 DEF GridInv, WholeFrame, RefreshFrames
  <2>4. t.id \in Ids
    BY <2>1 DEF Newest, RefreshFrames, Copies
  <2>5. \A o \in Ids : /\ orders'[o].amount = orders[o].amount
                       /\ orders'[o].placed = orders[o].placed
    BY <2>2, <2>4 DEF IInv, SafeTables, Rows
  <2> QED
    BY <1>12, <2>1, <2>2, <2>3, <2>5, GridReplaces DEF RefreshLimitOrder, env
<1>13. CASE RefreshMarketOrder
  <2>1. /\ Top \in RefreshFrames /\ stack # <<>> /\ Top.op = "refresh"
        /\ Range(stack) = {Top} \cup Range(Rest)
    BY <1>13, TopFrame, RunningFrame DEF IInv, RefreshMarketOrder, Running, Top
  <2>2. PICK t \in Newest(Top.todo) :
          \/ stack' = <<Execution(t)>> \o
                         (<<[Top EXCEPT !.todo = @ \ {t}]>> \o Rest)
          \/ stack' = <<[Top EXCEPT !.todo = @ \ {t}]>> \o Rest
    BY <1>13 DEF RefreshMarketOrder
  <2>3. WholeFrame([Top EXCEPT !.todo = @ \ {t}])
    BY <2>1 DEF GridInv, WholeFrame, RefreshFrames
  <2>4. t \in Top.todo /\ t \in Copies
    BY <2>1 DEF Newest, RefreshFrames
  <2>5. WholeFrame(Execution(t))
    <3>1. Whole(t.amount)
      BY <2>1, <2>4 DEF GridInv, WholeFrame
    <3> QED
      BY <3>1, WholeExecution
  <2>6. Execution(t) \in SafeFrames
    BY <2>4, ExecutionSafe DEF IInv, SafeTables, SafeFrames
  <2>7. [Top EXCEPT !.todo = @ \ {t}] \in SafeFrames
    BY <2>1 DEF SafeFrames, RefreshFrames
  <2>8. UNCHANGED <<orders, worker>> /\ Persist
    BY <1>13 DEF RefreshMarketOrder, env
  <2> QED
    BY <2>1, <2>2, <2>3, <2>5, <2>6, <2>7, <2>8, GridReplaces, GridPushes
<1>14. CASE RefreshReturns
  BY <1>14, GridReturns DEF RefreshReturns, Running, Top, env
<1> QED
  BY <1>1, <1>2, <1>3, <1>4, <1>5, <1>6, <1>7, <1>8, <1>9, <1>10, <1>11,
     <1>12, <1>13, <1>14
  DEF Step

LEMMA GridInit == ASSUME AmountsOnGrid, Init PROVE GridInv
<1>1. 0 = 0 * Tick
  BY EngineAssumption
<1>2. Whole(0)
  BY <1>1 DEF Whole, OnGrid
<1> QED
  BY <1>2, RangeOfNone
  DEF Init, Tables, NoRow, GridInv, WholeTable, EmptyDestroyed,
      RemaindersPositive, Placed

(* A step between two transactions.                                         *)
LEMMA GridAtRest ==
  ASSUME GridInv, stack = <<>>, stack' = <<>>, WholeTable(orders'),
         \A o \in Ids : Placed(o)' => orders'[o].amount # 0,
         \A w \in Workers : worker'[w] # Idle => Whole(worker'[w].self.amount),
         Persist \/ UNCHANGED committed
  PROVE  GridInv'
<1>1. Range(stack)' = {}
  BY RangeOfNone
<1>2. EmptyDestroyed'
  BY DEF EmptyDestroyed
<1> QED
  BY <1>1, <1>2, GridPersists

LEMMA GridRequest ==
  ASSUME AmountsOnGrid, IInv, GridInv, Request PROVE GridInv'
<1> USE DEF GridInv
<1>1. AtRest /\ Range(stack) = {}
  BY RangeOfNone
  DEF Request, Create, ActivateCheck, Destroy, ActivateSave, BeginExecute,
      BeginMove, Confirm, AtRest
<1>2. \A o \in Ids : Placed(o) => orders[o].amount # 0
  BY <1>1 DEF EmptyDestroyed
<1>10. <<>> \in Seq(SafeFrames)
  OBVIOUS
<1>3. ASSUME NEW w \in Workers, NEW o \in Ids, Create(w, o) PROVE GridInv'
  <2>1. Whole(Form[o].amount) /\ Form[o].amount # 0
    BY <1>3, EngineAssumption DEF AmountsOnGrid, Whole, Create, Valid, Forms
  <2>2. \A n \in Ids : orders'[n] = IF n = o THEN
            [placed |-> TRUE, amount |-> Form[o].amount, active |-> TRUE]
          ELSE orders[n]
    BY <1>3 DEF Create, IInv, SafeTables
  <2>3. \A v \in Workers : worker'[v] # Idle => Whole(worker'[v].self.amount)
    BY <1>3, <2>1 DEF Create, IInv
  <2>4. /\ WholeTable(orders')
        /\ \A n \in Ids : Placed(n)' => orders'[n].amount # 0
    BY <1>2, <2>1, <2>2 DEF WholeTable, Placed
  <2> QED
    BY <1>1, <1>3, <2>3, <2>4, GridAtRest DEF Create, AtRest
<1>4. ASSUME NEW w \in Workers, NEW o \in Ids, ActivateCheck(w, o)
      PROVE  GridInv'
  <2>1. \A v \in Workers : worker'[v] # Idle => Whole(worker'[v].self.amount)
    BY <1>4 DEF ActivateCheck, IInv, Copy, WholeTable
  <2> QED
    BY <1>1, <1>2, <1>4, <2>1, GridAtRest DEF ActivateCheck, AtRest, Placed
<1>5. ASSUME NEW w \in Workers, NEW o \in Ids, Destroy(w, o) PROVE GridInv'
  <2>1. 0 = 0 * Tick
    BY EngineAssumption
  <2>2. \A n \in Ids : orders'[n] = IF n = o THEN NoRow ELSE orders[n]
    BY <1>5 DEF Destroy, IInv, SafeTables
  <2>3. /\ WholeTable(orders')
        /\ \A n \in Ids : Placed(n)' => orders'[n].amount # 0
    BY <1>2, <2>1, <2>2 DEF WholeTable, Placed, NoRow, Whole, OnGrid
  <2> QED
    BY <1>1, <1>5, <2>3, GridAtRest DEF Destroy, AtRest, env
<1>6. ASSUME NEW w \in Workers, ActivateSave(w) PROVE GridInv'
  <2>1. worker[w].self \in Copies /\ worker[w] # Idle
    BY <1>6, RequestType DEF ActivateSave, Idle
  <2>2. \A n \in Ids : /\ orders'[n].amount = orders[n].amount
                       /\ orders'[n].placed = orders[n].placed
    BY <1>6, <2>1 DEF ActivateSave, IInv, SafeTables, Rows, Copies
  <2>3. \A v \in Workers : worker'[v] # Idle => Whole(worker'[v].self.amount)
    BY <1>6, <2>1 DEF ActivateSave, IInv, Copies
  <2>4. /\ WholeTable(orders')
        /\ \A n \in Ids : Placed(n)' => orders'[n].amount # 0
    BY <1>2, <2>2 DEF WholeTable, Placed
  <2> QED
    BY <1>1, <1>6, <2>3, <2>4, GridAtRest DEF ActivateSave, AtRest
<1>7. ASSUME NEW w \in Workers, BeginExecute(w) PROVE GridInv'
  <2>1. worker[w] # Idle
    BY <1>7 DEF BeginExecute, Idle
  <2> DEFINE f == Execution(worker[w].self)
  <2>2. WholeFrame(f)
    BY <2>1, WholeExecution
  <2>3. stack' = <<f>> \o <<>>
    BY <1>7 DEF BeginExecute
  <2> HIDE DEF f
  <2>4. Range(stack') = {f}
    BY <1>10, <2>3, RangeOfPush, RangeOfNone
  <2>5. /\ \A h \in Range(stack') : h \in Range(stack) \/ WholeFrame(h)
        /\ \A v \in Workers : worker'[v] \in {worker[v], Idle}
    BY <1>7, <2>2, <2>4 DEF BeginExecute, IInv
  <2> QED
    BY <1>1, <1>7, <2>5, GridFrames DEF BeginExecute
<1>8. ASSUME NEW m \in Moves, BeginMove(m) PROVE GridInv'
  <2>1. PICK f : stack' = <<f>> \o <<>> /\ f.op = "post"
    BY <1>8 DEF BeginMove, Posting
  <2>2. Range(stack') = {f}
    BY <1>10, <2>1, RangeOfPush, RangeOfNone
  <2>3. /\ \A h \in Range(stack') : h \in Range(stack) \/ WholeFrame(h)
        /\ \A v \in Workers : worker'[v] \in {worker[v], Idle}
    BY <1>8, <2>1, <2>2 DEF BeginMove, WholeFrame
  <2> QED
    BY <1>1, <1>8, <2>3, GridFrames DEF BeginMove
<1>9. ASSUME NEW m \in Received, Confirm(m) PROVE GridInv'
  BY <1>1, <1>2, <1>9, GridAtRest DEF Confirm, AtRest, env, Placed
<1> QED
  BY <1>3, <1>4, <1>5, <1>6, <1>7, <1>8, <1>9 DEF Request

LEMMA GridInvariant == AmountsOnGrid => (Spec => []GridInv)
<1> SUFFICES ASSUME AmountsOnGrid PROVE Spec => []GridInv
  OBVIOUS
<1>1. Init => GridInv
  BY GridInit
<1>2. IInv /\ GridInv /\ [Next]_vars => GridInv'
  <2> SUFFICES ASSUME IInv, GridInv, [Next]_vars PROVE GridInv'
    OBVIOUS
  <2>1. CASE Step
    BY <2>1, GridStep
  <2>2. CASE Request
    BY <2>2, GridRequest
  <2>3. CASE Crash
    BY <2>3, GridRollsBack DEF Crash
  <2>4. ASSUME NEW w \in Workers, Abandon(w) PROVE GridInv'
    BY <2>4 DEF Abandon, GridInv, WholeTable, EmptyDestroyed, Placed,
                RemaindersPositive, IInv
  <2>5. CASE UNCHANGED vars
    BY <2>5 DEF vars, GridInv, WholeTable, EmptyDestroyed, Placed,
                RemaindersPositive
  <2> QED
    BY <2>1, <2>2, <2>3, <2>4, <2>5 DEF Next, Failure
<1> QED
  BY <1>1, <1>2, Invariance, PTL DEF Spec

(* If all orders are for whole numbers of ticks, no order is ever left in    *)
(* the table with nothing to fill, or less, at any depth of nesting and     *)
(* whatever copies are stale.                                               *)
THEOREM SomethingRemains == AmountsOnGrid => (Spec => []RemaindersPositive)
<1>1. GridInv => RemaindersPositive
  BY DEF GridInv
<1> QED
  BY <1>1, GridInvariant, PTL

-----------------------------------------------------------------------------
(* What a transaction owes to the orders that it leaves uncovered.           *)

CommissionsAtMostAll == \A u \in Users : Rate[u] <= RateDen

(* A limit order that stands in the tables of the running transaction and is *)
(* not covered.                                                             *)
Exposed(o) ==
  Placed(o) /\ orders[o].active /\ IsLimit(o) /\ ~Funded(o, orders[o].amount)

(* The frame f will look at the order o, for its amount x: it holds a copy   *)
(* to refresh, or it will credit the user and then refresh all his orders.  *)
WillRefresh(f, o, x) ==
  f.op = "refresh" /\ \E t \in f.todo : t.id = o /\ t.amount = x /\ t.active
WillCredit(f, o) ==
  /\ f.op = "post"
  /\ \E i \in DOMAIN f.aos : /\ f.aos[i].account = Owner(o)
                             /\ f.aos[i].amount >= 0
WillLookAt(f, o, x) == WillRefresh(f, o, x) \/ WillCredit(f, o)

LookedAt(s, o, x) == \E f \in Range(s) : WillLookAt(f, o, x)

CoverInv ==
  /\ \A o \in Ids : Exposed(o) =>
       Uncovered(o) \/ LookedAt(stack, o, orders[o].amount)
  /\ AtRest => bal = committed.bal /\ orders = committed.orders

(* What each step has to show.                                              *)
Carried ==
  \A o \in Ids : Exposed(o)' =>
    Uncovered(o) \/ LookedAt(stack', o, orders'[o].amount)

(* The inequality of the property is the negation of the code's.             *)
LEMMA EitherCovered ==
  ASSUME NEW b, SafeBalances(b), NEW o \in Ids, NEW x \in Int
  PROVE  (IF Buying(o)
          THEN b[Owner(o)][Form[o].currency] * PriceDen < x * Form[o].ppc
          ELSE b[Owner(o)][BTC] < x)
         <=> ~(IF Buying(o)
               THEN b[Owner(o)][Form[o].currency] * PriceDen >= x * Form[o].ppc
               ELSE b[Owner(o)][BTC] >= x)
<1>1. /\ Owner(o) \in Accounts /\ Form[o].currency \in Currencies
      /\ BTC \in Currencies /\ Form[o].ppc \in Nat /\ PriceDen \in Nat
  BY EngineAssumption DEF Owner, Forms, Accounts, Currencies
<1>2. /\ b[Owner(o)][Form[o].currency] \in Int
      /\ b[Owner(o)][BTC] \in Int
  BY <1>1 DEF SafeBalances
<1>3. /\ b[Owner(o)][Form[o].currency] * PriceDen \in Int
      /\ x * Form[o].ppc \in Int
  BY <1>1, <1>2
<1> QED
  BY <1>2, <1>3

LEMMA UncoveredIsExposed ==
  ASSUME IInv, bal = committed.bal, orders = committed.orders, NEW o \in Ids
  PROVE  Uncovered(o) <=> Exposed(o)
<1>1. SafeBalances(bal) /\ orders[o].amount \in Int
  BY DEF IInv, SafeTables, Rows
<1> QED
  BY <1>1, EitherCovered DEF Uncovered, Standing, Exposed, Placed, Funded

LEMMA UncoveredIsExposedThen ==
  ASSUME IInv', bal' = committed'.bal, orders' = committed'.orders,
         NEW o \in Ids
  PROVE  Uncovered(o)' <=> Exposed(o)'
<1>1. SafeBalances(bal') /\ orders'[o].amount \in Int
  BY DEF IInv, SafeTables, Rows
<1> QED
  BY <1>1, EitherCovered DEF Uncovered, Standing, Exposed, Placed, Funded

(* The running frame is replaced by one that looks at the same orders.       *)
LEMMA CoverReplaces ==
  ASSUME IInv, CoverInv, stack # <<>>, NEW f, stack' = <<f>> \o Rest,
         \A o \in Ids : Exposed(o)' =>
           /\ Exposed(o) /\ orders'[o].amount = orders[o].amount
           /\ WillLookAt(Top, o, orders[o].amount)
                => WillLookAt(f, o, orders[o].amount)
  PROVE  Carried
<1>1. Range(stack) = {Top} \cup Range(Rest) /\ Rest \in Seq(SafeFrames)
  BY RunningFrame
<1>2. Range(stack') = {f} \cup Range(Rest)
  BY <1>1, RangeOfPush
<1> QED
  BY <1>1, <1>2 DEF Carried, CoverInv, LookedAt

(* It returns, and was to look at nothing.                                  *)
LEMMA CoverReturns ==
  ASSUME IInv, CoverInv, stack # <<>>, stack' = Rest, UNCHANGED <<bal, orders>>,
         \A o \in Ids : ~WillLookAt(Top, o, orders[o].amount)
  PROVE  Carried
<1>1. Range(stack) = {Top} \cup Range(Rest)
  BY RunningFrame
<1>2. \A o \in Ids : Exposed(o)' <=> Exposed(o)
  BY DEF Exposed, Placed, Funded
<1> QED
  BY <1>1, <1>2 DEF Carried, CoverInv, LookedAt

LEMMA CoverPushes ==
  ASSUME IInv, CoverInv, stack # <<>>,
         NEW f \in SafeFrames, NEW g \in SafeFrames,
         stack' = <<f>> \o (<<g>> \o Rest), UNCHANGED <<bal, orders>>,
         \A o \in Ids : Exposed(o) /\ WillLookAt(Top, o, orders[o].amount)
           => WillLookAt(g, o, orders[o].amount)
  PROVE  Carried
<1>1. Range(stack) = {Top} \cup Range(Rest) /\ Rest \in Seq(SafeFrames)
  BY RunningFrame
<1>2. /\ Range(<<g>> \o Rest) = {g} \cup Range(Rest)
      /\ <<g>> \o Rest \in Seq(SafeFrames)
  BY <1>1, RangeOfPush
<1>3. Range(stack') = {f} \cup Range(<<g>> \o Rest)
  BY <1>2, RangeOfPush
<1>4. \A o \in Ids : Exposed(o)' <=> Exposed(o)
  BY DEF Exposed, Placed, Funded
<1> QED
  BY <1>1, <1>2, <1>3, <1>4 DEF Carried, CoverInv, LookedAt

(* A row is inserted: the orders of its user are read anew, and the balance  *)
(* of nobody else changes.                                                  *)
LEMMA CoverInsertRow ==
  ASSUME IInv, CoverInv, stack # <<>>, NEW ao \in AOs, NEW left \in SafeFrames,
         InsertRow(ao, left), UNCHANGED orders,
         \A o \in Ids : WillLookAt(Top, o, orders[o].amount) =>
           WillLookAt(left, o, orders[o].amount) \/ Owner(o) = ao.account
  PROVE  Carried
<1> DEFINE todo == {Copy(o) : o \in
                      {n \in Ids : Placed(n) /\ Owner(n) = ao.account}}
           f == [op |-> "refresh", ao |-> ao, todo |-> todo]
<1>1. Range(stack) = {Top} \cup Range(Rest) /\ Rest \in Seq(SafeFrames)
  BY RunningFrame
<1>2. \A o \in Ids : Owner(o) \in Users
  BY EngineAssumption DEF Owner, Forms
<1>3. \A o \in Ids : Owner(o) # ao.account =>
        bal'[Owner(o)] = bal[Owner(o)]
  BY <1>2 DEF InsertRow, IInv, SafeTables, SafeBalances, Accounts
<1>4. \A o \in Ids : Owner(o) # ao.account => (Exposed(o)' <=> Exposed(o))
  BY <1>3 DEF Exposed, Placed, Funded
<1>5. CASE ao.account \in Users
  <2> DEFINE S == SafeFrames \cup {f}
  <2>1. stack' = <<f, left>> \o Rest
    BY <1>5 DEF InsertRow
  <2>2. Rest \in Seq(S) /\ f \in S /\ left \in S
    BY <1>1, SeqOfSubset
  <2>3. \A o \in Ids : Exposed(o)' /\ Owner(o) = ao.account =>
          WillLookAt(f, o, orders'[o].amount)
    <3> SUFFICES ASSUME NEW o \in Ids, Exposed(o)', Owner(o) = ao.account
                 PROVE  WillLookAt(f, o, orders'[o].amount)
      OBVIOUS
    <3>1. /\ orders'[o].active = orders[o].active
          /\ orders'[o].amount = orders[o].amount
      OBVIOUS
    <3>2. Copy(o) \in todo
      BY DEF Exposed, Placed
    <3>3. Copy(o).id = o /\ Copy(o).amount = orders'[o].amount /\ Copy(o).active
      BY DEF Exposed, Copy
    <3>4. f.op = "refresh" /\ f.todo = todo
      OBVIOUS
    <3> HIDE DEF f, todo
    <3> QED
      BY <3>2, <3>3, <3>4 DEF WillLookAt, WillRefresh
  <2> HIDE DEF f, S
  <2>4. Range(stack') = {f, left} \cup Range(Rest)
    BY <2>1, <2>2, RangeOfTwo
  <2> QED
    BY <1>1, <1>4, <2>3, <2>4 DEF Carried, CoverInv, LookedAt
<1>6. CASE ao.account \notin Users
  <2>1. stack' = <<left>> \o Rest
    BY <1>6 DEF InsertRow
  <2>2. Range(stack') = {left} \cup Range(Rest)
    BY <1>1, <2>1, RangeOfPush
  <2> QED
    BY <1>1, <1>2, <1>4, <1>6, <2>2 DEF Carried, CoverInv, LookedAt
<1> QED
  BY <1>5, <1>6

LEMMA CoverRollsBack ==
  ASSUME IInv, Rollback PROVE Carried
<1>1. ASSUME NEW o \in Ids, Exposed(o)' PROVE Uncovered(o)
  <2>1. SafeBalances(committed.bal) /\ committed.orders[o].amount \in Int
    BY DEF IInv, SafeTables, Rows
  <2> QED
    BY <1>1, <2>1, EitherCovered
    DEF Rollback, Exposed, Placed, Funded, Uncovered, Standing
<1> QED
  BY <1>1 DEF Carried

LEMMA RoundsUpFromZero ==
  ASSUME NEW n \in Nat, NEW d \in Nat \ {0}
  PROVE  RoundHalfUp(n, d) >= 0
BY DEF RoundHalfUp

(* Both sides of a trade are credited by it.                                *)
LEMMA BothAreCredited ==
  ASSUME CommissionsAtMostAll, NEW t \in TradeRows, t.btc > 0, t.cur > 0
  PROVE  \A o \in {t.purchase, t.sale} :
           \E i \in DOMAIN TradeAOs(t) :
             /\ TradeAOs(t)[i].account = Owner(o)
             /\ TradeAOs(t)[i].amount >= 0
<1> DEFINE buyer == Owner(t.purchase)
           seller == Owner(t.sale)
<1>1. buyer \in Users /\ seller \in Users
  BY EngineAssumption DEF Owner, Forms, TradeRows
<1>2. /\ RateDen - Rate[buyer] \in Nat /\ RateDen - Rate[seller] \in Nat
      /\ RateDen \in Nat \ {0} /\ t.btc \in Nat /\ t.cur \in Nat
  BY <1>1, EngineAssumption DEF CommissionsAtMostAll, TradeRows
<1>3. /\ t.cur * (RateDen - Rate[seller]) \in Nat
      /\ t.btc * (RateDen - Rate[buyer]) \in Nat
  BY <1>2
<1>4. Net(t.cur, seller) >= 0 /\ Net(t.btc, buyer) >= 0
  BY <1>2, <1>3, RoundsUpFromZero DEF Net
<1>5. /\ DOMAIN TradeAOs(t) = 1..6
      /\ TradeAOs(t)[2].account = seller
      /\ TradeAOs(t)[2].amount = Net(t.cur, seller)
      /\ TradeAOs(t)[4].account = buyer
      /\ TradeAOs(t)[4].amount = Net(t.btc, buyer)
  BY DEF TradeAOs, AO
<1> QED
  BY <1>4, <1>5

LEMMA CoverRecordTrade ==
  ASSUME CommissionsAtMostAll, IInv, CoverInv, RecordTrade PROVE Carried
<1>1. /\ Top \in SafeMatchFrames /\ Rest \in Seq(SafeFrames)
      /\ Top.op = "match" /\ Range(stack) = {Top} \cup Range(Rest)
  BY TopFrame, RunningFrame DEF IInv, RecordTrade, Running, Top
<1> DEFINE after(c, mo) ==
      [c EXCEPT !.amount = @ - TradedBtc(Top.self, mo)]
           posting(mo) == Posting(TradeAOs(TradeRow(Top.self, mo)), <<>>, BTC)
           settle(mo) == [op |-> "settle", self |-> after(Top.self, mo),
                          mo |-> after(mo, mo), mos |-> Top.mos \ {mo}]
<1>2. PICK mo \in Best(Top.self.id, Top.mos) :
        /\ WorthTrading(Top.self, mo)
        /\ orders' = [orders EXCEPT
                        ![mo.id].amount = after(mo, mo).amount,
                        ![Top.self.id].amount = after(Top.self, mo).amount]
        /\ stack' = <<posting(mo), settle(mo)>> \o Rest
  BY DEF RecordTrade
<1>3. /\ mo \in Copies /\ mo \in Top.mos /\ Top.self \in Copies
      /\ Matches(Top.self.id, mo.id)
  BY <1>1 DEF SafeMatchFrames, MatchFrames, Best
<1> DEFINE t == TradeRow(Top.self, mo)
<1>4. /\ t \in SafeRows /\ t \in TradeRows
      /\ {t.purchase, t.sale} = {Top.self.id, mo.id}
  BY <1>3, TradeRowSafe
  DEF IInv, SafeTables, SafeBalances, SafeRows, TradeRow, Purchase, Sale
<1>5. t.btc > 0 /\ t.cur > 0
  BY <1>2 DEF WorthTrading, TradeRow
<1>6. \A o \in {Top.self.id, mo.id} : WillCredit(posting(mo), o)
  BY <1>4, <1>5, BothAreCredited DEF WillCredit, Posting
<1>7. posting(mo) \in SafeFrames
  <2>1. TradeAOs(TradeRow(Top.self, mo)) \in Seq(SafeAOs)
    BY <1>4, TradeAOsSafe DEF SafeRows
  <2> QED
    BY <2>1, PostingAnewSafe DEF Currencies
<1>8. settle(mo) \in SafeFrames
  <2>1. TradedBtc(Top.self, mo) \in Int
    BY <1>4 DEF TradeRows, TradeRow
  <2>2. after(Top.self, mo) \in Copies /\ after(mo, mo) \in Copies
    BY <1>3, <2>1 DEF Copies
  <2>3. after(Top.self, mo).id = Top.self.id
    BY <1>3 DEF Copies
  <2> QED
    BY <1>1, <2>2, <2>3 DEF SafeFrames, SafeSettleFrames, SettleFrames,
                            SafeMatchFrames, MatchFrames
<1>9. mo.id \in Ids /\ Top.self.id \in Ids
  BY <1>3 DEF Copies
<1>10. \A o \in Ids \ {Top.self.id, mo.id} : orders'[o] = orders[o]
  <2>1. orders \in [Ids -> Rows]
    BY DEF IInv, SafeTables
  <2> QED
    BY <1>2, <1>9, <2>1
<1>11. bal' = bal
  BY DEF RecordTrade
<1> HIDE DEF posting, settle, t
<1>12. Range(stack') = {posting(mo), settle(mo)} \cup Range(Rest)
  BY <1>1, <1>2, <1>7, <1>8, RangeOfTwo
<1>13. ASSUME NEW o \in Ids, Exposed(o)'
       PROVE  Uncovered(o) \/ LookedAt(stack', o, orders'[o].amount)
  <2>1. CASE o \in {Top.self.id, mo.id}
    BY <1>6, <1>12, <2>1 DEF LookedAt, WillLookAt
  <2>2. CASE o \notin {Top.self.id, mo.id}
    <3>1. Exposed(o) /\ orders'[o] = orders[o]
      BY <1>10, <1>11, <1>13, <2>2 DEF Exposed, Placed, Funded
    <3>2. ~WillLookAt(Top, o, orders[o].amount)
      BY <1>1 DEF WillLookAt, WillRefresh, WillCredit
    <3> QED
      BY <1>1, <1>12, <3>1, <3>2 DEF CoverInv, LookedAt
  <2> QED
    BY <2>1, <2>2
<1> QED
  BY <1>13 DEF Carried

LEMMA CoverStep ==
  ASSUME CommissionsAtMostAll, IInv, CoverInv, Step PROVE Carried
<1> USE DEF WillLookAt, WillRefresh, WillCredit
<1>1. CASE Skip
  <2>1. PICK mo : stack' = <<[Top EXCEPT !.mos = @ \ {mo}]>> \o Rest
    BY <1>1 DEF Skip
  <2>2. Top.op = "match" /\ stack # <<>> /\ UNCHANGED <<bal, orders>>
    BY <1>1 DEF Skip, Running, Top
  <2>3. \A o \in Ids : Exposed(o)' => Exposed(o)
    BY <2>2 DEF Exposed, Placed, Funded
  <2> QED
    BY <2>1, <2>2, <2>3, CoverReplaces
<1>2. CASE RecordTrade
  BY <1>2, CoverRecordTrade
<1>3. CASE OrderMissing
  BY <1>3, CoverRollsBack DEF OrderMissing
<1>4. CASE Settle
  <2>1. PICK f : stack' = <<f>> \o Rest
    BY <1>4 DEF Settle
  <2>2. Top.op = "settle" /\ stack # <<>> /\ bal' = bal
    BY <1>4 DEF Settle, Running, Top
  <2>3. \A o \in Ids : orders'[o] \in {NoRow, orders[o]}
    BY <1>4 DEF Settle
  <2>4. \A o \in Ids : Exposed(o)' =>
          Exposed(o) /\ orders'[o].amount = orders[o].amount
    BY <2>2, <2>3 DEF Exposed, Placed, Funded, NoRow
  <2> QED
    BY <2>1, <2>2, <2>4, CoverReplaces
<1>5. CASE ExecuteReturns
  BY <1>5, CoverReturns DEF ExecuteReturns, Running, Top
<1>6. CASE Post
  <2>1. Top \in SafePostFrames /\ stack # <<>> /\ Top.op = "post"
    BY <1>6, TopFrame DEF IInv, Post, Running, Top
  <2> DEFINE left == [Top EXCEPT !.aos = Tail(@)]
             ao == Head(Top.aos)
  <2>2. /\ Top.aos \in Seq(SafeAOs) /\ Top.aos # <<>>
        /\ ao \in AOs /\ Tail(Top.aos) \in Seq(SafeAOs)
    BY <1>6, <2>1, TopAndRest DEF SafePostFrames, Post, SafeAOs
  <2>3. left \in SafeFrames /\ left.op = "post" /\ left.aos = Tail(Top.aos)
    BY <2>1, <2>2 DEF SafePostFrames, SafeFrames
  <2> HIDE DEF left
  <2>4. \A o \in Ids : WillCredit(Top, o) =>
          WillCredit(left, o) \/ Owner(o) = ao.account
    <3> SUFFICES ASSUME NEW o \in Ids, NEW i \in DOMAIN Top.aos,
                        Top.aos[i].account = Owner(o), Top.aos[i].amount >= 0
                 PROVE  WillCredit(left, o) \/ Owner(o) = ao.account
      OBVIOUS
    <3>1. CASE i = 1
      BY <2>2, <3>1
    <3>2. CASE i # 1
      <4>1. i - 1 \in DOMAIN Tail(Top.aos) /\ Tail(Top.aos)[i - 1] = Top.aos[i]
        BY <2>2, <3>2
      <4> QED
        BY <2>3, <4>1
    <3> QED
      BY <3>1, <3>2
  <2>5. InsertRow(ao, left) /\ UNCHANGED orders
    BY <1>6 DEF Post, left
  <2> HIDE DEF ao
  <2>6. \A o \in Ids : WillLookAt(Top, o, orders[o].amount) =>
          WillLookAt(left, o, orders[o].amount) \/ Owner(o) = ao.account
    BY <2>1, <2>4
  <2> HIDE DEF WillLookAt, WillRefresh, WillCredit
  <2> QED
    BY <2>1, <2>2, <2>3, <2>5, <2>6, CoverInsertRow
<1>7. CASE Refuse
  <2>1. Top \in SafePostFrames /\ stack # <<>> /\ Top.op = "post"
    BY <1>7, TopFrame DEF IInv, Refuse, Running, Top
  <2> DEFINE left == [Top EXCEPT !.aos = Tail(@),
                                 !.refused = Append(@, Head(Top.aos))]
  <2>2. /\ Top.aos \in Seq(SafeAOs) /\ Top.aos # <<>>
        /\ stack' = <<left>> \o Rest /\ UNCHANGED <<bal, orders>>
    BY <1>7, <2>1 DEF SafePostFrames, Refuse
  <2>3. left.op = "post" /\ left.aos = Tail(Top.aos)
    BY <2>1 DEF SafePostFrames
  <2> HIDE DEF left
  <2>4. Head(Top.aos).amount < 0
    <3>1. Head(Top.aos) \in AOs
      BY <2>2, TopAndRest DEF SafeAOs
    <3> QED
      BY <1>7, <3>1 DEF Refuse, Covered, AOs
  <2>5. \A o \in Ids : WillCredit(Top, o) => WillCredit(left, o)
    <3> SUFFICES ASSUME NEW o \in Ids, NEW i \in DOMAIN Top.aos,
                        Top.aos[i].account = Owner(o), Top.aos[i].amount >= 0
                 PROVE  WillCredit(left, o)
      OBVIOUS
    <3>1. i # 1
      BY <2>2, <2>4, TopAndRest DEF SafeAOs, AOs
    <3>2. i - 1 \in DOMAIN Tail(Top.aos) /\ Tail(Top.aos)[i - 1] = Top.aos[i]
      BY <2>2, <3>1
    <3> QED
      BY <2>3, <3>2
  <2>6. \A o \in Ids : Exposed(o)' => Exposed(o)
    BY <2>2 DEF Exposed, Placed, Funded
  <2> QED
    BY <2>1, <2>2, <2>3, <2>5, <2>6, CoverReplaces
<1>8. CASE SaveRefused
  <2>1. stack # <<>> /\ Top.op = "post" /\ Top.aos = <<>>
    BY <1>8 DEF SaveRefused, Running, Top
  <2>2. CASE Rollback
    BY <2>2, CoverRollsBack
  <2>3. CASE ~Rollback
    <3>1. PICK f : stack' = <<f>> \o Rest /\ UNCHANGED <<bal, orders>>
      BY <1>8, <2>3 DEF SaveRefused
    <3>2. \A o \in Ids : Exposed(o)' => Exposed(o)
      BY <3>1 DEF Exposed, Placed, Funded
    <3> QED
      BY <2>1, <3>1, <3>2, CoverReplaces
  <2> QED
    BY <2>2, <2>3
<1>9. CASE Insert
  <2>1. stack # <<>> /\ Top.op = "insert"
    BY <1>9 DEF Insert, Running, Top
  <2>2. /\ Head(Top.aos) \in AOs /\ Inserting(Tail(Top.aos)) \in SafeFrames
        /\ InsertRow(Head(Top.aos), Inserting(Tail(Top.aos)))
        /\ UNCHANGED orders
    BY <1>9, InsertingRest DEF Insert, SafeAOs
  <2> QED
    BY <2>1, <2>2, CoverInsertRow
<1>10. CASE Drop
  <2>1. stack # <<>> /\ Top.op = "insert" /\ UNCHANGED <<bal, orders>>
    BY <1>10 DEF Drop, Running, Top
  <2>2. \A o \in Ids : Exposed(o)' => Exposed(o)
    BY <2>1 DEF Exposed, Placed, Funded
  <2> QED
    BY <1>10, <2>1, <2>2, CoverReplaces DEF Drop
<1>11. CASE PostReturns
  BY <1>11, CoverReturns DEF PostReturns, Running, Top
<1>12. CASE RefreshLimitOrder
  <2>1. /\ Top \in RefreshFrames /\ stack # <<>> /\ Top.op = "refresh"
        /\ bal' = bal
    BY <1>12, TopFrame DEF IInv, RefreshLimitOrder, Running, Top
  <2>2. PICK t \in Newest(Top.todo) :
          /\ orders' = IF t.active /\ ~Funded(t.id, t.amount) /\ Placed(t.id)
                       THEN [orders EXCEPT ![t.id].active = FALSE]
                       ELSE orders
          /\ stack' = <<[Top EXCEPT !.todo = @ \ {t}]>> \o Rest
    BY <1>12 DEF RefreshLimitOrder
  <2> DEFINE left == [Top EXCEPT !.todo = @ \ {t}]
  <2>3. left.op = "refresh" /\ left.todo = Top.todo \ {t}
    BY <2>1 DEF RefreshFrames
  <2>4. t.id \in Ids
    BY <2>1 DEF Newest, RefreshFrames, Copies
  <2>5. \A o \in Ids :
          /\ orders'[o].placed = orders[o].placed
          /\ orders'[o].amount = orders[o].amount
          /\ orders'[o].active => orders[o].active
          /\ o = t.id /\ t.active /\ ~Funded(t.id, t.amount) /\ Placed(t.id)
               => ~orders'[o].active
    BY <2>2, <2>4 DEF IInv, SafeTables, Rows
  <2> HIDE DEF left
  <2>6. ASSUME NEW o \in Ids, Exposed(o)'
        PROVE  /\ Exposed(o) /\ orders'[o].amount = orders[o].amount
               /\ WillLookAt(Top, o, orders[o].amount)
                    => WillLookAt(left, o, orders[o].amount)
    <3>1. Exposed(o) /\ orders'[o].active
      BY <2>1, <2>5, <2>6 DEF Exposed, Placed, Funded
    <3>2. ASSUME NEW c \in Top.todo, c.id = o, c.amount = orders[o].amount,
                 c.active
          PROVE  c # t
      BY <2>5, <3>1, <3>2 DEF Exposed
    <3> QED
      BY <2>1, <2>3, <2>5, <3>1, <3>2
  <2> QED
    BY <2>1, <2>2, <2>6, CoverReplaces DEF left
<1>13. CASE RefreshMarketOrder
  <2>1. /\ Top \in RefreshFrames /\ stack # <<>> /\ Top.op = "refresh"
        /\ UNCHANGED <<bal, orders>>
    BY <1>13, TopFrame DEF IInv, RefreshMarketOrder, Running, Top
  <2>2. PICK t \in Newest(Top.todo) :
          /\ ~IsLimit(t.id)
          /\ \/ stack' = <<Execution(t)>> \o
                           (<<[Top EXCEPT !.todo = @ \ {t}]>> \o Rest)
             \/ stack' = <<[Top EXCEPT !.todo = @ \ {t}]>> \o Rest
    BY <1>13 DEF RefreshMarketOrder
  <2>3. Execution(t) \in SafeFrames
    BY <2>1, ExecutionSafe
    DEF IInv, SafeTables, SafeFrames, Newest, RefreshFrames
  <2> DEFINE left == [Top EXCEPT !.todo = @ \ {t}]
  <2>4. left.op = "refresh" /\ left.todo = Top.todo \ {t} /\ left \in SafeFrames
    BY <2>1 DEF RefreshFrames, SafeFrames
  <2> HIDE DEF left
  <2>5. \A o \in Ids : Exposed(o)' => Exposed(o)
    BY <2>1 DEF Exposed, Placed, Funded
  <2>6. \A o \in Ids : Exposed(o) /\ WillLookAt(Top, o, orders[o].amount)
          => WillLookAt(left, o, orders[o].amount)
    BY <2>1, <2>2, <2>4 DEF Exposed
  <2> QED
    BY <2>1, <2>2, <2>3, <2>4, <2>5, <2>6, CoverReplaces, CoverPushes DEF left
<1>14. CASE RefreshReturns
  BY <1>14, CoverReturns DEF RefreshReturns, Running, Top
<1> QED
  BY <1>1, <1>2, <1>3, <1>4, <1>5, <1>6, <1>7, <1>8, <1>9, <1>10, <1>11,
     <1>12, <1>13, <1>14
  DEF Step

-----------------------------------------------------------------------------
(* The end of a transaction: what is committed is what stands in the tables. *)
LEMMA CoverCommits ==
  ASSUME IInv', stack' = <<>>, Persist \/ Rollback
  PROVE  /\ CoverInv'
         /\ \A o \in Ids : Uncovered(o)' <=> Exposed(o)'
<1>1. bal' = committed'.bal /\ orders' = committed'.orders
  BY DEF Persist, Rollback, Tables
<1> QED
  BY <1>1, UncoveredIsExposedThen DEF CoverInv

LEMMA CoverPersists ==
  ASSUME IInv', Carried, Persist \/ Rollback
  PROVE  /\ CoverInv'
         /\ \A o \in Ids : Uncovered(o)' => Uncovered(o)
<1>1. CASE stack' = <<>>
  <2>1. \A o \in Ids : ~LookedAt(stack', o, orders'[o].amount)
    BY <1>1, RangeOfNone DEF LookedAt
  <2> QED
    BY <1>1, <2>1, CoverCommits DEF Carried
<1>2. CASE stack' # <<>>
  <2>1. committed' = committed
    BY <1>2 DEF Persist, Rollback
  <2>2. \A o \in Ids : Uncovered(o)' <=> Uncovered(o)
    BY <2>1 DEF Uncovered, Standing
  <2> QED
    BY <1>2, <2>2 DEF Carried, CoverInv, AtRest
<1> QED
  BY <1>1, <1>2

(* A step that leaves the tables alone.                                     *)
LEMMA CoverStays ==
  ASSUME CoverInv, UNCHANGED <<bal, orders, committed>>,
         stack = <<>> \/ UNCHANGED stack
  PROVE  /\ CoverInv'
         /\ \A o \in Ids : Uncovered(o)' => Uncovered(o)
<1>1. \A o \in Ids : /\ Exposed(o)' <=> Exposed(o)
                     /\ Uncovered(o)' <=> Uncovered(o)
  BY DEF Exposed, Placed, Funded, Uncovered, Standing
<1>2. stack = <<>> =>
        \A o \in Ids : ~LookedAt(stack, o, orders[o].amount)
  BY RangeOfNone DEF LookedAt
<1> QED
  BY <1>1, <1>2 DEF CoverInv, AtRest

(* Between two transactions the orders exposed are those uncovered.         *)
LEMMA CoverAtRest ==
  ASSUME IInv, CoverInv, IInv', AtRest, stack' = <<>>, Persist,
         \A o \in Ids : Exposed(o)' => Exposed(o)
  PROVE  /\ CoverInv'
         /\ \A o \in Ids : Uncovered(o)' => Uncovered(o)
<1>1. \A o \in Ids : Uncovered(o) <=> Exposed(o)
  BY UncoveredIsExposed DEF CoverInv
<1> QED
  BY <1>1, CoverCommits

LEMMA CoverConfirm ==
  ASSUME IInv, NEW m \in Received, Confirm(m)
  PROVE  \A o \in Ids : Exposed(o)' => Exposed(o)
<1> SUFFICES ASSUME NEW o \in Ids, Funded(o, orders[o].amount)
             PROVE  Funded(o, orders[o].amount)'
  BY DEF Confirm, Exposed, Placed, Funded
<1> DEFINE c == Form[o].currency
<1>1. /\ Owner(o) \in Accounts /\ c \in Currencies /\ BTC \in Currencies
      /\ Form[o].ppc \in Nat /\ PriceDen \in Nat
      /\ m.account \in Accounts /\ m.amount \in Nat
  BY EngineAssumption DEF Owner, Forms, Accounts, Currencies, Received, AOs
<1>2. \A a \in Accounts, d \in Currencies :
        /\ bal[a][d] \in Int /\ bal'[a][d] \in Int
        /\ bal'[a][d] >= bal[a][d]
  <2>1. bal' = [bal EXCEPT ![m.account][BTC] = @ + m.amount]
    BY DEF Confirm
  <2>2. bal \in [Accounts -> [Currencies -> Int]]
    BY DEF IInv, SafeTables, SafeBalances
  <2>3. \A a \in Accounts, d \in Currencies :
          bal'[a][d] = IF a = m.account /\ d = BTC THEN bal[a][d] + m.amount
                                                  ELSE bal[a][d]
    BY <2>1, <2>2
  <2> QED
    BY <1>1, <2>2, <2>3
<1>3. orders' = orders /\ orders[o].amount \in Int
  BY DEF Confirm, IInv, SafeTables, Rows
<1>4. /\ bal[Owner(o)][c] \in Int /\ bal'[Owner(o)][c] \in Int
      /\ bal'[Owner(o)][c] >= bal[Owner(o)][c]
      /\ bal[Owner(o)][BTC] \in Int /\ bal'[Owner(o)][BTC] \in Int
      /\ bal'[Owner(o)][BTC] >= bal[Owner(o)][BTC]
  BY <1>1, <1>2
<1>5. CASE Buying(o)
  <2>1. \A x, y \in Int, d \in Nat : y >= x => y * d >= x * d
    OBVIOUS
  <2>2. bal'[Owner(o)][c] * PriceDen >= bal[Owner(o)][c] * PriceDen
    BY <1>1, <1>4, <2>1
  <2>3. /\ bal'[Owner(o)][c] * PriceDen \in Int
        /\ bal[Owner(o)][c] * PriceDen \in Int
        /\ orders[o].amount * Form[o].ppc \in Int
    BY <1>1, <1>3, <1>4
  <2>4. bal[Owner(o)][c] * PriceDen >= orders[o].amount * Form[o].ppc
    BY <1>5 DEF Funded
  <2>5. bal'[Owner(o)][c] * PriceDen >= orders[o].amount * Form[o].ppc
    BY <2>2, <2>3, <2>4
  <2> QED
    BY <1>3, <1>5, <2>5 DEF Funded
<1>6. CASE ~Buying(o)
  BY <1>3, <1>4, <1>6 DEF Funded
<1> QED
  BY <1>5, <1>6

(* A step either keeps what was covered, or is the save of activate!.       *)
KeepsCover ==
  \A o \in Ids : Uncovered(o)' =>
    Uncovered(o) \/ \E w \in Workers : ActivateSave(w)

LEMMA CoverRequest ==
  ASSUME IInv, CoverInv, IInv', Request PROVE CoverInv' /\ KeepsCover
<1> USE DEF KeepsCover
<1>1. ASSUME NEW w \in Workers, NEW o \in Ids, Create(w, o)
      PROVE  CoverInv' /\ KeepsCover
  <2>1. \A n \in Ids : orders'[n] = IF n = o THEN
            [placed |-> TRUE, amount |-> Form[o].amount, active |-> TRUE]
          ELSE orders[n]
    BY <1>1 DEF Create, IInv, SafeTables
  <2>2. bal' = bal /\ (IsLimit(o) => Funded(o, Form[o].amount))
    BY <1>1 DEF Create, Valid
  <2>3. ASSUME NEW n \in Ids, Exposed(n)' PROVE Exposed(n)
    BY <2>1, <2>2, <2>3 DEF Exposed, Placed, Funded
  <2> QED
    BY <1>1, <2>3, CoverAtRest DEF Create, AtRest
<1>2. ASSUME NEW w \in Workers, NEW o \in Ids, ActivateCheck(w, o)
      PROVE  CoverInv' /\ KeepsCover
  BY <1>2, CoverStays DEF ActivateCheck
<1>3. ASSUME NEW w \in Workers, NEW o \in Ids, Destroy(w, o)
      PROVE  CoverInv' /\ KeepsCover
  <2>1. \A n \in Ids : orders'[n] = IF n = o THEN NoRow ELSE orders[n]
    BY <1>3 DEF Destroy, IInv, SafeTables
  <2>2. ASSUME NEW n \in Ids, Exposed(n)' PROVE Exposed(n)
    BY <1>3, <2>1, <2>2 DEF Destroy, Exposed, Placed, Funded, NoRow
  <2> QED
    BY <1>3, <2>2, CoverAtRest DEF Destroy, AtRest
<1>4. ASSUME NEW w \in Workers, ActivateSave(w)
      PROVE  CoverInv' /\ KeepsCover
  BY <1>4, CoverCommits DEF ActivateSave, AtRest
<1>5. ASSUME NEW w \in Workers, BeginExecute(w)
      PROVE  CoverInv' /\ KeepsCover
  BY <1>5, CoverStays DEF BeginExecute, Persist, AtRest
<1>6. ASSUME NEW m \in Moves, BeginMove(m)
      PROVE  CoverInv' /\ KeepsCover
  BY <1>6, CoverStays DEF BeginMove, Persist, AtRest
<1>7. ASSUME NEW m \in Received, Confirm(m)
      PROVE  CoverInv' /\ KeepsCover
  BY <1>7, CoverConfirm, CoverAtRest DEF Confirm, AtRest
<1> QED
  BY <1>1, <1>2, <1>3, <1>4, <1>5, <1>6, <1>7 DEF Request

LEMMA CoverNext ==
  ASSUME CommissionsAtMostAll, IInv, CoverInv, [Next]_vars
  PROVE  CoverInv' /\ KeepsCover
<1>1. IInv'
  BY NextSafe
<1>2. CASE Step
  <2>1. Persist \/ Rollback
    BY <1>2
    DEF Step, Skip, RecordTrade, OrderMissing, Settle, ExecuteReturns, Post,
        Refuse, SaveRefused, Insert, Drop, PostReturns, RefreshLimitOrder,
        RefreshMarketOrder, RefreshReturns
  <2> QED
    BY <1>1, <1>2, <2>1, CoverStep, CoverPersists DEF KeepsCover
<1>3. CASE Request
  BY <1>1, <1>3, CoverRequest
<1>4. CASE Crash
  BY <1>1, <1>4, CoverRollsBack, CoverPersists DEF Crash, KeepsCover
<1>5. ASSUME NEW w \in Workers, Abandon(w) PROVE CoverInv' /\ KeepsCover
  BY <1>5, CoverStays DEF Abandon, KeepsCover
<1>6. CASE UNCHANGED vars
  BY <1>6, CoverStays DEF vars, KeepsCover
<1> QED
  BY <1>2, <1>3, <1>4, <1>5, <1>6 DEF Next, Failure

(* If no commission exceeds the whole amount, a standing order loses its     *)
(* cover only by activate!: every debit of a user is followed, within its   *)
(* transaction, by a look at all his orders, whatever runs in between.      *)
THEOREM CoverIsKept ==
  CommissionsAtMostAll => (Spec => CoverLostOnlyByActivation)
<1> SUFFICES ASSUME CommissionsAtMostAll PROVE Spec => CoverLostOnlyByActivation
  OBVIOUS
<1>1. Init => CoverInv
  <2> SUFFICES ASSUME Init PROVE CoverInv
    OBVIOUS
  <2>1. /\ \A o \in Ids : ~Exposed(o)
        /\ bal = committed.bal /\ orders = committed.orders
    BY DEF Init, Tables, NoRow, Exposed, Placed
  <2> QED
    BY <2>1 DEF CoverInv
<1>2. IInv /\ CoverInv /\ [Next]_vars => CoverInv' /\ [KeepsCover]_vars
  BY CoverNext
<1>3. CoverLostOnlyByActivation <=> [][KeepsCover]_vars
  BY DEF CoverLostOnlyByActivation, KeepsCover
<1> QED
  BY <1>1, <1>2, <1>3, Invariance, PTL DEF Spec
=============================================================================
