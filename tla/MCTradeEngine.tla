--------------------------- MODULE MCTradeEngine ---------------------------
(***************************************************************************)
(* Instances of the trading core for TLC.  An instance is a set of order    *)
(* forms and of deposits and withdrawals; TLC explores every order in which *)
(* they arrive, fail and interleave.                                       *)
(***************************************************************************)
EXTENDS TradeEngineRefinement, TLC

CONSTANTS alice, bob, carol

(* Processes are interchangeable.                                           *)
WorkerSymmetry == Permutations(Workers)

Limit(u, k, x, p) ==
  [user |-> u, category |-> k, currency |-> "EUR", amount |-> x, ppc |-> p]

Market(u, k, x) == Limit(u, k, x, NULL)

Move(u, c, x) ==
  [account |-> u, currency |-> c, amount |-> x, confirmed |-> TRUE]

Incoming(u, x) ==
  [account |-> u, currency |-> BTC, amount |-> x, confirmed |-> FALSE]

NoCommission == [u \in Users |-> 0]
Commission == [u \in Users |-> 1]

(* Two sellers at two prices, a buyer with two orders of which the balance   *)
(* covers either but not both, and withdrawals that take the cover away.    *)
(* With Tick = 2 and PriceDen = 4 most trades are rounded; every amount is  *)
(* on the grid of ticks.                                                    *)
LimitForms == << Limit(alice, "sell", 4, 2), Limit(carol, "sell", 4, 7),
                 Limit(bob, "buy", 6, 7), Limit(bob, "buy", 4, 2) >>
LimitMoves == { Move(alice, BTC, 4), Move(carol, BTC, 4),
                Move(bob, "EUR", 12), Move(bob, "EUR", -6),
                Move(alice, BTC, -2) }

(* Carol has a market order on each side: what she buys from alice she       *)
(* sells to bob, and what bob pays her buys again, inside the same trade.    *)
(* Some of her bitcoins are still to be confirmed.                          *)
MixedForms == << Limit(alice, "sell", 3, 1), Limit(bob, "buy", 2, 2),
                 Market(carol, "sell", 2), Market(carol, "buy", 2) >>
MixedMoves == { Move(alice, BTC, 3), Move(bob, "EUR", 4),
                Move(carol, "EUR", 3), Incoming(carol, 2),
                Move(carol, BTC, -1) }

(* Alice sells and has a market order to buy with what she is paid, while    *)
(* bob's order is matched with hers and carol's.                            *)
ReentrantForms == << Limit(alice, "sell", 2, 1), Limit(carol, "sell", 2, 1),
                     Market(alice, "buy", 1), Limit(bob, "buy", 4, 1) >>
ReentrantMoves == { Move(alice, BTC, 2), Move(carol, BTC, 4),
                    Move(bob, "EUR", 4) }

(* Bob's euros are not a whole number of ticks: his market order is matched  *)
(* for more than he has.  Alice, who is paid all the same, buys from him at  *)
(* once, inside the same trade, so that in the end the save! accepts his    *)
(* debit.  Alice's order may be activated while she withdraws its cover.    *)
RefusedForms == << Limit(alice, "sell", 10, 2), Market(alice, "buy", 10),
                   Limit(bob, "sell", 10, 1), Market(bob, "buy", 10) >>
RefusedMoves == { Move(alice, BTC, 10), Move(alice, BTC, -10),
                  Move(bob, BTC, 10), Move(bob, "EUR", 16) }
=============================================================================
