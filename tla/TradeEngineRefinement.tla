----------------------- MODULE TradeEngineRefinement -----------------------
(***************************************************************************)
(* The trading core, seen through its commits, is the abstract settlement   *)
(* of trades.                                                              *)
(***************************************************************************)
EXTENDS TradeEngineProperties

(* The trading core implements Settlement: however its transactions nest,    *)
(* fail and restart, each commit settles whole trades and at most one       *)
(* deposit or withdrawal, and nothing else moves money.                     *)
Abstract ==
  INSTANCE Settlement WITH
    book <- committed.bal, held <- committed.unconf, log <- committed.trades,
    Buyer <- LAMBDA t : Owner(t.purchase),
    Seller <- LAMBDA t : Owner(t.sale),
    Currency <- LAMBDA t : Form[t.purchase].currency

ImplementsSettlement == Abstract!Spec
=============================================================================
