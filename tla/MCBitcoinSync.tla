--------------------------- MODULE MCBitcoinSync ---------------------------
(* Instances of the synchronisation for TLC.                                *)
EXTENDS BitcoinSyncProperties

(* The first transaction pays both accounts, the second pays one of them     *)
(* twice, which pushes the first out of its list.                           *)
ForAccount == <<1, 2, 1, 1>>
InTransaction == <<"t1", "t1", "t2", "t2">>
=============================================================================
