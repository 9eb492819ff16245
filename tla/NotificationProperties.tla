----------------------- MODULE NotificationProperties -----------------------
(* Which trades users are told of, how often, and which they never hear of.  *)
EXTENDS Notifications

(* Types.                                                                   *)
NotificationsTypeOK ==
  /\ LockTypeOK
  /\ RecordingTypeOK
  /\ last \in [Users -> Ids \cup {0}]
  /\ mails \in [Users -> [Ids -> 0..Cap]]
  /\ run \in [Runs -> Memories]
  /\ failures \in Nat

(* A trade of the user that no later run will find any more.                 *)
Missed(i, u) ==
  /\ PurchaseOf(i, u) \/ SaleOf(i, u)
  /\ i <= last[u]
  /\ mails[u][i] = 0

(* A user is told of all his trades but in two races: the trade was recorded *)
(* by the first transaction of a connection, which may commit it after one   *)
(* with a higher id; or it is a purchase, and a later sale was committed too *)
(* between the two queries of notifications.rake:6-7.  No other order of     *)
(* commits, queries, mails and failures loses one.                           *)
MissedOnlyInRaces ==
  \A u \in Users, i \in Ids : Missed(i, u) =>
    \/ ~rows[i].serial
    \/ rows[i].buyer = u /\ \E j \in Ids : /\ j > i
                                           /\ SaleOf(j, u)
                                           /\ mails[u][j] > 0

(* An interrupted run may repeat a trade once, since deliver comes before    *)
(* update_attribute; nothing else does: the lock keeps runs apart, and the    *)
(* next one reads what the last one noted.                                   *)
RepeatsAreInterruptions ==
  \A u \in Users, i \in Ids : mails[u][i] <= 1 + failures + kills

Blocked(u) == \E v \in Unreachable : v <= u

(* Every committed trade is found by some run and mailed, however often runs *)
(* are interrupted and whoever comes after: unless it is missed, or the mail *)
(* of a user that comes before is refused for ever.                          *)
TradesAreAnnounced ==
  \A u \in {v \in Users : ~Blocked(v)}, i \in Ids :
    PurchaseOf(i, u) \/ SaleOf(i, u) ~> mails[u][i] > 0 \/ Missed(i, u)
=============================================================================
