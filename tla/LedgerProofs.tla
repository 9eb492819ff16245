---------------------------- MODULE LedgerProofs ----------------------------
(***************************************************************************)
(* What the trading core does with money and with the book, for any users,  *)
(* orders, balances and processes.  TradeEngineProofs shows what no single  *)
(* step may break; what is shown here takes all the steps of a transaction. *)
(*                                                                         *)
(* The first half is about the ledger: every committed transaction is one   *)
(* step of Settlement, and the books balance.  It rests on the sum of what  *)
(* the frames of the running transaction have still to post, and holds of   *)
(* any orders as long as no account operation is accepted that was refused  *)
(* before.                                                                 *)
(*                                                                         *)
(* The second half is about a book of limit orders, in which nothing nests: *)
(* no refused operation is ever accepted there, so that the first half      *)
(* holds without condition, and with one process the copies that an         *)
(* execution holds are those of the table.                                 *)
(***************************************************************************)
EXTENDS TradeEngineProofs, TradeEngineRefinement, FiniteSetTheorems,
        WellFoundedInduction

-----------------------------------------------------------------------------
(* Sums over finite sets.  The library folds with recursive functions, of   *)
(* which the proof needs only that they satisfy their equation; what holds   *)
(* of every sum is then shown for a least set for which it would not.       *)

(* Induction without an operator: a set that contains a finite set whenever  *)
(* it contains all its strict subsets.                                      *)
LEMMA SubsetInduction ==
  ASSUME NEW S, IsFiniteSet(S), NEW Good,
         \A X \in SUBSET S :
           (\A Y \in SUBSET X : Y # X => Y \in Good) => X \in Good
  PROVE  S \in Good
<1> DEFINE Bad == {X \in SUBSET S : X \notin Good}
           R == StrictSubsetOrdering(S)
<1>1. SUFFICES ASSUME S \notin Good PROVE FALSE
  OBVIOUS
<1>2. Bad \subseteq SUBSET S /\ Bad # {}
  BY <1>1
<1>3. IsWellFoundedOn(R, SUBSET S)
  BY FS_StrictSubsetOrderingWellFounded, FS_FiniteSubsetsOfFinite
<1>4. PICK X \in Bad : \A Y \in Bad : ~(<<Y, X>> \in R)
  <2> HIDE DEF Bad, R
  <2> QED
    BY <1>2, <1>3, WFMin
<1>5. \A Y \in SUBSET X : Y # X => Y \in Good
  BY <1>4 DEF StrictSubsetOrdering
<1> QED
  BY <1>4, <1>5

LEMMA NumberInduction ==
  ASSUME NEW Good, NEW k \in Nat,
         \A n \in Nat : (\A m \in 0..(n - 1) : m \in Good) => n \in Good
  PROVE  k \in Good
<1> DEFINE Bad == {n \in Nat : n \notin Good}
           R == {ss \in Nat \X Nat : ss[1] < ss[2]}
<1>1. SUFFICES ASSUME k \notin Good PROVE FALSE
  OBVIOUS
<1>2. Bad \subseteq Nat /\ Bad # {}
  BY <1>1
<1>3. IsWellFoundedOn(R, Nat)
  BY NatLessThanWellFounded DEF OpToRel
<1>4. PICK n \in Bad : \A m \in Bad : ~(<<m, n>> \in R)
  <2> HIDE DEF Bad, R
  <2> QED
    BY <1>2, <1>3, WFMin
<1>5. ASSUME NEW m \in 0..(n - 1), m \notin Good PROVE FALSE
  <2>1. m \in Bad /\ <<m, n>> \in R
    BY <1>5
  <2> QED
    BY <1>4, <2>1
<1> QED
  BY <1>4, <1>5

-----------------------------------------------------------------------------
(* The library's sum satisfies its equation.                                *)

Some(s) == CHOOSE x \in s : TRUE
Unfold(f, g, s) == IF s = {} THEN 0 ELSE f[Some(s)] + g[s \ {Some(s)}]

Sums(f, g, S) == g = [s \in SUBSET S |-> Unfold(f, g, s)]
TheSums(f, S) == CHOOSE g : Sums(f, g, S)

LEMMA SumIsChosen ==
  ASSUME NEW f, NEW S
  PROVE  SumFunctionOnSet(f, S) = TheSums(f, S)[S]
BY DEF SumFunctionOnSet, FoldFunctionOnSet, MapThenFoldSet, TheSums, Sums,
       Unfold, Some

LEMMA SomeMember == ASSUME NEW s, s # {} PROVE Some(s) \in s
BY DEF Some

(* There is such a function: it is built for sets of more and more elements. *)
LEMMA SumExists ==
  ASSUME NEW f, NEW S, IsFiniteSet(S)
  PROVE  \E g : Sums(f, g, S)
<1> DEFINE small(n) == {s \in SUBSET S : Cardinality(s) <= n}
           Good == {n \in Nat : \E g : g = [s \in small(n) |-> Unfold(f, g, s)]}
<1>1. \A s \in SUBSET S : IsFiniteSet(s) /\ Cardinality(s) \in Nat
  BY FS_Subset, FS_CardinalityType
<1>2. ASSUME NEW n \in Nat, \A m \in 0..(n - 1) : m \in Good PROVE n \in Good
  <2>1. CASE n = 0
    <3>1. \A s \in small(0) : s = {}
      BY <1>1, FS_EmptySet
    <3>2. LET h == [s \in small(0) |-> 0]
          IN h = [s \in small(0) |-> Unfold(f, h, s)]
      BY <3>1 DEF Unfold
    <3> QED
      BY <2>1, <3>2
  <2>2. CASE n # 0
    <3>1. n - 1 \in Good /\ n - 1 \in Nat
      <4>1. n - 1 \in 0..(n - 1)
        BY <2>2
      <4> HIDE DEF Good
      <4> QED
        BY <1>2, <4>1
    <3>2. PICK g : g = [s \in small(n - 1) |-> Unfold(f, g, s)]
      BY <3>1
    <3> DEFINE h == [s \in small(n) |->
                       IF s \in small(n - 1) THEN g[s] ELSE Unfold(f, g, s)]
    <3>3. ASSUME NEW s \in small(n), s # {}
          PROVE  s \ {Some(s)} \in small(n - 1)
      <4>1. Some(s) \in s /\ IsFiniteSet(s) /\ Cardinality(s) \in Nat
        BY <1>1, <3>3, SomeMember
      <4>2. Cardinality(s \ {Some(s)}) = Cardinality(s) - 1
        BY <4>1, FS_RemoveElement
      <4> QED
        BY <4>1, <4>2
    <3>4. small(n - 1) \subseteq small(n)
      BY <1>1
    <3>5. ASSUME NEW s \in small(n) PROVE h[s] = Unfold(f, h, s)
      <4>1. Unfold(f, g, s) = Unfold(f, h, s)
        BY <3>3, <3>4 DEF Unfold
      <4>2. s \in small(n - 1) => g[s] = Unfold(f, g, s)
        BY <3>2
      <4> QED
        BY <4>1, <4>2
    <3>6. h = [s \in small(n) |-> Unfold(f, h, s)]
      <4>1. h = [s \in small(n) |-> h[s]]
        OBVIOUS
      <4> HIDE DEF h
      <4> QED
        BY <3>5, <4>1
    <3> QED
      BY <3>6
  <2> QED
    BY <2>1, <2>2
<1>3. Cardinality(S) \in Nat
  BY FS_CardinalityType
<1> HIDE DEF Good
<1>4. Cardinality(S) \in Good
  BY <1>2, <1>3, NumberInduction
<1>5. small(Cardinality(S)) = SUBSET S
  BY <1>1, FS_Subset
<1> QED
  BY <1>4, <1>5 DEF Good, Sums

(* It is the same on every finite set that contains its argument.           *)
LEMMA SumUnique ==
  ASSUME NEW f, NEW S, NEW T, NEW g, NEW h,
         Sums(f, g, S), Sums(f, h, T),
         NEW X, X \subseteq S, X \subseteq T, IsFiniteSet(X)
  PROVE  g[X] = h[X]
<1> DEFINE Good == {Y \in SUBSET X : g[Y] = h[Y]}
<1>1. ASSUME NEW Y \in SUBSET X,
             \A Z \in SUBSET Y : Z # Y => Z \in Good
      PROVE  Y \in Good
  <2>1. g[Y] = Unfold(f, g, Y) /\ h[Y] = Unfold(f, h, Y)
    BY Y \in SUBSET S /\ Y \in SUBSET T DEF Sums
  <2>2. Y # {} => Some(Y) \in Y
    BY SomeMember
  <2>3. Y # {} => g[Y \ {Some(Y)}] = h[Y \ {Some(Y)}]
    BY <1>1, <2>2
  <2> QED
    BY <2>1, <2>3 DEF Unfold
<1> HIDE DEF Good
<1>2. X \in Good
  BY <1>1, SubsetInduction
<1> QED
  BY <1>2 DEF Good

LEMMA SumEquation ==
  ASSUME NEW f, NEW S, IsFiniteSet(S)
  PROVE  SumFunctionOnSet(f, S) =
           IF S = {} THEN 0
           ELSE f[Some(S)] + SumFunctionOnSet(f, S \ {Some(S)})
<1> DEFINE T == S \ {Some(S)}
<1>1. IsFiniteSet(T) /\ T \subseteq S
  BY FS_Subset
<1>2. Sums(f, TheSums(f, S), S)
  BY SumExists DEF TheSums
<1>3. Sums(f, TheSums(f, T), T)
  BY <1>1, SumExists DEF TheSums
<1>4. TheSums(f, S)[T] = TheSums(f, T)[T]
  <2> HIDE DEF T
  <2> QED
    BY <1>1, <1>2, <1>3, SumUnique
<1>5. TheSums(f, S)[S] = Unfold(f, TheSums(f, S), S)
  BY <1>2 DEF Sums
<1> QED
  BY <1>4, <1>5, SumIsChosen DEF Unfold

-----------------------------------------------------------------------------
(* What a sum of integers is.                                               *)
LEMMA SumOfNone == ASSUME NEW f PROVE SumFunctionOnSet(f, {}) = 0
BY SumEquation, FS_EmptySet

LEMMA SumIsInt ==
  ASSUME NEW f, NEW S, IsFiniteSet(S), \A x \in S : f[x] \in Int
  PROVE  SumFunctionOnSet(f, S) \in Int
<1> DEFINE Good == {X \in SUBSET S : SumFunctionOnSet(f, X) \in Int}
<1>1. ASSUME NEW X \in SUBSET S,
             \A Y \in SUBSET X : Y # X => Y \in Good
      PROVE  X \in Good
  <2>1. CASE X = {}
    BY <2>1, SumOfNone
  <2>2. CASE X # {}
    <3>1. Some(X) \in X /\ IsFiniteSet(X)
      BY <2>2, SomeMember, FS_Subset
    <3>2. X \ {Some(X)} \in Good /\ f[Some(X)] \in Int
      BY <1>1, <3>1
    <3>3. SumFunctionOnSet(f, X) =
            f[Some(X)] + SumFunctionOnSet(f, X \ {Some(X)})
      BY <2>2, <3>1, SumEquation
    <3> QED
      BY <3>2, <3>3
  <2> QED
    BY <2>1, <2>2
<1> HIDE DEF Good
<1>2. S \in Good
  BY <1>1, SubsetInduction
<1> QED
  BY <1>2 DEF Good

(* Any element may be summed first.                                         *)
LEMMA SumRemove ==
  ASSUME NEW f, NEW S, IsFiniteSet(S), \A x \in S : f[x] \in Int, NEW x \in S
  PROVE  SumFunctionOnSet(f, S) = f[x] + SumFunctionOnSet(f, S \ {x})
<1> DEFINE Good == {X \in SUBSET S : \A y \in X :
              SumFunctionOnSet(f, X) = f[y] + SumFunctionOnSet(f, X \ {y})}
<1>1. ASSUME NEW X \in SUBSET S,
             \A Y \in SUBSET X : Y # X => Y \in Good
      PROVE  X \in Good
  <2> SUFFICES ASSUME NEW y \in X
      PROVE SumFunctionOnSet(f, X) = f[y] + SumFunctionOnSet(f, X \ {y})
    OBVIOUS
  <2> DEFINE c == Some(X)
             Z == (X \ {c}) \ {y}
  <2>1. c \in X /\ IsFiniteSet(X)
    BY SomeMember, FS_Subset
  <2>2. SumFunctionOnSet(f, X) = f[c] + SumFunctionOnSet(f, X \ {c})
    BY <2>1, SumEquation
  <2>3. CASE y = c
    BY <2>2, <2>3
  <2>4. CASE y # c
    <3>1. X \ {c} \in Good /\ X \ {y} \in Good
      <4> HIDE DEF Good
      <4> QED
        BY <1>1, <2>1
    <3>2. SumFunctionOnSet(f, X \ {c}) = f[y] + SumFunctionOnSet(f, Z)
      BY <2>4, <3>1
    <3>3. SumFunctionOnSet(f, X \ {y}) = f[c] + SumFunctionOnSet(f, Z)
      <4>1. (X \ {y}) \ {c} = Z /\ c \in X \ {y}
        BY <2>1, <2>4
      <4> QED
        BY <3>1, <4>1
    <3>4. SumFunctionOnSet(f, Z) \in Int
      BY SumIsInt, FS_Subset
    <3>5. f[y] \in Int /\ f[c] \in Int
      BY <2>1
    <3> QED
      BY <2>2, <3>2, <3>3, <3>4, <3>5
  <2> QED
    BY <2>3, <2>4
<1> HIDE DEF Good
<1>2. S \in Good
  BY <1>1, SubsetInduction
<1> QED
  BY <1>2 DEF Good

LEMMA SumAdd ==
  ASSUME NEW f, NEW S, IsFiniteSet(S), NEW x, x \notin S,
         \A y \in S \cup {x} : f[y] \in Int
  PROVE  SumFunctionOnSet(f, S \cup {x}) = f[x] + SumFunctionOnSet(f, S)
<1>1. IsFiniteSet(S \cup {x}) /\ (S \cup {x}) \ {x} = S
  BY FS_AddElement
<1>2. x \in S \cup {x}
  OBVIOUS
<1> QED
  BY <1>1, <1>2, SumRemove

(* A sum depends on the summands alone, and not on what they are named.      *)
LEMMA SumRenamed ==
  ASSUME NEW S, IsFiniteSet(S), NEW f, NEW g, NEW r,
         \A x \in S : f[x] \in Int /\ f[x] = g[r[x]],
         \A x, y \in S : r[x] = r[y] => x = y
  PROVE  SumFunctionOnSet(f, S) = SumFunctionOnSet(g, {r[x] : x \in S})
<1> DEFINE image(X) == {r[x] : x \in X}
           Good == {X \in SUBSET S :
             /\ IsFiniteSet(image(X))
             /\ SumFunctionOnSet(f, X) = SumFunctionOnSet(g, image(X))}
<1>1. ASSUME NEW X \in SUBSET S,
             \A Y \in SUBSET X : Y # X => Y \in Good
      PROVE  X \in Good
  <2>1. CASE X = {}
    <3>1. image(X) = {}
      BY <2>1
    <3> QED
      BY <2>1, <3>1, SumOfNone, FS_EmptySet
  <2>2. CASE X # {}
    <3>1. PICK x \in X : TRUE
      BY <2>2
    <3> DEFINE Y == X \ {x}
    <3>2. Y \in Good
      <4> HIDE DEF Good
      <4> QED
        BY <1>1
    <3>3. IsFiniteSet(X) /\ IsFiniteSet(Y) /\ IsFiniteSet(image(Y))
      BY <3>2, FS_Subset
    <3>4. SumFunctionOnSet(f, X) = f[x] + SumFunctionOnSet(f, Y)
      BY <3>3, SumRemove
    <3>5. image(X) = image(Y) \cup {r[x]} /\ r[x] \notin image(Y)
      OBVIOUS
    <3>6. \A y \in image(Y) \cup {r[x]} : g[y] \in Int
      OBVIOUS
    <3>7. SumFunctionOnSet(g, image(X))
            = g[r[x]] + SumFunctionOnSet(g, image(Y))
      <4> HIDE DEF image
      <4> QED
        BY <3>3, <3>5, <3>6, SumAdd
    <3>8. IsFiniteSet(image(X))
      <4>1. IsFiniteSet(image(Y) \cup {r[x]})
        <5> HIDE DEF image
        <5> QED
          BY <3>3, FS_AddElement
      <4> HIDE DEF image
      <4> QED
        BY <3>5, <4>1
    <3> QED
      BY <3>2, <3>4, <3>7, <3>8
  <2> QED
    BY <2>1, <2>2
<1> HIDE DEF Good
<1>2. S \in Good
  BY <1>1, SubsetInduction
<1> QED
  BY <1>2 DEF Good

LEMMA SumOnto ==
  ASSUME NEW S, IsFiniteSet(S), NEW T, NEW r \in [S -> T], NEW f, NEW g,
         \A x \in S : f[x] \in Int /\ f[x] = g[r[x]],
         \A x, y \in S : r[x] = r[y] => x = y,
         \A z \in T : \E x \in S : z = r[x]
  PROVE  SumFunctionOnSet(f, S) = SumFunctionOnSet(g, T)
<1>1. T = {r[x] : x \in S}
  OBVIOUS
<1>2. SumFunctionOnSet(f, S) = SumFunctionOnSet(g, {r[x] : x \in S})
  BY SumRenamed
<1> QED
  BY <1>1, <1>2

LEMMA SumSame ==
  ASSUME NEW S, IsFiniteSet(S), NEW f, NEW g,
         \A x \in S : f[x] \in Int /\ f[x] = g[x]
  PROVE  SumFunctionOnSet(f, S) = SumFunctionOnSet(g, S)
<1> DEFINE r == [x \in S |-> x]
<1>1. {r[x] : x \in S} = S
  OBVIOUS
<1>2. /\ \A x \in S : f[x] \in Int /\ f[x] = g[r[x]]
      /\ \A x, y \in S : r[x] = r[y] => x = y
  OBVIOUS
<1> HIDE DEF r
<1> QED
  BY <1>1, <1>2, SumRenamed

(* One summand grows.                                                       *)
LEMMA SumChanged ==
  ASSUME NEW S, IsFiniteSet(S), NEW f, NEW g, NEW x \in S, NEW d \in Int,
         \A y \in S : f[y] \in Int,
         \A y \in S : g[y] = IF y = x THEN f[y] + d ELSE f[y]
  PROVE  SumFunctionOnSet(g, S) = SumFunctionOnSet(f, S) + d
<1>1. \A y \in S : g[y] \in Int
  OBVIOUS
<1>2. IsFiniteSet(S \ {x})
  BY FS_Subset
<1>3. /\ SumFunctionOnSet(g, S) = g[x] + SumFunctionOnSet(g, S \ {x})
      /\ SumFunctionOnSet(f, S) = f[x] + SumFunctionOnSet(f, S \ {x})
  BY <1>1, SumRemove
<1>4. SumFunctionOnSet(f, S \ {x}) = SumFunctionOnSet(g, S \ {x})
  BY <1>2, SumSame
<1>5. SumFunctionOnSet(f, S \ {x}) \in Int
  BY <1>2, SumIsInt
<1> QED
  BY <1>3, <1>4, <1>5

LEMMA SumOfZeros ==
  ASSUME NEW S, IsFiniteSet(S), NEW f, \A x \in S : f[x] = 0
  PROVE  SumFunctionOnSet(f, S) = 0
<1> DEFINE Good == {X \in SUBSET S : SumFunctionOnSet(f, X) = 0}
<1>1. ASSUME NEW X \in SUBSET S,
             \A Y \in SUBSET X : Y # X => Y \in Good
      PROVE  X \in Good
  <2>1. CASE X = {}
    BY <2>1, SumOfNone
  <2>2. CASE X # {}
    <3>1. PICK x \in X : TRUE
      BY <2>2
    <3>2. X \ {x} \in Good /\ IsFiniteSet(X)
      BY <1>1, FS_Subset
    <3>3. SumFunctionOnSet(f, X) = f[x] + SumFunctionOnSet(f, X \ {x})
      BY <3>2, SumRemove
    <3> QED
      BY <3>2, <3>3
  <2> QED
    BY <2>1, <2>2
<1> HIDE DEF Good
<1>2. S \in Good
  BY <1>1, SubsetInduction
<1> QED
  BY <1>2 DEF Good

-----------------------------------------------------------------------------
(* Sums along sequences, and what the running transaction still owes.       *)

(* One summand is put in front of the others.                               *)
LEMMA SumPushed ==
  ASSUME NEW n \in Nat, NEW p \in [1..n -> Int], NEW q \in [1..(n + 1) -> Int],
         \A i \in 1..n : q[i + 1] = p[i]
  PROVE  SumFunction(q) = q[1] + SumFunction(p)
<1> DEFINE r == [i \in 1..n |-> i + 1]
<1>1. IsFiniteSet(1..n) /\ IsFiniteSet(2..(n + 1))
  BY FS_Interval
<1>2. /\ r \in [1..n -> 2..(n + 1)]
      /\ \A j \in 2..(n + 1) : \E i \in 1..n : j = r[i]
  <2>1. ASSUME NEW j \in 2..(n + 1) PROVE \E i \in 1..n : j = r[i]
    <3>1. j - 1 \in 1..n /\ r[j - 1] = j
      OBVIOUS
    <3> QED
      BY <3>1
  <2>2. r \in [1..n -> 2..(n + 1)]
    OBVIOUS
  <2> HIDE DEF r
  <2> QED
    BY <2>1, <2>2
<1>3. /\ \A x \in 1..n : p[x] \in Int /\ p[x] = q[r[x]]
      /\ \A x, y \in 1..n : r[x] = r[y] => x = y
  OBVIOUS
<1> HIDE DEF r
<1>4. SumFunctionOnSet(p, 1..n) = SumFunctionOnSet(q, 2..(n + 1))
  <2>1. PICK N, M, f, g : N = 1..n /\ M = 2..(n + 1) /\ f = p /\ g = q
    OBVIOUS
  <2>2. /\ IsFiniteSet(N) /\ r \in [N -> M]
        /\ \A x \in N : f[x] \in Int /\ f[x] = g[r[x]]
        /\ \A x, y \in N : r[x] = r[y] => x = y
        /\ \A z \in M : \E x \in N : z = r[x]
    BY <1>1, <1>2, <1>3, <2>1
  <2>3. SumFunctionOnSet(f, N) = SumFunctionOnSet(g, M)
    BY ONLY <2>2, SumOnto
  <2> QED
    BY <2>1, <2>3
<1>5. 1..(n + 1) = (2..(n + 1)) \cup {1} /\ 1 \notin 2..(n + 1)
  OBVIOUS
<1>6. \A j \in (2..(n + 1)) \cup {1} : q[j] \in Int
  <2>1. ASSUME NEW j \in 2..(n + 1) PROVE q[j] \in Int
    <3>1. j - 1 \in 1..n /\ q[(j - 1) + 1] = q[j]
      OBVIOUS
    <3> QED
      BY <3>1
  <2> QED
    BY <2>1
<1>7. SumFunctionOnSet(q, (2..(n + 1)) \cup {1})
        = q[1] + SumFunctionOnSet(q, 2..(n + 1))
  BY <1>1, <1>5, <1>6, SumAdd
<1> QED
  BY <1>4, <1>5, <1>7 DEF SumFunction

(* One summand is put behind the others.                                    *)
LEMMA SumAppended ==
  ASSUME NEW n \in Nat, NEW m \in Nat, m <= n + 1,
         NEW p \in [m..n -> Int], NEW q \in [m..(n + 1) -> Int],
         \A i \in m..n : q[i] = p[i]
  PROVE  SumFunction(q) = SumFunction(p) + q[n + 1]
<1>1. IsFiniteSet(m..n)
  BY FS_Interval
<1>2. m..(n + 1) = (m..n) \cup {n + 1} /\ n + 1 \notin m..n
  OBVIOUS
<1>3. SumFunctionOnSet(p, m..n) = SumFunctionOnSet(q, m..n)
  BY <1>1, SumSame
<1>4. SumFunctionOnSet(q, (m..n) \cup {n + 1})
        = q[n + 1] + SumFunctionOnSet(q, m..n)
  <2>1. \A i \in (m..n) \cup {n + 1} : q[i] \in Int
    OBVIOUS
  <2> QED
    BY <1>1, <1>2, <2>1, SumAdd
<1>5. SumFunctionOnSet(q, m..n) \in Int
  BY <1>1, SumIsInt
<1>6. /\ SumFunction(q) = SumFunctionOnSet(q, (m..n) \cup {n + 1})
      /\ SumFunction(p) = SumFunctionOnSet(p, m..n)
  BY <1>2 DEF SumFunction
<1> QED
  BY <1>3, <1>4, <1>5, <1>6

-----------------------------------------------------------------------------
(* What the running transaction still owes.                                 *)

(* What an account operation brings to the balance of account a in currency  *)
(* c, and to the unconfirmed deposits m.                                    *)
Brings(a, c) ==
  [ao \in AOs |-> IF ao.confirmed /\ ao.account = a /\ ao.currency = c
                  THEN ao.amount ELSE 0]
Holds(m) == [ao \in AOs |-> IF ~ao.confirmed /\ ao = m THEN 1 ELSE 0]

Weights == [AOs -> Int]

Total(aos, w) == SumFunction([i \in DOMAIN aos |-> w[aos[i]]])

(* What a frame and a stack have still to post, what was refused included.   *)
OwedBy(f, w) ==
  IF f.op = "post" THEN Total(f.aos, w) + Total(f.refused, w) ELSE 0
Owed(s, w) == SumFunction([i \in DOMAIN s |-> OwedBy(s[i], w)])

LEMMA WeightsOK ==
  /\ \A a \in Accounts, c \in Currencies : Brings(a, c) \in Weights
  /\ \A m \in Received : Holds(m) \in Weights
BY DEF Brings, Holds, Weights, AOs

LEMMA TotalOfNone == ASSUME NEW w PROVE Total(<<>>, w) = 0
<1>1. SumFunction([i \in DOMAIN <<>> |-> w[<<>>[i]]]) = 0
  BY SumOfNone DEF SumFunction
<1> QED
  BY <1>1 DEF Total

LEMMA TotalIsInt ==
  ASSUME NEW aos \in Seq(AOs), NEW w \in Weights
  PROVE  Total(aos, w) \in Int
<1> DEFINE f == [i \in DOMAIN aos |-> w[aos[i]]]
<1>1. DOMAIN aos = 1..Len(aos) /\ Len(aos) \in Nat /\ DOMAIN f = DOMAIN aos
  OBVIOUS
<1>2. IsFiniteSet(DOMAIN f)
  BY <1>1, FS_Interval
<1>3. \A i \in DOMAIN f : f[i] \in Int
  BY DEF Weights
<1> HIDE DEF f
<1>4. SumFunction(f) \in Int
  BY <1>2, <1>3, SumIsInt DEF SumFunction
<1> QED
  BY <1>4 DEF Total, f

LEMMA TotalOfTail ==
  ASSUME NEW aos \in Seq(AOs), aos # <<>>, NEW w \in Weights
  PROVE  Total(aos, w) = w[Head(aos)] + Total(Tail(aos), w)
<1> DEFINE n == Len(aos) - 1
           p == [i \in DOMAIN Tail(aos) |-> w[Tail(aos)[i]]]
           q == [i \in DOMAIN aos |-> w[aos[i]]]
<1>1. /\ n \in Nat /\ DOMAIN Tail(aos) = 1..n /\ DOMAIN aos = 1..(n + 1)
      /\ \A i \in 1..n : Tail(aos)[i] = aos[i + 1] /\ i + 1 \in 1..(n + 1)
      /\ aos[1] = Head(aos) /\ 1 \in 1..(n + 1)
      /\ \A i \in 1..(n + 1) : w[aos[i]] \in Int
  BY DEF Weights
<1> HIDE DEF n
<1>2. /\ p \in [1..n -> Int] /\ q \in [1..(n + 1) -> Int]
      /\ \A i \in 1..n : q[i + 1] = p[i]
      /\ q[1] = w[Head(aos)]
  <2>1. \A i \in 1..n : w[Tail(aos)[i]] \in Int
    BY <1>1
  <2> QED
    BY <1>1, <2>1
<1> HIDE DEF p, q
<1>3. SumFunction(q) = q[1] + SumFunction(p)
  BY <1>1, <1>2, SumPushed
<1> QED
  BY <1>2, <1>3 DEF Total, p, q

LEMMA TotalOfAppend ==
  ASSUME NEW aos \in Seq(AOs), NEW ao \in AOs, NEW w \in Weights
  PROVE  Total(Append(aos, ao), w) = Total(aos, w) + w[ao]
<1> DEFINE n == Len(aos)
           p == [i \in DOMAIN aos |-> w[aos[i]]]
           q == [i \in DOMAIN Append(aos, ao) |-> w[Append(aos, ao)[i]]]
<1>1. /\ n \in Nat /\ DOMAIN aos = 1..n /\ DOMAIN Append(aos, ao) = 1..(n + 1)
      /\ \A i \in 1..n : /\ Append(aos, ao)[i] = aos[i] /\ i \in 1..(n + 1)
                         /\ w[aos[i]] \in Int
      /\ Append(aos, ao)[n + 1] = ao /\ w[ao] \in Int /\ n + 1 \in 1..(n + 1)
  BY DEF Weights
<1> HIDE DEF n
<1>2. /\ p \in [1..n -> Int] /\ q \in [1..(n + 1) -> Int]
      /\ \A i \in 1..n : q[i] = p[i]
      /\ q[n + 1] = w[ao] /\ 1 \in Nat /\ 1 <= n + 1
  <2>1. \A i \in 1..(n + 1) : i \in 1..n \/ i = n + 1
    BY <1>1
  <2>2. \A i \in 1..(n + 1) : w[Append(aos, ao)[i]] \in Int
    BY <1>1, <2>1
  <2> QED
    BY <1>1, <2>2
<1> HIDE DEF p, q
<1>3. SumFunction(q) = SumFunction(p) + q[n + 1]
  BY <1>1, <1>2, SumAppended
<1> QED
  BY <1>2, <1>3 DEF Total, p, q

(* The account operations of a frame are well formed.                       *)
LEMMA PostFrame ==
  ASSUME NEW f \in SafeFrames, f.op = "post"
  PROVE  f \in SafePostFrames /\ f.aos \in Seq(AOs) /\ f.refused \in Seq(AOs)
<1>1. f \in SafePostFrames
  BY DEF SafeFrames, SafeMatchFrames, MatchFrames, SafeSettleFrames,
         SettleFrames, SafeInsertFrames, RefreshFrames
<1>2. Seq(SafeAOs) \subseteq Seq(AOs) /\ Seq(ConfirmedAOs) \subseteq Seq(AOs)
  BY SeqOfSubset DEF SafeAOs, ConfirmedAOs
<1> QED
  BY <1>1, <1>2 DEF SafePostFrames

LEMMA OwedByIsInt ==
  ASSUME NEW f \in SafeFrames, NEW w \in Weights
  PROVE  OwedBy(f, w) \in Int
BY PostFrame, TotalIsInt DEF OwedBy

LEMMA OwedIsInt ==
  ASSUME NEW s \in Seq(SafeFrames), NEW w \in Weights
  PROVE  Owed(s, w) \in Int
<1> DEFINE f == [i \in DOMAIN s |-> OwedBy(s[i], w)]
<1>1. DOMAIN s = 1..Len(s) /\ Len(s) \in Nat /\ DOMAIN f = DOMAIN s
  OBVIOUS
<1>2. IsFiniteSet(DOMAIN f)
  BY <1>1, FS_Interval
<1>3. \A i \in DOMAIN f : f[i] \in Int
  BY OwedByIsInt
<1> HIDE DEF f
<1>4. SumFunction(f) \in Int
  BY <1>2, <1>3, SumIsInt DEF SumFunction
<1> QED
  BY <1>4 DEF Owed, f

LEMMA OwedByNone == ASSUME NEW w PROVE Owed(<<>>, w) = 0
<1>1. SumFunction([i \in DOMAIN <<>> |-> OwedBy(<<>>[i], w)]) = 0
  BY SumOfNone DEF SumFunction
<1> QED
  BY <1>1 DEF Owed

LEMMA OwedByPushed ==
  ASSUME NEW s \in Seq(SafeFrames), NEW f \in SafeFrames, NEW w \in Weights
  PROVE  Owed(<<f>> \o s, w) = OwedBy(f, w) + Owed(s, w)
<1> DEFINE n == Len(s)
           t == <<f>> \o s
           p == [i \in DOMAIN s |-> OwedBy(s[i], w)]
           q == [i \in DOMAIN t |-> OwedBy(t[i], w)]
<1>1. /\ n \in Nat /\ DOMAIN s = 1..n /\ DOMAIN t = 1..(n + 1)
      /\ \A i \in 1..n : t[i + 1] = s[i] /\ i + 1 \in 1..(n + 1)
      /\ t[1] = f /\ 1 \in 1..(n + 1)
  OBVIOUS
<1>2. OwedBy(f, w) \in Int /\ \A i \in 1..n : OwedBy(s[i], w) \in Int
  BY OwedByIsInt
<1> HIDE DEF n, t
<1>3. /\ p \in [1..n -> Int] /\ q \in [1..(n + 1) -> Int]
      /\ \A i \in 1..n : q[i + 1] = p[i]
      /\ q[1] = OwedBy(f, w)
  <2>1. \A i \in 1..(n + 1) : i = 1 \/ (i - 1 \in 1..n /\ (i - 1) + 1 = i)
    BY <1>1
  <2>2. \A i \in 1..(n + 1) : OwedBy(t[i], w) \in Int
    BY <1>1, <1>2, <2>1
  <2> QED
    BY <1>1, <1>2, <2>2
<1> HIDE DEF p, q
<1>4. SumFunction(q) = q[1] + SumFunction(p)
  BY <1>1, <1>3, SumPushed
<1> QED
  BY <1>3, <1>4 DEF Owed, p, q, t

LEMMA TwoFrames ==
  ASSUME NEW S, NEW s \in Seq(S), NEW f \in S, NEW g \in S
  PROVE  <<f, g>> \o s = <<f>> \o (<<g>> \o s) /\ <<g>> \o s \in Seq(S)
<1> DEFINE t == <<f, g>> \o s
           u == <<g>> \o s
           v == <<f>> \o u
<1>1. /\ u \in Seq(S) /\ Len(u) = Len(s) + 1 /\ Len(s) \in Nat
      /\ u[1] = g /\ \A i \in 1..Len(s) : u[i + 1] = s[i]
  OBVIOUS
<1>2. /\ t \in Seq(S) /\ Len(t) = Len(s) + 2
      /\ t[1] = f /\ t[2] = g /\ \A i \in 1..Len(s) : t[i + 2] = s[i]
  OBVIOUS
<1> HIDE DEF t, u
<1>3. /\ v \in Seq(S) /\ Len(v) = Len(u) + 1
      /\ v[1] = f /\ \A i \in 1..Len(u) : v[i + 1] = u[i]
  BY <1>1
<1> HIDE DEF v
<1>4. ASSUME NEW i \in 1..Len(t) PROVE t[i] = v[i]
  <2>1. CASE i = 1
    BY <1>2, <1>3, <2>1
  <2>2. CASE i # 1
    <3>0. i - 1 \in 1..Len(u) /\ (i - 1) + 1 = i
      BY <1>1, <1>2, <2>2
    <3>1. i - 1 \in 1..Len(u) /\ v[(i - 1) + 1] = u[i - 1]
      BY <1>3, <3>0
    <3>2. CASE i = 2
      BY <1>1, <1>2, <3>1, <3>2
    <3>3. CASE i # 2
      <4>1. i - 2 \in 1..Len(s) /\ i - 1 = (i - 2) + 1 /\ i = (i - 2) + 2
        BY <1>1, <1>2, <2>2, <3>3
      <4>2. u[(i - 2) + 1] = s[i - 2] /\ t[(i - 2) + 2] = s[i - 2]
        BY <1>1, <1>2, <4>1
      <4> QED
        BY <3>1, <4>1, <4>2
    <3> QED
      BY <3>2, <3>3
  <2> QED
    BY <2>1, <2>2
<1>5. t = v
  BY <1>1, <1>2, <1>3, <1>4
<1> QED
  BY <1>1, <1>5 DEF t, u, v

LEMMA OwedByTwo ==
  ASSUME NEW s \in Seq(SafeFrames), NEW f \in SafeFrames, NEW g \in SafeFrames,
         NEW w \in Weights
  PROVE  Owed(<<f, g>> \o s, w) = OwedBy(f, w) + OwedBy(g, w) + Owed(s, w)
<1>1. <<f, g>> \o s = <<f>> \o (<<g>> \o s) /\ <<g>> \o s \in Seq(SafeFrames)
  BY TwoFrames
<1>2. OwedBy(f, w) \in Int /\ OwedBy(g, w) \in Int /\ Owed(s, w) \in Int
  BY OwedByIsInt, OwedIsInt
<1>3. /\ Owed(<<g>> \o s, w) = OwedBy(g, w) + Owed(s, w)
      /\ Owed(<<f>> \o (<<g>> \o s), w) = OwedBy(f, w) + Owed(<<g>> \o s, w)
  BY <1>1, OwedByPushed
<1>4. \A x, y, z \in Int : x + (y + z) = x + y + z
  OBVIOUS
<1> DEFINE total == Owed(<<f, g>> \o s, w)
<1>5. total = OwedBy(f, w) + (OwedBy(g, w) + Owed(s, w))
  BY <1>1, <1>3
<1> HIDE DEF total
<1>6. total = OwedBy(f, w) + OwedBy(g, w) + Owed(s, w)
  BY <1>2, <1>4, <1>5
<1> QED
  BY <1>6 DEF total

LEMMA OwedByStack ==
  ASSUME IInv, stack # <<>>, NEW w \in Weights
  PROVE  /\ Owed(stack, w) = OwedBy(Top, w) + Owed(Rest, w)
         /\ OwedBy(Top, w) \in Int /\ Owed(Rest, w) \in Int
<1>1. Top \in SafeFrames /\ Rest \in Seq(SafeFrames) /\ stack = <<Top>> \o Rest
  BY DEF IInv, Top, Rest
<1> QED
  BY <1>1, OwedByPushed, OwedByIsInt, OwedIsInt

LEMMA TotalOfOne ==
  ASSUME NEW a \in AOs, NEW w \in Weights
  PROVE  Total(<<a>>, w) = w[a]
<1>1. /\ <<a>> \in Seq(AOs) /\ <<a>> # <<>>
      /\ Head(<<a>>) = a /\ Tail(<<a>>) = <<>>
  OBVIOUS
<1>2. w[a] \in Int
  BY DEF Weights
<1>3. Total(<<a>>, w) = w[a] + Total(<<>>, w)
  BY <1>1, TotalOfTail
<1> QED
  BY <1>2, <1>3, TotalOfNone

LEMMA TotalOfTwo ==
  ASSUME NEW a \in AOs, NEW b \in AOs, NEW w \in Weights
  PROVE  Total(<<a, b>>, w) = w[a] + w[b]
<1>1. /\ <<a, b>> \in Seq(AOs) /\ <<a, b>> # <<>>
      /\ Head(<<a, b>>) = a /\ Tail(<<a, b>>) = <<b>>
  OBVIOUS
<1>2. Total(<<a, b>>, w) = w[a] + Total(<<b>>, w)
  BY <1>1, TotalOfTail
<1> QED
  BY <1>2, TotalOfOne

LEMMA TotalOfSix ==
  ASSUME NEW a1 \in AOs, NEW a2 \in AOs, NEW a3 \in AOs, NEW a4 \in AOs,
         NEW a5 \in AOs, NEW a6 \in AOs, NEW w \in Weights
  PROVE  Total(<<a1, a2, a3, a4, a5, a6>>, w)
           = w[a1] + w[a2] + w[a3] + w[a4] + w[a5] + w[a6]
<1>1. /\ <<a1, a2, a3, a4, a5, a6>> \in Seq(AOs)
      /\ <<a1, a2, a3, a4, a5, a6>> # <<>>
      /\ Head(<<a1, a2, a3, a4, a5, a6>>) = a1
      /\ Tail(<<a1, a2, a3, a4, a5, a6>>) = <<a2, a3, a4, a5, a6>>
  OBVIOUS
<1>2. /\ <<a2, a3, a4, a5, a6>> \in Seq(AOs) /\ <<a2, a3, a4, a5, a6>> # <<>>
      /\ Head(<<a2, a3, a4, a5, a6>>) = a2
      /\ Tail(<<a2, a3, a4, a5, a6>>) = <<a3, a4, a5, a6>>
  OBVIOUS
<1>3. /\ <<a3, a4, a5, a6>> \in Seq(AOs) /\ <<a3, a4, a5, a6>> # <<>>
      /\ Head(<<a3, a4, a5, a6>>) = a3
      /\ Tail(<<a3, a4, a5, a6>>) = <<a4, a5, a6>>
  OBVIOUS
<1>4. /\ <<a4, a5, a6>> \in Seq(AOs) /\ <<a4, a5, a6>> # <<>>
      /\ Head(<<a4, a5, a6>>) = a4
      /\ Tail(<<a4, a5, a6>>) = <<a5, a6>>
  OBVIOUS
<1> DEFINE v1 == w[a1]
           v2 == w[a2]
           v3 == w[a3]
           v4 == w[a4]
           v5 == w[a5]
           v6 == w[a6]
           t6 == Total(<<a1, a2, a3, a4, a5, a6>>, w)
           t5 == Total(<<a2, a3, a4, a5, a6>>, w)
           t4 == Total(<<a3, a4, a5, a6>>, w)
           t3 == Total(<<a4, a5, a6>>, w)
           t2 == Total(<<a5, a6>>, w)
<1>5. t6 = v1 + t5
  BY <1>1, TotalOfTail
<1>6. t5 = v2 + t4
  BY <1>2, TotalOfTail
<1>7. t4 = v3 + t3
  BY <1>3, TotalOfTail
<1>8. t3 = v4 + t2
  BY <1>4, TotalOfTail
<1>9. t2 = v5 + v6
  BY TotalOfTwo
<1>10. /\ v1 \in Int /\ v2 \in Int /\ v3 \in Int /\ v4 \in Int /\ v5 \in Int
       /\ v6 \in Int
  BY DEF Weights
<1> HIDE DEF v1, v2, v3, v4, v5, v6, t6, t5, t4, t3, t2
<1>11. t6 = v1 + v2 + v3 + v4 + v5 + v6
  BY <1>5, <1>6, <1>7, <1>8, <1>9, <1>10
<1> QED
  BY <1>11 DEF v1, v2, v3, v4, v5, v6, t6

-----------------------------------------------------------------------------
(* What the trades of a transaction bring, and its deposit or withdrawal.    *)

MoveAOs(m) == <<m, AO(Storage, m.currency, -m.amount)>>
Shares == {<<>>} \cup {MoveAOs(m) : m \in Moves}

Effect(t, a, c) == Total(TradeAOs(t), Brings(a, c))

(* The trades of t that are not committed.                                  *)
Fresh(t) == (Len(committed.trades) + 1)..Len(t)
Gained(t, a, c) == SumFunction([i \in Fresh(t) |-> Effect(t[i], a, c)])

(* Once everything owed is posted, the balances will be the committed ones   *)
(* and what the trades and the share x bring.                               *)
Settling(b, u, t, s, x) ==
  /\ \A a \in Accounts, c \in Currencies :
       b[a][c] + Owed(s, Brings(a, c))
         = committed.bal[a][c] + Gained(t, a, c) + Total(x, Brings(a, c))
  /\ \A m \in Received :
       u[m] + Owed(s, Holds(m)) = committed.unconf[m] + Total(x, Holds(m))

LEMMA TradeAOsTotal ==
  ASSUME NEW t \in TradeRows, NEW w \in Weights
  PROVE  LET buyer == Owner(t.purchase)
             seller == Owner(t.sale)
             c == Form[t.purchase].currency
         IN  /\ TradeAOs(t) \in Seq(AOs)
             /\ Total(TradeAOs(t), w)
                  = w[AO(buyer, c, -t.cur)]
                    + w[AO(seller, c, Net(t.cur, seller))]
                    + w[AO(seller, BTC, -t.btc)]
                    + w[AO(buyer, BTC, Net(t.btc, buyer))]
                    + w[AO(Fees, BTC, Fee(t.btc, buyer))]
                    + w[AO(Fees, c, Fee(t.cur, seller))]
<1> DEFINE buyer == Owner(t.purchase)
           seller == Owner(t.sale)
           c == Form[t.purchase].currency
<1>1. /\ buyer \in Users /\ seller \in Users
      /\ c \in Currencies /\ BTC \in Currencies
      /\ t.btc \in Int /\ t.cur \in Int
  BY EngineAssumption DEF TradeRows, Owner, Forms, Currencies
<1>2. \A x \in Int, u \in Users : Fee(x, u) \in Int /\ Net(x, u) \in Int
  BY RoundHalfUpInt, EngineAssumption DEF Fee, Net
<1>3. \A a \in Accounts, d \in Currencies, x \in Int : AO(a, d, x) \in AOs
  BY DEF AO, AOs
<1>4. Users \subseteq Accounts /\ Fees \in Accounts
  BY DEF Accounts
<1> HIDE DEF buyer, seller, c
<1>5. /\ AO(buyer, c, -t.cur) \in AOs
      /\ AO(seller, c, Net(t.cur, seller)) \in AOs
      /\ AO(seller, BTC, -t.btc) \in AOs
      /\ AO(buyer, BTC, Net(t.btc, buyer)) \in AOs
      /\ AO(Fees, BTC, Fee(t.btc, buyer)) \in AOs
      /\ AO(Fees, c, Fee(t.cur, seller)) \in AOs
  BY <1>1, <1>2, <1>3, <1>4
<1>6. TradeAOs(t) = << AO(buyer, c, -t.cur), AO(seller, c, Net(t.cur, seller)),
        AO(seller, BTC, -t.btc), AO(buyer, BTC, Net(t.btc, buyer)),
        AO(Fees, BTC, Fee(t.btc, buyer)), AO(Fees, c, Fee(t.cur, seller)) >>
  BY DEF TradeAOs, buyer, seller, c
<1>7. /\ TradeAOs(t) \in Seq(AOs)
      /\ Total(TradeAOs(t), w)
           = w[AO(buyer, c, -t.cur)] + w[AO(seller, c, Net(t.cur, seller))]
             + w[AO(seller, BTC, -t.btc)]
             + w[AO(buyer, BTC, Net(t.btc, buyer))]
             + w[AO(Fees, BTC, Fee(t.btc, buyer))]
             + w[AO(Fees, c, Fee(t.cur, seller))]
  BY <1>5, <1>6, TotalOfSix, SMTT(30)
<1> QED
  BY <1>7 DEF buyer, seller, c

LEMMA BringsOfAO ==
  ASSUME NEW a \in Accounts, NEW c \in Currencies, NEW b \in Accounts,
         NEW d \in Currencies, NEW x \in Int
  PROVE  Brings(a, c)[AO(b, d, x)] = IF b = a /\ d = c THEN x ELSE 0
BY DEF Brings, AO, AOs

(* The account operations of a trade bring what the abstract trade does.     *)
LEMMA EffectIsAbstract ==
  ASSUME NEW t \in TradeRows, NEW a \in Accounts, NEW c \in Currencies
  PROVE  Effect(t, a, c) = Abstract!Effect(t, a, c) /\ Effect(t, a, c) \in Int
<1> DEFINE buyer == Owner(t.purchase)
           seller == Owner(t.sale)
           e == Form[t.purchase].currency
           w == Brings(a, c)
<1>1. /\ buyer \in Users /\ seller \in Users
      /\ e \in Currencies /\ BTC \in Currencies /\ e # BTC
      /\ t.btc \in Int /\ t.cur \in Int
  BY EngineAssumption DEF TradeRows, Owner, Forms, Currencies
<1>2. \A x \in Int, u \in Users : Fee(x, u) \in Int /\ Net(x, u) \in Int
  BY RoundHalfUpInt, EngineAssumption DEF Fee, Net
<1>3. Users \subseteq Accounts /\ Fees \in Accounts
  BY DEF Accounts
<1>4. Effect(t, a, c)
        = w[AO(buyer, e, -t.cur)] + w[AO(seller, e, Net(t.cur, seller))]
          + w[AO(seller, BTC, -t.btc)] + w[AO(buyer, BTC, Net(t.btc, buyer))]
          + w[AO(Fees, BTC, Fee(t.btc, buyer))]
          + w[AO(Fees, e, Fee(t.cur, seller))]
  BY TradeAOsTotal, WeightsOK DEF Effect
<1>5. Abstract!Effect(t, a, c) =
          (IF c = e /\ a = buyer THEN -t.cur ELSE 0)
        + (IF c = e /\ a = seller THEN Net(t.cur, seller) ELSE 0)
        + (IF c = e /\ a = Fees THEN Fee(t.cur, seller) ELSE 0)
        + (IF c = BTC /\ a = seller THEN -t.btc ELSE 0)
        + (IF c = BTC /\ a = buyer THEN Net(t.btc, buyer) ELSE 0)
        + (IF c = BTC /\ a = Fees THEN Fee(t.btc, buyer) ELSE 0)
  BY DEF Abstract!Effect, Abstract!BTC, BTC
<1> HIDE DEF buyer, seller, e
<1>6. \A b \in Accounts, d \in Currencies, x \in Int :
        w[AO(b, d, x)] = IF b = a /\ d = c THEN x ELSE 0
  BY BringsOfAO
<1> HIDE DEF w
<1>7. Effect(t, a, c) =
        (IF buyer = a /\ e = c THEN -t.cur ELSE 0)
        + (IF seller = a /\ e = c THEN Net(t.cur, seller) ELSE 0)
        + (IF seller = a /\ BTC = c THEN -t.btc ELSE 0)
        + (IF buyer = a /\ BTC = c THEN Net(t.btc, buyer) ELSE 0)
        + (IF Fees = a /\ BTC = c THEN Fee(t.btc, buyer) ELSE 0)
        + (IF Fees = a /\ e = c THEN Fee(t.cur, seller) ELSE 0)
  BY <1>1, <1>2, <1>3, <1>4, <1>6
<1>8. /\ -t.cur \in Int /\ Net(t.cur, seller) \in Int /\ -t.btc \in Int
      /\ Net(t.btc, buyer) \in Int /\ Fee(t.btc, buyer) \in Int
      /\ Fee(t.cur, seller) \in Int
  BY <1>1, <1>2
<1> QED
  BY <1>5, <1>7, <1>8, SMTT(30)

-----------------------------------------------------------------------------
(* What the trades of the running transaction gained.                       *)

LEMMA GainedIsInt ==
  ASSUME IInv, NEW t \in Seq(SafeRows), NEW a \in Accounts, NEW c \in Currencies
  PROVE  Gained(t, a, c) \in Int
<1> DEFINE f == [i \in Fresh(t) |-> Effect(t[i], a, c)]
<1>1. /\ Len(t) \in Nat /\ Len(committed.trades) \in Nat
      /\ \A i \in 1..Len(t) : t[i] \in TradeRows
  BY DEF IInv, SafeTables, SafeRows
<1>2. IsFiniteSet(Fresh(t))
  BY <1>1, FS_Interval DEF Fresh
<1>3. \A i \in Fresh(t) : f[i] \in Int
  BY <1>1, EffectIsAbstract DEF Fresh
<1>4. DOMAIN f = Fresh(t)
  OBVIOUS
<1> HIDE DEF f
<1>5. SumFunction(f) \in Int
  BY <1>2, <1>3, <1>4, SumIsInt DEF SumFunction
<1> QED
  BY <1>5 DEF f, Gained

LEMMA GainedAppended ==
  ASSUME IInv, Working, NEW row \in SafeRows,
         NEW a \in Accounts, NEW c \in Currencies
  PROVE  Gained(Append(trades, row), a, c)
           = Gained(trades, a, c) + Effect(row, a, c)
<1> DEFINE n == Len(trades)
           m == Len(committed.trades) + 1
           t == Append(trades, row)
           p == [i \in Fresh(trades) |-> Effect(trades[i], a, c)]
           q == [i \in Fresh(t) |-> Effect(t[i], a, c)]
<1>1. /\ n \in Nat /\ m \in Nat /\ m >= 1 /\ m <= n + 1
      /\ Len(t) = n + 1 /\ t[n + 1] = row
      /\ \A i \in 1..n : t[i] = trades[i] /\ trades[i] \in TradeRows
      /\ row \in TradeRows
  BY DEF IInv, SafeTables, SafeRows, Working, Prolongs
<1>2. Fresh(trades) = m..n /\ Fresh(t) = m..(n + 1)
  BY <1>1 DEF Fresh
<1> HIDE DEF n, m, t
<1>3. \A i \in 1..n : Effect(trades[i], a, c) \in Int
  BY <1>1, EffectIsAbstract
<1>4. Effect(row, a, c) \in Int
  BY <1>1, EffectIsAbstract
<1>5. /\ p \in [m..n -> Int] /\ q \in [m..(n + 1) -> Int]
      /\ \A i \in m..n : q[i] = p[i]
      /\ q[n + 1] = Effect(row, a, c)
  <2>1. /\ \A i \in m..n : i \in 1..n
        /\ \A i \in m..(n + 1) : i \in 1..n \/ i = n + 1
        /\ n + 1 \in m..(n + 1) /\ \A i \in m..n : i \in m..(n + 1)
    BY <1>1
  <2>2. \A i \in m..(n + 1) : Effect(t[i], a, c) \in Int
    BY <1>1, <1>3, <1>4, <2>1
  <2> QED
    BY <1>1, <1>2, <1>3, <2>1, <2>2
<1> HIDE DEF p, q
<1>6. SumFunction(q) = SumFunction(p) + q[n + 1]
  BY <1>1, <1>5, SumAppended
<1> QED
  BY <1>5, <1>6 DEF Gained, p, q, t

(* Nothing is gained when there is no trade to commit.                      *)
LEMMA GainedByNone ==
  ASSUME IInv, NEW a \in Accounts, NEW c \in Currencies
  PROVE  Gained(committed.trades, a, c) = 0
<1>1. Len(committed.trades) \in Nat
  BY DEF IInv, SafeTables
<1>2. Fresh(committed.trades) = {}
  BY <1>1 DEF Fresh
<1>3. SumFunction([i \in Fresh(committed.trades)
                     |-> Effect(committed.trades[i], a, c)]) = 0
  BY <1>2, SumOfNone DEF SumFunction
<1> QED
  BY <1>3 DEF Gained

(* What the account operation ao does to the tables.                        *)
LEMMA HoldsAndBrings ==
  ASSUME NEW ao \in AOs
  PROVE  /\ \A a \in Accounts, c \in Currencies :
              Brings(a, c)[ao] =
                IF ao.confirmed /\ ao.account = a /\ ao.currency = c
                THEN ao.amount ELSE 0
         /\ \A m \in Received :
              Holds(m)[ao] = IF ~ao.confirmed /\ ao = m THEN 1 ELSE 0
BY DEF Brings, Holds

LEMMA RowBrings ==
  ASSUME IInv, NEW ao \in AOs, NEW left, InsertRow(ao, left)
  PROVE  /\ \A a \in Accounts, c \in Currencies :
              bal'[a][c] = bal[a][c] + Brings(a, c)[ao]
         /\ \A m \in Received : unconf'[m] = unconf[m] + Holds(m)[ao]
<1>1. /\ bal \in [Accounts -> [Currencies -> Int]]
      /\ unconf \in [Received -> Nat]
      /\ ao.account \in Accounts /\ ao.currency \in Currencies
      /\ ao.amount \in Int
  BY DEF IInv, SafeTables, SafeBalances, AOs
<1>2. CASE ao.confirmed
  <2>1. /\ bal' = [bal EXCEPT ![ao.account][ao.currency] = @ + ao.amount]
        /\ unconf' = unconf
    BY <1>2 DEF InsertRow
  <2>2. ASSUME NEW a \in Accounts, NEW c \in Currencies
        PROVE  bal'[a][c] = bal[a][c] + Brings(a, c)[ao]
    <3>1. Brings(a, c)[ao] = IF ao.account = a /\ ao.currency = c
                             THEN ao.amount ELSE 0
      BY <1>2, HoldsAndBrings
    <3>2. bal'[a][c] = IF ao.account = a /\ ao.currency = c
                       THEN bal[a][c] + ao.amount ELSE bal[a][c]
      BY <1>1, <2>1
    <3> QED
      BY <1>1, <3>1, <3>2
  <2>3. ASSUME NEW m \in Received PROVE unconf'[m] = unconf[m] + Holds(m)[ao]
    BY <1>1, <1>2, <2>1, HoldsAndBrings
  <2> QED
    BY <2>2, <2>3
<1>3. CASE ~ao.confirmed
  <2>1. bal' = bal /\ unconf' = [unconf EXCEPT ![ao] = @ + 1]
    BY <1>3 DEF InsertRow
  <2>2. ASSUME NEW a \in Accounts, NEW c \in Currencies
        PROVE  bal'[a][c] = bal[a][c] + Brings(a, c)[ao]
    <3>1. Brings(a, c)[ao] = 0
      BY <1>3, HoldsAndBrings
    <3> QED
      BY <1>1, <2>1, <3>1
  <2>3. ASSUME NEW m \in Received PROVE unconf'[m] = unconf[m] + Holds(m)[ao]
    <3>1. Holds(m)[ao] = IF ao = m THEN 1 ELSE 0
      BY <1>3, HoldsAndBrings
    <3> QED
      BY <1>1, <2>1, <3>1
  <2> QED
    BY <2>2, <2>3
<1> QED
  BY <1>2, <1>3

-----------------------------------------------------------------------------
(* How the steps change what is owed.                                       *)

LEMMA ShareIsInt ==
  ASSUME NEW x \in Shares, NEW w \in Weights
  PROVE  Total(x, w) \in Int
<1>1. ASSUME NEW m \in Moves PROVE MoveAOs(m) \in Seq(AOs)
  <2>1. m \in AOs /\ AO(Storage, m.currency, -m.amount) \in AOs
    BY EngineAssumption DEF AO, AOs, Accounts
  <2> QED
    BY <2>1 DEF MoveAOs
<1>2. x \in Seq(AOs)
  <2>1. CASE x = <<>>
    BY <2>1
  <2>2. CASE x # <<>>
    BY <1>1, <2>2 DEF Shares
  <2> QED
    BY <2>1, <2>2
<1> QED
  BY <1>2, TotalIsInt

SettlingStays ==
  \A x \in Shares : Settling(bal, unconf, trades, stack, x)
           => Settling(bal', unconf', trades', stack', x)

(* A step that touches no balance, no trade and nothing owed.               *)
LEMMA SettlingSame ==
  ASSUME UNCHANGED <<bal, unconf, trades>>,
         \A w \in Weights : Owed(stack', w) = Owed(stack, w)
  PROVE  SettlingStays
<1>1. /\ \A a \in Accounts, c \in Currencies :
           Owed(stack', Brings(a, c)) = Owed(stack, Brings(a, c))
      /\ \A m \in Received : Owed(stack', Holds(m)) = Owed(stack, Holds(m))
  BY WeightsOK
<1> QED
  BY <1>1 DEF SettlingStays, Settling

(* The top frame returns, or another takes its place, that owes as much.     *)
LEMMA OwedReturns ==
  ASSUME IInv, stack # <<>>, stack' = Rest,
         NEW w \in Weights, OwedBy(Top, w) = 0
  PROVE  Owed(stack', w) = Owed(stack, w)
BY OwedByStack

LEMMA OwedReplaced ==
  ASSUME IInv, stack # <<>>, NEW f \in SafeFrames, stack' = <<f>> \o Rest,
         NEW w \in Weights, OwedBy(f, w) = OwedBy(Top, w)
  PROVE  Owed(stack', w) = Owed(stack, w)
<1>1. Rest \in Seq(SafeFrames)
  BY TopFrame DEF IInv
<1>2. Owed(<<f>> \o Rest, w) = OwedBy(f, w) + Owed(Rest, w)
  BY <1>1, OwedByPushed
<1> QED
  BY <1>2, OwedByStack

-----------------------------------------------------------------------------
(* What each step does to what is owed.                                     *)

(* What a step of a transaction does to what is owed: nothing; it posts ao,  *)
(* which was owed; or it records a trade and owes its account operations.   *)
OwesTheSame ==
  /\ UNCHANGED <<bal, unconf, trades>>
  /\ \A w \in Weights : Owed(stack', w) = Owed(stack, w)

Pays(ao) ==
  /\ ao \in SafeAOs
  /\ \E left : InsertRow(ao, left)
  /\ trades' = trades
  /\ \A w \in Weights : /\ Owed(stack, w) = w[ao] + Owed(stack', w)
                        /\ w[ao] \in Int /\ Owed(stack', w) \in Int

Records(row) ==
  /\ row \in SafeRows
  /\ trades' = Append(trades, row)
  /\ UNCHANGED <<bal, unconf>>
  /\ \A w \in Weights :
       /\ Owed(stack', w) = Total(TradeAOs(row), w) + Owed(stack, w)
       /\ Total(TradeAOs(row), w) \in Int /\ Owed(stack, w) \in Int

LEMMA PostPays == ASSUME IInv, Post PROVE Pays(Head(Top.aos))
<1> DEFINE ao == Head(Top.aos)
           left == [Top EXCEPT !.aos = Tail(@)]
<1>1. Top \in SafePostFrames /\ stack # <<>> /\ Top.op = "post"
  BY TopFrame DEF IInv, Post, Running, Top
<1>2. /\ Top.aos \in Seq(AOs) /\ Top.refused \in Seq(AOs) /\ Top.aos # <<>>
      /\ ao \in SafeAOs /\ ao \in AOs /\ Tail(Top.aos) \in Seq(SafeAOs)
      /\ Tail(Top.aos) \in Seq(AOs)
  <2>1. Top \in SafeFrames
    BY <1>1 DEF SafeFrames
  <2>2. Top.aos # <<>> /\ Top.aos \in Seq(SafeAOs)
    BY <1>1 DEF Post, SafePostFrames
  <2> QED
    BY <1>1, <2>1, <2>2, PostFrame, TopAndRest DEF SafeAOs
<1>3. /\ left \in SafeFrames /\ left.op = "post" /\ left.aos = Tail(Top.aos)
      /\ left.refused = Top.refused
  BY <1>1, <1>2 DEF SafePostFrames, SafeFrames
<1>4. InsertRow(ao, left) /\ trades' = trades
  BY DEF Post
<1> HIDE DEF left, ao
<1>5. ASSUME NEW w \in Weights
      PROVE  /\ Owed(stack, w) = w[ao] + Owed(stack', w)
             /\ w[ao] \in Int /\ Owed(stack', w) \in Int
  <2>1. Rest \in Seq(SafeFrames) /\ OwedBy(left, w) \in Int
    BY <1>1, <1>3, TopFrame, OwedByIsInt DEF IInv
  <2>2. w[ao] \in Int
    BY <1>2 DEF Weights
  <2>3. OwedBy(Top, w) = w[ao] + OwedBy(left, w)
    <3>1. Total(Top.aos, w) = w[ao] + Total(Tail(Top.aos), w)
      BY <1>2, TotalOfTail DEF ao
    <3>2. /\ OwedBy(Top, w) = Total(Top.aos, w) + Total(Top.refused, w)
          /\ OwedBy(left, w) = Total(Tail(Top.aos), w) + Total(Top.refused, w)
      BY <1>1, <1>3 DEF OwedBy
    <3>3. Total(Tail(Top.aos), w) \in Int /\ Total(Top.refused, w) \in Int
      BY <1>2, TotalIsInt
    <3> QED
      BY <2>2, <3>1, <3>2, <3>3
  <2>4. Owed(stack', w) = OwedBy(left, w) + Owed(Rest, w)
    <3>1. CASE stack' = <<left>> \o Rest
      BY <1>3, <2>1, <3>1, OwedByPushed
    <3>2. CASE stack' # <<left>> \o Rest
      <4>1. PICK f : stack' = <<f, left>> \o Rest /\ f.op = "refresh"
                     /\ f \in RefreshFrames
        <5> DEFINE f == [op |-> "refresh", ao |-> ao,
                todo |-> {Copy(o) : o \in
                  {n \in Ids : Placed(n) /\ Owner(n) = ao.account}}]
        <5>1. stack' = <<f, left>> \o Rest
          BY <1>4, <3>2 DEF InsertRow
        <5>2. f \in RefreshFrames
          BY <1>2 DEF IInv, SafeTables, RefreshFrames, Copy, Copies, Rows
        <5> QED
          BY <5>1, <5>2
      <4>2. f \in SafeFrames /\ OwedBy(f, w) = 0
        BY <4>1 DEF SafeFrames, OwedBy
      <4>3. Owed(stack', w) = OwedBy(f, w) + OwedBy(left, w) + Owed(Rest, w)
        BY <1>3, <2>1, <4>1, <4>2, OwedByTwo
      <4>4. Owed(Rest, w) \in Int
        BY <2>1, OwedIsInt
      <4> QED
        BY <2>1, <4>2, <4>3, <4>4
    <3> QED
      BY <3>1, <3>2
  <2>5. Owed(stack, w) = OwedBy(Top, w) + Owed(Rest, w) /\ Owed(Rest, w) \in Int
    BY <1>1, OwedByStack
  <2> DEFINE o1 == Owed(stack, w)
             o2 == Owed(stack', w)
             o3 == Owed(Rest, w)
             b1 == OwedBy(Top, w)
             b2 == OwedBy(left, w)
  <2>6. /\ o2 = b2 + o3 /\ o1 = b1 + o3 /\ b1 = w[ao] + b2
        /\ o3 \in Int /\ b2 \in Int
    BY <2>1, <2>3, <2>4, <2>5
  <2> HIDE DEF o1, o2, o3, b1, b2
  <2>7. o1 = w[ao] + o2 /\ o2 \in Int
    BY <2>2, <2>6
  <2> QED
    BY <2>2, <2>7 DEF o1, o2
<1> QED
  BY <1>2, <1>4, <1>5 DEF Pays, ao

(* What is refused is still owed.                                           *)
LEMMA RefuseOwesTheSame == ASSUME IInv, Refuse PROVE OwesTheSame
<1> DEFINE ao == Head(Top.aos)
           left == [Top EXCEPT !.aos = Tail(@),
                               !.refused = Append(@, Head(Top.aos))]
<1>1. Top \in SafePostFrames /\ stack # <<>> /\ Top.op = "post"
  BY TopFrame DEF IInv, Refuse, Running, Top
<1>2. /\ Top.aos \in Seq(AOs) /\ Top.refused \in Seq(AOs) /\ Top.aos # <<>>
      /\ ao \in AOs /\ Tail(Top.aos) \in Seq(SafeAOs)
      /\ Tail(Top.aos) \in Seq(AOs)
  <2>1. Top \in SafeFrames
    BY <1>1 DEF SafeFrames
  <2>2. Top.aos # <<>> /\ Top.aos \in Seq(SafeAOs)
    BY <1>1 DEF Refuse, SafePostFrames
  <2> QED
    BY <1>1, <2>1, <2>2, PostFrame, TopAndRest
<1>3. ao \in ConfirmedAOs
  <2>1. ao \in SafeAOs
    BY <1>1, <1>2, TopAndRest DEF SafePostFrames
  <2> QED
    BY <2>1, EngineAssumption
    DEF Refuse, Covered, ConfirmedAOs, SafeAOs, AOs, Received
<1>4. /\ left \in SafeFrames /\ left.op = "post" /\ left.aos = Tail(Top.aos)
      /\ left.refused = Append(Top.refused, ao)
  <2>1. Append(Top.refused, ao) \in Seq(ConfirmedAOs)
    BY <1>1, <1>3 DEF SafePostFrames
  <2>2. left \in SafeFrames
    BY <1>1, <1>2, <2>1 DEF SafePostFrames, SafeFrames
  <2>3. left.op = "post" /\ left.aos = Tail(Top.aos)
    BY <1>1 DEF SafePostFrames
  <2>4. left.refused = Append(Top.refused, ao)
    BY <1>1 DEF SafePostFrames
  <2> QED
    BY <2>2, <2>3, <2>4
<1>5. stack' = <<left>> \o Rest /\ UNCHANGED <<bal, unconf, trades>>
  BY DEF Refuse
<1> HIDE DEF left, ao
<1>6. ASSUME NEW w \in Weights PROVE OwedBy(left, w) = OwedBy(Top, w)
  <2>1. /\ OwedBy(Top, w) = Total(Top.aos, w) + Total(Top.refused, w)
        /\ OwedBy(left, w)
             = Total(Tail(Top.aos), w) + Total(Append(Top.refused, ao), w)
    BY <1>1, <1>4 DEF OwedBy
  <2>2. Total(Top.aos, w) = w[ao] + Total(Tail(Top.aos), w)
    BY <1>2, TotalOfTail DEF ao
  <2>3. Total(Append(Top.refused, ao), w) = Total(Top.refused, w) + w[ao]
    BY <1>2, TotalOfAppend
  <2>4. /\ Total(Tail(Top.aos), w) \in Int /\ Total(Top.refused, w) \in Int
        /\ w[ao] \in Int
    BY <1>2, TotalIsInt DEF Weights
  <2> QED
    BY <2>1, <2>2, <2>3, <2>4
<1>7. \A w \in Weights : Owed(stack', w) = Owed(stack, w)
  BY <1>1, <1>4, <1>5, <1>6, OwedReplaced
<1> QED
  BY <1>5, <1>7 DEF OwesTheSame

(* A trade owes what it will bring.                                         *)
LEMMA RecordTradeRecords ==
  ASSUME IInv, RecordTrade PROVE \E row : Records(row)
<1>1. Top \in SafeMatchFrames /\ Rest \in Seq(SafeFrames) /\ stack # <<>>
      /\ Top.op = "match"
  BY TopFrame DEF IInv, RecordTrade, Running, Top
<1>2. PICK mo \in Best(Top.self.id, Top.mos) :
        /\ trades' = Append(trades, TradeRow(Top.self, mo))
        /\ stack' = << Posting(TradeAOs(TradeRow(Top.self, mo)), <<>>, BTC),
                       [op |-> "settle",
                        self |-> [Top.self EXCEPT !.amount =
                                    @ - TradedBtc(Top.self, mo)],
                        mo |-> [mo EXCEPT
                                  !.amount = @ - TradedBtc(Top.self, mo)],
                        mos |-> Top.mos \ {mo}] >> \o Rest
  BY DEF RecordTrade
<1> DEFINE row == TradeRow(Top.self, mo)
           f == Posting(TradeAOs(row), <<>>, BTC)
           g == [op |-> "settle",
                 self |-> [Top.self EXCEPT
                             !.amount = @ - TradedBtc(Top.self, mo)],
                 mo |-> [mo EXCEPT !.amount = @ - TradedBtc(Top.self, mo)],
                 mos |-> Top.mos \ {mo}]
<1>3. Top.self \in Copies /\ mo \in Top.mos /\ mo \in Copies
      /\ Matches(Top.self.id, mo.id)
  BY <1>1 DEF Best, SafeMatchFrames, MatchFrames
<1>4. row \in SafeRows
  BY <1>3, TradeRowSafe DEF IInv, SafeTables, SafeBalances
<1>5. f \in SafeFrames /\ TradeAOs(row) \in Seq(AOs)
  <2>1. BTC \in Currencies /\ TradeAOs(row) \in Seq(SafeAOs)
    BY <1>4, TradeAOsSafe DEF SafeRows, Currencies
  <2> QED
    BY <2>1, PostingAnewSafe, SeqOfSubset DEF SafeAOs
<1>6. g \in SafeFrames
  <2>1. stack' \in Seq(SafeFrames)
    BY RecordTradeSafe DEF IInv
  <2>2. stack' = <<f, g>> \o Rest
    BY <1>2
  <2> HIDE DEF f, g
  <2>3. stack'[2] = g /\ 2 \in DOMAIN stack'
    BY <2>2, <1>1
  <2> QED
    BY <2>1, <2>3
<1>7. stack' = <<f, g>> \o Rest /\ trades' = Append(trades, row)
  BY <1>2
<1>8. g.op = "settle" /\ f.op = "post" /\ f.aos = TradeAOs(row)
      /\ f.refused = <<>>
  BY DEF Posting
<1>9. UNCHANGED <<bal, unconf>>
  BY DEF RecordTrade
<1> HIDE DEF f, g, row
<1>10. ASSUME NEW w \in Weights
       PROVE  /\ Owed(stack', w) = Total(TradeAOs(row), w) + Owed(stack, w)
              /\ Total(TradeAOs(row), w) \in Int /\ Owed(stack, w) \in Int
  <2>1. OwedBy(g, w) = 0 /\ OwedBy(Top, w) = 0
    BY <1>1, <1>8 DEF OwedBy
  <2>2. OwedBy(f, w) = Total(TradeAOs(row), w) + 0
    BY <1>8, TotalOfNone DEF OwedBy
  <2>3. Total(TradeAOs(row), w) \in Int
    BY <1>5, TotalIsInt
  <2>4. Owed(stack', w) = OwedBy(f, w) + OwedBy(g, w) + Owed(Rest, w)
    BY <1>1, <1>5, <1>6, <1>7, OwedByTwo
  <2>5. Owed(stack, w) = OwedBy(Top, w) + Owed(Rest, w) /\ Owed(Rest, w) \in Int
    BY <1>1, OwedByStack
  <2> QED
    BY <2>1, <2>2, <2>3, <2>4, <2>5
<1> QED
  BY <1>4, <1>7, <1>9, <1>10 DEF Records

(* Every other frame owes nothing.                                          *)
LEMMA StepOwes ==
  ASSUME IInv, Step, ~Running("insert"), ~Running("insert")'
  PROVE  \/ Rollback
         \/ Persist /\ OwesTheSame
         \/ Persist /\ \E ao : Pays(ao)
         \/ Persist /\ \E row : Records(row)
<1>1. CASE Skip
  <2>1. PICK mo : stack' = <<[Top EXCEPT !.mos = @ \ {mo}]>> \o Rest
    BY <1>1 DEF Skip
  <2>2. Top \in SafeMatchFrames /\ stack # <<>> /\ Top.op = "match"
    BY <1>1, TopFrame DEF IInv, Skip, Running, Top
  <2> DEFINE f == [Top EXCEPT !.mos = @ \ {mo}]
  <2>3. f \in SafeFrames /\ f.op = "match"
    BY <2>2 DEF SafeMatchFrames, MatchFrames, SafeFrames
  <2>4. stack' = <<f>> \o Rest
    BY <2>1
  <2> HIDE DEF f
  <2>5. \A w \in Weights : OwedBy(f, w) = OwedBy(Top, w)
    BY <2>2, <2>3 DEF OwedBy
  <2> QED
    BY <1>1, <2>2, <2>3, <2>4, <2>5, OwedReplaced DEF OwesTheSame, Skip
<1>2. CASE RecordTrade
  BY <1>2, RecordTradeRecords DEF RecordTrade
<1>3. CASE OrderMissing
  BY <1>3 DEF OrderMissing
<1>4. CASE Settle
  <2> DEFINE f == [op |-> "match", self |-> Top.self, mos |-> Top.mos,
                   alive |-> Top.self.amount # 0]
  <2>1. Top \in SafeSettleFrames /\ stack # <<>> /\ Top.op = "settle"
    BY <1>4, TopFrame DEF IInv, Settle, Running, Top
  <2>2. f \in SafeFrames /\ f.op = "match"
    BY <2>1 DEF SafeSettleFrames, SettleFrames, SafeMatchFrames, MatchFrames,
                SafeFrames
  <2>3. stack' = <<f>> \o Rest
    BY <1>4 DEF Settle
  <2> HIDE DEF f
  <2>4. \A w \in Weights : OwedBy(f, w) = OwedBy(Top, w)
    BY <2>1, <2>2 DEF OwedBy
  <2> QED
    BY <1>4, <2>1, <2>2, <2>3, <2>4, OwedReplaced DEF OwesTheSame, Settle
<1>5. CASE ExecuteReturns
  <2>1. stack # <<>> /\ Top.op = "match"
    BY <1>5 DEF ExecuteReturns, Running, Top
  <2>2. \A w \in Weights : OwedBy(Top, w) = 0
    BY <2>1 DEF OwedBy
  <2> QED
    BY <1>5, <2>1, <2>2, OwedReturns DEF OwesTheSame, ExecuteReturns
<1>6. CASE Post
  BY <1>6, PostPays DEF Post
<1>7. CASE Refuse
  BY <1>7, RefuseOwesTheSame DEF Refuse
<1>8. CASE SaveRefused
  <2>1. ASSUME stack' = <<Inserting(Rewritten(Top.refused, Top.last))>> \o Rest
        PROVE  FALSE
    <3>1. Rest \in Seq(SafeFrames)
      BY <1>8, TopFrame DEF IInv, SaveRefused, Running
    <3>2. /\ stack' # <<>>
          /\ Head(stack') = Inserting(Rewritten(Top.refused, Top.last))
      BY <2>1, <3>1
    <3> QED
      BY <3>2 DEF Running, Inserting
  <2> QED
    BY <1>8, <2>1 DEF SaveRefused
<1>9. CASE Insert \/ Drop
  BY <1>9 DEF Insert, Drop
<1>10. CASE PostReturns
  <2>1. Top \in SafePostFrames /\ stack # <<>> /\ Top.op = "post"
    BY <1>10, TopFrame DEF IInv, PostReturns, Running, Top
  <2>2. Top.aos = <<>> /\ Top.refused = <<>>
    BY <1>10 DEF PostReturns
  <2>3. \A w \in Weights : OwedBy(Top, w) = 0
    BY <2>1, <2>2, TotalOfNone DEF OwedBy
  <2> QED
    BY <1>10, <2>1, <2>3, OwedReturns DEF OwesTheSame, PostReturns
<1>11. CASE RefreshLimitOrder
  <2>1. PICK t : stack' = <<[Top EXCEPT !.todo = @ \ {t}]>> \o Rest
    BY <1>11 DEF RefreshLimitOrder
  <2>2. Top \in RefreshFrames /\ stack # <<>> /\ Top.op = "refresh"
    BY <1>11, TopFrame DEF IInv, RefreshLimitOrder, Running, Top
  <2> DEFINE f == [Top EXCEPT !.todo = @ \ {t}]
  <2>3. f \in SafeFrames /\ f.op = "refresh"
    BY <2>2 DEF RefreshFrames, SafeFrames
  <2>4. stack' = <<f>> \o Rest
    BY <2>1
  <2> HIDE DEF f
  <2>5. \A w \in Weights : OwedBy(f, w) = OwedBy(Top, w)
    BY <2>2, <2>3 DEF OwedBy
  <2> QED
    BY <1>11, <2>2, <2>3, <2>4, <2>5, OwedReplaced
    DEF OwesTheSame, RefreshLimitOrder
<1>12. CASE RefreshMarketOrder
  <2>1. Top \in RefreshFrames /\ stack # <<>> /\ Top.op = "refresh"
    BY <1>12, TopFrame DEF IInv, RefreshMarketOrder, Running, Top
  <2>2. PICK t \in Newest(Top.todo) :
          \/ stack' = <<Execution(t)>>
                        \o (<<[Top EXCEPT !.todo = @ \ {t}]>> \o Rest)
          \/ stack' = <<[Top EXCEPT !.todo = @ \ {t}]>> \o Rest
    BY <1>12 DEF RefreshMarketOrder
  <2> DEFINE f == [Top EXCEPT !.todo = @ \ {t}]
             g == Execution(t)
  <2>3. f \in SafeFrames /\ f.op = "refresh"
    BY <2>1 DEF RefreshFrames, SafeFrames
  <2>4. g \in SafeFrames /\ g.op = "match"
    <3>1. t \in Copies
      BY <2>1 DEF Newest, RefreshFrames
    <3> QED
      BY <3>1, ExecutionSafe DEF IInv, SafeTables, SafeFrames, Execution
  <2>5. stack' = <<g>> \o (<<f>> \o Rest) \/ stack' = <<f>> \o Rest
    BY <2>2
  <2> HIDE DEF f, g
  <2>6. ASSUME NEW w \in Weights PROVE Owed(stack', w) = Owed(stack, w)
    <3>1. OwedBy(f, w) = 0 /\ OwedBy(g, w) = 0 /\ OwedBy(Top, w) = 0
      BY <2>1, <2>3, <2>4 DEF OwedBy
    <3>2. Rest \in Seq(SafeFrames)
      BY <2>1, TopFrame DEF IInv
    <3>3. /\ Owed(<<f>> \o Rest, w) = 0 + Owed(Rest, w)
          /\ <<f>> \o Rest \in Seq(SafeFrames)
      BY <2>3, <3>1, <3>2, OwedByPushed, PushFrame
    <3>4. Owed(<<g>> \o (<<f>> \o Rest), w) = 0 + Owed(<<f>> \o Rest, w)
      BY <2>4, <3>1, <3>3, OwedByPushed
    <3>5. Owed(stack, w) = 0 + Owed(Rest, w) /\ Owed(Rest, w) \in Int
      BY <2>1, <3>1, OwedByStack
    <3>6. \A y \in Int : 0 + y = y
      OBVIOUS
    <3> QED
      BY <2>5, <3>3, <3>4, <3>5, <3>6
  <2> QED
    BY <1>12, <2>6 DEF OwesTheSame, RefreshMarketOrder
<1>13. CASE RefreshReturns
  <2>1. stack # <<>> /\ Top.op = "refresh"
    BY <1>13 DEF RefreshReturns, Running, Top
  <2>2. \A w \in Weights : OwedBy(Top, w) = 0
    BY <2>1 DEF OwedBy
  <2> QED
    BY <1>13, <2>1, <2>2, OwedReturns DEF OwesTheSame, RefreshReturns
<1> QED
  BY <1>1, <1>2, <1>3, <1>4, <1>5, <1>6, <1>7, <1>8, <1>9, <1>10, <1>11,
     <1>12, <1>13 DEF Step

-----------------------------------------------------------------------------
(* What is settled once everything owed is paid.                            *)

(* The head of what a frame posts is no longer owed.                        *)
LEMMA SettlingPays ==
  ASSUME IInv, NEW ao, Pays(ao) PROVE SettlingStays
<1>1. SUFFICES ASSUME NEW x \in Shares, Settling(bal, unconf, trades, stack, x)
      PROVE Settling(bal', unconf', trades', stack', x)
  BY DEF SettlingStays
<1>2. ao \in AOs /\ trades' = trades
  BY DEF Pays, SafeAOs
<1>3. PICK left : InsertRow(ao, left)
  BY DEF Pays
<1>4. ASSUME NEW a \in Accounts, NEW c \in Currencies
      PROVE  bal'[a][c] + Owed(stack', Brings(a, c))
               = bal[a][c] + Owed(stack, Brings(a, c))
  <2>1. bal'[a][c] = bal[a][c] + Brings(a, c)[ao]
    BY <1>2, <1>3, RowBrings
  <2>2. /\ Owed(stack, Brings(a, c))
             = Brings(a, c)[ao] + Owed(stack', Brings(a, c))
        /\ Brings(a, c)[ao] \in Int /\ Owed(stack', Brings(a, c)) \in Int
    BY WeightsOK DEF Pays
  <2>3. bal[a][c] \in Int
    BY DEF IInv, SafeTables, SafeBalances
  <2> QED
    BY <2>1, <2>2, <2>3
<1>5. ASSUME NEW m \in Received
      PROVE  unconf'[m] + Owed(stack', Holds(m))
               = unconf[m] + Owed(stack, Holds(m))
  <2>1. unconf'[m] = unconf[m] + Holds(m)[ao]
    BY <1>2, <1>3, RowBrings
  <2>2. /\ Owed(stack, Holds(m)) = Holds(m)[ao] + Owed(stack', Holds(m))
        /\ Holds(m)[ao] \in Int /\ Owed(stack', Holds(m)) \in Int
    BY WeightsOK DEF Pays
  <2>3. unconf[m] \in Int
    BY DEF IInv, SafeTables
  <2> QED
    BY <2>1, <2>2, <2>3
<1> QED
  BY <1>1, <1>2, <1>4, <1>5 DEF Settling

(* A trade owes what it will bring.                                         *)
LEMMA SettlingRecords ==
  ASSUME IInv, Working, NEW row, Records(row) PROVE SettlingStays
<1>1. ASSUME NEW a \in Accounts, NEW c \in Currencies
       PROVE  /\ Owed(stack', Brings(a, c))
                   = Effect(row, a, c) + Owed(stack, Brings(a, c))
              /\ Gained(trades', a, c)
                   = Gained(trades, a, c) + Effect(row, a, c)
              /\ Effect(row, a, c) \in Int /\ Gained(trades, a, c) \in Int
              /\ Owed(stack, Brings(a, c)) \in Int
  BY WeightsOK, GainedAppended, GainedIsInt
  DEF Records, Effect, IInv, SafeTables
<1>2. ASSUME NEW m \in Received
       PROVE  Owed(stack', Holds(m)) = Owed(stack, Holds(m))
  <2>1. Total(TradeAOs(row), Holds(m)) = 0
    <3> DEFINE w == Holds(m)
               buyer == Owner(row.purchase)
               seller == Owner(row.sale)
               c == Form[row.purchase].currency
    <3>1. /\ Total(TradeAOs(row), w)
                  = w[AO(buyer, c, -row.cur)]
                    + w[AO(seller, c, Net(row.cur, seller))]
                    + w[AO(seller, BTC, -row.btc)]
                    + w[AO(buyer, BTC, Net(row.btc, buyer))]
                    + w[AO(Fees, BTC, Fee(row.btc, buyer))]
                    + w[AO(Fees, c, Fee(row.cur, seller))]
      BY TradeAOsTotal, WeightsOK DEF SafeRows, Records
    <3>2. /\ buyer \in Users /\ seller \in Users
          /\ c \in Currencies /\ BTC \in Currencies
          /\ row.btc \in Int /\ row.cur \in Int
      BY EngineAssumption
      DEF Records, SafeRows, TradeRows, Owner, Forms, Currencies
    <3>3. \A x \in Int, u \in Users : Fee(x, u) \in Int /\ Net(x, u) \in Int
      BY RoundHalfUpInt, EngineAssumption DEF Fee, Net
    <3>4. Users \subseteq Accounts /\ Fees \in Accounts
      BY DEF Accounts
    <3>5. \A a \in Accounts, d \in Currencies, x \in Int : w[AO(a, d, x)] = 0
      BY DEF AO, AOs, Holds
    <3> HIDE DEF w, buyer, seller, c
    <3> QED
      BY <3>1, <3>2, <3>3, <3>4, <3>5 DEF w
  <2>2. /\ Owed(stack', Holds(m))
             = Total(TradeAOs(row), Holds(m)) + Owed(stack, Holds(m))
        /\ Owed(stack, Holds(m)) \in Int
    BY WeightsOK DEF Records
  <2> QED
    BY <2>1, <2>2
<1>3. SUFFICES ASSUME NEW x \in Shares, Settling(bal, unconf, trades, stack, x)
       PROVE Settling(bal', unconf', trades', stack', x)
  BY DEF SettlingStays
<1>4. ASSUME NEW a \in Accounts, NEW c \in Currencies
       PROVE  bal'[a][c] + Owed(stack', Brings(a, c))
                = committed.bal[a][c] + Gained(trades', a, c)
                    + Total(x, Brings(a, c))
  <2> DEFINE e == Effect(row, a, c)
             o1 == Owed(stack, Brings(a, c))
             o2 == Owed(stack', Brings(a, c))
             g1 == Gained(trades, a, c)
             g2 == Gained(trades', a, c)
             y == Total(x, Brings(a, c))
             b1 == bal[a][c]
             b0 == committed.bal[a][c]
  <2>1. /\ b1 \in Int /\ b0 \in Int /\ bal'[a][c] = b1 /\ y \in Int
    BY ShareIsInt, WeightsOK DEF Records, IInv, SafeTables, SafeBalances
  <2>2. /\ o2 = e + o1 /\ g2 = g1 + e /\ e \in Int /\ g1 \in Int /\ o1 \in Int
    BY <1>1
  <2>3. b1 + o1 = b0 + g1 + y
    BY <1>3 DEF Settling
  <2> HIDE DEF e, o1, o2, g1, g2, y, b1, b0
  <2>4. b1 + o2 = b0 + g2 + y
    BY <2>1, <2>2, <2>3
  <2> QED
    BY <2>1, <2>4 DEF o2, b0, g2, y
<1> QED
  BY <1>2, <1>3, <1>4 DEF Settling, Records

LEMMA SettlingStep ==
  ASSUME IInv, Working, Step, ~Running("insert"), ~Running("insert")'
  PROVE  Rollback \/ (Persist /\ SettlingStays)
BY StepOwes, SettlingSame, SettlingPays, SettlingRecords DEF OwesTheSame

-----------------------------------------------------------------------------
(* The invariant.                                                           *)
Clean ==
  /\ bal = committed.bal
  /\ unconf = committed.unconf
  /\ orders = committed.orders
  /\ trades = committed.trades

Quiet == AtRest => Clean

LedgerInv ==
  /\ Working
  /\ Quiet
  /\ \E x \in Shares : Settling(bal, unconf, trades, stack, x)

(* Nothing is owed when the tables are the committed ones and nothing runs.  *)
LEMMA SettledAtRest ==
  ASSUME IInv, stack = <<>>, Clean
  PROVE  LedgerInv
<1>1. /\ bal = committed.bal /\ unconf = committed.unconf
      /\ trades = committed.trades
  BY DEF Clean
<1>2. \A w \in Weights : Owed(stack, w) = 0 /\ Total(<<>>, w) = 0
  BY OwedByNone, TotalOfNone
<1>3. \A a \in Accounts, c \in Currencies : Gained(trades, a, c) = 0
  BY <1>1, GainedByNone
<1>4. /\ \A a \in Accounts, c \in Currencies : bal[a][c] \in Int
      /\ \A m \in Received : unconf[m] \in Int
  BY DEF IInv, SafeTables, SafeBalances
<1>5. Settling(bal, unconf, trades, stack, <<>>)
  <2>1. ASSUME NEW a \in Accounts, NEW c \in Currencies
        PROVE bal[a][c] + Owed(stack, Brings(a, c))
                = committed.bal[a][c] + Gained(trades, a, c)
                    + Total(<<>>, Brings(a, c))
    <3>1. Owed(stack, Brings(a, c)) = 0 /\ Total(<<>>, Brings(a, c)) = 0
      BY <1>2, WeightsOK
    <3> QED
      BY <1>1, <1>3, <1>4, <3>1
  <2>2. ASSUME NEW m \in Received
        PROVE unconf[m] + Owed(stack, Holds(m))
                = committed.unconf[m] + Total(<<>>, Holds(m))
    <3>1. Owed(stack, Holds(m)) = 0 /\ Total(<<>>, Holds(m)) = 0
      BY <1>2, WeightsOK
    <3> QED
      BY <1>1, <1>4, <3>1
  <2> QED
    BY <2>1, <2>2 DEF Settling
<1>6. <<>> \in Shares
  BY DEF Shares
<1>7. Working
  BY <1>1 DEF Working, Prolongs, IInv, SafeTables
<1> QED
  BY <1>5, <1>6, <1>7 DEF LedgerInv, Quiet

(* A deposit or a withdrawal owes its own account operations.               *)
LEMMA BeginMoveOwes ==
  ASSUME IInv, NEW m \in Moves, BeginMove(m), NEW w \in Weights
  PROVE  Owed(stack', w) = Total(MoveAOs(m), w) /\ Total(MoveAOs(m), w) \in Int
<1> DEFINE f == Posting(MoveAOs(m), <<>>, m.currency)
<1>1. stack' = <<f>> /\ f \in SafeFrames
  <2>1. stack' = <<f>>
    BY DEF BeginMove, MoveAOs
  <2>2. stack' \in Seq(SafeFrames)
    BY BeginMoveSafe DEF IInv
  <2> HIDE DEF f
  <2>3. stack'[1] = f /\ 1 \in DOMAIN stack'
    BY <2>1
  <2> QED
    BY <2>1, <2>2, <2>3
<1>2. MoveAOs(m) \in Shares
  BY DEF Shares
<1>3. f.op = "post" /\ f.aos = MoveAOs(m) /\ f.refused = <<>>
  BY DEF Posting
<1> HIDE DEF f
<1>4. OwedBy(f, w) = Total(MoveAOs(m), w) + 0
  BY <1>3, TotalOfNone DEF OwedBy
<1>5. <<>> \in Seq(SafeFrames) /\ <<f>> \o <<>> = <<f>>
  OBVIOUS
<1>6. Owed(<<f>> \o <<>>, w) = OwedBy(f, w) + Owed(<<>>, w)
  BY <1>1, <1>5, OwedByPushed
<1>7. Total(MoveAOs(m), w) \in Int /\ Owed(<<>>, w) = 0
  BY <1>2, ShareIsInt, OwedByNone
<1> QED
  BY <1>1, <1>4, <1>5, <1>6, <1>7

LEMMA SettlingBeginMove ==
  ASSUME IInv, LedgerInv, NEW m \in Moves, BeginMove(m)
  PROVE  /\ MoveAOs(m) \in Shares
         /\ Settling(bal', unconf', trades', stack', MoveAOs(m))
<1>1. stack = <<>> /\ Clean
  BY DEF BeginMove, LedgerInv, Quiet, AtRest
<1>2. /\ bal' = committed.bal /\ unconf' = committed.unconf
      /\ trades' = committed.trades
  BY <1>1 DEF BeginMove, Clean
<1>3. MoveAOs(m) \in Shares
  BY DEF Shares
<1>4. \A w \in Weights : /\ Owed(stack', w) = Total(MoveAOs(m), w)
                         /\ Total(MoveAOs(m), w) \in Int
  BY BeginMoveOwes
<1>5. \A a \in Accounts, c \in Currencies : Gained(trades', a, c) = 0
  BY <1>2, GainedByNone
<1>6. /\ \A a \in Accounts, c \in Currencies : bal'[a][c] \in Int
      /\ \A k \in Received : unconf'[k] \in Int
  BY <1>2 DEF IInv, SafeTables, SafeBalances
<1>7. ASSUME NEW a \in Accounts, NEW c \in Currencies
      PROVE bal'[a][c] + Owed(stack', Brings(a, c))
              = committed.bal[a][c] + Gained(trades', a, c)
                  + Total(MoveAOs(m), Brings(a, c))
  <2>1. /\ Owed(stack', Brings(a, c)) = Total(MoveAOs(m), Brings(a, c))
        /\ Total(MoveAOs(m), Brings(a, c)) \in Int
    BY <1>4, WeightsOK
  <2> QED
    BY <1>2, <1>5, <1>6, <2>1
<1>8. ASSUME NEW k \in Received
      PROVE unconf'[k] + Owed(stack', Holds(k))
              = committed.unconf[k] + Total(MoveAOs(m), Holds(k))
  BY <1>2, <1>4, WeightsOK
<1> QED
  BY <1>3, <1>7, <1>8 DEF Settling

LEMMA BeginExecuteOwesTheSame ==
  ASSUME IInv, NEW w \in Workers, BeginExecute(w)
  PROVE  OwesTheSame
<1> DEFINE f == Execution(worker[w].self)
<1>1. stack' = <<f>> /\ f \in SafeFrames
  <2>1. stack' = <<f>>
    BY DEF BeginExecute
  <2>2. stack' \in Seq(SafeFrames)
    BY BeginExecuteSafe DEF IInv
  <2> HIDE DEF f
  <2>3. stack'[1] = f /\ 1 \in DOMAIN stack'
    BY <2>1
  <2> QED
    BY <2>1, <2>2, <2>3
<1>2. f.op = "match"
  BY DEF Execution
<1>3. stack = <<>> /\ UNCHANGED <<bal, unconf, trades>>
  BY DEF BeginExecute, AtRest
<1> HIDE DEF f
<1>4. ASSUME NEW v \in Weights PROVE Owed(stack', v) = Owed(stack, v)
  <2>1. <<>> \in Seq(SafeFrames) /\ <<f>> \o <<>> = <<f>>
    OBVIOUS
  <2>2. Owed(<<f>> \o <<>>, v) = OwedBy(f, v) + Owed(<<>>, v)
    BY <1>1, <2>1, OwedByPushed
  <2>3. OwedBy(f, v) = 0 /\ Owed(<<>>, v) = 0
    BY <1>2, OwedByNone DEF OwedBy
  <2> QED
    BY <1>1, <1>3, <2>1, <2>2, <2>3
<1> QED
  BY <1>3, <1>4 DEF OwesTheSame

-----------------------------------------------------------------------------
(* A commit is one step of Settlement.                                      *)

(* The names of the abstract specification.                                 *)
LEMMA AbstractNames ==
  /\ Abstract!Accounts = Accounts
  /\ Abstract!Currencies = Currencies
  /\ Abstract!Received = Received
BY DEF Abstract!Accounts, Accounts, Abstract!Currencies, Currencies,
       Abstract!BTC, BTC, Abstract!Received, Received

LEMMA SettledIsGained ==
  ASSUME IInv, trades' \in Seq(SafeRows), committed'.trades = trades',
         NEW a \in Accounts, NEW c \in Currencies
  PROVE  Abstract!Settled(a, c) = Gained(trades', a, c)
<1>1. Abstract!Settled(a, c)
        = SumFunction([i \in (Len(committed.trades) + 1)..Len(committed'.trades)
                         |-> Abstract!Effect(committed'.trades[i], a, c)])
  BY DEF Abstract!Settled, Abstract!SumFunction, Abstract!SumFunctionOnSet,
         Abstract!FoldFunctionOnSet, Abstract!MapThenFoldSet,
         SumFunction, SumFunctionOnSet, FoldFunctionOnSet, MapThenFoldSet
<1> DEFINE t == trades'
           f == [i \in Fresh(t) |-> Effect(t[i], a, c)]
           g == [i \in Fresh(t) |-> Abstract!Effect(t[i], a, c)]
<1>2. Abstract!Settled(a, c) = SumFunction(g)
  BY <1>1 DEF Fresh
<1>3. Gained(trades', a, c) = SumFunction(f)
  BY DEF Gained
<1>4. \A i \in Fresh(t) : t[i] \in TradeRows
  BY DEF IInv, SafeTables, SafeRows, Fresh
<1> HIDE DEF t
<1>5. f = g
  BY <1>4, EffectIsAbstract
<1> QED
  BY <1>2, <1>3, <1>5

(* What a deposit or withdrawal brings.                                     *)
LEMMA MoveTotal ==
  ASSUME NEW m \in Moves, NEW a \in Accounts, NEW c \in Currencies
  PROVE  Total(MoveAOs(m), Brings(a, c))
           = IF ~m.confirmed /\ a = m.account THEN 0
             ELSE Abstract!Moved(m, a, c)
<1>1. /\ m \in AOs /\ m.account \in Users /\ m.account # Storage
      /\ ~m.confirmed => m.currency = BTC
      /\ m.amount \in Int /\ m.currency \in Currencies /\ Storage \in Accounts
  BY EngineAssumption DEF AOs, Accounts
<1> DEFINE w == Brings(a, c)
           s == AO(Storage, m.currency, -m.amount)
<1>2. s \in AOs
  BY <1>1 DEF AO, AOs
<1>3. Total(MoveAOs(m), w) = w[m] + w[s]
  BY <1>1, <1>2, TotalOfTwo, WeightsOK DEF MoveAOs
<1>4. w[m] = IF m.confirmed /\ m.account = a /\ m.currency = c
             THEN m.amount ELSE 0
  BY <1>1, HoldsAndBrings
<1>5. w[s] = IF Storage = a /\ m.currency = c THEN -m.amount ELSE 0
  BY <1>1, BringsOfAO
<1>6. Abstract!Moved(m, a, c) =
        IF c # m.currency THEN 0
        ELSE IF a = m.account THEN m.amount
        ELSE IF a = Storage THEN -m.amount ELSE 0
  BY DEF Abstract!Moved
<1> HIDE DEF w, s
<1> QED
  BY <1>1, <1>3, <1>4, <1>5, <1>6 DEF w

LEMMA MoveHeld ==
  ASSUME NEW m \in Moves, NEW k \in Received
  PROVE  Total(MoveAOs(m), Holds(k)) = IF ~m.confirmed /\ m = k THEN 1 ELSE 0
<1>1. m \in AOs /\ m.amount \in Int /\ m.currency \in Currencies
  BY EngineAssumption DEF AOs
<1> DEFINE w == Holds(k)
           s == AO(Storage, m.currency, -m.amount)
<1>2. s \in AOs /\ s.confirmed
  BY <1>1 DEF AO, AOs, Accounts
<1>3. Total(MoveAOs(m), w) = w[m] + w[s]
  BY <1>1, <1>2, TotalOfTwo, WeightsOK DEF MoveAOs
<1>4. w[m] = (IF ~m.confirmed /\ m = k THEN 1 ELSE 0) /\ w[s] = 0
  BY <1>1, <1>2, HoldsAndBrings
<1> HIDE DEF w, s
<1> QED
  BY <1>3, <1>4 DEF w

(* A commit is a step of the abstract specification.                        *)
LEMMA CommitIsAbstract ==
  ASSUME IInv, IInv', Prolongs(committed.trades, trades'),
         stack' = <<>>, committed' = Tables',
         NEW x \in Shares, Settling(bal', unconf', trades', stack', x)
  PROVE  Abstract!Trade \/ Abstract!Move
<1>1. /\ committed'.bal = bal' /\ committed'.unconf = unconf'
      /\ committed'.trades = trades'
  BY DEF Tables
<1>2. /\ bal' \in [Accounts -> [Currencies -> Int]]
      /\ \A u \in Users, c \in Currencies : bal'[u][c] >= 0
      /\ unconf' \in [Received -> Nat] /\ trades' \in Seq(SafeRows)
      /\ committed.bal \in [Accounts -> [Currencies -> Int]]
      /\ committed.unconf \in [Received -> Nat]
  BY DEF IInv, SafeTables, SafeBalances
<1>3. Abstract!Extends
  BY <1>1 DEF Abstract!Extends, Prolongs
<1>4. Abstract!Solvent
  BY <1>1, <1>2, AbstractNames DEF Abstract!Solvent
<1>5. ASSUME NEW a \in Accounts, NEW c \in Currencies
      PROVE  bal'[a][c] = committed.bal[a][c] + Abstract!Settled(a, c)
                            + Total(x, Brings(a, c))
  <2>1. Owed(stack', Brings(a, c)) = 0
    BY OwedByNone, WeightsOK
  <2>2. bal'[a][c] + Owed(stack', Brings(a, c))
          = committed.bal[a][c] + Gained(trades', a, c) + Total(x, Brings(a, c))
    BY DEF Settling
  <2>3. Abstract!Settled(a, c) = Gained(trades', a, c)
    BY <1>1, <1>2, SettledIsGained
  <2> QED
    BY <1>2, <2>1, <2>2, <2>3
<1>6. ASSUME NEW m \in Received
      PROVE  unconf'[m] = committed.unconf[m] + Total(x, Holds(m))
  <2>1. Owed(stack', Holds(m)) = 0
    BY OwedByNone, WeightsOK
  <2>2. unconf'[m] + Owed(stack', Holds(m))
          = committed.unconf[m] + Total(x, Holds(m))
    BY DEF Settling
  <2> QED
    BY <1>2, <2>1, <2>2
<1>7. ASSUME NEW a \in Accounts, NEW c \in Currencies
      PROVE committed.bal[a][c] + Abstract!Settled(a, c) \in Int
  BY <1>1, <1>2, <1>7, SettledIsGained, GainedIsInt
<1>8. CASE x = <<>>
  <2>1. committed'.bal = [a \in Accounts |-> [c \in Currencies |->
                             committed.bal[a][c] + Abstract!Settled(a, c)]]
    <3>1. ASSUME NEW a \in Accounts, NEW c \in Currencies
          PROVE  bal'[a][c] = committed.bal[a][c] + Abstract!Settled(a, c)
      <4>1. Total(x, Brings(a, c)) = 0
        BY <1>8, TotalOfNone
      <4>2. \A i \in Int : i + 0 = i
        OBVIOUS
      <4> QED
        BY <1>5, <1>7, <4>1, <4>2
    <3> QED
      BY <1>1, <1>2, <3>1
  <2>2. committed'.unconf = committed.unconf
    <3>1. ASSUME NEW m \in Received PROVE unconf'[m] = committed.unconf[m]
      <4>1. Total(x, Holds(m)) = 0
        BY <1>8, TotalOfNone
      <4> QED
        BY <1>2, <1>6, <4>1
    <3> QED
      BY <1>1, <1>2, <3>1
  <2>3. Abstract!Trade
    BY <1>3, <1>4, <2>1, <2>2, AbstractNames DEF Abstract!Trade
  <2> QED
    BY <2>3
<1>9. CASE x # <<>>
  <2>1. PICK m \in Moves : x = MoveAOs(m)
    BY <1>9 DEF Shares
  <2>2. committed'.bal = [a \in Accounts |-> [c \in Currencies |->
          committed.bal[a][c] + Abstract!Settled(a, c)
          + IF ~m.confirmed /\ a = m.account THEN 0
            ELSE Abstract!Moved(m, a, c)]]
    <3>1. ASSUME NEW a \in Accounts, NEW c \in Currencies
          PROVE  bal'[a][c] = committed.bal[a][c] + Abstract!Settled(a, c)
            + IF ~m.confirmed /\ a = m.account THEN 0
              ELSE Abstract!Moved(m, a, c)
      BY <1>5, <2>1, MoveTotal
    <3> QED
      BY <1>1, <1>2, <3>1
  <2>3. committed'.unconf = IF m.confirmed THEN committed.unconf
                            ELSE [committed.unconf EXCEPT ![m] = @ + 1]
    <3>1. ASSUME NEW k \in Received
          PROVE  unconf'[k] = committed.unconf[k]
                                + IF ~m.confirmed /\ m = k THEN 1 ELSE 0
      BY <1>6, <2>1, MoveHeld
    <3>2. CASE m.confirmed
      <4>1. \A k \in Received : unconf'[k] = committed.unconf[k]
        BY <1>2, <3>1, <3>2
      <4> QED
        BY <1>1, <1>2, <3>2, <4>1
    <3>3. CASE ~m.confirmed
      <4>1. \A k \in Received : unconf'[k]
              = [committed.unconf EXCEPT ![m] = @ + 1][k]
        BY <1>2, <3>1, <3>3
      <4> QED
        BY <1>1, <1>2, <3>3, <4>1
    <3> QED
      BY <3>2, <3>3
  <2>4. Abstract!Move
    BY <1>3, <1>4, <2>2, <2>3, AbstractNames DEF Abstract!Move
  <2> QED
    BY <2>4
<1> QED
  BY <1>8, <1>9

book == <<committed.bal, committed.unconf, committed.trades>>
AbstractNext == Abstract!Trade \/ Abstract!Move \/ Abstract!Confirm

(* The end of a step of a transaction.                                      *)
LEMMA LedgerPersists ==
  ASSUME IInv, LedgerInv, IInv', Prolongs(committed.trades, trades'), Persist,
         NEW x \in Shares, Settling(bal', unconf', trades', stack', x)
  PROVE  LedgerInv' /\ [AbstractNext]_book
<1>1. CASE stack' = <<>>
  <2>1. committed' = Tables'
    BY <1>1 DEF Persist
  <2>2. LedgerInv'
    <3>1. (IInv /\ stack = <<>> /\ Clean => LedgerInv)'
      BY SettledAtRest, PTL
    <3> QED
      BY <1>1, <2>1, <3>1 DEF Clean, Tables
  <2> QED
    BY <1>1, <2>1, <2>2, CommitIsAbstract DEF AbstractNext
<1>2. CASE stack' # <<>>
  <2>1. committed' = committed
    BY <1>2 DEF Persist
  <2>2. Settling(bal, unconf, trades, stack, x)'
    BY <2>1 DEF Settling, Gained, Fresh
  <2>3. Working'
    BY <2>1 DEF Working, Prolongs
  <2>4. Shares' = Shares
    BY DEF Shares, MoveAOs, AO
  <2> QED
    BY <1>2, <2>1, <2>2, <2>3, <2>4 DEF LedgerInv, Quiet, AtRest, book
<1> QED
  BY <1>1, <1>2

-----------------------------------------------------------------------------
(* The trading core implements Settlement.                                  *)

LEMMA ProlongsItself == ASSUME NEW s \in Seq(SafeRows) PROVE Prolongs(s, s)
BY DEF Prolongs

(* A transaction that is rolled back leaves nothing.                        *)
LEMMA LedgerRollsBack ==
  ASSUME IInv, IInv', LedgerInv, Rollback
  PROVE  LedgerInv' /\ [AbstractNext]_book
<1>1. stack' = <<>> /\ committed' = committed /\ Clean'
  BY DEF Rollback, Clean
<1>2. (IInv /\ stack = <<>> /\ Clean => LedgerInv)'
  BY SettledAtRest, PTL
<1> QED
  BY <1>1, <1>2 DEF book

(* A step that commits no money.                                            *)
LEMMA LedgerAtRest ==
  ASSUME IInv, IInv', LedgerInv, AtRest, stack' = <<>>,
         UNCHANGED <<bal, unconf, trades>>,
         Persist \/ UNCHANGED <<orders, committed>>
  PROVE  LedgerInv' /\ [AbstractNext]_book
<1>1. Clean
  BY DEF LedgerInv, Quiet
<1>2. /\ committed'.bal = bal' /\ committed'.unconf = unconf'
      /\ committed'.trades = trades' /\ committed'.orders = orders'
  BY <1>1 DEF Clean, Persist, Tables
<1>3. (IInv /\ stack = <<>> /\ Clean => LedgerInv)'
  BY SettledAtRest, PTL
<1> QED
  BY <1>1, <1>2, <1>3 DEF Clean, book

LEMMA LedgerStutters ==
  ASSUME IInv, LedgerInv,
         UNCHANGED <<bal, unconf, orders, trades, committed, stack>>
  PROVE  LedgerInv' /\ [AbstractNext]_book
<1>1. \A x : Settling(bal, unconf, trades, stack, x)'
               = Settling(bal, unconf, trades, stack, x)
  BY DEF Settling, Gained, Fresh
<1>2. Shares' = Shares
  BY DEF Shares, MoveAOs, AO
<1> QED
  BY <1>1, <1>2 DEF LedgerInv, Working, Prolongs, Quiet, AtRest, Clean, book

LEMMA LedgerConfirm ==
  ASSUME IInv, IInv', LedgerInv, NEW m \in Received, Confirm(m)
  PROVE  LedgerInv' /\ [AbstractNext]_book
<1>1. Clean /\ stack' = <<>> /\ committed' = Tables'
  BY DEF LedgerInv, Quiet, Confirm, Persist, AtRest
<1>2. /\ committed'.bal = bal' /\ committed'.unconf = unconf'
      /\ committed'.trades = trades' /\ committed'.orders = orders'
  BY <1>1 DEF Tables
<1>3. (IInv /\ stack = <<>> /\ Clean => LedgerInv)'
  BY SettledAtRest, PTL
<1>4. Abstract!Confirm
  <2>1. /\ committed.unconf[m] > 0
        /\ committed'.bal =
             [committed.bal EXCEPT ![m.account][BTC] = @ + m.amount]
        /\ committed'.unconf = [committed.unconf EXCEPT ![m] = @ - 1]
        /\ committed'.trades = committed.trades
    BY <1>1, <1>2 DEF Confirm, Clean
  <2>2. Abstract!BTC = BTC
    BY DEF Abstract!BTC, BTC
  <2> QED
    BY <2>1, <2>2, AbstractNames DEF Abstract!Confirm
<1> QED
  BY <1>1, <1>2, <1>3, <1>4 DEF Clean, AbstractNext

(* No account operation that was refused is accepted later, at the save! of  *)
(* its operation.                                                           *)
NoneAcceptedLate == ~Running("insert")

LEMMA LedgerNext ==
  ASSUME IInv, IInv', LedgerInv, [Next]_vars,
         NoneAcceptedLate, NoneAcceptedLate'
  PROVE  LedgerInv' /\ [AbstractNext]_book
<1>1. CASE Step
  <2>1. CASE Rollback
    BY <2>1, LedgerRollsBack
  <2>2. CASE Persist /\ SettlingStays
    <3>1. PICK x \in Shares : Settling(bal, unconf, trades, stack, x)
      BY DEF LedgerInv
    <3>2. Settling(bal', unconf', trades', stack', x)
      BY <2>2, <3>1 DEF SettlingStays
    <3>3. Working' /\ Prolongs(committed.trades, committed'.trades)
      BY WorkingStep DEF LedgerInv
    <3>4. Prolongs(committed.trades, trades')
      BY <2>2, <3>3 DEF Working, Persist, Tables
    <3> QED
      BY <2>2, <3>1, <3>2, <3>4, LedgerPersists
  <2> QED
    BY <1>1, <2>1, <2>2, SettlingStep DEF LedgerInv, NoneAcceptedLate, Running
<1>2. CASE Request
  <2>1. ASSUME NEW m \in Moves, BeginMove(m)
        PROVE  LedgerInv' /\ [AbstractNext]_book
    <3>1. Prolongs(committed.trades, trades') /\ Persist
      BY <2>1 DEF LedgerInv, Working, BeginMove
    <3> QED
      BY <2>1, <3>1, SettlingBeginMove, LedgerPersists
  <2>2. ASSUME NEW w \in Workers, BeginExecute(w)
        PROVE  LedgerInv' /\ [AbstractNext]_book
    <3>1. PICK x \in Shares : Settling(bal, unconf, trades, stack, x)
      BY DEF LedgerInv
    <3>2. Settling(bal', unconf', trades', stack', x)
      BY <2>2, <3>1, BeginExecuteOwesTheSame, SettlingSame
      DEF SettlingStays, OwesTheSame
    <3>3. Prolongs(committed.trades, trades') /\ Persist
      BY <2>2 DEF LedgerInv, Working, BeginExecute
    <3> QED
      BY <3>1, <3>2, <3>3, LedgerPersists
  <2>3. ASSUME NEW w \in Workers, NEW o \in Ids,
               Create(w, o) \/ ActivateCheck(w, o) \/ Destroy(w, o)
                 \/ ActivateSave(w)
        PROVE  LedgerInv' /\ [AbstractNext]_book
    BY <2>3, LedgerAtRest
    DEF Create, ActivateCheck, Destroy, ActivateSave, AtRest
  <2>4. ASSUME NEW w \in Workers, ActivateSave(w)
        PROVE  LedgerInv' /\ [AbstractNext]_book
    BY <2>4, LedgerAtRest DEF ActivateSave, AtRest
  <2>5. ASSUME NEW m \in Received, Confirm(m)
        PROVE  LedgerInv' /\ [AbstractNext]_book
    BY <2>5, LedgerConfirm
  <2> QED
    BY <1>2, <2>1, <2>2, <2>3, <2>4, <2>5 DEF Request
<1>3. CASE Failure
  BY <1>3, LedgerRollsBack, LedgerStutters DEF Failure, Crash, Abandon
<1>4. CASE UNCHANGED vars
  BY <1>4, LedgerStutters DEF vars
<1> QED
  BY <1>1, <1>2, <1>3, <1>4 DEF Next

(* What the running transaction has posted and what it still owes make up    *)
(* its trades and its request, and nothing else, as long as nothing is      *)
(* accepted at a save! that was refused when it was built                   *)
(* (Trade#execute, AccountOperation.check_balances).                        *)
THEOREM LedgerInvariant == Spec /\ []NoneAcceptedLate => []LedgerInv
<1>1. Init => LedgerInv
  <2> SUFFICES ASSUME Init PROVE LedgerInv
    OBVIOUS
  <2>1. stack = <<>> /\ Clean
    BY DEF Init, Clean, Tables
  <2> QED
    BY <2>1, InitSafe, SettledAtRest
<1>2. IInv /\ IInv' /\ LedgerInv /\ NoneAcceptedLate /\ NoneAcceptedLate'
        /\ [Next]_vars => LedgerInv'
  BY LedgerNext
<1> QED
  BY <1>1, <1>2, Invariance, PTL DEF Spec

(* Every transaction that commits is one step of Settlement: the trades of   *)
(* its executions, each settled in full, and at most one movement of money, *)
(* whatever the processes do and wherever they die (with_transaction,       *)
(* Trade#execute).                                                          *)
THEOREM Settles ==
  Spec /\ []NoneAcceptedLate => ImplementsSettlement
<1>1. Init => Abstract!Init
  BY AbstractNames
  DEF Init, Abstract!Init, Tables
<1>2. IInv /\ IInv' /\ LedgerInv /\ NoneAcceptedLate /\ NoneAcceptedLate'
        /\ [Next]_vars => [AbstractNext]_book
  BY LedgerNext
<1>3. ImplementsSettlement <=> Abstract!Init /\ [][AbstractNext]_book
  BY DEF Abstract!Spec, ImplementsSettlement, Abstract!vars, AbstractNext, book
<1> QED
  BY <1>1, <1>2, <1>3, Invariance, LedgerInvariant, PTL DEF Spec

-----------------------------------------------------------------------------
(* The books balance, but for the units that rounding makes.                *)

(* The commission and the net amount, both rounded, make one unit more than  *)
(* the amount when they lie halfway between two units.                      *)
LEMMA RoundedApart ==
  ASSUME NEW x \in Int, NEW r \in Int, NEW d \in Nat \ {0}
  PROVE  RoundHalfUp(x * r, d) + RoundHalfUp(x * (d - r), d)
           = x + IF 2 * ((x * r) % d) = d THEN 1 ELSE 0
<1> DEFINE n == x * r
           q == n \div d
           s == n % d
<1>1. n \in Int /\ x * (d - r) = x * d - n
  OBVIOUS
<1> HIDE DEF n
<1>2. q \in Int /\ s \in 0..(d - 1) /\ n = q * d + s
  BY <1>1
<1> HIDE DEF q, s
<1>3. RoundHalfUp(n, d) = q + IF 2 * s >= d THEN 1 ELSE 0
  <2> DEFINE e == 2 * d
             z == 2 * s + d
  <2>1. 2 * n + d = q * e + z /\ e \in Nat \ {0} /\ z \in Int
    BY <1>2
  <2>2. z = (IF 2 * s >= d THEN 1 ELSE 0) * e
              + (IF 2 * s >= d THEN 2 * s - d ELSE z)
    BY <1>2
  <2>3. (IF 2 * s >= d THEN 2 * s - d ELSE z) \in 0..(e - 1)
    BY <1>2
  <2> HIDE DEF e, z
  <2> DEFINE k == IF 2 * s >= d THEN 1 ELSE 0
             y == IF 2 * s >= d THEN 2 * s - d ELSE z
  <2>4. k \in Int /\ y \in 0..(e - 1) /\ 2 * n + d = (q + k) * e + y
    BY <1>2, <2>1, <2>2, <2>3
  <2> HIDE DEF k, y
  <2>5. (2 * n + d) \div e = q + k
    BY <1>2, <2>1, <2>4
  <2> QED
    BY <2>5 DEF RoundHalfUp, e, k
<1>4. RoundHalfUp(x * d - n, d) = x - q - IF 2 * s > d THEN 1 ELSE 0
  <2> DEFINE e == 2 * d
             k == IF 2 * s > d THEN 1 ELSE 0
             y == IF 2 * s > d THEN 3 * d - 2 * s ELSE d - 2 * s
  <2>1. 2 * (x * d - n) + d = (x - q) * e + (d - 2 * s)
    BY <1>2
  <2>2. k \in Int /\ y \in 0..(e - 1) /\ d - 2 * s = y - k * e
    BY <1>2
  <2>3. e \in Nat \ {0} /\ 2 * (x * d - n) + d \in Int
    BY <1>1
  <2> HIDE DEF e, k, y
  <2> DEFINE g == x - q - k
             h == 2 * (x * d - n) + d
  <2>4. h = g * e + y /\ g \in Int /\ h \in Int
    BY <1>2, <2>1, <2>2, <2>3
  <2> HIDE DEF g, h
  <2>5. h \div e = g
    BY <2>2, <2>3, <2>4
  <2> QED
    BY <2>5 DEF RoundHalfUp, e, k, g, h
<1>5. RoundHalfUp(n, d) + RoundHalfUp(x * d - n, d)
        = x + IF 2 * s = d THEN 1 ELSE 0
  BY <1>2, <1>3, <1>4
<1> QED
  BY <1>1, <1>5 DEF n, s

Value(c) == [ao \in AOs |-> IF ao.currency = c THEN ao.amount ELSE 0]

FiniteWorld == IsFiniteSet(Users) /\ IsFiniteSet(Moves)

Assets(b, c) == SumFunction([a \in Accounts |-> b[a][c]])
Pending(u, c) ==
  IF c # BTC THEN 0
  ELSE SumFunction([m \in Received |-> m.amount * u[m]])

RoundedUp(t, c) ==
  \/ c = BTC /\ Tie(t.btc, Owner(t.purchase))
  \/ c = Form[t.purchase].currency /\ Tie(t.cur, Owner(t.sale))
RoundedIn(t, c) == {i \in DOMAIN t : RoundedUp(t[i], c)}

Balanced(b, u, t, s) ==
  \A c \in Currencies :
    Assets(b, c) + Pending(u, c) + Owed(s, Value(c))
      = Cardinality(RoundedIn(t, c))

LEMMA ValueOK == \A c \in Currencies : Value(c) \in Weights
BY DEF Value, Weights, AOs

LEMMA FiniteAccounts ==
  ASSUME FiniteWorld PROVE IsFiniteSet(Accounts) /\ IsFiniteSet(Received)
<1>1. IsFiniteSet(Users \cup {Storage}) /\ IsFiniteSet(Received)
  BY FS_AddElement, FS_Subset DEF FiniteWorld, Received
<1>2. IsFiniteSet((Users \cup {Storage}) \cup {Fees})
  BY <1>1, FS_AddElement
<1>3. Accounts = (Users \cup {Storage}) \cup {Fees}
  BY DEF Accounts
<1> QED
  BY <1>1, <1>2, <1>3

LEMMA AssetsIsInt ==
  ASSUME FiniteWorld, NEW b \in [Accounts -> [Currencies -> Int]],
         NEW c \in Currencies
  PROVE  Assets(b, c) \in Int
<1> DEFINE f == [a \in Accounts |-> b[a][c]]
<1>1. DOMAIN f = Accounts /\ \A a \in Accounts : f[a] \in Int
  OBVIOUS
<1> HIDE DEF f
<1>2. SumFunction(f) \in Int
  BY <1>1, FiniteAccounts, SumIsInt DEF SumFunction
<1> QED
  BY <1>2 DEF Assets, f

(* One balance grows.                                                       *)
LEMMA AssetsGrow ==
  ASSUME FiniteWorld, bal \in [Accounts -> [Currencies -> Int]],
         NEW a \in Accounts, NEW e \in Currencies, NEW d \in Int,
         NEW c \in Currencies,
         \A x \in Accounts :
           bal'[x][c] = IF x = a /\ c = e THEN bal[x][c] + d ELSE bal[x][c]
  PROVE  Assets(bal', c) = Assets(bal, c) + IF c = e THEN d ELSE 0
<1> DEFINE f == [x \in Accounts |-> bal[x][c]]
           g == [x \in Accounts |-> bal'[x][c]]
<1>1. DOMAIN f = Accounts /\ \A x \in Accounts : f[x] \in Int
  OBVIOUS
<1>2. DOMAIN g = Accounts
      /\ \A x \in Accounts :
           g[x] = IF x = a THEN f[x] + (IF c = e THEN d ELSE 0)
                  ELSE f[x]
  OBVIOUS
<1> DEFINE k == IF c = e THEN d ELSE 0
<1>3. k \in Int
  OBVIOUS
<1>4. \A y \in Accounts : g[y] = IF y = a THEN f[y] + k ELSE f[y]
  BY <1>2
<1> HIDE DEF f, g, k
<1>5. SumFunctionOnSet(g, Accounts) = SumFunctionOnSet(f, Accounts) + k
  <2>1. IsFiniteSet(Accounts)
    BY FiniteAccounts
  <2>2. \A y \in Accounts : f[y] \in Int
    BY <1>1
  <2>3. a \in Accounts
    OBVIOUS
  <2> QED
    BY ONLY <1>3, <1>4, <2>1, <2>2, <2>3, SumChanged
<1>6. SumFunction(g) = SumFunction(f) + k
  BY <1>1, <1>2, <1>5 DEF SumFunction
<1> QED
  BY <1>6 DEF Assets, f, g, k

LEMMA PendingIsInt ==
  ASSUME FiniteWorld, NEW u \in [Received -> Int], NEW c \in Currencies
  PROVE  Pending(u, c) \in Int
<1> DEFINE f == [m \in Received |-> m.amount * u[m]]
<1>1. \A m \in Received : m.amount \in Int
  BY EngineAssumption DEF Received, AOs
<1>2. DOMAIN f = Received /\ \A m \in Received : f[m] \in Int
  BY <1>1
<1> HIDE DEF f
<1>3. SumFunction(f) \in Int
  BY <1>2, FiniteAccounts, SumIsInt DEF SumFunction
<1> QED
  BY <1>3 DEF Pending, f

LEMMA PendingGrows ==
  ASSUME FiniteWorld, NEW u \in [Received -> Int], NEW k \in Received,
         NEW d \in Int, NEW c \in Currencies
  PROVE  Pending([u EXCEPT ![k] = @ + d], c)
           = Pending(u, c) + IF c = BTC THEN k.amount * d ELSE 0
<1>1. CASE c # BTC
  BY <1>1 DEF Pending
<1>2. CASE c = BTC
  <2> DEFINE u2 == [u EXCEPT ![k] = @ + d]
             f == [m \in Received |-> m.amount * u[m]]
             g == [m \in Received |-> m.amount * u2[m]]
  <2>1. \A m \in Received : m.amount \in Int /\ u[m] \in Int
    BY EngineAssumption DEF Received, AOs
  <2>2. DOMAIN f = Received /\ \A m \in Received : f[m] \in Int
    BY <2>1
  <2>3. \A m \in Received : u2[m] = IF m = k THEN u[m] + d ELSE u[m]
    OBVIOUS
  <2> HIDE DEF u2
  <2>4. DOMAIN g = Received /\ \A m \in Received : g[m] = m.amount * u2[m]
    OBVIOUS
  <2>5. \A m \in Received : f[m] = m.amount * u[m]
    OBVIOUS
  <2>6. \A i, j, l \in Int : i * (j + l) = i * j + i * l
    OBVIOUS
  <2> DEFINE y == k.amount * d
  <2>7. y \in Int
    BY <2>1
  <2> HIDE DEF f, g
  <2>8. \A m \in Received : g[m] = IF m = k THEN f[m] + y ELSE f[m]
    BY <2>1, <2>3, <2>4, <2>5, <2>6
  <2> HIDE DEF y
  <2>9. SumFunctionOnSet(g, Received) = SumFunctionOnSet(f, Received) + y
    BY <2>2, <2>7, <2>8, FiniteAccounts, SumChanged
  <2>10. SumFunction(g) = SumFunction(f) + y
    BY <2>2, <2>4, <2>9 DEF SumFunction
  <2> QED
    BY <1>2, <2>10 DEF Pending, f, g, y, u2
<1> QED
  BY <1>1, <1>2

(* A trade credits what it debits, and the unit that rounding makes.        *)
LEMMA TradeValue ==
  ASSUME NEW t \in TradeRows, NEW c \in Currencies
  PROVE  Total(TradeAOs(t), Value(c)) = IF RoundedUp(t, c) THEN 1 ELSE 0
<1> DEFINE buyer == Owner(t.purchase)
           seller == Owner(t.sale)
           e == Form[t.purchase].currency
           w == Value(c)
<1>1. /\ buyer \in Users /\ seller \in Users
      /\ e \in Currencies /\ BTC \in Currencies /\ e # BTC
      /\ t.btc \in Int /\ t.cur \in Int
  BY EngineAssumption DEF TradeRows, Owner, Forms, Currencies
<1>2. \A x \in Int, u \in Users : Fee(x, u) \in Int /\ Net(x, u) \in Int
  BY RoundHalfUpInt, EngineAssumption DEF Fee, Net
<1>3. Users \subseteq Accounts /\ Fees \in Accounts
  BY DEF Accounts
<1>4. \A x \in Int, u \in Users :
        Fee(x, u) + Net(x, u) = x + IF Tie(x, u) THEN 1 ELSE 0
  <2> SUFFICES ASSUME NEW x \in Int, NEW u \in Users
               PROVE Fee(x, u) + Net(x, u) = x + IF Tie(x, u) THEN 1 ELSE 0
    OBVIOUS
  <2> DEFINE r == Rate[u]
  <2>1. r \in Int /\ RateDen \in Nat \ {0}
    BY EngineAssumption
  <2>2. RoundHalfUp(x * r, RateDen) + RoundHalfUp(x * (RateDen - r), RateDen)
          = x + IF 2 * ((x * r) % RateDen) = RateDen THEN 1 ELSE 0
    <3> HIDE DEF r
    <3> QED
      BY <2>1, RoundedApart
  <2> QED
    BY <2>2 DEF Fee, Net, Tie
<1>5. Total(TradeAOs(t), w)
        = w[AO(buyer, e, -t.cur)] + w[AO(seller, e, Net(t.cur, seller))]
          + w[AO(seller, BTC, -t.btc)] + w[AO(buyer, BTC, Net(t.btc, buyer))]
          + w[AO(Fees, BTC, Fee(t.btc, buyer))]
          + w[AO(Fees, e, Fee(t.cur, seller))]
  BY TradeAOsTotal, ValueOK
<1>6. RoundedUp(t, c) <=>
        (c = BTC /\ Tie(t.btc, buyer)) \/ (c = e /\ Tie(t.cur, seller))
  BY DEF RoundedUp
<1>7. \A b \in Accounts, d \in Currencies, x \in Int :
        w[AO(b, d, x)] = IF d = c THEN x ELSE 0
  BY DEF Value, AO, AOs
<1> HIDE DEF w, buyer, seller, e
<1>8. Total(TradeAOs(t), w)
        = (IF e = c THEN -t.cur ELSE 0)
          + (IF e = c THEN Net(t.cur, seller) ELSE 0)
          + (IF BTC = c THEN -t.btc ELSE 0)
          + (IF BTC = c THEN Net(t.btc, buyer) ELSE 0)
          + (IF BTC = c THEN Fee(t.btc, buyer) ELSE 0)
          + (IF e = c THEN Fee(t.cur, seller) ELSE 0)
  BY <1>1, <1>2, <1>3, <1>5, <1>7
<1>9. /\ Net(t.cur, seller) \in Int /\ Net(t.btc, buyer) \in Int
      /\ Fee(t.btc, buyer) \in Int /\ Fee(t.cur, seller) \in Int
      /\ Fee(t.btc, buyer) + Net(t.btc, buyer)
           = t.btc + IF Tie(t.btc, buyer) THEN 1 ELSE 0
      /\ Fee(t.cur, seller) + Net(t.cur, seller)
           = t.cur + IF Tie(t.cur, seller) THEN 1 ELSE 0
  BY <1>1, <1>2, <1>4
<1>10. CASE c = BTC
  <2>1. Total(TradeAOs(t), w) = -t.btc + Net(t.btc, buyer) + Fee(t.btc, buyer)
    BY <1>1, <1>8, <1>9, <1>10
  <2>2. RoundedUp(t, c) <=> Tie(t.btc, buyer)
    BY <1>1, <1>6, <1>10
  <2>3. Total(TradeAOs(t), w) = IF Tie(t.btc, buyer) THEN 1 ELSE 0
    BY <1>1, <1>9, <2>1
  <2> QED
    BY <2>2, <2>3 DEF w
<1>11. CASE c = e
  <2>1. Total(TradeAOs(t), w) = -t.cur + Net(t.cur, seller) + Fee(t.cur, seller)
    BY <1>1, <1>8, <1>9, <1>11
  <2> QED
    BY <1>1, <1>6, <1>9, <1>11, <2>1 DEF w
<1>12. CASE c # BTC /\ c # e
  <2>1. Total(TradeAOs(t), w) = 0
    BY <1>8, <1>12
  <2> QED
    BY <1>6, <1>12, <2>1 DEF w
<1> QED
  BY <1>10, <1>11, <1>12

LEMMA RoundedAppended ==
  ASSUME NEW t \in Seq(TradeRows), NEW row \in TradeRows, NEW c
  PROVE  Cardinality(RoundedIn(Append(t, row), c))
           = Cardinality(RoundedIn(t, c)) + IF RoundedUp(row, c) THEN 1 ELSE 0
<1>1. IsFiniteSet(RoundedIn(t, c)) /\ Cardinality(RoundedIn(t, c)) \in Nat
  <2>1. IsFiniteSet(DOMAIN t)
    BY FS_Interval
  <2> QED
    BY <2>1, FS_Subset, FS_CardinalityType DEF RoundedIn
<1>2. /\ DOMAIN Append(t, row) = DOMAIN t \cup {Len(t) + 1}
      /\ Len(t) + 1 \notin DOMAIN t
      /\ Append(t, row)[Len(t) + 1] = row
      /\ \A i \in DOMAIN t : Append(t, row)[i] = t[i]
  OBVIOUS
<1>3. CASE RoundedUp(row, c)
  <2>1. RoundedIn(Append(t, row), c) = RoundedIn(t, c) \cup {Len(t) + 1}
    BY <1>2, <1>3 DEF RoundedIn
  <2>2. Len(t) + 1 \notin RoundedIn(t, c)
    BY <1>2 DEF RoundedIn
  <2> QED
    BY <1>1, <1>3, <2>1, <2>2, FS_AddElement
<1>4. CASE ~RoundedUp(row, c)
  <2>1. RoundedIn(Append(t, row), c) = RoundedIn(t, c)
    BY <1>2, <1>4 DEF RoundedIn
  <2> QED
    BY <1>1, <1>4, <2>1
<1> QED
  BY <1>3, <1>4

(* The books with what is owed, and the committed books.                    *)
BooksInv ==
  /\ Balanced(bal, unconf, trades, stack)
  /\ Balanced(committed.bal, committed.unconf, committed.trades, <<>>)
  /\ Quiet

BalancedStays ==
  Balanced(bal, unconf, trades, stack)
    => Balanced(bal', unconf', trades', stack')

LEMMA BalancedSame == ASSUME OwesTheSame PROVE BalancedStays
BY ValueOK DEF OwesTheSame, BalancedStays, Balanced

LEMMA BalancedPays ==
  ASSUME FiniteWorld, IInv, NEW ao, Pays(ao) PROVE BalancedStays
<1>1. SUFFICES ASSUME Balanced(bal, unconf, trades, stack), NEW c \in Currencies
      PROVE  Assets(bal', c) + Pending(unconf', c) + Owed(stack', Value(c))
               = Cardinality(RoundedIn(trades', c))
  BY DEF BalancedStays, Balanced
<1>2. /\ ao \in AOs /\ ao.account \in Accounts /\ ao.currency \in Currencies
      /\ ao.amount \in Int /\ trades' = trades
  BY DEF Pays, SafeAOs, AOs
<1>3. PICK left : InsertRow(ao, left)
  BY DEF Pays
<1>4. /\ bal \in [Accounts -> [Currencies -> Int]]
      /\ unconf \in [Received -> Int]
  BY DEF IInv, SafeTables, SafeBalances
<1> DEFINE v == IF c = ao.currency THEN ao.amount ELSE 0
           a1 == Assets(bal, c)
           a2 == Assets(bal', c)
           p1 == Pending(unconf, c)
           p2 == Pending(unconf', c)
           o1 == Owed(stack, Value(c))
           o2 == Owed(stack', Value(c))
           k == Cardinality(RoundedIn(trades, c))
<1>5. a1 \in Int /\ p1 \in Int /\ v \in Int
  BY <1>2, <1>4, AssetsIsInt, PendingIsInt
<1>6. o1 = v + o2 /\ o2 \in Int
  <2>1. Value(c)[ao] = v
    BY <1>2 DEF Value
  <2> QED
    BY <2>1, ValueOK DEF Pays
<1>7. a1 + p1 + o1 = k
  BY <1>1 DEF Balanced
<1>8. a2 + p2 = a1 + p1 + v
  <2>1. CASE ao.confirmed
    <3>1. /\ bal' = [bal EXCEPT ![ao.account][ao.currency] = @ + ao.amount]
          /\ unconf' = unconf
      BY <1>3, <2>1 DEF InsertRow
    <3>2. \A x \in Accounts :
            bal'[x][c] = IF x = ao.account /\ c = ao.currency
                         THEN bal[x][c] + ao.amount ELSE bal[x][c]
      BY <1>2, <1>4, <3>1
    <3>3. a2 = a1 + v
      <4> DEFINE e == ao.currency
                 a == ao.account
                 d == ao.amount
      <4>1. a \in Accounts /\ d \in Int /\ e \in Currencies
        BY <1>2
      <4>2. \A x \in Accounts :
              bal'[x][c] = IF x = a /\ c = e THEN bal[x][c] + d ELSE bal[x][c]
        BY <3>2
      <4> HIDE DEF a, d, e
      <4>3. Assets(bal', c) = Assets(bal, c) + IF c = e THEN d ELSE 0
        BY <1>4, <4>1, <4>2, AssetsGrow
      <4> QED
        BY <4>3 DEF a, d, e
    <3> HIDE DEF a1, a2, v
    <3> QED
      BY <1>5, <3>1, <3>3
  <2>2. CASE ~ao.confirmed
    <3>1. ao \in Received /\ ao.currency = BTC
      BY <2>2, EngineAssumption DEF Pays, SafeAOs, Received
    <3>2. bal' = bal /\ unconf' = [unconf EXCEPT ![ao] = @ + 1]
      BY <1>3, <2>2 DEF InsertRow
    <3>3. Pending([unconf EXCEPT ![ao] = @ + 1], c)
            = Pending(unconf, c) + IF c = BTC THEN ao.amount * 1 ELSE 0
      <4>1. 1 \in Int
        OBVIOUS
      <4> QED
        BY ONLY FiniteWorld, <1>4, <3>1, <4>1, c \in Currencies, PendingGrows,
           ZenonT(30)
    <3>4. p2 = p1 + v
      BY <1>2, <3>1, <3>2, <3>3
    <3> HIDE DEF p1, p2, v
    <3> QED
      BY <1>5, <3>2, <3>4
  <2> QED
    BY <2>1, <2>2
<1> HIDE DEF v, a1, a2, p1, p2, o1, o2, k
<1>9. a2 + p2 + o2 = k
  BY <1>5, <1>6, <1>7, <1>8
<1> QED
  BY <1>2, <1>9 DEF a2, p2, o2, k

LEMMA BalancedRecords ==
  ASSUME FiniteWorld, IInv, NEW row, Records(row) PROVE BalancedStays
<1>1. SUFFICES ASSUME Balanced(bal, unconf, trades, stack), NEW c \in Currencies
      PROVE  Assets(bal', c) + Pending(unconf', c) + Owed(stack', Value(c))
               = Cardinality(RoundedIn(trades', c))
  BY DEF BalancedStays, Balanced
<1>2. /\ row \in TradeRows /\ trades \in Seq(TradeRows)
      /\ trades' = Append(trades, row) /\ UNCHANGED <<bal, unconf>>
  BY SeqOfSubset DEF Records, SafeRows, IInv, SafeTables
<1>3. /\ bal \in [Accounts -> [Currencies -> Int]]
      /\ unconf \in [Received -> Int]
  BY DEF IInv, SafeTables, SafeBalances
<1> DEFINE v == IF RoundedUp(row, c) THEN 1 ELSE 0
           a1 == Assets(bal, c)
           p1 == Pending(unconf, c)
           o1 == Owed(stack, Value(c))
           o2 == Owed(stack', Value(c))
           k1 == Cardinality(RoundedIn(trades, c))
           k2 == Cardinality(RoundedIn(trades', c))
<1>4. a1 \in Int /\ p1 \in Int /\ v \in Int
  BY <1>3, AssetsIsInt, PendingIsInt
<1>5. o2 = v + o1 /\ o1 \in Int
  BY <1>2, TradeValue, ValueOK DEF Records
<1>6. a1 + p1 + o1 = k1
  BY <1>1 DEF Balanced
<1>7. k2 = k1 + v
  BY <1>2, RoundedAppended
<1> HIDE DEF v, a1, p1, o1, o2, k1, k2
<1>8. a1 + p1 + o2 = k2
  BY <1>4, <1>5, <1>6, <1>7
<1> QED
  BY <1>2, <1>8 DEF a1, p1, o2, k2

LEMMA BalancedBeginMove ==
  ASSUME IInv, NEW m \in Moves, BeginMove(m) PROVE BalancedStays
<1>1. ASSUME NEW c \in Currencies
      PROVE  Owed(stack', Value(c)) = Owed(stack, Value(c))
  <2>1. /\ m \in AOs /\ m.amount \in Int /\ m.currency \in Currencies
        /\ AO(Storage, m.currency, -m.amount) \in AOs
    BY EngineAssumption DEF AO, AOs, Accounts
  <2>2. Total(MoveAOs(m), Value(c))
          = Value(c)[m] + Value(c)[AO(Storage, m.currency, -m.amount)]
    BY <2>1, TotalOfTwo, ValueOK DEF MoveAOs
  <2>3. /\ Value(c)[m] = IF m.currency = c THEN m.amount ELSE 0
        /\ Value(c)[AO(Storage, m.currency, -m.amount)]
             = IF m.currency = c THEN -m.amount ELSE 0
    BY <2>1 DEF Value, AO
  <2>4. Total(MoveAOs(m), Value(c)) = 0
    BY <2>1, <2>2, <2>3
  <2>5. Owed(stack', Value(c)) = Total(MoveAOs(m), Value(c))
    BY BeginMoveOwes, ValueOK
  <2>6. Owed(stack, Value(c)) = 0
    BY OwedByNone DEF BeginMove, AtRest
  <2> QED
    BY <2>4, <2>5, <2>6
<1> QED
  BY <1>1 DEF BalancedStays, Balanced, BeginMove

(* A deposit that is confirmed moves from what is pending to a balance.      *)
LEMMA BalancedConfirm ==
  ASSUME FiniteWorld, IInv, NEW m \in Received, Confirm(m) PROVE BalancedStays
<1>1. /\ bal \in [Accounts -> [Currencies -> Int]]
      /\ unconf \in [Received -> Int]
      /\ m.account \in Accounts /\ m.amount \in Int /\ BTC \in Currencies
  <2>1. m \in AOs
    BY EngineAssumption DEF Received
  <2>2. m.account \in Accounts /\ m.amount \in Int /\ BTC \in Currencies
    BY <2>1 DEF AOs, Currencies
  <2> QED
    BY <2>2 DEF IInv, SafeTables, SafeBalances
<1>2. /\ bal' = [bal EXCEPT ![m.account][BTC] = @ + m.amount]
      /\ unconf' = [unconf EXCEPT ![m] = @ + (-1)]
      /\ UNCHANGED <<trades, stack>>
  <2>1. unconf[m] - 1 = unconf[m] + (-1)
    BY <1>1
  <2> QED
    BY <2>1 DEF Confirm
<1>3. ASSUME NEW c \in Currencies
      PROVE  Assets(bal', c) + Pending(unconf', c)
               = Assets(bal, c) + Pending(unconf, c)
  <2> DEFINE v == IF c = BTC THEN m.amount ELSE 0
             a1 == Assets(bal, c)
             a2 == Assets(bal', c)
             p1 == Pending(unconf, c)
             p2 == Pending(unconf', c)
  <2>1. a1 \in Int /\ p1 \in Int /\ v \in Int
    BY <1>1, AssetsIsInt, PendingIsInt
  <2>2. a2 = a1 + v
    <3>1. \A x \in Accounts :
            bal'[x][c] = IF x = m.account /\ c = BTC
                         THEN bal[x][c] + m.amount ELSE bal[x][c]
      BY <1>1, <1>2
    <3>2. Assets(bal', c) = Assets(bal, c) + IF c = BTC THEN m.amount ELSE 0
      <4> DEFINE e == BTC
                 a == m.account
                 d == m.amount
      <4>1. a \in Accounts /\ d \in Int /\ e \in Currencies
        BY <1>1
      <4>2. \A x \in Accounts :
              bal'[x][c] = IF x = a /\ c = e THEN bal[x][c] + d ELSE bal[x][c]
        BY <3>1
      <4> HIDE DEF a, d, e
      <4>3. Assets(bal', c) = Assets(bal, c) + IF c = e THEN d ELSE 0
        BY <1>1, <4>1, <4>2, AssetsGrow
      <4> QED
        BY <4>3 DEF a, d, e
    <3> QED
      BY <3>2
  <2>3. p2 = p1 + IF c = BTC THEN m.amount * (-1) ELSE 0
    <3>1. -1 \in Int
      OBVIOUS
    <3>2. Pending([unconf EXCEPT ![m] = @ + (-1)], c)
            = Pending(unconf, c) + IF c = BTC THEN m.amount * (-1) ELSE 0
      BY ONLY FiniteWorld, <1>1, <3>1, m \in Received, c \in Currencies,
         PendingGrows, ZenonT(30)
    <3> QED
      BY <1>2, <3>2
  <2>4. p2 = p1 - v
    BY <1>1, <2>1, <2>3
  <2> HIDE DEF v, a1, a2, p1, p2
  <2>5. a2 + p2 = a1 + p1
    BY <2>1, <2>2, <2>4
  <2> QED
    BY <2>5 DEF a1, a2, p1, p2
<1> QED
  BY <1>2, <1>3 DEF BalancedStays, Balanced

LEMMA BooksPersist ==
  ASSUME BooksInv, BalancedStays, Persist PROVE BooksInv'
<1>1. Balanced(bal', unconf', trades', stack')
  BY DEF BooksInv, BalancedStays
<1>2. CASE stack' = <<>>
  BY <1>1, <1>2 DEF Persist, Tables, BooksInv, Quiet, Clean, AtRest
<1>3. CASE stack' # <<>>
  BY <1>1, <1>3 DEF Persist, BooksInv, Quiet, AtRest
<1> QED
  BY <1>2, <1>3

(* The committed tables, and no transaction.                                *)
LEMMA BooksAtRest ==
  ASSUME BooksInv, committed' = committed, Clean', stack' = <<>> PROVE BooksInv'
BY DEF BooksInv, Clean, Quiet

LEMMA BooksStutter ==
  ASSUME BooksInv, UNCHANGED <<bal, unconf, orders, trades, committed, stack>>
  PROVE  BooksInv'
BY DEF BooksInv, Quiet, Clean, AtRest

LEMMA BooksNext ==
  ASSUME FiniteWorld, IInv, BooksInv, [Next]_vars,
         NoneAcceptedLate, NoneAcceptedLate'
  PROVE  BooksInv'
<1>1. CASE Step
  <2>1. CASE Rollback
    BY <2>1, BooksAtRest DEF Rollback, Clean
  <2>2. CASE Persist /\ BalancedStays
    BY <2>2, BooksPersist
  <2> QED
    BY <1>1, <2>1, <2>2, StepOwes, BalancedSame, BalancedPays, BalancedRecords
    DEF NoneAcceptedLate, Running
<1>2. CASE Request
  <2>1. ASSUME NEW m \in Moves, BeginMove(m) PROVE BooksInv'
    BY <2>1, BalancedBeginMove, BooksPersist DEF BeginMove
  <2>2. ASSUME NEW w \in Workers, BeginExecute(w) PROVE BooksInv'
    BY <2>2, BeginExecuteOwesTheSame, BalancedSame, BooksPersist
    DEF BeginExecute
  <2>3. ASSUME NEW m \in Received, Confirm(m) PROVE BooksInv'
    BY <2>3, BalancedConfirm, BooksPersist DEF Confirm
  <2>4. ASSUME NEW w \in Workers, NEW o \in Ids,
               Create(w, o) \/ Destroy(w, o) \/ ActivateSave(w)
        PROVE  BooksInv'
    <3>1. Persist /\ UNCHANGED <<bal, unconf, trades, stack>>
      BY <2>4 DEF Create, Destroy, ActivateSave
    <3>2. BalancedStays
      BY <3>1 DEF BalancedStays
    <3> QED
      BY <3>1, <3>2, BooksPersist
  <2>5. ASSUME NEW w \in Workers, ActivateSave(w) PROVE BooksInv'
    <3>1. Persist /\ UNCHANGED <<bal, unconf, trades, stack>>
      BY <2>5 DEF ActivateSave
    <3>2. BalancedStays
      BY <3>1 DEF BalancedStays
    <3> QED
      BY <3>1, <3>2, BooksPersist
  <2>6. ASSUME NEW w \in Workers, NEW o \in Ids, ActivateCheck(w, o)
        PROVE  BooksInv'
    BY <2>6, BooksStutter DEF ActivateCheck
  <2> QED
    BY <1>2, <2>1, <2>2, <2>3, <2>4, <2>5, <2>6 DEF Request
<1>3. CASE Failure
  BY <1>3, BooksAtRest, BooksStutter
  DEF Failure, Crash, Abandon, Rollback, Clean
<1>4. CASE UNCHANGED vars
  BY <1>4, BooksStutter DEF vars
<1> QED
  BY <1>1, <1>2, <1>3, <1>4 DEF Next

LEMMA BooksInit == ASSUME FiniteWorld, Init PROVE BooksInv
<1>1. /\ bal = [a \in Accounts |-> [c \in Currencies |-> 0]]
      /\ unconf = [m \in Received |-> 0] /\ trades = <<>> /\ stack = <<>>
      /\ committed.bal = bal /\ committed.unconf = unconf
      /\ committed.trades = trades /\ committed.orders = orders
  BY DEF Init, Tables
<1>2. ASSUME NEW c \in Currencies
      PROVE  Assets(bal, c) = 0 /\ Pending(unconf, c) = 0
  <2>1. Assets(bal, c) = 0
    <3> DEFINE f == [a \in Accounts |-> bal[a][c]]
    <3>1. DOMAIN f = Accounts /\ \A a \in Accounts : f[a] = 0
      BY <1>1
    <3> HIDE DEF f
    <3>2. SumFunctionOnSet(f, Accounts) = 0
      BY <3>1, FiniteAccounts, SumOfZeros
    <3> QED
      BY <3>1, <3>2 DEF SumFunction, Assets, f
  <2>2. Pending(unconf, c) = 0
    <3> DEFINE f == [m \in Received |-> m.amount * unconf[m]]
    <3>1. \A m \in Received : m.amount \in Int /\ unconf[m] = 0
      BY <1>1, EngineAssumption DEF Received, AOs
    <3>2. DOMAIN f = Received /\ \A m \in Received : f[m] = 0
      BY <3>1
    <3> HIDE DEF f
    <3>3. SumFunctionOnSet(f, Received) = 0
      BY <3>2, FiniteAccounts, SumOfZeros
    <3> QED
      BY <3>2, <3>3 DEF SumFunction, Pending, f
  <2> QED
    BY <2>1, <2>2
<1>3. \A c : Cardinality(RoundedIn(<<>>, c)) = 0
  <2>1. \A c : RoundedIn(<<>>, c) = {}
    BY DEF RoundedIn
  <2> QED
    BY <2>1, FS_EmptySet
<1>4. \A w : Owed(<<>>, w) = 0
  BY OwedByNone
<1> QED
  BY <1>1, <1>2, <1>3, <1>4 DEF BooksInv, Balanced, Quiet, Clean

LEMMA BooksInvariant ==
  FiniteWorld => (Spec /\ []NoneAcceptedLate => []BooksInv)
<1> SUFFICES ASSUME FiniteWorld
             PROVE  Spec /\ []NoneAcceptedLate => []BooksInv
  OBVIOUS
<1>1. Init => BooksInv
  BY BooksInit
<1>2. IInv /\ BooksInv /\ NoneAcceptedLate /\ NoneAcceptedLate'
        /\ [Next]_vars => BooksInv'
  BY BooksNext
<1> QED
  BY <1>1, <1>2, Invariance, PTL DEF Spec

(* What the books hold beyond what came in is one unit for each commission   *)
(* and net amount that were both rounded up from a half, and nothing else   *)
(* (Operation, BigDecimal#round in Trade#execute).                          *)
THEOREM BooksAlwaysBalance ==
  FiniteWorld => (Spec /\ []NoneAcceptedLate => []BooksBalance)
<1> SUFFICES ASSUME FiniteWorld
             PROVE  Spec /\ []NoneAcceptedLate => []BooksBalance
  OBVIOUS
<1>1. IInv /\ BooksInv => BooksBalance
  <2> SUFFICES ASSUME IInv, BooksInv, NEW c \in Currencies
               PROVE  Assets(committed.bal, c) + Pending(committed.unconf, c)
                        = Cardinality(RoundedTwice(c))
    BY DEF BooksBalance, Assets, Pending
  <2>1. /\ Assets(committed.bal, c) \in Int
        /\ Pending(committed.unconf, c) \in Int
    <3>1. /\ committed.bal \in [Accounts -> [Currencies -> Int]]
          /\ committed.unconf \in [Received -> Int]
      BY DEF IInv, SafeTables, SafeBalances
    <3> QED
      BY <3>1, AssetsIsInt, PendingIsInt
  <2>2. Owed(<<>>, Value(c)) = 0
    BY OwedByNone
  <2>3. Assets(committed.bal, c) + Pending(committed.unconf, c)
          + Owed(<<>>, Value(c))
          = Cardinality(RoundedIn(committed.trades, c))
    BY DEF BooksInv, Balanced
  <2>4. RoundedTwice(c) = RoundedIn(committed.trades, c)
    BY DEF RoundedTwice, RoundedIn, RoundedUp
  <2> QED
    BY <2>1, <2>2, <2>3, <2>4
<1> QED
  BY <1>1, Invariance, BooksInvariant, PTL

-----------------------------------------------------------------------------
(* A book of limit orders: nothing nests, and nothing is refused late.      *)

(* A book of limit orders alone, for whole numbers of ticks, where deposits, *)
(* withdrawals and what a commission leaves of a whole number of ticks are  *)
(* whole numbers of ticks as well.                                          *)
LimitOrdersOnly == \A o \in Ids : IsLimit(o)
MovesOnGrid == \A m \in Moves : OnGrid(m.amount, Tick)
NetsOnGrid ==
  \A u \in Users : \A x \in Int : OnGrid(x, Tick) => OnGrid(Net(x, u), Tick)

LimitBook ==
  LimitOrdersOnly /\ CommissionsAtMostAll /\ AmountsOnGrid /\ MovesOnGrid
    /\ NetsOnGrid

(* No two debits of a user would be paid with the same money, and each can   *)
(* be paid.                                                                 *)
UserDebit(ao) == ao.account \in Users /\ ao.amount < 0
Payable(aos) ==
  /\ \A i \in DOMAIN aos : Covered(aos[i])
  /\ \A i, j \in DOMAIN aos :
       /\ UserDebit(aos[i]) /\ UserDebit(aos[j])
       /\ aos[i].account = aos[j].account
       /\ aos[i].currency = aos[j].currency
       => i = j

GridBalances(b) ==
  \A u \in Users : \A c \in Currencies : OnGrid(b[u][c], Tick)
GridAOs(aos) ==
  \A i \in DOMAIN aos : aos[i].account \in Users => OnGrid(aos[i].amount, Tick)

(* The operation of a withdrawal that may be refused.                       *)
Refusable(f) ==
  \E m \in Moves :
    \/ f.refused = <<>> /\ f.aos = MoveAOs(m)
    \/ f.refused = <<m>> /\ ~Covered(m) /\ f.aos \in {Tail(MoveAOs(m)), <<>>}

(* Without market orders nothing nests: the stack is an execution, or an     *)
(* operation it posts, or that of a deposit or a withdrawal, and the refresh *)
(* of the orders of one user.                                               *)
Below(s) == s = <<>> \/ (s # <<>> /\ Head(s).op = "settle" /\ Tail(s) = <<>>)
Flat ==
  \/ AtRest
  \/ ~AtRest /\ Top.op \in {"match", "settle"} /\ Rest = <<>>
  \/ ~AtRest /\ Top.op = "post" /\ Below(Rest)
  \/ /\ ~AtRest /\ Top.op = "refresh"
     /\ Rest # <<>> /\ Head(Rest).op = "post" /\ Below(Tail(Rest))

(* The operation the running transaction posts.                             *)
Underway == ~AtRest /\ Top.op \in {"post", "refresh"}
Operation == IF Top.op = "refresh" THEN Head(Rest) ELSE Top

FlatInv ==
  /\ Flat
  /\ Underway =>
       /\ GridAOs(Operation.aos)
       /\ \/ Operation.refused = <<>> /\ Payable(Operation.aos)
          \/ Top.op = "post" /\ Rest = <<>> /\ Refusable(Top)
  /\ GridBalances(bal)
  /\ GridBalances(committed.bal)

LEMMA GridSum ==
  ASSUME NEW x \in Int, NEW y \in Int, OnGrid(x, Tick), OnGrid(y, Tick)
  PROVE  OnGrid(x + y, Tick) /\ OnGrid(-x, Tick)
<1>1. PICK k \in Int : x = k * Tick
  BY DEF OnGrid
<1>2. PICK l \in Int : y = l * Tick
  BY DEF OnGrid
<1>3. Tick \in Int
  BY EngineAssumption
<1>4. x + y = (k + l) * Tick /\ -x = (-k) * Tick
  BY <1>1, <1>2, <1>3
<1> QED
  BY <1>4 DEF OnGrid

(* The amounts of a trade of two matching orders.                           *)
LEMMA TradedOnGrid ==
  ASSUME bal \in [Accounts -> [Currencies -> Int]],
         NEW self \in Copies, NEW mo \in Copies, Matches(self.id, mo.id)
  PROVE  /\ TradedBtc(self, mo) \in Int /\ TradedCurrency(self, mo) \in Int
         /\ OnGrid(TradedBtc(self, mo), Tick)
         /\ OnGrid(TradedCurrency(self, mo), Tick)
<1> DEFINE p == Price(self, mo)
           a == Sale(self, mo).amount
           b == Purchase(self, mo).amount
           s == bal[Owner(Sale(self, mo).id)][BTC]
           c == bal[Owner(Purchase(self, mo).id)][Form[self.id].currency]
           q == Quantity(self, mo)
           r == RoundHalfUp(q, Tick * p)
           z == RoundHalfUp(q, Tick * PriceDen)
<1>1. p \in Nat \ {0} /\ PriceDen \in Nat \ {0} /\ Tick \in Nat \ {0}
  BY PricePositive, EngineAssumption
<1>2. a \in Int /\ b \in Int /\ s \in Int /\ c \in Int
  BY EngineAssumption
  DEF Sale, Purchase, Copies, Owner, Forms, Accounts, Currencies
<1>3. q = Lesser(Lesser(a * p, b * p), Lesser(s * p, c * PriceDen))
  BY DEF Quantity
<1>4. TradedBtc(self, mo) = Tick * r /\ TradedCurrency(self, mo) = Tick * z
  BY DEF TradedBtc, TradedCurrency
<1> HIDE DEF p, a, b, s, c, q
<1>5. a * p \in Int /\ b * p \in Int /\ s * p \in Int /\ c * PriceDen \in Int
  BY <1>1, <1>2
<1>6. q \in Int
  BY <1>3, <1>5 DEF Lesser
<1>7. Tick * p \in Nat \ {0} /\ Tick * PriceDen \in Nat \ {0}
  BY <1>1
<1>8. r \in Int /\ z \in Int
  BY <1>6, <1>7, RoundHalfUpInt
<1> HIDE DEF r, z
<1>9. /\ Tick * r \in Int /\ Tick * r = r * Tick
      /\ Tick * z \in Int /\ Tick * z = z * Tick
  BY <1>1, <1>8
<1> QED
  BY <1>4, <1>8, <1>9 DEF OnGrid

(* What is added to the balance that pays a debit, and nobody else takes.   *)
LEMMA PayableTail ==
  ASSUME bal \in [Accounts -> [Currencies -> Int]],
         NEW aos \in Seq(AOs), aos # <<>>, Payable(aos),
         \/ bal' = bal
         \/ bal' = [bal EXCEPT ![Head(aos).account][Head(aos).currency]
                      = @ + Head(aos).amount]
  PROVE  Payable(Tail(aos))'
<1> DEFINE h == Head(aos)
           t == Tail(aos)
<1>1. /\ Len(aos) \in Nat /\ Len(aos) > 0 /\ Len(t) = Len(aos) - 1
      /\ DOMAIN aos = 1..Len(aos) /\ DOMAIN t = 1..Len(t)
      /\ \A i \in 1..Len(t) : t[i] = aos[i + 1]
      /\ h = aos[1]
  OBVIOUS
<1>2. \A i \in 1..Len(t) : i + 1 \in DOMAIN aos /\ i + 1 # 1 /\ 1 \in DOMAIN aos
  BY <1>1
<1>3. \A i \in DOMAIN aos : aos[i] \in AOs
  BY <1>1
<1> HIDE DEF h, t
<1>4. \A i \in DOMAIN t : Covered(t[i])'
  <2> SUFFICES ASSUME NEW i \in DOMAIN t PROVE Covered(t[i])'
    OBVIOUS
  <2> DEFINE x == t[i]
  <2>1. x = aos[i + 1] /\ i + 1 \in DOMAIN aos /\ 1 \in DOMAIN aos
        /\ i + 1 # 1
    BY <1>1, <1>2
  <2>2. x \in AOs /\ h \in AOs /\ Covered(x)
    BY <1>1, <1>3, <2>1 DEF Payable
  <2>3. ~(UserDebit(x) /\ UserDebit(h) /\ x.account = h.account
            /\ x.currency = h.currency)
    BY <1>1, <2>1 DEF Payable
  <2>4. \/ bal' = bal
        \/ bal' = [bal EXCEPT ![h.account][h.currency] = @ + h.amount]
    BY DEF h
  <2> HIDE DEF x
  <2> SUFFICES ASSUME UserDebit(x)
               PROVE  -x.amount <= bal'[x.account][x.currency]
    BY DEF Covered, UserDebit, x
  <2>5. /\ -x.amount <= bal[x.account][x.currency]
        /\ bal[x.account][x.currency] \in Int
        /\ x.amount \in Int /\ h.amount \in Int
    BY <2>2 DEF Covered, UserDebit, AOs
  <2>6. CASE bal' = bal
    BY <2>5, <2>6
  <2>7. CASE bal' # bal
    <3>1. /\ h.account \in Accounts /\ h.currency \in Currencies
          /\ x.account \in Accounts /\ x.currency \in Currencies
      BY <2>2 DEF AOs
    <3>2. bal'[x.account][x.currency] =
            IF x.account = h.account /\ x.currency = h.currency
            THEN bal[x.account][x.currency] + h.amount
            ELSE bal[x.account][x.currency]
      BY <2>4, <2>7, <3>1
    <3>3. x.account = h.account /\ x.currency = h.currency => h.amount >= 0
      BY <2>3, <2>5 DEF UserDebit
    <3> QED
      BY <2>5, <3>2, <3>3
  <2> QED
    BY <2>6, <2>7
<1>5. \A i, j \in DOMAIN t :
        /\ UserDebit(t[i]) /\ UserDebit(t[j])
        /\ t[i].account = t[j].account /\ t[i].currency = t[j].currency
        => i = j
  <2> SUFFICES ASSUME NEW i \in DOMAIN t, NEW j \in DOMAIN t,
                      UserDebit(t[i]), UserDebit(t[j]),
                      t[i].account = t[j].account,
                      t[i].currency = t[j].currency
               PROVE  i = j
    OBVIOUS
  <2>1. /\ t[i] = aos[i + 1] /\ t[j] = aos[j + 1]
        /\ i + 1 \in DOMAIN aos /\ j + 1 \in DOMAIN aos
        /\ i \in Int /\ j \in Int
    BY <1>1, <1>2
  <2>2. i + 1 = j + 1
    BY <2>1 DEF Payable
  <2> QED
    BY <2>1, <2>2
<1> QED
  BY <1>4, <1>5 DEF Payable, t, UserDebit

(* Without commissions, which is the default of the code                     *)
(* (Trade::DEFAULT_COMMISSION_RATE), what the last two clauses ask is so.   *)
LEMMA FreeTrades ==
  ASSUME \A u \in Users : Rate[u] = 0
  PROVE  NetsOnGrid /\ CommissionsAtMostAll
<1>1. RateDen \in Nat \ {0}
  BY EngineAssumption
<1>2. ASSUME NEW u \in Users, NEW x \in Int PROVE Net(x, u) = x
  <2>1. Net(x, u) = RoundHalfUp(x * RateDen, RateDen)
    BY <1>1 DEF Net
  <2> QED
    BY <1>1, <2>1 DEF RoundHalfUp
<1> QED
  BY <1>1, <1>2 DEF NetsOnGrid, CommissionsAtMostAll

(* A trade of orders and balances of whole ticks can be paid by both sides.  *)
LEMMA TradePayable ==
  ASSUME LimitBook, bal \in [Accounts -> [Currencies -> Int]],
         GridBalances(bal),
         NEW self \in Copies, NEW mo \in Copies, Matches(self.id, mo.id),
         Whole(self.amount), Whole(mo.amount), WorthTrading(self, mo)
  PROVE  LET aos == TradeAOs(TradeRow(self, mo))
         IN Payable(aos) /\ GridAOs(aos)
<1> DEFINE t == TradeRow(self, mo)
           aos == TradeAOs(t)
           buyer == Owner(Purchase(self, mo).id)
           seller == Owner(Sale(self, mo).id)
           c == Form[self.id].currency
           tb == TradedBtc(self, mo)
           tc == TradedCurrency(self, mo)
<1>1. /\ tb \in Int /\ tc \in Int /\ tb > 0 /\ tc > 0
      /\ OnGrid(tb, Tick) /\ OnGrid(tc, Tick)
  BY TradedOnGrid DEF WorthTrading
<1>2. /\ buyer \in Users /\ seller \in Users /\ buyer # seller
      /\ c \in Fiat /\ c # BTC /\ c \in Currencies /\ BTC \in Currencies
      /\ Form[Purchase(self, mo).id].currency = c
  BY EngineAssumption
  DEF Purchase, Sale, Owner, Forms, Copies, Matches, Currencies, BTC
<1>3. /\ tb <= bal[seller][BTC] /\ tc <= bal[buyer][c]
  <2>1. /\ OnGrid(Sale(self, mo).amount, Tick)
        /\ OnGrid(Purchase(self, mo).amount, Tick)
    BY DEF Whole, Sale, Purchase
  <2>2. /\ OnGrid(bal[seller][BTC], Tick) /\ OnGrid(bal[buyer][c], Tick)
    BY <1>2 DEF GridBalances
  <2> QED
    BY <2>1, <2>2, TradeWithinMeans
<1>4. /\ t.purchase = Purchase(self, mo).id /\ t.sale = Sale(self, mo).id
      /\ t.btc = tb /\ t.cur = tc
  BY DEF TradeRow
<1>5. aos = << AO(buyer, c, -tc), AO(seller, c, Net(tc, seller)),
               AO(seller, BTC, -tb), AO(buyer, BTC, Net(tb, buyer)),
               AO(Fees, BTC, Fee(tb, buyer)), AO(Fees, c, Fee(tc, seller)) >>
  BY <1>2, <1>4 DEF TradeAOs
<1>6. /\ Net(tc, seller) >= 0 /\ Net(tb, buyer) >= 0
      /\ Net(tc, seller) \in Int /\ Net(tb, buyer) \in Int
  <2>1. /\ RateDen - Rate[buyer] \in Nat /\ RateDen - Rate[seller] \in Nat
        /\ RateDen \in Nat \ {0} /\ tb \in Nat /\ tc \in Nat
    BY <1>1, <1>2, EngineAssumption DEF CommissionsAtMostAll, LimitBook
  <2>2. /\ tc * (RateDen - Rate[seller]) \in Nat
        /\ tb * (RateDen - Rate[buyer]) \in Nat
    BY <2>1
  <2> QED
    BY <2>1, <2>2, RoundsUpFromZero, RoundHalfUpInt DEF Net
<1>7. OnGrid(Net(tc, seller), Tick) /\ OnGrid(Net(tb, buyer), Tick)
      /\ OnGrid(-tb, Tick) /\ OnGrid(-tc, Tick)
  BY <1>1, <1>2, GridSum DEF LimitBook, NetsOnGrid
<1>8. Fees \notin Users
  BY EngineAssumption
<1> DEFINE ns == Net(tc, seller)
           nb == Net(tb, buyer)
           fb == Fee(tb, buyer)
           fc == Fee(tc, seller)
<1>9. /\ aos = << AO(buyer, c, -tc), AO(seller, c, ns), AO(seller, BTC, -tb),
                  AO(buyer, BTC, nb), AO(Fees, BTC, fb), AO(Fees, c, fc) >>
      /\ ns >= 0 /\ nb >= 0 /\ ns \in Int /\ nb \in Int
      /\ OnGrid(ns, Tick) /\ OnGrid(nb, Tick)
  BY <1>5, <1>6, <1>7
<1> HIDE DEF aos, buyer, seller, c, tb, tc, ns, nb, fb, fc
<1>10. /\ DOMAIN aos = 1..6
       /\ aos[1] = AO(buyer, c, -tc) /\ aos[2] = AO(seller, c, ns)
       /\ aos[3] = AO(seller, BTC, -tb) /\ aos[4] = AO(buyer, BTC, nb)
       /\ aos[5] = AO(Fees, BTC, fb) /\ aos[6] = AO(Fees, c, fc)
  BY <1>9
<1>14. \A i \in DOMAIN aos : i \in {1, 2, 3, 4, 5, 6}
  BY <1>10
<1>15. \A a, k, x : /\ AO(a, k, x).account = a /\ AO(a, k, x).currency = k
                   /\ AO(a, k, x).amount = x
  BY DEF AO
<1>16. /\ aos[1].account = buyer /\ aos[1].currency = c /\ aos[1].amount = -tc
       /\ aos[2].account = seller /\ aos[2].amount = ns
       /\ aos[3].account = seller /\ aos[3].currency = BTC
       /\ aos[3].amount = -tb
       /\ aos[4].account = buyer /\ aos[4].amount = nb
       /\ aos[5].account = Fees /\ aos[6].account = Fees
  BY <1>10, <1>15
<1>11. GridAOs(aos)
  BY <1>7, <1>8, <1>9, <1>14, <1>16 DEF GridAOs
<1>12. \A i \in DOMAIN aos : UserDebit(aos[i]) =>
         \/ i = 1 /\ aos[i].account = buyer /\ aos[i].amount = -tc
              /\ aos[i].currency = c
         \/ i = 3 /\ aos[i].account = seller /\ aos[i].amount = -tb
              /\ aos[i].currency = BTC
  BY <1>8, <1>9, <1>14, <1>16 DEF UserDebit
<1>13. Payable(aos)
  <2>1. \A i \in DOMAIN aos : Covered(aos[i])
    <3> SUFFICES ASSUME NEW i \in DOMAIN aos, UserDebit(aos[i])
                 PROVE  -aos[i].amount <= bal[aos[i].account][aos[i].currency]
      BY DEF Covered, UserDebit
    <3>1. -(-tc) = tc /\ -(-tb) = tb
      BY <1>1
    <3> QED
      BY <1>3, <1>12, <3>1
  <2>2. \A i, j \in DOMAIN aos :
          /\ UserDebit(aos[i]) /\ UserDebit(aos[j])
          /\ aos[i].account = aos[j].account
          /\ aos[i].currency = aos[j].currency
          => i = j
    BY <1>2, <1>12
  <2> QED
    BY <2>1, <2>2 DEF Payable
<1> QED
  BY <1>11, <1>13 DEF aos

LEMMA PushedTop ==
  ASSUME NEW S, NEW s \in Seq(S), NEW f \in S
  PROVE  /\ <<f>> \o s # <<>> /\ Head(<<f>> \o s) = f /\ Tail(<<f>> \o s) = s
<1> DEFINE t == <<f>> \o s
<1>1. /\ t \in Seq(S) /\ Len(t) = Len(s) + 1 /\ Len(s) \in Nat
      /\ t[1] = f /\ \A i \in 1..Len(s) : t[i + 1] = s[i]
  OBVIOUS
<1> HIDE DEF t
<1>2. t # <<>> /\ Head(t) = f
  BY <1>1
<1>3. Tail(t) = s
  <2>1. Tail(t) \in Seq(S) /\ Len(Tail(t)) = Len(s)
        /\ \A i \in 1..Len(s) : Tail(t)[i] = t[i + 1]
    BY <1>1, <1>2
  <2> QED
    BY <1>1, <2>1
<1> QED
  BY <1>2, <1>3 DEF t

(* The operation of a deposit or a withdrawal that is done.                 *)
LEMMA AfterMove ==
  ASSUME NEW m \in Moves
  PROVE  /\ MoveAOs(m) # <<>> /\ Head(MoveAOs(m)) = m
         /\ Tail(MoveAOs(m)) = <<AO(Storage, m.currency, -m.amount)>>
         /\ Tail(MoveAOs(m)) # <<>>
         /\ Head(Tail(MoveAOs(m))) = AO(Storage, m.currency, -m.amount)
         /\ Tail(Tail(MoveAOs(m))) = <<>>
         /\ DOMAIN Tail(MoveAOs(m)) = {1}
         /\ Payable(Tail(MoveAOs(m))) /\ Payable(<<>>)
         /\ Covered(AO(Storage, m.currency, -m.amount))
<1>1. Storage \notin Users
  BY EngineAssumption
<1> DEFINE s == AO(Storage, m.currency, -m.amount)
<1>2. s.account = Storage
  BY DEF AO
<1> HIDE DEF s
<1>3. /\ MoveAOs(m) = <<m, s>>
  BY DEF MoveAOs, s
<1>4. /\ <<m, s>> # <<>> /\ Head(<<m, s>>) = m /\ Tail(<<m, s>>) = <<s>>
      /\ <<s>> # <<>> /\ Head(<<s>>) = s /\ Tail(<<s>>) = <<>>
      /\ DOMAIN <<s>> = {1} /\ <<s>>[1] = s /\ DOMAIN <<>> = {}
  OBVIOUS
<1>5. Covered(s) /\ ~UserDebit(s)
  BY <1>1, <1>2 DEF Covered, UserDebit
<1> QED
  BY <1>3, <1>4, <1>5 DEF Payable, s

Posts ==
  Underway =>
    /\ GridAOs(Operation.aos)
    /\ \/ Operation.refused = <<>> /\ Payable(Operation.aos)
       \/ Top.op = "post" /\ Rest = <<>> /\ Refusable(Top)

LEMMA FlatPersists ==
  ASSUME FlatInv, GridBalances(bal'), Persist \/ UNCHANGED committed,
         Flat', Posts'
  PROVE  FlatInv'
<1>1. GridBalances(committed'.bal)
  BY DEF FlatInv, Persist, Tables
<1> QED
  BY <1>1 DEF FlatInv, Posts

LEMMA FlatRollsBack ==
  ASSUME FlatInv, Rollback PROVE FlatInv'
BY DEF FlatInv, Rollback, Flat, AtRest, Underway

(* The frame of an execution, whether the stack was empty or held another.   *)
LEMMA FlatExecutes ==
  ASSUME FlatInv, NEW f \in SafeFrames, f.op \in {"match", "settle"},
         stack' = <<f>> \/ (Rest = <<>> /\ stack' = <<f>> \o Rest),
         UNCHANGED bal, Persist
  PROVE  FlatInv'
<1>1. <<>> \in Seq(SafeFrames) /\ <<f>> \o <<>> = <<f>>
  OBVIOUS
<1>5. stack' = <<f>> \o <<>>
  BY <1>1
<1>2. stack' # <<>> /\ Head(stack') = f /\ Tail(stack') = <<>>
  BY <1>1, <1>5, PushedTop
<1>3. GridBalances(bal')
  BY DEF FlatInv
<1>4. Flat' /\ Posts'
  BY <1>2 DEF Flat, Posts, Underway, AtRest, Top, Rest
<1> QED
  BY <1>3, <1>4, FlatPersists

(* An operation goes on, or a refresh of one of its account operations.      *)
LEMMA FlatPosts ==
  ASSUME FlatInv, NEW f \in SafeFrames, NEW s \in Seq(SafeFrames), Below(s),
         f.op = "post", stack' = <<f>> \o s, GridBalances(bal'),
         GridAOs(f.aos),
         \/ f.refused = <<>> /\ Payable(f.aos)'
         \/ s = <<>> /\ Refusable(f)',
         Persist
  PROVE  FlatInv'
<1>1. stack' # <<>> /\ Head(stack') = f /\ Tail(stack') = s
  BY PushedTop
<1>2. Flat'
  BY <1>1 DEF Flat, AtRest, Top, Rest
<1>3. Top' = f /\ Rest' = s /\ Operation' = f
  BY <1>1 DEF Top, Rest, Operation
<1>4. CASE f.refused = <<>> /\ Payable(f.aos)'
  <2>1. GridAOs(Operation.aos)'
    BY <1>3 DEF GridAOs
  <2>2. Payable(Operation.aos)'
    BY <1>3, <1>4 DEF Payable, Covered, UserDebit
  <2>3. (Operation.refused = <<>>)'
    BY <1>3, <1>4
  <2>4. Posts'
    BY <2>1, <2>2, <2>3, PTL DEF Posts
  <2> QED
    BY <1>2, <2>4, FlatPersists
<1>5. CASE s = <<>> /\ Refusable(f)'
  <2>1. GridAOs(Operation.aos)'
    BY <1>3 DEF GridAOs
  <2>2. Refusable(Top)'
    BY <1>3, <1>5 DEF Refusable, Covered, MoveAOs, AO
  <2>3. (Top.op = "post" /\ Rest = <<>>)'
    BY <1>3, <1>5
  <2>4. Posts'
    BY <2>1, <2>2, <2>3, PTL DEF Posts
  <2> QED
    BY <1>2, <2>4, FlatPersists
<1> QED
  BY <1>4, <1>5

LEMMA FlatRefreshes ==
  ASSUME FlatInv, NEW f \in SafeFrames, NEW g \in SafeFrames,
         NEW s \in Seq(SafeFrames), Below(s),
         f.op = "refresh", g.op = "post", stack' = <<f>> \o (<<g>> \o s),
         GridBalances(bal'), GridAOs(g.aos),
         g.refused = <<>> /\ Payable(g.aos)',
         Persist
  PROVE  FlatInv'
<1>1. <<g>> \o s \in Seq(SafeFrames)
  BY PushFrame
<1>2. stack' # <<>> /\ Head(stack') = f /\ Tail(stack') = <<g>> \o s
  BY <1>1, PushedTop
<1>3. <<g>> \o s # <<>> /\ Head(<<g>> \o s) = g /\ Tail(<<g>> \o s) = s
  BY PushedTop
<1> DEFINE u == <<g>> \o s
<1> HIDE DEF u
<1>4. /\ stack' # <<>> /\ Head(stack') = f /\ Tail(stack') = u
      /\ u # <<>> /\ Head(u) = g /\ Tail(u) = s
  BY <1>2, <1>3 DEF u
<1>5. Flat'
  BY <1>4 DEF Flat, AtRest, Top, Rest
<1>6. Posts'
  BY <1>4 DEF Posts, Underway, AtRest, Top, Rest, Operation, Payable,
     Covered, UserDebit
<1> QED
  BY <1>5, <1>6, FlatPersists

(* The running frame returns to the settlement below it, or to nobody.      *)
LEMMA FlatReturns ==
  ASSUME FlatInv, Below(Rest), stack' = Rest, UNCHANGED bal, Persist
  PROVE  FlatInv'
<1>1. GridBalances(bal')
  BY DEF FlatInv
<1>2. CASE Rest = <<>>
  <2>1. Flat' /\ Posts'
    BY <1>2 DEF Flat, Posts, Underway, AtRest
  <2> QED
    BY <1>1, <2>1, FlatPersists
<1>3. CASE Rest # <<>> /\ Head(Rest).op = "settle" /\ Tail(Rest) = <<>>
  <2>1. stack' # <<>> /\ Top'.op = "settle" /\ Rest' = <<>>
    BY <1>3 DEF Top, Rest
  <2>2. Flat' /\ Posts'
    BY <2>1 DEF Flat, Posts, Underway, AtRest
  <2> QED
    BY <1>1, <2>2, FlatPersists
<1> QED
  BY <1>2, <1>3 DEF Below

LEMMA FlatStays ==
  ASSUME FlatInv, AtRest, stack' = stack, GridBalances(bal'),
         Persist \/ UNCHANGED committed
  PROVE  FlatInv'
<1>1. AtRest'
  BY DEF AtRest
<1>2. Flat'
  BY <1>1 DEF Flat
<1>3. ~Underway'
  BY ONLY <1>1 DEF Underway
<1>4. Posts'
  BY ONLY <1>3, Zenon DEF Posts
<1> QED
  BY <1>2, <1>4, FlatPersists

LEMMA FlatStutters ==
  ASSUME FlatInv, UNCHANGED <<bal, committed, stack>>
  PROVE  FlatInv'
BY Zenon DEF FlatInv, Flat, AtRest, Top, Rest, Underway, Operation, Payable,
       Refusable, Covered, MoveAOs, AO, UserDebit

-----------------------------------------------------------------------------
LEMMA FlatRecordTrade ==
  ASSUME LimitBook, IInv, GridInv, FlatInv, RecordTrade PROVE FlatInv'
<1>1. /\ Top \in SafeMatchFrames /\ Rest = <<>>
      /\ Top.op = "match" /\ stack # <<>>
      /\ Range(stack) = {Top} \cup Range(Rest)
  BY TopFrame, RunningFrame
  DEF IInv, RecordTrade, Running, Top, FlatInv, Flat, AtRest
<1> DEFINE after(c, mo) ==
      [c EXCEPT !.amount = @ - TradedBtc(Top.self, mo)]
           posting(mo) == Posting(TradeAOs(TradeRow(Top.self, mo)), <<>>, BTC)
           settle(mo) == [op |-> "settle", self |-> after(Top.self, mo),
                          mo |-> after(mo, mo), mos |-> Top.mos \ {mo}]
<1>2. PICK mo \in Best(Top.self.id, Top.mos) :
        /\ WorthTrading(Top.self, mo)
        /\ stack' = <<posting(mo), settle(mo)>> \o Rest
  BY DEF RecordTrade
<1>3. /\ mo \in Copies /\ mo \in Top.mos /\ Top.self \in Copies
      /\ Matches(Top.self.id, mo.id)
  BY <1>1 DEF SafeMatchFrames, MatchFrames, Best
<1>4. Whole(Top.self.amount) /\ Whole(mo.amount)
  BY <1>1, <1>3 DEF GridInv, WholeFrame
<1>5. bal \in [Accounts -> [Currencies -> Int]] /\ GridBalances(bal)
  BY DEF IInv, SafeTables, SafeBalances, FlatInv
<1>6. /\ Payable(TradeAOs(TradeRow(Top.self, mo)))
      /\ GridAOs(TradeAOs(TradeRow(Top.self, mo)))
  BY <1>2, <1>3, <1>4, <1>5, TradePayable
<1>7. posting(mo) \in SafeFrames
  <2>1. TradeRow(Top.self, mo) \in SafeRows
    BY <1>3, TradeRowSafe DEF IInv, SafeTables, SafeBalances
  <2>2. TradeAOs(TradeRow(Top.self, mo)) \in Seq(SafeAOs)
    BY <2>1, TradeAOsSafe DEF SafeRows
  <2> QED
    BY <2>2, PostingAnewSafe DEF Currencies
<1>8. settle(mo) \in SafeFrames /\ settle(mo).op = "settle"
  <2>1. after(Top.self, mo) \in Copies /\ after(mo, mo) \in Copies
    BY <1>3, <1>4, <1>5, TradedOnGrid DEF Copies, Whole
  <2>2. after(Top.self, mo).id = Top.self.id
    BY <1>3 DEF Copies
  <2> HIDE DEF after
  <2> QED
    BY <1>1, <2>1, <2>2 DEF SafeFrames, SafeSettleFrames, SettleFrames,
       SafeMatchFrames, MatchFrames
<1>9. /\ posting(mo).op = "post" /\ posting(mo).refused = <<>>
      /\ posting(mo).aos = TradeAOs(TradeRow(Top.self, mo))
  BY DEF Posting
<1>10. bal' = bal /\ Persist
  BY DEF RecordTrade
<1>11. PICK f \in SafeFrames, g \in SafeFrames :
       /\ g.op = "settle"
       /\ f.op = "post" /\ f.refused = <<>> /\ Payable(f.aos) /\ GridAOs(f.aos)
       /\ stack' = <<f, g>> \o <<>>
  BY <1>1, <1>2, <1>6, <1>7, <1>8, <1>9
<1>12. <<>> \in Seq(SafeFrames)
  OBVIOUS
<1>13. stack' = <<f>> \o (<<g>> \o <<>>) /\ <<g>> \o <<>> \in Seq(SafeFrames)
  BY <1>11, <1>12, TwoFrames
<1>14. Below(<<g>> \o <<>>)
  <2>1. /\ <<g>> \o <<>> # <<>> /\ Head(<<g>> \o <<>>) = g
        /\ Tail(<<g>> \o <<>>) = <<>>
    BY <1>11, <1>12, PushedTop
  <2> QED
    BY <1>11, <2>1 DEF Below
<1>15. Payable(f.aos)'
  BY <1>10, <1>11 DEF Payable, Covered, UserDebit
<1> QED
  BY <1>5, <1>10, <1>11, <1>13, <1>14, <1>15, FlatPosts

(* What a user receives or pays leaves his balances on the grid.            *)
LEMMA GridPost ==
  ASSUME IInv, FlatInv, NEW ao \in AOs, NEW left, InsertRow(ao, left),
         ao.account \in Users => OnGrid(ao.amount, Tick)
  PROVE  /\ GridBalances(bal')
         /\ \/ bal' = bal
            \/ bal' = [bal EXCEPT ![ao.account][ao.currency] = @ + ao.amount]
<1>1. CASE bal' = bal
  BY <1>1 DEF FlatInv
<1>2. CASE bal' = [bal EXCEPT ![ao.account][ao.currency] = @ + ao.amount]
  <2>1. /\ bal \in [Accounts -> [Currencies -> Int]]
        /\ ao.account \in Accounts /\ ao.currency \in Currencies
        /\ ao.amount \in Int
    BY DEF IInv, SafeTables, SafeBalances, AOs
  <2>2. \A u \in Users : \A c \in Currencies :
          /\ bal[u][c] \in Int /\ OnGrid(bal[u][c], Tick)
          /\ bal'[u][c] = IF u = ao.account /\ c = ao.currency
                          THEN bal[u][c] + ao.amount ELSE bal[u][c]
    BY <1>2, <2>1 DEF FlatInv, GridBalances, Accounts
  <2>3. \A u \in Users : \A c \in Currencies : OnGrid(bal'[u][c], Tick)
    BY <2>1, <2>2, GridSum
  <2> QED
    BY <1>2, <2>3 DEF GridBalances
<1> QED
  BY <1>1, <1>2 DEF InsertRow

(* The running operation.                                                   *)
LEMMA RunningPost ==
  ASSUME IInv, FlatInv, Running("post")
  PROVE  /\ Top \in SafePostFrames /\ Top \in SafeFrames /\ Top.op = "post"
         /\ stack # <<>> /\ Rest \in Seq(SafeFrames) /\ Below(Rest)
         /\ Top.aos \in Seq(AOs) /\ Top.aos \in Seq(SafeAOs) /\ GridAOs(Top.aos)
         /\ \/ Top.refused = <<>> /\ Payable(Top.aos)
            \/ Rest = <<>> /\ Refusable(Top)
<1>1. stack # <<>> /\ Top.op = "post"
  BY DEF Running, Top
<1>2. Top \in SafePostFrames /\ Rest \in Seq(SafeFrames) /\ Top \in SafeFrames
  BY <1>1, TopFrame DEF IInv, SafeFrames
<1>3. Top.aos \in Seq(AOs) /\ Top.aos \in Seq(SafeAOs)
  BY <1>1, <1>2, PostFrame DEF SafePostFrames
<1>4. Underway /\ Operation = Top /\ ~AtRest
  BY <1>1 DEF Underway, AtRest, Operation
<1> QED
  BY <1>1, <1>2, <1>3, <1>4 DEF FlatInv, Flat

(* The account operations left to add, and what they are.                   *)
LEMMA LeftToPost ==
  ASSUME NEW S, NEW aos \in Seq(S), aos # <<>>
  PROVE  /\ Head(aos) \in S /\ Tail(aos) \in Seq(S)
         /\ Head(aos) = aos[1] /\ 1 \in DOMAIN aos
         /\ \A i \in DOMAIN Tail(aos) :
              i + 1 \in DOMAIN aos /\ Tail(aos)[i] = aos[i + 1]
<1>1. /\ Len(aos) \in Nat /\ Len(aos) > 0 /\ Len(Tail(aos)) = Len(aos) - 1
      /\ DOMAIN aos = 1..Len(aos) /\ DOMAIN Tail(aos) = 1..Len(Tail(aos))
      /\ \A i \in 1..Len(Tail(aos)) : Tail(aos)[i] = aos[i + 1]
      /\ Head(aos) = aos[1]
  OBVIOUS
<1>2. Head(aos) \in S /\ Tail(aos) \in Seq(S)
  OBVIOUS
<1> QED
  BY <1>1, <1>2

(* A row is inserted and the operation left waits, that its user's orders   *)
(* are refreshed, if it has one.                                            *)
LEMMA FlatInsertRow ==
  ASSUME IInv, FlatInv, NEW ao \in SafeAOs, NEW left \in SafeFrames,
         stack # <<>>, Below(Rest), left.op = "post", InsertRow(ao, left),
         ao.account \in Users => OnGrid(ao.amount, Tick), GridAOs(left.aos),
         \/ left.refused = <<>> /\ Payable(left.aos)'
         \/ ao.account \notin Users /\ Rest = <<>> /\ Refusable(left)',
         Persist
  PROVE  FlatInv'
<1>1. Rest \in Seq(SafeFrames) /\ ao \in AOs
  BY TopFrame DEF IInv, SafeAOs
<1>2. GridBalances(bal')
  BY <1>1, GridPost
<1> DEFINE fresh == [op |-> "refresh", ao |-> ao,
                     todo |-> {Copy(o) : o \in
                       {n \in Ids : Placed(n) /\ Owner(n) = ao.account}}]
<1>3. fresh \in SafeFrames /\ fresh.op = "refresh"
  BY DEF IInv, SafeTables, SafeFrames, RefreshFrames, SafeAOs, Copy, Copies,
         Rows
<1>4. PICK f \in SafeFrames, s \in Seq(SafeFrames) :
        /\ f.op = "refresh" /\ s = Rest
        /\ stack' = IF ao.account \in Users THEN <<f, left>> \o s
                                            ELSE <<left>> \o s
  BY <1>1, <1>3 DEF InsertRow
<1>5. CASE ao.account \in Users
  <2>1. stack' = <<f>> \o (<<left>> \o s)
    BY <1>4, <1>5, TwoFrames
  <2> QED
    BY <1>2, <1>4, <1>5, <2>1, FlatRefreshes
<1>6. CASE ao.account \notin Users
  BY <1>2, <1>4, <1>6, FlatPosts
<1> QED
  BY <1>5, <1>6

LEMMA FlatPost ==
  ASSUME IInv, FlatInv, Post PROVE FlatInv'
<1>1. Running("post") /\ Top.aos # <<>> /\ Persist
  BY DEF Post
<1>2. PICK left \in SafeFrames :
        /\ left.op = "post" /\ left.aos = Tail(Top.aos)
        /\ left.refused = Top.refused
        /\ InsertRow(Head(Top.aos), left)
  <2>1. [Top EXCEPT !.aos = Tail(@)] \in SafeFrames
    BY <1>1, RunningPost, LeftToPost DEF SafePostFrames, SafeFrames
  <2> QED
    BY <1>1, <2>1, RunningPost DEF Post, SafePostFrames
<1>3. PICK aos \in Seq(AOs), ao \in SafeAOs :
        /\ aos = Top.aos /\ ao = Head(aos) /\ aos # <<>>
        /\ InsertRow(ao, left) /\ left.aos = Tail(aos)
  BY <1>1, <1>2, RunningPost, LeftToPost DEF SafeAOs
<1>4. /\ ao.account \in Users => OnGrid(ao.amount, Tick)
      /\ GridAOs(left.aos)
  BY <1>1, <1>3, RunningPost, LeftToPost DEF GridAOs
<1>5. /\ \/ bal' = bal
         \/ bal' = [bal EXCEPT ![Head(aos).account][Head(aos).currency]
                      = @ + Head(aos).amount]
      /\ bal \in [Accounts -> [Currencies -> Int]]
  BY <1>3, <1>4, GridPost DEF SafeAOs, IInv, SafeTables, SafeBalances
<1>6. CASE Top.refused = <<>> /\ Payable(Top.aos)
  <2>1. Payable(Tail(aos))'
    BY <1>3, <1>5, <1>6, PayableTail
  <2>2. Payable(left.aos)'
    BY <1>3, <2>1
  <2> QED
    BY <1>1, <1>2, <1>3, <1>4, <1>6, <2>2, RunningPost, FlatInsertRow
<1>7. CASE Rest = <<>> /\ Refusable(Top)
  <2>1. PICK m \in Moves :
          \/ Top.refused = <<>> /\ Top.aos = MoveAOs(m)
          \/ Top.refused = <<m>> /\ ~Covered(m)
             /\ Top.aos \in {Tail(MoveAOs(m)), <<>>}
    BY <1>7 DEF Refusable
  <2>2. CASE Top.refused = <<>> /\ Top.aos = MoveAOs(m)
    <3>1. left.aos = <<AO(Storage, m.currency, -m.amount)>>
      BY <1>2, <2>2, AfterMove
    <3>2. Storage \notin Users
      BY EngineAssumption
    <3>3. /\ DOMAIN left.aos = {1} /\ left.aos[1].account = Storage
      BY <3>1 DEF AO
    <3>4. Payable(left.aos)'
      BY <3>2, <3>3 DEF Payable, Covered, UserDebit
    <3> QED
      BY <1>1, <1>2, <1>3, <1>4, <2>2, <3>4, RunningPost, FlatInsertRow
  <2>3. CASE Top.refused = <<m>> /\ ~Covered(m)
             /\ Top.aos \in {Tail(MoveAOs(m)), <<>>}
    <3>1. ao = AO(Storage, m.currency, -m.amount) /\ left.aos = <<>>
      BY <1>1, <1>2, <1>3, <2>3, AfterMove
    <3>2. /\ ao.account = Storage /\ Storage \notin Users
          /\ m.account \in Users /\ m.currency \in Currencies
      BY <3>1, EngineAssumption DEF AO, AOs
    <3>3. bal'[m.account][m.currency] = bal[m.account][m.currency]
      BY <1>3, <1>5, <3>2 DEF Accounts
    <3>4. ~Covered(m)'
      BY <2>3, <3>3 DEF Covered
    <3>5. Refusable(left)'
      BY <1>2, <2>3, <3>1, <3>4 DEF Refusable
    <3> QED
      BY <1>1, <1>2, <1>3, <1>4, <1>7, <3>2, <3>5, RunningPost, FlatInsertRow
  <2> QED
    BY <2>1, <2>2, <2>3
<1> QED
  BY <1>1, <1>6, <1>7, RunningPost

LEMMA FlatRefuse ==
  ASSUME IInv, FlatInv, Refuse PROVE FlatInv'
<1>1. /\ Running("post") /\ Top.aos # <<>> /\ Persist /\ bal' = bal
      /\ ~Covered(Head(Top.aos))
  BY DEF Refuse
<1>2. ~Payable(Top.aos)
  BY <1>1, RunningPost, LeftToPost DEF Payable
<1>3. Rest = <<>> /\ Refusable(Top)
  BY <1>1, <1>2, RunningPost
<1>4. PICK m \in Moves : Top.refused = <<>> /\ Top.aos = MoveAOs(m)
  <2>1. PICK m \in Moves :
          \/ Top.refused = <<>> /\ Top.aos = MoveAOs(m)
          \/ Top.refused = <<m>> /\ Top.aos \in {Tail(MoveAOs(m)), <<>>}
    BY <1>3 DEF Refusable
  <2>2. Covered(Head(Tail(MoveAOs(m))))
    BY AfterMove
  <2> QED
    BY <1>1, <2>1, <2>2
<1> DEFINE left == [Top EXCEPT !.aos = Tail(@),
                               !.refused = Append(@, Head(Top.aos))]
<1>5. /\ left \in SafeFrames /\ left.op = "post"
      /\ left.aos = Tail(MoveAOs(m)) /\ left.refused = <<m>>
  <2>1. m \in ConfirmedAOs
    <3>1. ~Covered(m) /\ m \in AOs
      BY <1>1, <1>4, AfterMove, EngineAssumption
    <3>2. m.amount < 0
      BY <3>1 DEF Covered
    <3>3. m.confirmed
      BY <3>2, EngineAssumption, <3>1 DEF AOs
    <3> QED
      BY <3>1, <3>3 DEF ConfirmedAOs, SafeAOs
  <2>2. Append(<<>>, m) = <<m>> /\ <<m>> \in Seq(ConfirmedAOs)
    BY <2>1
  <2>3. Head(Top.aos) = m /\ Tail(Top.aos) = Tail(MoveAOs(m))
        /\ Tail(Top.aos) \in Seq(SafeAOs)
    BY <1>1, <1>4, AfterMove, RunningPost, LeftToPost
  <2> QED
    BY <1>1, <1>4, <2>2, <2>3, RunningPost DEF SafePostFrames, SafeFrames
<1>6. PICK f \in SafeFrames :
        /\ f.op = "post" /\ f.aos = Tail(MoveAOs(m)) /\ f.refused = <<m>>
        /\ stack' = <<f>> \o Rest
  BY <1>5 DEF Refuse
<1>7. GridAOs(f.aos)
  BY <1>1, <1>4, <1>6, RunningPost, LeftToPost DEF GridAOs
<1>8. Refusable(f)'
  <2>1. ~Covered(m)'
    BY <1>1, <1>4, AfterMove DEF Covered
  <2>2. f.aos = Tail(MoveAOs(m))'
    BY <1>6 DEF MoveAOs, AO
  <2> QED
    BY <1>6, <2>1, <2>2 DEF Refusable
<1>9. GridBalances(bal')
  BY <1>1 DEF FlatInv
<1> QED
  BY <1>1, <1>3, <1>6, <1>7, <1>8, <1>9, RunningPost, FlatPosts

LEMMA OneRefused ==
  ASSUME NEW m, NEW s, s = <<m>> PROVE s[1] = m /\ 1 \in DOMAIN s
OBVIOUS

(* What was refused is not accepted at the save!.                           *)
LEMMA FlatSaveRefused ==
  ASSUME IInv, FlatInv, SaveRefused
  PROVE  FlatInv' /\ Rollback /\ raised' = (raised \/ Executing) /\ Rest = <<>>
<1>1. Running("post") /\ Top.refused # <<>>
  BY DEF SaveRefused
<1>2. Rest = <<>> /\ Refusable(Top)
  BY <1>1, RunningPost
<1>3. PICK m \in Moves : Top.refused = <<m>> /\ ~Covered(m)
  BY <1>1, <1>2 DEF Refusable
<1>4. ~Covered(Top.refused[1]) /\ 1 \in DOMAIN Top.refused
  <2>1. Top.refused[1] = m /\ 1 \in DOMAIN Top.refused
    BY ONLY <1>3, OneRefused, SMTT(30)
  <2> QED
    BY ONLY <1>3, <2>1
<1> QED
  BY <1>2, <1>4, FlatRollsBack DEF SaveRefused

(* The refresh that runs above the operation it was started by.             *)
LEMMA RunningRefresh ==
  ASSUME IInv, FlatInv, Running("refresh")
  PROVE  /\ Top \in RefreshFrames /\ Top \in SafeFrames /\ Top.op = "refresh"
         /\ stack # <<>>
         /\ \E g \in SafeFrames, s \in Seq(SafeFrames) :
              /\ Rest = <<g>> \o s /\ g.op = "post" /\ Below(s)
              /\ GridAOs(g.aos) /\ g.refused = <<>> /\ Payable(g.aos)
<1>1. stack # <<>> /\ Top.op = "refresh" /\ Rest # <<>>
      /\ Head(Rest).op = "post" /\ Below(Tail(Rest))
  BY DEF Running, Top, FlatInv, Flat, AtRest
<1>2. Top \in RefreshFrames /\ Rest \in Seq(SafeFrames) /\ Top \in SafeFrames
  BY <1>1, TopFrame DEF IInv, SafeFrames
<1>3. /\ Head(Rest) \in SafeFrames /\ Tail(Rest) \in Seq(SafeFrames)
      /\ Rest = <<Head(Rest)>> \o Tail(Rest)
  <2>1. ASSUME NEW s \in Seq(SafeFrames), s # <<>>
        PROVE  s = <<Head(s)>> \o Tail(s)
    BY <2>1
  <2> QED
    BY <1>1, <1>2, <2>1, TopAndRest
<1>4. Underway /\ Operation = Head(Rest)
  BY <1>1 DEF Underway, AtRest, Operation
<1>5. /\ GridAOs(Head(Rest).aos) /\ Head(Rest).refused = <<>>
      /\ Payable(Head(Rest).aos)
  BY <1>1, <1>4 DEF FlatInv
<1> QED
  BY <1>1, <1>2, <1>3, <1>5

LEMMA FlatRefreshGoesOn ==
  ASSUME IInv, FlatInv, Running("refresh"), NEW f \in SafeFrames,
         f.op = "refresh", stack' = <<f>> \o Rest, UNCHANGED bal, Persist
  PROVE  FlatInv'
<1>1. PICK g \in SafeFrames, s \in Seq(SafeFrames) :
        /\ Rest = <<g>> \o s /\ g.op = "post" /\ Below(s)
        /\ GridAOs(g.aos) /\ g.refused = <<>> /\ Payable(g.aos)
  BY RunningRefresh
<1>2. GridBalances(bal')
  BY DEF FlatInv
<1>3. Payable(g.aos)'
  BY <1>1 DEF Payable, Covered, UserDebit
<1> QED
  BY <1>1, <1>2, <1>3, FlatRefreshes

LEMMA FlatRefreshReturns ==
  ASSUME IInv, FlatInv, RefreshReturns PROVE FlatInv'
<1>1. PICK g \in SafeFrames, s \in Seq(SafeFrames) :
        /\ Rest = <<g>> \o s /\ g.op = "post" /\ Below(s)
        /\ GridAOs(g.aos) /\ g.refused = <<>> /\ Payable(g.aos)
  BY RunningRefresh DEF RefreshReturns
<1>2. GridBalances(bal') /\ bal' = bal /\ Persist /\ stack' = <<g>> \o s
  BY <1>1 DEF FlatInv, RefreshReturns
<1>3. Payable(g.aos)'
  BY <1>1, <1>2 DEF Payable, Covered, UserDebit
<1> QED
  BY <1>1, <1>2, <1>3, FlatPosts

LEMMA FlatStep ==
  ASSUME LimitBook, IInv, GridInv, FlatInv, Step PROVE FlatInv'
<1>1. CASE Skip
  <2>1. stack # <<>> /\ Top.op = "match" /\ Rest = <<>>
    BY <1>1 DEF Skip, Running, Top, FlatInv, Flat, AtRest
  <2>2. Top \in SafeMatchFrames
    BY <2>1, TopFrame DEF IInv
  <2>3. PICK f \in SafeFrames : f.op = "match" /\ stack' = <<f>> \o Rest
    <3>1. PICK mo \in Best(Top.self.id, Top.mos) :
            stack' = <<[Top EXCEPT !.mos = @ \ {mo}]>> \o Rest
      BY <1>1 DEF Skip
    <3>2. /\ [Top EXCEPT !.mos = @ \ {mo}] \in SafeFrames
          /\ [Top EXCEPT !.mos = @ \ {mo}].op = "match"
      BY <2>1, <2>2 DEF SafeFrames, SafeMatchFrames, MatchFrames
    <3> QED
      BY <3>1, <3>2
  <2> QED
    BY <1>1, <2>1, <2>3, FlatExecutes DEF Skip
<1>2. CASE RecordTrade
  BY <1>2, FlatRecordTrade
<1>3. CASE OrderMissing
  BY <1>3, FlatRollsBack DEF OrderMissing
<1>4. CASE Settle
  <2>1. stack # <<>> /\ Top.op = "settle" /\ Rest = <<>>
    BY <1>4 DEF Settle, Running, Top, FlatInv, Flat, AtRest
  <2>2. Top \in SafeSettleFrames
    BY <2>1, TopFrame DEF IInv
  <2> DEFINE f == [op |-> "match", self |-> Top.self, mos |-> Top.mos,
                   alive |-> Top.self.amount # 0]
  <2>3. f \in SafeFrames /\ f.op = "match"
    BY <2>2 DEF SafeFrames, SafeSettleFrames, SettleFrames, SafeMatchFrames,
       MatchFrames
  <2>4. stack' = <<f>> \o Rest /\ bal' = bal /\ Persist
    BY <1>4 DEF Settle
  <2> HIDE DEF f
  <2> QED
    BY <2>1, <2>3, <2>4, FlatExecutes
<1>5. CASE ExecuteReturns
  <2>1. Rest = <<>>
    BY <1>5 DEF ExecuteReturns, Running, Top, FlatInv, Flat, AtRest
  <2> QED
    BY <1>5, <2>1, FlatReturns DEF ExecuteReturns, Below
<1>6. CASE Post
  BY <1>6, FlatPost
<1>7. CASE Refuse
  BY <1>7, FlatRefuse
<1>8. CASE SaveRefused
  BY <1>8, FlatSaveRefused
<1>9. CASE Insert \/ Drop
  BY <1>9 DEF Insert, Drop, Running, FlatInv, Flat, AtRest, Top
<1>10. CASE PostReturns
  <2>1. Running("post")
    BY <1>10 DEF PostReturns, Running, FlatInv, Flat, AtRest, Top
  <2> QED
    BY <1>10, <2>1, RunningPost, FlatReturns DEF PostReturns
<1>11. CASE RefreshLimitOrder
  <2>1. Running("refresh") /\ bal' = bal /\ Persist
    BY <1>11 DEF RefreshLimitOrder
  <2>2. PICK f \in SafeFrames : f.op = "refresh" /\ stack' = <<f>> \o Rest
    <3>1. PICK t \in Newest(Top.todo) :
            stack' = <<[Top EXCEPT !.todo = @ \ {t}]>> \o Rest
      BY <1>11 DEF RefreshLimitOrder
    <3>2. /\ [Top EXCEPT !.todo = @ \ {t}] \in SafeFrames
          /\ [Top EXCEPT !.todo = @ \ {t}].op = "refresh"
      BY <2>1, RunningRefresh DEF SafeFrames, RefreshFrames
    <3> QED
      BY <3>1, <3>2
  <2> QED
    BY <2>1, <2>2, FlatRefreshGoesOn
<1>12. CASE RefreshMarketOrder
  <2>1. Top \in RefreshFrames
    BY <1>12, RunningRefresh DEF RefreshMarketOrder
  <2>2. \A t \in Newest(Top.todo) : t.id \in Ids
    BY <2>1 DEF Newest, RefreshFrames, Copies
  <2> QED
    BY <1>12, <2>2 DEF RefreshMarketOrder, LimitBook, LimitOrdersOnly
<1>13. CASE RefreshReturns
  BY <1>13, FlatRefreshReturns
<1> QED
  BY <1>1, <1>2, <1>3, <1>4, <1>5, <1>6, <1>7, <1>8, <1>9, <1>10, <1>11,
     <1>12, <1>13 DEF Step

LEMMA FlatRequest ==
  ASSUME LimitBook, IInv, FlatInv, Request PROVE FlatInv'
<1>1. ASSUME NEW w \in Workers, NEW o \in Ids,
             Create(w, o) \/ ActivateCheck(w, o) \/ Destroy(w, o)
      PROVE  FlatInv'
  BY <1>1, FlatStays DEF Create, ActivateCheck, Destroy, FlatInv
<1>2. ASSUME NEW w \in Workers, ActivateSave(w) PROVE FlatInv'
  BY <1>2, FlatStays DEF ActivateSave, FlatInv
<1>3. ASSUME NEW w \in Workers, BeginExecute(w) PROVE FlatInv'
  <2>1. Execution(worker[w].self) \in SafeFrames
    BY <1>3, RequestType, ExecutionSafe
    DEF IInv, SafeTables, SafeFrames, BeginExecute
  <2>2. Execution(worker[w].self).op = "match"
    BY DEF Execution
  <2> QED
    BY <1>3, <2>1, <2>2, FlatExecutes DEF BeginExecute
<1>4. ASSUME NEW m \in Moves, BeginMove(m) PROVE FlatInv'
  <2>1. PICK f \in SafeFrames :
          /\ f.op = "post" /\ f.aos = MoveAOs(m) /\ f.refused = <<>>
          /\ stack' = <<f>>
    <3>1. m \in AOs /\ MoveAOs(m) \in Seq(SafeAOs) /\ m.currency \in Currencies
      BY EngineAssumption
      DEF MoveAOs, SafeAOs, AOs, AO, Received, Accounts
    <3>2. Posting(MoveAOs(m), <<>>, m.currency) \in SafeFrames
      BY <3>1, PostingAnewSafe
    <3> QED
      BY <1>4, <3>2 DEF BeginMove, Posting, MoveAOs
  <2>2. <<>> \in Seq(SafeFrames) /\ <<f>> \o <<>> = <<f>> /\ Below(<<>>)
    BY DEF Below
  <2>3. Refusable(f)'
    BY <2>1 DEF Refusable, MoveAOs, AO
  <2>4. GridAOs(f.aos)
    <3>1. /\ DOMAIN MoveAOs(m) = {1, 2} /\ MoveAOs(m)[1] = m
          /\ MoveAOs(m)[2].account = Storage
      BY DEF MoveAOs, AO
    <3> QED
      BY <2>1, <3>1, EngineAssumption DEF GridAOs, LimitBook, MovesOnGrid
  <2>5. GridBalances(bal') /\ Persist
    BY <1>4 DEF BeginMove, FlatInv
  <2> QED
    BY <2>1, <2>2, <2>3, <2>4, <2>5, FlatPosts
<1>5. ASSUME NEW m \in Received, Confirm(m) PROVE FlatInv'
  <2>1. /\ m \in Moves /\ OnGrid(m.amount, Tick) /\ m.account \in Users
        /\ m.amount \in Int
    BY EngineAssumption DEF Received, LimitBook, MovesOnGrid, AOs
  <2>2. \A u \in Users : \A c \in Currencies :
          /\ bal[u][c] \in Int /\ OnGrid(bal[u][c], Tick)
          /\ bal'[u][c] = IF u = m.account /\ c = BTC
                          THEN bal[u][c] + m.amount ELSE bal[u][c]
    <3>1. /\ bal \in [Accounts -> [Currencies -> Int]]
          /\ m.account \in Accounts /\ BTC \in Currencies
          /\ bal' = [bal EXCEPT ![m.account][BTC] = @ + m.amount]
      BY <1>5, <2>1
      DEF IInv, SafeTables, SafeBalances, Confirm, Accounts, Currencies
    <3> QED
      BY <2>1, <3>1 DEF FlatInv, GridBalances, Accounts
  <2>4. \A u \in Users : \A c \in Currencies : OnGrid(bal'[u][c], Tick)
    <3> SUFFICES ASSUME NEW u \in Users, NEW c \in Currencies
                 PROVE  OnGrid(bal'[u][c], Tick)
      OBVIOUS
    <3>1. /\ bal[u][c] \in Int /\ OnGrid(bal[u][c], Tick)
          /\ bal'[u][c] = bal[u][c] + m.amount \/ bal'[u][c] = bal[u][c]
      BY <2>2
    <3>2. OnGrid(bal[u][c] + m.amount, Tick)
      BY <2>1, <3>1, GridSum
    <3> QED
      BY <3>1, <3>2
  <2>3. GridBalances(bal')
    BY <2>4 DEF GridBalances
  <2> QED
    BY <1>5, <2>3, FlatStays DEF Confirm
<1> QED
  BY <1>1, <1>2, <1>3, <1>4, <1>5 DEF Request

LEMMA FlatNext ==
  ASSUME LimitBook, IInv, GridInv, FlatInv, [Next]_vars PROVE FlatInv'
<1>1. CASE Failure
  BY <1>1, FlatRollsBack, FlatStutters DEF Failure, Crash, Abandon
<1>2. CASE UNCHANGED vars
  BY <1>2, FlatStutters DEF vars
<1> QED
  BY <1>1, <1>2, FlatStep, FlatRequest DEF Next

LEMMA FlatInit == ASSUME Init PROVE FlatInv
<1>1. OnGrid(0, Tick)
  BY EngineAssumption DEF OnGrid
<1>2. stack = <<>> /\ GridBalances(bal) /\ committed.bal = bal
  BY <1>1 DEF Init, GridBalances, Tables, Accounts
<1> QED
  BY <1>2 DEF FlatInv, Flat, AtRest, Underway

LEMMA FlatInvariant == LimitBook => (Spec => []FlatInv)
<1> SUFFICES ASSUME LimitBook PROVE Spec => []FlatInv
  OBVIOUS
<1>1. IInv /\ GridInv /\ FlatInv /\ [Next]_vars => FlatInv'
  BY FlatNext
<1>2. Init => FlatInv
  BY FlatInit
<1>3. Spec => []GridInv
  BY GridInvariant DEF LimitBook
<1> QED
  BY <1>1, <1>2, <1>3, Invariance, PTL DEF Spec

(* In a book of limit orders, an account operation that is refused stays     *)
(* refused: the trades an execution computes are never refused, and nothing *)
(* credits the user of a withdrawal before its save!.                       *)
THEOREM RefusalsStand == LimitBook => (Spec => []NoneAcceptedLate)
<1>1. FlatInv => NoneAcceptedLate
  BY DEF FlatInv, Flat, NoneAcceptedLate, Running, AtRest, Top
<1> QED
  BY <1>1, FlatInvariant, PTL

(* So a book of limit orders settles as Settlement says,                    *)
THEOREM LimitBookSettles == LimitBook => (Spec => ImplementsSettlement)
BY RefusalsStand, Settles, PTL

(* and its books balance.                                                   *)
THEOREM LimitBookBalances ==
  LimitBook /\ FiniteWorld => (Spec => []BooksBalance)
BY RefusalsStand, BooksAlwaysBalance, PTL

-----------------------------------------------------------------------------
(* One process: what is read is still so when it is used.                   *)

(* A step of an operation or of a refresh: no order is filled, placed,       *)
(* activated or destroyed, and no execution begins, goes on or ends.        *)
InExecution(f) == f.op \in {"match", "settle"}
Passing ==
  /\ Persist
  /\ UNCHANGED <<worker, trades, createdAt>>
  /\ \A o \in Ids : /\ orders'[o].placed = orders[o].placed
                    /\ orders'[o].amount = orders[o].amount
                    /\ orders'[o].active => orders[o].active
  /\ \A f \in Range(stack') : InExecution(f) => f \in Range(stack)
  /\ \A f \in Range(stack) : InExecution(f) => f \in Range(stack')

LEMMA PassingReplaces ==
  ASSUME IInv, stack # <<>>, ~InExecution(Top), NEW f, ~InExecution(f),
         stack' = <<f>> \o Rest, Persist,
         UNCHANGED <<worker, trades, createdAt>>,
         \A o \in Ids : /\ orders'[o].placed = orders[o].placed
                        /\ orders'[o].amount = orders[o].amount
                        /\ orders'[o].active => orders[o].active
  PROVE  Passing
<1>1. Range(stack) = {Top} \cup Range(Rest) /\ Rest \in Seq(SafeFrames)
  BY RunningFrame
<1>2. Range(stack') = {f} \cup Range(Rest)
  BY <1>1, RangeOfPush
<1> QED
  BY <1>1, <1>2 DEF Passing

LEMMA PassingReturns ==
  ASSUME IInv, stack # <<>>, ~InExecution(Top), stack' = Rest, Persist,
         UNCHANGED <<worker, orders, trades, createdAt>>
  PROVE  Passing
<1>1. Range(stack) = {Top} \cup Range(Rest)
  BY RunningFrame
<1> QED
  BY <1>1 DEF Passing

LEMMA PassingSteps ==
  ASSUME LimitBook, IInv, FlatInv,
         Post \/ Refuse \/ SaveRefused \/ Insert \/ Drop \/ PostReturns
           \/ RefreshLimitOrder \/ RefreshMarketOrder \/ RefreshReturns
  PROVE  \/ Passing /\ raised' = raised
         \/ /\ Rollback /\ UNCHANGED <<worker, createdAt, raised>>
            /\ \A f \in Range(stack) : ~InExecution(f)
<1>1. CASE Post
  <2>1. /\ Running("post") /\ Persist /\ Top.aos # <<>>
        /\ UNCHANGED <<worker, orders, trades, createdAt, raised>>
    BY <1>1 DEF Post, env
  <2> DEFINE ao == Head(Top.aos)
             left == [Top EXCEPT !.aos = Tail(@)]
             fresh == [op |-> "refresh", ao |-> ao,
                       todo |-> {Copy(o) : o \in
                         {n \in Ids : Placed(n) /\ Owner(n) = ao.account}}]
  <2>2. /\ Top \in SafePostFrames /\ stack # <<>> /\ Top.op = "post"
        /\ Rest \in Seq(SafeFrames) /\ ao \in SafeAOs
        /\ Tail(Top.aos) \in Seq(SafeAOs)
    BY <2>1, RunningPost, LeftToPost
  <2>3. left \in SafeFrames /\ left.op = "post"
    BY <2>2 DEF SafePostFrames, SafeFrames
  <2>4. fresh \in SafeFrames /\ fresh.op = "refresh"
    BY <2>2 DEF IInv, SafeTables, SafeFrames, RefreshFrames, SafeAOs, Copy,
       Copies, Rows
  <2>5. stack' = <<fresh, left>> \o Rest \/ stack' = <<left>> \o Rest
    BY <1>1 DEF Post, InsertRow
  <2> HIDE DEF fresh, left, ao
  <2>6. CASE stack' = <<left>> \o Rest
    BY <2>1, <2>2, <2>3, <2>6, PassingReplaces DEF InExecution
  <2>7. CASE stack' = <<fresh, left>> \o Rest
    <3>1. Range(stack) = {Top} \cup Range(Rest)
      BY <2>2, RunningFrame
    <3>2. Range(stack') = {fresh, left} \cup Range(Rest)
      BY <2>2, <2>3, <2>4, <2>7, RangeOfTwo
    <3> QED
      BY <2>1, <2>2, <2>3, <2>4, <3>1, <3>2 DEF Passing, InExecution
  <2> QED
    BY <2>5, <2>6, <2>7
<1>2. CASE Refuse
  <2>1. /\ Running("post") /\ Persist
        /\ UNCHANGED <<worker, orders, trades, createdAt, raised>>
    BY <1>2 DEF Refuse, env
  <2> DEFINE f == [Top EXCEPT !.aos = Tail(@),
                              !.refused = Append(@, Head(Top.aos))]
  <2>2. Top \in SafePostFrames /\ stack # <<>> /\ Top.op = "post"
    BY <2>1, RunningPost
  <2>3. f.op = "post" /\ stack' = <<f>> \o Rest
    BY <1>2, <2>2 DEF Refuse, SafePostFrames
  <2> HIDE DEF f
  <2> QED
    BY <2>1, <2>2, <2>3, PassingReplaces DEF InExecution
<1>3. CASE SaveRefused
  <2>1. Rollback /\ raised' = (raised \/ Executing) /\ Rest = <<>>
    BY <1>3, FlatSaveRefused
  <2>2. Running("post") /\ UNCHANGED <<worker, createdAt>>
    BY <1>3 DEF SaveRefused, env
  <2>3. stack # <<>> /\ Top.op = "post"
    BY <2>2, RunningPost
  <2>4. Range(stack) = {Top}
    BY <2>1, <2>3, RunningFrame, RangeOfNone
  <2>5. \A i \in DOMAIN stack : stack[i] = Top
    BY <2>4 DEF Range
  <2>6. raised' = raised
    BY <2>1, <2>3, <2>5 DEF Executing, IInv
  <2> QED
    BY <2>1, <2>2, <2>3, <2>4, <2>6 DEF InExecution
<1>4. CASE Insert \/ Drop
  BY <1>4 DEF Insert, Drop, Running, FlatInv, Flat, AtRest, Top
<1>5. CASE PostReturns
  <2>1. stack # <<>> /\ Top.op \in {"post", "insert"}
    BY <1>5 DEF PostReturns, Running, Top
  <2> QED
    BY <1>5, <2>1, PassingReturns DEF PostReturns, env, InExecution
<1>6. CASE RefreshLimitOrder
  <2>1. PICK t \in Newest(Top.todo) :
          /\ orders' = IF t.active /\ ~Funded(t.id, t.amount) /\ Placed(t.id)
                       THEN [orders EXCEPT ![t.id].active = FALSE]
                       ELSE orders
          /\ stack' = <<[Top EXCEPT !.todo = @ \ {t}]>> \o Rest
    BY <1>6 DEF RefreshLimitOrder
  <2>2. Top \in RefreshFrames /\ stack # <<>> /\ Top.op = "refresh"
    BY <1>6, RunningRefresh DEF RefreshLimitOrder
  <2> DEFINE f == [Top EXCEPT !.todo = @ \ {t}]
  <2>3. f.op = "refresh"
    BY <2>2 DEF RefreshFrames
  <2>4. \A o \in Ids : /\ orders'[o].placed = orders[o].placed
                       /\ orders'[o].amount = orders[o].amount
                       /\ orders'[o].active => orders[o].active
    BY <2>1 DEF IInv, SafeTables, Rows
  <2>5. /\ Persist /\ stack' = <<f>> \o Rest
        /\ UNCHANGED <<worker, trades, createdAt, raised>>
    BY <1>6, <2>1 DEF RefreshLimitOrder, env
  <2> HIDE DEF f
  <2> QED
    BY <2>2, <2>3, <2>4, <2>5, PassingReplaces DEF InExecution
<1>7. CASE RefreshMarketOrder
  <2>1. Top \in RefreshFrames
    BY <1>7, RunningRefresh DEF RefreshMarketOrder
  <2>2. \A t \in Newest(Top.todo) : t.id \in Ids
    BY <2>1 DEF Newest, RefreshFrames, Copies
  <2> QED
    BY <1>7, <2>2 DEF RefreshMarketOrder, LimitBook, LimitOrdersOnly
<1>8. CASE RefreshReturns
  <2>1. stack # <<>> /\ Top.op = "refresh"
    BY <1>8 DEF RefreshReturns, Running, Top
  <2> QED
    BY <1>8, <2>1, PassingReturns DEF RefreshReturns, env, InExecution
<1> QED
  BY <1>1, <1>2, <1>3, <1>4, <1>5, <1>6, <1>7, <1>8

(* One process: nothing happens between what it reads and what it does.      *)
OneProcess == \A v, w \in Workers : v = w

(* The copy holds what the table does.                                      *)
FreshCopy(c) == Placed(c.id) /\ orders[c.id].amount = c.amount

FreshFrame(f) ==
  /\ InExecution(f) =>
       /\ \A m \in f.mos : FreshCopy(m)
       /\ \A m, n \in f.mos : m.id = n.id => m = n
  /\ f.op = "match" => (f.alive => FreshCopy(f.self))
  /\ f.op = "settle" => /\ FreshCopy(f.self) /\ FreshCopy(f.mo)
                        /\ f.self.id # f.mo.id
                        /\ \A m \in f.mos : m.id # f.mo.id

FreshInv ==
  /\ \A f \in Range(stack) : FreshFrame(f)
  /\ \A w \in Workers : worker[w] # Idle =>
       /\ \A f \in Range(stack) : ~InExecution(f)
       /\ FreshCopy(worker[w].self)
       /\ committed.orders[worker[w].self.id].placed
       /\ committed.orders[worker[w].self.id].amount = worker[w].self.amount
  /\ AtRest => orders = committed.orders

LEMMA CoverInvariant == CommissionsAtMostAll => (Spec => []CoverInv)
<1> SUFFICES ASSUME CommissionsAtMostAll PROVE Spec => []CoverInv
  OBVIOUS
<1>1. Init => CoverInv
  <2> SUFFICES ASSUME Init PROVE CoverInv
    OBVIOUS
  <2>1. /\ \A o \in Ids : ~Exposed(o)
        /\ bal = committed.bal /\ orders = committed.orders
    BY DEF Init, Tables, NoRow, Exposed, Placed
  <2> QED
    BY <2>1 DEF CoverInv
<1>2. IInv /\ CoverInv /\ [Next]_vars => CoverInv'
  BY CoverNext
<1> QED
  BY <1>1, <1>2, Invariance, PTL DEF Spec

(* The order a process is about to execute is one of the table.             *)
LEMMA WorkerOrder ==
  ASSUME IInv, FreshInv, NEW w \in Workers, worker[w] # Idle
  PROVE  worker[w].self \in Copies /\ worker[w].self.id \in Ids
<1>1. worker[w] \in Requests
  BY DEF IInv
<1> QED
  BY <1>1 DEF Requests, Copies

LEMMA FreshPasses ==
  ASSUME IInv, FreshInv, Passing PROVE FreshInv'
<1>1. \A f \in Range(stack') : FreshFrame(f)'
  <2> SUFFICES ASSUME NEW f \in Range(stack'), InExecution(f)
               PROVE  FreshFrame(f)'
    BY DEF FreshFrame, InExecution
  <2>1. f \in Range(stack) /\ FreshFrame(f) /\ f \in SafeFrames
    BY DEF Passing, FreshInv, IInv, Range
  <2>2. /\ f.op = "match" => f \in MatchFrames
        /\ f.op = "settle" => f \in SettleFrames
    BY <2>1
    DEF SafeFrames, SafeMatchFrames, SafeSettleFrames, MatchFrames,
        SettleFrames, SafePostFrames, SafeInsertFrames, RefreshFrames
  <2>3. /\ \A m \in f.mos : m.id \in Ids
        /\ f.self.id \in Ids
        /\ f.op = "settle" => f.mo.id \in Ids
    BY <2>2 DEF InExecution, MatchFrames, SettleFrames, Copies
  <2> QED
    BY <2>1, <2>3 DEF FreshFrame, FreshCopy, Placed, Passing, InExecution
<1>2. ASSUME NEW w \in Workers, worker'[w] # Idle
      PROVE  /\ \A f \in Range(stack') : ~InExecution(f)
             /\ FreshCopy(worker[w].self)'
             /\ committed'.orders[worker'[w].self.id].placed
             /\ committed'.orders[worker'[w].self.id].amount
                  = worker'[w].self.amount
  <2>1. worker'[w] = worker[w] /\ worker[w].self.id \in Ids
    BY <1>2, WorkerOrder DEF Passing
  <2>2. /\ orders'[worker[w].self.id].placed
        /\ orders'[worker[w].self.id].amount = worker[w].self.amount
    BY <1>2, <2>1 DEF FreshInv, FreshCopy, Placed, Passing
  <2>3. committed' = committed \/ committed'.orders = orders'
    BY DEF Passing, Persist, Tables
  <2> QED
    BY <1>2, <2>1, <2>2, <2>3 DEF FreshInv, FreshCopy, Placed, Passing
<1>3. AtRest' => orders' = committed'.orders
  BY DEF AtRest, Passing, Persist, Tables
<1> QED
  BY <1>1, <1>2, <1>3 DEF FreshInv

LEMMA FreshRollsBack ==
  ASSUME IInv, FreshInv, Rollback, UNCHANGED worker PROVE FreshInv'
<1>1. stack' = <<>> /\ Range(stack') = {}
  BY RangeOfNone DEF Rollback
<1>2. ASSUME NEW w \in Workers, worker'[w] # Idle
      PROVE  /\ FreshCopy(worker[w].self)'
             /\ committed'.orders[worker'[w].self.id].placed
             /\ committed'.orders[worker'[w].self.id].amount
                  = worker'[w].self.amount
  BY <1>2, WorkerOrder DEF Rollback, FreshInv, FreshCopy, Placed
<1> QED
  BY <1>1, <1>2 DEF FreshInv, Rollback

(* An execution goes on: the process has nothing else to do.                *)
LEMMA FreshExecutes ==
  ASSUME FreshInv, \A w \in Workers : worker'[w] = Idle,
         \A f \in Range(stack') : FreshFrame(f)', Persist
  PROVE  FreshInv'
BY DEF FreshInv, AtRest, Persist, Tables

(* Between two transactions.                                                *)
LEMMA FreshRests ==
  ASSUME FreshInv, stack' = <<>>,
         Persist \/ (stack = <<>> /\ UNCHANGED <<orders, committed>>),
         \A w \in Workers : worker'[w] # Idle => FreshCopy(worker[w].self)'
  PROVE  FreshInv'
<1>1. Range(stack') = {} /\ AtRest'
  BY RangeOfNone DEF AtRest
<1>2. committed'.orders = orders'
  BY DEF FreshInv, Persist, Tables, AtRest
<1> QED
  BY <1>1, <1>2 DEF FreshInv, FreshCopy, Placed

(* The running frame of an execution.                                       *)
LEMMA RunningExecution ==
  ASSUME IInv, FlatInv, FreshInv, Running("match") \/ Running("settle")
  PROVE  /\ stack # <<>> /\ Rest = <<>> /\ InExecution(Top)
         /\ Range(stack) = {Top} /\ FreshFrame(Top)
         /\ Top.op = "match" => Top \in SafeMatchFrames
         /\ Top.op = "settle" => Top \in SafeSettleFrames
         /\ Top.self.id \in Ids /\ Top.self \in Copies
         /\ \A m \in Top.mos : /\ m \in Copies /\ m.id \in Ids
                               /\ Matches(Top.self.id, m.id)
                               /\ m.id # Top.self.id
         /\ \A w \in Workers : worker[w] = Idle
<1>1. stack # <<>> /\ InExecution(Top) /\ Rest = <<>>
  BY DEF Running, Top, InExecution, FlatInv, Flat, AtRest
<1>2. Range(stack) = {Top}
  BY <1>1, RunningFrame, RangeOfNone
<1>3. /\ Top.op = "match" => Top \in SafeMatchFrames
      /\ Top.op = "settle" => Top \in SafeSettleFrames
  BY <1>1, TopFrame DEF IInv
<1>4. /\ Top.self.id \in Ids /\ Top.self \in Copies
      /\ \A m \in Top.mos : /\ m \in Copies /\ m.id \in Ids
                            /\ Matches(Top.self.id, m.id)
  BY <1>1, <1>3
  DEF InExecution, SafeMatchFrames, SafeSettleFrames, MatchFrames, SettleFrames,
      Copies
<1>5. \A m \in Top.mos : m.id # Top.self.id
  BY <1>4, SMTT(30) DEF Matches
<1> QED
  BY <1>1, <1>2, <1>3, <1>4, <1>5 DEF FreshInv

(* What a trade makes of the table and of the frames of an execution that    *)
(* is not nested: both copies are those of the table, before and after.     *)
LEMMA FreshTrade ==
  ASSUME LimitBook, IInv, GridInv, FlatInv, FreshInv, RecordTrade
  PROVE  \E mo \in Top.mos :
           LET tb == TradedBtc(Top.self, mo)
               self == Top.self.id
           IN /\ mo.id \in Ids /\ self \in Ids /\ mo.id # self
              /\ Matches(self, mo.id)
              /\ tb \in Int /\ tb > 0
              /\ tb <= orders[self].amount /\ tb <= orders[mo.id].amount
              /\ orders[self].placed /\ orders[mo.id].placed
              /\ \A o \in Ids :
                   /\ orders'[o].placed = orders[o].placed
                   /\ orders'[o].active = orders[o].active
                   /\ orders'[o].amount =
                        IF o \in {self, mo.id} THEN orders[o].amount - tb
                        ELSE orders[o].amount
              /\ trades' = Append(trades, TradeRow(Top.self, mo))
              /\ TradeRow(Top.self, mo) \in SafeRows
              /\ \A f \in Range(stack') : FreshFrame(f)'
              /\ \A f \in Range(stack') : InExecution(f) =>
                   f.op = "settle" /\ f.self.active = Top.self.active
              /\ \E f \in Range(stack') :
                   /\ f.op = "settle" /\ f.self.id = self /\ f.mo.id = mo.id
                   /\ f.mos = Top.mos \ {mo}
                   /\ f.self.amount = orders[self].amount - tb
                   /\ f.self.active = Top.self.active
                   /\ f.mo.amount = orders[mo.id].amount - tb
<1>1. /\ Rest = <<>> /\ FreshFrame(Top) /\ Top \in SafeMatchFrames
      /\ Top.op = "match" /\ stack # <<>>
      /\ Top.self.id \in Ids /\ Top.self \in Copies
      /\ \A m \in Top.mos : /\ m \in Copies /\ m.id \in Ids
                            /\ Matches(Top.self.id, m.id)
                            /\ m.id # Top.self.id
      /\ Range(stack) = {Top}
  BY RunningExecution DEF RecordTrade, Running, Top
<1> DEFINE after(c, mo) ==
      [c EXCEPT !.amount = @ - TradedBtc(Top.self, mo)]
           posting(mo) == Posting(TradeAOs(TradeRow(Top.self, mo)), <<>>, BTC)
           settle(mo) == [op |-> "settle", self |-> after(Top.self, mo),
                          mo |-> after(mo, mo), mos |-> Top.mos \ {mo}]
<1>2. PICK mo \in Best(Top.self.id, Top.mos) :
        /\ WorthTrading(Top.self, mo)
        /\ Placed(Top.self.id) /\ Placed(mo.id)
        /\ orders' = [orders EXCEPT
                        ![mo.id].amount = after(mo, mo).amount,
                        ![Top.self.id].amount = after(Top.self, mo).amount]
        /\ trades' = Append(trades, TradeRow(Top.self, mo))
        /\ stack' = <<posting(mo), settle(mo)>> \o Rest
        /\ Top.alive
  BY DEF RecordTrade, LoopContinues
<1>3. mo \in Top.mos /\ mo \in Copies /\ mo.id \in Ids /\ mo.id # Top.self.id
      /\ Matches(Top.self.id, mo.id)
  BY <1>1, <1>2 DEF Best
<1> DEFINE tb == TradedBtc(Top.self, mo)
           self == Top.self.id
<1>4. /\ Top.self.amount = orders[self].amount
      /\ mo.amount = orders[mo.id].amount
      /\ \A m \in Top.mos : orders[m.id].amount = m.amount /\ Placed(m.id)
      /\ \A m, n \in Top.mos : m.id = n.id => m = n
  BY <1>1, <1>2, <1>3 DEF FreshFrame, FreshCopy, InExecution
<1>5. Whole(Top.self.amount) /\ Whole(mo.amount)
  BY <1>1, <1>3 DEF GridInv, WholeFrame
<1>6. /\ Whole(Top.self.amount - tb) /\ Whole(mo.amount - tb)
      /\ tb \in Int /\ tb > 0
  BY <1>1, <1>2, <1>3, <1>5, TradeWithinOrders, TradedOnGrid
  DEF IInv, SafeTables, SafeBalances, WorthTrading
<1>7. /\ after(Top.self, mo).id = self /\ after(Top.self, mo) \in Copies
      /\ after(Top.self, mo).amount = Top.self.amount - tb
      /\ after(Top.self, mo).active = Top.self.active
      /\ after(mo, mo).id = mo.id /\ after(mo, mo) \in Copies
      /\ after(mo, mo).amount = mo.amount - tb
  BY <1>1, <1>3, <1>6 DEF Copies
<1> HIDE DEF after
<1>8. \A o \in Ids :
        /\ orders'[o].placed = orders[o].placed
        /\ orders'[o].active = orders[o].active
        /\ orders'[o].amount = IF o = self THEN after(Top.self, mo).amount
                               ELSE IF o = mo.id THEN after(mo, mo).amount
                               ELSE orders[o].amount
  <2>1. orders \in [Ids -> Rows]
    BY DEF IInv, SafeTables
  <2> DEFINE x == after(mo, mo).amount
             y == after(Top.self, mo).amount
             v == [orders EXCEPT ![mo.id].amount = x]
  <2>2. x \in Int /\ y \in Int
    BY <1>6, <1>7 DEF Whole
  <2> HIDE DEF x, y
  <2>3. v \in [Ids -> Rows]
    BY <1>3, <2>1, <2>2 DEF Rows
  <2>4. \A o \in Ids : /\ v[o].placed = orders[o].placed
                       /\ v[o].active = orders[o].active
                       /\ v[o].amount = IF o = mo.id THEN x
                                        ELSE orders[o].amount
    BY <1>3, <2>1 DEF Rows
  <2>5. orders' = [v EXCEPT ![self].amount = y]
    BY <1>2 DEF x, y
  <2> HIDE DEF v
  <2>6. \A o \in Ids : /\ orders'[o].placed = v[o].placed
                       /\ orders'[o].active = v[o].active
                       /\ orders'[o].amount = IF o = self THEN y
                                              ELSE v[o].amount
    BY <1>1, <2>3, <2>5 DEF Rows
  <2> QED
    BY <2>4, <2>6 DEF x, y
<1>9. posting(mo) \in SafeFrames /\ posting(mo).op = "post"
      /\ TradeRow(Top.self, mo) \in SafeRows
  <2>1. TradeRow(Top.self, mo) \in SafeRows
    BY <1>1, <1>3, TradeRowSafe DEF IInv, SafeTables, SafeBalances
  <2>2. TradeAOs(TradeRow(Top.self, mo)) \in Seq(SafeAOs)
    BY <2>1, TradeAOsSafe DEF SafeRows
  <2> QED
    BY <2>1, <2>2, PostingAnewSafe DEF Currencies, Posting
<1>10. settle(mo) \in SafeFrames
  BY <1>1, <1>7 DEF SafeFrames, SafeSettleFrames, SettleFrames,
     SafeMatchFrames, MatchFrames
<1>11. /\ settle(mo).op = "settle" /\ settle(mo).self = after(Top.self, mo)
       /\ settle(mo).mo = after(mo, mo) /\ settle(mo).mos = Top.mos \ {mo}
  OBVIOUS
<1> HIDE DEF posting, settle
<1>12. PICK f, g :
         /\ f = posting(mo) /\ g = settle(mo)
         /\ f.op = "post" /\ Range(stack') = {f, g}
         /\ g.op = "settle" /\ g.self.id = self /\ g.mo.id = mo.id
         /\ g.mos = Top.mos \ {mo} /\ g.self.amount = Top.self.amount - tb
         /\ g.self.active = Top.self.active /\ g.mo.amount = mo.amount - tb
  <2>1. PICK f, g : f = posting(mo) /\ g = settle(mo)
    OBVIOUS
  <2>2. PICK s \in Seq(SafeFrames) : s = <<>>
    <3>1. <<>> \in Seq(SafeFrames)
      OBVIOUS
    <3> QED
      BY <3>1
  <2>3. /\ f \in SafeFrames /\ g \in SafeFrames /\ stack' = <<f, g>> \o s
        /\ Range(s) = {}
    BY <1>1, <1>2, <1>9, <1>10, <2>1, <2>2, RangeOfNone
  <2>4. Range(<<f, g>> \o s) = {f, g} \cup Range(s)
    BY <2>3, RangeOfTwo
  <2>5. Range(stack') = {f, g}
    BY <2>3, <2>4
  <2> QED
    BY <1>7, <1>9, <1>11, <2>1, <2>5
<1>13. FreshFrame(f)'
  BY <1>12 DEF FreshFrame, InExecution
<1>14. FreshFrame(g)'
  <2>1. ASSUME NEW m \in g.mos
        PROVE  /\ m \in Top.mos /\ m.id \in Ids
               /\ m.id # mo.id /\ m.id # self
    <3>1. m \in Top.mos /\ m # mo
      BY <1>12
    <3>2. m.id \in Ids /\ m.id # self
      BY <1>1, <3>1
    <3>3. m.id # mo.id
      BY ONLY <1>3, <1>4, <3>1
    <3> QED
      BY <3>1, <3>2, <3>3
  <2>2. ASSUME NEW m \in g.mos
        PROVE  orders'[m.id].placed /\ orders'[m.id].amount = m.amount
    <3>1. /\ m \in Top.mos /\ m.id \in Ids /\ m.id # mo.id /\ m.id # self
      BY <2>1
    <3>2. orders[m.id].amount = m.amount /\ orders[m.id].placed
      BY <1>4, <3>1 DEF Placed
    <3> QED
      BY ONLY <1>8, <3>1, <3>2
  <2>3. /\ orders'[self].placed /\ orders'[self].amount = g.self.amount
        /\ orders'[mo.id].placed /\ orders'[mo.id].amount = g.mo.amount
    <3>1. orders[self].placed /\ orders[mo.id].placed
      BY <1>2 DEF Placed
    <3>2. /\ after(Top.self, mo).amount = g.self.amount
          /\ after(mo, mo).amount = g.mo.amount
      BY ONLY <1>7, <1>12
    <3>3. self \in Ids /\ mo.id \in Ids /\ mo.id # self
      BY <1>1, <1>3
    <3> QED
      BY ONLY <1>8, <3>1, <3>2, <3>3
  <2>4. \A m \in g.mos : FreshCopy(m)'
    BY <2>2 DEF FreshCopy, Placed
  <2>5. FreshCopy(g.self)' /\ FreshCopy(g.mo)'
    BY <1>12, <2>3 DEF FreshCopy, Placed
  <2>6. /\ \A m, n \in g.mos : m.id = n.id => m = n
        /\ g.self.id # g.mo.id /\ \A m \in g.mos : m.id # g.mo.id
        /\ g.op = "settle"
    BY <1>3, <1>4, <1>12, <2>1
  <2> QED
    BY ONLY <2>4, <2>5, <2>6 DEF FreshFrame, InExecution
<1>15. /\ tb <= orders[self].amount /\ tb <= orders[mo.id].amount
  BY <1>4, <1>5, <1>6 DEF Whole
<1>16. \A o \in Ids :
         orders'[o].amount = IF o \in {self, mo.id} THEN orders[o].amount - tb
                             ELSE orders[o].amount
  BY <1>3, <1>4, <1>7, <1>8
<1>17. /\ \A h \in Range(stack') : FreshFrame(h)'
       /\ \A h \in Range(stack') : InExecution(h) =>
            h.op = "settle" /\ h.self.active = Top.self.active
       /\ g \in Range(stack')
  BY <1>12, <1>13, <1>14 DEF InExecution
<1>18. /\ g.self.amount = orders[self].amount - tb
       /\ g.mo.amount = orders[mo.id].amount - tb
  BY <1>4, <1>12
<1> HIDE DEF tb, self
<1>19. \E h \in Range(stack') :
         /\ h.op = "settle" /\ h.self.id = self /\ h.mo.id = mo.id
         /\ h.mos = Top.mos \ {mo}
         /\ h.self.amount = orders[self].amount - tb
         /\ h.self.active = Top.self.active
         /\ h.mo.amount = orders[mo.id].amount - tb
  BY <1>12, <1>17, <1>18
<1>20. /\ self \in Ids /\ mo.id # self /\ Matches(self, mo.id)
       /\ orders[self].placed /\ orders[mo.id].placed
  BY <1>1, <1>2, <1>3 DEF self, Placed
<1> QED
  BY <1>2, <1>3, <1>6, <1>8, <1>9, <1>15, <1>16, <1>17, <1>19, <1>20
  DEF tb, self

LEMMA FreshSettle ==
  ASSUME IInv, FlatInv, FreshInv, Settle
  PROVE  FreshInv'
<1>1. /\ Rest = <<>> /\ FreshFrame(Top) /\ Top \in SafeSettleFrames
      /\ Top.op = "settle" /\ stack # <<>>
      /\ Top.self.id \in Ids /\ Top.self \in Copies
      /\ \A m \in Top.mos : /\ m \in Copies /\ m.id \in Ids
                            /\ m.id # Top.self.id
      /\ \A w \in Workers : worker[w] = Idle
  BY RunningExecution DEF Settle, Running, Top
<1> DEFINE again == [op |-> "match", self |-> Top.self, mos |-> Top.mos,
                     alive |-> Top.self.amount # 0]
<1>2. PICK f : /\ f = again /\ f.op = "match"
               /\ f.self = Top.self /\ f.mos = Top.mos
               /\ f.alive <=> Top.self.amount # 0
  <2>1. /\ again.op = "match" /\ again.self = Top.self /\ again.mos = Top.mos
        /\ again.alive <=> Top.self.amount # 0
    OBVIOUS
  <2> HIDE DEF again
  <2> QED
    BY <2>1
<1>3. stack' = <<f>> \o Rest /\ Persist /\ worker' = worker
  BY <1>2 DEF Settle, env
<1>4. Range(stack') = {f}
  <2>1. <<>> \in Seq(SafeFrames) /\ Range(<<>>) = {}
    BY RangeOfNone
  <2>2. Range(<<f>> \o <<>>) = {f} \cup Range(<<>>)
    BY <2>1, RangeOfPush
  <2> QED
    BY <1>1, <1>3, <2>1, <2>2
<1>5. \A o \in Ids : orders'[o] = IF Destroys(Top, o) THEN NoRow ELSE orders[o]
  BY <1>1 DEF Settle, Destroys
<1>6. FreshFrame(f)'
  <2>1. \A m \in f.mos : ~Destroys(Top, m.id) /\ FreshCopy(m)
                         /\ orders'[m.id] = orders[m.id]
    BY <1>1, <1>2, <1>5 DEF Destroys, FreshFrame, InExecution
  <2>2. f.alive => /\ FreshCopy(Top.self)
                   /\ orders'[Top.self.id] = orders[Top.self.id]
    BY <1>1, <1>2, <1>5 DEF Destroys, FreshFrame, InExecution
  <2>3. \A m, n \in f.mos : m.id = n.id => m = n
    BY <1>1, <1>2 DEF FreshFrame, InExecution
  <2> QED
    BY <1>2, <2>1, <2>2, <2>3 DEF FreshFrame, FreshCopy, Placed, InExecution
<1> QED
  BY <1>1, <1>3, <1>4, <1>6, FreshExecutes

LEMMA FreshSkip ==
  ASSUME IInv, FlatInv, FreshInv, Skip
  PROVE  FreshInv'
<1>1. /\ Rest = <<>> /\ FreshFrame(Top) /\ Top \in MatchFrames
      /\ Top.op = "match"
      /\ Top.self.id \in Ids
      /\ \A m \in Top.mos : m.id \in Ids
      /\ \A w \in Workers : worker[w] = Idle
  BY RunningExecution DEF Skip, Running, Top, SafeMatchFrames
<1>2. PICK mo : stack' = <<[Top EXCEPT !.mos = @ \ {mo}]>> \o Rest
  BY DEF Skip
<1> DEFINE g == [Top EXCEPT !.mos = @ \ {mo}]
<1>3. /\ g.op = "match" /\ g.self = Top.self /\ g.mos = Top.mos \ {mo}
      /\ g.alive = Top.alive /\ g.alive \in BOOLEAN
  BY <1>1 DEF MatchFrames
<1> HIDE DEF g
<1>4. PICK f : f = g
  OBVIOUS
<1>5. Range(stack') = {f}
  <2>1. <<>> \in Seq(SafeFrames) /\ Range(<<>>) = {}
    BY RangeOfNone
  <2>2. Range(<<f>> \o <<>>) = {f} \cup Range(<<>>)
    BY <2>1, RangeOfPush
  <2>3. stack' = <<f>> \o <<>>
    BY <1>1, <1>2, <1>4 DEF g
  <2> QED
    BY <2>1, <2>2, <2>3
<1>6. f.alive => Top.alive
  BY <1>3, <1>4
<1>7. orders' = orders /\ worker' = worker /\ Persist
  BY DEF Skip, env
<1>8. FreshFrame(f)'
  BY <1>1, <1>3, <1>4, <1>6, <1>7
  DEF FreshFrame, FreshCopy, Placed, InExecution
<1> QED
  BY <1>1, <1>5, <1>7, <1>8, FreshExecutes

LEMMA FreshReturns ==
  ASSUME IInv, FlatInv, FreshInv, ExecuteReturns
  PROVE  FreshInv'
<1>1. Rest = <<>> /\ \A w \in Workers : worker[w] = Idle
  BY RunningExecution DEF ExecuteReturns
<1>2. stack' = <<>> /\ worker' = worker /\ Persist
  BY <1>1 DEF ExecuteReturns, env
<1> QED
  BY <1>1, <1>2, RangeOfNone, FreshExecutes

(* The row of every order an execution is about to trade is there.           *)
LEMMA NoOrderMissing ==
  ASSUME IInv, FlatInv, FreshInv, OrderMissing
  PROVE  FALSE
<1>1. /\ FreshFrame(Top) /\ Top.op = "match" /\ LoopContinues(Top)
  BY RunningExecution DEF OrderMissing, Running, Top
<1>2. Placed(Top.self.id) /\ \A m \in Top.mos : Placed(m.id)
  BY <1>1 DEF FreshFrame, FreshCopy, InExecution, LoopContinues
<1> QED
  BY <1>2 DEF OrderMissing, Best

LEMMA FreshStep ==
  ASSUME LimitBook, IInv, GridInv, FlatInv, FreshInv, Step
  PROVE  FreshInv' /\ raised' = raised
<1>1. CASE Skip
  BY <1>1, FreshSkip DEF Skip
<1>2. CASE RecordTrade
  <2>1. \A f \in Range(stack') : FreshFrame(f)'
    BY <1>2, FreshTrade
  <2>2. \A w \in Workers : worker[w] = Idle
    BY <1>2, RunningExecution DEF RecordTrade
  <2> QED
    BY <1>2, <2>1, <2>2, FreshExecutes DEF RecordTrade, env
<1>3. CASE OrderMissing
  BY <1>3, NoOrderMissing
<1>4. CASE Settle
  BY <1>4, FreshSettle DEF Settle
<1>5. CASE ExecuteReturns
  BY <1>5, FreshReturns DEF ExecuteReturns
<1>6. CASE Post \/ Refuse \/ SaveRefused \/ Insert \/ Drop \/ PostReturns
             \/ RefreshLimitOrder \/ RefreshMarketOrder \/ RefreshReturns
  BY <1>6, PassingSteps, FreshPasses, FreshRollsBack
<1> QED
  BY <1>1, <1>2, <1>3, <1>4, <1>5, <1>6 DEF Step

(* A deposit or a withdrawal begins outside every execution.                *)
LEMMA MovePasses ==
  ASSUME NEW m \in Moves, BeginMove(m)
  PROVE  Passing
<1> DEFINE f == Posting(<<m, AO(Storage, m.currency, -m.amount)>>, <<>>,
                        m.currency)
<1>1. f.op = "post"
  BY DEF Posting
<1>2. /\ stack = <<>> /\ stack' = <<f>> /\ Persist
      /\ UNCHANGED <<worker, trades, createdAt, orders>>
  BY DEF BeginMove, AtRest
<1> HIDE DEF f
<1>3. Range(stack) = {} /\ Range(stack') = {f}
  <2>1. <<>> \in Seq(SafeFrames) /\ Range(<<>>) = {}
    BY RangeOfNone
  <2>2. Range(<<f>> \o <<>>) = {f} \cup Range(<<>>)
    BY <2>1, RangeOfPush
  <2>3. stack' = <<f>> \o <<>>
    BY <1>2
  <2> QED
    BY <1>2, <2>1, <2>2, <2>3
<1> QED
  BY <1>1, <1>2, <1>3 DEF Passing, InExecution

LEMMA FreshRequest ==
  ASSUME OneProcess, IInv, FreshInv, Request
  PROVE  FreshInv'
<1>0. AtRest /\ orders = committed.orders
  BY DEF Request, Create, ActivateCheck, ActivateSave, Destroy, BeginExecute,
     BeginMove, Confirm, FreshInv
<1>1. ASSUME NEW w \in Workers, NEW o \in Ids, Create(w, o) PROVE FreshInv'
  <2> DEFINE copy == [id |-> o, amount |-> Form[o].amount, active |-> TRUE]
  <2>1. copy.id = o /\ copy.amount = Form[o].amount
    OBVIOUS
  <2>2. /\ stack' = <<>> /\ Persist
        /\ orders'[o].placed /\ orders'[o].amount = Form[o].amount
    BY <1>0, <1>1 DEF Create, AtRest, IInv, SafeTables
  <2>3. \A v \in Workers : v = w /\ worker'[v].self = copy
    BY <1>1 DEF Create, OneProcess, IInv
  <2> HIDE DEF copy
  <2> QED
    BY <2>1, <2>2, <2>3, FreshRests DEF FreshCopy, Placed
<1>2. ASSUME NEW w \in Workers, NEW o \in Ids, ActivateCheck(w, o)
      PROVE  FreshInv'
  <2>1. /\ stack' = <<>> /\ stack = <<>> /\ UNCHANGED <<orders, committed>>
        /\ Placed(o)
    BY <1>0, <1>2 DEF ActivateCheck, AtRest
  <2>2. \A v \in Workers : v = w /\ worker'[v].self = Copy(o)
    BY <1>2 DEF ActivateCheck, OneProcess, IInv
  <2>3. Copy(o).id = o /\ Copy(o).amount = orders[o].amount
    BY DEF Copy
  <2> QED
    BY <2>1, <2>2, <2>3, FreshRests DEF FreshCopy, Placed
<1>3. ASSUME NEW w \in Workers, ActivateSave(w) PROVE FreshInv'
  <2> DEFINE copy == [worker[w].self EXCEPT !.active = TRUE]
             o == worker[w].self.id
  <2>1. worker[w] # Idle
    BY <1>3 DEF ActivateSave, Idle
  <2>2. /\ worker[w].self \in Copies /\ o \in Ids
        /\ FreshCopy(worker[w].self)
    BY <2>1, WorkerOrder DEF FreshInv
  <2>3. copy.id = o /\ copy.amount = worker[w].self.amount
    BY <2>2 DEF Copies
  <2>4. /\ stack' = <<>> /\ Persist
        /\ orders' = [orders EXCEPT ![o].active = TRUE]
    BY <1>0, <1>3, <2>2 DEF ActivateSave, AtRest, FreshCopy
  <2>5. \A v \in Workers : v = w /\ worker'[v].self = copy
    BY <1>3 DEF ActivateSave, OneProcess, IInv
  <2>6. orders'[o].placed /\ orders'[o].amount = worker[w].self.amount
    BY <2>2, <2>4 DEF FreshCopy, Placed, IInv, SafeTables, Rows
  <2> HIDE DEF copy
  <2> QED
    BY <2>3, <2>4, <2>5, <2>6, FreshRests DEF FreshCopy, Placed
<1>4. ASSUME NEW w \in Workers, NEW o \in Ids, Destroy(w, o) PROVE FreshInv'
  <2>1. \A v \in Workers : v = w /\ worker'[v] = Idle
    BY <1>4 DEF Destroy, env, OneProcess
  <2>2. stack' = <<>> /\ Persist
    BY <1>0, <1>4 DEF Destroy, AtRest
  <2> QED
    BY <2>1, <2>2, FreshRests
<1>5. ASSUME NEW w \in Workers, BeginExecute(w) PROVE FreshInv'
  <2> DEFINE c == worker[w].self
             exec == Execution(c)
  <2>1. worker[w] # Idle
    BY <1>5 DEF BeginExecute, Idle
  <2>2. c \in Copies /\ c.id \in Ids /\ FreshCopy(c)
    BY <2>1, WorkerOrder DEF FreshInv
  <2>3. /\ exec.op = "match" /\ exec.self = c
        /\ exec.mos = MatchingOrders(c.id)
    BY DEF Execution
  <2>4. orders' = orders /\ Persist /\ stack' = <<exec>>
    BY <1>5 DEF BeginExecute
  <2>5. \A v \in Workers : worker'[v] = Idle
    BY <1>5 DEF BeginExecute, OneProcess, IInv
  <2>6. \A m \in MatchingOrders(c.id) : FreshCopy(m) /\ m.id \in Ids
                                        /\ m = Copy(m.id)
    BY DEF MatchingOrders, FreshCopy, Copy
  <2> HIDE DEF exec, c
  <2>7. PICK f : f = exec
    OBVIOUS
  <2>8. Range(stack') = {f}
    <3>1. <<>> \in Seq(SafeFrames) /\ Range(<<>>) = {}
      BY RangeOfNone
    <3>2. Range(<<f>> \o <<>>) = {f} \cup Range(<<>>)
      BY <3>1, RangeOfPush
    <3>3. stack' = <<f>> \o <<>>
      BY <2>4, <2>7
    <3> QED
      BY <3>1, <3>2, <3>3
  <2>9. FreshFrame(f)'
    <3>1. PICK d : d = c /\ FreshCopy(d) /\ f.self = d
      BY <2>2, <2>3, <2>7
    <3>2. PICK ms : /\ ms = f.mos
                    /\ \A m \in ms : FreshCopy(m)
                    /\ \A m, n \in ms : m.id = n.id => m = n
      BY <2>3, <2>6, <2>7
    <3> QED
      BY <2>3, <2>4, <2>7, <3>1, <3>2
      DEF FreshFrame, FreshCopy, Placed, InExecution
  <2> QED
    BY <2>4, <2>5, <2>8, <2>9, FreshExecutes
<1>6. ASSUME NEW m \in Moves, BeginMove(m) PROVE FreshInv'
  BY <1>6, MovePasses, FreshPasses
<1>7. ASSUME NEW m \in Received, Confirm(m) PROVE FreshInv'
  <2>1. Passing
    BY <1>7 DEF Confirm, env, Passing
  <2> QED
    BY <2>1, FreshPasses
<1> QED
  BY <1>1, <1>2, <1>3, <1>4, <1>5, <1>6, <1>7 DEF Request

LEMMA FreshFailure ==
  ASSUME OneProcess, IInv, FreshInv, Failure
  PROVE  FreshInv'
<1>1. CASE Crash
  BY <1>1, FreshRollsBack DEF Crash
<1>2. ASSUME NEW w \in Workers, Abandon(w) PROVE FreshInv'
  <2>1. \A v \in Workers : worker'[v] = Idle
    BY <1>2 DEF Abandon, OneProcess, IInv
  <2>2. UNCHANGED <<stack, orders, committed>>
    BY <1>2 DEF Abandon
  <2>3. \A f \in Range(stack') : FreshFrame(f)'
    BY <2>2 DEF FreshInv, FreshFrame, FreshCopy, Placed
  <2> QED
    BY <2>1, <2>2, <2>3 DEF FreshInv, AtRest
<1> QED
  BY <1>1, <1>2 DEF Failure

LEMMA FreshNext ==
  ASSUME LimitBook, OneProcess, IInv, GridInv, FlatInv, FreshInv, [Next]_vars
  PROVE  FreshInv' /\ raised' = raised
<1>1. CASE Step
  BY <1>1, FreshStep
<1>2. CASE Request
  BY <1>2, FreshRequest
  DEF Request, Create, ActivateCheck, ActivateSave, Destroy, BeginExecute,
      BeginMove, Confirm
<1>3. CASE Failure
  BY <1>3, FreshFailure DEF Failure, Crash, Abandon
<1>4. CASE UNCHANGED vars
  <2>1. \A f \in Range(stack') : FreshFrame(f)'
    BY <1>4 DEF FreshInv, FreshFrame, FreshCopy, Placed, vars
  <2> QED
    BY <1>4, <2>1 DEF FreshInv, FreshCopy, Placed, AtRest, vars
<1> QED
  BY <1>1, <1>2, <1>3, <1>4 DEF Next

LEMMA FreshInvariant == LimitBook /\ OneProcess => (Spec => []FreshInv)
<1> SUFFICES ASSUME LimitBook, OneProcess PROVE Spec => []FreshInv
  OBVIOUS
<1>1. Init => FreshInv
  BY RangeOfNone DEF Init, FreshInv, Tables
<1>2. IInv /\ GridInv /\ FlatInv /\ FreshInv /\ [Next]_vars => FreshInv'
  BY FreshNext
<1>3. Spec => []GridInv
  BY GridInvariant DEF LimitBook
<1> QED
  BY <1>1, <1>2, <1>3, Invariance, FlatInvariant, PTL DEF Spec

(* In a book of limit orders and with one process, no execution raises: a    *)
(* trade it computes is covered by the balances of both sides, so that its  *)
(* account operations are all valid, and it never names an order that has   *)
(* been destroyed (TradeOrder#execute!, Trade#execute).                     *)
THEOREM ExecutionsNeverRaise ==
  LimitBook /\ OneProcess => (Spec => []ExecuteNeverRaises)
<1> SUFFICES ASSUME LimitBook, OneProcess PROVE Spec => []ExecuteNeverRaises
  OBVIOUS
<1>1. Init => ExecuteNeverRaises
  BY DEF Init, ExecuteNeverRaises
<1>2. IInv /\ GridInv /\ FlatInv /\ FreshInv /\ ExecuteNeverRaises
        /\ [Next]_vars => ExecuteNeverRaises'
  BY FreshNext DEF ExecuteNeverRaises
<1>3. Spec => []GridInv
  BY GridInvariant DEF LimitBook
<1> QED
  BY <1>1, <1>2, <1>3, Invariance, FlatInvariant, FreshInvariant, PTL DEF Spec

-----------------------------------------------------------------------------
(* A standing order stays funded.                                           *)

(* While the one process is in the middle of activate!, nothing but deposits *)
(* and confirmations happens, and they only add to the balance it checked.  *)
Depositing(f) ==
  \/ f.op = "refresh"
  \/ /\ f.op = "post"
     /\ \A i \in DOMAIN f.aos : f.aos[i].account \in Users =>
                                  f.aos[i].amount >= 0

Affords(b, o, x) ==
  IF Buying(o) THEN b[Owner(o)][Form[o].currency] * PriceDen >= x * Form[o].ppc
               ELSE b[Owner(o)][BTC] >= x

FundInv ==
  \A w \in Workers : worker[w].stage = "activate" =>
    /\ Affords(bal, worker[w].self.id, worker[w].self.amount)
    /\ Affords(committed.bal, worker[w].self.id, worker[w].self.amount)
    /\ \A f \in Range(stack) : Depositing(f)

Grows(b, c) == \A u \in Users : \A d \in Currencies : c[u][d] >= b[u][d]

LEMMA AffordsMore ==
  ASSUME NEW b \in [Accounts -> [Currencies -> Int]],
         NEW c \in [Accounts -> [Currencies -> Int]],
         NEW o \in Ids, NEW x \in Int, Grows(b, c), Affords(b, o, x)
  PROVE  Affords(c, o, x)
<1> DEFINE e == Form[o].currency
<1>1. /\ Owner(o) \in Users /\ Owner(o) \in Accounts
      /\ e \in Currencies /\ BTC \in Currencies
      /\ Form[o].ppc \in Nat /\ PriceDen \in Nat
  BY EngineAssumption DEF Owner, Forms, Accounts, Currencies
<1>2. /\ b[Owner(o)][e] \in Int /\ c[Owner(o)][e] \in Int
      /\ c[Owner(o)][e] >= b[Owner(o)][e]
      /\ b[Owner(o)][BTC] \in Int /\ c[Owner(o)][BTC] \in Int
      /\ c[Owner(o)][BTC] >= b[Owner(o)][BTC]
  BY <1>1 DEF Grows
<1>3. CASE Buying(o)
  <2>1. \A i, j \in Int, d \in Nat : j >= i => j * d >= i * d
    OBVIOUS
  <2>2. c[Owner(o)][e] * PriceDen >= b[Owner(o)][e] * PriceDen
    BY <1>1, <1>2, <2>1
  <2>3. /\ c[Owner(o)][e] * PriceDen \in Int /\ x * Form[o].ppc \in Int
        /\ b[Owner(o)][e] * PriceDen \in Int
        /\ b[Owner(o)][e] * PriceDen >= x * Form[o].ppc
    BY <1>1, <1>2, <1>3 DEF Affords
  <2>4. c[Owner(o)][e] * PriceDen >= x * Form[o].ppc
    BY <2>2, <2>3
  <2> QED
    BY <1>3, <2>4 DEF Affords
<1>4. CASE ~Buying(o)
  BY <1>2, <1>4 DEF Affords
<1> QED
  BY <1>3, <1>4

LEMMA DepositPost ==
  ASSUME IInv, FlatInv, \A f \in Range(stack) : Depositing(f), Post
  PROVE  /\ \A f \in Range(stack') : Depositing(f)
         /\ Grows(bal, bal')
<1>1. /\ Running("post") /\ Top.aos # <<>>
  BY DEF Post
<1> DEFINE ao == Head(Top.aos)
           left == [Top EXCEPT !.aos = Tail(@)]
           fresh == [op |-> "refresh", ao |-> ao,
                     todo |-> {Copy(o) : o \in
                       {n \in Ids : Placed(n) /\ Owner(n) = ao.account}}]
<1>2. /\ Top \in SafePostFrames /\ stack # <<>> /\ Top.op = "post"
      /\ Rest \in Seq(SafeFrames) /\ Top.aos \in Seq(SafeAOs)
      /\ Range(stack) = {Top} \cup Range(Rest)
  BY <1>1, RunningPost, RunningFrame
<1>3. /\ ao \in SafeAOs /\ Tail(Top.aos) \in Seq(SafeAOs)
      /\ ao = Top.aos[1] /\ 1 \in DOMAIN Top.aos
      /\ \A i \in DOMAIN Tail(Top.aos) :
           i + 1 \in DOMAIN Top.aos /\ Tail(Top.aos)[i] = Top.aos[i + 1]
  BY <1>1, <1>2, LeftToPost
<1>4. Depositing(Top)
  BY <1>2
<1>5. /\ left \in SafeFrames /\ left.op = "post" /\ left.aos = Tail(Top.aos)
      /\ fresh.op = "refresh"
  BY <1>2, <1>3 DEF SafePostFrames, SafeFrames
<1>6. fresh \in SafeFrames
  BY <1>3 DEF IInv, SafeTables, SafeFrames, RefreshFrames, SafeAOs, Copy,
     Copies, Rows
<1>7. /\ stack' = <<fresh, left>> \o Rest \/ stack' = <<left>> \o Rest
      /\ bal' = bal \/ bal' = [bal EXCEPT ![ao.account][ao.currency]
                                  = @ + ao.amount]
  BY DEF Post, InsertRow
<1> HIDE DEF fresh, left
<1>8. Depositing(left) /\ Depositing(fresh)
  BY <1>2, <1>3, <1>4, <1>5 DEF Depositing
<1>9. Range(stack') \subseteq {fresh, left} \cup Range(Rest)
  <2>1. /\ Range(<<fresh, left>> \o Rest) = {fresh, left} \cup Range(Rest)
        /\ Range(<<left>> \o Rest) = {left} \cup Range(Rest)
    BY <1>2, <1>5, <1>6, RangeOfTwo, RangeOfPush
  <2> QED
    BY <1>7, <2>1
<1>10. Grows(bal, bal')
  <2>1. /\ ao.account \in Accounts /\ ao.currency \in Currencies
        /\ ao.amount \in Int /\ (ao.account \in Users => ao.amount >= 0)
    BY <1>2, <1>3, <1>4 DEF SafeAOs, AOs, Depositing
  <2>2. bal \in [Accounts -> [Currencies -> Int]]
    BY DEF IInv, SafeTables, SafeBalances
  <2> HIDE DEF ao
  <2>3. CASE bal' = bal
    BY <2>2, <2>3 DEF Grows, Accounts
  <2>4. CASE bal' # bal
    <3>1. \A a \in Accounts, c \in Currencies :
            bal'[a][c] = IF a = ao.account /\ c = ao.currency
                         THEN bal[a][c] + ao.amount ELSE bal[a][c]
      BY <1>7, <2>1, <2>2, <2>4
    <3>2. \A u \in Users, c \in Currencies :
            u \in Accounts /\ bal[u][c] \in Int
      BY <2>2 DEF Accounts
    <3> QED
      BY <2>1, <3>1, <3>2 DEF Grows
  <2> QED
    BY <2>3, <2>4
<1> QED
  BY <1>2, <1>8, <1>9, <1>10

LEMMA DepositStep ==
  ASSUME LimitBook, IInv, FlatInv, \A f \in Range(stack) : Depositing(f), Step
  PROVE  /\ \A f \in Range(stack') : Depositing(f)
         /\ Grows(bal, bal') \/ bal' = committed.bal
         /\ UNCHANGED worker
<1>1. bal' = bal => Grows(bal, bal')
  <2>1. \A u \in Users, d \in Currencies : bal[u][d] \in Int
    BY DEF IInv, SafeTables, SafeBalances, Accounts
  <2> QED
    BY <2>1 DEF Grows
<1>2. stack # <<>> => /\ Range(stack) = {Top} \cup Range(Rest)
                      /\ Rest \in Seq(SafeFrames) /\ Depositing(Top)
  BY RunningFrame, SMTT(30)
<1>3. CASE Skip \/ RecordTrade \/ OrderMissing \/ Settle \/ ExecuteReturns
  BY <1>2, <1>3
  DEF Skip, RecordTrade, OrderMissing, Settle, ExecuteReturns, Running, Top,
      Depositing
<1>4. CASE Post
  BY <1>4, DepositPost DEF Post, env
<1>5. CASE Refuse
  <2>1. Running("post") /\ UNCHANGED <<bal, worker>> /\ Top.aos # <<>>
    BY <1>5 DEF Refuse, env
  <2>2. /\ Top \in SafePostFrames /\ stack # <<>> /\ Top.op = "post"
        /\ Top.aos \in Seq(SafeAOs)
    BY <2>1, RunningPost
  <2> DEFINE f == [Top EXCEPT !.aos = Tail(@),
                              !.refused = Append(@, Head(Top.aos))]
  <2>3. f.op = "post" /\ f.aos = Tail(Top.aos) /\ stack' = <<f>> \o Rest
    BY <1>5, <2>2 DEF Refuse, SafePostFrames
  <2>4. \A i \in DOMAIN Tail(Top.aos) :
          i + 1 \in DOMAIN Top.aos /\ Tail(Top.aos)[i] = Top.aos[i + 1]
    BY <2>1, <2>2, LeftToPost
  <2> HIDE DEF f
  <2>5. Depositing(f)
    BY <1>2, <2>2, <2>3, <2>4 DEF Depositing
  <2>6. Range(stack') = {f} \cup Range(Rest)
    BY <1>2, <2>2, <2>3, RangeOfPush
  <2> QED
    BY <1>1, <1>2, <2>1, <2>2, <2>5, <2>6
<1>6. CASE SaveRefused
  BY <1>6, FlatSaveRefused, RangeOfNone DEF Rollback, SaveRefused, env
<1>7. CASE Insert \/ Drop
  BY <1>7 DEF Insert, Drop, Running, FlatInv, Flat, AtRest, Top
<1>8. CASE PostReturns \/ RefreshReturns
  BY <1>1, <1>2, <1>8 DEF PostReturns, RefreshReturns, Running, env
<1>9. CASE RefreshLimitOrder
  <2>1. PICK t :
          /\ stack' = <<[Top EXCEPT !.todo = @ \ {t}]>> \o Rest
    BY <1>9 DEF RefreshLimitOrder
  <2>2. Top \in RefreshFrames /\ stack # <<>> /\ Top.op = "refresh"
    BY <1>9, RunningRefresh DEF RefreshLimitOrder
  <2> DEFINE f == [Top EXCEPT !.todo = @ \ {t}]
  <2>3. f.op = "refresh" /\ stack' = <<f>> \o Rest
    BY <2>1, <2>2 DEF RefreshFrames
  <2> HIDE DEF f
  <2>4. Range(stack') = {f} \cup Range(Rest)
    BY <1>2, <2>2, <2>3, RangeOfPush
  <2>5. UNCHANGED <<bal, worker>>
    BY <1>9 DEF RefreshLimitOrder, env
  <2> QED
    BY <1>1, <1>2, <2>2, <2>3, <2>4, <2>5 DEF Depositing
<1>10. CASE RefreshMarketOrder
  <2>1. Top \in RefreshFrames
    BY <1>10, RunningRefresh DEF RefreshMarketOrder
  <2>2. \A t \in Newest(Top.todo) : t.id \in Ids
    BY <2>1 DEF Newest, RefreshFrames, Copies
  <2> QED
    BY <1>10, <2>2 DEF RefreshMarketOrder, LimitBook, LimitOrdersOnly
<1> QED
  BY <1>3, <1>4, <1>5, <1>6, <1>7, <1>8, <1>9, <1>10 DEF Step

LEMMA StepKeepsWorkers == ASSUME Step PROVE worker' = worker
BY DEF Step, Skip, RecordTrade, OrderMissing, Settle, ExecuteReturns, Post,
       Refuse, SaveRefused, Insert, Drop, PostReturns, RefreshLimitOrder,
       RefreshMarketOrder, RefreshReturns, env

(* What the other steps do while a process is in the middle of activate!.    *)
LEMMA DepositRequest ==
  ASSUME OneProcess, IInv, NEW w \in Workers, worker[w].stage = "activate",
         Request \/ Failure \/ UNCHANGED vars, worker' = worker,
         \A f \in Range(stack) : Depositing(f)
  PROVE  /\ \A f \in Range(stack') : Depositing(f)
         /\ Grows(bal, bal') \/ bal' = committed.bal
         /\ Persist \/ committed' = committed
<1>1. bal' = bal => Grows(bal, bal')
  <2>1. \A u \in Users, d \in Currencies : bal[u][d] \in Int
    BY DEF IInv, SafeTables, SafeBalances, Accounts
  <2> QED
    BY <2>1 DEF Grows
<1>2. \A v \in Workers : worker[v] # Idle /\ worker[v].stage = "activate"
  BY DEF OneProcess, Idle
<1>3. \A v \in Workers : \A x : [worker EXCEPT ![v] = x][v] = x
  BY DEF IInv
<1>4. ASSUME NEW v \in Workers, NEW o \in Ids,
             Create(v, o) \/ ActivateCheck(v, o) \/ Destroy(v, o)
      PROVE  FALSE
  BY <1>2, <1>4 DEF Create, ActivateCheck, Destroy
<1>5. ASSUME NEW v \in Workers, ActivateSave(v) \/ BeginExecute(v) PROVE FALSE
  <2>1. CASE ActivateSave(v)
    <3>1. worker'[v].stage = "execute"
      BY <1>3, <2>1 DEF ActivateSave
    <3> QED
      BY <1>2, <3>1
  <2>2. CASE BeginExecute(v)
    BY <1>2, <2>2 DEF BeginExecute
  <2> QED
    BY <1>5, <2>1, <2>2
<1>6. ASSUME NEW m \in Moves, BeginMove(m)
      PROVE  \A f \in Range(stack') : Depositing(f)
  <2> DEFINE f == Posting(<<m, AO(Storage, m.currency, -m.amount)>>, <<>>,
                          m.currency)
  <2>1. m \in AOs /\ m.amount >= 0
    BY <1>2, <1>6, EngineAssumption DEF BeginMove, AOs
  <2>2. /\ f.op = "post" /\ f.aos[1] = m /\ DOMAIN f.aos = 1..2
        /\ f.aos[2].account = Storage
    BY DEF Posting, AO
  <2>3. stack' = <<f>>
    BY <1>6 DEF BeginMove
  <2> HIDE DEF f
  <2>4. Depositing(f)
    <3>1. \A i \in 1..2 : i = 1 \/ i = 2
      OBVIOUS
    <3> QED
      BY <2>1, <2>2, <3>1, EngineAssumption DEF Depositing
  <2>5. Range(stack') = {f}
    <3>1. <<>> \in Seq(SafeFrames) /\ Range(<<>>) = {}
      BY RangeOfNone
    <3>2. Range(<<f>> \o <<>>) = {f} \cup Range(<<>>)
      BY <3>1, RangeOfPush
    <3>3. stack' = <<f>> \o <<>>
      BY <2>3
    <3> QED
      BY <3>1, <3>2, <3>3
  <2> QED
    BY <2>4, <2>5
<1>7. ASSUME NEW m \in Received, Confirm(m) PROVE Grows(bal, bal')
  <2>1. m.account \in Accounts /\ m.amount \in Nat /\ BTC \in Currencies
    BY EngineAssumption DEF Received, AOs, Accounts, Currencies
  <2>2. bal' = [bal EXCEPT ![m.account][BTC] = @ + m.amount]
    BY <1>7 DEF Confirm
  <2>3. bal \in [Accounts -> [Currencies -> Int]]
    BY DEF IInv, SafeTables, SafeBalances
  <2>4. \A a \in Accounts, d \in Currencies :
          /\ bal[a][d] \in Int
          /\ bal'[a][d] = IF a = m.account /\ d = BTC
                          THEN bal[a][d] + m.amount ELSE bal[a][d]
    BY <2>1, <2>2, <2>3
  <2> QED
    BY <2>1, <2>4 DEF Grows, Accounts
<1>8. CASE Request
  <2>1. (\E m \in Moves : BeginMove(m)) \/ (\E m \in Received : Confirm(m))
    BY <1>4, <1>5, <1>8 DEF Request
  <2> QED
    BY <1>1, <1>6, <1>7, <2>1 DEF BeginMove, Confirm
<1>9. CASE Crash
  BY <1>9, RangeOfNone DEF Crash, Rollback
<1>10. ASSUME NEW v \in Workers, Abandon(v) PROVE FALSE
  BY <1>2, <1>3, <1>10 DEF Abandon
<1>11. CASE UNCHANGED vars
  BY <1>1, <1>11 DEF vars
<1> QED
  BY <1>8, <1>9, <1>10, <1>11 DEF Failure

LEMMA FundNext ==
  ASSUME LimitBook, OneProcess, IInv, IInv', CoverInv, FlatInv, FreshInv,
         FundInv, [Next]_vars
  PROVE  FundInv'
<1> SUFFICES ASSUME NEW w \in Workers, worker'[w].stage = "activate"
             PROVE  /\ Affords(bal, worker[w].self.id, worker[w].self.amount)'
                    /\ Affords(committed.bal, worker[w].self.id,
                               worker[w].self.amount)'
                    /\ \A f \in Range(stack') : Depositing(f)
  BY DEF FundInv, Depositing
<1>1. \A v \in Workers : v = w
  BY DEF OneProcess
<1>2. \A x : [worker EXCEPT ![w] = x][w] = x
  BY DEF IInv
<1>3. CASE \E v \in Workers, o \in Ids : ActivateCheck(v, o)
  <2>1. PICK o \in Ids : ActivateCheck(w, o)
    BY <1>1, <1>3
  <2>2. worker'[w].self = Copy(o)
    BY <1>2, <2>1 DEF ActivateCheck
  <2>3. /\ worker'[w].self.id = o /\ worker'[w].self.amount = orders[o].amount
        /\ UNCHANGED <<bal, committed, stack>> /\ stack = <<>>
        /\ Funded(o, orders[o].amount) /\ bal = committed.bal
    BY <2>1, <2>2 DEF Copy, ActivateCheck, AtRest, CoverInv
  <2> QED
    BY <2>3, RangeOfNone DEF Affords, Funded
<1>4. CASE worker' = worker
  <2> DEFINE o == worker[w].self.id
             x == worker[w].self.amount
  <2>1. /\ Affords(bal, o, x) /\ Affords(committed.bal, o, x)
        /\ \A f \in Range(stack) : Depositing(f)
    BY <1>4 DEF FundInv
  <2>2. o \in Ids /\ x \in Int
    BY <1>4, WorkerOrder DEF Idle, Copies
  <2>3. /\ \A f \in Range(stack') : Depositing(f)
        /\ Grows(bal, bal') \/ bal' = committed.bal
        /\ Persist \/ Rollback \/ committed' = committed
    <3>1. CASE Step
      <4>1. Persist \/ Rollback
        BY <3>1
        DEF Step, Skip, RecordTrade, OrderMissing, Settle, ExecuteReturns, Post,
            Refuse, SaveRefused, Insert, Drop, PostReturns, RefreshLimitOrder,
            RefreshMarketOrder, RefreshReturns
      <4> QED
        BY <2>1, <3>1, <4>1, DepositStep
    <3>2. CASE Request \/ Failure \/ UNCHANGED vars
      BY <1>4, <2>1, <3>2, DepositRequest
    <3> QED
      BY <3>1, <3>2 DEF Next
  <2>4. /\ bal \in [Accounts -> [Currencies -> Int]]
        /\ bal' \in [Accounts -> [Currencies -> Int]]
    BY DEF IInv, SafeTables, SafeBalances
  <2> HIDE DEF o, x
  <2>5. Affords(bal', o, x)
    BY <2>1, <2>2, <2>3, <2>4, AffordsMore
  <2>6. committed'.bal = bal' \/ committed'.bal = committed.bal
    BY <2>3 DEF Persist, Rollback, Tables
  <2>7. Affords(committed'.bal, o, x)
    BY <2>1, <2>5, <2>6
  <2>8. /\ Affords(bal, worker[w].self.id, worker[w].self.amount)'
        /\ Affords(committed.bal, worker[w].self.id, worker[w].self.amount)'
    BY <1>4, <2>5, <2>7 DEF o, x, Affords
  <2> QED
    BY <2>3, <2>8
<1>5. worker' = worker \/ \E v \in Workers, o \in Ids : ActivateCheck(v, o)
  <2>1. CASE Step
    BY <2>1, StepKeepsWorkers
  <2>2. CASE Request
    <3>1. ASSUME NEW o \in Ids, Create(w, o) PROVE FALSE
      <4>1. worker'[w].stage = "execute"
        BY <1>2, <3>1 DEF Create
      <4> QED
        BY <4>1
    <3>2. ASSUME ActivateSave(w) PROVE FALSE
      <4>1. worker'[w].stage = "execute"
        BY <1>2, <3>2 DEF ActivateSave
      <4> QED
        BY <4>1
    <3>3. ASSUME BeginExecute(w) PROVE FALSE
      BY <1>2, <3>3 DEF BeginExecute, Idle
    <3> QED
      BY <1>1, <2>2, <3>1, <3>2, <3>3
      DEF Request, Destroy, BeginMove, Confirm, env
  <2>3. CASE Failure
    <3>1. ASSUME Abandon(w) PROVE FALSE
      BY <1>2, <3>1 DEF Abandon, Idle
    <3> QED
      BY <1>1, <2>3, <3>1 DEF Failure, Crash
  <2>4. CASE UNCHANGED vars
    BY <2>4 DEF vars
  <2> QED
    BY <2>1, <2>2, <2>3, <2>4 DEF Next
<1> QED
  BY <1>3, <1>4, <1>5

(* The save of activate! finds the balance it checked.                      *)
LEMMA ActivationFunded ==
  ASSUME IInv, IInv', CoverInv, FreshInv, FundInv, StandingOrdersFunded,
         NEW w \in Workers, ActivateSave(w)
  PROVE  StandingOrdersFunded'
<1> PICK n, x : n = worker[w].self.id /\ x = worker[w].self.amount
  OBVIOUS
<1>1. worker[w] # Idle /\ worker[w].stage = "activate"
  BY DEF ActivateSave, Idle
<1>2. /\ n \in Ids /\ orders[n].amount = x /\ Affords(bal, n, x) /\ Placed(n)
  BY <1>1, WorkerOrder DEF FreshInv, FreshCopy, FundInv
<1>3. /\ bal' = bal /\ bal = committed.bal /\ orders = committed.orders
      /\ committed'.bal = bal' /\ committed'.orders = orders'
      /\ orders' = [orders EXCEPT ![n].active = TRUE]
  BY <1>2 DEF ActivateSave, AtRest, CoverInv, Persist, Tables
<1>4. \A o \in Ids : o # n => orders'[o] = orders[o]
  BY <1>2, <1>3 DEF IInv, SafeTables
<1>5. orders'[n].amount = x
  BY <1>2, <1>3 DEF IInv, SafeTables, Rows
<1>6. ASSUME NEW o \in Ids, o # n PROVE ~Uncovered(o)'
  BY <1>3, <1>4, <1>6
  DEF StandingOrdersFunded, Uncovered, Standing
<1>7. ~Uncovered(n)'
  <2>1. Funded(n, orders[n].amount)'
    BY <1>2, <1>3, <1>5 DEF Affords, Funded
  <2>2. ~Exposed(n)'
    BY <2>1 DEF Exposed
  <2> QED
    BY <1>2, <1>3, <2>2, UncoveredIsExposedThen, SMTT(30)
<1> QED
  BY <1>6, <1>7 DEF StandingOrdersFunded

(* In a book of limit orders and with one process, every active limit order  *)
(* is covered by the balance it would spend, even if processes die: each    *)
(* debit inactivates the orders it leaves uncovered, and nothing spends     *)
(* the balance between the check of activate! and its save!                 *)
(* (TradeOrder#activate!, LimitOrder#inactivate_if_needed!).                *)
THEOREM OrdersStayFunded ==
  LimitBook /\ OneProcess => (Spec => []StandingOrdersFunded)
<1> SUFFICES ASSUME LimitBook, OneProcess PROVE Spec => []StandingOrdersFunded
  OBVIOUS
<1>1. Init => FundInv /\ StandingOrdersFunded
  <2> SUFFICES ASSUME Init PROVE FundInv /\ StandingOrdersFunded
    OBVIOUS
  <2>1. \A w \in Workers : worker[w].stage # "activate"
    BY DEF Init, Idle
  <2>2. \A o \in Ids : ~committed.orders[o].placed
    BY DEF Init, Tables, NoRow
  <2> QED
    BY <2>1, <2>2 DEF FundInv, StandingOrdersFunded, Uncovered, Standing
<1>2. IInv /\ CoverInv /\ FlatInv /\ FreshInv /\ FundInv
        /\ StandingOrdersFunded /\ [Next]_vars
        => FundInv' /\ StandingOrdersFunded'
  <2> SUFFICES ASSUME IInv, CoverInv, FlatInv, FreshInv, FundInv,
                      StandingOrdersFunded, [Next]_vars
               PROVE  FundInv' /\ StandingOrdersFunded'
    OBVIOUS
  <2>1. IInv' /\ KeepsCover
    BY NextSafe, CoverNext DEF LimitBook
  <2>2. FundInv'
    BY <2>1, FundNext
  <2>3. ASSUME NEW w \in Workers, ActivateSave(w) PROVE StandingOrdersFunded'
    BY <2>1, <2>3, ActivationFunded
  <2>4. ASSUME \A w \in Workers : ~ActivateSave(w) PROVE StandingOrdersFunded'
    BY <2>1, <2>4 DEF KeepsCover, StandingOrdersFunded
  <2> QED
    BY <2>2, <2>3, <2>4
<1>3. Spec => []CoverInv
  BY CoverInvariant DEF LimitBook
<1> QED
  BY <1>1, <1>2, <1>3, Invariance, FlatInvariant, FreshInvariant, PTL DEF Spec

-----------------------------------------------------------------------------
(* An order is filled once.                                                 *)

(* What a list of trades filled of an order.                                *)
FilledBy(ts, o) ==
  SumFunction([i \in DOMAIN ts |->
                 IF o \in {ts[i].purchase, ts[i].sale} THEN ts[i].btc ELSE 0])

(* What was filled of each order and what remains of it, in tables os and ts *)
(* of orders that were created at ca.                                       *)
FillsOK(os, ts, ca) ==
  \A o \in Ids :
    /\ FilledBy(ts, o) \in Nat
    /\ FilledBy(ts, o) <= (IF ca[o] = 0 THEN 0 ELSE Form[o].amount)
    /\ os[o].placed => FilledBy(ts, o) + os[o].amount = Form[o].amount
                       /\ ca[o] # 0

FillsInv ==
  /\ FillsOK(orders, trades, createdAt)
  /\ FillsOK(committed.orders, committed.trades, createdAt)

LEMMA FilledAppended ==
  ASSUME NEW ts \in Seq(SafeRows), NEW row \in SafeRows, NEW o \in Ids
  PROVE  FilledBy(Append(ts, row), o)
           = FilledBy(ts, o)
               + (IF o \in {row.purchase, row.sale} THEN row.btc ELSE 0)
<1> DEFINE n == Len(ts)
           us == Append(ts, row)
           p == [i \in DOMAIN ts |->
                  IF o \in {ts[i].purchase, ts[i].sale} THEN ts[i].btc ELSE 0]
           q == [i \in DOMAIN us |->
                  IF o \in {us[i].purchase, us[i].sale} THEN us[i].btc ELSE 0]
<1>1. /\ n \in Nat /\ DOMAIN ts = 1..n /\ DOMAIN us = 1..(n + 1)
      /\ \A i \in 1..n : us[i] = ts[i] /\ ts[i] \in SafeRows
      /\ us[n + 1] = row
  OBVIOUS
<1>2. \A t \in SafeRows : t.btc \in Int
  BY DEF SafeRows, TradeRows
<1> HIDE DEF n, us
<1>3. /\ p \in [1..n -> Int] /\ q \in [1..(n + 1) -> Int]
      /\ \A i \in 1..n : q[i] = p[i]
      /\ q[n + 1] = (IF o \in {row.purchase, row.sale} THEN row.btc ELSE 0)
  <2>1. /\ n + 1 \in 1..(n + 1) /\ \A i \in 1..n : i \in 1..(n + 1)
        /\ \A i \in 1..(n + 1) : i \in 1..n \/ i = n + 1
    BY <1>1
  <2>2. \A i \in 1..(n + 1) : us[i] \in SafeRows
    BY <1>1, <2>1
  <2> QED
    BY <1>1, <1>2, <2>1, <2>2
<1> HIDE DEF p, q
<1>4. SumFunction(q) = SumFunction(p) + q[n + 1]
  <2>1. 1 \in Nat /\ 1 <= n + 1
    BY <1>1
  <2> QED
    BY ONLY <1>1, <1>3, <2>1, SumAppended
<1>5. FilledBy(us, o) = SumFunction(q) /\ FilledBy(ts, o) = SumFunction(p)
  BY DEF FilledBy, p, q
<1> QED
  BY <1>3, <1>4, <1>5 DEF us

LEMMA FilledByNone == ASSUME NEW o PROVE FilledBy(<<>>, o) = 0
<1>1. SumFunction([i \in DOMAIN <<>> |->
         IF o \in {<<>>[i].purchase, <<>>[i].sale} THEN <<>>[i].btc ELSE 0]) = 0
  BY SumOfNone DEF SumFunction
<1> QED
  BY <1>1 DEF FilledBy

LEMMA FillsPersist ==
  ASSUME FillsInv, createdAt' = createdAt, Persist \/ committed' = committed,
         FillsOK(orders', trades', createdAt)
  PROVE  FillsInv'
<1>1. FillsOK(orders, trades, createdAt)'
  BY DEF FillsOK
<1>2. \/ /\ committed'.orders = orders' /\ committed'.trades = trades'
      \/ committed' = committed
  BY DEF Persist, Tables
<1>3. FillsOK(committed.orders, committed.trades, createdAt)'
  BY <1>1, <1>2 DEF FillsInv, FillsOK
<1> QED
  BY <1>1, <1>3 DEF FillsInv

LEMMA FillsRollBack ==
  ASSUME FillsInv, Rollback, createdAt' = createdAt PROVE FillsInv'
<1>1. /\ orders' = committed.orders /\ trades' = committed.trades
      /\ committed' = committed
  BY DEF Rollback
<1> QED
  BY <1>1, FillsPersist DEF FillsInv

(* Rows are removed, or rewritten with the same amount.                     *)
LEMMA FillsStay ==
  ASSUME FillsInv, UNCHANGED <<trades, createdAt>>,
         Persist \/ committed' = committed,
         \A o \in Ids : orders'[o].placed =>
           orders[o].placed /\ orders'[o].amount = orders[o].amount
  PROVE  FillsInv'
<1>1. FillsOK(orders', trades', createdAt)
  BY DEF FillsInv, FillsOK
<1> QED
  BY <1>1, FillsPersist

LEMMA FillsTrade ==
  ASSUME LimitBook, IInv, GridInv, FlatInv, FreshInv, FillsInv, RecordTrade
  PROVE  FillsInv'
<1>1. PICK mo \in Top.mos :
        LET tb == TradedBtc(Top.self, mo)
            self == Top.self.id
        IN /\ mo.id \in Ids /\ self \in Ids /\ mo.id # self
           /\ tb \in Int /\ tb > 0
           /\ tb <= orders[self].amount /\ tb <= orders[mo.id].amount
           /\ orders[self].placed /\ orders[mo.id].placed
           /\ \A o \in Ids :
                /\ orders'[o].placed = orders[o].placed
                /\ orders'[o].amount =
                     IF o \in {self, mo.id} THEN orders[o].amount - tb
                     ELSE orders[o].amount
           /\ trades' = Append(trades, TradeRow(Top.self, mo))
           /\ TradeRow(Top.self, mo) \in SafeRows
  BY FreshTrade
<1> DEFINE t == TradeRow(Top.self, mo)
<1>2. PICK tb, self, row :
        /\ tb = TradedBtc(Top.self, mo) /\ self = Top.self.id /\ row = t
  OBVIOUS
<1>3. row.btc = tb /\ {row.purchase, row.sale} = {self, mo.id}
  BY <1>2 DEF TradeRow, Purchase, Sale
<1>4. \A o \in Ids : FilledBy(trades', o) =
        FilledBy(trades, o) + (IF o \in {self, mo.id} THEN tb ELSE 0)
  <2> SUFFICES ASSUME NEW o \in Ids
               PROVE  FilledBy(trades', o) = FilledBy(trades, o)
                        + (IF o \in {self, mo.id} THEN tb ELSE 0)
    OBVIOUS
  <2>1. PICK ts : ts = trades /\ ts \in Seq(SafeRows)
    BY DEF IInv, SafeTables
  <2>2. row \in SafeRows /\ trades' = Append(ts, row)
    BY <1>1, <1>2, <2>1
  <2>3. FilledBy(Append(ts, row), o) = FilledBy(ts, o)
          + (IF o \in {row.purchase, row.sale} THEN row.btc ELSE 0)
    BY <2>1, <2>2, FilledAppended
  <2> QED
    BY <1>3, <2>1, <2>2, <2>3
<1>5. /\ tb \in Int /\ tb > 0
      /\ tb <= orders[self].amount /\ tb <= orders[mo.id].amount
      /\ orders[self].placed /\ orders[mo.id].placed
      /\ \A o \in Ids :
           /\ orders'[o].placed = orders[o].placed
           /\ orders'[o].amount =
                IF o \in {self, mo.id} THEN orders[o].amount - tb
                ELSE orders[o].amount
           /\ orders[o].amount \in Nat
  BY <1>1, <1>2 DEF GridInv, WholeTable, Whole
<1> HIDE DEF t
<1>6. FillsOK(orders', trades', createdAt)
  <2> SUFFICES ASSUME NEW o \in Ids
               PROVE  /\ FilledBy(trades', o) \in Nat
                      /\ FilledBy(trades', o)
                           <= (IF createdAt[o] = 0 THEN 0 ELSE Form[o].amount)
                      /\ orders'[o].placed =>
                           FilledBy(trades', o) + orders'[o].amount
                             = Form[o].amount
                           /\ createdAt[o] # 0
    BY DEF FillsOK
  <2>1. /\ FilledBy(trades, o) \in Nat
        /\ FilledBy(trades, o)
             <= (IF createdAt[o] = 0 THEN 0 ELSE Form[o].amount)
        /\ orders[o].placed =>
             FilledBy(trades, o) + orders[o].amount = Form[o].amount
             /\ createdAt[o] # 0
    BY DEF FillsInv, FillsOK
  <2>2. CASE o \in {self, mo.id}
    <3>1. orders[o].placed /\ tb <= orders[o].amount
      BY <1>5, <2>2
    <3>2. /\ FilledBy(trades', o) = FilledBy(trades, o) + tb
          /\ orders'[o].amount = orders[o].amount - tb
      BY <1>4, <1>5, <2>2
    <3> QED
      BY <1>5, <2>1, <3>1, <3>2
  <2>3. CASE o \notin {self, mo.id}
    <3>1. /\ FilledBy(trades', o) = FilledBy(trades, o)
          /\ orders'[o].amount = orders[o].amount
          /\ orders'[o].placed = orders[o].placed
      BY <1>4, <1>5, <2>1, <2>3
    <3> QED
      BY <2>1, <3>1
  <2> QED
    BY <2>2, <2>3
<1> QED
  BY <1>6, FillsPersist DEF RecordTrade, env

LEMMA FillsCreate ==
  ASSUME IInv, FillsInv, NEW w \in Workers, NEW n \in Ids, Create(w, n)
  PROVE  FillsInv'
<1>1. /\ trades' = trades /\ Persist /\ stack' = <<>>
      /\ createdAt[n] = 0 /\ clock' # 0
  BY DEF Create, AtRest, IInv, Greater
<1>2. Form[n].amount \in Nat
  BY EngineAssumption DEF Create, Valid, Forms
<1>3. \A o \in Ids :
        /\ orders'[o] = IF o = n THEN [placed |-> TRUE,
                                       amount |-> Form[n].amount,
                                       active |-> TRUE]
                        ELSE orders[o]
        /\ createdAt'[o] = IF o = n THEN clock' ELSE createdAt[o]
  BY DEF Create, IInv, SafeTables
<1>4. FillsOK(orders', trades', createdAt')
  <2> SUFFICES ASSUME NEW o \in Ids
               PROVE  /\ FilledBy(trades, o) \in Nat
                      /\ FilledBy(trades, o)
                           <= (IF createdAt'[o] = 0 THEN 0 ELSE Form[o].amount)
                      /\ orders'[o].placed =>
                           FilledBy(trades, o) + orders'[o].amount
                             = Form[o].amount
                           /\ createdAt'[o] # 0
    BY <1>1 DEF FillsOK
  <2>1. /\ FilledBy(trades, o) \in Nat
        /\ FilledBy(trades, o)
             <= (IF createdAt[o] = 0 THEN 0 ELSE Form[o].amount)
        /\ orders[o].placed =>
             FilledBy(trades, o) + orders[o].amount = Form[o].amount
             /\ createdAt[o] # 0
    BY DEF FillsInv, FillsOK
  <2>2. CASE o = n
    <3>1. FilledBy(trades, o) = 0
      BY <1>1, <2>1, <2>2
    <3> QED
      BY <1>1, <1>2, <1>3, <2>2, <3>1
  <2>3. CASE o # n
    BY <1>3, <2>1, <2>3
  <2> QED
    BY <2>2, <2>3
<1>5. committed'.orders = orders' /\ committed'.trades = trades'
  BY <1>1 DEF Persist, Tables
<1> QED
  BY <1>4, <1>5 DEF FillsInv, FillsOK

LEMMA FillsStep ==
  ASSUME LimitBook, IInv, GridInv, FlatInv, FreshInv, FillsInv, Step
  PROVE  FillsInv'
<1>1. CASE Skip \/ ExecuteReturns
  BY <1>1, FillsStay DEF Skip, ExecuteReturns, env
<1>2. CASE RecordTrade
  BY <1>2, FillsTrade
<1>3. CASE OrderMissing
  BY <1>3, NoOrderMissing
<1>4. CASE Settle
  <2>1. \A o \in Ids : orders'[o] = orders[o] \/ orders'[o] = NoRow
    BY <1>4 DEF Settle
  <2>2. ~NoRow.placed
    BY DEF NoRow
  <2> QED
    BY <1>4, <2>1, <2>2, FillsStay DEF Settle, env
<1>5. CASE Post \/ Refuse \/ SaveRefused \/ Insert \/ Drop \/ PostReturns
             \/ RefreshLimitOrder \/ RefreshMarketOrder \/ RefreshReturns
  <2>1. CASE Passing
    BY <2>1, FillsStay DEF Passing
  <2>2. CASE Rollback /\ createdAt' = createdAt
    BY <2>2, FillsRollBack
  <2> QED
    BY <1>5, <2>1, <2>2, PassingSteps
<1> QED
  BY <1>1, <1>2, <1>3, <1>4, <1>5 DEF Step

LEMMA FillsRequest ==
  ASSUME IInv, FillsInv, Request PROVE FillsInv'
<1>1. ASSUME NEW w \in Workers, NEW o \in Ids, Create(w, o) PROVE FillsInv'
  BY <1>1, FillsCreate
<1>2. ASSUME NEW w \in Workers, NEW o \in Ids, ActivateCheck(w, o)
      PROVE  FillsInv'
  BY <1>2, FillsStay DEF ActivateCheck
<1>3. ASSUME NEW w \in Workers, ActivateSave(w) PROVE FillsInv'
  <2> PICK n : n = worker[w].self.id
    OBVIOUS
  <2>1. orders' = IF Placed(n) THEN [orders EXCEPT ![n].active = TRUE]
                               ELSE orders
    BY <1>3 DEF ActivateSave
  <2>2. \A o \in Ids : /\ orders'[o].placed = orders[o].placed
                       /\ orders'[o].amount = orders[o].amount
    BY <2>1 DEF IInv, SafeTables, Rows
  <2> QED
    BY <1>3, <2>2, FillsStay DEF ActivateSave
<1>4. ASSUME NEW w \in Workers, NEW n \in Ids, Destroy(w, n) PROVE FillsInv'
  <2>1. \A o \in Ids : orders'[o] = orders[o] \/ orders'[o] = NoRow
    BY <1>4 DEF Destroy, IInv, SafeTables
  <2>2. ~NoRow.placed
    BY DEF NoRow
  <2> QED
    BY <1>4, <2>1, <2>2, FillsStay DEF Destroy, env
<1>5. ASSUME NEW w \in Workers, BeginExecute(w) PROVE FillsInv'
  BY <1>5, FillsStay DEF BeginExecute
<1>6. ASSUME NEW m \in Moves, BeginMove(m) PROVE FillsInv'
  BY <1>6, FillsStay DEF BeginMove
<1>7. ASSUME NEW m \in Received, Confirm(m) PROVE FillsInv'
  BY <1>7, FillsStay DEF Confirm, env
<1> QED
  BY <1>1, <1>2, <1>3, <1>4, <1>5, <1>6, <1>7 DEF Request

LEMMA FillsNext ==
  ASSUME LimitBook, IInv, GridInv, FlatInv, FreshInv, FillsInv, [Next]_vars
  PROVE  FillsInv'
<1>1. CASE Step
  BY <1>1, FillsStep
<1>2. CASE Request
  BY <1>2, FillsRequest
<1>3. CASE Crash
  BY <1>3, FillsRollBack DEF Crash
<1>4. ASSUME NEW w \in Workers, Abandon(w) PROVE FillsInv'
  BY <1>4, FillsStay DEF Abandon
<1>5. CASE UNCHANGED vars
  BY <1>5, FillsStay DEF vars
<1> QED
  BY <1>1, <1>2, <1>3, <1>4, <1>5 DEF Next, Failure

(* In a book of limit orders and with one process, what was filled of an     *)
(* order and what remains of it make up what its user asked for: no order   *)
(* is filled twice from two copies of its row, whatever fails or is         *)
(* abandoned in between (TradeOrder#execute!).                              *)
THEOREM OrdersFilledOnce ==
  LimitBook /\ OneProcess => (Spec => []FillsAddUp)
<1> SUFFICES ASSUME LimitBook, OneProcess PROVE Spec => []FillsAddUp
  OBVIOUS
<1>1. Init => FillsInv
  <2> SUFFICES ASSUME Init PROVE FillsInv
    OBVIOUS
  <2>1. /\ trades = <<>> /\ committed.trades = <<>>
        /\ committed.orders = orders
        /\ \A o \in Ids : ~orders[o].placed /\ createdAt[o] = 0
    BY DEF Init, Tables, NoRow
  <2> QED
    BY <2>1, FilledByNone DEF FillsInv, FillsOK
<1>2. IInv /\ GridInv /\ FlatInv /\ FreshInv /\ FillsInv /\ [Next]_vars
        => FillsInv'
  BY FillsNext
<1>3. FillsInv => FillsAddUp
  BY DEF FillsInv, FillsOK, FillsAddUp, Filled, FilledBy
<1>4. Spec => []GridInv
  BY GridInvariant DEF LimitBook
<1> QED
  BY <1>1, <1>2, <1>3, <1>4, Invariance, FlatInvariant, FreshInvariant,
     PTL DEF Spec

-----------------------------------------------------------------------------
(* The book is never left crossed.                                          *)

LEMMA RoundHalfUpLeast ==
  ASSUME NEW n \in Int, NEW d \in Nat \ {0}, NEW k \in Int,
         k * (2 * d) <= 2 * n + d
  PROVE  RoundHalfUp(n, d) >= k
<1> DEFINE q == RoundHalfUp(n, d)
           m == 2 * d
<1>1. q \in Int
  BY RoundHalfUpInt
<1>2. 2 * n + d < (q + 1) * m
  <2>1. 2 * n + d < q * m + m
    BY DEF RoundHalfUp
  <2> QED
    BY <1>1, <2>1
<1>3. k * m <= 2 * n + d
  OBVIOUS
<1>4. m \in Int /\ m > 0
  OBVIOUS
<1> HIDE DEF q, m
<1>5. ASSUME q + 1 <= k PROVE FALSE
  <2>1. (q + 1) * m <= k * m
    BY <1>1, <1>4, <1>5
  <2>2. (q + 1) * m \in Int /\ k * m \in Int
    BY <1>1, <1>4
  <2> QED
    BY <1>2, <1>3, <2>1, <2>2
<1>6. q >= k
  BY <1>1, <1>5
<1> QED
  BY <1>6 DEF q

(* A fraction is rounded to nothing unless it is half of a unit.            *)
LEMMA RoundsUp ==
  ASSUME NEW n \in Int, NEW d \in Nat \ {0}
  PROVE  RoundHalfUp(n, d) > 0 <=> 2 * n >= d
<1>1. RoundHalfUp(n, d) \in Int
  BY RoundHalfUpInt
<1>2. ASSUME 2 * n >= d PROVE RoundHalfUp(n, d) >= 1
  <2>1. 1 * (2 * d) <= 2 * n + d
    BY <1>2
  <2> QED
    BY <2>1, RoundHalfUpLeast
<1>3. ASSUME 2 * n < d PROVE RoundHalfUp(n, d) <= 0
  <2>1. 2 * n + d < 2 * d /\ 2 * n + d \in Int /\ 2 * d \in Nat \ {0}
    BY <1>3
  <2>2. RoundHalfUp(n, d) * (2 * d) <= 2 * n + d
    BY DEF RoundHalfUp
  <2> DEFINE q == RoundHalfUp(n, d)
  <2> HIDE DEF q
  <2>3. ASSUME q >= 1 PROVE FALSE
    <3>1. q \in Int /\ q * (2 * d) <= 2 * n + d
      BY <1>1, <2>2 DEF q
    <3>2. q * (2 * d) >= 1 * (2 * d) /\ q * (2 * d) \in Int
      BY <2>1, <2>3, <3>1
    <3> QED
      BY <2>1, <3>1, <3>2
  <2>4. q <= 0
    BY <1>1, <2>3 DEF q
  <2> QED
    BY <2>4 DEF q
<1> QED
  BY <1>1, <1>2, <1>3

(* A trade of x bitcoins would yield a payment at the limit of either order. *)
WorthAlone(x, o, m) ==
  /\ 2 * (x * Form[o].ppc) >= Tick * PriceDen
  /\ 2 * (x * Form[m].ppc) >= Tick * PriceDen

(* Of two orders in a table, each would still take what the other offers.    *)
Crossed(t, o, m) ==
  /\ t[o].placed /\ t[o].active
  /\ t[m].placed /\ t[m].active
  /\ Matches(o, m)
  /\ WorthAlone(t[o].amount, o, m)
  /\ WorthAlone(t[m].amount, o, m)

LEMMA CrossedEitherWay ==
  ASSUME LimitOrdersOnly, NEW t, NEW o \in Ids, NEW m \in Ids, Crossed(t, o, m)
  PROVE  Crossed(t, m, o)
<1>1. Matches(m, o)
  <2>1. Form[o] \in Forms /\ Form[m] \in Forms
    BY EngineAssumption
  <2> QED
    BY <2>1 DEF Crossed, Matches, Accepts, Buying, LimitOrdersOnly, Forms
<1> QED
  BY <1>1 DEF Crossed, WorthAlone

LEMMA WorthMore ==
  ASSUME NEW x \in Int, NEW y \in Int, x <= y,
         NEW o \in Ids, NEW m \in Ids, WorthAlone(x, o, m)
  PROVE  WorthAlone(y, o, m)
<1>1. Form[o].ppc \in Nat /\ Form[m].ppc \in Nat /\ Tick * PriceDen \in Int
  BY EngineAssumption DEF Forms
<1>2. ASSUME NEW p \in Nat PROVE /\ x * p <= y * p
                                 /\ x * p \in Int /\ y * p \in Int
  BY <1>2
<1> QED
  BY <1>1, <1>2 DEF WorthAlone

(* Orders that are filled, inactivated or destroyed do not cross.           *)
LEMMA CrossesNoMore ==
  ASSUME NEW t \in [Ids -> Rows], NEW s \in [Ids -> Rows],
         \A o \in Ids : s[o].placed =>
           /\ t[o].placed /\ s[o].amount <= t[o].amount
           /\ s[o].active => t[o].active,
         NEW o \in Ids, NEW m \in Ids, Crossed(s, o, m)
  PROVE  Crossed(t, o, m)
<1>1. /\ s[o].amount \in Int /\ s[m].amount \in Int
      /\ t[o].amount \in Int /\ t[m].amount \in Int
  BY DEF Rows
<1>2. /\ t[o].placed /\ t[o].active /\ s[o].amount <= t[o].amount
      /\ t[m].placed /\ t[m].active /\ s[m].amount <= t[m].amount
  BY DEF Crossed
<1> QED
  BY <1>1, <1>2, WorthMore DEF Crossed

(* What is left of an order is not nothing.                                 *)
LEMMA NothingCrosses ==
  ASSUME NEW t, NEW o \in Ids, NEW m \in Ids, Crossed(t, o, m)
  PROVE  t[o].amount # 0 /\ t[m].amount # 0
<1>1. Form[o].ppc \in Nat
  BY EngineAssumption DEF Forms
<1>2. Tick * PriceDen > 0
  <2>1. Tick \in Nat \ {0} /\ PriceDen \in Nat \ {0}
    BY EngineAssumption
  <2> QED
    BY <2>1
<1>3. ~WorthAlone(0, o, m)
  <2>1. 2 * (0 * Form[o].ppc) = 0
    BY <1>1
  <2>2. Tick * PriceDen \in Int
    BY EngineAssumption
  <2> QED
    BY <1>2, <2>1, <2>2 DEF WorthAlone
<1> QED
  BY <1>3 DEF Crossed

(* Two orders that cross and are funded are traded for the lesser of their   *)
(* amounts.                                                                 *)
LEMMA FundedTrade ==
  ASSUME LimitOrdersOnly, bal \in [Accounts -> [Currencies -> Int]],
         NEW self \in Copies, NEW mo \in Copies, Matches(self.id, mo.id),
         Whole(self.amount), Whole(mo.amount),
         Funded(self.id, self.amount), Funded(mo.id, mo.amount),
         WorthAlone(self.amount, self.id, mo.id),
         WorthAlone(mo.amount, self.id, mo.id)
  PROVE  /\ WorthTrading(self, mo)
         /\ TradedBtc(self, mo) \in {self.amount, mo.amount}
<1> DEFINE p == Price(self, mo)
           a == Sale(self, mo).amount
           b == Purchase(self, mo).amount
           s == bal[Owner(Sale(self, mo).id)][BTC]
           c == bal[Owner(Purchase(self, mo).id)][Form[self.id].currency]
           z == Form[Purchase(self, mo).id].ppc
           q == Quantity(self, mo)
           x == Lesser(a, b)
<1>1. /\ p \in Nat \ {0} /\ PriceDen \in Nat \ {0} /\ Tick \in Nat \ {0}
      /\ p = Form[mo.id].ppc /\ z \in Nat /\ p <= z
  <2>1. self.id \in Ids /\ mo.id \in Ids
    BY DEF Copies
  <2>2. Form[self.id] \in Forms /\ Form[mo.id] \in Forms
    BY <2>1, EngineAssumption
  <2>3. IsLimit(self.id) /\ IsLimit(mo.id)
    BY <2>1 DEF LimitOrdersOnly
  <2> QED
    BY <2>2, <2>3, PricePositive, EngineAssumption
    DEF Price, Purchase, Matches, Accepts, Buying, Forms
<1>2. a \in Int /\ b \in Int /\ s \in Int /\ c \in Int
  BY EngineAssumption
  DEF Sale, Purchase, Copies, Owner, Forms, Accounts, Currencies
<1>3. /\ q = Lesser(Lesser(a * p, b * p), Lesser(s * p, c * PriceDen))
      /\ TradedBtc(self, mo) = Tick * RoundHalfUp(q, Tick * p)
      /\ TradedCurrency(self, mo) = Tick * RoundHalfUp(q, Tick * PriceDen)
  BY DEF Quantity, TradedBtc, TradedCurrency
<1>4. /\ s >= a /\ c * PriceDen >= b * z
      /\ Whole(a) /\ Whole(b) /\ x \in {self.amount, mo.amount}
      /\ 2 * (a * p) >= Tick * PriceDen /\ 2 * (b * p) >= Tick * PriceDen
  <2>1. Form[self.id] \in Forms /\ Form[mo.id] \in Forms
    BY EngineAssumption DEF Copies
  <2>2. /\ Form[Purchase(self, mo).id].currency = Form[self.id].currency
        /\ Buying(Purchase(self, mo).id) /\ ~Buying(Sale(self, mo).id)
    BY <2>1 DEF Purchase, Sale, Matches, Buying, Forms
  <2>3. /\ Funded(Purchase(self, mo).id, b) /\ Funded(Sale(self, mo).id, a)
        /\ Whole(a) /\ Whole(b) /\ x \in {self.amount, mo.amount}
        /\ 2 * (a * p) >= Tick * PriceDen /\ 2 * (b * p) >= Tick * PriceDen
    BY <1>1 DEF Purchase, Sale, WorthAlone, Lesser
  <2> QED
    BY <2>2, <2>3 DEF Funded
<1> HIDE DEF p, a, b, s, c, z, q
<1>5. a \in Nat /\ b \in Nat /\ x \in Nat /\ (x = a \/ x = b)
  BY <1>4 DEF Whole, Lesser
<1>6. q = x * p
  <2>1. /\ a * p <= s * p /\ b * p <= b * z
        /\ a * p \in Int /\ b * p \in Int /\ s * p \in Int
        /\ b * z \in Int /\ c * PriceDen \in Int
    BY <1>1, <1>2, <1>4, <1>5
  <2>2. a <= b <=> a * p <= b * p
    BY <1>1, <1>5
  <2> QED
    BY <1>2, <1>3, <1>4, <2>1, <2>2 DEF Lesser
<1>7. OnGrid(x, Tick) /\ 2 * (x * p) >= Tick * PriceDen
  BY <1>4, <1>5 DEF Whole
<1> HIDE DEF x
<1>8. RoundHalfUp(q, Tick * PriceDen) > 0 /\ Tick * PriceDen \in Nat \ {0}
  <2>1. Tick * PriceDen \in Nat \ {0} /\ x * p \in Int
    BY <1>1, <1>5
  <2> QED
    BY <1>6, <1>7, <2>1, RoundsUp
<1>9. PICK k \in Int : x = k * Tick
  BY <1>7 DEF OnGrid
<1>10. RoundHalfUp(q, Tick * p) = k
  <2> DEFINE d == Tick * p
  <2>1. d \in Nat \ {0}
    BY <1>1
  <2>2. q = k * d
    BY <1>1, <1>6, <1>9
  <2> HIDE DEF d
  <2>3. k * d \in Int /\ k * (2 * d) = 2 * (k * d)
    BY <2>1
  <2>4. k * (2 * d) <= 2 * q + d
    BY <2>1, <2>2, <2>3
  <2>5. /\ RoundHalfUp(q, d) <= k /\ RoundHalfUp(q, d) >= k
        /\ RoundHalfUp(q, d) \in Int
    <3>1. q \in Int /\ q <= k * d
      BY <2>2, <2>3
    <3> QED
      BY <2>1, <2>4, <3>1, RoundHalfUpBound, RoundHalfUpLeast, RoundHalfUpInt
  <2> QED
    BY <2>5 DEF d
<1>11. TradedBtc(self, mo) = x
  BY <1>1, <1>3, <1>9, <1>10
<1>12. x > 0
  <2>1. x # 0
    BY <1>1, <1>7, <1>8
  <2> QED
    BY <1>5, <2>1
<1>13. TradedCurrency(self, mo) > 0
  <2>1. RoundHalfUp(q, Tick * PriceDen) \in Int
    <3>1. q \in Int
      BY <1>1, <1>5, <1>6
    <3> QED
      BY <1>8, <3>1, RoundHalfUpInt
  <2>2. \A r \in Int : r > 0 => Tick * r > 0
    BY <1>1
  <2> QED
    BY <1>3, <1>8, <2>1, <2>2
<1> QED
  BY <1>4, <1>11, <1>12, <1>13 DEF WorthTrading, x

(* A pair that can trade crosses: the balances only make a trade smaller.    *)
LEMMA CanTradeCrosses ==
  ASSUME LimitOrdersOnly, bal \in [Accounts -> [Currencies -> Int]],
         NEW o \in Ids, NEW m \in Ids, orders \in [Ids -> Rows],
         Matches(o, m), WholeTable(orders), CanTrade(o, m),
         orders[o].placed, orders[o].active,
         orders[m].placed, orders[m].active
  PROVE  Crossed(orders, o, m)
<1>1. ASSUME NEW self \in Copies, NEW mo \in Copies, Matches(self.id, mo.id),
             WorthTrading(self, mo), IsLimit(mo.id)
      PROVE  /\ 2 * (self.amount * Form[mo.id].ppc) >= Tick * PriceDen
             /\ 2 * (mo.amount * Form[mo.id].ppc) >= Tick * PriceDen
  <2> DEFINE p == Price(self, mo)
             a == Sale(self, mo).amount
             b == Purchase(self, mo).amount
             s == bal[Owner(Sale(self, mo).id)][BTC]
             c == bal[Owner(Purchase(self, mo).id)][Form[self.id].currency]
             q == Quantity(self, mo)
  <2>1. /\ p \in Nat \ {0} /\ PriceDen \in Nat \ {0} /\ Tick \in Nat \ {0}
        /\ p = Form[mo.id].ppc
    BY <1>1, PricePositive, EngineAssumption DEF Price
  <2>2. a \in Int /\ b \in Int /\ s \in Int /\ c \in Int
    BY <1>1, EngineAssumption
    DEF Sale, Purchase, Copies, Owner, Forms, Accounts, Currencies
  <2>3. /\ q = Lesser(Lesser(a * p, b * p), Lesser(s * p, c * PriceDen))
        /\ Tick * RoundHalfUp(q, Tick * PriceDen) > 0
        /\ {a, b} = {self.amount, mo.amount}
    BY <1>1
    DEF Quantity, TradedCurrency, WorthTrading, Sale, Purchase
  <2> HIDE DEF p, a, b, s, c, q
  <2>4. a * p \in Int /\ b * p \in Int /\ s * p \in Int /\ c * PriceDen \in Int
    BY <2>1, <2>2
  <2>5. q \in Int /\ q <= a * p /\ q <= b * p
    BY <2>3, <2>4 DEF Lesser
  <2>6. Tick * PriceDen \in Nat \ {0}
    BY <2>1
  <2>7. RoundHalfUp(q, Tick * PriceDen) > 0
    <3>1. RoundHalfUp(q, Tick * PriceDen) \in Int
      BY <2>5, <2>6, RoundHalfUpInt
    <3>2. \A r \in Int : Tick * r > 0 => r > 0
      BY <2>1
    <3> QED
      BY <2>3, <3>1, <3>2
  <2>8. 2 * q >= Tick * PriceDen
    BY <2>5, <2>6, <2>7, RoundsUp
  <2>9. 2 * (a * p) >= Tick * PriceDen /\ 2 * (b * p) >= Tick * PriceDen
    BY <2>4, <2>5, <2>6, <2>8
  <2> QED
    BY <2>1, <2>3, <2>9
<1>2. Matches(m, o) /\ IsLimit(o) /\ IsLimit(m)
  <2>1. Form[o] \in Forms /\ Form[m] \in Forms
    BY EngineAssumption
  <2> QED
    BY <2>1 DEF Matches, Accepts, Buying, LimitOrdersOnly, Forms
<1>3. /\ Copy(o) \in Copies /\ Copy(m) \in Copies
      /\ Copy(o).id = o /\ Copy(o).amount = orders[o].amount
      /\ Copy(m).id = m /\ Copy(m).amount = orders[m].amount
  BY DEF Copy, Copies, Rows
<1>4. /\ 2 * (orders[o].amount * Form[m].ppc) >= Tick * PriceDen
      /\ 2 * (orders[m].amount * Form[m].ppc) >= Tick * PriceDen
  BY <1>1, <1>2, <1>3 DEF CanTrade
<1>5. /\ 2 * (orders[o].amount * Form[o].ppc) >= Tick * PriceDen
      /\ 2 * (orders[m].amount * Form[o].ppc) >= Tick * PriceDen
  BY <1>1, <1>2, <1>3 DEF CanTrade
<1> QED
  BY <1>4, <1>5 DEF Crossed, WorthAlone

(* The running execution of o has still to look at m.                       *)
Looking(o, m) ==
  \E f \in Range(stack) :
    InExecution(f) /\ f.self.id = o /\ \E c \in f.mos : c.id = m

Awaited(o, m) == AwaitsExecution(o) \/ AwaitsExecution(m)

NoExecution == \A f \in Range(stack) : ~InExecution(f)

(* Of two orders that cross, one is to be executed, or is being executed and *)
(* has yet to meet the other; and so it is again if the running operation   *)
(* is rolled back.  No execution ends early: its copy is of an active order, *)
(* and the order it found filled is gone.                                   *)
CrossInv ==
  /\ \A o, m \in Ids : Crossed(orders, o, m) =>
       Awaited(o, m) \/ Looking(o, m) \/ Looking(m, o)
  /\ NoExecution =>
       \A o, m \in Ids : Crossed(committed.orders, o, m) => Awaited(o, m)
  /\ \A w \in Workers : worker[w].stage = "execute" => worker[w].self.active
  /\ \A f \in Range(stack) : InExecution(f) =>
       f.self.active /\ (f.op = "match" => f.alive \/ ~Placed(f.self.id))

LEMMA AwaitedStill ==
  ASSUME worker' = worker, NEW o, NEW m, Awaited(o, m)
  PROVE  Awaited(o, m)'
BY DEF Awaited, AwaitsExecution

(* No operation runs between the check and the trade of an execution: every  *)
(* active order is covered.                                                 *)
LEMMA FundedInExecution ==
  ASSUME LimitBook, IInv, CoverInv, FlatInv, FreshInv, StandingOrdersFunded,
         Running("match"),
         NEW o \in Ids, orders[o].placed, orders[o].active
  PROVE  Funded(o, orders[o].amount)
<1>1. Range(stack) = {Top} /\ Top.op = "match"
  BY RunningExecution DEF Running, Top
<1>2. ~LookedAt(stack, o, orders[o].amount)
  BY <1>1 DEF LookedAt, WillLookAt, WillRefresh, WillCredit
<1>3. ~Exposed(o)
  BY <1>2 DEF CoverInv, StandingOrdersFunded
<1> QED
  BY <1>3 DEF Exposed, Placed, LimitBook, LimitOrdersOnly

LEMMA CrossPasses ==
  ASSUME IInv, IInv', CrossInv, Passing
  PROVE  CrossInv'
<1>1. orders \in [Ids -> Rows] /\ orders' \in [Ids -> Rows]
  BY DEF IInv, SafeTables
<1>2. worker' = worker
  BY DEF Passing
<1>3. ASSUME NEW o \in Ids, NEW m \in Ids, Crossed(orders', o, m)
      PROVE  Crossed(orders, o, m)
  <2>1. \A n \in Ids : orders'[n].placed =>
          /\ orders[n].placed /\ orders'[n].amount <= orders[n].amount
          /\ orders'[n].active => orders[n].active
    BY <1>1 DEF Passing, Rows
  <2> QED
    BY <1>1, <1>3, <2>1, CrossesNoMore
<1>4. ASSUME NEW o, NEW m, Looking(o, m) PROVE Looking(o, m)'
  BY <1>4 DEF Looking, Passing
<1>5. ASSUME NEW o \in Ids, NEW m \in Ids, Crossed(orders', o, m)
      PROVE  Awaited(o, m)' \/ Looking(o, m)' \/ Looking(m, o)'
  BY <1>2, <1>3, <1>4, <1>5, AwaitedStill DEF CrossInv
<1>6. ASSUME NoExecution', NEW o \in Ids, NEW m \in Ids,
             Crossed(committed'.orders, o, m)
      PROVE  Awaited(o, m)'
  <2>1. NoExecution
    BY <1>6 DEF NoExecution, Passing
  <2>2. ~Looking(o, m)' /\ ~Looking(m, o)'
    BY <1>6 DEF Looking, NoExecution
  <2>3. CASE committed' = committed
    BY <1>2, <1>6, <2>1, <2>3, AwaitedStill DEF CrossInv
  <2>4. CASE committed'.orders = orders'
    BY <1>5, <1>6, <2>2, <2>4
  <2> QED
    BY <2>3, <2>4 DEF Passing, Persist, Tables
<1>7. \A f \in Range(stack') : InExecution(f) =>
        f.self.active /\ (f.op = "match" => f.alive \/ ~Placed(f.self.id)')
  <2> SUFFICES ASSUME NEW f \in Range(stack'), InExecution(f)
               PROVE  /\ f.self.active
                      /\ f.op = "match" => f.alive \/ ~Placed(f.self.id)'
    OBVIOUS
  <2>1. f \in Range(stack) /\ f \in SafeFrames
    BY DEF Passing, IInv, Range
  <2>2. f.self.id \in Ids
    BY <2>1
    DEF InExecution, SafeFrames, SafeMatchFrames, SafeSettleFrames, MatchFrames,
        SettleFrames, Copies, SafePostFrames, SafeInsertFrames, RefreshFrames
  <2> QED
    BY <2>1, <2>2 DEF CrossInv, Passing, Placed
<1> QED
  BY <1>2, <1>5, <1>6, <1>7 DEF CrossInv, Crossed

LEMMA CrossRollsBack ==
  ASSUME CrossInv, Rollback, UNCHANGED worker, NoExecution
  PROVE  CrossInv'
<1>1. /\ Range(stack') = {} /\ orders' = committed.orders
      /\ committed' = committed
  BY RangeOfNone DEF Rollback
<1>2. \A o, m \in Ids : Crossed(committed.orders, o, m) => Awaited(o, m)'
  BY AwaitedStill DEF CrossInv
<1> QED
  BY <1>1, <1>2 DEF CrossInv, Crossed

(* The execution goes on, and still has to look at the orders that cross the *)
(* one it executes.                                                         *)
LEMMA CrossExecutes ==
  ASSUME LimitOrdersOnly, CrossInv, worker' = worker,
         \A w \in Workers : worker[w] = Idle,
         NEW f, Range(stack) \in SUBSET {f},
         \E g \in Range(stack') : InExecution(g),
         \A g \in Range(stack') : InExecution(g) =>
           g.self.active /\ (g.op = "match" => g.alive \/ ~Placed(g.self.id)'),
         \A o, m \in Ids : Crossed(orders', o, m) =>
           Crossed(orders, o, m) /\ (Looking(o, m) => Looking(o, m)')
  PROVE  CrossInv'
<1>1. ~NoExecution'
  BY DEF NoExecution
<1>2. ASSUME NEW o \in Ids, NEW m \in Ids, Crossed(orders', o, m)
      PROVE  Looking(o, m)' \/ Looking(m, o)'
  <2>1. ~Awaited(o, m)
    BY DEF Awaited, AwaitsExecution
  <2>2. Looking(o, m) \/ Looking(m, o)
    BY <1>2, <2>1 DEF CrossInv
  <2>3. Crossed(orders', m, o)
    BY <1>2, CrossedEitherWay
  <2> QED
    BY <1>2, <2>2, <2>3
<1>3. \A w \in Workers : worker[w].stage = "execute" => worker[w].self.active
  BY DEF CrossInv
<1> QED
  BY <1>1, <1>2, <1>3 DEF CrossInv, Crossed

(* What a match frame holds when its loop continues.                        *)
LEMMA CrossedPairTrades ==
  ASSUME LimitBook, IInv, GridInv, CoverInv, FlatInv, FreshInv,
         StandingOrdersFunded, Running("match"), LoopContinues(Top),
         NEW mo \in Top.mos, Crossed(orders, Top.self.id, mo.id)
  PROVE  /\ WorthTrading(Top.self, mo)
         /\ TradedBtc(Top.self, mo)
              \in {orders[Top.self.id].amount, orders[mo.id].amount}
<1>1. /\ Top.self.id \in Ids /\ Top.self \in Copies
      /\ mo \in Copies /\ mo.id \in Ids
      /\ Matches(Top.self.id, mo.id) /\ Top.op = "match"
      /\ FreshFrame(Top)
  BY RunningExecution DEF Running, Top
<1>2. /\ Top.self.amount = orders[Top.self.id].amount
      /\ mo.amount = orders[mo.id].amount
  BY <1>1 DEF LoopContinues, FreshFrame, FreshCopy, InExecution
<1>3. /\ Funded(Top.self.id, orders[Top.self.id].amount)
      /\ Funded(mo.id, orders[mo.id].amount)
  BY <1>1, FundedInExecution DEF Crossed
<1>4. Whole(Top.self.amount) /\ Whole(mo.amount)
  BY <1>1, <1>2 DEF GridInv, WholeTable
<1>5. /\ WorthAlone(Top.self.amount, Top.self.id, mo.id)
      /\ WorthAlone(mo.amount, Top.self.id, mo.id)
  BY <1>2 DEF Crossed
<1>6. bal \in [Accounts -> [Currencies -> Int]] /\ LimitOrdersOnly
  BY DEF IInv, SafeTables, SafeBalances, LimitBook
<1> QED
  BY <1>1, <1>2, <1>3, <1>4, <1>5, <1>6, FundedTrade

LEMMA CrossTrade ==
  ASSUME LimitBook, IInv, IInv', GridInv, CoverInv, FlatInv, FreshInv,
         StandingOrdersFunded, CrossInv, RecordTrade
  PROVE  CrossInv'
<1>1. /\ Range(stack) = {Top} /\ InExecution(Top)
      /\ \A w \in Workers : worker[w] = Idle
      /\ Running("match") /\ LoopContinues(Top)
  BY RunningExecution DEF RecordTrade
<1>2. PICK mo \in Top.mos :
        LET tb == TradedBtc(Top.self, mo)
            self == Top.self.id
        IN /\ mo.id \in Ids /\ self \in Ids /\ mo.id # self
           /\ tb \in Int /\ tb > 0
           /\ \A o \in Ids :
                /\ orders'[o].placed = orders[o].placed
                /\ orders'[o].active = orders[o].active
                /\ orders'[o].amount =
                     IF o \in {self, mo.id} THEN orders[o].amount - tb
                     ELSE orders[o].amount
           /\ \A f \in Range(stack') : InExecution(f) =>
                f.op = "settle" /\ f.self.active = Top.self.active
           /\ \E f \in Range(stack') :
                /\ f.op = "settle" /\ f.self.id = self /\ f.mo.id = mo.id
                /\ f.mos = Top.mos \ {mo}
  BY FreshTrade
<1>3. PICK tb, self : tb = TradedBtc(Top.self, mo) /\ self = Top.self.id
  OBVIOUS
<1>4. PICK g \in Range(stack') :
        g.op = "settle" /\ g.self.id = self /\ g.mos = Top.mos \ {mo}
  BY <1>2, <1>3
<1>5. /\ mo.id \in Ids /\ self \in Ids /\ mo.id # self
      /\ tb \in Int /\ tb > 0
      /\ \A o \in Ids :
           /\ orders'[o].placed = orders[o].placed
           /\ orders'[o].active = orders[o].active
           /\ orders'[o].amount =
                IF o \in {self, mo.id} THEN orders[o].amount - tb
                ELSE orders[o].amount
  BY <1>2, <1>3
<1>6. orders \in [Ids -> Rows] /\ orders' \in [Ids -> Rows]
  BY DEF IInv, SafeTables
<1>7. ASSUME NEW o \in Ids, NEW m \in Ids, Crossed(orders', o, m)
      PROVE  Crossed(orders, o, m)
  <2>1. \A n \in Ids : orders'[n].placed =>
          /\ orders[n].placed /\ orders'[n].amount <= orders[n].amount
          /\ orders'[n].active => orders[n].active
    BY <1>5, <1>6 DEF Rows
  <2> QED
    BY <1>6, <1>7, <2>1, CrossesNoMore
<1>8. ASSUME Crossed(orders', self, mo.id) PROVE FALSE
  <2>1. Crossed(orders, self, mo.id)
    BY <1>5, <1>7, <1>8
  <2>2. tb \in {orders[self].amount, orders[mo.id].amount}
    BY <1>1, <1>3, <2>1, CrossedPairTrades
  <2>3. orders'[self].amount = 0 \/ orders'[mo.id].amount = 0
    BY <1>5, <1>6, <2>2 DEF Rows
  <2> QED
    BY <1>5, <1>8, <2>3, NothingCrosses
<1>9. ASSUME NEW o \in Ids, NEW m \in Ids, Crossed(orders', o, m), Looking(o, m)
      PROVE  Looking(o, m)'
  <2>1. PICK c \in Top.mos : o = self /\ c.id = m
    BY <1>1, <1>3, <1>9 DEF Looking
  <2>2. c # mo
    BY <1>8, <1>9, <2>1
  <2> QED
    BY <1>4, <2>1, <2>2 DEF Looking, InExecution
<1>10. \A f \in Range(stack') : InExecution(f) =>
         f.self.active /\ (f.op = "match" => f.alive \/ ~Placed(f.self.id)')
  BY <1>1, <1>2 DEF CrossInv
<1>11. \E f \in Range(stack') : InExecution(f)
  BY <1>4 DEF InExecution
<1>12. worker' = worker /\ LimitOrdersOnly
  BY DEF RecordTrade, env, LimitBook
<1> QED
  BY <1>1, <1>7, <1>9, <1>10, <1>11, <1>12, CrossExecutes

LEMMA CrossSkip ==
  ASSUME LimitBook, IInv, GridInv, CoverInv, FlatInv, FreshInv,
         StandingOrdersFunded, CrossInv, Skip
  PROVE  CrossInv'
<1>1. /\ Range(stack) = {Top} /\ InExecution(Top) /\ Rest = <<>>
      /\ \A w \in Workers : worker[w] = Idle
      /\ Running("match") /\ LoopContinues(Top) /\ Top \in MatchFrames
  BY RunningExecution DEF Skip, Running, Top, SafeMatchFrames
<1>2. PICK mo \in Top.mos :
        /\ ~WorthTrading(Top.self, mo)
        /\ stack' = <<[Top EXCEPT !.mos = @ \ {mo}]>> \o Rest
  BY DEF Skip, Best
<1> DEFINE h == [Top EXCEPT !.mos = @ \ {mo}]
<1>3. /\ h.op = "match" /\ h.self = Top.self /\ h.mos = Top.mos \ {mo}
      /\ h.alive = Top.alive
  BY <1>1 DEF MatchFrames
<1> HIDE DEF h
<1>4. PICK f : f = h
  OBVIOUS
<1>5. Range(stack') = {f}
  <2>1. <<>> \in Seq(SafeFrames) /\ Range(<<>>) = {}
    BY RangeOfNone
  <2>2. Range(<<f>> \o <<>>) = {f} \cup Range(<<>>)
    BY <2>1, RangeOfPush
  <2>3. stack' = <<f>> \o <<>>
    BY <1>1, <1>2, <1>4 DEF h
  <2> QED
    BY <2>1, <2>2, <2>3
<1>6. orders' = orders /\ worker' = worker /\ LimitOrdersOnly
  BY DEF Skip, env, LimitBook
<1>7. ASSUME NEW o \in Ids, NEW m \in Ids, Crossed(orders, o, m), Looking(o, m)
      PROVE  Looking(o, m)'
  <2>1. PICK c \in Top.mos : o = Top.self.id /\ c.id = m
    BY <1>1, <1>7 DEF Looking
  <2>2. c # mo
    BY <1>1, <1>2, <1>7, <2>1, CrossedPairTrades
  <2> QED
    BY <1>3, <1>4, <1>5, <2>1, <2>2 DEF Looking, InExecution
<1>8. \A g \in Range(stack') : InExecution(g) =>
        g.self.active /\ (g.op = "match" => g.alive \/ ~Placed(g.self.id)')
  BY <1>1, <1>3, <1>4, <1>5, <1>6 DEF LoopContinues
<1>9. \E g \in Range(stack') : InExecution(g)
  BY <1>3, <1>4, <1>5 DEF InExecution
<1>10. \A o, m \in Ids : Crossed(orders', o, m) =>
         Crossed(orders, o, m) /\ (Looking(o, m) => Looking(o, m)')
  BY <1>6, <1>7
<1> QED
  BY <1>1, <1>6, <1>8, <1>9, <1>10, CrossExecutes

LEMMA CrossSettle ==
  ASSUME LimitBook, IInv, IInv', FlatInv, FreshInv, CrossInv, Settle
  PROVE  CrossInv'
<1>1. /\ Range(stack) = {Top} /\ InExecution(Top) /\ Rest = <<>>
      /\ \A w \in Workers : worker[w] = Idle
      /\ Top.self.id \in Ids
  BY RunningExecution DEF Settle
<1> DEFINE again == [op |-> "match", self |-> Top.self, mos |-> Top.mos,
                     alive |-> Top.self.amount # 0]
<1>2. PICK f : /\ f = again /\ f.op = "match"
               /\ f.self = Top.self /\ f.mos = Top.mos
               /\ f.alive <=> Top.self.amount # 0
  <2>1. /\ again.op = "match" /\ again.self = Top.self /\ again.mos = Top.mos
        /\ again.alive <=> Top.self.amount # 0
    OBVIOUS
  <2> HIDE DEF again
  <2> QED
    BY <2>1
<1>3. stack' = <<f>> \o Rest /\ worker' = worker /\ LimitOrdersOnly
  BY <1>2 DEF Settle, env, LimitBook
<1>4. Range(stack') = {f}
  <2>1. <<>> \in Seq(SafeFrames) /\ Range(<<>>) = {}
    BY RangeOfNone
  <2>2. Range(<<f>> \o <<>>) = {f} \cup Range(<<>>)
    BY <2>1, RangeOfPush
  <2> QED
    BY <1>1, <1>3, <2>1, <2>2
<1>5. /\ orders \in [Ids -> Rows] /\ orders' \in [Ids -> Rows]
      /\ \A o \in Ids : orders'[o] = NoRow \/ orders'[o] = orders[o]
      /\ Top.self.amount = 0 => orders'[Top.self.id] = NoRow
  BY <1>1 DEF IInv, SafeTables, Settle
<1>6. ~NoRow.placed
  BY DEF NoRow
<1>7. ASSUME NEW o \in Ids, NEW m \in Ids, Crossed(orders', o, m)
      PROVE  Crossed(orders, o, m)
  <2>1. \A n \in Ids : orders'[n].placed =>
          /\ orders[n].placed /\ orders'[n].amount <= orders[n].amount
          /\ orders'[n].active => orders[n].active
    BY <1>5, <1>6 DEF Rows
  <2> QED
    BY <1>5, <1>7, <2>1, CrossesNoMore
<1>8. ASSUME NEW o, NEW m, Looking(o, m) PROVE Looking(o, m)'
  BY <1>1, <1>2, <1>4, <1>8 DEF Looking, InExecution
<1>9. \A g \in Range(stack') : InExecution(g) =>
        g.self.active /\ (g.op = "match" => g.alive \/ ~Placed(g.self.id)')
  BY <1>1, <1>2, <1>4, <1>5, <1>6 DEF CrossInv, Placed
<1>10. \E g \in Range(stack') : InExecution(g)
  BY <1>2, <1>4 DEF InExecution
<1> QED
  BY <1>1, <1>3, <1>7, <1>8, <1>9, <1>10, CrossExecutes

(* An execution ends when nothing crosses the order it executed.            *)
LEMMA CrossReturns ==
  ASSUME LimitBook, IInv, CoverInv, FlatInv, FreshInv,
         StandingOrdersFunded, CrossInv, ExecuteReturns
  PROVE  CrossInv'
<1>1. /\ Range(stack) = {Top} /\ InExecution(Top) /\ Rest = <<>>
      /\ \A w \in Workers : worker[w] = Idle
      /\ Running("match") /\ ~LoopContinues(Top)
      /\ Top.self.id \in Ids /\ Top.op = "match"
  BY RunningExecution DEF ExecuteReturns, Running, Top
<1>2. ASSUME NEW m \in Ids, Crossed(orders, Top.self.id, m), Top.mos # {}
      PROVE  FALSE
  <2> DEFINE o == Top.self.id
  <2>1. Top.self.active /\ Top.alive
    BY <1>1, <1>2 DEF CrossInv, Crossed, Placed
  <2>2. Funded(o, orders[o].amount)
    BY <1>1, <1>2, FundedInExecution DEF Crossed
  <2>3. orders[o].amount \in Int /\ WorthAlone(orders[o].amount, o, m)
    BY <1>1, <1>2 DEF Crossed, IInv, SafeTables, Rows
  <2>4. /\ bal[Owner(o)][Form[o].currency] \in Int
        /\ bal[Owner(o)][BTC] \in Int
        /\ Form[o].ppc \in Nat /\ PriceDen \in Nat \ {0} /\ Tick \in Nat \ {0}
    <3>1. o \in Ids /\ Form[o] \in Forms
      BY <1>1, EngineAssumption
    <3> HIDE DEF o
    <3>2. /\ Owner(o) \in Accounts /\ Form[o].currency \in Currencies
          /\ BTC \in Currencies /\ Form[o].ppc \in Nat
      BY <3>1 DEF Owner, Forms, Accounts, Currencies
    <3> QED
      BY <3>2, EngineAssumption DEF IInv, SafeTables, SafeBalances
  <2> HIDE DEF o
  <2>5. orders[o].amount * Form[o].ppc > 0
    <3>1. Tick * PriceDen > 0 /\ Tick * PriceDen \in Int
      BY <2>4
    <3>2. orders[o].amount * Form[o].ppc \in Int
      BY <2>3, <2>4
    <3> QED
      BY <2>3, <3>1, <3>2 DEF WorthAlone
  <2>6. orders[o].amount > 0
    BY <2>3, <2>4, <2>5
  <2>7. bal[Owner(o)][SpentCurrency(o)] > 0
    <3>1. CASE Buying(o)
      <4>1. bal[Owner(o)][Form[o].currency] * PriceDen > 0
        <5>1. /\ orders[o].amount * Form[o].ppc \in Int
              /\ bal[Owner(o)][Form[o].currency] * PriceDen \in Int
          BY <2>3, <2>4
        <5> QED
          BY <2>2, <2>5, <3>1, <5>1 DEF Funded
      <4>2. bal[Owner(o)][Form[o].currency] > 0
        BY <2>4, <4>1
      <4> QED
        BY <3>1, <4>2 DEF SpentCurrency
    <3>2. CASE ~Buying(o)
      BY <2>2, <2>3, <2>4, <2>6, <3>2 DEF Funded, SpentCurrency
    <3> QED
      BY <3>1, <3>2
  <2>8. LoopContinues(Top)
    BY <1>2, <2>1, <2>7 DEF LoopContinues, UserHasBalance, o
  <2> QED
    BY <1>1, <2>8
<1>3. ASSUME NEW o \in Ids, NEW m \in Ids, Crossed(orders, o, m) PROVE FALSE
  <2>1. ~Awaited(o, m)
    BY <1>1 DEF Awaited, AwaitsExecution
  <2>2. Looking(o, m) \/ Looking(m, o)
    BY <1>3, <2>1 DEF CrossInv
  <2>3. Crossed(orders, m, o)
    BY <1>3, CrossedEitherWay DEF LimitBook
  <2> QED
    BY <1>1, <1>2, <1>3, <2>2, <2>3 DEF Looking
<1>4. /\ stack' = <<>> /\ orders' = orders /\ worker' = worker
      /\ committed'.orders = orders'
  BY <1>1 DEF ExecuteReturns, Persist, Tables, env
<1>5. Range(stack') = {}
  BY <1>4, RangeOfNone
<1>6. \A w \in Workers : worker'[w].stage = "execute" => worker'[w].self.active
  BY <1>4 DEF CrossInv
<1> QED
  BY <1>3, <1>4, <1>5, <1>6 DEF CrossInv, Crossed

LEMMA CrossStep ==
  ASSUME LimitBook, IInv, IInv', GridInv, CoverInv, FlatInv, FreshInv,
         StandingOrdersFunded, CrossInv, Step
  PROVE  CrossInv'
<1>1. CASE Skip
  BY <1>1, CrossSkip
<1>2. CASE RecordTrade
  BY <1>2, CrossTrade
<1>3. CASE OrderMissing
  BY <1>3, NoOrderMissing
<1>4. CASE Settle
  BY <1>4, CrossSettle
<1>5. CASE ExecuteReturns
  BY <1>5, CrossReturns
<1>6. CASE Post \/ Refuse \/ SaveRefused \/ Insert \/ Drop \/ PostReturns
             \/ RefreshLimitOrder \/ RefreshMarketOrder \/ RefreshReturns
  BY <1>6, PassingSteps, CrossPasses, CrossRollsBack DEF NoExecution
<1> QED
  BY <1>1, <1>2, <1>3, <1>4, <1>5, <1>6 DEF Step

(* Between two transactions.                                                *)
LEMMA CrossRests ==
  ASSUME stack' = <<>>, committed'.orders = orders',
         \A o, m \in Ids : Crossed(orders', o, m) => Awaited(o, m)',
         \A w \in Workers : worker'[w].stage = "execute" =>
           worker'[w].self.active
  PROVE  CrossInv'
<1>1. Range(stack') = {}
  BY RangeOfNone
<1> QED
  BY <1>1 DEF CrossInv, Crossed

(* The one process has saved the order n, and now has to execute it.         *)
LEMMA CrossRequested ==
  ASSUME CrossInv, stack = <<>>, NEW w \in Workers, NEW n \in Ids,
         \A v \in Workers : worker[v] # Idle => worker[v].self.id = n,
         worker'[w] # Idle, worker'[w].self.id = n,
         \A o \in Ids : o # n => orders'[o] = orders[o],
         NEW o \in Ids, NEW m \in Ids, Crossed(orders', o, m)
  PROVE  Awaited(o, m)'
<1>1. CASE n \in {o, m}
  BY <1>1 DEF Awaited, AwaitsExecution
<1>2. CASE n \notin {o, m}
  <2>1. Crossed(orders, o, m)
    BY <1>2 DEF Crossed
  <2>2. ~Looking(o, m) /\ ~Looking(m, o)
    BY RangeOfNone DEF Looking
  <2>3. Awaited(o, m)
    BY <2>1, <2>2 DEF CrossInv
  <2> QED
    BY <1>2, <2>3 DEF Awaited, AwaitsExecution
<1> QED
  BY <1>1, <1>2

LEMMA CrossBegins ==
  ASSUME LimitBook, OneProcess, IInv, FreshInv, CrossInv,
         NEW w \in Workers, BeginExecute(w)
  PROVE  CrossInv'
<1>1. /\ worker[w] # Idle /\ worker[w].stage = "execute"
      /\ stack = <<>> /\ orders' = orders
      /\ \A v \in Workers : v = w /\ worker'[v] = Idle
  BY DEF BeginExecute, Idle, AtRest, OneProcess, IInv
<1>2. PICK c : c = worker[w].self /\ c \in Copies /\ c.id \in Ids
  BY <1>1, WorkerOrder
<1> DEFINE exec == Execution(c)
<1>3. /\ exec.op = "match" /\ exec.self = c /\ exec.alive
      /\ exec.mos = MatchingOrders(c.id)
  BY DEF Execution
<1> HIDE DEF exec
<1>4. PICK f : f = exec
  OBVIOUS
<1>5. Range(stack') = {f}
  <2>1. <<>> \in Seq(SafeFrames) /\ Range(<<>>) = {}
    BY RangeOfNone
  <2>2. Range(<<f>> \o <<>>) = {f} \cup Range(<<>>)
    BY <2>1, RangeOfPush
  <2>3. stack' = <<f>> \o <<>>
    BY <1>2, <1>4 DEF exec, BeginExecute
  <2> QED
    BY <2>1, <2>2, <2>3
<1>6. ASSUME NEW m \in Ids, Crossed(orders, c.id, m) PROVE Looking(c.id, m)'
  <2>1. Copy(m) \in MatchingOrders(c.id)
    BY <1>6 DEF MatchingOrders, Crossed, Placed
  <2>2. Copy(m).id = m
    BY DEF Copy
  <2> QED
    BY <1>3, <1>4, <1>5, <2>1, <2>2 DEF Looking, InExecution
<1>7. ASSUME NEW o \in Ids, NEW m \in Ids, Crossed(orders, o, m)
      PROVE  Looking(o, m)' \/ Looking(m, o)'
  <2>1. ~Looking(o, m) /\ ~Looking(m, o)
    BY <1>1, RangeOfNone DEF Looking
  <2>2. Awaited(o, m)
    BY <1>7, <2>1 DEF CrossInv
  <2>3. o = c.id \/ m = c.id
    BY <1>1, <1>2, <2>2 DEF Awaited, AwaitsExecution
  <2>4. Crossed(orders, m, o)
    BY <1>7, CrossedEitherWay DEF LimitBook
  <2> QED
    BY <1>6, <1>7, <2>3, <2>4
<1>8. ~NoExecution'
  BY <1>3, <1>4, <1>5 DEF NoExecution, InExecution
<1>9. c.active
  BY <1>1, <1>2 DEF CrossInv
<1>10. \A v \in Workers : worker'[v].stage # "execute"
  BY <1>1 DEF Idle
<1>11. \A g \in Range(stack') : g.self.active /\ g.alive
  BY <1>3, <1>4, <1>5, <1>9
<1>12. \A o, m \in Ids : Crossed(orders, o, m)' =>
         Looking(o, m)' \/ Looking(m, o)'
  BY <1>1, <1>7 DEF Crossed
<1> QED
  BY <1>8, <1>10, <1>11, <1>12 DEF CrossInv

LEMMA CrossRequest ==
  ASSUME LimitBook, OneProcess, IInv, IInv', FreshInv, CrossInv, Request
  PROVE  CrossInv'
<1>0. /\ stack = <<>> /\ orders = committed.orders
      /\ orders \in [Ids -> Rows] /\ orders' \in [Ids -> Rows]
      /\ worker \in [Workers -> Requests \cup {Idle}]
  BY DEF Request, Create, ActivateCheck, ActivateSave, Destroy, BeginExecute,
     BeginMove, Confirm, FreshInv, AtRest, IInv, SafeTables
<1>1. ASSUME NEW w \in Workers, NEW n \in Ids, Create(w, n) PROVE CrossInv'
  <2> DEFINE copy == [id |-> n, amount |-> Form[n].amount, active |-> TRUE]
             req == [stage |-> "execute", self |-> copy]
  <2>1. copy.id = n /\ copy.active /\ req.stage = "execute" /\ req.self = copy
        /\ req # Idle
    BY DEF Idle
  <2>2. /\ \A v \in Workers : v = w /\ worker[v] = Idle
        /\ worker' = [worker EXCEPT ![w] = req]
        /\ stack' = <<>> /\ committed'.orders = orders'
        /\ \A o \in Ids : o # n => orders'[o] = orders[o]
    BY <1>0, <1>1 DEF Create, OneProcess, Persist, Tables
  <2> HIDE DEF copy, req
  <2>3. \A v \in Workers : worker'[v] = req
    BY <1>0, <2>2
  <2>4. \A o, m \in Ids : Crossed(orders', o, m) => Awaited(o, m)'
    BY <1>0, <2>1, <2>2, <2>3, CrossRequested
  <2> QED
    BY <2>1, <2>2, <2>3, <2>4, CrossRests
<1>2. ASSUME NEW w \in Workers, NEW n \in Ids, ActivateCheck(w, n)
      PROVE  CrossInv'
  <2> DEFINE req == [stage |-> "activate", self |-> Copy(n)]
  <2>1. Copy(n).id = n /\ req.stage = "activate" /\ req.self = Copy(n)
        /\ req # Idle
    BY DEF Copy, Idle
  <2>2. /\ \A v \in Workers : v = w /\ worker[v] = Idle
        /\ worker' = [worker EXCEPT ![w] = req]
        /\ stack' = <<>> /\ committed'.orders = orders' /\ orders' = orders
    BY <1>0, <1>2 DEF ActivateCheck, OneProcess
  <2> HIDE DEF req
  <2>3. \A v \in Workers : worker'[v] = req
    BY <1>0, <2>2
  <2>4. \A o, m \in Ids : Crossed(orders', o, m) => Awaited(o, m)'
    BY <1>0, <2>1, <2>2, <2>3, CrossRequested
  <2> QED
    BY <2>1, <2>2, <2>3, <2>4, CrossRests
<1>3. ASSUME NEW w \in Workers, ActivateSave(w) PROVE CrossInv'
  <2> DEFINE copy == [worker[w].self EXCEPT !.active = TRUE]
             req == [stage |-> "execute", self |-> copy]
  <2>1. worker[w] # Idle
    BY <1>3 DEF ActivateSave, Idle
  <2>2. PICK n : n = worker[w].self.id /\ n \in Ids /\ worker[w].self \in Copies
    BY <2>1, WorkerOrder
  <2>3. copy.id = n /\ copy.active /\ req.stage = "execute" /\ req.self = copy
        /\ req # Idle
    BY <2>2 DEF Copies, Idle
  <2>4. /\ \A v \in Workers : v = w
        /\ worker' = [worker EXCEPT ![w] = req]
        /\ stack' = <<>> /\ committed'.orders = orders'
        /\ \A o \in Ids : o # n => orders'[o] = orders[o]
    BY <1>0, <1>3, <2>2 DEF ActivateSave, OneProcess, Persist, Tables
  <2> HIDE DEF copy, req
  <2>5. \A v \in Workers : worker'[v] = req /\ worker[v].self.id = n
    BY <1>0, <2>2, <2>4
  <2>6. \A o, m \in Ids : Crossed(orders', o, m) => Awaited(o, m)'
    BY <1>0, <2>2, <2>3, <2>4, <2>5, CrossRequested
  <2> QED
    BY <2>3, <2>4, <2>5, <2>6, CrossRests
<1>4. ASSUME NEW w \in Workers, NEW n \in Ids, Destroy(w, n) PROVE CrossInv'
  <2>1. /\ \A v \in Workers : v = w /\ worker[v] = Idle
        /\ worker' = worker /\ stack' = <<>> /\ committed'.orders = orders'
        /\ \A o \in Ids : orders'[o] = NoRow \/ orders'[o] = orders[o]
    BY <1>0, <1>4 DEF Destroy, OneProcess, Persist, Tables, env
  <2>2. ASSUME NEW o \in Ids, NEW m \in Ids, Crossed(orders', o, m)
        PROVE  Awaited(o, m)'
    <3>1. Crossed(orders, o, m)
      BY <2>1, <2>2 DEF Crossed, NoRow
    <3>2. ~Looking(o, m) /\ ~Looking(m, o)
      BY <1>0, RangeOfNone DEF Looking
    <3> QED
      BY <2>1, <3>1, <3>2, AwaitedStill DEF CrossInv
  <2> QED
    BY <2>1, <2>2, CrossRests DEF CrossInv
<1>5. ASSUME NEW w \in Workers, BeginExecute(w) PROVE CrossInv'
  BY <1>5, CrossBegins
<1>6. ASSUME NEW m \in Moves, BeginMove(m) PROVE CrossInv'
  BY <1>6, MovePasses, CrossPasses
<1>7. ASSUME NEW m \in Received, Confirm(m) PROVE CrossInv'
  <2>1. Passing
    BY <1>7 DEF Confirm, env, Passing
  <2> QED
    BY <2>1, CrossPasses
<1> QED
  BY <1>1, <1>2, <1>3, <1>4, <1>5, <1>6, <1>7 DEF Request

LEMMA CrossNext ==
  ASSUME LimitBook, OneProcess, IInv, IInv', GridInv, CoverInv, FlatInv,
         FreshInv, StandingOrdersFunded, crashes = 0 => CrossInv, [Next]_vars
  PROVE  (crashes = 0 => CrossInv)'
<1>1. CASE Step
  <2>1. crashes' = crashes
    BY <1>1
    DEF Step, Skip, RecordTrade, OrderMissing, Settle, ExecuteReturns, Post,
        Refuse, SaveRefused, Insert, Drop, PostReturns, RefreshLimitOrder,
        RefreshMarketOrder, RefreshReturns, env
  <2> QED
    BY <1>1, <2>1, CrossStep
<1>2. CASE Request
  <2>1. crashes' = crashes
    BY <1>2
    DEF Request, Create, ActivateCheck, ActivateSave, Destroy, BeginExecute,
        BeginMove, Confirm, env
  <2> QED
    BY <1>2, <2>1, CrossRequest
<1>3. CASE Failure
  <2>1. crashes' = crashes + 1 /\ crashes \in Nat
    BY <1>3, EngineAssumption DEF Failure, Crash, Abandon, IInv
  <2> QED
    BY <2>1
<1>4. CASE UNCHANGED vars
  <2>1. UNCHANGED <<stack, orders, committed, worker, crashes>>
    BY <1>4 DEF vars
  <2> QED
    BY <2>1
    DEF CrossInv, Crossed, Awaited, AwaitsExecution, Looking, NoExecution,
        Placed
<1> QED
  BY <1>1, <1>2, <1>3, <1>4 DEF Next

(* Two standing orders that could trade cross.                              *)
LEMMA UncrossedAtRest ==
  ASSUME LimitBook, IInv, GridInv, CoverInv, CrossInv
  PROVE  BookUncrossed
<1> SUFFICES ASSUME AtRest, NEW o \in Ids, NEW m \in Ids,
                    Standing(o), Standing(m), Matches(o, m), CanTrade(o, m)
             PROVE  AwaitsExecution(o) \/ AwaitsExecution(m)
  BY DEF BookUncrossed
<1>1. orders = committed.orders /\ NoExecution
  BY RangeOfNone DEF CoverInv, NoExecution, AtRest
<1>2. /\ LimitOrdersOnly /\ bal \in [Accounts -> [Currencies -> Int]]
      /\ orders \in [Ids -> Rows] /\ WholeTable(orders)
  BY DEF LimitBook, IInv, SafeTables, SafeBalances, GridInv
<1>3. Crossed(orders, o, m)
  BY <1>1, <1>2, CanTradeCrosses DEF Standing
<1> QED
  BY <1>1, <1>3 DEF CrossInv, Awaited

(* In a book of limit orders and with one process, as long as no process     *)
(* dies, the book is never left crossed: of two standing orders that match   *)
(* and of which the balances would pay a trade, one is still to be executed. *)
(* Every order that was saved or activated meets all it matches, whatever    *)
(* trades, withdrawals and refused operations come in between               *)
(* (TradeOrdersController#create, TradeOrder#activate!,                     *)
(* TradeOrder#execute!).                                                    *)
THEOREM BookNeverCrossed ==
  LimitBook /\ OneProcess => (Spec => [](crashes = 0 => BookUncrossed))
<1> SUFFICES ASSUME LimitBook, OneProcess
             PROVE  Spec => [](crashes = 0 => BookUncrossed)
  OBVIOUS
<1> DEFINE Inv == crashes = 0 => CrossInv
<1>1. Init => Inv
  <2> SUFFICES ASSUME Init PROVE CrossInv
    OBVIOUS
  <2>1. /\ \A o \in Ids : ~orders[o].placed /\ ~committed.orders[o].placed
        /\ Range(stack) = {}
        /\ \A w \in Workers : worker[w].stage # "execute"
    BY RangeOfNone DEF Init, Tables, NoRow, Idle
  <2> QED
    BY <2>1 DEF CrossInv, Crossed
<1>2. IInv /\ IInv' /\ GridInv /\ CoverInv /\ FlatInv /\ FreshInv
        /\ StandingOrdersFunded /\ Inv /\ [Next]_vars => Inv'
  BY CrossNext
<1>3. IInv /\ GridInv /\ CoverInv /\ Inv => (crashes = 0 => BookUncrossed)
  BY UncrossedAtRest
<1>4. (Spec => []GridInv) /\ (Spec => []CoverInv)
  BY GridInvariant, CoverInvariant DEF LimitBook
<1> HIDE DEF Inv
<1> QED
  BY <1>1, <1>2, <1>3, <1>4, Invariance, FlatInvariant, FreshInvariant,
     OrdersStayFunded, PTL DEF Spec
=============================================================================
