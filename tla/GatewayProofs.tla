--------------------------- MODULE GatewayProofs ---------------------------
(***************************************************************************)
(* Theorems about what an agent reaches through the gateway, for any       *)
(* calls, budgets, prices, people, addresses and sign-ins: GatewayBudget,  *)
(* and McpAccess as MCGateway has it.                                      *)
(*                                                                         *)
(* A call's row is in the ledger when nobody holds its entry any more, and *)
(* a budget is overrun by no more than the calls cost that were admitted   *)
(* beside one another.                                                     *)
(* For the tools' connections everything rests on two facts: a sign-in is  *)
(* traded once, before anything uses it, and whoever holds the lock of a   *)
(* level is the only one to spend refresh tokens of its connection.        *)
(***************************************************************************)
EXTENDS MCGateway, TLAPS, FiniteSetTheorems, WellFoundedInduction

(* Of some naturals there is a least one.                                  *)
LEMMA LeastOf ==
  ASSUME NEW s \in SUBSET Nat, s # {}
  PROVE  \E x \in s : \A y \in s : x <= y
<1> DEFINE Lower == OpToRel(<, Nat)
<1>1. IsWellFoundedOn(Lower, Nat)
  BY NatLessThanWellFounded
<1>2. PICK x \in s : \A y \in s : ~(<<y, x>> \in Lower)
  <2> HIDE DEF Lower
  <2>1. QED
    BY <1>1, WFMin
<1>3. \A y \in s : ~(y < x)
  BY <1>2 DEF OpToRel
<1>4. QED
  BY <1>3

(* Max: finitely many naturals have a greatest.  Else there would be a     *)
(* least number of them that have none.                                    *)
LEMMA MaxIsGreatest ==
  ASSUME NEW s \in SUBSET Nat, IsFiniteSet(s), s # {}
  PROVE  Max(s) \in s /\ \A x \in s : x <= Max(s)
<1> DEFINE Greatest(t) == \E x \in t : \A y \in t : x >= y
           Odd == {t \in SUBSET s : t # {} /\ ~Greatest(t)}
           Sizes == {Cardinality(t) : t \in Odd}
<1>1. \A t \in SUBSET s : IsFiniteSet(t) /\ Cardinality(t) \in Nat
  BY FS_Subset, FS_CardinalityType
<1>2. Odd = {}
  <2> SUFFICES ASSUME Odd # {} PROVE FALSE
    OBVIOUS
  <2>1. Sizes \in SUBSET Nat /\ Sizes # {}
    BY <1>1
  <2>2. PICK n \in Sizes : \A m \in Sizes : n <= m
    <3> HIDE DEF Sizes
    <3>1. QED
      BY <2>1, LeastOf
  <2>3. PICK t \in Odd : n = Cardinality(t)
    BY <2>2
  <2>4. PICK x \in t : TRUE
    BY <2>3
  <2> DEFINE rest == t \ {x}
  <2>5. Cardinality(rest) = Cardinality(t) - 1 /\ Cardinality(t) \in Nat
    BY <1>1, <2>3, <2>4, FS_RemoveElement
  <2>6. CASE rest = {}
    <3>1. \A y \in t : y = x
      BY <2>6
    <3>2. QED
      BY <2>3, <2>4, <3>1
  <2>7. CASE rest # {} /\ Greatest(rest)
    <3>1. PICK y \in rest : \A z \in rest : y >= z
      BY <2>7
    <3>2. x \in Nat /\ y \in Nat /\ \A z \in t : z \in Nat
      BY <2>3, <2>4, <3>1
    <3>3. CASE x >= y
      BY <2>3, <2>4, <3>1, <3>2, <3>3
    <3>4. CASE ~(x >= y)
      BY <2>3, <2>4, <3>1, <3>2, <3>4
    <3>5. QED
      BY <3>3, <3>4
  <2>8. CASE rest # {} /\ ~Greatest(rest)
    <3>1. rest \in Odd
      BY <2>3, <2>8
    <3>2. Cardinality(rest) \in Sizes
      BY <3>1
    <3>3. n <= Cardinality(rest)
      <4> HIDE DEF Sizes, rest
      <4>1. QED
        BY <2>2, <3>2
    <3>4. QED
      <4> HIDE DEF rest
      <4>1. QED
        BY <2>3, <2>5, <3>3
  <2>9. QED
    BY <2>6, <2>7, <2>8
<1>3. Greatest(s)
  BY <1>2
<1>4. QED
  BY <1>3 DEF Max

-----------------------------------------------------------------------------
(* Sums over finite sets, an element less at a time.                       *)

(* Of some sets of finitely many elements there is one without a smaller.  *)
LEMMA LeastSet ==
  ASSUME NEW S, IsFiniteSet(S), NEW T \in SUBSET SUBSET S, T # {}
  PROVE  \E X \in T : \A Y \in T : Y \subseteq X => Y = X
<1> DEFINE sizes == {Cardinality(X) : X \in T}
<1>1. \A X \in T : IsFiniteSet(X) /\ Cardinality(X) \in Nat
  BY FS_Subset, FS_CardinalityType
<1>2. sizes \in SUBSET Nat /\ sizes # {}
  BY <1>1
<1>3. PICK n \in sizes : \A m \in sizes : n <= m
  <2> HIDE DEF sizes
  <2> QED BY <1>2, LeastOf
<1>4. PICK X \in T : n = Cardinality(X)
  BY <1>3
<1>5. ASSUME NEW Y \in T, Y \subseteq X, Y # X PROVE FALSE
  <2>1. Cardinality(Y) \in sizes /\ Cardinality(Y) \in Nat /\ Cardinality(X) \in Nat
    BY <1>1
  <2>2. Cardinality(Y) < Cardinality(X)
    BY <1>1, <1>5, <2>1, FS_Subset
  <2>3. Cardinality(X) <= Cardinality(Y)
    <3> HIDE DEF sizes
    <3> QED BY <1>3, <1>4, <2>1
  <2> QED BY <2>1, <2>2, <2>3
<1> QED BY <1>5

(* MapThenSumSet of a function's values, and the function it goes by: an   *)
(* element at a time is picked and added.                                  *)
SumOf(f, S) == MapThenSumSet(LAMBDA c : f[c], S)
Pick(s) == CHOOSE x \in s : TRUE
Adds(f, S, g) ==
    g = [s \in SUBSET S |-> IF s = {} THEN 0 ELSE f[Pick(s)] + g[s \ {Pick(s)}]]

LEMMA SumUnfolds == \A f, S : SumOf(f, S) = (CHOOSE g : Adds(f, S, g))[S]
BY Zenon DEF SumOf, MapThenSumSet, MapThenFoldSet, Adds, Pick

LEMMA AddsAt ==
  ASSUME NEW f, NEW S, NEW g, Adds(f, S, g), NEW s \in SUBSET S
  PROVE  /\ s = {} => g[s] = 0
         /\ s # {} => /\ Pick(s) \in s /\ s \ {Pick(s)} \in SUBSET S
                      /\ g[s] = f[Pick(s)] + g[s \ {Pick(s)}]
<1>1. s # {} => Pick(s) \in s BY DEF Pick
<1>2. g[s] = IF s = {} THEN 0 ELSE f[Pick(s)] + g[s \ {Pick(s)}] BY DEF Adds
<1> QED BY <1>1, <1>2

LEMMA AddsAgree ==
  ASSUME NEW f, NEW A, NEW B, NEW g, NEW h, Adds(f, A, g), Adds(f, B, h),
         NEW s \in SUBSET A, s \in SUBSET B, IsFiniteSet(s)
  PROVE  g[s] = h[s]
<1> DEFINE T == {t \in SUBSET s : g[t] # h[t]}
<1> SUFFICES ASSUME T # {} PROVE FALSE OBVIOUS
<1>1. T \in SUBSET SUBSET s OBVIOUS
<1>2. PICK X \in T : \A Y \in T : Y \subseteq X => Y = X
  <2> HIDE DEF T
  <2> QED BY <1>1, LeastSet
<1>3. X \in SUBSET s /\ X \in SUBSET A /\ X \in SUBSET B /\ g[X] # h[X] BY <1>2
<1>4. X # {} BY <1>3, AddsAt
<1>5. Pick(X) \in X /\ g[X] = f[Pick(X)] + g[X \ {Pick(X)}] BY <1>3, <1>4, AddsAt
<1>6. h[X] = f[Pick(X)] + h[X \ {Pick(X)}] BY <1>3, <1>4, AddsAt
<1>7. X \ {Pick(X)} \notin T BY <1>2, <1>5
<1>8. g[X \ {Pick(X)}] = h[X \ {Pick(X)}] BY <1>3, <1>7
<1> QED BY <1>3, <1>5, <1>6, <1>8

LEMMA AddsExists ==
  ASSUME NEW f, NEW S, IsFiniteSet(S)
  PROVE  \E g : Adds(f, S, g)
<1> DEFINE T == {X \in SUBSET S : ~\E g : Adds(f, X, g)}
<1> SUFFICES ASSUME T # {} PROVE FALSE OBVIOUS
<1>1. T \in SUBSET SUBSET S OBVIOUS
<1>2. PICK X \in T : \A Y \in T : Y \subseteq X => Y = X
  <2> HIDE DEF T
  <2> QED BY <1>1, LeastSet
<1>3. X \in SUBSET S /\ ~\E g : Adds(f, X, g) BY <1>2
<1> DEFINE G(s) == CHOOSE g : Adds(f, s, g)
<1>4. ASSUME NEW s \in SUBSET X, s # X PROVE Adds(f, s, G(s)) /\ IsFiniteSet(s)
  <2>1. s \notin T BY <1>2, <1>4
  <2>2. \E g : Adds(f, s, g) BY <1>3, <2>1
  <2>3. IsFiniteSet(s) BY <1>3, FS_Subset
  <2> QED BY <2>2, <2>3
<1> DEFINE all == IF X = {} THEN 0 ELSE f[Pick(X)] + G(X \ {Pick(X)})[X \ {Pick(X)}]
           g == [s \in SUBSET X |-> IF s = X THEN all ELSE G(s)[s]]
<1>5. ASSUME NEW s \in SUBSET X
      PROVE  g[s] = IF s = {} THEN 0 ELSE f[Pick(s)] + g[s \ {Pick(s)}]
  <2>1. s # {} => Pick(s) \in s BY DEF Pick
  <2> DEFINE rest == s \ {Pick(s)}
  <2>2. s # {} => rest \in SUBSET X /\ rest # X BY <2>1
  <2>3. s # {} => g[rest] = G(rest)[rest] BY <2>2
  <2>4. CASE s = X BY <2>3, <2>4
  <2>5. CASE s # X
    <3>1. g[s] = G(s)[s] BY <2>5
    <3>2. Adds(f, s, G(s)) BY <1>4, <2>5
    <3> HIDE DEF G, g
    <3>3. s \in SUBSET s OBVIOUS
    <3>4. CASE s = {}
      <4>1. G(s)[s] = 0 BY <3>2, <3>3, <3>4, AddsAt
      <4> QED BY <3>1, <3>4, <4>1
    <3>5. CASE s # {}
      <4>1. G(s)[s] = f[Pick(s)] + G(s)[rest] BY <3>2, <3>3, <3>5, AddsAt
      <4>2. Adds(f, rest, G(rest)) /\ IsFiniteSet(rest) BY <1>4, <2>2, <3>5
      <4>3. rest \in SUBSET s /\ rest \in SUBSET rest OBVIOUS
      <4> HIDE DEF rest
      <4>4. G(s)[rest] = G(rest)[rest] BY <3>2, <4>2, <4>3, AddsAgree
      <4>5. g[rest] = G(rest)[rest] BY <2>3, <3>5
      <4>6. f[Pick(s)] + g[rest] = f[Pick(s)] + G(s)[rest] BY <4>4, <4>5
      <4> QED BY <3>1, <3>5, <4>1, <4>6 DEF rest
    <3> QED BY <3>4, <3>5
  <2> QED BY <2>4, <2>5
<1>6. Adds(f, X, g)
  <2>1. g = [s \in SUBSET X |-> g[s]] OBVIOUS
  <2> HIDE DEF g
  <2> QED BY <1>5, <2>1 DEF Adds
<1> QED BY <1>3, <1>6

LEMMA SumIsAdded ==
  ASSUME NEW f, NEW S, IsFiniteSet(S), NEW g, Adds(f, S, g), NEW s \in SUBSET S
  PROVE  SumOf(f, s) = g[s]
<1> DEFINE h == CHOOSE k : Adds(f, s, k)
<1>1. IsFiniteSet(s) BY FS_Subset
<1>2. Adds(f, s, h) BY <1>1, AddsExists
<1>3. SumOf(f, s) = h[s] BY SumUnfolds
<1> HIDE DEF h
<1> QED BY <1>1, <1>2, <1>3, AddsAgree

LEMMA SumEmpty == \A f : SumOf(f, {}) = 0
<1> SUFFICES ASSUME NEW f PROVE SumOf(f, {}) = 0 OBVIOUS
<1>1. IsFiniteSet({}) BY FS_EmptySet
<1>2. PICK g : Adds(f, {}, g) BY <1>1, AddsExists
<1>3. {} \in SUBSET {} OBVIOUS
<1>4. g[{}] = 0 BY <1>2, <1>3, AddsAt
<1>5. SumOf(f, {}) = g[{}] BY <1>1, <1>2, <1>3, SumIsAdded
<1> QED BY <1>4, <1>5

LEMMA SumPicks ==
  ASSUME NEW f, NEW S, IsFiniteSet(S), S # {}
  PROVE  Pick(S) \in S /\ SumOf(f, S) = f[Pick(S)] + SumOf(f, S \ {Pick(S)})
<1>1. PICK g : Adds(f, S, g) BY AddsExists
<1>2. /\ Pick(S) \in S /\ S \ {Pick(S)} \in SUBSET S
      /\ g[S] = f[Pick(S)] + g[S \ {Pick(S)}]
  BY <1>1, AddsAt
<1>3. SumOf(f, S) = g[S] /\ SumOf(f, S \ {Pick(S)}) = g[S \ {Pick(S)}]
  BY <1>1, <1>2, SumIsAdded
<1> QED BY <1>2, <1>3

(* Sums of naturals are naturals, whichever element is taken out first.    *)
LEMMA SumNat ==
  ASSUME NEW f, NEW S, IsFiniteSet(S), \A x \in S : f[x] \in Nat
  PROVE  SumOf(f, S) \in Nat
<1> DEFINE T == {X \in SUBSET S : SumOf(f, X) \notin Nat}
<1> SUFFICES ASSUME T # {} PROVE FALSE OBVIOUS
<1>1. T \in SUBSET SUBSET S OBVIOUS
<1>2. PICK X \in T : \A Y \in T : Y \subseteq X => Y = X
  <2> HIDE DEF T
  <2> QED BY <1>1, LeastSet
<1>3. X \in SUBSET S /\ SumOf(f, X) \notin Nat /\ IsFiniteSet(X) BY <1>2, FS_Subset
<1>4. X # {} BY <1>3, SumEmpty
<1>5. Pick(X) \in X /\ SumOf(f, X) = f[Pick(X)] + SumOf(f, X \ {Pick(X)})
  BY <1>3, <1>4, SumPicks
<1>6. SumOf(f, X \ {Pick(X)}) \in Nat BY <1>2, <1>3, <1>5
<1>7. f[Pick(X)] \in Nat BY <1>3, <1>5
<1> QED BY <1>3, <1>5, <1>6, <1>7

LEMMA SumTakes ==
  ASSUME NEW f, NEW S, IsFiniteSet(S), \A x \in S : f[x] \in Nat, NEW e \in S
  PROVE  SumOf(f, S) = f[e] + SumOf(f, S \ {e})
<1> DEFINE Taken(X) == \A x \in X : SumOf(f, X) = f[x] + SumOf(f, X \ {x})
           T == {X \in SUBSET S : ~Taken(X)}
<1> SUFFICES ASSUME T # {} PROVE FALSE OBVIOUS
<1>1. T \in SUBSET SUBSET S OBVIOUS
<1>2. PICK X \in T : \A Y \in T : Y \subseteq X => Y = X
  <2> HIDE DEF T
  <2> QED BY <1>1, LeastSet
<1>3. X \in SUBSET S /\ ~Taken(X) /\ IsFiniteSet(X) BY <1>2, FS_Subset
<1>4. PICK x \in X : SumOf(f, X) # f[x] + SumOf(f, X \ {x}) BY <1>3
<1>5. PICK y : y = Pick(X) OBVIOUS
<1>6. y \in X /\ SumOf(f, X) = f[y] + SumOf(f, X \ {y}) BY <1>3, <1>4, <1>5, SumPicks
<1>7. x # y BY <1>4, <1>6
<1>8. Taken(X \ {y}) /\ Taken(X \ {x})
  <2>1. X \ {y} \in SUBSET S /\ X \ {y} # X /\ X \ {x} \in SUBSET S /\ X \ {x} # X
    BY <1>3, <1>4, <1>6
  <2>2. X \ {y} \notin T /\ X \ {x} \notin T
    <3> HIDE DEF T
    <3> QED BY <1>2, <2>1
  <2> HIDE DEF Taken
  <2> QED BY <2>1, <2>2
<1>9. /\ SumOf(f, X \ {y}) = f[x] + SumOf(f, (X \ {y}) \ {x})
      /\ SumOf(f, X \ {x}) = f[y] + SumOf(f, (X \ {x}) \ {y})
  BY <1>4, <1>6, <1>7, <1>8
<1>10. (X \ {y}) \ {x} = (X \ {x}) \ {y} OBVIOUS
<1>11. PICK n : n = SumOf(f, (X \ {x}) \ {y}) OBVIOUS
<1>12. n \in Nat /\ f[x] \in Nat /\ f[y] \in Nat
  <2>1. IsFiniteSet((X \ {x}) \ {y}) BY <1>3, FS_Subset
  <2> QED BY <1>3, <1>4, <1>6, <1>11, <2>1, SumNat
<1>13. SumOf(f, X) = f[y] + (f[x] + n) /\ SumOf(f, X \ {x}) = f[y] + n
  BY <1>6, <1>9, <1>10, <1>11
<1>14. f[y] + (f[x] + n) = f[x] + (f[y] + n) BY <1>12
<1> QED BY <1>4, <1>13, <1>14

(* More summands make no less, and each at most m more.                    *)
LEMMA SumGrows ==
  ASSUME NEW f, NEW S, IsFiniteSet(S), NEW m \in Nat,
         \A x \in S : f[x] \in Nat /\ f[x] <= m, NEW A \in SUBSET S
  PROVE  /\ SumOf(f, A) <= SumOf(f, S)
         /\ SumOf(f, S) <= SumOf(f, A) + m * Cardinality(S \ A)
<1> DEFINE Grown(B) == /\ SumOf(f, A) <= SumOf(f, B)
                       /\ SumOf(f, B) <= SumOf(f, A) + m * Cardinality(B \ A)
           T == {B \in SUBSET S : A \subseteq B /\ ~Grown(B)}
<1> SUFFICES ASSUME T # {} PROVE FALSE OBVIOUS
<1>1. T \in SUBSET SUBSET S OBVIOUS
<1>2. PICK B \in T : \A C \in T : C \subseteq B => C = B
  <2> HIDE DEF T
  <2> QED BY <1>1, LeastSet
<1>3. B \in SUBSET S /\ A \subseteq B /\ ~Grown(B) BY <1>2
<1>4. \A X \in SUBSET S : IsFiniteSet(X) /\ SumOf(f, X) \in Nat BY FS_Subset, SumNat
<1>5. B # A
  <2> SUFFICES ASSUME B = A PROVE FALSE OBVIOUS
  <2>1. Cardinality(B \ A) = 0 BY FS_EmptySet
  <2>2. m * 0 = 0 OBVIOUS
  <2> QED BY <1>3, <1>4, <2>1, <2>2
<1>6. PICK x \in B : x \notin A BY <1>3, <1>5
<1> DEFINE C == B \ {x}
<1>7. C \in SUBSET S /\ A \subseteq C /\ C # B BY <1>3, <1>6
<1>8. Grown(C)
  <2>1. C \notin T
    <3> HIDE DEF T
    <3> QED BY <1>2, <1>7
  <2> HIDE DEF C, Grown
  <2> QED BY <1>7, <2>1
<1>9. SumOf(f, B) = f[x] + SumOf(f, C) BY <1>3, <1>4, <1>6, SumTakes
<1>10. Cardinality(B \ A) = Cardinality(C \ A) + 1 /\ Cardinality(C \ A) \in Nat
  <2>1. IsFiniteSet(B \ A) /\ x \in B \ A BY <1>3, <1>4, <1>6
  <2>2. C \ A = (B \ A) \ {x} OBVIOUS
  <2>3. PICK D : D = B \ A OBVIOUS
  <2>5. Cardinality(D \ {x}) = Cardinality(D) - 1 BY <2>1, <2>3, FS_RemoveElement
  <2>4. Cardinality(C \ A) \in Nat /\ Cardinality(B \ A) \in Nat
    BY <1>4, <1>7, <2>1, FS_Subset, FS_CardinalityType
  <2>6. PICK n \in Nat, k \in Nat : n = Cardinality(C \ A) /\ k = Cardinality(B \ A)
    BY <2>4
  <2>7. n = k - 1
    <3> HIDE DEF C
    <3> QED BY <2>2, <2>3, <2>5, <2>6
  <2> HIDE DEF C
  <2> QED BY <2>6, <2>7
<1>11. PICK n \in Nat : n = Cardinality(C \ A) BY <1>10
<1>12. m * (n + 1) = m * n + m /\ m * n \in Nat BY <1>11
<1>13. PICK k \in Nat : k = m * n BY <1>12
<1>14. Cardinality(B \ A) = n + 1 /\ m * Cardinality(B \ A) = k + m
  BY <1>10, <1>11, <1>12, <1>13
<1>15. f[x] \in Nat /\ f[x] <= m BY <1>3, <1>6
<1>16. PICK a \in Nat, c \in Nat : a = SumOf(f, A) /\ c = SumOf(f, C) BY <1>4, <1>7
<1>17. a <= c /\ c <= a + k BY <1>8, <1>11, <1>13, <1>16
<1>18. SumOf(f, B) = f[x] + c BY <1>9, <1>16
<1>19. a <= f[x] + c /\ f[x] + c <= a + (k + m) BY <1>15, <1>16, <1>17, <1>13
<1> QED BY <1>3, <1>14, <1>16, <1>18, <1>19

(* Only the values in the set count.                                       *)
LEMMA SumSame ==
  ASSUME NEW f, NEW h, NEW S, IsFiniteSet(S), \A x \in S : f[x] = h[x]
  PROVE  SumOf(f, S) = SumOf(h, S)
<1>1. PICK g : Adds(f, S, g) BY AddsExists
<1>2. Adds(h, S, g)
  <2>1. \A s \in SUBSET S : s # {} => Pick(s) \in S BY DEF Pick
  <2> QED BY <1>1, <2>1 DEF Adds
<1> QED BY <1>1, <1>2, SumIsAdded

-----------------------------------------------------------------------------
(* Models *)

(* A call that has not ended has no row, and one whose entry is gone has   *)
(* its row.                                                                *)
RowsFollowCalls ==
    \A c \in Calls :
        /\ usage[c] <= 1
        /\ phase[c] # "ended" => usage[c] = 0 /\ entry[c] = "none"
        /\ phase[c] = "ended" /\ entry[c] = "none" => usage[c] = 1

Inv == TypeOK /\ RowsFollowCalls

(* Calling: a model there is, the one asked for or some budget's fallback. *)
LEMMA CallingIsAModel ==
  ASSUME TypeOK, NEW c \in Calls
  PROVE  Calling(c) \in Models
<1> USE ScopesAssumption
<1>1. CASE Lowering(c) = {}
  BY <1>1 DEF Calling
<1>2. CASE Lowering(c) # {}
  <2> DEFINE Width(b) == Cardinality(Covers[b])
             widths == {Width(b) : b \in Lowering(c)}
             Narrowest(b) == \A wide \in Lowering(c) : Width(b) <= Width(wide)
  <2>1. \A b \in Budgets : Width(b) \in Nat
    BY FiniteAssumption, FS_Subset, FS_CardinalityType
  <2>2. Lowering(c) \subseteq Budgets
    BY DEF Lowering, Covering
  <2>3. widths \in SUBSET Nat /\ widths # {}
    BY <1>2, <2>1, <2>2
  <2>4. PICK w \in widths : \A v \in widths : w <= v
    <3> HIDE DEF widths
    <3>1. QED
      BY <2>3, LeastOf
  <2>5. \E b \in Lowering(c) : Narrowest(b)
    BY <2>4
  <2>6. (CHOOSE b \in Lowering(c) : Narrowest(b)) \in Lowering(c)
    BY <2>5
  <2>7. \A b \in Lowering(c) : budget[b].fallback \in Models
    BY DEF Lowering, Covering, TypeOK, Rules
  <2>8. Calling(c) = budget[CHOOSE b \in Lowering(c) : Narrowest(b)].fallback
    BY <1>2 DEF Calling
  <2>9. QED
    BY <2>6, <2>7, <2>8
<1>3. QED
  BY <1>1, <1>2

LEMMA InvInit == Init => Inv
<1> SUFFICES ASSUME Init PROVE Inv
  OBVIOUS
<1>1. Max(Models) \in Models
  BY FiniteAssumption, PricesAssumption, MaxIsGreatest
<1>2. Cardinality(Calls) \in Nat
  BY FiniteAssumption, FS_CardinalityType
<1>3. QED
  BY <1>1, <1>2, BoundsAssumption DEF Init, Inv, TypeOK, RowsFollowCalls, Asking, Over, Allowed

(* The calls under way at once are calls.                                  *)
LEMMA MostIsACount ==
  ASSUME TypeOK, NEW c \in Calls, Settles(c)
  PROVE  most' \in 0..Cardinality(Calls)
<1> DEFINE open == {d \in Calls : phase[d] \in {"settled", "sent"}}
           n == 1 + Cardinality(open)
<1>1. /\ IsFiniteSet(open) /\ IsFiniteSet(Calls \ {c})
      /\ Cardinality(open) <= Cardinality(Calls \ {c})
      /\ Cardinality(Calls \ {c}) = Cardinality(Calls) - 1
  <2>1. open \in SUBSET (Calls \ {c})
    BY DEF Settles
  <2>2. IsFiniteSet(Calls \ {c}) /\ Cardinality(Calls \ {c}) = Cardinality(Calls) - 1
    BY FiniteAssumption, FS_RemoveElement
  <2>3. QED
    BY <2>1, <2>2, FS_Subset
<1>2. Cardinality(open) \in Nat /\ Cardinality(Calls) \in Nat
  BY <1>1, FiniteAssumption, FS_CardinalityType
<1>3. n \in 0..Cardinality(Calls) /\ most \in 0..Cardinality(Calls)
  BY <1>1, <1>2 DEF TypeOK
<1>4. {most, n} \in SUBSET Nat /\ {most, n} # {} /\ IsFiniteSet({most, n})
  <2>1. IsFiniteSet({most} \cup {n})
    BY FS_Singleton, FS_AddElement
  <2>2. {most} \cup {n} = {most, n}
    OBVIOUS
  <2>3. QED
    BY <1>2, <1>3, <2>1, <2>2
<1>5. Max({most, n}) \in {most, n}
  BY <1>4, MaxIsGreatest
<1>6. most' = Max({most, n})
  BY DEF Settles
<1>7. QED
  BY <1>3, <1>5, <1>6

LEMMA TypeNext == TypeOK /\ [Next]_vars => TypeOK'
<1> SUFFICES ASSUME TypeOK, [Next]_vars PROVE TypeOK'
  OBVIOUS
<1> USE BoundsAssumption DEF TypeOK, Asking, Over, store, talk, ledger, bounds
<1>1. ASSUME NEW c \in Calls, CallStep(c) PROVE TypeOK'
  <2>1. CASE Asks(c)
    BY <2>1 DEF Asks, MayCall, Retried
  <2>2. CASE Settles(c)
    <3>1. Missing \subseteq Boxes
      BY ScopesAssumption DEF Missing, Unsettled
    <3>2. QED
      BY <2>2, <3>1, MostIsACount DEF Settles
  <2>3. CASE Checks(c)
    BY <2>3, CallingIsAModel DEF Checks
  <2>4. CASE Ends(c)
    <3>1. PossibleCosts(c) \subseteq Models \cup {0, Unknown}
      BY DEF PossibleCosts
    <3>2. QED
      BY <2>4, <3>1 DEF Ends
  <2>5. QED
    BY <1>1, <2>1, <2>2, <2>3, <2>4 DEF CallStep
<1>2. ASSUME NEW c \in Calls, RowStep(c) PROVE TypeOK'
  BY <1>2 DEF RowStep, Writes, RetryComesDue, Inserted
<1>3. CASE ProcessStep
  <2>1. CASE Close
    BY <2>1 DEF Close, Fault, Inserted
  <2>2. CASE Boot
    BY <2>2 DEF Boot
  <2>3. QED
    BY <1>3, <2>1, <2>2 DEF ProcessStep
<1>4. CASE Trouble
  <2>1. CASE Stop \/ Crash
    BY <2>1 DEF Stop, Crash, Fault
  <2>2. ASSUME NEW c \in Calls, CheckFails(c) \/ WriteFails(c) PROVE TypeOK'
    BY <2>2 DEF CheckFails, WriteFails, Fault, Inserted
  <2>3. QED
    BY <1>4, <2>1, <2>2 DEF Trouble
<1>5. CASE Edit
  BY <1>5 DEF Edit, SetBudget, DeleteBudget, Without, Bounded, Allowed
<1>6. CASE RefreshPrices
  BY <1>6 DEF RefreshPrices
<1>7. CASE NewDay
  BY <1>7 DEF NewDay
<1>8. CASE UNCHANGED vars
  BY <1>8 DEF vars
<1>9. QED
  BY <1>1, <1>2, <1>3, <1>4, <1>5, <1>6, <1>7, <1>8 DEF Next

LEMMA RowsNext ==
  ASSUME Inv, TypeOK', Next
  PROVE  RowsFollowCalls'
<1> USE DEF Inv, TypeOK, RowsFollowCalls, Asking, Over, store, talk, ledger
<1>1. ASSUME NEW c \in Calls, CallStep(c) PROVE RowsFollowCalls'
  BY <1>1 DEF CallStep, Asks, MayCall, Retried, Settles, Checks, Ends
<1>2. ASSUME NEW c \in Calls, RowStep(c) PROVE RowsFollowCalls'
  BY <1>2 DEF RowStep, Writes, RetryComesDue, Inserted
<1>3. CASE Close
  BY <1>3 DEF Close, Inserted, Unsettled
<1>4. CASE Crash
  BY <1>4 DEF Crash, Unsettled
<1>5. ASSUME NEW c \in Calls, CheckFails(c) \/ WriteFails(c) PROVE RowsFollowCalls'
  BY <1>5 DEF CheckFails, WriteFails, Inserted
<1>6. ASSUME UNCHANGED <<usage, phase, entry>> PROVE RowsFollowCalls'
  BY <1>6
<1>7. QED
  BY <1>1, <1>2, <1>3, <1>4, <1>5, <1>6 DEF Next, ProcessStep, Boot, Trouble, Stop, Edit,
     SetBudget, DeleteBudget, RefreshPrices, NewDay

THEOREM Inductive == Spec => []Inv
<1>1. Inv /\ [Next]_vars => Inv'
  <2>1. CASE UNCHANGED vars
    BY <2>1, TypeNext DEF Inv, RowsFollowCalls, vars, store, talk, ledger
  <2>2. CASE Next
    BY <2>2, TypeNext, RowsNext DEF Inv
  <2>3. QED
    BY <2>1, <2>2
<1>2. QED
  BY <1>1, InvInit, PTL DEF Spec

(* The type invariant of the budgets' half.                                *)
THEOREM TypeCorrect == Spec => []TypeOK
<1>1. Inv => TypeOK
  BY DEF Inv
<1>2. QED
  BY <1>1, Inductive, PTL

(* A call is in the ledger once at most, however often its row is written, *)
(* and a row nobody holds any more is there (record_usage, _Ledger).       *)
THEOREM EachBilledOnce == Spec => []BilledOnce
<1>1. Inv => BilledOnce
  BY DEF Inv, RowsFollowCalls, BilledOnce
<1>2. QED
  BY <1>1, Inductive, PTL

(* What a budget is overrun by.  A call is admitted on a spend that misses *)
(* only what calls cost that are under way: it was settled while no row    *)
(* was missing, so whatever misses now is of calls settled beside it.      *)

(* The greatest price, and a budget that stops calls and was left alone.   *)
Dear == Max(Models)
Stops(b) == edits = 0 /\ budget[b] # None /\ budget[b].action = "stop"

(* The calls of a budget under way whose spend may be missing, those of    *)
(* them sent out, and those that ended and count.                          *)
Under(b) ==
    {c \in Calls :
        /\ BoxOf[c] \in Covers[b]
        /\ \/ phase[c] = "sent"
           \/ phase[c] = "settled" /\ missing[c] \cap Covers[b] = {}
           \/ phase[c] = "ended" /\ c \in Unsettled}
Out(b) == {c \in Calls : BoxOf[c] \in Covers[b] /\ phase[c] = "sent"}
Counted(b) ==
    {c \in Calls : /\ phase[c] = "ended" /\ BoxOf[c] \in Covers[b] /\ at[c] = day
                   /\ entry[c] # "lost" /\ cost[c] # Unknown}

(* They are no more than there were at some moment, and what is sent out   *)
(* may still cost the greatest price each.                                 *)
FewUnder(b) == Cardinality(Under(b)) <= most
LittleOver(b) ==
    SumOf(cost, Counted(b)) + Dear * Cardinality(Out(b)) <= budget[b].limit - 1 + most * Dear

(* The inductive invariant of the budgets.                                 *)
OverInv ==
    /\ Inv
    /\ \A c \in Calls : at[c] <= day
    /\ \A b \in Budgets : Stops(b) => FewUnder(b) /\ LittleOver(b)

(* A call costs the price of its model, or nothing.                        *)
LEMMA KnownCosts ==
  ASSUME TypeOK, NEW c \in Calls, cost[c] # Unknown
  PROVE  cost[c] \in Nat /\ cost[c] <= Dear
<1>1. cost[c] \in Models \cup {0} BY DEF TypeOK
<1>2. Dear \in Nat /\ Models \subseteq Nat /\ \A m \in Models : m <= Dear
  BY FiniteAssumption, PricesAssumption, MaxIsGreatest DEF Dear
<1>3. CASE cost[c] \in Models BY <1>2, <1>3
<1>4. CASE cost[c] = 0 BY <1>2, <1>4
<1> QED BY <1>1, <1>3, <1>4

LEMMA CountsAreNats ==
  ASSUME TypeOK, NEW b \in Budgets
  PROVE  /\ IsFiniteSet(Under(b)) /\ Cardinality(Under(b)) \in Nat
         /\ IsFiniteSet(Out(b)) /\ Cardinality(Out(b)) \in Nat
         /\ IsFiniteSet(Counted(b)) /\ SumOf(cost, Counted(b)) \in Nat
         /\ Out(b) \subseteq Under(b) /\ Cardinality(Out(b)) <= Cardinality(Under(b))
         /\ Dear \in Nat /\ most \in Nat
         /\ \A c \in Counted(b) : cost[c] \in Nat /\ cost[c] <= Dear
<1>1. Under(b) \subseteq Calls /\ Out(b) \subseteq Calls /\ Counted(b) \subseteq Calls
  BY DEF Under, Out, Counted
<1>2. IsFiniteSet(Under(b)) /\ IsFiniteSet(Out(b)) /\ IsFiniteSet(Counted(b))
  BY <1>1, FiniteAssumption, FS_Subset
<1>3. Out(b) \subseteq Under(b) BY DEF Out, Under
<1>4. Cardinality(Out(b)) <= Cardinality(Under(b)) BY <1>2, <1>3, FS_Subset
<1>5. Dear \in Nat /\ \A m \in Models : m <= Dear
  BY FiniteAssumption, PricesAssumption, MaxIsGreatest DEF Dear
<1>6. \A c \in Counted(b) : cost[c] \in Nat /\ cost[c] <= Dear
  BY KnownCosts DEF Counted
<1>7. SumOf(cost, Counted(b)) \in Nat BY <1>2, <1>6, SumNat
<1>8. most \in Nat
  <2>1. Cardinality(Calls) \in Nat BY FiniteAssumption, FS_CardinalityType
  <2> QED BY <2>1 DEF TypeOK
<1> QED BY <1>2, <1>3, <1>4, <1>5, <1>6, <1>7, <1>8, FS_CardinalityType

LEMMA StopsHaveLimits ==
  ASSUME TypeOK, NEW b \in Budgets, Stops(b)
  PROVE  budget[b].limit \in Nat /\ budget[b].limit >= 1
<1>1. budget[b] \in Rules BY DEF TypeOK, Stops
<1> QED BY <1>1, BoundsAssumption DEF Rules

LEMMA ProductsGrow ==
  /\ \A m, n \in Nat : m * n \in Nat /\ m * (n + 1) = m * n + m
  /\ \A m, n, k \in Nat : n <= k => m * n <= m * k
  /\ \A m, n \in Nat : m * n = n * m
<1>1. \A m, n \in Nat : m * n \in Nat /\ m * (n + 1) = m * n + m OBVIOUS
<1>2. ASSUME NEW m \in Nat, NEW n \in Nat, NEW k \in Nat, n <= k PROVE m * n <= m * k
  <2>1. PICK d \in Nat : k = n + d
    <3>1. k - n \in Nat /\ k = n + (k - n) BY <1>2
    <3> QED BY <3>1
  <2>2. m * (n + d) = m * n + m * d OBVIOUS
  <2>3. m * d \in Nat /\ m * n \in Nat OBVIOUS
  <2> QED BY <2>1, <2>2, <2>3
<1>3. \A m, n \in Nat : m * n = n * m OBVIOUS
<1> QED BY <1>1, <1>2, <1>3

(* Nobody joins, and the most there were is no less.                       *)
LEMMA FewStay ==
  ASSUME TypeOK, TypeOK', NEW b \in Budgets, FewUnder(b), Under(b)' \subseteq Under(b),
         UNCHANGED most
  PROVE  FewUnder(b)'
<1>1. IsFiniteSet(Under(b)) /\ Cardinality(Under(b)) \in Nat /\ most \in Nat
  BY CountsAreNats
<1>2. Cardinality(Under(b)') \in Nat /\ Cardinality(Under(b)') <= Cardinality(Under(b))
  BY <1>1, FS_Subset, FS_CardinalityType
<1> QED BY <1>1, <1>2 DEF FewUnder

LEMMA LittleStays ==
  ASSUME TypeOK, TypeOK', NEW b \in Budgets, Stops(b), Stops(b)', LittleOver(b),
         Counted(b)' \subseteq Counted(b), \A c \in Counted(b)' : cost'[c] = cost[c],
         Out(b)' \subseteq Out(b), budget'[b] = budget[b], most' \in Nat, most' >= most
  PROVE  LittleOver(b)'
<1>1. /\ IsFiniteSet(Counted(b)) /\ IsFiniteSet(Out(b)) /\ Cardinality(Out(b)) \in Nat
      /\ SumOf(cost, Counted(b)) \in Nat /\ Dear \in Nat /\ most \in Nat
      /\ \A c \in Counted(b) : cost[c] \in Nat /\ cost[c] <= Dear
  BY CountsAreNats
<1>2. IsFiniteSet(Counted(b)') BY <1>1, FS_Subset
<1>3. SumOf(cost', Counted(b)') = SumOf(cost, Counted(b)') BY <1>2, SumSame
<1>4. SumOf(cost, Counted(b)') <= SumOf(cost, Counted(b)) BY <1>1, SumGrows
<1>5. SumOf(cost, Counted(b)') \in Nat BY <1>1, <1>2, SumNat
<1>6. Cardinality(Out(b)') \in Nat /\ Cardinality(Out(b)') <= Cardinality(Out(b))
  BY <1>1, FS_Subset, FS_CardinalityType
<1>7. PICK s \in Nat, t \in Nat : s = SumOf(cost, Counted(b)) /\ t = SumOf(cost, Counted(b)')
  BY <1>1, <1>5
<1>8. PICK n \in Nat, k \in Nat : n = Cardinality(Out(b)) /\ k = Cardinality(Out(b)')
  BY <1>1, <1>6
<1>9. PICK l \in Nat : l = budget[b].limit BY StopsHaveLimits
<1>10. s + Dear * n <= l - 1 + most * Dear BY <1>7, <1>8, <1>9 DEF LittleOver
<1>11. Dear * k <= Dear * n /\ most * Dear <= most' * Dear
  <2>1. Dear * most <= Dear * most' BY <1>1, ProductsGrow
  <2> QED BY <1>1, <1>6, <1>8, <2>1, ProductsGrow
<1>12. /\ Dear * k \in Nat /\ Dear * n \in Nat /\ most * Dear \in Nat /\ most' * Dear \in Nat
  BY <1>1, ProductsGrow
<1>13. PICK a \in Nat, c \in Nat, d \in Nat, e \in Nat :
         a = Dear * k /\ c = Dear * n /\ d = most * Dear /\ e = most' * Dear
  BY <1>12
<1>14. t <= s BY <1>4, <1>7
<1>15. t + a <= l - 1 + e BY <1>10, <1>11, <1>13, <1>14
<1>16. SumOf(cost', Counted(b)') = t /\ Cardinality(Out(b)') = k /\ budget'[b].limit = l
  BY <1>3, <1>7, <1>8, <1>9
<1> QED BY <1>13, <1>15, <1>16 DEF LittleOver, Dear

LEMMA StopsStay ==
  ASSUME TypeOK, TypeOK', [Next]_vars, NEW b \in Budgets, Stops(b)'
  PROVE  Stops(b) /\ budget' = budget
<1>1. CASE Edit
  <2>1. edits' = edits + 1 /\ edits \in Nat BY <1>1, BoundsAssumption
    DEF Edit, SetBudget, DeleteBudget, Bounded, TypeOK
  <2> QED BY <2>1 DEF Stops
<1>2. ~Edit => UNCHANGED <<edits, budget>>
  BY DEF Next, CallStep, Asks, Settles, Checks, Ends, RowStep, Writes, RetryComesDue,
     ProcessStep, Close, Boot, Trouble, Stop, Crash, CheckFails, WriteFails, RefreshPrices,
     NewDay, vars, store, bounds
<1> QED BY <1>1, <1>2 DEF Stops

(* Whoever is settled while no row is missing is alone with those that are *)
(* open, and they are counted.                                             *)
LEMMA SettlesFew ==
  ASSUME TypeOK, TypeOK', NEW c \in Calls, Settles(c), NEW b \in Budgets, FewUnder(b)
  PROVE  FewUnder(b)' /\ most' \in Nat /\ most' >= most
<1> DEFINE open == {d \in Calls : phase[d] \in {"settled", "sent"}}
           n == 1 + Cardinality(open)
<1>1. IsFiniteSet(open) /\ Cardinality(open) \in Nat
  <2>1. open \subseteq Calls OBVIOUS
  <2> QED BY <2>1, FiniteAssumption, FS_Subset, FS_CardinalityType
<1>2. most \in Nat BY CountsAreNats
<1>3. {most, n} \in SUBSET Nat /\ {most, n} # {} /\ IsFiniteSet({most, n})
  <2>1. n \in Nat BY <1>1
  <2> HIDE DEF n
  <2>2. IsFiniteSet({most}) BY FS_Singleton
  <2>3. IsFiniteSet({most} \cup {n}) BY <2>2, FS_AddElement
  <2>4. {most} \cup {n} = {most, n} OBVIOUS
  <2> QED BY <1>2, <2>1, <2>3, <2>4
<1>4. most' = Max({most, n}) BY DEF Settles
<1>5. most' \in Nat /\ most' >= most /\ most' >= n
  <2> HIDE DEF n
  <2>1. Max({most, n}) \in {most, n} /\ \A x \in {most, n} : x <= Max({most, n})
    BY <1>3, MaxIsGreatest
  <2> QED BY <1>3, <1>4, <2>1
<1>6. /\ phase[c] = "asked" /\ phase' = [phase EXCEPT ![c] = "settled"]
      /\ missing' = [missing EXCEPT ![c] = Missing] /\ UNCHANGED entry
  BY DEF Settles, ledger
<1>7. CASE BoxOf[c] \notin Covers[b] \/ Missing \cap Covers[b] # {}
  <2>1. Under(b)' \subseteq Under(b)
    BY <1>6, <1>7 DEF Under, Unsettled, TypeOK
  <2>2. IsFiniteSet(Under(b)) /\ Cardinality(Under(b)) \in Nat BY CountsAreNats
  <2>3. Cardinality(Under(b)') \in Nat /\ Cardinality(Under(b)') <= Cardinality(Under(b))
    BY <2>1, <2>2, FS_Subset, FS_CardinalityType
  <2> QED BY <1>2, <1>5, <2>2, <2>3 DEF FewUnder
<1>8. CASE BoxOf[c] \in Covers[b] /\ Missing \cap Covers[b] = {}
  <2>1. \A d \in Calls : BoxOf[d] \in Covers[b] => d \notin Unsettled
    BY <1>8 DEF Missing, Unsettled
  <2>2. Under(b)' \subseteq open \cup {c}
    BY <1>6, <2>1 DEF Under, Unsettled, TypeOK
  <2>3. c \notin open BY <1>6
  <2>4. IsFiniteSet(open \cup {c}) /\ Cardinality(open \cup {c}) = Cardinality(open) + 1
    <3> HIDE DEF open
    <3> QED BY <1>1, <2>3, FS_AddElement
  <2>5. Cardinality(Under(b)') \in Nat /\ Cardinality(Under(b)') <= Cardinality(open \cup {c})
    <3> HIDE DEF open
    <3> QED BY <2>2, <2>4, FS_Subset, FS_CardinalityType
  <2> HIDE DEF open
  <2> QED BY <1>1, <1>5, <2>4, <2>5 DEF FewUnder
<1> QED BY <1>5, <1>7, <1>8

(* A call that goes out was settled while nothing was missing.             *)
LEMMA AdmittedIsUnder ==
  ASSUME TypeOK, NEW c \in Calls, Checks(c), Verdict(c) = None, NEW b \in Budgets, Stops(b),
         BoxOf[c] \in Covers[b]
  PROVE  c \in Under(b) /\ ~Reached(b)
<1>1. b \in Covering(c) BY DEF Covering, Stops, Checks
<1>2. Uncounted(c) = {} /\ Stopping(c) = {} BY VerdictAssumption DEF Verdict
<1>4. missing[c] \cap Covers[b] = {} BY <1>1, <1>2 DEF Uncounted
<1>5. phase[c] = "settled" BY DEF Checks
<1>6. ~Reached(b) BY <1>1, <1>2 DEF Stopping, Stops
<1> QED BY <1>4, <1>5, <1>6 DEF Under

(* Spent is such a sum, of what each row's call cost.                      *)
LEMMA SpentIsSum ==
  ASSUME NEW b \in Budgets, IsFiniteSet(RowsOf(b) \ Unpriced(b))
  PROVE  Spent(b) = SumOf([d \in Calls |-> usage[d] * cost[d]], RowsOf(b) \ Unpriced(b))
<1> DEFINE S == RowsOf(b) \ Unpriced(b)
           bill == [d \in Calls |-> usage[d] * cost[d]]
           Sums(g) == g = [s \in SUBSET S |->
             IF s = {} THEN 0 ELSE usage[Pick(s)] * cost[Pick(s)] + g[s \ {Pick(s)}]]
           g0 == CHOOSE g : Sums(g)
<1>1. Spent(b) = g0[S]
  BY Zenon DEF Spent, MapThenSumSet, MapThenFoldSet, Pick
<1>2. S \subseteq Calls BY DEF RowsOf
<1>3. \A g : Sums(g) <=> Adds(bill, S, g)
  <2> TAKE g
  <2>1. \A s \in SUBSET S : s # {} =>
          Pick(s) \in Calls /\ bill[Pick(s)] = usage[Pick(s)] * cost[Pick(s)]
    BY <1>2 DEF Pick
  <2> HIDE DEF bill, S
  <2> QED BY <2>1 DEF Adds
<1>4. \E g : Adds(bill, S, g)
  <2> HIDE DEF bill, S
  <2> QED BY AddsExists DEF S
<1>5. Sums(g0)
  <2> HIDE DEF Sums
  <2> QED BY <1>3, <1>4
<1>6. Adds(bill, S, g0)
  <2> HIDE DEF Sums, g0, bill, S
  <2> QED BY <1>3, <1>5
<1> HIDE DEF bill, g0
<1>7. SumOf(bill, S) = g0[S] BY <1>6, SumIsAdded
<1> QED BY <1>1, <1>7 DEF bill

LEMMA FewNext ==
  ASSUME TypeOK, TypeOK', [Next]_vars, NEW b \in Budgets, Stops(b), FewUnder(b),
         RowsFollowCalls
  PROVE  FewUnder(b)'
<1> USE DEF Under, Unsettled, Asking, Over
<1>1. ASSUME NEW c \in Calls, Asks(c) PROVE FewUnder(b)'
  <2>1. Under(b)' \subseteq Under(b) /\ UNCHANGED most
    BY <1>1 DEF Asks, MayCall, Retried, TypeOK
  <2> QED BY <2>1, FewStay
<1>2. ASSUME NEW c \in Calls, Settles(c) PROVE FewUnder(b)'
  BY <1>2, SettlesFew
<1>3. ASSUME NEW c \in Calls, Checks(c) PROVE FewUnder(b)'
  <2>1. Verdict(c) = None /\ BoxOf[c] \in Covers[b] => c \in Under(b)
    BY <1>3, AdmittedIsUnder
  <2>2. phase[c] = "settled" /\ UNCHANGED <<entry, most>>
        /\ missing' = [missing EXCEPT ![c] = {}]
    BY <1>3 DEF Checks, ledger
  <2>3. CASE Verdict(c) = None
    <3>1. phase' = [phase EXCEPT ![c] = "sent"] BY <1>3, <2>3 DEF Checks
    <3>2. Under(b)' \subseteq Under(b)
      BY <2>1, <2>2, <2>3, <3>1 DEF TypeOK
    <3> QED BY <2>2, <3>2, FewStay
  <2>4. CASE Verdict(c) # None
    <3>1. phase' = [phase EXCEPT ![c] = "new"] BY <1>3, <2>4 DEF Checks
    <3>2. Under(b)' \subseteq Under(b) BY <2>2, <3>1 DEF TypeOK
    <3> QED BY <2>2, <3>2, FewStay
  <2> QED BY <2>3, <2>4
<1>4. ASSUME NEW c \in Calls, Ends(c) PROVE FewUnder(b)'
  <2>1. Under(b)' \subseteq Under(b) /\ UNCHANGED most BY <1>4 DEF Ends, TypeOK
  <2> QED BY <2>1, FewStay
<1>5. ASSUME NEW c \in Calls, RowStep(c) \/ CheckFails(c) \/ WriteFails(c) PROVE FewUnder(b)'
  <2>1. UNCHANGED most
    BY <1>5 DEF RowStep, Writes, RetryComesDue, CheckFails, WriteFails, bounds
  <2>2. CASE RowStep(c) \/ WriteFails(c)
    <3>1. Under(b)' \subseteq Under(b)
      BY <2>2 DEF RowStep, Writes, RetryComesDue, WriteFails, talk, TypeOK
    <3> QED BY <2>1, <3>1, FewStay
  <2>3. CASE CheckFails(c)
    <3>1. Under(b)' \subseteq Under(b) BY <2>3 DEF CheckFails, ledger, TypeOK
    <3> QED BY <2>1, <3>1, FewStay
  <2> QED BY <1>5, <2>2, <2>3
<1>6. CASE Close
  <2>1. UNCHANGED <<phase, missing, most>> BY <1>6 DEF Close, talk
  <2>2. \A c \in Calls : entry'[c] \in {"running", "parked", "due"} => c \in Unsettled
    BY <1>6 DEF Close
  <2>3. Under(b)' \subseteq Under(b) BY <2>1, <2>2
  <2> QED BY <2>1, <2>3, FewStay
<1>7. CASE Crash
  <2>1. Under(b)' \subseteq Under(b) /\ UNCHANGED most BY <1>7 DEF Crash, TypeOK
  <2> QED BY <2>1, FewStay
<1>8. ASSUME UNCHANGED <<phase, missing, entry, most>> PROVE FewUnder(b)'
  BY <1>8, FewStay
<1> QED
  <2>1. CASE Boot \/ Stop \/ Edit \/ RefreshPrices \/ NewDay \/ UNCHANGED vars
    BY <2>1, <1>8 DEF Boot, Stop, Edit, SetBudget, DeleteBudget, RefreshPrices, NewDay, vars,
       store, talk, ledger, bounds
  <2> QED BY <1>1, <1>2, <1>3, <1>4, <1>5, <1>6, <1>7, <2>1
    DEF Next, CallStep, ProcessStep, Trouble

(* What a call that goes out now may still cost is made room for: what the *)
(* ledger does not know of yet is of calls under way.                      *)
LEMMA AdmitsLittle ==
  ASSUME Inv, TypeOK', NEW c \in Calls, Checks(c), Verdict(c) = None, NEW b \in Budgets,
         Stops(b), Stops(b)', FewUnder(b), BoxOf[c] \in Covers[b], budget' = budget
  PROVE  LittleOver(b)'
<1> DEFINE known == RowsOf(b) \ Unpriced(b)
           bill == [d \in Calls |-> usage[d] * cost[d]]
           read == Counted(b) \cap known
           unread == Counted(b) \ known
<1>1. c \in Under(b) /\ ~Reached(b) BY AdmittedIsUnder DEF Inv
<1>2. /\ phase[c] = "settled" /\ phase' = [phase EXCEPT ![c] = "sent"]
      /\ UNCHANGED <<entry, cost, at, day, most, budget>>
  BY DEF Checks, ledger
<1>3. Counted(b)' = Counted(b) BY <1>2 DEF Counted, Inv, TypeOK
<1>4. Out(b)' \subseteq Out(b) \cup {c} /\ c \notin Out(b) BY <1>2 DEF Out, Inv, TypeOK
<1>5. \A d \in known : usage[d] = 1 /\ cost[d] \in Nat /\ cost[d] <= Dear
  <2> SUFFICES ASSUME NEW d \in known PROVE usage[d] = 1 /\ cost[d] \in Nat /\ cost[d] <= Dear
    OBVIOUS
  <2>1. d \in Calls /\ usage[d] > 0 /\ cost[d] # Unknown BY DEF RowsOf, Unpriced
  <2>2. usage[d] \in Nat /\ usage[d] <= 1 BY <2>1 DEF Inv, TypeOK, RowsFollowCalls
  <2>3. cost[d] \in Nat /\ cost[d] <= Dear BY <2>1, KnownCosts DEF Inv
  <2> QED BY <2>1, <2>2, <2>3
<1>6. known \subseteq Calls /\ IsFiniteSet(known) /\ Dear \in Nat
  <2>1. known \subseteq Calls BY DEF RowsOf
  <2> QED BY <2>1, FiniteAssumption, FS_Subset, CountsAreNats DEF Inv
<1>7. Spent(b) = SumOf(cost, known)
  <2>1. \A d \in known : bill[d] = cost[d]
    BY <1>5, <1>6
  <2>2. SumOf(bill, known) = SumOf(cost, known)
    <3> HIDE DEF known, bill
    <3> QED BY <1>6, <2>1, SumSame
  <2>3. Spent(b) = SumOf(bill, known)
    BY <1>6, SpentIsSum
  <2> QED BY <2>2, <2>3
<1>8. unread \subseteq Under(b) \ Out(b) /\ c \notin unread
  BY <1>2 DEF Counted, RowsOf, Unpriced, Under, Out, Unsettled, Inv, TypeOK, RowsFollowCalls
<1> HIDE DEF known, bill
<1>9. /\ IsFiniteSet(Under(b)) /\ Cardinality(Under(b)) \in Nat
      /\ IsFiniteSet(Out(b)) /\ Cardinality(Out(b)) \in Nat /\ Out(b) \subseteq Under(b)
      /\ IsFiniteSet(Counted(b)) /\ SumOf(cost, Counted(b)) \in Nat /\ most \in Nat
      /\ \A d \in Counted(b) : cost[d] \in Nat /\ cost[d] <= Dear
  BY CountsAreNats DEF Inv
<1>10. IsFiniteSet(unread) /\ Cardinality(unread) \in Nat /\ IsFiniteSet(read)
  BY <1>9, FS_Subset, FS_CardinalityType
<1>11. Cardinality(unread) + Cardinality(Out(b)) + 1 <= most
  <2> DEFINE all == (unread \cup Out(b)) \cup {c}
  <2>1. unread \cap Out(b) = {} /\ c \notin unread \cup Out(b) BY <1>4, <1>8
  <2>2. IsFiniteSet(unread \cup Out(b))
        /\ Cardinality(unread \cup Out(b)) = Cardinality(unread) + Cardinality(Out(b))
    <3>1. Cardinality(unread \cap Out(b)) = 0 BY <2>1, FS_EmptySet
    <3> HIDE DEF unread
    <3>2. IsFiniteSet(unread \cup Out(b)) /\ Cardinality(unread \cup Out(b)) =
            Cardinality(unread) + Cardinality(Out(b)) - Cardinality(unread \cap Out(b))
      BY <1>9, <1>10, FS_Union
    <3> QED BY <1>9, <1>10, <3>1, <3>2
  <2>3. Cardinality(all) = Cardinality(unread \cup Out(b)) + 1
    <3>1. PICK u : u = unread \cup Out(b) OBVIOUS
    <3>2. Cardinality(u \cup {c}) = Cardinality(u) + 1
      BY <2>1, <2>2, <3>1, FS_AddElement
    <3> QED BY <3>1, <3>2
  <2>4. all \subseteq Under(b) BY <1>1, <1>8, <1>9
  <2>5. Cardinality(all) <= Cardinality(Under(b)) BY <1>9, <2>4, FS_Subset
  <2> HIDE DEF all
  <2> QED BY <1>9, <1>10, <2>2, <2>3, <2>5 DEF FewUnder
<1>12. SumOf(cost, Counted(b)) <= SumOf(cost, read) + Dear * Cardinality(unread)
  <2>1. read \in SUBSET Counted(b) /\ Counted(b) \ read = unread OBVIOUS
  <2> HIDE DEF read, unread
  <2> QED BY <1>6, <1>9, <2>1, SumGrows
<1>13. SumOf(cost, read) <= SumOf(cost, known)
  <2>1. read \in SUBSET known OBVIOUS
  <2> HIDE DEF read
  <2> QED BY <1>5, <1>6, <2>1, SumGrows
<1>14. SumOf(cost, known) \in Nat /\ SumOf(cost, read) \in Nat
  BY <1>5, <1>6, <1>9, <1>10, SumNat
<1>15. SumOf(cost, known) <= budget[b].limit - 1
  <2>1. ~(SumOf(cost, known) >= budget[b].limit) BY <1>1, <1>7 DEF Reached
  <2>2. budget[b].limit \in Nat BY StopsHaveLimits DEF Inv
  <2> QED BY <1>14, <2>1, <2>2
<1>16. Cardinality(Out(b)') \in Nat /\ Cardinality(Out(b)') <= Cardinality(Out(b)) + 1
  <2>1. IsFiniteSet(Out(b) \cup {c}) /\ Cardinality(Out(b) \cup {c}) = Cardinality(Out(b)) + 1
    BY <1>4, <1>9, FS_AddElement
  <2> QED BY <1>4, <2>1, FS_Subset, FS_CardinalityType
<1> HIDE DEF read, unread
<1>17. PICK u \in Nat, n \in Nat, k \in Nat :
         u = Cardinality(unread) /\ n = Cardinality(Out(b)) /\ k = Cardinality(Out(b)')
  BY <1>9, <1>10, <1>16
<1>18. Dear * u + Dear * k <= most * Dear
  <2>1. u + k \in Nat /\ u + k <= most BY <1>9, <1>11, <1>16, <1>17
  <2>2. Dear * (u + k) <= Dear * most BY <1>6, <1>9, <2>1, ProductsGrow
  <2>3. Dear * (u + k) = Dear * u + Dear * k BY <1>6, <1>17
  <2> QED BY <1>6, <1>9, <2>2, <2>3, ProductsGrow
<1>19. PICK a \in Nat, d \in Nat, e \in Nat : a = Dear * u /\ d = Dear * k /\ e = most * Dear
  BY <1>6, <1>9, ProductsGrow
<1>20. PICK s \in Nat, t \in Nat, r \in Nat, l \in Nat :
         /\ s = SumOf(cost, Counted(b)) /\ t = SumOf(cost, known) /\ r = SumOf(cost, read)
         /\ l = budget[b].limit
  BY <1>9, <1>14, StopsHaveLimits DEF Inv
<1>21. s <= r + a /\ r <= t /\ t <= l - 1 /\ a + d <= e
  BY <1>12, <1>13, <1>15, <1>17, <1>18, <1>19, <1>20
<1>22. s + d <= l - 1 + e BY <1>21
<1>23. SumOf(cost', Counted(b)') = s /\ Dear * Cardinality(Out(b)') = d
       /\ budget'[b].limit = l /\ most' * Dear = e
  BY <1>2, <1>3, <1>17, <1>19, <1>20
<1> QED BY <1>22, <1>23 DEF LittleOver, Dear

(* A call that ends costs at most what was kept for it while it was out.   *)
LEMMA EndsLittle ==
  ASSUME Inv, TypeOK', NEW c \in Calls, Ends(c), NEW b \in Budgets, Stops(b), Stops(b)',
         LittleOver(b), BoxOf[c] \in Covers[b]
  PROVE  LittleOver(b)'
<1>1. /\ phase[c] = "sent" /\ phase' = [phase EXCEPT ![c] = "ended"] /\ UNCHANGED <<day, most, budget>>
      /\ at' = [at EXCEPT ![c] = day] /\ entry' = [entry EXCEPT ![c] = "running"]
  BY DEF Ends, store
<1>2. PICK spent : cost' = [cost EXCEPT ![c] = spent] BY DEF Ends
<1>3. Counted(b)' \subseteq Counted(b) \cup {c} /\ \A d \in Counted(b)' : d # c => d \in Counted(b)
  BY <1>1, <1>2 DEF Counted, Inv, TypeOK
<1>4. Out(b)' = Out(b) \ {c} /\ c \in Out(b) BY <1>1 DEF Out, Inv, TypeOK
<1>5. /\ IsFiniteSet(Out(b)) /\ Cardinality(Out(b)) \in Nat
      /\ IsFiniteSet(Counted(b)) /\ SumOf(cost, Counted(b)) \in Nat /\ most \in Nat
      /\ \A d \in Counted(b) : cost[d] \in Nat /\ cost[d] <= Dear
  BY CountsAreNats DEF Inv
<1>6. /\ IsFiniteSet(Counted(b)') /\ SumOf(cost', Counted(b)') \in Nat /\ Dear \in Nat
      /\ \A d \in Counted(b)' : cost'[d] \in Nat /\ cost'[d] <= Dear
  <2>1. /\ IsFiniteSet(Counted(b)) /\ SumOf(cost, Counted(b)) \in Nat /\ Dear \in Nat
        /\ \A d \in Counted(b) : cost[d] \in Nat /\ cost[d] <= Dear
    BY CountsAreNats DEF Inv
  <2>2. IsFiniteSet(Counted(b) \cup {c}) BY <1>5, FS_AddElement
  <2>3. IsFiniteSet(Counted(b)') BY <1>3, <2>2, FS_Subset
  <2>4. \A d \in Counted(b)' : cost'[d] \in Nat /\ cost'[d] <= Dear
    <3> SUFFICES ASSUME NEW d \in Counted(b)' PROVE cost'[d] \in Nat /\ cost'[d] <= Dear
      OBVIOUS
    <3>1. d \in Calls /\ cost'[d] # Unknown BY DEF Counted
    <3>2. cost'[d] \in Models \cup {0} BY <3>1 DEF TypeOK
    <3>3. Models \subseteq Nat /\ \A m \in Models : m <= Dear
      BY FiniteAssumption, PricesAssumption, MaxIsGreatest DEF Dear
    <3>4. CASE cost'[d] \in Models BY <2>1, <3>3, <3>4
    <3>5. CASE cost'[d] = 0 BY <2>1, <3>3, <3>5
    <3> QED BY <3>2, <3>4, <3>5
  <2>5. SumOf(cost', Counted(b)') \in Nat BY <2>3, <2>4, SumNat
  <2> QED BY <2>1, <2>3, <2>4, <2>5
<1> DEFINE rest == Counted(b)' \ {c}
<1>7. rest \subseteq Counted(b) /\ \A d \in rest : cost'[d] = cost[d]
  BY <1>2, <1>3 DEF Counted, Inv, TypeOK
<1>8. SumOf(cost', rest) = SumOf(cost, rest) /\ SumOf(cost, rest) <= SumOf(cost, Counted(b))
  <2>1. IsFiniteSet(rest) BY <1>5, <1>7, FS_Subset
  <2> HIDE DEF rest
  <2>2. SumOf(cost', rest) = SumOf(cost, rest) BY <1>7, <2>1, SumSame
  <2> QED BY <1>5, <1>6, <1>7, <2>2, SumGrows
<1>9. SumOf(cost', Counted(b)') <= SumOf(cost', rest) + Dear
  <2>1. rest \in SUBSET Counted(b)' OBVIOUS
  <2>2. Counted(b)' \ rest \subseteq {c} OBVIOUS
  <2>3. Cardinality(Counted(b)' \ rest) \in Nat /\ Cardinality(Counted(b)' \ rest) <= 1
    <3>1. IsFiniteSet({c}) /\ Cardinality({c}) = 1 BY FS_Singleton
    <3> HIDE DEF rest
    <3> QED BY <2>2, <3>1, FS_Subset, FS_CardinalityType
  <2> HIDE DEF rest
  <2>4. SumOf(cost', Counted(b)')
          <= SumOf(cost', rest) + Dear * Cardinality(Counted(b)' \ rest)
    BY <1>6, <2>1, SumGrows
  <2>5. PICK u \in Nat : u = Cardinality(Counted(b)' \ rest) BY <2>3
  <2>6. Dear * u <= Dear * 1 /\ Dear * 1 = Dear /\ Dear * u \in Nat
    BY <1>6, <2>3, <2>5, ProductsGrow
  <2>7. SumOf(cost', rest) \in Nat
    <3>1. IsFiniteSet(rest) /\ \A d \in rest : cost'[d] \in Nat BY <1>6, <2>1, FS_Subset
    <3> QED BY <3>1, SumNat
  <2>8. PICK a \in Nat, e \in Nat, r \in Nat :
          a = SumOf(cost', Counted(b)') /\ e = Dear * u /\ r = SumOf(cost', rest)
    BY <1>6, <2>6, <2>7
  <2>9. a <= r + e /\ e <= Dear BY <2>4, <2>5, <2>6, <2>8
  <2> QED BY <1>6, <2>8, <2>9
<1>10. Cardinality(Out(b)') = Cardinality(Out(b)) - 1 /\ Cardinality(Out(b)') \in Nat
  <2>1. Cardinality(Out(b) \ {c}) = Cardinality(Out(b)) - 1 /\ IsFiniteSet(Out(b) \ {c})
    BY <1>4, <1>5, FS_RemoveElement
  <2> QED BY <1>4, <2>1, FS_CardinalityType
<1> HIDE DEF rest
<1>11. PICK n \in Nat, k \in Nat : n = Cardinality(Out(b)) /\ k = Cardinality(Out(b)') /\ n = k + 1
  BY <1>5, <1>10
<1>12. PICK a \in Nat, d \in Nat, e \in Nat :
         a = Dear * n /\ d = Dear * k /\ e = most * Dear /\ a = d + Dear
  BY <1>5, <1>6, <1>11, ProductsGrow
<1>13. PICK s \in Nat, t \in Nat, l \in Nat :
         s = SumOf(cost, Counted(b)) /\ t = SumOf(cost', Counted(b)') /\ l = budget[b].limit
  BY <1>5, <1>6, StopsHaveLimits DEF Inv
<1>14. s + a <= l - 1 + e BY <1>11, <1>12, <1>13 DEF LittleOver
<1>15. t <= s + Dear
  <2>1. PICK r \in Int : r = SumOf(cost, rest)
    <3>1. IsFiniteSet(rest) /\ \A x \in rest : cost[x] \in Nat BY <1>5, <1>7, FS_Subset
    <3>2. SumOf(cost, rest) \in Nat BY <3>1, SumNat
    <3> QED BY <3>2
  <2>2. r <= s /\ t <= r + Dear BY <1>8, <1>9, <1>13, <2>1
  <2> QED BY <1>6, <2>1, <2>2
<1>16. t + d <= l - 1 + e BY <1>6, <1>12, <1>14, <1>15
<1>17. Dear * Cardinality(Out(b)') = d /\ budget'[b].limit = l /\ most' * Dear = e
  BY <1>1, <1>11, <1>12, <1>13
<1> QED BY <1>13, <1>16, <1>17 DEF LittleOver, Dear

(* A new period has no spend yet.                                          *)
LEMMA NewDaysAreFree ==
  ASSUME Inv, TypeOK', NewDay, NEW b \in Budgets, Stops(b), FewUnder(b),
         \A c \in Calls : at[c] <= day
  PROVE  LittleOver(b)'
<1>1. UNCHANGED <<budget, phase, at, most>> /\ day' = day + 1
  BY DEF NewDay, store, talk, ledger
<1>2. Counted(b)' = {}
  <2>1. \A c \in Calls : at[c] \in Nat /\ day \in Nat
    BY BoundsAssumption DEF Inv, TypeOK
  <2>2. \A c \in Calls : at'[c] # day' BY <1>1, <2>1
  <2> QED BY <2>2 DEF Counted
<1>3. SumOf(cost', Counted(b)') = 0 BY <1>2, SumEmpty
<1>4. Out(b)' = Out(b) BY <1>1 DEF Out
<1>5. /\ Cardinality(Under(b)) \in Nat /\ Cardinality(Out(b)) \in Nat /\ Dear \in Nat /\ most \in Nat
      /\ Cardinality(Out(b)) <= Cardinality(Under(b))
  BY CountsAreNats DEF Inv
<1>6. PICK k \in Nat : k = Cardinality(Out(b)) /\ k <= most BY <1>5 DEF FewUnder
<1>7. Dear * k <= Dear * most /\ Dear * most = most * Dear BY <1>5, <1>6, ProductsGrow
<1>8. PICK d \in Nat, e \in Nat : d = Dear * k /\ e = most * Dear
  BY <1>5, <1>6, ProductsGrow
<1>9. PICK l \in Nat : l = budget[b].limit /\ l >= 1 BY StopsHaveLimits DEF Inv
<1>10. 0 + d <= l - 1 + e BY <1>7, <1>8, <1>9
<1>11. SumOf(cost', Counted(b)') = 0 /\ Dear * Cardinality(Out(b)') = d
       /\ budget'[b].limit = l /\ most' * Dear = e
  BY <1>1, <1>3, <1>4, <1>6, <1>8, <1>9
<1> QED BY <1>10, <1>11 DEF LittleOver, Dear

LEMMA LittleNext ==
  ASSUME Inv, TypeOK', [Next]_vars, \A c \in Calls : at[c] <= day,
         NEW b \in Budgets, Stops(b), Stops(b)', budget' = budget, FewUnder(b), LittleOver(b)
  PROVE  LittleOver(b)'
<1> USE DEF Inv
<1>m. most \in Nat BY CountsAreNats
<1>a. ASSUME Counted(b)' \subseteq Counted(b), \A c \in Counted(b)' : cost'[c] = cost[c],
             Out(b)' \subseteq Out(b), UNCHANGED most
      PROVE  LittleOver(b)'
  BY <1>a, <1>m, LittleStays
<1>b. ASSUME UNCHANGED <<phase, at, day, entry, cost, most>> PROVE LittleOver(b)'
  BY <1>a, <1>b DEF Counted, Out
<1>1. ASSUME NEW c \in Calls, Asks(c) PROVE LittleOver(b)'
  <2>1. Counted(b)' \subseteq Counted(b) /\ Out(b)' \subseteq Out(b) /\ UNCHANGED <<cost, most>>
    BY <1>1 DEF Asks, MayCall, Retried, Counted, Out, TypeOK
  <2> QED BY <2>1, <1>a
<1>2. ASSUME NEW c \in Calls, Settles(c) PROVE LittleOver(b)'
  <2>1. most' \in Nat /\ most' >= most BY <1>2, SettlesFew
  <2>2. Counted(b)' \subseteq Counted(b) /\ Out(b)' \subseteq Out(b) /\ UNCHANGED cost
    BY <1>2 DEF Settles, Counted, Out, ledger, TypeOK
  <2> QED BY <2>1, <2>2, LittleStays
<1>3. ASSUME NEW c \in Calls, Checks(c) PROVE LittleOver(b)'
  <2>1. CASE Verdict(c) = None /\ BoxOf[c] \in Covers[b]
    BY <1>3, <2>1, AdmitsLittle
  <2>2. CASE ~(Verdict(c) = None /\ BoxOf[c] \in Covers[b])
    <3>1. UNCHANGED <<at, day, entry, cost, most>> /\ phase[c] = "settled"
          /\ \/ phase' = [phase EXCEPT ![c] = "sent"] /\ BoxOf[c] \notin Covers[b]
             \/ phase' = [phase EXCEPT ![c] = "new"]
      BY <1>3, <2>2 DEF Checks, ledger
    <3>2. Counted(b)' \subseteq Counted(b) /\ Out(b)' \subseteq Out(b)
      BY <3>1 DEF Counted, Out, TypeOK
    <3> QED BY <3>1, <3>2, <1>a
  <2> QED BY <2>1, <2>2
<1>4. ASSUME NEW c \in Calls, Ends(c) PROVE LittleOver(b)'
  <2>1. CASE BoxOf[c] \in Covers[b] BY <1>4, <2>1, EndsLittle
  <2>2. CASE BoxOf[c] \notin Covers[b]
    <3>1. Counted(b)' \subseteq Counted(b) /\ Out(b)' \subseteq Out(b) /\ UNCHANGED most
          /\ \A d \in Counted(b)' : cost'[d] = cost[d]
      BY <1>4, <2>2 DEF Ends, Counted, Out, TypeOK
    <3> QED BY <3>1, <1>a
  <2> QED BY <2>1, <2>2
<1>5. ASSUME NEW c \in Calls, RowStep(c) \/ WriteFails(c) PROVE LittleOver(b)'
  <2>1. Counted(b)' \subseteq Counted(b) /\ Out(b)' \subseteq Out(b) /\ UNCHANGED <<cost, most>>
    BY <1>5 DEF RowStep, Writes, RetryComesDue, WriteFails, talk, bounds, Counted, Out, TypeOK
  <2> QED BY <2>1, <1>a
<1>6. ASSUME NEW c \in Calls, CheckFails(c) PROVE LittleOver(b)'
  <2>1. Counted(b)' \subseteq Counted(b) /\ Out(b)' \subseteq Out(b) /\ UNCHANGED <<cost, most>>
    BY <1>6 DEF CheckFails, ledger, Asking, Counted, Out, TypeOK
  <2> QED BY <2>1, <1>a
<1>7. CASE Close
  <2>1. Counted(b)' \subseteq Counted(b) /\ Out(b)' \subseteq Out(b) /\ UNCHANGED <<cost, most>>
    BY <1>7 DEF Close, talk, Unsettled, Counted, Out, TypeOK
  <2> QED BY <2>1, <1>a
<1>8. CASE Crash
  <2>1. Counted(b)' \subseteq Counted(b) /\ Out(b)' \subseteq Out(b) /\ UNCHANGED <<cost, most>>
    BY <1>8 DEF Crash, Asking, Unsettled, Counted, Out, TypeOK
  <2> QED BY <2>1, <1>a
<1>9. CASE NewDay BY <1>9, NewDaysAreFree
<1> QED
  <2>1. CASE Boot \/ Stop \/ Edit \/ RefreshPrices \/ UNCHANGED vars
    BY <2>1, <1>b DEF Boot, Stop, Edit, SetBudget, DeleteBudget, RefreshPrices, vars,
       store, talk, ledger, bounds
  <2> QED BY <1>1, <1>2, <1>3, <1>4, <1>5, <1>6, <1>7, <1>8, <1>9, <2>1
    DEF Next, CallStep, ProcessStep, Trouble

LEMMA OverInit == Init => OverInv
<1> SUFFICES ASSUME Init PROVE OverInv OBVIOUS
<1>1. Inv BY InvInit
<1>2. \A c \in Calls : at[c] <= day BY DEF Init
<1>3. ASSUME NEW b \in Budgets, Stops(b) PROVE FewUnder(b) /\ LittleOver(b)
  <2>1. Under(b) = {} /\ Out(b) = {} /\ Counted(b) = {} BY DEF Init, Under, Out, Counted
  <2>2. Cardinality({}) = 0 BY FS_EmptySet
  <2>3. SumOf(cost, {}) = 0 BY SumEmpty
  <2>4. Dear \in Nat BY <1>1, CountsAreNats DEF Inv
  <2>5. Dear * 0 = 0 /\ 0 * Dear = 0 BY <2>4
  <2>6. budget[b].limit \in Nat /\ budget[b].limit >= 1
    BY <1>1, <1>3, StopsHaveLimits DEF Inv
  <2>7. most = 0 BY DEF Init
  <2> QED BY <2>1, <2>2, <2>3, <2>5, <2>6, <2>7 DEF FewUnder, LittleOver
<1> QED BY <1>1, <1>2, <1>3 DEF OverInv

LEMMA OverNext == OverInv /\ [Next]_vars => OverInv'
<1> SUFFICES ASSUME OverInv, [Next]_vars PROVE OverInv' OBVIOUS
<1> USE DEF OverInv
<1>1. TypeOK /\ RowsFollowCalls /\ TypeOK' BY TypeNext DEF Inv
<1>2. Inv'
  <2>1. CASE UNCHANGED vars
    BY <1>1, <2>1 DEF Inv, RowsFollowCalls, vars, store, talk, ledger
  <2>2. CASE Next BY <1>1, <2>2, RowsNext DEF Inv
  <2> QED BY <2>1, <2>2
<1>3. \A c \in Calls : at'[c] <= day'
  <2>1. \A c \in Calls : at[c] \in Nat /\ day \in Nat
    BY <1>1, BoundsAssumption DEF TypeOK
  <2>2. CASE \E c \in Calls : Ends(c)
    <3>1. PICK c \in Calls : Ends(c) BY <2>2
    <3>2. at' = [at EXCEPT ![c] = day] /\ day' = day BY <3>1 DEF Ends
    <3> QED BY <1>1, <2>1, <3>2 DEF TypeOK
  <2>3. CASE NewDay
    <3>1. at' = at /\ day' = day + 1 BY <2>3 DEF NewDay, ledger
    <3> QED BY <2>1, <3>1
  <2>4. ~(\E c \in Calls : Ends(c)) /\ ~NewDay => UNCHANGED <<at, day>>
    BY DEF Next, CallStep, Asks, Settles, Checks, RowStep, Writes, RetryComesDue,
       ProcessStep, Close, Boot, Trouble, Stop, Crash, CheckFails, WriteFails, Edit, SetBudget,
       DeleteBudget, RefreshPrices, vars, store, talk, ledger, bounds
  <2> QED BY <2>2, <2>3, <2>4
<1>4. ASSUME NEW b \in Budgets, Stops(b)' PROVE FewUnder(b)' /\ LittleOver(b)'
  <2>1. Stops(b) /\ budget' = budget BY <1>1, <1>4, StopsStay
  <2>2. FewUnder(b)' BY <1>1, <2>1, FewNext
  <2>3. LittleOver(b)' BY <1>1, <1>4, <2>1, LittleNext
  <2> QED BY <2>2, <2>3
<1> QED BY <1>2, <1>3, <1>4

(* A budget left alone is overrun by at most what the calls cost that were *)
(* under way at one moment, however many retries, failed writes, new days, *)
(* prices and restarts there are (check_budgets, _Ledger).                 *)
THEOREM OverrunsStayBounded == Spec => []OverrunIsBounded
<1>1. OverInv => OverrunIsBounded
  <2> SUFFICES ASSUME OverInv, edits = 0, NEW b \in Budgets, budget[b] # None,
                      budget[b].action = "stop"
               PROVE  Owed(b, {c \in Calls : phase[c] = "ended"})
                        <= budget[b].limit - 1 + most * Max(Models)
    BY DEF OverrunIsBounded
  <2>1. Stops(b) /\ LittleOver(b) /\ TypeOK BY DEF Stops, OverInv, Inv
  <2>2. Owed(b, {c \in Calls : phase[c] = "ended"}) = SumOf(cost, Counted(b))
    <3>1. Counted(b) = {c \in {c \in Calls : phase[c] = "ended"} :
                         /\ BoxOf[c] \in Covers[b] /\ at[c] = day
                         /\ entry[c] # "lost" /\ cost[c] # Unknown}
      BY DEF Counted
    <3> QED BY <3>1 DEF Owed, SumOf
  <2>3. /\ SumOf(cost, Counted(b)) \in Nat /\ Dear \in Nat /\ most \in Nat
        /\ Cardinality(Out(b)) \in Nat
    BY <2>1, CountsAreNats
  <2>4. PICK s \in Nat, d \in Nat, e \in Nat :
          /\ s = SumOf(cost, Counted(b)) /\ d = Dear * Cardinality(Out(b)) /\ e = most * Dear
    BY <2>3, ProductsGrow
  <2>5. PICK l \in Nat : l = budget[b].limit BY <2>1, StopsHaveLimits
  <2>6. s + d <= l - 1 + e BY <2>1, <2>4, <2>5 DEF LittleOver
  <2>7. s <= l - 1 + e BY <2>6
  <2> QED BY <2>2, <2>4, <2>5, <2>7 DEF Dear
<1> QED BY <1>1, OverInit, OverNext, PTL DEF Spec

-----------------------------------------------------------------------------
(* Tools *)

(* The records a call and a request of an owner may be.                    *)
Asked == [at : {"resolve"}, address : Addresses, stale : Mcp!Tokens \cup {None}]
Bound == [at : {"lock", "refresh", "keep", "break", "send", "lost"}, address : Addresses,
          stale : Mcp!Tokens \cup {None}, level : Mcp!Levels, found : Mcp!Connection,
          use : Mcp!Tokens, renewed : BOOLEAN]
(* A call that has picked a connection, and one that holds its lock.       *)
IsBound(c) == call[c].at \in {"lock", "refresh", "keep", "break", "send", "lost"}
Holding(c) == call[c].at \in {"refresh", "keep", "break", "lost"}
(* A sign-in some request is still to trade or to keep; one that is        *)
(* taken, by whoever started it, and neither traded nor kept any more;     *)
(* and one a connection is of.                                             *)
Pending(d, k) == desk[d].at \in {"trade", "connect"} /\ desk[d].k = k
InUse(k, l) ==
    /\ flow[k] # None /\ ~flow[k].open /\ flow[k].level = l /\ code[k] = flow[k].by
    /\ \A d \in Desks : ~Pending(d, k)
Same(l, k) == connection[l] # None /\ connection[l].k = k

(* A code is for a flow there is, and flows are numbered.                  *)
CodesOfFlows == \A k \in Mcp!SignIns : code[k] # None => flow[k] # None
FlowsInOrder == \A k \in Mcp!SignIns : k > made => flow[k] = None
(* One request at a time trades a sign-in, for who started it.             *)
DeskKept(d) ==
    LET k == desk[d].k IN
    desk[d].at \in {"trade", "connect"} =>
        /\ flow[k] # None /\ ~flow[k].open /\ code[k] = flow[k].by
        /\ \A e \in Desks \ {d} : ~Pending(e, k)
        /\ desk[d].at = "connect" => provider[k].gen = 1
(* A connection has the tokens its provider holds, but for those lost,     *)
(* ended or just renewed by the holder of the lock; and is ok, or has a    *)
(* reason not to be.                                                       *)
RowKept(l) ==
    LET k == connection[l].k IN
    connection[l] # None =>
        /\ InUse(k, l)
        /\ \/ provider[k].gen = connection[l].gen \/ k \in spoilt \/ ~provider[k].live
           \/ \E c \in Tools : call[c].at = "keep" /\ call[c].use.k = k
        /\ connection[l].ok \/ ~provider[k].live \/ ~provider[k].renews \/ k \in spoilt \cup overtaken
(* What a call found is of its own level, and for its address if it did    *)
(* not wait. Only the holder of the lock is past it; as long as the        *)
(* connection is of the same sign-in it is the one the holder found, and   *)
(* a holder that was refused was refused for a reason.                     *)
CallKept(c) ==
    LET l == call[c].level  k == call[c].use.k IN
    /\ IsBound(c) => /\ InUse(k, l) /\ call[c].found.k = k
                     /\ call[c].renewed \/ flow[k].address = call[c].address
    /\ \A m \in Mcp!Levels : lock[m] = c <=> Holding(c) /\ l = m
    /\ Holding(c) /\ Same(l, k) => connection[l] = call[c].found
    /\ call[c].at \in {"lock", "refresh"} => call[c].use.gen = call[c].found.gen
    /\ call[c].at = "keep" => provider[k].gen = call[c].use.gen
    /\ call[c].at = "break" /\ Same(l, k) => ~provider[k].live \/ ~provider[k].renews \/ k \in spoilt

(* The inductive invariant of the connections.                             *)
Kept ==
    /\ CodesOfFlows /\ FlowsInOrder
    /\ \A d \in Desks : DeskKept(d)
    /\ \A l \in Mcp!Levels : RowKept(l)
    /\ \A c \in Tools : CallKept(c)

Providers == [gen : Mcp!Ages, live : BOOLEAN, renews : BOOLEAN, expired : Mcp!Ages, dead : Mcp!Ages]
CallStates == {Mcp!Idle} \cup [at : {"done"}] \cup Asked \cup Bound
DeskStates ==
    {Mcp!Idle} \cup [at : {"trade", "connect"}, k : Mcp!SignIns]
        \cup [at : {"delete", "revoke"}, level : Mcp!Levels, found : Mcp!Connection]

(* What is not done by the gateway.                                        *)
OfOwners ==
    \/ \E p \in People, l \in Mcp!Levels : Mcp!StartSignIn(p, l)
    \/ \E p \in People, k \in Mcp!SignIns : Mcp!Consent(p, k)
    \/ \E d \in Desks, p \in People, k \in Mcp!SignIns : Mcp!TakesFlow(d, p, k)
    \/ \E d \in Desks : Mcp!Trades(d) \/ Mcp!Connects(d) \/ Mcp!Deletes(d) \/ Mcp!Revokes(d)
    \/ \E d \in Desks, l \in Mcp!Levels : Mcp!Disconnect(d, l)
    \/ \E a \in Addresses : Mcp!EntryMoves(a)
    \/ \E k \in Mcp!SignIns : Mcp!Expires(k) \/ Mcp!Drops(k) \/ Mcp!EndedThere(k)
-----------------------------------------------------------------------------
(* The state of a call tells which record it is; so for the requests.      *)
LEMMA CallShape ==
  ASSUME Mcp!TypeOK, NEW c \in Tools
  PROVE  /\ IsBound(c) => call[c] \in Bound
         /\ call[c].at = "resolve" => call[c] \in Asked
         /\ call[c] \in Bound => IsBound(c)
         /\ call[c].at = "idle" <=> call[c] = Mcp!Idle
  BY DEF Mcp!TypeOK, IsBound, Bound, Asked, Mcp!Idle

LEMMA DeskShape ==
  ASSUME Mcp!TypeOK, NEW d \in Desks
  PROVE  /\ desk[d].at \in {"trade", "connect"} => desk[d] \in [at : {"trade", "connect"}, k : Mcp!SignIns]
         /\ desk[d].at \in {"delete", "revoke"} =>
                desk[d] \in [at : {"delete", "revoke"}, level : Mcp!Levels, found : Mcp!Connection]
         /\ desk[d].at = "idle" <=> desk[d] = Mcp!Idle
  BY DEF Mcp!TypeOK, Mcp!Idle

(* The type invariant by its variables, for this state and the next.       *)
LEMMA TypeParts ==
  Mcp!TypeOK <=>
    /\ address \in Addresses
    /\ flow \in [Mcp!SignIns -> Mcp!Flow \cup {None}]
    /\ code \in [Mcp!SignIns -> People \cup {None}]
    /\ connection \in [Mcp!Levels -> Mcp!Connection \cup {None}]
    /\ provider \in [Mcp!SignIns -> Providers]
    /\ lock \in [Mcp!Levels -> Tools \cup {None}]
    /\ call \in [Tools -> CallStates]
    /\ desk \in [Desks -> DeskStates]
    /\ made \in 0..MaxSignIns /\ ageings \in 0..MaxAgeings
    /\ moves \in 0..MaxMoves /\ troubles \in 0..MaxTroubles
    /\ spoilt \subseteq Mcp!SignIns /\ overtaken \subseteq Mcp!SignIns
  BY DEF Mcp!TypeOK, Providers, CallStates, DeskStates, Asked, Bound

LEMMA TypePartsNext ==
  Mcp!TypeOK' <=>
    /\ address' \in Addresses
    /\ flow' \in [Mcp!SignIns -> Mcp!Flow \cup {None}]
    /\ code' \in [Mcp!SignIns -> People \cup {None}]
    /\ connection' \in [Mcp!Levels -> Mcp!Connection \cup {None}]
    /\ provider' \in [Mcp!SignIns -> Providers]
    /\ lock' \in [Mcp!Levels -> Tools \cup {None}]
    /\ call' \in [Tools -> CallStates]
    /\ desk' \in [Desks -> DeskStates]
    /\ made' \in 0..MaxSignIns /\ ageings' \in 0..MaxAgeings
    /\ moves' \in 0..MaxMoves /\ troubles' \in 0..MaxTroubles
    /\ spoilt' \subseteq Mcp!SignIns /\ overtaken' \subseteq Mcp!SignIns
  BY DEF Mcp!TypeOK, Providers, CallStates, DeskStates, Asked, Bound

(* Every step keeps the types. A taken flow is a record: it has a code.    *)
LEMMA SignInTypeNext == Mcp!TypeOK /\ CodesOfFlows /\ [Mcp!Next]_(Mcp!vars) => Mcp!TypeOK'
<1> SUFFICES ASSUME Mcp!TypeOK, CodesOfFlows, [Mcp!Next]_(Mcp!vars) PROVE Mcp!TypeOK'
  OBVIOUS
<1> USE TypeParts, TypePartsNext, McpAssumption
    DEF Mcp!BoundsAssumption, Mcp!NoneAssumption, Mcp!store, Mcp!world, Mcp!gateway, Mcp!bounds,
        Mcp!history, Mcp!Trouble
<1>1. ASSUME NEW p \in People, NEW l \in Mcp!Levels, Mcp!StartSignIn(p, l) PROVE Mcp!TypeOK'
  <2>1. [by |-> p, level |-> l, address |-> address, open |-> TRUE] \in Mcp!Flow
    BY DEF Mcp!Flow
  <2>2. made + 1 \in Mcp!SignIns /\ made + 1 \in 0..MaxSignIns
    BY <1>1 DEF Mcp!StartSignIn, Mcp!SignIns
  <2>3. QED
    BY <1>1, <2>1, <2>2 DEF Mcp!StartSignIn
<1>2. ASSUME NEW p \in People, NEW k \in Mcp!SignIns, Mcp!Consent(p, k) PROVE Mcp!TypeOK'
  BY <1>2 DEF Mcp!Consent
<1>3. ASSUME NEW d \in Desks, NEW p \in People, NEW k \in Mcp!SignIns, Mcp!TakesFlow(d, p, k) PROVE Mcp!TypeOK'
  <2>1. flow' \in [Mcp!SignIns -> Mcp!Flow \cup {None}]
    <3>1. [flow[k] EXCEPT !.open = FALSE] \in Mcp!Flow
      BY <1>3 DEF Mcp!TakesFlow, CodesOfFlows, Mcp!Flow
    <3>2. QED
      BY <1>3, <3>1 DEF Mcp!TakesFlow
  <2>2. desk' \in [Desks -> DeskStates]
    <3>1. [at |-> "trade", k |-> k] \in DeskStates /\ Mcp!Idle \in DeskStates
      BY DEF DeskStates
    <3>2. QED
      BY <1>3, <3>1 DEF Mcp!TakesFlow
  <2>3. QED
    BY <1>3, <2>1, <2>2 DEF Mcp!TakesFlow
<1>4. ASSUME NEW d \in Desks, Mcp!Trades(d) PROVE Mcp!TypeOK'
  <2>1. desk[d] \in [at : {"trade", "connect"}, k : Mcp!SignIns]
    BY <1>4, DeskShape DEF Mcp!Trades
  <2>2. Mcp!Idle \in DeskStates /\ [desk[d] EXCEPT !.at = "connect"] \in DeskStates
    BY <2>1 DEF DeskStates
  <2>3. \A r \in BOOLEAN :
            [[[provider[desk[d].k] EXCEPT !.gen = 1] EXCEPT !.live = TRUE] EXCEPT !.renews = r] \in Providers
    <3>1. 1 \in Mcp!Ages /\ provider[desk[d].k] \in Providers
      BY <2>1 DEF Mcp!Ages
    <3>2. QED
      BY <3>1 DEF Providers
  <2>4. desk' \in [Desks -> DeskStates]
    BY <1>4, <2>2 DEF Mcp!Trades
  <2>5. provider' \in [Mcp!SignIns -> Providers]
    <3>1. CASE UNCHANGED provider
      BY <3>1
    <3>2. CASE ~UNCHANGED provider
      <4>1. PICK r \in BOOLEAN : provider' =
                [provider EXCEPT ![desk[d].k] =
                   [[[provider[desk[d].k] EXCEPT !.gen = 1] EXCEPT !.live = TRUE] EXCEPT !.renews = r]]
        BY <1>4, <2>1, <3>2 DEF Mcp!Trades
      <4>2. QED
        BY <2>1, <2>3, <4>1
    <3>3. QED
      BY <3>1, <3>2
  <2>6. QED
    BY <1>4, <2>4, <2>5 DEF Mcp!Trades
<1>5. ASSUME NEW d \in Desks, Mcp!Connects(d) PROVE Mcp!TypeOK'
  <2>1. desk[d] \in [at : {"trade", "connect"}, k : Mcp!SignIns]
    BY <1>5, DeskShape DEF Mcp!Connects
  <2>2. [k |-> desk[d].k, gen |-> 1, ok |-> TRUE] \in Mcp!Connection
    BY <2>1 DEF Mcp!Connection, Mcp!Ages
  <2>3. Mcp!Idle \in DeskStates
    BY DEF DeskStates
  <2>4. QED
    BY <1>5, <2>2, <2>3 DEF Mcp!Connects
<1>6. ASSUME NEW d \in Desks, Mcp!Deletes(d) PROVE Mcp!TypeOK'
  <2>1. [desk[d] EXCEPT !.at = "revoke"] \in DeskStates
    BY <1>6, DeskShape DEF Mcp!Deletes, DeskStates
  <2>2. QED
    BY <1>6, <2>1 DEF Mcp!Deletes
<1>7. ASSUME NEW d \in Desks, Mcp!Revokes(d) PROVE Mcp!TypeOK'
  <2>1. desk[d].found.k \in Mcp!SignIns /\ Mcp!Idle \in DeskStates
    BY <1>7, DeskShape DEF Mcp!Revokes, Mcp!Connection, DeskStates
  <2>2. ASSUME NEW x \in BOOLEAN
        PROVE  [provider[desk[d].found.k] EXCEPT !.live = x] \in Providers
    BY <2>1 DEF Providers
  <2>3. provider' \in [Mcp!SignIns -> Providers]
    <3> DEFINE f == desk[d].found
               x == provider[f.k].live /\ f.gen # provider[f.k].gen
    <3>0. x \in BOOLEAN
      BY <2>1 DEF Providers
    <3>1. CASE provider' = [provider EXCEPT ![f.k].live = x]
      <4>1. provider' = [provider EXCEPT ![f.k] = [provider[f.k] EXCEPT !.live = x]]
        BY <3>1
      <4> HIDE DEF x
      <4>2. QED
        BY <2>1, <2>2, <3>0, <4>1
    <3>2. CASE UNCHANGED provider
      BY <3>2
    <3>3. QED
      BY <1>7, <3>1, <3>2 DEF Mcp!Revokes
  <2>4. QED
    BY <1>7, <2>1, <2>3 DEF Mcp!Revokes
<1>8. ASSUME NEW d \in Desks, NEW l \in Mcp!Levels, Mcp!Disconnect(d, l) PROVE Mcp!TypeOK'
  <2>1. [at |-> "delete", level |-> l, found |-> connection[l]] \in DeskStates
    BY <1>8 DEF Mcp!Disconnect, DeskStates
  <2>2. QED
    BY <1>8, <2>1 DEF Mcp!Disconnect
<1>9. ASSUME NEW a \in Addresses, Mcp!EntryMoves(a) PROVE Mcp!TypeOK'
  BY <1>9 DEF Mcp!EntryMoves
<1>10. ASSUME NEW k \in Mcp!SignIns, Mcp!Expires(k) \/ Mcp!Drops(k) \/ Mcp!EndedThere(k) PROVE Mcp!TypeOK'
  <2>1. /\ [provider[k] EXCEPT !.expired = provider[k].gen, !.dead = provider[k].gen] \in Providers
        /\ [provider[k] EXCEPT !.dead = provider[k].gen] \in Providers
        /\ [provider[k] EXCEPT !.live = FALSE] \in Providers
    BY DEF Providers
  <2>2. provider' \in [Mcp!SignIns -> Providers]
    BY <1>10, <2>1 DEF Mcp!Expires, Mcp!Drops, Mcp!EndedThere
  <2>3. QED
    BY <1>10, <2>2 DEF Mcp!Expires, Mcp!Drops, Mcp!EndedThere, Mcp!Ageing
<1>11. ASSUME NEW c \in Tools, Mcp!Looks(c) PROVE Mcp!TypeOK'
  <2>1. [at |-> "resolve", address |-> address, stale |-> None] \in CallStates
    BY DEF CallStates, Asked
  <2>2. QED
    BY <1>11, <2>1 DEF Mcp!Looks
<1>12. Mcp!Done \in CallStates
  BY DEF CallStates, Mcp!Done
<1>13. ASSUME NEW c \in Tools, NEW stage \in {"lock", "refresh", "keep", "break", "send", "lost"},
              IsBound(c), Mcp!Goes(c, stage)
       PROVE  call' \in [Tools -> CallStates]
  <2>1. [call[c] EXCEPT !.at = stage] \in CallStates
    BY <1>13, CallShape DEF CallStates, Bound
  <2>2. QED
    BY <1>13, <2>1 DEF Mcp!Goes
<1>14. ASSUME NEW c \in Tools, Mcp!Resolves(c) PROVE Mcp!TypeOK'
  <2> DEFINE row == connection[Mcp!LevelFor]
             next(stage) == [at |-> stage, address |-> call[c].address, stale |-> call[c].stale,
                          level |-> Mcp!LevelFor, found |-> row, use |-> Mcp!TokensOf(row), renewed |-> FALSE]
  <2>1. Mcp!LevelFor \in Mcp!Levels
    BY DEF Mcp!LevelFor, Mcp!Levels
  <2>2. ASSUME row # None PROVE next("send") \in CallStates /\ next("lock") \in CallStates
    <3>1. row \in Mcp!Connection /\ call[c] \in Asked
      BY <1>14, <2>1, <2>2, CallShape DEF Mcp!Resolves
    <3>2. Mcp!TokensOf(row) \in Mcp!Tokens
      BY <3>1 DEF Mcp!TokensOf, Mcp!Connection, Mcp!Tokens
    <3> HIDE DEF row
    <3>3. QED
      BY <2>1, <3>1, <3>2 DEF CallStates, Bound, Asked
  <2>3. call' \in [Tools -> CallStates]
    BY <1>14, <1>12, <2>2 DEF Mcp!Resolves, Mcp!Ends
  <2>4. QED
    BY <1>14, <2>3 DEF Mcp!Resolves
<1>15. ASSUME NEW c \in Tools, Mcp!Locks(c) PROVE Mcp!TypeOK'
  <2> DEFINE l == call[c].level
             again == connection[l]
  <2>1. IsBound(c) /\ call[c] \in Bound /\ l \in Mcp!Levels
    BY <1>15, CallShape DEF Mcp!Locks, IsBound, Bound
  <2>2. lock' \in [Mcp!Levels -> Tools \cup {None}]
    BY <1>15, <2>1 DEF Mcp!Locks
  <2>3. CASE again \in {None, call[c].found}
    BY <1>15, <1>13, <2>1, <2>3, <2>2 DEF Mcp!Locks
  <2>4. CASE ~(again \in {None, call[c].found})
    <3> DEFINE next(stage) == [[[[call[c] EXCEPT !.found = again] EXCEPT !.use = Mcp!TokensOf(again)]
                               EXCEPT !.renewed = TRUE] EXCEPT !.at = stage]
    <3>1. again \in Mcp!Connection
      BY <2>1, <2>4
    <3>2. Mcp!TokensOf(again) \in Mcp!Tokens
      BY <3>1 DEF Mcp!TokensOf, Mcp!Connection, Mcp!Tokens
    <3>3. next("send") \in CallStates /\ next("refresh") \in CallStates
      <4> HIDE DEF again
      <4>1. QED
        BY <2>1, <3>1, <3>2 DEF Bound, CallStates
    <3>4. CASE ~again.ok
      BY <1>12, <1>15, <2>2, <2>4, <3>4 DEF Mcp!Locks, Mcp!Ends
    <3>5. CASE again.ok
      <4>1. \/ call' = [call EXCEPT ![c] = next("send")]
            \/ call' = [call EXCEPT ![c] = next("refresh")]
        BY <1>15, <2>4, <3>5 DEF Mcp!Locks
      <4> HIDE DEF next
      <4>2. QED
        BY <1>15, <2>2, <3>3, <4>1 DEF Mcp!Locks
    <3>6. QED
      BY <3>4, <3>5
  <2>5. QED
    BY <2>3, <2>4
<1>16. ASSUME NEW c \in Tools, Mcp!Refreshes(c) PROVE Mcp!TypeOK'
  <2> DEFINE t == call[c].use
             next == [[call[c] EXCEPT !.at = "keep"] EXCEPT !.use = [t EXCEPT !.gen = t.gen + 1]]
  <2>1. IsBound(c) /\ call[c] \in Bound /\ t \in Mcp!Tokens
    BY <1>16, CallShape DEF Mcp!Refreshes, IsBound, Bound
  <2>2. ASSUME Mcp!Renewable(t), t.gen <= MaxAgeings
        PROVE  /\ [t EXCEPT !.gen = t.gen + 1] \in Mcp!Tokens
               /\ [provider[t.k] EXCEPT !.gen = provider[t.k].gen + 1] \in Providers
    BY <2>1, <2>2 DEF Mcp!Renewable, Mcp!Tokens, Mcp!Ages, Providers
  <2>3. ASSUME Mcp!Renewable(t), t.gen <= MaxAgeings PROVE next \in CallStates
    BY <2>1, <2>2, <2>3 DEF CallStates, Bound
  <2>4. provider' \in [Mcp!SignIns -> Providers]
    <3>1. t.k \in Mcp!SignIns
      BY <2>1 DEF Mcp!Tokens
    <3>2. CASE UNCHANGED provider
      BY <3>2
    <3>3. CASE Mcp!Renewable(t) /\ t.gen <= MaxAgeings /\ Mcp!Renewed(t)
      BY <2>2, <3>1, <3>3 DEF Mcp!Renewed
    <3>4. QED
      BY <1>16, <3>2, <3>3 DEF Mcp!Refreshes
  <2>5. call' \in [Tools -> CallStates]
    <3>1. CASE Mcp!Renewable(t) /\ t.gen <= MaxAgeings /\ call' = [call EXCEPT ![c] = next]
      <4> HIDE DEF next
      <4>1. QED
        BY <2>3, <3>1
    <3>2. CASE Mcp!Goes(c, "break") \/ Mcp!Goes(c, "lost")
      BY <1>13, <2>1, <3>2
    <3>3. QED
      <4>1. CASE Mcp!Renewable(t) /\ t.gen <= MaxAgeings
                 /\ call' = [call EXCEPT ![c].at = "keep", ![c].use = [t EXCEPT !.gen = @ + 1]]
        <5>1. call' = [call EXCEPT ![c] = next]
          BY <4>1
        <5>2. QED
          BY <3>1, <4>1, <5>1
      <4>2. QED
        BY <1>16, <3>2, <4>1 DEF Mcp!Refreshes
  <2>6. spoilt' \subseteq Mcp!SignIns
    BY <1>16, <2>1 DEF Mcp!Refreshes, Mcp!Tokens
  <2>7. QED
    BY <1>16, <2>4, <2>5, <2>6 DEF Mcp!Refreshes
<1>17. ASSUME NEW c \in Tools, IsBound(c) PROVE [lock EXCEPT ![call[c].level] = None] \in [Mcp!Levels -> Tools \cup {None}]
  OBVIOUS
<1>18. ASSUME NEW c \in Tools, Mcp!Keeps(c) PROVE Mcp!TypeOK'
  <2>1. IsBound(c) /\ call[c] \in Bound /\ call[c].level \in Mcp!Levels /\ call[c].use.gen \in Mcp!Ages
    BY <1>18, CallShape DEF Mcp!Keeps, IsBound, Bound, Mcp!Tokens
  <2>2. connection' \in [Mcp!Levels -> Mcp!Connection \cup {None}]
    <3> DEFINE l == call[c].level
    <3>1. connection[l] # None => [connection[l] EXCEPT !.gen = call[c].use.gen] \in Mcp!Connection
      BY <2>1 DEF Mcp!Connection
    <3>2. connection[l] = call[c].found => connection[l] # None
      BY <2>1 DEF Bound
    <3>3. QED
      BY <1>18, <2>1, <3>1, <3>2 DEF Mcp!Keeps
  <2>3. QED
    BY <1>18, <1>13, <1>17, <2>1, <2>2 DEF Mcp!Keeps, Mcp!Releases
<1>19. ASSUME NEW c \in Tools, Mcp!Breaks(c) PROVE Mcp!TypeOK'
  <2> DEFINE l == call[c].level
             row == connection[l]
  <2>1. IsBound(c) /\ call[c] \in Bound /\ l \in Mcp!Levels
    BY <1>19, CallShape DEF Mcp!Breaks, IsBound, Bound
  <2>2. row # None => row.k \in Mcp!SignIns /\ [row EXCEPT !.ok = FALSE] \in Mcp!Connection
    BY <2>1 DEF Mcp!Connection
  <2>3. QED
    BY <1>12, <1>19, <1>17, <2>1, <2>2 DEF Mcp!Breaks, Mcp!Releases, Mcp!Ends
<1>20. ASSUME NEW c \in Tools, Mcp!Unreached(c) PROVE Mcp!TypeOK'
  BY <1>12, <1>17, <1>20 DEF Mcp!Unreached, IsBound, Mcp!Ends, Mcp!Releases
<1>21. ASSUME NEW c \in Tools, Mcp!Sends(c) PROVE Mcp!TypeOK'
  <2>1. [at |-> "resolve", address |-> call[c].address, stale |-> call[c].use] \in CallStates
    BY <1>21, CallShape DEF Mcp!Sends, IsBound, Bound, CallStates, Asked
  <2>2. QED
    BY <1>12, <1>21, <2>1 DEF Mcp!Sends, Mcp!Ends
<1>22. CASE Mcp!Crash
  <2>1. \A c \in Tools : call[c].at = "keep" => call[c].use.k \in Mcp!SignIns
    BY CallShape DEF IsBound, Bound, Mcp!Tokens
  <2>2. Mcp!Idle \in CallStates
    BY DEF CallStates
  <2>3. QED
    BY <1>12, <1>22, <2>1, <2>2 DEF Mcp!Crash
<1>23. CASE UNCHANGED Mcp!vars
  BY <1>23 DEF Mcp!vars
<1>24. QED
  BY ZenonT(60), <1>1, <1>2, <1>3, <1>4, <1>5, <1>6, <1>7, <1>8, <1>9, <1>10, <1>11, <1>14, <1>15, <1>16,
     <1>18, <1>19, <1>20, <1>21, <1>22, <1>23 DEF Mcp!Next

(* What the records are keyed with.                                        *)
LEMMA DeskKeys ==
  ASSUME Mcp!TypeOK, NEW d \in Desks, desk[d].at \in {"trade", "connect"}
  PROVE  desk[d].k \in Mcp!SignIns
  BY DeskShape

LEMMA RowKeys ==
  ASSUME Mcp!TypeOK, NEW l \in Mcp!Levels, connection[l] # None
  PROVE  connection[l].k \in Mcp!SignIns /\ connection[l].gen \in Mcp!Ages /\ connection[l] \in Mcp!Connection
  BY DEF Mcp!TypeOK, Mcp!Connection

LEMMA CallKeys ==
  ASSUME Mcp!TypeOK, NEW c \in Tools, IsBound(c)
  PROVE  /\ call[c].use.k \in Mcp!SignIns /\ call[c].use.gen \in Mcp!Ages /\ call[c].level \in Mcp!Levels
         /\ call[c].found \in Mcp!Connection
  BY CallShape DEF Bound, Mcp!Tokens

(* What the owners and the provider do leaves a sign-in in use alone, but  *)
(* that it may end; and so the desks.                                      *)
LEMMA OwnersLeave ==
  ASSUME Mcp!TypeOK, Kept, OfOwners
  PROVE  /\ UNCHANGED <<call, lock, spoilt, overtaken>>
         /\ CodesOfFlows' /\ FlowsInOrder'
         /\ \A d \in Desks : DeskKept(d)'
         /\ \A k \in Mcp!SignIns, l \in Mcp!Levels : InUse(k, l) =>
              /\ InUse(k, l)' /\ flow'[k] = flow[k]
              /\ provider'[k].gen = provider[k].gen
              /\ provider'[k].live => provider[k].live
              /\ provider'[k].renews = provider[k].renews
<1> DEFINE Goal == /\ UNCHANGED <<call, lock, spoilt, overtaken>>
                   /\ CodesOfFlows' /\ FlowsInOrder'
                   /\ \A d \in Desks : DeskKept(d)'
                   /\ \A k \in Mcp!SignIns, l \in Mcp!Levels : InUse(k, l) =>
                        /\ InUse(k, l)' /\ flow'[k] = flow[k]
                        /\ provider'[k].gen = provider[k].gen
                        /\ provider'[k].live => provider[k].live
                        /\ provider'[k].renews = provider[k].renews
<1> USE McpAssumption
    DEF Mcp!BoundsAssumption, Mcp!NoneAssumption, Mcp!store, Mcp!world, Mcp!gateway, Mcp!bounds,
        Mcp!history, Mcp!Trouble
<1>a. /\ flow \in [Mcp!SignIns -> Mcp!Flow \cup {None}] /\ code \in [Mcp!SignIns -> People \cup {None}]
      /\ desk \in [Desks -> DeskStates] /\ provider \in [Mcp!SignIns -> Providers]
      /\ made \in Nat /\ Mcp!SignIns \subseteq Nat /\ connection \in [Mcp!Levels -> Mcp!Connection \cup {None}]
  BY TypeParts DEF Mcp!SignIns
<1>b. CodesOfFlows /\ FlowsInOrder /\ \A d \in Desks : DeskKept(d)
  BY DEF Kept
<1>c. \A d \in Desks : desk[d].at \in {"trade", "connect"} => desk[d].k \in Mcp!SignIns
  BY DeskKeys
<1> USE <1>a, <1>b, <1>c DEF CodesOfFlows, FlowsInOrder, DeskKept, InUse, Pending
<1>1. ASSUME NEW p \in People, NEW l \in Mcp!Levels, Mcp!StartSignIn(p, l) PROVE Goal
  <2>1. made + 1 \in Mcp!SignIns /\ flow[made + 1] = None /\ code[made + 1] = None
    BY <1>1 DEF Mcp!StartSignIn, Mcp!SignIns
  <2>2. \A k \in Mcp!SignIns \ {made + 1} : flow'[k] = flow[k]
    BY <1>1 DEF Mcp!StartSignIn
  <2>3. flow'[made + 1] \in Mcp!Flow /\ None \notin Mcp!Flow
    <3>1. [by |-> p, level |-> l, address |-> address, open |-> TRUE] \in Mcp!Flow
      BY TypeParts DEF Mcp!Flow
    <3>2. QED
      BY <1>1, <2>1, <3>1 DEF Mcp!StartSignIn
  <2>4. UNCHANGED <<code, desk, provider, call, lock, spoilt, overtaken>> /\ made' = made + 1
    BY <1>1 DEF Mcp!StartSignIn
  <2>5. FlowsInOrder'
    BY <2>2, <2>4
  <2>6. QED
    BY <2>1, <2>2, <2>3, <2>4, <2>5
<1>2. ASSUME NEW p \in People, NEW k \in Mcp!SignIns, Mcp!Consent(p, k) PROVE Goal
  <2>1. UNCHANGED <<flow, desk, provider, call, lock, spoilt, overtaken, made>>
    BY <1>2 DEF Mcp!Consent
  <2>2. flow[k] # None /\ code[k] = None /\ \A j \in Mcp!SignIns \ {k} : code'[j] = code[j]
    BY <1>2 DEF Mcp!Consent
  <2>3. flow[k].by # None
    BY <2>2 DEF Mcp!Flow
  <2>4. \A j \in Mcp!SignIns : flow[j] # None /\ code[j] = flow[j].by => code'[j] = code[j]
    BY <2>2, <2>3
  <2>5. QED
    BY <2>1, <2>2, <2>4
<1>3. ASSUME NEW d \in Desks, NEW p \in People, NEW k \in Mcp!SignIns, Mcp!TakesFlow(d, p, k) PROVE Goal
  <2>1. UNCHANGED <<code, provider, call, lock, spoilt, overtaken, made>>
    BY <1>3 DEF Mcp!TakesFlow
  <2>2. /\ flow[k] # None /\ flow[k].open /\ code[k] = flow[k].by /\ desk[d] = Mcp!Idle
        /\ \A j \in Mcp!SignIns \ {k} : flow'[j] = flow[j]
        /\ \A e \in Desks \ {d} : desk'[e] = desk[e]
        /\ flow' = [flow EXCEPT ![k].open = FALSE]
        /\ desk'[d] = Mcp!Idle \/ desk'[d] = [at |-> "trade", k |-> k]
    BY <1>3 DEF Mcp!TakesFlow, Mcp!MayClaim
  <2>3. /\ flow'[k] = [flow[k] EXCEPT !.open = FALSE]
    BY <2>2
  <2>4. /\ flow'[k] # None /\ ~flow'[k].open /\ flow'[k].by = flow[k].by
    <3>1. flow[k] \in Mcp!Flow
      BY <2>2
    <3>2. [flow[k] EXCEPT !.open = FALSE] \in Mcp!Flow
      BY <3>1 DEF Mcp!Flow
    <3>3. QED
      BY <2>2, <2>3, <3>1, <3>2 DEF Mcp!Flow
  <2>5. \A e \in Desks : ~Pending(e, k)
    BY <2>2
  <2>6. ~Pending(d, k) /\ \A j \in Mcp!SignIns : j # k => ~Pending(d, j) /\ ~Pending(d, j)'
    BY <2>2 DEF Mcp!Idle
  <2>7. \A e \in Desks : DeskKept(e)'
    BY <2>1, <2>2, <2>4, <2>5, <2>6 DEF Mcp!Idle
  <2>8. QED
    BY <2>1, <2>2, <2>4, <2>5, <2>6, <2>7
<1>4. ASSUME NEW d \in Desks, Mcp!Trades(d) PROVE Goal
  <2> DEFINE k == desk[d].k
  <2>1. UNCHANGED <<flow, code, call, lock, spoilt, overtaken, made>>
    BY <1>4 DEF Mcp!Trades
  <2>2. desk[d].at = "trade" /\ k \in Mcp!SignIns /\ \A e \in Desks \ {d} : desk'[e] = desk[e]
    BY <1>4 DEF Mcp!Trades
  <2>3. \/ desk'[d].at = "connect" /\ desk'[d].k = k /\ provider'[k].gen = 1
        \/ desk'[d] = Mcp!Idle
    <3>1. provider[k] \in Providers /\ desk[d] \in [at : {"trade", "connect"}, k : Mcp!SignIns]
      BY <2>2, DeskShape
    <3>2. CASE desk' = [desk EXCEPT ![d] = Mcp!Idle]
      BY <3>2
    <3>3. CASE desk' = [desk EXCEPT ![d].at = "connect"]
      <4>1. desk'[d].at = "connect" /\ desk'[d].k = k
        BY <2>2, <3>1, <3>3
      <4>2. desk' # [desk EXCEPT ![d] = Mcp!Idle]
        BY <4>1 DEF Mcp!Idle
      <4>3. \E r \in BOOLEAN : provider' = [provider EXCEPT ![k].gen = 1, ![k].live = TRUE, ![k].renews = r]
        BY <1>4, <4>2 DEF Mcp!Trades
      <4>4. provider'[k].gen = 1
        BY <2>2, <3>1, <4>3 DEF Providers
      <4>5. QED
        BY <4>1, <4>4
    <3>4. QED
      BY <1>4, <3>2, <3>3 DEF Mcp!Trades
  <2>4. \A j \in Mcp!SignIns \ {k} : provider'[j] = provider[j]
    BY <1>4 DEF Mcp!Trades
  <2>5. Pending(d, k) /\ \A j \in Mcp!SignIns : Pending(d, j)' => j = k
    BY <2>2, <2>3 DEF Mcp!Idle
  <2>6. \A j \in Mcp!SignIns, l \in Mcp!Levels : InUse(j, l) => j # k
    BY <2>5
  <2>7. \A e \in Desks \ {d} : DeskKept(e)'
    BY <2>1, <2>2, <2>3, <2>4, <2>5
  <2>8. DeskKept(d)'
    BY <2>1, <2>2, <2>3 DEF Mcp!Idle
  <2>9. QED
    BY <2>1, <2>2, <2>4, <2>5, <2>6, <2>7, <2>8
<1>5. ASSUME NEW d \in Desks, Mcp!Connects(d) \/ Mcp!Deletes(d) \/ Mcp!Revokes(d) PROVE Goal
  <2>1. UNCHANGED <<flow, code, call, lock, spoilt, overtaken, made>>
    BY <1>5 DEF Mcp!Connects, Mcp!Deletes, Mcp!Revokes
  <2>2. \A e \in Desks \ {d} : desk'[e] = desk[e]
    BY <1>5 DEF Mcp!Connects, Mcp!Deletes, Mcp!Revokes
  <2>3. ~(desk'[d].at \in {"trade", "connect"})
    BY <1>5, DeskShape DEF Mcp!Connects, Mcp!Deletes, Mcp!Revokes, Mcp!Idle
  <2>4. \A j \in Mcp!SignIns :
          /\ provider'[j].gen = provider[j].gen
          /\ provider'[j].live => provider[j].live
          /\ provider'[j].renews = provider[j].renews
    <3>1. CASE UNCHANGED provider
      BY <3>1
    <3>2. CASE \E j \in Mcp!SignIns, x \in BOOLEAN :
                 provider' = [provider EXCEPT ![j].live = provider[j].live /\ x]
      <4>1. PICK j \in Mcp!SignIns, x \in BOOLEAN :
                 provider' = [provider EXCEPT ![j].live = provider[j].live /\ x]
        BY <3>2
      <4>2. \A i \in Mcp!SignIns \ {j} : provider'[i] = provider[i]
        BY <4>1
      <4>3. /\ provider'[j].gen = provider[j].gen /\ (provider'[j].live => provider[j].live)
            /\ provider'[j].renews = provider[j].renews
        BY <4>1 DEF Providers
      <4>4. QED
        BY <4>2, <4>3
    <3>3. ASSUME Mcp!Revokes(d), ~(UNCHANGED provider)
          PROVE  \E j \in Mcp!SignIns, x \in BOOLEAN :
                   provider' = [provider EXCEPT ![j].live = provider[j].live /\ x]
      <4> DEFINE f == desk[d].found
      <4>1. f.k \in Mcp!SignIns
        BY <3>3, DeskShape DEF Mcp!Revokes, Mcp!Connection
      <4>2. provider' = [provider EXCEPT ![f.k].live = provider[f.k].live /\ f.gen # provider[f.k].gen]
        BY <3>3 DEF Mcp!Revokes
      <4>3. QED
        BY <4>1, <4>2
    <3>4. QED
      BY <1>5, <3>1, <3>2, <3>3 DEF Mcp!Connects, Mcp!Deletes
  <2>5. \A e \in Desks : DeskKept(e)'
    <3>1. DeskKept(d)'
      BY <2>3
    <3>2. \A e \in Desks, j \in Mcp!SignIns : Pending(e, j)' => e # d /\ Pending(e, j)
      BY <2>2, <2>3
    <3>3. \A e \in Desks \ {d} : DeskKept(e)'
      BY <2>1, <2>2, <2>4, <3>2
    <3>4. QED
      BY <3>1, <3>3
  <2>6. QED
    BY <2>1, <2>2, <2>3, <2>4, <2>5
<1>6. ASSUME NEW d \in Desks, NEW l \in Mcp!Levels, Mcp!Disconnect(d, l) PROVE Goal
  <2>1. UNCHANGED <<flow, code, provider, call, lock, spoilt, overtaken, made>>
    BY <1>6 DEF Mcp!Disconnect
  <2>2. /\ \A e \in Desks \ {d} : desk'[e] = desk[e]
        /\ ~(desk'[d].at \in {"trade", "connect"})
    BY <1>6 DEF Mcp!Disconnect
  <2>3. QED
    BY <2>1, <2>2
<1>7. ASSUME NEW a \in Addresses, Mcp!EntryMoves(a) PROVE Goal
  <2>1. UNCHANGED <<flow, code, desk, provider, call, lock, spoilt, overtaken, made>>
    BY <1>7 DEF Mcp!EntryMoves
  <2>2. QED
    BY <2>1
<1>8. ASSUME NEW k \in Mcp!SignIns, Mcp!Expires(k) \/ Mcp!Drops(k) \/ Mcp!EndedThere(k) PROVE Goal
  <2>1. UNCHANGED <<flow, code, desk, call, lock, spoilt, overtaken, made>>
    BY <1>8 DEF Mcp!Expires, Mcp!Drops, Mcp!EndedThere, Mcp!Ageing
  <2>2. \A j \in Mcp!SignIns \ {k} : provider'[j] = provider[j]
    BY <1>8 DEF Mcp!Expires, Mcp!Drops, Mcp!EndedThere
  <2>3. /\ provider'[k].gen = provider[k].gen /\ (provider'[k].live => provider[k].live)
        /\ provider'[k].renews = provider[k].renews
    BY <1>8 DEF Mcp!Expires, Mcp!Drops, Mcp!EndedThere, Providers
  <2>4. QED
    BY <2>1, <2>2, <2>3
<1>9. QED
  BY <1>1, <1>2, <1>3, <1>4, <1>5, <1>6, <1>7, <1>8 DEF OfOwners

(* Two calls that hold a lock hold another level's, and other sign-ins'.   *)
LEMMA HoldersDiffer ==
  ASSUME Mcp!TypeOK, Kept, NEW c \in Tools, NEW e \in Tools \ {c}, Holding(c), Holding(e)
  PROVE  call[c].level # call[e].level /\ call[c].use.k # call[e].use.k
<1>1. IsBound(c) /\ IsBound(e)
  BY DEF Holding, IsBound
<1>2. call[c].level \in Mcp!Levels /\ call[e].level \in Mcp!Levels
  BY <1>1, CallKeys
<1>3. lock[call[c].level] = c /\ lock[call[e].level] = e
  BY <1>2 DEF Kept, CallKept
<1>4. /\ flow[call[c].use.k].level = call[c].level
      /\ flow[call[e].use.k].level = call[e].level
  BY <1>1 DEF Kept, CallKept, InUse
<1>5. QED
  BY <1>3, <1>4

(* Owners and providers keep the invariant: a connection that is made is   *)
(* of a sign-in no call can have, and one that goes leaves none to         *)
(* compare.                                                                *)
LEMMA OwnersKeep ==
  ASSUME Mcp!TypeOK, Kept, OfOwners
  PROVE  Kept'
<1>1. /\ UNCHANGED <<call, lock, spoilt, overtaken>>
      /\ \A k \in Mcp!SignIns, l \in Mcp!Levels : InUse(k, l) =>
           /\ InUse(k, l)' /\ flow'[k] = flow[k]
           /\ provider'[k].gen = provider[k].gen
           /\ provider'[k].live => provider[k].live
           /\ provider'[k].renews = provider[k].renews
  BY OwnersLeave
<1>2. \A c \in Tools : IsBound(c) =>
        /\ call[c].use.k \in Mcp!SignIns /\ call[c].level \in Mcp!Levels
  BY CallKeys
<1>3. \A c \in Tools : Holding(c) => IsBound(c)
  BY DEF Holding, IsBound
<1>a. \A c \in Tools : IsBound(c)' <=> IsBound(c)
  BY <1>1 DEF IsBound
<1>b. \A c \in Tools : Holding(c)' <=> Holding(c)
  BY <1>1 DEF Holding
<1>c. \A c \in Tools : call[c].at \in {"lock", "keep", "break", "refresh"} => IsBound(c)
  BY DEF IsBound
<1>4. ASSUME NEW l \in Mcp!Levels, connection'[l] = connection[l] PROVE RowKept(l)'
  <2>1. CASE connection[l] = None
    BY <1>4, <2>1 DEF RowKept
  <2>2. CASE connection[l] # None
    <3>1. connection[l].k \in Mcp!SignIns
      BY <2>2, RowKeys
    <3>2. RowKept(l)
      BY DEF Kept
    <3>3. QED
      BY <1>1, <1>4, <2>2, <3>1, <3>2 DEF RowKept
  <2>3. QED
    BY <2>1, <2>2
<1>5. ASSUME NEW c \in Tools,
             ~IsBound(c) \/ connection'[call[c].level] = connection[call[c].level]
               \/ ~Same(call[c].level, call[c].use.k)'
      PROVE  CallKept(c)'
  <2>1. CallKept(c)
    BY DEF Kept
  <2>2. CASE ~IsBound(c)
    BY <1>1, <1>3, <1>a, <1>b, <1>c, <2>1, <2>2 DEF CallKept
  <2>3. CASE IsBound(c)
    <3>1. /\ call[c].use.k \in Mcp!SignIns /\ call[c].level \in Mcp!Levels
          /\ InUse(call[c].use.k, call[c].level)
      BY <1>2, <2>1, <2>3 DEF CallKept
    <3>2. /\ InUse(call[c].use.k, call[c].level)' /\ flow'[call[c].use.k] = flow[call[c].use.k]
          /\ provider'[call[c].use.k].gen = provider[call[c].use.k].gen
          /\ provider'[call[c].use.k].live => provider[call[c].use.k].live
          /\ provider'[call[c].use.k].renews = provider[call[c].use.k].renews
      BY <1>1, <3>1
    <3>3. CASE connection'[call[c].level] = connection[call[c].level]
      BY <1>1, <1>a, <1>b, <2>1, <3>1, <3>2, <3>3 DEF CallKept, Same
    <3>4. CASE ~Same(call[c].level, call[c].use.k)'
      BY <1>1, <1>a, <1>b, <2>1, <3>1, <3>2, <3>4 DEF CallKept
    <3>5. QED
      BY <1>5, <2>3, <3>3, <3>4
  <2>4. QED
    BY <2>2, <2>3
<1>6. CASE UNCHANGED connection
  BY <1>4, <1>5, <1>6, OwnersLeave DEF Kept
<1>7. ASSUME NEW d \in Desks, Mcp!Connects(d) PROVE Kept'
  <2>a. PICK k \in Mcp!SignIns : k = desk[d].k
    BY <1>7, DeskKeys DEF Mcp!Connects
  <2>1. /\ flow[k] # None /\ ~flow[k].open /\ code[k] = flow[k].by
        /\ provider[k].gen = 1 /\ \A e \in Desks \ {d} : ~Pending(e, k)
    BY <1>7, <2>a DEF Mcp!Connects, Kept, DeskKept
  <2>2. Pending(d, k)
    BY <1>7, <2>a DEF Mcp!Connects, Pending
  <2>3. PICK l \in Mcp!Levels : l = flow[k].level
    BY <2>1, TypeParts DEF Mcp!Flow
  <2>4. connection \in [Mcp!Levels -> Mcp!Connection \cup {None}] /\ desk \in [Desks -> DeskStates]
    BY TypeParts
  <2>5. connection' = [connection EXCEPT ![l] = [k |-> k, gen |-> 1, ok |-> TRUE]]
    BY <1>7, <2>a, <2>3 DEF Mcp!Connects
  <2>6. /\ connection'[l] = [k |-> k, gen |-> 1, ok |-> TRUE]
        /\ \A m \in Mcp!Levels \ {l} : connection'[m] = connection[m]
    BY <2>3, <2>4, <2>5
  <2>7. /\ desk'[d] = Mcp!Idle /\ \A e \in Desks \ {d} : desk'[e] = desk[e]
        /\ UNCHANGED <<flow, code, provider, spoilt, overtaken>>
    BY <1>7, <2>4 DEF Mcp!Connects, Mcp!world, Mcp!history
  <2>8. InUse(k, l)'
    BY <2>1, <2>3, <2>7 DEF InUse, Pending, Mcp!Idle
  <2>9. RowKept(l)'
    BY <2>1, <2>6, <2>7, <2>8 DEF RowKept
  <2>10. ASSUME NEW c \in Tools, IsBound(c), call[c].level = l PROVE ~Same(l, call[c].use.k)'
    <3>1. InUse(call[c].use.k, l)
      BY <2>10 DEF Kept, CallKept
    <3>2. call[c].use.k # k
      BY <2>2, <3>1 DEF InUse
    <3>3. UNCHANGED call
      BY <1>1
    <3>4. QED
      BY <2>6, <3>2, <3>3 DEF Same
  <2>11. \A c \in Tools : CallKept(c)'
    <3> SUFFICES ASSUME NEW c \in Tools PROVE CallKept(c)'
      OBVIOUS
    <3>1. CASE ~IsBound(c)
      BY <1>5, <3>1
    <3>2. CASE IsBound(c) /\ call[c].level = l
      <4>1. ~Same(call[c].level, call[c].use.k)'
        BY <1>1, <2>10, <3>2 DEF Same
      <4>2. QED
        BY <1>5, <4>1
    <3>3. CASE IsBound(c) /\ call[c].level # l
      BY <1>2, <1>5, <2>6, <3>3
    <3>4. QED
      BY <3>1, <3>2, <3>3
  <2>12. \A m \in Mcp!Levels : RowKept(m)'
    BY <1>4, <2>6, <2>9
  <2>13. QED
    BY <2>11, <2>12, OwnersLeave DEF Kept
<1>8. ASSUME NEW d \in Desks, Mcp!Deletes(d) PROVE Kept'
  <2>a. PICK l \in Mcp!Levels : l = desk[d].level
    BY <1>8, DeskShape DEF Mcp!Deletes
  <2>1. connection \in [Mcp!Levels -> Mcp!Connection \cup {None}]
    BY TypeParts
  <2>2. connection'[l] = None /\ \A m \in Mcp!Levels \ {l} : connection'[m] = connection[m]
    BY <1>8, <2>a, <2>1 DEF Mcp!Deletes
  <2>3. \A m \in Mcp!Levels : RowKept(m)'
    <3>1. RowKept(l)'
      BY <2>2 DEF RowKept
    <3>2. QED
      BY <1>4, <2>2, <3>1
  <2>4. \A c \in Tools : CallKept(c)'
    <3> SUFFICES ASSUME NEW c \in Tools PROVE CallKept(c)'
      OBVIOUS
    <3>1. CASE ~IsBound(c)
      BY <1>5, <3>1
    <3>2. CASE IsBound(c) /\ call[c].level = l
      <4>1. ~Same(call[c].level, call[c].use.k)'
        BY <1>1, <2>2, <3>2 DEF Same
      <4>2. QED
        BY <1>5, <4>1
    <3>3. CASE IsBound(c) /\ call[c].level # l
      BY <1>2, <1>5, <2>2, <3>3
    <3>4. QED
      BY <3>1, <3>2, <3>3
  <2>5. QED
    BY <2>3, <2>4, OwnersLeave DEF Kept
<1>9. QED
  BY <1>6, <1>7, <1>8 DEF OfOwners, Mcp!StartSignIn, Mcp!Consent, Mcp!TakesFlow, Mcp!Trades, Mcp!Revokes, Mcp!Disconnect,
     Mcp!EntryMoves, Mcp!Expires, Mcp!Drops, Mcp!EndedThere, Mcp!store

(* A step of one call keeps what holds of another, if it leaves the lock,  *)
(* the connection and the sign-in of that one alone.                       *)
LEMMA OthersKept ==
  ASSUME Mcp!TypeOK, Kept, NEW c \in Tools, NEW e \in Tools \ {c}, call'[e] = call[e],
         UNCHANGED <<flow, code, desk>>, spoilt \subseteq spoilt',
         \A m \in Mcp!Levels : lock'[m] = e <=> lock[m] = e,
         Holding(e) => /\ connection'[call[e].level] = connection[call[e].level]
                       /\ provider'[call[e].use.k] = provider[call[e].use.k]
  PROVE  CallKept(e)'
<1>1. CallKept(e) /\ (IsBound(e)' <=> IsBound(e)) /\ (Holding(e)' <=> Holding(e))
  BY DEF Kept, IsBound, Holding
<1>2. \A k, l : InUse(k, l)' <=> InUse(k, l)
  BY DEF InUse, Pending
<1>3. CASE Holding(e)
  BY <1>1, <1>2, <1>3 DEF CallKept, Same
<1>4. CASE ~Holding(e)
  BY <1>1, <1>2, <1>4 DEF CallKept, Holding
<1>5. QED
  BY <1>3, <1>4

(* A step of a call keeps a connection it does not touch.                  *)
LEMMA RowStays ==
  ASSUME Mcp!TypeOK, Kept, NEW l \in Mcp!Levels, connection'[l] = connection[l],
         UNCHANGED <<flow, code, desk>>, spoilt \subseteq spoilt', overtaken \subseteq overtaken',
         connection[l] # None =>
           \/ connection[l].k \in spoilt'
           \/ /\ provider'[connection[l].k] = provider[connection[l].k]
              /\ \A e \in Tools : call[e].at = "keep" /\ call[e].use.k = connection[l].k =>
                    call'[e].at = "keep" /\ call'[e].use.k = connection[l].k
  PROVE  RowKept(l)'
<1>1. RowKept(l)
  BY DEF Kept
<1>2. \A k : InUse(k, l)' <=> InUse(k, l)
  BY DEF InUse, Pending
<1>3. QED
  BY <1>1, <1>2 DEF RowKept

(* A call that has no connection holds nothing.                            *)
LEMMA NotBound ==
  ASSUME NEW c \in Tools, ~IsBound(c)', \A m \in Mcp!Levels : lock'[m] # c
  PROVE  CallKept(c)'
<1>1. ~Holding(c)' /\ ~(call'[c].at \in {"lock", "refresh", "keep", "break"})
  BY DEF IsBound, Holding
<1>2. QED
  BY <1>1 DEF CallKept

(* The gateway keeps the invariant. Of a refresh that was refused: were    *)
(* the tokens those of the provider, somebody else would have renewed      *)
(* them since; but only the holder of the lock can.                        *)
LEMMA GatewayKeeps ==
  ASSUME Mcp!TypeOK, Kept, Mcp!Next, ~OfOwners
  PROVE  Kept'
<1> USE McpAssumption DEF Mcp!BoundsAssumption, Mcp!NoneAssumption
<1>a. /\ call \in [Tools -> CallStates] /\ connection \in [Mcp!Levels -> Mcp!Connection \cup {None}]
      /\ lock \in [Mcp!Levels -> Tools \cup {None}] /\ provider \in [Mcp!SignIns -> Providers]
  BY TypeParts
<1>b. \A c \in Tools : CallKept(c)
  BY DEF Kept
<1>c. \A c \in Tools, m \in Mcp!Levels : lock[m] = c <=> Holding(c) /\ call[c].level = m
  BY <1>b DEF CallKept
<1>d. ASSUME UNCHANGED <<flow, code, desk, made>>,
             \A d \in Desks : desk[d].at = "connect" => provider'[desk[d].k] = provider[desk[d].k],
             \A l \in Mcp!Levels : RowKept(l)', \A c \in Tools : CallKept(c)'
      PROVE  Kept'
  <2>1. \A k, l : InUse(k, l)' <=> InUse(k, l)
    BY <1>d DEF InUse, Pending
  <2>2. QED
    BY <1>d, <2>1 DEF Kept, CodesOfFlows, FlowsInOrder, DeskKept, Pending
<1>1. ASSUME NEW c \in Tools, Mcp!Looks(c) PROVE Kept'
  <2>1. /\ UNCHANGED <<flow, code, desk, made, connection, provider, lock, spoilt, overtaken>>
        /\ call[c] = Mcp!Idle /\ \A e \in Tools \ {c} : call'[e] = call[e]
        /\ call'[c].at = "resolve"
    BY <1>1, <1>a DEF Mcp!Looks, Mcp!store, Mcp!world, Mcp!bounds, Mcp!history
  <2>2. ~Holding(c) /\ ~IsBound(c)' /\ call[c].at # "keep"
    BY <2>1 DEF Holding, IsBound, Mcp!Idle
  <2>3. QED
    BY <1>c, <1>d, <2>1, <2>2, RowStays, OthersKept, NotBound
<1>e. \A c \in Tools : IsBound(c) =>
        /\ call[c] \in Bound /\ call[c].use.k \in Mcp!SignIns /\ call[c].level \in Mcp!Levels
        /\ InUse(call[c].use.k, call[c].level)
  BY <1>b, CallKeys, CallShape DEF CallKept
<1>f. \A l \in Mcp!Levels : connection[l] # None =>
        /\ connection[l] \in Mcp!Connection /\ connection[l].k \in Mcp!SignIns /\ InUse(connection[l].k, l)
  BY RowKeys DEF Kept, RowKept
<1>g. \A k, l, m : InUse(k, l) /\ InUse(k, m) => l = m
  BY DEF InUse
<1>2. ASSUME NEW c \in Tools, Mcp!Resolves(c) PROVE Kept'
  <2>1. /\ UNCHANGED <<flow, code, desk, made, connection, provider, lock, spoilt, overtaken>>
        /\ call[c].at = "resolve" /\ \A e \in Tools \ {c} : call'[e] = call[e]
    BY <1>2, <1>a DEF Mcp!Resolves, Mcp!Ends, Mcp!store, Mcp!world, Mcp!bounds, Mcp!history
  <2>2. ~Holding(c)
    BY <2>1 DEF Holding
  <2>3. CASE call' = [call EXCEPT ![c] = Mcp!Done]
    <3>1. call'[c] = Mcp!Done
      BY <1>a, <2>3
    <3>2. ~IsBound(c)'
      BY <3>1 DEF IsBound, Mcp!Done
    <3>3. QED
      BY <1>c, <1>d, <2>1, <2>2, <3>2, RowStays, OthersKept, NotBound
  <2>4. CASE call' # [call EXCEPT ![c] = Mcp!Done]
    <3>1. PICK l \in Mcp!Levels : l = Mcp!LevelFor
      BY DEF Mcp!LevelFor, Mcp!Levels
    <3>2. connection[l] # None /\ flow[connection[l].k].address = call[c].address
      BY <1>2, <2>4, <3>1 DEF Mcp!Resolves, Mcp!Usable, Mcp!Ends
    <3>3. PICK stage \in {"send", "lock"} : call'[c] =
            [at |-> stage, address |-> call[c].address, stale |-> call[c].stale, level |-> l,
             found |-> connection[l], use |-> Mcp!TokensOf(connection[l]), renewed |-> FALSE]
      BY <1>2, <1>a, <2>4, <3>1, <3>2 DEF Mcp!Resolves, Mcp!Ends
    <3>4. /\ call'[c].at = stage /\ call'[c].address = call[c].address /\ call'[c].level = l
          /\ call'[c].found = connection[l] /\ ~call'[c].renewed
          /\ call'[c].use.k = connection[l].k /\ call'[c].use.gen = connection[l].gen
      BY <3>3 DEF Mcp!TokensOf
    <3>5. InUse(connection[l].k, l)'
      BY <1>f, <2>1, <3>2 DEF InUse, Pending
    <3>6. CallKept(c)'
      BY <1>c, <2>1, <2>2, <3>2, <3>4, <3>5 DEF CallKept, Holding, IsBound
    <3>7. QED
      BY <1>d, <2>1, <2>2, <3>6, RowStays, OthersKept
  <2>5. QED
    BY <2>3, <2>4
<1>3. ASSUME NEW c \in Tools, Mcp!Locks(c) PROVE Kept'
  <2>1. /\ UNCHANGED <<flow, code, desk, made, connection, provider, spoilt, overtaken>>
        /\ call[c].at = "lock" /\ \A e \in Tools \ {c} : call'[e] = call[e]
    BY <1>3, <1>a DEF Mcp!Locks, Mcp!Goes, Mcp!Ends, Mcp!store, Mcp!world, Mcp!bounds, Mcp!history
  <2>2. ~Holding(c) /\ IsBound(c)
    BY <2>1 DEF Holding, IsBound
  <2>3. PICK l \in Mcp!Levels : l = call[c].level
    BY <1>e, <2>2
  <2>4. lock[l] = None /\ lock' \in {lock, [lock EXCEPT ![l] = c]}
    BY <1>3, <2>3 DEF Mcp!Locks
  <2>5. \A e \in Tools \ {c}, m \in Mcp!Levels : lock'[m] = e <=> lock[m] = e
    BY <1>a, <2>4
  <2>6. \A m \in Mcp!Levels : lock[m] # c
    BY <1>c, <2>2
  <2>7. \A m \in Mcp!Levels : RowKept(m)'
    BY <2>1, RowStays
  <2>8. \A e \in Tools \ {c} : CallKept(e)'
    BY <2>1, <2>5, OthersKept
  <2>9. CASE connection[l] \in {None, call[c].found}
    <3>1. lock'[l] = c /\ \A m \in Mcp!Levels \ {l} : lock'[m] # c
      BY <1>3, <1>a, <2>3, <2>6, <2>9 DEF Mcp!Locks
    <3>2. call'[c] = [call[c] EXCEPT !.at = "refresh"]
      BY <1>3, <1>a, <2>3, <2>9 DEF Mcp!Locks, Mcp!Goes
    <3>3. /\ call'[c].at = "refresh" /\ call'[c].address = call[c].address /\ call'[c].level = l
          /\ call'[c].found = call[c].found /\ call'[c].renewed = call[c].renewed
          /\ call'[c].use = call[c].use
      BY <1>e, <2>2, <2>3, <3>2 DEF Bound
    <3>4. InUse(call[c].use.k, l)'
      BY <1>e, <2>1, <2>2, <2>3, <3>3 DEF InUse, Pending
    <3>5. CallKept(c)'
      BY <1>b, <2>1, <2>2, <2>3, <2>9, <3>1, <3>3, <3>4 DEF CallKept, Holding, IsBound, Same
    <3>6. QED
      BY <1>d, <2>1, <2>7, <2>8, <3>5
  <2>10. CASE ~(connection[l] \in {None, call[c].found}) /\ ~connection[l].ok
    <3>1. call'[c] = Mcp!Done /\ lock' = lock
      BY <1>3, <1>a, <2>3, <2>10 DEF Mcp!Locks, Mcp!Ends
    <3>2. CallKept(c)'
      BY <2>6, <3>1, NotBound DEF IsBound, Mcp!Done
    <3>3. QED
      BY <1>d, <2>1, <2>7, <2>8, <3>2
  <2>11. CASE ~(connection[l] \in {None, call[c].found}) /\ connection[l].ok
    <3>1. PICK stage \in {"send", "refresh"} :
            /\ call' = [call EXCEPT ![c].found = connection[l], ![c].use = Mcp!TokensOf(connection[l]),
                                    ![c].renewed = TRUE, ![c].at = stage]
            /\ lock' = IF stage = "send" THEN lock ELSE [lock EXCEPT ![l] = c]
      BY <1>3, <2>3, <2>11 DEF Mcp!Locks
    <3>2. call'[c] = [[[[call[c] EXCEPT !.found = connection[l]] EXCEPT !.use = Mcp!TokensOf(connection[l])]
                        EXCEPT !.renewed = TRUE] EXCEPT !.at = stage]
      BY <1>a, <3>1
    <3>3. /\ call'[c].at = stage /\ call'[c].level = l
          /\ call'[c].found = connection[l] /\ call'[c].renewed
          /\ call'[c].use = Mcp!TokensOf(connection[l])
      BY <1>e, <2>2, <2>3, <3>2 DEF Bound
    <3>4. call'[c].use.k = connection[l].k /\ call'[c].use.gen = connection[l].gen
      BY <3>3 DEF Mcp!TokensOf
    <3>5. InUse(connection[l].k, l)'
      BY <1>f, <2>1, <2>11 DEF InUse, Pending
    <3>6. \A m \in Mcp!Levels : lock'[m] = c <=> stage = "refresh" /\ m = l
      BY <1>a, <2>6, <3>1
    <3>7. CallKept(c)'
      BY <2>1, <3>3, <3>4, <3>5, <3>6 DEF CallKept, Holding, IsBound
    <3>8. QED
      BY <1>d, <2>1, <2>7, <2>8, <3>7
  <2>12. QED
    BY <2>9, <2>10, <2>11
<1>4. ASSUME NEW c \in Tools, Mcp!Refreshes(c) PROVE Kept'
  <2>1. /\ UNCHANGED <<flow, code, desk, made, connection, lock, overtaken>>
        /\ call[c].at = "refresh" /\ \A e \in Tools \ {c} : call'[e] = call[e]
        /\ spoilt \subseteq spoilt'
    BY <1>4, <1>a DEF Mcp!Refreshes, Mcp!Goes, Mcp!Trouble, Mcp!store, Mcp!bounds
  <2>2. Holding(c) /\ IsBound(c)
    BY <2>1 DEF Holding, IsBound
  <2>3. PICK k \in Mcp!SignIns, l \in Mcp!Levels : k = call[c].use.k /\ l = call[c].level
    BY <1>e, <2>2
  <2>4. call[c] \in Bound /\ InUse(k, l) /\ InUse(k, l)' /\ call[c].use.gen \in Nat
    <3>1. call[c].use.gen \in Mcp!Ages
      BY <2>2, CallKeys
    <3>2. QED
      BY <1>e, <2>1, <2>2, <2>3, <3>1 DEF InUse, Pending, Mcp!Ages
  <2>5. \A j \in Mcp!SignIns \ {k} : provider'[j] = provider[j]
    BY <1>4, <1>a, <2>3 DEF Mcp!Refreshes, Mcp!Renewed
  <2>6. \A e \in Tools \ {c} : CallKept(e)'
    <3>1. \A e \in Tools \ {c} : Holding(e) => provider'[call[e].use.k] = provider[call[e].use.k]
      <4>1. \A e \in Tools \ {c} : Holding(e) => call[e].use.k # k /\ call[e].use.k \in Mcp!SignIns
        BY <1>e, <2>2, <2>3, HoldersDiffer DEF Holding, IsBound
      <4>2. QED
        BY <2>5, <4>1
    <3>2. QED
      BY <2>1, <3>1, OthersKept
  <2>7. \A d \in Desks : desk[d].at = "connect" => provider'[desk[d].k] = provider[desk[d].k]
    BY <2>4, <2>5, DeskKeys DEF InUse, Pending
  <2>8. ASSUME NEW m \in Mcp!Levels, connection[m] # None, connection[m].k # k PROVE RowKept(m)'
    BY <1>f, <2>1, <2>3, <2>5, <2>8, RowStays
  <2>9. ASSUME NEW m \in Mcp!Levels, connection[m] # None, connection[m].k = k PROVE m = l
    BY <1>f, <1>g, <2>4, <2>9
  <2>10. ASSUME RowKept(l)', CallKept(c)' PROVE Kept'
    <3>1. ASSUME NEW m \in Mcp!Levels PROVE RowKept(m)'
      <4>1. CASE connection[m] = None
        BY <2>1, <4>1 DEF RowKept
      <4>2. QED
        BY <2>8, <2>9, <2>10, <4>1
    <3>2. QED
      BY <1>d, <2>1, <2>6, <2>7, <2>10, <3>1
  <2>11. CASE /\ Mcp!Renewable(call[c].use) /\ Mcp!Renewed(call[c].use)
              /\ call' = [call EXCEPT ![c].at = "keep", ![c].use = [call[c].use EXCEPT !.gen = @ + 1]]
    <3>1. call'[c] = [[call[c] EXCEPT !.at = "keep"] EXCEPT !.use = [call[c].use EXCEPT !.gen = @ + 1]]
      BY <1>a, <2>11
    <3>2. /\ call'[c].at = "keep" /\ call'[c].level = l /\ call'[c].address = call[c].address
          /\ call'[c].found = call[c].found /\ call'[c].renewed = call[c].renewed
          /\ call'[c].use = [call[c].use EXCEPT !.gen = @ + 1]
      BY <2>3, <2>4, <3>1 DEF Bound
    <3>3. call'[c].use.k = k /\ call'[c].use.gen = call[c].use.gen + 1
      BY <2>3, <2>4, <3>2 DEF Bound, Mcp!Tokens
    <3>4. provider'[k].gen = call[c].use.gen + 1
      <4>1. provider' = [provider EXCEPT ![k].gen = provider[k].gen + 1]
        BY <2>3, <2>11 DEF Mcp!Renewed
      <4>2. provider[k].gen = call[c].use.gen
        BY <2>3, <2>11 DEF Mcp!Renewable
      <4>3. provider[k] \in Providers
        BY <1>a
      <4>4. QED
        BY <1>a, <4>1, <4>2, <4>3 DEF Providers
    <3>5. CallKept(c)'
      <4>1. /\ call[c].found.k = k /\ (call[c].renewed \/ flow[k].address = call[c].address)
            /\ \A m \in Mcp!Levels : lock[m] = c <=> m = l
            /\ Same(l, k) => connection[l] = call[c].found
        BY <1>b, <2>2, <2>3 DEF CallKept
      <4>2. QED
        BY <2>1, <2>4, <3>2, <3>3, <3>4, <4>1 DEF CallKept, Same, Holding, IsBound
    <3>6. RowKept(l)'
      <4>1. CASE connection[l] # None /\ connection[l].k = k
        <5>1. \E e \in Tools : call'[e].at = "keep" /\ call'[e].use.k = k
          BY <3>2, <3>3
        <5>2. provider'[k].live = provider[k].live /\ provider'[k].renews = provider[k].renews
          BY <1>a, <2>3, <2>11 DEF Mcp!Renewed, Providers
        <5>3. RowKept(l)
          BY DEF Kept
        <5>4. QED
          BY <2>1, <2>4, <4>1, <5>1, <5>2, <5>3 DEF RowKept
      <4>2. CASE connection[l] = None
        BY <2>1, <4>2 DEF RowKept
      <4>3. QED
        BY <2>8, <4>1, <4>2
    <3>7. QED
      BY <2>10, <3>5, <3>6
  <2>12. CASE ~Mcp!Renewable(call[c].use) /\ Mcp!Goes(c, "break") /\ UNCHANGED <<provider, spoilt>>
    <3>1. call'[c] = [call[c] EXCEPT !.at = "break"]
      BY <1>a, <2>12 DEF Mcp!Goes
    <3>2. /\ call'[c].at = "break" /\ call'[c].level = l /\ call'[c].address = call[c].address
          /\ call'[c].found = call[c].found /\ call'[c].renewed = call[c].renewed
          /\ call'[c].use = call[c].use
      BY <2>3, <2>4, <3>1 DEF Bound
    <3>3. RowKept(l)'
      BY <2>1, <2>12, RowStays
    <3>4. Same(l, k) => ~provider[k].live \/ ~provider[k].renews \/ k \in spoilt
      <4> SUFFICES ASSUME Same(l, k), provider[k].live, provider[k].renews PROVE k \in spoilt
        OBVIOUS
      <4>1. connection[l] = call[c].found /\ call[c].use.gen = call[c].found.gen
        BY <1>b, <2>1, <2>2, <2>3 DEF CallKept
      <4>2. provider[k].gen # connection[l].gen
        BY <2>3, <2>12, <4>1 DEF Mcp!Renewable
      <4>3. \A e \in Tools : call[e].at = "keep" => call[e].use.k # k
        <5>1. \A e \in Tools : call[e].at = "keep" => Holding(e) /\ e # c
          BY <2>1 DEF Holding
        <5>2. QED
          BY <2>2, <2>3, <5>1, HoldersDiffer
      <4>4. QED
        BY <4>2, <4>3 DEF Kept, RowKept, Same
    <3>5. CallKept(c)'
      <4>1. /\ call[c].found.k = k /\ (call[c].renewed \/ flow[k].address = call[c].address)
            /\ \A m \in Mcp!Levels : lock[m] = c <=> m = l
            /\ Same(l, k) => connection[l] = call[c].found
        BY <1>b, <2>2, <2>3 DEF CallKept
      <4>2. QED
        BY <2>1, <2>3, <2>4, <2>12, <3>2, <3>4, <4>1 DEF CallKept, Same, Holding, IsBound
    <3>6. QED
      BY <2>10, <3>3, <3>5
  <2>13. CASE Mcp!Goes(c, "lost") /\ (UNCHANGED provider \/ k \in spoilt')
    <3>1. call'[c] = [call[c] EXCEPT !.at = "lost"]
      BY <1>a, <2>13 DEF Mcp!Goes
    <3>2. /\ call'[c].at = "lost" /\ call'[c].level = l /\ call'[c].address = call[c].address
          /\ call'[c].found = call[c].found /\ call'[c].renewed = call[c].renewed
          /\ call'[c].use = call[c].use
      BY <2>3, <2>4, <3>1 DEF Bound
    <3>3. RowKept(l)'
      <4>1. CASE connection[l] # None /\ connection[l].k = k
        BY <2>1, <2>13, <4>1, RowStays
      <4>2. CASE connection[l] = None
        BY <2>1, <4>2 DEF RowKept
      <4>3. QED
        BY <2>8, <4>1, <4>2
    <3>4. CallKept(c)'
      <4>1. /\ call[c].found.k = k /\ (call[c].renewed \/ flow[k].address = call[c].address)
            /\ \A m \in Mcp!Levels : lock[m] = c <=> m = l
            /\ Same(l, k) => connection[l] = call[c].found
        BY <1>b, <2>2, <2>3 DEF CallKept
      <4>2. QED
        BY <2>1, <2>3, <2>4, <3>2, <4>1 DEF CallKept, Same, Holding, IsBound
    <3>5. QED
      BY <2>10, <3>3, <3>4
  <2>14. QED
    BY <1>4, <2>3, <2>11, <2>12, <2>13 DEF Mcp!Refreshes
<1>5. ASSUME NEW c \in Tools, Mcp!Keeps(c) \/ Mcp!Breaks(c) \/ Mcp!Unreached(c) PROVE Kept'
  <2>1. /\ UNCHANGED <<flow, code, desk, made, provider, spoilt>>
        /\ \A e \in Tools \ {c} : call'[e] = call[e]
        /\ overtaken \subseteq overtaken'
        /\ call[c].at \in {"keep", "break", "lost"}
        /\ lock' = [lock EXCEPT ![call[c].level] = None]
    BY <1>5, <1>a DEF Mcp!Keeps, Mcp!Breaks, Mcp!Unreached, Mcp!Goes, Mcp!Ends, Mcp!Releases, Mcp!store, Mcp!world, Mcp!bounds, Mcp!history
  <2>2. Holding(c) /\ IsBound(c)
    BY <2>1 DEF Holding, IsBound
  <2>3. PICK k \in Mcp!SignIns, l \in Mcp!Levels : k = call[c].use.k /\ l = call[c].level
    BY <1>e, <2>2
  <2>4. call[c] \in Bound /\ InUse(k, l) /\ InUse(k, l)'
    BY <1>e, <2>1, <2>2, <2>3 DEF InUse, Pending
  <2>5. /\ lock[l] = c /\ lock'[l] = None /\ \A m \in Mcp!Levels \ {l} : lock'[m] = lock[m]
        /\ \A m \in Mcp!Levels : lock'[m] # c
    BY <1>a, <1>c, <2>1, <2>2, <2>3
  <2>6. \A m \in Mcp!Levels \ {l} : connection'[m] = connection[m]
    BY <1>5, <1>a, <2>3 DEF Mcp!Keeps, Mcp!Breaks, Mcp!Unreached, Mcp!store
  <2>7. \A e \in Tools \ {c} : Holding(e) => call[e].level \in Mcp!Levels \ {l} /\ call[e].use.k # k
    BY <1>e, <2>2, <2>3, HoldersDiffer DEF Holding, IsBound
  <2>8. \A e \in Tools \ {c} : CallKept(e)'
    <3> SUFFICES ASSUME NEW e \in Tools \ {c} PROVE CallKept(e)'
      OBVIOUS
    <3>1. \A m \in Mcp!Levels : lock'[m] = e <=> lock[m] = e
      BY <2>5
    <3>2. QED
      BY <2>1, <2>6, <2>7, <3>1, OthersKept
  <2>9. ASSUME NEW m \in Mcp!Levels, connection'[m] = connection[m], ~Same(m, k) PROVE RowKept(m)'
    <3>1. \A e \in Tools : call[e].at = "keep" /\ connection[m] # None /\ call[e].use.k = connection[m].k
            => call'[e] = call[e]
      BY <2>1, <2>3, <2>9 DEF Same
    <3>2. QED
      BY <2>1, <2>9, <3>1, RowStays
  <2>10. \A m \in Mcp!Levels \ {l} : RowKept(m)'
    <3>1. \A m \in Mcp!Levels \ {l} : ~Same(m, k)
      BY <1>f, <1>g, <2>4 DEF Same
    <3>2. QED
      BY <2>6, <2>9, <3>1
  <2>11. ASSUME RowKept(l)', CallKept(c)' PROVE Kept'
    BY <1>d, <2>1, <2>8, <2>10, <2>11
  <2>12. RowKept(l) /\ CallKept(c) /\ (Same(l, k) => connection[l] = call[c].found)
    BY <1>b, <2>2, <2>3 DEF Kept, CallKept
  <2>13. CASE Mcp!Keeps(c)
    <3>1. call'[c] = [call[c] EXCEPT !.at = "send"]
      BY <1>a, <2>13 DEF Mcp!Keeps, Mcp!Goes
    <3>2. /\ call'[c].at = "send" /\ call'[c].level = l /\ call'[c].address = call[c].address
          /\ call'[c].found = call[c].found /\ call'[c].renewed = call[c].renewed
          /\ call'[c].use = call[c].use
      BY <2>3, <2>4, <3>1 DEF Bound
    <3>3. CallKept(c)'
      BY <2>1, <2>2, <2>3, <2>4, <2>5, <2>12, <3>2 DEF CallKept, Holding, IsBound
    <3>4. provider[k].gen = call[c].use.gen /\ call[c].found.k = k /\ call[c].found \in Mcp!Connection
      BY <2>2, <2>3, <2>12, <2>13, CallKeys DEF CallKept, Mcp!Keeps
    <3>5. CASE connection[l] = call[c].found
      <4>1. connection'[l] = [call[c].found EXCEPT !.gen = call[c].use.gen]
        BY <1>a, <2>3, <2>13, <3>5 DEF Mcp!Keeps
      <4>2. /\ connection'[l].k = k /\ connection'[l].gen = call[c].use.gen
            /\ connection'[l].ok = connection[l].ok /\ connection[l] # None
        BY <3>4, <3>5, <4>1 DEF Mcp!Connection
      <4>3. RowKept(l)'
        BY <2>1, <2>4, <2>12, <3>4, <3>5, <4>2 DEF RowKept
      <4>4. QED
        BY <2>11, <3>3, <4>3
    <3>6. CASE connection[l] # call[c].found
      <4>1. connection'[l] = connection[l] /\ ~Same(l, k)
        BY <2>3, <2>12, <2>13, <3>6 DEF Mcp!Keeps
      <4>2. QED
        BY <2>9, <2>11, <3>3, <4>1
    <3>7. QED
      BY <3>5, <3>6
  <2>14. CASE Mcp!Breaks(c)
    <3>1. CallKept(c)'
      <4>1. call'[c] = Mcp!Done
        BY <1>a, <2>14 DEF Mcp!Breaks, Mcp!Ends
      <4>2. QED
        BY <2>5, <4>1, NotBound DEF IsBound, Mcp!Done
    <3>2. CASE connection[l] = None
      <4>1. connection'[l] = None
        BY <2>3, <2>14, <3>2 DEF Mcp!Breaks
      <4>2. QED
        BY <2>11, <3>1, <4>1 DEF RowKept
    <3>3. CASE connection[l] # None
      <4>1. /\ connection'[l] = [connection[l] EXCEPT !.ok = FALSE]
            /\ connection[l].k # k => connection[l].k \in overtaken'
        BY <1>a, <2>3, <2>14, <3>3 DEF Mcp!Breaks
      <4>2. connection'[l].k = connection[l].k /\ connection'[l].gen = connection[l].gen
        BY <1>f, <3>3, <4>1 DEF Mcp!Connection
      <4>3. connection[l].k = k => ~provider[k].live \/ ~provider[k].renews \/ k \in spoilt
        BY <2>3, <2>12, <2>14, <3>3 DEF CallKept, Mcp!Breaks, Same
      <4>4. InUse(connection[l].k, l)'
        BY <1>f, <2>1, <3>3, <4>2 DEF InUse, Pending
      <4>5. ASSUME NEW e \in Tools, call[e].at = "keep" PROVE call'[e] = call[e]
        BY <2>1, <2>14, <4>5 DEF Mcp!Breaks
      <4>6. RowKept(l)'
        BY <2>1, <2>12, <3>3, <4>1, <4>2, <4>3, <4>4, <4>5 DEF RowKept
      <4>7. QED
        BY <2>11, <3>1, <4>6
    <3>4. QED
      BY <3>2, <3>3
  <2>15. CASE Mcp!Unreached(c)
    <3>1. call'[c] = Mcp!Done /\ call[c].at = "lost" /\ connection' = connection
      BY <1>a, <2>15 DEF Mcp!Unreached, Mcp!Ends, Mcp!store
    <3>2. CallKept(c)'
      BY <2>5, <3>1, NotBound DEF IsBound, Mcp!Done
    <3>3. RowKept(l)'
      <4>1. \A e \in Tools : call[e].at = "keep" => call'[e] = call[e]
        BY <2>1, <3>1
      <4>2. QED
        BY <2>1, <3>1, <4>1, RowStays
    <3>4. QED
      BY <2>11, <3>2, <3>3
  <2>16. QED
    BY <1>5, <2>13, <2>14, <2>15
<1>6. ASSUME NEW c \in Tools, Mcp!Sends(c) PROVE Kept'
  <2>1. /\ UNCHANGED <<flow, code, desk, made, connection, provider, lock, spoilt, overtaken>>
        /\ call[c].at = "send" /\ \A e \in Tools \ {c} : call'[e] = call[e]
    BY <1>6, <1>a DEF Mcp!Sends, Mcp!Ends, Mcp!store, Mcp!world, Mcp!bounds, Mcp!history
  <2>2. call'[c].at \in {"done", "resolve"}
    BY <1>6, <1>a DEF Mcp!Sends, Mcp!Ends, Mcp!Done
  <2>3. ~Holding(c) /\ ~IsBound(c)'
    BY <2>1, <2>2 DEF Holding, IsBound
  <2>4. QED
    BY <1>c, <1>d, <2>1, <2>3, RowStays, OthersKept, NotBound
<1>7. CASE Mcp!Crash
  <2>1. /\ UNCHANGED <<flow, code, desk, made, connection, provider, overtaken>>
        /\ \A c \in Tools : call'[c] \in {Mcp!Idle, Mcp!Done}
        /\ \A m \in Mcp!Levels : lock'[m] = None
        /\ spoilt' = spoilt \cup {call[c].use.k : c \in {x \in Tools : call[x].at = "keep"}}
    BY <1>7 DEF Mcp!Crash, Mcp!Trouble, Mcp!store, Mcp!world
  <2>2. \A c \in Tools : CallKept(c)'
    <3>1. \A c \in Tools : ~IsBound(c)' /\ \A m \in Mcp!Levels : lock'[m] # c
      BY <2>1 DEF IsBound, Mcp!Idle, Mcp!Done
    <3>2. QED
      BY <3>1, NotBound
  <2>3. \A m \in Mcp!Levels : RowKept(m)'
    <3> SUFFICES ASSUME NEW m \in Mcp!Levels PROVE RowKept(m)'
      OBVIOUS
    <3>1. CASE \E e \in Tools : call[e].at = "keep" /\ call[e].use.k = connection[m].k
      BY <2>1, <3>1, RowStays
    <3>2. CASE ~\E e \in Tools : call[e].at = "keep" /\ call[e].use.k = connection[m].k
      BY <2>1, <3>2, RowStays
    <3>3. QED
      BY <3>1, <3>2
  <2>4. QED
    BY <1>d, <2>1, <2>2, <2>3
<1>8. QED
  BY <1>1, <1>2, <1>3, <1>4, <1>5, <1>6, <1>7 DEF Mcp!Next, OfOwners

(* Nothing is signed in at first.                                          *)
LEMMA SignInsInit == Mcp!Init => Mcp!TypeOK /\ Kept
<1> SUFFICES ASSUME Mcp!Init PROVE Mcp!TypeOK /\ Kept
  OBVIOUS
<1> USE McpAssumption DEF Mcp!BoundsAssumption, Mcp!NoneAssumption
<1>1. Mcp!TypeOK
  BY DEF Mcp!Init, Mcp!TypeOK, Mcp!Ages, Mcp!Idle
<1>2. Kept
  BY DEF Mcp!Init, Kept, CodesOfFlows, FlowsInOrder, DeskKept, RowKept, CallKept, IsBound, Holding, Mcp!Idle
<1>3. QED
  BY <1>1, <1>2

(* The invariant, with the types, holds throughout.                        *)
THEOREM SignInsInductive == Mcp!Spec => [](Mcp!TypeOK /\ Kept)
<1>1. Mcp!TypeOK /\ Kept /\ [Mcp!Next]_(Mcp!vars) => (Mcp!TypeOK /\ Kept)'
  <2> SUFFICES ASSUME Mcp!TypeOK, Kept, [Mcp!Next]_(Mcp!vars) PROVE Mcp!TypeOK' /\ Kept'
    OBVIOUS
  <2>1. Mcp!TypeOK'
    BY SignInTypeNext DEF Kept
  <2>2. CASE OfOwners
    BY <2>1, <2>2, OwnersKeep
  <2>3. CASE Mcp!Next /\ ~OfOwners
    BY <2>1, <2>3, GatewayKeeps
  <2>4. CASE UNCHANGED Mcp!vars
    <3>1. UNCHANGED <<flow, code, connection, provider, lock, call, desk, made, spoilt, overtaken>>
      BY <2>4 DEF Mcp!vars, Mcp!store, Mcp!world, Mcp!gateway, Mcp!bounds, Mcp!history
    <3>2. QED
      BY <2>1, <3>1 DEF Kept, CodesOfFlows, FlowsInOrder, DeskKept, RowKept, CallKept, InUse, Pending,
         Same, IsBound, Holding
  <2>5. QED
    BY <2>1, <2>2, <2>3, <2>4
<1>2. QED
  BY <1>1, SignInsInit, PTL DEF Mcp!Spec

(* A connection is of the sign-in its starter finished, and is not marked  *)
(* broken while the provider honours it and it can be renewed, however     *)
(* refreshes, retries, disconnects and crashes overlap (claim_mcp_oauth,   *)
(* Proxy.resolve, break_mcp_connection).                                   *)
THEOREM SignInsStay == Mcp!Spec => []SignInsAreKept
<1>1. Mcp!TypeOK /\ Kept => SignInsAreKept
  BY DEF Kept, RowKept, InUse, SignInsAreKept, Mcp!ConnectedByItsStarter,
     Mcp!WorkingSignInStays
<1>2. QED
  BY <1>1, SignInsInductive, PTL

(* A call that did not wait for the lock sends its token to the address    *)
(* the sign-in was for (connection_usable, forward).                       *)
THEOREM TokensStayAtHome == Mcp!Spec => []SentWhereItIsFor
<1>1. Mcp!TypeOK /\ Kept => SentWhereItIsFor
  BY DEF Kept, CallKept, IsBound, SentWhereItIsFor, Mcp!SentWhereItIsFor
<1>2. QED
  BY <1>1, SignInsInductive, PTL
=============================================================================
