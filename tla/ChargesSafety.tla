---------------------------- MODULE ChargesSafety ----------------------------
(***************************************************************************)
(* The lines of an agreement's month, for every number of linked accounts, *)
(* of groups AWS reports and of invoices: support is charged once, the     *)
(* program's discount is passed on once, the fee of the savings plans is   *)
(* charged once, and the journal and the report convert every amount       *)
(* alike.                                                                  *)
(***************************************************************************)
EXTENDS Charges, FiniteSetTheorems, WellFoundedInduction, TLAPS

(* What AWS reports of an account: a metric has the amount and the type of  *)
(* a group.                                                                 *)
RecordTypes == {"Usage", "Credit", "SPP", "SPCovered", "Support", "SPFee", "MARKETPLACE"}

UsageOK ==
    /\ IsFiniteSet(DOMAIN usage) /\ IsFiniteSet(AllMetrics)
    /\ \A a \in DOMAIN usage :
         /\ IsFiniteSet(usage[a])
         /\ \A m \in usage[a] : m.type \in RecordTypes /\ m.amount \in Int
         /\ \A m, n \in usage[a] : m.type = n.type /\ m.service = n.service => m = n

(* An invoiced entity with a rate is not one paid in dollars.               *)
RatesOK ==
    \A e \in DOMAIN invoice.entities :
        /\ invoice.entities[e].rate \in Nat
        /\ invoice.entities[e].rate > 0 => invoice.entities[e].currency # "USD"

LinesOK ==
    IF at = "done" THEN lines = UsageLines \cup AdditionalLines ELSE lines = {}

(* The inductive invariant.                                                 *)
CInv == UsageOK /\ RatesOK /\ LinesOK

-----------------------------------------------------------------------------
(* Sums.  The theorems of the library that say induction take an operator,  *)
(* which the provers do not instantiate; these take a set.                  *)

(* Induction, over a set of numbers.                                        *)
LEMMA Induction ==
    ASSUME NEW P \in SUBSET Nat, 0 \in P, \A n \in P : n + 1 \in P
    PROVE  P = Nat
  <1> SUFFICES ASSUME Nat \ P # {} PROVE FALSE
    OBVIOUS
  <1>1. PICK x \in Nat \ P : \A y \in Nat \ P : ~(<<y, x>> \in OpToRel(<, Nat))
    BY NatLessThanWellFounded, WFMin
  <1>2. x # 0 /\ x - 1 \in Nat /\ x - 1 < x /\ (x - 1) + 1 = x
    OBVIOUS
  <1>3. <<x - 1, x>> \in OpToRel(<, Nat)
    BY <1>2 DEF OpToRel
  <1> QED BY <1>1, <1>2, <1>3

(* Induction over the subsets of a finite set.                              *)
LEMMA SetInduction ==
    ASSUME NEW S, IsFiniteSet(S), NEW P \in SUBSET SUBSET S,
           \A s \in SUBSET S : (\A x \in s : s \ {x} \in P) => s \in P
    PROVE  P = SUBSET S
  <1> DEFINE Q == {n \in Nat : \A s \in SUBSET S : Cardinality(s) = n => s \in P}
  <1>1. 0 \in Q
    BY FS_Subset, FS_EmptySet
  <1>2. ASSUME NEW n \in Q PROVE n + 1 \in Q
    <2> SUFFICES ASSUME NEW s \in SUBSET S, Cardinality(s) = n + 1 PROVE s \in P
      OBVIOUS
    <2>1. IsFiniteSet(s)
      BY FS_Subset
    <2>2. ASSUME NEW x \in s PROVE s \ {x} \in P
      <3>1. Cardinality(s \ {x}) = Cardinality(s) - 1
        BY <2>1, FS_RemoveElement
      <3>2. s \ {x} \in SUBSET S /\ Cardinality(s \ {x}) = n
        BY <3>1
      <3> QED BY <3>2
    <2> QED BY <2>2
  <1> HIDE DEF Q
  <1>3. Q = Nat
    <2>1. Q \in SUBSET Nat
      BY DEF Q
    <2> QED BY <1>1, <1>2, <2>1, Induction
  <1>4. \A s \in SUBSET S : Cardinality(s) \in Nat
    BY FS_Subset, FS_CardinalityType
  <1> QED BY <1>3, <1>4 DEF Q

Picked(s) == CHOOSE x \in s : TRUE

(* g[s] is the sum of F over s, in the order the definition takes.          *)
OrderedSums(g, S, F) ==
    /\ g \in [SUBSET S -> Int] /\ g[{}] = 0
    /\ \A s \in SUBSET S : s # {} => g[s] = F[Picked(s)] + g[s \ {Picked(s)}]

(* The sum of a function over its finite domain is what its recursion says. *)
LEMMA SumUnfolds ==
    ASSUME NEW S, IsFiniteSet(S), NEW F \in [S -> Int]
    PROVE  \E g : OrderedSums(g, S, F) /\ SumFunction(F) = g[S]
  <1> DEFINE Body(g, s) == IF s = {} THEN 0 ELSE F[Picked(s)] + g[s \ {Picked(s)}]
             Upto(n) == \E h \in [SUBSET S -> Int] :
                           \A s \in SUBSET S : Cardinality(s) <= n => h[s] = Body(h, s)
             P == {n \in Nat : Upto(n)}
  <1>1. \A s \in SUBSET S : /\ IsFiniteSet(s) /\ Cardinality(s) \in Nat
                            /\ s # {} => /\ Picked(s) \in s /\ s \ {Picked(s)} \in SUBSET S
                                         /\ Cardinality(s \ {Picked(s)}) = Cardinality(s) - 1
    <2> TAKE s \in SUBSET S
    <2>1. IsFiniteSet(s) /\ Cardinality(s) \in Nat
      BY FS_Subset, FS_CardinalityType
    <2>2. s # {} => Picked(s) \in s
      BY DEF Picked
    <2> QED BY <2>1, <2>2, FS_RemoveElement
  <1>2. 0 \in P
    <2>1. [s \in SUBSET S |-> 0] \in [SUBSET S -> Int]
      OBVIOUS
    <2>2. \A s \in SUBSET S : Cardinality(s) <= 0 => s = {}
      <3> SUFFICES ASSUME NEW s \in SUBSET S, Cardinality(s) <= 0 PROVE s = {}
        OBVIOUS
      <3>1. IsFiniteSet(s) /\ Cardinality(s) \in Nat
        BY <1>1
      <3>2. Cardinality(s) = 0
        BY <3>1
      <3> QED BY <3>1, <3>2, FS_EmptySet
    <2> QED BY <2>1, <2>2
  <1>3. ASSUME NEW n \in P PROVE n + 1 \in P
    <2>1. PICK h \in [SUBSET S -> Int] :
             \A s \in SUBSET S : Cardinality(s) <= n => h[s] = Body(h, s)
      OBVIOUS
    <2> DEFINE k == [s \in SUBSET S |-> Body(h, s)]
    <2>2. k \in [SUBSET S -> Int]
      <3>1. ASSUME NEW s \in SUBSET S, s # {}
            PROVE  F[Picked(s)] \in Int /\ h[s \ {Picked(s)}] \in Int
        BY <1>1, <3>1
      <3>2. \A s \in SUBSET S : Body(h, s) \in Int
        <4> TAKE s \in SUBSET S
        <4> QED BY <3>1
      <3> HIDE DEF Body
      <3> QED BY <3>2
    <2>3. ASSUME NEW s \in SUBSET S, Cardinality(s) <= n + 1 PROVE k[s] = Body(k, s)
      <3>1. CASE s = {}
        BY <3>1
      <3>2. CASE s # {}
        <4> DEFINE r == s \ {Picked(s)}
        <4>1. r \in SUBSET S /\ Cardinality(r) <= n
          BY <1>1, <2>3, <3>2
        <4>2. h[r] = k[r]
          BY <2>1, <4>1
        <4> QED BY <3>2, <4>2
      <3> QED BY <3>1, <3>2
    <2> HIDE DEF k
    <2> QED BY <2>2, <2>3
  <1>4. P = Nat
    <2> HIDE DEF Upto
    <2>1. P \in SUBSET Nat
      OBVIOUS
    <2> HIDE DEF P
    <2> QED BY <1>2, <1>3, <2>1, Induction
  <1>5. PICK h \in [SUBSET S -> Int] : \A s \in SUBSET S : h[s] = Body(h, s)
    <2>1. S \in SUBSET S /\ Cardinality(S) \in Nat
      BY <1>1
    <2>2. Upto(Cardinality(S))
      BY <1>4, <2>1
    <2> QED BY <2>2, FS_Subset
  <1> DEFINE g == CHOOSE f : f = [s \in SUBSET S |-> Body(f, s)]
  <1>6. h = [s \in SUBSET S |-> Body(h, s)]
    BY <1>5
  <1>7. g = [s \in SUBSET S |-> Body(g, s)]
    BY <1>6
  <1>8. SumFunction(F) = g[S]
    BY DEF SumFunction, SumFunctionOnSet, FoldFunctionOnSet, MapThenFoldSet, Picked
  <1>9. \A s \in SUBSET S : g[s] = Body(g, s)
    BY <1>7
  <1> HIDE DEF g
  <1> DEFINE R == {s \in SUBSET S : g[s] \in Int}
  <1>10. R = SUBSET S
    <2>1. ASSUME NEW s \in SUBSET S, \A x \in s : s \ {x} \in R PROVE s \in R
      <3>1. CASE s = {}
        <4>1. g[s] = 0
          BY <1>9, <3>1
        <4> QED BY <4>1
      <3>2. CASE s # {}
        <4>1. Picked(s) \in s
          BY <1>1, <3>2
        <4>2. g[s \ {Picked(s)}] \in Int /\ F[Picked(s)] \in Int
          BY <2>1, <4>1
        <4>3. g[s] = F[Picked(s)] + g[s \ {Picked(s)}]
          BY <1>9, <3>2
        <4> QED BY <4>2, <4>3
      <3> QED BY <3>1, <3>2
    <2>2. R \in SUBSET SUBSET S
      OBVIOUS
    <2> HIDE DEF R
    <2> QED BY <2>1, <2>2, SetInduction
  <1>11. g \in [SUBSET S -> Int]
    BY <1>7, <1>10
  <1> QED BY <1>8, <1>9, <1>11 DEF OrderedSums

(* g[s] is the sum of F over s, whatever element is taken first.            *)
PartialSums(g, S, F) ==
    /\ g \in [SUBSET S -> Int] /\ g[{}] = 0
    /\ \A s \in SUBSET S : \A x \in s : g[s] = F[x] + g[s \ {x}]

LEMMA SumAnyOrder ==
    ASSUME NEW S, IsFiniteSet(S), NEW F \in [S -> Int]
    PROVE  \E g : PartialSums(g, S, F) /\ SumFunction(F) = g[S]
  <1>1. PICK g : OrderedSums(g, S, F) /\ SumFunction(F) = g[S]
    BY SumUnfolds
  <1> DEFINE P == {s \in SUBSET S : \A x \in s : g[s] = F[x] + g[s \ {x}]}
  <1>2. ASSUME NEW s \in SUBSET S, \A x \in s : s \ {x} \in P PROVE s \in P
    <2> SUFFICES ASSUME NEW x \in s PROVE g[s] = F[x] + g[s \ {x}]
      OBVIOUS
    <2> DEFINE c == Picked(s)
    <2>1. c \in s /\ g[s] = F[c] + g[s \ {c}]
      BY <1>1 DEF Picked, OrderedSums
    <2>2. CASE x = c
      BY <2>1, <2>2
    <2>3. CASE x # c
      <3>1. (s \ {c}) \ {x} = (s \ {x}) \ {c}
        OBVIOUS
      <3>2. g[s \ {c}] = F[x] + g[(s \ {c}) \ {x}]
        BY <1>2, <2>1, <2>3
      <3>3. g[s \ {x}] = F[c] + g[(s \ {x}) \ {c}]
        BY <1>2, <2>1, <2>3
      <3>4. F[x] \in Int /\ F[c] \in Int /\ g[(s \ {x}) \ {c}] \in Int
        BY <1>1, <2>1 DEF OrderedSums
      <3>5. g[(s \ {c}) \ {x}] = g[(s \ {x}) \ {c}]
        BY <3>1
      <3> HIDE DEF c
      <3> QED BY <2>1, <3>2, <3>3, <3>4, <3>5
    <2> QED BY <2>2, <2>3
  <1>3. P = SUBSET S
    <2>1. P \in SUBSET SUBSET S
      OBVIOUS
    <2> HIDE DEF P
    <2> QED BY <1>2, <2>1, SetInduction
  <1> QED BY <1>1, <1>3 DEF PartialSums, OrderedSums

(* A sum is a number.                                                       *)
LEMMA SumIsInt ==
    ASSUME NEW S, IsFiniteSet(S), NEW F \in [S -> Int]
    PROVE  SumFunction(F) \in Int
  <1>1. PICK g : PartialSums(g, S, F) /\ SumFunction(F) = g[S]
    BY SumAnyOrder
  <1> QED BY <1>1 DEF PartialSums

(* Of what is told apart the sum is the same under any names.               *)
LEMMA SumRenamed ==
    ASSUME NEW S, IsFiniteSet(S), NEW T, NEW F \in [S -> Int], NEW G \in [T -> Int],
           NEW f \in Bijection(S, T), \A x \in S : G[f[x]] = F[x]
    PROVE  SumFunction(G) = SumFunction(F)
  <1>1. IsFiniteSet(T)
    BY FS_Bijection DEF ExistsBijection
  <1>2. PICK g : PartialSums(g, S, F) /\ SumFunction(F) = g[S]
    BY SumAnyOrder
  <1>3. PICK h : PartialSums(h, T, G) /\ SumFunction(G) = h[T]
    BY <1>1, SumAnyOrder
  <1> DEFINE Image(s) == {f[x] : x \in s}
             P == {s \in SUBSET S : h[Image(s)] = g[s]}
  <1>4. /\ \A x \in S : f[x] \in T
        /\ \A x, y \in S : f[x] = f[y] => x = y
        /\ \A y \in T : \E x \in S : f[x] = y
    BY DEF Bijection, Injection, Surjection, IsInjective
  <1>5. ASSUME NEW s \in SUBSET S, \A x \in s : s \ {x} \in P PROVE s \in P
    <2>1. CASE s = {}
      <3>1. Image(s) = {}
        BY <2>1
      <3> QED BY <2>1, <3>1, <1>2, <1>3 DEF PartialSums
    <2>2. ASSUME NEW x \in s PROVE s \in P
      <3>1. Image(s) \ {f[x]} = Image(s \ {x})
        BY <1>4
      <3>2. f[x] \in Image(s) /\ Image(s) \in SUBSET T
        BY <1>4
      <3> HIDE DEF Image
      <3>3. h[Image(s)] = G[f[x]] + h[Image(s \ {x})]
        <4>1. h[Image(s)] = G[f[x]] + h[Image(s) \ {f[x]}]
          BY <1>3, <3>2 DEF PartialSums
        <4> QED BY <3>1, <4>1
      <3>4. h[Image(s \ {x})] = g[s \ {x}]
        BY <1>5
      <3>5. g[s] = F[x] + g[s \ {x}]
        BY <1>2 DEF PartialSums
      <3> QED BY <3>3, <3>4, <3>5
    <2> QED BY <2>1, <2>2
  <1>6. P = SUBSET S
    <2>1. P \in SUBSET SUBSET S
      OBVIOUS
    <2> HIDE DEF P
    <2> QED BY <1>5, <2>1, SetInduction
  <1>7. Image(S) = T
    BY <1>4
  <1>8. h[Image(S)] = g[S]
    BY <1>6
  <1> QED BY <1>2, <1>3, <1>7, <1>8

(* What is zero may be left out.                                            *)
LEMMA SumOfNonzero ==
    ASSUME NEW S, IsFiniteSet(S), NEW F \in [S -> Int]
    PROVE  SumFunction([x \in {y \in S : F[y] # 0} |-> F[x]]) = SumFunction(F)
  <1> DEFINE N == {y \in S : F[y] # 0}
             G == [x \in N |-> F[x]]
  <1>1. PICK g : PartialSums(g, S, F) /\ SumFunction(F) = g[S]
    BY SumAnyOrder
  <1>2. PICK h : PartialSums(h, N, G) /\ SumFunction(G) = h[N]
    <2>1. IsFiniteSet(N) /\ G \in [N -> Int]
      BY FS_Subset
    <2> HIDE DEF N, G
    <2> QED BY <2>1, SumAnyOrder
  <1> DEFINE P == {s \in SUBSET S : h[s \cap N] = g[s]}
  <1>3. ASSUME NEW s \in SUBSET S, \A x \in s : s \ {x} \in P PROVE s \in P
    <2>1. CASE s = {}
      <3>1. s \cap N = {}
        BY <2>1
      <3> HIDE DEF N, G
      <3> QED BY <2>1, <3>1, <1>1, <1>2 DEF PartialSums
    <2>2. ASSUME NEW x \in s PROVE s \in P
      <3>1. h[(s \ {x}) \cap N] = g[s \ {x}]
        BY <1>3
      <3>2. g[s] = F[x] + g[s \ {x}] /\ g[s \ {x}] \in Int
        BY <1>1 DEF PartialSums
      <3>3. CASE x \in N
        <4>1. (s \cap N) \ {x} = (s \ {x}) \cap N /\ G[x] = F[x]
          BY <3>3
        <4>2. s \cap N \in SUBSET N /\ x \in s \cap N
          BY <3>3
        <4> HIDE DEF N, G
        <4>3. h[s \cap N] = G[x] + h[(s \ {x}) \cap N]
          BY <1>2, <4>1, <4>2 DEF PartialSums
        <4> QED BY <3>1, <3>2, <4>1, <4>3
      <3>4. CASE x \notin N
        <4>1. s \cap N = (s \ {x}) \cap N /\ F[x] = 0
          BY <3>4
        <4> QED BY <3>1, <3>2, <4>1
      <3> QED BY <3>3, <3>4
    <2> QED BY <2>1, <2>2
  <1>4. P = SUBSET S
    <2>1. P \in SUBSET SUBSET S
      OBVIOUS
    <2> HIDE DEF P
    <2> QED BY <1>3, <2>1, SetInduction
  <1>5. S \cap N = N /\ S \in P
    BY <1>4
  <1> HIDE DEF N, G
  <1>6. SumFunction(G) = SumFunction(F)
    BY <1>1, <1>2, <1>5
  <1> QED BY <1>6 DEF N, G

(* Rounding loses or wins no more than a half.                              *)
LEMMA RoundWithinHalf ==
    ASSUME NEW n \in Int, NEW d \in Nat \ {0}
    PROVE  /\ Round(n, d) \in Int
           /\ 2 * (d * Round(n, d)) - 2 * n <= d /\ 2 * n - 2 * (d * Round(n, d)) <= d
  <1> DEFINE q == n \div d
             r == n % d
  <1>1. q \in Int /\ r \in 0..(d - 1) /\ n = d * q + r
    OBVIOUS
  <1>2. Round(n, d) = q \/ (Round(n, d) = q + 1 /\ 2 * r >= d)
    BY <1>1 DEF Round
  <1>3. Round(n, d) = q => 2 * r <= d
    BY <1>1 DEF Round
  <1> HIDE DEF q, r
  <1>4. d * (q + 1) = d * q + d
    BY <1>1
  <1>5. d * q \in Int /\ d * (q + 1) \in Int
    BY <1>1
  <1>6. CASE Round(n, d) = q
    BY <1>1, <1>3, <1>5, <1>6
  <1>7. CASE Round(n, d) = q + 1 /\ 2 * r >= d
    BY <1>1, <1>4, <1>5, <1>7
  <1> QED BY <1>2, <1>6, <1>7

(* A sum of positive numbers is positive.                                   *)
LEMMA SumPositive ==
    ASSUME NEW C, IsFiniteSet(C), C # {}, NEW w \in [C -> Nat \ {0}]
    PROVE  SumFunction(w) \in Nat \ {0}
  <1>1. w \in [C -> Int]
    OBVIOUS
  <1>2. PICK g : PartialSums(g, C, w) /\ SumFunction(w) = g[C]
    BY <1>1, SumAnyOrder
  <1> DEFINE P == {s \in SUBSET C : g[s] \in Nat /\ (s # {} => g[s] > 0)}
  <1>3. ASSUME NEW s \in SUBSET C, \A x \in s : s \ {x} \in P PROVE s \in P
    <2>1. CASE s = {}
      BY <1>2, <2>1 DEF PartialSums
    <2>2. ASSUME NEW x \in s PROVE s \in P
      <3>1. g[s \ {x}] \in Nat /\ w[x] \in Nat \ {0}
        BY <1>3
      <3>2. g[s] = w[x] + g[s \ {x}]
        BY <1>2 DEF PartialSums
      <3> QED BY <3>1, <3>2
    <2> QED BY <2>1, <2>2
  <1>4. P = SUBSET C
    <2>1. P \in SUBSET SUBSET C
      OBVIOUS
    <2> HIDE DEF P
    <2> QED BY <1>3, <2>1, SetInduction
  <1> QED BY <1>2, <1>4

(* A fee shared out by positive weights is charged up to the rounding of    *)
(* each share.                                                              *)
LEMMA SharedOut ==
    ASSUME NEW C, IsFiniteSet(C), C # {}, NEW w \in [C -> Nat \ {0}], NEW fee \in Int,
           NEW sh \in [C -> Int],
           \A a \in C : sh[a] = Round(fee * w[a], SumFunction(w))
    PROVE  2 * Abs(SumFunction(sh) - fee) <= Cardinality(C)
  <1>1. w \in [C -> Int]
    OBVIOUS
  <1>2. PICK g : PartialSums(g, C, w) /\ SumFunction(w) = g[C]
    BY <1>1, SumAnyOrder
  <1>3. PICK h : PartialSums(h, C, sh) /\ SumFunction(sh) = h[C]
    BY SumAnyOrder
  <1> DEFINE T == g[C]
             A == h[C]
             n == Cardinality(C)
  <1>4. \A s \in SUBSET C : /\ IsFiniteSet(s) /\ Cardinality(s) \in Nat
                            /\ \A x \in s : Cardinality(s) = Cardinality(s \ {x}) + 1
    <2> TAKE s \in SUBSET C
    <2>1. IsFiniteSet(s) /\ Cardinality(s) \in Nat
      BY FS_Subset, FS_CardinalityType
    <2>2. \A x \in s : Cardinality(s \ {x}) = Cardinality(s) - 1
      BY <2>1, FS_RemoveElement
    <2> QED BY <2>1, <2>2
  <1>5. T \in Nat \ {0}
    BY <1>2, SumPositive
  <1> HIDE DEF T
  <1> DEFINE Near(s) == /\ 2 * (T * h[s]) - 2 * (fee * g[s]) <= T * Cardinality(s)
                        /\ 2 * (fee * g[s]) - 2 * (T * h[s]) <= T * Cardinality(s)
             P == {s \in SUBSET C : Near(s)}
  <1>6. ASSUME NEW s \in SUBSET C, \A x \in s : s \ {x} \in P PROVE s \in P
    <2>1. CASE s = {}
      <3>1. g[s] = 0 /\ h[s] = 0 /\ Cardinality(s) = 0
        BY <1>2, <1>3, <2>1, FS_EmptySet DEF PartialSums
      <3> QED BY <1>5, <3>1
    <2>2. ASSUME NEW x \in s PROVE s \in P
      <3> DEFINE r == s \ {x}
      <3>1. g[s] = w[x] + g[r] /\ h[s] = sh[x] + h[r] /\ Cardinality(s) = Cardinality(r) + 1
        BY <1>2, <1>3, <1>4 DEF PartialSums
      <3>2. w[x] \in Int /\ sh[x] \in Int /\ g[r] \in Int /\ h[r] \in Int /\ Cardinality(r) \in Int
        BY <1>2, <1>3, <1>4 DEF PartialSums
      <3>3. Near(r)
        BY <1>6
      <3>4. 2 * (T * sh[x]) - 2 * (fee * w[x]) <= T /\ 2 * (fee * w[x]) - 2 * (T * sh[x]) <= T
        <4>1. fee * w[x] \in Int /\ sh[x] = Round(fee * w[x], T)
          BY <1>2, <3>2 DEF T
        <4> QED BY <1>5, <4>1, RoundWithinHalf
      <3> HIDE DEF r
      <3>5. /\ T * h[s] = T * sh[x] + T * h[r] /\ fee * g[s] = fee * w[x] + fee * g[r]
            /\ T * Cardinality(s) = T * Cardinality(r) + T
        <4>1. \A a, b, c \in Int : a * (b + c) = a * b + a * c
          OBVIOUS
        <4>2. T * h[s] = T * sh[x] + T * h[r]
          BY <1>5, <3>1, <3>2, <4>1
        <4>3. fee * g[s] = fee * w[x] + fee * g[r]
          BY <3>1, <3>2, <4>1
        <4>4. T * Cardinality(s) = T * Cardinality(r) + T * 1 /\ T * 1 = T
          BY <1>5, <3>1, <3>2, <4>1
        <4> QED BY <4>2, <4>3, <4>4
      <3>6. /\ T * sh[x] \in Int /\ T * h[r] \in Int /\ fee * w[x] \in Int /\ fee * g[r] \in Int
            /\ T * Cardinality(r) \in Int /\ T \in Int
        BY <1>5, <3>2
      <3> QED BY <3>3, <3>4, <3>5, <3>6
    <2> QED BY <2>1, <2>2
  <1>7. P = SUBSET C
    <2>1. P \in SUBSET SUBSET C
      OBVIOUS
    <2> HIDE DEF P
    <2> QED BY <1>6, <2>1, SetInduction
  <1>8. Near(C)
    BY <1>7
  <1>9. A \in Int /\ n \in Nat
    BY <1>3, <1>4 DEF PartialSums
  <1>10. T * (2 * (A - fee)) <= T * n /\ T * (2 * (fee - A)) <= T * n
    <2>1. 2 * (T * A) - 2 * (fee * T) <= T * n /\ 2 * (fee * T) - 2 * (T * A) <= T * n
      BY <1>8 DEF T
    <2> HIDE DEF A, n
    <2>2. T * (2 * (A - fee)) = 2 * (T * A) - 2 * (fee * T)
          /\ T * (2 * (fee - A)) = 2 * (fee * T) - 2 * (T * A)
      BY <1>5, <1>9
    <2> QED BY <2>1, <2>2
  <1> HIDE DEF A, n
  <1>11. 2 * (A - fee) <= n /\ 2 * (fee - A) <= n
    <2>1. \A x, y \in Int : T * x <= T * y => x <= y
      BY <1>5
    <2> QED BY <1>9, <1>10, <2>1
  <1> QED BY <1>3, <1>9, <1>11 DEF A, n, Abs

-----------------------------------------------------------------------------
(* The least of some numbers is one of them.                                *)
LEMMA MinIn ==
    ASSUME NEW S \in SUBSET Nat, S # {}
    PROVE  Min(S) \in S
  <1>1. \E x \in S : \A y \in S : ~(<<y, x>> \in OpToRel(<, Nat))
    BY NatLessThanWellFounded, WFMin
  <1>2. \A x \in S : \A y \in S : ~(<<y, x>> \in OpToRel(<, Nat)) => x =< y
    BY DEF OpToRel
  <1> QED BY <1>1, <1>2 DEF Min

(* The highest rate is one of the rates.                                    *)
LEMMA MaxIn ==
    ASSUME NEW S \in SUBSET {0, 2, 3}, S # {}
    PROVE  Max(S) \in S
  <1>1. \E x \in S : \A y \in S : x >= y
    <2>1. CASE 3 \in S
      BY <2>1
    <2>2. CASE 3 \notin S /\ 2 \in S
      BY <2>2
    <2>3. CASE S = {0}
      BY <2>3
    <2> QED BY <2>1, <2>2, <2>3
  <1> QED BY <1>1 DEF Max

(* get_rate and get_payment_currency ask different questions of the month's *)
(* invoices, yet a rate comes with a currency that needs it.                *)
LEMMA RateHasCurrency ==
    ASSUME NEW n \in Nat, NEW raw \in [1..n -> Invoices], NEW currency, NEW e
    PROVE  /\ Entity(raw, currency, e).rate \in Nat
           /\ Entity(raw, currency, e).rate > 0 => Entity(raw, currency, e).currency # "USD"
  <1> DEFINE rate == ExchangeRate(raw, currency, e[1])
             same == {i \in DOMAIN raw : raw[i].paid.rate = rate}
  <1>1. \A i \in DOMAIN raw : /\ raw[i].paid.rate \in {0, 2, 3} /\ i \in Nat
                              /\ raw[i].paid.rate > 0 => raw[i].paid.currency # "USD"
    BY DEF Invoices, Payments
  <1>2. rate = 0 \/ \E i \in DOMAIN raw : raw[i].paid.rate = rate
    <2> DEFINE own == RatesOf(raw, currency, e[1])
               rates == (IF own # {} THEN own ELSE RatesIn(raw, currency)) \cup {0}
    <2>1. \A r \in rates : r = 0 \/ \E i \in DOMAIN raw : raw[i].paid.rate = r
      BY DEF RatesOf, RatesIn
    <2>2. rates \in SUBSET {0, 2, 3} /\ rates # {}
      BY <1>1, <2>1
    <2>3. rate = Max(rates)
      BY DEF ExchangeRate
    <2> HIDE DEF rates, rate
    <2> QED BY <2>1, <2>2, <2>3, MaxIn
  <1>3. Entity(raw, currency, e).rate = rate
        /\ Entity(raw, currency, e).currency = IF same = {} THEN "USD" ELSE raw[Min(same)].paid.currency
    BY DEF Entity, PaymentCurrency
  <1> HIDE DEF rate
  <1>4. same # {} => Min(same) \in same
    BY <1>1, MinIn
  <1> QED BY <1>1, <1>2, <1>3, <1>4

(* What is computed of each of finitely many things is finite.              *)
LEMMA ImageFinite ==
    ASSUME NEW S, IsFiniteSet(S), NEW f, DOMAIN f = S
    PROVE  IsFiniteSet({f[x] : x \in S})
  <1> DEFINE T == {f[x] : x \in S}
  <1>1. [x \in S |-> f[x]] \in Surjection(S, T)
    BY DEF Surjection
  <1> QED BY <1>1, FS_Surjection

(* AWS has finitely many groups to report.                                  *)
LEMMA GroupsFinite == \A a : IsFiniteSet(Groups(a))
  <1>1. ASSUME NEW type, NEW service, NEW amounts, IsFiniteSet(amounts)
        PROVE  IsFiniteSet(Group(type, service, amounts))
    <2> DEFINE f == [x \in amounts |-> [type |-> type, service |-> service, amount |-> x]]
    <2>1. IsFiniteSet({f[x] : x \in amounts})
      <3> HIDE DEF f
      <3>1. DOMAIN f = amounts
        BY DEF f
      <3> QED BY <1>1, <3>1, ImageFinite
    <2>2. {f[x] : x \in amounts} = Group(type, service, amounts)
      BY DEF Group
    <2> QED BY <2>1, <2>2
  <1>2. \A x : IsFiniteSet({x})
    BY FS_Singleton
  <1>3. \A x, y : IsFiniteSet({x, y})
    <2> TAKE x, y
    <2>1. {x, y} = {x} \cup {y}
      OBVIOUS
    <2>2. IsFiniteSet({x}) /\ IsFiniteSet({y})
      BY <1>2
    <2> QED BY <2>1, <2>2, FS_Union
  <1>4. IsFiniteSet(LinkedGroups)
    <2>1. IsFiniteSet(Group("Usage", "EC2", {200, -100}) \cup Group("Credit", "EC2", {-200}))
      BY <1>1, <1>2, <1>3, FS_Union
    <2>2. IsFiniteSet(Group("SPP", "EC2", {-20}) \cup Group("SPCovered", "EC2", {100}))
      BY <1>1, <1>2, FS_Union
    <2>3. LinkedGroups = (Group("Usage", "EC2", {200, -100}) \cup Group("Credit", "EC2", {-200}))
                         \cup (Group("SPP", "EC2", {-20}) \cup Group("SPCovered", "EC2", {100}))
      BY Zenon DEF LinkedGroups
    <2> QED BY <2>1, <2>2, <2>3, FS_Union
  <1>5. IsFiniteSet(PayerGroups)
    <2> DEFINE A == Group("Usage", "EC2", {100}) \cup Group("SPCovered", "EC2", {100, 200})
               B == Group("Credit", Enterprise, {-100}) \cup Group("Support", Enterprise, {0, 100})
               C == Group("SPP", Enterprise, {-10}) \cup Group("SPFee", "Savings Plans", {5})
               D == Group("MARKETPLACE", "Tax", {40}) \cup Group("MARKETPLACE", "SaaS", {60})
    <2>1. IsFiniteSet(A)
      BY <1>1, <1>2, <1>3, FS_Union
    <2>2. IsFiniteSet(B)
      BY <1>1, <1>2, <1>3, FS_Union
    <2>3. IsFiniteSet(C)
      BY <1>1, <1>2, FS_Union
    <2>4. IsFiniteSet(D)
      BY <1>1, <1>2, FS_Union
    <2>5. PayerGroups = (A \cup B) \cup (C \cup D)
      BY Zenon DEF PayerGroups
    <2> HIDE DEF A, B, C, D
    <2>6. IsFiniteSet(A \cup B) /\ IsFiniteSet(C \cup D)
      BY <2>1, <2>2, <2>3, <2>4, FS_Union
    <2> QED BY <2>5, <2>6, FS_Union
  <1> QED BY <1>4, <1>5 DEF Groups

(* A metric of a report has the amount and the type of one of its groups.   *)
LEMMA MetricTypes ==
    ASSUME NEW a, NEW k, NEW report \in Reports(Groups(a), k), NEW m \in Metrics(report)
    PROVE  m.type \in RecordTypes /\ m.amount \in Int
  <1>1. report \subseteq Groups(a)
    BY DEF Reports, kSubset
  <1> DEFINE Good(g) == g.type \in RecordTypes /\ g.amount \in Int
  <1>2. ASSUME NEW type \in RecordTypes, NEW service, NEW amounts \in SUBSET Int
        PROVE  \A g \in Group(type, service, amounts) : Good(g)
    BY DEF Group
  <1> DEFINE Of(type, service, amounts) == \A g \in Group(type, service, amounts) : Good(g)
  <1>3. /\ Of("Usage", "EC2", {100}) /\ Of("SPCovered", "EC2", {100, 200})
        /\ Of("Credit", Enterprise, {-100}) /\ Of("Support", Enterprise, {0, 100})
        /\ Of("SPP", Enterprise, {-10}) /\ Of("SPFee", "Savings Plans", {5})
        /\ Of("MARKETPLACE", "Tax", {40}) /\ Of("MARKETPLACE", "SaaS", {60})
    <2>1. Of("Usage", "EC2", {100}) /\ Of("SPCovered", "EC2", {100, 200})
      BY <1>2 DEF RecordTypes
    <2>2. Of("Credit", Enterprise, {-100}) /\ Of("Support", Enterprise, {0, 100})
      BY <1>2 DEF RecordTypes
    <2>3. Of("SPP", Enterprise, {-10})
      BY <1>2 DEF RecordTypes
    <2>5. Of("SPFee", "Savings Plans", {5})
      <3>1. "SPFee" \in RecordTypes
        BY DEF RecordTypes
      <3>2. {5} \in SUBSET Int
        OBVIOUS
      <3> HIDE DEF Good
      <3> QED BY <3>1, <3>2, <1>2
    <2>4. Of("MARKETPLACE", "Tax", {40}) /\ Of("MARKETPLACE", "SaaS", {60})
      BY <1>2 DEF RecordTypes
    <2> QED BY <2>1, <2>2, <2>3, <2>4, <2>5
  <1>4. /\ Of("Usage", "EC2", {200, -100}) /\ Of("Credit", "EC2", {-200})
        /\ Of("SPP", "EC2", {-20}) /\ Of("SPCovered", "EC2", {100})
    BY <1>2 DEF RecordTypes
  <1> HIDE DEF Good
  <1>5. \A g \in Groups(a) : Good(g)
    <2>1. ASSUME NEW g \in PayerGroups PROVE Good(g)
      <3>1. CASE \/ g \in Group("Usage", "EC2", {100})
                 \/ g \in Group("SPCovered", "EC2", {100, 200})
                 \/ g \in Group("Credit", Enterprise, {-100})
        BY <3>1, <1>3
      <3>2. CASE \/ g \in Group("Support", Enterprise, {0, 100})
                 \/ g \in Group("SPP", Enterprise, {-10})
                 \/ g \in Group("SPFee", "Savings Plans", {5})
        BY <3>2, <1>3
      <3>3. CASE \/ g \in Group("MARKETPLACE", "Tax", {40})
                 \/ g \in Group("MARKETPLACE", "SaaS", {60})
        BY <3>3, <1>3
      <3> QED BY Zenon, <3>1, <3>2, <3>3 DEF PayerGroups
    <2>2. \A g \in LinkedGroups : Good(g)
      BY <1>4 DEF LinkedGroups
    <2> QED BY <2>1, <2>2 DEF Groups
  <1> QED BY <1>1, <1>5 DEF Good, Metrics

(* A report has finitely many metrics, one of a type and a service.         *)
LEMMA ReportedMetrics ==
    ASSUME NEW a, NEW k, NEW report \in Reports(Groups(a), k)
    PROVE  /\ IsFiniteSet(Metrics(report))
           /\ \A m \in Metrics(report) : m.type \in RecordTypes /\ m.amount \in Int
           /\ \A m, n \in Metrics(report) : m.type = n.type /\ m.service = n.service => m = n
  <1>1. report \subseteq Groups(a)
        /\ \A g, h \in report : g.type = h.type /\ g.service = h.service => g = h
    BY DEF Reports, kSubset
  <1> DEFINE R == {h \in report : h.amount # 0}
             f == [g \in R |-> [type |-> g.type, service |-> g.service, amount |-> g.amount,
                                entity |-> EntityOf(g)]]
  <1>2. Metrics(report) = {f[g] : g \in R}
    BY DEF Metrics
  <1>3. IsFiniteSet(R)
    BY <1>1, GroupsFinite, FS_Subset
  <1>4. IsFiniteSet(Metrics(report))
    <2>1. DOMAIN f = R
      OBVIOUS
    <2> HIDE DEF R, f
    <2> QED BY <1>2, <1>3, <2>1, ImageFinite
  <1>5. \A m, n \in Metrics(report) : m.type = n.type /\ m.service = n.service => m = n
    BY <1>1 DEF Metrics
  <1> QED BY <1>4, <1>5, MetricTypes

(* The lines are those of the parameters, the invoices and the usage.       *)
LEMMA LinesSame ==
    ASSUME UNCHANGED <<params, invoice, usage>>
    PROVE  UsageLines' = UsageLines /\ AdditionalLines' = AdditionalLines
  <1> USE DEF Line, OrganizationLine, PartnerLed, HasEnterprise, AllMetrics, Resolved, Known
  <1>1. UsageLines' = UsageLines
    BY DEF UsageLines, UsageLine, Billed, Sku, SppOf, Recovery
  <1>2. Distribution' = Distribution
    BY DEF Distribution, Share, Fee, Covered, TotalCovered, CoveredOf, TotalOf, OfTypes
  <1>3. PlsCharge' = PlsCharge
    BY DEF PlsCharge, TotalOf, OfTypes
  <1>4. ServiceDiscount' = ServiceDiscount
    BY DEF ServiceDiscount, Discount, TotalOf, OfTypes, SppWhere
  <1>5. SupportDiscount' = SupportDiscount
    BY DEF SupportDiscount, Discount, TotalOf, OfTypes, SppWhere
  <1>6. PlsDiscount' = PlsDiscount
    BY DEF PlsDiscount, Discount, TotalOf, OfTypes, SppWhere
  <1> QED BY <1>1, <1>2, <1>3, <1>4, <1>5, <1>6 DEF AdditionalLines

-----------------------------------------------------------------------------
(* The invariant is inductive.                                              *)
LEMMA InitCharges == Init => CInv
  <1> SUFFICES ASSUME Init PROVE CInv
    OBVIOUS
  <1>1. DOMAIN usage = {} /\ AllMetrics = {}
    BY DEF Init, AllMetrics
  <1>2. UsageOK /\ LinesOK
    BY <1>1, FS_EmptySet DEF Init, UsageOK, LinesOK
  <1>3. DOMAIN invoice.entities = {}
    BY DEF Init, OrganizationInvoice
  <1> QED BY <1>2, <1>3 DEF CInv, RatesOK

LEMMA StepCharges ==
    ASSUME CInv, [Next]_vars
    PROVE  CInv'
  <1>1. CASE ReadInvoices
    <2>1. UsageOK' /\ LinesOK'
      BY <1>1 DEF CInv, ReadInvoices, UsageOK, AllMetrics, LinesOK
    <2>2. PICK n \in 0..MaxInvoices : \E raw \in [1..n -> Invoices] :
             invoice' = OrganizationInvoice(raw, params.currency)
      BY <1>1 DEF ReadInvoices
    <2>3. PICK raw \in [1..n -> Invoices] :
             invoice' = OrganizationInvoice(raw, params.currency)
      BY <2>2
    <2>4. \A e \in DOMAIN invoice'.entities :
             invoice'.entities[e] = Entity(raw, params.currency, e)
      BY <2>3 DEF OrganizationInvoice
    <2>5. RatesOK'
      BY <2>4, RateHasCurrency DEF RatesOK
    <2> QED BY <2>1, <2>5 DEF CInv
  <1>2. CASE \E a \in Accounts : ReadAccount(a)
    <2>1. PICK a \in Accounts : ReadAccount(a)
      BY <1>2
    <2>2. PICK report \in Reports(Groups(a), MaxGroups - Cardinality(AllMetrics)) :
            usage' = [b \in DOMAIN usage \cup {a} |-> IF b = a THEN Metrics(report) ELSE usage[b]]
      BY <2>1 DEF ReadAccount
    <2> DEFINE M == Metrics(report)
               f == [m \in M |-> <<a, m>>]
    <2>3. UsageOK'
      <3>1. /\ IsFiniteSet(M) /\ \A m \in M : m.type \in RecordTypes /\ m.amount \in Int
            /\ \A m, n \in M : m.type = n.type /\ m.service = n.service => m = n
        BY ReportedMetrics
      <3>2. a \notin DOMAIN usage
        BY <2>1 DEF ReadAccount
      <3>3. DOMAIN usage' = DOMAIN usage \cup {a} /\ usage'[a] = M
            /\ \A b \in DOMAIN usage : usage'[b] = usage[b]
        BY <2>2, <3>2
      <3>4. AllMetrics' = AllMetrics \cup {f[m] : m \in M}
        BY <3>2, <3>3 DEF AllMetrics
      <3>5. IsFiniteSet({f[m] : m \in M})
        <4>1. DOMAIN f = M
          OBVIOUS
        <4> HIDE DEF M, f
        <4> QED BY <3>1, <4>1, ImageFinite
      <3> HIDE DEF M, f
      <3>6. IsFiniteSet(AllMetrics') /\ IsFiniteSet(DOMAIN usage')
        BY <3>3, <3>4, <3>5, FS_Union, FS_AddElement DEF CInv, UsageOK
      <3> QED BY <3>1, <3>2, <3>3, <3>6 DEF CInv, UsageOK
    <2>4. RatesOK' /\ LinesOK'
      BY <2>1 DEF CInv, ReadAccount, RatesOK, LinesOK
    <2> QED BY <2>3, <2>4 DEF CInv
  <1>3. CASE GenerateLines
    <2>1. UsageOK' /\ RatesOK'
      BY <1>3 DEF CInv, GenerateLines, UsageOK, AllMetrics, RatesOK
    <2>2. lines' = UsageLines \cup AdditionalLines /\ at' = "done"
          /\ UNCHANGED <<params, invoice, usage>>
      BY <1>3 DEF GenerateLines
    <2>3. UsageLines' = UsageLines /\ AdditionalLines' = AdditionalLines
      BY <2>2, LinesSame
    <2> QED BY <2>1, <2>2, <2>3 DEF CInv, LinesOK
  <1>4. CASE UNCHANGED vars
    BY <1>4, LinesSame DEF CInv, vars, UsageOK, AllMetrics, RatesOK, LinesOK
  <1> QED BY <1>1, <1>2, <1>3, <1>4 DEF Next

(* The inductive invariant holds throughout.                                *)
THEOREM ChargesInvariant == Spec => []CInv
  <1> QED BY InitCharges, StepCharges, PTL DEF Spec

-----------------------------------------------------------------------------
(* Each line says what it is about: a line of the usage the type and the    *)
(* service of a metric, any other the name of its processor.                *)
LEMMA LinesOf ==
    ASSUME CInv, at = "done"
    PROVE  /\ \A l \in About("recovery") : invoice.principal = 0
           /\ \A l \in Discounts : invoice.principal # 0
           /\ \A l \in About("PLS") : PartnerLed /\ l \in PlsCharge
           /\ \A l \in About("Support") :
                 \E a \in DOMAIN usage : \E m \in usage[a] :
                    Billed(m) /\ m.type = "Support" /\ l = UsageLine(a, m)
           /\ PlsCharge \subseteq About("PLS")
           /\ About("share") = Distribution
           /\ About("SPFee") = {UsageLine(x[1], x[2]) : x \in {y \in OfTypes({"SPFee"}) : Billed(y[2])}}
  <1> DEFINE OfUsage(l) == \E a \in DOMAIN usage : \E m \in usage[a] :
                               Billed(m) /\ m.type \in RecordTypes /\ l = UsageLine(a, m)
             Named(l, n) == l.about[1] = n
  <1>1. \A l \in lines :
           \/ OfUsage(l)
           \/ invoice.principal = 0 /\ Named(l, "recovery")
           \/ l \in Distribution /\ Named(l, "share")
           \/ l \in PlsCharge /\ Named(l, "PLS") /\ PartnerLed
           \/ /\ invoice.principal # 0
              /\ \/ Named(l, "service discount") \/ Named(l, "support discount")
                 \/ Named(l, "PLS discount")
    <2> SUFFICES ASSUME NEW l \in UsageLines \cup AdditionalLines
                 PROVE  \/ OfUsage(l)
                        \/ invoice.principal = 0 /\ Named(l, "recovery")
                        \/ l \in Distribution /\ Named(l, "share")
                        \/ l \in PlsCharge /\ Named(l, "PLS") /\ PartnerLed
                        \/ /\ invoice.principal # 0
                           /\ \/ Named(l, "service discount") \/ Named(l, "support discount")
                              \/ Named(l, "PLS discount")
      BY DEF CInv, LinesOK
    <2>1. CASE l \in UsageLines
      <3>1. PICK a \in DOMAIN usage :
               l \in {UsageLine(a, m) : m \in {x \in usage[a] : Billed(x)}} \cup Recovery(a)
        BY <2>1 DEF UsageLines
      <3>2. CASE l \in {UsageLine(a, m) : m \in {x \in usage[a] : Billed(x)}}
        BY <3>2 DEF CInv, UsageOK
      <3>3. CASE l \in Recovery(a)
        <4>1. /\ invoice.principal = 0
              /\ \E m \in usage[a] : l = Line(<<"recovery", m.service>>, a, "additional",
                                           Resolved(m.amount, m.entity), FALSE)
          BY <3>3 DEF Recovery
        <4>2. \A service, amount :
                 Line(<<"recovery", service>>, a, "additional", amount, FALSE).about[1] = "recovery"
          BY DEF Line
        <4> QED BY <4>1, <4>2
      <3> QED BY <3>1, <3>2, <3>3
    <2>2. \A name, applies, base : l \in Discount(name, applies, base) =>
             invoice.principal # 0 /\ Named(l, name)
      BY DEF Discount, OrganizationLine, Line
    <2>3. CASE l \in ServiceDiscount \cup SupportDiscount \cup PlsDiscount
      BY <2>2, <2>3 DEF ServiceDiscount, SupportDiscount, PlsDiscount
    <2>4. CASE l \in PlsCharge
      <3>1. PartnerLed /\ \E amount : l = OrganizationLine("PLS", amount)
        BY <2>4 DEF PlsCharge
      <3> QED BY <2>4, <3>1 DEF OrganizationLine, Line
    <2>5. CASE l \in Distribution
      <3>1. \E a, amount : l = Line(<<"share">>, a, "usage", amount, FALSE)
        BY <2>5 DEF Distribution
      <3> QED BY <2>5, <3>1 DEF Line
    <2> QED BY <2>1, <2>3, <2>4, <2>5 DEF AdditionalLines
  <1>2. \A l : OfUsage(l) => l.about[1] \in RecordTypes
    BY DEF UsageLine, Line
  <1>3. \A l : \A a \in DOMAIN usage : \A m \in usage[a] :
           l = UsageLine(a, m) => l.about[1] = m.type
    BY DEF UsageLine, Line
  <1>4. PlsCharge \subseteq lines /\ \A l \in PlsCharge : Named(l, "PLS")
    BY DEF CInv, LinesOK, AdditionalLines, PlsCharge, OrganizationLine, Line
  <1>5. About("SPFee") \subseteq {UsageLine(x[1], x[2]) : x \in {y \in OfTypes({"SPFee"}) : Billed(y[2])}}
    <2> SUFFICES ASSUME NEW l \in About("SPFee")
                 PROVE  \E x \in OfTypes({"SPFee"}) : Billed(x[2]) /\ l = UsageLine(x[1], x[2])
      OBVIOUS
    <2>0. PICK a \in DOMAIN usage :
             \E m \in usage[a] : Billed(m) /\ m.type \in RecordTypes /\ l = UsageLine(a, m)
      BY <1>1 DEF About
    <2>1. PICK m \in usage[a] : Billed(m) /\ l = UsageLine(a, m)
      BY <2>0
    <2>2. m.type = "SPFee"
      BY <1>3, <2>1 DEF About
    <2>3. <<a, m>> \in OfTypes({"SPFee"})
      BY <2>2 DEF OfTypes, AllMetrics
    <2> QED BY <2>1, <2>3
  <1>6. {UsageLine(x[1], x[2]) : x \in {y \in OfTypes({"SPFee"}) : Billed(y[2])}} \subseteq About("SPFee")
    <2> SUFFICES ASSUME NEW a \in DOMAIN usage, NEW m \in usage[a], m.type = "SPFee", Billed(m)
                 PROVE  UsageLine(a, m) \in About("SPFee")
      BY DEF OfTypes, AllMetrics
    <2>1. UsageLine(a, m) \in lines
      BY DEF CInv, LinesOK, UsageLines
    <2> QED BY <1>3, <2>1 DEF About
  <1> HIDE DEF OfUsage
  <1>7. About("share") = Distribution
    <2>1. \A l \in About("share") : l \in Distribution
      BY <1>1, <1>2 DEF About, RecordTypes
    <2>2. \A l \in Distribution : l \in lines /\ l.about[1] = "share"
      BY DEF CInv, LinesOK, AdditionalLines, Distribution, Line
    <2> QED BY <2>1, <2>2 DEF About
  <1>8. \A l \in About("recovery") : invoice.principal = 0
    BY <1>1, <1>2 DEF About, RecordTypes
  <1>9. \A l \in Discounts : invoice.principal # 0
    BY <1>1, <1>2 DEF About, Discounts, RecordTypes
  <1>10. \A l \in About("PLS") : PartnerLed /\ l \in PlsCharge
    BY <1>1, <1>2 DEF About, RecordTypes
  <1>11. \A l \in About("Support") : OfUsage(l)
    BY <1>1 DEF About
  <1>12. PlsCharge \subseteq About("PLS")
    BY <1>4 DEF About
  <1>13. \A l \in About("Support") :
            \E a \in DOMAIN usage : \E m \in usage[a] :
               Billed(m) /\ m.type = "Support" /\ l = UsageLine(a, m)
    <2> SUFFICES ASSUME NEW l \in About("Support")
                 PROVE  \E a \in DOMAIN usage : \E m \in usage[a] :
                           Billed(m) /\ m.type = "Support" /\ l = UsageLine(a, m)
      OBVIOUS
    <2>1. PICK a \in DOMAIN usage : \E m \in usage[a] : Billed(m) /\ l = UsageLine(a, m)
      BY <1>11 DEF OfUsage
    <2>2. l.about[1] = "Support"
      BY DEF About
    <2> QED BY <1>3, <2>1, <2>2
  <1> QED BY <1>5, <1>6, <1>7, <1>8, <1>9, <1>10, <1>12, <1>13

(* The program's discount is given back beside a credit, or is the base of  *)
(* a discount of the agreement, never both: the invoice of nothing that     *)
(* asks for the one (_process_credit_with_spp) forbids the other.           *)
THEOREM DiscountOnce == Spec => []DiscountGivenOnce
  <1>1. CInv => DiscountGivenOnce
    <2>1. CASE at = "done"
      BY <2>1, LinesOf DEF DiscountGivenOnce
    <2>2. CASE at # "done"
      BY <2>2 DEF CInv, LinesOK, DiscountGivenOnce, About
    <2> QED BY <2>1, <2>2
  <1> QED BY <1>1, ChargesInvariant, PTL

(* Enterprise support is charged by AWS's lines or by the program's, never  *)
(* by both, and by one of them where AWS asks for it and there is something *)
(* to pay: a line processor and PlSChargeProcessor decide it apart.         *)
THEOREM SupportOnce == Spec => []SupportChargedOnce
  <1>1. CInv => SupportChargedOnce
    <2> DEFINE resold == {l \in About("Support") : l.about[2] = Enterprise}
               asked == {x \in OfTypes({"Support"}) : x[2].service = Enterprise}
               led == About("PLS")
    <2> SUFFICES ASSUME CInv, at = "done"
                 PROVE  /\ resold = {} \/ led = {}
                        /\ asked # {} /\ resold \cup led = {}
                             => \/ invoice.principal = 0 \/ PlsPercent = 0
                                \/ ~(TotalOf(OfTypes({"Usage"})) > 0)
      BY DEF SupportChargedOnce
    <2>1. \A a \in DOMAIN usage : \A m \in usage[a] :
             Billed(m) /\ m.type = "Support" /\ UsageLine(a, m).about[2] = Enterprise
                => ~PartnerLed
      BY DEF Billed, UsageLine, Line
    <2>2. resold = {} \/ led = {}
      BY <2>1, LinesOf
    <2>3. ASSUME asked # {}, resold \cup led = {}
          PROVE  \/ invoice.principal = 0 \/ PlsPercent = 0
                 \/ ~(TotalOf(OfTypes({"Usage"})) > 0)
      <3>1. PICK a \in DOMAIN usage : \E m \in usage[a] :
               m.type = "Support" /\ m.service = Enterprise
        BY <2>3 DEF OfTypes, AllMetrics
      <3>2. PICK m \in usage[a] : m.type = "Support" /\ m.service = Enterprise
        BY <3>1
      <3>3. UsageLine(a, m).about = <<"Support", Enterprise>>
        BY <3>2 DEF UsageLine, Line
      <3>4. ~Billed(m)
        <4>1. Billed(m) => UsageLine(a, m) \in lines
          BY DEF CInv, LinesOK, UsageLines
        <4> QED BY <2>3, <3>3, <4>1 DEF About
      <3>5. PartnerLed
        BY <3>2, <3>4 DEF Billed, Ignored
      <3>6. PlsCharge = {}
        BY <2>3, LinesOf
      <3> QED BY <3>5, <3>6, ChargesAssumption DEF PlsCharge
    <2> QED BY <2>2, <2>3
  <1> QED BY <1>1, ChargesInvariant, PTL

(* resolve_service_amount converts an amount of the journal by the entity's *)
(* currency and rate, _resolve_exchange_rate one of the report by the rate  *)
(* alone: they agree, as a rate is never kept with dollars.                 *)
THEOREM ConvertedOnce == Spec => []ConvertedAlike
  <1>1. CInv => ConvertedAlike
    <2> SUFFICES ASSUME CInv, NEW x \in AllMetrics
                 PROVE  Resolved(x[2].amount, x[2].entity) = x[2].amount * ReportRate(x[2].entity)
      BY DEF ConvertedAlike
    <2>1. x[2].amount \in Int
      BY DEF CInv, UsageOK, AllMetrics
    <2> QED BY <2>1 DEF CInv, RatesOK, Resolved, ReportRate, Known
  <1> QED BY <1>1, ChargesInvariant, PTL

(* What the journal charges for a metric is a number.                       *)
LEMMA ResolvedIsInt ==
    ASSUME CInv, NEW x \in AllMetrics
    PROVE  Resolved(x[2].amount, x[2].entity) \in Int
  <1>1. x[2].amount \in Int
    BY DEF CInv, UsageOK, AllMetrics
  <1>2. Known(x[2].entity) => invoice.entities[x[2].entity].rate \in Nat
    BY DEF CInv, RatesOK, Known
  <1> QED BY <1>1, <1>2 DEF Resolved

(* A fee that is not shared out: the payer's lines carry all of it, as no   *)
(* two metrics make the same line.                                          *)
LEMMA WholeFee ==
    ASSUME CInv, at = "done", ~params.split
    PROVE  AmountOf(About("SPFee") \cup About("share")) = Fee
  <1> DEFINE S == OfTypes({"SPFee"})
             charged == About("SPFee") \cup About("share")
             F == [x \in S |-> Resolved(x[2].amount, x[2].entity)]
             G == [l \in charged |-> l.amount]
             f == [x \in S |-> UsageLine(x[1], x[2])]
  <1>1. \A x \in S : /\ x[1] \in DOMAIN usage /\ x[2] \in usage[x[1]] /\ x = <<x[1], x[2]>>
                     /\ x[2].type = "SPFee"
    BY DEF OfTypes, AllMetrics
  <1>2. charged = {f[x] : x \in S}
    <2>1. Distribution = {}
      BY DEF Distribution
    <2>2. \A x \in S : Billed(x[2])
      BY <1>1 DEF Billed, Ignored
    <2> QED BY <2>1, <2>2, LinesOf
  <1>3. \A x \in S : /\ f[x].account = x[1] /\ f[x].amount = F[x]
                     /\ f[x].about = <<x[2].type, x[2].service>>
    BY DEF UsageLine, Line
  <1>4. \A x, y \in S : f[x] = f[y] => x = y
    <2> SUFFICES ASSUME NEW x \in S, NEW y \in S, f[x] = f[y] PROVE x = y
      OBVIOUS
    <2>1. x[1] = y[1] /\ x[2].type = y[2].type /\ x[2].service = y[2].service
      BY <1>3
    <2>2. x[2] = y[2]
      BY <1>1, <2>1 DEF CInv, UsageOK
    <2> QED BY <1>1, <2>1, <2>2
  <1>5. IsFiniteSet(S) /\ F \in [S -> Int] /\ G \in [charged -> Int]
    <2>1. S \in SUBSET AllMetrics
      BY DEF OfTypes
    <2>2. IsFiniteSet(S)
      BY <2>1, FS_Subset DEF CInv, UsageOK
    <2>3. F \in [S -> Int]
      BY <2>1, ResolvedIsInt
    <2>4. \A l \in charged : l.amount \in Int
      BY <1>2, <1>3, <2>3
    <2> QED BY <2>2, <2>3, <2>4
  <1>6. \A x \in S : G[f[x]] = F[x]
    BY <1>2, <1>3
  <1>7. f \in Bijection(S, charged)
    BY <1>2, <1>4 DEF Bijection, Injection, Surjection, IsInjective
  <1> HIDE DEF S, F, G, f, charged
  <1>8. SumFunction(G) = SumFunction(F)
    BY <1>5, <1>6, <1>7, SumRenamed
  <1> QED BY <1>8 DEF AmountOf, Fee, TotalOf, S, F, G, charged

(* A fee that is shared out: of the shares only those of nothing make no    *)
(* line, and each is rounded by itself.                                     *)
LEMMA SharedFee ==
    ASSUME CInv, at = "done", params.split, Covered # {}
    PROVE  2 * Abs(AmountOf(About("SPFee") \cup About("share")) - Fee) <= Cardinality(Covered)
  <1> DEFINE w == [a \in Covered |-> CoveredOf(a)]
             sh == [a \in Covered |-> Share(a)]
             N == {a \in Covered : sh[a] # 0}
             F == [a \in N |-> sh[a]]
             charged == About("SPFee") \cup About("share")
             G == [l \in charged |-> l.amount]
             f == [a \in N |-> Line(<<"share">>, a, "usage", Share(a), FALSE)]
  <1>1. charged = {f[a] : a \in N}
    <2>1. \A x \in OfTypes({"SPFee"}) : ~Billed(x[2])
      BY DEF OfTypes, Billed
    <2>2. About("SPFee") = {}
      BY <2>1, LinesOf
    <2>3. Distribution = {f[a] : a \in N}
      BY DEF Distribution
    <2> QED BY <2>2, <2>3, LinesOf
  <1>2. IsFiniteSet(Covered) /\ IsFiniteSet(N)
    <2>1. Covered \in SUBSET DOMAIN usage /\ N \in SUBSET Covered
      BY DEF Covered
    <2> HIDE DEF N
    <2> QED BY <2>1, FS_Subset DEF CInv, UsageOK
  <1>3. w \in [Covered -> Nat \ {0}]
    <2> SUFFICES ASSUME NEW a \in Covered PROVE CoveredOf(a) \in Nat \ {0}
      OBVIOUS
    <2> DEFINE M == {x \in usage[a] : x.type = "SPCovered"}
               H == [m \in M |-> m.amount]
    <2>1. a \in DOMAIN usage /\ CoveredOf(a) > 0
      BY DEF Covered
    <2>2. IsFiniteSet(M) /\ H \in [M -> Int]
      BY <2>1, FS_Subset DEF CInv, UsageOK
    <2>3. SumFunction(H) \in Int
      <3> HIDE DEF M, H
      <3> QED BY <2>2, SumIsInt
    <2> QED BY <2>1, <2>3 DEF CoveredOf
  <1>4. Fee \in Int
    <2> DEFINE S == OfTypes({"SPFee"})
               E == [x \in S |-> Resolved(x[2].amount, x[2].entity)]
    <2>1. S \in SUBSET AllMetrics
      BY DEF OfTypes
    <2>2. IsFiniteSet(S) /\ E \in [S -> Int]
      BY <2>1, ResolvedIsInt, FS_Subset DEF CInv, UsageOK
    <2>3. SumFunction(E) \in Int
      <3> HIDE DEF S, E
      <3> QED BY <2>2, SumIsInt
    <2> QED BY <2>3 DEF Fee, TotalOf
  <1>5. TotalCovered = SumFunction(w) /\ TotalCovered \in Nat \ {0}
    <2>1. TotalCovered = SumFunction(w)
      BY DEF TotalCovered
    <2> HIDE DEF w
    <2> QED BY <1>2, <1>3, <2>1, SumPositive
  <1>6. \A a \in Covered : sh[a] = Round(Fee * w[a], SumFunction(w)) /\ sh[a] \in Int
    <2> SUFFICES ASSUME NEW a \in Covered
                 PROVE  sh[a] = Round(Fee * w[a], SumFunction(w)) /\ sh[a] \in Int
      OBVIOUS
    <2>1. sh[a] = Round(Fee * w[a], SumFunction(w))
      BY <1>5 DEF Share
    <2>2. Fee * w[a] \in Int
      BY <1>3, <1>4
    <2> QED BY <1>5, <2>1, <2>2, RoundWithinHalf
  <1>7. sh \in [Covered -> Int] /\ F \in [N -> Int]
    BY <1>6
  <1>8. 2 * Abs(SumFunction(sh) - Fee) <= Cardinality(Covered)
    <2> HIDE DEF w, sh
    <2> QED BY <1>2, <1>3, <1>4, <1>6, <1>7, SharedOut
  <1>9. SumFunction(F) = SumFunction(sh)
    <2> HIDE DEF sh
    <2> QED BY <1>2, <1>7, SumOfNonzero
  <1>10. SumFunction(G) = SumFunction(F)
    <2>1. \A a \in N : f[a].account = a /\ f[a].amount = F[a]
      BY DEF Line
    <2>2. \A a \in N : f[a] \in charged /\ G[f[a]] = F[a]
      BY <1>1, <2>1
    <2>3. \A l \in charged : \E a \in N : f[a] = l
      BY <1>1
    <2>4. DOMAIN f = N /\ DOMAIN G = charged /\ f = [a \in N |-> f[a]] /\ G = [l \in charged |-> G[l]]
      OBVIOUS
    <2> HIDE DEF N, F, G, f, charged
    <2>5. f \in [N -> charged] /\ \A a, b \in N : f[a] = f[b] => a = b
      BY <2>1, <2>2, <2>4
    <2>6. f \in Bijection(N, charged)
      BY <2>3, <2>5 DEF Bijection, Injection, Surjection, IsInjective
    <2>7. G \in [charged -> Int]
      BY <1>7, <2>2, <2>3, <2>4
    <2> QED BY <1>2, <1>7, <2>2, <2>6, <2>7, SumRenamed
  <1> HIDE DEF sh, F
  <1> QED BY <1>8, <1>9, <1>10 DEF AmountOf

(* The fee of the savings plans is the payer's or is shared out, and        *)
(* nothing of it is lost but by rounding: the line processor of the fee and *)
(* the distribution look at the split of the billing each by itself.        *)
THEOREM FeeOnce == Spec => []FeeBilledOnce
  <1>1. CInv => FeeBilledOnce
    <2> SUFFICES ASSUME CInv, at = "done"
                 PROVE  LET charged == About("SPFee") \cup About("share")
                        IN IF ~params.split THEN AmountOf(charged) = Fee
                           ELSE IF Covered = {} THEN charged = {}
                           ELSE 2 * Abs(AmountOf(charged) - Fee) <= Cardinality(Covered)
      BY DEF FeeBilledOnce
    <2>1. CASE params.split /\ Covered = {}
      <3>1. \A x \in OfTypes({"SPFee"}) : ~Billed(x[2])
        BY <2>1 DEF OfTypes, Billed
      <3>2. Distribution = {}
        BY <2>1 DEF Distribution
      <3> QED BY <2>1, <3>1, <3>2, LinesOf
    <2> QED BY <2>1, WholeFee, SharedFee
  <1> QED BY <1>1, ChargesInvariant, PTL
==============================================================================
