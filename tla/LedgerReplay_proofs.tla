------------------------ MODULE LedgerReplay_proofs ------------------------
(***************************************************************************)
(* What the FIFO replay computes, and that the cash ledger and the stored  *)
(* snapshots agree with it: for any accounts, transactions, instants and   *)
(* number of crashes.                                                      *)
(*                                                                         *)
(* The replay and the sums are folds, and no induction theorem whose       *)
(* hypothesis is an operator can be used: induction is done here over SETS *)
(* (a set of numbers with zero and successors is Nat; a set of subsets     *)
(* with the empty one and one-element extensions has the finite set        *)
(* itself), and both rest on the well-foundedness of < on Nat.  A sum of   *)
(* the specification is CHOOSE h : h = F(h) over functions on SUBSET S; it *)
(* is shown to be SumOver(w, S) of a function w, and the laws of sums are  *)
(* proved of SumOver.  A fold over a sequence becomes a sequence of states *)
(* r[0], r[1], ... with one lemma per step (Sells for a sale, Posts for    *)
(* the replay).                                                            *)
(*                                                                         *)
(* Invariants of the replay, after the first i transactions:               *)
(*   FifoLots: the k-th lot is the k-th purchase and keeps, of what its    *)
(*     position bought up to it less all it sold, what fits into it;       *)
(*   ReplayInv: the replay goes on exactly as long as no sale exceeds the  *)
(*     purchases before it, and then FifoLots holds;                       *)
(*   Balanced: the net amounts are the realized profit less the worth of   *)
(*     the lots.                                                           *)
(***************************************************************************)
EXTENDS PortfolioLedger_proofs, FiniteSetTheorems, WellFoundedInduction

-----------------------------------------------------------------------------
(* Induction. *)

\* A set of numbers that is not empty has a least one.
LEMMA LeastNat ==
  ASSUME NEW S, S \subseteq Nat, S # {}
  PROVE  \E n \in S : \A m \in S : n <= m
<1>1. \E x \in S : \A y \in S : <<y, x>> \notin OpToRel(<, Nat)
  BY WFMin, NatLessThanWellFounded
<1>2. PICK x \in S : \A y \in S : ~(y < x)
  BY <1>1 DEF OpToRel
<1>3. \A y \in S : x <= y
  BY <1>2
<1> QED BY <1>3

\* A set with zero and, with a number, the next one has all numbers.
LEMMA NatInductionOn ==
  ASSUME NEW S, 0 \in S, \A n \in Nat : n \in S => n + 1 \in S
  PROVE  Nat \subseteq S
<1> SUFFICES ASSUME Nat \ S # {} PROVE FALSE
  OBVIOUS
<1>1. PICK n \in Nat \ S : \A m \in Nat \ S : n <= m
  <2>1. Nat \ S \subseteq Nat
    OBVIOUS
  <2> QED BY <2>1, LeastNat
<1>2. n # 0 /\ n - 1 \in Nat
  BY <1>1
<1>3. n - 1 \in S
  BY <1>1, <1>2
<1> QED BY <1>1, <1>2, <1>3

\* Without one of n + 1 elements there are n.
LEMMA OneFewer ==
  ASSUME NEW S, IsFiniteSet(S), NEW x \in S, NEW n \in Nat, Cardinality(S) = n + 1
  PROVE  Cardinality(S \ {x}) = n
<1>1. Cardinality(S \ {x}) = Cardinality(S) - 1
  BY FS_RemoveElement
<1> QED BY <1>1

\* A set that contains the empty set and, with a subset of S, what one more element
\* makes of it, contains S.
LEMMA FiniteInductionOn ==
  ASSUME NEW S, IsFiniteSet(S), NEW P, {} \in P,
         \A T \in SUBSET S : \A x \in S \ T : T \in P => T \union {x} \in P
  PROVE  S \in P
<1> DEFINE N == {n \in Nat : \A T \in SUBSET S : Cardinality(T) = n => T \in P}
<1>1. \A T \in SUBSET S : /\ IsFiniteSet(T) /\ Cardinality(T) \in Nat
                          /\ Cardinality(T) = 0 <=> T = {}
  BY FS_Subset, FS_CardinalityType, FS_EmptySet
<1>2. 0 \in N
  BY <1>1
<1>3. ASSUME NEW n \in Nat, n \in N PROVE n + 1 \in N
  <2> SUFFICES ASSUME NEW T \in SUBSET S, Cardinality(T) = n + 1 PROVE T \in P
    OBVIOUS
  <2>1. PICK x \in T : TRUE
    BY <1>1
  <2> DEFINE R == T \ {x}
  <2>2. R \in SUBSET S /\ Cardinality(R) = n
    BY <1>1, <2>1, OneFewer
  <2>3. R \in P
    BY <1>3, <2>2
  <2>4. x \in S \ R /\ R \union {x} = T
    BY <2>1
  <2> HIDE DEF R
  <2> QED BY <2>2, <2>3, <2>4
<1> HIDE DEF N
<1>4. Nat \subseteq N
  BY <1>2, <1>3, NatInductionOn
<1> QED BY <1>1, <1>4 DEF N

-----------------------------------------------------------------------------
(* Folds over finite sets. *)

\* h is what MapThenFoldSet's iter is, for a step that is a function.
Folds(h, A, base, D, g, c) ==
    /\ h \in [SUBSET D -> A]
    /\ \A s \in SUBSET D : h[s] = IF s = {} THEN base ELSE g[<<h[s \ {c[s]}], c[s]>>]

\* There is such a function: for sets of at most n elements, by induction on n.
LEMMA FoldExists ==
  ASSUME NEW A, NEW base \in A, NEW D, IsFiniteSet(D), NEW g \in [A \X D -> A],
         NEW c, \A s \in SUBSET D : s # {} => c[s] \in s
  PROVE  \E h : Folds(h, A, base, D, g, c)
<1> DEFINE Body(h, s) == IF s = {} THEN base ELSE g[<<h[s \ {c[s]}], c[s]>>]
           Good(h, n) == \A s \in SUBSET D : Cardinality(s) <= n => h[s] = Body(h, s)
           N == {n \in Nat : \E h \in [SUBSET D -> A] : Good(h, n)}
<1>1. \A s \in SUBSET D : /\ IsFiniteSet(s) /\ Cardinality(s) \in Nat
                          /\ Cardinality(s) = 0 <=> s = {}
                          /\ Cardinality(s) <= Cardinality(D)
  BY FS_Subset, FS_CardinalityType, FS_EmptySet
<1>2. 0 \in N
  <2> DEFINE h == [s \in SUBSET D |-> base]
  <2>1. h \in [SUBSET D -> A] /\ Good(h, 0)
    BY <1>1
  <2> HIDE DEF h
  <2> QED BY <2>1
<1>3. ASSUME NEW n \in Nat, n \in N PROVE n + 1 \in N
  <2>1. PICK h \in [SUBSET D -> A] : Good(h, n)
    BY <1>3
  <2> DEFINE k == [s \in SUBSET D |-> Body(h, s)]
  <2>2. \A s \in SUBSET D : s # {} => s \ {c[s]} \in SUBSET D /\ c[s] \in D
    OBVIOUS
  <2>3. k \in [SUBSET D -> A]
    BY <2>2
  <2>4. ASSUME NEW s \in SUBSET D, Cardinality(s) <= n + 1 PROVE k[s] = Body(k, s)
    <3>1. CASE s = {}
      BY <3>1
    <3>2. CASE s # {}
      <4> DEFINE r == s \ {c[s]}
      <4>1. r \in SUBSET D /\ Cardinality(r) = Cardinality(s) - 1
        BY <1>1, <3>2, FS_RemoveElement
      <4>2. Cardinality(r) <= n
        BY <4>1, <2>4, <1>1
      <4>3. h[r] = Body(h, r)
        BY <2>1, <4>1, <4>2
      <4>4. k[r] = h[r]
        BY <4>1, <4>3
      <4> QED BY <3>2, <4>4
    <3> QED BY <3>1, <3>2
  <2> HIDE DEF k
  <2>5. Good(k, n + 1)
    BY <2>4
  <2> QED BY <2>3, <2>5
<1> HIDE DEF N
<1>4. Nat \subseteq N
  BY <1>2, <1>3, NatInductionOn
<1>5. Cardinality(D) \in N
  BY <1>1, <1>4
<1>6. PICK h \in [SUBSET D -> A] : Good(h, Cardinality(D))
  BY <1>5 DEF N
<1>7. \A s \in SUBSET D : h[s] = Body(h, s)
  BY <1>1, <1>6
<1> QED BY <1>7 DEF Folds

-----------------------------------------------------------------------------
(* Sums of the values of a function over a finite set. *)

\* The element MapThenFoldSet takes first.
Pick(s) == CHOOSE x \in s : TRUE

\* What MapThenSumSet's iter is, for the values of w.
Sums(h, w, D) ==
    h = [s \in SUBSET D |-> IF s = {} THEN 0 ELSE w[Pick(s)] + h[s \ {Pick(s)}]]

\* The sum of the values of w over S.
SumOver(w, S) == (CHOOSE h : Sums(h, w, S))[S]

\* The values of w on S are integers.
IntOn(w, S) == \A x \in S : w[x] \in Int

\* A finite set of integers has a sum.
LEMMA SumsExist ==
  ASSUME NEW S, IsFiniteSet(S), NEW w, IntOn(w, S)
  PROVE  \E h \in [SUBSET S -> Int] : Sums(h, w, S)
<1> DEFINE g == [p \in Int \X S |-> w[p[2]] + p[1]]
           c == [s \in SUBSET S |-> Pick(s)]
<1>1. g \in [Int \X S -> Int]
  BY DEF IntOn
<1>2. \A s \in SUBSET S : s # {} => c[s] \in s
  BY DEF Pick
<1>3. \A n \in Int, x \in S : g[<<n, x>>] = w[x] + n
  OBVIOUS
<1>4. \A s \in SUBSET S : c[s] = Pick(s)
  OBVIOUS
<1> HIDE DEF g, c
<1>5. PICK h : Folds(h, Int, 0, S, g, c)
  <2>1. 0 \in Int
    OBVIOUS
  <2> QED BY <1>1, <1>2, <2>1, FoldExists
<1>6. \A s \in SUBSET S : h[s] = IF s = {} THEN 0 ELSE w[Pick(s)] + h[s \ {Pick(s)}]
  <2> SUFFICES ASSUME NEW s \in SUBSET S, s # {}
               PROVE  h[s] = w[Pick(s)] + h[s \ {Pick(s)}]
    BY <1>5 DEF Folds
  <2>1. Pick(s) \in S /\ s \ {Pick(s)} \in SUBSET S
    BY <1>2, <1>4
  <2>2. h[s \ {Pick(s)}] \in Int
    BY <1>5, <2>1 DEF Folds
  <2> QED BY <1>3, <1>4, <1>5, <2>1, <2>2 DEF Folds
<1>7. h \in [SUBSET S -> Int]
  BY <1>5 DEF Folds
<1>8. Sums(h, w, S)
  BY <1>6, <1>7 DEF Sums
<1> QED BY <1>7, <1>8

\* The sums over a set and over a larger one agree.
LEMMA SumsAgree ==
  ASSUME NEW S, IsFiniteSet(S), NEW R, S \subseteq R, NEW w, NEW v,
         \A x \in S : w[x] = v[x],
         NEW h, Sums(h, w, S), NEW k, Sums(k, v, R)
  PROVE  \A s \in SUBSET S : h[s] = k[s]
<1> DEFINE N == {n \in Nat : \A s \in SUBSET S : Cardinality(s) = n => h[s] = k[s]}
<1>1. \A T \in SUBSET S : /\ IsFiniteSet(T) /\ Cardinality(T) \in Nat
                          /\ Cardinality(T) = 0 <=> T = {}
  BY FS_Subset, FS_CardinalityType, FS_EmptySet
<1>2. \A s \in SUBSET S :
        /\ h[s] = IF s = {} THEN 0 ELSE w[Pick(s)] + h[s \ {Pick(s)}]
        /\ k[s] = IF s = {} THEN 0 ELSE v[Pick(s)] + k[s \ {Pick(s)}]
  <2>1. SUBSET S \subseteq SUBSET R
    OBVIOUS
  <2> QED BY <2>1 DEF Sums
<1>3. 0 \in N
  BY <1>1, <1>2
<1>4. ASSUME NEW n \in Nat, n \in N PROVE n + 1 \in N
  <2> SUFFICES ASSUME NEW s \in SUBSET S, Cardinality(s) = n + 1 PROVE h[s] = k[s]
    OBVIOUS
  <2>1. s # {} /\ Pick(s) \in s
    BY <1>1 DEF Pick
  <2>2. s \ {Pick(s)} \in SUBSET S /\ Cardinality(s \ {Pick(s)}) = n
    BY <1>1, <2>1, OneFewer
  <2>3. h[s \ {Pick(s)}] = k[s \ {Pick(s)}] /\ w[Pick(s)] = v[Pick(s)]
    BY <1>4, <2>1, <2>2
  <2> QED BY <1>2, <2>1, <2>3
<1> HIDE DEF N
<1>5. Nat \subseteq N
  BY <1>3, <1>4, NatInductionOn
<1> QED BY <1>1, <1>5 DEF N

\* A sum over a larger set, restricted, is the sum.
LEMMA SumIs ==
  ASSUME NEW S, IsFiniteSet(S), NEW R, S \subseteq R, NEW w, IntOn(w, S),
         NEW v, \A x \in S : w[x] = v[x], NEW k, Sums(k, v, R)
  PROVE  SumOver(w, S) = k[S]
<1> DEFINE h == CHOOSE h : Sums(h, w, S)
<1>1. Sums(h, w, S)
  BY SumsExist
<1> HIDE DEF h
<1>2. S \in SUBSET S
  OBVIOUS
<1>3. h[S] = k[S]
  BY <1>1, <1>2, SumsAgree
<1> QED BY <1>3 DEF SumOver, h

\* Integers sum up to an integer.
LEMMA SumInt ==
  ASSUME NEW S, IsFiniteSet(S), NEW w, IntOn(w, S)
  PROVE  SumOver(w, S) \in Int
<1>1. PICK h \in [SUBSET S -> Int] : Sums(h, w, S)
  BY SumsExist
<1>2. SumOver(w, S) = h[S]
  BY <1>1, SumIs
<1> QED BY <1>2

\* Nothing sums up to zero.
LEMMA SumEmpty ==
  ASSUME NEW w
  PROVE  SumOver(w, {}) = 0
<1>1. IsFiniteSet({}) /\ IntOn(w, {})
  BY FS_EmptySet DEF IntOn
<1>2. PICK h \in [SUBSET {} -> Int] : Sums(h, w, {})
  BY <1>1, SumsExist
<1>3. SumOver(w, {}) = h[{}]
  BY <1>1, <1>2, SumIs
<1> QED BY <1>2, <1>3 DEF Sums

\* Which element is picked first makes no difference.
LEMMA SumsRemove ==
  ASSUME NEW S, IsFiniteSet(S), NEW w, IntOn(w, S),
         NEW h, Sums(h, w, S)
  PROVE  \A s \in SUBSET S : \A x \in s : h[s] = w[x] + h[s \ {x}]
<1>1. \A s \in SUBSET S : h[s] \in Int
  <2>1. PICK k \in [SUBSET S -> Int] : Sums(k, w, S)
    BY SumsExist
  <2>2. \A s \in SUBSET S : h[s] = k[s]
    BY <2>1, SumsAgree
  <2> QED BY <2>2
<1> DEFINE N == {n \in Nat : \A s \in SUBSET S : Cardinality(s) = n
                                => \A x \in s : h[s] = w[x] + h[s \ {x}]}
<1>2. \A T \in SUBSET S : /\ IsFiniteSet(T) /\ Cardinality(T) \in Nat
                          /\ Cardinality(T) = 0 <=> T = {}
  BY FS_Subset, FS_CardinalityType, FS_EmptySet
<1>3. \A s \in SUBSET S : s # {} =>
        Pick(s) \in s /\ h[s] = w[Pick(s)] + h[s \ {Pick(s)}]
  BY DEF Sums, Pick
<1>4. 0 \in N
  BY <1>2
<1>5. ASSUME NEW n \in Nat, n \in N PROVE n + 1 \in N
  <2> SUFFICES ASSUME NEW s \in SUBSET S, Cardinality(s) = n + 1, NEW x \in s
               PROVE  h[s] = w[x] + h[s \ {x}]
    OBVIOUS
  <2> DEFINE p == Pick(s)
  <2>1. p \in s /\ h[s] = w[p] + h[s \ {p}]
    BY <1>3
  <2> HIDE DEF p
  <2>2. CASE x = p
    BY <2>1, <2>2
  <2>3. CASE x # p
    <3> DEFINE r == s \ {p, x}
    <3>1. /\ s \ {p} \in SUBSET S /\ Cardinality(s \ {p}) = n /\ x \in s \ {p}
          /\ s \ {x} \in SUBSET S /\ Cardinality(s \ {x}) = n /\ p \in s \ {x}
      BY <1>2, <2>1, <2>3, OneFewer
    <3>2. (s \ {p}) \ {x} = r /\ (s \ {x}) \ {p} = r /\ r \in SUBSET S
      OBVIOUS
    <3> HIDE DEF r
    <3>3. \A t \in SUBSET S : Cardinality(t) = n => \A y \in t : h[t] = w[y] + h[t \ {y}]
      BY <1>5
    <3>4. h[s \ {p}] = w[x] + h[(s \ {p}) \ {x}]
      BY <3>1, <3>3
    <3>5. h[s \ {x}] = w[p] + h[(s \ {x}) \ {p}]
      BY <3>1, <3>3
    <3>6. w[x] \in Int /\ w[p] \in Int /\ h[r] \in Int
      BY <1>1, <2>1, <3>2 DEF IntOn
    <3>7. h[(s \ {p}) \ {x}] = h[r] /\ h[(s \ {x}) \ {p}] = h[r]
      BY <3>2, Zenon
    <3> QED BY <2>1, <3>4, <3>5, <3>6, <3>7
  <2> QED BY <2>2, <2>3
<1> HIDE DEF N
<1>6. Nat \subseteq N
  BY <1>4, <1>5, NatInductionOn
<1> QED BY <1>2, <1>6 DEF N

\* One more element adds its value.
LEMMA SumAdd ==
  ASSUME NEW S, IsFiniteSet(S), NEW x, x \notin S, NEW w, IntOn(w, S), w[x] \in Int
  PROVE  SumOver(w, S \union {x}) = SumOver(w, S) + w[x]
<1> DEFINE R == S \union {x}
<1>1. IsFiniteSet(R) /\ IntOn(w, R)
  BY FS_AddElement DEF IntOn
<1>2. x \in R /\ S \subseteq R /\ R \ {x} = S
  OBVIOUS
<1> HIDE DEF R
<1>3. PICK h \in [SUBSET R -> Int] : Sums(h, w, R)
  BY <1>1, SumsExist
<1>4. SumOver(w, R) = h[R] /\ SumOver(w, S) = h[S]
  BY <1>1, <1>2, <1>3, SumIs
<1>5. h[R] = w[x] + h[S]
  <2>1. R \in SUBSET R
    OBVIOUS
  <2>2. \A s \in SUBSET R : \A y \in s : h[s] = w[y] + h[s \ {y}]
    <3>1. h \in [SUBSET R -> Int] /\ Sums(h, w, R) /\ IsFiniteSet(R) /\ IntOn(w, R)
      BY <1>1, <1>3
    <3>2. \A u, v : u \in SUBSET R /\ v \in u => h[u] = w[v] + h[u \ {v}]
      BY <3>1, SumsRemove, SMTT(60)
    <3> QED BY <3>2
  <2> QED BY <1>2, <2>1, <2>2
<1>6. h[S] \in Int
  BY <1>2, <1>3
<1> QED BY <1>4, <1>5, <1>6 DEF R

\* Functions that agree on a set have the same sum over it.
LEMMA SumSame ==
  ASSUME NEW S, IsFiniteSet(S), NEW w, IntOn(w, S), NEW v, \A x \in S : w[x] = v[x]
  PROVE  SumOver(w, S) = SumOver(v, S)
<1>1. IntOn(v, S)
  BY DEF IntOn
<1>2. PICK h \in [SUBSET S -> Int] : Sums(h, v, S)
  BY <1>1, SumsExist
<1>3. SumOver(v, S) = h[S]
  BY <1>1, <1>2, SumIs
<1>4. SumOver(w, S) = h[S]
  BY <1>2, SumIs
<1> QED BY <1>3, <1>4

\* The sum over two disjoint sets.
LEMMA SumUnion ==
  ASSUME NEW S, IsFiniteSet(S), NEW R, IsFiniteSet(R), S \intersect R = {},
         NEW w, IntOn(w, S), IntOn(w, R)
  PROVE  SumOver(w, S \union R) = SumOver(w, S) + SumOver(w, R)
<1> DEFINE P == {T \in SUBSET R : SumOver(w, S \union T) = SumOver(w, S) + SumOver(w, T)}
<1>1. SumOver(w, S) \in Int
  BY SumInt
<1>2. {} \in P
  <2>1. S \union {} = S
    OBVIOUS
  <2>2. SumOver(w, S \union {}) = SumOver(w, S)
    BY <2>1, Zenon
  <2> QED BY <1>1, <2>2, SumEmpty
<1>3. ASSUME NEW T \in SUBSET R, NEW x \in R \ T, T \in P PROVE T \union {x} \in P
  <2>1. IsFiniteSet(T) /\ IsFiniteSet(S \union T)
    BY FS_Subset, FS_Union
  <2>2. IntOn(w, T) /\ IntOn(w, S \union T) /\ w[x] \in Int
    BY DEF IntOn
  <2>3. x \notin S \union T
    OBVIOUS
  <2>4. SumOver(w, T \union {x}) = SumOver(w, T) + w[x]
    BY <2>1, <2>2, SumAdd
  <2>5. SumOver(w, (S \union T) \union {x}) = SumOver(w, S \union T) + w[x]
    BY <2>1, <2>2, <2>3, SumAdd
  <2>6. S \union (T \union {x}) = (S \union T) \union {x}
    OBVIOUS
  <2>7. SumOver(w, S \union (T \union {x})) = SumOver(w, (S \union T) \union {x})
    BY <2>6, Zenon
  <2>8. SumOver(w, S \union T) = SumOver(w, S) + SumOver(w, T)
    BY <1>3
  <2>9. SumOver(w, T) \in Int
    BY <2>1, <2>2, SumInt
  <2> QED BY <1>1, <2>2, <2>4, <2>5, <2>7, <2>8, <2>9
<1> HIDE DEF P
<1>4. R \in P
  BY <1>2, <1>3, FiniteInductionOn
<1> QED BY <1>4 DEF P

\* Naturals sum up to a natural.
LEMMA SumNat ==
  ASSUME NEW S, IsFiniteSet(S), NEW w, \A x \in S : w[x] \in Nat
  PROVE  SumOver(w, S) \in Nat
<1> DEFINE P == {T \in SUBSET S : SumOver(w, T) \in Nat}
<1>1. {} \in P
  BY SumEmpty
<1>2. ASSUME NEW T \in SUBSET S, NEW x \in S \ T, T \in P PROVE T \union {x} \in P
  <2>1. IsFiniteSet(T) /\ IntOn(w, T) /\ w[x] \in Int
    BY FS_Subset DEF IntOn
  <2>2. SumOver(w, T \union {x}) = SumOver(w, T) + w[x]
    BY <2>1, SumAdd
  <2> QED BY <1>2, <2>2
<1> HIDE DEF P
<1>3. S \in P
  BY <1>1, <1>2, FiniteInductionOn
<1> QED BY <1>3 DEF P

\* Naturals of a larger set sum up to no less.
LEMMA SumGrows ==
  ASSUME NEW S, IsFiniteSet(S), NEW R, R \subseteq S, NEW w, \A x \in S : w[x] \in Nat
  PROVE  SumOver(w, R) <= SumOver(w, S)
<1> DEFINE Q == S \ R
<1>1. IsFiniteSet(R) /\ IsFiniteSet(Q) /\ R \intersect Q = {} /\ IntOn(w, R) /\ IntOn(w, Q)
  BY FS_Subset DEF IntOn
<1>2. (\A x \in R : w[x] \in Nat) /\ (\A x \in Q : w[x] \in Nat)
  OBVIOUS
<1>3. R \union Q = S
  OBVIOUS
<1> HIDE DEF Q
<1>4. SumOver(w, R \union Q) = SumOver(w, R) + SumOver(w, Q)
  BY <1>1, SumUnion
<1>5. SumOver(w, R \union Q) = SumOver(w, S)
  BY <1>3, Zenon
<1>6. SumOver(w, R) \in Nat /\ SumOver(w, Q) \in Nat
  BY <1>1, <1>2, SumNat
<1> QED BY <1>4, <1>5, <1>6

\* Zeros sum up to zero.
LEMMA SumZero ==
  ASSUME NEW S, IsFiniteSet(S), NEW w, \A x \in S : w[x] = 0
  PROVE  SumOver(w, S) = 0
<1> DEFINE P == {T \in SUBSET S : SumOver(w, T) = 0}
<1>1. {} \in P
  BY SumEmpty
<1>2. ASSUME NEW T \in SUBSET S, NEW x \in S \ T, T \in P PROVE T \union {x} \in P
  <2>1. IsFiniteSet(T) /\ IntOn(w, T) /\ w[x] \in Int
    BY FS_Subset DEF IntOn
  <2>2. SumOver(w, T \union {x}) = SumOver(w, T) + w[x]
    BY <2>1, SumAdd
  <2> QED BY <1>2, <2>2
<1> HIDE DEF P
<1>3. S \in P
  BY <1>1, <1>2, FiniteInductionOn
<1> QED BY <1>3 DEF P

\* Terms that are zero do not count.
LEMMA SumDrops ==
  ASSUME NEW S, IsFiniteSet(S), NEW R, R \subseteq S, NEW w, IntOn(w, R), \A x \in S \ R : w[x] = 0
  PROVE  SumOver(w, R) = SumOver(w, S)
<1> DEFINE Q == S \ R
<1>1. IsFiniteSet(R) /\ IsFiniteSet(Q) /\ R \intersect Q = {} /\ IntOn(w, Q)
  BY FS_Subset DEF IntOn
<1>2. \A x \in Q : w[x] = 0
  OBVIOUS
<1>3. R \union Q = S
  OBVIOUS
<1> HIDE DEF Q
<1>4. SumOver(w, R \union Q) = SumOver(w, R) + SumOver(w, Q)
  BY <1>1, SumUnion
<1>5. SumOver(w, R \union Q) = SumOver(w, S)
  BY <1>3, Zenon
<1>6. SumOver(w, R) \in Int /\ SumOver(w, Q) = 0
  BY <1>1, <1>2, SumInt, SumZero
<1> QED BY <1>4, <1>5, <1>6

\* The values of f on S.
ImageOf(f, S) == {f[x] : x \in S}

\* The image of a finite set is finite.
LEMMA ImageFinite ==
  ASSUME NEW S, IsFiniteSet(S), NEW f
  PROVE  IsFiniteSet(ImageOf(f, S))
<1> DEFINE P == {T \in SUBSET S : IsFiniteSet(ImageOf(f, T))}
<1>1. {} \in P
  BY FS_EmptySet DEF ImageOf
<1>2. ASSUME NEW T \in SUBSET S, NEW x \in S \ T, T \in P PROVE T \union {x} \in P
  <2>1. ImageOf(f, T \union {x}) = ImageOf(f, T) \union {f[x]}
    BY DEF ImageOf
  <2>2. IsFiniteSet(ImageOf(f, T) \union {f[x]})
    BY <1>2, FS_AddElement
  <2>3. IsFiniteSet(ImageOf(f, T \union {x}))
    BY <2>1, <2>2, Zenon
  <2> QED BY <2>3
<1> HIDE DEF P
<1>3. S \in P
  BY <1>1, <1>2, FiniteInductionOn
<1> QED BY <1>3 DEF P

\* f has no value twice on S.
OneToOne(f, S) == \A x, y \in S : f[x] = f[y] => x = y

\* v has on S the values that w has on the image.
Pulls(v, w, f, S) == \A x \in S : w[f[x]] \in Int /\ v[x] = w[f[x]]

\* A sum over an image is one over what it is the image of.
LEMMA SumImage ==
  ASSUME NEW S, IsFiniteSet(S), NEW f, OneToOne(f, S), NEW w, NEW v, Pulls(v, w, f, S)
  PROVE  SumOver(w, ImageOf(f, S)) = SumOver(v, S)
<1> USE DEF OneToOne, Pulls
<1> DEFINE P == {T \in SUBSET S : SumOver(w, ImageOf(f, T)) = SumOver(v, T)}
<1>1. {} \in P
  <2>1. ImageOf(f, {}) = {}
    BY DEF ImageOf
  <2>2. SumOver(w, ImageOf(f, {})) = SumOver(w, {})
    BY <2>1, Zenon
  <2> QED BY <2>2, SumEmpty
<1>2. ASSUME NEW T \in SUBSET S, NEW x \in S \ T, T \in P PROVE T \union {x} \in P
  <2>1. IsFiniteSet(T) /\ IntOn(v, T) /\ v[x] \in Int
    BY FS_Subset DEF IntOn
  <2>2. IsFiniteSet(ImageOf(f, T)) /\ IntOn(w, ImageOf(f, T)) /\ w[f[x]] \in Int
    BY <2>1, ImageFinite DEF IntOn, ImageOf
  <2>3. f[x] \notin ImageOf(f, T)
    BY DEF ImageOf
  <2>4. ImageOf(f, T \union {x}) = ImageOf(f, T) \union {f[x]}
    BY DEF ImageOf
  <2>5. SumOver(w, ImageOf(f, T \union {x})) = SumOver(w, ImageOf(f, T) \union {f[x]})
    BY <2>4, Zenon
  <2>6. SumOver(w, ImageOf(f, T) \union {f[x]}) = SumOver(w, ImageOf(f, T)) + w[f[x]]
    BY <2>2, <2>3, SumAdd
  <2>7. SumOver(v, T \union {x}) = SumOver(v, T) + v[x]
    BY <2>1, SumAdd
  <2> QED BY <1>2, <2>5, <2>6, <2>7
<1> HIDE DEF P
<1>3. S \in P
  BY <1>1, <1>2, FiniteInductionOn
<1> QED BY <1>3 DEF P

\* The sums over the parts of a set add up to the sum over the set.
LEMMA SumParts ==
  ASSUME NEW K, IsFiniteSet(K), NEW S, IsFiniteSet(S), NEW of, NEW w, IntOn(w, S),
         NEW v, \A k \in K : v[k] = SumOver(w, {x \in S : of[x] = k})
  PROVE  SumOver(v, K) = SumOver(w, {x \in S : of[x] \in K})
<1> DEFINE In(T) == {x \in S : of[x] \in T}
           Part(k) == {x \in S : of[x] = k}
           P == {T \in SUBSET K : SumOver(v, T) = SumOver(w, In(T))}
<1>1. \A Q \in SUBSET S : IsFiniteSet(Q) /\ IntOn(w, Q)
  BY FS_Subset DEF IntOn
<1>2. {} \in P
  <2>1. In({}) = {}
    OBVIOUS
  <2>2. SumOver(w, In({})) = SumOver(w, {})
    BY <2>1, Zenon
  <2> QED BY <2>2, SumEmpty
<1>3. ASSUME NEW T \in SUBSET K, NEW k \in K \ T, T \in P PROVE T \union {k} \in P
  <2>1. In(T) \in SUBSET S /\ Part(k) \in SUBSET S /\ In(T) \intersect Part(k) = {}
    OBVIOUS
  <2>2. In(T \union {k}) = In(T) \union Part(k)
    OBVIOUS
  <2>3. v[k] = SumOver(w, Part(k)) /\ (\A l \in T : v[l] = SumOver(w, Part(l))) /\ SumOver(v, T) = SumOver(w, In(T))
    BY <1>3
  <2>4. \A l \in K : Part(l) \in SUBSET S
    OBVIOUS
  <2> HIDE DEF In, Part
  <2>5. SumOver(w, In(T \union {k})) = SumOver(w, In(T) \union Part(k))
    BY <2>2, Zenon
  <2>6. SumOver(w, In(T) \union Part(k)) = SumOver(w, In(T)) + SumOver(w, Part(k))
    BY <1>1, <2>1, SumUnion
  <2>7. IsFiniteSet(T) /\ IntOn(v, T) /\ v[k] \in Int
    BY <1>1, <2>3, <2>4, FS_Subset, SumInt DEF IntOn
  <2>8. SumOver(v, T \union {k}) = SumOver(v, T) + v[k]
    BY <2>7, SumAdd
  <2>9. SumOver(v, T \union {k}) = SumOver(w, In(T \union {k}))
    BY <2>3, <2>5, <2>6, <2>8
  <2> QED BY <2>9
<1> HIDE DEF P
<1>4. K \in P
  BY <1>2, <1>3, FiniteInductionOn
<1> QED BY <1>4 DEF P

-----------------------------------------------------------------------------
(* The sums of the specification are sums of functions. *)

\* What a set of lots keeps.
LEMMA RemainingSum ==
  ASSUME NEW S, IsFiniteSet(S), NEW w, \A x \in S : x.remaining \in Int /\ w[x] = x.remaining
  PROVE  MapThenSumSet(LAMBDA x : x.remaining, S) = SumOver(w, S)
<1> DEFINE F(h) == [s \in SUBSET S |-> IF s = {} THEN 0 ELSE Pick(s).remaining + h[s \ {Pick(s)}]]
           it == CHOOSE h : h = F(h)
<1>1. \A s \in SUBSET S : s # {} => w[Pick(s)] = Pick(s).remaining
  BY DEF Pick
<1>2. \A h : Sums(h, w, S) <=> h = F(h)
  BY <1>1 DEF Sums
<1>3. IntOn(w, S)
  BY DEF IntOn
<1>4. Sums(it, w, S)
  BY <1>2, <1>3, SumsExist
<1>5. MapThenSumSet(LAMBDA x : x.remaining, S) = it[S]
  BY DEF MapThenSumSet, MapThenFoldSet, Pick
<1> HIDE DEF it
<1> QED BY <1>3, <1>4, <1>5, SumIs

\* What a set of rows cost.
LEMMA CostSum ==
  ASSUME NEW S, IsFiniteSet(S), NEW w, \A x \in S : x.cost \in Int /\ w[x] = x.cost
  PROVE  MapThenSumSet(LAMBDA x : x.cost, S) = SumOver(w, S)
<1> DEFINE F(h) == [s \in SUBSET S |-> IF s = {} THEN 0 ELSE Pick(s).cost + h[s \ {Pick(s)}]]
           it == CHOOSE h : h = F(h)
<1>1. \A s \in SUBSET S : s # {} => w[Pick(s)] = Pick(s).cost
  BY DEF Pick
<1>2. \A h : Sums(h, w, S) <=> h = F(h)
  BY <1>1 DEF Sums
<1>3. IntOn(w, S)
  BY DEF IntOn
<1>4. Sums(it, w, S)
  BY <1>2, <1>3, SumsExist
<1>5. MapThenSumSet(LAMBDA x : x.cost, S) = it[S]
  BY DEF MapThenSumSet, MapThenFoldSet, Pick
<1> HIDE DEF it
<1> QED BY <1>3, <1>4, <1>5, SumIs

\* What a set of transactions moves.
LEMMA UnitsSum ==
  ASSUME NEW S, IsFiniteSet(S), NEW w, \A x \in S : x.quantity \in Int /\ w[x] = x.quantity
  PROVE  MapThenSumSet(LAMBDA x : x.quantity, S) = SumOver(w, S)
<1> DEFINE F(h) == [s \in SUBSET S |-> IF s = {} THEN 0 ELSE Pick(s).quantity + h[s \ {Pick(s)}]]
           it == CHOOSE h : h = F(h)
<1>1. \A s \in SUBSET S : s # {} => w[Pick(s)] = Pick(s).quantity
  BY DEF Pick
<1>2. \A h : Sums(h, w, S) <=> h = F(h)
  BY <1>1 DEF Sums
<1>3. IntOn(w, S)
  BY DEF IntOn
<1>4. Sums(it, w, S)
  BY <1>2, <1>3, SumsExist
<1>5. MapThenSumSet(LAMBDA x : x.quantity, S) = it[S]
  BY DEF MapThenSumSet, MapThenFoldSet, Pick
<1> HIDE DEF it
<1> QED BY <1>3, <1>4, <1>5, SumIs

\* What a set of lots cost.
LEMMA CostBasisSum ==
  ASSUME NEW S, IsFiniteSet(S), NEW w, \A x \in S : w[x] \in Int /\ w[x] = x.remaining * x.unit
  PROVE  CostBasis(S) = SumOver(w, S)
<1> DEFINE F(h) == [s \in SUBSET S |-> IF s = {} THEN 0
                                       ELSE Pick(s).remaining * Pick(s).unit + h[s \ {Pick(s)}]]
           it == CHOOSE h : h = F(h)
<1>1. \A s \in SUBSET S : s # {} => w[Pick(s)] = Pick(s).remaining * Pick(s).unit
  BY DEF Pick
<1>2. \A h : Sums(h, w, S) <=> h = F(h)
  BY <1>1 DEF Sums
<1>3. IntOn(w, S)
  BY DEF IntOn
<1>4. Sums(it, w, S)
  BY <1>2, <1>3, SumsExist
<1>5. CostBasis(S) = it[S]
  BY DEF CostBasis, MapThenSumSet, MapThenFoldSet, Pick
<1> HIDE DEF it
<1> QED BY <1>3, <1>4, <1>5, SumIs

\* The net amount of a set of transactions.
LEMMA NetsSum ==
  ASSUME NEW S, IsFiniteSet(S), NEW w, \A x \in S : w[x] \in Int /\ w[x] = Net(x)
  PROVE  MapThenSumSet(Net, S) = SumOver(w, S)
<1> DEFINE F(h) == [s \in SUBSET S |-> IF s = {} THEN 0 ELSE Net(Pick(s)) + h[s \ {Pick(s)}]]
           it == CHOOSE h : h = F(h)
<1>1. \A s \in SUBSET S : s # {} => w[Pick(s)] = Net(Pick(s))
  BY DEF Pick
<1>2. \A h : Sums(h, w, S) <=> h = F(h)
  BY <1>1 DEF Sums
<1>3. IntOn(w, S)
  BY DEF IntOn
<1>4. Sums(it, w, S)
  BY <1>2, <1>3, SumsExist
<1>5. MapThenSumSet(Net, S) = it[S]
  BY DEF MapThenSumSet, MapThenFoldSet, Pick
<1> HIDE DEF it
<1> QED BY <1>3, <1>4, <1>5, SumIs

-----------------------------------------------------------------------------
(* The order of the replay. *)

\* Transactions with dates and identifiers, each identifier its own.
Numbered(S) ==
    /\ IsFiniteSet(S)
    /\ \A x \in S : x.id \in Int /\ x.trade \in Int /\ x.settles \in Int
    /\ \A x, y \in S : x.id = y.id => x = y

\* Before is a strict total order, whatever the dates.
LEMMA BeforeOrders ==
  ASSUME NEW S, Numbered(S)
  PROVE  /\ \A x \in S : ~Before(x, x)
         /\ \A x, y, z \in S : Before(x, y) /\ Before(y, z) => Before(x, z)
         /\ \A x, y \in S : Before(x, y) \/ x = y \/ Before(y, x)
BY DEF Numbered, Before

\* The sequence of the replay: every transaction once, each before the later ones.
LEMMA OrderedEnumerates ==
  ASSUME NEW S, Numbered(S)
  PROVE  /\ Cardinality(S) \in Nat
         /\ Ordered(S) \in [1..Cardinality(S) -> S]
         /\ \A i, j \in 1..Cardinality(S) : i < j => Before(Ordered(S)[i], Ordered(S)[j])
         /\ \A x \in S : \E i \in 1..Cardinality(S) : Ordered(S)[i] = x
<1> DEFINE n == Cardinality(S)
           Down(x) == {y \in S : Before(y, x)}
           f == [x \in S |-> Cardinality(Down(x))]
           seq == Ordered(S)
<1>1. IsFiniteSet(S) /\ n \in Nat
  BY FS_CardinalityType DEF Numbered
<1>2. \A x \in S : IsFiniteSet(Down(x)) /\ Cardinality(Down(x)) \in Nat
  BY <1>1, FS_Subset, FS_CardinalityType
<1>3. \A x \in S : f[x] \in 0..(n - 1)
  <2> TAKE x \in S
  <2>1. Down(x) \in SUBSET (S \ {x})
    BY BeforeOrders
  <2>2. IsFiniteSet(S \ {x}) /\ Cardinality(S \ {x}) = n - 1
    BY <1>1, FS_RemoveElement
  <2>3. Cardinality(Down(x)) <= n - 1
    BY <2>1, <2>2, FS_Subset
  <2> QED BY <1>1, <1>2, <2>3
<1>4. \A x, y \in S : Before(x, y) => f[x] < f[y]
  <2> SUFFICES ASSUME NEW x \in S, NEW y \in S, Before(x, y) PROVE f[x] < f[y]
    OBVIOUS
  <2>1. Down(x) \union {x} \in SUBSET Down(y) /\ x \notin Down(x)
    BY BeforeOrders
  <2>2. Cardinality(Down(x) \union {x}) = Cardinality(Down(x)) + 1
    BY <1>2, <2>1, FS_AddElement
  <2>3. Cardinality(Down(x) \union {x}) <= Cardinality(Down(y))
    BY <1>2, <2>1, FS_Subset
  <2> HIDE DEF Down
  <2> QED BY <1>2, <2>2, <2>3
<1>5. \A x, y \in S : f[x] = f[y] => x = y
  <2> HIDE DEF f
  <2>1. \A x \in S : f[x] \in Int
    BY <1>1, <1>3
  <2> QED BY <1>4, <2>1, BeforeOrders
<1>6. f \in Surjection(S, 0..(n - 1))
  <2>1. f \in Injection(S, 0..(n - 1))
    <3>1. f \in [S -> 0..(n - 1)]
      BY <1>3
    <3> HIDE DEF f
    <3> QED BY <1>5, <3>1 DEF Injection, IsInjective
  <2>2. IsFiniteSet(0..(n - 1)) /\ Cardinality(0..(n - 1)) = n
    <3>1. 0 \in Int /\ n - 1 \in Int
      BY <1>1
    <3>2. IsFiniteSet(0..(n - 1)) /\ Cardinality(0..(n - 1)) = IF 0 > n - 1 THEN 0 ELSE (n - 1) - 0 + 1
      BY <3>1, FS_Interval
    <3> QED BY <1>1, <3>2
  <2> HIDE DEF f
  <2> QED BY <2>1, <2>2, FS_Injection
<1>7. \A i \in 1..n : seq[i] \in S /\ f[seq[i]] = i - 1
  <2> TAKE i \in 1..n
  <2>1. i - 1 \in 0..(n - 1)
    BY <1>1
  <2>2. \E x \in S : f[x] = i - 1
    BY <1>6, <2>1 DEF Surjection
  <2>3. \E x \in S : Cardinality(Down(x)) = i - 1
    BY <2>2
  <2>4. seq[i] = CHOOSE x \in S : Cardinality(Down(x)) = i - 1
    BY DEF Ordered
  <2> HIDE DEF seq
  <2>5. seq[i] \in S /\ Cardinality(Down(seq[i])) = i - 1
    <3> HIDE DEF Down
    <3> QED BY <2>3, <2>4
  <2> QED BY <2>5
<1>8. seq \in [1..n -> S]
  <2> DEFINE at(i) == CHOOSE x \in S : Cardinality({y \in S : Before(y, x)}) = i - 1
  <2>1. seq = [i \in 1..n |-> at(i)]
    BY DEF Ordered
  <2> HIDE DEF seq, at
  <2>2. \A i \in 1..n : seq[i] = at(i)
    BY <2>1
  <2> QED BY <1>7, <2>1, <2>2
<1> HIDE DEF f, seq
<1>9. \A i, j \in 1..n : i < j => Before(seq[i], seq[j])
  <2> SUFFICES ASSUME NEW i \in 1..n, NEW j \in 1..n, i < j PROVE Before(seq[i], seq[j])
    OBVIOUS
  <2>1. seq[i] \in S /\ seq[j] \in S /\ f[seq[i]] = i - 1 /\ f[seq[j]] = j - 1
    BY <1>7
  <2>2. ~(f[seq[j]] < f[seq[i]]) /\ f[seq[i]] # f[seq[j]]
    BY <1>1, <2>1
  <2> QED BY <1>4, <2>1, <2>2, BeforeOrders
<1>10. \A x \in S : \E i \in 1..n : seq[i] = x
  <2> TAKE x \in S
  <2>1. f[x] + 1 \in 1..n /\ (f[x] + 1) - 1 = f[x]
    BY <1>1, <1>3
  <2>2. seq[f[x] + 1] \in S /\ f[seq[f[x] + 1]] = f[x]
    BY <1>7, <2>1
  <2> QED BY <1>5, <2>1, <2>2
<1> QED BY <1>1, <1>8, <1>9, <1>10 DEF seq

-----------------------------------------------------------------------------
(* Folds over a sequence: over 1..n, from the left. *)

\* FoldLeft takes the largest number out first.
LEMMA MaxOf ==
  ASSUME NEW n \in Nat, NEW s \in SUBSET (1..n), s # {}
  PROVE  Max(s) \in s /\ \A y \in s : y <= Max(s)
<1> DEFINE D == {n - k : k \in s}
<1>1. D \subseteq Nat /\ D # {}
  <2>1. \A k \in s : n - k \in Nat
    OBVIOUS
  <2>2. \E k \in s : n - k \in D
    OBVIOUS
  <2> QED BY <2>1, <2>2
<1>2. PICK d \in D : \A e \in D : d <= e
  BY <1>1, LeastNat
<1>3. PICK k \in s : d = n - k
  BY <1>2
<1>4. \A y \in s : n - k <= n - y
  BY <1>2, <1>3
<1>5. \A y \in s : k >= y
  BY <1>4
<1> QED BY <1>5 DEF Max

\* The fold over the numbers 1..n, the largest one last.
UpFolds(h, A, base, n, g) ==
    /\ h \in [SUBSET (1..n) -> A]
    /\ \A s \in SUBSET (1..n) : h[s] = IF s = {} THEN base ELSE g[<<h[s \ {Max(s)}], Max(s)>>]

\* There is such a function.
LEMMA UpwardFoldExists ==
  ASSUME NEW A, NEW base \in A, NEW n \in Nat, NEW g \in [A \X (1..n) -> A]
  PROVE  \E h : UpFolds(h, A, base, n, g)
<1> DEFINE c == [s \in SUBSET (1..n) |-> Max(s)]
<1>1. \A s \in SUBSET (1..n) : c[s] = Max(s)
  OBVIOUS
<1>2. \A s \in SUBSET (1..n) : s # {} => c[s] \in s
  BY MaxOf
<1>3. IsFiniteSet(1..n)
  <2>1. 1 \in Int /\ n \in Int
    OBVIOUS
  <2> QED BY <2>1, FS_Interval
<1> HIDE DEF c
<1>4. PICK h : Folds(h, A, base, 1..n, g, c)
  BY <1>2, <1>3, FoldExists
<1>5. \A s \in SUBSET (1..n) : h[s] = IF s = {} THEN base ELSE g[<<h[s \ {Max(s)}], Max(s)>>]
  BY <1>1, <1>4 DEF Folds
<1> QED BY <1>4, <1>5 DEF Folds, UpFolds

\* What is below the last of the first i numbers.
LEMMA UpTo ==
  ASSUME NEW n \in Nat, NEW i \in 1..n
  PROVE  1..i \in SUBSET (1..n) /\ 1..i # {} /\ Max(1..i) = i /\ (1..i) \ {i} = 1..(i - 1)
<1>1. 1..i \in SUBSET (1..n) /\ 1..i # {} /\ (1..i) \ {i} = 1..(i - 1)
  OBVIOUS
<1>2. Max(1..i) \in 1..i /\ \A y \in 1..i : y <= Max(1..i)
  BY <1>1, MaxOf
<1>3. i \in 1..i
  OBVIOUS
<1> QED BY <1>1, <1>2, <1>3

-----------------------------------------------------------------------------
(* A sale, lot by lot. *)

\* What a lot, and a sale under way, can be.
LotRows == [buy : Int, position : Accounts \X Securities, quantity : Nat, remaining : Nat,
            unit : Int, sources : SUBSET Int]

SaleStates == [left : Nat, cost : Int, lots : Seq(LotRows)]

\* What a sale takes from a lot.
Taken(sale, lot, x) ==
    IF lot.position # PositionOf(x) \/ sale.left = 0 THEN 0
    ELSE IF lot.remaining < sale.left THEN lot.remaining ELSE sale.left

\* What a lot becomes.
LotLeft(sale, lot, x) ==
    IF lot.position # PositionOf(x) \/ sale.left = 0 THEN lot
    ELSE [lot EXCEPT !.remaining = @ - Taken(sale, lot, x), !.sources = @ \union {x.id}]

\* A sale takes no more than there is, and no more than it needs.
LEMMA TakenBounds ==
  ASSUME NEW sale \in SaleStates, NEW lot \in LotRows, NEW x
  PROVE  /\ Taken(sale, lot, x) \in Nat
         /\ Taken(sale, lot, x) <= lot.remaining
         /\ Taken(sale, lot, x) <= sale.left
BY DEF Taken, SaleStates, LotRows

\* A lot only loses units; what it was bought as stays.
LEMMA LotLeftRow ==
  ASSUME NEW sale \in SaleStates, NEW lot \in LotRows, NEW x, x.id \in Int
  PROVE  /\ LotLeft(sale, lot, x) \in LotRows
         /\ LotLeft(sale, lot, x).buy = lot.buy
         /\ LotLeft(sale, lot, x).position = lot.position
         /\ LotLeft(sale, lot, x).quantity = lot.quantity
         /\ LotLeft(sale, lot, x).unit = lot.unit
         /\ LotLeft(sale, lot, x).remaining = lot.remaining - Taken(sale, lot, x)
<1> DEFINE taken == Taken(sale, lot, x)
           row == [lot EXCEPT !.remaining = @ - taken, !.sources = @ \union {x.id}]
<1>1. taken \in Nat /\ taken <= lot.remaining
  BY TakenBounds
<1>2. lot.remaining - taken \in Nat /\ lot.remaining \in Nat /\ lot.sources \union {x.id} \in SUBSET Int
  BY <1>1 DEF LotRows
<1>3. CASE lot.position # PositionOf(x) \/ sale.left = 0
  <2>1. taken = 0
    BY <1>3 DEF Taken
  <2>2. LotLeft(sale, lot, x) = lot
    BY <1>3 DEF LotLeft
  <2> QED BY <1>2, <2>1, <2>2
<1>4. CASE ~(lot.position # PositionOf(x) \/ sale.left = 0)
  <2>1. LotLeft(sale, lot, x) = row
    BY <1>4 DEF LotLeft
  <2> HIDE DEF taken
  <2>2. row \in LotRows
    BY <1>2 DEF LotRows
  <2>3. /\ row.buy = lot.buy /\ row.position = lot.position /\ row.quantity = lot.quantity
        /\ row.unit = lot.unit /\ row.remaining = lot.remaining - taken
    BY DEF LotRows
  <2> HIDE DEF row
  <2> QED BY <2>1, <2>2, <2>3 DEF taken
<1> QED BY <1>3, <1>4

\* TakeFrom, field by field.
LEMMA TakeFromState ==
  ASSUME NEW sale \in SaleStates, NEW lot \in LotRows, NEW x, x.id \in Int
  PROVE  /\ TakeFrom(sale, lot, x) \in SaleStates
         /\ TakeFrom(sale, lot, x).left = sale.left - Taken(sale, lot, x)
         /\ TakeFrom(sale, lot, x).cost = sale.cost + Taken(sale, lot, x) * lot.unit
         /\ TakeFrom(sale, lot, x).lots = Append(sale.lots, LotLeft(sale, lot, x))
<1> DEFINE taken == Taken(sale, lot, x)
           row == LotLeft(sale, lot, x)
<1>1. taken \in Nat /\ taken <= sale.left
  BY TakenBounds
<1>2. row \in LotRows
  BY LotLeftRow
<1>3. sale.left \in Nat /\ sale.cost \in Int /\ lot.unit \in Int /\ sale.lots \in Seq(LotRows)
  BY DEF SaleStates, LotRows
<1>4. CASE lot.position # PositionOf(x) \/ sale.left = 0
  <2>1. taken = 0 /\ row = lot
    BY <1>4 DEF Taken, LotLeft
  <2>2. TakeFrom(sale, lot, x) = [sale EXCEPT !.lots = Append(@, lot)]
    BY <1>4 DEF TakeFrom
  <2>3. taken * lot.unit = 0
    BY <1>3, <2>1
  <2>4. Append(sale.lots, lot) \in Seq(LotRows)
    BY <1>3
  <2>5. TakeFrom(sale, lot, x) \in SaleStates
    BY <2>2, <2>4 DEF SaleStates
  <2>6. /\ TakeFrom(sale, lot, x).left = sale.left
        /\ TakeFrom(sale, lot, x).cost = sale.cost
        /\ TakeFrom(sale, lot, x).lots = Append(sale.lots, lot)
    BY <2>2 DEF SaleStates
  <2> QED BY <1>3, <2>1, <2>3, <2>5, <2>6
<1>5. CASE ~(lot.position # PositionOf(x) \/ sale.left = 0)
  <2>1. taken = IF lot.remaining < sale.left THEN lot.remaining ELSE sale.left
    BY <1>5 DEF Taken
  <2>2. row = [lot EXCEPT !.remaining = @ - taken, !.sources = @ \union {x.id}]
    BY <1>5 DEF LotLeft
  <2>3. TakeFrom(sale, lot, x) = [left |-> sale.left - taken, cost |-> sale.cost + taken * lot.unit,
                                  lots |-> Append(sale.lots, row)]
    BY <1>5, <2>1, <2>2 DEF TakeFrom
  <2> HIDE DEF taken, row
  <2>4. taken * lot.unit \in Int
    BY <1>1, <1>3
  <2>5. Append(sale.lots, row) \in Seq(LotRows)
    BY <1>2, <1>3
  <2>6. TakeFrom(sale, lot, x) \in SaleStates
    BY <1>1, <1>3, <2>3, <2>4, <2>5 DEF SaleStates
  <2> QED BY <2>3, <2>6 DEF taken, row
<1> QED BY <1>4, <1>5

\* A sale before its first lot.
SaleStart(x) == [left |-> x.quantity, cost |-> 0, lots |-> <<>>]

\* r[i] is the sale after the first i lots of L.
Sells(r, L, x) ==
    /\ r[0] = SaleStart(x)
    /\ \A i \in 1..Len(L) : r[i] = TakeFrom(r[i - 1], L[i], x)

\* The fold of a sale takes the lots one after the other.
LEMMA SaleSteps ==
  ASSUME NEW book, book.lots \in Seq(LotRows), NEW x, x.id \in Int, x.quantity \in Nat
  PROVE  \E r \in [0..Len(book.lots) -> SaleStates] :
            Sells(r, book.lots, x) /\ Sale(book, x) = r[Len(book.lots)]
<1> DEFINE L == book.lots
           n == Len(L)
           base == SaleStart(x)
           F(h) == [s \in SUBSET DOMAIN L |->
                      IF s = {} THEN base ELSE TakeFrom(h[s \ {Max(s)}], L[Max(s)], x)]
           it == CHOOSE h : h = F(h)
           g == [p \in SaleStates \X (1..n) |-> TakeFrom(p[1], L[p[2]], x)]
           r == [i \in 0..n |-> it[1..i]]
<1>1. n \in Nat /\ DOMAIN L = 1..n /\ \A i \in 1..n : L[i] \in LotRows
  OBVIOUS
<1>2. base \in SaleStates
  <2>1. <<>> \in Seq(LotRows)
    OBVIOUS
  <2> QED BY <2>1 DEF SaleStart, SaleStates
<1>3. Sale(book, x) = it[DOMAIN L]
  BY DEF Sale, FoldLeft, MapThenFoldSet, SaleStart
<1> HIDE DEF it, base, n, L
<1>4. g \in [SaleStates \X (1..n) -> SaleStates]
  BY <1>1, TakeFromState
<1>5. \A s \in SaleStates, i \in 1..n : g[<<s, i>>] = TakeFrom(s, L[i], x)
  OBVIOUS
<1> HIDE DEF g
<1>6. PICK h : UpFolds(h, SaleStates, base, n, g)
  BY <1>1, <1>2, <1>4, UpwardFoldExists
<1>7. \A s \in SUBSET (1..n) :
        h[s] = IF s = {} THEN base ELSE TakeFrom(h[s \ {Max(s)}], L[Max(s)], x)
  <2> SUFFICES ASSUME NEW s \in SUBSET (1..n), s # {}
               PROVE  h[s] = TakeFrom(h[s \ {Max(s)}], L[Max(s)], x)
    BY <1>6 DEF UpFolds
  <2>1. Max(s) \in 1..n
    BY <1>1, MaxOf
  <2>2. h[s \ {Max(s)}] \in SaleStates
    BY <1>6 DEF UpFolds
  <2>3. h[s] = g[<<h[s \ {Max(s)}], Max(s)>>]
    BY <1>6 DEF UpFolds
  <2> QED BY <1>5, <2>1, <2>2, <2>3
<1>8. h = F(h)
  <2>1. h \in [SUBSET (1..n) -> SaleStates]
    BY <1>6 DEF UpFolds
  <2> QED BY <1>1, <1>7, <2>1
<1>9. it = F(it)
  BY <1>8 DEF it
<1>10. it[1..0] = base
  <2>1. 1..0 \in SUBSET (1..n) /\ 1..0 = {}
    BY <1>1
  <2> QED BY <1>1, <1>9, <2>1
<1>11. \A i \in 1..n : it[1..i] = TakeFrom(it[1..(i - 1)], L[i], x)
  <2> TAKE i \in 1..n
  <2>1. 1..i \in SUBSET (1..n) /\ 1..i # {} /\ Max(1..i) = i /\ (1..i) \ {i} = 1..(i - 1)
    BY <1>1, UpTo
  <2>2. it[1..i] = TakeFrom(it[(1..i) \ {Max(1..i)}], L[Max(1..i)], x)
    BY <1>1, <1>9, <2>1
  <2>3. it[(1..i) \ {Max(1..i)}] = it[1..(i - 1)]
    BY <2>1, Zenon
  <2> QED BY <2>1, <2>2, <2>3
<1>12. \A i \in 0..n : r[i] = it[1..i]
  OBVIOUS
<1>13. r[0] = base /\ \A i \in 1..n : r[i] = TakeFrom(r[i - 1], L[i], x)
  <2>1. 0 \in 0..n /\ \A i \in 1..n : i \in 0..n /\ i - 1 \in 0..n
    BY <1>1
  <2> QED BY <1>10, <1>11, <1>12, <2>1
<1>14. r[n] = Sale(book, x)
  <2>1. n \in 0..n
    BY <1>1
  <2>2. it[1..n] = it[DOMAIN L]
    BY <1>1, Zenon
  <2> QED BY <1>3, <1>12, <2>1, <2>2
<1>15. r \in [0..n -> SaleStates]
  <2> DEFINE N == {i \in Nat : i <= n => r[i] \in SaleStates}
  <2>1. DOMAIN r = 0..n
    OBVIOUS
  <2> HIDE DEF r
  <2>2. 0 \in N
    BY <1>2, <1>13
  <2>3. \A i \in Nat : i \in N => i + 1 \in N
    <3> SUFFICES ASSUME NEW i \in Nat, i \in N, i + 1 <= n PROVE r[i + 1] \in SaleStates
      OBVIOUS
    <3>1. i + 1 \in 1..n /\ (i + 1) - 1 = i /\ i <= n
      BY <1>1
    <3>2. r[i + 1] = TakeFrom(r[i], L[i + 1], x)
      BY <1>13, <3>1
    <3> QED BY <1>1, <3>1, <3>2, TakeFromState
  <2> HIDE DEF N
  <2>4. Nat \subseteq N
    BY <2>2, <2>3, NatInductionOn
  <2>5. \A i \in 0..n : r[i] \in SaleStates
    BY <1>1, <2>4 DEF N
  <2>6. r = [i \in 0..n |-> r[i]]
    BY DEF r
  <2> QED BY <2>5, <2>6
<1> HIDE DEF r
<1>16. Sells(r, L, x)
  BY <1>13 DEF Sells, base, n
<1> QED BY <1>14, <1>15, <1>16 DEF L, n

-----------------------------------------------------------------------------
(* A sale as a whole. *)

\* As much of n as is between zero and q.
Clamp(n, q) == IF n < 0 THEN 0 ELSE IF n > q THEN q ELSE n

\* n, or zero.
NonNeg(n) == IF n < 0 THEN 0 ELSE n

\* What a sale is, lot by lot: how many units it takes from each, what it has to
\* go, and their cost so far.
SaleRun(left, cost, taken, L, x, sale) ==
    /\ left \in [0..Len(L) -> Nat]
    /\ cost \in [0..Len(L) -> Int]
    /\ left[0] = x.quantity /\ cost[0] = 0
    /\ sale.left = left[Len(L)] /\ sale.cost = cost[Len(L)]
    /\ sale.lots \in Seq(LotRows) /\ Len(sale.lots) = Len(L)
    /\ \A k \in 1..Len(L) :
          /\ taken[k] = IF L[k].position # PositionOf(x) \/ left[k - 1] = 0 THEN 0
                        ELSE IF L[k].remaining < left[k - 1] THEN L[k].remaining ELSE left[k - 1]
          /\ left[k] = left[k - 1] - taken[k]
          /\ cost[k] = cost[k - 1] + taken[k] * L[k].unit
          /\ sale.lots[k].buy = L[k].buy
          /\ sale.lots[k].position = L[k].position
          /\ sale.lots[k].quantity = L[k].quantity
          /\ sale.lots[k].unit = L[k].unit
          /\ sale.lots[k].remaining = L[k].remaining - taken[k]

\* A sale keeps the lots and their places.
LEMMA SellsLots ==
  ASSUME NEW L \in Seq(LotRows), NEW x, x.id \in Int,
         NEW r \in [0..Len(L) -> SaleStates], Sells(r, L, x)
  PROVE  \A i \in 0..Len(L) : /\ Len(r[i].lots) = i
                              /\ \A k \in 1..i : r[i].lots[k] = LotLeft(r[k - 1], L[k], x)
<1> DEFINE n == Len(L)
           Good(i) == /\ Len(r[i].lots) = i
                      /\ \A k \in 1..i : r[i].lots[k] = LotLeft(r[k - 1], L[k], x)
           N == {i \in Nat : i <= n => Good(i)}
<1>1. n \in Nat /\ \A i \in 1..n : L[i] \in LotRows
  OBVIOUS
<1>2. 0 \in N
  BY DEF Sells, SaleStart
<1>3. \A i \in Nat : i \in N => i + 1 \in N
  <2> SUFFICES ASSUME NEW i \in Nat, i \in N, i + 1 <= n PROVE Good(i + 1)
    OBVIOUS
  <2> DEFINE s == r[i].lots
             e == LotLeft(r[i], L[i + 1], x)
  <2>1. i + 1 \in 1..n /\ (i + 1) - 1 = i /\ i \in 0..n /\ Good(i)
    BY <1>1
  <2>2. r[i + 1] = TakeFrom(r[i], L[i + 1], x) /\ r[i] \in SaleStates
    BY <2>1 DEF Sells
  <2>3. r[i + 1].lots = Append(s, e)
    <3>1. L[i + 1] \in LotRows
      BY <1>1, <2>1
    <3>2. TakeFrom(r[i], L[i + 1], x).lots = Append(r[i].lots, LotLeft(r[i], L[i + 1], x))
      BY <2>2, <3>1, TakeFromState
    <3> QED BY <2>2, <3>2
  <2>4. s \in Seq(LotRows) /\ e \in LotRows
    BY <1>1, <2>1, <2>2, LotLeftRow DEF SaleStates
  <2>5. Len(s) = i /\ \A k \in 1..i : s[k] = LotLeft(r[k - 1], L[k], x)
    BY <2>1
  <2> HIDE DEF s, e
  <2>6. Len(Append(s, e)) = i + 1 /\ Append(s, e)[i + 1] = e /\ \A k \in 1..i : Append(s, e)[k] = s[k]
    BY <2>4, <2>5
  <2>7. Len(r[i + 1].lots) = i + 1
    BY <2>3, <2>6
  <2>8. ASSUME NEW k \in 1..(i + 1) PROVE r[i + 1].lots[k] = LotLeft(r[k - 1], L[k], x)
    <3>1. CASE k = i + 1
      BY <2>1, <2>3, <2>6, <3>1 DEF e
    <3>2. CASE k # i + 1
      BY <2>3, <2>5, <2>6, <3>2
    <3> QED BY <3>1, <3>2
  <2> QED BY <2>7, <2>8
<1> HIDE DEF N
<1>4. Nat \subseteq N
  BY <1>2, <1>3, NatInductionOn
<1> QED BY <1>1, <1>4 DEF N

\* Every sale can be told lot by lot.
LEMMA SaleRuns ==
  ASSUME NEW book, book.lots \in Seq(LotRows), NEW x, x.id \in Int, x.quantity \in Nat
  PROVE  \E left, cost, taken : SaleRun(left, cost, taken, book.lots, x, Sale(book, x))
<1> DEFINE L == book.lots
           n == Len(L)
           sale == Sale(book, x)
<1>1. n \in Nat /\ \A i \in 1..n : L[i] \in LotRows
  OBVIOUS
<1>2. PICK r \in [0..n -> SaleStates] : Sells(r, L, x) /\ sale = r[n]
  BY SaleSteps
<1>3. \A i \in 0..n : /\ Len(r[i].lots) = i
                      /\ \A k \in 1..i : r[i].lots[k] = LotLeft(r[k - 1], L[k], x)
  BY <1>2, SellsLots
<1> HIDE DEF sale, n, L
<1> DEFINE left == [i \in 0..n |-> r[i].left]
           cost == [i \in 0..n |-> r[i].cost]
           taken == [k \in 1..n |-> Taken(r[k - 1], L[k], x)]
<1>4. /\ \A i \in 0..n : left[i] = r[i].left /\ cost[i] = r[i].cost
      /\ \A k \in 1..n : taken[k] = Taken(r[k - 1], L[k], x)
  OBVIOUS
<1>5. left \in [0..n -> Nat] /\ cost \in [0..n -> Int]
  BY <1>2 DEF SaleStates
<1> HIDE DEF left, cost, taken
<1>6. 0 \in 0..n /\ n \in 0..n /\ \A k \in 1..n : k - 1 \in 0..n /\ k \in 0..n
  BY <1>1
<1>7. left[0] = x.quantity /\ cost[0] = 0
  BY <1>2, <1>4, <1>6 DEF Sells, SaleStart
<1>8. sale.left = left[n] /\ sale.cost = cost[n]
  BY <1>2, <1>4, <1>6
<1>9. sale.lots \in Seq(LotRows) /\ Len(sale.lots) = n
  BY <1>2, <1>3, <1>6 DEF SaleStates
<1>10. ASSUME NEW k \in 1..n
      PROVE  /\ taken[k] = IF L[k].position # PositionOf(x) \/ left[k - 1] = 0 THEN 0
                           ELSE IF L[k].remaining < left[k - 1] THEN L[k].remaining ELSE left[k - 1]
             /\ left[k] = left[k - 1] - taken[k]
             /\ cost[k] = cost[k - 1] + taken[k] * L[k].unit
             /\ sale.lots[k].buy = L[k].buy
             /\ sale.lots[k].position = L[k].position
             /\ sale.lots[k].quantity = L[k].quantity
             /\ sale.lots[k].unit = L[k].unit
             /\ sale.lots[k].remaining = L[k].remaining - taken[k]
  <2>1. r[k] = TakeFrom(r[k - 1], L[k], x) /\ r[k - 1] \in SaleStates /\ L[k] \in LotRows
    BY <1>1, <1>2, <1>6 DEF Sells, n
  <2>2. sale.lots[k] = LotLeft(r[k - 1], L[k], x)
    BY <1>2, <1>3, <1>6
  <2>3. taken[k] = IF L[k].position # PositionOf(x) \/ left[k - 1] = 0 THEN 0
                   ELSE IF L[k].remaining < left[k - 1] THEN L[k].remaining ELSE left[k - 1]
    BY <1>4, <1>6 DEF Taken
  <2>4. /\ r[k].left = r[k - 1].left - taken[k]
        /\ r[k].cost = r[k - 1].cost + taken[k] * L[k].unit
    BY <1>4, <2>1, TakeFromState
  <2>5. /\ LotLeft(r[k - 1], L[k], x).buy = L[k].buy
        /\ LotLeft(r[k - 1], L[k], x).position = L[k].position
        /\ LotLeft(r[k - 1], L[k], x).quantity = L[k].quantity
        /\ LotLeft(r[k - 1], L[k], x).unit = L[k].unit
        /\ LotLeft(r[k - 1], L[k], x).remaining = L[k].remaining - taken[k]
    BY <1>4, <2>1, LotLeftRow
  <2>6. left[k] = left[k - 1] - taken[k] /\ cost[k] = cost[k - 1] + taken[k] * L[k].unit
    BY <1>4, <1>6, <2>4
  <2> QED BY <2>2, <2>3, <2>5, <2>6
<1>11. SaleRun(left, cost, taken, L, x, sale)
  BY <1>5, <1>7, <1>8, <1>9, <1>10 DEF SaleRun, n
<1> QED BY <1>11 DEF L, sale

\* cum[k]: the units ever bought into the position p by the first k lots.
Cumulates(cum, L, p) ==
    /\ cum \in [0..Len(L) -> Nat]
    /\ cum[0] = 0
    /\ \A k \in 1..Len(L) : cum[k] = cum[k - 1] + (IF L[k].position = p THEN L[k].quantity ELSE 0)

\* A sale empties the lots of its position in their order.
LEMMA SaleIsFifo ==
  ASSUME NEW L \in Seq(LotRows), NEW x, x.quantity \in Nat,
         NEW left, NEW cost, NEW taken, NEW sale, SaleRun(left, cost, taken, L, x, sale),
         NEW cum, Cumulates(cum, L, PositionOf(x)), NEW sold \in Nat,
         \A k \in 1..Len(L) : L[k].position = PositionOf(x)
                                => L[k].remaining = Clamp(cum[k] - sold, L[k].quantity)
  PROVE  /\ sale.left = NonNeg(x.quantity - NonNeg(cum[Len(L)] - sold))
         /\ \A k \in 1..Len(L) :
              sale.lots[k].remaining =
                 IF L[k].position = PositionOf(x)
                 THEN Clamp(cum[k] - (sold + x.quantity), L[k].quantity)
                 ELSE L[k].remaining
<1> DEFINE n == Len(L)
           p == PositionOf(x)
           q == x.quantity
           N == {i \in Nat : i <= n => left[i] = NonNeg(q - NonNeg(cum[i] - sold))}
<1>1. /\ n \in Nat
      /\ \A i \in 1..n : L[i] \in LotRows /\ L[i].quantity \in Nat /\ L[i].remaining \in Nat
      /\ \A i \in 1..n : i - 1 \in 0..n
      /\ \A i \in 0..n : cum[i] \in Nat /\ left[i] \in Nat
  <2>1. n \in Nat /\ \A i \in 1..n : L[i] \in LotRows
    OBVIOUS
  <2>2. \A i \in 1..n : L[i].quantity \in Nat /\ L[i].remaining \in Nat
    BY <2>1 DEF LotRows
  <2>3. \A i \in 0..n : cum[i] \in Nat
    BY DEF Cumulates
  <2>4. \A i \in 0..n : left[i] \in Nat
    BY DEF SaleRun
  <2> HIDE DEF n
  <2> QED BY <2>1, <2>2, <2>3, <2>4
<1>2. ASSUME NEW k \in 1..n, left[k - 1] = NonNeg(q - NonNeg(cum[k - 1] - sold))
      PROVE  /\ left[k] = NonNeg(q - NonNeg(cum[k] - sold))
             /\ sale.lots[k].remaining = IF L[k].position = p
                                         THEN Clamp(cum[k] - (sold + q), L[k].quantity)
                                         ELSE L[k].remaining
  <2>1. /\ taken[k] = IF L[k].position # p \/ left[k - 1] = 0 THEN 0
                      ELSE IF L[k].remaining < left[k - 1] THEN L[k].remaining ELSE left[k - 1]
        /\ left[k] = left[k - 1] - taken[k]
        /\ sale.lots[k].remaining = L[k].remaining - taken[k]
    BY DEF SaleRun
  <2>2. cum[k] = cum[k - 1] + (IF L[k].position = p THEN L[k].quantity ELSE 0)
    BY DEF Cumulates
  <2>3. CASE L[k].position # p
    <3>1. taken[k] = 0 /\ cum[k] = cum[k - 1]
      BY <1>1, <2>1, <2>2, <2>3
    <3>2. left[k] = left[k - 1] /\ sale.lots[k].remaining = L[k].remaining
      BY <1>1, <2>1, <3>1
    <3>3. left[k] = NonNeg(q - NonNeg(cum[k] - sold))
      BY <1>2, <3>1, <3>2, Zenon
    <3> QED BY <2>3, <3>2, <3>3
  <2>4. CASE L[k].position = p
    <3>1. cum[k] = cum[k - 1] + L[k].quantity /\ L[k].remaining = Clamp(cum[k] - sold, L[k].quantity)
      BY <2>2, <2>4
    <3>2. taken[k] = IF left[k - 1] = 0 THEN 0
                     ELSE IF L[k].remaining < left[k - 1] THEN L[k].remaining ELSE left[k - 1]
      BY <2>1, <2>4
    <3>3. cum[k - 1] \in Nat /\ L[k].quantity \in Nat
      BY <1>1
    <3> HIDE DEF p, q, n
    <3>4. q \in Nat
      BY DEF q
    <3>5. /\ left[k - 1] - taken[k] = NonNeg(q - NonNeg(cum[k] - sold))
          /\ L[k].remaining - taken[k] = Clamp(cum[k] - (sold + q), L[k].quantity)
      <4> DEFINE b == cum[k - 1]
                 c == cum[k]
                 lq == L[k].quantity
                 rem == L[k].remaining
                 go == left[k - 1]
                 out == taken[k]
      <4>1. b \in Nat /\ lq \in Nat /\ c = b + lq /\ rem = Clamp(c - sold, lq)
        BY <3>1, <3>3
      <4>2. go = NonNeg(q - NonNeg(b - sold)) /\ out = IF go = 0 THEN 0 ELSE IF rem < go THEN rem ELSE go
        BY <1>2, <3>2
      <4> HIDE DEF b, c, lq, rem, go, out
      <4>3. go - out = NonNeg(q - NonNeg(c - sold)) /\ rem - out = Clamp(c - (sold + q), lq)
        BY <3>4, <4>1, <4>2 DEF Clamp, NonNeg
      <4> QED BY <4>3 DEF b, c, lq, rem, go, out
    <3>6. left[k] = NonNeg(q - NonNeg(cum[k] - sold))
      BY <2>1, <3>5, Zenon
    <3>7. sale.lots[k].remaining = Clamp(cum[k] - (sold + q), L[k].quantity)
      BY <2>1, <3>5, Zenon
    <3> QED BY <2>4, <3>6, <3>7
  <2> QED BY <2>3, <2>4
<1>3. 0 \in N
  BY DEF Cumulates, SaleRun, NonNeg
<1>4. \A i \in Nat : i \in N => i + 1 \in N
  <2> SUFFICES ASSUME NEW i \in Nat, i \in N, i + 1 <= n
               PROVE  left[i + 1] = NonNeg(q - NonNeg(cum[i + 1] - sold))
    OBVIOUS
  <2>1. n \in Nat
    BY <1>1
  <2>2. i + 1 \in 1..n /\ (i + 1) - 1 = i /\ i <= n
    <3> HIDE DEF n, N
    <3> QED BY <2>1
  <2>3. left[(i + 1) - 1] = NonNeg(q - NonNeg(cum[(i + 1) - 1] - sold))
    BY <2>2
  <2> HIDE DEF N, p, q, n
  <2> QED BY <1>2, <2>2, <2>3
<1> HIDE DEF N
<1>5. Nat \subseteq N
  BY <1>3, <1>4, NatInductionOn
<1>6. \A i \in 0..n : left[i] = NonNeg(q - NonNeg(cum[i] - sold))
  BY <1>1, <1>5 DEF N
<1>7. sale.left = left[n] /\ n \in 0..n
  BY <1>1 DEF SaleRun
<1> HIDE DEF p, q, n
<1>8. sale.left = NonNeg(q - NonNeg(cum[n] - sold))
  BY <1>6, <1>7
<1>9. \A k \in 1..n : sale.lots[k].remaining = IF L[k].position = p
                                               THEN Clamp(cum[k] - (sold + q), L[k].quantity)
                                               ELSE L[k].remaining
  BY <1>1, <1>2, <1>6
<1> QED BY <1>8, <1>9 DEF n, p, q

-----------------------------------------------------------------------------
(* The replay, transaction by transaction. *)

\* What the replay has at any time.
Books == [ok : BOOLEAN, lots : Seq(LotRows), realized : Int]

\* A transaction that the replay can read.
TradeOK(x) ==
    /\ x.id \in Int /\ x.amount \in Int /\ x.quantity \in Nat
    /\ PositionOf(x) \in Accounts \X Securities
    /\ x.type \in {"BUY", "SELL"}

\* The book after one more transaction.
Posted(book, x) ==
    IF ~book.ok THEN book ELSE IF x.type = "BUY" THEN Bought(book, x) ELSE Sold(book, x)

\* The lot of a purchase.
NewLot(x) == [buy |-> x.id, position |-> PositionOf(x), quantity |-> x.quantity,
              remaining |-> x.quantity, unit |-> x.amount, sources |-> {x.id}]

\* The net amount of a purchase is negative.
LEMMA NetOfTrade ==
  ASSUME NEW x, TradeOK(x)
  PROVE  /\ Net(x) \in Int
         /\ x.type = "BUY" => Net(x) = -(x.quantity * x.amount)
<1>1. x.quantity * x.amount \in Int
  BY DEF TradeOK
<1> DEFINE m == x.quantity * x.amount
<1>2. Net(x) = IF x.type = "BUY" THEN -m ELSE m
  BY DEF Net, TradeOK
<1> HIDE DEF m
<1>3. m \in Int
  BY <1>1 DEF m
<1> QED BY <1>2, <1>3 DEF m

\* A purchase appends its lot and realizes nothing.
LEMMA BoughtBook ==
  ASSUME NEW book \in Books, NEW x, TradeOK(x)
  PROVE  /\ Bought(book, x) \in Books
         /\ Bought(book, x).ok = book.ok
         /\ Bought(book, x).realized = book.realized
         /\ Bought(book, x).lots = Append(book.lots, NewLot(x))
         /\ NewLot(x) \in LotRows
<1>1. NewLot(x) \in LotRows
  BY DEF NewLot, LotRows, TradeOK
<1>2. Bought(book, x) = [book EXCEPT !.lots = Append(@, NewLot(x))]
  BY DEF Bought, NewLot
<1> HIDE DEF NewLot
<1>3. Append(book.lots, NewLot(x)) \in Seq(LotRows)
  BY <1>1 DEF Books
<1>4. Bought(book, x) \in Books
  BY <1>2, <1>3 DEF Books
<1> QED BY <1>1, <1>2, <1>4 DEF Books

\* What a sale leaves is a list of lots.
LEMMA SaleState ==
  ASSUME NEW book \in Books, NEW x, TradeOK(x)
  PROVE  Sale(book, x).left \in Nat /\ Sale(book, x).cost \in Int /\ Sale(book, x).lots \in Seq(LotRows)
<1>1. book.lots \in Seq(LotRows) /\ x.id \in Int /\ x.quantity \in Nat
  BY DEF Books, TradeOK
<1>2. PICK left, cost, taken : SaleRun(left, cost, taken, book.lots, x, Sale(book, x))
  BY <1>1, SaleRuns
<1>3. Len(book.lots) \in 0..Len(book.lots)
  BY <1>1
<1> QED BY <1>2, <1>3 DEF SaleRun

\* A sale stops the replay, or realizes its net amount less the cost of its lots.
LEMMA SoldBook ==
  ASSUME NEW book \in Books, NEW x, TradeOK(x)
  PROVE  /\ Sold(book, x) \in Books
         /\ Sale(book, x).left > 0 => Sold(book, x).ok = FALSE
         /\ Sale(book, x).left = 0 =>
              /\ Sold(book, x).ok = book.ok
              /\ Sold(book, x).lots = Sale(book, x).lots
              /\ Sold(book, x).realized = book.realized + (Net(x) - Sale(book, x).cost)
<1> DEFINE sale == Sale(book, x)
<1>1. sale.left \in Nat /\ sale.cost \in Int /\ sale.lots \in Seq(LotRows)
  BY SaleState
<1>2. Net(x) \in Int
  BY NetOfTrade
<1>3. Sold(book, x) = IF sale.left > 0 THEN [book EXCEPT !.ok = FALSE]
                      ELSE [book EXCEPT !.lots = sale.lots, !.realized = @ + (Net(x) - sale.cost)]
  BY DEF Sold, Realized
<1> HIDE DEF sale
<1>4. CASE sale.left > 0
  <2>1. Sold(book, x) = [book EXCEPT !.ok = FALSE]
    BY <1>3, <1>4
  <2>2. Sold(book, x) \in Books /\ Sold(book, x).ok = FALSE
    BY <2>1 DEF Books
  <2> QED BY <1>4, <2>2 DEF sale
<1>5. CASE ~(sale.left > 0)
  <2>1. sale.left = 0
    BY <1>1, <1>5
  <2>2. Sold(book, x) = [book EXCEPT !.lots = sale.lots, !.realized = @ + (Net(x) - sale.cost)]
    BY <1>3, <1>5
  <2>3. book.realized + (Net(x) - sale.cost) \in Int
    BY <1>1, <1>2 DEF Books
  <2>4. Sold(book, x) \in Books
    BY <1>1, <2>2, <2>3 DEF Books
  <2>5. /\ Sold(book, x).ok = book.ok /\ Sold(book, x).lots = sale.lots
        /\ Sold(book, x).realized = book.realized + (Net(x) - sale.cost)
    BY <2>2 DEF Books
  <2> QED BY <2>1, <2>4, <2>5 DEF sale
<1> QED BY <1>4, <1>5

\* b[i] is the book after the first i transactions of seq.
Posts(b, seq, n) ==
    /\ b[0] = NoBook
    /\ \A i \in 1..n : b[i] = Posted(b[i - 1], seq[i])

\* A transaction makes a book of a book.
LEMMA PostedBook ==
  ASSUME NEW book \in Books, NEW x, TradeOK(x)
  PROVE  Posted(book, x) \in Books
BY BoughtBook, SoldBook DEF Posted

\* The fold of the replay posts the transactions one after the other.
LEMMA ReplaySteps ==
  ASSUME NEW T, NEW day, Numbered(Eligible(T, day)), \A x \in Eligible(T, day) : TradeOK(x)
  PROVE  LET n == Cardinality(Eligible(T, day))
         IN  \E b \in [0..n -> Books] :
                Posts(b, Ordered(Eligible(T, day)), n) /\ Replay(T, day) = b[n]
<1> DEFINE S == Eligible(T, day)
           n == Cardinality(S)
           seq == Ordered(S)
           F(h) == [s \in SUBSET DOMAIN seq |->
                      IF s = {} THEN NoBook ELSE Posted(h[s \ {Max(s)}], seq[Max(s)])]
           it == CHOOSE h : h = F(h)
           g == [p \in Books \X (1..n) |-> Posted(p[1], seq[p[2]])]
           r == [i \in 0..n |-> it[1..i]]
<1>1. Replay(T, day) = it[DOMAIN seq]
  BY DEF Replay, FoldLeft, MapThenFoldSet, Posted
<1> HIDE DEF it
<1>2. n \in Nat /\ DOMAIN seq = 1..n /\ \A i \in 1..n : seq[i] \in S /\ TradeOK(seq[i])
  <2>1. n \in Nat /\ seq \in [1..n -> S]
    BY OrderedEnumerates
  <2> HIDE DEF S, n, seq
  <2> QED BY <2>1 DEF S
<1>3. NoBook \in Books
  <2>1. <<>> \in Seq(LotRows)
    OBVIOUS
  <2> QED BY <2>1 DEF NoBook, Books
<1> HIDE DEF n, S, seq
<1>4. g \in [Books \X (1..n) -> Books]
  BY <1>2, PostedBook
<1>5. \A s \in Books, i \in 1..n : g[<<s, i>>] = Posted(s, seq[i])
  OBVIOUS
<1> HIDE DEF g
<1>6. PICK h : UpFolds(h, Books, NoBook, n, g)
  BY <1>2, <1>3, <1>4, UpwardFoldExists
<1>7. \A s \in SUBSET (1..n) :
        h[s] = IF s = {} THEN NoBook ELSE Posted(h[s \ {Max(s)}], seq[Max(s)])
  <2> SUFFICES ASSUME NEW s \in SUBSET (1..n), s # {}
               PROVE  h[s] = Posted(h[s \ {Max(s)}], seq[Max(s)])
    BY <1>6 DEF UpFolds
  <2>1. Max(s) \in 1..n
    BY <1>2, MaxOf
  <2>2. h[s \ {Max(s)}] \in Books
    BY <1>6 DEF UpFolds
  <2>3. h[s] = g[<<h[s \ {Max(s)}], Max(s)>>]
    BY <1>6 DEF UpFolds
  <2> QED BY <1>5, <2>1, <2>2, <2>3
<1>8. h = F(h)
  <2>1. h \in [SUBSET (1..n) -> Books]
    BY <1>6 DEF UpFolds
  <2> QED BY <1>2, <1>7, <2>1
<1>9. it = F(it)
  BY <1>8 DEF it
<1>10. it[1..0] = NoBook
  <2>1. 1..0 \in SUBSET (1..n) /\ 1..0 = {}
    BY <1>2
  <2> QED BY <1>2, <1>9, <2>1
<1>11. \A i \in 1..n : it[1..i] = Posted(it[1..(i - 1)], seq[i])
  <2> TAKE i \in 1..n
  <2>1. 1..i \in SUBSET (1..n) /\ 1..i # {} /\ Max(1..i) = i /\ (1..i) \ {i} = 1..(i - 1)
    BY <1>2, UpTo
  <2>2. it[1..i] = Posted(it[(1..i) \ {Max(1..i)}], seq[Max(1..i)])
    BY <1>2, <1>9, <2>1
  <2>3. it[(1..i) \ {Max(1..i)}] = it[1..(i - 1)]
    BY <2>1, Zenon
  <2> QED BY <2>1, <2>2, <2>3
<1>12. \A i \in 0..n : r[i] = it[1..i]
  OBVIOUS
<1>13. r[0] = NoBook /\ \A i \in 1..n : r[i] = Posted(r[i - 1], seq[i])
  <2>1. 0 \in 0..n /\ \A i \in 1..n : i \in 0..n /\ i - 1 \in 0..n
    BY <1>2
  <2> QED BY <1>10, <1>11, <1>12, <2>1
<1>14. r[n] = Replay(T, day)
  <2>1. n \in 0..n
    BY <1>2
  <2>2. it[1..n] = it[DOMAIN seq]
    BY <1>2, Zenon
  <2> QED BY <1>1, <1>12, <2>1, <2>2
<1>15. r \in [0..n -> Books]
  <2> DEFINE N == {i \in Nat : i <= n => r[i] \in Books}
  <2> HIDE DEF r
  <2>1. 0 \in N
    BY <1>3, <1>13
  <2>2. \A i \in Nat : i \in N => i + 1 \in N
    <3> SUFFICES ASSUME NEW i \in Nat, i \in N, i + 1 <= n PROVE r[i + 1] \in Books
      OBVIOUS
    <3>1. i + 1 \in 1..n /\ (i + 1) - 1 = i /\ i <= n
      BY <1>2
    <3>2. r[i + 1] = Posted(r[i], seq[i + 1])
      BY <1>13, <3>1
    <3> QED BY <1>2, <3>1, <3>2, PostedBook
  <2> HIDE DEF N
  <2>3. Nat \subseteq N
    BY <2>1, <2>2, NatInductionOn
  <2>4. \A i \in 0..n : r[i] \in Books
    BY <1>2, <2>3 DEF N
  <2>5. r = [i \in 0..n |-> r[i]]
    BY DEF r
  <2> QED BY <2>4, <2>5
<1> HIDE DEF r
<1>16. Posts(r, seq, n)
  BY <1>13 DEF Posts
<1> QED BY <1>14, <1>15, <1>16 DEF S, n, seq

-----------------------------------------------------------------------------
(* The units that the first transactions moved. *)

\* Where lots can be.
Positions == Accounts \X Securities

\* Transactions that the replay can put in an order and read.
Trades(S) == Numbered(S) /\ \A x \in S : TradeOK(x)

\* seq has the transactions of S, each before the later ones.
Enumerated(seq, n, S) ==
    /\ n \in Nat
    /\ seq \in [1..n -> S]
    /\ \A i, j \in 1..n : i < j => Before(seq[i], seq[j])
    /\ \A x \in S : \E i \in 1..n : seq[i] = x

\* No transaction comes twice, and the order is that of Before.
LEMMA EnumeratedOnce ==
  ASSUME NEW S, Trades(S), NEW n, NEW seq, Enumerated(seq, n, S)
  PROVE  \A i, j \in 1..n : (Before(seq[i], seq[j]) => i < j) /\ (seq[i] = seq[j] => i = j)
<1> SUFFICES ASSUME NEW i \in 1..n, NEW j \in 1..n, ~(i < j)
             PROVE  ~Before(seq[i], seq[j]) /\ (seq[i] = seq[j] => i = j)
  <2> USE DEF Enumerated
  <2>1. \A x \in S : ~Before(x, x)
    BY BeforeOrders DEF Trades
  <2>2. \A k \in 1..n : seq[k] \in S
    OBVIOUS
  <2> QED BY <2>1, <2>2
<1>1. /\ \A x \in S : ~Before(x, x)
      /\ \A x, y, z \in S : Before(x, y) /\ Before(y, z) => Before(x, z)
  BY BeforeOrders DEF Trades
<1>2. seq[i] \in S /\ seq[j] \in S /\ n \in Nat
  BY DEF Enumerated
<1>3. CASE i = j
  BY <1>1, <1>2, <1>3
<1>4. CASE i # j
  <2>1. j < i
    BY <1>2, <1>4
  <2>2. Before(seq[j], seq[i])
    BY <2>1 DEF Enumerated
  <2> QED BY <1>1, <1>2, <2>2
<1> QED BY <1>3, <1>4

\* The units of a set of transactions.
UnitsOf(S) == MapThenSumSet(LAMBDA y : y.quantity, S)

\* The first i transactions of a type and a position, and the units they moved.
Part(seq, i, type, p) ==
    {seq[k] : k \in {k \in 1..i : seq[k].type = type /\ PositionOf(seq[k]) = p}}

Total(seq, i, type, p) == UnitsOf(Part(seq, i, type, p))

\* Sums of units are sums of one function.
LEMMA UnitsAre ==
  ASSUME NEW S, Trades(S)
  PROVE  \E w : /\ \A x \in S : w[x] \in Nat /\ w[x] = x.quantity
                /\ \A R \in SUBSET S : UnitsOf(R) = SumOver(w, R) /\ IsFiniteSet(R)
<1> DEFINE w == [x \in S |-> x.quantity]
<1>1. \A x \in S : w[x] \in Nat /\ w[x] = x.quantity
  BY DEF Trades, TradeOK
<1> HIDE DEF w
<1>2. ASSUME NEW R \in SUBSET S PROVE UnitsOf(R) = SumOver(w, R) /\ IsFiniteSet(R)
  <2>1. IsFiniteSet(R)
    BY FS_Subset DEF Trades, Numbered
  <2>2. \A x \in R : x.quantity \in Int /\ w[x] = x.quantity
    BY <1>1
  <2>3. MapThenSumSet(LAMBDA y : y.quantity, R) = SumOver(w, R)
    BY <2>1, <2>2, UnitsSum
  <2> QED BY <2>1, <2>3 DEF UnitsOf
<1> QED BY <1>1, <1>2

\* More transactions move more units.
LEMMA UnitsGrow ==
  ASSUME NEW S, Trades(S), NEW R \in SUBSET S, NEW Q \in SUBSET R
  PROVE  UnitsOf(Q) \in Nat /\ UnitsOf(R) \in Nat /\ UnitsOf(Q) <= UnitsOf(R)
<1>1. PICK w : /\ \A x \in S : w[x] \in Nat /\ w[x] = x.quantity
               /\ \A P \in SUBSET S : UnitsOf(P) = SumOver(w, P) /\ IsFiniteSet(P)
  BY UnitsAre
<1>2. R \in SUBSET S /\ Q \in SUBSET S /\ Q \subseteq R
  OBVIOUS
<1>3. UnitsOf(Q) = SumOver(w, Q) /\ UnitsOf(R) = SumOver(w, R) /\ IsFiniteSet(Q) /\ IsFiniteSet(R)
  BY <1>1, <1>2
<1>4. (\A x \in R : w[x] \in Nat) /\ (\A x \in Q : w[x] \in Nat)
  BY <1>1, <1>2
<1>5. SumOver(w, Q) \in Nat /\ SumOver(w, R) \in Nat /\ SumOver(w, Q) <= SumOver(w, R)
  BY <1>2, <1>3, <1>4, SumNat, SumGrows
<1> QED BY <1>3, <1>5

\* What moved units are transactions of S.
LEMMA PartOf ==
  ASSUME NEW S, NEW n, NEW seq, Enumerated(seq, n, S), NEW i \in 0..n, NEW type, NEW p
  PROVE  Part(seq, i, type, p) \in SUBSET S
<1>1. \A k \in 1..i : k \in 1..n
  BY DEF Enumerated
<1>2. \A k \in 1..n : seq[k] \in S
  BY DEF Enumerated
<1> QED BY <1>1, <1>2 DEF Part

\* No transaction moves no unit.
LEMMA TotalStart ==
  ASSUME NEW seq, NEW type, NEW p
  PROVE  Total(seq, 0, type, p) = 0
<1> DEFINE w == [x \in {} |-> 0]
<1>1. Part(seq, 0, type, p) = {}
  BY DEF Part
<1>2. UnitsOf({}) = SumOver(w, {})
  BY FS_EmptySet, UnitsSum DEF UnitsOf
<1>3. UnitsOf(Part(seq, 0, type, p)) = UnitsOf({})
  BY <1>1, Zenon
<1> QED BY <1>2, <1>3, SumEmpty DEF Total

\* They moved a number of units.
LEMMA TotalNat ==
  ASSUME NEW S, Trades(S), NEW n, NEW seq, Enumerated(seq, n, S), NEW i \in 0..n, NEW type, NEW p
  PROVE  Total(seq, i, type, p) \in Nat
<1>1. Part(seq, i, type, p) \in SUBSET S
  BY PartOf
<1> HIDE DEF Part
<1>2. UnitsOf(Part(seq, i, type, p)) \in Nat
  BY <1>1, UnitsGrow
<1> QED BY <1>2 DEF Total

\* A transaction adds its units to the total of its type and position.
LEMMA TotalStep ==
  ASSUME NEW S, Trades(S), NEW n, NEW seq, Enumerated(seq, n, S), NEW i \in 1..n, NEW type, NEW p
  PROVE  Total(seq, i, type, p) = Total(seq, i - 1, type, p)
            + (IF seq[i].type = type /\ PositionOf(seq[i]) = p THEN seq[i].quantity ELSE 0)
<1> DEFINE before == Part(seq, i - 1, type, p)
           after == Part(seq, i, type, p)
           x == seq[i]
<1>1. /\ n \in Nat /\ i - 1 \in 0..n /\ i \in 0..n /\ x \in S
      /\ 1..i = (1..(i - 1)) \union {i} /\ i \notin 1..(i - 1)
      /\ \A k \in 1..i : k \in 1..n
  BY DEF Enumerated
<1>2. before \in SUBSET S /\ after \in SUBSET S
  BY <1>1, PartOf
<1>3. PICK w : /\ \A y \in S : w[y] \in Nat /\ w[y] = y.quantity
               /\ \A R \in SUBSET S : UnitsOf(R) = SumOver(w, R) /\ IsFiniteSet(R)
  BY UnitsAre
<1>4. UnitsOf(before) = SumOver(w, before) /\ IsFiniteSet(before) /\ UnitsOf(after) = SumOver(w, after)
  BY <1>2, <1>3
<1>5. CASE x.type = type /\ PositionOf(x) = p
  <2>1. after = before \union {x}
    BY <1>1, <1>5 DEF Part
  <2>2. x \notin before
    <3> SUFFICES ASSUME NEW k \in 1..(i - 1), seq[k] = seq[i] PROVE FALSE
      BY DEF Part
    <3>1. k \in 1..n /\ i \in 1..n /\ k # i
      BY <1>1
    <3> QED BY <3>1, EnumeratedOnce
  <2> HIDE DEF before, after, x
  <2>3. IntOn(w, before) /\ w[x] \in Int
    BY <1>1, <1>2, <1>3 DEF IntOn
  <2>4. SumOver(w, before \union {x}) = SumOver(w, before) + w[x]
    BY <1>4, <2>2, <2>3, SumAdd
  <2>5. SumOver(w, after) = SumOver(w, before \union {x})
    BY <2>1, Zenon
  <2>6. w[x] = x.quantity
    BY <1>1, <1>3
  <2>7. UnitsOf(after) = UnitsOf(before) + x.quantity
    BY <1>4, <2>4, <2>5, <2>6
  <2> QED BY <1>5, <2>7 DEF Total, before, after, x
<1>6. CASE ~(x.type = type /\ PositionOf(x) = p)
  <2>1. after = before
    BY <1>1, <1>6 DEF Part
  <2> HIDE DEF before, after, x
  <2>2. UnitsOf(after) = UnitsOf(before)
    BY <2>1, Zenon
  <2>3. UnitsOf(before) \in Nat
    BY <1>2, UnitsGrow
  <2>4. UnitsOf(after) = UnitsOf(before) + 0
    BY <2>2, <2>3
  <2> QED BY <1>6, <2>4 DEF Total, before, after, x
<1> QED BY <1>5, <1>6

-----------------------------------------------------------------------------
(* First in, first out, step by step. *)

\* The units bought into p up to the k-th lot, b[k] being the purchase of lot k.
BoughtUpTo(b, seq, p, m) ==
    [k \in 0..m |-> IF k = 0 THEN 0 ELSE Total(seq, b[k], "BUY", p)]

\* The lots are the purchases, in their order, and keep what the sales of their
\* position leave of them.
FifoLots(b, L, seq, i) ==
    /\ b \in [1..Len(L) -> 1..i]
    /\ \A j, k \in 1..Len(L) : j < k => b[j] < b[k]
    /\ \A k \in 1..i : seq[k].type = "BUY" => \E j \in 1..Len(L) : b[j] = k
    /\ \A k \in 1..Len(L) :
          LET x == seq[b[k]]
              p == L[k].position
          IN  /\ x.type = "BUY" /\ L[k].buy = x.id /\ p = PositionOf(x)
              /\ L[k].quantity = x.quantity /\ L[k].unit = x.amount
              /\ L[k].remaining = Clamp(Total(seq, b[k], "BUY", p) - Total(seq, i, "SELL", p),
                                        L[k].quantity)
    /\ \A p \in Positions :
          /\ Cumulates(BoughtUpTo(b, seq, p, Len(L)), L, p)
          /\ BoughtUpTo(b, seq, p, Len(L))[Len(L)] = Total(seq, i, "BUY", p)
          /\ Total(seq, i, "SELL", p) <= Total(seq, i, "BUY", p)

\* The empty book.
LEMMA NoLots ==
  ASSUME NEW seq
  PROVE  FifoLots(<<>>, <<>>, seq, 0)
<1>1. \A type, p : Total(seq, 0, type, p) = 0
  BY TotalStart
<1>2. ASSUME NEW p
      PROVE  /\ Cumulates(BoughtUpTo(<<>>, seq, p, 0), <<>>, p)
             /\ BoughtUpTo(<<>>, seq, p, 0)[0] = 0
  BY DEF Cumulates, BoughtUpTo
<1>3. Len(<<>>) = 0 /\ 1..0 = {}
  OBVIOUS
<1>4. <<>> \in [1..0 -> 1..0]
  OBVIOUS
<1>5. \A p \in Positions : /\ Cumulates(BoughtUpTo(<<>>, seq, p, 0), <<>>, p)
                           /\ BoughtUpTo(<<>>, seq, p, 0)[0] = Total(seq, 0, "BUY", p)
                           /\ Total(seq, 0, "SELL", p) <= Total(seq, 0, "BUY", p)
  BY <1>1, <1>2
<1> QED BY <1>3, <1>4, <1>5 DEF FifoLots

\* A purchase opens a lot that is whole.
LEMMA BuyKeepsFifo ==
  ASSUME NEW S, Trades(S), NEW n, NEW seq, Enumerated(seq, n, S), NEW i \in 1..n,
         NEW L \in Seq(LotRows), NEW b, FifoLots(b, L, seq, i - 1), seq[i].type = "BUY"
  PROVE  \E c : FifoLots(c, Append(L, NewLot(seq[i])), seq, i)
<1> DEFINE m == Len(L)
           x == seq[i]
           row == NewLot(x)
           M == Append(L, row)
           c == [k \in 1..(m + 1) |-> IF k = m + 1 THEN i ELSE b[k]]
           T(j, type, p) == Total(seq, j, type, p)
<1>1. n \in Nat /\ m \in Nat /\ i - 1 \in 0..n /\ i \in 0..n /\ i \in Nat
  BY DEF Enumerated
<1>2. x \in S /\ TradeOK(x)
  BY DEF Enumerated, Trades
<1>3. row \in LotRows
  BY <1>2 DEF NewLot, LotRows, TradeOK
<1>4. /\ row.buy = x.id /\ row.position = PositionOf(x) /\ row.quantity = x.quantity
      /\ row.remaining = x.quantity /\ row.unit = x.amount
  BY DEF NewLot
<1> HIDE DEF row
<1>5. Len(M) = m + 1 /\ M[m + 1] = row /\ \A k \in 1..m : M[k] = L[k]
  BY <1>3
<1> HIDE DEF M
<1>6. /\ \A p : T(i, "SELL", p) = T(i - 1, "SELL", p) + 0
      /\ \A p : T(i, "BUY", p) = T(i - 1, "BUY", p) + (IF PositionOf(x) = p THEN x.quantity ELSE 0)
  BY TotalStep
<1>7. \A p : T(i - 1, "SELL", p) \in Nat /\ T(i - 1, "BUY", p) \in Nat
  BY <1>1, TotalNat
<1>8. \A p : T(i, "SELL", p) = T(i - 1, "SELL", p)
  BY <1>6, <1>7
<1>9. b \in [1..m -> 1..(i - 1)]
  BY DEF FifoLots
<1>10. /\ c \in [1..(m + 1) -> 1..i]
      /\ c[m + 1] = i
      /\ \A k \in 1..m : c[k] = b[k]
  BY <1>1, <1>9
<1> HIDE DEF c, T, x
<1>11. \A j, k \in 1..(m + 1) : j < k => c[j] < c[k]
  <2> SUFFICES ASSUME NEW j \in 1..(m + 1), NEW k \in 1..(m + 1), j < k PROVE c[j] < c[k]
    OBVIOUS
  <2>1. j \in 1..m /\ b[j] \in 1..(i - 1)
    BY <1>1, <1>9
  <2>2. CASE k = m + 1
    BY <1>1, <1>10, <2>1, <2>2
  <2>3. CASE k # m + 1
    <3>1. k \in 1..m
      BY <1>1, <2>3
    <3> QED BY <1>10, <2>1, <3>1 DEF FifoLots
  <2> QED BY <2>2, <2>3
<1>12. ASSUME NEW k \in 1..i, seq[k].type = "BUY" PROVE \E j \in 1..(m + 1) : c[j] = k
  <2>1. CASE k = i
    BY <1>1, <1>10, <2>1
  <2>2. CASE k # i
    <3>1. k \in 1..(i - 1)
      BY <1>1, <2>2
    <3>2. PICK j \in 1..m : b[j] = k
      BY <1>12, <3>1 DEF FifoLots
    <3> QED BY <1>1, <1>10, <3>2
  <2> QED BY <2>1, <2>2
<1>13. ASSUME NEW p \in Positions
       PROVE  /\ Cumulates(BoughtUpTo(c, seq, p, m + 1), M, p)
              /\ BoughtUpTo(c, seq, p, m + 1)[m + 1] = T(i, "BUY", p)
              /\ T(i, "SELL", p) <= T(i, "BUY", p)
  <2> DEFINE old == BoughtUpTo(b, seq, p, m)
             new == BoughtUpTo(c, seq, p, m + 1)
  <2>1. Cumulates(old, L, p) /\ old[m] = T(i - 1, "BUY", p) /\ T(i - 1, "SELL", p) <= T(i - 1, "BUY", p)
    BY DEF FifoLots, T
  <2>2. /\ new[0] = 0 /\ DOMAIN new = 0..(m + 1)
        /\ \A k \in 1..(m + 1) : new[k] = T(c[k], "BUY", p)
        /\ \A k \in 1..m : old[k] = T(b[k], "BUY", p)
        /\ old[0] = 0
        /\ new = [k \in 0..(m + 1) |-> new[k]]
    BY <1>1 DEF BoughtUpTo, T
  <2> HIDE DEF old, new
  <2>3. \A k \in 0..m : new[k] = old[k]
    <3> SUFFICES ASSUME NEW k \in 0..m, k # 0 PROVE new[k] = old[k]
      BY <2>2
    <3>1. k \in 1..m /\ k \in 1..(m + 1)
      BY <1>1
    <3>2. c[k] = b[k] /\ new[k] = T(c[k], "BUY", p) /\ old[k] = T(b[k], "BUY", p)
      BY <1>10, <2>2, <3>1
    <3> QED BY <3>2, Zenon
  <2>4. new[m + 1] = T(i, "BUY", p)
    <3>1. m + 1 \in 1..(m + 1)
      BY <1>1
    <3>2. c[m + 1] = i /\ new[m + 1] = T(c[m + 1], "BUY", p)
      BY <1>10, <2>2, <3>1
    <3> QED BY <3>2, Zenon
  <2>5. old \in [0..m -> Nat] /\ \A k \in 1..m : old[k] = old[k - 1] + (IF L[k].position = p THEN L[k].quantity ELSE 0)
    BY <2>1 DEF Cumulates
  <2>6. x.quantity \in Nat
    BY <1>2 DEF TradeOK
  <2>7. T(i, "BUY", p) \in Nat /\ T(i, "SELL", p) <= T(i, "BUY", p)
    BY <1>6, <1>7, <1>8, <2>1, <2>6
  <2>8. new \in [0..(m + 1) -> Nat]
    <3> SUFFICES ASSUME NEW k \in 0..(m + 1) PROVE new[k] \in Nat
      BY <2>2
    <3>1. CASE k = m + 1
      BY <2>4, <2>7, <3>1
    <3>2. CASE k # m + 1
      <4>1. k \in 0..m
        BY <1>1, <3>2
      <4> QED BY <2>3, <2>5, <4>1
    <3> QED BY <3>1, <3>2
  <2>9. ASSUME NEW k \in 1..(m + 1)
        PROVE  new[k] = new[k - 1] + (IF M[k].position = p THEN M[k].quantity ELSE 0)
    <3>1. CASE k = m + 1
      <4>1. new[k - 1] = T(i - 1, "BUY", p)
        BY <1>1, <2>1, <2>3, <3>1
      <4>2. M[k].position = PositionOf(x) /\ M[k].quantity = x.quantity
        BY <1>4, <1>5, <3>1
      <4>3. new[k] = T(i, "BUY", p)
        BY <2>4, <3>1
      <4> QED BY <1>6, <4>1, <4>2, <4>3
    <3>2. CASE k # m + 1
      <4>1. k \in 1..m /\ k \in 0..m /\ k - 1 \in 0..m
        BY <1>1, <3>2
      <4>2. new[k] = old[k] /\ new[k - 1] = old[k - 1] /\ M[k] = L[k]
        BY <1>5, <2>3, <4>1
      <4> QED BY <2>5, <4>1, <4>2
    <3> QED BY <3>1, <3>2
  <2>10. Cumulates(new, M, p)
    BY <1>5, <2>2, <2>8, <2>9 DEF Cumulates
  <2> QED BY <2>4, <2>7, <2>10 DEF new
<1>14. ASSUME NEW k \in 1..(m + 1)
       PROVE  /\ seq[c[k]].type = "BUY" /\ M[k].buy = seq[c[k]].id
              /\ M[k].position = PositionOf(seq[c[k]])
              /\ M[k].quantity = seq[c[k]].quantity /\ M[k].unit = seq[c[k]].amount
              /\ M[k].remaining = Clamp(T(c[k], "BUY", M[k].position) - T(i, "SELL", M[k].position),
                                        M[k].quantity)
  <2>1. CASE k = m + 1
    <3> DEFINE p == PositionOf(x)
    <3>1. M[k] = row /\ c[k] = i /\ seq[c[k]] = x
      BY <1>5, <1>10, <2>1 DEF x
    <3>2. p \in Positions /\ x.quantity \in Nat
      BY <1>2 DEF TradeOK, Positions
    <3> HIDE DEF p
    <3>3. T(i - 1, "SELL", p) <= T(i - 1, "BUY", p)
      BY <3>2 DEF FifoLots, T
    <3>4. T(i, "BUY", p) = T(i - 1, "BUY", p) + x.quantity
      BY <1>6 DEF p
    <3>5. T(i, "BUY", p) - T(i, "SELL", p) >= x.quantity /\ T(i, "BUY", p) - T(i, "SELL", p) \in Int
      BY <1>7, <1>8, <3>2, <3>3, <3>4
    <3>6. Clamp(T(i, "BUY", p) - T(i, "SELL", p), x.quantity) = x.quantity
      BY <3>2, <3>5 DEF Clamp
    <3>7. row.position = p /\ row.quantity = x.quantity /\ row.remaining = x.quantity
      BY <1>4 DEF p
    <3>8. M[k].remaining = Clamp(T(c[k], "BUY", M[k].position) - T(i, "SELL", M[k].position),
                                 M[k].quantity)
      BY <3>1, <3>6, <3>7, Zenon
    <3>9. x.type = "BUY"
      BY DEF x
    <3> QED BY <1>4, <3>1, <3>8, <3>9
  <2>2. CASE k # m + 1
    <3>1. k \in 1..m
      BY <1>1, <2>2
    <3>2. M[k] = L[k] /\ c[k] = b[k]
      BY <1>5, <1>10, <3>1
    <3>3. /\ seq[b[k]].type = "BUY" /\ L[k].buy = seq[b[k]].id
          /\ L[k].position = PositionOf(seq[b[k]])
          /\ L[k].quantity = seq[b[k]].quantity /\ L[k].unit = seq[b[k]].amount
          /\ L[k].remaining = Clamp(T(b[k], "BUY", L[k].position) - T(i - 1, "SELL", L[k].position),
                                    L[k].quantity)
      BY <3>1 DEF FifoLots, T
    <3>4. T(i, "SELL", L[k].position) = T(i - 1, "SELL", L[k].position)
      BY <1>8
    <3> QED BY <3>2, <3>3, <3>4, Zenon
  <2> QED BY <2>1, <2>2
<1>15. FifoLots(c, M, seq, i)
  BY <1>5, <1>10, <1>11, <1>12, <1>13, <1>14 DEF FifoLots, T
<1> QED BY <1>15 DEF M, row, x

\* A sale finds enough if and only if its position was bought enough, and keeps the
\* lots first in, first out.
LEMMA SellKeepsFifo ==
  ASSUME NEW S, Trades(S), NEW n, NEW seq, Enumerated(seq, n, S), NEW i \in 1..n,
         NEW book \in Books, NEW b, FifoLots(b, book.lots, seq, i - 1), seq[i].type = "SELL"
  PROVE  /\ Sale(book, seq[i]).left = 0 <=>
              Total(seq, i, "SELL", PositionOf(seq[i])) <= Total(seq, i, "BUY", PositionOf(seq[i]))
         /\ Sale(book, seq[i]).left = 0 => FifoLots(b, Sale(book, seq[i]).lots, seq, i)
<1> DEFINE L == book.lots
           m == Len(L)
           x == seq[i]
           p == PositionOf(x)
           sale == Sale(book, x)
           M == sale.lots
           cum == BoughtUpTo(b, seq, p, m)
           T(j, type, r) == Total(seq, j, type, r)
<1>1. n \in Nat /\ i - 1 \in 0..n /\ i \in 0..n /\ i \in Nat
  BY DEF Enumerated
<1>2. x \in S /\ TradeOK(x) /\ x.type = "SELL"
  BY DEF Enumerated, Trades
<1>3. p \in Positions /\ x.quantity \in Nat /\ x.id \in Int
  BY <1>2 DEF TradeOK, Positions
<1>4. L \in Seq(LotRows) /\ m \in Nat
  BY DEF Books
<1>5. PICK left, cost, taken : SaleRun(left, cost, taken, L, x, sale)
  BY <1>3, <1>4, SaleRuns
<1>6. /\ \A r : T(i, "BUY", r) = T(i - 1, "BUY", r) + 0
      /\ \A r : T(i, "SELL", r) = T(i - 1, "SELL", r) + (IF p = r THEN x.quantity ELSE 0)
  BY TotalStep
<1>7. \A r : T(i - 1, "SELL", r) \in Nat /\ T(i - 1, "BUY", r) \in Nat
  BY <1>1, TotalNat
<1>8. \A r : T(i, "BUY", r) = T(i - 1, "BUY", r)
  BY <1>6, <1>7
<1>9. Cumulates(cum, L, p) /\ cum[m] = T(i - 1, "BUY", p) /\ T(i - 1, "SELL", p) <= T(i - 1, "BUY", p)
  BY <1>3 DEF FifoLots
<1>10. \A k \in 1..m : cum[k] = T(b[k], "BUY", p)
  BY <1>4 DEF BoughtUpTo
<1>11. \A k \in 1..m : L[k].remaining = Clamp(T(b[k], "BUY", L[k].position) - T(i - 1, "SELL", L[k].position),
                                              L[k].quantity)
  BY DEF FifoLots
<1> HIDE DEF T, cum, sale, p, M
<1>12. ASSUME NEW k \in 1..m, L[k].position = p
       PROVE  L[k].remaining = Clamp(cum[k] - T(i - 1, "SELL", p), L[k].quantity)
  BY <1>10, <1>11, <1>12, Zenon
<1>13. /\ sale.left = NonNeg(x.quantity - NonNeg(cum[m] - T(i - 1, "SELL", p)))
       /\ \A k \in 1..m :
            M[k].remaining = IF L[k].position = p
                             THEN Clamp(cum[k] - (T(i - 1, "SELL", p) + x.quantity), L[k].quantity)
                             ELSE L[k].remaining
  <2>1. T(i - 1, "SELL", p) \in Nat
    BY <1>7
  <2> HIDE DEF x, L
  <2> QED BY <1>3, <1>4, <1>5, <1>9, <1>12, <2>1, SaleIsFifo DEF p, M
<1>14. T(i, "SELL", p) = T(i - 1, "SELL", p) + x.quantity
  BY <1>6
<1>15. sale.left = 0 <=> T(i, "SELL", p) <= T(i, "BUY", p)
  <2>1. T(i, "BUY", p) = cum[m] /\ cum[m] \in Nat /\ T(i - 1, "SELL", p) \in Nat
    BY <1>7, <1>8, <1>9
  <2>2. T(i - 1, "SELL", p) <= cum[m]
    BY <1>9
  <2> HIDE DEF x, m, L
  <2> QED BY <1>3, <1>13, <1>14, <2>1, <2>2 DEF NonNeg
<1>16. /\ Len(M) = m
       /\ \A k \in 1..m : /\ M[k].buy = L[k].buy /\ M[k].position = L[k].position
                          /\ M[k].quantity = L[k].quantity /\ M[k].unit = L[k].unit
  BY <1>5 DEF SaleRun, M
<1>17. ASSUME sale.left = 0 PROVE FifoLots(b, M, seq, i)
  <2>1. /\ b \in [1..m -> 1..i]
        /\ \A j, k \in 1..m : j < k => b[j] < b[k]
    <3>1. b \in [1..m -> 1..(i - 1)]
      BY DEF FifoLots
    <3>2. \A k \in 1..(i - 1) : k \in 1..i
      BY <1>1
    <3>3. b \in [1..m -> 1..i]
      BY <3>1, <3>2
    <3> QED BY <3>3 DEF FifoLots
  <2>2. \A k \in 1..i : seq[k].type = "BUY" => \E j \in 1..m : b[j] = k
    <3> SUFFICES ASSUME NEW k \in 1..i, seq[k].type = "BUY" PROVE \E j \in 1..m : b[j] = k
      OBVIOUS
    <3>1. k # i
      BY <1>2
    <3>2. k \in 1..(i - 1)
      BY <1>1, <3>1
    <3> QED BY <3>2 DEF FifoLots
  <2>3. ASSUME NEW k \in 1..m
        PROVE  /\ seq[b[k]].type = "BUY" /\ M[k].buy = seq[b[k]].id
               /\ M[k].position = PositionOf(seq[b[k]])
               /\ M[k].quantity = seq[b[k]].quantity /\ M[k].unit = seq[b[k]].amount
               /\ M[k].remaining = Clamp(T(b[k], "BUY", M[k].position) - T(i, "SELL", M[k].position),
                                         M[k].quantity)
    <3>1. /\ seq[b[k]].type = "BUY" /\ L[k].buy = seq[b[k]].id
          /\ L[k].position = PositionOf(seq[b[k]])
          /\ L[k].quantity = seq[b[k]].quantity /\ L[k].unit = seq[b[k]].amount
      BY DEF FifoLots
    <3>2. M[k].remaining = Clamp(T(b[k], "BUY", L[k].position) - T(i, "SELL", L[k].position),
                                 L[k].quantity)
      <4>1. CASE L[k].position = p
        BY <1>10, <1>13, <1>14, <4>1, Zenon
      <4>2. CASE L[k].position # p
        <5>1. T(i, "SELL", L[k].position) = T(i - 1, "SELL", L[k].position)
          BY <1>6, <1>7, <4>2
        <5>2. M[k].remaining = L[k].remaining
          BY <1>13, <4>2
        <5> QED BY <1>11, <5>1, <5>2, Zenon
      <4> QED BY <4>1, <4>2
    <3>3. /\ M[k].buy = L[k].buy /\ M[k].position = L[k].position
          /\ M[k].quantity = L[k].quantity /\ M[k].unit = L[k].unit
      BY <1>16
    <3> QED BY <3>1, <3>2, <3>3, Zenon
  <2>4. ASSUME NEW r \in Positions
        PROVE  /\ Cumulates(BoughtUpTo(b, seq, r, m), M, r)
               /\ BoughtUpTo(b, seq, r, m)[m] = T(i, "BUY", r)
               /\ T(i, "SELL", r) <= T(i, "BUY", r)
    <3> DEFINE at == BoughtUpTo(b, seq, r, m)
    <3>1. Cumulates(at, L, r) /\ at[m] = T(i - 1, "BUY", r) /\ T(i - 1, "SELL", r) <= T(i - 1, "BUY", r)
      BY DEF FifoLots, T
    <3> HIDE DEF at
    <3>2. Cumulates(at, M, r)
      <4>1. /\ at \in [0..m -> Nat] /\ at[0] = 0
            /\ \A k \in 1..m : at[k] = at[k - 1] + (IF L[k].position = r THEN L[k].quantity ELSE 0)
        BY <3>1 DEF Cumulates
      <4>2. \A k \in 1..m : at[k] = at[k - 1] + (IF M[k].position = r THEN M[k].quantity ELSE 0)
        BY <1>16, <4>1
      <4> QED BY <1>16, <4>1, <4>2 DEF Cumulates
    <3>3. at[m] = T(i, "BUY", r)
      BY <1>8, <3>1
    <3>4. T(i, "SELL", r) <= T(i, "BUY", r)
      <4>1. CASE r = p
        BY <1>15, <1>17, <4>1
      <4>2. CASE r # p
        <5>1. T(i, "SELL", r) = T(i - 1, "SELL", r)
          BY <1>6, <1>7, <4>2
        <5> QED BY <1>8, <3>1, <5>1
      <4> QED BY <4>1, <4>2
    <3> QED BY <3>2, <3>3, <3>4 DEF at
  <2> QED BY <1>16, <2>1, <2>2, <2>3, <2>4 DEF FifoLots, T
<1> QED BY <1>15, <1>17 DEF sale, M, T, p

\* No sale among the first i transactions, with those before it, exceeds the purchases.
Covered(seq, i) ==
    \A s \in 1..i : seq[s].type = "SELL" =>
        Total(seq, s, "SELL", PositionOf(seq[s])) <= Total(seq, s, "BUY", PositionOf(seq[s]))

\* The invariant of the replay.
ReplayInv(book, seq, i) ==
    /\ book.ok <=> Covered(seq, i)
    /\ book.ok => \E b : FifoLots(b, book.lots, seq, i)

\* One more transaction.
LEMMA CoveredStep ==
  ASSUME NEW seq, NEW i \in Nat \ {0}
  PROVE  Covered(seq, i) <=>
            /\ Covered(seq, i - 1)
            /\ seq[i].type = "SELL" =>
                 Total(seq, i, "SELL", PositionOf(seq[i])) <= Total(seq, i, "BUY", PositionOf(seq[i]))
<1>1. 1..i = (1..(i - 1)) \union {i}
  OBVIOUS
<1> QED BY <1>1 DEF Covered

\* Every transaction keeps the invariant of the replay.
LEMMA PostedKeepsFifo ==
  ASSUME NEW S, Trades(S), NEW n, NEW seq, Enumerated(seq, n, S), NEW i \in 1..n,
         NEW book \in Books, ReplayInv(book, seq, i - 1)
  PROVE  ReplayInv(Posted(book, seq[i]), seq, i)
<1> DEFINE x == seq[i]
           after == Posted(book, x)
           fits == Total(seq, i, "SELL", PositionOf(x)) <= Total(seq, i, "BUY", PositionOf(x))
<1>1. x \in S /\ TradeOK(x) /\ x.type \in {"BUY", "SELL"} /\ i \in Nat \ {0}
  BY DEF Enumerated, Trades, TradeOK
<1>2. Covered(seq, i) <=> Covered(seq, i - 1) /\ (x.type = "SELL" => fits)
  BY <1>1, CoveredStep
<1>3. book.ok \in BOOLEAN /\ book.lots \in Seq(LotRows)
  BY DEF Books
<1>4. book.ok <=> Covered(seq, i - 1)
  BY DEF ReplayInv
<1>5. CASE ~book.ok
  <2>1. after = book
    BY <1>5 DEF Posted
  <2>2. ~Covered(seq, i)
    BY <1>2, <1>4, <1>5
  <2> HIDE DEF after
  <2> QED BY <1>5, <2>1, <2>2 DEF ReplayInv, after
<1>6. CASE book.ok /\ x.type = "BUY"
  <2>1. PICK b : FifoLots(b, book.lots, seq, i - 1)
    BY <1>6 DEF ReplayInv
  <2>2. after = Bought(book, x)
    BY <1>6 DEF Posted
  <2> HIDE DEF after
  <2>3. after.ok = book.ok /\ after.lots = Append(book.lots, NewLot(x))
    BY <1>1, <2>2, BoughtBook
  <2>4. PICK c : FifoLots(c, Append(book.lots, NewLot(x)), seq, i)
    BY <1>3, <1>6, <2>1, BuyKeepsFifo
  <2>5. Covered(seq, i)
    BY <1>2, <1>4, <1>6
  <2>6. FifoLots(c, after.lots, seq, i)
    BY <2>3, <2>4, Zenon
  <2> QED BY <1>6, <2>3, <2>5, <2>6 DEF ReplayInv, after
<1>7. CASE book.ok /\ x.type = "SELL"
  <2> DEFINE sale == Sale(book, x)
  <2>1. PICK b : FifoLots(b, book.lots, seq, i - 1)
    BY <1>7 DEF ReplayInv
  <2>2. after = Sold(book, x)
    BY <1>7 DEF Posted
  <2>3. (sale.left = 0 <=> fits) /\ (sale.left = 0 => FifoLots(b, sale.lots, seq, i))
    BY <1>7, <2>1, SellKeepsFifo
  <2> HIDE DEF after
  <2>4. /\ sale.left \in Nat
        /\ sale.left > 0 => after.ok = FALSE
        /\ sale.left = 0 => after.ok = book.ok /\ after.lots = sale.lots
    BY <1>1, <2>2, SaleState, SoldBook
  <2>5. Covered(seq, i) <=> sale.left = 0
    BY <1>2, <1>4, <1>7, <2>3
  <2> HIDE DEF sale
  <2>6. after.ok <=> Covered(seq, i)
    <3>1. CASE sale.left = 0
      <4>1. after.ok = book.ok /\ book.ok
        BY <1>7, <2>4, <3>1
      <4>2. after.ok
        BY <4>1, Zenon
      <4> QED BY <2>5, <3>1, <4>2
    <3>2. CASE sale.left # 0
      <4>1. after.ok = FALSE
        BY <2>4, <3>2
      <4>2. ~after.ok
        BY <4>1, Zenon
      <4> QED BY <2>5, <3>2, <4>2
    <3> QED BY <3>1, <3>2
  <2>7. sale.left = 0 => FifoLots(b, after.lots, seq, i)
    BY <2>3, <2>4, Zenon
  <2> QED BY <2>5, <2>6, <2>7 DEF ReplayInv, after
<1> QED BY <1>1, <1>3, <1>5, <1>6, <1>7

\* The replay ends in its invariant.
LEMMA ReplayFifo ==
  ASSUME NEW S, Trades(S), NEW n, NEW seq, Enumerated(seq, n, S),
         NEW r \in [0..n -> Books], Posts(r, seq, n)
  PROVE  ReplayInv(r[n], seq, n)
<1> DEFINE N == {i \in Nat : i <= n => ReplayInv(r[i], seq, i)}
<1>1. n \in Nat
  BY DEF Enumerated
<1>2. 0 \in N
  <2>1. Covered(seq, 0)
    BY DEF Covered
  <2>2. r[0].ok = TRUE /\ r[0].lots = <<>>
    BY DEF Posts, NoBook
  <2>3. FifoLots(<<>>, r[0].lots, seq, 0)
    BY <2>2, NoLots, Zenon
  <2>4. ReplayInv(r[0], seq, 0)
    BY <2>1, <2>2, <2>3 DEF ReplayInv
  <2> QED BY <2>4
<1>3. \A i \in Nat : i \in N => i + 1 \in N
  <2> SUFFICES ASSUME NEW i \in Nat, i \in N, i + 1 <= n PROVE ReplayInv(r[i + 1], seq, i + 1)
    OBVIOUS
  <2>1. i + 1 \in 1..n /\ (i + 1) - 1 = i /\ i <= n /\ i \in 0..n
    BY <1>1
  <2>2. r[i + 1] = Posted(r[i], seq[i + 1])
    BY <2>1 DEF Posts
  <2>3. ReplayInv(r[i], seq, (i + 1) - 1) /\ r[i] \in Books
    BY <2>1
  <2> HIDE DEF N
  <2>4. ReplayInv(Posted(r[i], seq[i + 1]), seq, i + 1)
    BY <2>1, <2>3, PostedKeepsFifo
  <2> QED BY <2>2, <2>4, Zenon
<1> HIDE DEF N
<1>4. Nat \subseteq N
  BY <1>2, <1>3, NatInductionOn
<1> QED BY <1>1, <1>4 DEF N

-----------------------------------------------------------------------------
(* First in, first out, in the words of LotsAreFifo. *)

\* The operators of LotsAreFifo, by name: the trades of a type up to x ...
UpToTrade(T, x, type) ==
    {y \in T : y.type = type /\ PositionOf(y) = PositionOf(x) /\ (y = x \/ Before(y, x))}

\* ... all of them ...
AllOf(T, x, type) == {y \in T : y.type = type /\ PositionOf(y) = PositionOf(x)}

\* ... what a purchase keeps ...
Kept(T, b) ==
    Clamp(UnitsOf(UpToTrade(T, b, "BUY")) - UnitsOf(AllOf(T, b, "SELL")), b.quantity)

\* ... and the property of one history.
Fifo(T, book) ==
    /\ book.ok <=> \A s \in T : s.type = "SELL" =>
                       UnitsOf(UpToTrade(T, s, "SELL")) <= UnitsOf(UpToTrade(T, s, "BUY"))
    /\ book.ok => {<<lot.buy, lot.remaining>> : lot \in ToSet(book.lots)}
                    = {<<b.id, Kept(T, b)>> : b \in {x \in T : x.type = "BUY"}}

\* The first i transactions are those up to the i-th.
LEMMA PartsAre ==
  ASSUME NEW S, Trades(S), NEW n, NEW seq, Enumerated(seq, n, S), NEW i \in 1..n, NEW type
  PROVE  /\ Part(seq, i, type, PositionOf(seq[i])) = UpToTrade(S, seq[i], type)
         /\ Part(seq, n, type, PositionOf(seq[i])) = AllOf(S, seq[i], type)
<1>1. /\ n \in Nat /\ \A k \in 1..i : k \in 1..n
      /\ \A k \in 1..n : seq[k] \in S
      /\ \A y \in S : \E k \in 1..n : seq[k] = y
  BY DEF Enumerated
<1>2. Part(seq, n, type, PositionOf(seq[i])) = AllOf(S, seq[i], type)
  BY <1>1 DEF Part, AllOf
<1>3. ASSUME NEW k \in 1..n PROVE k \in 1..i <=> (seq[k] = seq[i] \/ Before(seq[k], seq[i]))
  <2>1. CASE k < i
    BY <2>1 DEF Enumerated
  <2>2. CASE k = i
    BY <2>2
  <2>3. CASE i < k
    <3>1. ~(seq[k] = seq[i]) /\ ~Before(seq[k], seq[i])
      BY <2>3, EnumeratedOnce
    <3> QED BY <2>3, <3>1
  <2> QED BY <1>1, <2>1, <2>2, <2>3
<1>4. Part(seq, i, type, PositionOf(seq[i])) = UpToTrade(S, seq[i], type)
  BY <1>1, <1>3 DEF Part, UpToTrade
<1> QED BY <1>2, <1>4

\* The replay of any history is first in, first out.
LEMMA ReplayIsFifo ==
  ASSUME NEW T, NEW day, Trades(Eligible(T, day))
  PROVE  Fifo(Eligible(T, day), Replay(T, day))
<1> DEFINE S == Eligible(T, day)
           n == Cardinality(S)
           seq == Ordered(S)
           book == Replay(T, day)
<1>1. Enumerated(seq, n, S)
  BY OrderedEnumerates DEF Trades, Enumerated
<1>2. PICK r \in [0..n -> Books] : Posts(r, seq, n) /\ book = r[n]
  BY ReplaySteps DEF Trades
<1> HIDE DEF S, n, seq, book
<1>3. ReplayInv(book, seq, n)
  BY <1>1, <1>2, ReplayFifo DEF S
<1>4. Trades(S) /\ n \in Nat /\ (\A k \in 1..n : seq[k] \in S) /\ \A y \in S : \E k \in 1..n : seq[k] = y
  BY <1>1 DEF Enumerated, S
<1>5. \A i \in 1..n : \A type :
        /\ Total(seq, i, type, PositionOf(seq[i])) = UnitsOf(UpToTrade(S, seq[i], type))
        /\ Total(seq, n, type, PositionOf(seq[i])) = UnitsOf(AllOf(S, seq[i], type))
  <2> TAKE i \in 1..n
  <2> TAKE type
  <2>1. /\ Part(seq, i, type, PositionOf(seq[i])) = UpToTrade(S, seq[i], type)
        /\ Part(seq, n, type, PositionOf(seq[i])) = AllOf(S, seq[i], type)
    BY <1>1, <1>4, PartsAre
  <2> QED BY <2>1, Zenon DEF Total
<1>6. Covered(seq, n) <=> \A s \in S : s.type = "SELL" =>
                             UnitsOf(UpToTrade(S, s, "SELL")) <= UnitsOf(UpToTrade(S, s, "BUY"))
  <2>1. Covered(seq, n) <=> \A i \in 1..n : seq[i].type = "SELL" =>
                               UnitsOf(UpToTrade(S, seq[i], "SELL")) <= UnitsOf(UpToTrade(S, seq[i], "BUY"))
    BY <1>5 DEF Covered
  <2> QED BY <1>4, <2>1
<1>7. ASSUME book.ok
      PROVE  {<<lot.buy, lot.remaining>> : lot \in ToSet(book.lots)}
               = {<<b.id, Kept(S, b)>> : b \in {x \in S : x.type = "BUY"}}
  <2> DEFINE L == book.lots
             m == Len(L)
             buys == {x \in S : x.type = "BUY"}
  <2>1. PICK b : FifoLots(b, L, seq, n)
    BY <1>3, <1>7 DEF ReplayInv
  <2>2. L \in Seq(LotRows) /\ m \in Nat /\ DOMAIN L = 1..m /\ ToSet(L) = {L[k] : k \in 1..m}
    <3>1. n \in 0..n
      BY <1>4
    <3>2. L \in Seq(LotRows)
      BY <1>2, <3>1 DEF Books
    <3> QED BY <3>2 DEF ToSet
  <2>3. /\ b \in [1..m -> 1..n]
        /\ \A k \in 1..n : seq[k].type = "BUY" => \E j \in 1..m : b[j] = k
    BY <2>1 DEF FifoLots
  <2>4. ASSUME NEW k \in 1..m
        PROVE  /\ seq[b[k]] \in buys
               /\ L[k].buy = seq[b[k]].id /\ L[k].remaining = Kept(S, seq[b[k]])
    <3>1. b[k] \in 1..n
      BY <2>3
    <3>2. /\ seq[b[k]].type = "BUY" /\ L[k].buy = seq[b[k]].id
          /\ L[k].position = PositionOf(seq[b[k]]) /\ L[k].quantity = seq[b[k]].quantity
          /\ L[k].remaining = Clamp(Total(seq, b[k], "BUY", L[k].position)
                                      - Total(seq, n, "SELL", L[k].position), L[k].quantity)
      BY <2>1 DEF FifoLots
    <3>3. /\ Total(seq, b[k], "BUY", PositionOf(seq[b[k]])) = UnitsOf(UpToTrade(S, seq[b[k]], "BUY"))
          /\ Total(seq, n, "SELL", PositionOf(seq[b[k]])) = UnitsOf(AllOf(S, seq[b[k]], "SELL"))
      BY <1>5, <3>1
    <3>4. L[k].remaining = Kept(S, seq[b[k]])
      BY <3>2, <3>3, Zenon DEF Kept
    <3> QED BY <1>4, <3>1, <3>2, <3>4
  <2>5. ASSUME NEW x \in buys PROVE \E k \in 1..m : seq[b[k]] = x
    <3>1. PICK i \in 1..n : seq[i] = x
      BY <1>4
    <3>2. PICK k \in 1..m : b[k] = i
      BY <2>3, <3>1
    <3> QED BY <3>1, <3>2
  <2> HIDE DEF buys, m, L
  <2>6. {<<lot.buy, lot.remaining>> : lot \in {L[k] : k \in 1..m}} = {<<x.id, Kept(S, x)>> : x \in buys}
    BY <2>4, <2>5
  <2> QED BY <2>2, <2>6, Zenon DEF buys, L
<1> QED BY <1>3, <1>6, <1>7 DEF Fifo, ReplayInv, book, S

-----------------------------------------------------------------------------
(* The stored transactions. *)

\* Finitely many transactions are stored.
LedgerFinite == IsFiniteSet(transactions)

\* Every operation appends at most one transaction, so that sums over them exist.
LEMMA LedgerFiniteInvariant == LedgerSpec => []LedgerFinite
<1>1. LedgerInit => LedgerFinite
  BY FS_EmptySet DEF LedgerInit, LedgerFinite
<1>2. LedgerFinite /\ [LedgerNext]_ledgerVars => LedgerFinite'
  <2> SUFFICES ASSUME LedgerFinite, [LedgerNext]_ledgerVars PROVE LedgerFinite'
    OBVIOUS
  <2>1. transactions' = transactions \/ \E x \in Tickets : transactions' = transactions \union {x}
    BY DEF LedgerNext, Link, ChangeStatus, RegisterSecurity, RecordTransaction, RebuildHoldings,
           ledgerVars, bookVars
  <2>2. \A x : IsFiniteSet(transactions \union {x})
    BY FS_AddElement DEF LedgerFinite
  <2> QED BY <2>1, <2>2 DEF LedgerFinite
<1> QED BY <1>1, <1>2, PTL DEF LedgerSpec

\* The replay can order and read what is stored.
LEMMA EligibleTrades ==
  ASSUME LedgerTypeOK, LedgerFinite, NEW day
  PROVE  Trades(Eligible(transactions, day))
<1>1. IsFiniteSet(Eligible(transactions, day))
  <2>1. Eligible(transactions, day) \in SUBSET transactions
    BY DEF Eligible
  <2> QED BY <2>1, FS_Subset DEF LedgerFinite
<1>2. ASSUME NEW x \in Eligible(transactions, day) PROVE x \in Tickets /\ x.type \in {"BUY", "SELL"}
  BY DEF Eligible, IsTrade, LedgerTypeOK
<1>3. \A x, y \in Eligible(transactions, day) : x.id = y.id => x = y
  BY DEF Eligible, LedgerTypeOK
<1>4. ASSUME NEW x \in Eligible(transactions, day) PROVE TradeOK(x)
  <2>1. x.account \in Accounts /\ x.security \in Securities
    BY <1>2, LedgerAssumption
  <2> QED BY <1>2, <2>1, TicketAssumption DEF TradeOK, PositionOf
<1>5. Numbered(Eligible(transactions, day))
  BY <1>1, <1>2, <1>3, TicketAssumption DEF Numbered
<1> QED BY <1>4, <1>5 DEF Trades

\* Fifo is LotsAreFifo on a day.
LEMMA FifoDays ==
  ASSUME NEW day, Fifo(Eligible(transactions, day), Replay(transactions, day))
  PROVE  LET T == Eligible(transactions, day)
             book == Replay(transactions, day)
             U(x, type) == {y \in T : y.type = type /\ PositionOf(y) = PositionOf(x)
                                           /\ (y = x \/ Before(y, x))}
             Of(x, type) == {y \in T : y.type = type /\ PositionOf(y) = PositionOf(x)}
             Units(S) == MapThenSumSet(LAMBDA y : y.quantity, S)
             kept(b) == LET n == Units(U(b, "BUY")) - Units(Of(b, "SELL"))
                        IN  IF n < 0 THEN 0 ELSE IF n > b.quantity THEN b.quantity ELSE n
         IN  /\ book.ok <=> \A s \in T : s.type = "SELL" =>
                                Units(U(s, "SELL")) <= Units(U(s, "BUY"))
             /\ book.ok => {<<lot.buy, lot.remaining>> : lot \in ToSet(book.lots)}
                             = {<<b.id, kept(b)>> : b \in {x \in T : x.type = "BUY"}}
BY Zenon DEF Fifo, Kept, Clamp, UnitsOf, UpToTrade, AllOf

\* First in, first out, whatever is recorded and in whatever order: FIFOAccountingEngine
\* stops at InsufficientPosition exactly when some sale exceeds the purchases before it,
\* and otherwise every lot keeps what the sales of its position leave of it.
THEOREM LotsAreFifoAlways == LedgerSpec => []LotsAreFifo
<1>1. LedgerInv /\ LedgerFinite => LotsAreFifo
  <2> SUFFICES ASSUME LedgerInv, LedgerFinite PROVE LotsAreFifo
    OBVIOUS
  <2>1. \A day : Fifo(Eligible(transactions, day), Replay(transactions, day))
    BY EligibleTrades, ReplayIsFifo DEF LedgerInv
  <2> QED BY <2>1, FifoDays DEF LotsAreFifo
<1> QED BY <1>1, LedgerInvariant, LedgerFiniteInvariant, PTL

-----------------------------------------------------------------------------
(* One day and the next. *)

\* More transactions, all of later days, leave less of every lot, and stop no replay
\* that they do not stop later.
LEMMA MonotoneFifo ==
  ASSUME NEW S, NEW R, Trades(R), S \subseteq R,
         \A x \in S, y \in R \ S : x.trade < y.trade,
         NEW book, Fifo(S, book), NEW later, Fifo(R, later), later.ok
  PROVE  /\ book.ok
         /\ \A l \in ToSet(book.lots) : \E m \in ToSet(later.lots) :
               m.buy = l.buy /\ m.remaining <= l.remaining
<1>1. Trades(S)
  BY FS_Subset DEF Trades, Numbered
<1>2. ASSUME NEW x \in S, NEW y \in R \ S PROVE ~Before(y, x)
  BY DEF Before, Trades, Numbered
<1>3. ASSUME NEW x \in S, NEW type PROVE UpToTrade(R, x, type) = UpToTrade(S, x, type)
  BY <1>2 DEF UpToTrade
<1>4. book.ok
  <2> SUFFICES ASSUME NEW s \in S, s.type = "SELL"
               PROVE  UnitsOf(UpToTrade(S, s, "SELL")) <= UnitsOf(UpToTrade(S, s, "BUY"))
    BY DEF Fifo
  <2>1. UnitsOf(UpToTrade(R, s, "SELL")) <= UnitsOf(UpToTrade(R, s, "BUY"))
    BY DEF Fifo
  <2> QED BY <1>3, <2>1, Zenon
<1>5. ASSUME NEW b \in S, b.type = "BUY" PROVE Kept(R, b) <= Kept(S, b)
  <2> DEFINE u == UnitsOf(UpToTrade(S, b, "BUY"))
             s == UnitsOf(AllOf(S, b, "SELL"))
             r == UnitsOf(AllOf(R, b, "SELL"))
  <2>1. UpToTrade(S, b, "BUY") \in SUBSET S /\ AllOf(S, b, "SELL") \in SUBSET AllOf(R, b, "SELL")
          /\ AllOf(R, b, "SELL") \in SUBSET R
    BY DEF UpToTrade, AllOf
  <2>2. Kept(S, b) = Clamp(u - s, b.quantity)
    BY DEF Kept
  <2>3. Kept(R, b) = Clamp(u - r, b.quantity)
    BY <1>3, Zenon DEF Kept
  <2>4. s \in Nat /\ r \in Nat /\ s <= r
    BY <2>1, UnitsGrow
  <2>5. u \in Nat
    BY <1>1, <2>1, UnitsGrow
  <2>6. b.quantity \in Nat
    BY <1>1 DEF Trades, TradeOK
  <2> HIDE DEF u, s, r
  <2> QED BY <2>2, <2>3, <2>4, <2>5, <2>6 DEF Clamp
<1>6. ASSUME NEW l \in ToSet(book.lots)
      PROVE  \E m \in ToSet(later.lots) : m.buy = l.buy /\ m.remaining <= l.remaining
  <2>1. PICK b \in S : b.type = "BUY" /\ <<l.buy, l.remaining>> = <<b.id, Kept(S, b)>>
    BY <1>4 DEF Fifo
  <2>2. PICK m \in ToSet(later.lots) : <<m.buy, m.remaining>> = <<b.id, Kept(R, b)>>
    BY <2>1 DEF Fifo
  <2> QED BY <1>5, <2>1, <2>2
<1> QED BY <1>4, <1>6

\* A history that can be rebuilt as of a day could be rebuilt as of the one before,
\* and no lot grows from one to the next: rebuild_holdings sorts by trade date first, so
\* that a late settlement never puts a transaction before those of an earlier day.
THEOREM ReplayIsMonotoneAlways == LedgerSpec => []ReplayIsMonotone
<1>1. LedgerInv /\ LedgerFinite => ReplayIsMonotone
  <2> SUFFICES ASSUME LedgerInv, LedgerFinite, NEW day \in Days, Replay(transactions, day + 1).ok
               PROVE  /\ Replay(transactions, day).ok
                      /\ \A l \in ToSet(Replay(transactions, day).lots) :
                           \E m \in ToSet(Replay(transactions, day + 1).lots) :
                              m.buy = l.buy /\ m.remaining <= l.remaining
    BY DEF ReplayIsMonotone
  <2> DEFINE S == Eligible(transactions, day)
             R == Eligible(transactions, day + 1)
  <2>1. Trades(S) /\ Trades(R)
    BY EligibleTrades DEF LedgerInv
  <2>2. Fifo(S, Replay(transactions, day)) /\ Fifo(R, Replay(transactions, day + 1))
    BY <2>1, ReplayIsFifo
  <2>3. day \in Int
    BY LedgerAssumption DEF Days
  <2>4. \A x \in transactions : IsTrade(x) => x.trade \in Int
    BY TicketAssumption DEF LedgerInv, LedgerTypeOK
  <2>5. S \subseteq R
    BY <2>3, <2>4 DEF Eligible
  <2>6. \A x \in S, y \in R \ S : x.trade < y.trade
    BY <2>3, <2>4 DEF Eligible
  <2> HIDE DEF S, R
  <2> QED BY <2>1, <2>2, <2>5, <2>6, MonotoneFifo
<1> QED BY <1>1, LedgerInvariant, LedgerFiniteInvariant, PTL

-----------------------------------------------------------------------------
(* What the lots are worth. *)

\* What is left of each lot, at its price, and all of it.
ValueOf(L) == [k \in 1..Len(L) |-> L[k].remaining * L[k].unit]

Worth(L) == SumOver(ValueOf(L), 1..Len(L))

\* The values of lots are integers.
LEMMA Values ==
  ASSUME NEW L \in Seq(LotRows)
  PROVE  /\ Len(L) \in Nat
         /\ \A k \in 1..Len(L) : /\ L[k] \in LotRows /\ L[k].remaining \in Nat /\ L[k].unit \in Int
                                 /\ ValueOf(L)[k] = L[k].remaining * L[k].unit
                                 /\ ValueOf(L)[k] \in Int
<1>1. Len(L) \in Nat /\ \A k \in 1..Len(L) : L[k] \in LotRows
  OBVIOUS
<1>2. \A k \in 1..Len(L) : L[k].remaining \in Nat /\ L[k].unit \in Int
  BY <1>1 DEF LotRows
<1>3. \A k \in 1..Len(L) : ValueOf(L)[k] = L[k].remaining * L[k].unit
  BY DEF ValueOf
<1>4. \A k \in 1..Len(L) : L[k].remaining * L[k].unit \in Int
  BY <1>2
<1> QED BY <1>1, <1>2, <1>3, <1>4

\* One more number makes 1..i the next interval.
LEMMA Interval ==
  ASSUME NEW i \in Nat
  PROVE  IsFiniteSet(1..i) /\ i + 1 \notin 1..i /\ 1..(i + 1) = (1..i) \union {i + 1}
<1>1. 1 \in Int /\ i \in Int
  OBVIOUS
<1>2. IsFiniteSet(1..i)
  BY <1>1, FS_Interval
<1> QED BY <1>2

\* The sum over the numbers up to i + 1.
LEMMA SumNext ==
  ASSUME NEW i \in Nat, NEW v, \A k \in 1..(i + 1) : v[k] \in Int
  PROVE  SumOver(v, 1..(i + 1)) = SumOver(v, 1..i) + v[i + 1] /\ SumOver(v, 1..i) \in Int
<1>1. IsFiniteSet(1..i) /\ i + 1 \notin 1..i /\ 1..(i + 1) = (1..i) \union {i + 1}
  BY Interval
<1>2. IntOn(v, 1..i) /\ v[i + 1] \in Int
  BY DEF IntOn
<1>3. SumOver(v, (1..i) \union {i + 1}) = SumOver(v, 1..i) + v[i + 1] /\ SumOver(v, 1..i) \in Int
  <2> DEFINE I == 1..i
             j == i + 1
  <2>1. IsFiniteSet(I) /\ j \notin I /\ IntOn(v, I) /\ v[j] \in Int
    BY <1>1, <1>2
  <2> HIDE DEF I, j
  <2>2. SumOver(v, I \union {j}) = SumOver(v, I) + v[j] /\ SumOver(v, I) \in Int
    BY <2>1, SumAdd, SumInt
  <2> QED BY <2>2 DEF I, j
<1>4. SumOver(v, 1..(i + 1)) = SumOver(v, (1..i) \union {i + 1})
  BY <1>1, Zenon
<1> QED BY <1>3, <1>4

\* Lots are worth an integer.
LEMMA WorthInt ==
  ASSUME NEW L \in Seq(LotRows)
  PROVE  Worth(L) \in Int
<1>1. IsFiniteSet(1..Len(L)) /\ IntOn(ValueOf(L), 1..Len(L))
  BY Values, Interval DEF IntOn
<1> QED BY <1>1, SumInt DEF Worth

\* A purchase is worth what was paid for it.
LEMMA WorthBought ==
  ASSUME NEW L \in Seq(LotRows), NEW row \in LotRows
  PROVE  Worth(Append(L, row)) = Worth(L) + row.remaining * row.unit
<1> DEFINE M == Append(L, row)
           m == Len(L)
           v == ValueOf(L)
           u == ValueOf(M)
<1>1. M \in Seq(LotRows) /\ Len(M) = m + 1 /\ M[m + 1] = row /\ \A k \in 1..m : M[k] = L[k]
  OBVIOUS
<1> HIDE DEF M
<1>2. m \in Nat /\ \A k \in 1..m : v[k] = L[k].remaining * L[k].unit /\ v[k] \in Int
  BY Values
<1>3. \A k \in 1..(m + 1) : u[k] = M[k].remaining * M[k].unit /\ u[k] \in Int
  BY <1>1, Values
<1> HIDE DEF m, v, u
<1>4. SumOver(u, 1..(m + 1)) = SumOver(u, 1..m) + u[m + 1]
  BY <1>2, <1>3, SumNext
<1>5. SumOver(v, 1..m) = SumOver(u, 1..m)
  <2>1. IsFiniteSet(1..m) /\ IntOn(v, 1..m)
    BY <1>2, Interval DEF IntOn
  <2>2. \A k \in 1..m : v[k] = u[k]
    <3> TAKE k \in 1..m
    <3>1. k \in 1..(m + 1)
      BY <1>2
    <3>2. u[k] = M[k].remaining * M[k].unit /\ M[k] = L[k] /\ v[k] = L[k].remaining * L[k].unit
      BY <1>1, <1>2, <1>3, <3>1
    <3> QED BY <3>2, Zenon
  <2> QED BY <2>1, <2>2, SumSame
<1>6. u[m + 1] = row.remaining * row.unit
  <2>1. m + 1 \in 1..(m + 1)
    BY <1>2
  <2> QED BY <1>1, <1>3, <2>1, Zenon
<1>7. Worth(M) = SumOver(u, 1..(m + 1)) /\ Worth(L) = SumOver(v, 1..m)
  BY <1>1, Zenon DEF Worth, m, u, v
<1> QED BY <1>4, <1>5, <1>6, <1>7, Zenon DEF M

\* The provers need this said.
LEMMA Distributes ==
  ASSUME NEW a \in Int, NEW b \in Int, NEW c \in Int
  PROVE  (a - b) * c = a * c - b * c
OBVIOUS

\* A sale takes out of the lots what it cost.
LEMMA WorthSold ==
  ASSUME NEW L \in Seq(LotRows), NEW x, NEW left, NEW cost, NEW taken, NEW sale,
         SaleRun(left, cost, taken, L, x, sale)
  PROVE  Worth(sale.lots) = Worth(L) - sale.cost
<1> DEFINE M == sale.lots
           m == Len(L)
           v == ValueOf(L)
           u == ValueOf(M)
           N == {i \in Nat : i <= m => SumOver(u, 1..i) = SumOver(v, 1..i) - cost[i]}
<1>1. M \in Seq(LotRows) /\ Len(M) = m
  BY DEF SaleRun
<1>2. m \in Nat /\ \A k \in 1..m : L[k].remaining \in Nat /\ L[k].unit \in Int
                                   /\ v[k] = L[k].remaining * L[k].unit /\ v[k] \in Int
  BY Values
<1>3. \A k \in 1..m : M[k].remaining \in Nat /\ u[k] = M[k].remaining * M[k].unit /\ u[k] \in Int
  BY <1>1, Values
<1>4. /\ cost \in [0..m -> Int] /\ cost[0] = 0 /\ sale.cost = cost[m]
      /\ \A k \in 1..m : /\ left[k - 1] \in Nat
                         /\ taken[k] = IF L[k].position # PositionOf(x) \/ left[k - 1] = 0 THEN 0
                                       ELSE IF L[k].remaining < left[k - 1] THEN L[k].remaining ELSE left[k - 1]
                         /\ cost[k] = cost[k - 1] + taken[k] * L[k].unit
                         /\ M[k].unit = L[k].unit
                         /\ M[k].remaining = L[k].remaining - taken[k]
  <2>1. \A k \in 1..m : k - 1 \in 0..m
    BY <1>2
  <2> QED BY <2>1 DEF SaleRun
<1> HIDE DEF M, m, v, u
<1>5. \A k \in 1..m : taken[k] \in Int
  <2> SUFFICES ASSUME NEW k \in 1..m PROVE taken[k] \in Int
    OBVIOUS
  <2>1. left[k - 1] \in Nat /\ L[k].remaining \in Nat
    BY <1>2, <1>4
  <2>2. taken[k] = 0 \/ taken[k] = L[k].remaining \/ taken[k] = left[k - 1]
    BY <1>4
  <2> QED BY <2>1, <2>2
<1>6. 0 \in N
  <2>1. 1..0 = {}
    OBVIOUS
  <2>2. SumOver(u, 1..0) = SumOver(u, {}) /\ SumOver(v, 1..0) = SumOver(v, {})
    BY <2>1, Zenon
  <2> QED BY <1>4, <2>2, SumEmpty
<1>7. \A i \in Nat : i \in N => i + 1 \in N
  <2> SUFFICES ASSUME NEW i \in Nat, i \in N, i + 1 <= m
               PROVE  SumOver(u, 1..(i + 1)) = SumOver(v, 1..(i + 1)) - cost[i + 1]
    OBVIOUS
  <2>1. i + 1 \in 1..m /\ (i + 1) - 1 = i /\ i \in 0..m /\ \A k \in 1..(i + 1) : k \in 1..m
    BY <1>2
  <2>2. SumOver(u, 1..i) = SumOver(v, 1..i) - cost[i]
    BY <2>1
  <2>3. /\ SumOver(u, 1..(i + 1)) = SumOver(u, 1..i) + u[i + 1] /\ SumOver(u, 1..i) \in Int
        /\ SumOver(v, 1..(i + 1)) = SumOver(v, 1..i) + v[i + 1] /\ SumOver(v, 1..i) \in Int
    BY <1>2, <1>3, <2>1, SumNext
  <2> DEFINE a == L[i + 1].remaining
             b == taken[i + 1]
             c == L[i + 1].unit
  <2>4. a \in Int /\ b \in Int /\ c \in Int
    BY <1>2, <1>5, <2>1
  <2>5. /\ v[i + 1] = a * c /\ u[i + 1] = (a - b) * c
        /\ cost[i + 1] = cost[i] + b * c /\ cost[i] \in Int
    <3>1. u[i + 1] = M[i + 1].remaining * M[i + 1].unit
      BY <1>3, <2>1
    <3>2. M[i + 1].remaining = a - b /\ M[i + 1].unit = c
      BY <1>4, <2>1
    <3>3. u[i + 1] = (a - b) * c
      BY <3>1, <3>2, Zenon
    <3> QED BY <1>2, <1>4, <2>1, <3>3
  <2> HIDE DEF a, b, c, N
  <2>6. (a - b) * c = a * c - b * c /\ a * c \in Int /\ b * c \in Int
    BY <2>4, Distributes
  <2> QED BY <2>2, <2>3, <2>5, <2>6
<1> HIDE DEF N
<1>8. Nat \subseteq N
  BY <1>6, <1>7, NatInductionOn
<1>9. SumOver(u, 1..m) = SumOver(v, 1..m) - cost[m]
  BY <1>2, <1>8 DEF N
<1>10. Worth(M) = SumOver(u, 1..m) /\ Worth(L) = SumOver(v, 1..m)
  BY <1>1, Zenon DEF Worth, m, u, v
<1> QED BY <1>4, <1>9, <1>10 DEF M

-----------------------------------------------------------------------------
(* The balance of the replay. *)

\* The net amounts of the first i transactions.
First(seq, i) == {seq[k] : k \in 1..i}

\* The invariant of the balance.
Balanced(book, w, seq, i) ==
    book.ok => SumOver(w, First(seq, i)) = book.realized - Worth(book.lots)

\* One more transaction adds its net amount.
LEMMA FirstStep ==
  ASSUME NEW S, Trades(S), NEW n, NEW seq, Enumerated(seq, n, S), NEW i \in 1..n,
         NEW w, IntOn(w, S)
  PROVE  SumOver(w, First(seq, i)) = SumOver(w, First(seq, i - 1)) + w[seq[i]]
         /\ SumOver(w, First(seq, i - 1)) \in Int
<1> DEFINE F == First(seq, i - 1)
           x == seq[i]
<1>1. /\ n \in Nat /\ x \in S /\ (\A k \in 1..(i - 1) : seq[k] \in S /\ k \in 1..n /\ k # i)
      /\ 1..i = (1..(i - 1)) \union {i}
  BY DEF Enumerated
<1>2. F \in SUBSET S /\ First(seq, i) = F \union {x}
  BY <1>1 DEF First
<1>3. x \notin F
  BY <1>1, EnumeratedOnce DEF First
<1> HIDE DEF F, x
<1>4. IsFiniteSet(F) /\ IntOn(w, F) /\ w[x] \in Int
  BY <1>1, <1>2, FS_Subset DEF IntOn, Trades, Numbered
<1>5. SumOver(w, F \union {x}) = SumOver(w, F) + w[x] /\ SumOver(w, F) \in Int
  BY <1>3, <1>4, SumAdd, SumInt
<1>6. SumOver(w, First(seq, i)) = SumOver(w, F \union {x})
  BY <1>2, Zenon
<1> QED BY <1>5, <1>6 DEF F, x

\* Every transaction keeps the balance.
LEMMA PostedBalances ==
  ASSUME NEW S, Trades(S), NEW n, NEW seq, Enumerated(seq, n, S), NEW i \in 1..n,
         NEW w, \A x \in S : w[x] = Net(x),
         NEW book \in Books, Balanced(book, w, seq, i - 1)
  PROVE  Balanced(Posted(book, seq[i]), w, seq, i)
<1> DEFINE x == seq[i]
           after == Posted(book, x)
           f == SumOver(w, First(seq, i))
           g == SumOver(w, First(seq, i - 1))
<1>1. x \in S /\ TradeOK(x) /\ x.type \in {"BUY", "SELL"}
  BY DEF Enumerated, Trades, TradeOK
<1>2. w[x] = Net(x) /\ Net(x) \in Int
  BY <1>1, NetOfTrade
<1>3. f = g + w[x] /\ g \in Int
  <2>1. IntOn(w, S)
    BY NetOfTrade DEF IntOn, Trades
  <2> QED BY <2>1, FirstStep
<1>4. book.lots \in Seq(LotRows) /\ book.realized \in Int
  BY DEF Books
<1>5. Worth(book.lots) \in Int
  BY <1>4, WorthInt
<1>6. book.ok => g = book.realized - Worth(book.lots)
  BY DEF Balanced
<1> HIDE DEF f, g
<1> SUFFICES ASSUME after.ok PROVE f = after.realized - Worth(after.lots)
  BY DEF Balanced, f
<1>7. CASE ~book.ok
  <2>1. after = book
    BY <1>7 DEF Posted
  <2> QED BY <1>7, <2>1, Zenon
<1>8. CASE book.ok /\ x.type = "BUY"
  <2>1. after = Bought(book, x)
    BY <1>8 DEF Posted
  <2>2. /\ Bought(book, x).realized = book.realized /\ Bought(book, x).lots = Append(book.lots, NewLot(x))
        /\ NewLot(x) \in LotRows
    BY <1>1, BoughtBook
  <2>3. Worth(Append(book.lots, NewLot(x))) = Worth(book.lots) + NewLot(x).remaining * NewLot(x).unit
    BY <1>4, <2>2, WorthBought
  <2>4. NewLot(x).remaining = x.quantity /\ NewLot(x).unit = x.amount
    BY DEF NewLot
  <2> DEFINE cost == x.quantity * x.amount
  <2>5. cost \in Int
    BY <1>1 DEF TradeOK
  <2>6. Worth(after.lots) = Worth(book.lots) + cost
    BY <2>1, <2>2, <2>3, <2>4, Zenon
  <2>7. Net(x) = -cost
    BY <1>1, <1>8, NetOfTrade
  <2>8. after.realized = book.realized
    BY <2>1, <2>2, Zenon
  <2> HIDE DEF cost, after
  <2> QED BY <1>2, <1>3, <1>4, <1>5, <1>6, <1>8, <2>5, <2>6, <2>7, <2>8
<1>9. CASE book.ok /\ x.type = "SELL"
  <2> DEFINE sale == Sale(book, x)
  <2>1. after = Sold(book, x)
    BY <1>9 DEF Posted
  <2>2. sale.left \in Nat /\ sale.cost \in Int
    BY <1>1, SaleState
  <2>3. sale.left = 0
    <3>1. sale.left > 0 => Sold(book, x).ok = FALSE
      BY <1>1, SoldBook
    <3>2. Sold(book, x).ok
      BY <2>1, Zenon
    <3> QED BY <2>2, <3>1, <3>2
  <2>4. Sold(book, x).lots = sale.lots /\ Sold(book, x).realized = book.realized + (Net(x) - sale.cost)
    BY <1>1, <2>3, SoldBook
  <2>5. PICK left, cost, taken : SaleRun(left, cost, taken, book.lots, x, sale)
    BY <1>1, <1>4, SaleRuns DEF TradeOK
  <2> HIDE DEF sale
  <2>6. Worth(sale.lots) = Worth(book.lots) - sale.cost
    BY <1>4, <2>5, WorthSold
  <2>7. Worth(after.lots) = Worth(book.lots) - sale.cost /\ after.realized = book.realized + (Net(x) - sale.cost)
    BY <2>1, <2>4, <2>6, Zenon
  <2> HIDE DEF after, x
  <2> QED BY <1>2, <1>3, <1>4, <1>5, <1>6, <1>9, <2>2, <2>7
<1> QED BY <1>1, <1>7, <1>8, <1>9

\* The replay ends balanced.
LEMMA ReplayBalances ==
  ASSUME NEW S, Trades(S), NEW n, NEW seq, Enumerated(seq, n, S),
         NEW r \in [0..n -> Books], Posts(r, seq, n), NEW w, \A x \in S : w[x] = Net(x)
  PROVE  r[n].ok => SumOver(w, S) = r[n].realized - Worth(r[n].lots)
<1> DEFINE N == {i \in Nat : i <= n => Balanced(r[i], w, seq, i)}
<1>1. n \in Nat
  BY DEF Enumerated
<1>2. 0 \in N
  <2>1. r[0].realized = 0 /\ r[0].lots = <<>>
    BY DEF Posts, NoBook
  <2>2. First(seq, 0) = {} /\ 1..Len(<<>>) = {}
    BY DEF First
  <2>3. Worth(<<>>) = 0 /\ SumOver(w, First(seq, 0)) = 0
    BY <2>2, SumEmpty, Zenon DEF Worth
  <2>4. Worth(r[0].lots) = 0
    BY <2>1, <2>3, Zenon
  <2>5. Balanced(r[0], w, seq, 0)
    BY <2>1, <2>3, <2>4 DEF Balanced
  <2> QED BY <2>5
<1>3. \A i \in Nat : i \in N => i + 1 \in N
  <2> SUFFICES ASSUME NEW i \in Nat, i \in N, i + 1 <= n PROVE Balanced(r[i + 1], w, seq, i + 1)
    OBVIOUS
  <2>1. i + 1 \in 1..n /\ (i + 1) - 1 = i /\ i <= n /\ i \in 0..n
    BY <1>1
  <2>2. r[i + 1] = Posted(r[i], seq[i + 1])
    BY <2>1 DEF Posts
  <2>3. Balanced(r[i], w, seq, (i + 1) - 1) /\ r[i] \in Books
    BY <2>1
  <2> HIDE DEF N
  <2>4. Balanced(Posted(r[i], seq[i + 1]), w, seq, i + 1)
    BY <2>1, <2>3, PostedBalances
  <2> QED BY <2>2, <2>4, Zenon
<1> HIDE DEF N
<1>4. Nat \subseteq N
  BY <1>2, <1>3, NatInductionOn
<1>5. Balanced(r[n], w, seq, n)
  BY <1>1, <1>4 DEF N
<1>6. First(seq, n) = S
  BY DEF First, Enumerated
<1>7. SumOver(w, First(seq, n)) = SumOver(w, S)
  BY <1>6, Zenon
<1> QED BY <1>5, <1>7 DEF Balanced

\* Each lot is of a purchase of its own.
LEMMA LotsDistinct ==
  ASSUME NEW S, Trades(S), NEW n, NEW seq, Enumerated(seq, n, S), NEW L \in Seq(LotRows),
         NEW b, FifoLots(b, L, seq, n)
  PROVE  \A j, k \in 1..Len(L) : L[j].buy = L[k].buy => j = k
<1> SUFFICES ASSUME NEW j \in 1..Len(L), NEW k \in 1..Len(L), L[j].buy = L[k].buy PROVE j = k
  OBVIOUS
<1>1. b[j] \in 1..n /\ b[k] \in 1..n /\ seq[b[j]].id = seq[b[k]].id
  BY DEF FifoLots
<1>2. seq[b[j]] = seq[b[k]]
  BY <1>1 DEF Enumerated, Trades, Numbered
<1>3. b[j] = b[k]
  BY <1>1, <1>2, EnumeratedOnce
<1>4. b[j] \in Int /\ \A l, m \in 1..Len(L) : l < m => b[l] < b[m]
  BY <1>1 DEF FifoLots
<1> QED BY <1>3, <1>4

\* What the replay leaves: lots of purchases of their own, worth the realized profit
\* less all net amounts.
LEMMA ReplayResult ==
  ASSUME NEW T, NEW day, Trades(Eligible(T, day)), NEW w, \A x \in Eligible(T, day) : w[x] = Net(x)
  PROVE  LET book == Replay(T, day)
         IN  /\ book \in Books
             /\ book.ok => /\ SumOver(w, Eligible(T, day)) = book.realized - Worth(book.lots)
                           /\ \A j, k \in 1..Len(book.lots) : book.lots[j].buy = book.lots[k].buy => j = k
<1> DEFINE S == Eligible(T, day)
           n == Cardinality(S)
           seq == Ordered(S)
           book == Replay(T, day)
<1>1. Enumerated(seq, n, S)
  BY OrderedEnumerates DEF Trades, Enumerated
<1>2. PICK r \in [0..n -> Books] : Posts(r, seq, n) /\ book = r[n]
  BY ReplaySteps DEF Trades
<1> HIDE DEF S, n, seq, book
<1>3. Trades(S) /\ (\A x \in S : w[x] = Net(x)) /\ n \in 0..n
  BY <1>1 DEF S, Enumerated
<1>4. book \in Books
  BY <1>2, <1>3
<1>5. ReplayInv(book, seq, n)
  BY <1>1, <1>2, <1>3, ReplayFifo
<1>6. book.ok => SumOver(w, S) = book.realized - Worth(book.lots)
  BY <1>1, <1>2, <1>3, ReplayBalances
<1>7. ASSUME book.ok
      PROVE  \A j, k \in 1..Len(book.lots) : book.lots[j].buy = book.lots[k].buy => j = k
  <2>1. PICK b : FifoLots(b, book.lots, seq, n)
    BY <1>5, <1>7 DEF ReplayInv
  <2>2. book.lots \in Seq(LotRows)
    BY <1>4 DEF Books
  <2> QED BY <1>1, <1>3, <2>1, <2>2, LotsDistinct
<1> QED BY <1>4, <1>6, <1>7 DEF S, book

-----------------------------------------------------------------------------
(* The open lots. *)

\* A book whose lots are of purchases of their own.
Tidy(book) ==
    /\ book \in Books
    /\ \A j, k \in 1..Len(book.lots) : book.lots[j].buy = book.lots[k].buy => j = k

\* Lots that were sold out are worth nothing.
LEMMA OpenLotsAre ==
  ASSUME NEW book, Tidy(book)
  PROVE  /\ IsFiniteSet(OpenLots(book))
         /\ OpenLots(book) \subseteq LotRows
         /\ \A l, m \in OpenLots(book) : l.buy = m.buy => l = m
         /\ CostBasis(OpenLots(book)) = Worth(book.lots)
<1> DEFINE L == book.lots
           m == Len(L)
           v == ValueOf(L)
           J == {k \in 1..m : L[k].remaining > 0}
           w == [l \in LotRows |-> l.remaining * l.unit]
<1>1. L \in Seq(LotRows) /\ DOMAIN L = 1..m /\ IsFiniteSet(1..m)
  <2>1. L \in Seq(LotRows)
    BY DEF Tidy, Books
  <2> QED BY <2>1, Interval
<1>2. /\ m \in Nat
      /\ \A k \in 1..m : /\ L[k] \in LotRows /\ L[k].remaining \in Nat
                         /\ v[k] = L[k].remaining * L[k].unit /\ v[k] \in Int
                         /\ L[k].unit \in Int
  BY <1>1, Values
<1>3. \A j, k \in 1..m : L[j].buy = L[k].buy => j = k
  BY DEF Tidy
<1>4. OpenLots(book) = ImageOf(L, J)
  BY <1>1 DEF OpenLots, ToSet, ImageOf
<1>5. J \in SUBSET (1..m) /\ IsFiniteSet(J)
  BY <1>1, FS_Subset
<1>6. IsFiniteSet(ImageOf(L, J))
  BY <1>5, ImageFinite
<1>7. /\ OpenLots(book) \subseteq LotRows
      /\ \A l, k \in OpenLots(book) : l.buy = k.buy => l = k
  BY <1>2, <1>3, <1>4 DEF ImageOf
<1>8. \A k \in 1..m : w[L[k]] = v[k]
  BY <1>2
<1>9. \A l \in ImageOf(L, J) : w[l] \in Int /\ w[l] = l.remaining * l.unit
  BY <1>2, <1>8 DEF ImageOf
<1> HIDE DEF w, v, L, m
<1>10. CostBasis(ImageOf(L, J)) = SumOver(w, ImageOf(L, J))
  BY <1>6, <1>9, CostBasisSum
<1>11. SumOver(w, ImageOf(L, J)) = SumOver(v, J)
  <2>1. OneToOne(L, J)
    BY <1>3 DEF OneToOne
  <2>2. Pulls(v, w, L, J)
    BY <1>2, <1>8 DEF Pulls
  <2>3. IsFiniteSet(J)
    BY <1>5
  <2> HIDE DEF J
  <2> QED BY <2>1, <2>2, <2>3, SumImage
<1>12. SumOver(v, J) = SumOver(v, 1..m)
  <2>1. IntOn(v, J)
    BY <1>2 DEF IntOn
  <2>2. \A k \in (1..m) \ J : v[k] = 0
    <3> TAKE k \in (1..m) \ J
    <3>1. k \in 1..m /\ L[k].remaining \in Nat /\ ~(L[k].remaining > 0)
      BY <1>2
    <3>2. L[k].remaining = 0 /\ L[k].unit \in Int /\ v[k] = L[k].remaining * L[k].unit
      BY <1>2, <3>1
    <3> QED BY <3>2
  <2>3. IsFiniteSet(1..m) /\ J \subseteq 1..m
    BY <1>1
  <2> HIDE DEF J
  <2> QED BY <2>1, <2>2, <2>3, SumDrops, Zenon
<1>13. CostBasis(OpenLots(book)) = SumOver(v, 1..m)
  BY <1>4, <1>10, <1>11, <1>12, Zenon
<1> QED BY <1>4, <1>6, <1>7, <1>13, Zenon DEF Worth, L, m, v

-----------------------------------------------------------------------------
(* The cash ledger and the replay. *)

\* All cash is the net amount of trades and of the other transactions.
LEMMA BooksBalanceAt ==
  ASSUME LedgerInv, LedgerFinite, NEW day \in Days, Replay(transactions, day).ok
  PROVE  MapThenSumSet(LAMBDA a : Cash(transactions, a, day), Accounts)
           = MapThenSumSet(Net, {x \in transactions : ~IsTrade(x) /\ x.trade <= day})
               + Replay(transactions, day).realized - CostBasis(OpenLots(Replay(transactions, day)))
<1> DEFINE T == transactions
           book == Replay(T, day)
           S == Eligible(T, day)
           other == {x \in T : ~IsTrade(x) /\ x.trade <= day}
           all == {x \in T : x.trade <= day}
           w == [x \in T |-> Net(x)]
           of == [x \in T |-> x.account]
           part(a) == {x \in T : x.account = a /\ x.trade <= day}
           v == [a \in Accounts |-> Cash(T, a, day)]
<1>1. Trades(S)
  BY EligibleTrades DEF LedgerInv
<1>2. \A x \in T : w[x] = Net(x) /\ Net(x) \in Int
  <2> SUFFICES ASSUME NEW x \in T PROVE Net(x) \in Int
    OBVIOUS
  <2>1. x.amount \in Int /\ (x.type \in {"BUY", "SELL"} => x.quantity \in Nat)
    BY TicketAssumption DEF LedgerInv, LedgerTypeOK
  <2>2. x.type \in {"BUY", "SELL"} => x.quantity * x.amount \in Int
    BY <2>1
  <2>3. CASE x.type = "BUY"
    <3> DEFINE q == x.quantity * x.amount
    <3>1. q \in Int
      BY <2>2, <2>3
    <3>2. Net(x) = -q
      BY <2>3 DEF Net
    <3> HIDE DEF q
    <3> QED BY <3>1, <3>2
  <2>4. CASE x.type = "SELL"
    BY <2>2, <2>4 DEF Net
  <2>5. CASE x.type \notin {"BUY", "SELL"}
    BY <2>1, <2>5 DEF Net
  <2> QED BY <2>3, <2>4, <2>5
<1>3. S \subseteq T /\ other \subseteq T /\ all = S \union other /\ S \intersect other = {} /\ all \subseteq T
  BY DEF Eligible
<1>4. \A R \in SUBSET T : /\ IsFiniteSet(R) /\ IntOn(w, R)
                          /\ MapThenSumSet(Net, R) = SumOver(w, R)
  <2> SUFFICES ASSUME NEW R \in SUBSET T
               PROVE  IsFiniteSet(R) /\ IntOn(w, R) /\ MapThenSumSet(Net, R) = SumOver(w, R)
    OBVIOUS
  <2>1. IsFiniteSet(R)
    BY FS_Subset DEF LedgerFinite
  <2>2. \A x \in R : w[x] \in Int /\ w[x] = Net(x)
    BY <1>2
  <2> HIDE DEF w
  <2> QED BY <2>1, <2>2, NetsSum DEF IntOn
<1>5. \A a : part(a) \in SUBSET T /\ Cash(T, a, day) = MapThenSumSet(Net, part(a))
  BY DEF Cash
<1>6. \A a \in Accounts : part(a) = {x \in all : of[x] = a}
  OBVIOUS
<1>7. {x \in all : of[x] \in Accounts} = all
  <2>1. \A x \in T : x.account \in Accounts
    BY LedgerAssumption DEF LedgerInv, LedgerTypeOK
  <2> QED BY <2>1
<1>8. \A a \in Accounts : v[a] = Cash(T, a, day)
  OBVIOUS
<1> HIDE DEF w, v, of, part, S, other, all
<1>9. \A a \in Accounts : v[a] = SumOver(w, {x \in all : of[x] = a}) /\ v[a] \in Int
  <2> TAKE a \in Accounts
  <2>1. v[a] = SumOver(w, part(a)) /\ IsFiniteSet(part(a)) /\ IntOn(w, part(a))
    BY <1>4, <1>5, <1>8
  <2>2. SumOver(w, part(a)) = SumOver(w, {x \in all : of[x] = a})
    BY <1>6, Zenon
  <2>3. SumOver(w, part(a)) \in Int
    BY <2>1, SumInt
  <2> QED BY <2>1, <2>2, <2>3
<1>10. MapThenSumSet(LAMBDA a : Cash(T, a, day), Accounts) = SumOver(v, Accounts)
  <2> DEFINE F(h) == [s \in SUBSET Accounts |->
                        IF s = {} THEN 0 ELSE Cash(T, Pick(s), day) + h[s \ {Pick(s)}]]
             it == CHOOSE h : h = F(h)
  <2>1. \A s \in SUBSET Accounts : s # {} => v[Pick(s)] = Cash(T, Pick(s), day)
    BY <1>8 DEF Pick
  <2>2. \A h : Sums(h, v, Accounts) <=> h = F(h)
    BY <2>1 DEF Sums
  <2>3. IntOn(v, Accounts) /\ IsFiniteSet(Accounts)
    BY <1>9, TicketAssumption DEF IntOn
  <2>4. Sums(it, v, Accounts)
    BY <2>2, <2>3, SumsExist
  <2>5. MapThenSumSet(LAMBDA a : Cash(T, a, day), Accounts) = it[Accounts]
    BY DEF MapThenSumSet, MapThenFoldSet, Pick
  <2> HIDE DEF it
  <2> QED BY <2>3, <2>4, <2>5, SumIs
<1>11. SumOver(v, Accounts) = SumOver(w, {x \in all : of[x] \in Accounts})
  <2>1. IsFiniteSet(Accounts) /\ IsFiniteSet(all) /\ IntOn(w, all)
    BY <1>3, <1>4, TicketAssumption
  <2> QED BY <1>9, <2>1, SumParts
<1>12. SumOver(w, {x \in all : of[x] \in Accounts}) = SumOver(w, S \union other)
  BY <1>3, <1>7, Zenon
<1>13. SumOver(w, S \union other) = SumOver(w, S) + SumOver(w, other)
  BY <1>3, <1>4, SumUnion
<1>14. MapThenSumSet(Net, other) = SumOver(w, other) /\ SumOver(w, other) \in Int
  BY <1>3, <1>4, SumInt
<1>15. /\ book \in Books
       /\ SumOver(w, S) = book.realized - Worth(book.lots)
       /\ \A j, k \in 1..Len(book.lots) : book.lots[j].buy = book.lots[k].buy => j = k
  <2>1. \A x \in S : w[x] = Net(x)
    BY <1>2, <1>3
  <2> QED BY <1>1, <2>1, ReplayResult DEF S
<1>16. CostBasis(OpenLots(book)) = Worth(book.lots)
  BY <1>15, OpenLotsAre DEF Tidy
<1>17. Worth(book.lots) \in Int /\ book.realized \in Int
  BY <1>15, WorthInt DEF Books
<1> HIDE DEF book
<1>18. MapThenSumSet(LAMBDA a : Cash(T, a, day), Accounts)
         = MapThenSumSet(Net, other) + book.realized - CostBasis(OpenLots(book))
  <2>1. MapThenSumSet(LAMBDA a : Cash(T, a, day), Accounts) = SumOver(w, S) + SumOver(w, other)
    BY <1>10, <1>11, <1>12, <1>13, Zenon
  <2> DEFINE cash == MapThenSumSet(LAMBDA a : Cash(T, a, day), Accounts)
             moved == MapThenSumSet(Net, other)
             cost == CostBasis(OpenLots(book))
  <2>2. cash = SumOver(w, S) + SumOver(w, other) /\ moved = SumOver(w, other) /\ cost = Worth(book.lots)
    BY <1>14, <1>16, <2>1, Zenon
  <2> HIDE DEF cash, moved, cost
  <2>3. cash = moved + book.realized - cost
    BY <1>14, <1>15, <1>17, <2>2
  <2> QED BY <2>3 DEF cash, moved, cost
<1> QED BY <1>18 DEF book, other

\* The cash ledger and the FIFO engine agree: at every instant that can be replayed,
\* what calculate_cash_ledger finds in all accounts is what other transactions moved
\* plus the realized profit less the cost basis of the open lots.
THEOREM BooksBalanceAlways == LedgerSpec => []BooksBalance
<1>1. LedgerInv /\ LedgerFinite => BooksBalance
  BY BooksBalanceAt DEF BooksBalance
<1> QED BY <1>1, LedgerInvariant, LedgerFiniteInvariant, PTL

-----------------------------------------------------------------------------
(* Stored snapshots. *)

\* A holding is the sum of its lots.
Reconciles(h, rows) ==
    LET mine == {row \in rows : row.of = HoldingId(h)}
    IN  /\ h.quantity = MapThenSumSet(LAMBDA row : row.remaining, mine)
        /\ h.cost = MapThenSumSet(LAMBDA row : row.cost, mine)

\* SnapshotsReconcile, by holding.
Reconciled == crashes = 0 => \A h \in holdings : Reconciles(h, lots)

\* A rebuild computes holdings that are the sums of the lots it computes.
LEMMA RebuiltReconciles ==
  ASSUME NEW T, NEW t, NEW day, Tidy(Replay(T, day)), NEW h \in HoldingsAt(T, t, day)
  PROVE  Reconciles(h, LotsAt(T, t, day))
<1> DEFINE open == OpenLots(Replay(T, day))
           rowOf(l) == [buy |-> l.buy, asOf |-> t, remaining |-> l.remaining, cost |-> LotCost(l),
                        of |-> HoldingId(HoldingOf(l.position, open, t))]
           f == [l \in open |-> rowOf(l)]
           p == h.position
           part == {l \in open : l.position = p}
           mine == {row \in LotsAt(T, t, day) : row.of = HoldingId(h)}
           units == [l \in open |-> l.remaining]
           costs == [l \in open |-> l.remaining * l.unit]
           rowUnits == [row \in mine |-> row.remaining]
           rowCosts == [row \in mine |-> row.cost]
<1>1. /\ IsFiniteSet(open)
      /\ \A l \in open : l \in LotRows /\ l.remaining \in Nat /\ l.unit \in Int
      /\ \A l, m \in open : l.buy = m.buy => l = m
  <2>1. \A l \in LotRows : l.remaining \in Nat /\ l.unit \in Int
    BY DEF LotRows
  <2> QED BY <2>1, OpenLotsAre
<1>2. PICK m \in open : h = HoldingOf(m.position, open, t)
  BY DEF HoldingsAt
<1>3. h = HoldingOf(p, open, t) /\ h.quantity = Quantity(part) /\ h.cost = CostBasis(part)
  <2>1. h.position = m.position
    BY <1>2 DEF HoldingOf
  <2>2. h = HoldingOf(p, open, t)
    BY <1>2, <2>1
  <2>3. HoldingOf(p, open, t).quantity = Quantity(part) /\ HoldingOf(p, open, t).cost = CostBasis(part)
    BY DEF HoldingOf
  <2> QED BY <2>2, <2>3, Zenon
<1>4. \A l \in open : f[l] = rowOf(l)
  OBVIOUS
<1>5. LotsAt(T, t, day) = {f[l] : l \in open}
  BY DEF LotsAt
<1>6. \A l \in open : /\ f[l].buy = l.buy /\ f[l].remaining = l.remaining
                      /\ f[l].cost = l.remaining * l.unit
                      /\ f[l].of = HoldingId(HoldingOf(l.position, open, t))
  BY <1>4 DEF LotCost
<1>7. \A l \in open : f[l].of = HoldingId(h) <=> l.position = p
  <2> TAKE l \in open
  <2>1. HoldingId(HoldingOf(l.position, open, t))[1] = l.position
    BY DEF HoldingId, HoldingOf
  <2>2. HoldingId(h)[1] = p
    BY DEF HoldingId
  <2>3. f[l].of = HoldingId(h) => l.position = p
    BY <1>6, <2>1, <2>2
  <2>4. l.position = p => f[l].of = HoldingId(h)
    BY <1>3, <1>6, Zenon
  <2> QED BY <2>3, <2>4
<1> HIDE DEF f, open, p
<1>8. mine = ImageOf(f, part)
  BY <1>5, <1>7 DEF ImageOf
<1>9. IsFiniteSet(part) /\ IsFiniteSet(ImageOf(f, part)) /\ part \subseteq open
  <2>1. part \in SUBSET open
    OBVIOUS
  <2>2. IsFiniteSet(part)
    BY <1>1, <2>1, FS_Subset
  <2> HIDE DEF part
  <2> QED BY <2>1, <2>2, ImageFinite
<1>10. OneToOne(f, part)
  BY <1>1, <1>6 DEF OneToOne
<1>11. \A l \in part : /\ l.remaining \in Int /\ units[l] = l.remaining
                       /\ costs[l] \in Int /\ costs[l] = l.remaining * l.unit
  BY <1>1
<1>12. \A row \in mine : rowUnits[row] = row.remaining /\ rowCosts[row] = row.cost
  OBVIOUS
<1> HIDE DEF mine, part, units, costs, rowUnits, rowCosts
<1>13. Pulls(units, rowUnits, f, part) /\ Pulls(costs, rowCosts, f, part)
  <2> SUFFICES ASSUME NEW l \in part
               PROVE  /\ rowUnits[f[l]] \in Int /\ units[l] = rowUnits[f[l]]
                      /\ rowCosts[f[l]] \in Int /\ costs[l] = rowCosts[f[l]]
    BY DEF Pulls
  <2>1. f[l] \in mine /\ l \in open
    BY <1>8, <1>9 DEF ImageOf
  <2>2. rowUnits[f[l]] = l.remaining /\ rowCosts[f[l]] = l.remaining * l.unit
    BY <1>6, <1>12, <2>1
  <2> QED BY <1>11, <2>2
<1>14. /\ SumOver(rowUnits, ImageOf(f, part)) = SumOver(units, part)
       /\ SumOver(rowCosts, ImageOf(f, part)) = SumOver(costs, part)
  BY <1>9, <1>10, <1>13, SumImage
<1>15. /\ Quantity(part) = SumOver(units, part)
       /\ CostBasis(part) = SumOver(costs, part)
  <2>1. MapThenSumSet(LAMBDA x : x.remaining, part) = SumOver(units, part)
    BY <1>9, <1>11, RemainingSum
  <2>2. CostBasis(part) = SumOver(costs, part)
    BY <1>9, <1>11, CostBasisSum
  <2> QED BY <2>1, <2>2 DEF Quantity
<1>16. \A row \in mine : /\ row.remaining \in Int /\ rowUnits[row] = row.remaining
                         /\ row.cost \in Int /\ rowCosts[row] = row.cost
  <2> TAKE row \in mine
  <2>1. PICK l \in part : row = f[l]
    BY <1>8 DEF ImageOf
  <2>2. rowUnits[f[l]] \in Int /\ rowCosts[f[l]] \in Int
    BY <1>13 DEF Pulls
  <2> QED BY <1>12, <2>1, <2>2
<1>17. /\ MapThenSumSet(LAMBDA row : row.remaining, mine) = SumOver(rowUnits, mine)
       /\ MapThenSumSet(LAMBDA row : row.cost, mine) = SumOver(rowCosts, mine)
  <2>1. IsFiniteSet(mine)
    BY <1>8, <1>9
  <2> QED BY <1>16, <2>1, RemainingSum, CostSum
<1>18. SumOver(rowUnits, mine) = SumOver(rowUnits, ImageOf(f, part)) /\ SumOver(rowCosts, mine) = SumOver(rowCosts, ImageOf(f, part))
  BY <1>8, Zenon
<1>19. /\ h.quantity = MapThenSumSet(LAMBDA row : row.remaining, mine)
       /\ h.cost = MapThenSumSet(LAMBDA row : row.cost, mine)
  BY <1>3, <1>14, <1>15, <1>17, <1>18, Zenon
<1> QED BY <1>19, Zenon DEF Reconciles, mine

\* A rebuild that no crash cuts short stores all of both, and no row of an older
\* holding.
LEMMA RebuildReconciles ==
  ASSUME LedgerInv, LedgerFinite, Reconciled, crashes' = 0,
         NEW t \in Times, NEW day, NEW reason \in Reasons, RebuildHoldings(t, day, reason),
         NEW h \in holdings'
  PROVE  Reconciles(h, lots')
<1> DEFINE hs == HoldingsAt(transactions, t, day)
           ls == LotsAt(transactions, t, day)
<1>1. /\ Replay(transactions, day).ok
      /\ {HoldingId(g) : g \in hs} \intersect {HoldingId(g) : g \in holdings} = {}
  BY DEF RebuildHoldings, IsNewSnapshot
<1>2. ~Crash
  BY CrashCounts
<1>3. holdings' = holdings \union hs /\ lots' = lots \union ls /\ crashes = 0
  BY <1>2 DEF RebuildHoldings, RecordEvent
<1>4. Tidy(Replay(transactions, day))
  <2> DEFINE w == [x \in Eligible(transactions, day) |-> Net(x)]
  <2>1. \A x \in Eligible(transactions, day) : w[x] = Net(x)
    OBVIOUS
  <2> HIDE DEF w
  <2>2. Trades(Eligible(transactions, day))
    BY EligibleTrades DEF LedgerInv
  <2> QED BY <1>1, <2>1, <2>2, ReplayResult DEF Tidy
<1>5. \A row \in ls : \E g \in hs : row.of = HoldingId(g)
  BY LotRow
<1>6. \A row \in lots : \E g \in holdings : row.of = HoldingId(g)
  BY DEF LedgerInv, LotsHaveHoldings
<1>7. CASE h \in hs
  <2>1. Reconciles(h, ls)
    BY <1>4, <1>7, RebuiltReconciles
  <2> HIDE DEF hs, ls
  <2>2. {row \in lots' : row.of = HoldingId(h)} = {row \in ls : row.of = HoldingId(h)}
    BY <1>1, <1>3, <1>6, <1>7
  <2> QED BY <2>1, <2>2, Zenon DEF Reconciles
<1>8. CASE h \in holdings
  <2>1. Reconciles(h, lots)
    BY <1>3, <1>8 DEF Reconciled
  <2> HIDE DEF hs, ls
  <2>2. {row \in lots' : row.of = HoldingId(h)} = {row \in lots : row.of = HoldingId(h)}
    BY <1>1, <1>3, <1>5, <1>8
  <2> QED BY <2>1, <2>2, Zenon DEF Reconciles
<1> QED BY <1>3, <1>7, <1>8

\* Nothing else touches the rows.
LEMMA NextReconciles ==
  ASSUME LedgerInv, LedgerFinite, Reconciled, [LedgerNext]_ledgerVars
  PROVE  Reconciled'
<1> SUFFICES ASSUME crashes' = 0, NEW h \in holdings'
             PROVE  Reconciles(h, lots')
  BY DEF Reconciled
<1>1. CASE \E t \in Times, reason \in Reasons : \E day \in Dates(t) : RebuildHoldings(t, day, reason)
  BY <1>1, RebuildReconciles
<1>2. CASE ~\E t \in Times, reason \in Reasons : \E day \in Dates(t) : RebuildHoldings(t, day, reason)
  <2>1. holdings' = holdings /\ lots' = lots
    BY <1>2 DEF LedgerNext, Link, ChangeStatus, RegisterSecurity, RecordTransaction, ledgerVars, bookVars
  <2>2. crashes' = crashes \/ Crash
    BY <1>2 DEF LedgerNext, Link, ChangeStatus, RegisterSecurity, RecordTransaction, RecordEvent, ledgerVars
  <2>3. crashes = 0
    BY <2>2, CrashCounts
  <2>4. Reconciles(h, lots)
    BY <2>1, <2>3 DEF Reconciled
  <2> QED BY <2>1, <2>4, Zenon
<1> QED BY <1>1, <1>2

\* Unless a process died, the lots stored with a holding add up to it, in every snapshot
\* ever stored, as reconcile() demands: append_holdings_snapshot stores no row under the
\* identifier of an older holding.
THEOREM SnapshotsReconcileAlways == LedgerSpec => []SnapshotsReconcile
<1>1. LedgerInit => Reconciled
  BY DEF LedgerInit, Reconciled
<1>2. LedgerInv /\ LedgerFinite /\ Reconciled /\ [LedgerNext]_ledgerVars => Reconciled'
  BY NextReconciles
<1>3. Reconciled => SnapshotsReconcile
  BY DEF Reconciled, Reconciles, SnapshotsReconcile
<1> QED BY <1>1, <1>2, <1>3, LedgerInvariant, LedgerFiniteInvariant, PTL DEF LedgerSpec
=============================================================================
