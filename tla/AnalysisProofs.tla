---------------------------- MODULE AnalysisProofs ----------------------------
(***************************************************************************)
(* Proofs about the engines that read the candles, for every set of bars   *)
(* and every setting, and for a live frame, whose newest bar is still      *)
(* forming and whose oldest one leaves: settled swings and their labels    *)
(* stay as they were, an optimal entry is in the half its trend wants, a   *)
(* gap that was filled stays used up, a trap called on a closed bar stays  *)
(* called, pools of equal highs persist while their swings and the         *)
(* tolerance do, the value area is no wider than it must be, and the       *)
(* strongest order block survives the merge.  The sums these rest on, and  *)
(* the induction behind them, come first.                                  *)
(***************************************************************************)
EXTENDS MCAnalysis, FiniteSetTheorems, TLAPS

-----------------------------------------------------------------------------
(* Induction over finite sets.  The theorem of the library takes the       *)
(* property as an operator, which no prover here can instantiate; a set of *)
(* good subsets they can.                                                  *)

\* What holds of a set as soon as it holds of the set without one element.
LEMMA FiniteInduct ==
    ASSUME NEW S, IsFiniteSet(S), NEW G,
           {} \in G,
           \A T \in SUBSET S : T # {} /\ (\A x \in T : T \ {x} \in G) => T \in G
    PROVE  \A T \in SUBSET S : T \in G
<1> DEFINE Bad == {T \in SUBSET S : T \notin G}
<1> SUFFICES ASSUME Bad # {} PROVE FALSE
  OBVIOUS
<1>1. Bad \subseteq FiniteSubsetsOf(S)
  <2>1. \A T \in SUBSET S : IsFiniteSet(T)
    BY FS_Subset
  <2> QED BY <2>1 DEF FiniteSubsetsOf
<1>2. PICK m \in Bad : \A k \in Bad : <<k, m>> \notin StrictSubsetOrdering(S)
  <2> HIDE DEF Bad
  <2> QED BY <1>1, WFMin, FS_StrictSubsetOrderingWellFounded, Zenon
<1>3. \A x \in m : m \ {x} \in G
  <2> SUFFICES ASSUME NEW x \in m, m \ {x} \notin G PROVE FALSE
    OBVIOUS
  <2>1. m \ {x} \in Bad /\ <<m \ {x}, m>> \in StrictSubsetOrdering(S)
    BY DEF StrictSubsetOrdering
  <2> QED BY <1>2, <2>1
<1> QED BY <1>3

\* What holds of 0 and goes from a number to the next holds up to any number.
LEMMA CountInduct ==
    ASSUME NEW n \in Nat, NEW G, 0 \in G,
           \A k \in 0 .. n - 1 : k \in G => k + 1 \in G
    PROVE  \A k \in 0 .. n : k \in G
<1> DEFINE H == {T \in SUBSET (1 .. n) : \E k \in 0 .. n : k = Cardinality(T) /\ k \in G}
<1>1. IsFiniteSet(1 .. n) /\ \A k \in 0 .. n : IsFiniteSet(1 .. k) /\ Cardinality(1 .. k) = k
  BY FS_Interval
<1>2. {} \in H
  BY FS_EmptySet
<1>3. \A T \in SUBSET (1 .. n) : T # {} /\ (\A x \in T : T \ {x} \in H) => T \in H
  <2> SUFFICES ASSUME NEW T \in SUBSET (1 .. n), NEW x \in T, T \ {x} \in H PROVE T \in H
    OBVIOUS
  <2>1. IsFiniteSet(T) /\ Cardinality(T) <= n
    <3>1. IsFiniteSet(T) /\ Cardinality(T) <= Cardinality(1 .. n)
      BY <1>1, FS_Subset
    <3>2. Cardinality(1 .. n) = n
      BY <1>1
    <3> QED BY <3>1, <3>2
  <2>4. Cardinality(T) \in Nat /\ Cardinality(T \ {x}) = Cardinality(T) - 1
    BY <2>1, FS_RemoveElement, FS_CardinalityType
  <2>2. Cardinality(T) - 1 \in G /\ Cardinality(T) - 1 \in 0 .. n - 1
    BY <2>1, <2>4
  <2>3. Cardinality(T) \in G
    BY <2>2, <2>4
  <2> QED BY <2>1, <2>3, <2>4
<1>4. \A T \in SUBSET (1 .. n) : T \in H
  <2> HIDE DEF H
  <2> QED BY <1>1, <1>2, <1>3, FiniteInduct
<1> SUFFICES ASSUME NEW k \in 0 .. n PROVE k \in G
  OBVIOUS
<1>5. 1 .. k \in H
  BY <1>4
<1> QED BY <1>1, <1>5

-----------------------------------------------------------------------------
(* Folds *)

\* The library folds over a set by a recursive function on its subsets: b for
\* none, otherwise one element is picked and F is applied to the rest's value.
FoldsOn(S, V, b, F, pick) ==
    {g \in [SUBSET S -> V] : \A s \in SUBSET S :
        g[s] = IF s = {} THEN b ELSE F[pick[s]][g[s \ {pick[s]}]]}

Picks(S, pick) == \A s \in SUBSET S : s # {} => pick[s] \in s

\* There is no more than one ...
LEMMA FoldUnique ==
    ASSUME NEW S, IsFiniteSet(S), NEW V, NEW b, NEW F, NEW pick, Picks(S, pick),
           NEW A \in SUBSET S, NEW B \in SUBSET S,
           NEW g \in FoldsOn(A, V, b, F, pick), NEW h \in FoldsOn(B, V, b, F, pick)
    PROVE  \A s \in SUBSET (A \cap B) : g[s] = h[s]
<1> DEFINE G == {s \in SUBSET (A \cap B) : g[s] = h[s]}
<1>1. IsFiniteSet(A \cap B)
  BY FS_Subset
<1>2. {} \in G
  BY DEF FoldsOn
<1>3. \A T \in SUBSET (A \cap B) : T # {} /\ (\A x \in T : T \ {x} \in G) => T \in G
  <2> SUFFICES ASSUME NEW T \in SUBSET (A \cap B), T # {}, \A x \in T : T \ {x} \in G
               PROVE  g[T] = h[T]
    OBVIOUS
  <2>1. pick[T] \in T
    BY DEF Picks
  <2>2. g[T \ {pick[T]}] = h[T \ {pick[T]}]
    BY <2>1
  <2> HIDE DEF G
  <2> QED BY <2>2 DEF FoldsOn
<1>4. \A T \in SUBSET (A \cap B) : T \in G
  <2> HIDE DEF G
  <2> QED BY <1>1, <1>2, <1>3, FiniteInduct
<1> QED BY <1>4

\* ... and, over a finite set, there is one.
LEMMA FoldExists ==
    ASSUME NEW S, IsFiniteSet(S), NEW V, NEW b \in V, NEW F \in [S -> [V -> V]],
           NEW pick, Picks(S, pick)
    PROVE  \E g : g \in FoldsOn(S, V, b, F, pick)
<1> DEFINE G == {T \in SUBSET S : \E g : g \in FoldsOn(T, V, b, F, pick)}
<1>1. {} \in G
  <2>1. [s \in SUBSET {} |-> b] \in FoldsOn({}, V, b, F, pick)
    BY DEF FoldsOn
  <2> QED BY <2>1
<1>2. ASSUME NEW T \in SUBSET S, T # {}, \A x \in T : T \ {x} \in G
      PROVE  T \in G
  <2> DEFINE rest(x) == CHOOSE g : g \in FoldsOn(T \ {x}, V, b, F, pick)
             out(s) == CHOOSE x : x \in T \ s
             low(s) == rest(out(s))[s]
             top == F[pick[T]][low(T \ {pick[T]})]
             g == [s \in SUBSET T |-> IF s = T THEN top ELSE low(s)]
  <2>1. \A x \in T : rest(x) \in FoldsOn(T \ {x}, V, b, F, pick)
    BY <1>2
  <2>2. \A s \in SUBSET T : s # T => out(s) \in T /\ out(s) \notin s
    OBVIOUS
  <2>3. \A s \in SUBSET T : s # T => low(s) \in V
    <3> SUFFICES ASSUME NEW s \in SUBSET T, s # T PROVE low(s) \in V
      OBVIOUS
    <3>1. rest(out(s)) \in [SUBSET (T \ {out(s)}) -> V]
      BY <2>1, <2>2 DEF FoldsOn
    <3>2. s \in SUBSET (T \ {out(s)})
      BY <2>2
    <3> HIDE DEF rest, out
    <3> QED BY <3>1, <3>2
  <2>4. \A s \in SUBSET T : \A x \in T : x \notin s => low(s) = rest(x)[s]
    <3> SUFFICES ASSUME NEW s \in SUBSET T, NEW x \in T, x \notin s
                 PROVE  low(s) = rest(x)[s]
      OBVIOUS
    <3>1. out(s) \in T /\ out(s) \notin s
      BY <2>2
    <3>2. s \in SUBSET ((T \ {out(s)}) \cap (T \ {x}))
      BY <3>1
    <3> DEFINE a == T \ {out(s)}
               c == T \ {x}
    <3>3. /\ rest(out(s)) \in FoldsOn(a, V, b, F, pick)
          /\ rest(x) \in FoldsOn(c, V, b, F, pick)
          /\ a \in SUBSET S /\ c \in SUBSET S /\ s \in SUBSET (a \cap c)
      BY <2>1, <3>1, <3>2
    <3> HIDE DEF rest, out, a, c
    <3> QED BY <3>3, FoldUnique
  <2>5. pick[T] \in T
    BY <1>2 DEF Picks
  <2>6. top \in V
    <3>1. T \ {pick[T]} \in SUBSET T /\ T \ {pick[T]} # T
      BY <2>5
    <3>2. low(T \ {pick[T]}) \in V
      BY <2>3, <3>1
    <3> HIDE DEF low
    <3> QED BY <2>5, <3>2
  <2>7. g \in [SUBSET T -> V]
    <3> HIDE DEF low, top
    <3> QED BY <2>3, <2>6
  <2>8. ASSUME NEW s \in SUBSET T
        PROVE  g[s] = IF s = {} THEN b ELSE F[pick[s]][g[s \ {pick[s]}]]
    <3>1. CASE s = T
      <4>1. g[s] = top /\ T \ {pick[T]} # T
        BY <2>5, <3>1
      <4>2. g[T \ {pick[T]}] = low(T \ {pick[T]})
        BY <4>1
      <4> HIDE DEF g, low
      <4> QED BY <1>2, <3>1, <4>1, <4>2
    <3>2. CASE s # T
      <4> DEFINE r == s \ {pick[s]}
                 h == rest(out(s))
      <4>1. /\ out(s) \in T /\ out(s) \notin s
            /\ h \in FoldsOn(T \ {out(s)}, V, b, F, pick)
        BY <2>1, <2>2, <3>2
      <4>2. h[s] = IF s = {} THEN b ELSE F[pick[s]][h[r]]
        <5> HIDE DEF h
        <5> QED BY <4>1 DEF FoldsOn
      <4>3. g[s] = h[s]
        BY <3>2
      <4>4. s # {} => g[r] = h[r]
        <5> SUFFICES ASSUME s # {} PROVE g[r] = h[r]
          OBVIOUS
        <5>1. pick[s] \in s
          BY DEF Picks
        <5>2. r \in SUBSET T /\ r # T /\ out(s) \notin r
          BY <4>1, <5>1
        <5>3. g[r] = low(r)
          BY <5>2
        <5>4. low(r) = rest(out(s))[r]
          <6> HIDE DEF low, rest, r, out
          <6> QED BY <2>4, <4>1, <5>2
        <5> QED BY <5>3, <5>4
      <4> HIDE DEF g, h, r
      <4> QED BY <4>2, <4>3, <4>4 DEF r
    <3> QED BY <3>1, <3>2
  <2>9. g \in FoldsOn(T, V, b, F, pick)
    <3> HIDE DEF g
    <3> QED BY <2>7, <2>8 DEF FoldsOn
  <2> HIDE DEF g
  <2> QED BY <2>9
<1>3. \A T \in SUBSET S : T \in G
  <2> HIDE DEF G
  <2> QED BY <1>1, <1>2, FiniteInduct
<1> QED BY <1>3

-----------------------------------------------------------------------------
(* Sums over finite sets *)

AnyOf(s) == CHOOSE x \in s : TRUE

\* What MapThenSumSet makes of an operator, of a function.
SumFun(v, S) == CHOOSE g : g = [s \in SUBSET S |->
    IF s = {} THEN 0 ELSE v[AnyOf(s)] + g[s \ {AnyOf(s)}]]
SumOf(v, S) == SumFun(v, S)[S]

IntsOn(v, S) == \A x \in S : v[x] \in Int
Adds(v, S) == [x \in S |-> [r \in Int |-> v[x] + r]]

\* The sums of the parts of a set are the fold over each of them.
LEMMA SumIsFold ==
    ASSUME NEW S, IsFiniteSet(S), NEW v, IntsOn(v, S), NEW T \in SUBSET S
    PROVE  SumFun(v, T) \in FoldsOn(T, Int, 0, Adds(v, S), [s \in SUBSET S |-> AnyOf(s)])
<1> DEFINE pick == [s \in SUBSET S |-> AnyOf(s)]
           F == Adds(v, S)
           E(g) == [s \in SUBSET T |-> IF s = {} THEN 0 ELSE v[AnyOf(s)] + g[s \ {AnyOf(s)}]]
<1>1. \A s \in SUBSET S : s # {} => AnyOf(s) \in s
  BY DEF AnyOf
<1>2. /\ \A s \in SUBSET S : pick[s] = AnyOf(s)
      /\ \A x \in S, r \in Int : F[x][r] = v[x] + r
  BY DEF Adds
<1>3. \E g : g \in FoldsOn(T, Int, 0, F, pick)
  <2>1. F \in [S -> [Int -> Int]]
    BY DEF Adds, IntsOn
  <2>2. [x \in T |-> F[x]] \in [T -> [Int -> Int]]
    <3> HIDE DEF F
    <3> QED BY <2>1
  <2>3. IsFiniteSet(T) /\ Picks(T, pick)
    <3>1. Picks(T, pick)
      BY <1>1 DEF Picks
    <3> QED BY <3>1, FS_Subset
  <2> DEFINE H == [x \in T |-> F[x]]
  <2> HIDE DEF F, pick
  <2>4. \E g : g \in FoldsOn(T, Int, 0, H, pick)
    <3>1. H \in [T -> [Int -> Int]] /\ 0 \in Int
      BY <2>2
    <3> HIDE DEF H
    <3> QED BY <2>3, <3>1, FoldExists
  <2>5. FoldsOn(T, Int, 0, H, pick) = FoldsOn(T, Int, 0, F, pick)
    <3>1. \A s \in SUBSET T : s # {} => H[pick[s]] = F[pick[s]]
      BY <2>3 DEF Picks
    <3> HIDE DEF H
    <3>2. \A g \in [SUBSET T -> Int] :
            (\A s \in SUBSET T : g[s] = IF s = {} THEN 0 ELSE H[pick[s]][g[s \ {pick[s]}]])
            <=> (\A s \in SUBSET T : g[s] = IF s = {} THEN 0 ELSE F[pick[s]][g[s \ {pick[s]}]])
      BY <3>1
    <3> QED BY <3>2 DEF FoldsOn
  <2> QED BY <2>4, <2>5
<1>4. ASSUME NEW g \in FoldsOn(T, Int, 0, F, pick) PROVE g = E(g)
  <2>1. g \in [SUBSET T -> Int]
    BY DEF FoldsOn
  <2>2. ASSUME NEW s \in SUBSET T, s # {} PROVE g[s] = v[AnyOf(s)] + g[s \ {AnyOf(s)}]
    <3>1. g[s] = F[pick[s]][g[s \ {pick[s]}]]
      BY <2>2 DEF FoldsOn
    <3>2. pick[s] = AnyOf(s) /\ AnyOf(s) \in S /\ s \ {AnyOf(s)} \in SUBSET T
      BY <1>1, <1>2, <2>2
    <3>3. g[s \ {AnyOf(s)}] \in Int
      BY <2>1, <3>2
    <3> HIDE DEF F, pick
    <3> QED BY <1>2, <3>1, <3>2, <3>3
  <2>3. g[{}] = 0
    BY DEF FoldsOn
  <2>4. \A s \in SUBSET T : g[s] = E(g)[s]
    BY <2>2, <2>3
  <2> QED BY <2>1, <2>4
<1>5. SumFun(v, T) = E(SumFun(v, T))
  <2>1. \E g : g = E(g)
    BY <1>3, <1>4
  <2> QED BY <2>1 DEF SumFun
<1>6. ASSUME NEW g, g = E(g) PROVE g \in FoldsOn(T, Int, 0, F, pick)
  <2> DEFINE G == {s \in SUBSET T : g[s] \in Int}
  <2>1. {} \in G
    BY <1>6
  <2>2. ASSUME NEW s \in SUBSET T, s # {}, \A x \in s : s \ {x} \in G PROVE s \in G
    <3>1. AnyOf(s) \in s /\ AnyOf(s) \in S
      BY <1>1, <2>2
    <3>2. g[s] = v[AnyOf(s)] + g[s \ {AnyOf(s)}]
      BY <1>6, <2>2
    <3>3. g[s \ {AnyOf(s)}] \in Int /\ v[AnyOf(s)] \in Int
      BY <2>2, <3>1 DEF IntsOn
    <3> QED BY <3>2, <3>3
  <2>3. \A s \in SUBSET T : s \in G
    <3>1. IsFiniteSet(T)
      BY FS_Subset
    <3> HIDE DEF G
    <3> QED BY <2>1, <2>2, <3>1, FiniteInduct
  <2>4. g \in [SUBSET T -> Int]
    <3>1. \A s \in SUBSET T : g[s] \in Int
      BY <2>3
    <3> QED BY <1>6, <3>1
  <2>5. ASSUME NEW s \in SUBSET T
        PROVE  g[s] = IF s = {} THEN 0 ELSE F[pick[s]][g[s \ {pick[s]}]]
    <3>1. CASE s = {}
      BY <1>6, <3>1
    <3>2. CASE s # {}
      <4>1. pick[s] = AnyOf(s) /\ AnyOf(s) \in S /\ s \ {AnyOf(s)} \in SUBSET T
        BY <1>1, <1>2, <3>2
      <4>2. g[s] = v[AnyOf(s)] + g[s \ {AnyOf(s)}]
        BY <1>6, <3>2
      <4>3. g[s \ {AnyOf(s)}] \in Int
        BY <2>3, <4>1
      <4> HIDE DEF F, pick
      <4> QED BY <1>2, <3>2, <4>1, <4>2, <4>3
    <3> QED BY <3>1, <3>2
  <2> HIDE DEF F, pick
  <2> QED BY <2>4, <2>5 DEF FoldsOn
<1> HIDE DEF E, F, pick
<1> QED BY <1>5, <1>6 DEF F, pick

\* A sum over part of a set is what the fold over the set has for that part.
LEMMA SumPart ==
    ASSUME NEW S, IsFiniteSet(S), NEW v, IntsOn(v, S), NEW T \in SUBSET S
    PROVE  /\ SumOf(v, T) = SumFun(v, S)[T] /\ SumOf(v, T) \in Int
           /\ T # {} => SumOf(v, T) = v[AnyOf(T)] + SumOf(v, T \ {AnyOf(T)})
<1> DEFINE pick == [s \in SUBSET S |-> AnyOf(s)]
           F == Adds(v, S)
           g == SumFun(v, S)
<1>1. \A s \in SUBSET S : s # {} => AnyOf(s) \in s
  BY DEF AnyOf
<1>2. Picks(S, pick)
  BY <1>1 DEF Picks
<1>3. \A s \in SUBSET S : SumFun(v, s) \in FoldsOn(s, Int, 0, F, pick)
  BY SumIsFold
<1>4. \A s \in SUBSET S : SumOf(v, s) = g[s]
  <2> SUFFICES ASSUME NEW s \in SUBSET S PROVE SumFun(v, s)[s] = g[s]
    BY DEF SumOf
  <2>1. /\ s \in SUBSET (s \cap S) /\ S \in SUBSET S
        /\ SumFun(v, s) \in FoldsOn(s, Int, 0, F, pick) /\ g \in FoldsOn(S, Int, 0, F, pick)
    BY <1>3
  <2> HIDE DEF F, pick, g
  <2> QED BY <1>2, <2>1, FoldUnique
<1>5. g \in [SUBSET S -> Int]
  <2>1. g \in FoldsOn(S, Int, 0, F, pick)
    BY <1>3
  <2> HIDE DEF g, F, pick
  <2> QED BY <2>1 DEF FoldsOn
<1>6. ASSUME T # {} PROVE g[T] = v[AnyOf(T)] + g[T \ {AnyOf(T)}]
  <2>1. g \in FoldsOn(S, Int, 0, F, pick)
    BY <1>3
  <2>2. g[T] = F[pick[T]][g[T \ {pick[T]}]]
    <3> HIDE DEF g, F, pick
    <3> QED BY <1>6, <2>1 DEF FoldsOn
  <2>3. pick[T] = AnyOf(T) /\ AnyOf(T) \in S /\ T \ {AnyOf(T)} \in SUBSET S
    BY <1>1, <1>6
  <2>4. g[T \ {AnyOf(T)}] \in Int
    <3> HIDE DEF g
    <3> QED BY <1>5, <2>3
  <2>5. \A x \in S, r \in Int : F[x][r] = v[x] + r
    BY DEF Adds
  <2> HIDE DEF g, F, pick
  <2> QED BY <2>2, <2>3, <2>4, <2>5
<1> HIDE DEF g
<1> QED BY <1>4, <1>5, <1>6 DEF g

\* The empty sum.
LEMMA SumNone == \A v : SumOf(v, {}) = 0
<1> TAKE v
<1>1. IsFiniteSet({}) /\ IntsOn(v, {})
  BY FS_EmptySet DEF IntsOn
<1>2. SumFun(v, {}) \in FoldsOn({}, Int, 0, Adds(v, {}), [s \in SUBSET {} |-> AnyOf(s)])
  BY <1>1, SumIsFold
<1> QED BY <1>2 DEF FoldsOn, SumOf

\* Any one element can be taken out first.
LEMMA SumRemove ==
    ASSUME NEW S, IsFiniteSet(S), NEW v, IntsOn(v, S)
    PROVE  /\ SumOf(v, S) \in Int
           /\ \A x \in S : SumOf(v, S) = v[x] + SumOf(v, S \ {x}) /\ SumOf(v, S \ {x}) \in Int
<1> DEFINE G == {T \in SUBSET S : \A x \in T : SumOf(v, T) = v[x] + SumOf(v, T \ {x})}
<1>1. \A T \in SUBSET S : SumOf(v, T) \in Int
  BY SumPart
<1>2. {} \in G
  OBVIOUS
<1>3. ASSUME NEW T \in SUBSET S, T # {}, \A x \in T : T \ {x} \in G PROVE T \in G
  <2> DEFINE a == AnyOf(T)
  <2>1. a \in T
    BY <1>3 DEF AnyOf
  <2>2. SumOf(v, T) = v[a] + SumOf(v, T \ {a})
    BY <1>3, SumPart
  <2> HIDE DEF a
  <2> SUFFICES ASSUME NEW x \in T, x # a PROVE SumOf(v, T) = v[x] + SumOf(v, T \ {x})
    BY <2>2
  <2>3. T \ {a} \in G /\ T \ {x} \in G
    BY <1>3, <2>1
  <2>4. SumOf(v, T \ {a}) = v[x] + SumOf(v, (T \ {a}) \ {x})
    BY <2>3
  <2>5. SumOf(v, T \ {x}) = v[a] + SumOf(v, (T \ {x}) \ {a})
    BY <2>1, <2>3
  <2>6. SumOf(v, (T \ {a}) \ {x}) = SumOf(v, (T \ {x}) \ {a})
    <3>1. (T \ {a}) \ {x} = (T \ {x}) \ {a}
      OBVIOUS
    <3> QED BY <3>1
  <2>7. v[a] \in Int /\ v[x] \in Int /\ SumOf(v, (T \ {a}) \ {x}) \in Int
    BY <1>1, <2>1 DEF IntsOn
  <2> HIDE DEF G
  <2> QED BY <2>2, <2>4, <2>5, <2>6, <2>7
<1>4. \A T \in SUBSET S : T \in G
  <2> HIDE DEF G
  <2> QED BY <1>2, <1>3, FiniteInduct
<1>5. S \in G
  BY <1>4
<1> QED BY <1>1, <1>5

\* Where one function is nowhere less than another and not negative where only
\* it counts, its sum is no less.
LEMMA SumMono ==
    ASSUME NEW S, IsFiniteSet(S), NEW T \in SUBSET S, NEW v, NEW w, IntsOn(v, T), IntsOn(w, S),
           \A x \in T : v[x] <= w[x], \A x \in S \ T : w[x] >= 0
    PROVE  SumOf(v, T) <= SumOf(w, S)
<1> DEFINE G == {A \in SUBSET S : SumOf(v, A \cap T) <= SumOf(w, A)}
<1>1. {} \in G
  BY SumNone
<1>2. ASSUME NEW A \in SUBSET S, A # {}, \A x \in A : A \ {x} \in G PROVE A \in G
  <2>1. PICK x \in A : TRUE
    BY <1>2
  <2>2. SumOf(v, (A \ {x}) \cap T) <= SumOf(w, A \ {x})
    BY <1>2, <2>1
  <2>3. IsFiniteSet(A) /\ IsFiniteSet(A \cap T) /\ IsFiniteSet((A \ {x}) \cap T)
    BY FS_Subset
  <2>4. SumOf(w, A) = w[x] + SumOf(w, A \ {x}) /\ SumOf(w, A \ {x}) \in Int /\ w[x] \in Int
    <3>1. IntsOn(w, A)
      BY DEF IntsOn
    <3> QED BY <2>1, <2>3, <3>1, SumRemove DEF IntsOn
  <2>5. SumOf(v, (A \ {x}) \cap T) \in Int
    <3>1. IntsOn(v, (A \ {x}) \cap T)
      BY DEF IntsOn
    <3> QED BY <2>3, <3>1, SumRemove
  <2>6. CASE x \in T
    <3>1. (A \ {x}) \cap T = (A \cap T) \ {x} /\ x \in A \cap T
      BY <2>1, <2>6
    <3>2. IntsOn(v, A \cap T)
      BY DEF IntsOn
    <3>3. SumOf(v, A \cap T) = v[x] + SumOf(v, (A \cap T) \ {x}) /\ v[x] \in Int
      BY <2>3, <2>6, <3>1, <3>2, SumRemove DEF IntsOn
    <3>4. v[x] <= w[x]
      BY <2>6
    <3>5. SumOf(v, A \cap T) <= SumOf(w, A)
      BY <2>2, <2>4, <2>5, <3>1, <3>3, <3>4
    <3> QED BY <3>5
  <2>7. CASE x \notin T
    <3>1. (A \ {x}) \cap T = A \cap T /\ w[x] >= 0
      BY <2>1, <2>7
    <3>2. SumOf(v, A \cap T) <= SumOf(w, A)
      BY <2>2, <2>4, <2>5, <3>1
    <3> QED BY <3>2
  <2> QED BY <2>6, <2>7
<1>3. \A A \in SUBSET S : A \in G
  <2> HIDE DEF G
  <2> QED BY <1>1, <1>2, FiniteInduct
<1>4. SumOf(v, S \cap T) <= SumOf(w, S) /\ S \cap T = T
  BY <1>3
<1> QED BY <1>4

\* Functions that agree have the same sum.
LEMMA SumSame ==
    ASSUME NEW S, IsFiniteSet(S), NEW v, NEW w, IntsOn(v, S), \A x \in S : v[x] = w[x]
    PROVE  SumOf(v, S) = SumOf(w, S)
<1>1. IntsOn(w, S) /\ \A x \in S : v[x] <= w[x] /\ w[x] <= v[x]
  BY DEF IntsOn
<1>2. SumOf(v, S) <= SumOf(w, S)
  BY <1>1, SumMono
<1>3. SumOf(w, S) <= SumOf(v, S)
  BY <1>1, SumMono
<1>4. SumOf(v, S) \in Int /\ SumOf(w, S) \in Int
  BY <1>1, SumRemove
<1> QED BY <1>2, <1>3, <1>4

\* A sum is the same however its terms are named.
LEMMA SumRenamed ==
    ASSUME NEW S, IsFiniteSet(S), NEW v, NEW w, NEW p, IntsOn(v, S),
           \A x, y \in S : p[x] = p[y] => x = y, \A x \in S : w[p[x]] = v[x]
    PROVE  SumOf(w, {p[x] : x \in S}) = SumOf(v, S)
<1> DEFINE Image(A) == {p[x] : x \in A}
           G == {A \in SUBSET S : IsFiniteSet(Image(A)) /\ SumOf(w, Image(A)) = SumOf(v, A)}
<1>1. {} \in G
  <2>1. Image({}) = {}
    OBVIOUS
  <2> HIDE DEF Image
  <2> QED BY <2>1, SumNone, FS_EmptySet
<1>2. ASSUME NEW A \in SUBSET S, A # {}, \A x \in A : A \ {x} \in G PROVE A \in G
  <2>1. PICK x \in A : TRUE
    BY <1>2
  <2>2. IsFiniteSet(Image(A \ {x})) /\ SumOf(w, Image(A \ {x})) = SumOf(v, A \ {x})
    BY <1>2, <2>1
  <2>3. Image(A) = Image(A \ {x}) \cup {p[x]} /\ p[x] \in Image(A)
    OBVIOUS
  <2>4. Image(A) \ {p[x]} = Image(A \ {x})
    OBVIOUS
  <2>5. IntsOn(w, Image(A)) /\ IntsOn(v, A)
    BY DEF IntsOn
  <2> HIDE DEF Image
  <2>6. IsFiniteSet(Image(A)) /\ IsFiniteSet(A)
    <3>1. IsFiniteSet(Image(A \ {x}) \cup {p[x]})
      BY <2>2, FS_AddElement
    <3>2. IsFiniteSet(Image(A))
      BY <2>3, <3>1
    <3> QED BY <3>2, FS_Subset
  <2>7. SumOf(w, Image(A)) = w[p[x]] + SumOf(w, Image(A) \ {p[x]})
    BY <2>3, <2>5, <2>6, SumRemove
  <2>8. SumOf(v, A) = v[x] + SumOf(v, A \ {x})
    BY <2>5, <2>6, SumRemove
  <2>9. SumOf(w, Image(A)) = SumOf(v, A)
    BY <2>2, <2>4, <2>7, <2>8
  <2> QED BY <2>6, <2>9
<1>3. \A A \in SUBSET S : A \in G
  <2> HIDE DEF G
  <2> QED BY <1>1, <1>2, FiniteInduct
<1> QED BY <1>3

\* What is added up in two parts.
LEMMA SumUnion ==
    ASSUME NEW S, IsFiniteSet(S), NEW v, IntsOn(v, S), NEW A \in SUBSET S
    PROVE  SumOf(v, S) = SumOf(v, A) + SumOf(v, S \ A)
<1> DEFINE G == {B \in SUBSET S : SumOf(v, B) = SumOf(v, B \cap A) + SumOf(v, B \ A)}
<1>1. \A B \in SUBSET S : IsFiniteSet(B) /\ IntsOn(v, B) /\ SumOf(v, B) \in Int
  <2>1. \A B \in SUBSET S : IsFiniteSet(B) /\ IntsOn(v, B)
    BY FS_Subset DEF IntsOn
  <2> QED BY <2>1, SumRemove
<1>2. {} \in G
  BY SumNone
<1>3. ASSUME NEW B \in SUBSET S, B # {}, \A x \in B : B \ {x} \in G PROVE B \in G
  <2>1. PICK x \in B : TRUE
    BY <1>3
  <2>2. SumOf(v, B \ {x}) = SumOf(v, (B \ {x}) \cap A) + SumOf(v, (B \ {x}) \ A)
    BY <1>3, <2>1
  <2>3. SumOf(v, B) = v[x] + SumOf(v, B \ {x}) /\ v[x] \in Int
    BY <1>1, <2>1, SumRemove DEF IntsOn
  <2>4. SumOf(v, (B \ {x}) \cap A) \in Int /\ SumOf(v, (B \ {x}) \ A) \in Int
    BY <1>1
  <2>5. CASE x \in A
    <3>1. /\ SumOf(v, (B \ {x}) \cap A) = SumOf(v, (B \cap A) \ {x})
          /\ SumOf(v, (B \ {x}) \ A) = SumOf(v, B \ A)
          /\ x \in B \cap A
      <4>1. (B \ {x}) \cap A = (B \cap A) \ {x} /\ (B \ {x}) \ A = B \ A
        BY <2>5
      <4> QED BY <2>1, <2>5, <4>1
    <3>2. SumOf(v, B \cap A) = v[x] + SumOf(v, (B \cap A) \ {x})
      BY <1>1, <3>1, SumRemove
    <3> HIDE DEF G
    <3>3. SumOf(v, B) = SumOf(v, B \cap A) + SumOf(v, B \ A)
      BY <2>2, <2>3, <2>4, <3>1, <3>2
    <3> QED BY <3>3 DEF G
  <2>6. CASE x \notin A
    <3>1. /\ SumOf(v, (B \ {x}) \cap A) = SumOf(v, B \cap A)
          /\ SumOf(v, (B \ {x}) \ A) = SumOf(v, (B \ A) \ {x})
          /\ x \in B \ A
      <4>1. (B \ {x}) \cap A = B \cap A /\ (B \ {x}) \ A = (B \ A) \ {x}
        BY <2>6
      <4> QED BY <2>1, <2>6, <4>1
    <3>2. SumOf(v, B \ A) = v[x] + SumOf(v, (B \ A) \ {x})
      BY <1>1, <3>1, SumRemove
    <3> HIDE DEF G
    <3>3. SumOf(v, B) = SumOf(v, B \cap A) + SumOf(v, B \ A)
      BY <2>2, <2>3, <2>4, <3>1, <3>2
    <3> QED BY <3>3 DEF G
  <2> QED BY <2>5, <2>6
<1>4. \A B \in SUBSET S : B \in G
  <2> HIDE DEF G
  <2> QED BY <1>2, <1>3, FiniteInduct
<1>5. SumOf(v, S) = SumOf(v, S \cap A) + SumOf(v, S \ A) /\ S \cap A = A
  BY <1>4
<1> QED BY <1>5

\* What is not negative adds up to what is not negative.
LEMMA SumPositive ==
    ASSUME NEW S, IsFiniteSet(S), NEW v, IntsOn(v, S), \A x \in S : v[x] >= 0
    PROVE  SumOf(v, S) >= 0
<1>1. SumOf(v, {}) <= SumOf(v, S)
  BY SumMono DEF IntsOn
<1> QED BY <1>1, SumNone, SumRemove

\* Sorted into bins, nothing gets lost.
OfBins(S, bin, B) == {x \in S : bin[x] \in B}
Binned(h, v, S, bin, B) == \A n \in B : h[n] = SumOf(v, OfBins(S, bin, {n}))

\* The bins hold what was sorted into them.
LEMMA SumOfBins ==
    ASSUME NEW S, IsFiniteSet(S), NEW v, IntsOn(v, S), NEW bin, NEW B, IsFiniteSet(B),
           NEW h, Binned(h, v, S, bin, B)
    PROVE  IntsOn(h, B) /\ SumOf(h, B) = SumOf(v, OfBins(S, bin, B))
<1> DEFINE In(A) == OfBins(S, bin, A)
           Only(n) == OfBins(S, bin, {n})
           G == {A \in SUBSET B : SumOf(h, A) = SumOf(v, In(A))}
<1>1. \A A \in SUBSET S : IsFiniteSet(A) /\ IntsOn(v, A) /\ SumOf(v, A) \in Int
  <2>1. \A A \in SUBSET S : IsFiniteSet(A) /\ IntsOn(v, A)
    BY FS_Subset DEF IntsOn
  <2> QED BY <2>1, SumRemove
<1>2. IntsOn(h, B)
  <2>1. \A n \in B : Only(n) \in SUBSET S
    BY DEF OfBins
  <2> QED BY <1>1, <2>1 DEF IntsOn, Binned
<1>3. {} \in G
  <2>1. In({}) = {}
    BY DEF OfBins
  <2> HIDE DEF In
  <2> QED BY <2>1, SumNone
<1>4. ASSUME NEW A \in SUBSET B, A # {}, \A n \in A : A \ {n} \in G PROVE A \in G
  <2>1. PICK n \in A : TRUE
    BY <1>4
  <2>2. SumOf(h, A \ {n}) = SumOf(v, In(A \ {n}))
    BY <1>4, <2>1
  <2>3. SumOf(h, A) = h[n] + SumOf(h, A \ {n})
    <3>1. IsFiniteSet(A) /\ IntsOn(h, A)
      BY <1>2, FS_Subset DEF IntsOn
    <3> QED BY <2>1, <3>1, SumRemove
  <2>4. h[n] = SumOf(v, Only(n))
    BY <2>1 DEF Binned
  <2>5. In(A) \in SUBSET S /\ Only(n) \in SUBSET In(A) /\ In(A) \ Only(n) = In(A \ {n})
    BY <2>1 DEF OfBins
  <2> HIDE DEF In, Only
  <2>6. SumOf(v, In(A)) = SumOf(v, Only(n)) + SumOf(v, In(A) \ Only(n))
    BY <1>1, <2>5, SumUnion
  <2>7. SumOf(h, A) = SumOf(v, In(A))
    BY <2>2, <2>3, <2>4, <2>5, <2>6
  <2> QED BY <2>7
<1>5. \A A \in SUBSET B : A \in G
  <2> HIDE DEF G
  <2> QED BY <1>3, <1>4, FiniteInduct
<1> QED BY <1>2, <1>5

\* Fewer and smaller terms add up to no more.
LEMMA SumOfSmaller ==
    ASSUME NEW A, NEW B, IsFiniteSet(A), IsFiniteSet(B), NEW v, IntsOn(v, A), IntsOn(v, B),
           Cardinality(A) <= Cardinality(B),
           \A x \in A, y \in B : v[x] <= v[y], \A y \in B : v[y] >= 0
    PROVE  SumOf(v, A) <= SumOf(v, B)
<1> DEFINE G == {C \in SUBSET A : \A D \in SUBSET B :
                    Cardinality(C) <= Cardinality(D) => SumOf(v, C) <= SumOf(v, D)}
<1>1. \A D \in SUBSET B : IsFiniteSet(D) /\ IntsOn(v, D) /\ SumOf(v, D) \in Int
                          /\ Cardinality(D) \in Nat
  <2>1. \A D \in SUBSET B : IsFiniteSet(D) /\ IntsOn(v, D)
    BY FS_Subset DEF IntsOn
  <2> QED BY <2>1, SumRemove, FS_CardinalityType
<1>2. \A C \in SUBSET A : IsFiniteSet(C) /\ IntsOn(v, C) /\ SumOf(v, C) \in Int
                          /\ Cardinality(C) \in Nat
  <2>1. \A C \in SUBSET A : IsFiniteSet(C) /\ IntsOn(v, C)
    BY FS_Subset DEF IntsOn
  <2> QED BY <2>1, SumRemove, FS_CardinalityType
<1>3. {} \in G
  <2> SUFFICES ASSUME NEW D \in SUBSET B PROVE SumOf(v, {}) <= SumOf(v, D)
    OBVIOUS
  <2>1. \A y \in D : v[y] >= 0
    OBVIOUS
  <2> QED BY <1>1, <2>1, SumNone, SumPositive
<1>4. ASSUME NEW C \in SUBSET A, C # {}, \A x \in C : C \ {x} \in G PROVE C \in G
  <2> SUFFICES ASSUME NEW D \in SUBSET B, Cardinality(C) <= Cardinality(D)
               PROVE  SumOf(v, C) <= SumOf(v, D)
    OBVIOUS
  <2>1. PICK x \in C : TRUE
    BY <1>4
  <2>2. Cardinality(C \ {x}) = Cardinality(C) - 1
    BY <1>2, <2>1, FS_RemoveElement
  <2>3. D # {}
    <3> SUFFICES ASSUME D = {} PROVE FALSE
      OBVIOUS
    <3>1. Cardinality(D) = 0 /\ Cardinality(C \ {x}) \in Nat
      BY <1>2, FS_EmptySet
    <3> QED BY <1>2, <2>2, <3>1
  <2>4. PICK y \in D : TRUE
    BY <2>3
  <2>5. Cardinality(D \ {y}) = Cardinality(D) - 1
    BY <1>1, <2>4, FS_RemoveElement
  <2>6. Cardinality(C \ {x}) <= Cardinality(D \ {y})
    BY <1>1, <1>2, <2>2, <2>5
  <2>7. SumOf(v, C \ {x}) <= SumOf(v, D \ {y})
    BY <1>4, <2>1, <2>6
  <2>8. SumOf(v, C) = v[x] + SumOf(v, C \ {x}) /\ v[x] \in Int
    BY <1>2, <2>1, SumRemove DEF IntsOn
  <2>9. SumOf(v, D) = v[y] + SumOf(v, D \ {y}) /\ v[y] \in Int
    BY <1>1, <2>4, SumRemove DEF IntsOn
  <2>10. v[x] <= v[y]
    BY <2>1, <2>4
  <2>11. SumOf(v, C \ {x}) \in Int /\ SumOf(v, D \ {y}) \in Int
    BY <1>1, <1>2
  <2> QED BY <2>7, <2>8, <2>9, <2>10, <2>11
<1>5. \A C \in SUBSET A : C \in G
  <2> HIDE DEF G
  <2> QED BY <1>3, <1>4, FiniteInduct
<1> QED BY <1>5

-----------------------------------------------------------------------------
(* Largest and smallest elements *)

\* Among finitely many integers one is the largest: the one with the least set
\* of larger ones.
LEMMA HasTop ==
    ASSUME NEW D, IsFiniteSet(D), D # {}, NEW v \in [D -> Int]
    PROVE  \E x \in D : \A y \in D : v[x] >= v[y]
<1> DEFINE Above(x) == {y \in D : v[y] > v[x]}
           T == {Above(x) : x \in D}
<1>1. T \subseteq FiniteSubsetsOf(D) /\ T # {}
  <2>1. \A x \in D : Above(x) \subseteq D /\ IsFiniteSet(Above(x))
    <3> TAKE x \in D
    <3>1. Above(x) \subseteq D
      OBVIOUS
    <3> QED BY <3>1, FS_Subset
  <2>2. \A x \in D : Above(x) \in FiniteSubsetsOf(D)
    BY <2>1 DEF FiniteSubsetsOf
  <2> HIDE DEF Above
  <2> QED BY <2>2
<1>2. PICK m \in T : \A k \in T : <<k, m>> \notin StrictSubsetOrdering(D)
  BY <1>1, WFMin, FS_StrictSubsetOrderingWellFounded, Zenon
<1>3. PICK x \in D : m = Above(x)
  OBVIOUS
<1>4. \A y \in D : v[x] >= v[y]
  <2> SUFFICES ASSUME NEW y \in D, v[y] > v[x] PROVE FALSE
    OBVIOUS
  <2>1. Above(y) \subseteq Above(x)
    <3>1. SUFFICES ASSUME NEW z \in D, v[z] > v[y] PROVE v[z] > v[x]
      OBVIOUS
    <3>2. v[x] \in Int /\ v[y] \in Int /\ v[z] \in Int
      OBVIOUS
    <3> QED BY <3>1, <3>2
  <2>2. y \in Above(x) /\ y \notin Above(y)
    OBVIOUS
  <2>3. Above(y) \in T /\ Above(x) \subseteq D
    OBVIOUS
  <2> HIDE DEF Above
  <2>4. <<Above(y), m>> \in StrictSubsetOrdering(D)
    BY <1>3, <2>1, <2>2, <2>3 DEF StrictSubsetOrdering
  <2> QED BY <1>2, <2>3, <2>4
<1> QED BY <1>4

\* The maximum and the minimum of what a function takes on a finite set.
LEMMA ImageMax ==
    ASSUME NEW D, IsFiniteSet(D), D # {}, NEW v \in [D -> Int]
    PROVE  LET S == {v[x] : x \in D}
           IN  Max(S) \in S /\ \A x \in D : Max(S) >= v[x]
<1>1. PICK x \in D : \A y \in D : v[x] >= v[y]
  BY HasTop
<1> QED BY <1>1 DEF Max

\* The smallest of the images, likewise.
LEMMA ImageMin ==
    ASSUME NEW D, IsFiniteSet(D), D # {}, NEW v \in [D -> Int]
    PROVE  LET S == {v[x] : x \in D}
           IN  Min(S) \in S /\ \A x \in D : Min(S) <= v[x]
<1> DEFINE w == [x \in D |-> -v[x]]
<1>1. w \in [D -> Int]
  OBVIOUS
<1>2. PICK x \in D : \A y \in D : w[x] >= w[y]
  BY <1>1, HasTop
<1>3. \A y \in D : v[x] <= v[y]
  BY <1>2
<1> QED BY <1>3 DEF Min

\* A finite set of integers has a largest element, and Max is that element.
LEMMA HasMax ==
    ASSUME NEW S, IsFiniteSet(S), S \subseteq Int, S # {}
    PROVE  Max(S) \in S
<1> DEFINE v == [x \in S |-> x]
<1>1. v \in [S -> Int] /\ S = {v[x] : x \in S}
  OBVIOUS
<1> HIDE DEF v
<1>2. Max({v[x] : x \in S}) \in {v[x] : x \in S}
  BY <1>1, ImageMax
<1> QED BY <1>1, <1>2

\* The smaller of two.
LEMMA MinOfTwo ==
    ASSUME NEW a \in Int, NEW b \in Int
    PROVE  Min({a, b}) = IF a <= b THEN a ELSE b
  BY DEF Min

-----------------------------------------------------------------------------
(* Frames *)

\* A step from frame f to frame g: a bar more, which moves the others d places
\* to the front, or the newest bar as it forms.
Steps(f, g, B, d) == \E b \in B :
    \/ d = 0 /\ g = Append(f, b)
    \/ d = 1 /\ g = Append(Tail(f), b)
    \/ /\ d = 0 /\ g = [f EXCEPT ![Len(f)] = b]
       /\ f[Len(f)].hi <= b.hi /\ b.lo <= f[Len(f)].lo

\* All bars but the newest one are found d places earlier, and the newest one
\* there has widened at most.
Carries(f, g, d) ==
    /\ d \in {0, 1} /\ Len(f) \in Nat \ {0} /\ Len(g) \in Nat /\ Len(f) <= Len(g)
    /\ DOMAIN f = 1 .. Len(f) /\ DOMAIN g = 1 .. Len(g)
    /\ \A j \in 1 .. Len(f) - 1 : j > d => g[j - d] = f[j]
    /\ Len(f) > d => \/ g[Len(f) - d] = f[Len(f)]
                     \/ /\ f[Len(f)].hi <= g[Len(f) - d].hi
                        /\ g[Len(f) - d].lo <= f[Len(f)].lo

\* What a step does to a frame, for any kind of bars.
LEMMA StepFacts ==
    ASSUME NEW B, NEW f \in Seq(B), f # << >>, NEW g, NEW d, Steps(f, g, B, d)
    PROVE  g \in Seq(B) /\ g # << >> /\ Carries(f, g, d)
<1>1. Len(f) \in Nat \ {0} /\ DOMAIN f = 1 .. Len(f)
  OBVIOUS
<1>2. PICK b \in B :
        \/ d = 0 /\ g = Append(f, b)
        \/ d = 1 /\ g = Append(Tail(f), b)
        \/ /\ d = 0 /\ g = [f EXCEPT ![Len(f)] = b]
           /\ f[Len(f)].hi <= b.hi /\ b.lo <= f[Len(f)].lo
  BY DEF Steps
<1>3. CASE d = 0 /\ g = Append(f, b)
  <2>1. /\ g \in Seq(B) /\ g # << >> /\ Len(g) = Len(f) + 1 /\ DOMAIN g = 1 .. Len(g)
        /\ \A j \in 1 .. Len(f) : g[j] = f[j]
    BY <1>3
  <2>2. /\ \A j \in 1 .. Len(f) - 1 : j > d => g[j - d] = f[j]
        /\ g[Len(f) - d] = f[Len(f)]
    <3>1. /\ \A j \in 1 .. Len(f) - 1 : j > 0 => g[j - 0] = f[j]
          /\ g[Len(f) - 0] = f[Len(f)]
      BY <1>1, <2>1
    <3> QED BY <1>3, <3>1, Zenon
  <2>3. Len(g) \in Nat /\ Len(f) <= Len(g)
    BY <1>1, <2>1
  <2> QED BY <1>1, <1>3, <2>1, <2>2, <2>3 DEF Carries
<1>4. CASE d = 1 /\ g = Append(Tail(f), b)
  <2>1. Tail(f) \in Seq(B) /\ Len(Tail(f)) = Len(f) - 1
    OBVIOUS
  <2>2. /\ g \in Seq(B) /\ g # << >> /\ Len(g) = Len(f) /\ DOMAIN g = 1 .. Len(g)
        /\ \A j \in 1 .. Len(f) : j > 1 => g[j - 1] = f[j]
    BY <1>1, <1>4, <2>1
  <2>3. /\ \A j \in 1 .. Len(f) - 1 : j > d => g[j - d] = f[j]
        /\ Len(f) > d => g[Len(f) - d] = f[Len(f)]
    <3>1. /\ \A j \in 1 .. Len(f) - 1 : j > 1 => g[j - 1] = f[j]
          /\ Len(f) > 1 => g[Len(f) - 1] = f[Len(f)]
      BY <1>1, <2>2
    <3> QED BY <1>4, <3>1, Zenon
  <2>4. Len(g) \in Nat /\ Len(f) <= Len(g)
    BY <1>1, <2>2
  <2> QED BY <1>1, <1>4, <2>2, <2>3, <2>4 DEF Carries
<1>5. CASE /\ d = 0 /\ g = [f EXCEPT ![Len(f)] = b]
           /\ f[Len(f)].hi <= b.hi /\ b.lo <= f[Len(f)].lo
  <2>1. g \in [1 .. Len(f) -> B] /\ g[Len(f)] = b
    BY <1>1, <1>5
  <2>2. g \in Seq(B) /\ Len(g) = Len(f) /\ g # << >>
    BY <1>1, <2>1
  <2>3. \A j \in 1 .. Len(f) - 1 : j > d => g[j - d] = f[j]
    <3>1. \A j \in 1 .. Len(f) - 1 : j > 0 => g[j - 0] = f[j]
      <4>1. \A n \in Nat : \A j \in 1 .. n - 1 : j - 0 = j /\ j \in 1 .. n /\ j # n
        OBVIOUS
      <4>2. \A j \in 1 .. Len(f) - 1 : j - 0 = j /\ j \in 1 .. Len(f) /\ j # Len(f)
        BY <1>1, <4>1
      <4>3. \A j \in 1 .. Len(f) - 1 : g[j] = f[j]
        BY <1>1, <1>5, <4>2
      <4> QED BY <4>2, <4>3
    <3> QED BY <1>5, <3>1, Zenon
  <2>4. Len(f) - d = Len(f) /\ Len(g) \in Nat /\ Len(f) <= Len(g) /\ DOMAIN g = 1 .. Len(g)
    <3>1. Len(f) - 0 = Len(f)
      BY <1>1
    <3>2. Len(f) - d = Len(f)
      BY <1>5, <3>1, Zenon
    <3> QED BY <1>1, <2>1, <2>2, <3>2
  <2>5. /\ f[Len(f)].hi <= g[Len(f) - d].hi
        /\ g[Len(f) - d].lo <= f[Len(f)].lo
    BY <1>5, <2>1, <2>4
  <2> QED BY <1>1, <1>5, <2>2, <2>3, <2>4, <2>5 DEF Carries
<1> QED BY <1>2, <1>3, <1>4, <1>5

\* The frame is a sequence of bars and never empty.
FrameInv == frame \in Seq(Bars) /\ frame # << >>

\* A step of the frame is one of these, and Moved says how far the bars go.
LEMMA FrameSteps ==
    ASSUME FrameInv, Next
    PROVE  \E d \in {0, 1} : /\ Steps(frame, frame', Bars, d)
                             /\ \A i \in Int : Moved(i) = i - d
                             /\ d = 1 => Slide
<1>1. CASE Slide
  BY <1>1 DEF Slide, Steps, Moved
<1>2. CASE ~Slide /\ NewBar
  BY <1>2 DEF NewBar, Steps, Moved
<1>3. CASE ~Slide /\ Tick
  <2>1. PICK c \in Bars : /\ Forms(frame[Len(frame)], c)
                        /\ frame' = [frame EXCEPT ![Len(frame)] = c]
    BY <1>3 DEF Tick
  <2>2. Steps(frame, frame', Bars, 0)
    BY <2>1 DEF Forms, Steps
  <2>3. \A i \in Int : Moved(i) = i - 0
    BY <1>3 DEF Moved
  <2> QED BY <2>2, <2>3
<1> QED BY <1>1, <1>2, <1>3 DEF Next

(* Every frame the engine is handed is a non-empty sequence of bars.       *)
THEOREM FrameInvHolds == Spec => []FrameInv
<1>1. Init => FrameInv
  BY DEF Init, FrameInv
<1>2. FrameInv /\ [Next]_frame => FrameInv'
  <2> SUFFICES ASSUME FrameInv, [Next]_frame PROVE FrameInv'
    OBVIOUS
  <2>1. CASE Next
    BY <2>1, FrameSteps, StepFacts DEF FrameInv
  <2>2. CASE UNCHANGED frame
    BY <2>2 DEF FrameInv
  <2> QED BY <2>1, <2>2
<1> QED BY <1>1, <1>2, PTL DEF Spec

-----------------------------------------------------------------------------
(* Structure *)

\* A bar that has Window closed bars after it looks at the same bars in both.
LEMMA SameSwing ==
    ASSUME NEW f, NEW g, NEW d, Carries(f, g, d),
           NEW i \in Window + 1 + d .. Len(f) - 1 - Window
    PROVE  /\ i \in Swings(f) <=> i - d \in Swings(g)
           /\ Kind(g, i - d) = Kind(f, i)
           /\ Price(g, i - d) = Price(f, i)
<1>1. /\ i \in Int /\ d \in {0, 1} /\ Window \in Nat \ {0}
      /\ Len(f) \in Nat \ {0} /\ Len(g) \in Nat /\ Len(f) <= Len(g)
      /\ DOMAIN f = 1 .. Len(f) /\ DOMAIN g = 1 .. Len(g)
  BY WindowAssumption DEF Carries
<1>2. /\ Around(f, i) = i - Window .. i + Window
      /\ Around(g, i - d) = i - d - Window .. i - d + Window
  BY <1>1 DEF Around
<1>3. \A j \in i - Window .. i + Window :
        g[j - d] = f[j] /\ j - d \in i - d - Window .. i - d + Window
  BY <1>1 DEF Carries
<1>4. \A k \in i - d - Window .. i - d + Window :
        k + d \in i - Window .. i + Window /\ g[k] = f[k + d] /\ (k < i - d <=> k + d < i)
  <2> TAKE k \in i - d - Window .. i - d + Window
  <2>1. /\ k + d \in i - Window .. i + Window /\ (k + d) - d = k
        /\ (k < i - d <=> k + d < i)
    BY <1>1
  <2> QED BY <1>3, <2>1
<1>5. g[i - d] = f[i]
  <2>1. i \in i - Window .. i + Window
    BY <1>1
  <2> QED BY <1>3, <2>1
<1>6. SwingHigh(g, i - d) <=> SwingHigh(f, i)
  <2>1. ASSUME SwingHigh(f, i) PROVE SwingHigh(g, i - d)
    BY <1>2, <1>4, <1>5, <2>1 DEF SwingHigh
  <2>2. ASSUME SwingHigh(g, i - d) PROVE SwingHigh(f, i)
    <3>1. \A j \in i - Window .. i + Window : j - d < i - d <=> j < i
      BY <1>1
    <3> QED BY <1>2, <1>3, <1>5, <2>2, <3>1 DEF SwingHigh
  <2> QED BY <2>1, <2>2
<1>7. SwingLow(g, i - d) <=> SwingLow(f, i)
  <2>1. ASSUME SwingLow(f, i) PROVE SwingLow(g, i - d)
    BY <1>2, <1>4, <1>5, <2>1 DEF SwingLow
  <2>2. ASSUME SwingLow(g, i - d) PROVE SwingLow(f, i)
    <3>1. \A j \in i - Window .. i + Window : j - d < i - d <=> j < i
      BY <1>1
    <3> QED BY <1>2, <1>3, <1>5, <2>2, <3>1 DEF SwingLow
  <2> QED BY <2>1, <2>2
<1>8. Kind(g, i - d) = Kind(f, i)
  BY <1>6 DEF Kind
<1>9. Price(g, i - d) = Price(f, i)
  BY <1>5, <1>8 DEF Price
<1>10. i \in Window + 1 .. Len(f) - Window /\ i - d \in Window + 1 .. Len(g) - Window
  BY <1>1
<1> QED BY <1>6, <1>7, <1>8, <1>9, <1>10 DEF Swings

\* What a label looks back at moves along, but for a swing that left.
LEMMA SamePrevious ==
    ASSUME NEW f, NEW g, NEW d, Carries(f, g, d), NEW i \in Int,
           i - d > Window, i <= Len(f) - 1 - Window
    PROVE  /\ \A j \in Previous(g, i - d) :
                /\ j \in Int /\ j > Window
                /\ j + d \in Previous(f, i) /\ Price(g, j) = Price(f, j + d)
           /\ \A j \in Previous(f, i) :
                j \in Int /\ (j - d > Window => j - d \in Previous(g, i - d))
<1>1. /\ d \in {0, 1} /\ Window \in Nat \ {0} /\ Len(f) \in Nat /\ Len(g) \in Nat
  BY WindowAssumption DEF Carries
<1>2. Kind(g, i - d) = Kind(f, i)
  <2>1. i \in Window + 1 + d .. Len(f) - 1 - Window
    BY <1>1
  <2> QED BY <2>1, SameSwing
<1>3. ASSUME NEW j \in Previous(g, i - d)
      PROVE  /\ j \in Int /\ j > Window
             /\ j + d \in Previous(f, i) /\ Price(g, j) = Price(f, j + d)
  <2>1. /\ j \in Swings(g) /\ Kind(g, j) = Kind(g, i - d) /\ j < i - d
        /\ j \in Int /\ j > Window
    BY <1>1, <1>3 DEF Previous, OfKind, Swings
  <2>2. j + d \in Window + 1 + d .. Len(f) - 1 - Window /\ (j + d) - d = j /\ j + d < i
    BY <1>1, <2>1
  <2>3. /\ j + d \in Swings(f) <=> j \in Swings(g)
        /\ Kind(g, j) = Kind(f, j + d) /\ Price(g, j) = Price(f, j + d)
    BY <2>2, SameSwing
  <2> QED BY <1>2, <2>1, <2>2, <2>3 DEF Previous, OfKind
<1>4. ASSUME NEW j \in Previous(f, i)
      PROVE  j \in Int /\ (j - d > Window => j - d \in Previous(g, i - d))
  <2>1. j \in Swings(f) /\ Kind(f, j) = Kind(f, i) /\ j < i /\ j \in Int
    BY <1>1, <1>4 DEF Previous, OfKind, Swings
  <2>2. ASSUME j - d > Window PROVE j - d \in Previous(g, i - d)
    <3>1. j \in Window + 1 + d .. Len(f) - 1 - Window /\ j - d < i - d
      BY <1>1, <2>1, <2>2
    <3>2. (j \in Swings(f) <=> j - d \in Swings(g)) /\ Kind(g, j - d) = Kind(f, j)
      BY <3>1, SameSwing
    <3> QED BY <1>2, <2>1, <3>1, <3>2 DEF Previous, OfKind
  <2> QED BY <2>1, <2>2
<1> QED BY <1>3, <1>4

\* The swings before a bar have a last one.
LEMMA LastPrevious ==
    ASSUME NEW f, Len(f) \in Nat, NEW i, Previous(f, i) # {}
    PROVE  /\ Max(Previous(f, i)) \in Previous(f, i)
           /\ \A j \in Previous(f, i) : j <= Max(Previous(f, i))
<1> DEFINE P == Previous(f, i)
           v == [x \in P |-> x]
<1>1. P \subseteq Window + 1 .. Len(f) - Window
  BY DEF Previous, OfKind, Swings
<1>2. IsFiniteSet(P) /\ P \subseteq Int
  <2>1. Window \in Int
    BY WindowAssumption
  <2>2. IsFiniteSet(Window + 1 .. Len(f) - Window)
    BY <2>1, FS_Interval
  <2> QED BY <1>1, <2>1, <2>2, FS_Subset
<1>3. v \in [P -> Int] /\ P = {v[x] : x \in P} /\ \A x \in P : v[x] = x
  BY <1>2
<1> HIDE DEF P, v
<1>4. LET S == {v[x] : x \in P} IN Max(S) \in S /\ \A x \in P : Max(S) >= v[x]
  <2>1. P # {}
    BY DEF P
  <2> QED BY <1>2, <1>3, <2>1, ImageMax
<1>5. Max(P) \in P /\ \A x \in P : Max(P) >= x
  BY <1>3, <1>4
<1>6. \A x \in P : x <= Max(P)
  BY <1>2, <1>5
<1> QED BY <1>5, <1>6 DEF P

\* A label looks back only: it stays, or what it was compared with left.
LEMMA SameLabel ==
    ASSUME NEW f, NEW g, NEW d, Carries(f, g, d), NEW i \in Int,
           i - d > Window, i <= Len(f) - 1 - Window
    PROVE  \/ Label(g, i - d) = Label(f, i)
           \/ d = 1 /\ Label(g, i - d) = "first"
<1> DEFINE P == Previous(f, i)
           Q == Previous(g, i - d)
<1>1. /\ d \in {0, 1} /\ Window \in Nat \ {0} /\ Len(f) \in Nat /\ Len(g) \in Nat
      /\ i \in Window + 1 + d .. Len(f) - 1 - Window
  BY WindowAssumption DEF Carries
<1>2. Kind(g, i - d) = Kind(f, i) /\ Price(g, i - d) = Price(f, i)
  BY <1>1, SameSwing
<1>3. /\ \A j \in Q : /\ j \in Int /\ j > Window
                      /\ j + d \in P /\ Price(g, j) = Price(f, j + d)
      /\ \A j \in P : j \in Int /\ (j - d > Window => j - d \in Q)
  BY SamePrevious
<1> HIDE DEF P, Q
<1>4. CASE Q = {}
  <2>1. Label(g, i - d) = "first"
    BY <1>4 DEF Label, Q
  <2>2. CASE d = 1
    BY <2>1, <2>2
  <2>3. CASE d = 0
    <3>1. \A j \in P : j > Window
      BY <1>1 DEF P, Previous, OfKind, Swings
    <3>2. P = {}
      BY <1>1, <1>3, <1>4, <2>3, <3>1
    <3> QED BY <2>1, <3>2 DEF Label, P
  <2> QED BY <1>1, <2>2, <2>3
<1>5. CASE Q # {}
  <2>1. PICK m : m = Max(Q)
    OBVIOUS
  <2>2. m \in Q /\ \A j \in Q : j <= m
    BY <1>1, <1>5, <2>1, LastPrevious DEF Q
  <2>3. m \in Int /\ m > Window /\ m + d \in P /\ Price(g, m) = Price(f, m + d)
    BY <1>3, <2>2
  <2>4. PICK n : n = Max(P)
    OBVIOUS
  <2>5. n \in P /\ (\A j \in P : j <= n) /\ n \in Int
    BY <1>1, <1>3, <2>3, <2>4, LastPrevious DEF P
  <2>6. n <= m + d
    <3>1. CASE n - d > Window
      <4>1. n - d \in Q
        BY <1>3, <2>5, <3>1
      <4>2. n - d <= m
        BY <2>2, <4>1
      <4> QED BY <1>1, <2>3, <2>5, <4>2
    <3>2. CASE ~(n - d > Window)
      BY <1>1, <2>3, <2>5, <3>2
    <3> QED BY <3>1, <3>2
  <2>7. n = m + d
    <3>1. m + d <= n
      BY <2>3, <2>5
    <3> QED BY <1>1, <2>3, <2>5, <2>6, <3>1
  <2>8. Price(f, Max(P)) = Price(g, Max(Q))
    BY <2>1, <2>3, <2>4, <2>7
  <2>9. Rising(g, i - d) <=> Rising(f, i)
    BY <1>2, <2>8 DEF Rising, P, Q
  <2>10. P # {}
    BY <2>5
  <2> QED BY <1>2, <1>5, <2>9, <2>10 DEF Label, P, Q
<1> QED BY <1>4, <1>5

(* For every market, window and length of frame, live or in a backtest: a  *)
(* settled swing stays where it is with its kind, its price and its label  *)
(* (or becomes a first one), and none turns up between the settled ones.   *)
THEOREM NoRepaintHolds == Spec => NoRepaint
<1>1. ASSUME FrameInv, Next
      PROVE  /\ \A i \in Settled(frame) : Moved(i) > Window =>
                  /\ Moved(i) \in Swings(frame')
                  /\ Kind(frame', Moved(i)) = Kind(frame, i)
                  /\ Price(frame', Moved(i)) = Price(frame, i)
                  /\ \/ Label(frame', Moved(i)) = Label(frame, i)
                     \/ Slide /\ Label(frame', Moved(i)) = "first"
             /\ \A j \in Swings(frame') : j < Moved(Len(frame) - Window) =>
                  \E i \in Settled(frame) : j = Moved(i)
  <2>1. PICK d \in {0, 1} : /\ Steps(frame, frame', Bars, d)
                            /\ \A i \in Int : Moved(i) = i - d
                            /\ d = 1 => Slide
    BY <1>1, FrameSteps
  <2>2. Carries(frame, frame', d)
    BY <1>1, <2>1, StepFacts DEF FrameInv
  <2>3. /\ Window \in Nat \ {0} /\ Len(frame) \in Nat /\ Len(frame') \in Nat
    BY <2>2, WindowAssumption DEF Carries
  <2>4. ASSUME NEW i \in Settled(frame), Moved(i) > Window
        PROVE  /\ Moved(i) \in Swings(frame')
               /\ Kind(frame', Moved(i)) = Kind(frame, i)
               /\ Price(frame', Moved(i)) = Price(frame, i)
               /\ \/ Label(frame', Moved(i)) = Label(frame, i)
                  \/ Slide /\ Label(frame', Moved(i)) = "first"
    <3>1. i \in Int /\ i \in Swings(frame) /\ i <= Len(frame) - 1 - Window
      BY <2>3 DEF Settled, Swings
    <3>2. Moved(i) = i - d /\ i - d > Window
      BY <2>1, <2>4, <3>1
    <3>3. i \in Window + 1 + d .. Len(frame) - 1 - Window
      BY <2>3, <3>1, <3>2
    <3>4. /\ i - d \in Swings(frame') /\ Kind(frame', i - d) = Kind(frame, i)
          /\ Price(frame', i - d) = Price(frame, i)
      BY <2>2, <3>1, <3>3, SameSwing
    <3>5. \/ Label(frame', i - d) = Label(frame, i)
          \/ d = 1 /\ Label(frame', i - d) = "first"
      BY <2>2, <3>1, <3>2, SameLabel
    <3> QED BY <2>1, <3>2, <3>4, <3>5
  <2>5. ASSUME NEW j \in Swings(frame'), j < Moved(Len(frame) - Window)
        PROVE  \E i \in Settled(frame) : j = Moved(i)
    <3>1. j \in Int /\ j > Window
      BY <2>3 DEF Swings
    <3>2. PICK i, n : i = j + d /\ n = Len(frame) - Window
      OBVIOUS
    <3>3. i \in Int /\ n \in Int /\ i - d = j
      BY <2>3, <3>1, <3>2
    <3>4. Moved(i) = i - d /\ Moved(n) = n - d
      BY <2>1, <3>3
    <3>5. j < n - d
      BY <2>5, <3>2, <3>4
    <3>6. i \in Window + 1 + d .. Len(frame) - 1 - Window /\ i # Len(frame) - Window
      BY <2>3, <3>1, <3>2, <3>3, <3>5
    <3>7. i \in Swings(frame)
      BY <2>2, <3>3, <3>6, SameSwing
    <3>8. i \in Settled(frame) /\ j = Moved(i)
      BY <3>3, <3>4, <3>6, <3>7 DEF Settled
    <3> QED BY <3>8
  <2> QED BY <2>4, <2>5
<1>2. FrameInv /\ [Next]_frame => [
        /\ \A i \in Settled(frame) : Moved(i) > Window =>
             /\ Moved(i) \in Swings(frame')
             /\ Kind(frame', Moved(i)) = Kind(frame, i)
             /\ Price(frame', Moved(i)) = Price(frame, i)
             /\ \/ Label(frame', Moved(i)) = Label(frame, i)
                \/ Slide /\ Label(frame', Moved(i)) = "first"
        /\ \A j \in Swings(frame') : j < Moved(Len(frame) - Window) =>
             \E i \in Settled(frame) : j = Moved(i)]_frame
  BY <1>1
<1> QED BY <1>2, FrameInvHolds, PTL DEF Spec, NoRepaint

-----------------------------------------------------------------------------
(* The ICT context *)

\* The ends of the dealing range are prices.
LEMMA RangeIsInt ==
    ASSUME FrameInv
    PROVE  RangeHigh(frame) \in Int /\ RangeLow(frame) \in Int /\ Close(frame) \in Int
<1>1. /\ Len(frame) \in Nat \ {0} /\ DOMAIN frame = 1 .. Len(frame)
      /\ \A i \in DOMAIN frame : frame[i] \in Bars
  BY DEF FrameInv
<1>2. \A i \in DOMAIN frame :
        frame[i].hi \in Int /\ frame[i].lo \in Int /\ frame[i].close \in Int
  BY <1>1, BarsAssumption
<1>3. IsFiniteSet(DOMAIN frame) /\ DOMAIN frame # {} /\ Len(frame) \in DOMAIN frame
  <2>1. IsFiniteSet(1 .. Len(frame))
    BY <1>1, FS_Interval
  <2>2. Len(frame) \in 1 .. Len(frame)
    BY <1>1
  <2> QED BY <1>1, <2>1, <2>2
<1>4. \A k \in {"high", "low"} :
        /\ OfKind(frame, k) \subseteq DOMAIN frame
        /\ IsFiniteSet(OfKind(frame, k))
        /\ \A i \in OfKind(frame, k) : Price(frame, i) \in Int
  <2> SUFFICES ASSUME NEW k \in {"high", "low"}
               PROVE  /\ OfKind(frame, k) \subseteq DOMAIN frame
                      /\ IsFiniteSet(OfKind(frame, k))
                      /\ \A i \in OfKind(frame, k) : Price(frame, i) \in Int
    OBVIOUS
  <2>1. OfKind(frame, k) \subseteq DOMAIN frame
    BY <1>1, WindowAssumption DEF OfKind, Swings
  <2>2. IsFiniteSet(OfKind(frame, k))
    BY <1>3, <2>1, FS_Subset
  <2> QED BY <1>2, <2>1, <2>2 DEF Price
<1>5. RangeHigh(frame) \in Int
  <2>1. CASE OfKind(frame, "high") # {}
    <3> DEFINE D == OfKind(frame, "high")
               v == [i \in D |-> Price(frame, i)]
    <3>1. v \in [D -> Int] /\ Pivots(frame, "high") = {v[i] : i \in D}
          /\ IsFiniteSet(D) /\ D # {}
      BY <1>4, <2>1 DEF Pivots
    <3> HIDE DEF v, D
    <3>2. Max({v[i] : i \in D}) \in {v[i] : i \in D}
      BY <3>1, ImageMax
    <3> QED BY <2>1, <3>1, <3>2 DEF RangeHigh
  <2>2. CASE OfKind(frame, "high") = {}
    <3> DEFINE D == DOMAIN frame
               v == [i \in D |-> frame[i].hi]
    <3>1. v \in [D -> Int] /\ {frame[i].hi : i \in DOMAIN frame} = {v[i] : i \in D}
          /\ IsFiniteSet(D) /\ D # {}
      BY <1>2, <1>3
    <3> HIDE DEF v, D
    <3>2. Max({v[i] : i \in D}) \in {v[i] : i \in D}
      BY <3>1, ImageMax
    <3> QED BY <2>2, <3>1, <3>2 DEF RangeHigh
  <2> QED BY <2>1, <2>2
<1>6. RangeLow(frame) \in Int
  <2>1. CASE OfKind(frame, "low") # {}
    <3> DEFINE D == OfKind(frame, "low")
               v == [i \in D |-> Price(frame, i)]
    <3>1. v \in [D -> Int] /\ Pivots(frame, "low") = {v[i] : i \in D}
          /\ IsFiniteSet(D) /\ D # {}
      BY <1>4, <2>1 DEF Pivots
    <3> HIDE DEF v, D
    <3>2. Min({v[i] : i \in D}) \in {v[i] : i \in D}
      BY <3>1, ImageMin
    <3> QED BY <2>1, <3>1, <3>2 DEF RangeLow
  <2>2. CASE OfKind(frame, "low") = {}
    <3> DEFINE D == DOMAIN frame
               v == [i \in D |-> frame[i].lo]
    <3>1. v \in [D -> Int] /\ {frame[i].lo : i \in DOMAIN frame} = {v[i] : i \in D}
          /\ IsFiniteSet(D) /\ D # {}
      BY <1>2, <1>3
    <3> HIDE DEF v, D
    <3>2. Min({v[i] : i \in D}) \in {v[i] : i \in D}
      BY <3>1, ImageMin
    <3> QED BY <2>2, <3>1, <3>2 DEF RangeLow
  <2> QED BY <2>1, <2>2
<1>7. Close(frame) \in Int
  BY <1>2, <1>3 DEF Close
<1> QED BY <1>5, <1>6, <1>7

(* For every market and setting: while the highest pivot is above the      *)
(* lowest one, an optimal entry of the trend lies in the half that the     *)
(* location gate wants for it and scores 72 or more.                       *)
THEOREM OteInTextbookHalfHolds == Spec => []OteInTextbookHalf
<1>1. ASSUME FrameInv PROVE OteInTextbookHalf
  <2> DEFINE high == RangeHigh(frame)
             low == RangeLow(frame)
             last == Close(frame)
  <2>1. high \in Int /\ low \in Int /\ last \in Int
    BY <1>1, RangeIsInt
  <2> SUFFICES ASSUME Ote(frame), high > low
               PROVE  /\ Textbook(frame, Half(frame))
                      /\ \A h \in {5, 8} : Score(frame, h) >= 72
    BY DEF OteInTextbookHalf
  <2>2. Textbook(frame, Half(frame))
    <3>1. Between(100 * Retraced(frame, high, low), 62 * (high - low), 79 * (high - low))
      BY DEF Ote
    <3> DEFINE half == IF 20 * last - 10 * (high + low) > high - low THEN "Premium"
                       ELSE IF 20 * last - 10 * (high + low) < low - high THEN "Discount"
                       ELSE "Equilibrium"
    <3>2. Half(frame) = half
      BY DEF Half
    <3>3. CASE Bullish(frame)
      <4>1. 100 * (high - last) >= 62 * (high - low)
        BY <2>1, <3>1, <3>3 DEF Between, Retraced
      <4>2. half = "Discount"
        BY <2>1, <4>1
      <4> QED BY <3>2, <3>3, <4>2 DEF Textbook
    <3>4. CASE ~Bullish(frame)
      <4>1. 100 * (last - low) >= 62 * (high - low)
        BY <2>1, <3>1, <3>4 DEF Between, Retraced
      <4>2. half = "Premium"
        BY <2>1, <4>1
      <4> QED BY <3>2, <3>4, <4>2 DEF Textbook
    <3> QED BY <3>3, <3>4
  <2>3. ASSUME NEW h \in {5, 8} PROVE Score(frame, h) >= 72
    BY <2>2 DEF Score
  <2> QED BY <2>2, <2>3
<1> QED BY <1>1, FrameInvHolds, PTL

-----------------------------------------------------------------------------
(* Fair value gaps *)

\* The instance's own copies of Max and Min.
LEMMA SameExtremes == \A S : Gap!Max(S) = Max(S) /\ Gap!Min(S) = Min(S)
  BY DEF Gap!Max, Gap!Min, Max, Min

GapFrame(f) == f \in Seq(GapBars) /\ f # << >>

\* A gap and its edges are settled by three candles; the candles after it are
\* integers that have a lowest low and a highest high.
LEMMA GapFacts ==
    ASSUME NEW f, GapFrame(f), NEW i \in 2 .. Len(f) - 1
    PROVE  /\ i \in Int /\ Len(f) \in Nat
           /\ Gap!GapLow(f, i) \in Int /\ Gap!GapHigh(f, i) \in Int
           /\ f[i].body \in Int
           /\ Gap!IsBullish(f, i) =>
                /\ Gap!Deepest(f, i) \in {f[j].lo : j \in Gap!After(f, i)}
                /\ \A j \in Gap!After(f, i) : Gap!Deepest(f, i) <= f[j].lo
           /\ ~Gap!IsBullish(f, i) =>
                /\ Gap!Deepest(f, i) \in {f[j].hi : j \in Gap!After(f, i)}
                /\ \A j \in Gap!After(f, i) : Gap!Deepest(f, i) >= f[j].hi
           /\ Gap!Deepest(f, i) \in Int
<1>1. i \in Int /\ Len(f) \in Nat /\ \A j \in 1 .. Len(f) : f[j] \in GapBars
  BY DEF GapFrame
<1>2. \A j \in 1 .. Len(f) : f[j].lo \in Int /\ f[j].hi \in Int /\ f[j].body \in Int
  BY <1>1, AnalysisAssumption DEF Gap!BarsAssumption
<1>3. Gap!GapLow(f, i) \in Int /\ Gap!GapHigh(f, i) \in Int
  <2>1. i - 1 \in 1 .. Len(f) /\ i + 1 \in 1 .. Len(f)
    BY <1>1
  <2> QED BY <1>2, <2>1 DEF Gap!GapLow, Gap!GapHigh
<1>4. /\ IsFiniteSet(Gap!After(f, i)) /\ Gap!After(f, i) # {}
      /\ Gap!After(f, i) \subseteq 1 .. Len(f)
  <2>1. IsFiniteSet(i + 1 .. Len(f))
    BY <1>1, FS_Interval
  <2> QED BY <1>1, <2>1 DEF Gap!After
<1> DEFINE D == Gap!After(f, i)
           lows == [j \in D |-> f[j].lo]
           highs == [j \in D |-> f[j].hi]
<1>5. lows \in [D -> Int] /\ highs \in [D -> Int]
  BY <1>2, <1>4
<1>6. CASE Gap!IsBullish(f, i)
  <2>1. Gap!Deepest(f, i) = Min({f[j].lo : j \in D})
    BY <1>6, SameExtremes DEF Gap!Deepest
  <2>2. /\ {f[j].lo : j \in D} = {lows[j] : j \in D}
        /\ \A k \in D : lows[k] = f[k].lo
    OBVIOUS
  <2> HIDE DEF lows, D
  <2>3. /\ Min({lows[j] : j \in D}) \in {lows[j] : j \in D}
        /\ \A k \in D : Min({lows[j] : j \in D}) <= lows[k]
    BY <1>4, <1>5, ImageMin DEF D
  <2>4. /\ Gap!Deepest(f, i) \in {f[j].lo : j \in D}
        /\ \A j \in D : Gap!Deepest(f, i) <= f[j].lo
    BY <2>1, <2>2, <2>3
  <2> QED BY <1>1, <1>2, <1>3, <1>4, <1>6, <2>4 DEF D
<1>7. CASE ~Gap!IsBullish(f, i)
  <2>1. Gap!Deepest(f, i) = Max({f[j].hi : j \in D})
    BY <1>7, SameExtremes DEF Gap!Deepest
  <2>2. /\ {f[j].hi : j \in D} = {highs[j] : j \in D}
        /\ \A k \in D : highs[k] = f[k].hi
    OBVIOUS
  <2> HIDE DEF highs, D
  <2>3. /\ Max({highs[j] : j \in D}) \in {highs[j] : j \in D}
        /\ \A k \in D : Max({highs[j] : j \in D}) >= highs[k]
    BY <1>4, <1>5, ImageMax DEF D
  <2>4. /\ Gap!Deepest(f, i) \in {f[j].hi : j \in D}
        /\ \A j \in D : Gap!Deepest(f, i) >= f[j].hi
    BY <2>1, <2>2, <2>3
  <2> QED BY <1>1, <1>2, <1>3, <1>4, <1>7, <2>4 DEF D
<1> QED BY <1>6, <1>7

\* Three closed candles settle a gap and its edges; what comes after them only
\* deepens the retracement, so it only adds to the fill.
LEMMA GapOnlyFills ==
    ASSUME NEW f, NEW g, NEW d, GapFrame(f), GapFrame(g), Carries(f, g, d),
           NEW i \in 2 .. Len(f) - 2, i - d > 1
    PROVE  /\ Gap!IsBullish(g, i - d) = Gap!IsBullish(f, i)
           /\ Gap!GapLow(g, i - d) = Gap!GapLow(f, i)
           /\ Gap!GapHigh(g, i - d) = Gap!GapHigh(f, i)
           /\ Gap!Fill(g, i - d) >= Gap!Fill(f, i)
           /\ Gap!Filled(f, i) => Gap!Filled(g, i - d)
<1>1. /\ i \in Int /\ d \in {0, 1} /\ Len(f) \in Nat /\ Len(g) \in Nat /\ Len(f) <= Len(g)
      /\ i \in 2 .. Len(f) - 1 /\ i - d \in 2 .. Len(g) - 1
  BY DEF Carries
<1>2. /\ Gap!GapLow(f, i) \in Int /\ Gap!GapHigh(f, i) \in Int
      /\ Gap!Deepest(f, i) \in Int /\ Gap!Deepest(g, i - d) \in Int
  BY <1>1, GapFacts
<1>3. g[i - d - 1] = f[i - 1] /\ g[i - d] = f[i] /\ g[i - d + 1] = f[i + 1]
  <2>1. \A j \in {i - 1, i, i + 1} : g[j - d] = f[j]
    BY <1>1 DEF Carries
  <2>2. (i - 1) - d = i - d - 1 /\ (i + 1) - d = i - d + 1
    BY <1>1
  <2> QED BY <2>1, <2>2
<1>4. /\ Gap!IsBullish(g, i - d) = Gap!IsBullish(f, i)
      /\ Gap!GapLow(g, i - d) = Gap!GapLow(f, i)
      /\ Gap!GapHigh(g, i - d) = Gap!GapHigh(f, i)
      /\ Gap!Size(g, i - d) = Gap!Size(f, i)
  BY <1>3 DEF Gap!IsBullish, Gap!GapLow, Gap!GapHigh, Gap!Size
<1>5. \A j \in Gap!After(f, i) : /\ j - d \in Gap!After(g, i - d)
                                 /\ f[j].lo \in Int /\ f[j].hi \in Int
                                 /\ g[j - d].lo \in Int /\ g[j - d].hi \in Int
                                 /\ g[j - d].lo <= f[j].lo /\ f[j].hi <= g[j - d].hi
  <2> TAKE j \in Gap!After(f, i)
  <2>1. /\ j \in Int /\ j \in 1 .. Len(f) /\ j > d /\ j - d \in 1 .. Len(g)
        /\ j - d \in Gap!After(g, i - d)
    BY <1>1 DEF Gap!After
  <2>2. f[j] \in GapBars /\ g[j - d] \in GapBars
    BY <2>1 DEF GapFrame
  <2>3. f[j].lo \in Int /\ f[j].hi \in Int /\ g[j - d].lo \in Int /\ g[j - d].hi \in Int
    BY <2>2, AnalysisAssumption DEF Gap!BarsAssumption
  <2>4. CASE j < Len(f)
    <3>1. g[j - d] = f[j]
      BY <1>1, <2>1, <2>4 DEF Carries
    <3> QED BY <2>1, <2>3, <3>1
  <2>5. CASE j = Len(f)
    <3>1. \/ g[j - d] = f[j]
          \/ f[j].hi <= g[j - d].hi /\ g[j - d].lo <= f[j].lo
      BY <2>1, <2>5 DEF Carries
    <3> QED BY <2>1, <2>3, <3>1
  <2> QED BY <1>1, <2>1, <2>4, <2>5
<1>6. Gap!Size(f, i) \in Int
  BY <1>2 DEF Gap!Size
<1> DEFINE Reach(x) == IF Gap!IsBullish(f, i) THEN Gap!GapHigh(f, i) - x
                       ELSE x - Gap!GapLow(f, i)
           a == Reach(Gap!Deepest(f, i))
           b == Reach(Gap!Deepest(g, i - d))
<1>7. a \in Int /\ b \in Int /\ a <= b
  <2>1. CASE Gap!IsBullish(f, i)
    <3>1. PICK j \in Gap!After(f, i) : Gap!Deepest(f, i) = f[j].lo
      BY <1>1, <2>1, GapFacts
    <3>2. \A k \in Gap!After(g, i - d) : Gap!Deepest(g, i - d) <= g[k].lo
      BY <1>1, <1>4, <2>1, GapFacts
    <3>3. Gap!Deepest(g, i - d) <= Gap!Deepest(f, i)
      BY <1>2, <1>5, <3>1, <3>2
    <3> QED BY <1>2, <2>1, <3>3
  <2>2. CASE ~Gap!IsBullish(f, i)
    <3>1. PICK j \in Gap!After(f, i) : Gap!Deepest(f, i) = f[j].hi
      BY <1>1, <2>2, GapFacts
    <3>2. \A k \in Gap!After(g, i - d) : Gap!Deepest(g, i - d) >= g[k].hi
      BY <1>1, <1>4, <2>2, GapFacts
    <3>3. Gap!Deepest(g, i - d) >= Gap!Deepest(f, i)
      BY <1>2, <1>5, <3>1, <3>2
    <3> QED BY <1>2, <2>2, <3>3
  <2> QED BY <2>1, <2>2
<1>8. /\ Gap!Fill(f, i) = Min({Gap!Size(f, i), a})
      /\ Gap!Fill(g, i - d) = Min({Gap!Size(f, i), b})
  BY <1>4, SameExtremes DEF Gap!Fill
<1> HIDE DEF a, b
<1>9. /\ Gap!Fill(f, i) \in Int /\ Gap!Fill(g, i - d) \in Int
      /\ Gap!Fill(f, i) <= Gap!Fill(g, i - d)
  BY <1>6, <1>7, <1>8, MinOfTwo
<1>10. Gap!Filled(f, i) => Gap!Filled(g, i - d)
  BY <1>4, <1>6, <1>9 DEF Gap!Filled
<1> QED BY <1>4, <1>9, <1>10

\* A step of the gaps' frame, and how far its bars go.
LEMMA GapFrameSteps ==
    ASSUME GapFrame(gapFrame), Gap!Next
    PROVE  \E d \in {0, 1} : /\ Steps(gapFrame, gapFrame', GapBars, d)
                             /\ \A i \in Int : Gap!Moved(i) = i - d
<1>1. CASE Gap!Slide
  BY <1>1 DEF Gap!Slide, Steps, Gap!Moved
<1>2. CASE ~Gap!Slide /\ Gap!NewBar
  BY <1>2 DEF Gap!NewBar, Steps, Gap!Moved
<1>3. CASE ~Gap!Slide /\ Gap!Tick
  <2>1. PICK c \in GapBars : /\ Gap!Forms(gapFrame[Len(gapFrame)], c)
                        /\ gapFrame' = [gapFrame EXCEPT ![Len(gapFrame)] = c]
    BY <1>3 DEF Gap!Tick
  <2>2. Steps(gapFrame, gapFrame', GapBars, 0)
    BY <2>1 DEF Gap!Forms, Steps
  <2>3. \A i \in Int : Gap!Moved(i) = i - 0
    BY <1>3 DEF Gap!Moved
  <2> QED BY <2>2, <2>3
<1> QED BY <1>1, <1>2, <1>3 DEF Gap!Next

\* The frame of the gaps is a non-empty sequence of bars.
LEMMA GapFrameHolds == Gap!Spec => []GapFrame(gapFrame)
<1>1. Gap!Init => GapFrame(gapFrame)
  BY DEF Gap!Init, GapFrame
<1>2. GapFrame(gapFrame) /\ [Gap!Next]_gapFrame => GapFrame(gapFrame)'
  <2> SUFFICES ASSUME GapFrame(gapFrame), [Gap!Next]_gapFrame PROVE GapFrame(gapFrame)'
    OBVIOUS
  <2>1. CASE Gap!Next
    BY <2>1, GapFrameSteps, StepFacts DEF GapFrame
  <2>2. CASE UNCHANGED gapFrame
    BY <2>2 DEF GapFrame
  <2> QED BY <2>1, <2>2
<1> QED BY <1>1, <1>2, PTL DEF Gap!Spec

(* For every market and setting, live or in a backtest: a gap between      *)
(* closed candles keeps its side and its edges, its fill never shrinks,    *)
(* and once it is filled no ATR ever makes it an active zone again.        *)
THEOREM FilledGapStaysFilledHolds == Gap!Spec => FilledGapStaysFilled
<1>1. ASSUME GapFrame(gapFrame), Gap!Next,
             NEW i \in Gap!Formed(gapFrame), Gap!Moved(i) > 1
      PROVE  /\ Gap!IsBullish(gapFrame', Gap!Moved(i)) = Gap!IsBullish(gapFrame, i)
             /\ Gap!GapLow(gapFrame', Gap!Moved(i)) = Gap!GapLow(gapFrame, i)
             /\ Gap!GapHigh(gapFrame', Gap!Moved(i)) = Gap!GapHigh(gapFrame, i)
             /\ Gap!Fill(gapFrame', Gap!Moved(i)) >= Gap!Fill(gapFrame, i)
             /\ Gap!Filled(gapFrame, i) => Gap!Moved(i) \notin Gap!Active(gapFrame')
  <2>1. PICK d \in {0, 1} : /\ Steps(gapFrame, gapFrame', GapBars, d)
                            /\ \A k \in Int : Gap!Moved(k) = k - d
    BY <1>1, GapFrameSteps
  <2>2. Carries(gapFrame, gapFrame', d) /\ GapFrame(gapFrame')
    BY <1>1, <2>1, StepFacts DEF GapFrame
  <2>3. i \in 2 .. Len(gapFrame) - 2 /\ i \in Int
    BY <2>2 DEF Gap!Formed, Carries
  <2>4. Gap!Moved(i) = i - d /\ i - d > 1
    BY <1>1, <2>1, <2>3
  <2>5. /\ Gap!IsBullish(gapFrame', i - d) = Gap!IsBullish(gapFrame, i)
        /\ Gap!GapLow(gapFrame', i - d) = Gap!GapLow(gapFrame, i)
        /\ Gap!GapHigh(gapFrame', i - d) = Gap!GapHigh(gapFrame, i)
        /\ Gap!Fill(gapFrame', i - d) >= Gap!Fill(gapFrame, i)
        /\ Gap!Filled(gapFrame, i) => Gap!Filled(gapFrame', i - d)
    BY <1>1, <2>2, <2>3, <2>4, GapOnlyFills
  <2> QED BY <2>4, <2>5 DEF Gap!Active
<1>2. GapFrame(gapFrame) /\ [Gap!Next]_gapFrame => [
        \A i \in Gap!Formed(gapFrame) : Gap!Moved(i) > 1 =>
          /\ Gap!IsBullish(gapFrame', Gap!Moved(i)) = Gap!IsBullish(gapFrame, i)
          /\ Gap!GapLow(gapFrame', Gap!Moved(i)) = Gap!GapLow(gapFrame, i)
          /\ Gap!GapHigh(gapFrame', Gap!Moved(i)) = Gap!GapHigh(gapFrame, i)
          /\ Gap!Fill(gapFrame', Gap!Moved(i)) >= Gap!Fill(gapFrame, i)
          /\ Gap!Filled(gapFrame, i) => Gap!Moved(i) \notin Gap!Active(gapFrame')]_gapFrame
  BY <1>1
<1> QED BY <1>2, GapFrameHolds, PTL
           DEF Gap!Spec, FilledGapStaysFilled, Gap!FilledGapStaysFilled

-----------------------------------------------------------------------------
(* Traps *)

\* The instance's sum of the volumes is the sum of a function.
LEMMA VolumeSum ==
    ASSUME NEW f, NEW S
    PROVE  Trap!MapThenSumSet(LAMBDA j : f[j].vol, S) = SumOf([j \in S |-> f[j].vol], S)
<1> DEFINE v == [j \in S |-> f[j].vol]
           P(g) == g = [s \in SUBSET S |->
                        IF s = {} THEN 0 ELSE f[AnyOf(s)].vol + g[s \ {AnyOf(s)}]]
           Q(g) == g = [s \in SUBSET S |->
                        IF s = {} THEN 0 ELSE v[AnyOf(s)] + g[s \ {AnyOf(s)}]]
<1>1. \A s \in SUBSET S : s # {} => v[AnyOf(s)] = f[AnyOf(s)].vol
  BY DEF AnyOf
<1>2. \A g : P(g) <=> Q(g)
  BY <1>1
<1>3. (CHOOSE g : P(g)) = (CHOOSE g : Q(g))
  <2> HIDE DEF P, Q
  <2> QED BY <1>2
<1>4. Trap!MapThenSumSet(LAMBDA j : f[j].vol, S) = (CHOOSE g : P(g))[S]
  BY DEF Trap!MapThenSumSet, Trap!MapThenFoldSet, AnyOf
<1>5. SumOf(v, S) = (CHOOSE g : Q(g))[S]
  BY DEF SumOf, SumFun
<1> QED BY <1>3, <1>4, <1>5

TrapFrame(f) == f \in Seq(TapeBars) /\ f # << >>

\* The bars before a closed one move along with it, and so does their mean
\* volume.
LEMMA PriorMoves ==
    ASSUME NEW f, NEW g, NEW d, TrapFrame(f), TrapFrame(g), Carries(f, g, d),
           NEW i \in Trap!Checked(f), i < Len(f)
    PROVE  /\ g[i - d] = f[i]
           /\ Trap!PriorHigh(g, i - d) = Trap!PriorHigh(f, i)
           /\ Trap!PriorLow(g, i - d) = Trap!PriorLow(f, i)
           /\ Trap!WeakVolume(g, i - d) <=> Trap!WeakVolume(f, i)
<1> DEFINE S == Trap!Prior(f, i)
           T == Trap!Prior(g, i - d)
<1>1. Lookback \in Nat \ {0} /\ RecentBars \in Nat \ {0}
  BY AnalysisAssumption DEF Trap!TrapAssumption
<1>2. /\ i \in Int /\ i < Len(f) /\ Lookback + 2 < i /\ Len(f) \in Nat
      /\ d \in {0, 1} /\ Len(g) \in Nat /\ Len(f) <= Len(g)
  BY <1>1 DEF Trap!Checked, Carries
<1>3. g[i - d] = f[i]
  BY <1>1, <1>2 DEF Carries
<1>4. \A j \in S : /\ j \in 1 .. Len(f) /\ j - d \in 1 .. Len(g) /\ j \in Int
                   /\ g[j - d] = f[j] /\ j - d \in T
  BY <1>1, <1>2 DEF Carries, Trap!Prior
<1>5. \A k \in T : k + d \in S /\ k = (k + d) - d
  BY <1>1, <1>2 DEF Trap!Prior
<1>6. /\ {g[k].hi : k \in T} = {f[j].hi : j \in S}
      /\ {g[k].lo : k \in T} = {f[j].lo : j \in S}
  <2> HIDE DEF S, T
  <2>1. \A k \in T : k + d \in S /\ g[k] = f[k + d]
    BY <1>4, <1>5
  <2> QED BY <1>4, <2>1
<1>7. /\ IsFiniteSet(S) /\ T = {j - d : j \in S}
  <2>1. IsFiniteSet(S)
    BY <1>1, <1>2, FS_Interval DEF Trap!Prior
  <2> HIDE DEF S, T
  <2> QED BY <1>4, <1>5, <2>1
<1>8. \A j \in S : f[j].vol \in Int
  <2>1. \A j \in 1 .. Len(f) : f[j] \in TapeBars
    BY DEF TrapFrame
  <2> QED BY <1>4, <2>1, AnalysisAssumption DEF Trap!TrapAssumption
<1>9. SumOf([k \in T |-> g[k].vol], T) = SumOf([j \in S |-> f[j].vol], S)
  <2> DEFINE v == [j \in S |-> f[j].vol]
             w == [k \in T |-> g[k].vol]
             p == [j \in S |-> j - d]
  <2>1. IntsOn(v, S)
    BY <1>8 DEF IntsOn
  <2>2. \A x, y \in S : p[x] = p[y] => x = y
    <3>1. \A x \in S : p[x] = x - d /\ x \in Int /\ d \in Int
      BY <1>2, <1>4
    <3> HIDE DEF p, S
    <3> QED BY <3>1
  <2>3. \A x \in S : w[p[x]] = v[x]
    <3> SUFFICES ASSUME NEW x \in S PROVE w[p[x]] = v[x]
      OBVIOUS
    <3>1. p[x] = x - d /\ v[x] = f[x].vol
      OBVIOUS
    <3>2. x - d \in T /\ g[x - d] = f[x]
      BY <1>4
    <3>3. w[x - d] = g[x - d].vol
      BY <3>2
    <3> HIDE DEF p, v, w, S, T
    <3> QED BY <3>1, <3>2, <3>3
  <2>4. T = {p[x] : x \in S}
    <3>1. \A x \in S : p[x] = x - d
      OBVIOUS
    <3> HIDE DEF p, S, T
    <3> QED BY <1>7, <3>1
  <2>5. SumOf(w, {p[x] : x \in S}) = SumOf(v, S)
    <3> HIDE DEF v, w, p, S, T
    <3> QED BY <1>7, <2>1, <2>2, <2>3, SumRenamed
  <2>6. SumOf(w, T) = SumOf(v, S)
    <3> HIDE DEF v, w, p, S, T
    <3> QED BY <2>4, <2>5
  <2> QED BY <2>6
<1>10. /\ Trap!MapThenSumSet(LAMBDA j : f[j].vol, S) = SumOf([j \in S |-> f[j].vol], S)
       /\ Trap!MapThenSumSet(LAMBDA j : g[j].vol, T) = SumOf([k \in T |-> g[k].vol], T)
  BY VolumeSum
<1>11. Trap!WeakVolume(g, i - d) <=> Trap!WeakVolume(f, i)
  BY <1>3, <1>9, <1>10 DEF Trap!WeakVolume
<1> QED BY <1>3, <1>6, <1>11 DEF Trap!PriorHigh, Trap!PriorLow

\* As long as it is recent, a closed bar keeps what was found about it.
LEMMA VerdictMoves ==
    ASSUME NEW f, NEW g, NEW d, TrapFrame(f), TrapFrame(g), Carries(f, g, d),
           NEW i \in Trap!Checked(f), i < Len(f), i - d \in Trap!Checked(g)
    PROVE  /\ i \in Trap!BullTraps(f) <=> i - d \in Trap!BullTraps(g)
           /\ i \in Trap!BearTraps(f) <=> i - d \in Trap!BearTraps(g)
  BY PriorMoves DEF Trap!BullTraps, Trap!BearTraps, Trap!BullTrapAt, Trap!BearTrapAt

\* A step of the tape, and how far its bars go.
LEMMA TapeSteps ==
    ASSUME TrapFrame(tape), Trap!Next
    PROVE  \E d \in {0, 1} : /\ Steps(tape, tape', TapeBars, d)
                             /\ \A i \in Int : Trap!Moved(i) = i - d
<1>1. CASE Trap!Slide
  BY <1>1 DEF Trap!Slide, Steps, Trap!Moved
<1>2. CASE ~Trap!Slide /\ Trap!NewBar
  BY <1>2 DEF Trap!NewBar, Steps, Trap!Moved
<1>3. CASE ~Trap!Slide /\ Trap!Tick
  <2>1. PICK c \in TapeBars : /\ Trap!Forms(tape[Len(tape)], c)
                        /\ tape' = [tape EXCEPT ![Len(tape)] = c]
    BY <1>3 DEF Trap!Tick
  <2>2. Steps(tape, tape', TapeBars, 0)
    BY <2>1 DEF Trap!Forms, Steps
  <2>3. \A i \in Int : Trap!Moved(i) = i - 0
    BY <1>3 DEF Trap!Moved
  <2> QED BY <2>2, <2>3
<1> QED BY <1>1, <1>2, <1>3 DEF Trap!Next

(* Every tape the engine is handed is a non-empty sequence of bars.        *)
LEMMA TrapFrameHolds == Trap!Spec => []TrapFrame(tape)
<1>1. Trap!Init => TrapFrame(tape)
  BY DEF Trap!Init, TrapFrame
<1>2. TrapFrame(tape) /\ [Trap!Next]_tape => TrapFrame(tape)'
  <2> SUFFICES ASSUME TrapFrame(tape), [Trap!Next]_tape PROVE TrapFrame(tape)'
    OBVIOUS
  <2>1. CASE Trap!Next
    BY <2>1, TapeSteps, StepFacts DEF TrapFrame
  <2>2. CASE UNCHANGED tape
    BY <2>2 DEF TrapFrame
  <2> QED BY <2>1, <2>2
<1> QED BY <1>1, <1>2, PTL DEF Trap!Spec

(* For every market and every length of the windows: the verdict on a      *)
(* closed bar is final as long as the bar is recent; the forming bar, more *)
(* bars and a sliding frame do not change it.                              *)
THEOREM TrapVerdictStandsHolds == Trap!Spec => TrapVerdictStands
<1>1. ASSUME TrapFrame(tape), Trap!Next,
             NEW i \in Trap!Checked(tape) \cap Trap!Closed(tape),
             Trap!Moved(i) \in Trap!Checked(tape')
      PROVE  /\ i \in Trap!BullTraps(tape) <=> Trap!Moved(i) \in Trap!BullTraps(tape')
             /\ i \in Trap!BearTraps(tape) <=> Trap!Moved(i) \in Trap!BearTraps(tape')
  <2>1. PICK d \in {0, 1} : /\ Steps(tape, tape', TapeBars, d)
                            /\ \A k \in Int : Trap!Moved(k) = k - d
    BY <1>1, TapeSteps
  <2>2. Carries(tape, tape', d) /\ TrapFrame(tape')
    BY <1>1, <2>1, StepFacts DEF TrapFrame
  <2>3. i \in Int /\ i < Len(tape)
    BY <1>1, <2>2 DEF Trap!Closed, Carries
  <2>4. Trap!Moved(i) = i - d
    BY <2>1, <2>3
  <2> QED BY <1>1, <2>2, <2>3, <2>4, VerdictMoves
<1>2. TrapFrame(tape) /\ [Trap!Next]_tape =>
        [\A i \in Trap!Checked(tape) \cap Trap!Closed(tape) :
           Trap!Moved(i) \in Trap!Checked(tape') =>
             /\ i \in Trap!BullTraps(tape) <=> Trap!Moved(i) \in Trap!BullTraps(tape')
             /\ i \in Trap!BearTraps(tape) <=> Trap!Moved(i) \in Trap!BearTraps(tape')]_tape
  BY <1>1
<1> QED BY <1>2, TrapFrameHolds, PTL DEF Trap!Spec, TrapVerdictStands, Trap!TrapVerdictStands

-----------------------------------------------------------------------------
(* Pools of liquidity *)

\* The prices that were touched, and those a chain of neighbours within t
\* tenths of a tick leads to, of one kind of swings.
Touched(a) == {p \in Prices : a[p] > 0}
Chained(P, t, p, q) == \A x \in Pool!Between(p, q) \cap P :
    \E y \in P : x < y /\ 10 * Pool!Abs(x - y) <= t
Chain(P, t, p) == {q \in P : Chained(P, t, p, q)}

\* A finite set of integers has a largest and a smallest element.
LEMMA Ends ==
    ASSUME NEW D, IsFiniteSet(D), D # {}, D \subseteq Int
    PROVE  /\ \E z \in D : \A y \in D : y <= z
           /\ \E z \in D : \A y \in D : z <= y
<1> DEFINE v == [z \in D |-> z]
           w == [z \in D |-> -z]
<1>1. v \in [D -> Int] /\ w \in [D -> Int] /\ \A y \in D : v[y] = y /\ w[y] = -y
  OBVIOUS
<1> HIDE DEF v, w
<1>2. PICK z \in D : \A y \in D : v[z] >= v[y]
  BY <1>1, HasTop
<1>3. PICK m \in D : \A y \in D : w[m] >= w[y]
  BY <1>1, HasTop
<1>4. \A y \in D : y <= z
  BY <1>1, <1>2
<1>5. \A y \in D : m <= y
  BY <1>1, <1>3
<1> QED BY <1>4, <1>5

\* Among prices that a chain keeps, no price in between and no larger tolerance
\* breaks it: a price between two links is nearer to the upper one.
LEMMA ChainsPersist ==
    ASSUME NEW P \in SUBSET Prices, IsFiniteSet(P), NEW Q \in SUBSET Prices,
           NEW t \in Int, NEW u \in Int, t <= u, NEW p \in P, Chain(P, t, p) \subseteq Q
    PROVE  Chain(P, t, p) \subseteq Chain(Q, u, p)
<1> USE DEF Pool!Between
<1> DEFINE G == Chain(P, t, p)
<1> SUFFICES ASSUME NEW q \in G, NEW x \in Pool!Between(p, q) \cap Q
             PROVE  \E y \in Q : x < y /\ 10 * Pool!Abs(x - y) <= u
  BY DEF Chain, Chained
<1>1. /\ Prices \subseteq Int /\ x \in Int /\ p \in Int /\ q \in Int /\ q \in P
      /\ Chained(P, t, p, q)
  BY AnalysisAssumption DEF Pool!PricesAssumption, Chain
<1>2. p \in G /\ q \in G
  BY <1>1 DEF Chain, Chained
<1>3. PICK lo \in {p, q}, hi \in {p, q} : /\ lo <= x /\ x < hi /\ lo \in Int /\ hi \in Int
                                          /\ (lo = p /\ hi = q) \/ (lo = q /\ hi = p)
  BY <1>1
<1> DEFINE D == {z \in G : lo <= z /\ z <= x}
<1>4. G \subseteq P /\ G \subseteq Int /\ IsFiniteSet(G)
  <2>1. G \subseteq P
    BY DEF Chain
  <2> QED BY <1>1, <2>1, FS_Subset
<1>5. PICK z \in D : \A y \in D : y <= z
  <2>1. lo \in D
    BY <1>2, <1>3
  <2>2. IsFiniteSet(D) /\ D \subseteq Int
    BY <1>4, FS_Subset
  <2> HIDE DEF D
  <2> QED BY <2>1, <2>2, Ends
<1>6. z \in G /\ z \in P /\ z \in Int /\ lo <= z /\ z <= x
  BY <1>4, <1>5
<1>7. z \in Pool!Between(p, q)
  BY <1>1, <1>3, <1>6
<1>8. PICK y \in P : z < y /\ 10 * Pool!Abs(z - y) <= t
  BY <1>1, <1>6, <1>7 DEF Chained
<1> DEFINE E == {s \in P : z < s}
<1>9. PICK n \in E : \A s \in E : n <= s
  <2>1. y \in E
    BY <1>8
  <2>2. IsFiniteSet(E) /\ E \subseteq Int
    BY <1>1, FS_Subset
  <2> HIDE DEF E
  <2> QED BY <2>1, <2>2, Ends
<1>10. /\ n \in P /\ n \in Int /\ y \in Int /\ z < n /\ n <= y /\ n <= hi
  <2>1. y \in E /\ hi \in E
    BY <1>1, <1>3, <1>6, <1>8
  <2> QED BY <1>1, <1>9, <2>1
<1>11. n \in G
  <2>1. ASSUME NEW s \in Pool!Between(p, n) PROVE s \in Pool!Between(p, q)
    <3>1. s \in Int /\ s \in Prices /\ ((p <= s /\ s < n) \/ (n <= s /\ s < p))
      BY <1>1
    <3>2. (p <= s /\ s < q) \/ (q <= s /\ s < p)
      <4>1. CASE lo = p /\ hi = q
        BY <1>1, <1>6, <1>10, <3>1, <4>1
      <4>2. CASE lo = q /\ hi = p
        BY <1>1, <1>6, <1>10, <3>1, <4>2
      <4> QED BY <1>3, <4>1, <4>2
    <3> QED BY <3>1, <3>2
  <2>2. Chained(P, t, p, n)
    BY <1>1, <2>1 DEF Chained
  <2> QED BY <1>10, <2>2 DEF Chain
<1>12. x < n
  <2> SUFFICES ASSUME n <= x PROVE FALSE
    BY <1>1, <1>10
  <2>1. n \in D
    BY <1>3, <1>6, <1>10, <1>11
  <2> QED BY <1>5, <1>6, <1>10, <2>1
<1>13. 10 * Pool!Abs(x - n) <= u
  <2>1. 10 * (y - z) <= t
    BY <1>6, <1>8, <1>10 DEF Pool!Abs
  <2>2. 10 * (n - x) <= u
    BY <1>1, <1>6, <1>10, <2>1
  <2> QED BY <1>1, <1>10, <1>12, <2>2 DEF Pool!Abs
<1> QED BY <1>11, <1>12, <1>13

SwingsInv == /\ swings \in [Pool!Kinds -> [Prices -> Nat]]
             /\ \A k \in Pool!Kinds : IsFiniteSet(Touched(swings[k]))
             /\ bar \in LastBars

\* A swing more or less changes the count of one price.
LEMMA TouchedOnce ==
    ASSUME NEW a \in [Prices -> Nat], IsFiniteSet(Touched(a)), NEW n \in Prices, NEW b,
           \/ b = [a EXCEPT ![n] = @ + 1]
           \/ a[n] > 0 /\ b = [a EXCEPT ![n] = @ - 1]
    PROVE  b \in [Prices -> Nat] /\ IsFiniteSet(Touched(b))
<1>1. b \in [Prices -> Nat] /\ Touched(b) \subseteq Touched(a) \cup {n}
  <2>1. CASE b = [a EXCEPT ![n] = @ + 1]
    BY <2>1 DEF Touched
  <2>2. CASE a[n] > 0 /\ b = [a EXCEPT ![n] = @ - 1]
    BY <2>2 DEF Touched
  <2> QED BY <2>1, <2>2
<1>2. IsFiniteSet(Touched(a) \cup {n})
  BY FS_AddElement
<1> QED BY <1>1, <1>2, FS_Subset

(* The swings are counts per price and finitely many prices were touched.  *)
LEMMA SwingsInvHolds == Pool!Spec => []SwingsInv
<1>1. Pool!Init => SwingsInv
  <2> SUFFICES ASSUME Pool!Init PROVE SwingsInv
    OBVIOUS
  <2>1. swings = [j \in Pool!Kinds |-> [p \in Prices |-> 0]] /\ bar \in LastBars
    BY DEF Pool!Init
  <2>2. swings \in [Pool!Kinds -> [Prices -> Nat]]
    <3>1. [p \in Prices |-> 0] \in [Prices -> Nat]
      OBVIOUS
    <3> QED BY <2>1, <3>1
  <2>3. ASSUME NEW k \in Pool!Kinds PROVE IsFiniteSet(Touched(swings[k]))
    <3>1. Touched(swings[k]) = {}
      BY <2>1 DEF Touched
    <3> QED BY <3>1, FS_EmptySet
  <2> QED BY <2>1, <2>2, <2>3 DEF SwingsInv
<1>2. SwingsInv /\ [Pool!Next]_(Pool!vars) => SwingsInv'
  <2> SUFFICES ASSUME SwingsInv, [Pool!Next]_(Pool!vars) PROVE SwingsInv'
    OBVIOUS
  <2>1. CASE UNCHANGED swings /\ bar' \in LastBars
    BY <2>1 DEF SwingsInv, Touched
  <2>2. ASSUME NEW k \in Pool!Kinds, Pool!NewSwing(k) \/ Pool!SwingLeaves(k)
        PROVE  SwingsInv'
    <3>1. PICK n \in Prices : \/ swings' = [swings EXCEPT ![k][n] = @ + 1]
                              \/ /\ swings[k][n] > 0
                                 /\ swings' = [swings EXCEPT ![k][n] = @ - 1]
      BY <2>2 DEF Pool!NewSwing, Pool!SwingLeaves, Pool!Points
    <3>2. swings[k] \in [Prices -> Nat] /\ IsFiniteSet(Touched(swings[k]))
      BY DEF SwingsInv
    <3>3. /\ \A j \in Pool!Kinds : j # k => swings'[j] = swings[j]
          /\ \/ swings'[k] = [swings[k] EXCEPT ![n] = @ + 1]
             \/ swings[k][n] > 0 /\ swings'[k] = [swings[k] EXCEPT ![n] = @ - 1]
          /\ DOMAIN swings' = Pool!Kinds /\ swings' = [j \in Pool!Kinds |-> swings'[j]]
      BY <3>1 DEF SwingsInv
    <3>4. swings'[k] \in [Prices -> Nat] /\ IsFiniteSet(Touched(swings'[k]))
      BY <3>2, <3>3, TouchedOnce
    <3>5. \A j \in Pool!Kinds :
            swings'[j] \in [Prices -> Nat] /\ IsFiniteSet(Touched(swings'[j]))
      BY <3>3, <3>4 DEF SwingsInv
    <3>6. swings' \in [Pool!Kinds -> [Prices -> Nat]]
      BY <3>3, <3>5
    <3>7. \A j \in Pool!Kinds : IsFiniteSet(Touched(swings[j]))'
      BY <3>5 DEF Touched
    <3>8. bar' \in LastBars
      BY <2>2 DEF Pool!NewSwing, Pool!SwingLeaves, SwingsInv
    <3> QED BY <3>6, <3>7, <3>8 DEF SwingsInv, Pool!Kinds
  <2>3. CASE Pool!NewBar \/ UNCHANGED Pool!vars
    BY <2>1, <2>3 DEF Pool!NewBar, Pool!vars, SwingsInv
  <2> QED BY <2>2, <2>3 DEF Pool!Next
<1> QED BY <1>1, <1>2, PTL DEF Pool!Spec

\* The modules' operators on the swings of a kind, as they are in any state.
LEMMA PoolTerms ==
    /\ \A k \in Pool!Kinds : Pool!Points(k) = Touched(swings[k])
    /\ \A k \in Pool!Kinds : Pool!Groups(k) =
         {Chain(Pool!Points(k), Tolerance * bar.atr, p) : p \in Pool!Points(k)}
    /\ \A k \in Pool!Kinds : \A G : Pool!Touches(k, G) = SumOf(swings[k], G)
<1>1. \A k \in Pool!Kinds : Pool!Points(k) = Touched(swings[k])
  BY DEF Pool!Points, Touched
<1>2. \A k \in Pool!Kinds : Pool!Groups(k) =
        {Chain(Pool!Points(k), Tolerance * bar.atr, p) : p \in Pool!Points(k)}
  BY DEF Pool!Groups, Pool!Linked, Pool!Within, Chain, Chained
<1>3. \A k \in Pool!Kinds : \A G : Pool!Touches(k, G) = SumOf(swings[k], G)
  BY DEF Pool!Touches, Pool!MapThenSumSet, Pool!MapThenFoldSet, SumOf, SumFun, AnyOf
<1> QED BY <1>1, <1>2, <1>3

\* A chain none of whose touches is lost is part of one with at least as many.
LEMMA ChainsGrow ==
    ASSUME NEW a \in [Prices -> Nat], IsFiniteSet(Touched(a)),
           NEW b \in [Prices -> Nat], IsFiniteSet(Touched(b)),
           NEW t \in Int, NEW u \in Int, t <= u, NEW p \in Touched(a),
           \A q \in Chain(Touched(a), t, p) : b[q] >= a[q]
    PROVE  /\ p \in Touched(b)
           /\ Chain(Touched(a), t, p) \subseteq Chain(Touched(b), u, p)
           /\ SumOf(a, Chain(Touched(a), t, p)) <= SumOf(b, Chain(Touched(b), u, p))
           /\ SumOf(a, Chain(Touched(a), t, p)) \in Int
           /\ SumOf(b, Chain(Touched(b), u, p)) \in Int
<1> DEFINE G == Chain(Touched(a), t, p)
           H == Chain(Touched(b), u, p)
<1>1. \A q \in Prices : a[q] \in Int /\ b[q] \in Int /\ b[q] >= 0
  OBVIOUS
<1>2. G \subseteq Touched(a) /\ p \in G /\ G \subseteq Prices /\ p \in Prices
  <2>1. Pool!Between(p, p) = {}
    <3>1. p \in Int /\ \A x \in Prices : x \in Int
      BY AnalysisAssumption DEF Pool!PricesAssumption, Touched
    <3>2. ASSUME NEW x \in Pool!Between(p, p) PROVE FALSE
      <4>1. x \in Int /\ p <= x /\ x < p
        BY <3>1 DEF Pool!Between
      <4> QED BY <3>1, <4>1
    <3> QED BY <3>2
  <2> QED BY <2>1 DEF Chain, Chained, Touched
<1>3. G \subseteq Touched(b)
  BY <1>1, <1>2 DEF Touched
<1>4. G \subseteq H
  <2>1. Touched(a) \in SUBSET Prices /\ Touched(b) \in SUBSET Prices
    BY DEF Touched
  <2> QED BY <1>3, <2>1, ChainsPersist
<1>5. IsFiniteSet(H) /\ H \subseteq Prices /\ IsFiniteSet(G)
  <2>1. H \subseteq Touched(b) /\ Touched(b) \subseteq Prices
    BY DEF Chain, Touched
  <2> QED BY <1>2, <2>1, FS_Subset
<1> HIDE DEF G, H
<1>6. IntsOn(a, G) /\ IntsOn(b, H)
  BY <1>1, <1>2, <1>5 DEF IntsOn
<1>7. SumOf(a, G) <= SumOf(b, H)
  <2>1. (\A q \in G : a[q] <= b[q]) /\ \A q \in H \ G : b[q] >= 0
    <3>1. \A q \in G : b[q] >= a[q]
      BY DEF G
    <3> QED BY <1>1, <1>2, <1>5, <3>1
  <2> QED BY <1>4, <1>5, <1>6, <2>1, SumMono
<1>8. SumOf(a, G) \in Int /\ SumOf(b, H) \in Int
  BY <1>5, <1>6, SumRemove
<1> QED BY <1>2, <1>3, <1>4, <1>7, <1>8 DEF G, H

(* For every set of prices and tolerance: as long as no swing of its own   *)
(* leaves and the ATR does not fall, a pool stays part of a pool with at   *)
(* least as many touches.                                                  *)
THEOREM PoolsPersistHolds == Pool!Spec => PoolsPersist
<1>1. ASSUME SwingsInv, SwingsInv', NEW k \in Pool!Kinds, NEW G \in Pool!Pools(k),
             bar'.atr >= bar.atr, \A p \in G : swings'[k][p] >= swings[k][p]
      PROVE  \E H \in Pool!Pools(k)' :
               G \subseteq H /\ Pool!Touches(k, G) <= Pool!Touches(k, H)'
  <2> DEFINE a == swings[k]
             b == swings'[k]
             t == Tolerance * bar.atr
             u == Tolerance * bar'.atr
  <2>1. /\ a \in [Prices -> Nat] /\ b \in [Prices -> Nat]
        /\ IsFiniteSet(Touched(a)) /\ IsFiniteSet(Touched(b))
    BY <1>1 DEF SwingsInv, Touched
  <2>2. t \in Int /\ u \in Int /\ t <= u
    <3>1. bar.atr \in Nat /\ bar'.atr \in Nat /\ Tolerance \in Nat
      BY <1>1, AnalysisAssumption DEF SwingsInv, Pool!LastBarsAssumption, Pool!TolAssumption
    <3>2. \A n, x, y \in Nat : n * x \in Int /\ (y >= x => n * x <= n * y)
      OBVIOUS
    <3> QED BY <1>1, <3>1, <3>2
  <2>3. /\ Pool!Points(k) = Touched(a)
        /\ Pool!Groups(k) = {Chain(Touched(a), t, p) : p \in Touched(a)}
        /\ \A S : Pool!Touches(k, S) = SumOf(a, S)
    BY PoolTerms
  <2>4. /\ Pool!Groups(k)' = {Chain(Touched(b), u, p) : p \in Touched(b)}
        /\ \A S : Pool!Touches(k, S)' = SumOf(b, S)
    <3>1. Pool!Points(k)' = Touched(b)
      BY DEF Pool!Points, Touched
    <3>2. Pool!Groups(k)' = {Chain(Touched(b), u, p) : p \in Touched(b)}
      BY <3>1 DEF Pool!Groups, Pool!Linked, Pool!Within, Chain, Chained
    <3>3. \A S : Pool!Touches(k, S)' = SumOf(b, S)
      BY DEF Pool!Touches, Pool!MapThenSumSet, Pool!MapThenFoldSet, SumOf, SumFun, AnyOf
    <3> QED BY <3>2, <3>3
  <2>5. G \in Pool!Groups(k) /\ Pool!Touches(k, G) >= MinTouches
    BY DEF Pool!Pools
  <2> HIDE DEF t, u
  <2>6. PICK p \in Touched(a) : G = Chain(Touched(a), t, p)
    BY <2>3, <2>5
  <2>7. PICK H : H = Chain(Touched(b), u, p)
    OBVIOUS
  <2>8. \A q \in G : b[q] >= a[q]
    BY <1>1
  <2>9. /\ p \in Touched(b) /\ G \subseteq H /\ SumOf(a, G) <= SumOf(b, H)
        /\ SumOf(a, G) \in Int /\ SumOf(b, H) \in Int
    <3> HIDE DEF a, b
    <3> QED BY <2>1, <2>2, <2>6, <2>7, <2>8, ChainsGrow
  <2>10. H \in Pool!Groups(k)'
    BY <2>4, <2>9, <2>7
  <2>11. SumOf(b, H) >= MinTouches
    <3>1. MinTouches \in Int
      BY AnalysisAssumption DEF Pool!TolAssumption
    <3>2. SumOf(a, G) >= MinTouches
      BY <2>3, <2>5
    <3> HIDE DEF a, b
    <3> QED BY <2>9, <3>1, <3>2
  <2>12. H \in Pool!Pools(k)'
    <3>1. Pool!Touches(k, H)' >= MinTouches
      BY <2>4, <2>11
    <3>2. Pool!Pools(k)' = {S \in Pool!Groups(k)' : Pool!Touches(k, S)' >= MinTouches}
      BY DEF Pool!Pools
    <3> QED BY <2>10, <3>1, <3>2
  <2>13. Pool!Touches(k, G) <= Pool!Touches(k, H)'
    BY <2>3, <2>4, <2>9
  <2> QED BY <2>9, <2>12, <2>13
<1>2. SwingsInv /\ SwingsInv' /\ [Pool!Next]_(Pool!vars) =>
        [\A k \in Pool!Kinds : \A G \in Pool!Pools(k) :
           /\ bar'.atr >= bar.atr
           /\ \A p \in G : swings'[k][p] >= swings[k][p]
           => \E H \in Pool!Pools(k)' :
                G \subseteq H /\ Pool!Touches(k, G) <= Pool!Touches(k, H)']_(Pool!vars)
  BY <1>1
<1> QED BY <1>2, SwingsInvHolds, PTL DEF Pool!Spec, PoolsPersist, Pool!PoolsPersist

-----------------------------------------------------------------------------
(* The value area *)

\* Volumes of bars, and what a histogram holds in bins, are sums of functions.
LEMMA ProfileSums ==
    /\ \A f : \A S \in SUBSET (DOMAIN f) :
         Profile!Sum(f, Profile!Volume, S) = SumOf([j \in DOMAIN f |-> f[j].vol], S)
    /\ \A h, S : Profile!In(h, S) = SumOf(h, S)
<1>1. ASSUME NEW f, NEW S \in SUBSET (DOMAIN f)
      PROVE  Profile!Sum(f, Profile!Volume, S) = SumOf([j \in DOMAIN f |-> f[j].vol], S)
  <2> DEFINE v == [j \in DOMAIN f |-> f[j].vol]
             P(g) == g = [s \in SUBSET S |->
                          IF s = {} THEN 0 ELSE f[AnyOf(s)].vol + g[s \ {AnyOf(s)}]]
             Q(g) == g = [s \in SUBSET S |->
                          IF s = {} THEN 0 ELSE v[AnyOf(s)] + g[s \ {AnyOf(s)}]]
  <2>1. \A s \in SUBSET S : s # {} => v[AnyOf(s)] = f[AnyOf(s)].vol
    BY DEF AnyOf
  <2>2. \A g : P(g) <=> Q(g)
    BY <2>1
  <2>3. (CHOOSE g : P(g)) = (CHOOSE g : Q(g))
    <3> HIDE DEF P, Q
    <3> QED BY <2>2
  <2>4. Profile!Sum(f, Profile!Volume, S) = (CHOOSE g : P(g))[S]
    BY DEF Profile!Sum, Profile!Volume, Profile!MapThenSumSet, Profile!MapThenFoldSet, AnyOf
  <2>5. SumOf(v, S) = (CHOOSE g : Q(g))[S]
    BY DEF SumOf, SumFun
  <2> QED BY <2>3, <2>4, <2>5
<1>2. \A h, S : Profile!In(h, S) = SumOf(h, S)
  BY DEF Profile!In, Profile!MapThenSumSet, Profile!MapThenFoldSet, SumOf, SumFun, AnyOf
<1> QED BY <1>1, <1>2

\* Every bar is counted in one of the bins.
LEMMA BinIsBin ==
    ASSUME NEW t \in Int, NEW lo \in Int, NEW hi \in Int, lo <= hi
    PROVE  Profile!Bin(t, lo, hi) \in 1 .. Bins
<1>1. Bins \in Nat \ {0}
  BY AnalysisAssumption DEF Profile!ProfileAssumption
<1>2. CASE lo = hi
  BY <1>1, <1>2 DEF Profile!Bin
<1>3. CASE lo # hi
  <2> DEFINE n == 1 + (Bins * (t - 3 * lo)) \div (3 * (hi - lo))
  <2>1. n \in Int
    <3>1. Bins * (t - 3 * lo) \in Int /\ 3 * (hi - lo) \in Nat \ {0}
      BY <1>1, <1>3
    <3>2. \A a \in Int, b \in Nat \ {0} : a \div b \in Int
      OBVIOUS
    <3> HIDE DEF n
    <3> QED BY <3>1, <3>2 DEF n
  <2>2. Profile!Bin(t, lo, hi) = Profile!Max({1, Profile!Min({Bins, n})})
    BY <1>3 DEF Profile!Bin
  <2> HIDE DEF n
  <2>3. Profile!Min({Bins, n}) = IF Bins <= n THEN Bins ELSE n
    BY <1>1, <2>1 DEF Profile!Min
  <2>4. \A m \in Int : Profile!Max({1, m}) = IF m >= 1 THEN m ELSE 1
    BY DEF Profile!Max
  <2> QED BY <1>1, <2>1, <2>2, <2>3, <2>4
<1> QED BY <1>2, <1>3

\* A histogram, as far as the value area needs it.
Histogram(h) == h \in [1 .. Bins -> Nat]
LargerBins(h, n) == {m \in 1 .. Bins : Profile!Before(h, m, n)}

\* The bins are in a strict order, so larger bins have fewer larger ones.
LEMMA BinsInOrder ==
    ASSUME NEW h, Histogram(h)
    PROVE  /\ \A n \in 1 .. Bins : ~Profile!Before(h, n, n)
           /\ \A m, n \in 1 .. Bins :
                m # n => Profile!Before(h, m, n) \/ Profile!Before(h, n, m)
           /\ \A m, n, k \in 1 .. Bins :
                Profile!Before(h, m, n) /\ Profile!Before(h, n, k) => Profile!Before(h, m, k)
           /\ \A n \in 1 .. Bins : IsFiniteSet(LargerBins(h, n)) /\ Cardinality(LargerBins(h, n)) \in Nat
           /\ \A m, n \in 1 .. Bins : Profile!Before(h, m, n) =>
                Cardinality(LargerBins(h, m)) < Cardinality(LargerBins(h, n))
<1> DEFINE B == 1 .. Bins
<1>0. \A n \in B : h[n] \in Int /\ n \in Int
  BY DEF Histogram
<1>1. \A n \in B : ~Profile!Before(h, n, n)
  BY <1>0 DEF Profile!Before
<1>2. \A m, n \in B : m # n => Profile!Before(h, m, n) \/ Profile!Before(h, n, m)
  BY <1>0 DEF Profile!Before
<1>3. \A m, n, k \in B :
        Profile!Before(h, m, n) /\ Profile!Before(h, n, k) => Profile!Before(h, m, k)
  BY <1>0 DEF Profile!Before
<1>4. IsFiniteSet(B)
  BY AnalysisAssumption, FS_Interval DEF Profile!ProfileAssumption
<1> HIDE DEF B
<1>5. \A n \in B : IsFiniteSet(LargerBins(h, n)) /\ Cardinality(LargerBins(h, n)) \in Nat
  <2> SUFFICES ASSUME NEW n \in B
               PROVE  IsFiniteSet(LargerBins(h, n)) /\ Cardinality(LargerBins(h, n)) \in Nat
    OBVIOUS
  <2>1. LargerBins(h, n) \subseteq B
    BY DEF LargerBins, B
  <2> QED BY <1>4, <2>1, FS_Subset, FS_CardinalityType
<1>6. ASSUME NEW m \in B, NEW n \in B, Profile!Before(h, m, n)
      PROVE  Cardinality(LargerBins(h, m)) < Cardinality(LargerBins(h, n))
  <2>1. LargerBins(h, m) \cup {m} \subseteq LargerBins(h, n)
    BY <1>3, <1>6 DEF LargerBins, B
  <2>2. m \notin LargerBins(h, m)
    BY <1>1 DEF LargerBins, B
  <2>3. /\ IsFiniteSet(LargerBins(h, m) \cup {m})
        /\ Cardinality(LargerBins(h, m) \cup {m}) = Cardinality(LargerBins(h, m)) + 1
    BY <1>5, <2>2, FS_AddElement
  <2>4. Cardinality(LargerBins(h, m) \cup {m}) <= Cardinality(LargerBins(h, n))
    BY <1>5, <2>1, FS_Subset
  <2> QED BY <1>5, <2>3, <2>4
<1> QED BY <1>1, <1>2, <1>3, <1>5, <1>6 DEF B

\* Of some bins one is the first and one the last.
LEMMA FirstAndLast ==
    ASSUME NEW h, Histogram(h), NEW D \in SUBSET (1 .. Bins), D # {}
    PROVE  /\ \E n \in D : \A m \in D : m # n => Profile!Before(h, n, m)
           /\ \E n \in D : \A m \in D : m # n => Profile!Before(h, m, n)
<1> DEFINE up == [n \in D |-> Cardinality(LargerBins(h, n))]
           down == [n \in D |-> -Cardinality(LargerBins(h, n))]
<1>1. IsFiniteSet(D)
  <2>1. IsFiniteSet(1 .. Bins)
    BY AnalysisAssumption, FS_Interval DEF Profile!ProfileAssumption
  <2> QED BY <2>1, FS_Subset
<1>2. \A n \in D : Cardinality(LargerBins(h, n)) \in Nat /\ n \in 1 .. Bins
  BY BinsInOrder
<1>3. /\ up \in [D -> Int] /\ down \in [D -> Int]
      /\ \A n \in D : up[n] = Cardinality(LargerBins(h, n)) /\ down[n] = -Cardinality(LargerBins(h, n))
  BY <1>2
<1> HIDE DEF up, down
<1>4. \E n \in D : \A m \in D : m # n => Profile!Before(h, n, m)
  <2>1. PICK n \in D : \A m \in D : down[n] >= down[m]
    BY <1>1, <1>3, HasTop
  <2>2. \A m \in D : ~Profile!Before(h, m, n)
    <3> SUFFICES ASSUME NEW m \in D, Profile!Before(h, m, n) PROVE FALSE
      OBVIOUS
    <3>1. Cardinality(LargerBins(h, m)) < Cardinality(LargerBins(h, n))
      BY <1>2, BinsInOrder
    <3>2. -Cardinality(LargerBins(h, n)) >= -Cardinality(LargerBins(h, m))
      BY <1>3, <2>1
    <3> QED BY <1>2, <3>1, <3>2
  <2> QED BY <1>2, <2>2, BinsInOrder
<1>5. \E n \in D : \A m \in D : m # n => Profile!Before(h, m, n)
  <2>1. PICK n \in D : \A m \in D : up[n] >= up[m]
    BY <1>1, <1>3, HasTop
  <2>2. \A m \in D : ~Profile!Before(h, n, m)
    <3> SUFFICES ASSUME NEW m \in D, Profile!Before(h, n, m) PROVE FALSE
      OBVIOUS
    <3>1. Cardinality(LargerBins(h, n)) < Cardinality(LargerBins(h, m))
      BY <1>2, BinsInOrder
    <3>2. Cardinality(LargerBins(h, n)) >= Cardinality(LargerBins(h, m))
      BY <1>3, <2>1
    <3> QED BY <1>2, <3>1, <3>2
  <2> QED BY <1>2, <2>2, BinsInOrder
<1> QED BY <1>4, <1>5

\* Sums over bins are numbers and no less than those over fewer bins.
LEMMA BinSums ==
    ASSUME NEW h, Histogram(h)
    PROVE  /\ \A D \in SUBSET (1 .. Bins) :
                IsFiniteSet(D) /\ IntsOn(h, D) /\ SumOf(h, D) \in Nat
           /\ \A D \in SUBSET (1 .. Bins) : \A C \in SUBSET D : SumOf(h, C) <= SumOf(h, D)
<1>1. \A n \in 1 .. Bins : h[n] \in Int /\ h[n] >= 0 /\ h[n] <= h[n]
  BY DEF Histogram
<1>2. IsFiniteSet(1 .. Bins)
  BY AnalysisAssumption, FS_Interval DEF Profile!ProfileAssumption
<1>3. ASSUME NEW D \in SUBSET (1 .. Bins)
      PROVE  IsFiniteSet(D) /\ IntsOn(h, D) /\ SumOf(h, D) \in Nat
  <2>1. IsFiniteSet(D)
    BY <1>2, FS_Subset
  <2>2. IntsOn(h, D)
    BY <1>1 DEF IntsOn
  <2>3. SumOf(h, D) \in Int
    BY <2>1, <2>2, SumRemove
  <2>4. SumOf(h, D) >= 0
    <3>1. \A n \in D : h[n] >= 0
      BY <1>1
    <3> QED BY <2>1, <2>2, <3>1, SumPositive
  <2> QED BY <2>1, <2>2, <2>3, <2>4
<1>4. ASSUME NEW D \in SUBSET (1 .. Bins), NEW C \in SUBSET D
      PROVE  SumOf(h, C) <= SumOf(h, D)
  <2>1. IsFiniteSet(D) /\ IntsOn(h, D) /\ IntsOn(h, C)
    <3>1. C \in SUBSET (1 .. Bins)
      OBVIOUS
    <3> QED BY <1>3, <3>1
  <2>2. (\A n \in C : h[n] <= h[n]) /\ \A n \in D \ C : h[n] >= 0
    BY <1>1
  <2> QED BY <2>1, <2>2, SumMono
<1> QED BY <1>3, <1>4

\* A bin is in the value area if the larger ones do not hold 70% already.
LEMMA AreaIs ==
    ASSUME NEW h, Histogram(h)
    PROVE  /\ Profile!ValueArea(h) \subseteq 1 .. Bins
           /\ \A n \in 1 .. Bins : n \in Profile!ValueArea(h) <=>
                LargerBins(h, n) = {} \/ 10 * SumOf(h, LargerBins(h, n)) < 7 * SumOf(h, 1 .. Bins)
<1>1. \A n \in 1 .. Bins : {m \in 1 .. Bins \ {n} : Profile!Before(h, m, n)} = LargerBins(h, n)
  BY BinsInOrder DEF LargerBins
<1>2. \A n \in 1 .. Bins : n \in Profile!ValueArea(h) <=>
        LargerBins(h, n) = {} \/ 10 * SumOf(h, LargerBins(h, n)) < 7 * SumOf(h, 1 .. Bins)
  BY <1>1, ProfileSums DEF Profile!ValueArea
<1> QED BY <1>2 DEF Profile!ValueArea

\* What is larger than a bin of the value area is in it too, so the area is the
\* bins before its first outsider, and its last bin with those before that one.
LEMMA AreaIsUpper ==
    ASSUME NEW h, Histogram(h), NEW n \in Profile!ValueArea(h), NEW m \in LargerBins(h, n)
    PROVE  m \in Profile!ValueArea(h)
<1>1. m \in 1 .. Bins /\ n \in 1 .. Bins /\ Profile!Before(h, m, n)
  BY AreaIs DEF LargerBins
<1>2. LargerBins(h, m) \in SUBSET LargerBins(h, n) /\ LargerBins(h, n) \in SUBSET (1 .. Bins)
  <2>1. \A k \in LargerBins(h, m) : k \in 1 .. Bins /\ Profile!Before(h, k, m)
    BY DEF LargerBins
  <2>2. \A k \in LargerBins(h, m) : Profile!Before(h, k, n)
    BY <1>1, <2>1, BinsInOrder
  <2> QED BY <2>1, <2>2 DEF LargerBins
<1>3. 10 * SumOf(h, LargerBins(h, n)) < 7 * SumOf(h, 1 .. Bins)
  BY <1>1, AreaIs
<1>4. /\ SumOf(h, LargerBins(h, m)) <= SumOf(h, LargerBins(h, n))
      /\ SumOf(h, LargerBins(h, m)) \in Nat /\ SumOf(h, LargerBins(h, n)) \in Nat
      /\ SumOf(h, 1 .. Bins) \in Nat
  BY <1>2, BinSums
<1>5. 10 * SumOf(h, LargerBins(h, m)) < 7 * SumOf(h, 1 .. Bins)
  BY <1>3, <1>4
<1> QED BY <1>1, <1>5, AreaIs

\* The value area reaches its 70%.
LEMMA AreaIsEnough ==
    ASSUME NEW h, Histogram(h)
    PROVE  10 * SumOf(h, Profile!ValueArea(h)) >= 7 * SumOf(h, 1 .. Bins)
<1> DEFINE area == Profile!ValueArea(h)
           D == (1 .. Bins) \ area
<1>1. CASE D = {}
  <2>1. area = 1 .. Bins
    BY <1>1, AreaIs
  <2>2. SumOf(h, 1 .. Bins) \in Nat
    BY BinSums
  <2> QED BY <2>1, <2>2
<1>2. CASE D # {}
  <2>1. PICK z \in D : \A m \in D : m # z => Profile!Before(h, z, m)
    <3>1. D \in SUBSET (1 .. Bins)
      OBVIOUS
    <3> HIDE DEF D
    <3> QED BY <1>2, <3>1, FirstAndLast
  <2>2. \A m \in LargerBins(h, z) : m \in area
    <3> SUFFICES ASSUME NEW m \in LargerBins(h, z), m \notin area PROVE FALSE
      OBVIOUS
    <3>1. m \in D /\ Profile!Before(h, m, z)
      BY DEF LargerBins
    <3>2. m # z
      BY <3>1, BinsInOrder
    <3>3. Profile!Before(h, z, m)
      BY <2>1, <3>1, <3>2
    <3> QED BY <3>1, <3>3, BinsInOrder
  <2>3. \A n \in area : n \in LargerBins(h, z)
    <3> SUFFICES ASSUME NEW n \in area, n \notin LargerBins(h, z) PROVE FALSE
      OBVIOUS
    <3>1. n \in 1 .. Bins /\ n # z
      BY <2>1, AreaIs
    <3>2. Profile!Before(h, z, n)
      BY <3>1, BinsInOrder DEF LargerBins
    <3>3. z \in LargerBins(h, n)
      BY <3>2 DEF LargerBins
    <3> QED BY <3>3, AreaIsUpper
  <2>4. area = LargerBins(h, z)
    BY <2>2, <2>3
  <2>5. ~(10 * SumOf(h, LargerBins(h, z)) < 7 * SumOf(h, 1 .. Bins))
    BY <2>1, AreaIs
  <2>6. SumOf(h, area) \in Nat /\ SumOf(h, 1 .. Bins) \in Nat
    BY AreaIs, BinSums
  <2> QED BY <2>4, <2>5, <2>6
<1> QED BY <1>1, <1>2

\* Any bins of which there are fewer hold no more than the value area without
\* its last one.
LEMMA AreaIsLeast ==
    ASSUME NEW h, Histogram(h), SumOf(h, 1 .. Bins) > 0, NEW S \in SUBSET (1 .. Bins),
           Cardinality(S) < Cardinality(Profile!ValueArea(h))
    PROVE  10 * SumOf(h, S) < 7 * SumOf(h, 1 .. Bins)
<1> DEFINE area == Profile!ValueArea(h)
<1>1. /\ IsFiniteSet(area) /\ area \in SUBSET (1 .. Bins)
      /\ Cardinality(area) \in Nat /\ Cardinality(S) \in Nat /\ IsFiniteSet(S)
  BY AreaIs, BinSums, FS_CardinalityType
<1>2. area # {}
  BY <1>1, FS_EmptySet
<1>3. PICK w \in area : \A m \in area : m # w => Profile!Before(h, m, w)
  <2> HIDE DEF area
  <2> QED BY <1>1, <1>2, FirstAndLast
<1> DEFINE L == LargerBins(h, w)
<1>4. L = area \ {w}
  <2>1. \A m \in L : m \in area /\ m # w
    <3> SUFFICES ASSUME NEW m \in L PROVE m \in area /\ m # w
      OBVIOUS
    <3>1. m \in area
      BY <1>3, AreaIsUpper
    <3> QED BY <3>1, <1>1, BinsInOrder DEF LargerBins
  <2>2. \A m \in area : m # w => m \in L
    BY <1>1, <1>3 DEF LargerBins
  <2> QED BY <2>1, <2>2
<1>5. /\ L \in SUBSET (1 .. Bins) /\ IsFiniteSet(L) /\ Cardinality(L) \in Nat
      /\ Cardinality(L) = Cardinality(area) - 1
  BY <1>1, <1>4, FS_RemoveElement, FS_CardinalityType, FS_Subset
<1> HIDE DEF L
<1>6. Cardinality(S) <= Cardinality(L)
  BY <1>1, <1>5
<1> DEFINE A == S \ L
           C == L \ S
           I == S \cap L
<1>7. /\ IsFiniteSet(A) /\ IsFiniteSet(C) /\ IsFiniteSet(I)
      /\ Cardinality(A) <= Cardinality(C)
  <2>1. IsFiniteSet(A) /\ IsFiniteSet(C) /\ IsFiniteSet(I)
    BY <1>1, <1>5, FS_Subset
  <2>2. /\ Cardinality(A) \in Nat /\ Cardinality(C) \in Nat /\ Cardinality(I) \in Nat
    BY <2>1, FS_CardinalityType
  <2>3. A \cup I = S /\ C \cup I = L /\ A \cap I = {} /\ C \cap I = {}
    OBVIOUS
  <2> HIDE DEF A, C, I
  <2>4. /\ Cardinality(A \cup I) = Cardinality(A) + Cardinality(I) - Cardinality(A \cap I)
        /\ Cardinality(C \cup I) = Cardinality(C) + Cardinality(I) - Cardinality(C \cap I)
    BY <2>1, FS_Union
  <2>5. Cardinality(A \cap I) = 0 /\ Cardinality(C \cap I) = 0
    BY <2>3, FS_EmptySet
  <2>6. /\ Cardinality(S) = Cardinality(A) + Cardinality(I)
        /\ Cardinality(L) = Cardinality(C) + Cardinality(I)
    <3>1. Cardinality(S) = Cardinality(A \cup I) /\ Cardinality(L) = Cardinality(C \cup I)
      BY <2>3
    <3> QED BY <2>2, <2>4, <2>5, <3>1
  <2> QED BY <1>6, <2>1, <2>2, <2>6
<1>8. \A x \in A, y \in C : h[x] <= h[y]
  <2> SUFFICES ASSUME NEW x \in A, NEW y \in C PROVE h[x] <= h[y]
    OBVIOUS
  <2>1. x \in 1 .. Bins /\ y \in 1 .. Bins /\ w \in 1 .. Bins
    BY <1>1, <1>5
  <2>2. Profile!Before(h, y, w)
    BY DEF L, LargerBins
  <2>3. ~Profile!Before(h, x, w)
    BY <2>1 DEF L, LargerBins
  <2>4. x = w \/ Profile!Before(h, w, x)
    BY <2>1, <2>3, BinsInOrder
  <2>5. Profile!Before(h, y, x)
    BY <2>1, <2>2, <2>4, BinsInOrder
  <2>6. h[x] \in Int /\ h[y] \in Int
    BY <2>1 DEF Histogram
  <2> QED BY <2>5, <2>6 DEF Profile!Before
<1>9. SumOf(h, S) <= SumOf(h, L)
  <2>1. /\ A \in SUBSET (1 .. Bins) /\ C \in SUBSET (1 .. Bins) /\ I \in SUBSET (1 .. Bins)
    BY <1>5
  <2>2. /\ IntsOn(h, A) /\ IntsOn(h, C) /\ IntsOn(h, S) /\ IntsOn(h, L)
        /\ SumOf(h, A) \in Nat /\ SumOf(h, C) \in Nat /\ SumOf(h, I) \in Nat
    BY <1>5, <2>1, BinSums
  <2>3. SumOf(h, A) <= SumOf(h, C)
    <3>1. \A y \in C : h[y] >= 0
      BY <2>1 DEF Histogram
    <3> HIDE DEF A, C
    <3> QED BY <1>7, <1>8, <2>2, <3>1, SumOfSmaller
  <2>4. SumOf(h, S) = SumOf(h, I) + SumOf(h, A)
    <3>1. I \in SUBSET S /\ S \ I = A
      OBVIOUS
    <3> HIDE DEF A, I
    <3> QED BY <1>1, <2>2, <3>1, SumUnion
  <2>5. SumOf(h, L) = SumOf(h, I) + SumOf(h, C)
    <3>1. I \in SUBSET L /\ L \ I = C
      OBVIOUS
    <3> HIDE DEF C, I
    <3> QED BY <1>5, <2>2, <3>1, SumUnion
  <2> QED BY <2>2, <2>3, <2>4, <2>5
<1>10. 10 * SumOf(h, L) < 7 * SumOf(h, 1 .. Bins)
  <2>1. CASE L = {}
    <3>1. SumOf(h, L) = 0 /\ SumOf(h, 1 .. Bins) \in Nat
      BY <2>1, SumNone, BinSums
    <3> QED BY <3>1
  <2>2. CASE L # {}
    BY <1>1, <2>2, AreaIs DEF L
  <2> QED BY <2>1, <2>2
<1>11. SumOf(h, S) \in Nat /\ SumOf(h, L) \in Nat /\ SumOf(h, 1 .. Bins) \in Nat
  BY <1>5, BinSums
<1> QED BY <1>9, <1>10, <1>11

\* Between the bars' highest high and lowest low every bar has its bin.
LEMMA HistFacts ==
    ASSUME NEW f, TrapFrame(f)
    PROVE  /\ Histogram(Profile!Hist(f))
           /\ SumOf(Profile!Hist(f), 1 .. Bins) = Profile!Total(f)
<1> DEFINE D == 1 .. Len(f)
           lo == Profile!Lowest(f)
           hi == Profile!Highest(f)
           vol == [j \in D |-> f[j].vol]
           bin == [j \in D |-> Profile!Bin(Profile!Typical(f[j]), lo, hi)]
           h == Profile!Hist(f)
<1>1. /\ Len(f) \in Nat /\ DOMAIN f = D /\ IsFiniteSet(D) /\ 1 \in D
      /\ \A j \in D : f[j] \in TapeBars
  BY FS_Interval DEF TrapFrame
<1>2. \A j \in D : /\ f[j].hi \in Int /\ f[j].lo \in Int /\ f[j].close \in Int
                   /\ f[j].vol \in Nat /\ f[j].lo <= f[j].hi
  BY <1>1, AnalysisAssumption DEF Trap!TrapAssumption, Trap!FrameAssumption
<1> DEFINE his == [j \in D |-> f[j].hi]
           los == [j \in D |-> f[j].lo]
<1>3. /\ his \in [D -> Int] /\ los \in [D -> Int]
      /\ {f[j].hi : j \in D} = {his[j] : j \in D} /\ {f[j].lo : j \in D} = {los[j] : j \in D}
      /\ his[1] = f[1].hi /\ los[1] = f[1].lo
  BY <1>1, <1>2
<1>4. lo \in Int /\ hi \in Int /\ lo <= hi
  <2>1. hi = Max({his[j] : j \in D}) /\ lo = Min({los[j] : j \in D})
    BY <1>1, <1>3 DEF Profile!Highest, Profile!Lowest, Profile!Max, Profile!Min, Max, Min
  <2> HIDE DEF his, los, D, hi, lo
  <2>6. IsFiniteSet(D) /\ D # {} /\ his \in [D -> Int] /\ los \in [D -> Int]
    BY <1>1, <1>3
  <2>2. /\ Max({his[j] : j \in D}) \in {his[j] : j \in D}
        /\ \A x \in D : Max({his[j] : j \in D}) >= his[x]
    BY <2>6, ImageMax
  <2>3. /\ Min({los[j] : j \in D}) \in {los[j] : j \in D}
        /\ \A x \in D : Min({los[j] : j \in D}) <= los[x]
    BY <2>6, ImageMin
  <2>4. hi \in Int /\ lo \in Int
    BY <1>3, <2>1, <2>2, <2>3
  <2>5. hi >= f[1].hi /\ lo <= f[1].lo /\ f[1].lo <= f[1].hi /\ f[1].lo \in Int /\ f[1].hi \in Int
    BY <1>1, <1>2, <1>3, <2>1, <2>2, <2>3
  <2> QED BY <2>4, <2>5
<1> HIDE DEF lo, hi, his, los
<1>5. \A j \in D : bin[j] \in 1 .. Bins
  <2> SUFFICES ASSUME NEW j \in D PROVE bin[j] \in 1 .. Bins
    OBVIOUS
  <2>1. Profile!Typical(f[j]) \in Int
    BY <1>2 DEF Profile!Typical
  <2>2. bin[j] = Profile!Bin(Profile!Typical(f[j]), lo, hi)
    OBVIOUS
  <2> HIDE DEF bin
  <2> QED BY <1>4, <2>1, <2>2, BinIsBin
<1>6. IntsOn(vol, D) /\ \A j \in D : vol[j] >= 0
  BY <1>2 DEF IntsOn
<1>7. \A n \in 1 .. Bins : h[n] = SumOf(vol, OfBins(D, bin, {n}))
  <2> SUFFICES ASSUME NEW n \in 1 .. Bins
               PROVE  h[n] = SumOf(vol, OfBins(D, bin, {n}))
    OBVIOUS
  <2> DEFINE S == {j \in D : Profile!Bin(Profile!Typical(f[j]), lo, hi) = n}
  <2>1. S = OfBins(D, bin, {n}) /\ S \in SUBSET (DOMAIN f)
    BY <1>1 DEF OfBins
  <2>2. h[n] = Profile!Sum(f, Profile!Volume, S)
    BY <1>1 DEF Profile!Hist, lo, hi
  <2>3. Profile!Sum(f, Profile!Volume, S) = SumOf([j \in DOMAIN f |-> f[j].vol], S)
    <3> HIDE DEF S
    <3> QED BY <2>1, ProfileSums
  <2>4. vol = [j \in DOMAIN f |-> f[j].vol]
    BY <1>1
  <2> HIDE DEF S, h, vol
  <2> QED BY <2>1, <2>2, <2>3, <2>4
<1>8. ASSUME NEW n \in 1 .. Bins PROVE h[n] \in Nat
  <2> DEFINE S == OfBins(D, bin, {n})
  <2>1. IsFiniteSet(S) /\ S \subseteq D
    BY <1>1, FS_Subset DEF OfBins
  <2>2. IntsOn(vol, S) /\ \A j \in S : vol[j] >= 0
    <3> HIDE DEF S, vol
    <3> QED BY <1>6, <2>1 DEF IntsOn
  <2>3. SumOf(vol, S) \in Int /\ SumOf(vol, S) >= 0
    <3> HIDE DEF S, vol
    <3> QED BY <2>1, <2>2, SumRemove, SumPositive
  <2>4. h[n] = SumOf(vol, S)
    <3> HIDE DEF h, vol, bin
    <3> QED BY <1>7
  <2> HIDE DEF h, vol, bin, S
  <2> QED BY <2>3, <2>4
<1>9. Histogram(h)
  <2>1. h = [n \in 1 .. Bins |-> h[n]]
    BY DEF Profile!Hist
  <2> HIDE DEF h
  <2> QED BY <1>8, <2>1 DEF Histogram
<1>10. SumOf(h, 1 .. Bins) = SumOf(vol, OfBins(D, bin, 1 .. Bins))
  <2> DEFINE B == 1 .. Bins
  <2>1. IsFiniteSet(B)
    BY AnalysisAssumption, FS_Interval DEF Profile!ProfileAssumption
  <2> HIDE DEF h, vol, bin, D, B
  <2>2. IsFiniteSet(D) /\ IntsOn(vol, D)
    BY <1>1, <1>6
  <2>3. Binned(h, vol, D, bin, B)
    BY <1>7 DEF B, Binned
  <2>4. SumOf(h, B) = SumOf(vol, OfBins(D, bin, B))
    BY <2>1, <2>2, <2>3, SumOfBins
  <2> QED BY <2>4 DEF B
<1>11. OfBins(D, bin, 1 .. Bins) = D
  BY <1>5 DEF OfBins
<1>12. SumOf(vol, D) = Profile!Total(f)
  <2>1. Profile!Total(f) = SumOf([j \in DOMAIN f |-> f[j].vol], DOMAIN f)
    BY ProfileSums DEF Profile!Total
  <2> QED BY <1>1, <2>1
<1> QED BY <1>9, <1>10, <1>11, <1>12

\* The point of control is in the area, and so between its ends.
LEMMA PocIsInside ==
    ASSUME NEW h, Histogram(h)
    PROVE  /\ Profile!Min(Profile!ValueArea(h)) <= Profile!Poc(h)
           /\ Profile!Poc(h) <= Profile!Max(Profile!ValueArea(h))
<1> DEFINE area == Profile!ValueArea(h)
           P(n) == n \in 1 .. Bins /\ \A m \in 1 .. Bins \ {n} : Profile!Before(h, n, m)
           poc == Profile!Poc(h)
<1>1. P(poc)
  <2>1. 1 .. Bins # {}
    BY AnalysisAssumption DEF Profile!ProfileAssumption
  <2>2. \E n \in 1 .. Bins : \A m \in 1 .. Bins : m # n => Profile!Before(h, n, m)
    BY <2>1, FirstAndLast
  <2>3. \E n : P(n)
    BY <2>2
  <2> QED BY <2>3 DEF Profile!Poc
<1>2. LargerBins(h, poc) = {}
  <2> SUFFICES ASSUME NEW m \in LargerBins(h, poc) PROVE FALSE
    OBVIOUS
  <2>1. m \in 1 .. Bins /\ Profile!Before(h, m, poc)
    BY DEF LargerBins
  <2>2. m # poc
    BY <1>1, <2>1, BinsInOrder
  <2>3. Profile!Before(h, poc, m)
    BY <1>1, <2>1, <2>2
  <2>4. Profile!Before(h, m, m)
    BY <1>1, <2>1, <2>3, BinsInOrder
  <2> QED BY <2>1, <2>4, BinsInOrder
<1>3. poc \in area
  BY <1>1, <1>2, AreaIs
<1>4. IsFiniteSet(area) /\ area \subseteq Int
  BY AreaIs, BinSums
<1> DEFINE v == [n \in area |-> n]
<1>5. /\ v \in [area -> Int] /\ area = {v[n] : n \in area} /\ v[poc] = poc
  BY <1>3, <1>4
<1>6. /\ Max({v[n] : n \in area}) >= v[poc] /\ Min({v[n] : n \in area}) <= v[poc]
      /\ Max({v[n] : n \in area}) \in Int /\ Min({v[n] : n \in area}) \in Int
  <2> HIDE DEF v, area, poc
  <2> QED BY <1>3, <1>4, <1>5, ImageMax, ImageMin
<1>7. Max(area) >= poc /\ Min(area) <= poc /\ Max(area) \in Int /\ poc \in Int /\ Min(area) \in Int
  <2>1. Max(area) = Max({v[n] : n \in area}) /\ Min(area) = Min({v[n] : n \in area})
    BY <1>5
  <2>2. poc \in Int
    BY <1>1
  <2> HIDE DEF v, area, poc
  <2> QED BY <1>5, <1>6, <2>1, <2>2
<1>8. Profile!Max(area) = Max(area) /\ Profile!Min(area) = Min(area)
  BY DEF Profile!Max, Profile!Min, Max, Min
<1> QED BY <1>7, <1>8

\* The instance's own copy of Cardinality.
LEMMA SameCount == \A S : Profile!Cardinality(S) = Cardinality(S)
  BY DEF Profile!Cardinality, Cardinality

\* The two engines read one and the same tape.
LEMMA SameTape == Profile!Spec => Trap!Spec
<1>1. /\ Profile!Init => Trap!Init
      /\ [Profile!Next]_tape => [Trap!Next]_tape
  BY DEF Profile!Init, Profile!Next, Profile!NewBar, Profile!Slide, Profile!Tick, Profile!Forms,
         Trap!Init, Trap!Next, Trap!NewBar, Trap!Slide, Trap!Tick, Trap!Forms
<1> QED BY <1>1, PTL DEF Profile!Spec, Trap!Spec

(* For every market and number of bins: the value area holds 70% of the    *)
(* volume, no smaller number of levels does, nothing is lost on the way    *)
(* into the bins, and the point of control is between the area's ends.     *)
THEOREM ValueAreaIsSmallestHolds == Profile!Spec => []ValueAreaIsSmallest
<1>1. TrapFrame(tape) => ValueAreaIsSmallest
  <2> DEFINE h == Profile!Hist(tape)
             area == Profile!ValueArea(h)
             all == Profile!In(h, 1 .. Bins)
  <2> SUFFICES ASSUME TrapFrame(tape), Profile!Total(tape) > 0 PROVE ValueAreaIsSmallest
    BY DEF ValueAreaIsSmallest, Profile!ValueAreaIsSmallest
  <2>6. (/\ all = Profile!Total(tape)
         /\ 10 * Profile!In(h, area) >= 7 * all
         /\ \A S \in SUBSET (1 .. Bins) :
              Cardinality(S) < Cardinality(area) => 10 * Profile!In(h, S) < 7 * all
         /\ Profile!Min(area) <= Profile!Poc(h)
         /\ Profile!Poc(h) <= Profile!Max(area)) => ValueAreaIsSmallest
    BY SameCount DEF ValueAreaIsSmallest, Profile!ValueAreaIsSmallest
  <2>1. /\ Histogram(h) /\ SumOf(h, 1 .. Bins) = Profile!Total(tape)
        /\ \A S : Profile!In(h, S) = SumOf(h, S)
    BY HistFacts, ProfileSums
  <2> HIDE DEF h
  <2>2. all = Profile!Total(tape)
    BY <2>1
  <2>3. 10 * Profile!In(h, area) >= 7 * all
    BY <2>1, AreaIsEnough
  <2>4. ASSUME NEW S \in SUBSET (1 .. Bins), Cardinality(S) < Cardinality(area)
        PROVE  10 * Profile!In(h, S) < 7 * all
    BY <2>1, <2>4, AreaIsLeast
  <2>5. Profile!Min(area) <= Profile!Poc(h) /\ Profile!Poc(h) <= Profile!Max(area)
    BY <2>1, PocIsInside
  <2> HIDE DEF area, all
  <2> QED BY <2>2, <2>3, <2>4, <2>5, <2>6
<1> QED BY <1>1, SameTape, TrapFrameHolds, PTL

-----------------------------------------------------------------------------
(* Order blocks *)

BlockFrame(f) == f \in Seq(BlockBars) /\ f # << >>

\* A step of the blocks' frame.
LEMMA BlockFrameSteps ==
    ASSUME BlockFrame(blockFrame), Block!Next
    PROVE  \E d \in {0, 1} : Steps(blockFrame, blockFrame', BlockBars, d)
<1>1. CASE Block!Slide
  BY <1>1 DEF Block!Slide, Steps
<1>2. CASE Block!NewBar
  BY <1>2 DEF Block!NewBar, Steps
<1>3. CASE Block!Tick
  <2>1. PICK c \in BlockBars : /\ Block!Forms(blockFrame[Len(blockFrame)], c)
                             /\ blockFrame' = [blockFrame EXCEPT ![Len(blockFrame)] = c]
    BY <1>3 DEF Block!Tick
  <2>2. Steps(blockFrame, blockFrame', BlockBars, 0)
    BY <2>1 DEF Block!Forms, Steps
  <2> QED BY <2>2
<1> QED BY <1>1, <1>2, <1>3 DEF Block!Next

\* The frame of the blocks is a non-empty sequence of bars.
LEMMA BlockFrameHolds == Block!Spec => []BlockFrame(blockFrame)
<1>1. Block!Init => BlockFrame(blockFrame)
  BY DEF Block!Init, BlockFrame
<1>2. BlockFrame(blockFrame) /\ [Block!Next]_blockFrame => BlockFrame(blockFrame)'
  <2> SUFFICES ASSUME BlockFrame(blockFrame), [Block!Next]_blockFrame
               PROVE  BlockFrame(blockFrame)'
    OBVIOUS
  <2>1. CASE Block!Next
    BY <2>1, BlockFrameSteps, StepFacts DEF BlockFrame
  <2>2. CASE UNCHANGED blockFrame
    BY <2>2 DEF BlockFrame
  <2> QED BY <2>1, <2>2
<1> QED BY <1>1, <1>2, PTL DEF Block!Spec

\* The instance's sum of bodies is the sum of a function.
LEMMA BodySums ==
    ASSUME NEW f, NEW S
    PROVE  Block!MapThenSumSet(LAMBDA j : Block!Body(f[j]), S)
             = SumOf([j \in S |-> Block!Body(f[j])], S)
<1> DEFINE v == [j \in S |-> Block!Body(f[j])]
           P(g) == g = [s \in SUBSET S |->
                        IF s = {} THEN 0 ELSE Block!Body(f[AnyOf(s)]) + g[s \ {AnyOf(s)}]]
           Q(g) == g = [s \in SUBSET S |->
                        IF s = {} THEN 0 ELSE v[AnyOf(s)] + g[s \ {AnyOf(s)}]]
<1>1. \A s \in SUBSET S : s # {} => v[AnyOf(s)] = Block!Body(f[AnyOf(s)])
  BY DEF AnyOf
<1>2. \A g : P(g) <=> Q(g)
  BY <1>1
<1>3. (CHOOSE g : P(g)) = (CHOOSE g : Q(g))
  <2> HIDE DEF P, Q
  <2> QED BY <1>2
<1>4. Block!MapThenSumSet(LAMBDA j : Block!Body(f[j]), S) = (CHOOSE g : P(g))[S]
  BY DEF Block!MapThenSumSet, Block!MapThenFoldSet, AnyOf
<1>5. SumOf(v, S) = (CHOOSE g : Q(g))[S]
  BY DEF SumOf, SumFun
<1> QED BY <1>3, <1>4, <1>5

\* The bars, and the body a displacement is measured against, are numbers.
LEMMA BlockFacts ==
    ASSUME NEW f, BlockFrame(f)
    PROVE  /\ Len(f) \in Nat \ {0} /\ Block!BodyCount(f) \in Nat \ {0}
           /\ \A j \in 1 .. Len(f) :
                /\ f[j].hi \in Int /\ f[j].lo \in Int /\ f[j].op \in Int /\ f[j].close \in Int
                /\ {f[j].op, f[j].close} \subseteq f[j].lo .. f[j].hi
                /\ Block!Body(f[j]) \in Nat
           /\ Block!BodySum(f) \in Nat \ {0}
<1>1. Len(f) \in Nat \ {0} /\ \A j \in 1 .. Len(f) : f[j] \in BlockBars
  BY DEF BlockFrame
<1>2. BodyBars \in Nat \ {0} /\ Atr \in Nat \ {0}
  BY AnalysisAssumption DEF Block!BlockAssumption
<1>3. Block!BodyCount(f) \in Nat \ {0} /\ Block!BodyCount(f) <= Len(f)
  BY <1>1, <1>2 DEF Block!BodyCount
<1>4. \A b \in BlockBars : /\ b.hi \in Int /\ b.lo \in Int /\ b.op \in Int /\ b.close \in Int
                           /\ {b.op, b.close} \subseteq b.lo .. b.hi
  BY AnalysisAssumption DEF Block!BlockAssumption
<1>5. \A b \in BlockBars : Block!Body(b) \in Nat
  BY <1>4 DEF Block!Body
<1>6. Block!BodySum(f) \in Nat \ {0}
  <2> DEFINE S == Len(f) - Block!BodyCount(f) + 1 .. Len(f)
             v == [j \in S |-> Block!Body(f[j])]
  <2>1. IsFiniteSet(S) /\ S \subseteq 1 .. Len(f)
    <3>1. Len(f) - Block!BodyCount(f) + 1 \in Int /\ Len(f) \in Int
      BY <1>1, <1>3
    <3>2. IsFiniteSet(S)
      BY <3>1, FS_Interval
    <3> QED BY <1>1, <1>3, <3>2
  <2>2. IntsOn(v, S) /\ \A j \in S : v[j] >= 0
    BY <1>1, <1>5, <2>1 DEF IntsOn
  <2>3. SumOf(v, S) \in Nat
    <3>1. SumOf(v, S) \in Int /\ SumOf(v, S) >= 0
      <4> HIDE DEF v, S
      <4> QED BY <2>1, <2>2, SumRemove, SumPositive
    <3> QED BY <3>1
  <2>4. Block!BodySum(f) = IF SumOf(v, S) = 0 THEN Block!BodyCount(f) * Atr ELSE SumOf(v, S)
    BY BodySums DEF Block!BodySum
  <2>5. Block!BodyCount(f) * Atr \in Nat \ {0}
    <3>1. \A x, y \in Nat \ {0} : x * y \in Nat \ {0}
      OBVIOUS
    <3> QED BY <1>2, <1>3, <3>1
  <2> HIDE DEF v, S
  <2> QED BY <2>3, <2>4, <2>5
<1> QED BY <1>1, <1>3, <1>4, <1>5, <1>6

LEMMA RoundedIsInt == \A n \in Int, d \in Nat \ {0} : Block!Rounded(n, d) \in Int
<1> SUFFICES ASSUME NEW n \in Int, NEW d \in Nat \ {0} PROVE Block!Rounded(n, d) \in Int
  OBVIOUS
<1>1. n \div d \in Int
  OBVIOUS
<1> QED BY <1>1 DEF Block!Rounded

\* The zone of an order block has a height, so its score is a number.
LEMMA ScoreIsInt ==
    ASSUME NEW f, BlockFrame(f), NEW i \in Block!Displacements(f)
    PROVE  Block!Score(f, i) \in Int
<1>1. /\ i \in 3 .. Len(f) - 1 /\ i \in Int /\ Len(f) \in Nat
      /\ i \in 1 .. Len(f) /\ i - 1 \in 1 .. Len(f)
      /\ Block!Up(f[i - 1]) \/ Block!Down(f[i - 1])
  BY BlockFacts DEF Block!Displacements, Block!Displaces
<1>2. Block!Height(f, i) \in Nat \ {0}
  <2> DEFINE b == f[i - 1]
  <2>1. /\ b.hi \in Int /\ b.lo \in Int /\ b.op \in Int /\ b.close \in Int
        /\ b.lo <= b.op /\ b.op <= b.hi /\ b.lo <= b.close /\ b.close <= b.hi
    <3>1. {b.op, b.close} \subseteq b.lo .. b.hi /\ b.hi \in Int /\ b.lo \in Int
      BY <1>1, BlockFacts
    <3> HIDE DEF b
    <3> QED BY <3>1
  <2>2. b.op # b.close
    <3>1. b.close > b.op \/ b.close < b.op
      BY <1>1 DEF Block!Up, Block!Down
    <3> HIDE DEF b
    <3> QED BY <2>1, <3>1
  <2>3. b.hi - b.lo \in Nat \ {0}
    <3> HIDE DEF b
    <3> QED BY <2>1, <2>2
  <2> QED BY <2>3 DEF Block!Height
<1>3. Block!Beyond(f, i) \in Int
  <2> DEFINE A == Block!After(f, i)
             run(j) == IF Block!Up(f[i]) THEN f[j].hi - f[i - 1].hi ELSE f[i - 1].lo - f[j].lo
             D == {0} \cup A
             v == [j \in D |-> IF j = 0 THEN 0 ELSE run(j)]
  <2>1. A \subseteq 1 .. Len(f) /\ IsFiniteSet(A) /\ 0 \notin A
    BY <1>1, FS_Interval DEF Block!After
  <2>2. \A j \in A : run(j) \in Int
    <3> SUFFICES ASSUME NEW j \in A PROVE run(j) \in Int
      OBVIOUS
    <3>1. /\ f[j].hi \in Int /\ f[j].lo \in Int
          /\ f[i - 1].hi \in Int /\ f[i - 1].lo \in Int
      BY <1>1, <2>1, BlockFacts
    <3> QED BY <3>1
  <2>3. v \in [D -> Int]
    <3> HIDE DEF run, A
    <3> QED BY <2>2
  <2>4. {v[j] : j \in D} = {0} \cup {run(j) : j \in A}
    <3> HIDE DEF run, A
    <3> QED BY <2>1
  <2>5. IsFiniteSet(D) /\ D # {}
    <3>1. D = A \cup {0}
      OBVIOUS
    <3> HIDE DEF A, D
    <3> QED BY <2>1, <3>1, FS_AddElement
  <2>6. Max({v[j] : j \in D}) \in {v[j] : j \in D}
    <3> HIDE DEF v, D
    <3> QED BY <2>3, <2>5, ImageMax
  <2>7. Max({v[j] : j \in D}) \in Int
    <3> HIDE DEF v, D
    <3> QED BY <2>3, <2>6
  <2>8. Block!Beyond(f, i) = Max({0} \cup {run(j) : j \in A})
    BY DEF Block!Beyond, Block!Max, Max
  <2> HIDE DEF v, D, run, A
  <2> QED BY <2>4, <2>7, <2>8
<1> DEFINE s == Block!BodySum(f)
           h == Block!Height(f, i)
           d == 3 * s * h
           c == Block!BodyCount(f)
           body == Block!Smaller(25 * d, 45 * Block!Body(f[i]) * c * h)
           follow == Block!Smaller(20 * d, 20 * Block!Beyond(f, i) * s)
           sum == 40 * d + body + follow + Block!Award(~Block!Touched(f, i), 15 * d)
<1>4. /\ \A x, y \in Int : x * y \in Int /\ x + y \in Int
      /\ \A x, y \in Nat \ {0} : x * y \in Nat \ {0}
      /\ \A x, y \in Int : Block!Smaller(x, y) \in Int
      /\ \A x \in Int, b \in BOOLEAN : Block!Award(b, x) \in Int
  BY DEF Block!Smaller, Block!Award
<1>5. /\ s \in Nat \ {0} /\ h \in Nat \ {0} /\ c \in Nat \ {0} /\ Block!Body(f[i]) \in Nat
  BY <1>1, <1>2, BlockFacts
<1> HIDE DEF s, h, c
<1>6. d \in Nat \ {0}
  BY <1>4, <1>5
<1>7. body \in Int
  <2>1. 25 * d \in Int
    BY <1>6
  <2>2. 45 * Block!Body(f[i]) * c * h \in Int
    BY <1>4, <1>5
  <2> QED BY <1>4, <2>1, <2>2
<1>8. follow \in Int
  <2>1. 20 * d \in Int
    BY <1>6
  <2>2. 20 * Block!Beyond(f, i) * s \in Int
    BY <1>3, <1>4, <1>5
  <2> QED BY <1>4, <2>1, <2>2
<1>9. Block!Award(~Block!Touched(f, i), 15 * d) \in Int
  BY <1>6 DEF Block!Award
<1> HIDE DEF d, body, follow
<1>10. sum \in Int
  BY <1>6, <1>7, <1>8, <1>9
<1> HIDE DEF sum
<1>11. Block!Rounded(sum, d) \in Int /\ Block!RoundedBelow(sum, d) \in Int
  <2>1. 4 * sum - 1 \in Int /\ 4 * d \in Nat \ {0}
    BY <1>6, <1>10
  <2> QED BY <1>6, <1>10, <2>1, RoundedIsInt DEF Block!RoundedBelow
<1> QED BY <1>11 DEF Block!Score, sum, follow, body, d, s, h, c

\* A block that is merged into a sequence of kept ones leaves there one of its
\* type that is as strong, and one as strong as any that was there.
AsStrong(out, b) == \E k \in DOMAIN out : out[k].type = b.type /\ out[k].score >= b.score

LEMMA MergeKeeps ==
    ASSUME NEW B, \A b \in B : b.score \in Int, NEW out \in Seq(B), NEW b \in B
    PROVE  /\ Block!Merge(out, b) \in Seq(B)
           /\ AsStrong(Block!Merge(out, b), b)
           /\ \A c \in B : AsStrong(out, c) => AsStrong(Block!Merge(out, b), c)
<1> DEFINE n == Len(out)
           m == Block!Merge(out, b)
<1>1. n \in Nat /\ DOMAIN out = 1 .. n /\ \A k \in 1 .. n : out[k] \in B
  OBVIOUS
<1>2. CASE out = <<>> \/ ~Block!Overlap(out[n], b)
  <2>1. m = Append(out, b)
    BY <1>2 DEF Block!Merge
  <2>2. /\ m \in Seq(B) /\ DOMAIN m = 1 .. n + 1 /\ m[n + 1] = b
        /\ \A k \in 1 .. n : m[k] = out[k]
    BY <2>1
  <2> HIDE DEF m, n
  <2>3. AsStrong(m, b)
    <3>1. n + 1 \in DOMAIN m /\ b.score \in Int
      BY <1>1, <2>2
    <3> QED BY <2>2, <3>1 DEF AsStrong
  <2>4. \A c \in B : AsStrong(out, c) => AsStrong(m, c)
    <3>1. \A k \in 1 .. n : k \in DOMAIN m
      BY <1>1, <2>2
    <3> QED BY <1>1, <2>2, <3>1 DEF AsStrong
  <2> QED BY <2>2, <2>3, <2>4 DEF m
<1>3. CASE ~(out = <<>> \/ ~Block!Overlap(out[n], b))
  <2>1. n \in 1 .. n /\ out[n].type = b.type /\ out[n] \in B
    <3>1. n # 0
      BY <1>1, <1>3
    <3>2. n \in 1 .. n
      BY <1>1, <3>1
    <3> QED BY <1>1, <1>3, <3>2 DEF Block!Overlap
  <2>2. out[n].score \in Int /\ b.score \in Int
    BY <2>1
  <2>3. CASE b.score > out[n].score
    <3>1. m = [out EXCEPT ![n] = b]
      BY <1>3, <2>3 DEF Block!Merge
    <3>2. /\ m \in Seq(B) /\ DOMAIN m = 1 .. n /\ m[n] = b
          /\ \A k \in 1 .. n : k # n => m[k] = out[k]
      BY <2>1, <3>1
    <3> HIDE DEF m, n
    <3>3. AsStrong(m, b)
      BY <2>1, <2>2, <3>2 DEF AsStrong
    <3>4. ASSUME NEW c \in B, AsStrong(out, c) PROVE AsStrong(m, c)
      <4>1. PICK k \in 1 .. n : out[k].type = c.type /\ out[k].score >= c.score
        BY <1>1, <3>4 DEF AsStrong
      <4>2. m[k].type = c.type /\ m[k].score >= c.score
        <5>1. CASE k = n
          BY <2>1, <2>2, <2>3, <3>2, <4>1, <5>1
        <5>2. CASE k # n
          BY <3>2, <4>1, <5>2
        <5> QED BY <5>1, <5>2
      <4> QED BY <3>2, <4>2 DEF AsStrong
    <3> QED BY <3>2, <3>3, <3>4 DEF m
  <2>4. CASE ~(b.score > out[n].score)
    <3>1. m = out
      BY <1>3, <2>4 DEF Block!Merge
    <3>2. AsStrong(out, b)
      BY <1>1, <2>1, <2>2, <2>4 DEF AsStrong
    <3> QED BY <3>1, <3>2
  <2> QED BY <2>3, <2>4
<1> QED BY <1>2, <1>3

\* The loop over the bars: what is kept when bar n has been looked at.
Loops(k, f) ==
    k = [n \in 0 .. Len(f) |->
           IF n = 0 THEN <<>>
           ELSE IF n \in Block!Recorded(f) THEN Block!Merge(k[n - 1], Block!OrderBlock(f, n))
           ELSE k[n - 1]]

\* The fold of _dedup is its loop over the frame.
LEMMA LoopExists ==
    ASSUME NEW f, Len(f) \in Nat
    PROVE  \E k : Loops(k, f) /\ Block!Kept(f) = k[Len(f)]
<1> DEFINE L == Len(f)
           next(k, n) == IF n \in Block!Recorded(f)
                         THEN Block!Merge(k[n - 1], Block!OrderBlock(f, n)) ELSE k[n - 1]
           E(k, m) == [n \in 0 .. m |-> IF n = 0 THEN <<>> ELSE next(k, n)]
           G == {m \in 0 .. L : \E k : k = E(k, m)}
<1>1. 0 \in G
  <2> DEFINE k == [n \in 0 .. 0 |-> <<>>]
  <2>1. k = E(k, 0)
    <3>1. \A n \in 0 .. 0 : n = 0
      OBVIOUS
    <3> QED BY <3>1
  <2>2. \E h : h = E(h, 0)
    <3> HIDE DEF E, k
    <3> QED BY <2>1
  <2> HIDE DEF E
  <2> QED BY <2>2
<1>2. ASSUME NEW m \in 0 .. L - 1, m \in G PROVE m + 1 \in G
  <2>1. PICK k : k = E(k, m)
    BY <1>2
  <2> DEFINE h == [n \in 0 .. m + 1 |-> IF n = m + 1 THEN next(k, m + 1) ELSE k[n]]
  <2>2. m \in Nat /\ m + 1 \in 0 .. L
    OBVIOUS
  <2> HIDE DEF next
  <2>3. \A n \in 0 .. m : h[n] = k[n]
    BY <2>2
  <2>4. \A n \in 0 .. m + 1 : n # 0 => next(h, n) = next(k, n)
    <3> SUFFICES ASSUME NEW n \in 0 .. m + 1, n # 0 PROVE next(h, n) = next(k, n)
      OBVIOUS
    <3>1. n - 1 \in 0 .. m
      BY <2>2
    <3>2. h[n - 1] = k[n - 1]
      BY <2>3, <3>1
    <3> HIDE DEF h
    <3> QED BY <3>2 DEF next
  <2>5. \A n \in 0 .. m : k[n] = IF n = 0 THEN <<>> ELSE next(k, n)
    <3> HIDE DEF h
    <3> QED BY <2>1
  <2>6. \A n \in 0 .. m + 1 : h[n] = IF n = 0 THEN <<>> ELSE next(h, n)
    <3> SUFFICES ASSUME NEW n \in 0 .. m + 1
                 PROVE  h[n] = IF n = 0 THEN <<>> ELSE next(h, n)
      OBVIOUS
    <3>1. CASE n = m + 1
      <4>1. h[n] = next(k, n) /\ n # 0
        BY <2>2, <3>1
      <4> HIDE DEF h
      <4> QED BY <2>4, <4>1
    <3>2. CASE n # m + 1
      <4>1. n \in 0 .. m
        BY <2>2, <3>2
      <4>2. h[n] = k[n]
        BY <2>3, <4>1
      <4> HIDE DEF h
      <4> QED BY <2>4, <2>5, <4>1, <4>2
    <3> QED BY <3>1, <3>2
  <2>7. h = E(h, m + 1)
    <3> DEFINE g == E(h, m + 1)
    <3>1. \A n \in 0 .. m + 1 : g[n] = IF n = 0 THEN <<>> ELSE next(h, n)
      OBVIOUS
    <3>2. \A n \in 0 .. m + 1 : h[n] = g[n]
      BY <2>6, <3>1
    <3> QED BY <3>2
  <2>8. \E g : g = E(g, m + 1)
    <3> HIDE DEF E, h
    <3> QED BY <2>7
  <2> HIDE DEF E
  <2> QED BY <2>2, <2>8
<1>3. L \in G
  <2>1. \A m \in 0 .. L : m \in G
    <3> HIDE DEF G
    <3> QED BY <1>1, <1>2, CountInduct
  <2> QED BY <2>1
<1>4. Block!Kept(f) = (CHOOSE k : k = E(k, L))[L]
  BY DEF Block!Kept
<1>5. PICK k : k = (CHOOSE g : g = E(g, L))
  OBVIOUS
<1>6. k = E(k, L)
  <2> HIDE DEF E
  <2> QED BY <1>3, <1>5
<1>7. Loops(k, f)
  BY <1>6 DEF Loops
<1> HIDE DEF E
<1> QED BY <1>4, <1>5, <1>7

(* For every market and threshold: the highest score recorded on a side is *)
(* still there after the blocks whose zones overlap were merged.           *)
THEOREM StrongestSurvivesHolds == Block!Spec => []StrongestSurvives
<1>1. ASSUME NEW f, BlockFrame(f)
      PROVE  \A b \in Block!Blocks(f) : AsStrong(Block!Kept(f), b)
  <2> DEFINE L == Len(f)
             R == Block!Recorded(f)
             B == Block!Blocks(f)
             ob(i) == Block!OrderBlock(f, i)
  <2>1. PICK k : Loops(k, f) /\ Block!Kept(f) = k[L]
    BY <1>1, BlockFacts, LoopExists
  <2>2. L \in Nat /\ R \subseteq 1 .. L
    BY <1>1, BlockFacts DEF Block!Recorded, Block!Displacements
  <2>3. \A i \in R : ob(i) \in B /\ ob(i).score \in Int
    <3>1. \A i \in R : ob(i) \in B
      BY DEF Block!Blocks
    <3>2. \A i \in R : ob(i).score = Block!Score(f, i)
      BY DEF Block!OrderBlock
    <3>3. \A i \in R : i \in Block!Displacements(f)
      BY DEF Block!Recorded
    <3> QED BY <1>1, <3>1, <3>2, <3>3, ScoreIsInt
  <2>4. \A b \in B : \E i \in R : b = ob(i)
    BY DEF Block!Blocks
  <2> HIDE DEF R, B, ob
  <2>5. \A b \in B : b.score \in Int
    BY <2>3, <2>4
  <2>6. /\ k[0] = <<>>
        /\ \A n \in 1 .. L : n \in R => k[n] = Block!Merge(k[n - 1], ob(n))
        /\ \A n \in 1 .. L : n \notin R => k[n] = k[n - 1]
    BY <2>1, <2>2 DEF Loops, R, ob
  <2> DEFINE G == {n \in 0 .. L : /\ k[n] \in Seq(B)
                                  /\ \A i \in R : i <= n => AsStrong(k[n], ob(i))}
  <2>7. 0 \in G
    <3>1. k[0] \in Seq(B)
      BY <2>6
    <3>2. \A i \in R : ~(i <= 0)
      BY <2>2
    <3> QED BY <2>2, <3>1, <3>2
  <2>8. ASSUME NEW n \in 0 .. L - 1, n \in G PROVE n + 1 \in G
    <3>1. n + 1 \in 1 .. L /\ n + 1 \in 0 .. L /\ n \in Nat /\ (n + 1) - 1 = n
      BY <2>2
    <3>2. \A i \in R : i <= n + 1 => i <= n \/ i = n + 1
      BY <2>2, <3>1
    <3>3. CASE n + 1 \in R
      <4>1. k[n + 1] = Block!Merge(k[n], ob(n + 1))
        BY <2>6, <3>1, <3>3
      <4>2. /\ k[n + 1] \in Seq(B)
            /\ AsStrong(k[n + 1], ob(n + 1))
            /\ \A c \in B : AsStrong(k[n], c) => AsStrong(k[n + 1], c)
        BY <2>3, <2>5, <2>8, <3>3, <4>1, MergeKeeps
      <4>3. \A i \in R : i <= n + 1 => AsStrong(k[n + 1], ob(i))
        BY <2>3, <2>8, <3>2, <4>2
      <4> QED BY <3>1, <4>2, <4>3
    <3>4. CASE n + 1 \notin R
      <4>1. k[n + 1] = k[n]
        BY <2>6, <3>1, <3>4
      <4>2. \A i \in R : i <= n + 1 => AsStrong(k[n + 1], ob(i))
        BY <2>8, <3>2, <3>4, <4>1
      <4> QED BY <2>8, <3>1, <4>1, <4>2
    <3> QED BY <3>3, <3>4
  <2>9. L \in G
    <3>1. \A n \in 0 .. L : n \in G
      <4> HIDE DEF G
      <4> QED BY <2>2, <2>7, <2>8, CountInduct
    <3> QED BY <2>2, <3>1
  <2>10. \A i \in R : AsStrong(k[L], ob(i))
    BY <2>2, <2>9
  <2>11. ASSUME NEW b \in B PROVE AsStrong(Block!Kept(f), b)
    <3>1. PICK i \in R : b = ob(i)
      BY <2>4
    <3>2. AsStrong(k[L], ob(i))
      BY <2>10
    <3> QED BY <2>1, <3>1, <3>2
  <2> QED BY <2>11 DEF B
<1>2. BlockFrame(blockFrame) => StrongestSurvives
  <2> SUFFICES ASSUME BlockFrame(blockFrame), NEW b \in Block!Blocks(blockFrame)
               PROVE  \E k \in Block!ToSet(Block!Kept(blockFrame)) :
                        k.type = b.type /\ k.score >= b.score
    BY DEF StrongestSurvives, Block!StrongestSurvives
  <2>1. AsStrong(Block!Kept(blockFrame), b)
    BY <1>1
  <2> QED BY <2>1 DEF AsStrong, Block!ToSet
<1> QED BY <1>2, BlockFrameHolds, PTL
=============================================================================
