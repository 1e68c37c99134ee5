------------------------- MODULE ApproxRulesProofs --------------------------
(***************************************************************************)
(* Lemmas about what the models of the game compute with.                  *)
(*                                                                         *)
(* Sums and powers: SumFunction folds over a set by a recursive function,  *)
(* and so does Power over the turns of a loop.  That the functions exist,  *)
(* that they keep to the integers, what the sum of no term and of one is   *)
(* and what changing one term does are shown from a smallest               *)
(* counterexample.  Sequences: a message that goes from one queue to the   *)
(* next keeps its place among the others.                                  *)
(***************************************************************************)
EXTENDS ApproxRules, FiniteSetTheorems, SequenceTheorems, WellFoundedInduction, TLAPS

(* Of a collection of finite sets one is smallest. *)
LEMMA SmallestSet ==
  ASSUME NEW S, IsFiniteSet(S), NEW T \in SUBSET SUBSET S, T # {}
  PROVE  \E t \in T : \A u \in T : u \subseteq t => u = t
<1>1. T \subseteq FiniteSubsetsOf(S)
  BY FS_FiniteSubsetsOfFinite
<1>2. PICK t \in T : \A u \in T : ~ (<<u, t>> \in StrictSubsetOrdering(S))
  BY <1>1, FS_StrictSubsetOrderingWellFounded, WFMin
<1> WITNESS t \in T
<1> TAKE u \in T
<1> QED
  BY <1>2 DEF StrictSubsetOrdering

(* g is the function by which MapThenFoldSet sums the values of f up.      *)
Sums(f, S, g) ==
    g = [s \in SUBSET S |->
            IF s = {} THEN 0 ELSE LET x == CHOOSE x \in s : TRUE IN f[x] + g[s \ {x}]]

(* The sum is the value of that function, provided that there is one. *)
LEMMA SumDef ==
  ASSUME NEW f, NEW S
  PROVE  SumFunctionOnSet(f, S) = (CHOOSE g : Sums(f, S, g))[S]
BY DEF SumFunctionOnSet, FoldFunctionOnSet, MapThenFoldSet, Sums

(* One turn of the recursion. *)
Chosen(s) == CHOOSE x \in s : TRUE

(* What it does to the set s. *)
LEMMA SumsTurn ==
  ASSUME NEW f, NEW S, NEW g, Sums(f, S, g), NEW s \in SUBSET S
  PROVE  /\ s = {} => g[s] = 0
         /\ s # {} => /\ Chosen(s) \in s
                      /\ s \ {Chosen(s)} \in SUBSET S
                      /\ g[s] = f[Chosen(s)] + g[s \ {Chosen(s)}]
<1>1. g[s] = IF s = {} THEN 0 ELSE f[Chosen(s)] + g[s \ {Chosen(s)}]
  <2>1. [t \in SUBSET S |->
            IF t = {} THEN 0 ELSE LET x == CHOOSE x \in t : TRUE IN f[x] + g[t \ {x}]][s]
          = IF s = {} THEN 0 ELSE f[Chosen(s)] + g[s \ {Chosen(s)}]
    BY DEF Chosen
  <2> QED
    BY <2>1 DEF Sums
<1>2. s # {} => Chosen(s) \in s
  BY DEF Chosen
<1> QED
  BY <1>1, <1>2

(* The same, for all sets at once. *)
LEMMA SumsTurns ==
  ASSUME NEW f, NEW S, NEW g, Sums(f, S, g)
  PROVE  \A s \in SUBSET S : s # {} => g[s] = f[Chosen(s)] + g[s \ {Chosen(s)}]
<1> SUFFICES ASSUME NEW s \in SUBSET S, s # {}
             PROVE  g[s] = f[Chosen(s)] + g[s \ {Chosen(s)}]
  OBVIOUS
<1>1. /\ s = {} => g[s] = 0
      /\ s # {} => /\ Chosen(s) \in s
                   /\ s \ {Chosen(s)} \in SUBSET S
                   /\ g[s] = f[Chosen(s)] + g[s \ {Chosen(s)}]
  BY SumsTurn
<1> QED
  BY <1>1

(* It starts from 0. *)
LEMMA SumsStart ==
  ASSUME NEW f, NEW S, NEW g, Sums(f, S, g)
  PROVE  g[{}] = 0
<1>1. {} \in SUBSET S
  OBVIOUS
<1>2. \A s \in SUBSET S : s = {} => g[s] = 0
  BY SumsTurn
<1> QED
  BY <1>1, <1>2

(* The converse: who takes every turn is the function. *)
LEMMA SumsIntro ==
  ASSUME NEW f, NEW S, NEW g, g = [s \in SUBSET S |-> g[s]],
         \A s \in SUBSET S :
            g[s] = IF s = {} THEN 0 ELSE f[Chosen(s)] + g[s \ {Chosen(s)}]
  PROVE  Sums(f, S, g)
BY DEF Sums, Chosen

(* Two such functions agree on the sets that both know. *)
LEMMA SumsAgree ==
  ASSUME NEW f, NEW U, NEW V, NEW g, NEW h, Sums(f, U, g), Sums(f, V, h),
         NEW s, s \subseteq U, s \subseteq V, IsFiniteSet(s)
  PROVE  g[s] = h[s]
<1> SUFFICES ASSUME g[s] # h[s] PROVE FALSE
  OBVIOUS
<1> DEFINE T == {t \in SUBSET s : g[t] # h[t]}
<1>1. PICK t \in T : \A u \in T : u \subseteq t => u = t
  <2>1. T \in SUBSET SUBSET s /\ T # {}
    OBVIOUS
  <2> HIDE DEF T
  <2> QED
    BY <2>1, SmallestSet
<1>2. t \in SUBSET U /\ t \in SUBSET V /\ g[t] # h[t]
  OBVIOUS
<1>3. t # {}
  <2>1. g[{}] = 0 /\ h[{}] = 0
    BY SumsStart
  <2> QED
    BY <1>2, <2>1
<1>4. Chosen(t) \in t
  BY <1>2, <1>3, SumsTurn
<1>5. g[t \ {Chosen(t)}] = h[t \ {Chosen(t)}]
  <2>1. t \ {Chosen(t)} \notin T
    BY <1>1, <1>4
  <2> QED
    BY <2>1
<1> QED
  BY <1>2, <1>3, <1>5, SumsTurn

(* The function exists: a smallest set without one would have one, made of *)
(* those of its parts.                                                     *)
LEMMA SumsExist ==
  ASSUME NEW f, NEW S, IsFiniteSet(S)
  PROVE  \E g : Sums(f, S, g)
<1> SUFFICES ASSUME ~ \E g : Sums(f, S, g) PROVE FALSE
  OBVIOUS
<1> DEFINE T == {t \in SUBSET S : ~ \E g : Sums(f, t, g)}
<1>1. PICK t \in T : \A u \in T : u \subseteq t => u = t
  <2>1. T \in SUBSET SUBSET S /\ T # {}
    OBVIOUS
  <2> HIDE DEF T
  <2> QED
    BY <2>1, SmallestSet
<1>2. t \in SUBSET S /\ ~ \E g : Sums(f, t, g)
  OBVIOUS
<1> DEFINE G(u) == CHOOSE g : Sums(f, u, g)
<1>3. \A u \in SUBSET t : u # t => Sums(f, u, G(u))
  <2> TAKE u \in SUBSET t
  <2> HAVE u # t
  <2>1. u \notin T
    BY <1>1
  <2>2. \E g : Sums(f, u, g)
    BY <2>1, <1>2
  <2> QED
    BY <2>2
<1>4. \A u \in SUBSET t : IsFiniteSet(u)
  BY <1>2, FS_Subset
<1> HIDE DEF T, G
<1> DEFINE value(u) == IF u = {} THEN 0 ELSE f[Chosen(u)] + G(u \ {Chosen(u)})[u \ {Chosen(u)}]
           h == [u \in SUBSET t |-> value(u)]
<1>5. \A u \in SUBSET t : u # t => G(u)[u] = value(u)
  <2> TAKE u \in SUBSET t
  <2> HAVE u # t
  <2>1. CASE u = {}
    <3>1. G(u)[u] = 0
      BY <1>3, <2>1, SumsStart
    <3> QED
      BY <3>1, <2>1
  <2>2. CASE u # {}
    <3> DEFINE w == u \ {Chosen(u)}
    <3>1. /\ Chosen(u) \in u
          /\ G(u)[u] = f[Chosen(u)] + G(u)[w]
      BY <1>3, <2>2, SumsTurn
    <3>2. w \in SUBSET t /\ w # t /\ w \subseteq u
      BY <3>1
    <3> HIDE DEF w
    <3>3. G(u)[w] = G(w)[w]
      <4>1. Sums(f, u, G(u)) /\ Sums(f, w, G(w)) /\ IsFiniteSet(w)
        BY <1>3, <1>4, <3>2
      <4> QED
        BY <4>1, <3>2, SumsAgree
    <3>4. value(u) = f[Chosen(u)] + G(w)[w]
      BY <2>2 DEF w
    <3> QED
      BY <3>1, <3>3, <3>4
  <2> QED
    BY <2>1, <2>2
<1>6. Sums(f, t, h)
  <2>1. h = [u \in SUBSET t |-> h[u]]
    OBVIOUS
  <2>2. ASSUME NEW u \in SUBSET t
        PROVE  h[u] = IF u = {} THEN 0 ELSE f[Chosen(u)] + h[u \ {Chosen(u)}]
    <3>1. h[u] = value(u)
      OBVIOUS
    <3>2. CASE u = {}
      BY <3>1, <3>2
    <3>3. CASE u # {}
      <4> DEFINE w == u \ {Chosen(u)}
      <4>1. Chosen(u) \in u
        BY <3>3 DEF Chosen
      <4>2. w \in SUBSET t /\ w # t
        BY <4>1
      <4>3. h[w] = value(w)
        BY <4>2
      <4>4. value(u) = f[Chosen(u)] + G(w)[w]
        BY <3>3
      <4> HIDE DEF w, h, value
      <4>5. h[u] = f[Chosen(u)] + h[w]
        BY <3>1, <4>2, <4>3, <4>4, <1>5
      <4> QED
        BY <4>5, <3>3 DEF w
    <3> QED
      BY <3>2, <3>3
  <2> HIDE DEF h
  <2> QED
    BY <2>1, <2>2, SumsIntro
<1> QED
  BY <1>2, <1>6

(* So the sum is given by a function that takes the turns. *)
LEMMA SumFound ==
  ASSUME NEW f, NEW S, IsFiniteSet(S)
  PROVE  \E g : Sums(f, S, g) /\ SumFunctionOnSet(f, S) = g[S]
<1>1. Sums(f, S, CHOOSE g : Sums(f, S, g))
  BY SumsExist
<1> QED
  BY <1>1, SumDef

(* A sum of integers is an integer. *)
LEMMA SumIsInt ==
  ASSUME NEW S, IsFiniteSet(S), NEW f \in [S -> Int]
  PROVE  SumFunction(f) \in Int
<1>1. PICK g : Sums(f, S, g) /\ SumFunctionOnSet(f, S) = g[S]
  BY SumFound
<1> DEFINE T == {t \in SUBSET S : g[t] \notin Int}
<1>2. T = {}
  <2> SUFFICES ASSUME T # {} PROVE FALSE
    OBVIOUS
  <2>1. PICK t \in T : \A u \in T : u \subseteq t => u = t
    <3>1. T \in SUBSET SUBSET S
      OBVIOUS
    <3> HIDE DEF T
    <3> QED
      BY <3>1, SmallestSet
  <2>2. t \in SUBSET S /\ g[t] \notin Int
    OBVIOUS
  <2>3. t # {}
    BY <1>1, <2>2, SumsStart
  <2>4. /\ Chosen(t) \in t
        /\ t \ {Chosen(t)} \in SUBSET S
        /\ g[t] = f[Chosen(t)] + g[t \ {Chosen(t)}]
    BY <1>1, <2>2, <2>3, SumsTurn
  <2>5. g[t \ {Chosen(t)}] \in Int
    <3>1. t \ {Chosen(t)} \notin T
      BY <2>1, <2>4
    <3> QED
      BY <3>1, <2>4
  <2>6. f[Chosen(t)] \in Int
    BY <2>2, <2>4
  <2> QED
    BY <2>2, <2>4, <2>5, <2>6
<1>3. g[S] \in Int
  BY <1>2
<1> QED
  BY <1>1, <1>3 DEF SumFunction

(* The sum of nothing. *)
LEMMA SumOfNone ==
  ASSUME NEW f, DOMAIN f = {}
  PROVE  SumFunction(f) = 0
<1>1. PICK g : Sums(f, {}, g) /\ SumFunctionOnSet(f, {}) = g[{}]
  BY SumFound, FS_EmptySet
<1>2. g[{}] = 0
  BY <1>1, SumsStart
<1> QED
  BY <1>1, <1>2 DEF SumFunction

(* The sum of one value. *)
LEMMA SumOfOne ==
  ASSUME NEW f, NEW k, DOMAIN f = {k}, f[k] \in Int
  PROVE  SumFunction(f) = f[k]
<1>1. PICK g : Sums(f, {k}, g) /\ SumFunctionOnSet(f, {k}) = g[{k}]
  BY SumFound, FS_Singleton
<1>2. Chosen({k}) = k /\ {k} \ {k} = {}
  BY DEF Chosen
<1>3. g[{k}] = f[k] + g[{}]
  <2>1. Chosen({k}) = k
    BY <1>2
  <2>2. g[{k}] = f[Chosen({k})] + g[{k} \ {Chosen({k})}]
    <3>1. \A s \in SUBSET {k} : s # {} => g[s] = f[Chosen(s)] + g[s \ {Chosen(s)}]
      BY <1>1, SumsTurns
    <3>2. {k} \in SUBSET {k} /\ {k} # {}
      OBVIOUS
    <3> QED
      BY <3>1, <3>2
  <2> QED
    BY <1>2, <2>1, <2>2
<1>4. g[{}] = 0
  BY <1>1, SumsStart
<1> QED
  BY <1>1, <1>3, <1>4 DEF SumFunction

(* Two functions that differ at p only. *)
DifferAt(f, h, S, p) == \A x \in S : x # p => f[x] = h[x]

(* Their sums differ by as much. *)
LEMMA SumChange ==
  ASSUME NEW S, IsFiniteSet(S), NEW f \in [S -> Int], NEW h \in [S -> Int], NEW p \in S,
         DifferAt(f, h, S, p)
  PROVE  SumFunction(f) = SumFunction(h) + (f[p] - h[p])
<1>1. PICK g : Sums(f, S, g) /\ SumFunctionOnSet(f, S) = g[S]
  BY SumFound
<1>2. PICK k : Sums(h, S, k) /\ SumFunctionOnSet(h, S) = k[S]
  BY SumFound
<1> DEFINE c(t) == IF p \in t THEN f[p] - h[p] ELSE 0
           Right(t) == g[t] \in Int /\ k[t] \in Int /\ g[t] = k[t] + c(t)
           T == {t \in SUBSET S : ~Right(t)}
<1>3. T = {}
  <2> SUFFICES ASSUME T # {} PROVE FALSE
    OBVIOUS
  <2>1. PICK t \in T : \A u \in T : u \subseteq t => u = t
    <3>1. T \in SUBSET SUBSET S
      OBVIOUS
    <3> HIDE DEF T
    <3> QED
      BY <3>1, SmallestSet
  <2>2. t \in SUBSET S /\ ~Right(t)
    OBVIOUS
  <2>3. t # {}
    <3>1. g[{}] = 0 /\ k[{}] = 0
      BY <1>1, <1>2, SumsStart
    <3>2. Right({})
      BY <3>1
    <3> QED
      BY <2>2, <3>2
  <2> DEFINE x == Chosen(t)
             u == t \ {x}
  <2>4. x \in t /\ u \in SUBSET S /\ g[t] = f[x] + g[u]
    BY <1>1, <2>2, <2>3, SumsTurn
  <2>5. k[t] = h[x] + k[u]
    BY <1>2, <2>2, <2>3, SumsTurn
  <2>6. Right(u)
    <3>1. u \notin T
      BY <2>1, <2>4
    <3> QED
      BY <3>1, <2>4
  <2>7. f[x] \in Int /\ h[x] \in Int /\ f[p] \in Int /\ h[p] \in Int
    BY <2>2, <2>4
  <2>8. CASE x = p
    <3>1. c(u) = 0 /\ c(t) = f[p] - h[p]
      BY <2>4, <2>8
    <3> HIDE DEF x, u, c
    <3> QED
      BY <2>2, <2>4, <2>5, <2>6, <2>7, <2>8, <3>1
  <2>9. CASE x # p
    <3>1. c(u) = c(t) /\ c(t) \in Int /\ f[x] = h[x]
      BY <2>2, <2>4, <2>7, <2>9 DEF DifferAt
    <3> HIDE DEF x, u, c
    <3> QED
      BY <2>2, <2>4, <2>5, <2>6, <2>7, <3>1
  <2> QED
    BY <2>8, <2>9
<1>4. Right(S) /\ c(S) = f[p] - h[p]
  BY <1>3
<1>5. DOMAIN f = S /\ DOMAIN h = S
  OBVIOUS
<1> QED
  BY <1>1, <1>2, <1>4, <1>5 DEF SumFunction

(* Of a set of numbers one is smallest. *)
LEMMA SmallestNumber ==
  ASSUME NEW T \in SUBSET Nat, T # {}
  PROVE  \E m \in T : \A k \in T : m <= k
<1>1. PICK m \in T : \A k \in T : ~ (<<k, m>> \in OpToRel(<, Nat))
  BY NatLessThanWellFounded, WFMin
<1>2. ASSUME NEW k \in T PROVE m <= k
  <2>1. ~ (k < m)
    BY <1>1 DEF OpToRel
  <2> QED
    BY <2>1
<1> QED
  BY <1>2

(* x is the first of the points D at which f is largest. *)
First(f, D, x) == \A y \in D : f[y] < f[x] \/ (f[y] = f[x] /\ x <= y)

(* Integers at the points 0..n have a first largest one. *)
LEMMA FirstLargest ==
  ASSUME NEW n \in Nat, NEW f \in [0..n -> Int]
  PROVE  \E x \in 0..n : First(f, 0..n, x)
<1> DEFINE T == {m \in Nat : m <= n /\ ~ \E x \in 0..m : First(f, 0..m, x)}
<1>1. T = {}
  <2> SUFFICES ASSUME T # {} PROVE FALSE
    OBVIOUS
  <2>1. PICK m \in T : \A k \in T : m <= k
    <3>1. T \in SUBSET Nat
      OBVIOUS
    <3> HIDE DEF T
    <3> QED
      BY <3>1, SmallestNumber
  <2>2. m \in Nat /\ m <= n /\ ~ \E x \in 0..m : First(f, 0..m, x)
    OBVIOUS
  <2>3. m # 0
    <3>1. CASE m = 0
      <4>1. 0..m = {0} /\ f[0] \in Int
        BY <3>1
      <4>2. ASSUME NEW y \in 0..m PROVE f[y] = f[0] /\ 0 <= y
        BY <4>1
      <4>3. First(f, 0..m, 0)
        BY <4>2 DEF First
      <4> QED
        BY <2>2, <4>1, <4>3
    <3> QED
      BY <3>1
  <2>4. m - 1 \in Nat /\ m - 1 <= n /\ m - 1 \notin T
    BY <2>1, <2>2, <2>3
  <2>5. PICK x \in 0..(m - 1) : First(f, 0..(m - 1), x)
    BY <2>4
  <2>6. 0..m = (0..(m - 1)) \cup {m} /\ x \in 0..m /\ m \in 0..m
    BY <2>2, <2>3
  <2>7. /\ f[x] \in Int /\ f[m] \in Int /\ x <= m /\ x \in Int
        /\ \A y \in 0..m : f[y] \in Int /\ y <= m
    BY <2>2, <2>6
  <2>8. CASE f[m] > f[x]
    <3>1. ASSUME NEW y \in 0..m PROVE f[y] < f[m] \/ (f[y] = f[m] /\ m <= y)
      <4>1. CASE y \in 0..(m - 1)
        <5>1. f[y] < f[x] \/ f[y] = f[x]
          BY <2>5, <4>1 DEF First
        <5>2. f[y] \in Int /\ f[x] \in Int /\ f[m] \in Int
          BY <2>7
        <5> QED
          BY <2>8, <5>1, <5>2
      <4>2. CASE y = m
        BY <2>7, <4>2
      <4> QED
        BY <2>6, <4>1, <4>2
    <3>2. First(f, 0..m, m)
      BY <3>1 DEF First
    <3> QED
      BY <2>2, <2>6, <3>2
  <2>9. CASE f[m] <= f[x]
    <3>1. ASSUME NEW y \in 0..m PROVE f[y] < f[x] \/ (f[y] = f[x] /\ x <= y)
      <4>1. CASE y \in 0..(m - 1)
        BY <2>5, <4>1 DEF First
      <4>2. CASE y = m
        BY <2>7, <2>9, <4>2
      <4> QED
        BY <2>6, <4>1, <4>2
    <3>2. First(f, 0..m, x)
      BY <3>1 DEF First
    <3> QED
      BY <2>2, <2>6, <3>2
  <2> QED
    BY <2>7, <2>8, <2>9
<1> QED
  BY <1>1

-----------------------------------------------------------------------------
(* The powers of x, up to the turn m. *)
Powers(x, D, p) == p = [turn \in D |-> IF turn = 0 THEN 1 ELSE p[turn - 1] * x]

(* Two of them agree as far as both go. *)
LEMMA PowersAgree ==
  ASSUME NEW x, NEW m \in Nat, NEW n \in Nat, m <= n, NEW p, NEW q,
         Powers(x, 0..m, p), Powers(x, 0..n, q)
  PROVE  p[m] = q[m]
<1> DEFINE T == {k \in Nat : k <= m /\ p[k] # q[k]}
<1>1. T = {}
  <2> SUFFICES ASSUME T # {} PROVE FALSE
    OBVIOUS
  <2>1. PICK k \in T : \A j \in T : k <= j
    <3>1. T \in SUBSET Nat
      OBVIOUS
    <3> HIDE DEF T
    <3> QED
      BY <3>1, SmallestNumber
  <2>2. k \in 0..m /\ k \in 0..n /\ p[k] # q[k]
    OBVIOUS
  <2>3. /\ p[k] = IF k = 0 THEN 1 ELSE p[k - 1] * x
        /\ q[k] = IF k = 0 THEN 1 ELSE q[k - 1] * x
    BY <2>2 DEF Powers
  <2>4. k # 0 => k - 1 \in Nat /\ k - 1 <= m /\ k - 1 \notin T
    BY <2>1, <2>2
  <2> QED
    BY <2>2, <2>3, <2>4
<1> QED
  BY <1>1

(* There are powers up to any turn ... *)
LEMMA PowersUpTo ==
  ASSUME NEW x, NEW n \in Nat
  PROVE  \E p : Powers(x, 0..n, p)
<1> DEFINE T == {m \in Nat : ~ \E p : Powers(x, 0..m, p)}
<1>1. T = {}
  <2> SUFFICES ASSUME T # {} PROVE FALSE
    OBVIOUS
  <2>1. PICK m \in T : \A j \in T : m <= j
    <3>1. T \in SUBSET Nat
      OBVIOUS
    <3> HIDE DEF T
    <3> QED
      BY <3>1, SmallestNumber
  <2>2. m \in Nat /\ ~ \E p : Powers(x, 0..m, p)
    OBVIOUS
  <2>3. CASE m = 0
    <3> DEFINE h == [turn \in 0..m |-> 1]
    <3>1. Powers(x, 0..m, h)
      BY <2>3 DEF Powers
    <3> QED
      BY <2>2, <3>1
  <2>4. CASE m # 0
    <3>1. m - 1 \in Nat /\ m - 1 \notin T
      BY <2>1, <2>2, <2>4
    <3>2. PICK p : Powers(x, 0..(m - 1), p)
      BY <3>1
    <3> DEFINE h == [turn \in 0..m |-> IF turn = m THEN p[m - 1] * x ELSE p[turn]]
    <3>3. ASSUME NEW k \in 0..m PROVE h[k] = IF k = 0 THEN 1 ELSE h[k - 1] * x
      <4>1. CASE k = m
        BY <2>2, <2>4, <4>1
      <4>2. CASE k # m
        <5>1. k \in 0..(m - 1)
          BY <2>2, <4>2
        <5>2. p[k] = IF k = 0 THEN 1 ELSE p[k - 1] * x
          BY <3>2, <5>1 DEF Powers
        <5>3. k # 0 => k - 1 \in 0..m /\ k - 1 # m
          BY <2>2, <5>1
        <5> QED
          BY <4>2, <5>2, <5>3
      <4> QED
        BY <4>1, <4>2
    <3>4. h = [turn \in 0..m |-> h[turn]]
      OBVIOUS
    <3> HIDE DEF h
    <3>5. Powers(x, 0..m, h)
      BY <3>3, <3>4 DEF Powers
    <3> QED
      BY <2>2, <3>5
  <2> QED
    BY <2>3, <2>4
<1> QED
  BY <1>1

(* ... and so there are all powers. *)
LEMMA PowersExist ==
  ASSUME NEW x
  PROVE  \E p : Powers(x, Nat, p)
<1> DEFINE G(n) == CHOOSE p : Powers(x, 0..n, p)
           h == [turn \in Nat |-> G(turn)[turn]]
<1>1. \A n \in Nat : Powers(x, 0..n, G(n))
  BY PowersUpTo
<1> HIDE DEF G
<1>2. ASSUME NEW k \in Nat PROVE h[k] = IF k = 0 THEN 1 ELSE h[k - 1] * x
  <2>1. G(k)[k] = IF k = 0 THEN 1 ELSE G(k)[k - 1] * x
    <3>1. k \in 0..k
      OBVIOUS
    <3> QED
      BY <1>1, <3>1 DEF Powers
  <2>2. k # 0 => G(k)[k - 1] = G(k - 1)[k - 1]
    <3> SUFFICES ASSUME k # 0 PROVE G(k)[k - 1] = G(k - 1)[k - 1]
      OBVIOUS
    <3>1. k - 1 \in Nat /\ k - 1 <= k
      OBVIOUS
    <3>2. Powers(x, 0..(k - 1), G(k - 1)) /\ Powers(x, 0..k, G(k))
      BY <1>1, <3>1
    <3> QED
      BY <3>1, <3>2, PowersAgree
  <2>3. k # 0 => k - 1 \in Nat
    OBVIOUS
  <2> QED
    BY <2>1, <2>2, <2>3
<1>3. h = [turn \in Nat |-> h[turn]]
  OBVIOUS
<1> HIDE DEF h
<1>4. Powers(x, Nat, h)
  BY <1>2, <1>3 DEF Powers
<1> QED
  BY <1>4

(* So Power multiplies once in every turn, and what it multiplies stays in *)
(* a set that is closed under it.                                          *)
LEMMA PowerIn ==
  ASSUME NEW x, NEW S, 1 \in S, \A v \in S : v * x \in S, NEW n \in Nat
  PROVE  Power(x, n) \in S
<1> DEFINE p == CHOOSE q : Powers(x, Nat, q)
<1>1. Power(x, n) = p[n]
  BY DEF Power, Powers
<1>2. Powers(x, Nat, p)
  BY PowersExist
<1> HIDE DEF p
<1>3. ASSUME NEW k \in Nat PROVE p[k] = IF k = 0 THEN 1 ELSE p[k - 1] * x
  BY <1>2 DEF Powers
<1> DEFINE T == {k \in Nat : p[k] \notin S}
<1>4. T = {}
  <2> SUFFICES ASSUME T # {} PROVE FALSE
    OBVIOUS
  <2>1. PICK k \in T : \A j \in T : k <= j
    <3>1. T \in SUBSET Nat
      OBVIOUS
    <3> HIDE DEF T
    <3> QED
      BY <3>1, SmallestNumber
  <2>2. k \in Nat /\ p[k] \notin S
    OBVIOUS
  <2>3. k # 0 => k - 1 \in Nat /\ k - 1 \notin T
    BY <2>1, <2>2
  <2> QED
    BY <1>3, <2>2, <2>3
<1> QED
  BY <1>1, <1>4

(* The powers of an integer are integers. *)
LEMMA PowerIsInt ==
  ASSUME NEW x \in Int, NEW n \in Nat
  PROVE  Power(x, n) \in Int
<1>1. 1 \in Int /\ \A v \in Int : v * x \in Int
  OBVIOUS
<1> QED
  BY <1>1, PowerIn

(* The powers of 2 are positive. *)
LEMMA PowerOfTwo ==
  ASSUME NEW n \in Nat
  PROVE  Power(2, n) \in Nat \ {0}
<1>1. 1 \in Nat \ {0} /\ \A v \in Nat \ {0} : v * 2 \in Nat \ {0}
  OBVIOUS
<1> QED
  BY <1>1, PowerIn

-----------------------------------------------------------------------------
(* Squares: what a PUT can gain. *)

(* The larger square is that of the larger number. *)
LEMMA SquareOrder ==
  ASSUME NEW a \in Nat, NEW b \in Nat, a * a <= b * b
  PROVE  a <= b
<1> SUFFICES ASSUME b < a PROVE FALSE
  OBVIOUS
<1>1. a = b + 1 + (a - b - 1) /\ a - b - 1 \in Nat
  OBVIOUS
<1>2. PICK n \in Nat : a = b + 1 + n
  BY <1>1
<1>3. a * a = b * b + 2 * b + 1 + 2 * (b * n) + 2 * n + n * n
  BY <1>2
<1>4. b * n \in Nat /\ n * n \in Nat /\ b * b \in Nat
  OBVIOUS
<1> QED
  BY <1>3, <1>4

(* How far off a value may be, and its size. *)
Size(d) == IF d < 0 THEN -d ELSE d

(* A value is as large as its square says. *)
LEMMA SizeOrder ==
  ASSUME NEW e \in Int, NEW d \in Int, e * e <= d * d
  PROVE  /\ Size(e) \in Nat /\ Size(d) \in Nat /\ Size(e) <= Size(d)
<1>1. Size(e) \in Nat /\ Size(e) * Size(e) = e * e
  BY DEF Size
<1>2. Size(d) \in Nat /\ Size(d) * Size(d) = d * d
  BY DEF Size
<1> QED
  BY <1>1, <1>2, SquareOrder

(* A change by w, at most 5, takes off no more than the whole square, and  *)
(* no more than a change by 5 to the right side.                           *)
LEMMA GainBounded ==
  ASSUME NEW e \in Int, NEW w \in -5..5
  PROVE  /\ (e - w) * (e - w) - e * e >= -(e * e)
         /\ (e - w) * (e - w) - e * e >= 25 - 10 * Size(e) \/ Size(e) <= 5
<1>1. w \in Int /\ (e - w) \in Int
  OBVIOUS
<1>2. (e - w) * (e - w) >= 0
  BY <1>1
<1>3. (e - w) * (e - w) = e * e - 2 * (e * w) + w * w
  BY <1>1
<1>4. e * e \in Int /\ e * w \in Int /\ w * w \in Int /\ (e - w) * (e - w) \in Int
  BY <1>1
<1>5. ASSUME Size(e) > 5 PROVE w * w - 2 * (e * w) >= 25 - 10 * Size(e)
  <2>1. w \in {-5, -4, -3, -2, -1, 0, 1, 2, 3, 4, 5}
    OBVIOUS
  <2> QED
    BY <1>5, <2>1 DEF Size
<1>6. Size(e) \in Int
  BY DEF Size
<1> QED
  BY <1>2, <1>3, <1>4, <1>5, <1>6

-----------------------------------------------------------------------------
(* Sequences: a message that moves on keeps its place. *)

(* Nothing is made of nothing. *)
LEMMA NothingJoined ==
  ASSUME NEW S, NEW a \in Seq(S), NEW b \in Seq(S), a \o b = <<>>
  PROVE  a = <<>> /\ b = <<>>
<1>1. Len(a) \in Nat /\ Len(b) \in Nat /\ Len(a \o b) = Len(a) + Len(b)
  BY ConcatProperties, LenProperties
<1>2. Len(a) = 0 /\ Len(b) = 0
  BY <1>1, EmptySeq
<1> QED
  BY <1>2, EmptySeq

(* The same of four. *)
LEMMA AllEmpty ==
  ASSUME NEW S, NEW a \in Seq(S), NEW b \in Seq(S), NEW c \in Seq(S), NEW d \in Seq(S),
         ((a \o b) \o c) \o d = <<>>
  PROVE  a = <<>> /\ b = <<>> /\ c = <<>> /\ d = <<>>
<1>1. PICK ab \in Seq(S) : ab = a \o b
  BY ConcatProperties
<1>2. PICK abc \in Seq(S) : abc = ab \o c
  BY ConcatProperties
<1>3. abc \o d = <<>>
  BY <1>1, <1>2
<1>4. abc = <<>> /\ d = <<>>
  BY <1>3, NothingJoined
<1>5. ab \o c = <<>>
  BY <1>2, <1>4
<1>6. ab = <<>> /\ c = <<>>
  BY <1>5, NothingJoined
<1>7. a \o b = <<>>
  BY <1>1, <1>6
<1>8. a = <<>> /\ b = <<>>
  BY <1>7, NothingJoined
<1> QED
  BY <1>4, <1>6, <1>8

(* A sequence of one. *)
LEMMA Single ==
  ASSUME NEW S, NEW a \in Seq(S), Len(a) <= 1, a # <<>>
  PROVE  /\ a[1] \in S /\ Head(a) = a[1] /\ Tail(a) = <<>> /\ Len(a) = 1
         /\ a = <<a[1]>>
<1>1. Len(a) = 1 /\ DOMAIN a = 1..1 /\ a[1] \in S
  <2>1. Len(a) \in Nat /\ DOMAIN a = 1..Len(a) /\ \A i \in 1..Len(a) : a[i] \in S
    BY LenProperties, ElementOfSeq
  <2>2. Len(a) # 0
    BY EmptySeq
  <2>3. Len(a) = 1
    BY <2>1, <2>2
  <2>4. 1 \in 1..1
    OBVIOUS
  <2> QED
    BY <2>1, <2>3, <2>4
<1>2. a = <<a[1]>>
  <2>1. <<a[1]>> \in Seq(S) /\ Len(<<a[1]>>) = 1 /\ <<a[1]>>[1] = a[1]
    BY <1>1
  <2> QED
    BY <1>1, <2>1, SeqEqual
<1>3. Head(a) = a[1]
  OBVIOUS
<1>4. Tail(a) = <<>>
  <2>1. Tail(a) \in Seq(S) /\ Len(Tail(a)) = 0
    BY <1>1, HeadTailProperties
  <2> QED
    BY <2>1, EmptySeq
<1> QED
  BY <1>1, <1>2, <1>3, <1>4

(* The first, and what is behind it. *)
LEMMA HeadFirst ==
  ASSUME NEW S, NEW a \in Seq(S), a # <<>>
  PROVE  Head(a) \in S /\ Tail(a) \in Seq(S) /\ a = <<Head(a)>> \o Tail(a)
<1>1. /\ Head(a) \in S /\ Tail(a) \in Seq(S) /\ Len(Tail(a)) = Len(a) - 1
      /\ \A i \in 1..Len(Tail(a)) : Tail(a)[i] = a[i + 1]
      /\ Len(a) \in Nat \ {0} /\ Head(a) = a[1]
  BY HeadTailProperties, EmptySeq, LenProperties
<1>2. <<Head(a)>> \in Seq(S) /\ Len(<<Head(a)>>) = 1 /\ <<Head(a)>>[1] = a[1]
  BY <1>1
<1> DEFINE h == <<Head(a)>>
           t == Tail(a)
<1>3. /\ h \o t \in Seq(S) /\ Len(h \o t) = Len(a)
      /\ \A i \in 1..Len(a) : (h \o t)[i] = IF i <= 1 THEN h[i] ELSE t[i - 1]
  <2> HIDE DEF h, t
  <2>1. h \in Seq(S) /\ t \in Seq(S) /\ Len(h) = 1 /\ Len(t) = Len(a) - 1 /\ Len(a) \in Nat
    BY <1>1, <1>2 DEF h, t
  <2>2. /\ h \o t \in Seq(S) /\ Len(h \o t) = Len(h) + Len(t)
        /\ \A i \in 1..(Len(h) + Len(t)) :
              (h \o t)[i] = IF i <= Len(h) THEN h[i] ELSE t[i - Len(h)]
    BY <2>1, ConcatProperties
  <2> QED
    BY <2>1, <2>2
<1>4. ASSUME NEW i \in 1..Len(a) PROVE (h \o t)[i] = a[i]
  <2>1. CASE i = 1
    BY <1>2, <1>3, <2>1
  <2>2. CASE i # 1
    <3>1. (h \o t)[i] = t[i - 1]
      BY <1>3, <2>2
    <3>2. i - 1 \in 1..Len(t) /\ (i - 1) + 1 = i
      BY <1>1, <2>2
    <3> QED
      BY <1>1, <3>1, <3>2
  <2> QED
    BY <2>1, <2>2
<1> HIDE DEF h, t
<1>5. a = h \o t
  BY <1>3, <1>4, SeqEqual
<1> QED
  BY <1>1, <1>5 DEF h, t

(* Where the brackets are does not matter. *)
Regroups(a, b, c) == (a \o b) \o c = a \o (b \o c)

(* ... for any three sequences. *)
LEMMA Regrouped ==
  ASSUME NEW S, NEW a \in Seq(S), NEW b \in Seq(S), NEW c \in Seq(S)
  PROVE  Regroups(a, b, c)
BY ConcatAssociative DEF Regroups

(* A thread takes the first message of its queue ... *)
LEMMA Picked ==
  ASSUME NEW S, NEW a \in Seq(S), NEW q \in Seq(S), q # <<>>
  PROVE  (a \o <<Head(q)>>) \o Tail(q) = (a \o <<>>) \o q
<1>1. Head(q) \in S /\ Tail(q) \in Seq(S) /\ q = <<Head(q)>> \o Tail(q)
  BY HeadFirst
<1>2. <<Head(q)>> \in Seq(S)
  BY <1>1
<1>3. Regroups(a, <<Head(q)>>, Tail(q))
  BY <1>1, <1>2, Regrouped
<1> QED
  BY <1>1, <1>3, ConcatEmptySeq DEF Regroups

(* ... passes it on ... *)
LEMMA PassedOn ==
  ASSUME NEW S, NEW a \in Seq(S), NEW m \in Seq(S), Len(m) <= 1, m # <<>>
  PROVE  Append(a, m[1]) \o <<>> = a \o m
<1>1. m[1] \in S /\ m = <<m[1]>>
  BY Single
<1>2. Append(a, m[1]) = a \o <<m[1]>> /\ Append(a, m[1]) \in Seq(S)
  BY <1>1, AppendIsConcat, AppendProperties
<1> QED
  BY <1>1, <1>2, ConcatEmptySeq

(* ... or puts it into the next queue. *)
Queues(a, q, m) == (a \o (q \o m)) \o <<>> = (a \o q) \o m

(* It still has its place. *)
LEMMA Queued ==
  ASSUME NEW S, NEW a \in Seq(S), NEW q \in Seq(S), NEW m \in Seq(S)
  PROVE  Queues(a, q, m)
<1>1. q \o m \in Seq(S) /\ a \o (q \o m) \in Seq(S)
  BY ConcatProperties
<1>2. Regroups(a, q, m)
  BY Regrouped
<1> QED
  BY <1>1, <1>2, ConcatEmptySeq DEF Regroups, Queues

(* What is received in one go leaves the wire and enters the queue. *)
LEMMA Parted ==
  ASSUME NEW S, NEW c \in Seq(S), NEW n \in 1..Len(c)
  PROVE  /\ SubSeq(c, 1, n) \in Seq(S) /\ SubSeq(c, n + 1, Len(c)) \in Seq(S)
         /\ SubSeq(c, 1, n) \o SubSeq(c, n + 1, Len(c)) = c
<1> DEFINE x == SubSeq(c, 1, n)
           y == SubSeq(c, n + 1, Len(c))
<1>1. x \in Seq(S) /\ y \in Seq(S)
  <2>1. Len(c) \in Nat /\ \A i \in 1..Len(c) : c[i] \in S
    BY LenProperties, ElementOfSeq
  <2>2. 1 \in Int /\ n \in Int /\ n + 1 \in Int /\ Len(c) \in Int
    BY <2>1
  <2>3. \A i \in 1..n : c[i] \in S
    BY <2>1
  <2>4. \A i \in (n + 1)..Len(c) : c[i] \in S
    BY <2>1
  <2>5. x \in Seq(S)
    BY <2>2, <2>3, SubSeqProperties
  <2>6. y \in Seq(S)
    BY <2>2, <2>4, SubSeqProperties
  <2> QED
    BY <2>5, <2>6
<1>2. x \o y = c
  <2>1. 1 \in 1..(Len(c) + 1) /\ n \in (1 - 1)..Len(c) /\ Len(c) \in n..Len(c)
    BY LenProperties
  <2>2. x \o y = SubSeq(c, 1, Len(c))
    BY <2>1, ConcatAdjacentSubSeq
  <2> QED
    BY <2>2, SubSeqFull
<1> QED
  BY <1>1, <1>2

Receives(a, q, b, d) == (a \o (q \o b)) \o d = (a \o q) \o (b \o d)

(* ... whatever they are. *)
LEMMA Received ==
  ASSUME NEW S, NEW a \in Seq(S), NEW q \in Seq(S), NEW b \in Seq(S), NEW d \in Seq(S)
  PROVE  Receives(a, q, b, d)
<1>1. PICK aq \in Seq(S) : aq = a \o q
  BY ConcatProperties
<1>2. Regroups(a, q, b) /\ Regroups(aq, b, d)
  BY Regrouped
<1>3. (aq \o b) \o d = aq \o (b \o d)
  BY <1>2 DEF Regroups
<1>4. aq \o b = a \o (q \o b)
  BY <1>1, <1>2 DEF Regroups
<1> QED
  BY <1>1, <1>3, <1>4 DEF Receives

(* The first of all is taken out. *)
LEMMA TakenOut ==
  ASSUME NEW S, NEW a \in Seq(S), NEW b \in Seq(S), a # <<>>
  PROVE  /\ a \o b # <<>> /\ Head(a \o b) = Head(a) /\ Tail(a) \o b = Tail(a \o b)
<1>1. /\ Tail(a) \in Seq(S) /\ Len(Tail(a)) = Len(a) - 1
      /\ \A i \in 1..Len(Tail(a)) : Tail(a)[i] = a[i + 1]
      /\ Len(a) \in Nat \ {0} /\ Len(b) \in Nat /\ Head(a) = a[1]
  BY HeadTailProperties, EmptySeq, LenProperties
<1> DEFINE ab == a \o b
           t == Tail(a)
           tb == t \o b
<1>2. /\ ab \in Seq(S) /\ Len(ab) = Len(a) + Len(b)
      /\ \A i \in 1..(Len(a) + Len(b)) : ab[i] = IF i <= Len(a) THEN a[i] ELSE b[i - Len(a)]
  BY ConcatProperties
<1>3. /\ tb \in Seq(S) /\ Len(tb) = Len(t) + Len(b)
      /\ \A i \in 1..(Len(t) + Len(b)) : tb[i] = IF i <= Len(t) THEN t[i] ELSE b[i - Len(t)]
  BY <1>1, ConcatProperties
<1> HIDE DEF ab, tb, t
<1>4. ab # <<>> /\ Head(ab) = ab[1]
  BY <1>1, <1>2, EmptySeq
<1>5. ab[1] = a[1]
  BY <1>1, <1>2
<1>6. /\ Tail(ab) \in Seq(S) /\ Len(Tail(ab)) = Len(ab) - 1
      /\ \A i \in 1..Len(Tail(ab)) : Tail(ab)[i] = ab[i + 1]
  BY <1>2, <1>4, HeadTailProperties
<1>7. Len(tb) = Len(Tail(ab)) /\ Len(tb) = Len(a) - 1 + Len(b) /\ Len(t) = Len(a) - 1
  BY <1>1, <1>2, <1>3, <1>6 DEF t
<1>8. ASSUME NEW i \in 1..Len(tb) PROVE tb[i] = Tail(ab)[i]
  <2>1. i \in Int /\ i + 1 \in 1..(Len(a) + Len(b)) /\ i \in 1..(Len(t) + Len(b))
    BY <1>1, <1>3, <1>7
  <2>2. Tail(ab)[i] = ab[i + 1]
    BY <1>6, <1>7
  <2>3. CASE i <= Len(t)
    <3>1. tb[i] = t[i] /\ t[i] = a[i + 1]
      BY <1>1, <1>3, <1>7, <2>1, <2>3 DEF t
    <3>2. ab[i + 1] = a[i + 1]
      BY <1>1, <1>2, <1>7, <2>1, <2>3
    <3> QED
      BY <2>2, <3>1, <3>2
  <2>4. CASE i > Len(t)
    <3>1. tb[i] = b[i - Len(t)]
      BY <1>1, <1>3, <1>7, <2>1, <2>4
    <3>2. ab[i + 1] = b[(i + 1) - Len(a)] /\ (i + 1) - Len(a) = i - Len(t)
      BY <1>1, <1>2, <1>7, <2>1, <2>4
    <3> QED
      BY <2>2, <3>1, <3>2
  <2> QED
    BY <1>1, <1>7, <2>1, <2>3, <2>4
<1>9. tb = Tail(ab)
  BY <1>3, <1>6, <1>7, <1>8, SeqEqual
<1> QED
  BY <1>1, <1>4, <1>5, <1>9 DEF ab, tb, t

(* One more at the end. *)
LEMMA PutBehind ==
  ASSUME NEW S, NEW a \in Seq(S), NEW b \in Seq(S), NEW e \in S
  PROVE  a \o Append(b, e) = Append(a \o b, e)
<1>1. <<e>> \in Seq(S) /\ a \o b \in Seq(S)
  BY ConcatProperties
<1>2. Append(b, e) = b \o <<e>> /\ Append(a \o b, e) = (a \o b) \o <<e>>
  BY <1>1, AppendIsConcat
<1>3. Regroups(a, b, <<e>>)
  BY <1>1, Regrouped
<1> QED
  BY <1>2, <1>3 DEF Regroups

(* The first of what four hold. *)
FrontOfFour(a, b, c, d) ==
    /\ ((a \o b) \o c) \o d # <<>>
    /\ Head(((a \o b) \o c) \o d) = Head(a)
    /\ ((Tail(a) \o b) \o c) \o d = Tail(((a \o b) \o c) \o d)

(* ... for any four, the first of which is not empty. *)
LEMMA FirstOfFour ==
  ASSUME NEW S, NEW a \in Seq(S), NEW b \in Seq(S), NEW c \in Seq(S), NEW d \in Seq(S), a # <<>>
  PROVE  FrontOfFour(a, b, c, d)
<1>1. PICK ab \in Seq(S) : ab = a \o b
  BY ConcatProperties
<1>2. PICK abc \in Seq(S) : abc = ab \o c
  BY ConcatProperties
<1>3. ab # <<>> /\ Head(ab) = Head(a) /\ Tail(a) \o b = Tail(ab)
  BY <1>1, TakenOut
<1>4. abc # <<>> /\ Head(abc) = Head(ab) /\ Tail(ab) \o c = Tail(abc)
  BY <1>2, <1>3, TakenOut
<1>5. abc \o d # <<>> /\ Head(abc \o d) = Head(abc) /\ Tail(abc) \o d = Tail(abc \o d)
  BY <1>4, TakenOut
<1> QED
  BY <1>1, <1>2, <1>3, <1>4, <1>5 DEF FrontOfFour

(* A part from the front: its length, and what it is if it is short. *)
IsShort(s, y, m) ==
    /\ Len(s) \in Nat /\ Len(y) \in Nat /\ Len(s \o y) = Len(s) + Len(y)
    /\ \A i \in 1..Len(s) : (s \o y)[i] = s[i]
    /\ Len(s) = 0 => s = <<>>
    /\ Len(s) = 1 /\ s[1] = m => s = <<m>>

(* ... for any sequences. *)
LEMMA ShortFront ==
  ASSUME NEW S, NEW s \in Seq(S), NEW y \in Seq(S), NEW m \in S
  PROVE  IsShort(s, y, m)
<1>1. /\ Len(s) \in Nat /\ Len(y) \in Nat /\ Len(s \o y) = Len(s) + Len(y)
      /\ \A i \in 1..(Len(s) + Len(y)) :
            (s \o y)[i] = IF i <= Len(s) THEN s[i] ELSE y[i - Len(s)]
  BY ConcatProperties, LenProperties
<1>2. \A i \in 1..Len(s) : (s \o y)[i] = s[i]
  BY <1>1
<1>3. Len(s) = 0 => s = <<>>
  BY EmptySeq
<1>4. <<m>> \in Seq(S) /\ Len(<<m>>) = 1 /\ <<m>>[1] = m
  OBVIOUS
<1>5. Len(s) = 1 /\ s[1] = m => s = <<m>>
  <2>1. ASSUME Len(s) = 1, s[1] = m, NEW i \in 1..Len(s) PROVE s[i] = <<m>>[i]
    BY <1>4, <2>1
  <2> QED
    BY <1>4, <2>1, SeqEqual
<1> QED
  BY <1>1, <1>2, <1>3, <1>5 DEF IsShort

(* A part from the front of one message ... *)
LEMMA Front ==
  ASSUME NEW S, NEW s \in Seq(S), NEW y \in Seq(S), NEW m \in S, s \o y = <<m>>
  PROVE  s = <<>> \/ s = <<m>>
<1>1. /\ Len(s) \in Nat /\ Len(y) \in Nat /\ Len(s \o y) = Len(s) + Len(y)
      /\ \A i \in 1..Len(s) : (s \o y)[i] = s[i]
      /\ Len(s) = 0 => s = <<>>
      /\ Len(s) = 1 /\ s[1] = m => s = <<m>>
  <2>1. IsShort(s, y, m)
    BY ShortFront
  <2> QED
    BY <2>1 DEF IsShort
<1>2. Len(<<m>>) = 1 /\ <<m>>[1] = m
  OBVIOUS
<1>3. Len(s) = 0 \/ Len(s) = 1
  BY <1>1, <1>2
<1>4. Len(s) = 1 => s[1] = m
  BY <1>1, <1>2
<1> QED
  BY <1>1, <1>3, <1>4

(* ... and of two.                                                         *)
LEMMA Fronts ==
  ASSUME NEW S, NEW s \in Seq(S), NEW y \in Seq(S), NEW m \in S, NEW e \in S,
         s \o y = Append(<<m>>, e)
  PROVE  s = <<>> \/ s = <<m>> \/ s = Append(<<m>>, e)
<1> DEFINE me == Append(<<m>>, e)
<1>1. /\ Len(s) \in Nat /\ Len(y) \in Nat /\ Len(s \o y) = Len(s) + Len(y)
      /\ \A i \in 1..Len(s) : (s \o y)[i] = s[i]
      /\ Len(s) = 0 => s = <<>>
      /\ Len(s) = 1 /\ s[1] = m => s = <<m>>
  <2>1. IsShort(s, y, m)
    BY ShortFront
  <2> QED
    BY <2>1 DEF IsShort
<1>2. me \in Seq(S) /\ Len(me) = 2 /\ me[1] = m /\ me[2] = e /\ s \o y = me
  <2>1. PICK t \in Seq(S) : t = <<m>> /\ Len(t) = 1 /\ t[1] = m
    OBVIOUS
  <2>2. /\ Append(t, e) \in Seq(S) /\ Len(Append(t, e)) = Len(t) + 1
        /\ \A i \in 1..Len(t) : Append(t, e)[i] = t[i]
        /\ Append(t, e)[Len(t) + 1] = e
    BY AppendProperties
  <2> QED
    BY <2>1, <2>2
<1> HIDE DEF me
<1>3. Len(s) = 0 \/ Len(s) = 1 \/ Len(s) = 2
  <2>1. PICK n \in Nat, k \in Nat : n = Len(s) /\ k = Len(y)
    BY <1>1
  <2>2. n + k = 2
    BY <1>1, <1>2, <2>1
  <2>3. n = 0 \/ n = 1 \/ n = 2
    BY <2>2
  <2> QED
    BY <2>1, <2>3
<1>4. ASSUME Len(s) = 1 PROVE s[1] = m
  <2>1. 1 \in 1..Len(s)
    BY <1>4
  <2>2. (s \o y)[1] = s[1]
    BY <1>1, <2>1
  <2> QED
    BY <1>2, <2>2
<1>5. ASSUME Len(s) = 2 PROVE s = me
  <2>1. \A i \in 1..Len(s) : s[i] = me[i]
    BY <1>1, <1>2
  <2> QED
    BY <1>2, <1>5, <2>1, SeqEqual
<1> QED
  BY <1>1, <1>3, <1>4, <1>5 DEF me

=============================================================================
