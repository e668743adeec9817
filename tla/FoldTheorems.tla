--------------------------- MODULE FoldTheorems ---------------------------
(***************************************************************************)
(* Sums and folds of the community modules over finite sets and over       *)
(* sequences: SumFunctionOnSet, FoldLeft, Max and Cardinality.  Their      *)
(* definitions choose a recursive function, so each fact is proved from an *)
(* induction over the subsets of a finite set that needs no operator       *)
(* parameter (a set of counterexamples has a smallest member).             *)
(***************************************************************************)
EXTENDS Integers, FiniteSets, Sequences, SequencesExt, FiniteSetTheorems,
        WellFoundedInduction, TLAPS

-----------------------------------------------------------------------------
(* Induction over a finite set without an operator parameter *)

\* A set of subsets of a finite set has a member that no other member is part of.
LEMMA SmallestSubset ==
    ASSUME NEW S, IsFiniteSet(S), NEW T, T \subseteq SUBSET S, T # {}
    PROVE  \E U \in T : \A V \in T : V \subseteq U => V = U
  <1> DEFINE R == StrictSubsetOrdering(S)
  <1>1. IsWellFoundedOn(R, SUBSET S) BY FS_StrictSubsetOrderingWellFounded, FS_FiniteSubsetsOfFinite
  <1>2. \E x \in T : \A y \in T : ~ (<< y, x >> \in R)
    <2> HIDE DEF R
    <2> QED BY <1>1, WFMin
  <1> QED BY <1>2 DEF StrictSubsetOrdering

-----------------------------------------------------------------------------
(* Recursion over the subsets of a finite set *)

Picks(c, S) == \A s \in SUBSET S : s # {} => c[s] \in s

Iterates(g, base, h, c, S) ==
    g = [s \in SUBSET S |-> IF s = {} THEN base ELSE h[c[s]][g[s \ {c[s]}]]]

\* The tables of two folds over subsets agree wherever both are defined.
LEMMA IteratesAgree ==
    ASSUME NEW g, NEW k, NEW base, NEW h, NEW c, NEW U, NEW V, IsFiniteSet(U), Picks(c, U),
           Iterates(g, base, h, c, U), Iterates(k, base, h, c, V),
           NEW s \in SUBSET U, s \in SUBSET V
    PROVE  g[s] = k[s]
  <1> DEFINE T == {t \in SUBSET U : t \in SUBSET V /\ g[t] # k[t]}
  <1>1. ASSUME T # {} PROVE FALSE
    <2>1. PICK t \in T : \A v \in T : v \subseteq t => v = t
      <3>1. T \subseteq SUBSET U OBVIOUS
      <3> HIDE DEF T
      <3> QED BY <1>1, <3>1, SmallestSubset
    <2>2. t # {} BY <2>1 DEF Iterates
    <2>2a. c[t] \in t BY <2>1, <2>2 DEF Picks
    <2>3. t \ {c[t]} \notin T BY <2>1, <2>2, <2>2a
    <2>4. g[t \ {c[t]}] = k[t \ {c[t]}] BY <2>1, <2>3
    <2>5. g[t] = h[c[t]][g[t \ {c[t]}]] BY <2>1, <2>2 DEF Iterates
    <2>6. k[t] = h[c[t]][k[t \ {c[t]}]] BY <2>1, <2>2 DEF Iterates
    <2> QED BY <2>1, <2>4, <2>5, <2>6
  <1> QED BY <1>1

\* A fold over a finite set has a table.
LEMMA IteratesExists ==
    ASSUME NEW base, NEW h, NEW c, NEW S, IsFiniteSet(S), Picks(c, S)
    PROVE  \E g : Iterates(g, base, h, c, S)
  <1> DEFINE T == {t \in SUBSET S : ~ \E g : Iterates(g, base, h, c, t)}
  <1>1. ASSUME T # {} PROVE FALSE
    <2>1. PICK t \in T : \A v \in T : v \subseteq t => v = t
      <3>1. T \subseteq SUBSET S OBVIOUS
      <3> HIDE DEF T
      <3> QED BY <1>1, <3>1, SmallestSubset
    <2> DEFINE G(v) == CHOOSE g : Iterates(g, base, h, c, v)
               q    == [s \in SUBSET t |-> IF s = {} THEN base ELSE h[c[s]][G(s \ {c[s]})[s \ {c[s]}]]]
    <2>2. ASSUME NEW v \in SUBSET t, v # t PROVE Iterates(G(v), base, h, c, v) BY <2>1, <2>2
    <2>3. ASSUME NEW s \in SUBSET t, s # {}
          PROVE  q[s \ {c[s]}] = G(s \ {c[s]})[s \ {c[s]}]
      <3> DEFINE u == s \ {c[s]}
                 w == u \ {c[u]}
      <3>1. u \in SUBSET t /\ u # t BY <2>1, <2>3 DEF Picks
      <3>2. Iterates(G(u), base, h, c, u) BY <2>2, <3>1
      <3>3. CASE u = {} BY <3>1, <3>2, <3>3 DEF Iterates
      <3>4. CASE u # {}
        <4>1. w \in SUBSET u /\ w \in SUBSET t /\ w # t BY <2>1, <3>1, <3>4 DEF Picks
        <4>2. Iterates(G(w), base, h, c, w) BY <2>2, <4>1
        <4>3. IsFiniteSet(w) BY <2>1, <4>1, FS_Subset
        <4>4. G(u)[w] = G(w)[w] BY <2>1, <4>1, <3>2, <4>2, <4>3, IteratesAgree DEF Picks
        <4>5. G(u)[u] = h[c[u]][G(u)[w]] BY <3>2, <3>4 DEF Iterates
        <4>6. q[u] = h[c[u]][G(w)[w]] BY <3>1, <3>4
        <4> QED BY <4>4, <4>5, <4>6
      <3> QED BY <3>3, <3>4
    <2>4. q = [s \in SUBSET t |-> IF s = {} THEN base ELSE h[c[s]][q[s \ {c[s]}]]]
      <3> DEFINE k == [s \in SUBSET t |-> IF s = {} THEN base ELSE h[c[s]][q[s \ {c[s]}]]]
      <3>1. ASSUME NEW s \in SUBSET t PROVE q[s] = k[s]
        <4>1. CASE s = {} BY <4>1
        <4>2. CASE s # {}
          <5>1. q[s] = h[c[s]][G(s \ {c[s]})[s \ {c[s]}]] BY <4>2
          <5>2. k[s] = h[c[s]][q[s \ {c[s]}]] BY <4>2
          <5> HIDE DEF G, q, k
          <5> QED BY <2>3, <4>2, <5>1, <5>2
        <4> QED BY <4>1, <4>2
      <3> QED BY <3>1
    <2>5. Iterates(q, base, h, c, t) BY <2>4 DEF Iterates
    <2> QED BY <2>1, <2>5
  <1>2. S \notin T BY <1>1
  <1> QED BY <1>2

\* Whatever follows the recursion for values in T has its values in T, and is
\* that function
Follows(g, base, h, c, S, T) ==
    /\ \E U : g \in [SUBSET S -> U]
    /\ base \in T
    /\ \A x \in S : h[x] \in [T -> T]
    /\ g[{}] = base
    /\ \A s \in SUBSET S : s # {} /\ g[s \ {c[s]}] \in T => g[s] = h[c[s]][g[s \ {c[s]}]]

\* Every entry of that table is of the type the fold keeps.
LEMMA IteratesTyped ==
    ASSUME NEW S, IsFiniteSet(S), NEW c, Picks(c, S), NEW T, NEW base, NEW h, NEW g,
           Follows(g, base, h, c, S, T)
    PROVE  g \in [SUBSET S -> T] /\ Iterates(g, base, h, c, S)
  <1>0. PICK U : /\ g \in [SUBSET S -> U]
                 /\ base \in T
                 /\ \A x \in S : h[x] \in [T -> T]
                 /\ g[{}] = base
                 /\ \A s \in SUBSET S : s # {} /\ g[s \ {c[s]}] \in T => g[s] = h[c[s]][g[s \ {c[s]}]]
    BY DEF Follows
  <1> DEFINE B == {s \in SUBSET S : g[s] \notin T}
  <1>1. ASSUME B # {} PROVE FALSE
    <2>1. PICK s \in B : \A v \in B : v \subseteq s => v = s
      <3>1. B \subseteq SUBSET S OBVIOUS
      <3> HIDE DEF B
      <3> QED BY <1>1, <3>1, SmallestSubset
    <2>2. s # {} BY <1>0, <2>1
    <2>3. c[s] \in s /\ c[s] \in S BY <2>1, <2>2 DEF Picks
    <2>4. g[s \ {c[s]}] \in T BY <1>0, <2>1, <2>3
    <2>5. g[s] = h[c[s]][g[s \ {c[s]}]] BY <1>0, <2>1, <2>2, <2>4
    <2> QED BY <1>0, <2>1, <2>3, <2>4, <2>5
  <1>2. \A s \in SUBSET S : g[s] = IF s = {} THEN base ELSE h[c[s]][g[s \ {c[s]}]] BY <1>0, <1>1
  <1>3. Iterates(g, base, h, c, S) BY <1>0, <1>2 DEF Iterates
  <1> QED BY <1>0, <1>1, <1>3

-----------------------------------------------------------------------------
(* The laws of sums *)

Pick(s) == CHOOSE x \in s : TRUE

\* What a sum is, for the element taken first
LEMMA SumUnfolds ==
    ASSUME NEW f, NEW S, IsFiniteSet(S), \A x \in S : f[x] \in Int
    PROVE  SumFunctionOnSet(f, S) = IF S = {} THEN 0 ELSE f[Pick(S)] + SumFunctionOnSet(f, S \ {Pick(S)})
  <1> DEFINE c        == [s \in SUBSET S |-> Pick(s)]
             T        == Int
             h        == [x \in S |-> [y \in T |-> f[x] + y]]
             Eq(g, V) == g = [s \in SUBSET V |-> IF s = {} THEN 0 ELSE f[Pick(s)] + g[s \ {Pick(s)}]]
             G(V)     == CHOOSE g : Eq(g, V)
  <1>1. ASSUME NEW V PROVE SumFunctionOnSet(f, V) = G(V)[V]
    BY DEF SumFunctionOnSet, FoldFunctionOnSet, MapThenFoldSet, Pick
  <1>2. ASSUME NEW V \in SUBSET S PROVE G(V) \in [SUBSET V -> T] /\ Iterates(G(V), 0, h, c, V)
    <2>1. IsFiniteSet(V) /\ Picks(c, V) /\ 0 \in T /\ \A x \in V : h[x] \in [T -> T]
      BY FS_Subset DEF Picks, Pick
    <2>2. ASSUME NEW g PROVE Iterates(g, 0, h, c, V) => Eq(g, V)
      <3>1. HAVE Iterates(g, 0, h, c, V)
      <3>2. g = [s \in SUBSET V |-> IF s = {} THEN 0 ELSE h[c[s]][g[s \ {c[s]}]]] BY <3>1 DEF Iterates
      <3>2a. PICK U : g \in [SUBSET V -> U]
        <4>1. g \in [SUBSET V -> {g[s] : s \in SUBSET V}]
          <5> HIDE DEF c, h
          <5> QED BY <3>2
        <4> QED BY <4>1
      <3>3. /\ g[{}] = 0
            /\ \A s \in SUBSET V : s # {} /\ g[s \ {c[s]}] \in T => g[s] = h[c[s]][g[s \ {c[s]}]]
        BY <3>2
      <3>3a. Follows(g, 0, h, c, V, T)
        <4> HIDE DEF c, h, T
        <4> QED BY <2>1, <3>2a, <3>3 DEF Follows
      <3>4. g \in [SUBSET V -> T]
        <4> HIDE DEF c, h, T
        <4> QED BY <2>1, <3>3a, IteratesTyped
      <3>5. \A s \in SUBSET V : s # {} => h[c[s]][g[s \ {c[s]}]] = f[Pick(s)] + g[s \ {Pick(s)}]
        BY <3>4 DEF Pick
      <3> QED BY <3>2, <3>5
    <2>3. Eq(G(V), V)
      <3>1. \E g : Iterates(g, 0, h, c, V)
        <4> HIDE DEF c, h
        <4> QED BY <2>1, IteratesExists
      <3> QED BY <2>2, <3>1
    <2> HIDE DEF G
    <2>4. PICK U : G(V) \in [SUBSET V -> U] /\ G(V)[{}] = 0
      <3>1. G(V) \in [SUBSET V -> {G(V)[s] : s \in SUBSET V}] /\ G(V)[{}] = 0 BY <2>3
      <3> QED BY <3>1
    <2>5. ASSUME NEW s \in SUBSET V, s # {}, G(V)[s \ {c[s]}] \in T
          PROVE  G(V)[s] = h[c[s]][G(V)[s \ {c[s]}]]
      BY <2>3, <2>5 DEF Pick
    <2> HIDE DEF c, h, T
    <2>6. Follows(G(V), 0, h, c, V, T) BY <2>1, <2>4, <2>5 DEF Follows
    <2> QED BY <2>1, <2>6, IteratesTyped
  <1> DEFINE R == S \ {Pick(S)}
  <1>3. S \in SUBSET S /\ R \in SUBSET S /\ R \in SUBSET R /\ IsFiniteSet(R) /\ Picks(c, R)
    BY FS_RemoveElement DEF Picks, Pick
  <1>4. Iterates(G(S), 0, h, c, S) /\ Iterates(G(R), 0, h, c, R) BY <1>2, <1>3
  <1>5. G(R)[R] = G(S)[R]
    <2> HIDE DEF G, R, c, h
    <2> QED BY <1>3, <1>4, IteratesAgree
  <1>6. CASE S = {}
    <2>1. G(S)[S] = 0
      <3> HIDE DEF G, h, c
      <3> QED BY <1>4, <1>6 DEF Iterates
    <2> HIDE DEF G
    <2> QED BY <1>1, <1>6, <2>1
  <1>7. CASE S # {}
    <2>1. G(S)[S] = h[c[S]][G(S)[S \ {c[S]}]] /\ c[S] = Pick(S)
      <3>1. c[S] = Pick(S) OBVIOUS
      <3>2. S \in SUBSET S OBVIOUS
      <3> HIDE DEF G, h, c
      <3>3. G(S)[S] = h[c[S]][G(S)[S \ {c[S]}]] BY <1>4, <1>7, <3>2 DEF Iterates
      <3> QED BY <3>1, <3>3
    <2>2. G(S)[R] \in T
      <3>1. G(S) \in [SUBSET S -> T] /\ R \in SUBSET S BY <1>2, <1>3
      <3> HIDE DEF G, T, R
      <3> QED BY <3>1
    <2>3. Pick(S) \in S BY <1>7 DEF Pick
    <2>4. h[Pick(S)][G(S)[R]] = f[Pick(S)] + G(S)[R]
      <3> HIDE DEF G, c, R
      <3> QED BY <2>2, <2>3
    <2> HIDE DEF G, h, c
    <2> QED BY <1>1, <1>5, <1>7, <2>1, <2>4
  <1> QED BY <1>6, <1>7


\* The sum over no elements (Sum of Receivables.tla with nothing to add).
LEMMA SumEmpty == ASSUME NEW f PROVE SumFunctionOnSet(f, {}) = 0
  BY FS_EmptySet, SumUnfolds

\* A sum of whole numbers is one, and any element may be taken first
LEMMA SumTakes ==
    ASSUME NEW f, NEW S, IsFiniteSet(S), \A x \in S : f[x] \in Int
    PROVE  /\ SumFunctionOnSet(f, S) \in Int
           /\ \A x \in S : SumFunctionOnSet(f, S) = f[x] + SumFunctionOnSet(f, S \ {x})
  <1> DEFINE Good(U) == SumFunctionOnSet(f, U) \in Int /\ \A x \in U : SumFunctionOnSet(f, U) = f[x] + SumFunctionOnSet(f, U \ {x})
             T == {U \in SUBSET S : ~Good(U)}
  <1>1. ASSUME T # {} PROVE FALSE
    <2>1. PICK U \in T : \A V \in T : V \subseteq U => V = U
      <3>1. T \subseteq SUBSET S OBVIOUS
      <3> HIDE DEF T
      <3> QED BY <1>1, <3>1, SmallestSubset
    <2>2. ASSUME NEW V \in SUBSET U, V # U PROVE Good(V) BY <2>1, <2>2
    <2>3. IsFiniteSet(U) /\ U \in SUBSET S BY <2>1, FS_Subset
    <2>4. U # {}
      <3>1. Good({}) BY SumEmpty
      <3> QED BY <2>1, <3>1
    <2> DEFINE p == Pick(U)
               R == U \ {p}
    <2>5. p \in U /\ R \in SUBSET U /\ R # U /\ f[p] \in Int BY <2>3, <2>4 DEF Pick
    <2>6. SumFunctionOnSet(f, U) = f[p] + SumFunctionOnSet(f, R) BY <2>3, <2>4, SumUnfolds
    <2>7. Good(R) BY <2>2, <2>5
    <2>8. ASSUME NEW x \in U PROVE SumFunctionOnSet(f, U) = f[x] + SumFunctionOnSet(f, U \ {x})
      <3>1. CASE x = p BY <2>6, <3>1
      <3>2. CASE x # p
        <4> DEFINE W == U \ {x}
        <4>1. W \in SUBSET U /\ W # U /\ p \in W /\ x \in R /\ f[x] \in Int BY <2>3, <2>5, <3>2
        <4>2. W \ {p} = R \ {x} OBVIOUS
        <4>3. R \ {x} \in SUBSET U /\ R \ {x} # U BY <2>5
        <4>4. Good(W) /\ Good(R \ {x}) BY <2>2, <4>1, <4>3
        <4>5. SumFunctionOnSet(f, W) = f[p] + SumFunctionOnSet(f, R \ {x}) BY <4>1, <4>2, <4>4
        <4>6. SumFunctionOnSet(f, R) = f[x] + SumFunctionOnSet(f, R \ {x}) BY <2>7, <4>1
        <4>7. SumFunctionOnSet(f, R \ {x}) \in Int BY <4>4
        <4>8. f[p] + (f[x] + SumFunctionOnSet(f, R \ {x})) = f[x] + (f[p] + SumFunctionOnSet(f, R \ {x}))
          BY <2>5, <4>1, <4>7
        <4> QED BY <2>6, <4>5, <4>6, <4>8
      <3> QED BY <3>1, <3>2
    <2>9. SumFunctionOnSet(f, U) \in Int BY <2>5, <2>6, <2>7
    <2> QED BY <2>1, <2>8, <2>9
  <1>2. S \notin T BY <1>1
  <1> QED BY <1>2
-----------------------------------------------------------------------------
(* More laws *)

\* A set of subsets that has the empty one, and with a subset every
\* one-element extension, has them all.
LEMMA SetInduction ==
    ASSUME NEW S, IsFiniteSet(S), NEW Good, {} \in Good,
           \A U \in SUBSET S, x \in S : U \in Good /\ x \notin U => U \cup {x} \in Good
    PROVE  S \in Good
  <1> DEFINE T == {U \in SUBSET S : U \notin Good}
  <1>1. ASSUME T # {} PROVE FALSE
    <2>1. PICK U \in T : \A V \in T : V \subseteq U => V = U
      <3>1. T \subseteq SUBSET S OBVIOUS
      <3> HIDE DEF T
      <3> QED BY <1>1, <3>1, SmallestSubset
    <2>2. PICK x : x \in U BY <2>1
    <2>3. U \ {x} \in SUBSET S /\ x \in S /\ U \ {x} \notin T BY <2>1, <2>2
    <2>4. (U \ {x}) \cup {x} = U BY <2>2
    <2> QED BY <2>1, <2>3, <2>4
  <1> QED BY <1>1

\* A sum of integers is an integer.
LEMMA SumInt ==
    ASSUME NEW S, IsFiniteSet(S), NEW f, \A x \in S : f[x] \in Int
    PROVE  SumFunctionOnSet(f, S) \in Int
  BY SumTakes

\* One more element adds its value to the sum.
LEMMA SumAdds ==
    ASSUME NEW S, IsFiniteSet(S), NEW f, NEW x, x \notin S, \A y \in S \cup {x} : f[y] \in Int
    PROVE  SumFunctionOnSet(f, S \cup {x}) = f[x] + SumFunctionOnSet(f, S)
  <1>1. IsFiniteSet(S \cup {x}) /\ (S \cup {x}) \ {x} = S BY FS_AddElement
  <1> QED BY <1>1, SumTakes

\* The sum over one element is its value.
LEMMA SumOne ==
    ASSUME NEW f, NEW x, f[x] \in Int
    PROVE  SumFunctionOnSet(f, {x}) = f[x]
  <1> DEFINE S == {x}
             T == S \ {x}
  <1>1. IsFiniteSet(S) /\ x \in S /\ \A y \in S : f[y] \in Int BY FS_Singleton
  <1>2. T = {} OBVIOUS
  <1>3. SumFunctionOnSet(f, S) = f[x] + SumFunctionOnSet(f, T)
    <2> HIDE DEF S
    <2> QED BY <1>1, SumTakes
  <1>4. SumFunctionOnSet(f, T) = 0
    <2> HIDE DEF T
    <2> QED BY <1>2, SumEmpty
  <1> HIDE DEF T
  <1> QED BY <1>3, <1>4

\* Tables that agree on a set have the same sum over it.
LEMMA SumAgrees ==
    ASSUME NEW S, IsFiniteSet(S), NEW f, NEW g, \A x \in S : f[x] \in Int /\ f[x] = g[x]
    PROVE  SumFunctionOnSet(f, S) = SumFunctionOnSet(g, S)
  <1> DEFINE Good == {U \in SUBSET S : SumFunctionOnSet(f, U) = SumFunctionOnSet(g, U)}
  <1>1. {} \in Good BY SumEmpty
  <1>2. ASSUME NEW U \in SUBSET S, NEW x \in S, U \in Good, x \notin U
        PROVE  U \cup {x} \in Good
    <2>1. IsFiniteSet(U) /\ U \cup {x} \in SUBSET S BY FS_Subset
    <2>2. /\ SumFunctionOnSet(f, U \cup {x}) = f[x] + SumFunctionOnSet(f, U)
          /\ SumFunctionOnSet(g, U \cup {x}) = g[x] + SumFunctionOnSet(g, U)
      BY <1>2, <2>1, SumAdds
    <2>3. SumFunctionOnSet(f, U \cup {x}) = SumFunctionOnSet(g, U \cup {x}) BY <1>2, <2>2
    <2> QED BY <2>1, <2>3
  <1>3. S \in Good
    <2> HIDE DEF Good
    <2> QED BY <1>1, <1>2, SetInduction
  <1> QED BY <1>3

\* The sum over two sets without a common element.
LEMMA SumUnion ==
    ASSUME NEW R, NEW S, IsFiniteSet(R), IsFiniteSet(S), R \cap S = {},
           NEW f, \A x \in R \cup S : f[x] \in Int
    PROVE  SumFunctionOnSet(f, R \cup S) = SumFunctionOnSet(f, R) + SumFunctionOnSet(f, S)
  <1> DEFINE Good == {U \in SUBSET S : SumFunctionOnSet(f, R \cup U) = SumFunctionOnSet(f, R) + SumFunctionOnSet(f, U)}
  <1>1. {} \in Good BY SumInt, SumEmpty
  <1>2. ASSUME NEW U \in SUBSET S, NEW x \in S, U \in Good, x \notin U
        PROVE  U \cup {x} \in Good
    <2>1. IsFiniteSet(U) /\ IsFiniteSet(R \cup U) BY FS_Subset, FS_Union
    <2>2. SumFunctionOnSet(f, U \cup {x}) = f[x] + SumFunctionOnSet(f, U) BY <1>2, <2>1, SumAdds
    <2>3. SumFunctionOnSet(f, (R \cup U) \cup {x}) = f[x] + SumFunctionOnSet(f, R \cup U) BY <1>2, <2>1, SumAdds
    <2>4. (R \cup U) \cup {x} = R \cup (U \cup {x}) OBVIOUS
    <2>5. SumFunctionOnSet(f, R) \in Int /\ SumFunctionOnSet(f, U) \in Int /\ f[x] \in Int BY <2>1, SumInt
    <2>6. SumFunctionOnSet(f, R \cup U) = SumFunctionOnSet(f, R) + SumFunctionOnSet(f, U) BY <1>2
    <2>7. SumFunctionOnSet(f, R \cup (U \cup {x})) = SumFunctionOnSet(f, R) + SumFunctionOnSet(f, U \cup {x})
      <3>1. f[x] + (SumFunctionOnSet(f, R) + SumFunctionOnSet(f, U)) = SumFunctionOnSet(f, R) + (f[x] + SumFunctionOnSet(f, U))
        BY <2>5
      <3> QED BY <2>2, <2>3, <2>4, <2>6, <3>1
    <2>8. U \cup {x} \in SUBSET S OBVIOUS
    <2> QED BY <2>7, <2>8
  <1>3. S \in Good
    <2> HIDE DEF Good
    <2> QED BY <1>1, <1>2, SetInduction
  <1> QED BY <1>3

\* The sum over what is left when a part is taken away.
LEMMA SumWithout ==
    ASSUME NEW S, IsFiniteSet(S), NEW R \in SUBSET S, NEW f, \A x \in S : f[x] \in Int
    PROVE  SumFunctionOnSet(f, S \ R) = SumFunctionOnSet(f, S) - SumFunctionOnSet(f, R)
  <1>1. IsFiniteSet(R) /\ IsFiniteSet(S \ R) /\ R \cup (S \ R) = S /\ R \cap (S \ R) = {} BY FS_Subset
  <1>2. SumFunctionOnSet(f, R) \in Int /\ SumFunctionOnSet(f, S \ R) \in Int BY <1>1, SumInt
  <1>3. SumFunctionOnSet(f, S) = SumFunctionOnSet(f, R) + SumFunctionOnSet(f, S \ R) BY <1>1, SumUnion
  <1> QED BY <1>2, <1>3

\* Zeros add up to zero.
LEMMA SumZero ==
    ASSUME NEW S, IsFiniteSet(S), NEW f, \A x \in S : f[x] = 0
    PROVE  SumFunctionOnSet(f, S) = 0
  <1> DEFINE Good == {U \in SUBSET S : SumFunctionOnSet(f, U) = 0}
  <1>1. {} \in Good BY SumEmpty
  <1>2. ASSUME NEW U \in SUBSET S, NEW x \in S, U \in Good, x \notin U
        PROVE  U \cup {x} \in Good
    <2>1. IsFiniteSet(U) /\ U \cup {x} \in SUBSET S BY FS_Subset
    <2>2. SumFunctionOnSet(f, U \cup {x}) = f[x] + SumFunctionOnSet(f, U)
      <3>1. x \notin U /\ \A y \in U \cup {x} : f[y] \in Int BY <1>2
      <3> QED BY <2>1, <3>1, SumAdds
    <2>3. SumFunctionOnSet(f, U \cup {x}) = 0 BY <1>2, <2>2
    <2> QED BY <2>1, <2>3
  <1>3. S \in Good
    <2> HIDE DEF Good
    <2> QED BY <1>1, <1>2, SetInduction
  <1> QED BY <1>3

\* Natural numbers add up to a natural number.
LEMMA SumNat ==
    ASSUME NEW S, IsFiniteSet(S), NEW f, \A x \in S : f[x] \in Nat
    PROVE  SumFunctionOnSet(f, S) \in Nat
  <1> DEFINE Good == {U \in SUBSET S : SumFunctionOnSet(f, U) \in Nat}
  <1>1. {} \in Good BY SumEmpty
  <1>2. ASSUME NEW U \in SUBSET S, NEW x \in S, U \in Good, x \notin U
        PROVE  U \cup {x} \in Good
    <2>1. IsFiniteSet(U) /\ U \cup {x} \in SUBSET S BY FS_Subset
    <2>2. SumFunctionOnSet(f, U \cup {x}) = f[x] + SumFunctionOnSet(f, U)
      <3>1. f[x] \in Nat /\ x \notin U /\ \A y \in U \cup {x} : f[y] \in Int BY <1>2
      <3> QED BY <2>1, <3>1, SumAdds
    <2>3. SumFunctionOnSet(f, U \cup {x}) \in Nat BY <1>2, <2>2
    <2> QED BY <2>1, <2>3
  <1>3. S \in Good
    <2> HIDE DEF Good
    <2> QED BY <1>1, <1>2, SetInduction
  <1> QED BY <1>3

\* Only the summand at x is another one
ChangedAt(f, g, x, S) ==
    /\ IsFiniteSet(S)
    /\ x \in S
    /\ \A y \in S : f[y] \in Int /\ g[y] \in Int /\ (y # x => f[y] = g[y])

\* When one value changes the sum changes by as much.
LEMMA SumChanges ==
    ASSUME NEW S, NEW x, NEW f, NEW g, ChangedAt(f, g, x, S)
    PROVE  SumFunctionOnSet(g, S) = SumFunctionOnSet(f, S) - f[x] + g[x]
  <1>0. IsFiniteSet(S) /\ x \in S /\ \A y \in S : f[y] \in Int /\ g[y] \in Int /\ (y # x => f[y] = g[y])
    BY DEF ChangedAt
  <1>1. SumFunctionOnSet(f, S \ {x}) = SumFunctionOnSet(g, S \ {x}) /\ SumFunctionOnSet(f, S \ {x}) \in Int
    BY <1>0, FS_RemoveElement, SumAgrees, SumInt
  <1>2. /\ SumFunctionOnSet(f, S) = f[x] + SumFunctionOnSet(f, S \ {x})
        /\ SumFunctionOnSet(g, S) = g[x] + SumFunctionOnSet(g, S \ {x})
    BY <1>0, SumTakes
  <1> QED BY <1>0, <1>1, <1>2

\* The summands are counted in another order: m takes R onto S
LEMMA SumReindexed ==
    ASSUME NEW R, NEW S, IsFiniteSet(R), IsFiniteSet(S), NEW m \in [R -> S], NEW f, NEW g,
           \A x, y \in R : m[x] = m[y] => x = y,
           \A x \in R : f[x] \in Int /\ g[m[x]] = f[x]
    PROVE  SumFunctionOnSet(f, R) = SumFunctionOnSet(g, {m[x] : x \in R})
  <1> DEFINE Image(U) == {m[x] : x \in U}
             Good == {U \in SUBSET R : SumFunctionOnSet(f, U) = SumFunctionOnSet(g, Image(U))}
  <1>1. {} \in Good
    <2>1. Image({}) = {} OBVIOUS
    <2> QED BY <2>1, SumEmpty
  <1>2. ASSUME NEW U \in SUBSET R, NEW x \in R, U \in Good, x \notin U
        PROVE  U \cup {x} \in Good
    <2>1. Image(U \cup {x}) = Image(U) \cup {m[x]} /\ m[x] \notin Image(U) BY <1>2
    <2>2. Image(U) \in SUBSET S /\ IsFiniteSet(U) /\ IsFiniteSet(Image(U)) BY FS_Subset
    <2>3. SumFunctionOnSet(f, U \cup {x}) = f[x] + SumFunctionOnSet(f, U) BY <1>2, <2>2, SumAdds
    <2>4. \A y \in Image(U) \cup {m[x]} : g[y] \in Int OBVIOUS
    <2>5. SumFunctionOnSet(g, Image(U) \cup {m[x]}) = g[m[x]] + SumFunctionOnSet(g, Image(U))
      <3> HIDE DEF Image
      <3> QED BY <2>1, <2>2, <2>4, SumAdds
    <2>6. SumFunctionOnSet(f, U) = SumFunctionOnSet(g, Image(U)) /\ g[m[x]] = f[x] BY <1>2
    <2>7. SumFunctionOnSet(f, U \cup {x}) = SumFunctionOnSet(g, Image(U \cup {x})) BY <2>1, <2>3, <2>5, <2>6
    <2> QED BY <2>7
  <1>3. R \in Good
    <2> HIDE DEF Good
    <2> QED BY <1>1, <1>2, SetInduction
  <1> QED BY <1>3

-----------------------------------------------------------------------------
(* Folds over sequences *)

\* The greatest member of a finite set of integers is one of them.
LEMMA MaxOfFinite ==
    ASSUME NEW s, s \subseteq Int, IsFiniteSet(s), s # {}
    PROVE  Max(s) \in s /\ \A y \in s : y <= Max(s)
  <1> DEFINE Good == {U \in SUBSET s : U = {} \/ \E x \in U : \A y \in U : x >= y}
  <1>1. {} \in Good OBVIOUS
  <1>2. ASSUME NEW U \in SUBSET s, NEW x \in s, U \in Good, x \notin U
        PROVE  U \cup {x} \in Good
    BY <1>2
  <1>3. s \in Good
    <2> HIDE DEF Good
    <2> QED BY <1>1, <1>2, SetInduction
  <1>4. \E x \in s : \A y \in s : x >= y BY <1>3
  <1> QED BY <1>4 DEF Max

\* The same for the natural numbers.
LEMMA MaxIsIn ==
    ASSUME NEW n \in Nat, NEW s \in SUBSET (1 .. n), s # {}
    PROVE  Max(s) \in s /\ \A y \in s : y <= Max(s)
  <1>1. IsFiniteSet(s)
    <2>1. IsFiniteSet(1 .. n) BY FS_Interval
    <2> QED BY <2>1, FS_Subset
  <1>2. s \subseteq Int OBVIOUS
  <1> QED BY <1>1, <1>2, MaxOfFinite

\* The values of a table on a finite set are finitely many.
LEMMA ImageFinite ==
    ASSUME NEW S, IsFiniteSet(S), NEW f
    PROVE  IsFiniteSet({f[x] : x \in S})
  <1> DEFINE T == {f[x] : x \in S}
             m == [x \in S |-> f[x]]
  <1>1. m \in Surjection(S, T) BY DEF Surjection
  <1> HIDE DEF m, T
  <1>2. IsFiniteSet(T) BY <1>1, FS_Surjection
  <1> QED BY <1>2 DEF T

\* Every k up to n, one after the other
LEMMA UpTo ==
    ASSUME NEW n \in Nat, NEW Good, 0 \in Good, \A k \in 1 .. n : k - 1 \in Good => k \in Good
    PROVE  \A k \in 0 .. n : k \in Good
  <1> DEFINE Bad == {k \in 0 .. n : k \notin Good}
  <1>1. ASSUME Bad # {} PROVE FALSE
    <2> DEFINE T == {0 .. k : k \in Bad}
               N == 0 .. n
    <2>1. IsFiniteSet(N) BY FS_Interval
    <2>2. T \in SUBSET (SUBSET N) /\ T # {} BY <1>1
    <2>2a. PICK U \in T : \A V \in T : V \subseteq U => V = U
      <3> HIDE DEF T, N
      <3> QED BY <2>1, <2>2, SmallestSubset
    <2>3. PICK k \in Bad : U = 0 .. k BY <2>2a
    <2>4. k \in 1 .. n /\ k - 1 \in 0 .. n /\ k - 1 \notin Good BY <2>3
    <2>5. 0 .. (k - 1) \in T BY <2>4
    <2>6. 0 .. (k - 1) \subseteq 0 .. k /\ k \in 0 .. k /\ k \notin 0 .. (k - 1) BY <2>4
    <2> QED BY <2>2a, <2>3, <2>5, <2>6
  <1> QED BY <1>1

\* A fold over a sequence of length n whose step k is the function h[k], as
\* MapThenFoldSet spells it: on T it is h that iter follows.
Folding(iter, base, h, n, T) ==
    /\ n \in Nat
    /\ base \in T
    /\ h \in [1 .. n -> [T -> T]]
    /\ iter[{}] = base
    /\ \A s \in SUBSET (1 .. n) :
           s # {} /\ iter[s \ {Max(s)}] \in T => iter[s] = h[Max(s)][iter[s \ {Max(s)}]]

\* The values it goes through
Run(acc, base, h, n, T) ==
    /\ acc \in [0 .. n -> T]
    /\ acc[0] = base
    /\ \A k \in 1 .. n : acc[k] = h[k][acc[k - 1]]

\* A fold from the left over a sequence can be computed entry by entry.
LEMMA FoldExists ==
    ASSUME NEW n \in Nat, NEW T, NEW base \in T, NEW h \in [1 .. n -> [T -> T]]
    PROVE  \E g \in [SUBSET (1 .. n) -> T] : Folding(g, base, h, n, T)
  <1> DEFINE S == 1 .. n
             c == [s \in SUBSET S |-> Max(s)]
  <1>1. IsFiniteSet(S) BY FS_Interval
  <1>2. Picks(c, S) BY MaxIsIn DEF Picks
  <1>3. PICK g : Iterates(g, base, h, c, S)
    <2> HIDE DEF S, c
    <2> QED BY <1>1, <1>2, IteratesExists
  <1>4. \A s \in SUBSET S : g[s] = IF s = {} THEN base ELSE h[Max(s)][g[s \ {Max(s)}]] BY <1>3 DEF Iterates
  <1>5. g \in [SUBSET S -> T]
    <2> HIDE DEF c, S
    <2>1. \A x \in S : h[x] \in [T -> T] BY DEF S
    <2>2. /\ g[{}] = base
          /\ \A s \in SUBSET S : s # {} => g[s] = h[c[s]][g[s \ {c[s]}]]
      BY <1>3 DEF Iterates
    <2>3. PICK U : g \in [SUBSET S -> U]
      <3>1. g \in [SUBSET S -> {g[s] : s \in SUBSET S}] BY <1>3 DEF Iterates
      <3> QED BY <3>1
    <2>4. Follows(g, base, h, c, S, T) BY <2>1, <2>2, <2>3 DEF Follows
    <2> QED BY <1>1, <1>2, <2>4, IteratesTyped
  <1>6. Folding(g, base, h, n, T) BY <1>4, <1>5 DEF Folding
  <1> QED BY <1>5, <1>6

\* A fold from the left is the last state of such a computation.
LEMMA FoldRuns ==
    ASSUME NEW iter, NEW base, NEW h, NEW n, NEW T, Folding(iter, base, h, n, T)
    PROVE  \E acc : Run(acc, base, h, n, T) /\ iter[1 .. n] = acc[n]
  <1>0. /\ n \in Nat /\ base \in T /\ h \in [1 .. n -> [T -> T]] /\ iter[{}] = base
        /\ \A s \in SUBSET (1 .. n) :
               s # {} /\ iter[s \ {Max(s)}] \in T => iter[s] = h[Max(s)][iter[s \ {Max(s)}]]
    BY DEF Folding
  <1> DEFINE acc  == [k \in 0 .. n |-> iter[1 .. k]]
             Good == {k \in 0 .. n : iter[1 .. k] \in T}
  <1>1. 1 .. 0 = {} OBVIOUS
  <1>2. ASSUME NEW k \in 1 .. n, iter[1 .. (k - 1)] \in T
        PROVE  iter[1 .. k] = h[k][iter[1 .. (k - 1)]]
    <2>1. 1 .. k \in SUBSET (1 .. n) /\ k \in 1 .. k BY <1>0
    <2>2. Max(1 .. k) \in 1 .. k /\ k <= Max(1 .. k) BY <1>0, <2>1, MaxIsIn
    <2>3. Max(1 .. k) = k BY <2>2
    <2>4. (1 .. k) \ {k} = 1 .. (k - 1) BY <1>0
    <2> QED BY <1>0, <1>2, <2>1, <2>3, <2>4
  <1>3. \A k \in 0 .. n : k \in Good
    <2>1. 0 \in Good BY <1>0, <1>1
    <2>2. \A k \in 1 .. n : k - 1 \in Good => k \in Good BY <1>0, <1>2
    <2> HIDE DEF Good
    <2> QED BY <1>0, <2>1, <2>2, UpTo
  <1>4. acc \in [0 .. n -> T] BY <1>0, <1>3
  <1>5. \A k \in 1 .. n : acc[k] = h[k][acc[k - 1]] BY <1>0, <1>2, <1>3
  <1>6. acc[0] = base /\ iter[1 .. n] = acc[n] BY <1>0, <1>1
  <1> HIDE DEF acc
  <1> QED BY <1>4, <1>5, <1>6 DEF Run

=============================================================================
