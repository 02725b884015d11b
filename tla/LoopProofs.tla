----------------------------- MODULE LoopProofs -----------------------------
(***************************************************************************)
(* Induction for the loops of the code, which are recursive functions in   *)
(* the other modules.  The theorems on induction that come with the prover *)
(* take an operator as a parameter; these take a set, and rest on there    *)
(* being no infinite descent in Nat.                                       *)
(***************************************************************************)
EXTENDS Integers, WellFoundedInduction, TLAPS

\* A set of naturals that is not empty has a least element.
LEMMA LeastNat ==
    ASSUME NEW T \in SUBSET Nat, T # {}
    PROVE  \E x \in T : \A y \in T : ~(y < x)
  <1> DEFINE R == {p \in Nat \X Nat : p[1] < p[2]}
  <1>1. IsWellFoundedOn(R, Nat)
    BY NatLessThanWellFounded DEF OpToRel
  <1>2. \A x, y \in T : y < x => <<y, x>> \in R
    OBVIOUS
  <1> HIDE DEF R
  <1>3. \E x \in T : \A y \in T : <<y, x>> \notin R
    BY <1>1, WFMin
  <1> QED BY <1>2, <1>3

\* What holds of 0 and of a number when it holds of the one before, holds up to N.
LEMMA UpTo ==
    ASSUME NEW N \in Nat, NEW T, 0 \in T, \A n \in 1 .. N : n - 1 \in T => n \in T
    PROVE  0 .. N \subseteq T
  <1> SUFFICES ASSUME (0 .. N) \ T # {} PROVE FALSE
    OBVIOUS
  <1>1. PICK n \in (0 .. N) \ T : \A m \in (0 .. N) \ T : ~(m < n)
    <2>1. (0 .. N) \ T \in SUBSET Nat
      OBVIOUS
    <2> QED BY <2>1, LeastNat
  <1>2. n \in 1 .. N /\ n - 1 \in 0 .. N /\ n - 1 < n
    OBVIOUS
  <1> QED BY <1>1, <1>2

Iterations(N, V, v, G) ==
    {f \in [0 .. N -> V] : f[0] = v /\ \A n \in 1 .. N : f[n] = G[n][f[n - 1]]}

\* There is a function that starts with v and goes on with the steps of G.
LEMMA Iterates ==
    ASSUME NEW N \in Nat, NEW V, NEW v \in V, NEW G \in [1 .. N -> [V -> V]]
    PROVE  Iterations(N, V, v, G) # {}
  <1> DEFINE Good(m, f) == f[0] = v /\ \A n \in 1 .. m : f[n] = G[n][f[n - 1]]
             T == {m \in 0 .. N : \E f \in [0 .. m -> V] : Good(m, f)}
  <1>1. 0 \in T
    <2>1. [n \in 0 .. 0 |-> v] \in [0 .. 0 -> V] /\ Good(0, [n \in 0 .. 0 |-> v])
      OBVIOUS
    <2>2. \E f \in [0 .. 0 -> V] : Good(0, f)
      BY <2>1
    <2> HIDE DEF Good
    <2> QED BY <2>2
  <1>2. ASSUME NEW m \in 1 .. N, m - 1 \in T PROVE m \in T
    <2>1. PICK f \in [0 .. m - 1 -> V] : Good(m - 1, f)
      BY <1>2
    <2> DEFINE g == [n \in 0 .. m |-> IF n < m THEN f[n] ELSE G[m][f[m - 1]]]
    <2>2. f[m - 1] \in V /\ G[m][f[m - 1]] \in V
      OBVIOUS
    <2>3. g \in [0 .. m -> V]
      BY <2>2
    <2>4. g[0] = v
      BY <2>1
    <2>5. ASSUME NEW n \in 1 .. m PROVE g[n] = G[n][g[n - 1]]
      <3>1. g[n - 1] = f[n - 1]
        OBVIOUS
      <3>2. CASE n < m
        <4>1. n \in 1 .. m - 1 /\ g[n] = f[n]
          BY <3>2
        <4> QED BY <2>1, <3>1, <4>1
      <3>3. CASE n = m
        <4>1. g[n] = G[m][f[m - 1]]
          BY <3>3
        <4> QED BY <3>1, <3>3, <4>1
      <3> QED BY <3>2, <3>3
    <2> HIDE DEF g
    <2> QED BY <2>3, <2>4, <2>5
  <1> HIDE DEF T
  <1>3. 0 .. N \subseteq T
    BY <1>1, <1>2, UpTo
  <1>4. N \in T
    BY <1>3
  <1> QED BY <1>4 DEF T, Iterations

=============================================================================
