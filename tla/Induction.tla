------------------------------ MODULE Induction ------------------------------
(***************************************************************************)
(* Induction and recursion over the natural numbers, stated with sets in   *)
(* place of predicates: the recursive functions of the other modules are   *)
(* shown to satisfy their equations with these lemmas.                     *)
(***************************************************************************)
EXTENDS Integers, WellFoundedInduction, TLAPS

(* A set of natural numbers that holds 0 and every successor holds them all. *)
LEMMA NatSetInduction ==
  ASSUME NEW Q, Q \subseteq Nat, 0 \in Q, \A n \in Q : n + 1 \in Q
  PROVE  Q = Nat
  <1> DEFINE R == {p \in Nat \X Nat : p[1] < p[2]}
  <1>1. IsWellFoundedOn(R, Nat)
    BY NatLessThanWellFounded DEF OpToRel
  <1>2. SUFFICES ASSUME Nat \ Q # {} PROVE FALSE
    OBVIOUS
  <1>3. PICK n \in Nat \ Q : \A m \in Nat \ Q : <<m, n>> \notin R
    <2> HIDE DEF R
    <2> QED BY <1>1, <1>2, WFMin
  <1>4. n # 0 /\ n - 1 \in Nat /\ n - 1 < n /\ n = (n - 1) + 1
    BY <1>3
  <1>5. <<n - 1, n>> \in R
    BY <1>3, <1>4
  <1>6. n - 1 \in Q
    BY <1>3, <1>4, <1>5
  <1> QED BY <1>3, <1>4, <1>6

(* What an argument inherits from all arguments of a smaller rank, all     *)
(* arguments have.                                                         *)
LEMMA RankInduction ==
  ASSUME NEW S, NEW P, NEW rank \in [S -> Nat],
         \A x \in S : (\A y \in S : rank[y] < rank[x] => y \in P) => x \in P
  PROVE  S \subseteq P
  <1> DEFINE Q == {n \in Nat : \A x \in S : rank[x] < n => x \in P}
  <1>1. 0 \in Q
    OBVIOUS
  <1>2. ASSUME NEW n \in Q PROVE n + 1 \in Q
    <2>1. n \in Nat /\ n + 1 \in Nat
      OBVIOUS
    <2>2. ASSUME NEW x \in S, rank[x] < n + 1 PROVE x \in P
      <3>1. \A y \in S : rank[y] < rank[x] => rank[y] < n
        BY <2>1, <2>2
      <3>2. \A y \in S : rank[y] < n => y \in P
        OBVIOUS
      <3> QED BY <3>1, <3>2
    <2> QED BY <2>1, <2>2
  <1>3. Q \subseteq Nat
    OBVIOUS
  <1>4. Q = Nat
    <2> HIDE DEF Q
    <2> QED BY <1>1, <1>2, <1>3, NatSetInduction
  <1>5. ASSUME NEW x \in S PROVE x \in P
    <2>1. rank[x] + 1 \in Q /\ rank[x] < rank[x] + 1
      BY <1>4
    <2> QED BY <2>1
  <1> QED BY <1>5

(* A recursion ends where stop says so and otherwise goes on at prev, with *)
(* a smaller rank; base and step make the value.                           *)
Descends(S, stop, rank, prev) ==
  /\ rank \in [S -> Nat] /\ prev \in [S -> S]
  /\ \A x \in S : x \notin stop => rank[prev[x]] < rank[x]

Solves(f, S, T, stop, prev, base, step) ==
  \A x \in S :
    /\ f[x] \in T
    /\ x \in stop => f[x] = base[x]
    /\ x \notin stop => f[x] = step[x][f[prev[x]]]

(* A function that is defined in this way exists. *)
LEMMA RecursionExists ==
  ASSUME NEW S, NEW T, NEW stop, NEW rank, NEW prev, Descends(S, stop, rank, prev),
         NEW base, base \in [S -> T], NEW step, step \in [S -> [T -> T]]
  PROVE  \E f : /\ f \in [S -> T]
                /\ Solves(f, S, T, stop, prev, base, step)
  <1>0. /\ rank \in [S -> Nat] /\ prev \in [S -> S]
        /\ \A x \in S \ stop : rank[prev[x]] < rank[x]
    BY DEF Descends
  <1> DEFINE D(n) == {x \in S : rank[x] < n}
             Fits(g, n) ==
               \A x \in D(n) :
                 /\ g[x] \in T
                 /\ g[x] = IF x \in stop THEN base[x] ELSE step[x][g[prev[x]]]
  <1>1. ASSUME NEW n \in Nat, NEW x \in D(n + 1), x \notin stop
        PROVE  prev[x] \in D(n)
    BY <1>0, <1>1
  <1>2. \A n \in Nat : \E g : Fits(g, n)
    <2> DEFINE Q == {n \in Nat : \E g : Fits(g, n)}
    <2>1. 0 \in Q
      <3>1. Fits(base, 0)
        BY <1>0
      <3> QED BY <3>1
    <2>2. ASSUME NEW n \in Q PROVE n + 1 \in Q
      <3>1. PICK g : Fits(g, n)
        OBVIOUS
      <3> DEFINE h == [x \in S |-> IF x \in stop THEN base[x] ELSE step[x][g[prev[x]]]]
      <3>2. \A x \in D(n) : h[x] = g[x]
        BY <3>1
      <3>3. ASSUME NEW x \in D(n + 1)
            PROVE  /\ h[x] \in T
                   /\ h[x] = IF x \in stop THEN base[x] ELSE step[x][h[prev[x]]]
        <4>1. CASE x \in stop
          BY <4>1
        <4>2. CASE x \notin stop
          <5>1. prev[x] \in D(n) /\ n \in Nat
            BY <1>1, <4>2
          <5>2. h[prev[x]] = g[prev[x]] /\ g[prev[x]] \in T
            BY <3>1, <3>2, <5>1
          <5>3. h[x] = step[x][g[prev[x]]]
            BY <4>2
          <5> HIDE DEF h
          <5> QED BY <4>2, <5>2, <5>3
        <4> QED BY <4>1, <4>2
      <3>4. Fits(h, n + 1)
        BY <3>3
      <3>5. n + 1 \in Nat
        OBVIOUS
      <3> HIDE DEF Fits, h
      <3> QED BY <3>4, <3>5
    <2>3. Q = Nat
      <3> HIDE DEF Fits
      <3>1. Q \subseteq Nat
        OBVIOUS
      <3> HIDE DEF Q
      <3> QED BY <2>1, <2>2, <3>1, NatSetInduction
    <2> QED BY <2>3
  <1> DEFINE G == [n \in Nat |-> CHOOSE g : Fits(g, n)]
  <1>3. \A n \in Nat : Fits(G[n], n)
    <2> HIDE DEF Fits
    <2> QED BY <1>2
  <1> HIDE DEF G
  (* Two approximations agree where both are defined. *)
  <1>4. \A r \in Nat : \A x \in D(r) : \A n, m \in Nat :
          x \in D(n) /\ x \in D(m) => G[n][x] = G[m][x]
    <2> DEFINE Agree(x) == \A n, m \in Nat : x \in D(n) /\ x \in D(m) => G[n][x] = G[m][x]
               Q == {r \in Nat : \A x \in D(r) : Agree(x)}
    <2>1. 0 \in Q
      BY <1>0
    <2>2. ASSUME NEW r \in Q PROVE r + 1 \in Q
      <3> SUFFICES ASSUME NEW x \in D(r + 1), NEW n \in Nat, NEW m \in Nat,
                          x \in D(n), x \in D(m)
                   PROVE  G[n][x] = G[m][x]
        OBVIOUS
      <3>1. Fits(G[n], n) /\ Fits(G[m], m)
        BY <1>3
      <3>2. CASE x \in stop
        BY <3>1, <3>2
      <3>3. CASE x \notin stop
        <4>1. prev[x] \in D(r) /\ prev[x] \in D(n) /\ prev[x] \in D(m)
          BY <1>0, <3>3
        <4>2. G[n][prev[x]] = G[m][prev[x]]
          BY <4>1
        <4> QED BY <3>1, <3>3, <4>2
      <3> QED BY <3>2, <3>3
    <2>3. Q = Nat
      <3> HIDE DEF Agree, D
      <3>1. Q \subseteq Nat
        OBVIOUS
      <3> HIDE DEF Q
      <3> QED BY <2>1, <2>2, <3>1, NatSetInduction
    <2> QED BY <2>3
  <1> DEFINE f == [x \in S |-> G[rank[x] + 1][x]]
  <1>5. ASSUME NEW x \in S
        PROVE  /\ f[x] \in T
               /\ f[x] = IF x \in stop THEN base[x] ELSE step[x][f[prev[x]]]
    <2>1. rank[x] + 1 \in Nat /\ x \in D(rank[x] + 1) /\ Fits(G[rank[x] + 1], rank[x] + 1)
      BY <1>0, <1>3
    <2>2. CASE x \in stop
      BY <2>1, <2>2
    <2>3. CASE x \notin stop
      <3>1. /\ prev[x] \in S /\ rank[prev[x]] + 1 \in Nat
            /\ prev[x] \in D(rank[x]) /\ prev[x] \in D(rank[x] + 1)
            /\ prev[x] \in D(rank[prev[x]] + 1)
        BY <1>0, <2>3
      <3>2. G[rank[x] + 1][prev[x]] = f[prev[x]]
        <4>1. f[prev[x]] = G[rank[prev[x]] + 1][prev[x]]
          BY <3>1
        <4>2. rank[x] \in Nat
          BY <1>0
        <4> HIDE DEF f, D
        <4> QED BY <1>4, <2>1, <3>1, <4>1, <4>2
      <3>3. f[x] = G[rank[x] + 1][x]
        OBVIOUS
      <3> HIDE DEF f
      <3> QED BY <2>1, <2>3, <3>2, <3>3
    <2> QED BY <2>2, <2>3
  <1>6. f \in [S -> T]
    BY <1>5
  <1>7. Solves(f, S, T, stop, prev, base, step)
    <2> HIDE DEF f
    <2> QED BY <1>5 DEF Solves
  <1> HIDE DEF f
  <1> QED BY <1>6, <1>7
=============================================================================
