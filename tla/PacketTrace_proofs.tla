-------------------------- MODULE PacketTrace_proofs --------------------------
(***************************************************************************)
(* That a tag brings its number and its time across, whatever they are:    *)
(* the writer and the reader of Ns3QuicTag are inverse to each other.  And *)
(* what a trace makes of a datagram with a new number.                     *)
(***************************************************************************)
EXTENDS PacketTrace, Induction, SequenceTheorems, FiniteSetTheorems

(* The facts of arithmetic: a number is made of its last digit and the rest. *)
LEMMA Digits ==
  ASSUME NEW v \in Nat, NEW m \in Nat, m > 1
  PROVE  /\ v \div m \in Nat /\ v % m \in 0..(m - 1)
         /\ v = (v % m) + m * (v \div m)
         /\ v >= m => v \div m < v /\ v \div m > 0
  <1>1. v \div m \in Nat /\ v % m \in 0..(m - 1) /\ v = (v % m) + m * (v \div m)
    OBVIOUS
  <1>2. ASSUME v >= m PROVE v \div m < v /\ v \div m > 0
    <2> DEFINE q == v \div m
               r == v % m
    <2>1. q \in Nat /\ r \in 0..(m - 1) /\ v = r + m * q
      BY <1>1
    <2> HIDE DEF q, r
    <2>2. q > 0
      BY <1>2, <2>1
    <2>3. m * q >= 2 * q
      BY <2>1
    <2> QED BY <2>1, <2>2, <2>3 DEF q
  <1> QED BY <1>1, <1>2

LEMMA FlaggedDigit ==
  ASSUME NEW r \in Nat, NEW m \in Nat, r < m
  PROVE  (m + r) % m = r
  OBVIOUS

-----------------------------------------------------------------------------
(* The recursive functions satisfy their equations. *)

LEMMA EncodeEquation ==
  /\ VarintEncode \in [Nat -> Seq(Nat)]
  /\ \A v \in Nat :
       VarintEncode[v] = IF v = 0 THEN <<>>
                         ELSE IF v < TagBase THEN <<v>>
                         ELSE <<TagBase + (v % TagBase)>> \o VarintEncode[v \div TagBase]
  <1> DEFINE Eq(f) == f = [v \in Nat |->
                 IF v = 0 THEN <<>>
                 ELSE IF v < TagBase THEN <<v>>
                 ELSE <<TagBase + (v % TagBase)>> \o f[v \div TagBase]]
             S == Nat
             T == Seq(Nat)
             stop == {v \in S : v < TagBase}
             rank == [v \in S |-> v]
             prev == [v \in S |-> v \div TagBase]
             base == [v \in S |-> IF v = 0 THEN <<>> ELSE <<v>>]
             step == [v \in S |-> [s \in T |-> <<TagBase + (v % TagBase)>> \o s]]
  <1>1. TagBase \in Nat /\ TagBase > 1
    BY TraceAssumption
  <1>2. rank \in [S -> Nat] /\ prev \in [S -> S] /\ base \in [S -> T]
    BY <1>1, Digits
  <1>3. \A v \in Nat, s \in Seq(Nat) : <<TagBase + (v % TagBase)>> \o s \in Seq(Nat)
    <2> SUFFICES ASSUME NEW v \in Nat, NEW s \in Seq(Nat)
                 PROVE  <<TagBase + (v % TagBase)>> \o s \in Seq(Nat)
      OBVIOUS
    <2>1. TagBase + (v % TagBase) \in Nat
      BY <1>1, Digits
    <2>2. <<TagBase + (v % TagBase)>> \in Seq(Nat)
      BY <2>1
    <2> HIDE DEF S, T, stop, rank, prev, base, step
    <2> QED BY <2>2
  <1>4. step \in [S -> [T -> T]]
    BY <1>3
  <1>5. Descends(S, stop, rank, prev)
    <2>1. ASSUME NEW v \in Nat, v \notin stop PROVE v \div TagBase < v /\ v \div TagBase \in Nat
      <3>1. v >= TagBase
        BY <1>1, <2>1
      <3> QED BY <1>1, <3>1, Digits
    <2> QED BY <1>2, <2>1 DEF Descends
  <1>6. \E f : f \in [S -> T] /\ Solves(f, S, T, stop, prev, base, step)
    <2> HIDE DEF S, T, stop, rank, prev, base, step
    <2> QED BY <1>2, <1>4, <1>5, RecursionExists
  <1>7. PICK f : f \in [S -> T] /\ Solves(f, S, T, stop, prev, base, step)
    BY <1>6
  <1>8. Eq(f)
    <2>1. ASSUME NEW v \in Nat
          PROVE  f[v] = IF v = 0 THEN <<>>
                        ELSE IF v < TagBase THEN <<v>>
                        ELSE <<TagBase + (v % TagBase)>> \o f[v \div TagBase]
      <3>1. v \div TagBase \in Nat /\ prev[v] = v \div TagBase
        BY <1>1, Digits
      <3>2. /\ v \in stop => f[v] = base[v]
            /\ v \notin stop => f[v] = step[v][f[prev[v]]]
        <4>1. v \in S
          OBVIOUS
        <4> HIDE DEF S, T, stop, prev, base, step
        <4> QED BY <1>7, <4>1 DEF Solves
      <3>3. f[v \div TagBase] \in T
        BY <1>7, <3>1
      <3>4. CASE v < TagBase
        <4>1. f[v] = base[v] /\ base[v] = IF v = 0 THEN <<>> ELSE <<v>>
          BY <3>2, <3>4
        <4> QED BY <3>4, <4>1
      <3>5. CASE ~(v < TagBase)
        <4>1. v \notin stop /\ v # 0
          BY <1>1, <3>5
        <4>2. step[v][f[v \div TagBase]] = <<TagBase + (v % TagBase)>> \o f[v \div TagBase]
          <5> HIDE DEF T, stop, prev, base
          <5> QED BY <3>3
        <4>3. f[v] = <<TagBase + (v % TagBase)>> \o f[v \div TagBase]
          <5> HIDE DEF T, stop, prev, base, step
          <5> QED BY <3>1, <3>2, <4>1, <4>2
        <4> QED BY <3>5, <4>1, <4>3
      <3> QED BY <3>4, <3>5
    <2> HIDE DEF S, T, stop, rank, prev, base, step
    <2>2. f = [v \in Nat |-> f[v]]
      BY <1>7 DEF S
    <2> QED BY <2>1, <2>2
  <1> HIDE DEF S, T, stop, rank, prev, base, step
  <1>9. Eq(VarintEncode)
    <2> HIDE DEF Eq
    <2>1. VarintEncode = CHOOSE g : Eq(g)
      BY DEF VarintEncode, Eq
    <2> QED BY <1>8, <2>1
  <1>10. \A v \in Nat :
       VarintEncode[v] = IF v = 0 THEN <<>>
                         ELSE IF v < TagBase THEN <<v>>
                         ELSE <<TagBase + (v % TagBase)>> \o VarintEncode[v \div TagBase]
    BY <1>9
  <1>11. \A v \in Nat : VarintEncode[v] \in Seq(Nat)
    <2> DEFINE P == {v \in Nat : VarintEncode[v] \in Seq(Nat)}
               id == [v \in Nat |-> v]
    <2>1. ASSUME NEW v \in Nat, \A y \in Nat : id[y] < id[v] => y \in P
          PROVE  v \in P
      <3>1. CASE v < TagBase
        <4>1. VarintEncode[v] = IF v = 0 THEN <<>> ELSE <<v>>
          BY <1>10, <3>1
        <4>2. (IF v = 0 THEN <<>> ELSE <<v>>) \in Seq(Nat)
          OBVIOUS
        <4> QED BY <4>1, <4>2
      <3>2. CASE ~(v < TagBase)
        <4>1. v \div TagBase \in Nat /\ v \div TagBase < v
          BY <1>1, <3>2, Digits
        <4>2. VarintEncode[v \div TagBase] \in Seq(Nat)
          BY <2>1, <4>1
        <4>3. <<TagBase + (v % TagBase)>> \o VarintEncode[v \div TagBase] \in Seq(Nat)
          BY <1>3, <4>2
        <4>4. v # 0
          BY <1>1, <3>2
        <4>5. VarintEncode[v] = <<TagBase + (v % TagBase)>> \o VarintEncode[v \div TagBase]
          BY <1>10, <3>2, <4>4
        <4> QED BY <4>3, <4>5
      <3> QED BY <3>1, <3>2
    <2>2. id \in [Nat -> Nat]
      OBVIOUS
    <2>3. Nat \subseteq P
      <3> HIDE DEF P, id
      <3> QED BY <2>1, <2>2, RankInduction
    <2> QED BY <2>3
  <1>12. DOMAIN VarintEncode = Nat /\ VarintEncode = [v \in Nat |-> VarintEncode[v]]
    BY <1>9, Zenon
  <1> QED BY <1>10, <1>11, <1>12

(* Here the rank of a sequence of bytes is its length. *)
LEMMA DecodeEquation ==
  \A b \in Seq(Nat) :
    VarientDecode[b] = IF b = <<>> THEN 0
                       ELSE IF Head(b) < TagBase THEN Head(b)
                       ELSE (Head(b) % TagBase) + TagBase * VarientDecode[Tail(b)]
  <1> DEFINE Eq(f) == f = [b \in Seq(Nat) |->
                 IF b = <<>> THEN 0
                 ELSE IF Head(b) < TagBase THEN Head(b)
                 ELSE (Head(b) % TagBase) + TagBase * f[Tail(b)]]
             S == Seq(Nat)
             T == Nat
             stop == {b \in S : b = <<>> \/ Head(b) < TagBase}
             rank == [b \in S |-> Len(b)]
             prev == [b \in S |-> IF b = <<>> THEN b ELSE Tail(b)]
             base == [b \in S |-> IF b = <<>> THEN 0 ELSE Head(b)]
             step == [b \in S |-> [t \in T |-> IF b = <<>> THEN 0 ELSE (Head(b) % TagBase) + TagBase * t]]
  <1>1. TagBase \in Nat /\ TagBase > 1
    BY TraceAssumption
  <1>2. \A b \in Seq(Nat) : b # <<>> =>
          Head(b) \in Nat /\ Tail(b) \in Seq(Nat) /\ Len(Tail(b)) < Len(b)
    OBVIOUS
  <1>3. prev \in [S -> S] /\ rank \in [S -> Nat] /\ base \in [S -> T]
    BY <1>2
  <1>4. step \in [S -> [T -> T]]
    <2>1. ASSUME NEW b \in Seq(Nat), NEW t \in Nat, b # <<>>
          PROVE  (Head(b) % TagBase) + TagBase * t \in Nat
      <3>1. Head(b) \in Nat /\ Head(b) % TagBase \in 0..(TagBase - 1)
        BY <1>1, <1>2, <2>1, Digits
      <3> QED BY <1>1, <3>1
    <2> QED BY <2>1
  <1>5. Descends(S, stop, rank, prev)
    <2>1. ASSUME NEW b \in S, b \notin stop PROVE rank[prev[b]] < rank[b]
      <3>1. b # <<>> /\ prev[b] = Tail(b) /\ Tail(b) \in S
        BY <1>2, <2>1
      <3>2. rank[prev[b]] = Len(Tail(b)) /\ rank[b] = Len(b)
        BY <3>1
      <3> QED BY <1>2, <3>1, <3>2
    <2> HIDE DEF S, stop, rank, prev
    <2> QED BY <1>3, <2>1 DEF Descends
  <1>6. PICK f : f \in [S -> T] /\ Solves(f, S, T, stop, prev, base, step)
    <2> HIDE DEF S, T, stop, rank, prev, base, step
    <2> QED BY <1>3, <1>4, <1>5, RecursionExists
  <1>7. Eq(f)
    <2>1. ASSUME NEW b \in Seq(Nat)
          PROVE  f[b] = IF b = <<>> THEN 0
                 ELSE IF Head(b) < TagBase THEN Head(b)
                 ELSE (Head(b) % TagBase) + TagBase * f[Tail(b)]
      <3>1. /\ f[prev[b]] \in T
            /\ b \in stop => f[b] = base[b]
            /\ b \notin stop => f[b] = step[b][f[prev[b]]]
        <4>1. b \in S
          OBVIOUS
        <4> HIDE DEF S, T, stop, prev, base, step
        <4> QED BY <1>3, <1>6, <4>1 DEF Solves
      <3>2. CASE b \in stop
        <4>1. f[b] = base[b] /\ base[b] = IF b = <<>> THEN 0 ELSE Head(b)
          BY <3>1, <3>2
        <4>2. b = <<>> \/ Head(b) < TagBase
          BY <3>2
        <4> HIDE DEF S, T, stop, prev, base, step
        <4> QED BY <4>1, <4>2
      <3>3. CASE b \notin stop
        <4>1. b # <<>> /\ ~(Head(b) < TagBase) /\ prev[b] = Tail(b)
          BY <3>3
        <4> DEFINE t == f[Tail(b)]
        <4>2. t \in T /\ f[b] = step[b][t]
          BY <3>1, <3>3, <4>1
        <4> HIDE DEF t
        <4>3. step[b][t] = IF b = <<>> THEN 0 ELSE (Head(b) % TagBase) + TagBase * t
          BY <4>2
        <4> HIDE DEF S, T, stop, prev, base, step
        <4> QED BY <4>1, <4>2, <4>3 DEF t
      <3> QED BY <3>2, <3>3
    <2> HIDE DEF S, T, stop, rank, prev, base, step
    <2>2. f = [b \in Seq(Nat) |-> f[b]]
      BY <1>6 DEF S
    <2> QED BY <2>1, <2>2
  <1> HIDE DEF S, T, stop, rank, prev, base, step
  <1>8. Eq(VarientDecode)
    <2> HIDE DEF Eq
    <2>1. VarientDecode = CHOOSE g : Eq(g)
      BY DEF VarientDecode, Eq
    <2> QED BY <1>7, <2>1
  <1> QED BY <1>8

(* What follows the first value. *)
LEMMA SkipEquation ==
  \A b \in Seq(Nat) :
    Skip[b] = IF b = <<>> THEN <<>>
              ELSE IF Head(b) < TagBase THEN Tail(b) ELSE Skip[Tail(b)]
  <1> DEFINE Eq(f) == f = [b \in Seq(Nat) |->
                 IF b = <<>> THEN <<>>
                 ELSE IF Head(b) < TagBase THEN Tail(b) ELSE f[Tail(b)]]
             S == Seq(Nat)
             T == Seq(Nat)
             stop == {b \in S : b = <<>> \/ Head(b) < TagBase}
             rank == [b \in S |-> Len(b)]
             prev == [b \in S |-> IF b = <<>> THEN b ELSE Tail(b)]
             base == [b \in S |-> IF b = <<>> THEN <<>> ELSE Tail(b)]
             step == [b \in S |-> [t \in T |-> t]]
  <1>1. TagBase \in Nat /\ TagBase > 1
    BY TraceAssumption
  <1>2. \A b \in Seq(Nat) : b # <<>> =>
          Head(b) \in Nat /\ Tail(b) \in Seq(Nat) /\ Len(Tail(b)) < Len(b)
    OBVIOUS
  <1>3. prev \in [S -> S] /\ rank \in [S -> Nat] /\ base \in [S -> T]
    BY <1>2
  <1>4. step \in [S -> [T -> T]]
    OBVIOUS
  <1>5. Descends(S, stop, rank, prev)
    <2>1. ASSUME NEW b \in S, b \notin stop PROVE rank[prev[b]] < rank[b]
      <3>1. b # <<>> /\ prev[b] = Tail(b) /\ Tail(b) \in S
        BY <1>2, <2>1
      <3>2. rank[prev[b]] = Len(Tail(b)) /\ rank[b] = Len(b)
        BY <3>1
      <3> QED BY <1>2, <3>1, <3>2
    <2> HIDE DEF S, stop, rank, prev
    <2> QED BY <1>3, <2>1 DEF Descends
  <1>6. PICK f : f \in [S -> T] /\ Solves(f, S, T, stop, prev, base, step)
    <2> HIDE DEF S, T, stop, rank, prev, base, step
    <2> QED BY <1>3, <1>4, <1>5, RecursionExists
  <1>7. Eq(f)
    <2>1. ASSUME NEW b \in Seq(Nat)
          PROVE  f[b] = IF b = <<>> THEN <<>>
                 ELSE IF Head(b) < TagBase THEN Tail(b) ELSE f[Tail(b)]
      <3>1. /\ f[prev[b]] \in T
            /\ b \in stop => f[b] = base[b]
            /\ b \notin stop => f[b] = step[b][f[prev[b]]]
        <4>1. b \in S
          OBVIOUS
        <4> HIDE DEF S, T, stop, prev, base, step
        <4> QED BY <1>3, <1>6, <4>1 DEF Solves
      <3>2. CASE b \in stop
        <4>1. f[b] = base[b] /\ base[b] = IF b = <<>> THEN <<>> ELSE Tail(b)
          BY <3>1, <3>2
        <4>2. b = <<>> \/ Head(b) < TagBase
          BY <3>2
        <4> HIDE DEF S, T, stop, prev, base, step
        <4> QED BY <4>1, <4>2
      <3>3. CASE b \notin stop
        <4>1. b # <<>> /\ ~(Head(b) < TagBase) /\ prev[b] = Tail(b)
          BY <3>3
        <4> DEFINE t == f[Tail(b)]
        <4>2. t \in T /\ f[b] = step[b][t]
          BY <3>1, <3>3, <4>1
        <4> HIDE DEF t
        <4>3. step[b][t] = t
          BY <4>2
        <4> HIDE DEF S, T, stop, prev, base, step
        <4> QED BY <4>1, <4>2, <4>3 DEF t
      <3> QED BY <3>2, <3>3
    <2> HIDE DEF S, T, stop, rank, prev, base, step
    <2>2. f = [b \in Seq(Nat) |-> f[b]]
      BY <1>6 DEF S
    <2> QED BY <2>1, <2>2
  <1> HIDE DEF S, T, stop, rank, prev, base, step
  <1>8. Eq(Skip)
    <2> HIDE DEF Eq
    <2>1. Skip = CHOOSE g : Eq(g)
      BY DEF Skip, Eq
    <2> QED BY <1>7, <2>1
  <1> QED BY <1>8

-----------------------------------------------------------------------------
LEMMA FirstByte ==
  ASSUME NEW x \in Nat, NEW s \in Seq(Nat)
  PROVE  LET b == <<x>> \o s
         IN  b \in Seq(Nat) /\ b # <<>> /\ Head(b) = x /\ Tail(b) = s
  <1> DEFINE b == <<x>> \o s
  <1>1. <<x>> \in Seq(Nat) /\ Len(<<x>>) = 1 /\ <<x>>[1] = x
    OBVIOUS
  <1>2. /\ b \in Seq(Nat) /\ Len(b) = 1 + Len(s) /\ b[1] = x
        /\ \A i \in 1..Len(s) : b[i + 1] = s[i]
    BY <1>1
  <1> HIDE DEF b
  <1>3. b # <<>> /\ Head(b) = x /\ Tail(b) \in Seq(Nat) /\ Len(Tail(b)) = Len(s)
    BY <1>2
  <1>4. \A i \in 1..Len(Tail(b)) : Tail(b)[i] = s[i]
    <2>1. \A i \in 1..Len(Tail(b)) : Tail(b)[i] = b[i + 1]
      BY <1>2, <1>3, HeadTailProperties
    <2> QED BY <1>2, <1>3, <2>1
  <1>5. Tail(b) = s
    BY <1>3, <1>4, SeqEqual
  <1> QED BY <1>2, <1>3, <1>5 DEF b

(* The value is read back and the rest is left, whatever follows it.  Zero *)
(* takes no byte and is read back only at the end.                         *)
LEMMA ValueReadBack ==
  ASSUME NEW v \in Nat, v # 0, NEW s \in Seq(Nat)
  PROVE  /\ VarientDecode[VarintEncode[v] \o s] = v
         /\ Skip[VarintEncode[v] \o s] = s
  <1> DEFINE Back(n) == n # 0 =>
                 \A r \in Seq(Nat) : VarientDecode[VarintEncode[n] \o r] = n
                                       /\ Skip[VarintEncode[n] \o r] = r
             P == {n \in Nat : Back(n)}
             id == [n \in Nat |-> n]
  <1>1. TagBase \in Nat /\ TagBase > 1
    BY TraceAssumption
  <1>2. ASSUME NEW n \in Nat, \A m \in Nat : id[m] < id[n] => m \in P
        PROVE  n \in P
    <2> SUFFICES ASSUME n # 0, NEW r \in Seq(Nat)
                 PROVE  /\ VarientDecode[VarintEncode[n] \o r] = n
                        /\ Skip[VarintEncode[n] \o r] = r
      OBVIOUS
    <2>1. CASE n < TagBase
      <3>1. VarintEncode[n] = <<n>>
        BY <2>1, EncodeEquation
      <3> DEFINE b == <<n>> \o r
      <3>2. b \in Seq(Nat) /\ b # <<>> /\ Head(b) = n /\ Tail(b) = r
        BY FirstByte
      <3> HIDE DEF b
      <3>3. VarientDecode[b] = n /\ Skip[b] = r
        BY <2>1, <3>2, DecodeEquation, SkipEquation
      <3> QED BY <3>1, <3>3 DEF b
    <2>2. CASE ~(n < TagBase)
      <3> DEFINE q == n \div TagBase
                 d == TagBase + (n % TagBase)
      <3>1. n >= TagBase
        BY <1>1, <2>2
      <3>2. /\ q \in Nat /\ n % TagBase \in 0..(TagBase - 1)
            /\ n = (n % TagBase) + TagBase * q /\ q < n /\ q > 0
        BY <1>1, <3>1, Digits
      <3>3. n % TagBase \in Nat /\ n % TagBase < TagBase
        BY <1>1, <3>2
      <3>4. d \in Nat /\ ~(d < TagBase)
        BY <1>1, <3>3
      <3>5. d % TagBase = n % TagBase
        BY <1>1, <3>3, FlaggedDigit
      <3> HIDE DEF q, d
      <3>6. Back(q)
        BY <1>2, <3>2
      <3>7. VarintEncode[n] = <<d>> \o VarintEncode[q]
        BY <2>2, EncodeEquation DEF q, d
      <3> DEFINE e == VarintEncode[q] \o r
                 b == <<d>> \o e
      <3>8. VarintEncode[q] \in Seq(Nat) /\ <<d>> \in Seq(Nat)
        <4>1. VarintEncode[q] \in Seq(Nat)
          BY <3>2, EncodeEquation
        <4>2. <<d>> \in Seq(Nat)
          BY <3>4
        <4> QED BY <4>1, <4>2
      <3>9. e \in Seq(Nat) /\ VarientDecode[e] = q /\ Skip[e] = r
        BY <3>2, <3>6, <3>8
      <3>10. VarintEncode[n] \o r = b
        <4>1. (<<d>> \o VarintEncode[q]) \o r = <<d>> \o (VarintEncode[q] \o r)
          <5> DEFINE first == <<d>>
                     others == VarintEncode[q]
          <5>1. first \in Seq(Nat) /\ others \in Seq(Nat)
            BY <3>8
          <5> HIDE DEF e, b, first, others
          <5>2. (first \o others) \o r = first \o (others \o r)
            BY <5>1, ConcatAssociative
          <5> QED BY <5>2 DEF first, others
        <4> QED BY <3>7, <4>1
      <3> HIDE DEF e
      <3>11. b \in Seq(Nat) /\ b # <<>> /\ Head(b) = d /\ Tail(b) = e
        BY <3>4, <3>9, FirstByte
      <3> HIDE DEF b
      <3>12. VarientDecode[b] = (d % TagBase) + TagBase * q
        BY <3>4, <3>9, <3>11, DecodeEquation
      <3>13. Skip[b] = r
        BY <3>4, <3>9, <3>11, SkipEquation
      <3> QED BY <3>2, <3>5, <3>10, <3>12, <3>13
    <2> QED BY <2>1, <2>2
  <1>3. id \in [Nat -> Nat]
    OBVIOUS
  <1>4. Nat \subseteq P
    <2> DEFINE S == Nat
    <2>1. \A n \in S : (\A m \in S : id[m] < id[n] => m \in P) => n \in P
      BY <1>2
    <2>2. id \in [S -> Nat]
      BY <1>3
    <2> HIDE DEF P, id, S
    <2>3. S \subseteq P
      BY <2>1, <2>2, RankInduction
    <2> QED BY <2>3 DEF S
  <1> QED BY <1>4

(* A tag brings back the number and the time it was made of: every number  *)
(* of a datagram, which is never zero, and every time (Ns3QuicTag,         *)
(* Serialize and Deserialize).                                             *)
THEOREM TagReadBack ==
  ASSUME NEW seq \in Nat, seq # 0, NEW time \in Nat
  PROVE  Deserialize(Serialize(seq, time)) = [seq |-> seq, time |-> time]
  <1>1. VarintEncode[seq] \in Seq(Nat) /\ VarintEncode[time] \in Seq(Nat)
    BY EncodeEquation
  <1>2. /\ VarientDecode[Serialize(seq, time)] = seq
        /\ Skip[Serialize(seq, time)] = VarintEncode[time]
    BY <1>1, ValueReadBack DEF Serialize
  <1>3. VarientDecode[VarintEncode[time]] = time
    <2>1. CASE time = 0
      <3>1. VarintEncode[time] = <<>>
        BY <2>1, EncodeEquation
      <3>2. <<>> \in Seq(Nat)
        OBVIOUS
      <3>3. VarientDecode[<<>>] = 0
        BY <3>2, DecodeEquation
      <3> QED BY <2>1, <3>1, <3>3
    <2>2. CASE time # 0
      <3>1. VarintEncode[time] \o <<>> = VarintEncode[time] /\ <<>> \in Seq(Nat)
        BY <1>1
      <3>2. VarientDecode[VarintEncode[time] \o <<>>] = time
        BY <2>2, <3>1, ValueReadBack
      <3> QED BY <3>1, <3>2
    <2> QED BY <2>1, <2>2
  <1> QED BY <1>2, <1>3 DEF Deserialize

-----------------------------------------------------------------------------
(* One datagram with a number above all others is counted and accounted    *)
(* for, and what is missing below it is lost.                              *)
LEMMA OnOwdOk ==
  ASSUME NEW t \in Trace, t.open, NEW numbers \in SUBSET Nat, CountInv(t, numbers), LogInv(t),
         NEW time \in Nat, t.receiptTime <= time,
         NEW seq \in Nat, seq > t.lastSeq
  PROVE  LET u == OnOwd(t, time, seq)
         IN  /\ u \in Trace /\ CountInv(u, numbers \cup {seq}) /\ LogInv(u)
             /\ u.receiptTime = time /\ u.lastSeq = seq
  <1> DEFINE read == [t EXCEPT !.readBytes    = @ + 1,
                               !.receiptTime  = time,
                               !.lastRateTime = IF @ = 0 THEN time ELSE @]
             line == LogGoodput(read)
             u == CountLost(line, seq)
  <1>1. /\ read \in Trace /\ read.open = t.open /\ read.lastSeq = t.lastSeq
        /\ read.lostPackets = t.lostPackets /\ read.readBytes = t.readBytes + 1
        /\ read.receiptTime = time
        /\ read.lastRateTime = (IF t.lastRateTime = 0 THEN time ELSE t.lastRateTime)
        /\ read.lastRateBytes = t.lastRateBytes /\ read.logged = t.logged
    <2> DEFINE since == IF t.lastRateTime = 0 THEN time ELSE t.lastRateTime
    <2>1. since \in Nat /\ t.readBytes + 1 \in Nat
      BY DEF Trace
    <2>2. read = [t EXCEPT !.readBytes = t.readBytes + 1, !.receiptTime = time,
                           !.lastRateTime = since]
      BY DEF Trace
    <2> HIDE DEF since, read
    <2>3. read \in Trace
      BY <2>1, <2>2 DEF Trace
    <2> QED BY <2>1, <2>2, <2>3 DEF Trace, since
  <1>2. /\ t.logged = t.lastRateBytes /\ t.lastRateBytes <= t.readBytes
        /\ t.lastRateTime <= time
    BY DEF LogInv, Trace
  <1>3. read.lastRateTime <= time /\ read.lastRateBytes < read.readBytes
    BY <1>1, <1>2 DEF Trace
  <1> HIDE DEF read
  <1>4. /\ line \in Trace /\ line.open = t.open /\ line.lastSeq = t.lastSeq
        /\ line.lostPackets = t.lostPackets /\ line.readBytes = t.readBytes + 1
        /\ line.receiptTime = time /\ line.lastRateTime <= time
        /\ line.logged = line.lastRateBytes /\ line.lastRateBytes <= line.readBytes
    <2>1. CASE read.receiptTime >= read.lastRateTime + GoodputInterval
      <3> DEFINE v == LogLine(read)
      <3>1. /\ v = [read EXCEPT !.logged = read.logged + (read.readBytes - read.lastRateBytes)]
            /\ read.logged + (read.readBytes - read.lastRateBytes) = read.readBytes
        BY <1>1, <1>2 DEF LogLine, Trace
      <3>2. /\ v \in Trace /\ v.logged = read.readBytes /\ v.open = read.open
            /\ v.lastSeq = read.lastSeq /\ v.lostPackets = read.lostPackets
            /\ v.readBytes = read.readBytes /\ v.receiptTime = read.receiptTime
        BY <1>1, <3>1 DEF Trace
      <3> HIDE DEF v
      <3>3. line = [v EXCEPT !.lastRateBytes = read.readBytes,
                             !.lastRateTime  = read.receiptTime]
        BY <2>1 DEF LogGoodput, v
      <3>4. read.readBytes \in Nat /\ read.receiptTime \in Nat
        BY <1>1 DEF Trace
      <3> HIDE DEF line
      <3>5. line \in Trace
        BY <3>2, <3>3, <3>4 DEF Trace
      <3>6. /\ line.open = v.open /\ line.lastSeq = v.lastSeq
            /\ line.lostPackets = v.lostPackets /\ line.readBytes = v.readBytes
            /\ line.receiptTime = v.receiptTime /\ line.logged = v.logged
            /\ line.lastRateTime = read.receiptTime /\ line.lastRateBytes = read.readBytes
        BY <3>2, <3>3 DEF Trace
      <3>7. time <= time /\ read.readBytes <= read.readBytes
        BY <3>4
      <3> QED BY <1>1, <3>2, <3>5, <3>6, <3>7
    <2>2. CASE ~(read.receiptTime >= read.lastRateTime + GoodputInterval)
      <3>1. line = read
        BY <2>2 DEF LogGoodput
      <3>2. read.lastRateBytes <= read.readBytes
        BY <1>1, <1>3 DEF Trace
      <3> QED BY <1>1, <1>2, <1>3, <3>1, <3>2
    <2> QED BY <2>1, <2>2
  <1> HIDE DEF line
  <1>5. t.lastSeq \in Nat /\ t.lostPackets \in Int
    BY DEF Trace
  <1>6. /\ u \in Trace /\ u.open = t.open /\ u.lastSeq = seq
        /\ u.lostPackets = t.lostPackets + (seq - t.lastSeq - 1)
        /\ u.readBytes = t.readBytes + 1
        /\ u.receiptTime = time /\ u.lastRateTime <= time
        /\ u.logged = u.lastRateBytes /\ u.lastRateBytes <= u.readBytes
    <2> DEFINE lost == t.lostPackets + (seq - t.lastSeq - 1)
    <2>1. lost \in Int /\ seq > t.lastSeq - 1
      BY <1>5
    <2>2. u = [line EXCEPT !.lostPackets = lost, !.lastSeq = seq]
      BY <1>4, <1>5, <2>1 DEF CountLost, Trace
    <2> HIDE DEF lost, u
    <2>3. u \in Trace
      BY <1>4, <2>1, <2>2 DEF Trace
    <2>4. /\ u.lastSeq = seq /\ u.lostPackets = lost /\ u.open = line.open
          /\ u.readBytes = line.readBytes /\ u.receiptTime = line.receiptTime
          /\ u.lastRateTime = line.lastRateTime /\ u.logged = line.logged
          /\ u.lastRateBytes = line.lastRateBytes
      BY <1>4, <2>2 DEF Trace
    <2> QED BY <1>4, <2>3, <2>4 DEF lost
  <1> HIDE DEF u
  <1>7. seq \notin numbers /\ IsFiniteSet(numbers)
    BY <1>5 DEF CountInv
  <1>8. /\ IsFiniteSet(numbers \cup {seq})
        /\ Cardinality(numbers \cup {seq}) = Cardinality(numbers) + 1
        /\ Cardinality(numbers) \in Nat
    BY <1>7, FS_AddElement, FS_CardinalityType
  <1>9. \A n \in numbers \cup {seq} : n <= seq
    BY <1>5 DEF CountInv
  <1>10. CountInv(u, numbers \cup {seq})
    BY <1>5, <1>6, <1>8, <1>9 DEF CountInv
  <1>11. LogInv(u)
    BY <1>6 DEF LogInv
  <1>12. u = OnOwd(t, time, seq)
    BY DEF OnOwd, u, line, read
  <1> QED BY <1>6, <1>10, <1>11, <1>12

(* Closing a trace accounts for the rest and counts nothing. *)
LEMMA CloseTraceOk ==
  ASSUME NEW t \in Trace, LogInv(t)
  PROVE  LET u == CloseTrace(t)
         IN  /\ u \in Trace /\ LogInv(u)
             /\ u.lastSeq = t.lastSeq /\ u.lostPackets = t.lostPackets
             /\ u.readBytes = t.readBytes /\ u.receiptTime = t.receiptTime
  <1> DEFINE u == CloseTrace(t)
  <1>1. CASE t.open /\ t.receiptTime > t.lastRateTime
    <2> DEFINE v == LogLine(t)
    <2>1. /\ v = [t EXCEPT !.logged = t.logged + (t.readBytes - t.lastRateBytes)]
          /\ t.logged + (t.readBytes - t.lastRateBytes) = t.readBytes
      BY <1>1 DEF LogLine, LogInv, Trace
    <2>2. u = [v EXCEPT !.open = FALSE]
      BY <1>1 DEF CloseTrace
    <2> HIDE DEF v, u
    <2>3. /\ v \in Trace /\ v.logged = t.readBytes
          /\ v.lastSeq = t.lastSeq /\ v.lostPackets = t.lostPackets
          /\ v.readBytes = t.readBytes /\ v.receiptTime = t.receiptTime
      BY <2>1 DEF Trace
    <2>4. /\ u \in Trace /\ u.logged = t.readBytes /\ ~u.open
          /\ u.lastSeq = t.lastSeq /\ u.lostPackets = t.lostPackets
          /\ u.readBytes = t.readBytes /\ u.receiptTime = t.receiptTime
      BY <2>2, <2>3 DEF Trace
    <2>5. LogInv(u)
      BY <2>4 DEF LogInv
    <2> QED BY <2>4, <2>5 DEF u
  <1>2. CASE ~(t.open /\ t.receiptTime > t.lastRateTime)
    <2>1. u = [t EXCEPT !.open = FALSE]
      BY <1>2 DEF CloseTrace
    <2>2. t.open => t.receiptTime = t.lastRateTime
      BY <1>2 DEF LogInv, Trace
    <2> HIDE DEF u
    <2>3. /\ u \in Trace /\ ~u.open /\ u.logged = t.logged
          /\ u.lastSeq = t.lastSeq /\ u.lostPackets = t.lostPackets
          /\ u.readBytes = t.readBytes /\ u.receiptTime = t.receiptTime
          /\ u.lastRateTime = t.lastRateTime
      BY <2>1 DEF Trace
    <2>4. LogInv(u)
      BY <2>2, <2>3 DEF LogInv
    <2> QED BY <2>3, <2>4 DEF u
  <1> QED BY <1>1, <1>2
=============================================================================
