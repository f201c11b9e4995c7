-------------------------- MODULE SesamReaderProofs --------------------------
(***************************************************************************)
(* Proofs about SesamReader: what the reader of SESAM files returns, for   *)
(* every file of any lines.                                                *)
(***************************************************************************)
EXTENDS SesamReader, TLAPS, SequenceTheorems, FiniteSetTheorems, WellFoundedInduction

----------------------------------------------------------------------------
(* Numbers and sequences. *)

(* Any numbers have a least one. *)
LEMMA LeastNumber ==
    ASSUME NEW T, T \subseteq Nat, T # {}
    PROVE  \E x \in T : \A y \in T : x <= y
<1> DEFINE U == {1..n : n \in T}
<1>1. U \subseteq FiniteSubsetsOf(Nat)
  <2>1. ASSUME NEW n \in T PROVE 1..n \in FiniteSubsetsOf(Nat)
    BY FS_Interval DEF FiniteSubsetsOf
  <2>2. QED
    BY <2>1
<1>2. U # {}
  OBVIOUS
<1>3. PICK s \in U : \A t \in U : ~(<<t, s>> \in StrictSubsetOrdering(Nat))
  <2> HIDE DEF U
  <2>1. IsWellFoundedOn(StrictSubsetOrdering(Nat), FiniteSubsetsOf(Nat))
    BY FS_StrictSubsetOrderingWellFounded
  <2>2. QED
    BY <1>1, <1>2, <2>1, WFMin
<1>4. PICK n \in T : s = 1..n
  BY <1>3
<1>5. ASSUME NEW y \in T PROVE n <= y
  <2>1. ~(<<1..y, 1..n>> \in StrictSubsetOrdering(Nat))
    BY <1>3, <1>4
  <2>2. CASE y < n
    <3>1. 1..y \subseteq 1..n /\ 1..y # 1..n
      BY <2>2
    <3>2. 1..y \subseteq Nat /\ 1..n \subseteq Nat
      OBVIOUS
    <3>3. QED
      BY <2>1, <3>1, <3>2 DEF StrictSubsetOrdering
  <2>3. QED
    BY <2>2
<1>6. QED
  BY <1>5

IsSeq(s) == s \in Seq({s[k] : k \in DOMAIN s})

LEMMA SeqIsSeq ==
    ASSUME NEW S, NEW s \in Seq(S)
    PROVE  IsSeq(s)
<1>1. DOMAIN s = 1..Len(s) /\ Len(s) \in Nat
  OBVIOUS
<1>2. QED
  BY <1>1, IsASeq DEF IsSeq

LEMMA IsSeqHas ==
    ASSUME NEW s, IsSeq(s)
    PROVE  DOMAIN s = 1..Len(s) /\ Len(s) \in Nat
BY DEF IsSeq

LEMMA AppendIsSeq ==
    ASSUME NEW s, IsSeq(s), NEW e
    PROVE  /\ IsSeq(Append(s, e)) /\ Len(Append(s, e)) = Len(s) + 1
           /\ Append(s, e)[Len(s) + 1] = e
           /\ \A k \in DOMAIN s : Append(s, e)[k] = s[k]
<1> DEFINE S == {s[k] : k \in DOMAIN s} \union {e}
<1>1. s \in Seq(S)
  BY SeqMonotonic DEF IsSeq
<1>2. e \in S
  OBVIOUS
<1>3. DOMAIN s = 1..Len(s) /\ Len(s) \in Nat
  BY IsSeqHas
<1> HIDE DEF S
<1>4. /\ Append(s, e) \in Seq(S) /\ Len(Append(s, e)) = Len(s) + 1
      /\ Append(s, e)[Len(s) + 1] = e
      /\ \A k \in 1..Len(s) : Append(s, e)[k] = s[k]
  BY <1>1, <1>2, AppendProperties
<1>5. QED
  BY <1>3, <1>4, SeqIsSeq

(* The function by which FlattenSeq is defined exists. *)
LEMMA FlattenExists ==
    ASSUME NEW ss, NEW N \in Nat
    PROVE  \E f : f = [i \in 1..N |-> IF i = 1 THEN ss[i] ELSE f[i-1] \o ss[i]]
<1> DEFINE Good(n) == \E f : f = [i \in 1..n |-> IF i = 1 THEN ss[i] ELSE f[i-1] \o ss[i]]
           T == {n \in Nat : ~Good(n)}
<1>1. SUFFICES ASSUME T # {} PROVE FALSE
  OBVIOUS
<1>2. PICK n \in T : \A m \in T : n <= m
  <2> HIDE DEF Good
  <2>1. QED
    BY <1>1, LeastNumber
<1>3. n # 0
  <2>1. [i \in {} |-> 0] = [i \in 1..0 |-> IF i = 1 THEN ss[i] ELSE [j \in {} |-> 0][i-1] \o ss[i]]
    OBVIOUS
  <2>2. Good(0)
    BY <2>1
  <2>3. QED
    BY <2>2
<1>4. Good(n - 1)
  <2> HIDE DEF Good
  <2>1. QED
    BY <1>2, <1>3
<1>5. PICK f : f = [i \in 1..(n-1) |-> IF i = 1 THEN ss[i] ELSE f[i-1] \o ss[i]]
  BY <1>4
<1> DEFINE g == [i \in 1..n |-> IF i = 1 THEN ss[i] ELSE f[i-1] \o ss[i]]
<1>6. ASSUME NEW i \in 1..(n-1) PROVE g[i] = f[i]
  <2>1. f[i] = IF i = 1 THEN ss[i] ELSE f[i-1] \o ss[i]
    BY <1>5
  <2>2. i \in 1..n
    BY <1>2
  <2>3. QED
    BY <2>1, <2>2
<1>7. g = [i \in 1..n |-> IF i = 1 THEN ss[i] ELSE g[i-1] \o ss[i]]
  <2>1. \A i \in 1..n : i # 1 => i - 1 \in 1..(n-1)
    BY <1>2
  <2>2. QED
    BY <1>6, <2>1
<1>8. QED
  BY <1>2, <1>7
LEMMA FlattenIs ==
    ASSUME NEW ss, IsSeq(ss), ss # <<>>
    PROVE  \E f : /\ f = [i \in 1..Len(ss) |-> IF i = 1 THEN ss[i] ELSE f[i-1] \o ss[i]]
                  /\ FlattenSeq(ss) = f[Len(ss)]
<1>1. Len(ss) \in Nat /\ Len(ss) # 0
  BY DEF IsSeq
<1>2. \E f : f = [i \in 1..Len(ss) |-> IF i = 1 THEN ss[i] ELSE f[i-1] \o ss[i]]
  BY <1>1, FlattenExists
<1>3. QED
  BY <1>1, <1>2 DEF FlattenSeq

LEMMA ConcatIs ==
    ASSUME NEW S, NEW u \in Seq(S), NEW v \in Seq(S)
    PROVE  /\ u \o v \in Seq(S) /\ Len(u \o v) = Len(u) + Len(v)
           /\ \A k \in 1..Len(u) : (u \o v)[k] = u[k]
           /\ \A k \in 1..Len(v) : (u \o v)[Len(u) + k] = v[k]
<1>1. Len(u) \in Nat /\ Len(v) \in Nat
  OBVIOUS
<1>2. /\ u \o v \in Seq(S) /\ Len(u \o v) = Len(u) + Len(v)
      /\ \A k \in 1..(Len(u) + Len(v)) : (u \o v)[k] = IF k <= Len(u) THEN u[k] ELSE v[k - Len(u)]
  BY ConcatProperties
<1>3. ASSUME NEW k \in 1..Len(u) PROVE (u \o v)[k] = u[k]
  <2>1. k \in 1..(Len(u) + Len(v)) /\ k <= Len(u)
    BY <1>1
  <2>2. QED
    BY <1>2, <2>1
<1>4. ASSUME NEW k \in 1..Len(v) PROVE (u \o v)[Len(u) + k] = v[k]
  <2>1. Len(u) + k \in 1..(Len(u) + Len(v)) /\ ~(Len(u) + k <= Len(u)) /\ Len(u) + k - Len(u) = k
    BY <1>1
  <2>2. QED
    BY <1>2, <2>1
<1>5. QED
  BY <1>2, <1>3, <1>4

LEMMA FlattenParts ==
    ASSUME NEW S, NEW ss \in Seq(Seq(S)), ss # <<>>
    PROVE  \E f : /\ f[1] = ss[1] /\ FlattenSeq(ss) = f[Len(ss)]
                  /\ \A i \in 1..Len(ss) : f[i] \in Seq(S)
                  /\ \A i \in 2..Len(ss) : f[i] = f[i-1] \o ss[i]
<1>1. IsSeq(ss)
  BY SeqIsSeq
<1>2. Len(ss) \in Nat /\ Len(ss) # 0 /\ \A i \in 1..Len(ss) : ss[i] \in Seq(S)
  OBVIOUS
<1>3. PICK f : /\ f = [i \in 1..Len(ss) |-> IF i = 1 THEN ss[i] ELSE f[i-1] \o ss[i]]
               /\ FlattenSeq(ss) = f[Len(ss)]
  BY <1>1, FlattenIs
<1>4. \A i \in 1..Len(ss) : f[i] = IF i = 1 THEN ss[i] ELSE f[i-1] \o ss[i]
  BY <1>3
<1> DEFINE T == {i \in 1..Len(ss) : f[i] \notin Seq(S)}
<1>5. ASSUME T # {} PROVE FALSE
  <2>1. PICK i \in T : \A j \in T : i <= j
    <3>1. T \subseteq Nat
      OBVIOUS
    <3> HIDE DEF T
    <3>2. QED
      BY <1>5, <3>1, LeastNumber
  <2>2. i # 1
    BY <1>2, <1>4, <2>1
  <2>3. i - 1 \in 1..Len(ss) /\ i - 1 \notin T
    BY <1>2, <2>1, <2>2
  <2>4. f[i-1] \in Seq(S) /\ f[i] = f[i-1] \o ss[i] /\ ss[i] \in Seq(S)
    BY <1>2, <1>4, <2>1, <2>2, <2>3
  <2>5. f[i-1] \o ss[i] \in Seq(S)
    BY <2>4, ConcatProperties
  <2>6. QED
    BY <2>1, <2>4, <2>5
<1>6. f[1] = ss[1] /\ FlattenSeq(ss) = f[Len(ss)]
  BY <1>2, <1>3, <1>4
<1>7. ASSUME NEW i \in 2..Len(ss) PROVE f[i] = f[i-1] \o ss[i]
  <2>1. i \in 1..Len(ss) /\ i # 1
    BY <1>2
  <2>2. QED
    BY <1>4, <2>1
<1>8. QED
  BY <1>5, <1>6, <1>7

LEMMA FlattenIsSeq ==
    ASSUME NEW S, NEW ss \in Seq(Seq(S))
    PROVE  FlattenSeq(ss) \in Seq(S)
<1>1. CASE ss = <<>>
  BY <1>1 DEF FlattenSeq
<1>2. CASE ss # <<>>
  <2>1. Len(ss) \in 1..Len(ss)
    BY <1>2
  <2>2. QED
    BY <1>2, <2>1, FlattenParts
<1>3. QED
  BY <1>1, <1>2

(* The sequence w is G, one after the other; e says where each one ends.    *)
Split(w, G, e) ==
    /\ e[0] = 0 /\ e[Len(G)] = Len(w)
    /\ \A j \in 1..Len(G) :
          /\ e[j] \in Nat /\ e[j-1] \in Nat /\ e[j] = e[j-1] + Len(G[j]) /\ e[j] <= Len(w)
          /\ \A m \in 1..Len(G[j]) : w[e[j-1] + m] = G[j][m]

LEMMA FlattenSplits ==
    ASSUME NEW S, NEW G \in Seq(Seq(S))
    PROVE  \E e : Split(FlattenSeq(G), G, e)
<1>1. CASE G = <<>>
  <2>1. FlattenSeq(G) = <<>> /\ Len(G) = 0 /\ Len(<<>>) = 0
    BY <1>1 DEF FlattenSeq
  <2>2. Split(FlattenSeq(G), G, [j \in {0} |-> 0])
    BY <2>1 DEF Split
  <2>3. QED
    BY <2>2
<1>2. CASE G # <<>>
  <2>1. /\ Len(G) \in Nat /\ Len(G) # 0
        /\ \A j \in 1..Len(G) : G[j] \in Seq(S) /\ Len(G[j]) \in Nat
    BY <1>2
  <2>2. PICK f : /\ f[1] = G[1] /\ FlattenSeq(G) = f[Len(G)]
                 /\ \A i \in 1..Len(G) : f[i] \in Seq(S)
                 /\ \A i \in 2..Len(G) : f[i] = f[i-1] \o G[i]
    BY <1>2, FlattenParts
  <2> DEFINE e == [j \in 0..Len(G) |-> IF j = 0 THEN 0 ELSE Len(f[j])]
             Good(i) == \A j \in 1..i : /\ e[j] <= e[i]
                                        /\ \A m \in 1..Len(G[j]) : f[i][e[j-1] + m] = G[j][m]
             T == {i \in 1..Len(G) : ~Good(i)}
  <2>3. e[0] = 0 /\ \A j \in 1..Len(G) : e[j] = Len(f[j]) /\ e[j] \in Nat
    BY <2>1, <2>2
  <2> HIDE DEF e
  <2>4. ASSUME NEW i \in 2..Len(G)
        PROVE  /\ Len(f[i]) = Len(f[i-1]) + Len(G[i])
               /\ \A k \in 1..Len(f[i-1]) : f[i][k] = f[i-1][k]
               /\ \A k \in 1..Len(G[i]) : f[i][Len(f[i-1]) + k] = G[i][k]
    <3>1. i - 1 \in 1..Len(G) /\ i \in 1..Len(G)
      BY <2>1
    <3>2. f[i-1] \in Seq(S) /\ G[i] \in Seq(S) /\ f[i] = f[i-1] \o G[i]
      BY <2>1, <2>2, <3>1
    <3> DEFINE u == f[i-1]
               v == G[i]
    <3>3. u \in Seq(S) /\ v \in Seq(S) /\ f[i] = u \o v
      BY <3>2
    <3> HIDE DEF u, v
    <3>4. /\ Len(f[i]) = Len(u) + Len(v) /\ \A k \in 1..Len(u) : f[i][k] = u[k]
          /\ \A k \in 1..Len(v) : f[i][Len(u) + k] = v[k]
      <4> HIDE DEF Good, T
      <4>1. QED
        BY <3>3, ConcatIs
    <3>5. QED
      BY <3>4 DEF u, v
  <2>5. ASSUME NEW j \in 1..Len(G) PROVE e[j-1] \in Nat /\ e[j] = e[j-1] + Len(G[j])
    <3>1. CASE j = 1
      BY <2>1, <2>2, <2>3, <3>1
    <3>2. CASE j # 1
      <4>1. j \in 2..Len(G) /\ j - 1 \in 1..Len(G)
        BY <2>1, <3>2
      <4>2. QED
        BY <2>3, <2>4, <4>1
    <3>3. QED
      BY <3>1, <3>2
  <2>6. ASSUME T # {} PROVE FALSE
    <3>1. PICK i \in T : \A j \in T : i <= j
      <4>1. T \subseteq Nat
        OBVIOUS
      <4> HIDE DEF T
      <4>2. QED
        BY <2>6, <4>1, LeastNumber
    <3>2. i # 1
      <4>1. Good(1)
        BY <2>1, <2>2, <2>3
      <4>2. QED
        BY <3>1, <4>1
    <3>3. i \in 2..Len(G) /\ i - 1 \in 1..Len(G)
      BY <2>1, <3>1, <3>2
    <3>4. Good(i - 1)
      <4> HIDE DEF Good
      <4>1. i \in Nat /\ ~(i <= i - 1)
        BY <2>1, <3>1
      <4>2. QED
        BY <3>1, <3>3, <4>1
    <3>5. ASSUME NEW j \in 1..i
          PROVE  e[j] <= e[i] /\ \A m \in 1..Len(G[j]) : f[i][e[j-1] + m] = G[j][m]
      <4>1. j \in 1..Len(G) /\ Len(G[j]) \in Nat /\ Len(G[i]) \in Nat
        BY <2>1, <3>3
      <4>2. /\ e[j] \in Nat /\ e[j-1] \in Nat /\ e[j] = e[j-1] + Len(G[j])
            /\ e[i] \in Nat /\ e[i-1] \in Nat /\ e[i] = e[i-1] + Len(G[i])
        BY <2>3, <2>5, <3>3, <4>1
      <4>3. CASE j = i
        <5>1. Len(f[i-1]) = e[i-1]
          BY <2>3, <3>3
        <5>2. \A k \in 1..Len(G[i]) : f[i][e[i-1] + k] = G[i][k]
          BY <2>4, <3>3, <5>1
        <5>3. QED
          BY <4>2, <4>3, <5>2
      <4>4. CASE j # i
        <5>1. j \in 1..(i-1)
          BY <3>3, <4>4
        <5>2. e[j] <= e[i-1]
          BY <3>4, <5>1
        <5>3. e[j] <= e[i]
          BY <4>1, <4>2, <5>2
        <5>4. ASSUME NEW m \in 1..Len(G[j]) PROVE f[i][e[j-1] + m] = G[j][m]
          <6>1. f[i-1][e[j-1] + m] = G[j][m]
            BY <3>4, <5>1
          <6>2. e[j-1] + m \in 1..Len(f[i-1])
            <7>1. Len(f[i-1]) = e[i-1]
              BY <2>3, <3>3
            <7>2. m \in Nat /\ 1 <= m /\ m <= Len(G[j])
              BY <4>1
            <7> DEFINE a == e[j-1]
            <7>3. a \in Nat /\ e[j] = a + Len(G[j])
              BY <4>2
            <7> HIDE DEF Good, T, a
            <7>4. a + m \in 1..e[i-1]
              BY <4>1, <4>2, <5>2, <7>2, <7>3
            <7>5. QED
              BY <7>1, <7>4 DEF a
          <6>3. QED
            BY <2>4, <3>3, <6>1, <6>2
        <5>5. QED
          BY <5>3, <5>4
      <4>5. QED
        BY <4>3, <4>4
    <3>6. QED
      BY <3>1, <3>5
  <2>7. Len(G) \in 1..Len(G)
    BY <2>1
  <2>8. Good(Len(G))
    BY <2>6, <2>7
  <2>9. Split(FlattenSeq(G), G, e)
    <3>1. e[Len(G)] = Len(FlattenSeq(G))
      BY <2>2, <2>3, <2>7
    <3>2. \A j \in 1..Len(G) : e[j] <= e[Len(G)] /\ \A m \in 1..Len(G[j]) : f[Len(G)][e[j-1] + m] = G[j][m]
      BY <2>8
    <3>3. QED
      BY <2>2, <2>3, <2>5, <3>1, <3>2 DEF Split
  <2>10. QED
    BY <2>9
<1>3. QED
  BY <1>1, <1>2

(* Every place of w is in one of G. *)
Covered(w, G, e) ==
    \A p \in 1..Len(w) : \E j \in 1..Len(G) : \E m \in 1..Len(G[j]) : p = e[j-1] + m

LEMMA SplitCovers ==
    ASSUME NEW w, NEW G, NEW e, Split(w, G, e), Len(G) \in Nat,
           \A j \in 1..Len(G) : Len(G[j]) \in Nat, Len(w) \in Nat
    PROVE  Covered(w, G, e)
<1> SUFFICES ASSUME NEW p \in 1..Len(w)
             PROVE  \E j \in 1..Len(G) : \E m \in 1..Len(G[j]) : p = e[j-1] + m
  BY DEF Covered
<1> DEFINE T == {j \in 1..Len(G) : p <= e[j]}
<1>1. Len(G) # 0 /\ p \in Nat /\ p # 0
  BY DEF Split
<1>2. Len(G) \in T
  BY <1>1 DEF Split
<1>3. PICK j \in T : \A i \in T : j <= i
  <2>1. T \subseteq Nat
    OBVIOUS
  <2> HIDE DEF T
  <2>2. QED
    BY <1>2, <2>1, LeastNumber
<1>4. e[j] \in Nat /\ e[j-1] \in Nat /\ e[j] = e[j-1] + Len(G[j]) /\ Len(G[j]) \in Nat
  BY <1>3 DEF Split
<1>5. ~(p <= e[j-1])
  <2>1. CASE j = 1
    BY <1>1, <2>1 DEF Split
  <2>2. CASE j # 1
    <3>1. j - 1 \in 1..Len(G) /\ ~(j <= j - 1)
      BY <1>3, <2>2
    <3>2. QED
      BY <1>3, <3>1
  <2>3. QED
    BY <2>1, <2>2
<1>6. p <= e[j] /\ j \in 1..Len(G)
  BY <1>3
<1>7. p - e[j-1] \in 1..Len(G[j]) /\ p = e[j-1] + (p - e[j-1])
  BY <1>1, <1>4, <1>5, <1>6
<1>8. \E m \in 1..Len(G[j]) : p = e[j-1] + m
  BY <1>7
<1> HIDE DEF T
<1>9. QED
  BY <1>6, <1>8

(* What is in a flattened sequence is in one of its parts, and the other way. *)
LEMMA FlattenHas ==
    ASSUME NEW S, NEW G \in Seq(Seq(S))
    PROVE  /\ \A p \in DOMAIN FlattenSeq(G) :
                 \E j \in DOMAIN G : \E m \in DOMAIN G[j] : FlattenSeq(G)[p] = G[j][m]
           /\ \A j \in DOMAIN G : \A m \in DOMAIN G[j] :
                 \E p \in DOMAIN FlattenSeq(G) : FlattenSeq(G)[p] = G[j][m]
<1> DEFINE w == FlattenSeq(G)
<1>1. w \in Seq(S)
  BY FlattenIsSeq
<1>2. PICK e : Split(w, G, e)
  BY FlattenSplits
<1> HIDE DEF w
<1>3. /\ DOMAIN w = 1..Len(w) /\ Len(w) \in Nat /\ DOMAIN G = 1..Len(G) /\ Len(G) \in Nat
      /\ \A j \in 1..Len(G) : DOMAIN G[j] = 1..Len(G[j]) /\ Len(G[j]) \in Nat
  <2>1. \A j \in 1..Len(G) : G[j] \in Seq(S)
    OBVIOUS
  <2>2. QED
    BY <1>1, <2>1
<1>4. ASSUME NEW p \in DOMAIN w PROVE \E j \in DOMAIN G : \E m \in DOMAIN G[j] : w[p] = G[j][m]
  <2>1. PICK j \in 1..Len(G) : \E m \in 1..Len(G[j]) : p = e[j-1] + m
    <3>1. p \in 1..Len(w) /\ Len(w) \in Nat /\ Len(G) \in Nat
      BY <1>3
    <3>2. \A j \in 1..Len(G) : Len(G[j]) \in Nat
      BY <1>3
    <3>3. Covered(w, G, e)
      BY <1>2, <3>1, <3>2, SplitCovers
    <3>4. QED
      BY <3>1, <3>3 DEF Covered
  <2>2. PICK m \in 1..Len(G[j]) : p = e[j-1] + m
    BY <2>1
  <2>3. w[p] = G[j][m]
    BY <1>2, <2>1, <2>2 DEF Split
  <2>4. QED
    BY <1>3, <2>1, <2>2, <2>3
<1>5. ASSUME NEW j \in DOMAIN G, NEW m \in DOMAIN G[j] PROVE \E p \in DOMAIN w : w[p] = G[j][m]
  <2>1. j \in 1..Len(G) /\ m \in 1..Len(G[j]) /\ Len(G[j]) \in Nat
    BY <1>3
  <2>2. /\ e[j] \in Nat /\ e[j-1] \in Nat /\ e[j] = e[j-1] + Len(G[j]) /\ e[j] <= Len(w)
        /\ w[e[j-1] + m] = G[j][m]
    BY <1>2, <2>1 DEF Split
  <2>3. e[j-1] + m \in DOMAIN w
    BY <1>3, <2>1, <2>2
  <2>4. QED
    BY <2>2, <2>3
<1>6. QED
  BY <1>4, <1>5 DEF w

LEMMA SplitAppend ==
    ASSUME NEW S, NEW w \in Seq(S), NEW G \in Seq(Seq(S)), NEW e, Split(w, G, e), NEW g \in Seq(S)
    PROVE  \E d : Split(w \o g, Append(G, g), d)
<1> DEFINE v == w \o g
           H == Append(G, g)
           n == Len(G)
           d == [j \in 0..(n + 1) |-> IF j = n + 1 THEN Len(w) + Len(g) ELSE e[j]]
<1>1. n \in Nat /\ Len(w) \in Nat /\ Len(g) \in Nat /\ \A j \in 1..n : Len(G[j]) \in Nat
  <2>1. \A j \in 1..n : G[j] \in Seq(S)
    OBVIOUS
  <2>2. QED
    BY <2>1
<1>2. /\ Len(H) = n + 1 /\ H[n + 1] = g /\ \A j \in 1..n : H[j] = G[j]
  BY AppendProperties
<1>3. /\ Len(v) = Len(w) + Len(g) /\ \A k \in 1..Len(w) : v[k] = w[k]
      /\ \A k \in 1..Len(g) : v[Len(w) + k] = g[k]
  BY <1>1, ConcatProperties
<1>4. d[n + 1] = Len(w) + Len(g) /\ \A j \in 0..n : d[j] = e[j]
  BY <1>1
<1>5. e[n] = Len(w) /\ e[0] = 0
  BY DEF Split
<1> HIDE DEF v, H, d, n
<1>6. ASSUME NEW j \in 1..(n + 1)
      PROVE  /\ d[j] \in Nat /\ d[j-1] \in Nat /\ d[j] = d[j-1] + Len(H[j]) /\ d[j] <= Len(v)
             /\ \A m \in 1..Len(H[j]) : v[d[j-1] + m] = H[j][m]
  <2>1. CASE j = n + 1
    <3>1. d[j-1] = Len(w) /\ d[j] = Len(w) + Len(g) /\ H[j] = g
      BY <1>1, <1>2, <1>4, <1>5, <2>1
    <3>2. QED
      BY <1>1, <1>3, <3>1
  <2>2. CASE j # n + 1
    <3>1. j \in 1..n /\ d[j] = e[j] /\ d[j-1] = e[j-1] /\ H[j] = G[j]
      <4>1. j \in 1..n /\ j \in 0..n /\ j - 1 \in 0..n
        BY <1>1, <2>2
      <4>2. QED
        BY <1>2, <1>4, <4>1
    <3>2. /\ e[j] \in Nat /\ e[j-1] \in Nat /\ e[j] = e[j-1] + Len(G[j]) /\ e[j] <= Len(w)
          /\ \A m \in 1..Len(G[j]) : w[e[j-1] + m] = G[j][m]
      BY <3>1 DEF Split, n
    <3>3. ASSUME NEW m \in 1..Len(G[j]) PROVE e[j-1] + m \in 1..Len(w)
      <4>1. Len(G[j]) \in Nat
        BY <1>1, <3>1
      <4>2. QED
        BY <1>1, <3>2, <4>1
    <3>4. ASSUME NEW m \in 1..Len(H[j]) PROVE v[d[j-1] + m] = H[j][m]
      <4>1. m \in 1..Len(G[j]) /\ d[j-1] + m = e[j-1] + m
        BY <3>1
      <4>2. QED
        BY <1>3, <3>1, <3>2, <3>3, <4>1
    <3>5. d[j] = d[j-1] + Len(H[j]) /\ d[j] \in Nat /\ d[j-1] \in Nat /\ d[j] <= Len(v)
      BY <1>1, <1>3, <3>1, <3>2
    <3>6. QED
      BY <3>4, <3>5
  <2>3. QED
    BY <2>1, <2>2
<1>7. Split(v, H, d)
  <2>1. d[0] = 0 /\ d[Len(H)] = Len(v)
    BY <1>1, <1>2, <1>3, <1>4, <1>5
  <2>2. QED
    BY <1>2, <1>6, <2>1 DEF Split
<1>8. QED
  BY <1>7 DEF v, H, n

----------------------------------------------------------------------------
(* What the diagnostics of a document leave out. *)

LEMMA NotAnError ==
    ASSUME NEW D, ~HasErrors(D), NEW E, E \subseteq D
    PROVE  ~HasErrors(E)
BY DEF HasErrors

LEMMA OneOfAnId ==
    ASSUME NEW R, IsSeq(R), NEW S, S \subseteq DOMAIN R, NEW i \in First(R, S), NEW j \in First(R, S),
           Id(R, i) = Id(R, j)
    PROVE  i = j
<1>1. i \in S /\ j \in S /\ i \in Nat /\ j \in Nat
  BY IsSeqHas DEF First
<1>2. ~(i < j) /\ ~(j < i)
  BY <1>1 DEF First
<1>3. QED
  BY <1>1, <1>2

LEMMA NoneTooShort ==
    ASSUME NEW R, NEW names, NEW least, ~HasErrors(TooShort(R, names, least))
    PROVE  \A i \in Named(R, names) : ~(Len(R[i].numbers) < least)
<1> SUFFICES ASSUME NEW i \in Named(R, names), Len(R[i].numbers) < least PROVE FALSE
  OBVIOUS
<1>1. Error("FEM101", i) \in TooShort(R, names, least)
  BY DEF TooShort
<1>2. QED
  BY <1>1 DEF HasErrors, Error

LEMMA NoBadIds ==
    ASSUME NEW R, NEW names, NEW least, ~HasErrors(BadIds(R, names, least)),
           NEW i \in Named(R, names), Len(R[i].numbers) >= least
    PROVE  i \in Numbered(R, names, least)
<1> SUFFICES ASSUME Id(R, i) = Fraction PROVE FALSE
  BY DEF Numbered
<1>1. Error("FEM002", i) \in BadIds(R, names, least)
  BY DEF BadIds
<1>2. QED
  BY <1>1 DEF HasErrors, Error

LEMMA NoDuplicates ==
    ASSUME NEW R, NEW S, ~HasErrors(Duplicates(R, S))
    PROVE  S = First(R, S)
<1> SUFFICES ASSUME NEW i \in S \ First(R, S) PROVE FALSE
  BY DEF First
<1>1. Error("FEM102", i) \in Duplicates(R, S)
  BY DEF Duplicates
<1>2. QED
  BY <1>1 DEF HasErrors, Error

(* A table without refusals has every record of it, and one of an id.       *)
LEMMA TableWhole ==
    ASSUME NEW R, IsSeq(R), NEW names, NEW least \in Nat,
           \A i \in DOMAIN R : Len(R[i].numbers) \in Nat,
           ~HasErrors(Refusals(R, names, least)),
           NEW i \in Named(R, names), NEW j \in Named(R, names), Id(R, i) = Id(R, j)
    PROVE  i = j
<1> DEFINE S == Numbered(R, names, least)
<1>1. /\ ~HasErrors(TooShort(R, names, least)) /\ ~HasErrors(BadIds(R, names, least))
      /\ ~HasErrors(Duplicates(R, S))
  BY NotAnError DEF Refusals
<1>2. ASSUME NEW k \in Named(R, names) PROVE k \in S
  <2>1. Len(R[k].numbers) \in Nat /\ ~(Len(R[k].numbers) < least)
    BY <1>1, NoneTooShort DEF Named
  <2>2. QED
    BY <1>1, <2>1, NoBadIds
<1>3. S = First(R, S) /\ S \subseteq DOMAIN R
  BY <1>1, NoDuplicates DEF Numbered, Named
<1> HIDE DEF S
<1>4. QED
  BY <1>2, <1>3, OneOfAnId

(* So do the elements, which are checked in another order. *)
LEMMA ElementsWhole ==
    ASSUME NEW R, IsSeq(R), \A i \in DOMAIN R : Len(R[i].numbers) \in Nat,
           ~HasErrors(ElementRefusals(R))
    PROVE  /\ Named(R, {"GELMNT1"}) = Elements(R)
           /\ \A i \in Elements(R) : WellFormed(R[i].numbers)
<1> DEFINE S == {i \in ElementRecords(R) : WellFormed(R[i].numbers)}
<1>1. /\ ~HasErrors(TooShort(R, {"GELMNT1"}, 3)) /\ ~HasErrors(BadIds(R, {"GELMNT1"}, 3))
      /\ ~HasErrors(Malformed(R))
  <2>1. TooShort(R, {"GELMNT1"}, 3) \subseteq ElementRefusals(R)
    BY DEF ElementRefusals
  <2>2. BadIds(R, {"GELMNT1"}, 3) \subseteq ElementRefusals(R)
    BY DEF ElementRefusals
  <2>3. Malformed(R) \subseteq ElementRefusals(R)
    BY DEF ElementRefusals
  <2>4. QED
    BY <2>1, <2>2, <2>3 DEF HasErrors
<1>2. ASSUME NEW i \in Named(R, {"GELMNT1"}) PROVE i \in ElementRecords(R)
  <2>1. Len(R[i].numbers) \in Nat /\ ~(Len(R[i].numbers) < 3)
    BY <1>1, NoneTooShort DEF Named
  <2>2. QED
    BY <1>1, <2>1, NoBadIds DEF ElementRecords
<1>3. ASSUME NEW i \in ElementRecords(R) PROVE i \in Fresh(R) /\ WellFormed(R[i].numbers)
  <2>1. CASE i \notin Fresh(R)
    <3>1. Error("FEM102", i) \in ElementRefusals(R)
      BY <2>1 DEF ElementRefusals
    <3>2. QED
      BY <3>1 DEF HasErrors, Error
  <2>2. CASE i \in Fresh(R) /\ ~Layout(R[i].numbers)
    <3> DEFINE T == {j \in Fresh(R) : ~Layout(R[j].numbers)}
               E == {Error("FEM103", j) : j \in T}
    <3>1. E \subseteq Malformed(R)
      BY DEF Malformed
    <3>2. i \in T
      BY <2>2
    <3>3. Error("FEM103", i) \in Malformed(R)
      BY <3>1, <3>2
    <3>4. QED
      BY <1>1, <3>3 DEF HasErrors, Error
  <2>3. CASE i \in Fresh(R) /\ Layout(R[i].numbers) /\ ~Complete(R[i].numbers)
    <3> DEFINE T == {j \in Fresh(R) : Layout(R[j].numbers) /\ ~Complete(R[j].numbers)}
               E == {Error("FEM104", j) : j \in T}
    <3>1. E \subseteq Malformed(R)
      BY DEF Malformed
    <3>2. i \in T
      BY <2>3
    <3>3. Error("FEM104", i) \in Malformed(R)
      BY <3>1, <3>2
    <3>4. QED
      BY <1>1, <3>3 DEF HasErrors, Error
  <2>4. CASE i \in Fresh(R) /\ Complete(R[i].numbers) /\ ~WellFormed(R[i].numbers)
    <3> DEFINE T == {j \in Fresh(R) : Complete(R[j].numbers) /\ ~WellFormed(R[j].numbers)}
               E == {Error("FEM002", j) : j \in T}
    <3>1. E \subseteq Malformed(R)
      BY DEF Malformed
    <3>2. i \in T
      BY <2>4
    <3>3. Error("FEM002", i) \in Malformed(R)
      BY <3>1, <3>2
    <3>4. QED
      BY <1>1, <3>3 DEF HasErrors, Error
  <2>5. QED
    BY <2>1, <2>2, <2>3, <2>4
<1>4. S = ElementRecords(R) /\ Elements(R) = First(R, S) /\ S \subseteq DOMAIN R
  BY <1>3 DEF Elements, ElementRecords, Numbered, Named
<1>5. ElementRecords(R) = Elements(R)
  <2> DEFINE T == ElementRecords(R) \ Elements(R)
  <2>1. SUFFICES ASSUME T # {} PROVE FALSE
    BY <1>4 DEF First
  <2>2. T \subseteq Nat
    BY <1>4, IsSeqHas
  <2>3. PICK i \in T : \A j \in T : i <= j
    <3> HIDE DEF T
    <3>1. QED
      BY <2>1, <2>2, LeastNumber
  <2>4. ASSUME NEW j \in S, j < i PROVE Id(R, j) # Id(R, i)
    <3>1. j \in Elements(R)
      BY <1>4, <2>2, <2>3, <2>4, IsSeqHas
    <3>2. QED
      BY <1>3, <2>3, <2>4, <3>1 DEF Fresh
  <2>5. QED
    BY <1>4, <2>3, <2>4 DEF First
<1>6. QED
  BY <1>2, <1>4, <1>5 DEF ElementRecords, Numbered

(* What strict reading accepts holds together. *)
LEMMA AcceptedHoldsTogether ==
    ASSUME NEW R, IsSeq(R), \A i \in DOMAIN R : Len(R[i].numbers) \in Nat,
           ~HasErrors(ParseDiagnostics(R) \union Validate(R))
    PROVE  /\ R # <<>> /\ Last(R).name = "IEND"
           /\ \A i \in Named(R, {"GELMNT1"}) :
                 /\ WellFormed(R[i].numbers)
                 /\ ToSet(NodeIds(R[i].numbers)) \subseteq Ids(R, Nodes(R))
           /\ \A name \in {"MISOSEL", "GCOORD", "GELMNT1"} :
                 \A i, j \in Named(R, {name}) :
                     R[i].numbers[1] = R[j].numbers[1] => i = j
<1>1. ~HasErrors(Validate(R)) /\ ~HasErrors(ParseDiagnostics(R))
  BY NotAnError
<1>2. /\ ~HasErrors(Refusals(R, {"MISOSEL"}, 1)) /\ ~HasErrors(Refusals(R, {"GCOORD"}, 1))
      /\ ~HasErrors(ElementRefusals(R))
  BY <1>1, NotAnError DEF ParseDiagnostics, CoordinateRefusals
<1>3. R # <<>> /\ Last(R).name = "IEND"
  <2>1. Error("FEM003", 0).severity = "error"
    BY DEF Error
  <2>2. QED
    BY <1>1, <2>1 DEF Validate, HasErrors
<1>4. Named(R, {"GELMNT1"}) = Elements(R) /\ \A i \in Elements(R) : WellFormed(R[i].numbers)
  BY <1>2, ElementsWhole
<1>5. ASSUME NEW i \in Elements(R) PROVE ToSet(NodeIds(R[i].numbers)) \subseteq Ids(R, Nodes(R))
  <2>1. SUFFICES ASSUME NEW k \in DOMAIN NodeIds(R[i].numbers),
                        NodeIds(R[i].numbers)[k] \notin Ids(R, Nodes(R))
                 PROVE  FALSE
    BY DEF ToSet
  <2>2. Element(R, i).nodes = NodeIds(R[i].numbers)
    BY DEF Element
  <2>3. Error("FEM105", 0) \in ElementTold(R, Element(R, i))
    BY <2>1, <2>2 DEF ElementTold
  <2>4. UNION {ElementTold(R, Element(R, j)) : j \in Elements(R)} \subseteq Validate(R)
    BY <1>3 DEF Validate
  <2>5. Error("FEM105", 0) \in Validate(R)
    BY <2>3, <2>4
  <2>6. QED
    BY <1>1, <2>5 DEF HasErrors, Error
<1>6. ASSUME NEW name \in {"MISOSEL", "GCOORD"}, NEW i \in Named(R, {name}), NEW j \in Named(R, {name}),
             R[i].numbers[1] = R[j].numbers[1]
      PROVE  i = j
  BY <1>2, <1>6, TableWhole DEF Id
<1>7. ASSUME NEW i \in Named(R, {"GELMNT1"}), NEW j \in Named(R, {"GELMNT1"}),
             R[i].numbers[1] = R[j].numbers[1]
      PROVE  i = j
  <2> DEFINE S == {k \in ElementRecords(R) : WellFormed(R[k].numbers)}
  <2>1. Elements(R) = First(R, S) /\ S \subseteq DOMAIN R
    BY DEF Elements, ElementRecords, Numbered, Named
  <2> HIDE DEF S
  <2>2. QED
    BY <1>4, <1>7, <2>1, OneOfAnId DEF Id
<1>8. QED
  BY <1>3, <1>4, <1>5, <1>6, <1>7

----------------------------------------------------------------------------
(* Records and lines. *)

LEMMA NumbersAre ==
    ASSUME NEW line \in Lines
    PROVE  NumbersOf(line) \in Seq(Numbers)
<1> DEFINE ss == [k \in DOMAIN line.text |-> line.text[k].numbers]
<1>1. line.text \in Seq(Pieces) /\ line.numbers \in Seq(Numbers)
  BY DEF Lines
<1>2. \A k \in DOMAIN line.text : line.text[k].numbers \in Seq(Numbers)
  <2>1. \A k \in DOMAIN line.text : line.text[k] \in Pieces
    BY <1>1
  <2>2. \A p \in Pieces : p.numbers \in Seq(Numbers)
    BY DEF Pieces
  <2>3. QED
    BY <2>1, <2>2
<1>3. ss \in Seq(Seq(Numbers))
  BY <1>1, <1>2, IsASeq
<1> HIDE DEF ss
<1>4. FlattenSeq(ss) \in Seq(Numbers)
  BY <1>3, FlattenIsSeq
<1>5. line.numbers \o FlattenSeq(ss) \in Seq(Numbers)
  BY <1>1, <1>4, ConcatProperties
<1>6. QED
  BY <1>5 DEF NumbersOf, ss

LEMMA TextIs ==
    ASSUME NEW name, NEW words \in Seq(Pieces)
    PROVE  TextOf(name, words) \in Seq(Pieces)
<1> DEFINE quoted(p) == IF p.quoted THEN <<[p EXCEPT !.quoted = FALSE]>> ELSE <<>>
           other(p) == IF ~p.quoted /\ (name \in TextRecords \/ ~p.capital)
                       THEN <<[p EXCEPT !.numbers = <<>>]>> ELSE <<>>
           Q == [k \in DOMAIN words |-> quoted(words[k])]
           O == [k \in DOMAIN words |-> other(words[k])]
<1>1. \A p \in Pieces : quoted(p) \in Seq(Pieces) /\ other(p) \in Seq(Pieces)
  <2>1. ASSUME NEW p \in Pieces PROVE [p EXCEPT !.quoted = FALSE] \in Pieces
    BY DEF Pieces
  <2>2. ASSUME NEW p \in Pieces PROVE [p EXCEPT !.numbers = <<>>] \in Pieces
    <3>1. <<>> \in Seq(Numbers)
      OBVIOUS
    <3>2. QED
      BY <3>1 DEF Pieces
  <2>3. <<>> \in Seq(Pieces) /\ \A p \in Pieces : <<p>> \in Seq(Pieces)
    OBVIOUS
  <2>4. ASSUME NEW p \in Pieces PROVE quoted(p) \in Seq(Pieces)
    BY <2>1, <2>3, Zenon
  <2>5. ASSUME NEW p \in Pieces PROVE other(p) \in Seq(Pieces)
    BY <2>2, <2>3, Zenon
  <2>6. QED
    BY <2>4, <2>5
<1> HIDE DEF quoted, other
<1>2. Q \in Seq(Seq(Pieces)) /\ O \in Seq(Seq(Pieces))
  <2>1. /\ DOMAIN words = 1..Len(words) /\ Len(words) \in Nat
        /\ \A k \in 1..Len(words) : words[k] \in Pieces
    OBVIOUS
  <2>2. QED
    BY <1>1, <2>1, IsASeq
<1> HIDE DEF Q, O
<1>3. FlattenSeq(Q) \in Seq(Pieces) /\ FlattenSeq(O) \in Seq(Pieces)
  BY <1>2, FlattenIsSeq
<1>4. FlattenSeq(Q) \o FlattenSeq(O) \in Seq(Pieces)
  BY <1>3, ConcatProperties
<1>5. QED
  BY <1>4 DEF TextOf, Q, O, quoted, other

LEMMA RecordIs ==
    ASSUME NEW start \in Nat \ {0}, NEW lines \in Seq(Lines), lines # <<>>
    PROVE  /\ RecordFromLines(start, lines) \in Records
           /\ RecordFromLines(start, lines).name = lines[1].name
<1> DEFINE N == [k \in DOMAIN lines |-> NumbersOf(lines[k])]
           X == [k \in DOMAIN lines |-> lines[k].text]
<1>1. /\ DOMAIN lines = 1..Len(lines) /\ Len(lines) \in Nat /\ Len(lines) # 0
      /\ \A k \in 1..Len(lines) : lines[k] \in Lines
  OBVIOUS
<1>2. N \in Seq(Seq(Numbers))
  BY <1>1, NumbersAre, IsASeq
<1>3. X \in Seq(Seq(Pieces))
  <2>1. \A k \in 1..Len(lines) : lines[k].text \in Seq(Pieces)
    BY <1>1 DEF Lines
  <2>2. QED
    BY <1>1, <2>1, IsASeq
<1> HIDE DEF N, X
<1>4. FlattenSeq(N) \in Seq(Numbers) /\ FlattenSeq(X) \in Seq(Pieces)
  BY <1>2, <1>3, FlattenIsSeq
<1>5. TextOf(lines[1].name, FlattenSeq(X)) \in Seq(Pieces)
  BY <1>4, TextIs
<1>6. lines[1].name \in Names /\ start + Len(lines) - 1 \in Nat
  BY <1>1 DEF Lines
<1>7. RecordFromLines(start, lines) =
        [name |-> lines[1].name, numbers |-> FlattenSeq(N),
         text |-> TextOf(lines[1].name, FlattenSeq(X)), start |-> start,
         end |-> start + Len(lines) - 1, lines |-> lines]
  BY DEF RecordFromLines, N, X
<1>8. QED
  BY <1>4, <1>5, <1>6, <1>7 DEF Records

LEMMA CanonicalLinesAre ==
    ASSUME NEW record \in Records
    PROVE  CanonicalLines(record) \in Seq(Lines)
<1> DEFINE size == Len(record.numbers)
           count == IF size = 0 THEN 1 ELSE (size + 3) \div 4
           last(k) == IF 4 * k < size THEN 4 * k ELSE size
           line(k) == [name    |-> IF k = 1 THEN record.name ELSE "more",
                       numbers |-> SubSeq(record.numbers, 4 * k - 3, last(k)),
                       text    |-> IF k = 1 THEN record.text ELSE <<>>]
<1>1. record.numbers \in Seq(Numbers) /\ record.text \in Seq(Pieces) /\ record.name \in Names
  BY DEF Records
<1>2. size \in Nat
  BY <1>1
<1>3. count \in Nat
  <2> HIDE DEF size
  <2>1. QED
    BY <1>2
<1>4. ASSUME NEW k \in 1..count PROVE line(k) \in Lines
  <2>1. 4 * k - 3 \in Int /\ 4 * k - 3 >= 1 /\ last(k) \in Int /\ last(k) <= size
    BY <1>2, <1>3
  <2> HIDE DEF last
  <2>2. SubSeq(record.numbers, 4 * k - 3, last(k)) \in Seq(Numbers)
    BY <1>1, <2>1, SubSeqProperties
  <2>3. "more" \in Names
    BY DEF Names
  <2>4. QED
    BY <1>1, <2>2, <2>3 DEF Lines
<1>5. CanonicalLines(record) = [k \in 1..count |-> line(k)]
  BY DEF CanonicalLines
<1> HIDE DEF line, count
<1>6. QED
  BY <1>3, <1>4, <1>5, IsASeq

LEMMA RewrittenIs ==
    ASSUME NEW R \in Seq(Records), NEW mode
    PROVE  Rewritten(R, mode) \in Seq(Lines)
<1> DEFINE ss == [i \in DOMAIN R |-> IF mode = "raw" THEN R[i].lines ELSE CanonicalLines(R[i])]
           tail == IF \E i \in DOMAIN R : R[i].name = "IEND" THEN <<>> ELSE <<EndRecord>>
<1>1. /\ DOMAIN R = 1..Len(R) /\ Len(R) \in Nat
      /\ \A i \in 1..Len(R) : R[i] \in Records
  OBVIOUS
<1>2. \A i \in 1..Len(R) : R[i].lines \in Seq(Lines) /\ CanonicalLines(R[i]) \in Seq(Lines)
  BY <1>1, CanonicalLinesAre DEF Records
<1>3. ss \in Seq(Seq(Lines))
  BY <1>1, <1>2, IsASeq
<1>4. tail \in Seq(Lines)
  <2>1. "IEND" \in Names /\ <<>> \in Seq(Numbers) /\ <<>> \in Seq(Pieces)
    BY DEF Names
  <2>2. EndRecord \in Lines
    BY <2>1 DEF EndRecord, Lines
  <2>3. QED
    BY <2>2
<1> HIDE DEF ss, tail
<1>5. FlattenSeq(ss) \in Seq(Lines)
  BY <1>3, FlattenIsSeq
<1>6. FlattenSeq(ss) \o tail \in Seq(Lines)
  BY <1>4, <1>5, ConcatProperties
<1>7. QED
  BY <1>6 DEF Rewritten, ss, tail

----------------------------------------------------------------------------
(* What is told of a document is told of its records. *)

Told(R) == [code : Codes, severity : {"error", "warning"}, at : 0..Len(R)]
IsTold(R, D) == D \subseteq Told(R)

LEMMA PlacesTold ==
    ASSUME NEW R, IsSeq(R), NEW S, S \subseteq DOMAIN R, NEW code \in Codes
    PROVE  IsTold(R, {Error(code, i) : i \in S}) /\ IsTold(R, {Warning(code, i) : i \in S})
<1>1. S \subseteq 0..Len(R)
  BY IsSeqHas
<1>2. QED
  BY <1>1 DEF IsTold, Told, Error, Warning

LEMMA TableTold ==
    ASSUME NEW R, IsSeq(R), NEW names, NEW least
    PROVE  /\ IsTold(R, TooShort(R, names, least)) /\ IsTold(R, BadIds(R, names, least))
           /\ IsTold(R, Refusals(R, names, least))
<1>1. Named(R, names) \subseteq DOMAIN R
  BY DEF Named
<1> DEFINE S == {j \in Named(R, names) : Len(R[j].numbers) < least}
           B == {j \in Named(R, names) : Len(R[j].numbers) >= least /\ Id(R, j) = Fraction}
           N == Numbered(R, names, least) \ First(R, Numbered(R, names, least))
<1>2. S \subseteq DOMAIN R /\ B \subseteq DOMAIN R /\ N \subseteq DOMAIN R
  BY <1>1 DEF Numbered
<1> HIDE DEF S, B, N
<1>3. /\ IsTold(R, {Error("FEM101", i) : i \in S}) /\ IsTold(R, {Error("FEM002", i) : i \in B})
      /\ IsTold(R, {Error("FEM102", i) : i \in N})
  BY <1>2, PlacesTold DEF Codes
<1>4. /\ IsTold(R, TooShort(R, names, least)) /\ IsTold(R, BadIds(R, names, least))
      /\ IsTold(R, Duplicates(R, Numbered(R, names, least)))
  BY <1>3 DEF TooShort, BadIds, Duplicates, S, B, N
<1>5. QED
  BY <1>4 DEF Refusals, IsTold

LEMMA BadAtTold ==
    ASSUME NEW R, IsSeq(R), NEW S, S \subseteq DOMAIN R, NEW places
    PROVE  IsTold(R, BadAt(R, S, places))
<1> DEFINE T == {j \in S : \E k \in places : k <= Len(R[j].numbers) /\ R[j].numbers[k] = Fraction}
<1>1. T \subseteq DOMAIN R
  OBVIOUS
<1> HIDE DEF T
<1>2. IsTold(R, {Error("FEM002", i) : i \in T})
  BY <1>1, PlacesTold DEF Codes
<1>3. QED
  BY <1>2 DEF BadAt, T

LEMMA AllTold ==
    ASSUME NEW R, NEW DD, \A D \in DD : IsTold(R, D)
    PROVE  IsTold(R, UNION DD)
BY DEF IsTold

LEMMA ElementsTold ==
    ASSUME NEW R, IsSeq(R)
    PROVE  IsTold(R, ElementRefusals(R))
<1> DEFINE A == {j \in Fresh(R) : ~Layout(R[j].numbers)}
           B == {j \in Fresh(R) : Layout(R[j].numbers) /\ ~Complete(R[j].numbers)}
           C == {j \in Fresh(R) : Complete(R[j].numbers) /\ ~WellFormed(R[j].numbers)}
           D == ElementRecords(R) \ Fresh(R)
           E == {j \in Fresh(R) : TypeAt(R[j].numbers) # 3 \/ WellFormed(R[j].numbers)}
           EE == {BadAt(R, {i}, {2}) : i \in E}
<1>1. ElementRecords(R) \subseteq DOMAIN R /\ Fresh(R) \subseteq DOMAIN R
  BY DEF Fresh, ElementRecords, Numbered, Named
<1>2. /\ A \subseteq DOMAIN R /\ B \subseteq DOMAIN R /\ C \subseteq DOMAIN R
      /\ D \subseteq DOMAIN R /\ E \subseteq DOMAIN R
  BY <1>1
<1> HIDE DEF A, B, C, D, E
<1>3. /\ IsTold(R, {Error("FEM103", i) : i \in A}) /\ IsTold(R, {Error("FEM104", i) : i \in B})
      /\ IsTold(R, {Error("FEM002", i) : i \in C}) /\ IsTold(R, {Error("FEM102", i) : i \in D})
  BY <1>2, PlacesTold DEF Codes
<1>4. IsTold(R, Malformed(R))
  BY <1>3 DEF Malformed, A, B, C, IsTold
<1>5. IsTold(R, UNION EE)
  <2>1. ASSUME NEW i \in E PROVE IsTold(R, BadAt(R, {i}, {2}))
    BY <1>2, BadAtTold
  <2>2. QED
    BY <2>1, AllTold
<1> HIDE DEF EE
<1>6. IsTold(R, BadAt(R, Fresh(R), {3}))
  BY <1>1, BadAtTold
<1>7. IsTold(R, TooShort(R, {"GELMNT1"}, 3)) /\ IsTold(R, BadIds(R, {"GELMNT1"}, 3))
  BY TableTold
<1>8. ElementRefusals(R) =
          TooShort(R, {"GELMNT1"}, 3) \union BadIds(R, {"GELMNT1"}, 3)
          \union {Error("FEM102", i) : i \in D} \union BadAt(R, Fresh(R), {3})
          \union (UNION EE) \union Malformed(R)
  BY DEF ElementRefusals, D, E, EE
<1>9. QED
  BY <1>3, <1>4, <1>5, <1>6, <1>7, <1>8 DEF IsTold

LEMMA ParseTold ==
    ASSUME NEW R, IsSeq(R)
    PROVE  IsTold(R, ParseDiagnostics(R))
<1>1. \A names : Named(R, names) \subseteq DOMAIN R
  BY DEF Named
<1>2. \A names, least : Numbered(R, names, least) \subseteq DOMAIN R
  BY <1>1 DEF Numbered
<1>3. \A names, least : /\ IsTold(R, TooShort(R, names, least)) /\ IsTold(R, BadIds(R, names, least))
                        /\ IsTold(R, Refusals(R, names, least))
  BY TableTold
<1>4. IsTold(R, BadSectionNames(R))
  <2>1. ASSUME NEW i \in Named(R, {"TDSECT"}), NEW places PROVE IsTold(R, BadAt(R, {i}, places))
    BY <1>1, BadAtTold
  <2> DEFINE DD == {BadAt(R, {i}, IF Len(R[i].numbers) > 1 /\ Id(R, i) = 4 THEN {2} ELSE {1}) : i \in Named(R, {"TDSECT"})}
  <2>2. \A D \in DD : IsTold(R, D)
    BY <2>1
  <2>3. BadSectionNames(R) = UNION DD
    BY DEF BadSectionNames
  <2> HIDE DEF DD
  <2>4. QED
    BY <2>2, <2>3, AllTold
<1>5. IsTold(R, BadFlags(R))
  <2>1. ASSUME NEW i \in Numbered(R, {"BNBCD"}, 2), NEW places PROVE IsTold(R, BadAt(R, {i}, places))
    BY <1>2, BadAtTold
  <2> DEFINE DD == {BadAt(R, {i}, IF Len(R[i].numbers) >= 8 THEN 3..8 ELSE 2..7) : i \in Numbered(R, {"BNBCD"}, 2)}
  <2>2. \A D \in DD : IsTold(R, D)
    BY <2>1
  <2>3. BadFlags(R) = UNION DD
    BY DEF BadFlags
  <2> HIDE DEF DD
  <2>4. QED
    BY <2>2, <2>3, AllTold
<1>6. IsTold(R, BadReferences(R))
  <2>1. ASSUME NEW i \in Numbered(R, {"GELREF1"}, 1), NEW places PROVE IsTold(R, BadAt(R, {i}, places))
    BY <1>2, BadAtTold
  <2> DEFINE DD == {BadAt(R, {i}, {2, 12} \union SectionPlaces(R[i])) : i \in Numbered(R, {"GELREF1"}, 1)}
  <2>2. \A D \in DD : IsTold(R, D)
    BY <2>1
  <2>3. BadReferences(R) = UNION DD
    BY DEF BadReferences
  <2> HIDE DEF DD
  <2>4. QED
    BY <2>2, <2>3, AllTold
<1>7. IsTold(R, ConceptRefusals(R)) /\ IsTold(R, LoadRefusals(R))
  BY <1>1, BadAtTold DEF ConceptRefusals, LoadRefusals
<1>8. IsTold(R, CoordinateRefusals(R)) /\ IsTold(R, TransformRefusals(R))
  BY <1>3 DEF CoordinateRefusals, TransformRefusals, IsTold
<1>9. IsTold(R, BadSystems(R))
  <2> DEFINE S == {j \in Pending(R) :
                      BadSystem(R, j) /\ \A k \in Nodes(R) : k < j => Id(R, k) # Id(R, j)}
  <2>1. S \subseteq DOMAIN R
    BY <1>2 DEF Pending
  <2> HIDE DEF S
  <2>2. IsTold(R, {Error("FEM002", i) : i \in S})
    BY <2>1, PlacesTold DEF Codes
  <2>3. QED
    BY <2>2 DEF BadSystems, S
<1>10. IsTold(R, {Warning("FEM110", i) : i \in {j \in DOMAIN R : R[j].name \notin Known}})
  <2> DEFINE S == {j \in DOMAIN R : R[j].name \notin Known}
  <2>1. S \subseteq DOMAIN R
    OBVIOUS
  <2> HIDE DEF S
  <2>2. IsTold(R, {Warning("FEM110", i) : i \in S})
    BY <2>1, PlacesTold DEF Codes
  <2>3. QED
    BY <2>2 DEF S
<1>11. QED
  BY <1>3, <1>4, <1>5, <1>6, <1>7, <1>8, <1>9, <1>10, ElementsTold DEF ParseDiagnostics, IsTold

LEMMA ValidateTold ==
    ASSUME NEW R, IsSeq(R)
    PROVE  IsTold(R, Validate(R))
<1>1. Len(R) \in Nat
  BY IsSeqHas
<1>2. /\ IsTold(R, {}) /\ IsTold(R, {Error("FEM003", 0)}) /\ IsTold(R, {Error("FEM105", 0)})
      /\ IsTold(R, {Warning("FEM106", 0)}) /\ IsTold(R, {Warning("FEM107", 0)})
  BY <1>1 DEF IsTold, Told, Error, Warning, Codes
<1>3. ASSUME NEW e PROVE IsTold(R, ElementTold(R, e))
  BY <1>2 DEF ElementTold, IsTold
<1>4. IsTold(R, UNION {ElementTold(R, Element(R, i)) : i \in Elements(R)})
  BY <1>3, AllTold
<1>5. Named(R, Unsupported) \subseteq DOMAIN R
  BY DEF Named
<1>6. IsTold(R, {Warning("FEM120", i) : i \in Named(R, Unsupported)})
  BY <1>5, PlacesTold DEF Codes
<1>7. IsTold(R, IF Last(R).name # "IEND" THEN {Error("FEM003", 0)} ELSE {})
  BY <1>2
<1>8. QED
  BY <1>2, <1>4, <1>6, <1>7 DEF Validate, IsTold

----------------------------------------------------------------------------
(* The state of the reader. *)

(* What TypeOK rests on: lines and records are what they are made of; but   *)
(* for the lines, no record is begun; the record that is begun has a name;  *)
(* and nothing is told before the records are there.                        *)
ReaderInv ==
    /\ pc \in Pcs /\ strict \in BOOLEAN
    /\ file \in Seq(Lines) /\ text \in Seq(Lines)
    /\ Len(file) <= MaxLines \/ (Again /\ Len(file) <= Len(text))
    /\ current \in [start : Nat, lines : Seq(Lines)]
    /\ current.start <= Len(file) /\ Len(current.lines) <= Len(file)
    /\ current.lines # <<>> => current.start # 0 /\ current.lines[1].name \notin {"blank", "more"}
    /\ pc # "lines" => current = NoRecord
    /\ records \in Seq(Records)
    /\ \A i \in DOMAIN records : records[i].name \notin {"blank", "more"}
    /\ orphans \subseteq 1..Len(file)
    /\ IsTold(records, diagnostics)
    /\ pc \in {"open", "lines", "parse"} => diagnostics = {}
    /\ original.mode \in {"none", "canonical", "raw"}
    /\ destination \in {"old", "new"}

LEMMA ReaderType == ReaderInv => TypeOK
<1> SUFFICES ASSUME ReaderInv PROVE TypeOK
  OBVIOUS
<1>1. Len(file) \in Nat /\ current.start \in Nat
  BY DEF ReaderInv
<1>2. \A d \in diagnostics : d \in Told(records)
  BY DEF ReaderInv, IsTold
<1>3. \A d \in diagnostics : /\ d.code \in Codes /\ d.severity \in {"error", "warning"}
                             /\ d.at \in 0..Len(records)
  BY <1>2 DEF Told
<1>4. current.start \in 0..Len(file)
  BY <1>1 DEF ReaderInv
<1>5. QED
  BY <1>3, <1>4 DEF ReaderInv, TypeOK

LEMMA ReaderInit == Init => ReaderInv
<1> SUFFICES ASSUME Init PROVE ReaderInv
  OBVIOUS
<1>1. MaxLines \in Nat
  BY ReaderAssumption
<1>2. current \in [start : Nat, lines : Seq(Lines)]
  BY DEF Init, NoRecord
<1>3. IsTold(records, diagnostics)
  BY DEF Init, IsTold
<1>4. file \in Seq(Lines) /\ text \in Seq(Lines) /\ records \in Seq(Records) /\ Len(file) = 0
  BY DEF Init
<1>5. QED
  BY <1>1, <1>2, <1>3, <1>4 DEF Init, ReaderInv, NoRecord, Nothing, Pcs

(* The record that ends where another begins, or the file. *)
LEMMA FlushedIs ==
    ASSUME ReaderInv
    PROVE  /\ Flushed \in Seq(Records)
           /\ \A i \in DOMAIN Flushed : Flushed[i].name \notin {"blank", "more"}
<1>1. CASE current.lines = <<>>
  BY <1>1 DEF Flushed, ReaderInv
<1>2. CASE current.lines # <<>>
  <2> DEFINE r == RecordFromLines(current.start, current.lines)
  <2>1. current.start \in Nat \ {0} /\ current.lines \in Seq(Lines)
    BY <1>2 DEF ReaderInv
  <2>2. r \in Records /\ r.name \notin {"blank", "more"}
    BY <1>2, <2>1, RecordIs DEF ReaderInv
  <2>3. records \in Seq(Records) /\ Flushed = Append(records, r)
    BY <1>2 DEF Flushed, ReaderInv
  <2> HIDE DEF r
  <2>4. /\ Flushed \in Seq(Records) /\ Len(Flushed) = Len(records) + 1
        /\ Flushed[Len(records) + 1] = r
        /\ \A i \in 1..Len(records) : Flushed[i] = records[i]
    BY <2>2, <2>3, AppendProperties
  <2>5. ASSUME NEW i \in DOMAIN Flushed PROVE Flushed[i].name \notin {"blank", "more"}
    <3>1. i \in 1..Len(records) \/ i = Len(records) + 1
      BY <2>3, <2>4
    <3>2. QED
      BY <2>2, <2>3, <2>4, <3>1 DEF ReaderInv
  <2>6. QED
    BY <2>4, <2>5
<1>3. QED
  BY <1>1, <1>2

LEMMA UpcomingIs ==
    ASSUME ReaderInv, NEW line \in Upcoming
    PROVE  /\ line \in Lines
           /\ Len(file) + 1 <= MaxLines \/ (Again /\ Len(file) + 1 <= Len(text))
<1>1. Len(file) \in Nat /\ Len(text) \in Nat /\ MaxLines \in Nat /\ Templates \subseteq Lines
      /\ text \in Seq(Lines)
  BY ReaderAssumption DEF ReaderInv
<1>2. CASE Again
  <2>1. Len(file) < Len(text) /\ line = text[Len(file) + 1]
    BY <1>2 DEF Upcoming
  <2>2. QED
    BY <1>1, <1>2, <2>1
<1>3. CASE ~Again
  BY <1>1, <1>3 DEF Upcoming
<1>4. QED
  BY <1>2, <1>3

LEMMA ReadLineKeeps ==
    ASSUME ReaderInv, NEW line \in Upcoming, ReadLine(line)
    PROVE  ReaderInv'
<1>1. /\ line \in Lines /\ Len(file) \in Nat /\ file \in Seq(Lines)
      /\ Len(file) + 1 <= MaxLines \/ (Again /\ Len(file) + 1 <= Len(text))
  BY UpcomingIs DEF ReaderInv
<1>2. file' \in Seq(Lines) /\ Len(file') = Len(file) + 1
  BY <1>1, AppendProperties DEF ReadLine
<1>3. /\ pc = "lines" /\ pc' = pc /\ strict' = strict /\ text' = text /\ diagnostics' = diagnostics
      /\ original' = original /\ destination' = destination
  BY DEF ReadLine
<1>4. Len(file') <= MaxLines \/ (Again' /\ Len(file') <= Len(text'))
  BY <1>1, <1>2, <1>3 DEF Again
<1>5. diagnostics' = {} /\ IsTold(records', diagnostics')
  BY <1>3 DEF ReaderInv, IsTold
<1>6. /\ current \in [start : Nat, lines : Seq(Lines)] /\ current.lines \in Seq(Lines)
      /\ Len(current.lines) \in Nat /\ current.start \in Nat
      /\ current.start <= Len(file) /\ Len(current.lines) <= Len(file)
      /\ current.lines # <<>> => current.start # 0 /\ current.lines[1].name \notin {"blank", "more"}
      /\ orphans \subseteq 1..Len(file)
  BY DEF ReaderInv
<1> DEFINE Begun(c) ==
        /\ c \in [start : Nat, lines : Seq(Lines)]
        /\ c.start <= Len(file') /\ Len(c.lines) <= Len(file')
        /\ c.lines # <<>> => c.start # 0 /\ c.lines[1].name \notin {"blank", "more"}
           Kept == /\ records' \in Seq(Records) /\ orphans' \subseteq 1..Len(file')
                   /\ \A i \in DOMAIN records' : records'[i].name \notin {"blank", "more"}
<1>7. Begun(current) /\ orphans \subseteq 1..Len(file')
  BY <1>1, <1>2, <1>6
<1>8. records' = records => Begun(current) /\ records' \in Seq(Records)
                            /\ \A i \in DOMAIN records' : records'[i].name \notin {"blank", "more"}
  BY <1>7 DEF ReaderInv
<1>9. CASE line.name = "blank"
  <2>1. current' = current /\ records' = records /\ orphans' = orphans
    BY <1>9 DEF ReadLine
  <2>2. Begun(current') /\ Kept
    BY <1>7, <1>8, <2>1
  <2>3. QED
    BY <1>2, <1>3, <1>4, <1>5, <2>2 DEF ReaderInv
<1>10. CASE line.name = "more" /\ current.lines # <<>>
  <2> DEFINE lines == Append(current.lines, line)
  <2>1. current' = [current EXCEPT !.lines = lines] /\ records' = records /\ orphans' = orphans
    BY <1>10 DEF ReadLine
  <2>2. /\ lines \in Seq(Lines) /\ Len(lines) = Len(current.lines) + 1
        /\ \A k \in 1..Len(current.lines) : lines[k] = current.lines[k]
    BY <1>1, <1>6, AppendProperties
  <2>3. 1 \in 1..Len(current.lines)
    BY <1>6, <1>10
  <2> HIDE DEF lines
  <2>4. current'.start = current.start /\ current'.lines = lines
        /\ current' \in [start : Nat, lines : Seq(Lines)]
    BY <1>6, <2>1, <2>2
  <2>5. current'.start <= Len(file') /\ Len(current'.lines) <= Len(file')
    BY <1>1, <1>2, <1>6, <2>2, <2>4
  <2>6. current'.start # 0 /\ current'.lines[1].name \notin {"blank", "more"}
    BY <1>6, <1>10, <2>2, <2>3, <2>4
  <2>7. Kept
    BY <1>7, <1>8, <2>1
  <2>8. QED
    BY <1>2, <1>3, <1>4, <1>5, <2>4, <2>5, <2>6, <2>7 DEF ReaderInv
<1>11. CASE line.name = "more" /\ current.lines = <<>>
  <2>1. current' = current /\ records' = records /\ orphans' = orphans \union {Len(file) + 1}
    BY <1>11 DEF ReadLine
  <2>2. orphans' \subseteq 1..Len(file')
    <3>1. Len(file) + 1 \in 1..Len(file')
      BY <1>1, <1>2
    <3>2. QED
      BY <1>7, <2>1, <3>1
  <2>3. Begun(current') /\ Kept
    BY <1>7, <1>8, <2>1, <2>2
  <2>4. QED
    BY <1>2, <1>3, <1>4, <1>5, <2>3 DEF ReaderInv
<1>12. CASE line.name \notin {"blank", "more"}
  <2>1. /\ current' = [start |-> Len(file) + 1, lines |-> <<line>>]
        /\ records' = Flushed /\ orphans' = orphans
    BY <1>12 DEF ReadLine
  <2>2. /\ current'.start = Len(file) + 1 /\ current'.lines = <<line>>
        /\ <<line>> \in Seq(Lines) /\ Len(<<line>>) = 1 /\ <<line>>[1] = line
    BY <1>1, <2>1
  <2>3. Begun(current')
    BY <1>1, <1>2, <1>12, <2>1, <2>2
  <2>4. Kept
    BY <1>7, <2>1, FlushedIs
  <2>5. QED
    BY <1>2, <1>3, <1>4, <1>5, <2>3, <2>4 DEF ReaderInv
<1>13. QED
  BY <1>9, <1>10, <1>11, <1>12

LEMMA EndOfFileKeeps == ReaderInv /\ EndOfFile => ReaderInv'
<1> SUFFICES ASSUME ReaderInv, EndOfFile PROVE ReaderInv'
  OBVIOUS
<1>1. /\ file' = file /\ text' = text /\ original' = original /\ strict' = strict
      /\ orphans' = orphans /\ diagnostics' = diagnostics /\ destination' = destination
      /\ records' = Flushed /\ current' = NoRecord /\ pc' \in {"ended", "parse"}
  BY DEF EndOfFile
<1>2. diagnostics' = {} /\ IsTold(records', diagnostics')
  BY <1>1 DEF ReaderInv, IsTold, EndOfFile
<1>3. NoRecord \in [start : Nat, lines : Seq(Lines)] /\ NoRecord.start = 0 /\ NoRecord.lines = <<>>
  BY DEF NoRecord
<1>4. Len(file) \in Nat
  BY DEF ReaderInv
<1>5. pc' \in Pcs /\ pc' # "lines"
  BY <1>1 DEF Pcs
<1>6. QED
  BY <1>1, <1>2, <1>3, <1>4, <1>5, FlushedIs DEF ReaderInv, Again

LEMMA ReaderStep == ReaderInv /\ [Next]_vars => ReaderInv'
<1> SUFFICES ASSUME ReaderInv, [Next]_vars PROVE ReaderInv'
  OBVIOUS
<1>1. IsSeq(records)
  BY SeqIsSeq DEF ReaderInv
<1>2. ASSUME NEW line \in Upcoming, ReadLine(line) PROVE ReaderInv'
  BY <1>2, ReadLineKeeps
<1>3. CASE EndOfFile
  BY <1>3, EndOfFileKeeps
<1>4. CASE Open
  BY <1>4 DEF Open, ReaderInv, Again, Pcs
<1>5. CASE Parse
  <2>1. IsTold(records, ParseDiagnostics(records))
    BY <1>1, ParseTold
  <2>2. QED
    BY <1>5, <2>1 DEF Parse, ReaderInv, Again, Pcs
<1>6. CASE ValidateDocument
  <2>1. IsTold(records, diagnostics \union Validate(records))
    BY <1>1, ValidateTold DEF ReaderInv, IsTold
  <2>2. pc' \in {"ended", "returned"} /\ pc = "validate"
    BY <1>6 DEF ValidateDocument
  <2>3. QED
    BY <1>6, <2>1, <2>2 DEF ValidateDocument, ReaderInv, Again, Pcs
<1>7. ASSUME NEW mode \in {"canonical", "raw"}, NEW exists \in BOOLEAN, NEW overwrite \in BOOLEAN,
             BeginWrite(mode, exists, overwrite)
      PROVE  ReaderInv'
  <2>1. CASE pc' = "ended" /\ UNCHANGED <<original, text>>
    BY <1>7, <2>1 DEF BeginWrite, ReaderInv, Again, Pcs
  <2>2. CASE /\ pc' = "write" /\ original' = [records |-> records, mode |-> mode]
             /\ text' = Rewritten(records, mode)
    <3>1. text' \in Seq(Lines) /\ original'.mode = mode
      BY <2>2, RewrittenIs DEF ReaderInv
    <3>2. Len(file) <= MaxLines
      BY <1>7 DEF BeginWrite, ReaderInv
    <3>3. /\ UNCHANGED <<strict, file, current, records, orphans, diagnostics, destination>>
          /\ pc = "returned"
      BY <1>7 DEF BeginWrite
    <3>4. QED
      BY <2>2, <3>1, <3>2, <3>3 DEF ReaderInv, Again, Pcs
  <2>3. QED
    BY <1>7, <2>1, <2>2 DEF BeginWrite
<1>8. CASE FailWrite \/ EndWrite \/ Replace
  BY <1>8 DEF FailWrite, EndWrite, Replace, ReaderInv, Again, Pcs
<1>9. CASE ReadAgain
  <2>1. MaxLines \in Nat /\ Len(<<>>) = 0 /\ NoRecord.start = 0 /\ NoRecord.lines = <<>>
    BY ReaderAssumption DEF NoRecord
  <2>2. /\ file' = <<>> /\ records' = <<>> /\ orphans' = {} /\ diagnostics' = {} /\ pc' = "open"
        /\ UNCHANGED <<strict, text, current, original, destination>> /\ pc = "written"
    BY <1>9 DEF ReadAgain
  <2>3. current = NoRecord
    BY <2>2 DEF ReaderInv
  <2>4. IsTold(records', diagnostics')
    BY <2>2 DEF IsTold
  <2>5. Len(file') = 0 /\ file' \in Seq(Lines) /\ records' \in Seq(Records)
    BY <2>2
  <2>6. current'.start = 0 /\ current'.lines = <<>>
    BY <2>1, <2>2, <2>3
  <2>7. QED
    BY <2>1, <2>2, <2>3, <2>4, <2>5, <2>6 DEF ReaderInv, Pcs
<1>10. CASE UNCHANGED vars
  BY <1>10 DEF vars, ReaderInv, Again
<1>11. QED
  BY <1>2, <1>3, <1>4, <1>5, <1>6, <1>7, <1>8, <1>9, <1>10 DEF Next

LEMMA ReaderHolds == Spec => []ReaderInv
BY ReaderInit, ReaderStep, PTL DEF Spec

(* Whatever lines a file has, and however often it is written and read, the *)
(* reader is between lines, records and diagnostics of it: no record starts *)
(* with a line that goes on, and what is told is told of a record.          *)
THEOREM TypeCorrect == Spec => []TypeOK
BY ReaderHolds, ReaderType, PTL

----------------------------------------------------------------------------
(* Strict reading. *)

(* What StrictHoldsTogether rests on: strict reading only goes on without   *)
(* orphans, and returns only what nothing was told of.                      *)
StrictInv ==
    /\ strict /\ pc \in {"parse", "validate", "returned"} => orphans = {}
    /\ pc = "validate" => diagnostics = ParseDiagnostics(records)
    /\ strict /\ pc = "returned" => ~HasErrors(ParseDiagnostics(records) \union Validate(records))

LEMMA StrictInit == Init => StrictInv
BY DEF Init, StrictInv

LEMMA StrictStep == StrictInv /\ [Next]_vars => StrictInv'
<1> SUFFICES ASSUME StrictInv, [Next]_vars PROVE StrictInv'
  OBVIOUS
<1>1. CASE \E line \in Upcoming : ReadLine(line)
  <2>1. pc' = "lines"
    BY <1>1 DEF ReadLine
  <2>2. QED
    BY <2>1 DEF StrictInv
<1>2. CASE EndOfFile
  BY <1>2 DEF EndOfFile, StrictInv
<1>3. CASE Open \/ ReadAgain \/ FailWrite \/ EndWrite \/ Replace
  <2>1. pc' \in {"lines", "ended", "open", "publish", "written"}
    BY <1>3 DEF Open, ReadAgain, FailWrite, EndWrite, Replace
  <2>2. QED
    BY <2>1 DEF StrictInv
<1>4. CASE Parse
  BY <1>4 DEF Parse, StrictInv
<1>5. CASE ValidateDocument
  BY <1>5 DEF ValidateDocument, StrictInv
<1>6. CASE \E mode \in {"canonical", "raw"}, exists, overwrite \in BOOLEAN :
              BeginWrite(mode, exists, overwrite)
  <2>1. pc' \in {"ended", "write"}
    BY <1>6 DEF BeginWrite
  <2>2. QED
    BY <2>1 DEF StrictInv
<1>7. CASE UNCHANGED vars
  BY <1>7 DEF vars, StrictInv
<1>8. QED
  BY <1>1, <1>2, <1>3, <1>4, <1>5, <1>6, <1>7 DEF Next

LEMMA StrictAnswer == ReaderInv /\ StrictInv => StrictHoldsTogether
<1> SUFFICES ASSUME ReaderInv, StrictInv, pc = "returned", strict PROVE StrictHoldsTogether
  BY DEF StrictHoldsTogether
<1>1. records \in Seq(Records) /\ IsSeq(records)
  BY SeqIsSeq DEF ReaderInv
<1>2. \A i \in DOMAIN records : Len(records[i].numbers) \in Nat
  <2>1. \A i \in DOMAIN records : records[i] \in Records
    BY <1>1
  <2>2. \A r \in Records : r.numbers \in Seq(Numbers)
    BY DEF Records
  <2>3. QED
    BY <2>1, <2>2
<1>3. orphans = {} /\ ~HasErrors(ParseDiagnostics(records) \union Validate(records))
  BY DEF StrictInv
<1>4. QED
  BY <1>1, <1>2, <1>3, AcceptedHoldsTogether DEF StrictHoldsTogether

(* What read_sesam_fem_document(strict=True) returns holds together, for    *)
(* every file.                                                              *)
THEOREM StrictReads == Spec => []StrictHoldsTogether
<1>1. Spec => []StrictInv
  BY StrictInit, StrictStep, PTL DEF Spec
<1>2. QED
  BY <1>1, ReaderHolds, StrictAnswer, PTL

----------------------------------------------------------------------------
(* The order of records. *)

(* Where the record at k is when those at i and i + 1 change places.        *)
Other(i, k) == IF k = i THEN i + 1 ELSE IF k = i + 1 THEN i ELSE k

LEMMA SwappedIs ==
    ASSUME NEW R, IsSeq(R), NEW i \in 1..(Len(R) - 1)
    PROVE  /\ i \in DOMAIN R /\ i + 1 \in DOMAIN R /\ DOMAIN R \subseteq Nat
           /\ DOMAIN Swapped(R, i) = DOMAIN R
           /\ \A k \in DOMAIN R : /\ Other(i, k) \in DOMAIN R /\ Other(i, Other(i, k)) = k
                                  /\ Swapped(R, i)[Other(i, k)] = R[k]
                                  /\ Id(Swapped(R, i), Other(i, k)) = Id(R, k)
           /\ \A j, k \in DOMAIN R :
                 j < k /\ ~(j = i /\ k = i + 1) => Other(i, j) < Other(i, k)
<1>1. DOMAIN R = 1..Len(R) /\ Len(R) \in Nat
  BY IsSeqHas
<1>2. i \in DOMAIN R /\ i + 1 \in DOMAIN R /\ i # i + 1 /\ DOMAIN R \subseteq Nat
  BY <1>1
<1>3. /\ DOMAIN Swapped(R, i) = DOMAIN R
      /\ Swapped(R, i)[i] = R[i + 1] /\ Swapped(R, i)[i + 1] = R[i]
      /\ \A k \in DOMAIN R \ {i, i + 1} : Swapped(R, i)[k] = R[k]
  BY <1>2 DEF Swapped
<1>4. ASSUME NEW k \in DOMAIN R
      PROVE  /\ Other(i, k) \in DOMAIN R /\ Other(i, Other(i, k)) = k
             /\ Swapped(R, i)[Other(i, k)] = R[k]
  BY <1>2, <1>3 DEF Other
<1>5. ASSUME NEW j \in DOMAIN R, NEW k \in DOMAIN R, j < k, ~(j = i /\ k = i + 1)
      PROVE  Other(i, j) < Other(i, k)
  BY <1>2, <1>5 DEF Other
<1>6. QED
  BY <1>2, <1>3, <1>4, <1>5 DEF Id

(* T is S after the two records changed places. *)
Moved(R, i, S, T) ==
    S \subseteq DOMAIN R /\ T \subseteq DOMAIN R /\ \A k \in DOMAIN R : k \in S <=> Other(i, k) \in T

LEMMA MovedRecords ==
    ASSUME NEW R, IsSeq(R), NEW i \in 1..(Len(R) - 1), NEW S, NEW T, Moved(R, i, S, T)
    PROVE  LET Q == Swapped(R, i)
           IN  /\ Ids(Q, T) = Ids(R, S)
               /\ {Q[k].numbers : k \in T} = {R[k].numbers : k \in S}
               /\ {<<Q[k].name, Q[k].numbers>> : k \in T} = {<<R[k].name, R[k].numbers>> : k \in S}
<1> DEFINE Q == Swapped(R, i)
<1>1. ASSUME NEW k \in S PROVE Other(i, k) \in T /\ Q[Other(i, k)] = R[k]
  BY SwappedIs DEF Moved
<1>2. ASSUME NEW k \in T PROVE Other(i, k) \in S /\ R[Other(i, k)] = Q[k]
  <2>1. k \in DOMAIN R
    BY DEF Moved
  <2>2. Other(i, k) \in DOMAIN R /\ Other(i, Other(i, k)) = k
    BY <2>1, SwappedIs
  <2>3. Q[Other(i, Other(i, k))] = R[Other(i, k)]
    BY <2>2, SwappedIs
  <2>4. QED
    BY <2>2, <2>3 DEF Moved
<1> HIDE DEF Q
<1>3. Ids(Q, T) = Ids(R, S)
  BY <1>1, <1>2 DEF Ids, Id
<1>4. {Q[k].numbers : k \in T} = {R[k].numbers : k \in S}
  BY <1>1, <1>2
<1>5. {<<Q[k].name, Q[k].numbers>> : k \in T} = {<<R[k].name, R[k].numbers>> : k \in S}
  BY <1>1, <1>2
<1>6. QED
  BY <1>3, <1>4, <1>5 DEF Q

LEMMA NumberedMoved ==
    ASSUME NEW R, IsSeq(R), NEW i \in 1..(Len(R) - 1), NEW names, NEW least
    PROVE  Moved(R, i, Numbered(R, names, least), Numbered(Swapped(R, i), names, least))
<1>1. ASSUME NEW k \in DOMAIN R
      PROVE  k \in Numbered(R, names, least) <=> Other(i, k) \in Numbered(Swapped(R, i), names, least)
  BY SwappedIs DEF Numbered, Named
<1>2. DOMAIN Swapped(R, i) = DOMAIN R
  BY SwappedIs
<1>3. QED
  BY <1>1, <1>2 DEF Moved, Numbered, Named

(* The first records of their ids stay so, unless the two have one id.      *)
LEMMA FirstMoved ==
    ASSUME NEW R, IsSeq(R), NEW i \in 1..(Len(R) - 1), NEW S, NEW T, Moved(R, i, S, T),
           i \in S /\ i + 1 \in S => Id(R, i) # Id(R, i + 1)
    PROVE  Moved(R, i, First(R, S), First(Swapped(R, i), T))
<1> DEFINE Q == Swapped(R, i)
<1>1. ASSUME NEW k \in First(R, S) PROVE Other(i, k) \in First(Q, T)
  <2>1. k \in S /\ k \in DOMAIN R /\ Other(i, k) \in T
    BY DEF First, Moved
  <2>2. ASSUME NEW j \in T, j < Other(i, k), Id(Q, j) = Id(Q, Other(i, k)) PROVE FALSE
    <3> DEFINE m == Other(i, j)
    <3>1. j \in DOMAIN R
      BY DEF Moved
    <3>2. m \in DOMAIN R /\ Other(i, m) = j
      BY <3>1, SwappedIs
    <3> HIDE DEF m
    <3>3. m \in S /\ Id(Q, j) = Id(R, m) /\ Id(Q, Other(i, k)) = Id(R, k)
      BY <2>1, <3>2, SwappedIs DEF Moved
    <3>4. m \in Nat /\ k \in Nat /\ i \in Nat /\ j \in Nat /\ Other(i, k) \in Nat
      BY <2>1, <3>1, <3>2, SwappedIs
    <3>5. ~(m < k)
      BY <2>2, <3>3 DEF First
    <3>6. m # k
      BY <2>2, <3>2, <3>4
    <3>7. k < m /\ ~(Other(i, k) < Other(i, m))
      BY <2>2, <3>2, <3>4, <3>5, <3>6
    <3>8. k = i /\ m = i + 1
      BY <2>1, <3>2, <3>7, SwappedIs
    <3>9. QED
      BY <2>1, <2>2, <3>3, <3>8
  <2>3. QED
    BY <2>1, <2>2 DEF First
<1>2. ASSUME NEW k \in DOMAIN R, Other(i, k) \in First(Q, T) PROVE k \in First(R, S)
  <2>1. k \in S /\ Other(i, k) \in T
    BY <1>2 DEF First, Moved
  <2>2. ASSUME NEW j \in S, j < k, Id(R, j) = Id(R, k) PROVE FALSE
    <3>1. j \in DOMAIN R /\ Other(i, j) \in T /\ Id(Q, Other(i, j)) = Id(Q, Other(i, k))
      BY <1>2, <2>2, SwappedIs DEF Moved
    <3>2. ~(Other(i, j) < Other(i, k))
      BY <1>2, <3>1 DEF First
    <3>3. j = i /\ k = i + 1
      BY <1>2, <2>2, <3>1, <3>2, SwappedIs
    <3>4. QED
      BY <2>1, <2>2, <3>3
  <2>3. QED
    BY <2>1, <2>2 DEF First
<1>3. First(R, S) \subseteq DOMAIN R /\ First(Q, T) \subseteq DOMAIN R
  BY DEF First, Moved
<1> HIDE DEF Q
<1>4. Moved(R, i, First(R, S), First(Q, T))
  BY <1>1, <1>2, <1>3 DEF Moved
<1>5. QED
  BY <1>4 DEF Q

(* Records of one table are rivals if they have one id. *)
Tables == {{"MISOSEL"}, {"GELTH", "GBEAMG"}, {"GCOORD"}, {"GNODE"}, {"GELMNT1"}, {"GELREF1"}}
Leasts == {1, 3, 4}

LEMMA NoRivals ==
    ASSUME NEW R, NEW i, NEW names \in Tables, NEW least \in Leasts,
           ~Rivals(R[i], R[i + 1]),
           Len(R[i].numbers) \in Nat, Len(R[i + 1].numbers) \in Nat,
           i \in Numbered(R, names, least), i + 1 \in Numbered(R, names, least)
    PROVE  Id(R, i) # Id(R, i + 1)
<1>1. R[i].name \in names /\ R[i + 1].name \in names
  BY DEF Numbered, Named
<1>2. R[i].name = R[i + 1].name \/ {R[i].name, R[i + 1].name} \subseteq {"GELTH", "GBEAMG"}
  BY <1>1 DEF Tables
<1>3. Len(R[i].numbers) >= least /\ Len(R[i + 1].numbers) >= least
  BY DEF Numbered
<1>4. Len(R[i].numbers) # 0 /\ Len(R[i + 1].numbers) # 0 /\ Len(<<>>) = 0
  BY <1>3 DEF Leasts
<1>5. R[i].numbers # <<>> /\ R[i + 1].numbers # <<>>
  BY <1>4
<1>6. QED
  BY <1>2, <1>5 DEF Rivals, Id

LEMMA TableMoved ==
    ASSUME NEW R, IsSeq(R), \A k \in DOMAIN R : Len(R[k].numbers) \in Nat,
           NEW i \in 1..(Len(R) - 1), ~Rivals(R[i], R[i + 1]),
           NEW names \in Tables, NEW least \in Leasts,
           NEW S, S \subseteq Numbered(R, names, least), NEW T, Moved(R, i, S, T)
    PROVE  Moved(R, i, First(R, S), First(Swapped(R, i), T))
<1>1. Len(R[i].numbers) \in Nat /\ Len(R[i + 1].numbers) \in Nat
  BY SwappedIs
<1>2. i \in S /\ i + 1 \in S => Id(R, i) # Id(R, i + 1)
  BY <1>1, NoRivals
<1>3. QED
  BY <1>2, FirstMoved

LEMMA NodesMoved ==
    ASSUME NEW R, IsSeq(R), \A k \in DOMAIN R : Len(R[k].numbers) \in Nat,
           NEW i \in 1..(Len(R) - 1), ~Rivals(R[i], R[i + 1])
    PROVE  Moved(R, i, Nodes(R), Nodes(Swapped(R, i)))
<1> DEFINE Q == Swapped(R, i)
           S == {k \in Pending(R) : ~BadSystem(R, k)}
           T == {k \in Pending(Q) : ~BadSystem(Q, k)}
<1>1. {"GCOORD"} \in Tables /\ {"GNODE"} \in Tables /\ 4 \in Leasts
  BY DEF Tables, Leasts
<1>2. /\ Moved(R, i, Numbered(R, {"GCOORD"}, 4), Numbered(Q, {"GCOORD"}, 4))
      /\ Moved(R, i, Numbered(R, {"GNODE"}, 4), Numbered(Q, {"GNODE"}, 4))
  BY NumberedMoved
<1>3. Moved(R, i, Coordinates(R), Coordinates(Q))
  BY <1>1, <1>2, TableMoved DEF Coordinates
<1>4. Ids(Q, Coordinates(Q)) = Ids(R, Coordinates(R))
  BY <1>3, MovedRecords
<1>5. \A k \in DOMAIN R : Q[Other(i, k)] = R[k]
  BY SwappedIs
<1>6. \A k \in DOMAIN R : k \in S <=> Other(i, k) \in T
  BY <1>2, <1>4, <1>5 DEF Moved, Pending, BadSystem, Id
<1>7. S \subseteq Numbered(R, {"GNODE"}, 4) /\ Moved(R, i, S, T)
  BY <1>2, <1>6 DEF Moved, Pending
<1> HIDE DEF S, T
<1>8. Moved(R, i, First(R, S), First(Q, T))
  BY <1>1, <1>7, TableMoved
<1>9. Moved(R, i, Coordinates(R) \union First(R, S), Coordinates(Q) \union First(Q, T))
  <2> HIDE DEF Q
  <2>1. QED
    BY <1>3, <1>8 DEF Moved
<1>10. QED
  BY <1>9 DEF Nodes, S, T

LEMMA ElementsMoved ==
    ASSUME NEW R, IsSeq(R), \A k \in DOMAIN R : Len(R[k].numbers) \in Nat,
           NEW i \in 1..(Len(R) - 1), ~Rivals(R[i], R[i + 1])
    PROVE  Moved(R, i, Elements(R), Elements(Swapped(R, i)))
<1> DEFINE Q == Swapped(R, i)
           S == {k \in ElementRecords(R) : WellFormed(R[k].numbers)}
           T == {k \in ElementRecords(Q) : WellFormed(Q[k].numbers)}
<1>1. Moved(R, i, ElementRecords(R), ElementRecords(Q))
  BY NumberedMoved DEF ElementRecords
<1>2. \A k \in DOMAIN R : Q[Other(i, k)] = R[k]
  BY SwappedIs
<1>3. S \subseteq Numbered(R, {"GELMNT1"}, 3) /\ Moved(R, i, S, T)
  BY <1>1, <1>2 DEF Moved, ElementRecords
<1>4. {"GELMNT1"} \in Tables /\ 3 \in Leasts
  BY DEF Tables, Leasts
<1> HIDE DEF S, T
<1>5. Moved(R, i, First(R, S), First(Q, T))
  BY <1>3, <1>4, TableMoved
<1>6. QED
  BY <1>5 DEF Elements, S, T

(* The references that are kept are the last ones: as FirstMoved.           *)
LEMMA ReferencesMoved ==
    ASSUME NEW R, IsSeq(R), \A k \in DOMAIN R : Len(R[k].numbers) \in Nat,
           NEW i \in 1..(Len(R) - 1), ~Rivals(R[i], R[i + 1])
    PROVE  Moved(R, i, References(R), References(Swapped(R, i)))
<1> DEFINE Q == Swapped(R, i)
           S == Numbered(R, {"GELREF1"}, 1)
           T == Numbered(Q, {"GELREF1"}, 1)
<1>1. Moved(R, i, S, T)
  BY NumberedMoved
<1>2. i \in S /\ i + 1 \in S => Id(R, i) # Id(R, i + 1)
  <2>1. Len(R[i].numbers) \in Nat /\ Len(R[i + 1].numbers) \in Nat
    BY SwappedIs
  <2>2. {"GELREF1"} \in Tables /\ 1 \in Leasts
    BY DEF Tables, Leasts
  <2>3. QED
    BY <2>1, <2>2, NoRivals
<1>3. References(R) = {k \in S : \A j \in S : j > k => Id(R, j) # Id(R, k)}
  BY DEF References
<1>4. References(Q) = {k \in T : \A j \in T : j > k => Id(Q, j) # Id(Q, k)}
  BY DEF References
<1> HIDE DEF S, T
<1>5. ASSUME NEW k \in References(R) PROVE Other(i, k) \in References(Q)
  <2>1. k \in S /\ k \in DOMAIN R /\ Other(i, k) \in T
    BY <1>1, <1>3 DEF Moved
  <2>2. ASSUME NEW j \in T, Other(i, k) < j, Id(Q, j) = Id(Q, Other(i, k)) PROVE FALSE
    <3> DEFINE m == Other(i, j)
    <3>1. j \in DOMAIN R
      BY <1>1 DEF Moved
    <3>2. m \in DOMAIN R /\ Other(i, m) = j
      BY <3>1, SwappedIs
    <3> HIDE DEF m
    <3>3. m \in S /\ Id(Q, j) = Id(R, m) /\ Id(Q, Other(i, k)) = Id(R, k)
      BY <1>1, <2>1, <3>2, SwappedIs DEF Moved
    <3>4. m \in Nat /\ k \in Nat /\ i \in Nat /\ j \in Nat /\ Other(i, k) \in Nat
      BY <2>1, <3>1, <3>2, SwappedIs
    <3>5. ~(k < m)
      BY <1>3, <2>2, <3>3, <3>4
    <3>6. m # k
      BY <2>2, <3>2, <3>4
    <3>7. m < k /\ ~(Other(i, m) < Other(i, k))
      BY <2>2, <3>2, <3>4, <3>5, <3>6
    <3>8. m = i /\ k = i + 1
      BY <2>1, <3>2, <3>7, SwappedIs
    <3>9. QED
      BY <1>2, <2>1, <2>2, <3>3, <3>8
  <2>3. QED
    BY <1>4, <2>1, <2>2
<1>6. ASSUME NEW k \in DOMAIN R, Other(i, k) \in References(Q) PROVE k \in References(R)
  <2>1. k \in S /\ Other(i, k) \in T
    BY <1>1, <1>4, <1>6 DEF Moved
  <2>2. ASSUME NEW j \in S, k < j, Id(R, j) = Id(R, k) PROVE FALSE
    <3>1. j \in DOMAIN R /\ Other(i, j) \in T /\ Id(Q, Other(i, j)) = Id(Q, Other(i, k))
      BY <1>1, <1>6, <2>2, SwappedIs DEF Moved
    <3>2. ~(Other(i, k) < Other(i, j))
      BY <1>4, <1>6, <3>1
    <3>3. k = i /\ j = i + 1
      BY <1>6, <2>2, <3>1, <3>2, SwappedIs
    <3>4. QED
      BY <1>2, <2>1, <2>2, <3>3
  <2>3. QED
    BY <1>3, <2>1, <2>2
<1>7. References(R) \subseteq DOMAIN R /\ References(Q) \subseteq DOMAIN R
  BY <1>1, <1>3, <1>4 DEF Moved
<1> HIDE DEF Q
<1>8. Moved(R, i, References(R), References(Q))
  BY <1>5, <1>6, <1>7 DEF Moved
<1>9. QED
  BY <1>8 DEF Q

LEMMA OneReferenceOfAnId ==
    ASSUME NEW R, IsSeq(R), NEW r \in References(R), NEW q \in References(R), Id(R, r) = Id(R, q)
    PROVE  r = q
<1>1. r \in Nat /\ q \in Nat
  BY IsSeqHas DEF References, Numbered, Named
<1>2. ~(r > q) /\ ~(q > r)
  BY DEF References
<1>3. QED
  BY <1>1, <1>2

LEMMA ReferenceMoved ==
    ASSUME NEW R, IsSeq(R), \A k \in DOMAIN R : Len(R[k].numbers) \in Nat,
           NEW i \in 1..(Len(R) - 1), ~Rivals(R[i], R[i + 1]), NEW k \in DOMAIN R
    PROVE  ReferenceOf(Swapped(R, i), Other(i, k)) = ReferenceOf(R, k)
<1> DEFINE Q == Swapped(R, i)
           ids == Ids(R, References(R))
           wanted == Wanted(R[k].numbers)
           id == IF wanted[1] \in ids THEN wanted[1] ELSE wanted[2]
           chosen == CHOOSE r \in References(R) : Id(R, r) = id
           other == CHOOSE r \in References(Q) : Id(Q, r) = id
<1>1. Moved(R, i, References(R), References(Q))
  BY ReferencesMoved
<1>2. Ids(Q, References(Q)) = ids
  BY <1>1, MovedRecords
<1>3. Q[Other(i, k)].numbers = R[k].numbers
  BY SwappedIs
<1>4. ReferenceOf(R, k) = IF id \notin ids THEN None ELSE R[chosen]
  BY DEF ReferenceOf
<1>5. ReferenceOf(Q, Other(i, k)) = IF id \notin ids THEN None ELSE Q[other]
  BY <1>2, <1>3 DEF ReferenceOf
<1> HIDE DEF wanted, id
<1>6. ASSUME id \in ids PROVE Q[other] = R[chosen]
  <2>1. \E r \in References(R) : Id(R, r) = id
    BY <1>6 DEF Ids
  <2>2. chosen \in References(R) /\ Id(R, chosen) = id
    BY <2>1
  <2>3. \E r \in References(Q) : Id(Q, r) = id
    BY <1>2, <1>6 DEF Ids
  <2>4. other \in References(Q) /\ Id(Q, other) = id
    BY <2>3
  <2> DEFINE m == Other(i, other)
  <2> HIDE DEF chosen, other
  <2>5. other \in DOMAIN R
    BY <1>1, <2>4 DEF Moved
  <2>6. m \in DOMAIN R /\ Other(i, m) = other
    BY <2>5, SwappedIs
  <2> HIDE DEF m
  <2>7. m \in References(R)
    BY <1>1, <2>4, <2>6 DEF Moved
  <2>8. Id(R, m) = id /\ Q[other] = R[m]
    BY <2>4, <2>6, SwappedIs
  <2>9. m = chosen
    BY <2>2, <2>7, <2>8, OneReferenceOfAnId
  <2>10. QED
    BY <2>8, <2>9
<1> HIDE DEF ids, chosen, other, Q
<1>7. ReferenceOf(Q, Other(i, k)) = ReferenceOf(R, k)
  BY <1>4, <1>5, <1>6
<1>8. QED
  BY <1>7 DEF Q

(* Two neighbours that are no rivals may change places. *)
LEMMA ModelMoved ==
    ASSUME NEW R, IsSeq(R), \A k \in DOMAIN R : Len(R[k].numbers) \in Nat,
           NEW i \in 1..(Len(R) - 1), ~Rivals(R[i], R[i + 1])
    PROVE  Model(Swapped(R, i)) = Model(R)
<1> DEFINE Q == Swapped(R, i)
<1>1. {"MISOSEL"} \in Tables /\ {"GELTH", "GBEAMG"} \in Tables /\ 1 \in Leasts
  BY DEF Tables, Leasts
<1>2. \A names, least : Moved(R, i, Numbered(R, names, least), Numbered(Q, names, least))
  BY NumberedMoved
<1>3. Moved(R, i, Materials(R), Materials(Q)) /\ Moved(R, i, Sections(R), Sections(Q))
  BY <1>1, <1>2, TableMoved DEF Materials, Sections
<1>4. {Q[k].numbers : k \in Materials(Q)} = {R[k].numbers : k \in Materials(R)}
  <2>1. Moved(R, i, Materials(R), Materials(Q))
    BY <1>3
  <2>2. ASSUME NEW S, NEW T, Moved(R, i, S, T)
        PROVE  {Q[k].numbers : k \in T} = {R[k].numbers : k \in S}
    BY <2>2, MovedRecords
  <2> HIDE DEF Q
  <2>3. QED
    BY <2>1, <2>2
<1>5. {<<Q[k].name, Q[k].numbers>> : k \in Sections(Q)} = {<<R[k].name, R[k].numbers>> : k \in Sections(R)}
  BY <1>3, MovedRecords
<1>6. SectionIds(Q) = SectionIds(R)
  <2>1. Ids(Q, Sections(Q)) = Ids(R, Sections(R))
    BY <1>3, MovedRecords
  <2>2. Ids(Q, Numbered(Q, Dimensions, 1)) = Ids(R, Numbered(R, Dimensions, 1))
    BY <1>2, MovedRecords
  <2>3. QED
    BY <2>1, <2>2 DEF SectionIds
<1>7. {<<Q[k].name, Q[k].numbers>> : k \in Nodes(Q)} = {<<R[k].name, R[k].numbers>> : k \in Nodes(R)}
  BY NodesMoved, MovedRecords
<1>8. {Element(Q, k) : k \in Elements(Q)} = {Element(R, k) : k \in Elements(R)}
  <2>1. Moved(R, i, Elements(R), Elements(Q))
    BY ElementsMoved
  <2>2. ASSUME NEW k \in DOMAIN R PROVE Element(Q, Other(i, k)) = Element(R, k)
    <3>1. Q[Other(i, k)] = R[k] /\ ReferenceOf(Q, Other(i, k)) = ReferenceOf(R, k)
      BY SwappedIs, ReferenceMoved
    <3>2. QED
      BY <3>1 DEF Element, Id
  <2> HIDE DEF Q
  <2>3. ASSUME NEW k \in Elements(R) PROVE Element(R, k) \in {Element(Q, j) : j \in Elements(Q)}
    BY <2>1, <2>2 DEF Moved
  <2>4. ASSUME NEW k \in Elements(Q) PROVE Element(Q, k) \in {Element(R, j) : j \in Elements(R)}
    <3>1. k \in DOMAIN R
      BY <2>1 DEF Moved
    <3>2. Other(i, k) \in DOMAIN R /\ Other(i, Other(i, k)) = k
      BY <3>1, SwappedIs
    <3>3. Other(i, k) \in Elements(R) /\ Element(Q, k) = Element(R, Other(i, k))
      BY <2>1, <2>2, <3>2 DEF Moved
    <3>4. QED
      BY <3>3
  <2>5. QED
    BY <2>3, <2>4
<1> HIDE DEF Q
<1>9. Model(Q) = Model(R)
  BY <1>4, <1>5, <1>6, <1>7, <1>8 DEF Model
<1>10. QED
  BY <1>9 DEF Q

LEMMA OrderOfAnswer == ReaderInv => OrderDoesNotMatter
<1> SUFFICES ASSUME ReaderInv, NEW i \in 1..(Len(records) - 1), ~Rivals(records[i], records[i + 1])
             PROVE  Model(Swapped(records, i)) = Model(records)
  BY DEF OrderDoesNotMatter
<1>1. records \in Seq(Records) /\ IsSeq(records)
  BY SeqIsSeq DEF ReaderInv
<1>2. \A k \in DOMAIN records : Len(records[k].numbers) \in Nat
  <2>1. \A k \in DOMAIN records : records[k] \in Records
    BY <1>1
  <2>2. \A r \in Records : r.numbers \in Seq(Numbers)
    BY DEF Records
  <2>3. QED
    BY <2>1, <2>2
<1>3. QED
  BY <1>1, <1>2, ModelMoved

(* The model of a file is that of its records in any order that keeps the   *)
(* order of those that define the same thing: the passes of document.py     *)
(* over the records see what comes after a record as well as what is before.*)
THEOREM OrderIsOfNoMatter == Spec => []OrderDoesNotMatter
BY ReaderHolds, OrderOfAnswer, PTL

----------------------------------------------------------------------------
(* Records and the lines they are written in. *)

(* A sequence cut into pieces of four is all of it. *)
LEMMA ChunksAreWhole ==
    ASSUME NEW S, NEW N \in Seq(S), NEW G \in Seq(Seq(S)), NEW size, size = Len(N), size # 0,
           4 * Len(G) >= size, 4 * Len(G) < size + 4,
           \A k \in 1..Len(G) : G[k] = SubSeq(N, 4 * k - 3, IF 4 * k < size THEN 4 * k ELSE size)
    PROVE  FlattenSeq(G) = N
<1> DEFINE w == FlattenSeq(G)
           n == Len(G)
           last(k) == IF 4 * k < size THEN 4 * k ELSE size
<1>1. w \in Seq(S) /\ Len(w) \in Nat
  BY FlattenIsSeq
<1>2. PICK e : Split(w, G, e)
  BY FlattenSplits
<1>3. n \in Nat /\ size \in Nat /\ \A j \in 1..n : G[j] \in Seq(S) /\ Len(G[j]) \in Nat
  OBVIOUS
<1>4. 4 * n >= size /\ 4 * n < size + 4 /\ size # 0 /\ n # 0
  BY <1>3
<1>5. ASSUME NEW k \in 1..n
      PROVE  /\ last(k) = 4 * k - 4 + Len(G[k]) /\ last(k) \in Nat
             /\ \A m \in 1..Len(G[k]) : G[k][m] = N[4 * k - 4 + m]
  <2> DEFINE a == 4 * k - 3
             b == last(k)
  <2>1. k \in Nat /\ 1 <= k /\ 4 * k - 3 <= size
    BY <1>3, <1>4
  <2>2. a \in Int /\ b \in Int /\ a <= b /\ 1 <= a /\ b <= size
    BY <1>3, <2>1
  <2>3. \A i \in a..b : N[i] \in S
    BY <2>2
  <2>4. G[k] = SubSeq(N, a, b)
    OBVIOUS
  <2> HIDE DEF a, b
  <2>5. /\ Len(SubSeq(N, a, b)) = IF a <= b THEN b - a + 1 ELSE 0
        /\ \A i \in 1..(b - a + 1) : SubSeq(N, a, b)[i] = N[a + i - 1]
    BY <2>2, <2>3, SubSeqProperties
  <2>6. Len(G[k]) = b - a + 1 /\ \A i \in 1..(b - a + 1) : G[k][i] = N[a + i - 1]
    BY <2>2, <2>4, <2>5
  <2>7. last(k) = 4 * k - 4 + Len(G[k])
    <3>1. a = 4 * k - 3 /\ b = last(k)
      BY DEF a, b
    <3> HIDE DEF last
    <3>2. QED
      BY <2>1, <2>2, <2>6, <3>1
  <2>8. ASSUME NEW m \in 1..Len(G[k]) PROVE G[k][m] = N[4 * k - 4 + m]
    <3>1. m \in 1..(b - a + 1) /\ m \in Nat
      BY <1>3, <2>6
    <3>2. a + m - 1 = 4 * k - 4 + m
      BY <2>1, <3>1 DEF a
    <3>3. QED
      BY <2>6, <3>1, <3>2
  <2>9. last(k) \in Nat
    BY <1>3, <2>1
  <2>10. QED
    BY <2>7, <2>8, <2>9
<1> HIDE DEF w, n
<1>6. ASSUME NEW k \in 1..n PROVE e[k-1] = 4 * k - 4 /\ e[k] = last(k)
  <2> DEFINE T == {j \in 1..n : ~(e[j-1] = 4 * j - 4 /\ e[j] = last(j))}
  <2>1. ASSUME T # {} PROVE FALSE
    <3>1. PICK j \in T : \A i \in T : j <= i
      <4>1. T \subseteq Nat
        OBVIOUS
      <4> HIDE DEF T
      <4>2. QED
        BY <2>1, <4>1, LeastNumber
    <3>2. j \in 1..n /\ e[j] = e[j-1] + Len(G[j]) /\ e[j-1] \in Nat
      BY <1>2, <3>1 DEF Split, n
    <3>3. e[j-1] = 4 * j - 4
      <4>1. CASE j = 1
        BY <1>2, <4>1 DEF Split
      <4>2. CASE j # 1
        <5>1. j - 1 \in 1..n /\ ~(j <= j - 1)
          BY <1>3, <3>2, <4>2
        <5>2. e[j-1] = last(j-1)
          BY <3>1, <5>1
        <5>3. 4 * (j - 1) < size
          BY <1>3, <1>4, <3>2, <5>1
        <5>4. QED
          BY <1>3, <3>2, <5>2, <5>3
      <4>3. QED
        BY <4>1, <4>2
    <3>4. e[j] = last(j)
      <4> HIDE DEF last
      <4>1. QED
        BY <1>5, <3>2, <3>3
    <3>5. QED
      BY <3>1, <3>3, <3>4
  <2>2. QED
    BY <2>1
<1>7. Len(w) = size
  <2>1. n \in 1..n
    BY <1>3, <1>4
  <2>2. e[n] = last(n) /\ e[n] = Len(w)
    BY <1>2, <1>6, <2>1 DEF Split, n
  <2>3. QED
    BY <1>3, <1>4, <2>2
<1>8. Covered(w, G, e)
  BY <1>1, <1>2, <1>3, SplitCovers DEF n
<1>9. ASSUME NEW p \in 1..Len(w) PROVE w[p] = N[p]
  <2>1. PICK j \in 1..n : \E m \in 1..Len(G[j]) : p = e[j-1] + m
    BY <1>8 DEF Covered, n
  <2>2. PICK m \in 1..Len(G[j]) : p = e[j-1] + m
    BY <2>1
  <2>3. w[e[j-1] + m] = G[j][m]
    BY <1>2, <2>2 DEF Split, n
  <2>4. QED
    BY <1>5, <1>6, <2>2, <2>3
<1>10. w = N
  BY <1>1, <1>7, <1>9, SeqEqual
<1>11. QED
  BY <1>10 DEF w

(* The numbers of a line, and those of its text. *)
LEMMA NumbersOfIs ==
    ASSUME NEW line \in Lines
    PROVE  /\ line.numbers \in Seq(Numbers) /\ NumbersOf(line) \in Seq(Numbers)
           /\ Len(line.numbers) <= Len(NumbersOf(line))
           /\ \A k \in 1..Len(line.numbers) : NumbersOf(line)[k] = line.numbers[k]
           /\ \A p \in DOMAIN line.text : ToSet(line.text[p].numbers) \subseteq ToSet(NumbersOf(line))
           /\ \A k \in DOMAIN NumbersOf(line) :
                 \/ k \in 1..Len(line.numbers)
                 \/ \E p \in DOMAIN line.text : NumbersOf(line)[k] \in ToSet(line.text[p].numbers)
           /\ (\A p \in DOMAIN line.text : line.text[p].numbers = <<>>) => NumbersOf(line) = line.numbers
<1> DEFINE G == [k \in DOMAIN line.text |-> line.text[k].numbers]
           u == line.numbers
           v == FlattenSeq(G)
<1>1. line.text \in Seq(Pieces) /\ u \in Seq(Numbers)
  BY DEF Lines
<1>2. \A k \in DOMAIN line.text : line.text[k].numbers \in Seq(Numbers)
  <2>1. \A k \in DOMAIN line.text : line.text[k] \in Pieces
    BY <1>1
  <2>2. \A p \in Pieces : p.numbers \in Seq(Numbers)
    BY DEF Pieces
  <2>3. QED
    BY <2>1, <2>2
<1>3. G \in Seq(Seq(Numbers)) /\ DOMAIN G = DOMAIN line.text
  BY <1>1, <1>2, IsASeq
<1>4. NumbersOf(line) = u \o v
  BY DEF NumbersOf
<1>5. \A k \in DOMAIN line.text : G[k] = line.text[k].numbers
  OBVIOUS
<1> HIDE DEF G
<1>6. v \in Seq(Numbers)
  BY <1>3, FlattenIsSeq
<1>7. /\ \A p \in DOMAIN v : \E j \in DOMAIN G : \E m \in DOMAIN G[j] : v[p] = G[j][m]
      /\ \A j \in DOMAIN G : \A m \in DOMAIN G[j] : \E p \in DOMAIN v : v[p] = G[j][m]
  BY <1>3, FlattenHas
<1> HIDE DEF u, v
<1>8. /\ u \o v \in Seq(Numbers) /\ Len(u \o v) = Len(u) + Len(v)
      /\ \A k \in 1..Len(u) : (u \o v)[k] = u[k]
      /\ \A k \in 1..Len(v) : (u \o v)[Len(u) + k] = v[k]
  BY <1>1, <1>6, ConcatIs
<1> DEFINE w == NumbersOf(line)
<1>9. /\ w \in Seq(Numbers) /\ Len(w) = Len(u) + Len(v)
      /\ \A k \in 1..Len(u) : w[k] = u[k]
      /\ \A k \in 1..Len(v) : w[Len(u) + k] = v[k]
  BY <1>4, <1>8
<1> HIDE DEF w
<1>10. Len(u) \in Nat /\ Len(v) \in Nat /\ DOMAIN v = 1..Len(v) /\ DOMAIN w = 1..Len(w)
  BY <1>1, <1>6, <1>9
<1>11. ASSUME NEW p \in DOMAIN line.text PROVE ToSet(line.text[p].numbers) \subseteq ToSet(w)
  <2>1. ASSUME NEW m \in DOMAIN G[p] PROVE G[p][m] \in ToSet(w)
    <3>1. PICK k \in DOMAIN v : v[k] = G[p][m]
      BY <1>3, <1>7
    <3>2. Len(u) + k \in DOMAIN w /\ w[Len(u) + k] = v[k]
      BY <1>9, <1>10
    <3>3. QED
      BY <3>1, <3>2 DEF ToSet
  <2>2. QED
    BY <1>5, <2>1 DEF ToSet
<1>12. ASSUME NEW k \in DOMAIN w, k \notin 1..Len(u)
       PROVE  \E p \in DOMAIN line.text : w[k] \in ToSet(line.text[p].numbers)
  <2>1. k - Len(u) \in 1..Len(v) /\ Len(u) + (k - Len(u)) = k
    BY <1>9, <1>10, <1>12
  <2>2. w[k] = v[k - Len(u)]
    BY <1>9, <2>1
  <2>3. PICK j \in DOMAIN G : \E m \in DOMAIN G[j] : v[k - Len(u)] = G[j][m]
    BY <1>7, <1>10, <2>1
  <2>4. w[k] \in ToSet(G[j])
    BY <2>2, <2>3 DEF ToSet
  <2>5. QED
    BY <1>3, <1>5, <2>3, <2>4
<1>13. ASSUME \A p \in DOMAIN line.text : line.text[p].numbers = <<>> PROVE w = u
  <2>1. ASSUME NEW k \in DOMAIN v PROVE FALSE
    <3>1. PICK j \in DOMAIN G : \E m \in DOMAIN G[j] : v[k] = G[j][m]
      BY <1>7
    <3>2. G[j] = <<>> /\ DOMAIN <<>> = {}
      BY <1>3, <1>5, <1>13, <3>1
    <3>3. QED
      BY <3>1, <3>2
  <2>2. Len(v) = 0
    <3>1. Len(v) # 0 => 1 \in DOMAIN v
      BY <1>10
    <3>2. QED
      BY <2>1, <3>1
  <2>3. Len(w) = Len(u)
    BY <1>9, <1>10, <2>2
  <2>4. QED
    BY <1>1, <1>9, <2>3, SeqEqual
<1>14. QED
  BY <1>1, <1>9, <1>10, <1>11, <1>12, <1>13 DEF u, w

(* The pieces of a text that are kept, keep their numbers or lose them.     *)
LEMMA TextFrom ==
    ASSUME NEW name, NEW words \in Seq(Pieces)
    PROVE  \A p \in DOMAIN TextOf(name, words) :
              \E k \in DOMAIN words : TextOf(name, words)[p].numbers \in {words[k].numbers, <<>>}
<1> DEFINE quoted(p) == IF p.quoted THEN <<[p EXCEPT !.quoted = FALSE]>> ELSE <<>>
           other(p) == IF ~p.quoted /\ (name \in TextRecords \/ ~p.capital)
                       THEN <<[p EXCEPT !.numbers = <<>>]>> ELSE <<>>
           Q == [k \in DOMAIN words |-> quoted(words[k])]
           O == [k \in DOMAIN words |-> other(words[k])]
           From(p) == \E k \in DOMAIN words : p.numbers \in {words[k].numbers, <<>>}
<1>1. ASSUME NEW p \in Pieces
      PROVE  /\ quoted(p) \in Seq(Pieces) /\ other(p) \in Seq(Pieces)
             /\ \A m \in DOMAIN quoted(p) : quoted(p)[m].numbers = p.numbers
             /\ \A m \in DOMAIN other(p) : other(p)[m].numbers = <<>>
  <2>1. [p EXCEPT !.quoted = FALSE] \in Pieces /\ [p EXCEPT !.quoted = FALSE].numbers = p.numbers
    BY DEF Pieces
  <2>2. [p EXCEPT !.numbers = <<>>] \in Pieces /\ [p EXCEPT !.numbers = <<>>].numbers = <<>>
    <3>1. <<>> \in Seq(Numbers)
      OBVIOUS
    <3>2. QED
      BY <3>1 DEF Pieces
  <2>3. \A x \in Pieces : <<x>> \in Seq(Pieces) /\ DOMAIN <<x>> = {1} /\ <<x>>[1] = x
    OBVIOUS
  <2>4. <<>> \in Seq(Pieces) /\ DOMAIN <<>> = {}
    OBVIOUS
  <2>5. quoted(p) \in Seq(Pieces) /\ \A m \in DOMAIN quoted(p) : quoted(p)[m].numbers = p.numbers
    BY <2>1, <2>3, <2>4
  <2>6. other(p) \in Seq(Pieces) /\ \A m \in DOMAIN other(p) : other(p)[m].numbers = <<>>
    BY <2>2, <2>3, <2>4
  <2>7. QED
    BY <2>5, <2>6
<1> HIDE DEF quoted, other
<1>2. /\ DOMAIN words = 1..Len(words) /\ Len(words) \in Nat
      /\ \A k \in 1..Len(words) : words[k] \in Pieces
  OBVIOUS
<1>3. /\ DOMAIN Q = DOMAIN words /\ DOMAIN O = DOMAIN words
      /\ \A k \in DOMAIN words : Q[k] = quoted(words[k]) /\ O[k] = other(words[k])
  OBVIOUS
<1>4. Q \in Seq(Seq(Pieces)) /\ O \in Seq(Seq(Pieces))
  BY <1>1, <1>2, IsASeq
<1> HIDE DEF Q, O
<1> DEFINE u == FlattenSeq(Q)
           v == FlattenSeq(O)
<1>5. u \in Seq(Pieces) /\ v \in Seq(Pieces)
  BY <1>4, FlattenIsSeq
<1>6. ASSUME NEW p \in DOMAIN u PROVE From(u[p])
  <2>1. PICK j \in DOMAIN Q : \E m \in DOMAIN Q[j] : u[p] = Q[j][m]
    BY <1>4, FlattenHas
  <2>2. words[j] \in Pieces /\ Q[j] = quoted(words[j])
    BY <1>2, <1>3, <2>1
  <2>3. u[p].numbers = words[j].numbers
    BY <1>1, <2>1, <2>2
  <2>4. QED
    BY <1>3, <2>1, <2>3
<1>7. ASSUME NEW p \in DOMAIN v PROVE From(v[p])
  <2>1. PICK j \in DOMAIN O : \E m \in DOMAIN O[j] : v[p] = O[j][m]
    BY <1>4, FlattenHas
  <2>2. words[j] \in Pieces /\ O[j] = other(words[j])
    BY <1>2, <1>3, <2>1
  <2>3. v[p].numbers = <<>>
    BY <1>1, <2>1, <2>2
  <2>4. QED
    BY <1>3, <2>1, <2>3
<1>8. TextOf(name, words) = u \o v
  BY DEF TextOf, Q, O, quoted, other
<1> HIDE DEF u, v, From
<1>9. /\ u \o v \in Seq(Pieces) /\ Len(u \o v) = Len(u) + Len(v)
      /\ \A k \in 1..Len(u) : (u \o v)[k] = u[k]
      /\ \A k \in 1..Len(v) : (u \o v)[Len(u) + k] = v[k]
  BY <1>5, ConcatIs
<1> DEFINE w == u \o v
<1>10. /\ DOMAIN w = 1..(Len(u) + Len(v)) /\ DOMAIN u = 1..Len(u) /\ DOMAIN v = 1..Len(v)
       /\ Len(u) \in Nat /\ Len(v) \in Nat
  BY <1>5, <1>9
<1>11. \A k \in 1..Len(u) : w[k] = u[k]
  BY <1>9
<1>12. \A k \in 1..Len(v) : w[Len(u) + k] = v[k]
  BY <1>9
<1> HIDE DEF w
<1>13. ASSUME NEW p \in DOMAIN w PROVE From(w[p])
  <2>1. CASE p \in 1..Len(u)
    BY <1>6, <1>10, <1>11, <2>1
  <2>2. CASE p \notin 1..Len(u)
    <3>1. p - Len(u) \in 1..Len(v) /\ Len(u) + (p - Len(u)) = p
      BY <1>10, <2>2
    <3>2. w[p] = v[p - Len(u)]
      BY <1>12, <3>1
    <3>3. QED
      BY <1>7, <1>10, <3>1, <3>2
  <2>3. QED
    BY <2>1, <2>2
<1>14. QED
  BY <1>8, <1>13 DEF w, From

(* The numbers in the text of a record are numbers of the record.           *)
LEMMA TextNumbers ==
    ASSUME NEW start, NEW lines \in Seq(Lines)
    PROVE  LET r == RecordFromLines(start, lines)
           IN  \A p \in DOMAIN r.text : ToSet(r.text[p].numbers) \subseteq ToSet(r.numbers)
<1> DEFINE r == RecordFromLines(start, lines)
           N == [k \in DOMAIN lines |-> NumbersOf(lines[k])]
           X == [k \in DOMAIN lines |-> lines[k].text]
           words == FlattenSeq(X)
           all == FlattenSeq(N)
<1>1. /\ DOMAIN lines = 1..Len(lines) /\ Len(lines) \in Nat
      /\ \A k \in 1..Len(lines) : lines[k] \in Lines
  OBVIOUS
<1>2. N \in Seq(Seq(Numbers)) /\ DOMAIN N = DOMAIN lines
  BY <1>1, NumbersOfIs, IsASeq
<1>3. X \in Seq(Seq(Pieces)) /\ DOMAIN X = DOMAIN lines
  <2>1. \A k \in 1..Len(lines) : lines[k].text \in Seq(Pieces)
    BY <1>1 DEF Lines
  <2>2. QED
    BY <1>1, <2>1, IsASeq
<1>4. \A k \in DOMAIN lines : N[k] = NumbersOf(lines[k]) /\ X[k] = lines[k].text
  OBVIOUS
<1>5. r.numbers = all /\ r.text = TextOf(lines[1].name, words)
  BY DEF RecordFromLines
<1> HIDE DEF N, X
<1>6. words \in Seq(Pieces)
  BY <1>3, FlattenIsSeq
<1>7. \A k \in DOMAIN words : \E j \in DOMAIN X : \E m \in DOMAIN X[j] : words[k] = X[j][m]
  BY <1>3, FlattenHas
<1>8. \A j \in DOMAIN N : \A m \in DOMAIN N[j] : \E p \in DOMAIN all : all[p] = N[j][m]
  BY <1>2, FlattenHas
<1> HIDE DEF words, all, r
<1>9. ASSUME NEW k \in DOMAIN words PROVE ToSet(words[k].numbers) \subseteq ToSet(all)
  <2>1. PICK j \in DOMAIN X : \E m \in DOMAIN X[j] : words[k] = X[j][m]
    BY <1>7
  <2>2. PICK m \in DOMAIN lines[j].text : words[k] = lines[j].text[m]
    BY <1>3, <1>4, <2>1
  <2>3. j \in DOMAIN lines /\ lines[j] \in Lines
    BY <1>1, <1>3, <2>1
  <2>4. ToSet(words[k].numbers) \subseteq ToSet(NumbersOf(lines[j]))
    BY <2>2, <2>3, NumbersOfIs
  <2>5. ToSet(N[j]) \subseteq ToSet(all)
    BY <1>2, <1>8, <2>3 DEF ToSet
  <2>6. QED
    BY <1>4, <2>3, <2>4, <2>5
<1>10. ASSUME NEW p \in DOMAIN r.text PROVE ToSet(r.text[p].numbers) \subseteq ToSet(r.numbers)
  <2>1. PICK k \in DOMAIN words : r.text[p].numbers \in {words[k].numbers, <<>>}
    BY <1>5, <1>6, TextFrom
  <2>2. ToSet(<<>>) = {}
    BY DEF ToSet
  <2>3. QED
    BY <1>5, <1>9, <2>1, <2>2
<1>11. QED
  BY <1>10 DEF r

(* Lines that become one record: one with a name, and those that go on.     *)
Group(g) ==
    /\ g \in Seq(Lines) /\ g # <<>>
    /\ g[1].name \notin {"blank", "more"}
    /\ \A m \in 2..Len(g) : g[m].name = "more"

(* A record that was made of such lines. *)
Made(r) ==
    r \in Records /\ r.start # 0 /\ Group(r.lines) /\ r = RecordFromLines(r.start, r.lines)

(* What is left of the numbers of any record when it is rewritten: the      *)
(* first two, and no others if there were fewer.                            *)
Heads(old, new) ==
    /\ \A k \in {1, 2} : k <= Len(old) => k <= Len(new) /\ new[k] = old[k]
    /\ Len(old) < 2 => \A k \in DOMAIN new : Len(old) = 1 /\ new[k] = old[1]

LEMMA MadeIs ==
    ASSUME NEW start \in Nat \ {0}, NEW g, Group(g)
    PROVE  LET r == RecordFromLines(start, g)
           IN  Made(r) /\ r.name = g[1].name /\ r.name \notin {"blank", "more"} /\ r.lines = g
<1> DEFINE r == RecordFromLines(start, g)
<1>1. r \in Records /\ r.name = g[1].name
  BY RecordIs DEF Group
<1>2. r.start = start /\ r.lines = g
  BY DEF RecordFromLines
<1> HIDE DEF r
<1>3. r = RecordFromLines(r.start, r.lines)
  BY <1>2 DEF r
<1>4. Made(r)
  BY <1>1, <1>2, <1>3 DEF Made
<1>5. QED
  BY <1>1, <1>2, <1>4 DEF r, Group

LEMMA CanonicalIs ==
    ASSUME NEW r \in Records
    PROVE  LET C == CanonicalLines(r)
               size == Len(r.numbers)
           IN  /\ C \in Seq(Lines) /\ Len(C) # 0
               /\ size = 0 => Len(C) = 1
               /\ size # 0 => 4 * Len(C) >= size /\ 4 * Len(C) < size + 4
               /\ C[1].name = r.name /\ C[1].text = r.text
               /\ \A k \in 2..Len(C) : C[k].name = "more" /\ C[k].text = <<>>
               /\ \A k \in 1..Len(C) :
                     C[k].numbers = SubSeq(r.numbers, 4 * k - 3, IF 4 * k < size THEN 4 * k ELSE size)
<1> DEFINE size == Len(r.numbers)
           count == IF size = 0 THEN 1 ELSE (size + 3) \div 4
           part(k) == SubSeq(r.numbers, 4 * k - 3, IF 4 * k < size THEN 4 * k ELSE size)
           line(k) == [name    |-> IF k = 1 THEN r.name ELSE "more",
                       numbers |-> part(k),
                       text    |-> IF k = 1 THEN r.text ELSE <<>>]
           C == CanonicalLines(r)
<1>1. size \in Nat
  <2>1. r.numbers \in Seq(Numbers)
    BY DEF Records
  <2>2. QED
    BY <2>1
<1>2. C = [k \in 1..count |-> line(k)]
  BY DEF CanonicalLines
<1>3. /\ count \in Nat /\ count # 0
      /\ size = 0 => count = 1
      /\ size # 0 => 4 * count >= size /\ 4 * count < size + 4
  <2> HIDE DEF size
  <2>1. QED
    BY <1>1
<1> HIDE DEF count, C
<1>4. C \in Seq(Lines)
  BY CanonicalLinesAre DEF C
<1>5. Len(C) = count /\ \A k \in 1..count : C[k] = line(k)
  <2> HIDE DEF line
  <2>1. DOMAIN C = 1..count /\ \A k \in 1..count : C[k] = line(k)
    BY <1>2
  <2>2. DOMAIN C = 1..Len(C) /\ Len(C) \in Nat
    BY <1>4
  <2> HIDE DEF size
  <2>3. QED
    BY <1>3, <2>1, <2>2
<1> HIDE DEF size
<1>6. 1 \in 1..count
  BY <1>3
<1>7. C[1].name = r.name /\ C[1].text = r.text
  <2>1. C[1] = line(1)
    BY <1>5, <1>6
  <2>2. QED
    BY <2>1
<1>8. ASSUME NEW k \in 2..count PROVE C[k].name = "more" /\ C[k].text = <<>>
  <2>1. k \in 1..count /\ k # 1
    BY <1>3
  <2>2. C[k] = line(k)
    BY <1>5, <2>1
  <2>3. QED
    BY <2>1, <2>2
<1>9. ASSUME NEW k \in 1..count PROVE C[k].numbers = part(k)
  <2>1. C[k] = line(k)
    BY <1>5
  <2> HIDE DEF part
  <2>2. QED
    BY <2>1
<1> HIDE DEF line
<1>10. /\ C \in Seq(Lines) /\ Len(C) # 0
       /\ size = 0 => Len(C) = 1
       /\ size # 0 => 4 * Len(C) >= size /\ 4 * Len(C) < size + 4
  BY <1>3, <1>4, <1>5
<1>11. QED
  BY <1>5, <1>7, <1>8, <1>9, <1>10 DEF C, size

LEMMA CanonicalGroup ==
    ASSUME NEW r, Made(r)
    PROVE  Group(CanonicalLines(r)) /\ CanonicalLines(r)[1].name = r.name
<1>1. r \in Records /\ r.name \notin {"blank", "more"}
  <2>1. r \in Records /\ r.start \in Nat \ {0} /\ Group(r.lines) /\ r = RecordFromLines(r.start, r.lines)
    BY DEF Made, Records
  <2>2. QED
    BY <2>1, MadeIs
<1> DEFINE C == CanonicalLines(r)
<1>2. C \in Seq(Lines) /\ Len(C) # 0 /\ C[1].name = r.name /\ \A k \in 2..Len(C) : C[k].name = "more"
  BY <1>1, CanonicalIs
<1> HIDE DEF C
<1>3. C # <<>> /\ C[1].name \notin {"blank", "more"}
  BY <1>1, <1>2
<1>4. QED
  BY <1>2, <1>3 DEF Group, C

(* A record that is rewritten and read again. *)
LEMMA Reread ==
    ASSUME NEW r, Made(r), NEW start \in Nat \ {0}
    PROVE  LET q == RecordFromLines(start, CanonicalLines(r))
           IN  /\ q.name = r.name
               /\ Heads(r.numbers, q.numbers)
               /\ PlainText(r) => q.numbers = r.numbers
<1> DEFINE C == CanonicalLines(r)
           q == RecordFromLines(start, C)
           G == [k \in DOMAIN C |-> NumbersOf(C[k])]
           N == r.numbers
           size == Len(N)
           w == FlattenSeq(G)
<1>1. r \in Records /\ N \in Seq(Numbers) /\ r.text \in Seq(Pieces) /\ size \in Nat
  <2>1. r \in Records
    BY DEF Made
  <2>2. N \in Seq(Numbers) /\ r.text \in Seq(Pieces)
    BY <2>1 DEF Records
  <2>3. QED
    BY <2>1, <2>2
<1>2. \A p \in DOMAIN r.text : ToSet(r.text[p].numbers) \subseteq ToSet(N)
  <2>1. r.lines \in Seq(Lines) /\ r = RecordFromLines(r.start, r.lines)
    BY DEF Made, Group
  <2>2. QED
    BY <2>1, TextNumbers
<1>3. q.name = C[1].name /\ q.numbers = w
  BY DEF RecordFromLines
<1>4. /\ C \in Seq(Lines) /\ Len(C) # 0
      /\ size = 0 => Len(C) = 1
      /\ size # 0 => 4 * Len(C) >= size /\ 4 * Len(C) < size + 4
      /\ C[1].name = r.name /\ C[1].text = r.text
      /\ \A k \in 2..Len(C) : C[k].name = "more" /\ C[k].text = <<>>
      /\ \A k \in 1..Len(C) :
            C[k].numbers = SubSeq(N, 4 * k - 3, IF 4 * k < size THEN 4 * k ELSE size)
  BY <1>1, CanonicalIs
<1> HIDE DEF C
<1>5. /\ DOMAIN C = 1..Len(C) /\ Len(C) \in Nat /\ 1 \in 1..Len(C)
      /\ \A k \in 1..Len(C) : C[k] \in Lines
  BY <1>4
<1>6. G \in Seq(Seq(Numbers)) /\ Len(G) = Len(C) /\ \A k \in 1..Len(C) : G[k] = NumbersOf(C[k])
  <2>1. \A k \in 1..Len(C) : NumbersOf(C[k]) \in Seq(Numbers)
    BY <1>5, NumbersOfIs
  <2>2. G \in Seq(Seq(Numbers))
    BY <1>5, <2>1, IsASeq
  <2>3. QED
    BY <1>5, <2>2
<1> HIDE DEF G, q
<1>7. w \in Seq(Numbers) /\ Len(w) \in Nat
  BY <1>6, FlattenIsSeq
<1>8. PICK e : Split(w, G, e)
  BY <1>6, FlattenSplits
<1> HIDE DEF w
<1>9. /\ e[1] = Len(G[1]) /\ Len(G[1]) <= Len(w) /\ \A m \in 1..Len(G[1]) : w[m] = G[1][m]
  <2>1. /\ e[0] = 0 /\ e[1] \in Nat /\ e[1] = e[0] + Len(G[1]) /\ e[1] <= Len(w)
        /\ \A m \in 1..Len(G[1]) : w[e[0] + m] = G[1][m]
    <3>1. 1 \in 1..Len(G) /\ 1 - 1 = 0
      BY <1>5, <1>6
    <3>2. QED
      BY <1>8, <3>1 DEF Split
  <2>2. Len(G[1]) \in Nat
    <3>1. G[1] \in Seq(Numbers)
      BY <1>5, <1>6
    <3>2. QED
      BY <3>1
  <2>3. ASSUME NEW m \in 1..Len(G[1]) PROVE w[m] = G[1][m]
    <3>1. e[0] + m = m
      BY <2>1, <2>2
    <3>2. QED
      BY <2>1, <3>1
  <2>4. QED
    BY <2>1, <2>2, <2>3
<1> DEFINE c == C[1]
           last == IF 4 < size THEN 4 ELSE size
<1>10. c \in Lines /\ c.numbers = SubSeq(N, 1, last) /\ c.text = r.text /\ G[1] = NumbersOf(c)
  <2>1. 4 * 1 - 3 = 1 /\ 4 * 1 = 4
    OBVIOUS
  <2>2. QED
    BY <1>4, <1>5, <1>6, <2>1
<1> HIDE DEF c
<1>11. last \in 0..size /\ (size < 2 => last = size) /\ (size >= 2 => last >= 2)
  BY <1>1
<1>12. Len(c.numbers) = last /\ \A k \in 1..last : c.numbers[k] = N[k]
  <2>1. \A i \in 1..last : N[i] \in Numbers
    BY <1>1, <1>11
  <2>2. last \in Int /\ 1 \in Int
    BY <1>11
  <2> HIDE DEF last
  <2>3. /\ Len(SubSeq(N, 1, last)) = IF 1 <= last THEN last - 1 + 1 ELSE 0
        /\ \A i \in 1..(last - 1 + 1) : SubSeq(N, 1, last)[i] = N[1 + i - 1]
    BY <2>1, <2>2, SubSeqProperties
  <2>4. last - 1 + 1 = last /\ \A i \in 1..last : 1 + i - 1 = i
    BY <1>11
  <2>5. last = 0 \/ 1 <= last
    BY <1>11
  <2>6. QED
    BY <1>10, <2>3, <2>4, <2>5
<1> HIDE DEF last
<1>13. ASSUME NEW k \in {1, 2}, k <= size PROVE k <= Len(w) /\ w[k] = N[k]
  <2>1. k \in 1..last /\ k \in 1..Len(c.numbers)
    BY <1>1, <1>11, <1>12, <1>13
  <2>2. Len(c.numbers) <= Len(G[1]) /\ G[1][k] = c.numbers[k] /\ Len(G[1]) \in Nat
    <3>1. /\ NumbersOf(c) \in Seq(Numbers) /\ Len(c.numbers) <= Len(NumbersOf(c))
          /\ \A i \in 1..Len(c.numbers) : NumbersOf(c)[i] = c.numbers[i]
      BY <1>10, NumbersOfIs
    <3>2. Len(NumbersOf(c)) \in Nat
      BY <3>1
    <3>3. QED
      BY <1>10, <2>1, <3>1, <3>2
  <2>3. k \in 1..Len(G[1])
    BY <1>11, <1>12, <2>1, <2>2
  <2>4. QED
    BY <1>7, <1>9, <1>12, <2>1, <2>2, <2>3
<1>14. ASSUME size < 2, NEW k \in DOMAIN w PROVE size = 1 /\ w[k] = N[1]
  <2>1. Len(C) = 1
    <3>1. CASE size = 0
      BY <1>4, <3>1
    <3>2. CASE size # 0
      BY <1>1, <1>4, <1>5, <1>14, <3>2
    <3>3. QED
      BY <3>1, <3>2
  <2>2. Len(w) = Len(G[1])
    BY <1>6, <1>8, <1>9, <2>1 DEF Split
  <2>3. k \in 1..Len(w) /\ G[1] \in Seq(Numbers) /\ k \in DOMAIN G[1]
    BY <1>5, <1>6, <1>7, <2>2
  <2>4. w[k] = NumbersOf(c)[k]
    BY <1>9, <1>10, <2>2, <2>3
  <2>5. CASE k \in 1..Len(c.numbers)
    <3>1. k \in 1..size
      BY <1>11, <1>12, <1>14, <2>5
    <3>2. k = 1 /\ size = 1
      <4> HIDE DEF size
      <4>1. QED
        BY <1>1, <1>14, <3>1
    <3>3. QED
      BY <1>9, <1>13, <3>2
  <2>6. CASE \E p \in DOMAIN c.text : NumbersOf(c)[k] \in ToSet(c.text[p].numbers)
    <3>1. w[k] \in ToSet(N)
      BY <1>2, <1>10, <2>4, <2>6
    <3>2. PICK i \in DOMAIN N : w[k] = N[i]
      BY <3>1 DEF ToSet
    <3>3. i \in 1..size
      BY <1>1, <3>2
    <3>4. i = 1 /\ size = 1
      <4> HIDE DEF size
      <4>1. QED
        BY <1>1, <1>14, <3>3
    <3>5. QED
      BY <3>2, <3>4
  <2>7. k \in DOMAIN NumbersOf(c)
    BY <1>10, <2>3
  <2>8. QED
    BY <1>10, <2>5, <2>6, <2>7, NumbersOfIs
<1>15. Heads(N, w)
  BY <1>13, <1>14 DEF Heads
<1>16. ASSUME PlainText(r) PROVE w = N
  <2>1. ASSUME NEW k \in 1..Len(C) PROVE G[k] = C[k].numbers
    <3>1. \A p \in DOMAIN C[k].text : C[k].text[p].numbers = <<>>
      <4>1. CASE k = 1
        BY <1>4, <1>16, <4>1 DEF PlainText
      <4>2. CASE k # 1
        <5>1. k \in 2..Len(C) /\ DOMAIN <<>> = {}
          BY <1>5, <4>2
        <5>2. QED
          BY <1>4, <5>1
      <4>3. QED
        BY <4>1, <4>2
    <3>2. QED
      BY <1>5, <1>6, <3>1, NumbersOfIs
  <2>2. CASE size = 0
    <3>1. Len(w) = 0
      <4>1. \A k \in DOMAIN w : FALSE
        BY <1>14, <2>2
      <4>2. Len(w) # 0 => 1 \in DOMAIN w
        BY <1>7
      <4>3. QED
        BY <4>1, <4>2
    <3>2. QED
      BY <1>1, <1>7, <2>2, <3>1
  <2>3. CASE size # 0
    <3>1. /\ 4 * Len(G) >= size /\ 4 * Len(G) < size + 4
          /\ \A k \in 1..Len(G) : G[k] = SubSeq(N, 4 * k - 3, IF 4 * k < size THEN 4 * k ELSE size)
      BY <1>4, <1>6, <2>1, <2>3
    <3> HIDE DEF N
    <3>2. FlattenSeq(G) = N
      BY <1>1, <1>6, <2>3, <3>1, ChunksAreWhole
    <3>3. QED
      BY <3>2 DEF w
  <2>4. QED
    BY <2>2, <2>3
<1>17. QED
  BY <1>3, <1>4, <1>15, <1>16 DEF q, C

----------------------------------------------------------------------------
(* A document and a copy of it. *)

(* What rewriting leaves of the records R; the copy may have an IEND more.  *)
CopyOf(R, Q) ==
    /\ DOMAIN R \subseteq DOMAIN Q
    /\ \A i \in DOMAIN R : /\ Q[i].name = R[i].name
                           /\ R[i].name \in Numeric => Q[i].numbers = R[i].numbers
                           /\ Heads(R[i].numbers, Q[i].numbers)
    /\ \A i \in DOMAIN Q \ DOMAIN R : Q[i].name = "IEND"

(* The records S are the same in both. *)
Same(R, Q, S) == \A i \in S : Q[i].name = R[i].name /\ Q[i].numbers = R[i].numbers

LEMMA CopyNamed ==
    ASSUME NEW R, NEW Q, CopyOf(R, Q), NEW names \in SUBSET Numeric
    PROVE  Named(Q, names) = Named(R, names) /\ Same(R, Q, Named(R, names))
<1>1. "IEND" \notin names
  BY DEF Numeric
<1>2. ASSUME NEW i \in Named(Q, names) PROVE i \in Named(R, names)
  BY <1>1, <1>2 DEF Named, CopyOf
<1>3. ASSUME NEW i \in Named(R, names)
      PROVE  i \in Named(Q, names) /\ Q[i].name = R[i].name /\ Q[i].numbers = R[i].numbers
  BY <1>3 DEF Named, CopyOf
<1>4. QED
  BY <1>2, <1>3 DEF Same

LEMMA CopyNumbered ==
    ASSUME NEW R, NEW Q, CopyOf(R, Q), NEW names \in SUBSET Numeric, NEW least
    PROVE  Numbered(Q, names, least) = Numbered(R, names, least) /\ Same(R, Q, Numbered(R, names, least))
<1>1. Named(Q, names) = Named(R, names) /\ Same(R, Q, Named(R, names))
  BY CopyNamed
<1>2. QED
  BY <1>1 DEF Numbered, Same, Id

LEMMA CopyFirst ==
    ASSUME NEW R, NEW Q, NEW S, Same(R, Q, S)
    PROVE  /\ First(Q, S) = First(R, S) /\ Same(R, Q, First(R, S))
           /\ Ids(Q, S) = Ids(R, S) /\ Ids(Q, First(Q, S)) = Ids(R, First(R, S))
<1>1. \A i \in S : Id(Q, i) = Id(R, i)
  BY DEF Same, Id
<1>2. First(Q, S) = First(R, S)
  BY <1>1 DEF First
<1>3. First(R, S) \subseteq S
  BY DEF First
<1>4. Ids(Q, S) = Ids(R, S)
  BY <1>1 DEF Ids
<1>5. Ids(Q, First(R, S)) = Ids(R, First(R, S))
  BY <1>1, <1>3 DEF Ids
<1>6. QED
  BY <1>2, <1>3, <1>4, <1>5 DEF Same

LEMMA NumericNames ==
    /\ {"MISOSEL"} \subseteq Numeric /\ {"GELTH", "GBEAMG"} \subseteq Numeric
    /\ Dimensions \subseteq Numeric /\ {"GCOORD"} \subseteq Numeric /\ {"GNODE"} \subseteq Numeric
    /\ {"GELMNT1"} \subseteq Numeric /\ {"GELREF1"} \subseteq Numeric
    /\ {"GUNIVEC"} \subseteq Numeric /\ {"BNTRCOS"} \subseteq Numeric /\ {"BNBCD"} \subseteq Numeric
BY DEF Numeric, Known, TextRecords, Dimensions, Concepts, Loads

(* The tables of a copy. *)
LEMMA CopyTables ==
    ASSUME NEW R, NEW Q, CopyOf(R, Q)
    PROVE  /\ Materials(Q) = Materials(R) /\ Same(R, Q, Materials(R))
           /\ Ids(Q, Materials(Q)) = Ids(R, Materials(R))
           /\ Sections(Q) = Sections(R) /\ Same(R, Q, Sections(R)) /\ SectionIds(Q) = SectionIds(R)
           /\ Coordinates(Q) = Coordinates(R) /\ Same(R, Q, Coordinates(R))
           /\ Ids(Q, Coordinates(Q)) = Ids(R, Coordinates(R))
<1>1. /\ Numbered(Q, {"MISOSEL"}, 1) = Numbered(R, {"MISOSEL"}, 1)
      /\ Same(R, Q, Numbered(R, {"MISOSEL"}, 1))
  BY NumericNames, CopyNumbered
<1>2. /\ Numbered(Q, {"GELTH", "GBEAMG"}, 1) = Numbered(R, {"GELTH", "GBEAMG"}, 1)
      /\ Same(R, Q, Numbered(R, {"GELTH", "GBEAMG"}, 1))
  BY NumericNames, CopyNumbered
<1>3. Numbered(Q, Dimensions, 1) = Numbered(R, Dimensions, 1) /\ Same(R, Q, Numbered(R, Dimensions, 1))
  BY NumericNames, CopyNumbered
<1>4. /\ Numbered(Q, {"GCOORD"}, 4) = Numbered(R, {"GCOORD"}, 4)
      /\ Same(R, Q, Numbered(R, {"GCOORD"}, 4))
  BY NumericNames, CopyNumbered
<1>5. Ids(Q, Numbered(Q, Dimensions, 1)) = Ids(R, Numbered(R, Dimensions, 1))
  BY <1>3, CopyFirst
<1>6. QED
  BY <1>1, <1>2, <1>4, <1>5, CopyFirst DEF Materials, Sections, SectionIds, Coordinates

LEMMA CopyNodes ==
    ASSUME NEW R, NEW Q, CopyOf(R, Q)
    PROVE  /\ Pending(Q) = Pending(R) /\ Same(R, Q, Pending(R))
           /\ Nodes(Q) = Nodes(R) /\ Same(R, Q, Nodes(R)) /\ Ids(Q, Nodes(Q)) = Ids(R, Nodes(R))
<1> DEFINE N == Numbered(R, {"GNODE"}, 4)
           S == {i \in Pending(R) : ~BadSystem(R, i)}
           T == {i \in Pending(Q) : ~BadSystem(Q, i)}
<1>1. Numbered(Q, {"GNODE"}, 4) = N /\ Same(R, Q, N)
  BY NumericNames, CopyNumbered
<1>2. /\ Coordinates(Q) = Coordinates(R) /\ Same(R, Q, Coordinates(R))
      /\ Ids(Q, Coordinates(Q)) = Ids(R, Coordinates(R))
  BY CopyTables
<1>3. \A i \in N : Id(Q, i) = Id(R, i)
  BY <1>1 DEF Same, Id
<1>4. Pending(Q) = Pending(R) /\ Pending(R) \subseteq N
  BY <1>1, <1>2, <1>3 DEF Pending
<1>5. Same(R, Q, Pending(R))
  BY <1>1, <1>4 DEF Same
<1>6. \A i \in Pending(R) : BadSystem(Q, i) = BadSystem(R, i)
  BY <1>5 DEF BadSystem, Same
<1>7. T = S /\ S \subseteq Pending(R)
  BY <1>4, <1>6
<1> HIDE DEF S, T, N
<1>8. Same(R, Q, S)
  BY <1>5, <1>7 DEF Same
<1>9. First(Q, S) = First(R, S) /\ Same(R, Q, First(R, S))
  BY <1>8, CopyFirst
<1>10. Nodes(Q) = Coordinates(R) \union First(R, S) /\ Nodes(R) = Coordinates(R) \union First(R, S)
  BY <1>2, <1>7, <1>9 DEF Nodes, S, T
<1>11. Same(R, Q, Nodes(R))
  BY <1>2, <1>9, <1>10 DEF Same
<1>12. Ids(Q, Nodes(R)) = Ids(R, Nodes(R))
  BY <1>11, CopyFirst
<1>13. QED
  BY <1>4, <1>5, <1>10, <1>11, <1>12

LEMMA CopyElements ==
    ASSUME NEW R, NEW Q, CopyOf(R, Q)
    PROVE  /\ ElementRecords(Q) = ElementRecords(R) /\ Same(R, Q, ElementRecords(R))
           /\ Elements(Q) = Elements(R) /\ Elements(R) \subseteq ElementRecords(R)
<1> DEFINE S == {i \in ElementRecords(R) : WellFormed(R[i].numbers)}
<1>1. ElementRecords(Q) = ElementRecords(R) /\ Same(R, Q, ElementRecords(R))
  BY NumericNames, CopyNumbered DEF ElementRecords
<1>2. {i \in ElementRecords(Q) : WellFormed(Q[i].numbers)} = S /\ Same(R, Q, S)
  BY <1>1 DEF Same
<1>3. S \subseteq ElementRecords(R)
  OBVIOUS
<1> HIDE DEF S
<1>4. First(Q, S) = First(R, S) /\ First(R, S) \subseteq S
  <2>1. Same(R, Q, S)
    BY <1>2
  <2>2. First(Q, S) = First(R, S)
    BY <2>1, CopyFirst
  <2>3. First(R, S) \subseteq S
    BY DEF First
  <2>4. QED
    BY <2>2, <2>3
<1>5. Elements(R) = First(R, S) /\ Elements(Q) = First(Q, S)
  BY <1>2 DEF Elements, S
<1>6. QED
  BY <1>1, <1>3, <1>4, <1>5

LEMMA CopyReferences ==
    ASSUME NEW R, NEW Q, CopyOf(R, Q)
    PROVE  /\ References(Q) = References(R) /\ Same(R, Q, References(R))
           /\ Ids(Q, References(Q)) = Ids(R, References(R))
<1> DEFINE S == Numbered(R, {"GELREF1"}, 1)
<1>1. Numbered(Q, {"GELREF1"}, 1) = S /\ Same(R, Q, S)
  BY NumericNames, CopyNumbered
<1>2. \A i \in S : Id(Q, i) = Id(R, i)
  BY <1>1 DEF Same, Id
<1> HIDE DEF S
<1>3. References(R) = {i \in S : \A j \in S : j > i => Id(R, j) # Id(R, i)}
  BY DEF References, S
<1>4. References(Q) = {i \in S : \A j \in S : j > i => Id(Q, j) # Id(Q, i)}
  BY <1>1 DEF References
<1>5. References(Q) = References(R)
  BY <1>2, <1>3, <1>4
<1>6. Same(R, Q, References(R))
  BY <1>1, <1>3 DEF Same
<1>7. QED
  BY <1>5, <1>6, CopyFirst

LEMMA CopyReference ==
    ASSUME NEW R, NEW Q, CopyOf(R, Q), NEW i, Q[i].numbers = R[i].numbers,
           \A k \in DOMAIN R : R[k] \in Records, \A k \in DOMAIN Q : Q[k] \in Records
    PROVE  /\ ReferenceOf(Q, i) = None <=> ReferenceOf(R, i) = None
           /\ ReferenceOf(R, i) # None => ReferenceOf(Q, i).numbers = ReferenceOf(R, i).numbers
<1> DEFINE ids == Ids(R, References(R))
           wanted == Wanted(R[i].numbers)
           id == IF wanted[1] \in ids THEN wanted[1] ELSE wanted[2]
           chosen == CHOOSE r \in References(R) : Id(R, r) = id
           other == CHOOSE r \in References(Q) : Id(Q, r) = id
<1>1. /\ References(Q) = References(R) /\ Same(R, Q, References(R))
      /\ Ids(Q, References(Q)) = ids
  BY CopyReferences
<1>2. ReferenceOf(R, i) = IF id \notin ids THEN None ELSE R[chosen]
  BY DEF ReferenceOf
<1>3. ReferenceOf(Q, i) = IF id \notin ids THEN None ELSE Q[other]
  BY <1>1 DEF ReferenceOf
<1> HIDE DEF wanted, id
<1>4. \A r \in References(R) : Id(Q, r) = Id(R, r)
  BY <1>1 DEF Same, Id
<1>5. other = chosen
  BY <1>1, <1>4
<1>6. ASSUME id \in ids
      PROVE  R[chosen] # None /\ Q[chosen] # None /\ Q[chosen].numbers = R[chosen].numbers
  <2>1. \E r \in References(R) : Id(R, r) = id
    BY <1>6 DEF Ids
  <2>2. chosen \in References(R)
    BY <2>1
  <2> HIDE DEF chosen
  <2>3. chosen \in DOMAIN R /\ chosen \in DOMAIN Q
    BY <2>2 DEF References, Numbered, Named, CopyOf
  <2>4. QED
    BY <1>1, <2>2, <2>3, NoneAssumption DEF Same
<1> HIDE DEF ids, chosen, other
<1>7. QED
  BY <1>2, <1>3, <1>5, <1>6

LEMMA CopyElement ==
    ASSUME NEW R, NEW Q, CopyOf(R, Q), NEW i \in Elements(R),
           \A k \in DOMAIN R : R[k] \in Records, \A k \in DOMAIN Q : Q[k] \in Records
    PROVE  Element(Q, i) = Element(R, i)
<1>1. Q[i].numbers = R[i].numbers
  BY CopyElements DEF Same
<1> DEFINE r == ReferenceOf(R, i)
           q == ReferenceOf(Q, i)
<1>2. (q = None <=> r = None) /\ (r # None => q.numbers = r.numbers)
  BY <1>1, CopyReference
<1> HIDE DEF r, q
<1>3. r # None => MaterialOf(q) = MaterialOf(r) /\ SectionOf(q) = SectionOf(r)
  BY <1>2 DEF MaterialOf, SectionOf, SectionPlaces
<1>4. Id(Q, i) = Id(R, i)
  BY <1>1 DEF Id
<1>5. /\ (IF q = None THEN None ELSE MaterialOf(q)) = (IF r = None THEN None ELSE MaterialOf(r))
      /\ (IF q = None THEN None ELSE SectionOf(q)) = (IF r = None THEN None ELSE SectionOf(r))
  BY <1>2, <1>3
<1>6. QED
  BY <1>1, <1>4, <1>5 DEF Element, q, r

LEMMA CopyModel ==
    ASSUME NEW R, NEW Q, CopyOf(R, Q),
           \A k \in DOMAIN R : R[k] \in Records, \A k \in DOMAIN Q : Q[k] \in Records
    PROVE  Model(Q) = Model(R)
<1>1. {Q[i].numbers : i \in Materials(Q)} = {R[i].numbers : i \in Materials(R)}
  BY CopyTables DEF Same
<1>2. {<<Q[i].name, Q[i].numbers>> : i \in Sections(Q)} = {<<R[i].name, R[i].numbers>> : i \in Sections(R)}
  BY CopyTables DEF Same
<1>3. SectionIds(Q) = SectionIds(R)
  BY CopyTables
<1>4. {<<Q[i].name, Q[i].numbers>> : i \in Nodes(Q)} = {<<R[i].name, R[i].numbers>> : i \in Nodes(R)}
  BY CopyNodes DEF Same
<1>5. {Element(Q, i) : i \in Elements(Q)} = {Element(R, i) : i \in Elements(R)}
  <2>1. Elements(Q) = Elements(R)
    BY CopyElements
  <2>2. \A i \in Elements(R) : Element(Q, i) = Element(R, i)
    BY CopyElement
  <2>3. QED
    BY <2>1, <2>2
<1>6. QED
  BY <1>1, <1>2, <1>3, <1>4, <1>5 DEF Model

(* The diagnostics of a copy. *)
LEMMA CopyBadAt ==
    ASSUME NEW R, NEW Q, NEW S, Same(R, Q, S), NEW places
    PROVE  BadAt(Q, S, places) = BadAt(R, S, places)
BY DEF BadAt, Same

LEMMA CopyRefusals ==
    ASSUME NEW R, NEW Q, CopyOf(R, Q), NEW names \in SUBSET Numeric, NEW least
    PROVE  /\ TooShort(Q, names, least) = TooShort(R, names, least)
           /\ BadIds(Q, names, least) = BadIds(R, names, least)
           /\ Refusals(Q, names, least) = Refusals(R, names, least)
<1> DEFINE N == Numbered(R, names, least)
<1>1. Named(Q, names) = Named(R, names) /\ Same(R, Q, Named(R, names))
  BY CopyNamed
<1>2. Numbered(Q, names, least) = N /\ Same(R, Q, N)
  BY CopyNumbered
<1>3. TooShort(Q, names, least) = TooShort(R, names, least)
  BY <1>1 DEF TooShort, Same
<1>4. BadIds(Q, names, least) = BadIds(R, names, least)
  BY <1>1 DEF BadIds, Same, Id
<1>5. Duplicates(Q, Numbered(Q, names, least)) = Duplicates(R, N)
  <2> HIDE DEF N
  <2>1. QED
    BY <1>2, CopyFirst DEF Duplicates
<1>6. QED
  BY <1>3, <1>4, <1>5 DEF Refusals

LEMMA CopyElementRefusals ==
    ASSUME NEW R, NEW Q, CopyOf(R, Q)
    PROVE  ElementRefusals(Q) = ElementRefusals(R)
<1>1. /\ ElementRecords(Q) = ElementRecords(R) /\ Same(R, Q, ElementRecords(R))
      /\ Elements(Q) = Elements(R) /\ Elements(R) \subseteq ElementRecords(R)
  BY CopyElements
<1>2. \A i \in ElementRecords(R) : Id(Q, i) = Id(R, i) /\ Q[i].numbers = R[i].numbers
  BY <1>1 DEF Same, Id
<1>3. Fresh(Q) = Fresh(R) /\ Fresh(R) \subseteq ElementRecords(R)
  BY <1>1, <1>2 DEF Fresh
<1>4. \A i \in Fresh(R) : Q[i].numbers = R[i].numbers
  BY <1>2, <1>3
<1>5. /\ TooShort(Q, {"GELMNT1"}, 3) = TooShort(R, {"GELMNT1"}, 3)
      /\ BadIds(Q, {"GELMNT1"}, 3) = BadIds(R, {"GELMNT1"}, 3)
  BY NumericNames, CopyRefusals
<1>6. BadAt(Q, Fresh(Q), {3}) = BadAt(R, Fresh(R), {3})
  BY <1>3, <1>4 DEF BadAt
<1> DEFINE Second(P) == {j \in Fresh(P) : TypeAt(P[j].numbers) # 3 \/ WellFormed(P[j].numbers)}
<1>7. Second(Q) = Second(R) /\ Second(R) \subseteq Fresh(R)
  BY <1>3, <1>4
<1>8. \A i \in Fresh(R) : BadAt(Q, {i}, {2}) = BadAt(R, {i}, {2})
  BY <1>4 DEF BadAt
<1>9. (UNION {BadAt(Q, {i}, {2}) : i \in Second(Q)}) = (UNION {BadAt(R, {i}, {2}) : i \in Second(R)})
  <2> HIDE DEF Second
  <2>1. {BadAt(Q, {i}, {2}) : i \in Second(Q)} = {BadAt(R, {i}, {2}) : i \in Second(R)}
    BY <1>7, <1>8
  <2>2. QED
    BY <2>1
<1>10. Malformed(Q) = Malformed(R)
  <2>1. {i \in Fresh(Q) : ~Layout(Q[i].numbers)} = {i \in Fresh(R) : ~Layout(R[i].numbers)}
    BY <1>3, <1>4
  <2>2. {i \in Fresh(Q) : Layout(Q[i].numbers) /\ ~Complete(Q[i].numbers)}
          = {i \in Fresh(R) : Layout(R[i].numbers) /\ ~Complete(R[i].numbers)}
    BY <1>3, <1>4
  <2>3. {i \in Fresh(Q) : Complete(Q[i].numbers) /\ ~WellFormed(Q[i].numbers)}
          = {i \in Fresh(R) : Complete(R[i].numbers) /\ ~WellFormed(R[i].numbers)}
    BY <1>3, <1>4
  <2>4. QED
    BY <2>1, <2>2, <2>3 DEF Malformed
<1>11. QED
  BY <1>1, <1>3, <1>5, <1>6, <1>9, <1>10 DEF ElementRefusals

LEMMA CopyBadSystems ==
    ASSUME NEW R, NEW Q, CopyOf(R, Q)
    PROVE  BadSystems(Q) = BadSystems(R)
<1>1. /\ Pending(Q) = Pending(R) /\ Same(R, Q, Pending(R))
      /\ Nodes(Q) = Nodes(R) /\ Same(R, Q, Nodes(R))
  BY CopyNodes
<1>2. /\ \A i \in Pending(R) : Id(Q, i) = Id(R, i) /\ BadSystem(Q, i) = BadSystem(R, i)
      /\ \A i \in Nodes(R) : Id(Q, i) = Id(R, i)
  BY <1>1 DEF Same, Id, BadSystem
<1>3. QED
  BY <1>1, <1>2 DEF BadSystems

LEMMA CopyBadReferences ==
    ASSUME NEW R, NEW Q, CopyOf(R, Q)
    PROVE  BadReferences(Q) = BadReferences(R) /\ BadFlags(Q) = BadFlags(R)
<1> DEFINE S == Numbered(R, {"GELREF1"}, 1)
           F == Numbered(R, {"BNBCD"}, 2)
           flags(P, i) == IF Len(P[i].numbers) >= 8 THEN 3..8 ELSE 2..7
<1>1. Numbered(Q, {"GELREF1"}, 1) = S /\ Same(R, Q, S)
  BY NumericNames, CopyNumbered
<1>2. Numbered(Q, {"BNBCD"}, 2) = F /\ Same(R, Q, F)
  BY NumericNames, CopyNumbered
<1> HIDE DEF S, F
<1>3. ASSUME NEW i \in S
      PROVE  BadAt(Q, {i}, {2, 12} \union SectionPlaces(Q[i])) = BadAt(R, {i}, {2, 12} \union SectionPlaces(R[i]))
  <2>1. Q[i].numbers = R[i].numbers
    BY <1>1 DEF Same
  <2>2. SectionPlaces(Q[i]) = SectionPlaces(R[i])
    BY <2>1 DEF SectionPlaces
  <2>3. QED
    BY <2>1, <2>2 DEF BadAt
<1>4. ASSUME NEW i \in F PROVE BadAt(Q, {i}, flags(Q, i)) = BadAt(R, {i}, flags(R, i))
  <2>1. Q[i].numbers = R[i].numbers
    BY <1>2 DEF Same
  <2>2. flags(Q, i) = flags(R, i)
    BY <2>1
  <2> HIDE DEF flags
  <2>3. QED
    BY <2>1, <2>2 DEF BadAt
<1>5. {BadAt(Q, {i}, {2, 12} \union SectionPlaces(Q[i])) : i \in S}
        = {BadAt(R, {i}, {2, 12} \union SectionPlaces(R[i])) : i \in S}
  BY <1>3
<1>6. {BadAt(Q, {i}, flags(Q, i)) : i \in F} = {BadAt(R, {i}, flags(R, i)) : i \in F}
  <2> HIDE DEF flags
  <2>1. QED
    BY <1>4
<1>7. QED
  BY <1>1, <1>2, <1>5, <1>6 DEF BadReferences, BadFlags, S, F

(* The first two numbers of any record. *)
LEMMA HeadsFraction ==
    ASSUME NEW old \in Seq(Numbers), NEW new \in Seq(Numbers), Heads(old, new),
           NEW k \in {1, 2}, k <= Len(new), new[k] = Fraction
    PROVE  \/ k <= Len(old) /\ old[k] = Fraction
           \/ Len(old) = 1 /\ old[1] = Fraction
<1>1. Len(old) \in Nat /\ Len(new) \in Nat /\ DOMAIN new = 1..Len(new)
  OBVIOUS
<1>2. CASE k <= Len(old)
  BY <1>2 DEF Heads
<1>3. CASE ~(k <= Len(old))
  <2>1. Len(old) < 2 /\ k \in DOMAIN new
    BY <1>1, <1>3
  <2>2. QED
    BY <2>1 DEF Heads
<1>4. QED
  BY <1>2, <1>3

LEMMA CopyHeads ==
    ASSUME NEW R, NEW Q, CopyOf(R, Q), DOMAIN Q = DOMAIN R,
           \A k \in DOMAIN R : R[k] \in Records, \A k \in DOMAIN Q : Q[k] \in Records
    PROVE  /\ BadIds(Q, {"TDMATER"}, 1) \subseteq BadIds(R, {"TDMATER"}, 1)
           /\ BadSectionNames(Q) \subseteq BadSectionNames(R)
           /\ ConceptRefusals(Q) \subseteq ConceptRefusals(R)
           /\ LoadRefusals(Q) \subseteq LoadRefusals(R)
<1>1. ASSUME NEW i \in DOMAIN R
      PROVE  /\ Q[i].name = R[i].name /\ Heads(R[i].numbers, Q[i].numbers)
             /\ R[i].numbers \in Seq(Numbers) /\ Q[i].numbers \in Seq(Numbers)
             /\ Len(R[i].numbers) \in Nat /\ Len(Q[i].numbers) \in Nat
             /\ DOMAIN Q[i].numbers = 1..Len(Q[i].numbers)
  <2>1. R[i].numbers \in Seq(Numbers) /\ Q[i].numbers \in Seq(Numbers)
    BY DEF Records
  <2>2. QED
    BY <2>1 DEF CopyOf
<1>2. \A names : Named(Q, names) = Named(R, names) /\ Named(R, names) \subseteq DOMAIN R
  BY <1>1 DEF Named
<1>3. ASSUME NEW i \in DOMAIN R, NEW k \in {1, 2}, k <= Len(Q[i].numbers), Q[i].numbers[k] = Fraction
      PROVE  \/ k <= Len(R[i].numbers) /\ R[i].numbers[k] = Fraction
             \/ Len(R[i].numbers) = 1 /\ R[i].numbers[1] = Fraction
  BY <1>1, <1>3, HeadsFraction
<1>4. BadIds(Q, {"TDMATER"}, 1) \subseteq BadIds(R, {"TDMATER"}, 1)
  <2>1. ASSUME NEW i \in Named(R, {"TDMATER"}), Len(Q[i].numbers) >= 1, Id(Q, i) = Fraction
        PROVE  Len(R[i].numbers) >= 1 /\ Id(R, i) = Fraction
    <3>1. i \in DOMAIN R /\ 1 <= Len(Q[i].numbers) /\ Q[i].numbers[1] = Fraction
      BY <1>1, <1>2, <2>1 DEF Id
    <3>2. \/ 1 <= Len(R[i].numbers) /\ R[i].numbers[1] = Fraction
          \/ Len(R[i].numbers) = 1 /\ R[i].numbers[1] = Fraction
      BY <1>3, <3>1
    <3>3. QED
      BY <1>1, <3>1, <3>2 DEF Id
  <2>2. QED
    BY <1>2, <2>1 DEF BadIds
<1>5. ASSUME NEW places \in {{1}, {1, 2}}, NEW S \in SUBSET DOMAIN R
      PROVE  BadAt(Q, S, places) \subseteq BadAt(R, S, places)
  <2>1. ASSUME NEW i \in S, NEW k \in places, k <= Len(Q[i].numbers), Q[i].numbers[k] = Fraction
        PROVE  \E l \in places : l <= Len(R[i].numbers) /\ R[i].numbers[l] = Fraction
    <3>1. k \in {1, 2} /\ i \in DOMAIN R /\ 1 \in places
      OBVIOUS
    <3>2. \/ k <= Len(R[i].numbers) /\ R[i].numbers[k] = Fraction
          \/ Len(R[i].numbers) = 1 /\ R[i].numbers[1] = Fraction
      BY <1>3, <2>1, <3>1
    <3>3. QED
      BY <3>1, <3>2
  <2>2. QED
    BY <2>1 DEF BadAt
<1>6. ConceptRefusals(Q) \subseteq ConceptRefusals(R)
  BY <1>2, <1>5 DEF ConceptRefusals
<1>7. LoadRefusals(Q) \subseteq LoadRefusals(R)
  BY <1>2, <1>5 DEF LoadRefusals
<1> DEFINE place(P, i) == IF Len(P[i].numbers) > 1 /\ Id(P, i) = 4 THEN {2} ELSE {1}
<1>8. ASSUME NEW i \in Named(R, {"TDSECT"})
      PROVE  BadAt(Q, {i}, place(Q, i)) \subseteq BadAt(R, {i}, place(R, i))
  <2> DEFINE old == R[i].numbers
             new == Q[i].numbers
  <2>1. i \in DOMAIN R /\ old \in Seq(Numbers) /\ new \in Seq(Numbers) /\ Heads(old, new)
    BY <1>1, <1>2
  <2>2. Len(old) \in Nat /\ Len(new) \in Nat /\ DOMAIN new = 1..Len(new)
    BY <2>1
  <2>3. place(Q, i) = (IF Len(new) > 1 /\ new[1] = 4 THEN {2} ELSE {1})
        /\ place(R, i) = (IF Len(old) > 1 /\ old[1] = 4 THEN {2} ELSE {1})
    BY DEF Id
  <2>4. \A k : k \in {1, 2} /\ k <= Len(new) /\ new[k] = Fraction =>
               \/ k <= Len(old) /\ old[k] = Fraction
               \/ Len(old) = 1 /\ old[1] = Fraction
    BY <1>3, <2>1
  <2> HIDE DEF place, old, new
  <2>5. ASSUME NEW k \in place(Q, i), k <= Len(new), new[k] = Fraction
        PROVE  \E l \in place(R, i) : l <= Len(old) /\ old[l] = Fraction
    <3>1. k \in {1, 2}
      BY <2>3
    <3>2. CASE Len(old) = 1 /\ old[1] = Fraction
      <4>1. 1 \in place(R, i)
        BY <2>3, <3>2
      <4>2. QED
        BY <3>2, <4>1
    <3>3. CASE k <= Len(old) /\ old[k] = Fraction /\ Len(old) # 1
      <4>1. Len(old) > 1 /\ new[1] = old[1] /\ Len(new) > 1
        BY <2>1, <2>2, <3>1, <3>3 DEF Heads
      <4>2. place(R, i) = place(Q, i)
        BY <2>3, <4>1
      <4>3. QED
        BY <3>3, <4>2
    <3>4. QED
      BY <2>4, <2>5, <3>1, <3>2, <3>3
  <2>6. QED
    BY <2>5 DEF BadAt, old, new
<1>9. BadSectionNames(Q) \subseteq BadSectionNames(R)
  <2> DEFINE N == Named(R, {"TDSECT"})
  <2>1. BadSectionNames(R) = UNION {BadAt(R, {i}, place(R, i)) : i \in N}
    BY DEF BadSectionNames
  <2>2. BadSectionNames(Q) = UNION {BadAt(Q, {i}, place(Q, i)) : i \in N}
    BY <1>2 DEF BadSectionNames
  <2> HIDE DEF place, N
  <2>3. \A i \in N : BadAt(Q, {i}, place(Q, i)) \subseteq BadAt(R, {i}, place(R, i))
    BY <1>8 DEF N
  <2>4. QED
    BY <2>1, <2>2, <2>3
<1>10. QED
  BY <1>4, <1>6, <1>7, <1>9

(* What is told of a copy was told of the document. *)
LEMMA CopyDiagnostics ==
    ASSUME NEW R, NEW Q, CopyOf(R, Q), DOMAIN Q = DOMAIN R,
           \A k \in DOMAIN R : R[k] \in Records, \A k \in DOMAIN Q : Q[k] \in Records
    PROVE  ParseDiagnostics(Q) \subseteq ParseDiagnostics(R)
<1>1. \A names \in SUBSET Numeric : \A least :
         /\ TooShort(Q, names, least) = TooShort(R, names, least)
         /\ BadIds(Q, names, least) = BadIds(R, names, least)
         /\ Refusals(Q, names, least) = Refusals(R, names, least)
  BY CopyRefusals
<1>2. /\ Refusals(Q, {"MISOSEL"}, 1) = Refusals(R, {"MISOSEL"}, 1)
      /\ Refusals(Q, {"GELTH", "GBEAMG"}, 1) = Refusals(R, {"GELTH", "GBEAMG"}, 1)
      /\ BadIds(Q, Dimensions, 1) = BadIds(R, Dimensions, 1)
  BY <1>1, NumericNames
<1>3. CoordinateRefusals(Q) = CoordinateRefusals(R) /\ TransformRefusals(Q) = TransformRefusals(R)
  BY <1>1, NumericNames DEF CoordinateRefusals, TransformRefusals
<1>4. /\ TooShort(Q, {"GNODE"}, 4) = TooShort(R, {"GNODE"}, 4)
      /\ BadIds(Q, {"GNODE"}, 4) = BadIds(R, {"GNODE"}, 4)
      /\ TooShort(Q, {"GELREF1"}, 1) = TooShort(R, {"GELREF1"}, 1)
      /\ BadIds(Q, {"GELREF1"}, 1) = BadIds(R, {"GELREF1"}, 1)
      /\ TooShort(Q, {"BNBCD"}, 2) = TooShort(R, {"BNBCD"}, 2)
      /\ BadIds(Q, {"BNBCD"}, 2) = BadIds(R, {"BNBCD"}, 2)
  BY <1>1, NumericNames
<1>5. {Warning("FEM110", i) : i \in {j \in DOMAIN Q : Q[j].name \notin Known}}
        = {Warning("FEM110", i) : i \in {j \in DOMAIN R : R[j].name \notin Known}}
  <2>1. {j \in DOMAIN Q : Q[j].name \notin Known} = {j \in DOMAIN R : R[j].name \notin Known}
    BY DEF CopyOf
  <2>2. QED
    BY <2>1
<1>6. /\ BadIds(Q, {"TDMATER"}, 1) \subseteq BadIds(R, {"TDMATER"}, 1)
      /\ BadSectionNames(Q) \subseteq BadSectionNames(R)
      /\ ConceptRefusals(Q) \subseteq ConceptRefusals(R)
      /\ LoadRefusals(Q) \subseteq LoadRefusals(R)
  BY CopyHeads
<1>7. /\ BadSystems(Q) = BadSystems(R) /\ BadReferences(Q) = BadReferences(R)
      /\ BadFlags(Q) = BadFlags(R) /\ ElementRefusals(Q) = ElementRefusals(R)
  BY CopyBadSystems, CopyBadReferences, CopyElementRefusals
<1>8. QED
  BY <1>2, <1>3, <1>4, <1>5, <1>6, <1>7 DEF ParseDiagnostics

LEMMA CopyValidate ==
    ASSUME NEW R, IsSeq(R), NEW Q, IsSeq(Q), CopyOf(R, Q), DOMAIN Q = DOMAIN R, R # <<>>, Q # <<>>,
           \A k \in DOMAIN R : R[k] \in Records, \A k \in DOMAIN Q : Q[k] \in Records
    PROVE  Validate(Q) = Validate(R)
<1>1. /\ DOMAIN R = 1..Len(R) /\ Len(R) \in Nat /\ DOMAIN Q = 1..Len(Q) /\ Len(Q) \in Nat
      /\ Len(R) # 0 /\ Len(Q) # 0
  BY DEF IsSeq
<1>2. Len(Q) = Len(R)
  <2>1. Len(Q) \in 1..Len(R) /\ Len(R) \in 1..Len(Q)
    BY <1>1
  <2>2. QED
    BY <1>1, <2>1
<1>3. Last(Q).name = Last(R).name
  BY <1>1, <1>2 DEF Last, CopyOf
<1>4. Ids(Q, Nodes(Q)) = Ids(R, Nodes(R)) /\ Ids(Q, Materials(Q)) = Ids(R, Materials(R))
      /\ SectionIds(Q) = SectionIds(R) /\ Elements(Q) = Elements(R)
  BY CopyNodes, CopyTables, CopyElements
<1>5. \A e : ElementTold(Q, e) = ElementTold(R, e)
  BY <1>4 DEF ElementTold
<1>6. \A i \in Elements(R) : Element(Q, i) = Element(R, i)
  BY CopyElement
<1>7. {ElementTold(Q, Element(Q, i)) : i \in Elements(Q)}
        = {ElementTold(R, Element(R, i)) : i \in Elements(R)}
  BY <1>4, <1>5, <1>6
<1>8. Named(Q, Unsupported) = Named(R, Unsupported)
  BY DEF Named, CopyOf
<1>9. QED
  BY <1>3, <1>7, <1>8 DEF Validate

LEMMA CopyAccepted ==
    ASSUME NEW R, IsSeq(R), NEW Q, IsSeq(Q), CopyOf(R, Q), R # <<>>, Q # <<>>, DOMAIN Q = DOMAIN R,
           \A k \in DOMAIN R : R[k] \in Records, \A k \in DOMAIN Q : Q[k] \in Records,
           ~HasErrors(ParseDiagnostics(R) \union Validate(R))
    PROVE  ~HasErrors(ParseDiagnostics(Q) \union Validate(Q))
<1>1. ParseDiagnostics(Q) \subseteq ParseDiagnostics(R)
  BY CopyDiagnostics
<1>2. Validate(Q) = Validate(R)
  BY CopyValidate
<1>3. QED
  BY <1>1, <1>2 DEF HasErrors

----------------------------------------------------------------------------
(* A document that is written and read again. *)

LinesOf(r, mode) == IF mode = "raw" THEN r.lines ELSE CanonicalLines(r)
Parts(R, mode) == [i \in DOMAIN R |-> LinesOf(R[i], mode)]

(* The lines of each record that are written. *)
Groups(R, mode) ==
    IF \E i \in DOMAIN R : R[i].name = "IEND" THEN Parts(R, mode)
    ELSE Append(Parts(R, mode), <<EndRecord>>)

(* Where they end in what is written. *)
Ends(R, mode) == CHOOSE e : Split(Rewritten(R, mode), Groups(R, mode), e)

LEMMA PartsAre ==
    ASSUME NEW R \in Seq(Records), \A i \in DOMAIN R : Made(R[i]), NEW mode
    PROVE  /\ Parts(R, mode) \in Seq(Seq(Lines)) /\ Len(Parts(R, mode)) = Len(R)
           /\ \A i \in DOMAIN R : /\ Parts(R, mode)[i] = LinesOf(R[i], mode)
                                  /\ Group(LinesOf(R[i], mode))
           /\ Rewritten(R, mode) = FlattenSeq(Parts(R, mode))
                 \o (IF \E i \in DOMAIN R : R[i].name = "IEND" THEN <<>> ELSE <<EndRecord>>)
<1> DEFINE P == Parts(R, mode)
<1>1. DOMAIN R = 1..Len(R) /\ Len(R) \in Nat
  OBVIOUS
<1>2. DOMAIN P = DOMAIN R /\ \A i \in DOMAIN R : P[i] = LinesOf(R[i], mode)
  BY DEF Parts
<1>3. ASSUME NEW i \in DOMAIN R PROVE Group(LinesOf(R[i], mode)) /\ LinesOf(R[i], mode) \in Seq(Lines)
  <2>1. Made(R[i]) /\ Group(R[i].lines) /\ Group(CanonicalLines(R[i]))
    BY CanonicalGroup DEF Made
  <2>2. QED
    BY <2>1 DEF LinesOf, Group
<1>4. Rewritten(R, mode) = FlattenSeq(P)
        \o (IF \E i \in DOMAIN R : R[i].name = "IEND" THEN <<>> ELSE <<EndRecord>>)
  BY DEF Rewritten, Parts, LinesOf
<1> HIDE DEF P
<1>5. P \in Seq(Seq(Lines))
  <2> DEFINE line(i) == LinesOf(R[i], mode)
  <2>1. P = [i \in 1..Len(R) |-> line(i)]
    BY <1>1 DEF P, Parts
  <2>2. \A i \in 1..Len(R) : line(i) \in Seq(Lines)
    BY <1>1, <1>3
  <2> HIDE DEF line
  <2>3. QED
    BY <1>1, <2>1, <2>2, IsASeq
<1>6. Len(P) = Len(R)
  BY <1>1, <1>2, <1>5
<1>7. QED
  BY <1>2, <1>3, <1>4, <1>5, <1>6 DEF P

LEMMA GroupsAre ==
    ASSUME NEW R \in Seq(Records), \A i \in DOMAIN R : Made(R[i]), NEW mode
    PROVE  /\ Groups(R, mode) \in Seq(Seq(Lines))
           /\ Len(Groups(R, mode)) # 0 /\ Len(R) <= Len(Groups(R, mode))
           /\ \A i \in 1..Len(Groups(R, mode)) : Group(Groups(R, mode)[i])
           /\ \A i \in DOMAIN R : Groups(R, mode)[i] = LinesOf(R[i], mode)
           /\ \A i \in 1..Len(Groups(R, mode)) : i \notin DOMAIN R => Groups(R, mode)[i] = <<EndRecord>>
           /\ (\E i \in DOMAIN R : R[i].name = "IEND") => Len(Groups(R, mode)) = Len(R)
           /\ Split(Rewritten(R, mode), Groups(R, mode), Ends(R, mode))
<1> DEFINE P == Parts(R, mode)
           G == Groups(R, mode)
           w == FlattenSeq(P)
           t == Rewritten(R, mode)
           ended == \E i \in DOMAIN R : R[i].name = "IEND"
<1>1. /\ P \in Seq(Seq(Lines)) /\ Len(P) = Len(R)
      /\ \A i \in DOMAIN R : P[i] = LinesOf(R[i], mode) /\ Group(LinesOf(R[i], mode))
      /\ t = w \o (IF ended THEN <<>> ELSE <<EndRecord>>)
  BY PartsAre
<1>2. DOMAIN R = 1..Len(R) /\ Len(R) \in Nat
  OBVIOUS
<1>3. G = IF ended THEN P ELSE Append(P, <<EndRecord>>)
  BY DEF Groups
<1>4. Ends(R, mode) = CHOOSE e : Split(t, G, e)
  BY DEF Ends
<1> HIDE DEF P, G, t
<1>5. w \in Seq(Lines)
  BY <1>1, FlattenIsSeq
<1>6. PICK d : Split(w, P, d)
  BY <1>1, FlattenSplits
<1> HIDE DEF w
<1>7. <<EndRecord>> \in Seq(Lines) /\ Group(<<EndRecord>>)
  <2>1. "IEND" \in Names /\ <<>> \in Seq(Numbers) /\ <<>> \in Seq(Pieces)
    BY DEF Names
  <2>2. EndRecord \in Lines /\ EndRecord.name = "IEND"
    BY <2>1 DEF EndRecord, Lines
  <2>3. /\ <<EndRecord>> \in Seq(Lines) /\ Len(<<EndRecord>>) = 1 /\ <<EndRecord>>[1] = EndRecord
        /\ <<EndRecord>> # <<>>
    BY <2>2
  <2>4. QED
    BY <2>2, <2>3 DEF Group
<1>8. CASE ended
  <2>1. G = P /\ t = w
    BY <1>1, <1>3, <1>5, <1>8
  <2>2. Len(R) # 0
    BY <1>2, <1>8
  <2>3. Split(t, G, Ends(R, mode))
    BY <1>4, <1>6, <2>1
  <2>4. /\ G \in Seq(Seq(Lines)) /\ Len(G) = Len(R)
        /\ \A i \in DOMAIN R : G[i] = LinesOf(R[i], mode) /\ Group(G[i])
    BY <1>1, <2>1
  <2>5. Len(G) # 0 /\ Len(R) <= Len(G) /\ \A i \in 1..Len(G) : i \in DOMAIN R
    BY <1>2, <2>2, <2>4
  <2>6. QED
    BY <2>3, <2>4, <2>5 DEF G, t
<1>9. CASE ~ended
  <2>1. G = Append(P, <<EndRecord>>) /\ t = w \o <<EndRecord>>
    BY <1>1, <1>3, <1>9
  <2>2. /\ G \in Seq(Seq(Lines)) /\ Len(G) = Len(R) + 1 /\ G[Len(R) + 1] = <<EndRecord>>
        /\ \A i \in 1..Len(R) : G[i] = P[i]
    BY <1>1, <1>7, <2>1, AppendProperties
  <2>3. \E e : Split(t, G, e)
    BY <1>1, <1>5, <1>6, <1>7, <2>1, SplitAppend
  <2>4. Split(t, G, Ends(R, mode))
    BY <1>4, <2>3
  <2>5. ASSUME NEW i \in 1..Len(G)
        PROVE  Group(G[i]) /\ (i \notin DOMAIN R => G[i] = <<EndRecord>>)
    <3>1. i \in 1..Len(R) \/ i = Len(R) + 1
      BY <1>2, <2>2
    <3>2. QED
      BY <1>1, <1>2, <1>7, <2>2, <3>1
  <2>6. \A i \in DOMAIN R : G[i] = LinesOf(R[i], mode)
    BY <1>1, <1>2, <2>2
  <2>7. Len(G) # 0 /\ Len(R) <= Len(G)
    BY <1>2, <2>2
  <2>8. QED
    BY <1>9, <2>2, <2>4, <2>5, <2>6, <2>7 DEF G, t
<1>10. QED
  BY <1>8, <1>9

(* All of what was written is read again. *)
Reads(Q, G) ==
    /\ DOMAIN Q = 1..Len(G)
    /\ \A i \in DOMAIN Q : Q[i].start \in Nat \ {0} /\ Q[i] = RecordFromLines(Q[i].start, G[i])

LEMMA RawReread ==
    ASSUME NEW r, Made(r), NEW start \in Nat \ {0}
    PROVE  LET q == RecordFromLines(start, r.lines)
           IN  q.name = r.name /\ q.numbers = r.numbers /\ Heads(r.numbers, q.numbers)
<1> DEFINE q == RecordFromLines(start, r.lines)
<1>1. r = RecordFromLines(r.start, r.lines) /\ r \in Records
  BY DEF Made
<1>2. RecordFromLines(r.start, r.lines).name = r.lines[1].name
      /\ RecordFromLines(r.start, r.lines).numbers = FlattenSeq([k \in DOMAIN r.lines |-> NumbersOf(r.lines[k])])
  BY DEF RecordFromLines
<1>3. q.name = r.lines[1].name /\ q.numbers = FlattenSeq([k \in DOMAIN r.lines |-> NumbersOf(r.lines[k])])
  BY DEF RecordFromLines
<1>4. q.name = r.name /\ q.numbers = r.numbers
  BY <1>1, <1>2, <1>3
<1> HIDE DEF q
<1>5. r.numbers \in Seq(Numbers)
  BY <1>1 DEF Records
<1>6. Len(r.numbers) \in Nat /\ DOMAIN r.numbers = 1..Len(r.numbers)
  BY <1>5
<1>7. Heads(r.numbers, r.numbers)
  <2> DEFINE N == r.numbers
  <2> HIDE DEF N
  <2>1. Len(N) \in Nat /\ DOMAIN N = 1..Len(N)
    BY <1>6 DEF N
  <2>2. Len(N) < 2 => \A k \in DOMAIN N : Len(N) = 1 /\ k = 1
    BY <2>1
  <2>3. Heads(N, N)
    BY <2>2 DEF Heads
  <2>4. QED
    BY <2>3 DEF N
<1>8. QED
  BY <1>4, <1>7 DEF q

LEMMA ReadsCopy ==
    ASSUME NEW R \in Seq(Records), \A i \in DOMAIN R : Made(R[i]),
           NEW mode, Plain(R, mode), NEW Q, Reads(Q, Groups(R, mode))
    PROVE  CopyOf(R, Q) /\ ((\E i \in DOMAIN R : R[i].name = "IEND") => DOMAIN Q = DOMAIN R)
<1> DEFINE G == Groups(R, mode)
<1>1. /\ G \in Seq(Seq(Lines)) /\ Len(R) <= Len(G)
      /\ \A i \in DOMAIN R : G[i] = LinesOf(R[i], mode)
      /\ \A i \in 1..Len(G) : i \notin DOMAIN R => G[i] = <<EndRecord>>
      /\ (\E i \in DOMAIN R : R[i].name = "IEND") => Len(G) = Len(R)
  BY GroupsAre
<1>2. DOMAIN R = 1..Len(R) /\ Len(R) \in Nat
  OBVIOUS
<1>3. /\ DOMAIN Q = 1..Len(G)
      /\ \A i \in DOMAIN Q : Q[i].start \in Nat \ {0} /\ Q[i] = RecordFromLines(Q[i].start, G[i])
  BY DEF Reads
<1> HIDE DEF G
<1>4. DOMAIN R \subseteq DOMAIN Q
  <2>1. Len(G) \in Nat
    BY <1>1
  <2>2. QED
    BY <1>1, <1>2, <1>3, <2>1
<1>5. ASSUME NEW i \in DOMAIN R
      PROVE  /\ Q[i].name = R[i].name
             /\ R[i].name \in Numeric => Q[i].numbers = R[i].numbers
             /\ Heads(R[i].numbers, Q[i].numbers)
  <2>1. Made(R[i]) /\ Q[i].start \in Nat \ {0} /\ Q[i] = RecordFromLines(Q[i].start, LinesOf(R[i], mode))
    BY <1>1, <1>3, <1>4
  <2>2. CASE mode = "raw"
    <3>1. Q[i] = RecordFromLines(Q[i].start, R[i].lines)
      BY <2>1, <2>2 DEF LinesOf
    <3>2. QED
      BY <2>1, <3>1, RawReread
  <2>3. CASE mode # "raw"
    <3>1. Q[i] = RecordFromLines(Q[i].start, CanonicalLines(R[i]))
      BY <2>1, <2>3 DEF LinesOf
    <3>2. R[i].name \in Numeric => PlainText(R[i])
      BY <2>3 DEF Plain
    <3>3. QED
      BY <2>1, <3>1, <3>2, Reread
  <2>4. QED
    BY <2>2, <2>3
<1>6. ASSUME NEW i \in DOMAIN Q \ DOMAIN R PROVE Q[i].name = "IEND"
  <2>1. Q[i] = RecordFromLines(Q[i].start, <<EndRecord>>)
    BY <1>1, <1>3
  <2>2. RecordFromLines(Q[i].start, <<EndRecord>>).name = "IEND"
    BY DEF RecordFromLines, EndRecord
  <2>3. QED
    BY <2>1, <2>2
<1>7. QED
  BY <1>1, <1>2, <1>3, <1>4, <1>5, <1>6 DEF CopyOf

(* Every record is made of its lines, and what was written is what was      *)
(* returned; strict reading had nothing to say of that.                     *)
MadeInv ==
    /\ \A i \in DOMAIN records : Made(records[i])
    /\ current.lines # <<>> => Group(current.lines)
    /\ Again => /\ original.mode \in {"canonical", "raw"}
                /\ original.records \in Seq(Records)
                /\ \A i \in DOMAIN original.records : Made(original.records[i])
                /\ text = Rewritten(original.records, original.mode)
                /\ strict => ~HasErrors(ParseDiagnostics(original.records)
                                        \union Validate(original.records))

LEMMA MadeInit == Init => MadeInv
BY DEF Init, MadeInv, Again, Nothing, NoRecord

LEMMA FlushedMade ==
    ASSUME ReaderInv, MadeInv
    PROVE  \A i \in DOMAIN Flushed : Made(Flushed[i])
<1>1. CASE current.lines = <<>>
  BY <1>1 DEF Flushed, MadeInv
<1>2. CASE current.lines # <<>>
  <2> DEFINE r == RecordFromLines(current.start, current.lines)
  <2>1. current.start \in Nat \ {0} /\ Group(current.lines)
    BY <1>2 DEF ReaderInv, MadeInv
  <2>2. Made(r)
    BY <2>1, MadeIs
  <2>3. records \in Seq(Records) /\ Flushed = Append(records, r)
    BY <1>2 DEF Flushed, ReaderInv
  <2>4. r \in Records
    BY <2>2 DEF Made
  <2> HIDE DEF r
  <2>5. /\ Flushed \in Seq(Records) /\ Len(Flushed) = Len(records) + 1
        /\ Flushed[Len(records) + 1] = r
        /\ \A i \in 1..Len(records) : Flushed[i] = records[i]
    BY <2>3, <2>4, AppendProperties
  <2>6. ASSUME NEW i \in DOMAIN Flushed PROVE Made(Flushed[i])
    <3>1. i \in 1..Len(records) \/ i = Len(records) + 1
      BY <2>3, <2>5
    <3>2. QED
      BY <2>2, <2>3, <2>5, <3>1 DEF MadeInv
  <2>7. QED
    BY <2>6
<1>3. QED
  BY <1>1, <1>2

(* A line that goes on with the record that is begun. *)
LEMMA GroupAppend ==
    ASSUME NEW g, Group(g), NEW line \in Lines, line.name = "more"
    PROVE  Group(Append(g, line))
<1> DEFINE h == Append(g, line)
<1>1. g \in Seq(Lines) /\ g # <<>> /\ Len(g) \in Nat /\ Len(g) # 0
  BY DEF Group
<1>2. /\ h \in Seq(Lines) /\ Len(h) = Len(g) + 1 /\ h[Len(g) + 1] = line
      /\ \A k \in 1..Len(g) : h[k] = g[k]
  BY <1>1, AppendProperties
<1> HIDE DEF h
<1>3. h # <<>> /\ h[1] = g[1]
  BY <1>1, <1>2
<1>4. ASSUME NEW m \in 2..Len(h) PROVE h[m].name = "more"
  <2>1. (m \in 2..Len(g) /\ m \in 1..Len(g)) \/ m = Len(g) + 1
    BY <1>1, <1>2
  <2>2. QED
    BY <1>2, <2>1 DEF Group
<1>5. QED
  BY <1>2, <1>3, <1>4 DEF Group, h

LEMMA MadeStep == ReaderInv /\ StrictInv /\ MadeInv /\ [Next]_vars => MadeInv'
<1> SUFFICES ASSUME ReaderInv, StrictInv, MadeInv, [Next]_vars PROVE MadeInv'
  OBVIOUS
<1> DEFINE Kept == UNCHANGED <<strict, text, original>>
           Good(R, c) == /\ \A i \in DOMAIN R : Made(R[i])
                         /\ c.lines # <<>> => Group(c.lines)
<1>1. ASSUME Kept, Good(records', current') PROVE MadeInv'
  BY <1>1 DEF MadeInv, Again
<1>2. Good(records, current)
  BY DEF MadeInv
<1>3. ASSUME NEW line \in Upcoming, ReadLine(line) PROVE MadeInv'
  <2>1. line \in Lines /\ Kept
    BY <1>3, UpcomingIs DEF ReadLine
  <2>2. CASE line.name = "blank" \/ (line.name = "more" /\ current.lines = <<>>)
    <3>1. current' = current /\ records' = records
      BY <1>3, <2>2 DEF ReadLine
    <3>2. QED
      BY <1>1, <1>2, <2>1, <3>1
  <2>3. CASE line.name = "more" /\ current.lines # <<>>
    <3>1. current' = [current EXCEPT !.lines = Append(current.lines, line)] /\ records' = records
      BY <1>3, <2>3 DEF ReadLine
    <3>2. current'.lines = Append(current.lines, line)
      BY <3>1 DEF ReaderInv
    <3>3. Group(current'.lines)
      BY <2>1, <2>3, <3>2, GroupAppend DEF MadeInv
    <3>4. QED
      BY <1>1, <1>2, <2>1, <3>1, <3>3
  <2>4. CASE line.name \notin {"blank", "more"}
    <3>1. current' = [start |-> Len(file) + 1, lines |-> <<line>>] /\ records' = Flushed
      BY <1>3, <2>4 DEF ReadLine
    <3>2. <<line>> \in Seq(Lines) /\ <<line>> # <<>> /\ <<line>>[1] = line /\ Len(<<line>>) = 1
      BY <2>1
    <3>3. Group(<<line>>) /\ current'.lines = <<line>>
      BY <2>4, <3>1, <3>2 DEF Group
    <3>4. \A i \in DOMAIN records' : Made(records'[i])
      BY <3>1, FlushedMade
    <3>5. QED
      BY <1>1, <2>1, <3>3, <3>4
  <2>5. QED
    BY <2>2, <2>3, <2>4
<1>4. CASE EndOfFile
  <2>1. Kept /\ records' = Flushed /\ current'.lines = <<>>
    BY <1>4 DEF EndOfFile, NoRecord
  <2>2. \A i \in DOMAIN records' : Made(records'[i])
    BY <2>1, FlushedMade
  <2>3. QED
    BY <1>1, <2>1, <2>2
<1>5. CASE Open \/ Parse \/ ValidateDocument \/ FailWrite \/ EndWrite \/ Replace
  <2>1. Kept /\ records' = records /\ current' = current
    BY <1>5 DEF Open, Parse, ValidateDocument, FailWrite, EndWrite, Replace
  <2>2. QED
    BY <1>1, <1>2, <2>1
<1>6. CASE ReadAgain
  <2>1. Kept /\ records' = <<>> /\ current' = current
    BY <1>6 DEF ReadAgain
  <2>2. DOMAIN records' = {}
    BY <2>1
  <2>3. Good(records', current')
    BY <1>2, <2>1, <2>2
  <2>4. QED
    BY <1>1, <2>1, <2>3
<1>7. ASSUME NEW mode \in {"canonical", "raw"}, NEW exists \in BOOLEAN, NEW overwrite \in BOOLEAN,
             BeginWrite(mode, exists, overwrite)
      PROVE  MadeInv'
  <2>1. UNCHANGED <<strict, current, records>> /\ pc = "returned"
    BY <1>7 DEF BeginWrite
  <2>2. CASE UNCHANGED <<original, text>>
    BY <1>1, <1>2, <2>1, <2>2
  <2>3. CASE original' = [records |-> records, mode |-> mode] /\ text' = Rewritten(records, mode)
    <3>1. original'.mode = mode /\ original'.records = records
      BY <2>3
    <3>2. records \in Seq(Records)
      BY DEF ReaderInv
    <3>3. strict => ~HasErrors(ParseDiagnostics(records) \union Validate(records))
      BY <2>1 DEF StrictInv
    <3>4. QED
      BY <1>2, <2>1, <2>3, <3>1, <3>2, <3>3 DEF MadeInv
  <2>4. QED
    BY <1>7, <2>2, <2>3 DEF BeginWrite
<1>8. CASE UNCHANGED vars
  <2>1. Kept /\ records' = records /\ current' = current
    BY <1>8 DEF vars
  <2>2. QED
    BY <1>1, <1>2, <2>1
<1>9. QED
  BY <1>3, <1>4, <1>5, <1>6, <1>7, <1>8 DEF Next

(* The lines t are cut into groups of one record each. *)
Cut(t, G, e) ==
    /\ G \in Seq(Seq(Lines)) /\ Len(G) # 0
    /\ \A i \in 1..Len(G) : Group(G[i])
    /\ Split(t, G, e)

(* The records R are those of the first groups. *)
ReadSo(R, G) == \A i \in DOMAIN R : R[i].start \in Nat \ {0} /\ R[i] = RecordFromLines(R[i].start, G[i])

(* The group after n others. *)
Follows(t, G, e, n, g) ==
    /\ g = G[n + 1] /\ g \in Seq(Lines) /\ Len(g) \in Nat \ {0} /\ Group(g)
    /\ e[n] \in Nat /\ e[n + 1] \in Nat /\ e[n + 1] = e[n] + Len(g) /\ e[n + 1] <= Len(t)
    /\ \A m \in 1..Len(g) : t[e[n] + m] = g[m]

(* After len lines of what the groups G make, the records R are read and    *)
(* the lines of the next one up to here.                                    *)
ReadTo(R, lines, len, G, e) ==
    /\ ReadSo(R, G)
    /\ Len(R) <= Len(G) /\ len = e[Len(R)] + Len(lines)
    /\ lines = <<>> => Len(R) = 0
    /\ lines # <<>> => /\ Len(R) < Len(G) /\ Len(lines) <= Len(G[Len(R) + 1])
                       /\ \A m \in 1..Len(lines) : lines[m] = G[Len(R) + 1][m]

LEMMA SplitAt ==
    ASSUME NEW t, NEW G, NEW e, Cut(t, G, e), NEW n \in Nat, n < Len(G)
    PROVE  Follows(t, G, e, n, G[n + 1])
<1> DEFINE g == G[n + 1]
<1>1. n + 1 \in 1..Len(G) /\ n + 1 - 1 = n
  BY DEF Cut
<1>2. Group(g)
  BY <1>1 DEF Cut
<1>3. g \in Seq(Lines) /\ g # <<>>
  BY <1>2 DEF Group
<1>4. /\ e[n + 1] \in Nat /\ e[n] \in Nat /\ e[n + 1] = e[n] + Len(g) /\ e[n + 1] <= Len(t)
      /\ \A m \in 1..Len(g) : t[e[n] + m] = g[m]
  BY <1>1 DEF Cut, Split
<1> HIDE DEF g
<1>5. Len(g) \in Nat \ {0}
  BY <1>3
<1>6. g = G[n + 1]
  BY DEF g
<1>7. Follows(t, G, e, n, g)
  BY <1>2, <1>3, <1>4, <1>5, <1>6 DEF Follows
<1>8. QED
  BY <1>7 DEF g

LEMMA BeginGroup ==
    ASSUME NEW t, NEW G, NEW e, Cut(t, G, e), NEW R \in Seq(Records), Len(R) < Len(G), ReadSo(R, G)
    PROVE  LET line == t[e[Len(R)] + 1]
           IN  line.name \notin {"blank", "more"} /\ ReadTo(R, <<line>>, e[Len(R)] + 1, G, e)
<1> DEFINE n == Len(R)
           line == t[e[n] + 1]
           g == G[n + 1]
<1>1. n \in Nat /\ n < Len(G)
  OBVIOUS
<1> HIDE DEF n
<1>2. Follows(t, G, e, n, g)
  BY <1>1, SplitAt
<1> HIDE DEF g
<1>3. /\ Len(g) \in Nat \ {0} /\ Group(g) /\ e[n] \in Nat /\ g = G[n + 1]
      /\ \A m \in 1..Len(g) : t[e[n] + m] = g[m]
  BY <1>2 DEF Follows
<1>4. line = g[1] /\ 1 <= Len(g)
  BY <1>3
<1> HIDE DEF line
<1>5. line.name \notin {"blank", "more"}
  BY <1>3, <1>4 DEF Group
<1>6. Len(<<line>>) = 1 /\ <<line>> # <<>> /\ \A m \in 1..1 : <<line>>[m] = g[m]
  BY <1>4
<1>7. Len(G) \in Nat
  BY DEF Cut
<1>8. ReadTo(R, <<line>>, e[n] + 1, G, e)
  BY <1>1, <1>3, <1>4, <1>6, <1>7 DEF ReadTo, n
<1>9. QED
  BY <1>5, <1>8 DEF n, line

LEMMA EndGroup ==
    ASSUME NEW t, NEW G, NEW e, Cut(t, G, e), NEW R \in Seq(Records), NEW lines \in Seq(Lines),
           lines # <<>>, NEW len, ReadTo(R, lines, len, G, e), Len(lines) = Len(G[Len(R) + 1]),
           NEW start \in Nat \ {0}
    PROVE  LET Q == Append(R, RecordFromLines(start, lines))
           IN  /\ Q \in Seq(Records) /\ Len(Q) = Len(R) + 1 /\ len = e[Len(R) + 1]
               /\ ReadSo(Q, G)
<1> DEFINE n == Len(R)
           g == G[n + 1]
           r == RecordFromLines(start, lines)
           Q == Append(R, r)
<1>1. n \in Nat /\ n < Len(G) /\ DOMAIN R = 1..n
  BY DEF ReadTo
<1>2. /\ g \in Seq(Lines) /\ Len(g) \in Nat \ {0} /\ Group(g)
      /\ e[n] \in Nat /\ e[n + 1] = e[n] + Len(g)
  <2>1. Follows(t, G, e, n, g)
    BY <1>1, SplitAt
  <2> HIDE DEF g
  <2>2. QED
    BY <2>1 DEF Follows
<1>3. len = e[n] + Len(lines) /\ Len(lines) = Len(g) /\ \A m \in 1..Len(lines) : lines[m] = g[m]
  BY DEF ReadTo
<1>4. \A i \in DOMAIN R : R[i].start \in Nat \ {0} /\ R[i] = RecordFromLines(R[i].start, G[i])
  BY DEF ReadTo, ReadSo
<1> HIDE DEF g, n
<1>5. lines = g
  BY <1>2, <1>3
<1>6. Made(r) /\ r.start = start
  BY <1>2, <1>5, MadeIs DEF RecordFromLines
<1>7. r = RecordFromLines(r.start, g) /\ r \in Records
  BY <1>5, <1>6 DEF Made
<1> HIDE DEF r
<1>8. /\ Q \in Seq(Records) /\ Len(Q) = n + 1 /\ Q[n + 1] = r /\ \A i \in 1..n : Q[i] = R[i]
  BY <1>7, AppendProperties DEF n
<1> HIDE DEF Q
<1>9. ASSUME NEW i \in DOMAIN Q
      PROVE  Q[i].start \in Nat \ {0} /\ Q[i] = RecordFromLines(Q[i].start, G[i])
  <2>1. i \in 1..n \/ i = n + 1
    BY <1>1, <1>8
  <2>2. CASE i \in 1..n
    BY <1>1, <1>4, <1>8, <2>2
  <2>3. CASE i = n + 1
    BY <1>6, <1>7, <1>8, <2>3 DEF g
  <2>4. QED
    BY <2>1, <2>2, <2>3
<1>10. len = e[n + 1]
  BY <1>2, <1>3
<1>11. QED
  BY <1>8, <1>9, <1>10 DEF ReadSo, Q, r, n

LEMMA NextLine ==
    ASSUME NEW t, NEW G, NEW e, Cut(t, G, e), NEW R \in Seq(Records), NEW lines \in Seq(Lines),
           NEW len \in Nat, ReadTo(R, lines, len, G, e), Len(t) \in Nat, len < Len(t),
           NEW start \in Nat \ {0}
    PROVE  LET line == t[len + 1]
           IN  \/ /\ lines # <<>> /\ line.name = "more"
                  /\ ReadTo(R, Append(lines, line), len + 1, G, e)
               \/ /\ lines = <<>> /\ line.name \notin {"blank", "more"}
                  /\ ReadTo(R, <<line>>, len + 1, G, e)
               \/ /\ lines # <<>> /\ line.name \notin {"blank", "more"}
                  /\ ReadTo(Append(R, RecordFromLines(start, lines)), <<line>>, len + 1, G, e)
<1> DEFINE n == Len(R)
           line == t[len + 1]
           g == G[n + 1]
<1>1. n \in Nat /\ Len(G) \in Nat /\ Len(lines) \in Nat /\ e[0] = 0 /\ e[Len(G)] = Len(t)
  BY DEF Cut, Split
<1>2. n <= Len(G) /\ len = e[n] + Len(lines) /\ ReadSo(R, G)
  BY DEF ReadTo
<1>3. CASE lines = <<>>
  <2>1. n = 0 /\ len = 0
    BY <1>1, <1>2, <1>3 DEF ReadTo
  <2>2. n < Len(G)
    BY <1>1, <2>1
  <2>3. len = e[n]
    BY <1>1, <2>1
  <2>4. line.name \notin {"blank", "more"} /\ ReadTo(R, <<line>>, len + 1, G, e)
    BY <1>2, <2>2, <2>3, BeginGroup
  <2>5. QED
    BY <1>3, <2>4
<1>4. CASE lines # <<>>
  <2>1. n < Len(G) /\ Len(lines) <= Len(g) /\ \A m \in 1..Len(lines) : lines[m] = g[m]
    BY <1>4 DEF ReadTo
  <2>2. /\ g \in Seq(Lines) /\ Len(g) \in Nat \ {0} /\ Group(g)
        /\ e[n] \in Nat /\ e[n + 1] \in Nat /\ e[n + 1] = e[n] + Len(g)
        /\ \A m \in 1..Len(g) : t[e[n] + m] = g[m]
    <3>1. Follows(t, G, e, n, g)
      BY <1>1, <2>1, SplitAt
    <3> HIDE DEF g
    <3>2. QED
      BY <3>1 DEF Follows
  <2>3. CASE Len(lines) < Len(g)
    <3> HIDE DEF g, n
    <3>1. len + 1 = e[n] + (Len(lines) + 1) /\ Len(lines) + 1 \in 1..Len(g) /\ Len(lines) # 0
      <4> DEFINE k == Len(lines)
                 size == Len(g)
                 base == e[n]
      <4>1. k # 0 /\ k \in Nat /\ size \in Nat /\ k < size /\ base \in Nat /\ len = base + k
        BY <1>1, <1>2, <1>4, <2>2, <2>3
      <4> HIDE DEF k, size, base
      <4>2. len + 1 = base + (k + 1) /\ k + 1 \in 1..size
        BY <4>1
      <4>3. QED
        BY <4>1, <4>2 DEF k, size, base
    <3>2. line = g[Len(lines) + 1]
      BY <2>2, <3>1
    <3>3. Len(lines) + 1 \in 2..Len(g) /\ line \in Lines
      BY <1>1, <2>2, <3>1, <3>2
    <3>4. line.name = "more"
      BY <2>2, <3>2, <3>3 DEF Group
    <3> DEFINE more == Append(lines, line)
    <3>5. /\ more \in Seq(Lines) /\ Len(more) = Len(lines) + 1 /\ more[Len(lines) + 1] = line
          /\ \A k \in 1..Len(lines) : more[k] = lines[k]
      <4> HIDE DEF line
      <4>1. QED
        BY <3>3, AppendProperties
    <3> HIDE DEF more, line
    <3>6. \A m \in 1..Len(more) : more[m] = g[m]
      <4>1. \A m \in 1..Len(more) : m \in 1..Len(lines) \/ m = Len(lines) + 1
        BY <1>1, <3>5
      <4>2. QED
        BY <2>1, <3>2, <3>5, <4>1
    <3>7. more # <<>> /\ Len(more) <= Len(g) /\ len + 1 = e[n] + Len(more)
      BY <1>1, <2>2, <2>3, <3>1, <3>5
    <3>8. ReadTo(R, more, len + 1, G, e)
      BY <1>2, <2>1, <3>6, <3>7 DEF ReadTo, n, g
    <3>9. QED
      BY <1>4, <3>4, <3>8 DEF line, more
  <2>4. CASE Len(lines) = Len(g)
    <3> DEFINE Q == Append(R, RecordFromLines(start, lines))
    <3>1. /\ Q \in Seq(Records) /\ Len(Q) = n + 1 /\ len = e[n + 1]
          /\ ReadSo(Q, G)
      BY <1>4, <2>4, EndGroup
    <3> HIDE DEF Q
    <3>2. n + 1 < Len(G)
      BY <1>1, <2>1, <3>1
    <3>3. line.name \notin {"blank", "more"} /\ ReadTo(Q, <<line>>, len + 1, G, e)
      BY <3>1, <3>2, BeginGroup
    <3>4. QED
      BY <1>4, <3>3 DEF Q
  <2>5. QED
    BY <1>1, <2>1, <2>2, <2>3, <2>4
<1>5. QED
  BY <1>3, <1>4

LEMMA LastLine ==
    ASSUME NEW t, NEW G, NEW e, Cut(t, G, e), NEW R \in Seq(Records), NEW lines \in Seq(Lines),
           NEW len \in Nat, ReadTo(R, lines, len, G, e), len = Len(t), NEW start \in Nat \ {0}
    PROVE  lines # <<>> /\ Reads(Append(R, RecordFromLines(start, lines)), G)
<1> DEFINE n == Len(R)
           g == G[n + 1]
           Q == Append(R, RecordFromLines(start, lines))
<1>1. n \in Nat /\ Len(G) \in Nat /\ Len(lines) \in Nat /\ e[0] = 0 /\ e[Len(G)] = Len(t) /\ Len(G) # 0
  BY DEF Cut, Split
<1>2. lines # <<>>
  <2> SUFFICES ASSUME lines = <<>> PROVE FALSE
    OBVIOUS
  <2>1. n = 0 /\ len = 0
    BY <1>1 DEF ReadTo
  <2>2. n < Len(G)
    BY <1>1, <2>1
  <2>3. Follows(t, G, e, n, g)
    BY <1>1, <2>2, SplitAt
  <2> HIDE DEF g, n
  <2>4. QED
    BY <1>1, <2>1, <2>3 DEF Follows
<1>3. n < Len(G) /\ Len(lines) <= Len(g) /\ len = e[n] + Len(lines)
  BY <1>2 DEF ReadTo
<1>4. /\ Len(g) \in Nat \ {0} /\ e[n] \in Nat /\ e[n + 1] \in Nat
      /\ e[n + 1] = e[n] + Len(g) /\ e[n + 1] <= Len(t)
  <2>1. Follows(t, G, e, n, g)
    BY <1>1, <1>3, SplitAt
  <2> HIDE DEF g, n
  <2>2. QED
    BY <2>1 DEF Follows
<1>5. Len(lines) = Len(g)
  BY <1>1, <1>3, <1>4
<1>6. /\ Q \in Seq(Records) /\ Len(Q) = n + 1 /\ len = e[n + 1]
      /\ ReadSo(Q, G)
  BY <1>2, <1>5, EndGroup
<1> HIDE DEF Q
<1>7. n + 1 = Len(G)
  <2> SUFFICES ASSUME n + 1 # Len(G) PROVE FALSE
    OBVIOUS
  <2> DEFINE k == n + 1
             h == G[k + 1]
  <2>1. k \in Nat /\ k < Len(G)
    BY <1>1, <1>3
  <2>2. len = e[k]
    BY <1>6
  <2> HIDE DEF k
  <2>3. Follows(t, G, e, k, h)
    BY <2>1, SplitAt
  <2> HIDE DEF h
  <2>4. QED
    BY <2>2, <2>3 DEF Follows
<1>8. DOMAIN Q = 1..Len(G)
  BY <1>6, <1>7
<1>9. QED
  BY <1>2, <1>6, <1>8 DEF Reads, ReadSo, Q

(* The lines that were written, record by record, and where each one ends.  *)
Written == Groups(original.records, original.mode)
Marks == Ends(original.records, original.mode)

(* What RewritingKeepsModel rests on: the second reading meets the records  *)
(* that were written, in their order, and no orphan; nothing replaces a     *)
(* destination but the one rename, and after it strict reading of numbers   *)
(* that can be found again does not fail.                                   *)
CopyInv ==
    /\ ~Again => destination = "old"
    /\ pc \in {"write", "publish", "written"} => Again
    /\ Again =>
          /\ pc \in {"write", "publish"} => destination = "old"
          /\ pc \in {"open", "lines", "parse", "validate", "returned"} => orphans = {}
          /\ pc = "open" => file = <<>> /\ records = <<>>
          /\ pc = "lines" => ReadTo(records, current.lines, Len(file), Written, Marks)
          /\ pc \in {"parse", "validate", "returned"} => Reads(records, Written)
          /\ pc = "ended" /\ strict /\ Plain(original.records, original.mode) => destination = "old"

LEMMA WrittenCut ==
    ASSUME MadeInv, Again
    PROVE  Cut(text, Written, Marks)
<1> DEFINE R == original.records
           mode == original.mode
<1>1. R \in Seq(Records) /\ (\A i \in DOMAIN R : Made(R[i])) /\ text = Rewritten(R, mode)
  BY DEF MadeInv
<1> HIDE DEF R, mode
<1>2. /\ Groups(R, mode) \in Seq(Seq(Lines)) /\ Len(Groups(R, mode)) # 0
      /\ \A i \in 1..Len(Groups(R, mode)) : Group(Groups(R, mode)[i])
      /\ Split(Rewritten(R, mode), Groups(R, mode), Ends(R, mode))
  BY <1>1, GroupsAre
<1>3. Written = Groups(R, mode) /\ Marks = Ends(R, mode)
  BY DEF Written, Marks, R, mode
<1>4. QED
  BY <1>1, <1>2, <1>3 DEF Cut

LEMMA CopyReadLine ==
    ASSUME ReaderInv, MadeInv, CopyInv, NEW line \in Upcoming, ReadLine(line)
    PROVE  CopyInv'
<1>1. /\ pc = "lines" /\ pc' = "lines" /\ file' = Append(file, line)
      /\ UNCHANGED <<strict, text, original, destination>>
  BY DEF ReadLine
<1>2. CASE ~Again
  BY <1>1, <1>2 DEF CopyInv, Again
<1>3. CASE Again
  <2> DEFINE G == Written
             e == Marks
             len == Len(file)
             start == IF current.start = 0 THEN 1 ELSE current.start
             lines == current.lines
  <2>1. Cut(text, G, e)
    BY <1>3, WrittenCut
  <2>2. /\ line = text[len + 1] /\ len < Len(text) /\ len \in Nat /\ Len(text) \in Nat
        /\ records \in Seq(Records) /\ lines \in Seq(Lines) /\ start \in Nat \ {0}
        /\ lines # <<>> => start = current.start
        /\ current \in [start : Nat, lines : Seq(Lines)]
    BY <1>3 DEF Upcoming, ReaderInv
  <2>3. ReadTo(records, lines, len, G, e) /\ orphans = {}
    BY <1>1, <1>3 DEF CopyInv
  <2>4. Len(file') = len + 1
    <3>1. file \in Seq(Lines) /\ line \in Lines
      BY UpcomingIs DEF ReaderInv
    <3>2. QED
      BY <1>1, <3>1, AppendProperties
  <2>5. Again' /\ G = Written' /\ e = Marks'
    BY <1>1, <1>3 DEF Again, Written, Marks
  <2> HIDE DEF G, e, len, lines, start
  <2>6. \/ lines # <<>> /\ line.name = "more" /\ ReadTo(records, Append(lines, line), len + 1, G, e)
        \/ /\ lines = <<>> /\ line.name \notin {"blank", "more"}
           /\ ReadTo(records, <<line>>, len + 1, G, e)
        \/ /\ lines # <<>> /\ line.name \notin {"blank", "more"}
           /\ ReadTo(Append(records, RecordFromLines(start, lines)), <<line>>, len + 1, G, e)
    BY <2>1, <2>2, <2>3, NextLine
  <2>7. ReadTo(records', current'.lines, len + 1, G, e) /\ orphans' = {}
    <3>1. CASE lines # <<>> /\ line.name = "more" /\ ReadTo(records, Append(lines, line), len + 1, G, e)
      <4>1. /\ current' = [current EXCEPT !.lines = Append(lines, line)]
            /\ records' = records /\ orphans' = orphans
        BY <3>1 DEF ReadLine, lines
      <4>2. current'.lines = Append(lines, line)
        BY <2>2, <4>1
      <4>3. QED
        BY <2>3, <3>1, <4>1, <4>2
    <3>2. CASE /\ lines = <<>> /\ line.name \notin {"blank", "more"}
               /\ ReadTo(records, <<line>>, len + 1, G, e)
      <4>1. /\ current' = [start |-> Len(file) + 1, lines |-> <<line>>]
            /\ records' = Flushed /\ orphans' = orphans
        BY <3>2 DEF ReadLine
      <4>2. current'.lines = <<line>> /\ records' = records
        BY <3>2, <4>1 DEF Flushed, lines
      <4>3. QED
        BY <2>3, <3>2, <4>1, <4>2
    <3>3. CASE /\ lines # <<>> /\ line.name \notin {"blank", "more"}
               /\ ReadTo(Append(records, RecordFromLines(start, lines)), <<line>>, len + 1, G, e)
      <4>1. /\ current' = [start |-> Len(file) + 1, lines |-> <<line>>]
            /\ records' = Flushed /\ orphans' = orphans
        BY <3>3 DEF ReadLine
      <4>2. current'.lines = <<line>>
        BY <4>1
      <4>3. records' = Append(records, RecordFromLines(start, lines))
        BY <2>2, <3>3, <4>1 DEF Flushed, lines
      <4>4. QED
        BY <2>3, <3>3, <4>1, <4>2, <4>3
    <3>4. QED
      BY <2>6, <3>1, <3>2, <3>3
  <2>8. QED
    BY <1>1, <2>4, <2>5, <2>7 DEF CopyInv
<1>4. QED
  BY <1>2, <1>3

LEMMA CopyEndOfFile ==
    ASSUME ReaderInv, MadeInv, CopyInv, EndOfFile
    PROVE  CopyInv'
<1>1. /\ pc = "lines" /\ records' = Flushed
      /\ UNCHANGED <<strict, file, text, orphans, original, destination>>
      /\ Again => Len(file) = Len(text)
      /\ pc' = IF strict /\ (orphans # {} \/ Flushed = <<>>) THEN "ended" ELSE "parse"
  BY DEF EndOfFile
<1>2. CASE ~Again
  BY <1>1, <1>2 DEF CopyInv, Again
<1>3. CASE Again
  <2> DEFINE start == IF current.start = 0 THEN 1 ELSE current.start
             lines == current.lines
             r == RecordFromLines(start, lines)
  <2>1. Cut(text, Written, Marks)
    BY <1>3, WrittenCut
  <2>2. /\ Len(file) \in Nat /\ records \in Seq(Records) /\ lines \in Seq(Lines)
        /\ start \in Nat \ {0}
        /\ lines # <<>> => start = current.start
        /\ Len(file) = Len(text)
    BY <1>1, <1>3 DEF ReaderInv
  <2>3. ReadTo(records, lines, Len(file), Written, Marks) /\ orphans = {}
    BY <1>1, <1>3 DEF CopyInv
  <2> HIDE DEF start, lines
  <2>4. lines # <<>> /\ Reads(Append(records, r), Written)
    BY <2>1, <2>2, <2>3, LastLine
  <2>5. Flushed = Append(records, r)
    BY <2>2, <2>4 DEF Flushed, lines
  <2>6. Flushed # <<>>
    <3>1. Len(Written) # 0 /\ Len(Written) \in Nat
      BY <2>1 DEF Cut
    <3>2. DOMAIN Flushed = 1..Len(Written) /\ DOMAIN <<>> = {}
      BY <2>4, <2>5 DEF Reads
    <3>3. 1 \in 1..Len(Written)
      BY <3>1
    <3>4. QED
      BY <3>2, <3>3
  <2>7. pc' = "parse"
    BY <1>1, <2>3, <2>6
  <2>8. Again' /\ Written' = Written
    BY <1>1, <1>3 DEF Again, Written
  <2>9. Reads(records', Written') /\ orphans' = {}
    BY <1>1, <2>3, <2>4, <2>5, <2>8
  <2>10. QED
    BY <2>7, <2>8, <2>9 DEF CopyInv
<1>4. QED
  BY <1>2, <1>3

(* A strictly accepted document that is read again is accepted. *)
LEMMA AcceptedAgain ==
    ASSUME ReaderInv, StrictInv, MadeInv, CopyInv, Again, strict, pc = "validate",
           Plain(original.records, original.mode)
    PROVE  ~HasErrors(diagnostics \union Validate(records))
<1> DEFINE R == original.records
           Q == records
<1>1. /\ R \in Seq(Records) /\ (\A i \in DOMAIN R : Made(R[i]))
      /\ ~HasErrors(ParseDiagnostics(R) \union Validate(R))
  BY DEF MadeInv
<1>2. Q \in Seq(Records) /\ diagnostics = ParseDiagnostics(Q) /\ Reads(Q, Groups(R, original.mode))
  BY DEF ReaderInv, StrictInv, CopyInv, Written
<1>3. Plain(R, original.mode)
  OBVIOUS
<1> HIDE DEF R, Q
<1>4. CopyOf(R, Q) /\ ((\E i \in DOMAIN R : R[i].name = "IEND") => DOMAIN Q = DOMAIN R)
  BY <1>1, <1>2, <1>3, ReadsCopy
<1>5. IsSeq(R) /\ IsSeq(Q)
  BY <1>1, <1>2, SeqIsSeq
<1>6. /\ \A k \in DOMAIN R : R[k] \in Records
      /\ \A k \in DOMAIN Q : Q[k] \in Records
  BY <1>1, <1>2
<1>7. R # <<>> /\ Last(R).name = "IEND"
  <2>1. Error("FEM003", 0) \notin Validate(R)
    BY <1>1 DEF HasErrors, Error
  <2>2. QED
    BY <2>1 DEF Validate
<1>8. DOMAIN Q = DOMAIN R /\ Q # <<>>
  <2>1. Len(R) \in DOMAIN R /\ R[Len(R)].name = "IEND"
    BY <1>1, <1>7 DEF Last
  <2>2. DOMAIN Q = DOMAIN R
    BY <1>4, <2>1
  <2>3. DOMAIN <<>> = {}
    OBVIOUS
  <2>4. QED
    BY <2>1, <2>2, <2>3
<1>9. ~HasErrors(ParseDiagnostics(Q) \union Validate(Q))
  BY <1>1, <1>4, <1>5, <1>6, <1>7, <1>8, CopyAccepted
<1>10. QED
  BY <1>2, <1>9 DEF Q

LEMMA CopyStep == ReaderInv /\ StrictInv /\ MadeInv /\ CopyInv /\ [Next]_vars => CopyInv'
<1> SUFFICES ASSUME ReaderInv, StrictInv, MadeInv, CopyInv, [Next]_vars PROVE CopyInv'
  OBVIOUS
<1>1. CASE \E line \in Upcoming : ReadLine(line)
  BY <1>1, CopyReadLine
<1>2. CASE EndOfFile
  BY <1>2, CopyEndOfFile
<1>3. CASE Open
  <2>1. /\ pc = "open" /\ (pc' = "lines" \/ (~Again /\ pc' = "ended"))
        /\ UNCHANGED <<strict, file, text, current, records, orphans, diagnostics, original, destination>>
    BY <1>3 DEF Open
  <2>2. CASE ~Again
    BY <2>1, <2>2 DEF CopyInv, Again
  <2>3. CASE Again
    <3>1. pc' = "lines" /\ orphans' = {} /\ Again' /\ Written' = Written /\ Marks' = Marks
      BY <2>1, <2>3 DEF CopyInv, Again, Written, Marks
    <3>2. file' = <<>> /\ records' = <<>> /\ current'.lines = <<>>
      BY <2>1, <2>3 DEF CopyInv, ReaderInv, NoRecord
    <3>3. ReadTo(<<>>, <<>>, Len(<<>>), Written, Marks)
      <4>1. Cut(text, Written, Marks)
        BY <2>3, WrittenCut
      <4>2. Len(Written) \in Nat /\ Marks[0] = 0
        BY <4>1 DEF Cut, Split
      <4>3. Len(<<>>) = 0 /\ DOMAIN <<>> = {}
        OBVIOUS
      <4>4. QED
        BY <4>2, <4>3 DEF ReadTo, ReadSo
    <3>4. QED
      BY <3>1, <3>2, <3>3 DEF CopyInv
  <2>4. QED
    BY <2>2, <2>3
<1>4. CASE Parse
  <2>1. /\ pc = "parse" /\ pc' = "validate"
        /\ UNCHANGED <<strict, file, text, current, records, orphans, original, destination>>
    BY <1>4 DEF Parse
  <2>2. QED
    BY <2>1 DEF CopyInv, Again, Written
<1>5. CASE ValidateDocument
  <2>1. /\ pc = "validate" /\ diagnostics' = diagnostics \union Validate(records)
        /\ pc' = IF strict /\ HasErrors(diagnostics') THEN "ended" ELSE "returned"
        /\ UNCHANGED <<strict, file, text, current, records, orphans, original, destination>>
    BY <1>5 DEF ValidateDocument
  <2>2. Again' = Again /\ Written' = Written /\ pc' \in {"ended", "returned"}
    BY <2>1 DEF Again, Written
  <2>3. Again /\ strict /\ Plain(original.records, original.mode) => pc' = "returned"
    BY <2>1, AcceptedAgain
  <2>4. QED
    BY <2>1, <2>2, <2>3 DEF CopyInv
<1>6. CASE \E mode \in {"canonical", "raw"}, exists, overwrite \in BOOLEAN :
              BeginWrite(mode, exists, overwrite)
  <2>1. /\ destination' = destination /\ destination = "old" /\ pc' \in {"ended", "write"}
        /\ pc' = "write" => original'.mode \in {"canonical", "raw"}
    BY <1>6 DEF BeginWrite, CopyInv
  <2>2. QED
    BY <2>1 DEF CopyInv, Again
<1>7. CASE FailWrite \/ EndWrite
  <2>1. /\ pc \in {"write", "publish"} /\ pc' \in {"ended", "publish"}
        /\ UNCHANGED <<original, destination>>
    BY <1>7 DEF FailWrite, EndWrite
  <2>2. destination = "old" /\ destination' = "old"
    BY <2>1 DEF CopyInv
  <2>3. QED
    BY <2>1, <2>2 DEF CopyInv, Again
<1>8. CASE Replace
  <2>1. pc = "publish" /\ pc' = "written" /\ original' = original
    BY <1>8 DEF Replace
  <2>2. QED
    BY <2>1 DEF CopyInv, Again
<1>9. CASE ReadAgain
  <2>1. /\ pc = "written" /\ pc' = "open" /\ file' = <<>> /\ records' = <<>> /\ orphans' = {}
        /\ UNCHANGED <<original, destination>>
    BY <1>9 DEF ReadAgain
  <2>2. QED
    BY <2>1 DEF CopyInv, Again
<1>10. CASE UNCHANGED vars
  BY <1>10 DEF vars, CopyInv, Again, Written, Marks
<1>11. QED
  BY <1>1, <1>2, <1>3, <1>4, <1>5, <1>6, <1>7, <1>8, <1>9, <1>10 DEF Next

LEMMA CopyInit == Init => CopyInv
BY DEF Init, CopyInv, Again, Nothing

LEMMA CopyAnswer ==
    ASSUME ReaderInv, MadeInv, CopyInv
    PROVE  RewritingKeepsModel
<1>1. ASSUME Again, pc = "returned", Plain(original.records, original.mode)
      PROVE  Model(records) = Model(original.records)
  <2> DEFINE R == original.records
  <2>1. R \in Seq(Records) /\ \A i \in DOMAIN R : Made(R[i])
    BY <1>1 DEF MadeInv
  <2>2. records \in Seq(Records) /\ Reads(records, Groups(R, original.mode))
    BY <1>1 DEF ReaderInv, CopyInv, Written
  <2>3. Plain(R, original.mode)
    BY <1>1
  <2> HIDE DEF R
  <2>4. CopyOf(R, records)
    BY <2>1, <2>2, <2>3, ReadsCopy
  <2>5. /\ \A k \in DOMAIN R : R[k] \in Records
        /\ \A k \in DOMAIN records : records[k] \in Records
    BY <2>1, <2>2
  <2>6. Model(records) = Model(R)
    BY <2>4, <2>5, CopyModel
  <2>7. QED
    BY <2>6 DEF R
<1>2. ASSUME Again, strict, pc = "ended", Plain(original.records, original.mode)
      PROVE  destination # "new"
  BY <1>2 DEF CopyInv
<1>3. QED
  BY <1>1, <1>2 DEF RewritingKeepsModel

(* A rewritten file holds the model that was read, and is accepted if the   *)
(* first was: for every file that is rewritten raw, or has no numbers in    *)
(* the quoted text of its nodes, elements, materials and other records of   *)
(* numbers, which the next reading would take for numbers of the record.    *)
THEOREM RewritingKeeps == Spec => []RewritingKeepsModel
<1>1. Spec => []StrictInv
  BY StrictInit, StrictStep, PTL DEF Spec
<1>2. Spec => []MadeInv
  BY ReaderHolds, <1>1, MadeInit, MadeStep, PTL DEF Spec
<1>3. Spec => []CopyInv
  BY ReaderHolds, <1>1, <1>2, CopyInit, CopyStep, PTL DEF Spec
<1>4. ReaderInv /\ MadeInv /\ CopyInv => RewritingKeepsModel
  BY CopyAnswer
<1>5. QED
  BY ReaderHolds, <1>2, <1>3, <1>4, PTL
=============================================================================
