---------------------------- MODULE WgConfProofs ----------------------------
(***************************************************************************)
(* Proofs about the text of awg0.conf, for any number of peers, hand-      *)
(* written files, edits and subnets.  Nothing here is by induction on a    *)
(* file: where a line moves when others are cut out is said by an          *)
(* increasing enumeration of the places that stay, and that there is one   *)
(* follows from the least number for which there would be none.            *)
(***************************************************************************)
EXTENDS WgConf, FiniteSetTheorems, SequenceTheorems, WellFoundedInduction, TLAPS

----------------------------------------------------------------------------
(* Least and greatest elements *)

LEMMA LeastOf ==
    ASSUME NEW S \in SUBSET Nat, S # {}
    PROVE  \E x \in S : \A y \in S : x <= y
<1>1. PICK R : R = {ss \in Nat \X Nat : ss[1] < ss[2]} /\ IsWellFoundedOn(R, Nat)
  BY NatLessThanWellFounded DEF OpToRel
<1>2. PICK x \in S : \A y \in S : <<y, x>> \notin R
  BY <1>1, WFMin
<1>3. \A y \in S : ~(y < x)
  BY <1>1, <1>2
<1> QED BY <1>2, <1>3

LEMMA MaxOf ==
    ASSUME NEW n \in Nat, NEW S \in SUBSET (1..n), S # {}
    PROVE  Max(S) \in S /\ \A x \in S : x <= Max(S)
<1> DEFINE U == {u \in Nat : \A x \in S : x <= u}
<1>1. n \in U
  OBVIOUS
<1>2. PICK u \in U : \A v \in U : u <= v
  BY <1>1, LeastOf
<1>3. u \in S
  <2> SUFFICES ASSUME u \notin S  PROVE FALSE
    OBVIOUS
  <2>1. \A x \in S : x <= u - 1
    OBVIOUS
  <2>2. u >= 1
    <3>1. PICK x \in S : x <= u
      OBVIOUS
    <3> QED BY <3>1
  <2>3. u - 1 \in U
    BY <2>1, <2>2
  <2> QED BY <1>2, <2>3
<1>4. \E m \in S : \A x \in S : m >= x
  BY <1>3
<1>5. Max(S) \in S /\ \A x \in S : Max(S) >= x
  BY <1>4 DEF Max
<1> QED BY <1>5

LEMMA Between == \A a, b, c \in Nat : a < c /\ c <= b => c \in a+1..b
OBVIOUS

LEMMA MaxOfOne == \A x \in Nat : Max({x}) = x
BY DEF Max

----------------------------------------------------------------------------
(* Lines that are kept *)

\* q goes through the places K from the first to the last.
Enumerates(q, m, K) ==
    /\ m \in Nat /\ q \in [1..m -> K]
    /\ \A k, l \in 1..m : k < l => q[k] < q[l]
    /\ \A i \in K : \E k \in 1..m : q[k] = i

LEMMA EnumerationExtended ==
    ASSUME NEW n \in Nat, NEW K \in SUBSET (1..n+1), NEW q, NEW m, Enumerates(q, m, K \ {n+1})
    PROVE  \E r, l : Enumerates(r, l, K)
<1>1. CASE n+1 \notin K
  <2>1. K \ {n+1} = K
    BY <1>1
  <2> QED BY <2>1
<1>2. CASE n+1 \in K
  <2> DEFINE r == [k \in 1..m+1 |-> IF k = m+1 THEN n+1 ELSE q[k]]
  <2>1. m+1 \in Nat /\ r \in [1..m+1 -> K]
    BY <1>2 DEF Enumerates
  <2>2. ASSUME NEW k \in 1..m+1, NEW l \in 1..m+1, k < l
        PROVE  r[k] < r[l]
    <3>1. k \in 1..m /\ r[k] = q[k] /\ q[k] \in K \ {n+1}
      BY <2>2 DEF Enumerates
    <3>2. q[k] < n+1
      <4>1. q[k] \in 1..n+1 /\ q[k] # n+1
        BY <3>1
      <4> QED BY <4>1
    <3>3. CASE l = m+1
      BY <3>1, <3>2, <3>3
    <3>4. CASE l # m+1
      BY <2>2, <3>1, <3>4 DEF Enumerates
    <3> QED BY <3>3, <3>4
  <2>3. ASSUME NEW i \in K
        PROVE  \E k \in 1..m+1 : r[k] = i
    <3>1. CASE i = n+1
      <4>1. m+1 \in 1..m+1
        BY DEF Enumerates
      <4>2. r[m+1] = i
        BY <3>1, <4>1
      <4> HIDE DEF r
      <4> QED BY <4>1, <4>2
    <3>2. CASE i # n+1
      <4>1. PICK k \in 1..m : q[k] = i
        BY <3>2 DEF Enumerates
      <4>2. m \in Nat /\ k \in 1..m+1 /\ k # m+1
        BY <4>1 DEF Enumerates
      <4>3. k \in 1..m+1 /\ r[k] = i
        BY <4>1, <4>2
      <4> HIDE DEF r
      <4> QED BY <4>3
    <3> QED BY <3>1, <3>2
  <2> HIDE DEF r
  <2> QED BY <2>1, <2>2, <2>3 DEF Enumerates
<1> QED BY <1>1, <1>2

LEMMA EnumerationExists ==
    ASSUME NEW n \in Nat, NEW K \in SUBSET (1..n)
    PROVE  \E q, m : Enumerates(q, m, K)
<1> DEFINE Bad == {l \in Nat : \E L \in SUBSET (1..l) : ~\E q, m : Enumerates(q, m, L)}
<1> SUFFICES ASSUME Bad # {}  PROVE FALSE
  OBVIOUS
<1>1. PICK l \in Bad : \A j \in Bad : l <= j
  BY LeastOf
<1>2. PICK L \in SUBSET (1..l) : ~\E q, m : Enumerates(q, m, L)
  BY <1>1
<1>3. CASE l = 0
  <2>1. L = {}
    BY <1>2, <1>3
  <2>2. Enumerates([k \in 1..0 |-> 0], 0, L)
    BY <2>1 DEF Enumerates
  <2> QED BY <1>2, <2>2
<1>4. CASE l # 0
  <2>1. l-1 \in Nat /\ l-1 \notin Bad
    BY <1>1, <1>4
  <2>2. L \ {(l-1)+1} \in SUBSET (1..l-1)
    BY <1>1
  <2>3. PICK q, m : Enumerates(q, m, L \ {(l-1)+1})
    BY <2>1, <2>2
  <2>4. L \in SUBSET (1..(l-1)+1)
    BY <1>1
  <2> QED BY <1>2, <2>1, <2>3, <2>4, EnumerationExtended
<1> QED BY <1>3, <1>4

\* The k-th place counted by Cardinality is the k-th of the enumeration.
LEMMA PlaceIs ==
    ASSUME NEW n \in Nat, NEW K \in SUBSET (1..n), NEW q, NEW m, Enumerates(q, m, K)
    PROVE  Cardinality(K) = m /\ \A k \in 1..m : Place(K, k) = q[k]
<1> DEFINE Below(i) == {j \in K : j <= i}
<1>1. /\ m \in Nat /\ q \in [1..m -> K]
      /\ \A k \in 1..m : q[k] \in Nat
      /\ \A k, l \in 1..m : k < l => q[k] < q[l]
  <2>1. m \in Nat /\ q \in [1..m -> K] /\ \A k, l \in 1..m : k < l => q[k] < q[l]
    BY DEF Enumerates
  <2>2. \A k \in 1..m : q[k] \in K
    BY <2>1
  <2>3. \A k \in 1..m : q[k] \in Nat
    <3>1. \A i \in K : i \in Nat
      OBVIOUS
    <3> QED BY <2>2, <3>1
  <2> QED BY <2>1, <2>3
<1>2. \A l, j \in 1..m : q[l] = q[j] => l = j
  <2> TAKE l, j \in 1..m
  <2>1. q[l] \in Nat /\ q[j] \in Nat /\ (l < j => q[l] < q[j]) /\ (j < l => q[j] < q[l])
    BY <1>1
  <2> QED BY <1>1, <2>1
<1>3. ASSUME NEW k \in 1..m
      PROVE  Cardinality(Below(q[k])) = k
  <2> DEFINE r == [l \in 1..k |-> q[l]]
  <2>1. \A l \in 1..k : q[l] \in Below(q[k])
    <3> TAKE l \in 1..k
    <3>1. l \in 1..m /\ q[l] \in K /\ q[l] \in Nat /\ q[k] \in Nat
      BY <1>1
    <3>2. l = k \/ q[l] < q[k]
      BY <1>1, <3>1
    <3> QED BY <3>1, <3>2
  <2>2. r \in [1..k -> Below(q[k])]
    BY <2>1
  <2>3. \A l, j \in 1..k : r[l] = r[j] => l = j
    <3> TAKE l, j \in 1..k
    <3>1. l \in 1..m /\ j \in 1..m /\ r[l] = q[l] /\ r[j] = q[j]
      BY <1>1
    <3> QED BY <1>2, <3>1
  <2>4. ASSUME NEW i \in Below(q[k])
        PROVE  \E l \in 1..k : r[l] = i
    <3>1. PICK l \in 1..m : q[l] = i
      BY DEF Enumerates
    <3>2. l <= k
      <4>1. q[l] <= q[k] /\ q[l] \in Nat /\ q[k] \in Nat
        BY <1>1, <3>1
      <4>2. k < l => q[k] < q[l]
        BY <1>1
      <4> QED BY <1>1, <4>1, <4>2
    <3> QED BY <3>1, <3>2
  <2>5. r \in Bijection(1..k, Below(q[k]))
    BY <2>2, <2>3, <2>4 DEF Bijection, Injection, Surjection, IsInjective
  <2> HIDE DEF r, Below
  <2>6. ExistsBijection(1..k, Below(q[k]))
    BY <2>5 DEF ExistsBijection
  <2> QED BY <2>6, FS_CountingElements
<1>4. Cardinality(K) = m
  <2>1. q \in Bijection(1..m, K)
    <3> QED BY <1>1, <1>2 DEF Enumerates, Bijection, Injection, Surjection, IsInjective
  <2> QED BY <1>1, <2>1, FS_CountingElements DEF ExistsBijection
<1>5. ASSUME NEW k \in 1..m
      PROVE  Place(K, k) = q[k]
  <2>1. q[k] \in K /\ Cardinality(Below(q[k])) = k
    BY <1>1, <1>3
  <2>2. ASSUME NEW i \in K, Cardinality(Below(i)) = k
        PROVE  i = q[k]
    <3>1. PICK l \in 1..m : q[l] = i
      BY DEF Enumerates
    <3> QED BY <1>3, <2>2, <3>1
  <2>3. Place(K, k) = CHOOSE i \in K : Cardinality(Below(i)) = k
    BY DEF Place
  <2> HIDE DEF Below
  <2> QED BY <2>1, <2>2, <2>3
<1> QED BY <1>4, <1>5

LEMMA KeptIs ==
    ASSUME NEW S, NEW f \in Seq(S), NEW K \in SUBSET DOMAIN f, NEW q, NEW m, Enumerates(q, m, K)
    PROVE  /\ Kept(f, K) = [k \in 1..m |-> f[q[k]]]
           /\ Kept(f, K) \in Seq(S) /\ Len(Kept(f, K)) = m /\ DOMAIN Kept(f, K) = 1..m
           /\ \A k \in 1..m : q[k] \in K /\ Kept(f, K)[k] = f[q[k]]
<1>1. Len(f) \in Nat /\ DOMAIN f = 1..Len(f) /\ m \in Nat /\ q \in [1..m -> K]
  BY DEF Enumerates
<1>2. Cardinality(K) = m /\ \A k \in 1..m : Place(K, k) = q[k]
  BY <1>1, PlaceIs
<1>3. Kept(f, K) = [k \in 1..m |-> f[q[k]]]
  BY <1>2 DEF Kept
<1>4. \A k \in 1..m : f[q[k]] \in S
  BY <1>1
<1>5. [k \in 1..m |-> f[q[k]]] \in Seq(S)
  BY <1>1, <1>4
<1> QED BY <1>1, <1>3, <1>5

\* Cutting out some lines and then others is cutting out both.
LEMMA KeptOfKept ==
    ASSUME NEW S, NEW f \in Seq(S), NEW A \in SUBSET DOMAIN f, NEW q, NEW m, Enumerates(q, m, A),
           NEW B \in SUBSET A
    PROVE  Kept(Kept(f, A), {k \in 1..m : q[k] \in B}) = Kept(f, B)
<1> DEFINE g == Kept(f, A)
           C == {k \in 1..m : q[k] \in B}
<1>1. g \in Seq(S) /\ DOMAIN g = 1..m /\ \A k \in 1..m : q[k] \in A /\ g[k] = f[q[k]]
  BY KeptIs
<1>2. m \in Nat /\ q \in [1..m -> A] /\ Len(f) \in Nat /\ DOMAIN f = 1..Len(f)
  BY DEF Enumerates
<1>3. PICK r, l : Enumerates(r, l, C)
  BY <1>2, EnumerationExists
<1> DEFINE u == [k \in 1..l |-> q[r[k]]]
<1>4. l \in Nat /\ r \in [1..l -> C]
  BY <1>3 DEF Enumerates
<1>5. Enumerates(u, l, B)
  <2>1. u \in [1..l -> B]
    BY <1>4
  <2>2. ASSUME NEW j \in 1..l, NEW k \in 1..l, j < k
        PROVE  u[j] < u[k]
    <3>1. r[j] < r[k] /\ r[j] \in 1..m /\ r[k] \in 1..m
      BY <1>3, <1>4, <2>2 DEF Enumerates
    <3> QED BY <3>1 DEF Enumerates
  <2>3. ASSUME NEW i \in B
        PROVE  \E k \in 1..l : u[k] = i
    <3>1. PICK j \in 1..m : q[j] = i
      BY DEF Enumerates
    <3>2. PICK k \in 1..l : r[k] = j
      BY <1>3, <3>1 DEF Enumerates
    <3> QED BY <3>1, <3>2
  <2> HIDE DEF u
  <2> QED BY <1>4, <2>1, <2>2, <2>3 DEF Enumerates
<1>6. Kept(f, B) = [k \in 1..l |-> f[u[k]]]
  BY <1>5, KeptIs
<1>7. Kept(g, C) = [k \in 1..l |-> g[r[k]]]
  <2>1. C \in SUBSET DOMAIN g
    BY <1>1
  <2>2. g \in Seq(S)
    BY <1>1
  <2> HIDE DEF g, C
  <2> QED BY <1>3, <2>1, <2>2, KeptIs
<1>8. \A k \in 1..l : g[r[k]] = f[u[k]]
  BY <1>1, <1>4
<1> HIDE DEF g, u, C
<1> QED BY <1>6, <1>7, <1>8 DEF g, C

LEMMA KeptSame ==
    ASSUME NEW S, NEW f \in Seq(S), NEW g \in Seq(S), NEW K \in SUBSET DOMAIN f, K \subseteq DOMAIN g,
           \A i \in K : f[i] = g[i]
    PROVE  Kept(f, K) = Kept(g, K)
<1>1. Len(f) \in Nat /\ DOMAIN f = 1..Len(f)
  OBVIOUS
<1>2. PICK q, m : Enumerates(q, m, K)
  BY <1>1, EnumerationExists
<1>3. m \in Nat /\ \A k \in 1..m : q[k] \in K
  BY <1>2 DEF Enumerates
<1>4. Kept(f, K) = [k \in 1..m |-> f[q[k]]] /\ Kept(g, K) = [k \in 1..m |-> g[q[k]]]
  BY <1>2, KeptIs
<1> QED BY <1>3, <1>4

LEMMA KeptInSeq ==
    ASSUME NEW S, NEW f \in Seq(S), NEW K \in SUBSET DOMAIN f
    PROVE  Kept(f, K) \in Seq(S)
<1>1. Len(f) \in Nat /\ DOMAIN f = 1..Len(f)
  OBVIOUS
<1>2. PICK q, m : Enumerates(q, m, K)
  BY <1>1, EnumerationExists
<1> QED BY <1>2, KeptIs

Shifted(n, B) == {n + i : i \in B}
Both(f, t) == f \o t

\* What is kept of two texts, one after the other.
LEMMA KeptOfBoth ==
    ASSUME NEW S, NEW f \in Seq(S), NEW t \in Seq(S),
           NEW A \in SUBSET DOMAIN f, NEW B \in SUBSET DOMAIN t
    PROVE  Kept(Both(f, t), A \cup Shifted(Len(f), B)) = Both(Kept(f, A), Kept(t, B))
<1> DEFINE n == Len(f)
           C == A \cup {n + i : i \in B}
           g == f \o t
<1>1. /\ n \in Nat /\ DOMAIN f = 1..n /\ Len(t) \in Nat /\ DOMAIN t = 1..Len(t)
      /\ A \subseteq 1..n /\ B \subseteq 1..Len(t)
  OBVIOUS
<1>2. /\ g \in Seq(S) /\ Len(g) = n + Len(t) /\ DOMAIN g = 1..n + Len(t)
      /\ \A i \in 1..n : g[i] = f[i]
      /\ \A i \in 1..Len(t) : g[n + i] = t[i]
  BY <1>1, ConcatProperties
<1>3. PICK q, m : Enumerates(q, m, A)
  BY <1>1, EnumerationExists
<1>4. PICK r, l : Enumerates(r, l, B)
  BY <1>1, EnumerationExists
<1>5. m \in Nat /\ l \in Nat /\ (\A k \in 1..m : q[k] \in A) /\ (\A k \in 1..l : r[k] \in B)
  BY <1>3, <1>4 DEF Enumerates
<1> DEFINE u == [k \in 1..m + l |-> IF k <= m THEN q[k] ELSE n + r[k - m]]
<1>6. /\ \A k \in 1..m : u[k] = q[k] /\ u[k] \in 1..n
      /\ \A k \in 1..l : u[m + k] = n + r[k] /\ r[k] \in 1..Len(t)
  <2>1. \A k \in 1..m : u[k] = q[k]
    BY <1>5
  <2>2. \A k \in 1..l : u[m + k] = n + r[k]
    <3> TAKE k \in 1..l
    <3>1. m + k \in 1..m + l /\ ~(m + k <= m) /\ (m + k) - m = k
      BY <1>5
    <3> QED BY <3>1
  <2>3. (\A k \in 1..m : q[k] \in 1..n) /\ (\A k \in 1..l : r[k] \in 1..Len(t))
    BY <1>1, <1>5
  <2> HIDE DEF u
  <2> QED BY <2>1, <2>2, <2>3
<1>7. C \subseteq DOMAIN g
  BY <1>1, <1>2
<1>8. DOMAIN u = 1..m + l
  OBVIOUS
<1> HIDE DEF u, n, g, C
<1>9. \A k \in 1..m + l : k \in 1..m \/ (k - m \in 1..l /\ k = m + (k - m))
  BY <1>5
<1>10. Enumerates(u, m + l, C)
  <2>1. \A k \in 1..m + l : u[k] \in C
    <3> TAKE k \in 1..m + l
    <3>1. CASE k \in 1..m
      BY <1>5, <1>6, <3>1 DEF C
    <3>2. CASE k - m \in 1..l /\ k = m + (k - m)
      <4>1. u[k] = n + r[k - m] /\ r[k - m] \in B
        BY <1>5, <1>6, <3>2
      <4> QED BY <4>1 DEF C
    <3> QED BY <1>9, <3>1, <3>2
  <2>2. u \in [1..m + l -> C]
    BY <2>1 DEF u
  <2>3. ASSUME NEW j \in 1..m + l, NEW k \in 1..m + l, j < k
        PROVE  u[j] < u[k]
    <3>1. CASE k \in 1..m
      BY <1>3, <1>6, <2>3, <3>1 DEF Enumerates
    <3>2. CASE j \in 1..m /\ k - m \in 1..l /\ k = m + (k - m)
      <4>1. u[k] = n + r[k - m] /\ r[k - m] \in 1..Len(t) /\ u[j] \in 1..n
        BY <1>6, <3>2
      <4> QED BY <1>1, <4>1
    <3>3. CASE j - m \in 1..l /\ j = m + (j - m) /\ k - m \in 1..l /\ k = m + (k - m)
      <4>1. u[k] = n + r[k - m] /\ u[j] = n + r[j - m]
        BY <1>6, <3>3
      <4>2. r[j - m] < r[k - m]
        BY <1>4, <1>5, <2>3, <3>3 DEF Enumerates
      <4>3. r[k - m] \in 1..Len(t) /\ r[j - m] \in 1..Len(t)
        BY <1>6, <3>3
      <4> QED BY <1>1, <4>1, <4>2, <4>3
    <3> QED BY <1>5, <1>9, <2>3, <3>1, <3>2, <3>3
  <2>4. ASSUME NEW i \in C
        PROVE  \E k \in 1..m + l : u[k] = i
    <3>1. CASE i \in A
      <4>1. PICK k \in 1..m : q[k] = i
        BY <1>3, <3>1 DEF Enumerates
      <4>2. k \in 1..m + l /\ u[k] = i
        BY <1>5, <1>6, <4>1
      <4> QED BY <4>2
    <3>2. ASSUME NEW b \in B, i = n + b
          PROVE  \E k \in 1..m + l : u[k] = i
      <4>1. PICK k \in 1..l : r[k] = b
        BY <1>4, <3>2 DEF Enumerates
      <4>2. m + k \in 1..m + l /\ u[m + k] = i
        BY <1>5, <1>6, <3>2, <4>1
      <4> QED BY <4>2
    <3> QED BY <2>4, <3>1, <3>2 DEF C
  <2>5. m + l \in Nat
    BY <1>5
  <2> QED BY <2>2, <2>3, <2>4, <2>5 DEF Enumerates
<1>11. Kept(g, C) = [k \in 1..m + l |-> g[u[k]]]
  BY <1>2, <1>7, <1>10, KeptIs
<1>12. /\ Kept(f, A) \in Seq(S) /\ Len(Kept(f, A)) = m
       /\ \A k \in 1..m : Kept(f, A)[k] = f[q[k]]
  BY <1>3, KeptIs
<1>13. /\ Kept(t, B) \in Seq(S) /\ Len(Kept(t, B)) = l
       /\ \A k \in 1..l : Kept(t, B)[k] = t[r[k]]
  BY <1>4, KeptIs
<1> DEFINE w == Kept(f, A) \o Kept(t, B)
<1>14. /\ w \in Seq(S) /\ Len(w) = m + l
       /\ \A k \in 1..m : w[k] = f[q[k]]
       /\ \A k \in 1..l : w[m + k] = t[r[k]]
  <2>1. w \in Seq(S) /\ Len(w) = m + l
    BY <1>12, <1>13, ConcatProperties
  <2>2. ASSUME NEW k \in 1..m  PROVE w[k] = f[q[k]]
    <3>1. k \in 1..Len(Kept(f, A)) + Len(Kept(t, B)) /\ k <= Len(Kept(f, A))
      BY <1>5, <1>12, <1>13
    <3>2. w[k] = Kept(f, A)[k]
      BY <1>12, <1>13, <3>1, ConcatProperties
    <3> QED BY <1>12, <3>2
  <2>3. ASSUME NEW k \in 1..l  PROVE w[m + k] = t[r[k]]
    <3>1. m + k \in 1..Len(Kept(f, A)) + Len(Kept(t, B)) /\ ~(m + k <= Len(Kept(f, A)))
          /\ (m + k) - Len(Kept(f, A)) = k
      BY <1>5, <1>12, <1>13
    <3>2. w[m + k] = Kept(t, B)[k]
      BY <1>12, <1>13, <3>1, ConcatProperties
    <3> QED BY <1>13, <3>2
  <2> HIDE DEF w
  <2> QED BY <2>1, <2>2, <2>3
<1> HIDE DEF w
<1>15. \A k \in 1..m + l : g[u[k]] = w[k]
  <2> TAKE k \in 1..m + l
  <2>1. CASE k \in 1..m
    <3>1. u[k] = q[k] /\ q[k] \in 1..n
      BY <1>6, <2>1
    <3>2. g[q[k]] = f[q[k]]
      BY <1>2, <3>1
    <3> QED BY <1>14, <2>1, <3>1, <3>2
  <2>2. CASE k - m \in 1..l /\ k = m + (k - m)
    <3>1. u[k] = n + r[k - m] /\ r[k - m] \in 1..Len(t)
      BY <1>6, <2>2
    <3>2. g[n + r[k - m]] = t[r[k - m]]
      BY <1>2, <3>1
    <3>3. w[k] = t[r[k - m]]
      BY <1>14, <2>2
    <3> QED BY <3>1, <3>2, <3>3
  <2> QED BY <1>9, <2>1, <2>2
<1>16. w = [k \in 1..m + l |-> w[k]]
  <2>1. m + l \in Nat /\ DOMAIN w = 1..m + l
    BY <1>5, <1>14
  <2> QED BY <1>14, <2>1
<1>17. Kept(g, C) = w
  BY <1>11, <1>15, <1>16
<1> QED BY <1>17 DEF g, C, w, n, Shifted, Both

LEMMA KeptOfNothing ==
    ASSUME NEW S, NEW f \in Seq(S)
    PROVE  Kept(f, {}) = << >>
<1>1. Enumerates([k \in 1..0 |-> 0], 0, {})
  BY DEF Enumerates
<1> QED BY <1>1, KeptIs

\* What is appended changes nothing of what is kept above.
LEMMA KeptAbove ==
    ASSUME NEW S, NEW f \in Seq(S), NEW t \in Seq(S), NEW A \in SUBSET DOMAIN f
    PROVE  Kept(f \o t, A) = Kept(f, A)
<1>1. f \o t \in Seq(S) /\ A \subseteq DOMAIN (f \o t) /\ \A i \in A : (f \o t)[i] = f[i]
  BY ConcatProperties
<1> QED BY <1>1, KeptSame

----------------------------------------------------------------------------
(* Blocks *)

LEMMA LinesOf == \A f \in Seq(Line) : Len(f) \in Nat /\ DOMAIN f = 1..Len(f)
OBVIOUS

LEMMA InBlock ==
    ASSUME NEW f \in Seq(Line), NEW i \in DOMAIN f, NEW j \in DOMAIN f
    PROVE  j \in BlockAt(f, i) <=> i <= j /\ \A h \in i+1..j : f[h].is \notin Headers
<1>1. Len(f) \in Nat /\ DOMAIN f = 1..Len(f) /\ i \in 1..Len(f) /\ j \in 1..Len(f)
  OBVIOUS
<1> DEFINE next == {h \in i+1..Len(f) : f[h].is \in Headers}
<1>2. BlockAt(f, i) = {k \in i..Len(f) : \A h \in next : k < h}
  BY DEF BlockAt
<1>3. (\A h \in next : j < h) <=> \A h \in i+1..j : f[h].is \notin Headers
  <2>1. ASSUME \A h \in next : j < h, NEW h \in i+1..j
        PROVE  f[h].is \notin Headers
    <3>1. h \in i+1..Len(f) /\ ~(j < h)
      BY <1>1
    <3> QED BY <2>1, <3>1
  <2>2. ASSUME \A h \in i+1..j : f[h].is \notin Headers, NEW h \in next
        PROVE  j < h
    <3>1. h \in i+1..Len(f) /\ h \notin i+1..j
      BY <2>2
    <3> QED BY <1>1, <3>1
  <2> QED BY <2>1, <2>2
<1> HIDE DEF next
<1> QED BY <1>1, <1>2, <1>3

LEMMA BlockInFile ==
    ASSUME NEW f \in Seq(Line), NEW i \in DOMAIN f
    PROVE  BlockAt(f, i) \subseteq DOMAIN f
BY DEF BlockAt

\* Without a header between them two lines are in the same block.
LEMMA SameBlock ==
    ASSUME NEW f \in Seq(Line), NEW h \in DOMAIN f, f[h].is \in Headers,
           NEW i \in DOMAIN f, NEW j \in DOMAIN f, i <= j,
           \A k \in i+1..j : f[k].is \notin Headers
    PROVE  i \in BlockAt(f, h) <=> j \in BlockAt(f, h)
<1>1. Len(f) \in Nat /\ DOMAIN f = 1..Len(f) /\ i \in Nat /\ j \in Nat /\ h \in Nat
  OBVIOUS
<1>2. ASSUME i \in BlockAt(f, h)
      PROVE  j \in BlockAt(f, h)
  <2>1. h <= i /\ \A k \in h+1..i : f[k].is \notin Headers
    BY <1>2, InBlock
  <2>2. \A k \in h+1..j : k \in h+1..i \/ k \in i+1..j
    BY <1>1
  <2>3. h <= j
    BY <1>1, <2>1
  <2> QED BY <2>1, <2>2, <2>3, InBlock
<1>3. ASSUME j \in BlockAt(f, h)
      PROVE  i \in BlockAt(f, h)
  <2>1. h <= j /\ \A k \in h+1..j : f[k].is \notin Headers
    BY <1>3, InBlock
  <2>2. h <= i
    BY <1>1, <2>1
  <2>3. \A k \in h+1..i : k \in h+1..j
    BY <1>1
  <2> QED BY <2>1, <2>2, <2>3, InBlock
<1> QED BY <1>2, <1>3

\* A header is in no block but its own.
LEMMA OneHeader ==
    ASSUME NEW f \in Seq(Line), NEW h \in DOMAIN f, NEW g \in BlockAt(f, h), f[g].is \in Headers
    PROVE  g = h
<1>1. g \in DOMAIN f /\ Len(f) \in Nat /\ DOMAIN f = 1..Len(f)
  BY BlockInFile
<1>2. h <= g /\ \A k \in h+1..g : f[k].is \notin Headers
  BY <1>1, InBlock
<1>3. g \notin h+1..g
  BY <1>2
<1> QED BY <1>1, <1>2, <1>3

----------------------------------------------------------------------------
(* The worker's own blocks *)

OwnKeys(f) == {i \in DOMAIN f : f[i].key.name \in Names}

IPKinds == {"AllowedIPs", "#AllowedIPs"}

\* A key of the worker stands between a header and the address peers.json has for it,
\* and nothing further in the block is in force.
BlocksShaped(f, ps) == \A i \in OwnKeys(f) :
    /\ f[i].is = "PublicKey"
    /\ i-1 \in DOMAIN f /\ f[i-1].is = "[Peer]"
    /\ i+1 \in DOMAIN f /\ f[i+1].is \in IPKinds
    /\ \E e \in ps : e.key = f[i].key /\ e.ip = f[i+1].ip
    /\ \A j \in BlockAt(f, i-1) : j > i+1 => ~InForce(f[j])

OneBlockEach(f, ps) ==
    /\ \A i, j \in OwnKeys(f) : f[i].key = f[j].key => i = j
    /\ \A e \in ps : \E i \in OwnKeys(f) : f[i].key = e.key

\* No key of the worker is the last above an address but the one of its own block.
Sheltered(f, j) ==
    \/ j-1 \in OwnKeys(f)
    \/ \A i \in OwnKeys(f) : i > j
    \/ \E c \in 1..j-1 : /\ c \notin OwnKeys(f) /\ f[c].is \in Marks
                         /\ \A k \in c+1..j : f[k].is \notin Marks \cup Headers

AllSheltered(f) == \A j \in DOMAIN f : f[j].is \in IPKinds => Sheltered(f, j)

LEMMA OwnBlock ==
    ASSUME NEW f \in Seq(Line), NEW ps, BlocksShaped(f, ps), NEW i \in OwnKeys(f)
    PROVE  /\ i \in Nat /\ i \in DOMAIN f /\ i-1 \in PeerHeaders(f)
           /\ \A j \in DOMAIN f : j \in {i-1, i, i+1} => j \in BlockAt(f, i-1)
           /\ \A j \in BlockAt(f, i-1) : InForce(f[j]) => j \in {i-1, i, i+1}
<1>1. Len(f) \in Nat /\ DOMAIN f = 1..Len(f) /\ i \in DOMAIN f
  BY DEF OwnKeys
<1>2. /\ f[i].is = "PublicKey"
      /\ i-1 \in DOMAIN f /\ f[i-1].is = "[Peer]"
      /\ i+1 \in DOMAIN f /\ f[i+1].is \in IPKinds
      /\ \A j \in BlockAt(f, i-1) : j > i+1 => ~InForce(f[j])
  BY DEF BlocksShaped
<1>3. f[i].is \notin Headers /\ f[i+1].is \notin Headers
  BY <1>2 DEF IPKinds, Headers
<1>4. ASSUME NEW j \in DOMAIN f, j \in {i-1, i, i+1}
      PROVE  j \in BlockAt(f, i-1)
  <2>1. i-1 <= j /\ \A h \in (i-1)+1..j : h \in {i, i+1}
    BY <1>1, <1>4
  <2> QED BY <1>2, <1>3, <2>1, InBlock
<1>5. ASSUME NEW j \in BlockAt(f, i-1), InForce(f[j])
      PROVE  j \in {i-1, i, i+1}
  <2>1. j \in DOMAIN f /\ i-1 <= j /\ ~(j > i+1)
    BY <1>2, <1>5, BlockInFile, InBlock
  <2> QED BY <1>1, <2>1
<1> QED BY <1>1, <1>2, <1>4, <1>5 DEF PeerHeaders

\* What parsePeerBlock makes of a block of the worker.
LEMMA OwnBlockParsed ==
    ASSUME NEW f \in Seq(Line), NEW ps, BlocksShaped(f, ps), NEW i \in OwnKeys(f)
    PROVE  /\ LastOf(f, i-1, "PublicKey") = f[i]
           /\ LastOf(f, i-1, "AllowedIPs") = IF f[i+1].is = "AllowedIPs" THEN f[i+1] ELSE Text("")
<1>1. /\ i \in Nat /\ i \in DOMAIN f /\ Len(f) \in Nat /\ DOMAIN f = 1..Len(f)
      /\ \A j \in DOMAIN f : j \in {i-1, i, i+1} => j \in BlockAt(f, i-1)
      /\ \A j \in BlockAt(f, i-1) : InForce(f[j]) => j \in {i-1, i, i+1}
  BY OwnBlock
<1>2. /\ f[i].is = "PublicKey"
      /\ f[i-1].is = "[Peer]" /\ i-1 \in DOMAIN f
      /\ i+1 \in DOMAIN f /\ f[i+1].is \in IPKinds
  BY DEF BlocksShaped
<1>3. {j \in BlockAt(f, i-1) : f[j].is = "PublicKey"} = {i}
  <2>1. ASSUME NEW j \in BlockAt(f, i-1), f[j].is = "PublicKey"
        PROVE  j = i
    <3>1. InForce(f[j])
      BY <2>1 DEF InForce
    <3>2. j # i-1 /\ j # i+1
      BY <1>2, <2>1 DEF IPKinds
    <3> QED BY <1>1, <3>1, <3>2
  <2> QED BY <1>1, <1>2, <2>1
<1>4. {j \in BlockAt(f, i-1) : f[j].is = "AllowedIPs"} =
        IF f[i+1].is = "AllowedIPs" THEN {i+1} ELSE {}
  <2>1. ASSUME NEW j \in BlockAt(f, i-1), f[j].is = "AllowedIPs"
        PROVE  j = i+1
    <3>1. InForce(f[j])
      BY <2>1 DEF InForce
    <3>2. j # i-1 /\ j # i
      BY <1>2, <2>1
    <3> QED BY <1>1, <3>1, <3>2
  <2> QED BY <1>1, <1>2, <2>1
<1>5. Max({i}) = i /\ Max({i+1}) = i+1
  BY <1>1, MaxOfOne
<1> QED BY <1>3, <1>4, <1>5 DEF LastOf

\* The last line of a kind is a line of that kind in the block, when there is one.
HasLast(f, h, kind) == \E j \in BlockAt(f, h) : f[j].is = kind /\ LastOf(f, h, kind) = f[j]

LEMMA LastOfIs ==
    ASSUME NEW f \in Seq(Line), NEW h \in DOMAIN f, NEW kind, LastOf(f, h, kind) # Text("")
    PROVE  HasLast(f, h, kind)
<1> DEFINE js == {j \in BlockAt(f, h) : f[j].is = kind}
<1>1. js # {}
  BY DEF LastOf
<1>2. Len(f) \in Nat /\ js \in SUBSET (1..Len(f))
  <2>1. BlockAt(f, h) \subseteq DOMAIN f
    BY BlockInFile
  <2>2. Len(f) \in Nat /\ DOMAIN f = 1..Len(f)
    BY LinesOf
  <2> QED BY <2>1, <2>2
<1>3. Max(js) \in js
  BY <1>1, <1>2, MaxOf
<1>4. LastOf(f, h, kind) = f[Max(js)]
  BY <1>1 DEF LastOf
<1> QED BY <1>3, <1>4 DEF HasLast

LEMMA NoNameIsOwn == NoKey.name \notin Names /\ Text("").key = NoKey /\ Text("").ip = NoIP
BY NamesAssumption DEF NoKey, Text

\* The blocks that hold a key of the worker are those that have it in their second line.
LEMMA HeaderOfOwn ==
    ASSUME NEW f \in Seq(Line), NEW ps, BlocksShaped(f, ps), NEW h \in PeerHeaders(f),
           NEW j \in BlockAt(f, h), j \in OwnKeys(f)
    PROVE  j = h+1
<1>1. h \in DOMAIN f /\ f[h].is \in Headers /\ Len(f) \in Nat /\ DOMAIN f = 1..Len(f)
  BY DEF PeerHeaders, Headers
<1>2. j-1 \in DOMAIN f /\ f[j-1].is = "[Peer]" /\ f[j].is = "PublicKey" /\ j \in DOMAIN f
  BY DEF BlocksShaped, OwnKeys
<1>3. f[j-1].is \in Headers /\ f[j].is \notin Headers
  BY <1>2 DEF Headers
<1>4. j-1 <= j /\ \A k \in (j-1)+1..j : f[k].is \notin Headers
  BY <1>1, <1>2, <1>3
<1>5. j-1 \in BlockAt(f, h)
  BY <1>1, <1>2, <1>4, SameBlock
<1>6. j-1 = h
  BY <1>1, <1>3, <1>5, OneHeader
<1> QED BY <1>1, <1>2, <1>6

LEMMA OwnHeaderIs ==
    ASSUME NEW f \in Seq(Line), NEW ps, BlocksShaped(f, ps), NEW h \in PeerHeaders(f)
    PROVE  LastOf(f, h, "PublicKey").key.name \in Names <=> h+1 \in OwnKeys(f)
<1>1. h \in DOMAIN f /\ Len(f) \in Nat /\ DOMAIN f = 1..Len(f)
  BY DEF PeerHeaders
<1>2. ASSUME h+1 \in OwnKeys(f)
      PROVE  LastOf(f, h, "PublicKey").key.name \in Names
  <2>1. LastOf(f, (h+1)-1, "PublicKey") = f[h+1]
    BY <1>2, OwnBlockParsed
  <2>2. (h+1)-1 = h
    BY <1>1
  <2> QED BY <1>2, <2>1, <2>2 DEF OwnKeys
<1>3. ASSUME LastOf(f, h, "PublicKey").key.name \in Names
      PROVE  h+1 \in OwnKeys(f)
  <2>1. LastOf(f, h, "PublicKey") # Text("")
    BY <1>3, NoNameIsOwn
  <2>5. h \in DOMAIN f
    BY <1>1
  <2>6. HasLast(f, h, "PublicKey")
    BY <2>1, <2>5, LastOfIs
  <2>2. PICK j \in BlockAt(f, h) : LastOf(f, h, "PublicKey") = f[j]
    BY <2>6 DEF HasLast
  <2>3. j \in OwnKeys(f)
    BY <1>1, <1>3, <2>2, BlockInFile DEF OwnKeys
  <2>4. j = h+1
    BY <2>3, HeaderOfOwn
  <2> QED BY <2>3, <2>4
<1> QED BY <1>2, <1>3

----------------------------------------------------------------------------
(* The lines that are not the worker's *)

\* Told from the lines next to them.
Others(f) == {i \in DOMAIN f : /\ InForce(f[i])
                               /\ i \notin OwnKeys(f) /\ i-1 \notin OwnKeys(f) /\ i+1 \notin OwnKeys(f)}

LEMMA NotOursIs ==
    ASSUME file \in Seq(Line), NEW ps, BlocksShaped(file, ps)
    PROVE  NotOurs = Kept(file, Others(file))
<1> DEFINE heads == {h \in DOMAIN file : OwnHeader(h)}
           own == UNION {BlockAt(file, i) : i \in heads}
<1>1. \A h \in DOMAIN file : h \in heads <=> h \in PeerHeaders(file) /\ h+1 \in OwnKeys(file)
  BY OwnHeaderIs DEF OwnHeader
<1>2. Len(file) \in Nat /\ DOMAIN file = 1..Len(file)
  OBVIOUS
<1>3. ASSUME NEW i \in DOMAIN file, i \in own, InForce(file[i])
      PROVE  i \in OwnKeys(file) \/ i-1 \in OwnKeys(file) \/ i+1 \in OwnKeys(file)
  <2>1. PICK h \in heads : i \in BlockAt(file, h)
    BY <1>3
  <2>2. h \in DOMAIN file /\ h+1 \in OwnKeys(file) /\ (h+1)-1 = h /\ i \in Nat
    BY <1>1, <1>2, <2>1
  <2>3. i \in {h, h+1, (h+1)+1}
    BY <1>3, <2>1, <2>2, OwnBlock
  <2> QED BY <2>2, <2>3
<1>4. ASSUME NEW i \in DOMAIN file, NEW k \in OwnKeys(file), i \in {k-1, k, k+1}
      PROVE  i \in own
  <2>1. k \in Nat /\ k-1 \in PeerHeaders(file) /\ i \in BlockAt(file, k-1)
    BY <1>4, OwnBlock
  <2>2. k-1 \in heads
    BY <1>1, <2>1 DEF PeerHeaders
  <2> QED BY <2>1, <2>2
<1>5. {i \in DOMAIN file \ own : InForce(file[i])} = Others(file)
  <2>1. ASSUME NEW i \in DOMAIN file, InForce(file[i])
        PROVE  i \notin own <=> i \in Others(file)
    <3>1. i \in OwnKeys(file) => i \in own
      BY <1>4
    <3>2. i-1 \in OwnKeys(file) => i \in own
      BY <1>2, <1>4
    <3>3. i+1 \in OwnKeys(file) => i \in own
      BY <1>2, <1>4
    <3> QED BY <1>3, <2>1, <3>1, <3>2, <3>3 DEF Others
  <2> QED BY <2>1 DEF Others
<1> QED BY <1>5 DEF NotOurs

\* Both in force and no key of the worker far and wide.
LEMMA AllOthers ==
    ASSUME NEW f \in Seq(Line), OwnKeys(f) = {}
    PROVE  AllInForce(f) = Kept(f, Others(f))
<1>1. Others(f) = {i \in DOMAIN f : InForce(f[i])}
  BY DEF Others
<1> QED BY <1>1 DEF AllInForce

----------------------------------------------------------------------------
(* What is appended *)

\* What is in force stands below a header.
BelowHeaders(t) == \A i \in DOMAIN t : InForce(t[i]) => \E h \in 1..i : t[h].is \in Headers

LEMMA Appending ==
    ASSUME NEW f \in Seq(Line), NEW t \in Seq(Line)
    PROVE  /\ f \o t \in Seq(Line)
           /\ Len(f) \in Nat /\ DOMAIN f = 1..Len(f)
           /\ Len(t) \in Nat /\ DOMAIN t = 1..Len(t)
           /\ DOMAIN (f \o t) = 1..Len(f) + Len(t) /\ Len(f \o t) = Len(f) + Len(t)
           /\ \A i \in DOMAIN f : i \in DOMAIN (f \o t) /\ (f \o t)[i] = f[i]
           /\ \A i \in DOMAIN t : Len(f) + i \in DOMAIN (f \o t) /\ (f \o t)[Len(f) + i] = t[i]
           /\ \A i \in DOMAIN (f \o t) : i \in DOMAIN f
                \/ (i - Len(f) \in DOMAIN t /\ i = Len(f) + (i - Len(f)))
           /\ \A i \in DOMAIN (f \o t) : i > Len(f) => i \notin DOMAIN f /\ i - Len(f) \in DOMAIN t
<1>1. Len(f) \in Nat /\ DOMAIN f = 1..Len(f) /\ Len(t) \in Nat /\ DOMAIN t = 1..Len(t)
  OBVIOUS
<1>2. /\ f \o t \in Seq(Line) /\ Len(f \o t) = Len(f) + Len(t)
      /\ \A i \in 1..Len(f) + Len(t) : (f \o t)[i] = IF i <= Len(f) THEN f[i] ELSE t[i - Len(f)]
  BY ConcatProperties
<1>3. DOMAIN (f \o t) = 1..Len(f) + Len(t)
  BY <1>2
<1>4. ASSUME NEW i \in DOMAIN f
      PROVE  i \in DOMAIN (f \o t) /\ (f \o t)[i] = f[i]
  BY <1>1, <1>2, <1>3
<1>5. ASSUME NEW i \in DOMAIN t
      PROVE  Len(f) + i \in DOMAIN (f \o t) /\ (f \o t)[Len(f) + i] = t[i]
  <2>1. Len(f) + i \in 1..Len(f) + Len(t) /\ ~(Len(f) + i <= Len(f)) /\ (Len(f) + i) - Len(f) = i
    BY <1>1
  <2> QED BY <1>2, <1>3, <2>1
<1>6. ASSUME NEW i \in DOMAIN (f \o t)
      PROVE  i \in DOMAIN f \/ (i - Len(f) \in DOMAIN t /\ i = Len(f) + (i - Len(f)))
  BY <1>1, <1>3
<1>7. ASSUME NEW i \in DOMAIN (f \o t), i > Len(f)
      PROVE  i \notin DOMAIN f /\ i - Len(f) \in DOMAIN t
  BY <1>1, <1>3, <1>7
<1> QED BY <1>1, <1>2, <1>3, <1>4, <1>5, <1>6, <1>7

LEMMA OwnKeysAppended ==
    ASSUME NEW f \in Seq(Line), NEW t \in Seq(Line)
    PROVE  OwnKeys(f \o t) = OwnKeys(f) \cup {Len(f) + i : i \in OwnKeys(t)}
<1> DEFINE g == f \o t
<1>1. ASSUME NEW i \in OwnKeys(g)
      PROVE  i \in OwnKeys(f) \cup {Len(f) + j : j \in OwnKeys(t)}
  <2>1. i \in DOMAIN g /\ g[i].key.name \in Names
    BY <1>1 DEF OwnKeys
  <2>2. CASE i \in DOMAIN f
    BY <2>1, <2>2, Appending DEF OwnKeys
  <2>3. CASE i - Len(f) \in DOMAIN t /\ i = Len(f) + (i - Len(f))
    <3>1. g[i] = t[i - Len(f)]
      BY <2>3, Appending
    <3>2. i - Len(f) \in OwnKeys(t)
      BY <2>1, <2>3, <3>1 DEF OwnKeys
    <3> HIDE DEF g
    <3> QED BY <2>3, <3>2
  <2> QED BY <2>1, <2>2, <2>3, Appending
<1>2. ASSUME NEW i \in OwnKeys(f)
      PROVE  i \in OwnKeys(g)
  <2>1. i \in DOMAIN f /\ f[i].key.name \in Names
    BY DEF OwnKeys
  <2>2. i \in DOMAIN g /\ g[i] = f[i]
    BY <2>1, Appending
  <2> QED BY <2>1, <2>2 DEF OwnKeys
<1>3. ASSUME NEW i \in OwnKeys(t)
      PROVE  Len(f) + i \in OwnKeys(g)
  <2>1. i \in DOMAIN t /\ t[i].key.name \in Names
    BY DEF OwnKeys
  <2>2. Len(f) + i \in DOMAIN g /\ g[Len(f) + i] = t[i]
    BY <2>1, Appending
  <2> QED BY <2>1, <2>2 DEF OwnKeys
<1> HIDE DEF g
<1>4. OwnKeys(g) = OwnKeys(f) \cup {Len(f) + i : i \in OwnKeys(t)}
  BY <1>1, <1>2, <1>3
<1> QED BY <1>4 DEF g

\* A block gains nothing that is in force.
LEMMA BlockAppended ==
    ASSUME NEW f \in Seq(Line), NEW t \in Seq(Line), BelowHeaders(t),
           NEW h \in DOMAIN f, NEW j \in BlockAt(f \o t, h), InForce((f \o t)[j])
    PROVE  j \in BlockAt(f, h)
<1> DEFINE g == f \o t
<1>1. g \in Seq(Line) /\ h \in DOMAIN g /\ j \in DOMAIN g
  BY Appending, BlockInFile
<1>2. h <= j /\ \A k \in h+1..j : g[k].is \notin Headers
  BY <1>1, InBlock
<1>3. Len(f) \in Nat /\ DOMAIN f = 1..Len(f) /\ DOMAIN g = 1..Len(f) + Len(t) /\ Len(t) \in Nat
      /\ DOMAIN t = 1..Len(t)
  BY Appending
<1>4. CASE j \in DOMAIN f
  <2>1. \A k \in h+1..j : f[k].is \notin Headers
    <3> TAKE k \in h+1..j
    <3>1. k \in DOMAIN f /\ g[k] = f[k]
      BY <1>3, <1>4, Appending
    <3> QED BY <1>2, <3>1
  <2> QED BY <1>2, <1>4, <2>1, InBlock
<1>5. CASE j - Len(f) \in DOMAIN t /\ j = Len(f) + (j - Len(f))
  <2>1. g[j] = t[j - Len(f)]
    BY <1>5, Appending
  <2>2. PICK k \in 1..j - Len(f) : t[k].is \in Headers
    BY <1>5, <2>1 DEF BelowHeaders
  <2>3. k \in DOMAIN t /\ Len(f) + k \in h+1..j
    BY <1>3, <1>5
  <2>4. g[Len(f) + k] = t[k]
    <3>1. \A i \in DOMAIN t : (f \o t)[Len(f) + i] = t[i]
      BY Appending
    <3> QED BY <2>3, <3>1
  <2> QED BY <1>2, <2>2, <2>3, <2>4
<1> QED BY <1>1, <1>4, <1>5, Appending

\* A whole section appended: its own keys have blocks of the right shape in it.
LEMMA ShapeAppended ==
    ASSUME NEW f \in Seq(Line), NEW ps, NEW t \in Seq(Line), NEW qs, ps \subseteq qs,
           BlocksShaped(f, ps), BlocksShaped(t, qs), BelowHeaders(t)
    PROVE  BlocksShaped(f \o t, qs)
<1> DEFINE g == f \o t
           n == Len(f)
<1>1. /\ g \in Seq(Line) /\ n \in Nat /\ DOMAIN f = 1..n /\ Len(t) \in Nat /\ DOMAIN t = 1..Len(t)
      /\ DOMAIN g = 1..n + Len(t)
      /\ \A i \in DOMAIN f : i \in DOMAIN g /\ g[i] = f[i]
      /\ \A i \in DOMAIN t : n + i \in DOMAIN g /\ g[n + i] = t[i]
  BY Appending
<1>2. OwnKeys(g) = OwnKeys(f) \cup {n + i : i \in OwnKeys(t)}
  BY OwnKeysAppended
<1>3. ASSUME NEW i \in OwnKeys(f)
      PROVE  /\ g[i].is = "PublicKey"
             /\ i-1 \in DOMAIN g /\ g[i-1].is = "[Peer]"
             /\ i+1 \in DOMAIN g /\ g[i+1].is \in IPKinds
             /\ \E e \in qs : e.key = g[i].key /\ e.ip = g[i+1].ip
             /\ \A j \in BlockAt(g, i-1) : j > i+1 => ~InForce(g[j])
  <2>1. /\ f[i].is = "PublicKey"
        /\ i-1 \in DOMAIN f /\ f[i-1].is = "[Peer]"
        /\ i+1 \in DOMAIN f /\ f[i+1].is \in IPKinds
        /\ \E e \in ps : e.key = f[i].key /\ e.ip = f[i+1].ip
        /\ \A j \in BlockAt(f, i-1) : j > i+1 => ~InForce(f[j])
    BY DEF BlocksShaped
  <2>2. i \in DOMAIN f
    BY DEF OwnKeys
  <2>3. g[i] = f[i] /\ g[i-1] = f[i-1] /\ g[i+1] = f[i+1] /\ i-1 \in DOMAIN g /\ i+1 \in DOMAIN g
    BY <1>1, <2>1, <2>2
  <2>4. ASSUME NEW j \in BlockAt(g, i-1), j > i+1
        PROVE  ~InForce(g[j])
    <3> SUFFICES ASSUME InForce(g[j])  PROVE FALSE
      OBVIOUS
    <3>1. j \in BlockAt(f, i-1)
      BY <2>1, BlockAppended
    <3>2. j \in DOMAIN f
      BY <2>1, <3>1, BlockInFile
    <3>3. g[j] = f[j]
      BY <1>1, <3>2
    <3> QED BY <2>1, <2>4, <3>1, <3>3
  <2> HIDE DEF g
  <2> QED BY <2>1, <2>3, <2>4
<1>4. ASSUME NEW i \in OwnKeys(t), NEW k, k = n + i
      PROVE  /\ g[k].is = "PublicKey"
             /\ k-1 \in DOMAIN g /\ g[k-1].is = "[Peer]"
             /\ k+1 \in DOMAIN g /\ g[k+1].is \in IPKinds
             /\ \E e \in qs : e.key = g[k].key /\ e.ip = g[k+1].ip
             /\ \A j \in BlockAt(g, k-1) : j > k+1 => ~InForce(g[j])
  <2>1. /\ t[i].is = "PublicKey"
        /\ i-1 \in DOMAIN t /\ t[i-1].is = "[Peer]"
        /\ i+1 \in DOMAIN t /\ t[i+1].is \in IPKinds
        /\ \E e \in qs : e.key = t[i].key /\ e.ip = t[i+1].ip
        /\ \A j \in BlockAt(t, i-1) : j > i+1 => ~InForce(t[j])
    BY DEF BlocksShaped
  <2>2. i \in DOMAIN t
    BY DEF OwnKeys
  <2>3. k-1 = n + (i-1) /\ k+1 = n + (i+1) /\ i \in Nat /\ k \in Nat
    BY <1>1, <1>4, <2>2
  <2>4. g[k] = t[i] /\ g[k-1] = t[i-1] /\ g[k+1] = t[i+1] /\ k-1 \in DOMAIN g /\ k+1 \in DOMAIN g
    BY <1>1, <1>4, <2>1, <2>2, <2>3
  <2>5. ASSUME NEW j \in BlockAt(g, k-1), j > k+1
        PROVE  ~InForce(g[j])
    <3>1. j \in DOMAIN g /\ j \in Nat
      <4>1. j \in DOMAIN g
        BY <1>1, <2>4, BlockInFile
      <4> QED BY <1>1, <4>1
    <3>2. k-1 <= j /\ \A h \in (k-1)+1..j : g[h].is \notin Headers
      BY <1>1, <2>4, <3>1, InBlock
    <3> DEFINE l == j - n
    <3>3. l \in DOMAIN t /\ l \in Nat /\ j = n + l /\ i-1 <= l /\ l > i+1
      <4>1. j > n
        BY <1>1, <1>4, <2>3, <2>5, <3>1
      <4>2. l \in 1..Len(t)
        BY <1>1, <3>1, <4>1
      <4> QED BY <1>1, <1>4, <2>3, <2>5, <3>1, <4>2
    <3> HIDE DEF l
    <3>4. \A h \in (i-1)+1..l : t[h].is \notin Headers
      <4> TAKE h \in (i-1)+1..l
      <4>1. i-1 \in 1..Len(t) /\ l \in 1..Len(t)
        BY <1>1, <2>1, <3>3
      <4>5. h \in Nat /\ i-1 < h /\ h <= l /\ h \in 1..Len(t)
        BY <1>1, <4>1
      <4>6. n + h \in Nat /\ k-1 < n + h /\ n + h <= j /\ k-1 \in Nat
        <5>1. k-1 = n + (i-1) /\ j = n + l /\ n \in Nat /\ l \in Nat /\ i-1 \in Nat
          BY <1>1, <2>3, <3>3, <4>1
        <5> QED BY <4>5, <5>1
      <4>2. h \in 1..Len(t) /\ n + h \in (k-1)+1..j
        BY <3>1, <4>5, <4>6, Between
      <4>3. g[n + h] = t[h]
        BY <1>1, <4>2
      <4> QED BY <3>2, <4>2, <4>3
    <3>5. l \in BlockAt(t, i-1)
      BY <2>1, <3>3, <3>4, InBlock
    <3> QED BY <1>1, <2>1, <3>3, <3>5
  <2> HIDE DEF g
  <2> QED BY <2>1, <2>4, <2>5
<1> HIDE DEF g, n
<1>5. BlocksShaped(g, qs)
  <2> SUFFICES ASSUME NEW k \in OwnKeys(g)
               PROVE  /\ g[k].is = "PublicKey"
                      /\ k-1 \in DOMAIN g /\ g[k-1].is = "[Peer]"
                      /\ k+1 \in DOMAIN g /\ g[k+1].is \in IPKinds
                      /\ \E e \in qs : e.key = g[k].key /\ e.ip = g[k+1].ip
                      /\ \A j \in BlockAt(g, k-1) : j > k+1 => ~InForce(g[j])
    BY DEF BlocksShaped
  <2>1. k \in OwnKeys(f) \/ \E i \in OwnKeys(t) : k = n + i
    BY <1>2
  <2> QED BY <1>3, <1>4, <2>1
<1> QED BY <1>5 DEF g

\* What a whole section shelters stays sheltered behind other lines, and those as well.
LEMMA ShelterAppended ==
    ASSUME NEW f \in Seq(Line), NEW t \in Seq(Line), AllSheltered(f),
           \A j \in DOMAIN t : t[j].is \in IPKinds =>
              \/ j-1 \in OwnKeys(t)
              \/ \E c \in 1..j-1 : /\ c \notin OwnKeys(t) /\ t[c].is \in Marks
                                   /\ \A k \in c+1..j : t[k].is \notin Marks \cup Headers
    PROVE  AllSheltered(f \o t)
<1> DEFINE g == f \o t
           n == Len(f)
<1>1. /\ g \in Seq(Line) /\ n \in Nat /\ DOMAIN f = 1..n /\ Len(t) \in Nat /\ DOMAIN t = 1..Len(t)
      /\ DOMAIN g = 1..n + Len(t)
      /\ \A i \in DOMAIN f : i \in DOMAIN g /\ g[i] = f[i]
      /\ \A i \in DOMAIN t : n + i \in DOMAIN g /\ g[n + i] = t[i]
      /\ \A i \in DOMAIN g : i \in DOMAIN f \/ (i - n \in DOMAIN t /\ i = n + (i - n))
  BY Appending
<1>2. OwnKeys(g) = OwnKeys(f) \cup {n + i : i \in OwnKeys(t)} /\ OwnKeys(t) \subseteq DOMAIN t
  BY OwnKeysAppended DEF OwnKeys
<1>3. \A i \in DOMAIN f : i \in OwnKeys(g) <=> i \in OwnKeys(f)
  BY <1>1, <1>2
<1>4. \A i \in DOMAIN t : n + i \in OwnKeys(g) => i \in OwnKeys(t)
  <2> TAKE i \in DOMAIN t
  <2>1. n + i \notin OwnKeys(f)
    BY <1>1 DEF OwnKeys
  <2>2. \A l \in OwnKeys(t) : n + l = n + i => l = i
    BY <1>1, <1>2
  <2> QED BY <1>2, <2>1, <2>2
<1> HIDE DEF g, n
<1>5. ASSUME NEW j \in DOMAIN f, g[j].is \in IPKinds
      PROVE  Sheltered(g, j)
  <2>1. f[j].is \in IPKinds
    BY <1>1, <1>5
  <2>2. Sheltered(f, j)
    BY <2>1 DEF AllSheltered
  <2>3. CASE j-1 \in OwnKeys(f)
    BY <1>2, <2>3 DEF Sheltered
  <2>4. CASE \A i \in OwnKeys(f) : i > j
    <3>1. \A i \in OwnKeys(t) : n + i > j
      BY <1>1, <1>2
    <3>2. \A i \in OwnKeys(g) : i > j
      BY <1>2, <2>4, <3>1
    <3> QED BY <3>2 DEF Sheltered
  <2>5. ASSUME NEW c \in 1..j-1, c \notin OwnKeys(f), f[c].is \in Marks,
               \A k \in c+1..j : f[k].is \notin Marks \cup Headers
        PROVE  Sheltered(g, j)
    <3>1. c \in DOMAIN f /\ \A k \in c+1..j : k \in DOMAIN f
      BY <1>1
    <3>2. c \notin OwnKeys(g) /\ g[c].is \in Marks
      BY <1>1, <1>3, <2>5, <3>1
    <3>3. \A k \in c+1..j : g[k].is \notin Marks \cup Headers
      BY <1>1, <2>5, <3>1
    <3> QED BY <3>2, <3>3 DEF Sheltered
  <2> QED BY <2>2, <2>3, <2>4, <2>5 DEF Sheltered
<1>6. ASSUME NEW i \in DOMAIN t, NEW j, j = n + i, g[j].is \in IPKinds
      PROVE  Sheltered(g, j)
  <2>1. t[i].is \in IPKinds
    BY <1>1, <1>6
  <2>2. CASE i-1 \in OwnKeys(t)
    <3>1. n + (i-1) = j-1
      BY <1>1, <1>6
    <3> QED BY <1>2, <2>2, <3>1 DEF Sheltered
  <2>3. ASSUME NEW c \in 1..i-1, c \notin OwnKeys(t), t[c].is \in Marks,
               \A k \in c+1..i : t[k].is \notin Marks \cup Headers
        PROVE  Sheltered(g, j)
    <3> DEFINE d == n + c
    <3>1. c \in 1..Len(t) /\ d \in 1..j-1 /\ i \in Nat /\ j \in Nat /\ c \in Nat
      BY <1>1, <1>6
    <3>4. c \in DOMAIN t /\ g[d] = t[c]
      BY <1>1, <3>1
    <3>2. d \notin OwnKeys(g) /\ g[d].is \in Marks
      BY <1>4, <2>3, <3>4
    <3>3. ASSUME NEW k \in d+1..j
          PROVE  g[k].is \notin Marks \cup Headers
      <4>3. k \in Int /\ n + c + 1 <= k /\ k <= n + i
        BY <1>1, <1>6, <3>1
      <4>4. k - n \in c+1..i /\ k = n + (k - n)
        BY <1>1, <3>1, <4>3
      <4>1. k - n \in c+1..i /\ k - n \in DOMAIN t /\ k = n + (k - n)
        BY <1>1, <3>1, <4>4
      <4>2. g[k] = t[k - n]
        BY <1>1, <4>1
      <4> QED BY <2>3, <4>1, <4>2
    <3> HIDE DEF d
    <3> QED BY <3>1, <3>2, <3>3 DEF Sheltered
  <2> QED BY <2>1, <2>2, <2>3
<1>7. AllSheltered(g)
  <2> SUFFICES ASSUME NEW j \in DOMAIN g, g[j].is \in IPKinds  PROVE Sheltered(g, j)
    BY DEF AllSheltered
  <2> QED BY <1>1, <1>5, <1>6
<1> QED BY <1>7 DEF g

----------------------------------------------------------------------------
(* What is commented out *)

\* The key setPeersFrozen holds below a key of the worker is that key.
LEMMA CurPubOfOwn ==
    ASSUME NEW f \in Seq(Line), NEW ps, BlocksShaped(f, ps), NEW i \in OwnKeys(f)
    PROVE  CurPub(f, i+1) = f[i].key
<1> DEFINE js == {j \in 1..(i+1)-1 : f[j].is \in Marks}
<1>1. i \in Nat /\ i \in DOMAIN f /\ f[i].is = "PublicKey" /\ Len(f) \in Nat /\ DOMAIN f = 1..Len(f)
  <2>1. i \in DOMAIN f /\ f[i].is = "PublicKey"
    BY DEF OwnKeys, BlocksShaped
  <2>2. Len(f) \in Nat /\ DOMAIN f = 1..Len(f)
    BY LinesOf
  <2> QED BY <2>1, <2>2
<1>2. i \in js
  BY <1>1 DEF Marks
<1>3. Max(js) \in js /\ i <= Max(js)
  <2>1. js \in SUBSET (1..i) /\ js # {}
    BY <1>1, <1>2
  <2> HIDE DEF js
  <2> QED BY <1>1, <1>2, <2>1, MaxOf
<1>4. Max(js) = i
  BY <1>1, <1>3
<1>5. CurPub(f, i+1) = f[Max(js)].key
  BY <1>2 DEF CurPub, LastKeyAbove
<1> QED BY <1>4, <1>5

\* And elsewhere it holds none of them.
LEMMA CurPubElsewhere ==
    ASSUME NEW f \in Seq(Line), NEW j \in DOMAIN f, Sheltered(f, j), CurPub(f, j).name \in Names
    PROVE  j-1 \in OwnKeys(f)
<1> DEFINE js == {k \in 1..j-1 : f[k].is \in Marks}
<1>1. Len(f) \in Nat /\ DOMAIN f = 1..Len(f) /\ j \in Nat
  BY LinesOf
<1>2. js # {} /\ CurPub(f, j) = f[Max(js)].key
  BY NoNameIsOwn DEF CurPub, LastKeyAbove
<1>3. Max(js) \in js /\ \A k \in js : k <= Max(js)
  <2>1. j-1 \in Nat /\ js \in SUBSET (1..j-1) /\ js # {}
    BY <1>1, <1>2
  <2> HIDE DEF js
  <2> QED BY <2>1, MaxOf
<1> DEFINE l == Max(js)
<1>4. l \in 1..j-1 /\ l \in DOMAIN f /\ f[l].is \in Marks
  BY <1>1, <1>3
<1>5. l \in OwnKeys(f)
  BY <1>2, <1>4 DEF OwnKeys
<1> HIDE DEF l
<1>6. ASSUME NEW c \in 1..j-1, c \notin OwnKeys(f), f[c].is \in Marks,
             \A k \in c+1..j : f[k].is \notin Marks \cup Headers
      PROVE  FALSE
  <2>1. c <= l
    BY <1>3, <1>6 DEF l
  <2>2. l \notin c+1..j
    BY <1>4, <1>6
  <2>3. c = l
    BY <1>1, <1>4, <2>1, <2>2
  <2> QED BY <1>5, <1>6, <2>3
<1>7. ~\A i \in OwnKeys(f) : i > j
  BY <1>1, <1>4, <1>5
<1> QED BY <1>6, <1>7 DEF Sheltered

\* g differs from f in the state of addresses of the worker's alone.
Retouched(f, g) ==
    /\ g \in Seq(Line) /\ DOMAIN g = DOMAIN f
    /\ \A i \in DOMAIN f :
         /\ g[i].key = f[i].key /\ g[i].ip = f[i].ip
         /\ g[i] = f[i] \/ (i-1 \in OwnKeys(f) /\ f[i].is \in IPKinds /\ g[i].is \in IPKinds)

LEMMA ToggledRetouches ==
    ASSUME NEW f \in Seq(Line), NEW ps, BlocksShaped(f, ps), AllSheltered(f),
           NEW keys, \A k \in keys : k.name \in Names, NEW frozen
    PROVE  /\ Retouched(f, Toggled(f, keys, frozen))
           /\ \A i \in OwnKeys(f) : Toggled(f, keys, frozen)[i+1].is =
                IF f[i].key \in keys THEN IF frozen THEN "#AllowedIPs" ELSE "AllowedIPs"
                                     ELSE f[i+1].is
<1> DEFINE from == IF frozen THEN "AllowedIPs" ELSE "#AllowedIPs"
           to   == IF frozen THEN "#AllowedIPs" ELSE "AllowedIPs"
           g    == [i \in DOMAIN f |-> IF f[i].is = from /\ CurPub(f, i) \in keys
                                       THEN [f[i] EXCEPT !.is = to] ELSE f[i]]
<1>1. Toggled(f, keys, frozen) = g
  BY DEF Toggled
<1>2. Len(f) \in Nat /\ DOMAIN f = 1..Len(f)
  BY LinesOf
<1>3. from \in IPKinds /\ to \in IPKinds /\ IPKinds = {from, to}
  BY DEF IPKinds
<1>4. ASSUME NEW i \in DOMAIN f
      PROVE  /\ g[i] \in Line /\ g[i].key = f[i].key /\ g[i].ip = f[i].ip
             /\ g[i] = f[i] \/ (i-1 \in OwnKeys(f) /\ f[i].is \in IPKinds /\ g[i].is \in IPKinds)
             /\ g[i].is = IF f[i].is = from /\ CurPub(f, i) \in keys THEN to ELSE f[i].is
  <2>1. f[i] \in Line
    OBVIOUS
  <2>2. to \in Kinds
    BY DEF Kinds
  <2>3. CASE f[i].is = from /\ CurPub(f, i) \in keys
    <3>1. g[i] = [f[i] EXCEPT !.is = to]
      BY <2>3
    <3>2. Sheltered(f, i)
      BY <1>3, <2>3 DEF AllSheltered
    <3>3. i-1 \in OwnKeys(f)
      BY <2>3, <3>2, CurPubElsewhere
    <3> HIDE DEF g, from, to
    <3>4. g[i] \in Line /\ g[i].key = f[i].key /\ g[i].ip = f[i].ip /\ g[i].is = to
      BY <2>1, <2>2, <3>1 DEF Line, LineOf
    <3> QED BY <1>3, <2>3, <3>3, <3>4
  <2>4. CASE ~(f[i].is = from /\ CurPub(f, i) \in keys)
    <3>1. g[i] = f[i]
      BY <2>4
    <3> HIDE DEF g, from, to
    <3> QED BY <2>1, <2>4, <3>1
  <2> QED BY <2>3, <2>4
<1>5. g \in Seq(Line) /\ DOMAIN g = DOMAIN f
  <2>1. DOMAIN g = 1..Len(f)
    BY <1>2
  <2>2. g = [i \in 1..Len(f) |-> g[i]]
    BY <2>1
  <2>3. \A i \in 1..Len(f) : g[i] \in Line
    BY <1>2, <1>4
  <2> HIDE DEF g
  <2>4. g \in [1..Len(f) -> Line]
    BY <2>2, <2>3
  <2> QED BY <1>2, <2>1, <2>4
<1>6. ASSUME NEW i \in OwnKeys(f)
      PROVE  g[i+1].is = IF f[i].key \in keys THEN to ELSE f[i+1].is
  <2>1. i+1 \in DOMAIN f /\ f[i+1].is \in IPKinds
    BY DEF BlocksShaped
  <2>2. CurPub(f, i+1) = f[i].key
    BY CurPubOfOwn
  <2>3. g[i+1].is = IF f[i+1].is = from /\ CurPub(f, i+1) \in keys THEN to ELSE f[i+1].is
    BY <1>4, <2>1
  <2> HIDE DEF g, from, to
  <2> QED BY <1>3, <2>1, <2>2, <2>3
<1> HIDE DEF g
<1>7. Retouched(f, g)
  BY <1>4, <1>5 DEF Retouched
<1> QED BY <1>1, <1>6, <1>7

LEMMA RetouchedKeeps ==
    ASSUME NEW f \in Seq(Line), NEW g \in Seq(Line), Retouched(f, g), NEW ps, BlocksShaped(f, ps)
    PROVE  /\ OwnKeys(g) = OwnKeys(f)
           /\ \A i \in DOMAIN f : /\ g[i].is \in Headers <=> f[i].is \in Headers
                                  /\ g[i].is \in Marks <=> f[i].is \in Marks
                                  /\ g[i].is \in IPKinds <=> f[i].is \in IPKinds
                                  /\ i \in OwnKeys(f) => g[i] = f[i]
           /\ \A h, j \in DOMAIN f : j \in BlockAt(g, h) <=> j \in BlockAt(f, h)
<1>1. Len(f) \in Nat /\ DOMAIN f = 1..Len(f) /\ DOMAIN g = DOMAIN f
  BY LinesOf DEF Retouched
<1>2. OwnKeys(g) = OwnKeys(f)
  BY DEF Retouched, OwnKeys
<1>3. ASSUME NEW i \in DOMAIN f
      PROVE  /\ g[i].is \in Headers <=> f[i].is \in Headers
             /\ g[i].is \in Marks <=> f[i].is \in Marks
             /\ g[i].is \in IPKinds <=> f[i].is \in IPKinds
             /\ i \in OwnKeys(f) => g[i] = f[i]
  <2>1. g[i] = f[i] \/ (f[i].is \in IPKinds /\ g[i].is \in IPKinds)
    BY DEF Retouched
  <2>2. \A l : l \in IPKinds => l \notin Headers /\ l \notin Marks /\ l # "PublicKey"
    BY DEF IPKinds, Headers, Marks
  <2>3. i \in OwnKeys(f) => f[i].is = "PublicKey"
    BY DEF BlocksShaped
  <2> QED BY <2>1, <2>2, <2>3
<1>4. ASSUME NEW h \in DOMAIN f, NEW j \in DOMAIN f
      PROVE  j \in BlockAt(g, h) <=> j \in BlockAt(f, h)
  <2>1. h \in DOMAIN g /\ j \in DOMAIN g
    BY <1>1
  <2>2. j \in BlockAt(g, h) <=> h <= j /\ \A k \in h+1..j : g[k].is \notin Headers
    BY <2>1, InBlock
  <2>3. j \in BlockAt(f, h) <=> h <= j /\ \A k \in h+1..j : f[k].is \notin Headers
    BY InBlock
  <2>4. \A k \in h+1..j : k \in DOMAIN f
    BY <1>1
  <2> QED BY <1>3, <2>2, <2>3, <2>4
<1> QED BY <1>2, <1>3, <1>4

LEMMA ShapeRetouched ==
    ASSUME NEW f \in Seq(Line), NEW g \in Seq(Line), Retouched(f, g), NEW ps, BlocksShaped(f, ps)
    PROVE  /\ BlocksShaped(g, ps)
           /\ OneBlockEach(f, ps) => OneBlockEach(g, ps)
           /\ AllSheltered(f) => AllSheltered(g)
           /\ Kept(g, Others(g)) = Kept(f, Others(f))
<1>1. /\ OwnKeys(g) = OwnKeys(f) /\ DOMAIN g = DOMAIN f
      /\ Len(f) \in Nat /\ DOMAIN f = 1..Len(f)
      /\ \A i \in DOMAIN f : /\ g[i].is \in Headers <=> f[i].is \in Headers
                             /\ g[i].is \in Marks <=> f[i].is \in Marks
                             /\ g[i].is \in IPKinds <=> f[i].is \in IPKinds
                             /\ i \in OwnKeys(f) => g[i] = f[i]
      /\ \A h, j \in DOMAIN f : j \in BlockAt(g, h) <=> j \in BlockAt(f, h)
  BY RetouchedKeeps, LinesOf DEF Retouched
<1>2. \A i \in DOMAIN f :
         /\ g[i].key = f[i].key /\ g[i].ip = f[i].ip
         /\ g[i] = f[i] \/ i-1 \in OwnKeys(f)
  BY DEF Retouched
<1>3. ASSUME NEW i \in OwnKeys(g)
      PROVE  /\ g[i].is = "PublicKey"
             /\ i-1 \in DOMAIN g /\ g[i-1].is = "[Peer]"
             /\ i+1 \in DOMAIN g /\ g[i+1].is \in IPKinds
             /\ \E e \in ps : e.key = g[i].key /\ e.ip = g[i+1].ip
             /\ \A j \in BlockAt(g, i-1) : j > i+1 => ~InForce(g[j])
  <2>1. i \in OwnKeys(f) /\ i \in DOMAIN f /\ i \in Nat
    BY <1>1 DEF OwnKeys
  <2>2. /\ f[i].is = "PublicKey"
        /\ i-1 \in DOMAIN f /\ f[i-1].is = "[Peer]"
        /\ i+1 \in DOMAIN f /\ f[i+1].is \in IPKinds
        /\ \E e \in ps : e.key = f[i].key /\ e.ip = f[i+1].ip
        /\ \A j \in BlockAt(f, i-1) : j > i+1 => ~InForce(f[j])
    BY <2>1 DEF BlocksShaped
  <2>3. g[i] = f[i] /\ g[i+1].ip = f[i+1].ip /\ g[i+1].is \in IPKinds
    BY <1>1, <1>2, <2>1, <2>2
  <2>4. g[i-1] = f[i-1]
    <3>1. (i-1)-1 \notin OwnKeys(f)
      <4> SUFFICES ASSUME (i-1)-1 \in OwnKeys(f)  PROVE FALSE
        OBVIOUS
      <4>1. ((i-1)-1)+1 = i-1
        BY <2>1
      <4>2. f[i-1].is \in IPKinds
        BY <4>1 DEF BlocksShaped
      <4> QED BY <2>2, <4>2 DEF IPKinds
    <3> QED BY <1>2, <2>2, <3>1
  <2>5. ASSUME NEW j \in BlockAt(g, i-1), j > i+1
        PROVE  ~InForce(g[j])
    <3>1. j \in DOMAIN f /\ j \in BlockAt(f, i-1)
      BY <1>1, <2>2, BlockInFile
    <3>2. ~InForce(f[j])
      BY <2>2, <2>5, <3>1
    <3>3. j-1 \notin OwnKeys(f)
      <4> SUFFICES ASSUME j-1 \in OwnKeys(f)  PROVE FALSE
        OBVIOUS
      <4>1. (j-1)-1 \in DOMAIN f /\ f[(j-1)-1].is = "[Peer]"
        BY DEF BlocksShaped
      <4>2. \A k \in (i-1)+1..j : f[k].is \notin Headers
        BY <2>2, <3>1, InBlock
      <4>3. j \in Nat /\ (j-1)-1 \in (i-1)+1..j
        BY <1>1, <2>1, <2>5, <3>1
      <4> QED BY <4>1, <4>2, <4>3 DEF Headers
    <3> QED BY <1>2, <3>1, <3>2, <3>3
  <2> QED BY <1>1, <2>2, <2>3, <2>4, <2>5
<1>4. BlocksShaped(g, ps)
  BY <1>3 DEF BlocksShaped
<1>5. ASSUME OneBlockEach(f, ps)
      PROVE  OneBlockEach(g, ps)
  <2>1. \A i \in OwnKeys(f) : g[i].key = f[i].key
    BY <1>2 DEF OwnKeys
  <2> QED BY <1>1, <1>5, <2>1 DEF OneBlockEach
<1>6. ASSUME AllSheltered(f), NEW j \in DOMAIN g, g[j].is \in IPKinds
      PROVE  Sheltered(g, j)
  <2>1. Sheltered(f, j)
    BY <1>1, <1>6 DEF AllSheltered
  <2>2. ASSUME NEW c \in 1..j-1, c \notin OwnKeys(f), f[c].is \in Marks,
               \A k \in c+1..j : f[k].is \notin Marks \cup Headers
        PROVE  Sheltered(g, j)
    <3>1. c \in DOMAIN f /\ \A k \in c+1..j : k \in DOMAIN f
      BY <1>1
    <3>2. c \notin OwnKeys(g) /\ g[c].is \in Marks
      BY <1>1, <2>2, <3>1
    <3>3. \A k \in c+1..j : g[k].is \notin Marks \cup Headers
      BY <1>1, <2>2, <3>1
    <3> QED BY <3>2, <3>3 DEF Sheltered
  <2> QED BY <1>1, <2>1, <2>2 DEF Sheltered
<1>7. Others(g) = Others(f) /\ \A i \in Others(f) : g[i] = f[i]
  <2>1. ASSUME NEW i \in DOMAIN f, i-1 \notin OwnKeys(f)
        PROVE  g[i] = f[i]
    BY <1>2, <2>1
  <2> QED BY <1>1, <2>1 DEF Others
<1>8. Kept(g, Others(g)) = Kept(f, Others(f))
  <2>1. Others(f) \in SUBSET DOMAIN f /\ Others(f) \in SUBSET DOMAIN g
    BY <1>1 DEF Others
  <2> QED BY <1>7, <2>1, KeptSame
<1> QED BY <1>4, <1>5, <1>6, <1>8 DEF AllSheltered

----------------------------------------------------------------------------
(* What is removed *)

\* The blocks of the worker with one of the keys.
Gone(f, keys) == UNION {BlockAt(f, i-1) : i \in {k \in OwnKeys(f) : f[k].key \in keys}}

Left(f, keys) == DOMAIN f \ Gone(f, keys)

LEMMA RemovedIs ==
    ASSUME NEW f \in Seq(Line), NEW ps, BlocksShaped(f, ps),
           NEW keys, \A k \in keys : k.name \in Names
    PROVE  Removed(f, keys) = Kept(f, Left(f, keys))
<1> DEFINE heads == {h \in PeerHeaders(f) :
                        \E j \in BlockAt(f, h) : f[j].is = "PublicKey" /\ f[j].key \in keys}
           mine == {k \in OwnKeys(f) : f[k].key \in keys}
<1>1. Len(f) \in Nat /\ DOMAIN f = 1..Len(f)
  BY LinesOf
<1>2. ASSUME NEW h \in heads
      PROVE  \E i \in mine : h = i-1
  <2>1. PICK j \in BlockAt(f, h) : f[j].is = "PublicKey" /\ f[j].key \in keys
    OBVIOUS
  <2>2. h \in PeerHeaders(f) /\ h \in DOMAIN f
    BY DEF PeerHeaders
  <2>3. j \in OwnKeys(f)
    BY <2>1, <2>2, BlockInFile DEF OwnKeys
  <2>4. j = h+1
    BY <2>2, <2>3, HeaderOfOwn
  <2> QED BY <1>1, <2>1, <2>2, <2>3, <2>4
<1>3. ASSUME NEW i \in mine
      PROVE  i-1 \in heads
  <2>1. i \in OwnKeys(f) /\ f[i].key \in keys /\ f[i].is = "PublicKey"
    BY DEF BlocksShaped
  <2>2. i-1 \in PeerHeaders(f) /\ i \in BlockAt(f, i-1)
    BY <2>1, OwnBlock
  <2> QED BY <2>1, <2>2
<1> HIDE DEF heads, mine
<1>4. UNION {BlockAt(f, h) : h \in heads} = UNION {BlockAt(f, i-1) : i \in mine}
  BY <1>2, <1>3
<1> QED BY <1>4 DEF Removed, Left, Gone, heads, mine

LEMMA GoneWhole ==
    ASSUME NEW f \in Seq(Line), NEW ps, BlocksShaped(f, ps), NEW keys,
           NEW i \in DOMAIN f, NEW j \in DOMAIN f, i <= j,
           \A k \in i+1..j : f[k].is \notin Headers
    PROVE  i \in Left(f, keys) <=> j \in Left(f, keys)
<1>1. ASSUME NEW l \in OwnKeys(f)
      PROVE  i \in BlockAt(f, l-1) <=> j \in BlockAt(f, l-1)
  <2>1. l-1 \in DOMAIN f /\ f[l-1].is \in Headers
    BY DEF BlocksShaped, Headers
  <2> QED BY <2>1, SameBlock
<1>2. i \in Gone(f, keys) <=> j \in Gone(f, keys)
  BY <1>1 DEF Gone
<1> QED BY <1>2 DEF Left

\* With a key its whole block is removed, and with the header its key.
LEMMA GoneOwn ==
    ASSUME NEW f \in Seq(Line), NEW ps, BlocksShaped(f, ps), NEW keys, NEW i \in OwnKeys(f)
    PROVE  /\ i \in Left(f, keys) <=> f[i].key \notin keys
           /\ i-1 \in Left(f, keys) <=> i \in Left(f, keys)
           /\ i+1 \in Left(f, keys) <=> i \in Left(f, keys)
<1>1. /\ i \in DOMAIN f /\ i-1 \in DOMAIN f /\ i+1 \in DOMAIN f /\ i \in Nat
      /\ f[i].is \notin Headers /\ f[i+1].is \notin Headers
      /\ f[i-1].is \in Headers
  <2>1. /\ i \in DOMAIN f /\ i-1 \in DOMAIN f /\ i+1 \in DOMAIN f
        /\ f[i].is = "PublicKey" /\ f[i+1].is \in IPKinds /\ f[i-1].is = "[Peer]"
    BY DEF OwnKeys, BlocksShaped
  <2> QED BY <2>1, LinesOf DEF IPKinds, Headers
<1>2. i-1 <= i /\ \A k \in (i-1)+1..i : k = i
  BY <1>1
<1>3. i-1 \in Left(f, keys) <=> i \in Left(f, keys)
  BY <1>1, <1>2, GoneWhole
<1>4. i <= i+1 /\ \A k \in i+1..i+1 : k = i+1
  BY <1>1
<1>5. i+1 \in Left(f, keys) <=> i \in Left(f, keys)
  BY <1>1, <1>4, GoneWhole
<1>6. i \in BlockAt(f, i-1)
  BY <1>1, OwnBlock
<1>7. ASSUME i \in Gone(f, keys)
      PROVE  f[i].key \in keys
  <2>1. PICK l \in OwnKeys(f) : f[l].key \in keys /\ i \in BlockAt(f, l-1)
    BY <1>7 DEF Gone
  <2>2. l-1 \in PeerHeaders(f) /\ l \in Nat
    BY OwnBlock
  <2>3. i = (l-1)+1
    BY <2>1, <2>2, HeaderOfOwn
  <2>4. i = l
    BY <2>2, <2>3
  <2> QED BY <2>1, <2>4
<1>8. f[i].key \in keys => i \in Gone(f, keys)
  BY <1>6 DEF Gone
<1> QED BY <1>1, <1>3, <1>5, <1>7, <1>8 DEF Left

\* A header that goes takes the lines below it along, to the next one.
LEMMA GoneBelow ==
    ASSUME NEW f \in Seq(Line), NEW ps, BlocksShaped(f, ps), NEW keys,
           NEW i \in DOMAIN f, NEW j \in Left(f, keys), i <= j,
           \A k \in i+1..j : k \in Left(f, keys) => f[k].is \notin Headers
    PROVE  \A k \in i+1..j : f[k].is \notin Headers
<1> DEFINE hs == {k \in i+1..j : f[k].is \in Headers}
<1> SUFFICES ASSUME hs # {}  PROVE FALSE
  OBVIOUS
<1>1. Len(f) \in Nat /\ DOMAIN f = 1..Len(f)
  BY LinesOf
<1>2. i \in Nat /\ j \in Nat /\ j \in DOMAIN f
  BY <1>1 DEF Left
<1> DEFINE h == Max(hs)
<1>3. h \in hs /\ \A k \in hs : k <= h
  <2>1. hs \in SUBSET (1..j)
    BY <1>2
  <2> HIDE DEF hs
  <2> QED BY <1>2, <2>1, MaxOf
<1>4. h \in i+1..j /\ f[h].is \in Headers /\ h \in DOMAIN f /\ h \in Nat
  BY <1>1, <1>2, <1>3
<1>5. h \notin Left(f, keys)
  BY <1>4
<1>6. \A k \in h+1..j : f[k].is \notin Headers
  <2> SUFFICES ASSUME NEW k \in h+1..j, f[k].is \in Headers  PROVE FALSE
    OBVIOUS
  <2>1. k \in hs
    BY <1>2, <1>4
  <2> HIDE DEF hs, h
  <2>2. k <= h
    BY <1>3, <2>1
  <2> QED BY <1>4, <2>2
<1> HIDE DEF h
<1>7. h <= j
  BY <1>2, <1>4
<1> QED BY <1>2, <1>4, <1>5, <1>6, <1>7, GoneWhole

\* g is f without the blocks, and q says where a line of g was.
Cut(f, keys, q, g) ==
    /\ Enumerates(q, Len(g), Left(f, keys))
    /\ g = Kept(f, Left(f, keys))

LEMMA CutExists ==
    ASSUME NEW f \in Seq(Line), NEW keys
    PROVE  Kept(f, Left(f, keys)) \in Seq(Line) /\ \E q : Cut(f, keys, q, Kept(f, Left(f, keys)))
<1>1. Len(f) \in Nat /\ Left(f, keys) \in SUBSET (1..Len(f)) /\ Left(f, keys) \in SUBSET DOMAIN f
  BY LinesOf DEF Left
<1>2. PICK q, m : Enumerates(q, m, Left(f, keys))
  BY <1>1, EnumerationExists
<1>3. Kept(f, Left(f, keys)) \in Seq(Line) /\ Len(Kept(f, Left(f, keys))) = m
  BY <1>1, <1>2, KeptIs
<1> QED BY <1>2, <1>3 DEF Cut

LEMMA CutLines ==
    ASSUME NEW f \in Seq(Line), NEW keys, NEW q, NEW g, Cut(f, keys, q, g)
    PROVE  /\ g \in Seq(Line) /\ Len(g) \in Nat /\ DOMAIN g = 1..Len(g)
           /\ \A k \in DOMAIN g : /\ q[k] \in Left(f, keys) /\ q[k] \in DOMAIN f /\ q[k] \in Nat
                                  /\ g[k] = f[q[k]]
           /\ \A k, l \in DOMAIN g : (k < l <=> q[k] < q[l]) /\ (k = l <=> q[k] = q[l])
           /\ \A i \in Left(f, keys) : \E k \in DOMAIN g : q[k] = i
<1>1. Enumerates(q, Len(g), Left(f, keys)) /\ Left(f, keys) \in SUBSET DOMAIN f
  BY DEF Cut, Left
<1>2. /\ g \in Seq(Line) /\ DOMAIN g = 1..Len(g)
      /\ \A k \in 1..Len(g) : q[k] \in Left(f, keys) /\ g[k] = f[q[k]]
  BY <1>1, KeptIs DEF Cut
<1>3. Len(g) \in Nat /\ \A i \in DOMAIN f : i \in Nat
  BY <1>2, LinesOf
<1>4. \A k \in DOMAIN g : q[k] \in Left(f, keys) /\ q[k] \in DOMAIN f /\ q[k] \in Nat /\ g[k] = f[q[k]]
  BY <1>1, <1>2, <1>3
<1>5. ASSUME NEW k \in DOMAIN g, NEW l \in DOMAIN g
      PROVE  (k < l <=> q[k] < q[l]) /\ (k = l <=> q[k] = q[l])
  <2>1. (k < l => q[k] < q[l]) /\ (l < k => q[l] < q[k])
    BY <1>1, <1>2 DEF Enumerates
  <2>2. k \in Nat /\ l \in Nat /\ q[k] \in Nat /\ q[l] \in Nat
    BY <1>2, <1>3, <1>4
  <2> QED BY <2>1, <2>2
<1>6. \A i \in Left(f, keys) : \E k \in DOMAIN g : q[k] = i
  BY <1>1, <1>2 DEF Enumerates
<1> QED BY <1>2, <1>3, <1>4, <1>5, <1>6

\* Lines that were next to each other still are.
LEMMA CutNeighbours ==
    ASSUME NEW f \in Seq(Line), NEW keys, NEW q, NEW g, Cut(f, keys, q, g),
           NEW k \in DOMAIN g
    PROVE  /\ q[k] + 1 \in Left(f, keys) => k+1 \in DOMAIN g /\ q[k+1] = q[k] + 1
           /\ q[k] - 1 \in Left(f, keys) => k-1 \in DOMAIN g /\ q[k-1] = q[k] - 1
<1>1. /\ Len(g) \in Nat /\ DOMAIN g = 1..Len(g)
      /\ \A l \in DOMAIN g : q[l] \in Nat
      /\ \A l, j \in DOMAIN g : (l < j <=> q[l] < q[j]) /\ (l = j <=> q[l] = q[j])
      /\ \A i \in Left(f, keys) : \E l \in DOMAIN g : q[l] = i
  BY CutLines
<1>2. ASSUME q[k] + 1 \in Left(f, keys)
      PROVE  k+1 \in DOMAIN g /\ q[k+1] = q[k] + 1
  <2>1. PICK l \in DOMAIN g : q[l] = q[k] + 1
    BY <1>1, <1>2
  <2>2. k < l /\ k \in Nat /\ l \in Nat /\ k+1 \in DOMAIN g
    BY <1>1, <2>1
  <2>3. ~(k+1 < l)
    <3>1. q[k] < q[k+1] /\ (k+1 < l => q[k+1] < q[l]) /\ q[k] \in Nat /\ q[k+1] \in Nat
      BY <1>1, <2>2
    <3> QED BY <2>1, <3>1
  <2>4. l = k+1
    BY <2>2, <2>3
  <2> QED BY <2>1, <2>4
<1>3. ASSUME q[k] - 1 \in Left(f, keys)
      PROVE  k-1 \in DOMAIN g /\ q[k-1] = q[k] - 1
  <2>1. PICK l \in DOMAIN g : q[l] = q[k] - 1
    BY <1>1, <1>3
  <2>2. q[l] < q[k]
    BY <1>1, <2>1
  <2>3. l < k /\ k \in Nat /\ l \in Nat
    BY <1>1, <2>2
  <2>4. k-1 \in DOMAIN g
    BY <1>1, <2>3
  <2>5. ~(l < k-1)
    <3>1. q[k-1] < q[k] /\ (l < k-1 => q[l] < q[k-1]) /\ q[k] \in Nat /\ q[k-1] \in Nat
      BY <1>1, <2>3, <2>4
    <3> QED BY <2>1, <3>1
  <2>6. l = k-1
    BY <2>3, <2>5
  <2> QED BY <2>1, <2>4, <2>6
<1> QED BY <1>2, <1>3

\* A block that is left is left as it was.
LEMMA CutBlock ==
    ASSUME NEW f \in Seq(Line), NEW ps, BlocksShaped(f, ps), NEW keys, NEW q, NEW g,
           Cut(f, keys, q, g), NEW h \in DOMAIN g, NEW j \in DOMAIN g
    PROVE  j \in BlockAt(g, h) <=> q[j] \in BlockAt(f, q[h])
<1>1. /\ g \in Seq(Line) /\ Len(g) \in Nat /\ DOMAIN g = 1..Len(g)
      /\ \A k \in DOMAIN g : /\ q[k] \in Left(f, keys) /\ q[k] \in DOMAIN f /\ q[k] \in Nat
                             /\ g[k] = f[q[k]]
      /\ \A k, l \in DOMAIN g : (k < l <=> q[k] < q[l]) /\ (k = l <=> q[k] = q[l])
      /\ \A i \in Left(f, keys) : \E k \in DOMAIN g : q[k] = i
  BY CutLines
<1>2. h <= j <=> q[h] <= q[j]
  <2>1. h \in Nat /\ j \in Nat /\ q[h] \in Nat /\ q[j] \in Nat
    BY <1>1
  <2>2. (h < j <=> q[h] < q[j]) /\ (h = j <=> q[h] = q[j])
    BY <1>1
  <2> QED BY <2>1, <2>2
<1>3. ASSUME j \in BlockAt(g, h)
      PROVE  q[j] \in BlockAt(f, q[h])
  <2>1. h <= j /\ \A k \in h+1..j : g[k].is \notin Headers
    BY <1>1, <1>3, InBlock
  <2>2. ASSUME NEW i \in q[h]+1..q[j], i \in Left(f, keys)
        PROVE  f[i].is \notin Headers
    <3>1. PICK k \in DOMAIN g : q[k] = i
      BY <1>1, <2>2
    <3>5. q[h] \in Nat /\ q[j] \in Nat /\ q[k] \in Nat /\ q[k] \in q[h]+1..q[j]
      BY <1>1, <2>2, <3>1
    <3>2. q[h] < q[k] /\ ~(q[j] < q[k])
      BY <3>5
    <3>3. h < k /\ ~(j < k)
      BY <1>1, <3>2
    <3>4. k \in h+1..j
      <4>1. h \in Nat /\ j \in Nat /\ k \in Nat
        <5>1. DOMAIN g = 1..Len(g)
          BY <1>1
        <5>2. \A x \in 1..Len(g) : x \in Nat
          OBVIOUS
        <5> QED BY <5>1, <5>2
      <4>2. h < k /\ k <= j
        BY <3>3, <4>1
      <4> QED BY <4>1, <4>2, Between
    <3> QED BY <1>1, <2>1, <3>1, <3>4
  <2>3. q[h] \in DOMAIN f /\ q[j] \in Left(f, keys) /\ q[j] \in DOMAIN f /\ q[h] <= q[j]
    BY <1>1, <1>2, <2>1
  <2>4. \A i \in q[h]+1..q[j] : f[i].is \notin Headers
    BY <2>2, <2>3, GoneBelow
  <2> QED BY <2>3, <2>4, InBlock
<1>4. ASSUME q[j] \in BlockAt(f, q[h])
      PROVE  j \in BlockAt(g, h)
  <2>1. q[h] <= q[j] /\ \A i \in q[h]+1..q[j] : f[i].is \notin Headers
    BY <1>1, <1>4, InBlock
  <2>2. ASSUME NEW k \in h+1..j
        PROVE  g[k].is \notin Headers
    <3>1. k \in DOMAIN g /\ h < k /\ ~(j < k)
      BY <1>1
    <3>2. q[h] < q[k] /\ ~(q[j] < q[k]) /\ q[h] \in Nat /\ q[k] \in Nat /\ q[j] \in Nat
      BY <1>1, <3>1
    <3>3. q[k] \in q[h]+1..q[j]
      BY <3>2
    <3> QED BY <1>1, <2>1, <3>1, <3>3
  <2> QED BY <1>1, <1>2, <2>1, <2>2, InBlock
<1> QED BY <1>3, <1>4

LEMMA CutOwn ==
    ASSUME NEW f \in Seq(Line), NEW ps, BlocksShaped(f, ps), NEW keys, NEW q, NEW g,
           Cut(f, keys, q, g)
    PROVE  /\ \A k \in DOMAIN g : k \in OwnKeys(g) <=> q[k] \in OwnKeys(f)
           /\ \A k \in DOMAIN g : k-1 \in OwnKeys(g) <=> q[k] - 1 \in OwnKeys(f)
           /\ \A k \in DOMAIN g : k+1 \in OwnKeys(g) <=> q[k] + 1 \in OwnKeys(f)
           /\ \A k \in OwnKeys(g) : /\ k-1 \in DOMAIN g /\ q[k-1] = q[k] - 1
                                    /\ k+1 \in DOMAIN g /\ q[k+1] = q[k] + 1
                                    /\ q[k] \in OwnKeys(f) /\ f[q[k]].key \notin keys
           /\ \A i \in OwnKeys(f) : f[i].key \notin keys => \E k \in OwnKeys(g) : q[k] = i
<1>1. /\ g \in Seq(Line) /\ Len(g) \in Nat /\ DOMAIN g = 1..Len(g)
      /\ \A k \in DOMAIN g : /\ q[k] \in Left(f, keys) /\ q[k] \in DOMAIN f /\ q[k] \in Nat
                             /\ g[k] = f[q[k]]
      /\ \A i \in Left(f, keys) : \E k \in DOMAIN g : q[k] = i
  BY CutLines
<1>2. \A k \in DOMAIN g : k \in OwnKeys(g) <=> q[k] \in OwnKeys(f)
  BY <1>1 DEF OwnKeys
<1>3. ASSUME NEW k \in OwnKeys(g)
      PROVE  /\ k-1 \in DOMAIN g /\ q[k-1] = q[k] - 1
             /\ k+1 \in DOMAIN g /\ q[k+1] = q[k] + 1
             /\ q[k] \in OwnKeys(f) /\ f[q[k]].key \notin keys
  <2>1. k \in DOMAIN g /\ q[k] \in OwnKeys(f) /\ q[k] \in Left(f, keys)
    BY <1>1, <1>2 DEF OwnKeys
  <2>2. q[k] - 1 \in Left(f, keys) /\ q[k] + 1 \in Left(f, keys) /\ f[q[k]].key \notin keys
    BY <2>1, GoneOwn
  <2> QED BY <2>1, <2>2, CutNeighbours
<1>4. ASSUME NEW k \in DOMAIN g
      PROVE  k-1 \in OwnKeys(g) <=> q[k] - 1 \in OwnKeys(f)
  <2>1. ASSUME k-1 \in OwnKeys(g)
        PROVE  q[k] - 1 \in OwnKeys(f)
    <3>1. k-1 \in DOMAIN g /\ (k-1)+1 = k
      BY <1>1, <2>1 DEF OwnKeys
    <3>2. q[k] = q[k-1] + 1 /\ q[k-1] \in OwnKeys(f) /\ q[k-1] \in Nat
      BY <1>1, <1>3, <2>1, <3>1
    <3>3. q[k] - 1 = q[k-1]
      BY <3>2
    <3> QED BY <3>2, <3>3
  <2>2. ASSUME q[k] - 1 \in OwnKeys(f)
        PROVE  k-1 \in OwnKeys(g)
    <3>1. (q[k] - 1) + 1 = q[k] /\ q[k] \in Left(f, keys)
      BY <1>1
    <3>2. q[k] - 1 \in Left(f, keys)
      BY <2>2, <3>1, GoneOwn
    <3>3. k-1 \in DOMAIN g /\ q[k-1] = q[k] - 1
      BY <3>2, CutNeighbours
    <3> QED BY <1>2, <2>2, <3>3
  <2> QED BY <2>1, <2>2
<1>5. ASSUME NEW k \in DOMAIN g
      PROVE  k+1 \in OwnKeys(g) <=> q[k] + 1 \in OwnKeys(f)
  <2>1. ASSUME k+1 \in OwnKeys(g)
        PROVE  q[k] + 1 \in OwnKeys(f)
    <3>1. k+1 \in DOMAIN g /\ (k+1)-1 = k
      BY <1>1, <2>1 DEF OwnKeys
    <3>2. q[k] = q[k+1] - 1 /\ q[k+1] \in OwnKeys(f) /\ q[k+1] \in Nat
      BY <1>1, <1>3, <2>1, <3>1
    <3>3. q[k] + 1 = q[k+1]
      BY <3>2
    <3> QED BY <3>2, <3>3
  <2>2. ASSUME q[k] + 1 \in OwnKeys(f)
        PROVE  k+1 \in OwnKeys(g)
    <3>1. (q[k] + 1) - 1 = q[k] /\ q[k] \in Left(f, keys)
      BY <1>1
    <3>2. q[k] + 1 \in Left(f, keys)
      BY <2>2, <3>1, GoneOwn
    <3>3. k+1 \in DOMAIN g /\ q[k+1] = q[k] + 1
      BY <3>2, CutNeighbours
    <3> QED BY <1>2, <2>2, <3>3
  <2> QED BY <2>1, <2>2
<1>6. ASSUME NEW i \in OwnKeys(f), f[i].key \notin keys
      PROVE  \E k \in OwnKeys(g) : q[k] = i
  <2>1. i \in Left(f, keys)
    BY <1>6, GoneOwn
  <2>2. PICK k \in DOMAIN g : q[k] = i
    BY <1>1, <2>1
  <2> QED BY <1>2, <2>2
<1> QED BY <1>2, <1>3, <1>4, <1>5, <1>6

LEMMA ShapeCut ==
    ASSUME NEW f \in Seq(Line), NEW ps, BlocksShaped(f, ps), NEW keys, NEW q, NEW g,
           Cut(f, keys, q, g), NEW qs, \A e \in ps : e.key \notin keys => e \in qs
    PROVE  /\ BlocksShaped(g, qs)
           /\ AllSheltered(f) => AllSheltered(g)
           /\ Kept(g, Others(g)) = Kept(f, Others(f))
<1>1. /\ g \in Seq(Line) /\ Len(g) \in Nat /\ DOMAIN g = 1..Len(g)
      /\ \A k \in DOMAIN g : /\ q[k] \in Left(f, keys) /\ q[k] \in DOMAIN f /\ q[k] \in Nat
                             /\ g[k] = f[q[k]]
      /\ \A k, l \in DOMAIN g : (k < l <=> q[k] < q[l]) /\ (k = l <=> q[k] = q[l])
      /\ \A i \in Left(f, keys) : \E k \in DOMAIN g : q[k] = i
  BY CutLines
<1>2. /\ \A k \in DOMAIN g : k \in OwnKeys(g) <=> q[k] \in OwnKeys(f)
      /\ \A k \in DOMAIN g : k-1 \in OwnKeys(g) <=> q[k] - 1 \in OwnKeys(f)
      /\ \A k \in DOMAIN g : k+1 \in OwnKeys(g) <=> q[k] + 1 \in OwnKeys(f)
      /\ \A k \in OwnKeys(g) : /\ k-1 \in DOMAIN g /\ q[k-1] = q[k] - 1
                               /\ k+1 \in DOMAIN g /\ q[k+1] = q[k] + 1
                               /\ q[k] \in OwnKeys(f) /\ f[q[k]].key \notin keys
  BY CutOwn
<1>3. ASSUME NEW k \in OwnKeys(g)
      PROVE  /\ g[k].is = "PublicKey"
             /\ k-1 \in DOMAIN g /\ g[k-1].is = "[Peer]"
             /\ k+1 \in DOMAIN g /\ g[k+1].is \in IPKinds
             /\ \E e \in qs : e.key = g[k].key /\ e.ip = g[k+1].ip
             /\ \A j \in BlockAt(g, k-1) : j > k+1 => ~InForce(g[j])
  <2> DEFINE i == q[k]
  <2>1. /\ k \in DOMAIN g /\ i \in OwnKeys(f) /\ f[i].key \notin keys
        /\ k-1 \in DOMAIN g /\ q[k-1] = i-1 /\ k+1 \in DOMAIN g /\ q[k+1] = i+1
    BY <1>2 DEF OwnKeys
  <2>5. g[k] = f[q[k]] /\ g[k-1] = f[q[k-1]] /\ g[k+1] = f[q[k+1]]
    BY <1>1, <2>1
  <2>2. g[k] = f[i] /\ g[k-1] = f[i-1] /\ g[k+1] = f[i+1]
    BY <2>1, <2>5
  <2>6. k \in Nat /\ k+1 \in Nat /\ i \in Nat /\ i+1 \in Nat
    <3>1. k \in Nat
      BY <1>1, <2>1
    <3>2. i \in Nat
      BY <1>1, <2>1
    <3> HIDE DEF i
    <3> QED BY <3>1, <3>2
  <2> HIDE DEF i
  <2>3. /\ f[i].is = "PublicKey" /\ f[i-1].is = "[Peer]" /\ f[i+1].is \in IPKinds
        /\ \E e \in ps : e.key = f[i].key /\ e.ip = f[i+1].ip
        /\ \A j \in BlockAt(f, i-1) : j > i+1 => ~InForce(f[j])
    BY <2>1 DEF BlocksShaped
  <2>4. ASSUME NEW j \in BlockAt(g, k-1), j > k+1
        PROVE  ~InForce(g[j])
    <3>1. j \in DOMAIN g /\ j \in Nat
      <4>1. j \in DOMAIN g
        BY <1>1, <2>1, BlockInFile
      <4> QED BY <1>1, <4>1
    <3>2. q[j] \in BlockAt(f, i-1)
      BY <2>1, <3>1, CutBlock
    <3>3. k+1 < j
      BY <2>4, <2>6, <3>1
    <3>4. q[k+1] < q[j]
      BY <1>1, <2>1, <3>1, <3>3
    <3>6. q[j] \in Nat
      BY <1>1, <3>1
    <3>5. q[j] > i+1
      BY <2>1, <2>6, <3>4, <3>6
    <3> QED BY <1>1, <2>3, <3>1, <3>2, <3>5
  <2> QED BY <2>1, <2>2, <2>3, <2>4
<1>4. BlocksShaped(g, qs)
  BY <1>3 DEF BlocksShaped
<1>5. ASSUME AllSheltered(f), NEW j \in DOMAIN g, g[j].is \in IPKinds
      PROVE  Sheltered(g, j)
  <2> DEFINE i == q[j]
  <2>1. i \in DOMAIN f /\ i \in Nat /\ i \in Left(f, keys) /\ g[j] = f[i] /\ j \in Nat
    BY <1>1
  <2>2. Sheltered(f, i)
    BY <1>5, <2>1 DEF AllSheltered
  <2>3. CASE i-1 \in OwnKeys(f)
    BY <1>2, <2>3 DEF Sheltered
  <2>4. CASE \A l \in OwnKeys(f) : l > i
    <3>1. ASSUME NEW k \in OwnKeys(g)
          PROVE  k > j
      <4>1. k \in DOMAIN g /\ q[k] \in OwnKeys(f) /\ q[k] \in Nat /\ k \in Nat
        BY <1>1, <1>2 DEF OwnKeys
      <4>2. i < q[k]
        BY <2>1, <2>4, <4>1
      <4>3. j < k
        BY <1>1, <4>1, <4>2
      <4> QED BY <2>1, <4>1, <4>3
    <3> QED BY <3>1 DEF Sheltered
  <2>5. ASSUME NEW c \in 1..i-1, c \notin OwnKeys(f), f[c].is \in Marks,
               \A k \in c+1..i : f[k].is \notin Marks \cup Headers
        PROVE  Sheltered(g, j)
    <3>1. c \in DOMAIN f /\ c \in Nat /\ c < i /\ c <= i
      BY <2>1, LinesOf
    <3>2. c \in Left(f, keys)
      BY <2>1, <2>5, <3>1, GoneWhole
    <3>3. PICK d \in DOMAIN g : q[d] = c
      BY <1>1, <3>2
    <3>4. d < j /\ d \in Nat /\ d >= 1
      BY <1>1, <3>1, <3>3
    <3>5. d \in 1..j-1
      BY <2>1, <3>4
    <3>6. d \notin OwnKeys(g) /\ g[d].is \in Marks
      BY <1>1, <1>2, <2>5, <3>3
    <3>7. ASSUME NEW k \in d+1..j
          PROVE  g[k].is \notin Marks \cup Headers
      <4>1. k \in DOMAIN g /\ d < k /\ ~(j < k)
        <5>1. k \in Nat /\ d < k /\ k <= j
          BY <2>1, <3>4
        <5>2. j \in 1..Len(g) /\ Len(g) \in Nat
          BY <1>1
        <5>3. k \in 1..Len(g) /\ ~(j < k)
          BY <3>4, <5>1, <5>2
        <5> QED BY <1>1, <5>1, <5>3
      <4>2. c < q[k] /\ ~(i < q[k]) /\ q[k] \in Nat
        BY <1>1, <3>3, <4>1
      <4>3. q[k] \in c+1..i
        BY <2>1, <3>1, <4>2
      <4> QED BY <1>1, <2>5, <4>1, <4>3
    <3> QED BY <3>5, <3>6, <3>7 DEF Sheltered
  <2> QED BY <2>2, <2>3, <2>4, <2>5 DEF Sheltered
<1>6. Others(f) \subseteq Left(f, keys)
  <2> SUFFICES ASSUME NEW i \in Others(f), i \in Gone(f, keys)  PROVE FALSE
    BY DEF Left, Others
  <2>1. PICK l \in OwnKeys(f) : i \in BlockAt(f, l-1)
    BY DEF Gone
  <2>2. i \in {l-1, l, l+1} /\ l \in Nat
    BY <2>1, OwnBlock DEF Others
  <2>3. i = l \/ i+1 = l \/ i-1 = l
    BY <2>2
  <2> QED BY <2>3 DEF Others
<1>7. Others(g) = {k \in 1..Len(g) : q[k] \in Others(f)}
  <2>1. ASSUME NEW k \in DOMAIN g
        PROVE  k \in Others(g) <=> q[k] \in Others(f)
    BY <1>1, <1>2 DEF Others
  <2>2. Others(g) \subseteq DOMAIN g
    BY DEF Others
  <2> QED BY <1>1, <2>1, <2>2
<1>8. Kept(g, Others(g)) = Kept(f, Others(f))
  <2>1. Enumerates(q, Len(g), Left(f, keys)) /\ g = Kept(f, Left(f, keys))
        /\ Left(f, keys) \in SUBSET DOMAIN f
    BY DEF Cut, Left
  <2> QED BY <1>6, <1>7, <2>1, KeptOfKept
<1> QED BY <1>4, <1>5, <1>8 DEF AllSheltered

LEMMA OneBlockEachCut ==
    ASSUME NEW f \in Seq(Line), NEW ps, BlocksShaped(f, ps), OneBlockEach(f, ps), NEW keys,
           NEW q, NEW g, Cut(f, keys, q, g), NEW qs, \A e \in qs : e \in ps /\ e.key \notin keys
    PROVE  OneBlockEach(g, qs)
<1>1. /\ \A k \in DOMAIN g : g[k] = f[q[k]]
      /\ \A k, l \in DOMAIN g : k = l <=> q[k] = q[l]
  BY CutLines
<1>2. /\ \A k \in OwnKeys(g) : q[k] \in OwnKeys(f)
      /\ \A i \in OwnKeys(f) : f[i].key \notin keys => \E k \in OwnKeys(g) : q[k] = i
  BY CutOwn
<1>3. OwnKeys(g) \subseteq DOMAIN g
  BY DEF OwnKeys
<1>4. ASSUME NEW k \in OwnKeys(g), NEW l \in OwnKeys(g), g[k].key = g[l].key
      PROVE  k = l
  <2>1. f[q[k]].key = f[q[l]].key /\ q[k] \in OwnKeys(f) /\ q[l] \in OwnKeys(f)
    BY <1>1, <1>2, <1>3, <1>4
  <2>2. q[k] = q[l]
    BY <2>1 DEF OneBlockEach
  <2> QED BY <1>1, <1>3, <2>2
<1>5. ASSUME NEW e \in qs
      PROVE  \E k \in OwnKeys(g) : g[k].key = e.key
  <2>1. PICK i \in OwnKeys(f) : f[i].key = e.key
    BY DEF OneBlockEach
  <2>2. PICK k \in OwnKeys(g) : q[k] = i
    BY <1>2, <2>1
  <2> QED BY <1>1, <1>3, <2>1, <2>2
<1> QED BY <1>4, <1>5 DEF OneBlockEach

----------------------------------------------------------------------------
(* The walk through the subnet *)

Step(ip, used) == IF ip \in used /\ ip # LastIP THEN Increment(ip) ELSE ip

\* The recursive function of Walk is one that satisfies its equation, as there is one.
LEMMA WalkIs ==
    ASSUME NEW used
    PROVE  \E at : /\ Walk(used) = at[Octet*Octet]
                   /\ at = [k \in 0..Octet*Octet |-> IF k = 0 THEN First ELSE Step(at[k-1], used)]
<1> DEFINE Is(g, n) == g = [k \in 0..n |-> IF k = 0 THEN First ELSE Step(g[k-1], used)]
           Bad == {n \in Nat : ~\E g : Is(g, n)}
<1>1. Bad = {}
  <2> SUFFICES ASSUME Bad # {}  PROVE FALSE
    OBVIOUS
  <2>1. PICK n \in Bad : \A l \in Bad : n <= l
    BY LeastOf
  <2>2. CASE n = 0
    <3> DEFINE g == [k \in 0..0 |-> First]
    <3>1. Is(g, 0)
      OBVIOUS
    <3> HIDE DEF g
    <3> QED BY <2>1, <2>2, <3>1
  <2>3. CASE n # 0
    <3>1. n-1 \in Nat /\ n-1 \notin Bad /\ n \in Nat
      <4>1. n \in Nat /\ n-1 \in Nat /\ ~(n <= n-1)
        BY <2>3
      <4> HIDE DEF Bad
      <4> QED BY <2>1, <4>1
    <3>2. PICK g : Is(g, n-1)
      BY <3>1
    <3> DEFINE h == [k \in 0..n |-> IF k = n THEN Step(g[n-1], used) ELSE g[k]]
    <3>3. \A k \in 0..n-1 : g[k] = IF k = 0 THEN First ELSE Step(g[k-1], used)
      BY <3>2
    <3>4. \A k \in 0..n : h[k] = IF k = 0 THEN First ELSE Step(h[k-1], used)
      <4> TAKE k \in 0..n
      <4>1. k # 0 => k-1 \in 0..n-1 /\ k-1 \in 0..n /\ k-1 # n
        BY <3>1
      <4>2. k # 0 => h[k-1] = g[k-1]
        BY <4>1
      <4>3. CASE k = n
        <5>1. h[k] = Step(g[n-1], used) /\ k # 0
          BY <2>3, <4>3
        <5> QED BY <4>2, <4>3, <5>1
      <4>4. CASE k # n
        <5>1. k \in 0..n-1 /\ h[k] = g[k]
          BY <3>1, <4>4
        <5> QED BY <3>3, <4>2, <5>1
      <4> QED BY <4>3, <4>4
    <3>5. Is(h, n)
      <4>1. h = [k \in 0..n |-> h[k]]
        OBVIOUS
      <4> HIDE DEF h
      <4> QED BY <3>4, <4>1
    <3> HIDE DEF h, Is
    <3> QED BY <2>1, <3>5
  <2> QED BY <2>2, <2>3
<1>2. PICK g : Is(g, Octet*Octet)
  <2>1. Octet*Octet \in Nat
    BY DEF Octet
  <2> QED BY <1>1, <2>1
<1> DEFINE at == CHOOSE at : Is(at, Octet*Octet)
<1>3. Is(at, Octet*Octet)
  <2> HIDE DEF Is
  <2> QED BY <1>2
<1>4. Walk(used) = at[Octet*Octet]
  BY DEF Walk, Step
<1> QED BY <1>3, <1>4

LEMMA AddressParts ==
    ASSUME address \in Addresses
    PROVE  /\ address.server \in 0..15 /\ address.size \in {1, 2, 4, 8, 16}
           /\ First \in Int /\ LastIP \in Int
<1>1. address.server \in 0..15 /\ address.size \in {1, 2, 4, 8, 16}
  BY AddressesAssumption DEF Octet
<1>2. Network \in Int
  BY <1>1 DEF Network
<1>3. Broadcast \in Int
  BY <1>1, <1>2 DEF Broadcast
<1>4. \A x \in Int, y \in Int : WithLow(x, y) \in Int /\ Low(x) \in Int
  BY DEF WithLow, Low, Octet
<1>5. Low(Network) + 1 \in Int /\ Low(Broadcast) + Octet - 1 \in Int
  BY <1>2, <1>3, <1>4 DEF Octet
<1> QED BY <1>1, <1>2, <1>3, <1>4, <1>5 DEF First, LastIP

LEMMA WalkInt ==
    ASSUME address \in Addresses, NEW used
    PROVE  Walk(used) \in Int
<1>1. PICK at : /\ Walk(used) = at[Octet*Octet]
                /\ at = [k \in 0..Octet*Octet |-> IF k = 0 THEN First ELSE Step(at[k-1], used)]
  BY WalkIs
<1>2. Octet*Octet = 16
  BY DEF Octet
<1>3. \A k \in 0..16 : at[k] = IF k = 0 THEN First ELSE Step(at[k-1], used)
  BY <1>1, <1>2
<1>4. \A ip \in Int : Step(ip, used) \in Int
  BY DEF Step, Increment, WithLow, Low, Octet
<1> DEFINE Bad == {k \in 0..16 : at[k] \notin Int}
<1>5. Bad = {}
  <2> SUFFICES ASSUME Bad # {}  PROVE FALSE
    OBVIOUS
  <2>1. Bad \in SUBSET Nat
    OBVIOUS
  <2>2. PICK n \in Bad : \A l \in Bad : n <= l
    <3> HIDE DEF Bad
    <3> QED BY <2>1, LeastOf
  <2>3. n # 0
    BY <1>3, AddressParts
  <2>4. n \in 1..16 /\ n-1 \in 0..16 /\ ~(n <= n-1)
    BY <2>3
  <2>5. n-1 \notin Bad
    <3> HIDE DEF Bad
    <3> QED BY <2>2, <2>4
  <2>6. at[n-1] \in Int
    BY <2>4, <2>5
  <2> QED BY <1>3, <1>4, <2>2, <2>3, <2>6
<1>6. at[16] \in Int
  BY <1>5
<1> QED BY <1>1, <1>2, <1>6

----------------------------------------------------------------------------
(* The inductive invariant *)

\* What the last handler left of the file and of peers.json.
BlocksInv ==
    BlocksShaped(file, peers) /\ OneBlockEach(file, peers) /\ AllSheltered(file)

HistoryInv == byHand = Kept(file, Others(file)) /\ seen = StoreOf(file, peers)

IInv == TypeOK /\ BlocksInv /\ HistoryInv

LEMMA TextsHoldNoOwnKey ==
    ASSUME address \in Addresses, NEW t \in HandWritten[address] \cup Edits[address]
    PROVE  t \in Seq(Line) /\ OwnKeys(t) = {}
<1>1. t \in Seq(LineOf({Foreign, NoName}))
  BY TextsAssumption
<1>2. LineOf({Foreign, NoName}) \subseteq Line
  BY DEF Line, LineOf
<1>3. t \in Seq(Line)
  <2>1. Len(t) \in Nat /\ t \in [1..Len(t) -> LineOf({Foreign, NoName})]
    BY <1>1
  <2>2. t \in [1..Len(t) -> Line]
    BY <1>2, <2>1
  <2> QED BY <2>1, <2>2
<1>4. \A i \in DOMAIN t : t[i].key.name \in {Foreign, NoName}
  <2> TAKE i \in DOMAIN t
  <2>1. t[i] \in LineOf({Foreign, NoName})
    BY <1>1
  <2> QED BY <2>1 DEF LineOf
<1> QED BY <1>3, <1>4, NamesAssumption DEF OwnKeys

LEMMA NoOwnNothingToShow ==
    ASSUME NEW t, OwnKeys(t) = {}
    PROVE  \A ps : BlocksShaped(t, ps)
BY DEF BlocksShaped

\* In a whole section the last mark above an address is no other section's.
LEMMA SectionsShelter ==
    ASSUME NEW t \in Seq(Line), WholeSections(t), OwnKeys(t) = {}, NEW j \in DOMAIN t, t[j].is \in IPKinds
    PROVE  \E c \in 1..j-1 : /\ c \notin OwnKeys(t) /\ t[c].is \in Marks
                             /\ \A k \in c+1..j : t[k].is \notin Marks \cup Headers
<1>1. Len(t) \in Nat /\ DOMAIN t = 1..Len(t) /\ j \in Nat
  BY LinesOf
<1>2. PICK c \in 1..j-1 : t[c].is \in Marks /\ \A k \in c+1..j : t[k].is \notin Headers
  BY DEF WholeSections, IPKinds
<1> DEFINE cs == {k \in 1..j-1 : t[k].is \in Marks}
           l  == Max(cs)
<1>3. l \in cs /\ \A k \in cs : k <= l
  <2>1. cs \in SUBSET (1..j-1) /\ cs # {} /\ j-1 \in Nat
    BY <1>1, <1>2
  <2> HIDE DEF cs
  <2> QED BY <2>1, MaxOf
<1>4. c <= l /\ l \in 1..j-1 /\ t[l].is \in Marks
  BY <1>2, <1>3
<1> HIDE DEF l
<1>5. ASSUME NEW k \in l+1..j
      PROVE  t[k].is \notin Marks \cup Headers
  <2>1. t[k].is \notin Headers
    BY <1>1, <1>2, <1>4
  <2>2. CASE k = j
    <3>1. t[k].is \notin Marks
      BY <2>2 DEF IPKinds, Marks
    <3> QED BY <2>1, <3>1
  <2>3. CASE k # j
    <3>1. k \in 1..j-1 /\ ~(k <= l)
      BY <1>1, <1>4, <2>3
    <3> QED BY <1>3, <2>1, <3>1
  <2> QED BY <2>2, <2>3
<1> QED BY <1>4, <1>5

\* A file without a key of the worker satisfies everything.
LEMMA IInvInit == Init => IInv
<1> SUFFICES ASSUME Init  PROVE IInv
  OBVIOUS
<1> USE DEF Init
<1>1. file \in Seq(Line) /\ OwnKeys(file) = {}
  BY TextsHoldNoOwnKey
<1>2. BlocksInv
  <2>1. BlocksShaped(file, peers)
    BY <1>1, NoOwnNothingToShow
  <2>2. OneBlockEach(file, peers)
    BY <1>1 DEF OneBlockEach
  <2>3. AllSheltered(file)
    BY <1>1 DEF AllSheltered, Sheltered
  <2> QED BY <2>1, <2>2, <2>3 DEF BlocksInv
<1>3. HistoryInv
  BY <1>1, AllOthers DEF HistoryInv
<1>4. TypeOK
  <2>1. \A i \in DOMAIN file : file[i].key.name \notin Names
    BY <1>1 DEF OwnKeys
  <2>2. nextKey \in 1..MaxKeys+1 /\ edits \in 0..MaxEdits
    BY BoundsAssumption
  <2>3. last \in [call : Calls \cup {Call("none", {})}, reply : Reply \cup {"none"}]
    OBVIOUS
  <2> QED BY <1>1, <2>1, <2>2, <2>3 DEF TypeOK
<1> QED BY <1>2, <1>3, <1>4 DEF IInv

----------------------------------------------------------------------------
(* Every step keeps it *)

\* The lines createPeer writes.
NewBlock(key, ip) ==
    <<Text("[Peer]"), KeyLine("PublicKey", key), IPLine("AllowedIPs", ip), Text("")>>

LEMMA FourLines ==
    ASSUME NEW a \in Line, NEW b \in Line, NEW c \in Line, NEW d \in Line
    PROVE  LET t == <<a, b, c, d>> IN
           /\ t \in Seq(Line) /\ DOMAIN t = 1..4 /\ Len(t) = 4
           /\ t[1] = a /\ t[2] = b /\ t[3] = c /\ t[4] = d
OBVIOUS

IsBlock(t, e) ==
    /\ t \in Seq(Line) /\ DOMAIN t = 1..4 /\ Len(t) = 4
    /\ t[1].is = "[Peer]" /\ t[2].is = "PublicKey" /\ t[3].is = "AllowedIPs" /\ t[4].is = ""
    /\ t[2].key = e.key /\ t[3].ip = e.ip
    /\ OwnKeys(t) = {2} /\ BelowHeaders(t) /\ BlocksShaped(t, {e})

LEMMA NewBlockIs ==
    ASSUME NEW n \in Names, NEW s \in Nat, NEW ip \in Int
    PROVE  IsBlock(NewBlock(Key(n, s), ip), Entry(n, Key(n, s), ip))
<1> DEFINE t == NewBlock(Key(n, s), ip)
           a == Text("[Peer]")
           b == KeyLine("PublicKey", Key(n, s))
           c == IPLine("AllowedIPs", ip)
           d == Text("")
<1>1. a \in Line /\ d \in Line
  BY DEF Text, Line, LineOf, Kinds, Headers, NoKey, NoIP
<1>2. b \in Line /\ c \in Line
  BY DEF KeyLine, IPLine, Line, LineOf, Kinds, NoKey, NoIP, Key
<1>3. t = <<a, b, c, d>>
  BY DEF NewBlock
<1>4. /\ a.is = "[Peer]" /\ b.is = "PublicKey" /\ c.is = "AllowedIPs" /\ d.is = ""
      /\ b.key = Key(n, s) /\ c.ip = ip
      /\ a.key = NoKey /\ c.key = NoKey /\ d.key = NoKey
  <2>1. a.is = "[Peer]" /\ a.key = NoKey /\ d.is = "" /\ d.key = NoKey
    BY DEF Text
  <2>2. b.is = "PublicKey" /\ b.key = Key(n, s)
    BY DEF KeyLine
  <2>3. c.is = "AllowedIPs" /\ c.ip = ip /\ c.key = NoKey
    BY DEF IPLine
  <2> HIDE DEF a, b, c, d
  <2> QED BY <2>1, <2>2, <2>3
<1> HIDE DEF t, a, b, c, d
<1>5. /\ t \in Seq(Line) /\ DOMAIN t = 1..4 /\ Len(t) = 4
      /\ t[1] = a /\ t[2] = b /\ t[3] = c /\ t[4] = d
  BY <1>1, <1>2, <1>3, FourLines
<1>6. /\ t[1].is = "[Peer]" /\ t[2].is = "PublicKey" /\ t[3].is = "AllowedIPs" /\ t[4].is = ""
      /\ t[2].key = Key(n, s) /\ t[3].ip = ip
      /\ t[1].key = NoKey /\ t[3].key = NoKey /\ t[4].key = NoKey
  BY <1>4, <1>5
<1>7. /\ t \in Seq(Line) /\ DOMAIN t = 1..4 /\ Len(t) = 4
      /\ \A i \in 1..4 : i = 1 \/ i = 2 \/ i = 3 \/ i = 4
  BY <1>5
<1>8. OwnKeys(t) = {2}
  <2>1. Key(n, s).name = n /\ NoKey.name \notin Names
    BY NoNameIsOwn DEF Key
  <2>2. /\ t[1].key.name \notin Names /\ t[2].key.name \in Names
        /\ t[3].key.name \notin Names /\ t[4].key.name \notin Names
    BY <1>6, <2>1
  <2>3. \A i \in 1..4 : t[i].key.name \in Names <=> i = 2
    BY <1>7, <2>2
  <2>4. OwnKeys(t) = {i \in 1..4 : t[i].key.name \in Names}
    BY <1>7 DEF OwnKeys
  <2> QED BY <2>3, <2>4
<1>9. BelowHeaders(t)
  <2>1. t[1].is \in Headers
    BY <1>6 DEF Headers
  <2>2. \A i \in DOMAIN t : 1 \in 1..i
    BY <1>7
  <2> QED BY <2>1, <2>2 DEF BelowHeaders
<1>10. BlocksShaped(t, {Entry(n, Key(n, s), ip)})
  <2>1. ASSUME NEW j \in BlockAt(t, 1), j > 3
        PROVE  ~InForce(t[j])
    <3>1. 1 \in DOMAIN t
      BY <1>7
    <3>2. j \in DOMAIN t
      BY <1>7, <3>1, BlockInFile
    <3>3. j = 4
      BY <1>7, <2>1, <3>2
    <3> QED BY <1>6, <3>3 DEF InForce
  <2>2. 2-1 = 1 /\ 2+1 = 3 /\ 1 \in DOMAIN t /\ 3 \in DOMAIN t
    BY <1>7
  <2>3. t[3].is \in IPKinds
    BY <1>6 DEF IPKinds
  <2>4. Entry(n, Key(n, s), ip).key = Key(n, s) /\ Entry(n, Key(n, s), ip).ip = ip
    BY DEF Entry
  <2>5. \E e \in {Entry(n, Key(n, s), ip)} : e.key = t[2].key /\ e.ip = t[3].ip
    BY <1>6, <2>4
  <2> QED BY <1>6, <1>8, <2>1, <2>2, <2>3, <2>5 DEF BlocksShaped
<1> DEFINE e == Entry(n, Key(n, s), ip)
<1>11. t[2].key = e.key /\ t[3].ip = e.ip
  BY <1>6 DEF Entry
<1> HIDE DEF e
<1>12. BlocksShaped(t, {e})
  BY <1>10 DEF e
<1>13. IsBlock(t, e)
  BY <1>6, <1>7, <1>8, <1>9, <1>11, <1>12 DEF IsBlock
<1> QED BY <1>13 DEF t, e

LEMMA Refused ==
    ASSUME IInv, NEW c, c \in Calls, Refuses(c)
    PROVE  IInv'
<1> USE DEF IInv, Refuses, Replies
<1>1. /\ file' = file /\ peers' = peers /\ nextKey' = nextKey /\ address' = address
      /\ edits' = edits /\ byHand' = byHand /\ seen' = StoreOf(file', peers')
      /\ last' = [call |-> c, reply |-> "status"]
  OBVIOUS
<1>2. last' \in [call : Calls \cup {Call("none", {})}, reply : Reply \cup {"none"}]
  BY <1>1 DEF Reply
<1>3. TypeOK'
  BY <1>1, <1>2 DEF TypeOK
<1>4. BlocksInv'
  BY <1>1 DEF BlocksInv
<1>5. HistoryInv'
  BY <1>1 DEF HistoryInv
<1> QED BY <1>3, <1>4, <1>5

\* A key and its serial: those in the file were generated before.
LEMMA FreshKey ==
    ASSUME TypeOK, BlocksInv, NEW n \in Names
    PROVE  /\ \A i \in OwnKeys(file) : file[i].key # Key(n, nextKey)
           /\ \A e \in peers : e.key # Key(n, nextKey)
<1>1. ASSUME NEW i \in OwnKeys(file)
      PROVE  file[i].key # Key(n, nextKey)
  <2>1. file[i].key.serial \in 1..nextKey-1 /\ nextKey \in Nat
    BY BoundsAssumption DEF TypeOK, OwnKeys
  <2>2. file[i].key.serial # nextKey
    BY <2>1
  <2> QED BY <2>2 DEF Key
<1>2. \A e \in peers : \E i \in OwnKeys(file) : file[i].key = e.key
  BY DEF BlocksInv, OneBlockEach
<1> QED BY <1>1, <1>2

LEMMA Created ==
    ASSUME IInv, NEW n \in Names, CreatePeer(n)
    PROVE  IInv'
<1> DEFINE ip  == NextAvailableIP
           key == Key(n, nextKey)
           new == Entry(n, key, ip)
           t   == NewBlock(key, ip)
<1>1. CASE Refuses(Call("create", {n}))
  <2>1. Call("create", {n}) \in Calls
    BY DEF Call, Calls
  <2> QED BY <1>1, <2>1, Refused
<1>2. CASE ~Refuses(Call("create", {n}))
  <2>1. /\ ~NameTaken(n) /\ ip # NoIP /\ nextKey <= MaxKeys
        /\ file' = Appended(file, key, ip) /\ peers' = peers \cup {new} /\ nextKey' = nextKey + 1
        /\ Replies(Call("create", {n}), "ok")
    BY <1>2 DEF CreatePeer
  <2>2. /\ address' = address /\ edits' = edits /\ byHand' = byHand
        /\ seen' = StoreOf(file', peers') /\ last' = [call |-> Call("create", {n}), reply |-> "ok"]
    BY <2>1 DEF Replies
  <2>3. nextKey \in Nat /\ nextKey \in 1..MaxKeys+1 /\ MaxKeys \in Nat
    BY BoundsAssumption DEF IInv, TypeOK
  <2>4. ip \in Int \ {NoIP}
    <3>1. address \in Addresses
      BY DEF IInv, TypeOK
    <3>2. Walk(Used) \in Int
      BY <3>1, WalkInt
    <3> QED BY <2>1, <3>2 DEF NextAvailableIP
  <2> HIDE DEF ip
  <2>5. /\ t \in Seq(Line) /\ DOMAIN t = 1..4 /\ Len(t) = 4
        /\ t[1].is = "[Peer]" /\ t[2].is = "PublicKey" /\ t[3].is = "AllowedIPs" /\ t[4].is = ""
        /\ t[2].key = key /\ t[3].ip = ip
        /\ OwnKeys(t) = {2} /\ BelowHeaders(t)
        /\ BlocksShaped(t, {new})
    <3>1. IsBlock(t, new)
      BY <2>3, <2>4, NewBlockIs
    <3>2. new.key = key /\ new.ip = ip
      BY DEF Entry
    <3> HIDE DEF t, new, key
    <3> QED BY <3>1, <3>2 DEF IsBlock
  <2>6. file' = file \o t
    BY <2>1 DEF Appended, NewBlock
  <2>19. t \in Seq(Line) /\ Len(t) = 4 /\ DOMAIN t = 1..4
    BY <2>5
  <2> DEFINE l == Len(file)
  <2> HIDE DEF t
  <2>7. /\ file \in Seq(Line) /\ BlocksShaped(file, peers) /\ OneBlockEach(file, peers)
        /\ AllSheltered(file)
    BY DEF IInv, TypeOK, BlocksInv
  <2>8. /\ file' \in Seq(Line) /\ l \in Nat /\ DOMAIN file = 1..l /\ DOMAIN file' = 1..l+4
        /\ \A i \in DOMAIN file : i \in DOMAIN file' /\ file'[i] = file[i]
        /\ \A i \in DOMAIN t : l + i \in DOMAIN file' /\ file'[l + i] = t[i]
        /\ \A i \in DOMAIN file' : i \in DOMAIN file \/ (i - l \in DOMAIN t /\ i = l + (i - l))
    <3>1. /\ file' \in Seq(Line) /\ Len(file) \in Nat /\ DOMAIN file = 1..Len(file)
          /\ DOMAIN file' = 1..Len(file) + Len(t)
          /\ \A i \in DOMAIN file : i \in DOMAIN file' /\ file'[i] = file[i]
          /\ \A i \in DOMAIN t : Len(file) + i \in DOMAIN file' /\ file'[Len(file) + i] = t[i]
          /\ \A i \in DOMAIN file' : i \in DOMAIN file
               \/ (i - Len(file) \in DOMAIN t /\ i = Len(file) + (i - Len(file)))
      <4> DEFINE g == file \o t
      <4>1. file \in Seq(Line) /\ t \in Seq(Line)
        BY <2>7, <2>19
      <4>2. /\ g \in Seq(Line) /\ Len(file) \in Nat /\ DOMAIN file = 1..Len(file)
            /\ DOMAIN g = 1..Len(file) + Len(t)
            /\ \A i \in DOMAIN file : i \in DOMAIN g /\ g[i] = file[i]
            /\ \A i \in DOMAIN t : Len(file) + i \in DOMAIN g /\ g[Len(file) + i] = t[i]
            /\ \A i \in DOMAIN g : i \in DOMAIN file
                 \/ (i - Len(file) \in DOMAIN t /\ i = Len(file) + (i - Len(file)))
        BY <4>1, Appending
      <4>3. file' = g
        BY <2>6
      <4> HIDE DEF g
      <4> QED BY <4>2, <4>3
    <3>2. Len(t) = 4
      BY <2>19
    <3>3. DOMAIN file' = 1..Len(file) + 4
      BY <3>1, <3>2
    <3> QED BY <3>1, <3>3
  <2>9. OwnKeys(file') = OwnKeys(file) \cup {l + 2}
    <3>1. OwnKeys(file') = OwnKeys(file) \cup {l + i : i \in OwnKeys(t)}
      BY <2>5, <2>6, <2>7, OwnKeysAppended
    <3>2. OwnKeys(t) = {2}
      BY <2>5
    <3> HIDE DEF l
    <3> QED BY <3>1, <3>2
  <2>10. file'[l + 2] = t[2] /\ file'[l + 2].key = key
    <3>1. 2 \in DOMAIN t
      BY <2>19
    <3> QED BY <2>5, <2>8, <3>1
  <2> HIDE DEF l
  <2>11. BlocksShaped(file', peers')
    <3>1. BlocksShaped(t, peers')
      <4>1. new \in peers'
        BY <2>1
      <4>2. BlocksShaped(t, {new})
        BY <2>5
      <4> HIDE DEF new
      <4> QED BY <4>1, <4>2 DEF BlocksShaped
    <3>2. peers \subseteq peers'
      BY <2>1
    <3> QED BY <2>5, <2>6, <2>7, <3>1, <3>2, ShapeAppended
  <2>12. \A i \in OwnKeys(file) : file'[i].key = file[i].key /\ i # l + 2
    <3> TAKE i \in OwnKeys(file)
    <3>1. i \in DOMAIN file
      BY DEF OwnKeys
    <3> QED BY <2>8, <3>1
  <2>13. /\ \A i \in OwnKeys(file) : file[i].key # key
         /\ \A e \in peers : e.key # key
    BY FreshKey DEF IInv
  <2>14. OneBlockEach(file', peers')
    <3>1. ASSUME NEW i \in OwnKeys(file'), NEW j \in OwnKeys(file'), file'[i].key = file'[j].key
          PROVE  i = j
      <4>1. CASE i \in OwnKeys(file) /\ j \in OwnKeys(file)
        BY <2>7, <2>12, <3>1, <4>1 DEF OneBlockEach
      <4> QED BY <2>9, <2>10, <2>12, <2>13, <3>1, <4>1
    <3>2. ASSUME NEW e \in peers'
          PROVE  \E i \in OwnKeys(file') : file'[i].key = e.key
      <4>1. CASE e \in peers
        BY <2>7, <2>9, <2>12, <4>1 DEF OneBlockEach
      <4>2. CASE e = new
        <5>1. e.key = key
          BY <4>2 DEF Entry
        <5> QED BY <2>9, <2>10, <5>1
      <4> QED BY <2>1, <4>1, <4>2
    <3> QED BY <3>1, <3>2 DEF OneBlockEach
  <2>15. AllSheltered(file')
    <3>1. ASSUME NEW j \in DOMAIN t, t[j].is \in IPKinds
          PROVE  j-1 \in OwnKeys(t)
      <4>1. j = 1 \/ j = 2 \/ j = 3 \/ j = 4
        BY <2>19
      <4>2. j = 3
        BY <2>5, <3>1, <4>1 DEF IPKinds
      <4>3. j-1 = 2
        BY <4>2
      <4> QED BY <2>5, <4>3
    <3> QED BY <2>5, <2>6, <2>7, <3>1, ShelterAppended
  <2>16. Kept(file', Others(file')) = Kept(file, Others(file))
    <3>1. \A i \in OwnKeys(file) : i \in 1..l /\ i+1 \in 1..l
      BY <2>7, <2>8 DEF OwnKeys, BlocksShaped
    <3>2. ASSUME NEW i \in DOMAIN file
          PROVE  i \in Others(file') <=> i \in Others(file)
      <4>1. i \in DOMAIN file' /\ file'[i] = file[i]
        BY <2>8
      <4>2. /\ i \in OwnKeys(file') <=> i \in OwnKeys(file)
            /\ i-1 \in OwnKeys(file') <=> i-1 \in OwnKeys(file)
            /\ i+1 \in OwnKeys(file') <=> i+1 \in OwnKeys(file)
        <5>1. i # l+2 /\ i-1 # l+2 /\ i+1 # l+2
          BY <2>8
        <5> QED BY <2>9, <5>1
      <4> QED BY <4>1, <4>2 DEF Others
    <3>3. ASSUME NEW i \in DOMAIN file', i \notin DOMAIN file
          PROVE  i \notin Others(file')
      <4>1. l \in Nat /\ i \in l+1..l+4
        BY <2>8, <3>3
      <4>2. i = l+1 \/ i = l+2 \/ i = l+3 \/ i = l+4
        BY <4>1
      <4>3. CASE i = l+1
        <5>1. i+1 = l+2
          BY <4>1, <4>3
        <5> QED BY <2>9, <5>1 DEF Others
      <4>4. CASE i = l+2
        BY <2>9, <4>4 DEF Others
      <4>5. CASE i = l+3
        <5>1. i-1 = l+2
          BY <4>1, <4>5
        <5> QED BY <2>9, <5>1 DEF Others
      <4>6. CASE i = l+4
        <5>3. 4 \in DOMAIN t
          BY <2>19
        <5>1. file'[i] = t[4]
          BY <2>8, <4>6, <5>3
        <5>2. ~InForce(file'[i])
          BY <2>5, <5>1 DEF InForce
        <5> QED BY <5>2 DEF Others
      <4> QED BY <4>2, <4>3, <4>4, <4>5, <4>6
    <3>4. Others(file') = Others(file)
      <4>1. Others(file') \subseteq DOMAIN file' /\ Others(file) \subseteq DOMAIN file
        BY DEF Others
      <4> QED BY <3>2, <3>3, <4>1
    <3>5. Others(file) \in SUBSET DOMAIN file
      BY DEF Others
    <3> QED BY <2>6, <2>7, <2>19, <3>4, <3>5, KeptAbove
  <2>17. TypeOK'
    <3>1. \A i \in DOMAIN file' : file'[i].key.name \in Names => file'[i].key.serial \in 1..nextKey'-1
      <4> SUFFICES ASSUME NEW i \in OwnKeys(file')  PROVE file'[i].key.serial \in 1..nextKey'-1
        BY DEF OwnKeys
      <4>1. CASE i \in OwnKeys(file)
        <5>1. file[i].key.serial \in 1..nextKey-1
          BY <4>1 DEF OwnKeys, IInv, TypeOK
        <5> QED BY <2>1, <2>3, <2>12, <4>1, <5>1
      <4>2. CASE i = l+2
        <5>1. file'[i].key.serial = nextKey
          BY <2>10, <4>2 DEF Key
        <5> QED BY <2>1, <2>3, <5>1
      <4> QED BY <2>9, <4>1, <4>2
    <3>2. new.name = n /\ new.key = key /\ new.key.name = n /\ new.ip = ip
      BY DEF Entry, Key
    <3>3. \A e \in peers' : e.name \in Names /\ e.key.name = e.name /\ e.ip \in Int \ {NoIP}
      <4>1. \A e \in peers : e.name \in Names /\ e.key.name = e.name /\ e.ip \in Int \ {NoIP}
        BY DEF IInv, TypeOK
      <4> HIDE DEF new
      <4> QED BY <2>1, <2>4, <3>2, <4>1
    <3>4. \A e \in peers : e.name # n /\ e.key # key
      BY <2>1, <2>13 DEF NameTaken
    <3>5. \A e, d \in peers' : e.name = d.name \/ e.key = d.key => e = d
      <4>1. \A e, d \in peers : e.name = d.name \/ e.key = d.key => e = d
        BY DEF IInv, TypeOK
      <4> HIDE DEF new, key
      <4> QED BY <2>1, <3>2, <3>4, <4>1
    <3>6. nextKey' \in 1..MaxKeys+1
      BY <2>1, <2>3
    <3>7. last' \in [call : Calls \cup {Call("none", {})}, reply : Reply \cup {"none"}]
      BY <2>2 DEF Call, Calls, Reply
    <3>8. address' \in Addresses /\ edits' \in 0..MaxEdits
      BY <2>2 DEF IInv, TypeOK
    <3> HIDE DEF new, key
    <3> QED BY <2>8, <3>1, <3>3, <3>5, <3>6, <3>7, <3>8 DEF TypeOK
  <2>18. HistoryInv'
    BY <2>2, <2>16 DEF HistoryInv, IInv
  <2> QED BY <2>11, <2>14, <2>15, <2>17, <2>18 DEF IInv, BlocksInv
<1> QED BY <1>1, <1>2

LEMMA OthersAppended ==
    ASSUME NEW f \in Seq(Line), NEW t \in Seq(Line), NEW ps, BlocksShaped(f, ps), OwnKeys(t) = {}
    PROVE  Kept(f \o t, Others(f \o t)) = Kept(f, Others(f)) \o AllInForce(t)
<1> DEFINE g == f \o t
           n == Len(f)
<1>1. /\ g \in Seq(Line) /\ n \in Nat /\ DOMAIN f = 1..n /\ Len(t) \in Nat /\ DOMAIN t = 1..Len(t)
      /\ \A i \in DOMAIN f : i \in DOMAIN g /\ g[i] = f[i]
      /\ \A i \in DOMAIN t : n + i \in DOMAIN g /\ g[n + i] = t[i]
      /\ \A i \in DOMAIN g : i \in DOMAIN f \/ (i - n \in DOMAIN t /\ i = n + (i - n))
  BY Appending
<1>2. OwnKeys(g) = OwnKeys(f)
  <2>1. OwnKeys(g) = OwnKeys(f) \cup {n + i : i \in OwnKeys(t)}
    BY OwnKeysAppended
  <2> HIDE DEF g
  <2> QED BY <2>1
<1>3. \A i \in OwnKeys(f) : i \in 1..n /\ i+1 \in 1..n
  BY <1>1 DEF OwnKeys, BlocksShaped
<1>4. \A i \in DOMAIN t : i \in Others(t) <=> InForce(t[i])
  BY DEF Others
<1> HIDE DEF g, n
<1>5. \A i \in DOMAIN f : i \in Others(g) <=> i \in Others(f)
  BY <1>1, <1>2 DEF Others
<1>6. ASSUME NEW i \in DOMAIN t
      PROVE  n + i \in Others(g) <=> i \in Others(t)
  <2>1. n + i \in DOMAIN g /\ g[n + i] = t[i] /\ i \in 1..Len(t)
    BY <1>1
  <2>2. n + i \notin 1..n /\ (n + i) + 1 \notin 1..n
    BY <1>1, <2>1
  <2>3. ((n + i) - 1) + 1 \notin 1..n
    BY <1>1, <2>1
  <2>4. n + i \notin OwnKeys(g) /\ (n + i) + 1 \notin OwnKeys(g) /\ (n + i) - 1 \notin OwnKeys(g)
    BY <1>2, <1>3, <2>2, <2>3
  <2> QED BY <1>4, <2>1, <2>4 DEF Others
<1>7. Others(g) = Others(f) \cup {n + i : i \in Others(t)}
  <2>1. Others(g) \subseteq DOMAIN g /\ Others(f) \subseteq DOMAIN f /\ Others(t) \subseteq DOMAIN t
    BY DEF Others
  <2>2. ASSUME NEW i \in Others(g)
        PROVE  i \in Others(f) \cup {n + j : j \in Others(t)}
    <3>1. CASE i \in DOMAIN f
      BY <1>5, <3>1
    <3>2. CASE i - n \in DOMAIN t /\ i = n + (i - n)
      BY <1>6, <3>2
    <3> QED BY <1>1, <2>1, <3>1, <3>2
  <2> QED BY <1>5, <1>6, <2>1, <2>2
<1>8. Others(f) \in SUBSET DOMAIN f /\ Others(t) \in SUBSET DOMAIN t
  BY DEF Others
<1>9. Kept(g, Others(g)) = Kept(f, Others(f)) \o Kept(t, Others(t))
  <2>1. g = Both(f, t)
    BY DEF g, Both
  <2>2. Others(g) = Others(f) \cup Shifted(Len(f), Others(t))
    BY <1>7 DEF n, Shifted
  <2>3. Kept(g, Others(g)) = Both(Kept(f, Others(f)), Kept(t, Others(t)))
    BY <1>8, <2>1, <2>2, KeptOfBoth
  <2> QED BY <2>3 DEF Both
<1>10. AllInForce(t) = Kept(t, Others(t))
  BY AllOthers
<1> QED BY <1>9, <1>10 DEF g

LEMMA Edited ==
    ASSUME IInv, EditByHand
    PROVE  IInv'
<1>1. PICK t \in Edits[address] : /\ file' = file \o t
                                  /\ byHand' = byHand \o AllInForce(t)
                                  /\ seen' = StoreOf(file', peers)
  BY DEF EditByHand
<1>2. /\ edits < MaxEdits /\ edits' = edits + 1
      /\ address' = address /\ peers' = peers /\ nextKey' = nextKey /\ last' = last
  BY DEF EditByHand
<1>3. /\ file \in Seq(Line) /\ BlocksShaped(file, peers) /\ OneBlockEach(file, peers)
      /\ AllSheltered(file) /\ address \in Addresses
  BY DEF IInv, TypeOK, BlocksInv
<1>4. t \in Seq(Line) /\ OwnKeys(t) = {} /\ WholeSections(t) /\ BelowHeaders(t)
  <2>1. t \in Seq(Line) /\ OwnKeys(t) = {}
    BY <1>3, TextsHoldNoOwnKey
  <2>2. WholeSections(t)
    BY <1>3, EditsAssumption
  <2> QED BY <2>1, <2>2 DEF WholeSections, BelowHeaders
<1>5. file' \in Seq(Line) /\ \A i \in DOMAIN file : i \in DOMAIN file' /\ file'[i] = file[i]
  BY <1>1, <1>3, <1>4, Appending
<1>6. OwnKeys(file') = OwnKeys(file)
  <2>1. OwnKeys(file') = OwnKeys(file) \cup {Len(file) + i : i \in OwnKeys(t)}
    BY <1>1, <1>3, <1>4, OwnKeysAppended
  <2> QED BY <1>4, <2>1
<1>7. \A i \in OwnKeys(file) : file'[i] = file[i]
  BY <1>5 DEF OwnKeys
<1>8. BlocksShaped(file', peers')
  <2>1. BlocksShaped(t, peers)
    BY <1>4, NoOwnNothingToShow
  <2> QED BY <1>1, <1>2, <1>3, <1>4, <2>1, ShapeAppended
<1>9. OneBlockEach(file', peers')
  BY <1>2, <1>3, <1>6, <1>7 DEF OneBlockEach
<1>10. AllSheltered(file')
  <2>1. \A j \in DOMAIN t : t[j].is \in IPKinds =>
           \E c \in 1..j-1 : /\ c \notin OwnKeys(t) /\ t[c].is \in Marks
                             /\ \A k \in c+1..j : t[k].is \notin Marks \cup Headers
    BY <1>4, SectionsShelter
  <2> QED BY <1>1, <1>3, <1>4, <2>1, ShelterAppended
<1>11. HistoryInv'
  <2>1. Kept(file', Others(file')) = Kept(file, Others(file)) \o AllInForce(t)
    BY <1>1, <1>3, <1>4, OthersAppended
  <2> QED BY <1>1, <1>2, <2>1 DEF HistoryInv, IInv
<1>12. TypeOK'
  <2>1. \A i \in DOMAIN file' : file'[i].key.name \in Names => file'[i].key.serial \in 1..nextKey'-1
    <3> SUFFICES ASSUME NEW i \in OwnKeys(file')  PROVE file'[i].key.serial \in 1..nextKey'-1
      BY DEF OwnKeys
    <3>1. i \in OwnKeys(file) /\ file'[i] = file[i]
      BY <1>6, <1>7
    <3> QED BY <1>2, <3>1 DEF OwnKeys, IInv, TypeOK
  <2>2. edits' \in 0..MaxEdits
    <3>1. edits \in 0..MaxEdits
      BY DEF IInv, TypeOK
    <3> QED BY <1>2, <3>1, BoundsAssumption
  <2> QED BY <1>2, <1>5, <2>1, <2>2 DEF IInv, TypeOK
<1> QED BY <1>8, <1>9, <1>10, <1>11, <1>12 DEF IInv, BlocksInv

LEMMA KeysOfMatching ==
    ASSUME TypeOK, NEW ns
    PROVE  /\ \A k \in KeysOf(Matching(ns)) : k.name \in Names
           /\ \A e \in peers : e.key \in KeysOf(Matching(ns)) <=> e \in Matching(ns)
<1>1. \A e \in peers : e.name \in Names /\ e.key.name = e.name
  BY DEF TypeOK
<1>2. \A e, d \in peers : e.key = d.key => e = d
  BY DEF TypeOK
<1>3. Matching(ns) \subseteq peers
  BY DEF Matching
<1> QED BY <1>1, <1>2, <1>3 DEF KeysOf

LEMMA Deleted ==
    ASSUME IInv, NEW ns \in SUBSET Names, DeletePeers(ns)
    PROVE  IInv'
<1>0. Call("delete", ns) \in Calls
  BY DEF Call, Calls
<1>1. CASE Refuses(Call("delete", ns))
  BY <1>0, <1>1, Refused
<1>2. CASE ~Refuses(Call("delete", ns))
  <2> DEFINE keys == KeysOf(Matching(ns))
  <2>1. /\ file' = Removed(file, keys) /\ peers' = peers \ Matching(ns) /\ nextKey' = nextKey
        /\ address' = address /\ edits' = edits /\ byHand' = byHand
        /\ seen' = StoreOf(file', peers') /\ last' = [call |-> Call("delete", ns), reply |-> "ok"]
    BY <1>2 DEF DeletePeers, Replies
  <2>2. /\ file \in Seq(Line) /\ BlocksShaped(file, peers) /\ OneBlockEach(file, peers)
        /\ AllSheltered(file) /\ TypeOK
    BY DEF IInv, TypeOK, BlocksInv
  <2>3. /\ \A k \in keys : k.name \in Names
        /\ \A e \in peers : e.key \in keys <=> e \in Matching(ns)
    BY <2>2, KeysOfMatching
  <2> HIDE DEF keys
  <2>4. file' = Kept(file, Left(file, keys))
    BY <2>1, <2>2, <2>3, RemovedIs
  <2>5. PICK q : Cut(file, keys, q, file')
    BY <2>2, <2>4, CutExists
  <2>6. file' \in Seq(Line)
    BY <2>2, <2>5, CutLines
  <2>7. /\ \A e \in peers : e.key \notin keys => e \in peers'
        /\ \A e \in peers' : e \in peers /\ e.key \notin keys
    BY <2>1, <2>3
  <2>8. /\ BlocksShaped(file', peers') /\ AllSheltered(file')
        /\ Kept(file', Others(file')) = Kept(file, Others(file))
    BY <2>2, <2>5, <2>7, ShapeCut
  <2>9. OneBlockEach(file', peers')
    BY <2>2, <2>5, <2>7, OneBlockEachCut
  <2>10. TypeOK'
    <3>1. ASSUME NEW k \in OwnKeys(file')
          PROVE  file'[k].key.serial \in 1..nextKey'-1
      <4>1. q[k] \in OwnKeys(file)
        BY <2>2, <2>5, CutOwn
      <4>2. k \in DOMAIN file'
        BY DEF OwnKeys
      <4>3. file'[k] = file[q[k]]
        BY <2>2, <2>5, <4>2, CutLines
      <4> QED BY <2>1, <4>1, <4>3 DEF OwnKeys, IInv, TypeOK
    <3>2. \A i \in DOMAIN file' : file'[i].key.name \in Names => file'[i].key.serial \in 1..nextKey'-1
      BY <3>1 DEF OwnKeys
    <3>3. last' \in [call : Calls \cup {Call("none", {})}, reply : Reply \cup {"none"}]
      BY <1>0, <2>1 DEF Reply
    <3> QED BY <2>1, <2>6, <3>2, <3>3 DEF IInv, TypeOK
  <2>11. HistoryInv'
    BY <2>1, <2>8 DEF HistoryInv, IInv
  <2> QED BY <2>8, <2>9, <2>10, <2>11 DEF IInv, BlocksInv
<1> QED BY <1>1, <1>2

LEMMA FrozenOrNot ==
    ASSUME IInv, NEW op \in {"freeze", "unfreeze"}, NEW ns \in SUBSET Names, FreezePeers(op, ns)
    PROVE  IInv'
<1>0. Call(op, ns) \in Calls
  BY DEF Call, Calls
<1>1. CASE Refuses(Call(op, ns))
  BY <1>0, <1>1, Refused
<1>2. CASE ~Refuses(Call(op, ns))
  <2> DEFINE keys == KeysOf(Matching(ns))
  <2>1. /\ file' = Toggled(file, keys, op = "freeze") /\ peers' = peers /\ nextKey' = nextKey
        /\ address' = address /\ edits' = edits /\ byHand' = byHand
        /\ seen' = StoreOf(file', peers') /\ last' = [call |-> Call(op, ns), reply |-> "ok"]
    BY <1>2 DEF FreezePeers, Replies
  <2>2. /\ file \in Seq(Line) /\ BlocksShaped(file, peers) /\ OneBlockEach(file, peers)
        /\ AllSheltered(file) /\ TypeOK
    BY DEF IInv, TypeOK, BlocksInv
  <2>3. \A k \in keys : k.name \in Names
    BY <2>2, KeysOfMatching
  <2> HIDE DEF keys
  <2>4. Retouched(file, file')
    BY <2>1, <2>2, <2>3, ToggledRetouches
  <2>5. file' \in Seq(Line) /\ DOMAIN file' = DOMAIN file
    BY <2>4 DEF Retouched
  <2>6. /\ BlocksShaped(file', peers') /\ OneBlockEach(file', peers') /\ AllSheltered(file')
        /\ Kept(file', Others(file')) = Kept(file, Others(file))
    BY <2>1, <2>2, <2>4, <2>5, ShapeRetouched
  <2>7. TypeOK'
    <3>1. \A i \in DOMAIN file' : file'[i].key = file[i].key
      BY <2>4, <2>5 DEF Retouched
    <3>2. last' \in [call : Calls \cup {Call("none", {})}, reply : Reply \cup {"none"}]
      BY <1>0, <2>1 DEF Reply
    <3> QED BY <2>1, <2>5, <3>1, <3>2 DEF IInv, TypeOK
  <2>8. HistoryInv'
    BY <2>1, <2>6 DEF HistoryInv, IInv
  <2> QED BY <2>6, <2>7, <2>8 DEF IInv, BlocksInv
<1> QED BY <1>1, <1>2

LEMMA IInvStep == IInv /\ [Next]_vars => IInv'
<1> SUFFICES ASSUME IInv, [Next]_vars  PROVE IInv'
  OBVIOUS
<1>1. ASSUME NEW n \in Names, CreatePeer(n)  PROVE IInv'
  BY <1>1, Created
<1>2. ASSUME NEW ns \in SUBSET Names \ {{}}, DeletePeers(ns)  PROVE IInv'
  BY <1>2, Deleted
<1>3. ASSUME NEW ns \in SUBSET Names \ {{}}, NEW op \in {"freeze", "unfreeze"}, FreezePeers(op, ns)
      PROVE  IInv'
  BY <1>3, FrozenOrNot
<1>4. CASE EditByHand
  BY <1>4, Edited
<1>5. CASE UNCHANGED vars
  BY <1>5 DEF vars, IInv, TypeOK, BlocksInv, HistoryInv
<1> QED BY <1>1, <1>2, <1>3, <1>4, <1>5 DEF Next, Serves

----------------------------------------------------------------------------
(* Theorems *)

LEMMA IInvHolds == Spec => []IInv
BY IInvInit, IInvStep, PTL DEF Spec

\* What a line, an entry and a call may be, and that no key pair is used twice.
THEOREM WgConfTypes == Spec => []TypeOK
<1>1. IInv => TypeOK
  BY DEF IInv
<1> QED BY <1>1, IInvHolds, PTL

\* Whatever is appended, removed and commented out, by whom ever and how often, what an
\* administrator has in force stays in force, line by line and in order.
THEOREM OthersKeptHolds == Spec => []OthersKept
<1>1. IInv => OthersKept
  <2> SUFFICES ASSUME IInv  PROVE OthersKept
    OBVIOUS
  <2>1. NotOurs = Kept(file, Others(file))
    BY NotOursIs DEF IInv, TypeOK, BlocksInv
  <2> QED BY <2>1 DEF IInv, HistoryInv, OthersKept
<1> QED BY <1>1, IInvHolds, PTL

----------------------------------------------------------------------------
(* The two files name the same peers *)

\* The places of the worker's blocks, with their keys and addresses.
LEMMA OwnHeaders ==
    ASSUME IInv
    PROVE  LET own == {i \in DOMAIN file : OwnHeader(i)} IN
           /\ \A h \in own : /\ h \in Nat /\ h+1 \in OwnKeys(file)
                             /\ LastOf(file, h, "PublicKey").key = file[h+1].key
           /\ \A i \in OwnKeys(file) : i-1 \in own /\ i \in Nat
<1> DEFINE own == {i \in DOMAIN file : OwnHeader(i)}
<1>1. file \in Seq(Line) /\ BlocksShaped(file, peers) /\ Len(file) \in Nat /\ DOMAIN file = 1..Len(file)
  BY LinesOf DEF IInv, TypeOK, BlocksInv
<1>2. ASSUME NEW h \in own
      PROVE  /\ h \in Nat /\ h+1 \in OwnKeys(file)
             /\ LastOf(file, h, "PublicKey").key = file[h+1].key
  <2>1. h \in PeerHeaders(file) /\ h+1 \in OwnKeys(file) /\ h \in Nat
    BY <1>1, OwnHeaderIs DEF OwnHeader
  <2>2. (h+1)-1 = h
    BY <2>1
  <2>3. LastOf(file, (h+1)-1, "PublicKey") = file[h+1]
    BY <1>1, <2>1, OwnBlockParsed
  <2> QED BY <2>1, <2>2, <2>3
<1>3. ASSUME NEW i \in OwnKeys(file)
      PROVE  i-1 \in own /\ i \in Nat
  <2>1. i-1 \in PeerHeaders(file) /\ i \in Nat /\ (i-1)+1 = i
    BY <1>1, OwnBlock
  <2>2. LastOf(file, i-1, "PublicKey").key.name \in Names
    BY <1>1, <2>1, OwnHeaderIs
  <2> QED BY <2>1, <2>2 DEF OwnHeader, PeerHeaders
<1> QED BY <1>2, <1>3

\* The entry of a block.
LEMMA EntryOf ==
    ASSUME IInv, NEW i \in OwnKeys(file), NEW e \in peers, e.key = file[i].key
    PROVE  e.ip = file[i+1].ip /\ e.ip # NoIP /\ e.name = file[i].key.name
<1>1. PICK d \in peers : d.key = file[i].key /\ d.ip = file[i+1].ip
  BY DEF IInv, BlocksInv, BlocksShaped
<1>2. d = e
  BY <1>1 DEF IInv, TypeOK
<1> QED BY <1>1, <1>2 DEF IInv, TypeOK

\* The addresses parsePeerBlock and setPeersFrozen find in a block.
LEMMA IPsOfBlock ==
    ASSUME IInv, NEW i \in OwnKeys(file)
    PROVE  /\ file[i+1].is = "AllowedIPs" =>
                {file[j].ip : j \in {k \in BlockAt(file, i-1) : file[k].is = "AllowedIPs"}} = {file[i+1].ip}
           /\ file[i+1].is # "AllowedIPs" =>
                /\ {file[j].ip : j \in {k \in BlockAt(file, i-1) : file[k].is = "AllowedIPs"}} = {}
                /\ file[i+1].ip \in
                     {file[j].ip : j \in {k \in BlockAt(file, i-1) : file[k].is = "#AllowedIPs"}}
<1>1. file \in Seq(Line) /\ BlocksShaped(file, peers)
  BY DEF IInv, TypeOK, BlocksInv
<1>2. /\ \A j \in DOMAIN file : j \in {i-1, i, i+1} => j \in BlockAt(file, i-1)
      /\ \A j \in BlockAt(file, i-1) : InForce(file[j]) => j \in {i-1, i, i+1}
  BY <1>1, OwnBlock
<1>3. /\ file[i].is = "PublicKey" /\ file[i-1].is = "[Peer]"
      /\ i+1 \in DOMAIN file /\ file[i+1].is \in IPKinds
  BY <1>1 DEF BlocksShaped
<1>4. \A j \in BlockAt(file, i-1) : file[j].is = "AllowedIPs" => j = i+1
  <2> SUFFICES ASSUME NEW j \in BlockAt(file, i-1), file[j].is = "AllowedIPs"  PROVE j = i+1
    OBVIOUS
  <2>1. InForce(file[j])
    BY DEF InForce
  <2>2. j # i /\ j # i-1
    BY <1>3
  <2> QED BY <1>2, <2>1, <2>2
<1>5. i+1 \in BlockAt(file, i-1)
  BY <1>2, <1>3
<1> QED BY <1>3, <1>4, <1>5 DEF IPKinds

\* Every entry of peers.json has one block, and every block of the worker an entry,
\* with its address in force or commented out, whatever was called in whatever order.
THEOREM FilesAgreeHolds == Spec => []FilesAgree
<1>1. IInv => FilesAgree
  <2> SUFFICES ASSUME IInv  PROVE FilesAgree
    OBVIOUS
  <2> DEFINE own == {i \in DOMAIN file : OwnHeader(i)}
             KeyAt(i) == LastOf(file, i, "PublicKey").key
             IPsAt(i, is) == {file[j].ip : j \in {k \in BlockAt(file, i) : file[k].is = is}}
  <2>1. /\ \A h \in own : h \in Nat /\ h+1 \in OwnKeys(file) /\ KeyAt(h) = file[h+1].key
        /\ \A i \in OwnKeys(file) : i-1 \in own /\ i \in Nat
    BY OwnHeaders
  <2>2. own \in SUBSET DOMAIN file /\ file \in Seq(Line) /\ Len(file) \in Nat
        /\ DOMAIN file = 1..Len(file)
    BY LinesOf DEF IInv, TypeOK
  <2> HIDE DEF own, KeyAt, IPsAt
  <2>3. /\ \A i, j \in OwnKeys(file) : file[i].key = file[j].key => i = j
        /\ \A e \in peers : \E i \in OwnKeys(file) : file[i].key = e.key
        /\ \A i \in OwnKeys(file) : \E e \in peers : e.key = file[i].key
    BY DEF IInv, BlocksInv, OneBlockEach, BlocksShaped
  <2>4. \A h \in own : \E e \in peers : e.key = KeyAt(h)
    BY <2>1, <2>3
  <2>5. \A e \in peers : \E h \in own : e.key = KeyAt(h)
    <3> TAKE e \in peers
    <3>1. PICK i \in OwnKeys(file) : file[i].key = e.key
      BY <2>3
    <3>2. i-1 \in own /\ (i-1)+1 = i
      BY <2>1
    <3>3. KeyAt(i-1) = file[i].key
      BY <2>1, <3>2
    <3> QED BY <3>1, <3>2, <3>3
  <2>6. {KeyAt(i) : i \in own} = KeysOf(peers)
    BY <2>4, <2>5 DEF KeysOf
  <2>7. Cardinality(own) = Cardinality(peers)
    <3> DEFINE b == [h \in own |-> CHOOSE e \in peers : e.key = KeyAt(h)]
    <3>1. \A h \in own : b[h] \in peers /\ b[h].key = KeyAt(h)
      BY <2>4
    <3>2. DOMAIN b = own
      OBVIOUS
    <3>3. b = [h \in own |-> b[h]]
      OBVIOUS
    <3> HIDE DEF b
    <3>4. \A g, h \in own : b[g] = b[h] => g = h
      <4> SUFFICES ASSUME NEW g \in own, NEW h \in own, b[g] = b[h]  PROVE g = h
        OBVIOUS
      <4>1. file[g+1].key = file[h+1].key /\ g+1 \in OwnKeys(file) /\ h+1 \in OwnKeys(file)
        BY <2>1, <3>1
      <4>2. g+1 = h+1 /\ g \in Nat /\ h \in Nat
        BY <2>1, <2>3, <4>1
      <4> QED BY <4>2
    <3>5. \A e \in peers : \E h \in own : b[h] = e
      <4> TAKE e \in peers
      <4>1. PICK h \in own : e.key = KeyAt(h)
        BY <2>5
      <4>2. b[h] = e
        BY <3>1, <4>1 DEF IInv, TypeOK
      <4> QED BY <4>2
    <3>6. b \in [own -> peers]
      BY <3>1, <3>3
    <3>7. b \in Bijection(own, peers)
      BY <3>4, <3>5, <3>6 DEF Bijection, Injection, Surjection, IsInjective
    <3>8. IsFiniteSet(own)
      <4>1. IsFiniteSet(1..Len(file))
        BY <2>2, FS_Interval
      <4> QED BY <2>2, <4>1, FS_Subset
    <3> QED BY <3>7, <3>8, FS_Bijection DEF ExistsBijection
  <2>8. ASSUME NEW h \in own, NEW e \in peers, KeyAt(h) = e.key
        PROVE  \/ IPsAt(h, "AllowedIPs") = {e.ip}
               \/ IPsAt(h, "AllowedIPs") = {} /\ e.ip \in IPsAt(h, "#AllowedIPs")
    <3>1. h+1 \in OwnKeys(file) /\ (h+1)-1 = h /\ file[h+1].key = e.key
      BY <2>1, <2>8
    <3>2. e.ip = file[(h+1)+1].ip
      BY <3>1, EntryOf
    <3>3. /\ file[(h+1)+1].is = "AllowedIPs" => IPsAt(h, "AllowedIPs") = {file[(h+1)+1].ip}
          /\ file[(h+1)+1].is # "AllowedIPs" => /\ IPsAt(h, "AllowedIPs") = {}
                                                /\ file[(h+1)+1].ip \in IPsAt(h, "#AllowedIPs")
      BY <3>1, IPsOfBlock DEF IPsAt
    <3> QED BY <3>2, <3>3
  <2> QED BY <2>6, <2>7, <2>8 DEF FilesAgree, own, KeyAt, IPsAt
<1> QED BY <1>1, IInvHolds, PTL

----------------------------------------------------------------------------
(* What the backend sees *)

Good(f, ps) ==
    /\ f \in Seq(Line) /\ BlocksShaped(f, ps) /\ OneBlockEach(f, ps)
    /\ \A e \in ps : e.name \in Names /\ e.key.name = e.name /\ e.ip \in Int \ {NoIP}
    /\ \A e, d \in ps : e.name = d.name \/ e.key = d.key => e = d

LEMMA GoodNow == IInv => Good(file, peers)
BY DEF IInv, TypeOK, BlocksInv, Good

LEMMA GoodNext == IInv' => Good(file', peers')
BY DEF IInv, TypeOK, BlocksInv, Good

\* A peer is active when the line below its key lets its address in.
Blocked(f, n) == \E i \in OwnKeys(f) : f[i].key.name = n
LetIn(f, n) == \E i \in OwnKeys(f) : f[i].key.name = n /\ f[i+1].is = "AllowedIPs"

StateAt(f, n) == IF ~Blocked(f, n) THEN "absent" ELSE IF LetIn(f, n) THEN "active" ELSE "frozen"

LEMMA StateIs ==
    ASSUME NEW f, NEW ps, Good(f, ps), NEW n \in Names
    PROVE  /\ StateIn(ParsedPeers(f), n) = StateAt(f, n)
           /\ Blocked(f, n) <=> n \in {e.name : e \in ps}
<1> DEFINE r(i) == [key |-> f[i].key, ip |-> LastOf(f, i-1, "AllowedIPs").ip]
           mine == {p \in ParsedPeers(f) : p.key.name = n}
<1>1. f \in Seq(Line) /\ BlocksShaped(f, ps) /\ OneBlockEach(f, ps)
  BY DEF Good
<1>2. ASSUME NEW i \in OwnKeys(f), f[i].key.name = n
      PROVE  /\ r(i) \in mine
             /\ r(i).ip # NoIP <=> f[i+1].is = "AllowedIPs"
  <2>1. LastOf(f, i-1, "PublicKey") = f[i] /\ i-1 \in PeerHeaders(f)
        /\ LastOf(f, i-1, "AllowedIPs") = IF f[i+1].is = "AllowedIPs" THEN f[i+1] ELSE Text("")
    BY <1>1, OwnBlock, OwnBlockParsed
  <2>2. r(i) \in ParsedPeers(f)
    BY <2>1 DEF ParsedPeers
  <2>3. r(i).key.name = n /\ r(i).ip = LastOf(f, i-1, "AllowedIPs").ip
    BY <1>2
  <2>4. f[i+1].ip # NoIP
    <3>1. PICK e \in ps : e.key = f[i].key /\ e.ip = f[i+1].ip
      BY <1>1 DEF BlocksShaped
    <3> QED BY <3>1 DEF Good
  <2>5. r(i).ip # NoIP <=> f[i+1].is = "AllowedIPs"
    BY <2>1, <2>3, <2>4, NoNameIsOwn
  <2> QED BY <2>2, <2>3, <2>5
<1>3. ASSUME NEW p \in mine
      PROVE  \E i \in OwnKeys(f) : f[i].key.name = n /\ p = r(i)
  <2>1. PICK h \in PeerHeaders(f) :
               p = [key |-> LastOf(f, h, "PublicKey").key, ip |-> LastOf(f, h, "AllowedIPs").ip]
    BY DEF ParsedPeers
  <2>2. LastOf(f, h, "PublicKey").key.name = n
    BY <2>1
  <2>3. h+1 \in OwnKeys(f)
    BY <1>1, <2>2, OwnHeaderIs
  <2>4. (h+1)-1 = h
    <3>1. h \in Nat
      BY <1>1, LinesOf DEF PeerHeaders
    <3> QED BY <3>1
  <2>5. LastOf(f, (h+1)-1, "PublicKey") = f[h+1]
    BY <1>1, <2>3, OwnBlockParsed
  <2>6. p = r(h+1) /\ f[h+1].key.name = n
    BY <2>1, <2>2, <2>4, <2>5
  <2> QED BY <2>3, <2>6
<1> HIDE DEF r, mine
<1>4. mine = {} <=> ~Blocked(f, n)
  BY <1>2, <1>3 DEF Blocked
<1>5. (\E p \in mine : p.ip # NoIP) <=> LetIn(f, n)
  BY <1>2, <1>3 DEF LetIn
<1>6. StateIn(ParsedPeers(f), n) = StateAt(f, n)
  BY <1>4, <1>5 DEF StateIn, StateAt, mine
<1>7. Blocked(f, n) => n \in {e.name : e \in ps}
  <2> SUFFICES ASSUME NEW i \in OwnKeys(f), f[i].key.name = n  PROVE \E e \in ps : e.name = n
    BY DEF Blocked
  <2>1. PICK e \in ps : e.key = f[i].key
    BY <1>1 DEF BlocksShaped
  <2> QED BY <2>1 DEF Good
<1>8. n \in {e.name : e \in ps} => Blocked(f, n)
  <2> SUFFICES ASSUME NEW e \in ps, e.name = n  PROVE Blocked(f, n)
    OBVIOUS
  <2>1. PICK i \in OwnKeys(f) : f[i].key = e.key
    BY <1>1 DEF OneBlockEach
  <2> QED BY <2>1 DEF Good, Blocked
<1> QED BY <1>6, <1>7, <1>8

LEMMA StoreIs ==
    ASSUME NEW f, NEW ps, Good(f, ps)
    PROVE  StoreOf(f, ps) =
             [conf |-> [n \in Names |-> StateAt(f, n)], json |-> {e.name : e \in ps}, torn |-> {}]
<1>1. \A n \in Names : StateIn(ParsedPeers(f), n) = StateAt(f, n)
  BY StateIs
<1> QED BY <1>1 DEF StoreOf

\* The block of a created peer is the one more there is, and its address is in force.
LEMMA StateCreated ==
    ASSUME NEW f \in Seq(Line), NEW ps, BlocksShaped(f, ps),
           NEW n \in Names, NEW s \in Nat, NEW ip \in Int, NEW m \in Names, m = n => ~Blocked(f, m)
    PROVE  StateAt(Appended(f, Key(n, s), ip), m) = IF m = n THEN "active" ELSE StateAt(f, m)
<1> DEFINE t == NewBlock(Key(n, s), ip)
           g == Appended(f, Key(n, s), ip)
           l == Len(f)
<1>1. /\ t \in Seq(Line) /\ DOMAIN t = 1..4
      /\ t[3].is = "AllowedIPs" /\ t[2].key = Key(n, s) /\ OwnKeys(t) = {2}
  <2> DEFINE e == Entry(n, Key(n, s), ip)
  <2>1. IsBlock(t, e)
    BY NewBlockIs
  <2>2. e.key = Key(n, s)
    BY DEF Entry
  <2> HIDE DEF t, e
  <2> QED BY <2>1, <2>2 DEF IsBlock
<1>2. g = f \o t
  BY DEF Appended, NewBlock
<1> HIDE DEF t, g
<1>3. 2 \in DOMAIN t /\ 3 \in DOMAIN t /\ l \in Nat /\ (l + 2) + 1 = l + 3
  <2>1. 2 \in DOMAIN t /\ 3 \in DOMAIN t
    BY <1>1
  <2>2. l \in Nat
    BY LinesOf
  <2> HIDE DEF l
  <2> QED BY <2>1, <2>2
<1>4. g[l + 2].key.name = n /\ g[(l + 2) + 1].is = "AllowedIPs"
  <2>1. \A i \in DOMAIN t : (f \o t)[Len(f) + i] = t[i]
    BY <1>1, Appending
  <2>2. \A i \in DOMAIN t : g[l + i] = t[i]
    BY <1>2, <2>1
  <2>3. g[l + 2] = t[2] /\ g[l + 3] = t[3]
    BY <1>3, <2>2
  <2> QED BY <1>1, <1>3, <2>3 DEF Key
<1>5. OwnKeys(g) = OwnKeys(f) \cup {l + 2}
  <2>1. OwnKeys(g) = OwnKeys(f) \cup {l + i : i \in OwnKeys(t)}
    BY <1>1, <1>2, OwnKeysAppended
  <2> HIDE DEF l
  <2> QED BY <1>1, <2>1
<1>6. ASSUME NEW i \in OwnKeys(f)
      PROVE  g[i] = f[i] /\ g[i+1] = f[i+1]
  <2>1. i \in DOMAIN f /\ i+1 \in DOMAIN f
    BY DEF OwnKeys, BlocksShaped
  <2> QED BY <1>1, <1>2, <2>1, Appending
<1> HIDE DEF l
<1>7. CASE m = n
  BY <1>4, <1>5, <1>7 DEF StateAt, Blocked, LetIn, g
<1>8. CASE m # n
  <2>1. Blocked(g, m) <=> Blocked(f, m)
    BY <1>4, <1>5, <1>6, <1>8 DEF Blocked
  <2>2. LetIn(g, m) <=> LetIn(f, m)
    BY <1>4, <1>5, <1>6, <1>8 DEF LetIn
  <2> QED BY <1>8, <2>1, <2>2 DEF StateAt, g
<1> QED BY <1>7, <1>8

LEMMA StateRemoved ==
    ASSUME NEW f \in Seq(Line), NEW ps, BlocksShaped(f, ps), NEW keys, NEW q, NEW g,
           Cut(f, keys, q, g), NEW m,
           NEW gone \in BOOLEAN, \A i \in OwnKeys(f) : f[i].key.name = m => (f[i].key \in keys <=> gone)
    PROVE  StateAt(g, m) = IF gone THEN "absent" ELSE StateAt(f, m)
<1>1. \A k \in DOMAIN g : g[k] = f[q[k]]
  BY CutLines
<1>2. /\ \A k \in OwnKeys(g) : /\ k+1 \in DOMAIN g /\ q[k+1] = q[k] + 1
                               /\ q[k] \in OwnKeys(f) /\ f[q[k]].key \notin keys
      /\ \A i \in OwnKeys(f) : f[i].key \notin keys => \E k \in OwnKeys(g) : q[k] = i
  BY CutOwn
<1>3. \A k \in OwnKeys(g) : g[k] = f[q[k]] /\ g[k+1] = f[q[k] + 1]
  BY <1>1, <1>2 DEF OwnKeys
<1>4. CASE gone
  <2>1. ~Blocked(g, m)
    BY <1>2, <1>3, <1>4 DEF Blocked
  <2> QED BY <1>4, <2>1 DEF StateAt
<1>5. CASE ~gone
  <2>1. Blocked(g, m) <=> Blocked(f, m)
    BY <1>2, <1>3, <1>5 DEF Blocked
  <2>2. LetIn(g, m) <=> LetIn(f, m)
    BY <1>2, <1>3, <1>5 DEF LetIn
  <2> QED BY <1>5, <2>1, <2>2 DEF StateAt
<1> QED BY <1>4, <1>5

LEMMA StateToggled ==
    ASSUME NEW f \in Seq(Line), NEW ps, BlocksShaped(f, ps), AllSheltered(f),
           NEW keys, \A k \in keys : k.name \in Names, NEW frozen, NEW m,
           NEW named \in BOOLEAN, \A i \in OwnKeys(f) : f[i].key.name = m => (f[i].key \in keys <=> named)
    PROVE  StateAt(Toggled(f, keys, frozen), m) =
             IF named /\ Blocked(f, m) THEN IF frozen THEN "frozen" ELSE "active" ELSE StateAt(f, m)
<1> DEFINE g == Toggled(f, keys, frozen)
<1>1. /\ Retouched(f, g)
      /\ \A i \in OwnKeys(f) : g[i+1].is = IF f[i].key \in keys
                                              THEN IF frozen THEN "#AllowedIPs" ELSE "AllowedIPs"
                                              ELSE f[i+1].is
  BY ToggledRetouches
<1> HIDE DEF g
<1>2. OwnKeys(g) = OwnKeys(f) /\ \A i \in OwnKeys(f) : g[i].key = f[i].key
  BY <1>1 DEF Retouched, OwnKeys
<1>3. Blocked(g, m) <=> Blocked(f, m)
  BY <1>2 DEF Blocked
<1>4. CASE named
  <2>1. LetIn(g, m) <=> Blocked(f, m) /\ ~frozen
    BY <1>1, <1>2, <1>4 DEF LetIn, Blocked
  <2> QED BY <1>3, <1>4, <2>1 DEF StateAt, g
<1>5. CASE ~named
  <2>1. LetIn(g, m) <=> LetIn(f, m)
    BY <1>1, <1>2, <1>5 DEF LetIn
  <2> QED BY <1>3, <1>5, <2>1 DEF StateAt, g
<1> QED BY <1>4, <1>5

----------------------------------------------------------------------------
(* The contract *)

LEMMA AnswerIs ==
    ASSUME NEW s, NEW c
    PROVE  /\ Contract!Answer(s, c) = Answer(s, c)
           /\ Contract!BadAnswers(s, c) = BadAnswers(s, c)
BY DEF Contract!Answer, Answer, Contract!BadAnswers, BadAnswers,
       Contract!CreateResult, CreateResult, Contract!DeleteResult, DeleteResult,
       Contract!FreezeResult, FreezeResult, Contract!UnfreezeResult, UnfreezeResult,
       Contract!Result, Result, Contract!WithPeers, WithPeers, Contract!WithBlocks, WithBlocks,
       Contract!WithoutPeers, WithoutPeers, Contract!WithoutBlocks, WithoutBlocks,
       Contract!Frozen, Frozen, Contract!Unfrozen, Unfrozen, Contract!WithState, WithState,
       Contract!CreateFaults, CreateFaults, Contract!DeleteFaults, DeleteFaults,
       Contract!FreezeFaults, FreezeFaults, Contract!UnfreezeFaults, UnfreezeFaults,
       Contract!Failed, Failed, Contract!CreateRefused, CreateRefused,
       Contract!ConfLost, ConfLost, Contract!JsonLost, JsonLost,
       Contract!WriteFaults, WriteFaults

\* The call c is answered r, and the contract allows it.
Answered(c, r) ==
    /\ last' = [call |-> c, reply |-> r]
    /\ \/ Result(seen', r) = Answer(seen, c)
       \/ Result(seen', r) \in BadAnswers(seen, c)

LEMMA AnsweredIs ==
    ASSUME NEW c \in Calls, NEW r, Answered(c, r)
    PROVE  Contract!Next
<1> DEFINE o == Result(seen', r)
<1>1. o.store = seen' /\ o.reply = r
  BY DEF Result
<1>2. Contract!Serve(c, o)
  BY <1>1 DEF Answered, Contract!Serve
<1>3. c \in Contract!Calls
  BY DEF Contract!Calls, Calls
<1>4. o = Contract!Answer(seen, c) \/ o \in Contract!BadAnswers(seen, c)
  BY AnswerIs DEF Answered
<1> HIDE DEF o
<1> QED BY <1>2, <1>3, <1>4 DEF Contract!Next

\* What the backend sees of the files, name by name.
LEMMA SeenIs ==
    ASSUME IInv
    PROVE  /\ seen =
                [conf |-> [n \in Names |-> StateAt(file, n)], json |-> {e.name : e \in peers}, torn |-> {}]
           /\ \A n \in Names : Blocked(file, n) <=> n \in seen.json
           /\ \A n \in Names : StateAt(file, n) \in BlockState
           /\ \A n \in Names : StateAt(file, n) = "absent" <=> ~Blocked(file, n)
<1>1. Good(file, peers)
  BY GoodNow
<1>2. seen = [conf |-> [n \in Names |-> StateAt(file, n)], json |-> {e.name : e \in peers}, torn |-> {}]
  BY <1>1, StoreIs DEF IInv, HistoryInv
<1>3. \A n \in Names : Blocked(file, n) <=> n \in {e.name : e \in peers}
  BY <1>1, StateIs
<1>4. seen.json = {e.name : e \in peers}
  BY <1>2
<1> QED BY <1>2, <1>3, <1>4 DEF StateAt, BlockState

LEMMA SeenNext ==
    ASSUME IInv'
    PROVE  seen' =
             [conf |-> [n \in Names |-> StateAt(file', n)], json |-> {e.name : e \in peers'}, torn |-> {}]
<1>1. Good(file', peers')
  BY GoodNext
<1> QED BY <1>1, StoreIs DEF IInv, HistoryInv

LEMMA StartIs == Init => Contract!Init
<1> SUFFICES ASSUME Init  PROVE Contract!Init
  OBVIOUS
<1>1. IInv
  BY IInvInit
<1>2. seen = [conf |-> [n \in Names |-> StateAt(file, n)], json |-> {e.name : e \in peers}, torn |-> {}]
      /\ (\A n \in Names : Blocked(file, n) <=> n \in seen.json)
      /\ (\A n \in Names : StateAt(file, n) = "absent" <=> ~Blocked(file, n))
  BY <1>1, SeenIs
<1>3. {e.name : e \in peers} = {}
  BY DEF Init
<1>4. seen.json = {}
  BY <1>2, <1>3
<1>5. \A n \in Names : StateAt(file, n) = "absent"
  BY <1>2, <1>4
<1>6. seen = [conf |-> [n \in Names |-> "absent"], json |-> {}, torn |-> {}]
  BY <1>2, <1>3, <1>5
<1>7. last = Contract!Silence
  BY DEF Init, Contract!Silence, Contract!Call, Call
<1> QED BY <1>6, <1>7 DEF Contract!Init, Contract!EmptyStore

LEMMA CreateAnswered ==
    ASSUME IInv, IInv', NEW n \in Names, CreatePeer(n)
    PROVE  Contract!Next
<1> DEFINE c == Call("create", {n})
           ip == NextAvailableIP
<1>0. c \in Calls /\ c.op = "create" /\ c.peers = {n}
  BY DEF Call, Calls
<1>1. seen = [conf |-> [m \in Names |-> StateAt(file, m)], json |-> {e.name : e \in peers}, torn |-> {}]
  BY SeenIs
<1>2. seen' = [conf |-> [m \in Names |-> StateAt(file', m)], json |-> {e.name : e \in peers'}, torn |-> {}]
  BY SeenNext
<1>3. seen.json = {e.name : e \in peers} /\ (NameTaken(n) <=> {n} \subseteq seen.json)
  BY <1>1 DEF NameTaken
<1>4. CASE NameTaken(n) \/ ip = NoIP
  <2>1. Refuses(c)
    BY <1>4 DEF CreatePeer
  <2>2. last' = [call |-> c, reply |-> "status"] /\ file' = file /\ peers' = peers
    BY <2>1 DEF Refuses, Replies
  <2>3. seen' = seen
    BY <1>1, <1>2, <2>2
  <2>4. CASE NameTaken(n)
    <3>1. Answer(seen, c) = Result(seen, "status")
      BY <1>0, <1>3, <2>4 DEF Answer, CreateResult, CreateRefused
    <3>2. Answered(c, "status")
      BY <2>2, <2>3, <3>1 DEF Answered
    <3> QED BY <1>0, <3>2, AnsweredIs
  <2>5. CASE ~NameTaken(n)
    <3>1. BadAnswers(seen, c) = Failed({seen, ConfLost(seen), WithBlocks(seen, {n}),
                                        JsonLost(WithBlocks(seen, {n})), WithPeers(seen, {n})})
      BY <1>0, <1>1, <1>3, <2>5 DEF BadAnswers, CreateFaults, CreateRefused
    <3>2. Result(seen, "status") \in BadAnswers(seen, c)
      BY <3>1 DEF Failed, Result
    <3>3. Answered(c, "status")
      BY <2>2, <2>3, <3>2 DEF Answered
    <3> QED BY <1>0, <3>3, AnsweredIs
  <2> QED BY <2>4, <2>5
<1>5. CASE ~(NameTaken(n) \/ ip = NoIP)
  <2> DEFINE key == Key(n, nextKey)
  <2>1. /\ file' = Appended(file, key, ip) /\ peers' = peers \cup {Entry(n, key, ip)}
        /\ last' = [call |-> c, reply |-> "ok"]
    BY <1>5 DEF CreatePeer, Replies
  <2>2. file \in Seq(Line) /\ BlocksShaped(file, peers) /\ nextKey \in Nat
    BY BoundsAssumption DEF IInv, TypeOK, BlocksInv
  <2>3. ip \in Int
    <3>1. Entry(n, key, ip) \in peers' /\ Entry(n, key, ip).ip = ip
      BY <2>1 DEF Entry
    <3>2. \A e \in peers' : e.ip \in Int
      BY DEF IInv, TypeOK
    <3> QED BY <3>1, <3>2
  <2>4. ~Blocked(file, n)
    BY <1>3, <1>5, SeenIs
  <2> HIDE DEF ip
  <2>5. \A m \in Names : StateAt(file', m) = IF m = n THEN "active" ELSE StateAt(file, m)
    BY <2>1, <2>2, <2>3, <2>4, StateCreated
  <2>6. {e.name : e \in peers'} = {e.name : e \in peers} \cup {n}
    <3>1. Entry(n, key, ip).name = n
      BY DEF Entry
    <3> HIDE DEF key
    <3> QED BY <2>1, <3>1
  <2>7. seen' = WithPeers(seen, {n})
    BY <1>1, <1>2, <2>5, <2>6 DEF WithPeers, WithBlocks
  <2>8. Answer(seen, c) = Result(WithPeers(seen, {n}), "ok")
    BY <1>0, <1>1, <1>3, <1>5 DEF Answer, CreateResult, CreateRefused
  <2>9. Answered(c, "ok")
    BY <2>1, <2>7, <2>8 DEF Answered
  <2> QED BY <1>0, <2>9, AnsweredIs
<1> QED BY <1>4, <1>5

\* The blocks whose keys are asked for are those of the names.
LEMMA KeysAskedFor ==
    ASSUME IInv, NEW ns, NEW i \in OwnKeys(file)
    PROVE  file[i].key \in KeysOf(Matching(ns)) <=> file[i].key.name \in ns
<1>1. PICK e \in peers : e.key = file[i].key
  BY DEF IInv, BlocksInv, BlocksShaped
<1>2. e.name = file[i].key.name
  BY <1>1, EntryOf
<1>3. e.key \in KeysOf(Matching(ns)) <=> e \in Matching(ns)
  BY KeysOfMatching DEF IInv
<1> QED BY <1>1, <1>2, <1>3 DEF Matching

LEMMA MatchingNames ==
    ASSUME IInv, NEW ns
    PROVE  /\ Matching(ns) = {} <=> ns \cap seen.json = {}
           /\ {e.name : e \in peers \ Matching(ns)} = seen.json \ ns
<1>1. seen.json = {e.name : e \in peers}
  BY SeenIs
<1> QED BY <1>1 DEF Matching

LEMMA DeleteAnswered ==
    ASSUME IInv, IInv', NEW ns \in SUBSET Names, DeletePeers(ns)
    PROVE  Contract!Next
<1> DEFINE c == Call("delete", ns)
           keys == KeysOf(Matching(ns))
<1>0. c \in Calls /\ c.op = "delete" /\ c.peers = ns
  BY DEF Call, Calls
<1>1. seen = [conf |-> [m \in Names |-> StateAt(file, m)], json |-> {e.name : e \in peers}, torn |-> {}]
  BY SeenIs
<1>2. seen' = [conf |-> [m \in Names |-> StateAt(file', m)], json |-> {e.name : e \in peers'}, torn |-> {}]
  BY SeenNext
<1>3. /\ Matching(ns) = {} <=> ns \cap seen.json = {}
      /\ {e.name : e \in peers \ Matching(ns)} = seen.json \ ns
  BY MatchingNames
<1>4. CASE Matching(ns) = {}
  <2>1. last' = [call |-> c, reply |-> "status"] /\ file' = file /\ peers' = peers
    BY <1>4 DEF DeletePeers, Refuses, Replies
  <2>2. seen' = seen
    BY <1>1, <1>2, <2>1
  <2>3. Answer(seen, c) = Result(seen, "status")
    BY <1>0, <1>3, <1>4 DEF Answer, DeleteResult
  <2>4. Answered(c, "status")
    BY <2>1, <2>2, <2>3 DEF Answered
  <2> QED BY <1>0, <2>4, AnsweredIs
<1>5. CASE Matching(ns) # {}
  <2>1. /\ file' = Removed(file, keys) /\ peers' = peers \ Matching(ns)
        /\ last' = [call |-> c, reply |-> "ok"]
    BY <1>5 DEF DeletePeers, Replies
  <2>2. file \in Seq(Line) /\ BlocksShaped(file, peers) /\ TypeOK
    BY DEF IInv, TypeOK, BlocksInv
  <2>3. \A k \in keys : k.name \in Names
    BY <2>2, KeysOfMatching
  <2>4. \A i \in OwnKeys(file) : file[i].key \in keys <=> file[i].key.name \in ns
    BY KeysAskedFor
  <2> HIDE DEF keys
  <2>5. file' = Kept(file, Left(file, keys))
    BY <2>1, <2>2, <2>3, RemovedIs
  <2>6. PICK q : Cut(file, keys, q, file')
    BY <2>2, <2>5, CutExists
  <2>7. \A m \in Names : StateAt(file', m) = IF m \in ns THEN "absent" ELSE StateAt(file, m)
    <3> TAKE m \in Names
    <3> DEFINE gone == m \in ns
    <3>1. gone \in BOOLEAN
      OBVIOUS
    <3>2. \A i \in OwnKeys(file) : file[i].key.name = m => (file[i].key \in keys <=> gone)
      BY <2>4
    <3> HIDE DEF gone
    <3>3. StateAt(file', m) = IF gone THEN "absent" ELSE StateAt(file, m)
      BY <2>2, <2>6, <3>1, <3>2, StateRemoved
    <3> QED BY <3>3 DEF gone
  <2>8. \A m \in Names : StateAt(file', m) = IF m \in ns \cap seen.json THEN "absent" ELSE StateAt(file, m)
    <3>1. \A m \in Names : m \notin seen.json => StateAt(file, m) = "absent"
      BY SeenIs
    <3> QED BY <2>7, <3>1
  <2>9. seen' = WithoutPeers(seen, ns \cap seen.json)
    <3>1. {e.name : e \in peers'} = seen.json \ (ns \cap seen.json)
      BY <1>3, <2>1
    <3>2. seen.conf = [m \in Names |-> StateAt(file, m)] /\ seen.torn = {}
      BY <1>1
    <3> QED BY <1>2, <2>8, <3>1, <3>2 DEF WithoutPeers, WithoutBlocks
  <2>10. Answer(seen, c) = Result(WithoutPeers(seen, ns \cap seen.json), "ok")
    BY <1>0, <1>3, <1>5 DEF Answer, DeleteResult
  <2>11. Answered(c, "ok")
    BY <2>1, <2>9, <2>10 DEF Answered
  <2> QED BY <1>0, <2>11, AnsweredIs
<1> QED BY <1>4, <1>5

LEMMA FreezeAnswered ==
    ASSUME IInv, IInv', NEW op \in {"freeze", "unfreeze"}, NEW ns \in SUBSET Names, FreezePeers(op, ns)
    PROVE  Contract!Next
<1> DEFINE c == Call(op, ns)
           keys == KeysOf(Matching(ns))
<1>0. c \in Calls /\ c.op = op /\ c.peers = ns
  BY DEF Call, Calls
<1>1. seen = [conf |-> [m \in Names |-> StateAt(file, m)], json |-> {e.name : e \in peers}, torn |-> {}]
  BY SeenIs
<1>2. seen' = [conf |-> [m \in Names |-> StateAt(file', m)], json |-> {e.name : e \in peers'}, torn |-> {}]
  BY SeenNext
<1>3. Matching(ns) = {} <=> ns \cap seen.json = {}
  BY MatchingNames
<1>4. \A m \in Names : /\ Blocked(file, m) <=> m \in seen.json
                       /\ StateAt(file, m) \in {"absent", "active", "frozen"}
                       /\ StateAt(file, m) = "absent" <=> ~Blocked(file, m)
  BY SeenIs DEF BlockState
<1>5. /\ seen.conf = [m \in Names |-> StateAt(file, m)] /\ seen.json = {e.name : e \in peers}
      /\ seen.torn = {}
  BY <1>1
<1> DEFINE to == IF op = "freeze" THEN "frozen" ELSE "active"
           r == IF ns \cap seen.json = {} THEN "status" ELSE "ok"
           frozen == op = "freeze"
<1>6. /\ \A m \in Names : StateAt(file', m) = IF m \in ns \cap seen.json THEN to ELSE StateAt(file, m)
      /\ peers' = peers /\ last' = [call |-> c, reply |-> r]
  <2>1. CASE Matching(ns) = {}
    <3>1. last' = [call |-> c, reply |-> "status"] /\ file' = file /\ peers' = peers
      BY <2>1 DEF FreezePeers, Refuses, Replies
    <3> QED BY <1>3, <2>1, <3>1
  <2>2. CASE Matching(ns) # {}
    <3>1. /\ file' = Toggled(file, keys, frozen) /\ peers' = peers
          /\ last' = [call |-> c, reply |-> "ok"]
      BY <2>2 DEF FreezePeers, Replies
    <3>2. file \in Seq(Line) /\ BlocksShaped(file, peers) /\ AllSheltered(file) /\ TypeOK
      BY DEF IInv, TypeOK, BlocksInv
    <3>3. \A k \in keys : k.name \in Names
      BY <3>2, KeysOfMatching
    <3>4. \A i \in OwnKeys(file) : file[i].key \in keys <=> file[i].key.name \in ns
      BY KeysAskedFor
    <3> HIDE DEF keys, c
    <3>5. ASSUME NEW m \in Names
          PROVE  StateAt(file', m) = IF m \in ns \cap seen.json THEN to ELSE StateAt(file, m)
      <4> DEFINE named == m \in ns
      <4>1. named \in BOOLEAN
        OBVIOUS
      <4>2. \A i \in OwnKeys(file) : file[i].key.name = m => (file[i].key \in keys <=> named)
        BY <3>4
      <4> HIDE DEF named, frozen
      <4>3. StateAt(Toggled(file, keys, frozen), m) = IF named /\ Blocked(file, m)
                                  THEN IF frozen THEN "frozen" ELSE "active" ELSE StateAt(file, m)
        BY <3>2, <3>3, <4>1, <4>2, StateToggled
      <4> QED BY <1>4, <3>1, <4>3 DEF named, frozen
    <3> QED BY <1>3, <2>2, <3>1, <3>5
  <2> QED BY <2>1, <2>2
<1> HIDE DEF c, r, frozen
<1>7. CASE op = "freeze"
  <2>1. seen'.conf = Frozen(seen, ns).conf
    BY <1>2, <1>4, <1>5, <1>6, <1>7 DEF Frozen, WithState
  <2>2. seen' = Frozen(seen, ns)
    BY <1>2, <1>5, <1>6, <2>1 DEF Frozen, WithState
  <2>3. Answer(seen, c) = Result(Frozen(seen, ns), r)
    BY <1>0, <1>7 DEF Answer, FreezeResult, r
  <2>4. Answered(c, r)
    BY <1>6, <2>2, <2>3 DEF Answered
  <2> QED BY <1>0, <2>4, AnsweredIs
<1>8. CASE op = "unfreeze"
  <2>1. seen'.conf = Unfrozen(seen, ns).conf
    BY <1>2, <1>4, <1>5, <1>6, <1>8 DEF Unfrozen, WithState
  <2>2. seen' = Unfrozen(seen, ns)
    BY <1>2, <1>5, <1>6, <2>1 DEF Unfrozen, WithState
  <2>3. Answer(seen, c) = Result(Unfrozen(seen, ns), r)
    BY <1>0, <1>8 DEF Answer, UnfreezeResult, r
  <2>4. Answered(c, r)
    BY <1>6, <2>2, <2>3 DEF Answered
  <2> QED BY <1>0, <2>4, AnsweredIs
<1> QED BY <1>7, <1>8

\* What an administrator appends says nothing of the worker's peers.
LEMMA EditSeesNothing ==
    ASSUME IInv, IInv', EditByHand
    PROVE  UNCHANGED <<seen, last>>
<1>1. PICK t \in Edits[address] : file' = file \o t
  BY DEF EditByHand
<1>2. file \in Seq(Line) /\ BlocksShaped(file, peers) /\ address \in Addresses
  BY DEF IInv, TypeOK, BlocksInv
<1>3. t \in Seq(Line) /\ OwnKeys(t) = {}
  BY <1>2, TextsHoldNoOwnKey
<1>4. \A i \in DOMAIN file : file'[i] = file[i]
  BY <1>1, <1>2, <1>3, Appending
<1>5. OwnKeys(file') = OwnKeys(file)
  <2>1. OwnKeys(file') = OwnKeys(file) \cup {Len(file) + i : i \in OwnKeys(t)}
    BY <1>1, <1>2, <1>3, OwnKeysAppended
  <2> QED BY <1>3, <2>1
<1>6. \A i \in OwnKeys(file) : file'[i] = file[i] /\ file'[i+1] = file[i+1]
  BY <1>2, <1>4 DEF OwnKeys, BlocksShaped
<1>7. \A n \in Names : StateAt(file', n) = StateAt(file, n)
  BY <1>5, <1>6 DEF StateAt, Blocked, LetIn
<1>8. seen = [conf |-> [m \in Names |-> StateAt(file, m)], json |-> {e.name : e \in peers}, torn |-> {}]
  BY SeenIs
<1>9. seen' = [conf |-> [m \in Names |-> StateAt(file', m)], json |-> {e.name : e \in peers'}, torn |-> {}]
  BY SeenNext
<1>10. peers' = peers /\ last' = last
  BY DEF EditByHand
<1> QED BY <1>7, <1>8, <1>9, <1>10

LEMMA StepIs ==
    ASSUME IInv, IInv', [Next]_vars
    PROVE  Contract!Next \/ UNCHANGED Contract!vars
<1>1. ASSUME NEW n \in Names, CreatePeer(n)  PROVE Contract!Next
  BY <1>1, CreateAnswered
<1>2. ASSUME NEW ns \in SUBSET Names \ {{}}, DeletePeers(ns)  PROVE Contract!Next
  BY <1>2, DeleteAnswered
<1>3. ASSUME NEW ns \in SUBSET Names \ {{}}, NEW op \in {"freeze", "unfreeze"}, FreezePeers(op, ns)
      PROVE  Contract!Next
  BY <1>3, FreezeAnswered
<1>4. CASE EditByHand
  BY <1>4, EditSeesNothing DEF Contract!vars
<1>5. CASE UNCHANGED vars
  BY <1>5 DEF vars, Contract!vars
<1> QED BY <1>1, <1>2, <1>3, <1>4, <1>5 DEF Next, Serves

\* On text as on Worker's sets of blocks, each call takes what the backend sees of the
\* two files where WorkerApi says, and an edit by hand changes none of it.
THEOREM ConfContractHolds == Spec => ImplementsContract
<1>1. IInv /\ IInv' /\ [Next]_vars => [Contract!Next]_(Contract!vars)
  BY StepIs
<1> QED BY StartIs, IInvHolds, <1>1, PTL DEF Spec, ImplementsContract, Contract!Spec

----------------------------------------------------------------------------
(* The least free host *)

\* Every AllowedIPs stands below a [Peer], and is the only one its block has.
OneIPEach(t) ==
    /\ \A j \in DOMAIN t : t[j].is = "AllowedIPs" =>
         \E h \in 1..j-1 : t[h].is = "[Peer]" /\ \A k \in h+1..j : t[k].is \notin Headers
    /\ \A i, j \in DOMAIN t : i < j /\ t[i].is = "AllowedIPs" /\ t[j].is = "AllowedIPs" =>
         \E h \in i+1..j : t[h].is \in Headers

LEMMA InOrder ==
    ASSUME NEW f \in Seq(Line), NEW K \in SUBSET DOMAIN f, NEW q, NEW m, Enumerates(q, m, K)
    PROVE  /\ m \in Nat /\ \A k \in 1..m : q[k] \in Nat /\ q[k] \in DOMAIN f
           /\ \A k, l \in 1..m : /\ k < l <=> q[k] < q[l]
                                 /\ k <= l <=> q[k] <= q[l]
<1>1. /\ m \in Nat /\ q \in [1..m -> K] /\ DOMAIN f = 1..Len(f) /\ Len(f) \in Nat
      /\ \A k, l \in 1..m : k < l => q[k] < q[l]
  BY LinesOf DEF Enumerates
<1>2. \A k \in 1..m : q[k] \in Nat /\ q[k] \in DOMAIN f
  BY <1>1
<1>3. ASSUME NEW k \in 1..m, NEW l \in 1..m
      PROVE  (k < l <=> q[k] < q[l]) /\ (k <= l <=> q[k] <= q[l])
  <2>1. (k < l => q[k] < q[l]) /\ (l < k => q[l] < q[k]) /\ q[k] \in Nat /\ q[l] \in Nat
    BY <1>1, <1>2
  <2>2. k \in Nat /\ l \in Nat /\ (k = l => q[k] = q[l])
    BY <1>1
  <2> QED BY <2>1, <2>2
<1> QED BY <1>1, <1>2, <1>3

\* What is in force keeps the shape.
LEMMA OneIPEachInForce ==
    ASSUME NEW f \in Seq(Line), OneIPEach(f)
    PROVE  OneIPEach(AllInForce(f))
<1> DEFINE K == {i \in DOMAIN f : InForce(f[i])}
           g == Kept(f, K)
<1>1. K \in SUBSET DOMAIN f /\ Len(f) \in Nat /\ DOMAIN f = 1..Len(f)
  BY LinesOf
<1>2. PICK q, m : Enumerates(q, m, K)
  BY <1>1, EnumerationExists
<1>3. DOMAIN g = 1..m /\ \A k \in 1..m : g[k] = f[q[k]]
  <2> HIDE DEF K
  <2> QED BY <1>1, <1>2, KeptIs
<1>4. \A i \in DOMAIN f : f[i].is \in Headers => i \in K
  BY DEF InForce, Headers
<1>5. \A i \in K : \E k \in 1..m : q[k] = i
  BY <1>2 DEF Enumerates
<1>6. /\ m \in Nat /\ \A k \in 1..m : q[k] \in Nat /\ q[k] \in DOMAIN f
      /\ \A k, l \in 1..m : (k < l <=> q[k] < q[l]) /\ (k <= l <=> q[k] <= q[l])
  BY <1>1, <1>2, InOrder
<1>7. AllInForce(f) = g
  BY DEF AllInForce
<1> HIDE DEF K, g
<1>8. ASSUME NEW j \in 1..m, g[j].is = "AllowedIPs"
      PROVE  \E h \in 1..j-1 : g[h].is = "[Peer]" /\ \A k \in h+1..j : g[k].is \notin Headers
  <2>1. q[j] \in DOMAIN f /\ f[q[j]].is = "AllowedIPs"
    BY <1>3, <1>6, <1>8
  <2>2. PICK i \in 1..q[j]-1 : f[i].is = "[Peer]" /\ \A k \in i+1..q[j] : f[k].is \notin Headers
    BY <2>1 DEF OneIPEach
  <2>3. i \in DOMAIN f /\ i < q[j]
    BY <1>1, <2>1, <2>2
  <2>4. PICK h \in 1..m : q[h] = i
    BY <1>4, <1>5, <2>2, <2>3 DEF Headers
  <2>5. h \in 1..j-1
    BY <1>6, <2>3, <2>4
  <2>6. ASSUME NEW k \in h+1..j
        PROVE  g[k].is \notin Headers
    <3>1. k \in 1..m /\ h < k /\ k <= j
      BY <1>6
    <3>2. i < q[k] /\ q[k] <= q[j] /\ q[k] \in Nat
      BY <1>6, <2>4, <3>1
    <3>3. q[k] \in i+1..q[j]
      BY <1>6, <2>2, <3>2
    <3> QED BY <1>3, <2>2, <3>1, <3>3
  <2>7. g[h].is = "[Peer]"
    BY <1>3, <2>2, <2>4
  <2> QED BY <2>5, <2>6, <2>7
<1>9. ASSUME NEW i \in 1..m, NEW j \in 1..m, i < j, g[i].is = "AllowedIPs", g[j].is = "AllowedIPs"
      PROVE  \E h \in i+1..j : g[h].is \in Headers
  <2>1. q[i] \in DOMAIN f /\ q[j] \in DOMAIN f /\ q[i] < q[j] /\ q[i] \in Nat /\ q[j] \in Nat
    BY <1>6, <1>9
  <2>2. f[q[i]].is = "AllowedIPs" /\ f[q[j]].is = "AllowedIPs"
    BY <1>3, <1>9
  <2>3. PICK x \in q[i]+1..q[j] : f[x].is \in Headers
    BY <2>1, <2>2 DEF OneIPEach
  <2>4. x \in DOMAIN f /\ q[i] < x /\ x <= q[j]
    BY <1>1, <2>1, <2>3
  <2>5. PICK h \in 1..m : q[h] = x
    BY <1>4, <1>5, <2>3, <2>4
  <2>6. h \in i+1..j
    BY <1>6, <2>4, <2>5
  <2> QED BY <1>3, <2>3, <2>5, <2>6
<1> QED BY <1>3, <1>7, <1>8, <1>9 DEF OneIPEach

LEMMA OneIPEachBoth ==
    ASSUME NEW f \in Seq(Line), NEW t \in Seq(Line), OneIPEach(f), OneIPEach(t)
    PROVE  OneIPEach(f \o t)
<1> DEFINE g == f \o t
           n == Len(f)
<1>1. /\ n \in Nat /\ DOMAIN f = 1..n /\ Len(t) \in Nat /\ DOMAIN t = 1..Len(t)
      /\ \A i \in DOMAIN f : g[i] = f[i]
      /\ \A i \in DOMAIN t : g[n + i] = t[i]
      /\ \A i \in DOMAIN g : i \in DOMAIN f \/ (i - n \in DOMAIN t /\ i = n + (i - n))
  BY Appending
<1> HIDE DEF g, n
<1>2. ASSUME NEW j \in DOMAIN g, g[j].is = "AllowedIPs"
      PROVE  \E h \in 1..j-1 : /\ g[h].is = "[Peer]" /\ \A k \in h+1..j : g[k].is \notin Headers
                               /\ j \notin DOMAIN f => h > n
  <2>1. CASE j \in DOMAIN f
    <3>1. PICK h \in 1..j-1 : f[h].is = "[Peer]" /\ \A k \in h+1..j : f[k].is \notin Headers
      BY <1>1, <1>2, <2>1 DEF OneIPEach
    <3>2. h \in DOMAIN f /\ \A k \in h+1..j : k \in DOMAIN f
      BY <1>1, <2>1
    <3> QED BY <1>1, <2>1, <3>1, <3>2
  <2>2. CASE j - n \in DOMAIN t /\ j = n + (j - n)
    <3>1. t[j-n].is = "AllowedIPs"
      BY <1>1, <1>2, <2>2
    <3>2. PICK h \in 1..(j-n)-1 : t[h].is = "[Peer]" /\ \A k \in h+1..j-n : t[k].is \notin Headers
      BY <2>2, <3>1 DEF OneIPEach
    <3>3. h \in DOMAIN t /\ n + h \in 1..j-1 /\ n + h > n
      BY <1>1, <2>2
    <3>4. ASSUME NEW k \in (n+h)+1..j
          PROVE  g[k].is \notin Headers
      <4>1. k - n \in h+1..j-n /\ k - n \in DOMAIN t /\ n + (k - n) = k
        BY <1>1, <2>2
      <4> QED BY <1>1, <3>2, <4>1
    <3>5. g[n+h].is = "[Peer]"
      BY <1>1, <3>2, <3>3
    <3> QED BY <3>3, <3>4, <3>5
  <2> QED BY <1>1, <2>1, <2>2
<1>3. ASSUME NEW i \in DOMAIN g, NEW j \in DOMAIN g, i < j, g[i].is = "AllowedIPs", g[j].is = "AllowedIPs"
      PROVE  \E h \in i+1..j : g[h].is \in Headers
  <2>1. CASE j \in DOMAIN f
    <3>1. i \in DOMAIN f
      <4>1. i \in Nat /\ i >= 1
        BY <1>1, <1>3
      <4> QED BY <1>1, <1>3, <2>1, <4>1
    <3>2. f[i].is = "AllowedIPs" /\ f[j].is = "AllowedIPs"
      BY <1>1, <1>3, <2>1, <3>1
    <3>3. PICK h \in i+1..j : f[h].is \in Headers
      BY <1>3, <2>1, <3>1, <3>2 DEF OneIPEach
    <3>4. h \in DOMAIN f
      BY <1>1, <2>1, <3>1
    <3> QED BY <1>1, <3>3, <3>4
  <2>2. CASE i \in DOMAIN f /\ j \notin DOMAIN f
    <3>1. PICK h \in 1..j-1 : g[h].is = "[Peer]" /\ h > n
      BY <1>2, <1>3, <2>2
    <3>2. h \in i+1..j
      BY <1>1, <2>2, <3>1
    <3> QED BY <3>1, <3>2 DEF Headers
  <2>3. CASE i \notin DOMAIN f /\ j \notin DOMAIN f
    <3>1. i - n \in DOMAIN t /\ i = n + (i - n) /\ j - n \in DOMAIN t /\ j = n + (j - n)
      BY <1>1, <2>3
    <3>2. t[i-n].is = "AllowedIPs" /\ t[j-n].is = "AllowedIPs" /\ i-n < j-n
      BY <1>1, <1>3, <3>1
    <3>3. PICK h \in (i-n)+1..j-n : t[h].is \in Headers
      BY <3>1, <3>2 DEF OneIPEach
    <3>4. h \in DOMAIN t /\ n + h \in i+1..j
      BY <1>1, <3>1
    <3>5. g[n+h].is \in Headers
      BY <1>1, <3>3, <3>4
    <3> QED BY <3>4, <3>5
  <2> QED BY <2>1, <2>2, <2>3
<1> QED BY <1>2, <1>3 DEF OneIPEach, g

LEMMA ByHandLines == IInv => byHand \in Seq(Line)
<1> SUFFICES ASSUME IInv  PROVE byHand \in Seq(Line)
  OBVIOUS
<1>1. file \in Seq(Line) /\ Others(file) \in SUBSET DOMAIN file /\ byHand = Kept(file, Others(file))
  BY DEF IInv, TypeOK, HistoryInv, Others
<1> QED BY <1>1, KeptInSeq

LEMMA ByHandInit ==
    ASSUME \A a \in Addresses : \A t \in HandWritten[a] \cup Edits[a] : OneIPEach(t), Init
    PROVE  OneIPEach(byHand)
<1>1. address \in Addresses /\ file \in HandWritten[address] /\ byHand = AllInForce(file)
  BY DEF Init
<1>2. file \in Seq(Line)
  BY <1>1, TextsHoldNoOwnKey
<1> QED BY <1>1, <1>2, OneIPEachInForce

LEMMA ByHandStep ==
    ASSUME \A a \in Addresses : \A t \in HandWritten[a] \cup Edits[a] : OneIPEach(t),
           IInv, OneIPEach(byHand), [Next]_vars
    PROVE  OneIPEach(byHand')
<1>1. CASE EditByHand
  <2>1. PICK t \in Edits[address] : byHand' = byHand \o AllInForce(t)
    BY <1>1 DEF EditByHand
  <2>2. address \in Addresses
    BY DEF IInv, TypeOK
  <2>3. t \in Seq(Line) /\ OneIPEach(t)
    BY <2>2, TextsHoldNoOwnKey
  <2>4. AllInForce(t) \in Seq(Line)
    BY <2>3, KeptInSeq DEF AllInForce
  <2>5. OneIPEach(AllInForce(t))
    BY <2>3, OneIPEachInForce
  <2> QED BY <2>1, <2>4, <2>5, ByHandLines, OneIPEachBoth
<1>2. CASE ~EditByHand
  <2>1. byHand' = byHand
    BY <1>2 DEF Next, Serves, CreatePeer, DeletePeers, FreezePeers, Refuses, Replies, vars
  <2> QED BY <2>1
<1> QED BY <1>1, <1>2

\* parsePeerBlock finds every address an administrator let in.
LEMMA ForeignRead ==
    ASSUME NEW f \in Seq(Line), NEW ps, BlocksShaped(f, ps), OneIPEach(Kept(f, Others(f))),
           NEW j \in Others(f), f[j].is = "AllowedIPs"
    PROVE  \E h \in PeerHeaders(f) : LastOf(f, h, "AllowedIPs") = f[j]
<1> DEFINE K == Others(f)
           g == Kept(f, K)
<1>1. K \in SUBSET DOMAIN f /\ Len(f) \in Nat /\ DOMAIN f = 1..Len(f)
  BY LinesOf DEF Others
<1>2. PICK q, m : Enumerates(q, m, K)
  BY <1>1, EnumerationExists
<1>3. DOMAIN g = 1..m /\ \A k \in 1..m : g[k] = f[q[k]]
  <2> HIDE DEF K
  <2> QED BY <1>1, <1>2, KeptIs
<1>4. \A i \in K : \E k \in 1..m : q[k] = i
  BY <1>2 DEF Enumerates
<1>5. /\ m \in Nat /\ \A k \in 1..m : q[k] \in Nat /\ q[k] \in DOMAIN f
      /\ \A k, l \in 1..m : (k < l <=> q[k] < q[l]) /\ (k <= l <=> q[k] <= q[l])
  <2> HIDE DEF K
  <2> QED BY <1>1, <1>2, InOrder
<1>6. OneIPEach(g) /\ j \in K
  OBVIOUS
<1>7. j \in DOMAIN f /\ j \in Nat /\ InForce(f[j]) /\ j \notin OwnKeys(f)
      /\ j-1 \notin OwnKeys(f) /\ j+1 \notin OwnKeys(f)
  BY <1>1 DEF Others
\* A header that is not an administrator's begins a block of the worker.
<1>8. \A x \in DOMAIN f : f[x].is \in Headers /\ x \notin K => x+1 \in OwnKeys(f)
  <2> SUFFICES ASSUME NEW x \in DOMAIN f, f[x].is \in Headers, x \notin K  PROVE x+1 \in OwnKeys(f)
    OBVIOUS
  <2>1. InForce(f[x])
    BY DEF InForce, Headers
  <2>2. x \in OwnKeys(f) \/ x-1 \in OwnKeys(f) \/ x+1 \in OwnKeys(f)
    BY <2>1 DEF Others
  <2>3. x \notin OwnKeys(f)
    BY DEF BlocksShaped, Headers
  <2>4. x-1 \notin OwnKeys(f)
    <3>1. (x-1)+1 = x
      BY <1>1
    <3> QED BY <3>1 DEF BlocksShaped, Headers, IPKinds
  <2> QED BY <2>2, <2>3, <2>4
<1> HIDE DEF K, g
<1>9. PICK k \in 1..m : q[k] = j
  BY <1>4, <1>6
<1>10. g[k].is = "AllowedIPs"
  BY <1>3, <1>9
<1>11. PICK l \in 1..k-1 : g[l].is = "[Peer]" /\ \A x \in l+1..k : g[x].is \notin Headers
  BY <1>3, <1>6, <1>9, <1>10 DEF OneIPEach
<1> DEFINE h == q[l]
<1>12. l \in 1..m /\ l < k
  BY <1>5, <1>9, <1>11
<1>13. h \in DOMAIN f /\ h \in Nat /\ h < j /\ f[h].is = "[Peer]"
  BY <1>3, <1>5, <1>9, <1>11, <1>12
\* No header stands between: an administrator's would be in g too, and below one of the
\* worker's nothing is in force but its own lines.
<1>14. \A x \in h+1..j : f[x].is \notin Headers
  <2> DEFINE X == {x \in h+1..j : f[x].is \in Headers}
  <2> SUFFICES ASSUME X # {}  PROVE FALSE
    OBVIOUS
  <2>1. X \in SUBSET (1..Len(f))
    <3>1. \A x \in h+1..j : x \in 1..Len(f)
      <4>1. h \in Nat /\ j \in 1..Len(f) /\ Len(f) \in Nat
        BY <1>1, <1>7, <1>13
      <4> HIDE DEF h
      <4> QED BY <4>1
    <3> QED BY <3>1
  <2>2. Max(X) \in X /\ \A x \in X : x <= Max(X)
    <3> HIDE DEF X, h
    <3> QED BY <1>1, <2>1, MaxOf
  <2> DEFINE x == Max(X)
  <2>3. x \in h+1..j /\ f[x].is \in Headers /\ x \in DOMAIN f /\ x \in Nat
    <3>1. x \in X
      BY <2>2
    <3> HIDE DEF x
    <3>2. x \in h+1..j /\ f[x].is \in Headers
      BY <3>1
    <3>3. x \in 1..Len(f)
      BY <2>1, <3>1
    <3> QED BY <1>1, <3>2, <3>3
  <2> HIDE DEF x
  <2>4. CASE x \in K
    <3>1. PICK y \in 1..m : q[y] = x
      BY <1>4, <2>4
    <3>2. q[l] < q[y] /\ q[y] <= q[k]
      BY <1>9, <1>13, <2>3, <3>1
    <3>3. l < y /\ y <= k
      BY <1>5, <1>12, <3>1, <3>2
    <3>4. y \in l+1..k
      BY <1>12, <3>1, <3>3
    <3> QED BY <1>3, <1>11, <2>3, <3>1, <3>4
  <2>5. CASE x \notin K
    <3>1. x+1 \in OwnKeys(f) /\ (x+1)-1 = x /\ (x+1)+1 = x+2
      BY <1>8, <2>3, <2>5
    <3>2. \A y \in x+1..j : f[y].is \notin Headers
      <4> TAKE y \in x+1..j
      <4>1. y \in h+1..j /\ ~(y <= x)
        BY <1>13, <2>3
      <4>2. y \notin X
        BY <2>2, <4>1 DEF x
      <4> QED BY <4>1, <4>2
    <3>3. j \in BlockAt(f, x)
      BY <1>7, <2>3, <3>2, InBlock
    <3>4. j \in {x, x+1, x+2}
      BY <1>7, <3>1, <3>3, OwnBlock
    <3>5. j = x \/ j = x+1 \/ j-1 = x+1
      BY <2>3, <3>4
    <3> QED BY <1>7, <3>1, <3>5
  <2> QED BY <2>4, <2>5
<1> HIDE DEF h
<1>15. j \in BlockAt(f, h)
  BY <1>7, <1>13, <1>14, InBlock
\* It is the only one of its block: below another header there would be one between.
<1>16. ASSUME NEW i \in BlockAt(f, h), f[i].is = "AllowedIPs"
       PROVE  i <= j
  <2> SUFFICES ASSUME i > j  PROVE FALSE
    BY <1>1, <1>7, <1>13, BlockInFile
  <2>1. i \in DOMAIN f /\ i \in Nat
    BY <1>1, <1>13, <1>16, BlockInFile
  <2>2. \A x \in h+1..i : f[x].is \notin Headers
    BY <1>13, <1>16, <2>1, InBlock
  <2>3. i \in K
    <3> SUFFICES ASSUME i \notin K  PROVE FALSE
      OBVIOUS
    <3>1. InForce(f[i])
      BY <1>16 DEF InForce
    <3>2. i \in OwnKeys(f) \/ i-1 \in OwnKeys(f) \/ i+1 \in OwnKeys(f)
      BY <2>1, <3>1 DEF Others, K
    <3>3. i \notin OwnKeys(f)
      BY <1>16 DEF BlocksShaped
    <3>4. i+1 \notin OwnKeys(f)
      <4>1. (i+1)-1 = i
        BY <2>1
      <4> QED BY <1>16, <4>1 DEF BlocksShaped
    <3>5. i-1 \in OwnKeys(f) /\ f[i-1].is = "PublicKey"
      BY <3>2, <3>3, <3>4 DEF BlocksShaped
    <3>6. (i-1)-1 = i-2 /\ f[i-2].is = "[Peer]" /\ i-2 \in DOMAIN f
      <4>1. (i-1)-1 = i-2
        BY <2>1
      <4> QED BY <3>5, <4>1 DEF BlocksShaped
    <3>7. i-2 \notin h+1..i
      BY <2>2, <3>6 DEF Headers
    <3>8. j = i-1
      <4>1. h \in Nat /\ i \in Nat /\ j \in Nat /\ h < j /\ j < i
        BY <1>7, <1>13, <2>1
      <4>2. ~(h < i-2)
        BY <3>7, <4>1
      <4> QED BY <4>1, <4>2
    <3> QED BY <1>7, <3>5, <3>8
  <2>4. PICK y \in 1..m : q[y] = i
    BY <1>4, <2>3
  <2>5. k < y /\ g[y].is = "AllowedIPs"
    BY <1>3, <1>5, <1>9, <1>16, <2>4
  <2>6. PICK x \in k+1..y : g[x].is \in Headers
    BY <1>3, <1>6, <1>9, <1>10, <2>4, <2>5 DEF OneIPEach
  <2>7. x \in 1..m /\ k < x /\ x <= y
    BY <1>5, <2>4
  <2>8. q[k] < q[x] /\ q[x] <= q[y] /\ q[x] \in Nat
    BY <1>5, <2>4, <2>7
  <2>9. q[x] \in h+1..i
    <3>1. h \in Nat /\ i \in Nat /\ h < j /\ j \in Nat
      BY <1>7, <1>13, <2>1
    <3>2. j < q[x] /\ q[x] <= i /\ q[x] \in Nat
      BY <1>9, <2>4, <2>8
    <3>3. h < q[x]
      BY <3>1, <3>2
    <3> QED BY <3>1, <3>2, <3>3, Between
  <2> QED BY <1>3, <2>2, <2>6, <2>7, <2>9
<1>17. LastOf(f, h, "AllowedIPs") = f[j]
  <2> DEFINE js == {i \in BlockAt(f, h) : f[i].is = "AllowedIPs"}
  <2>1. j \in js
    BY <1>15
  <2>2. js \in SUBSET (1..Len(f))
    BY <1>1, <1>13, BlockInFile
  <2>3. \A i \in js : i <= j /\ i \in Nat
    BY <1>1, <1>16, <2>2
  <2>4. LastOf(f, h, "AllowedIPs") = f[Max(js)]
    BY <2>1 DEF LastOf
  <2> HIDE DEF js
  <2>5. Max(js) \in js /\ j <= Max(js)
    BY <1>1, <2>1, <2>2, MaxOf
  <2>6. Max(js) = j
    BY <1>7, <2>3, <2>5
  <2> QED BY <2>4, <2>6
<1>18. h \in PeerHeaders(f)
  BY <1>13 DEF PeerHeaders
<1> QED BY <1>17, <1>18

\* The subnets of four hosts and more.
LEMMA SubnetIs ==
    ASSUME address \in Addresses, address.size \in {4, 8, 16}
    PROVE  /\ Network \in 0..12 /\ Broadcast \in Network+3..15
           /\ First = Network + 1 /\ LastIP = Broadcast - 1
<1>1. address.server \in 0..15
  BY AddressParts
<1>2. \A x \in Int : WithLow(x, 1) = (x - (x % 4)) + 1 /\ Low(x) = x % 4
  BY DEF WithLow, Low, Octet
<1> DEFINE s == address.server
           N(z) == s - (s % z)
<1>3. ASSUME NEW z \in {4, 8, 16}
      PROVE  N(z) \in 0..12 /\ N(z) % 4 = 0 /\ N(z) + z - 1 \in N(z)+3..15 /\ (N(z) + z - 1) % 4 = 3
  <2>1. CASE z = 4
    BY <1>1, <2>1
  <2>2. CASE z = 8
    BY <1>1, <2>2
  <2>3. CASE z = 16
    BY <1>1, <2>3
  <2> QED BY <2>1, <2>2, <2>3
<1>4. Network = N(address.size) /\ Broadcast = N(address.size) + address.size - 1
  BY DEF Network, Broadcast
<1> HIDE DEF N
<1>5. /\ Network \in 0..12 /\ Network % 4 = 0 /\ Broadcast \in Network+3..15 /\ Broadcast % 4 = 3
  BY <1>3, <1>4
<1>6. First = Network + 1
  <2>1. First = WithLow(Network, 1)
    BY <1>2, <1>5 DEF First
  <2> QED BY <1>2, <1>5, <2>1
<1>7. LastIP = Broadcast - 1
  <2>1. LastIP = (Broadcast - 3) + (6 % 4)
    BY <1>5 DEF LastIP, WithLow, Low, Octet
  <2> QED BY <1>5, <2>1
<1> QED BY <1>5, <1>6, <1>7

LEMMA IncrementIs == \A ip \in 0..14 : Increment(ip) = ip + 1
<1> TAKE ip \in 0..14
<1>1. CASE ip % 4 = 3
  <2>1. (ip + 4) % 16 \in {ip + 4, ip + 4 - 16} /\ (ip + 4) % 16 = ip + 4 /\ (ip + 4) % 4 = 3
    BY <1>1
  <2>2. Increment(ip) = ((ip + 4) - 3) + (0 % 4)
    BY <1>1, <2>1 DEF Increment, WithLow, Low, Octet
  <2> QED BY <2>2
<1>2. CASE ip % 4 # 3
  <2>1. ((ip % 4) + 1) % 4 = (ip % 4) + 1
    BY <1>2
  <2>2. Increment(ip) = (ip - (ip % 4)) + (((ip % 4) + 1) % 4)
    BY <1>2 DEF Increment, WithLow, Low, Octet
  <2> QED BY <2>1, <2>2
<1> QED BY <1>1, <1>2

\* The walk ends at the first address that is not used, or at the last of them all.
LEMMA WalkFinds ==
    ASSUME address \in Addresses, address.size \in {4, 8, 16}, NEW used
    PROVE  /\ Walk(used) \in First..LastIP
           /\ \A h \in First..LastIP : h < Walk(used) => h \in used
           /\ Walk(used) \in used => Walk(used) = LastIP
<1>1. PICK at : /\ Walk(used) = at[Octet*Octet]
                /\ at = [k \in 0..Octet*Octet |-> IF k = 0 THEN First ELSE Step(at[k-1], used)]
  BY WalkIs
<1>2. Octet*Octet = 16
  BY DEF Octet
<1>3. \A k \in 0..16 : at[k] = IF k = 0 THEN First ELSE Step(at[k-1], used)
  BY <1>1, <1>2
<1>4. First \in 1..13 /\ LastIP \in First+1..14
  BY SubnetIs
<1> DEFINE Fine(k) == /\ at[k] \in First..LastIP
                      /\ \A h \in First..LastIP : h < at[k] => h \in used
                      /\ at[k] \in used /\ at[k] # LastIP => at[k] = First + k
           Bad == {k \in 0..16 : ~Fine(k)}
<1>5. Bad = {}
  <2> SUFFICES ASSUME Bad # {}  PROVE FALSE
    OBVIOUS
  <2>1. Bad \in SUBSET Nat
    OBVIOUS
  <2>2. PICK n \in Bad : \A l \in Bad : n <= l
    <3> HIDE DEF Bad
    <3> QED BY <2>1, LeastOf
  <2>3. n # 0
    <3>1. at[0] = First
      BY <1>3
    <3>2. Fine(0)
      BY <1>4, <3>1
    <3> HIDE DEF Fine
    <3> QED BY <2>2, <3>2
  <2>4. n \in 1..16 /\ n-1 \in 0..16 /\ ~(n <= n-1)
    BY <2>3
  <2>5. Fine(n-1)
    <3>1. n-1 \notin Bad
      <4> HIDE DEF Bad
      <4> QED BY <2>2, <2>4
    <3> HIDE DEF Fine
    <3> QED BY <2>4, <3>1
  <2>6. at[n] = Step(at[n-1], used)
    BY <1>3, <2>4
  <2>7. CASE at[n-1] \in used /\ at[n-1] # LastIP
    <3>1. at[n-1] \in 0..14 /\ at[n-1] = First + (n-1) /\ at[n-1] < LastIP
      BY <1>4, <2>5, <2>7
    <3>2. at[n] = at[n-1] + 1
      BY <2>6, <2>7, <3>1, IncrementIs DEF Step
    <3>3. at[n] \in First..LastIP /\ at[n] = First + n
      BY <1>4, <2>4, <2>5, <3>1, <3>2
    <3>4. ASSUME NEW h \in First..LastIP, h < at[n]
          PROVE  h \in used
      <4>1. h = at[n-1] \/ h < at[n-1]
        BY <1>4, <3>1, <3>2, <3>4
      <4> QED BY <2>5, <2>7, <4>1
    <3>5. Fine(n)
      BY <3>3, <3>4
    <3> HIDE DEF Fine
    <3> QED BY <2>2, <3>5
  <2>8. CASE ~(at[n-1] \in used /\ at[n-1] # LastIP)
    <3>1. at[n] = at[n-1]
      BY <2>6, <2>8 DEF Step
    <3>2. Fine(n)
      BY <2>5, <2>8, <3>1
    <3> HIDE DEF Fine
    <3> QED BY <2>2, <3>2
  <2> QED BY <2>7, <2>8
<1>6. Fine(16)
  <2> HIDE DEF Fine
  <2> QED BY <1>5
<1>7. First + 16 \notin First..LastIP
  BY <1>4
<1> QED BY <1>1, <1>2, <1>6, <1>7

LEMMA HostsAre ==
    ASSUME address \in Addresses, address.size \in {4, 8, 16}
    PROVE  Hosts = First..LastIP /\ First = Network + 1 /\ First \in Nat /\ LastIP \in Nat
BY SubnetIs DEF Hosts

\* Of the hosts, nextAvailableIP takes for used just those that are somebody's.
LEMMA UsedIsTaken ==
    ASSUME IInv, OneIPEach(byHand), First = Network + 1, NEW x \in Nat
    PROVE  x \in Used <=> x \in Taken
<1>1. file \in Seq(Line) /\ BlocksShaped(file, peers) /\ OneIPEach(Kept(file, Others(file)))
  BY DEF IInv, TypeOK, BlocksInv, HistoryInv
<1>2. x # NoIP
  BY DEF NoIP
<1> DEFINE parsed == {p.ip : p \in ParsedPeers(file)}
           written == {file[i].ip : i \in {j \in DOMAIN file : file[j].is = "AllowedIPs"}}
           kept == {e.ip : e \in peers}
<1>3. x \in parsed => x \in written
  <2> SUFFICES ASSUME x \in parsed  PROVE x \in written
    OBVIOUS
  <2>1. PICK h \in PeerHeaders(file) : x = LastOf(file, h, "AllowedIPs").ip
    BY DEF ParsedPeers
  <2>2. h \in DOMAIN file /\ LastOf(file, h, "AllowedIPs") # Text("")
    BY <1>2, <2>1, NoNameIsOwn DEF PeerHeaders
  <2>5. file \in Seq(Line)
    BY <1>1
  <2>3. PICK j \in BlockAt(file, h) : /\ file[j].is = "AllowedIPs"
                                      /\ LastOf(file, h, "AllowedIPs") = file[j]
    <3>1. HasLast(file, h, "AllowedIPs")
      BY <2>2, <2>5, LastOfIs
    <3> QED BY <3>1 DEF HasLast
  <2>4. j \in DOMAIN file
    BY <1>1, <2>2, <2>3, BlockInFile
  <2> QED BY <2>1, <2>3, <2>4
<1>4. x \in written => x \in parsed \/ x \in kept
  <2> SUFFICES ASSUME NEW j \in DOMAIN file, file[j].is = "AllowedIPs", x = file[j].ip
               PROVE  x \in parsed \/ x \in kept
    OBVIOUS
  <2>1. CASE j \in Others(file)
    <3>1. PICK h \in PeerHeaders(file) : LastOf(file, h, "AllowedIPs") = file[j]
      BY <1>1, <2>1, ForeignRead
    <3> DEFINE p == [key |-> LastOf(file, h, "PublicKey").key, ip |-> LastOf(file, h, "AllowedIPs").ip]
    <3>2. p \in ParsedPeers(file)
      BY DEF ParsedPeers
    <3>3. p.ip = x
      BY <3>1
    <3> HIDE DEF p
    <3> QED BY <3>2, <3>3
  <2>2. CASE j \notin Others(file)
    <3>1. InForce(file[j])
      BY DEF InForce
    <3>2. j \in OwnKeys(file) \/ j-1 \in OwnKeys(file) \/ j+1 \in OwnKeys(file)
      BY <2>2, <3>1 DEF Others
    <3>3. j \in Nat
      BY <1>1, LinesOf
    <3>4. (j+1)-1 = j /\ (j-1)+1 = j
      BY <3>3
    <3>5. j-1 \in OwnKeys(file)
      BY <1>1, <3>2, <3>4 DEF BlocksShaped
    <3>6. PICK e \in peers : e.ip = file[(j-1)+1].ip
      BY <1>1, <3>5 DEF BlocksShaped
    <3> QED BY <3>4, <3>6
  <2> QED BY <2>1, <2>2
<1>5. Used = {First} \cup (parsed \ {NoIP}) \cup kept
  BY DEF Used
<1>6. Taken = {Network + 1} \cup kept \cup written
  BY DEF Taken
<1> HIDE DEF parsed, written, kept
<1> QED BY <1>2, <1>3, <1>4, <1>5, <1>6

\* What a creation may end in.
LeastFreeFor(n) ==
    last'.call = Call("create", {n}) /\ edits' = edits =>
      IF last'.reply = "ok"
        THEN \E e \in peers' \ peers :
                 e.ip \in Hosts \ Taken /\ \A h \in Hosts \ Taken : e.ip <= h
        ELSE NameTaken(n) \/ Hosts \subseteq Taken

LEMMA CreatedLeast ==
    ASSUME IInv, OneIPEach(byHand), address.size \in {4, 8, 16}, NEW n \in Names, CreatePeer(n)
    PROVE  LeastFreeFor(n)
<1> DEFINE w == Walk(Used)
<1>1. address \in Addresses
  BY DEF IInv, TypeOK
<1>2. /\ w \in First..LastIP
      /\ \A h \in First..LastIP : h < w => h \in Used
      /\ w \in Used => w = LastIP
  BY <1>1, WalkFinds
<1>3. Hosts = First..LastIP /\ First = Network + 1 /\ First \in Nat /\ LastIP \in Nat
  BY <1>1, HostsAre
<1>4. \A h \in Hosts : h \in Nat /\ (h \in Used <=> h \in Taken)
  <2>1. \A h \in Hosts : h \in Nat
    BY <1>3
  <2> QED BY <1>3, <2>1, UsedIsTaken
<1>5. NextAvailableIP = IF w \in Used THEN NoIP ELSE w
  BY DEF NextAvailableIP
<1>6. w \in Nat /\ w # NoIP
  BY <1>2, <1>3 DEF NoIP
<1> HIDE DEF w
<1>7. CASE NameTaken(n) \/ NextAvailableIP = NoIP
  <2>1. last' = [call |-> Call("create", {n}), reply |-> "status"]
    BY <1>7 DEF CreatePeer, Refuses, Replies
  <2>2. ASSUME ~NameTaken(n)
        PROVE  Hosts \subseteq Taken
    <3>1. w \in Used
      BY <1>5, <1>6, <1>7, <2>2
    <3>2. w = LastIP
      BY <1>2, <3>1
    <3>3. \A h \in Hosts : h = w \/ h < w
      BY <1>3, <3>2
    <3> QED BY <1>2, <1>3, <1>4, <3>1, <3>3
  <2> QED BY <2>1, <2>2 DEF LeastFreeFor
<1>8. CASE ~(NameTaken(n) \/ NextAvailableIP = NoIP)
  <2> DEFINE e == Entry(n, Key(n, nextKey), NextAvailableIP)
  <2>1. peers' = peers \cup {e} /\ last'.reply = "ok"
    BY <1>8 DEF CreatePeer, Replies
  <2>2. e.ip = NextAvailableIP /\ e.name = n
    BY DEF Entry
  <2> HIDE DEF e
  <2>3. e.ip = w /\ w \notin Used
    BY <1>5, <1>8, <2>2
  <2>4. e \in peers' \ peers
    BY <1>8, <2>1, <2>2 DEF NameTaken
  <2>5. e.ip \in Hosts \ Taken
    BY <1>2, <1>3, <1>4, <2>3
  <2>6. \A h \in Hosts \ Taken : e.ip <= h
    <3> TAKE h \in Hosts \ Taken
    <3>1. h \in First..LastIP /\ h \in Nat /\ h \notin Used
      BY <1>3, <1>4
    <3>2. ~(h < w)
      BY <1>2, <3>1
    <3> QED BY <1>6, <2>3, <3>1, <3>2
  <2> QED BY <2>1, <2>4, <2>5, <2>6 DEF LeastFreeFor
<1> QED BY <1>7, <1>8

LEMMA LeastFreeStep ==
    ASSUME \A a \in Addresses : a.size \in {4, 8, 16}, IInv, OneIPEach(byHand), [Next]_vars,
           NEW n \in Names
    PROVE  LeastFreeFor(n) \/ UNCHANGED vars
<1>1. address.size \in {4, 8, 16}
  BY DEF IInv, TypeOK
<1>2. ASSUME NEW m \in Names, CreatePeer(m)
      PROVE  LeastFreeFor(n)
  <2>1. last'.call = Call("create", {m})
    BY <1>2 DEF CreatePeer, Refuses, Replies
  <2>2. Call("create", {m}) = Call("create", {n}) => m = n
    BY DEF Call
  <2>3. CASE m = n
    BY <1>1, <1>2, <2>3, CreatedLeast
  <2>4. CASE m # n
    BY <2>1, <2>2, <2>4 DEF LeastFreeFor
  <2> QED BY <2>3, <2>4
<1>3. ASSUME NEW ns, Serves(ns)
      PROVE  LeastFreeFor(n)
  <2>1. last'.call \in {Call(op, ns) : op \in {"delete", "freeze", "unfreeze"}}
    BY <1>3 DEF Serves, DeletePeers, FreezePeers, Refuses, Replies
  <2>2. last'.call # Call("create", {n})
    BY <2>1 DEF Call
  <2> QED BY <2>2 DEF LeastFreeFor
<1>4. CASE EditByHand
  <2>1. edits' # edits
    BY <1>4 DEF EditByHand, IInv, TypeOK
  <2> QED BY <2>1 DEF LeastFreeFor
<1> QED BY <1>2, <1>3, <1>4 DEF Next

\* Where every subnet has four addresses and more, and an administrator gives a peer one
\* AllowedIPs line, a creation hands out the least host that is nobody's, and is refused
\* to a new name only when there is none: over any history of creations, deletions,
\* freezes and edits, and across octets.  The walk of smaller subnets begins behind its end.
THEOREM LeastFreeHostHolds ==
    ASSUME \A a \in Addresses : a.size \in {4, 8, 16},
           \A a \in Addresses : \A t \in HandWritten[a] \cup Edits[a] : OneIPEach(t)
    PROVE  Spec => LeastFreeHost
<1> DEFINE Hand == OneIPEach(byHand)
<1>1. Init => Hand
  BY ByHandInit
<1>2. IInv /\ Hand /\ [Next]_vars => Hand'
  BY ByHandStep
<1>3. IInv /\ Hand /\ [Next]_vars =>
        [\A n \in Names : last'.call = Call("create", {n}) /\ edits' = edits =>
           IF last'.reply = "ok"
             THEN \E e \in peers' \ peers :
                      e.ip \in Hosts \ Taken /\ \A h \in Hosts \ Taken : e.ip <= h
             ELSE NameTaken(n) \/ Hosts \subseteq Taken]_vars
  BY LeastFreeStep DEF LeastFreeFor
<1> HIDE DEF Hand
<1> QED BY <1>1, <1>2, <1>3, IInvHolds, PTL DEF Spec, LeastFreeHost
=============================================================================
