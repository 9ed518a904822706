--------------------------- MODULE RadioWorkProofs ---------------------------
(* The radio work queue for any number of interfaces and works: every work in  *)
(* progress is counted and, if it is a scan or a connection attempt, referred  *)
(* to by its interface; the radio is shared as far as the driver allows; and   *)
(* the queue does not stall.  The works that leave the queue leave the others  *)
(* in their order, which is what the first part is about.                      *)
EXTENDS RadioWork, FiniteSetTheorems, NaturalsInduction, TLAPS

\* The works of the queue q that are in progress.
Act(q) == {k \in DOMAIN q : q[k].started}

\* A work of a type is in progress on interface i.
Has(q, i, type) == \E k \in Act(q) : q[k].i = i /\ q[k].type = type

\* An interface has one connection attempt, and one scan in progress.
Unique(q) ==
  \A k, m \in DOMAIN q :
    k # m /\ q[k].i = q[m].i /\ q[k].type = q[m].type
      => /\ q[k].type # "connect"
         /\ q[k].type = "scan" => ~(q[k].started /\ q[m].started)

\* A driver that does two things at a time has nothing next to a connection
\* attempt; one that does not has only connection attempts before a work of
\* another type that is in progress.
Exclusive(q) ==
  /\ sim => \A k, m \in Act(q) : q[k].type = "connect" => m = k
  /\ ~sim => \A m \in Act(q) : q[m].type # "connect"
                                 => \A k \in DOMAIN q : k < m => q[k].type = "connect"

NoExt(q) == "ext" \notin env => \A k \in DOMAIN q : q[k].type # "ext"

Tidy(q) == Unique(q) /\ Exclusive(q) /\ NoExt(q)

Radios == [work : Seq(Works), num_active_works : Int, timer : BOOLEAN]

\* The works in progress of radio r are counted.
Counted(r) == /\ r \in Radios /\ Len(r.work) <= MaxQueue
              /\ r.num_active_works = Cardinality(Act(r.work))
              /\ sim => Cardinality(Act(r.work)) <= MaxActive
              /\ Tidy(r.work)

Refs(q, scans, conns) ==
  \A i \in Ifaces : /\ i \in scans <=> Has(q, i, "scan")
                    /\ i \in conns <=> Has(q, i, "connect")

\* Where an external scan is remembered.
ExtScanInv ==
  /\ external_scan_req_interface # None
       => /\ "extscan" \in env
          /\ drvScan = external_scan_req_interface
          /\ drvScan \notin gone
  /\ up \cap gone = {}
  /\ "disable" \notin env => up = Ifaces \ gone
  /\ "ext" \notin env => ext_work_in_progress = {}

Inv == /\ TypeOK /\ Counted(radio) /\ Refs(Queue, scan_work, connect_work)
       /\ ExtScanInv /\ NoStall

----------------------------------------------------------------------------
(* Subsequences.                                                               *)

\* The sequence p is q at the places K, in order; h says where each comes from.
Sub(p, q, h, K) ==
  /\ K \subseteq DOMAIN q
  /\ h \in Bijection(DOMAIN p, K)
  /\ \A j, m \in DOMAIN p : j < m => h[j] < h[m]
  /\ \A j \in DOMAIN p : p[j] = q[h[j]]

LEMMA DomainFinite ==
  ASSUME NEW S, NEW q \in Seq(S)
  PROVE  /\ IsFiniteSet(DOMAIN q) /\ Cardinality(DOMAIN q) = Len(q)
         /\ DOMAIN q = 1 .. Len(q) /\ Len(q) \in Nat
<1>1. DOMAIN q = 1 .. Len(q) /\ Len(q) \in Nat
  OBVIOUS
<1>2. IsFiniteSet(1 .. Len(q)) /\ Cardinality(1 .. Len(q)) = IF 1 > Len(q) THEN 0 ELSE Len(q) - 1 + 1
  BY <1>1, FS_Interval
<1> QED BY <1>1, <1>2

\* A set of places has a first one.
LEMMA MinIs ==
  ASSUME NEW S \in SUBSET Nat, S # {}
  PROVE  Min(S) \in S /\ \A x \in S : Min(S) <= x
<1>1. \E x \in S : \A y \in S : ~(<<y, x>> \in OpToRel(<, Nat))
  <2> DEFINE R == OpToRel(<, Nat)
  <2>1. IsWellFoundedOn(R, Nat)
    BY NatLessThanWellFounded
  <2> HIDE DEF R
  <2>2. \E x \in S : \A y \in S : ~(<<y, x>> \in R)
    BY <2>1, WFMin
  <2> QED BY <2>2 DEF R
<1>2. PICK x \in S : \A y \in S : ~(<<y, x>> \in OpToRel(<, Nat))
  BY <1>1
<1>3. ASSUME NEW y \in S PROVE x <= y
  <2>1. x \in Nat /\ y \in Nat /\ ~(<<y, x>> \in OpToRel(<, Nat))
    BY <1>2
  <2>2. ~(y < x)
    BY <2>1 DEF OpToRel
  <2>3. x \in Nat /\ y \in Nat
    OBVIOUS
  <2> QED BY ONLY <2>2, <2>3
<1> QED BY <1>3 DEF Min

LEMMA FirstIs ==
  ASSUME NEW S \in SUBSET Nat, 0 \notin S
  PROVE  /\ First(S) = 0 <=> S = {}
         /\ S # {} => First(S) \in S /\ \A x \in S : First(S) <= x
BY MinIs DEF First

\* The places that are kept can be listed in order.
LEMMA OrderExists ==
  ASSUME NEW n \in Nat, NEW K \in SUBSET (1 .. n)
  PROVE  /\ IsFiniteSet(K) /\ Cardinality(K) \in Nat
         /\ \E h \in [1 .. Cardinality(K) -> K] :
              \A j, m \in 1 .. Cardinality(K) : j < m => h[j] < h[m]
<1>1. IsFiniteSet(1 .. n)
  BY FS_Interval
<1>2. IsFiniteSet(K) /\ Cardinality(K) \in Nat
  BY <1>1, FS_Subset, FS_CardinalityType
<1>a. \A k \in K : k \in Nat
  OBVIOUS
<1> DEFINE c == Cardinality(K)
           Below(k) == {m \in K : m <= k}
           rank == [k \in K |-> Cardinality(Below(k))]
<1>3. ASSUME NEW k \in K PROVE rank[k] \in 1 .. c
  <2>1. Below(k) \in SUBSET K /\ Below(k) # {}
    OBVIOUS
  <2>2. IsFiniteSet(Below(k)) /\ Cardinality(Below(k)) <= c /\ Cardinality(Below(k)) \in Nat
    BY <1>2, <2>1, FS_Subset, FS_CardinalityType
  <2>3. Cardinality(Below(k)) # 0
    BY <2>1, <2>2, FS_EmptySet
  <2> QED BY <1>2, <2>2, <2>3
<1>4. ASSUME NEW k \in K, NEW m \in K, k < m PROVE rank[k] < rank[m]
  <2>0. k \in Nat /\ m \in Nat
    BY <1>a
  <2>a. ASSUME NEW x \in Below(k) PROVE x \in Below(m)
    <3>1. x \in K /\ x <= k /\ x \in Nat
      BY <1>a
    <3> QED BY <1>4, <2>0, <3>1
  <2>b. m \in Below(m) /\ m \notin Below(k)
    BY <1>4, <2>0
  <2>1. Below(k) \in SUBSET Below(m) /\ m \in Below(m) /\ m \notin Below(k)
    <3> HIDE DEF Below
    <3> QED BY <2>a, <2>b
  <2>2. IsFiniteSet(Below(m)) /\ Below(m) \in SUBSET K
    BY <1>2, FS_Subset
  <2>3. Cardinality(Below(k)) <= Cardinality(Below(m))
        /\ (Cardinality(Below(m)) = Cardinality(Below(k)) => Below(m) = Below(k))
    BY <2>1, <2>2, FS_Subset
  <2> HIDE DEF Below
  <2>4. Cardinality(Below(k)) # Cardinality(Below(m))
    BY <2>1, <2>3
  <2> QED BY <1>3, <2>3, <2>4
<1> HIDE DEF rank
<1>5. rank \in [K -> 1 .. c]
  BY <1>3 DEF rank
<1>6. ASSUME NEW k \in K, NEW m \in K, k # m PROVE rank[k] # rank[m]
  BY <1>3, <1>4, <1>6
<1>7. rank \in Injection(K, 1 .. c)
  BY <1>5, <1>6 DEF Injection, IsInjective
<1>8. IsFiniteSet(1 .. c) /\ Cardinality(1 .. c) = c
  BY <1>2, FS_Interval
<1>9. rank \in Surjection(K, 1 .. c)
  BY <1>7, <1>8, FS_Injection
<1> DEFINE h == [j \in 1 .. c |-> CHOOSE k \in K : rank[k] = j]
<1>10. ASSUME NEW j \in 1 .. c PROVE h[j] \in K /\ rank[h[j]] = j
  BY <1>9 DEF Surjection
<1>11. h \in [1 .. c -> K]
  BY <1>10
<1> HIDE DEF h
<1>12. ASSUME NEW j \in 1 .. c, NEW m \in 1 .. c, j < m PROVE h[j] < h[m]
  <2>1. h[j] \in K /\ h[m] \in K /\ rank[h[j]] = j /\ rank[h[m]] = m
    BY <1>10
  <2>2. h[j] # h[m]
    BY <1>12, <2>1
  <2>3. ASSUME h[m] < h[j] PROVE FALSE
    <3>1. rank[h[m]] < rank[h[j]]
      BY <1>4, <2>1, <2>3
    <3> QED BY <1>2, <1>12, <2>1, <3>1
  <2>4. h[j] \in Nat /\ h[m] \in Nat
    BY <1>a, <2>1
  <2> QED BY ONLY <2>2, <2>3, <2>4
<1> QED BY <1>2, <1>11, <1>12

\* What Without keeps is a subsequence.
LEMMA WithoutSub ==
  ASSUME NEW S, NEW q \in Seq(S), NEW W
  PROVE  /\ Without(q, W) \in Seq(S)
         /\ \E h : Sub(Without(q, W), q, h, {k \in DOMAIN q : q[k] \notin W})
<1> DEFINE K == {k \in DOMAIN q : q[k] \notin W}
           c == Cardinality(K)
           Good(g) == \A j, m \in 1 .. c : j < m => g[j] < g[m]
           h == CHOOSE g \in [1 .. c -> K] : Good(g)
           p == [j \in 1 .. c |-> q[h[j]]]
<1>1. Len(q) \in Nat /\ K \in SUBSET (1 .. Len(q)) /\ DOMAIN q = 1 .. Len(q)
  OBVIOUS
<1>a. \A k \in K : k \in Nat /\ k \in DOMAIN q /\ q[k] \in S
  OBVIOUS
<1>2. IsFiniteSet(K) /\ c \in Nat /\ \E g \in [1 .. c -> K] : Good(g)
  <2> HIDE DEF K
  <2> QED BY <1>1, OrderExists
<1>3. h \in [1 .. c -> K] /\ Good(h)
  BY <1>2
<1>4. Without(q, W) = p
  BY DEF Without
<1> HIDE DEF h, K, c
<1>5. p \in Seq(S) /\ DOMAIN p = 1 .. c
  <2>1. \A j \in 1 .. c : q[h[j]] \in S
    BY <1>a, <1>3
  <2>2. p \in [1 .. c -> S]
    BY <2>1
  <2> QED BY <1>2, <2>2
<1>6. ASSUME NEW j \in 1 .. c, NEW m \in 1 .. c, j # m PROVE h[j] # h[m]
  <2>1. h[j] \in Nat /\ h[m] \in Nat
    BY <1>a, <1>3
  <2> QED BY <1>2, <1>3, <1>6, <2>1
<1>7. h \in Injection(1 .. c, K)
  BY <1>3, <1>6 DEF Injection, IsInjective
<1>8. IsFiniteSet(1 .. c) /\ Cardinality(1 .. c) = c
  BY <1>2, FS_Interval
<1>9. h \in Bijection(1 .. c, K)
  BY <1>2, <1>7, <1>8, FS_Injection DEF Bijection, c
<1>10. Sub(p, q, h, K)
  BY <1>1, <1>3, <1>5, <1>9 DEF Sub
<1> QED BY <1>4, <1>5, <1>10 DEF K

\* RemoveAt leaves a subsequence.
LEMMA RemoveSub ==
  ASSUME NEW S, NEW q \in Seq(S), NEW k \in DOMAIN q
  PROVE  /\ RemoveAt(q, k) \in Seq(S)
         /\ \E h : Sub(RemoveAt(q, k), q, h, DOMAIN q \ {k})
<1> DEFINE p == RemoveAt(q, k)
           n == Len(q)
           h == [j \in 1 .. n - 1 |-> IF j < k THEN j ELSE j + 1]
<1>1. n \in Nat /\ k \in 1 .. n /\ DOMAIN q = 1 .. n
  OBVIOUS
<1>2. p \in Seq(S) /\ Len(p) = n - 1 /\ DOMAIN p = 1 .. n - 1
  BY DEF RemoveAt
<1>3. ASSUME NEW j \in 1 .. n - 1 PROVE p[j] = q[h[j]] /\ h[j] \in DOMAIN q \ {k}
  <2> DEFINE a == SubSeq(q, 1, k - 1)
             b == SubSeq(q, k + 1, n)
  <2>0. /\ a \in Seq(S) /\ Len(a) = k - 1 /\ b \in Seq(S) /\ Len(b) = n - k
    BY <1>1
  <2>1. /\ \A m \in 1 .. k - 1 : a[m] = q[m]
        /\ \A m \in 1 .. n - k : b[m] = q[m + (k + 1) - 1]
    BY <1>1
  <2>2. p = a \o b
    BY DEF RemoveAt
  <2> HIDE DEF a, b, p
  <2>3. CASE j < k
    <3>1. j \in 1 .. k - 1 /\ h[j] = j /\ j \in 1 .. n /\ j # k
      BY <1>1, <2>3
    <3>2. (a \o b)[j] = a[j]
      BY <2>0, <3>1
    <3> QED BY <1>1, <2>1, <2>2, <3>1, <3>2
  <2>4. CASE j >= k
    <3> DEFINE m == j - (k - 1)
    <3>1. /\ m \in 1 .. n - k /\ h[j] = j + 1 /\ m + (k + 1) - 1 = j + 1
          /\ j + 1 \in 1 .. n /\ j + 1 # k
      BY <1>1, <2>4
    <3>2. (a \o b)[j] = b[m]
      BY <1>1, <2>0, <2>4
    <3> HIDE DEF m
    <3> QED BY <1>1, <2>1, <2>2, <3>1, <3>2
  <2> QED BY <1>1, <2>3, <2>4
<1> HIDE DEF p, n
<1>4. h \in [1 .. n - 1 -> DOMAIN q \ {k}] /\ \A j, m \in 1 .. n - 1 : j < m => h[j] < h[m]
  BY <1>1, <1>3
<1>5. h \in Injection(1 .. n - 1, DOMAIN q \ {k})
  BY <1>1, <1>4 DEF Injection, IsInjective
<1>6. ASSUME NEW m \in DOMAIN q \ {k} PROVE \E j \in 1 .. n - 1 : h[j] = m
  <2>1. CASE m < k
    <3>1. m \in 1 .. n - 1 /\ h[m] = m
      BY <1>1, <2>1
    <3> QED BY <3>1
  <2>2. CASE m > k
    <3>1. m - 1 \in 1 .. n - 1 /\ h[m - 1] = m
      BY <1>1, <2>2
    <3> QED BY <3>1
  <2> QED BY <1>1, <2>1, <2>2
<1> HIDE DEF h
<1>7. h \in Bijection(1 .. n - 1, DOMAIN q \ {k})
  BY <1>4, <1>5, <1>6 DEF Bijection, Surjection
<1> QED BY <1>2, <1>3, <1>4, <1>7 DEF Sub, p

\* Subsets of a queue's places are finite.
LEMMA ActFinite ==
  ASSUME NEW S, NEW q \in Seq(S), NEW K \in SUBSET DOMAIN q
  PROVE  IsFiniteSet(K) /\ Cardinality(K) \in Nat /\ Cardinality(K) <= Len(q)
<1>1. IsFiniteSet(DOMAIN q) /\ Cardinality(DOMAIN q) = Len(q)
  BY DomainFinite
<1>2. IsFiniteSet(K) /\ Cardinality(K) <= Cardinality(DOMAIN q)
  BY <1>1, FS_Subset
<1>3. Cardinality(K) \in Nat
  BY <1>2, FS_CardinalityType
<1> QED BY <1>1, <1>2, <1>3

\* A subsequence has as many works in progress as were kept.
LEMMA SubCount ==
  ASSUME NEW p \in Seq(Works), NEW q \in Seq(Works), NEW h, NEW K, Sub(p, q, h, K)
  PROVE  /\ Cardinality(Act(p)) = Cardinality({k \in K : q[k].started})
         /\ Len(p) <= Len(q)
<1> DEFINE A == Act(p)
           B == {k \in K : q[k].started}
           g == [j \in A |-> h[j]]
<1>1. /\ h \in [DOMAIN p -> K] /\ \A k \in K : \E j \in DOMAIN p : h[j] = k
      /\ \A j, m \in DOMAIN p : h[j] = h[m] => j = m
      /\ \A j \in DOMAIN p : p[j] = q[h[j]]
  BY DEF Sub, Bijection, Injection, Surjection, IsInjective
<1>2. IsFiniteSet(A)
  BY ActFinite DEF Act
<1>3. ASSUME NEW j \in A PROVE g[j] \in B
  BY <1>1 DEF Act
<1>4. ASSUME NEW k \in B PROVE \E j \in A : g[j] = k
  <2>1. PICK j \in DOMAIN p : h[j] = k
    BY <1>1
  <2>2. j \in A
    BY <1>1, <2>1 DEF Act
  <2> QED BY <2>1, <2>2
<1>5. ASSUME NEW j \in A, NEW m \in A, g[j] = g[m] PROVE j = m
  BY <1>1, <1>5 DEF Act
<1>6. g \in [A -> B]
  BY <1>3
<1> HIDE DEF A, B, g
<1>7. g \in Bijection(A, B)
  BY <1>4, <1>5, <1>6 DEF Bijection, Injection, Surjection, IsInjective
<1>8. Cardinality(B) = Cardinality(A)
  BY <1>2, <1>7, FS_Bijection DEF ExistsBijection
<1>9. Len(p) <= Len(q)
  <2>1. IsFiniteSet(DOMAIN p) /\ Cardinality(DOMAIN p) = Len(p) /\ Len(p) \in Nat
    BY DomainFinite
  <2>2. IsFiniteSet(K) /\ Cardinality(K) <= Len(q)
    BY ActFinite DEF Sub
  <2>3. Cardinality(K) = Cardinality(DOMAIN p)
    BY <2>1, FS_Bijection DEF ExistsBijection, Sub
  <2> QED BY <2>1, <2>2, <2>3
<1> QED BY <1>8, <1>9 DEF A, B

\* Taking works out leaves a tidy queue tidy.
LEMMA SubTidy ==
  ASSUME NEW p \in Seq(Works), NEW q \in Seq(Works), NEW h, NEW K, Sub(p, q, h, K), Tidy(q)
  PROVE  Tidy(p)
<1>1. /\ h \in [DOMAIN p -> DOMAIN q]
      /\ \A j, m \in DOMAIN p : h[j] = h[m] => j = m
      /\ \A j, m \in DOMAIN p : j < m => h[j] < h[m]
      /\ \A j \in DOMAIN p : p[j] = q[h[j]]
  BY DEF Sub, Bijection, Injection, Surjection, IsInjective
<1>2. Unique(p)
  BY <1>1 DEF Tidy, Unique
<1>3. Exclusive(p)
  BY <1>1 DEF Tidy, Exclusive, Act
<1>4. NoExt(p)
  BY <1>1 DEF Tidy, NoExt
<1> QED BY <1>2, <1>3, <1>4 DEF Tidy

\* A work is in progress in a subsequence if it was and is kept.
LEMMA SubHas ==
  ASSUME NEW p \in Seq(Works), NEW q \in Seq(Works), NEW h, NEW K, Sub(p, q, h, K),
         NEW i, NEW type
  PROVE  Has(p, i, type)
           <=> \E k \in K : q[k].started /\ q[k].i = i /\ q[k].type = type
<1>1. /\ h \in [DOMAIN p -> K] /\ \A k \in K : \E j \in DOMAIN p : h[j] = k
      /\ \A j \in DOMAIN p : p[j] = q[h[j]]
  BY DEF Sub, Bijection, Injection, Surjection
<1> QED BY <1>1 DEF Has, Act

----------------------------------------------------------------------------
(* The operations on the radio.                                                *)

LEMMA EmptyAct ==
  ASSUME NEW q \in Seq(Works)
  PROVE  Act(q) = {} <=> Cardinality(Act(q)) = 0
<1>1. IsFiniteSet(Act(q))
  BY ActFinite DEF Act
<1> QED BY <1>1, FS_EmptySet

\* The radio c is r, with the timer set if it must be.
Checked(c, r, i, ext) ==
  /\ Counted(c) /\ c.work = r.work /\ c.num_active_works = r.num_active_works
  /\ r.timer = TRUE => c.timer = TRUE
  /\ r.work # <<>> /\ i \notin ext => c.timer = TRUE

\* The radio c is r without the work at k.
Freed(c, r, k) ==
  /\ Counted(c)
  /\ Act(c.work) = {} <=> Act(r.work) \subseteq {k}
  /\ \A i, type : Has(c.work, i, type)
        <=> \E m \in DOMAIN r.work : /\ m # k /\ r.work[m].started
                                     /\ r.work[m].i = i /\ r.work[m].type = type

\* The radio c is r without the works in W.
Taken(c, r, W) ==
  /\ Counted(c) /\ Len(c.work) <= Len(r.work)
  /\ \A j \in DOMAIN c.work :
       c.work[j] \notin W /\ \E k \in DOMAIN r.work : c.work[j] = r.work[k]
  /\ \A i, type : Has(c.work, i, type)
        <=> \E m \in DOMAIN r.work : /\ r.work[m] \notin W /\ r.work[m].started
                                     /\ r.work[m].i = i /\ r.work[m].type = type

LEMMA CheckNextIs ==
  ASSUME NEW r, Counted(r), NEW i, NEW ext
  PROVE  Checked(CheckNext(r, i, ext), r, i, ext)
<1> DEFINE c == CheckNext(r, i, ext)
<1>1. r \in Radios
  BY DEF Counted
<1>2. /\ c \in Radios /\ c.work = r.work /\ c.num_active_works = r.num_active_works
      /\ r.timer = TRUE => c.timer = TRUE
      /\ r.work # <<>> /\ i \notin ext => c.timer = TRUE
  BY <1>1 DEF CheckNext, Radios
<1> HIDE DEF c
<1>3. Counted(c)
  BY <1>2 DEF Counted
<1>4. Checked(c, r, i, ext)
  BY <1>2, <1>3 DEF Checked
<1> QED BY <1>4 DEF c

\* A radio whose queue was reduced to the places K, and whose count was reduced
\* accordingly.
LEMMA ReducedCounted ==
  ASSUME NEW r, Counted(r), NEW c \in Radios, NEW h, NEW K, Sub(c.work, r.work, h, K),
         c.num_active_works
           = r.num_active_works - Cardinality(Act(r.work) \ K)
  PROVE  /\ Counted(c)
         /\ Act(c.work) = {} <=> Act(r.work) \cap K = {}
<1> DEFINE A == Act(r.work)
           B == {k \in K : r.work[k].started}
<1>1. r.work \in Seq(Works) /\ c.work \in Seq(Works) /\ K \subseteq DOMAIN r.work
  BY DEF Counted, Radios, Sub
<1>2. B = A \cap K
  BY <1>1 DEF Act
<1>3. IsFiniteSet(A) /\ Cardinality(A) \in Nat
  BY <1>1, ActFinite DEF Act
<1>4. IsFiniteSet(B) /\ Cardinality(B) \in Nat
  BY <1>1, ActFinite
<1>5. Cardinality(A \ K) = Cardinality(A) - Cardinality(A \cap K)
  <2> HIDE DEF A
  <2> QED BY <1>3, FS_Difference
<1>6. Cardinality(Act(c.work)) = Cardinality(B) /\ Len(c.work) <= Len(r.work)
  BY <1>1, SubCount
<1>7. Cardinality(B) <= Cardinality(A)
  <2> HIDE DEF A, B
  <2>1. B \in SUBSET A
    BY <1>2
  <2> QED BY <1>3, <2>1, FS_Subset
<1>8. r.num_active_works = Cardinality(A)
  BY DEF Counted
<1>9. Tidy(c.work)
  BY <1>1, SubTidy DEF Counted
<1>10. c.num_active_works = Cardinality(B)
  <2> HIDE DEF A, B
  <2>1. c.num_active_works = r.num_active_works - Cardinality(A \ K)
    BY DEF A
  <2> QED BY <1>2, <1>3, <1>4, <1>5, <1>8, <2>1
<1>11. Len(c.work) \in Nat /\ Len(r.work) \in Nat /\ Len(r.work) <= MaxQueue
  BY <1>1, DomainFinite DEF Counted
<1>12. Len(c.work) <= MaxQueue
  BY ONLY <1>6, <1>11, RadioWorkAssumption
<1>13. sim => Cardinality(Act(c.work)) <= MaxActive
  <2>1. sim => Cardinality(A) <= MaxActive
    BY DEF Counted
  <2>2. MaxActive \in Nat
    BY RadioWorkAssumption
  <2> HIDE DEF A, B
  <2> QED BY <1>3, <1>4, <1>6, <1>7, <2>1, <2>2
<1>14. Act(c.work) = {} <=> B = {}
  <2>1. B = {} <=> Cardinality(B) = 0
    <3> HIDE DEF B
    <3> QED BY <1>4, FS_EmptySet
  <2> QED BY <1>1, <1>6, <2>1, EmptyAct
<1>15. Counted(c)
  BY <1>6, <1>9, <1>10, <1>12, <1>13 DEF Counted
<1> QED BY <1>2, <1>14, <1>15

LEMMA WorkFreeIs ==
  ASSUME NEW r, Counted(r), NEW k \in DOMAIN r.work
  PROVE  Freed(WorkFree(r, k), r, k) /\ WorkFree(r, k).timer = r.timer
<1> DEFINE c == WorkFree(r, k)
           q == r.work
           K == DOMAIN q \ {k}
<1>1. r \in Radios /\ q \in Seq(Works)
  BY DEF Counted, Radios
<1>2. RemoveAt(q, k) \in Seq(Works) /\ \E h : Sub(RemoveAt(q, k), q, h, K)
  BY <1>1, RemoveSub
<1>3. /\ c \in Radios /\ c.work = RemoveAt(q, k) /\ c.timer = r.timer
      /\ c.num_active_works = IF q[k].started THEN r.num_active_works - 1
                              ELSE r.num_active_works
  <2> DEFINE n == IF q[k].started THEN r.num_active_works - 1 ELSE r.num_active_works
             p == RemoveAt(q, k)
  <2>1. n \in Int
    BY <1>1 DEF Radios
  <2>2. c = [r EXCEPT !.work = p, !.num_active_works = n]
    BY DEF WorkFree
  <2>3. p \in Seq(Works)
    BY <1>2
  <2> HIDE DEF n, p, c
  <2>4. /\ c \in Radios /\ c.work = p /\ c.timer = r.timer /\ c.num_active_works = n
    BY <1>1, <2>1, <2>2, <2>3 DEF Radios
  <2> QED BY <2>4 DEF n, p
<1>4. PICK h : Sub(c.work, q, h, K)
  BY <1>2, <1>3
<1>5. Cardinality(Act(q) \ K) = IF q[k].started THEN 1 ELSE 0
  <2>1. CASE q[k].started
    <3>1. Act(q) \ K = {k}
      BY <2>1 DEF Act
    <3> QED BY <2>1, <3>1, FS_Singleton
  <2>2. CASE ~q[k].started
    <3>1. Act(q) \ K = {}
      BY <2>2 DEF Act
    <3> QED BY <2>2, <3>1, FS_EmptySet
  <2> QED BY <2>1, <2>2
<1>6. c.num_active_works = r.num_active_works - Cardinality(Act(q) \ K)
  <2>1. r.num_active_works \in Int
    BY <1>1 DEF Radios
  <2> QED BY <1>3, <1>5, <2>1
<1> HIDE DEF c
<1>7. Counted(c) /\ (Act(c.work) = {} <=> Act(q) \cap K = {})
  BY <1>3, <1>4, <1>6, ReducedCounted
<1>8. Act(q) \cap K = {} <=> Act(q) \subseteq {k}
  BY DEF Act
<1>9. ASSUME NEW i, NEW type
      PROVE  Has(c.work, i, type)
               <=> \E m \in K : q[m].started /\ q[m].i = i /\ q[m].type = type
  <2>1. c.work \in Seq(Works)
    BY <1>3 DEF Radios
  <2> HIDE DEF K
  <2> QED BY <1>1, <1>4, <2>1, SubHas
<1>10. Freed(c, r, k)
  BY <1>7, <1>8, <1>9 DEF Freed
<1> QED BY <1>3, <1>10 DEF c

LEMMA WorkDoneIs ==
  ASSUME NEW r, Counted(r), NEW k \in DOMAIN r.work, NEW ext
  PROVE  /\ Freed(WorkDone(r, k, ext), r, k)
         /\ r.timer = TRUE => WorkDone(r, k, ext).timer = TRUE
         /\ /\ r.work[k].started /\ r.work[k].i \notin ext
            /\ WorkDone(r, k, ext).work # <<>>
            => WorkDone(r, k, ext).timer = TRUE
<1> DEFINE f == WorkFree(r, k)
           j == r.work[k].i
           c == CheckNext(f, j, ext)
<1>1. Freed(f, r, k) /\ f.timer = r.timer
  BY WorkFreeIs
<1> HIDE DEF f, j
<1>2. Counted(f)
  BY <1>1 DEF Freed
<1>3. Checked(c, f, j, ext)
  BY <1>2, CheckNextIs
<1> HIDE DEF c
<1>4. Freed(c, r, k)
  BY <1>1, <1>3 DEF Freed, Checked
<1>5. WorkDone(r, k, ext) = IF r.work[k].started THEN c ELSE f
  BY DEF WorkDone, c, f, j
<1>6. CASE r.work[k].started
  BY <1>1, <1>3, <1>4, <1>5, <1>6 DEF Checked, j
<1>7. CASE ~r.work[k].started
  BY <1>1, <1>5, <1>7
<1> QED BY <1>6, <1>7

LEMMA TakeOutIs ==
  ASSUME NEW r, Counted(r), NEW W
  PROVE  Taken(TakeOut(r, W), r, W) /\ TakeOut(r, W).timer = r.timer
<1> DEFINE c == TakeOut(r, W)
           q == r.work
           K == {k \in DOMAIN q : q[k] \notin W}
           F == {k \in DOMAIN q : q[k] \in W}
<1>1. r \in Radios /\ q \in Seq(Works)
  BY DEF Counted, Radios
<1>2. Without(q, W) \in Seq(Works) /\ \E h : Sub(Without(q, W), q, h, K)
  BY <1>1, WithoutSub
<1>a. /\ F \in SUBSET DOMAIN q /\ {k \in F : q[k].started} = Act(q) \ K
  BY DEF Act
<1>b. Cardinality(Act(q) \ K) \in Nat
  <2>1. Act(q) \ K \in SUBSET DOMAIN q
    BY DEF Act
  <2> QED BY <1>1, <2>1, ActFinite
<1>3. /\ c.work = Without(q, W) /\ c.timer = r.timer
      /\ c.num_active_works = ActiveLeft(r, F)
  BY <1>1, <1>2 DEF TakeOut, Radios
<1>5. c.num_active_works = r.num_active_works - Cardinality(Act(q) \ K)
  BY <1>3, <1>a DEF ActiveLeft
<1>6. c \in Radios
  <2>1. r.num_active_works \in Int
    BY <1>1 DEF Radios
  <2>2. ActiveLeft(r, F) \in Int
    BY <1>a, <1>b, <2>1 DEF ActiveLeft
  <2> HIDE DEF F
  <2>3. c = [r EXCEPT !.work = Without(q, W), !.num_active_works = ActiveLeft(r, F)]
    BY DEF TakeOut, F
  <2> QED BY <1>1, <1>2, <2>2, <2>3 DEF Radios
<1>4. PICK h : Sub(c.work, q, h, K)
  BY <1>2, <1>3
<1> HIDE DEF c
<1>7. Counted(c)
  BY <1>4, <1>5, <1>6, ReducedCounted
<1>8. c.work \in Seq(Works)
  BY <1>6 DEF Radios
<1>9. ASSUME NEW i, NEW type
      PROVE  Has(c.work, i, type)
               <=> \E m \in K : q[m].started /\ q[m].i = i /\ q[m].type = type
  <2> HIDE DEF K
  <2> QED BY <1>1, <1>4, <1>8, SubHas
<1>10. Len(c.work) <= Len(q)
  BY <1>1, <1>4, <1>8, SubCount
<1>11. \A j \in DOMAIN c.work : h[j] \in K /\ c.work[j] = q[h[j]]
  BY <1>4 DEF Sub, Bijection, Injection
<1>12. Taken(c, r, W)
  BY <1>7, <1>9, <1>10, <1>11 DEF Taken
<1> QED BY <1>3, <1>12 DEF c

LEMMA RemoveWorksIs ==
  ASSUME NEW r, Counted(r), NEW W, NEW i, NEW ext
  PROVE  /\ Taken(RemoveWorks(r, i, W, ext), r, W)
         /\ r.timer = TRUE => RemoveWorks(r, i, W, ext).timer = TRUE
         /\ RemoveWorks(r, i, W, ext).work # <<>> /\ i \notin ext
              => RemoveWorks(r, i, W, ext).timer = TRUE
<1> DEFINE t == TakeOut(r, W)
           c == CheckNext(t, i, ext)
<1>1. Taken(t, r, W) /\ t.timer = r.timer
  BY TakeOutIs
<1> HIDE DEF t
<1>2. Counted(t)
  BY <1>1 DEF Taken
<1>3. Checked(c, t, i, ext)
  BY <1>2, CheckNextIs
<1>4. RemoveWorks(r, i, W, ext) = c
  BY DEF RemoveWorks, t
<1> HIDE DEF c
<1>5. Taken(c, r, W)
  BY <1>1, <1>3 DEF Taken, Checked
<1> QED BY <1>1, <1>3, <1>4, <1>5 DEF Checked

\* The queue q is p with a work at x that has not started.
Grown(q, p, x) ==
  /\ \E h : Sub(p, q, h, DOMAIN q \ {x})
  /\ x \in DOMAIN q /\ q[x].started = FALSE

LEMMA GrownTidy ==
  ASSUME NEW p \in Seq(Works), NEW q \in Seq(Works), NEW x, Grown(q, p, x), Tidy(p),
         q[x].type = "connect"
           => \A j \in DOMAIN p : ~(p[j].i = q[x].i /\ p[j].type = "connect"),
         q[x].type = "ext" => "ext" \in env,
         (\A k \in DOMAIN q : k <= x) \/ q[x].type = "connect"
  PROVE  /\ Tidy(q)
         /\ Cardinality(Act(q)) = Cardinality(Act(p))
         /\ \A i, type : Has(q, i, type) <=> Has(p, i, type)
<1> DEFINE K == DOMAIN q \ {x}
<1>1. PICK h : Sub(p, q, h, K)
  BY DEF Grown
<1>2. /\ h \in [DOMAIN p -> K] /\ \A k \in K : \E j \in DOMAIN p : h[j] = k
      /\ \A j, m \in DOMAIN p : j < m => h[j] < h[m]
      /\ \A j \in DOMAIN p : p[j] = q[h[j]]
      /\ \A j, m \in DOMAIN p : h[j] = h[m] => j = m
  BY <1>1 DEF Sub, Bijection, Injection, Surjection, IsInjective
<1>3. DOMAIN p \subseteq Nat /\ DOMAIN q \subseteq Nat
  OBVIOUS
<1>4. \A k \in DOMAIN q : k = x \/ \E j \in DOMAIN p : h[j] = k /\ p[j] = q[k]
  BY <1>2
<1>5. x \in DOMAIN q /\ q[x].started = FALSE
  BY DEF Grown
<1>6. Act(q) = {k \in K : q[k].started}
  BY <1>5 DEF Act
<1>7. Cardinality(Act(q)) = Cardinality(Act(p))
  <2> HIDE DEF K
  <2> QED BY <1>1, <1>6, SubCount
<1>8. ASSUME NEW i, NEW type PROVE Has(q, i, type) <=> Has(p, i, type)
  <2>1. Has(p, i, type) <=> \E k \in K : q[k].started /\ q[k].i = i /\ q[k].type = type
    <3> HIDE DEF K
    <3> QED BY <1>1, SubHas
  <2> QED BY <2>1, <1>6 DEF Has, Act
<1>9. Unique(q)
  <2> SUFFICES ASSUME NEW k \in DOMAIN q, NEW m \in DOMAIN q, k # m,
                      q[k].i = q[m].i, q[k].type = q[m].type
               PROVE  /\ q[k].type # "connect"
                      /\ q[k].type = "scan" => ~(q[k].started /\ q[m].started)
    BY DEF Unique
  <2>1. CASE k = x
    <3>1. PICK j \in DOMAIN p : h[j] = m /\ p[j] = q[m]
      BY <1>4, <2>1
    <3> QED BY <1>5, <2>1, <3>1
  <2>2. CASE m = x
    <3>1. PICK j \in DOMAIN p : h[j] = k /\ p[j] = q[k]
      BY <1>4, <2>2
    <3> QED BY <1>5, <2>2, <3>1
  <2>3. CASE k # x /\ m # x
    <3>1. PICK j \in DOMAIN p : h[j] = k /\ p[j] = q[k]
      BY <1>4, <2>3
    <3>2. PICK l \in DOMAIN p : h[l] = m /\ p[l] = q[m]
      BY <1>4, <2>3
    <3> QED BY <3>1, <3>2 DEF Tidy, Unique
  <2> QED BY <2>1, <2>2, <2>3
<1>10. Exclusive(q)
  <2>1. ASSUME sim, NEW k \in Act(q), NEW m \in Act(q), q[k].type = "connect" PROVE m = k
    <3>1. PICK j \in DOMAIN p : h[j] = k /\ p[j] = q[k]
      BY <1>4, <1>5 DEF Act
    <3>2. PICK l \in DOMAIN p : h[l] = m /\ p[l] = q[m]
      BY <1>4, <1>5 DEF Act
    <3>3. j \in Act(p) /\ l \in Act(p) /\ p[j].type = "connect"
      BY <2>1, <3>1, <3>2 DEF Act
    <3> QED BY <2>1, <3>1, <3>2, <3>3 DEF Tidy, Exclusive
  <2>2. ASSUME ~sim, NEW m \in Act(q), q[m].type # "connect", NEW k \in DOMAIN q, k < m
        PROVE  q[k].type = "connect"
    <3>1. PICK l \in DOMAIN p : h[l] = m /\ p[l] = q[m]
      BY <1>4, <1>5 DEF Act
    <3>2. CASE k = x
      <4>1. k \in Nat /\ m \in Nat /\ m \in DOMAIN q
        BY <1>3 DEF Act
      <4>2. ~(\A y \in DOMAIN q : y <= x)
        BY <2>2, <3>2, <4>1
      <4> QED BY <3>2, <4>2
    <3>3. CASE k # x
      <4>1. PICK j \in DOMAIN p : h[j] = k /\ p[j] = q[k]
        BY <1>4, <3>3
      <4>2. j \in Nat /\ l \in Nat /\ k \in Nat /\ m \in Nat
        BY <1>3 DEF Act
      <4>3. ~(l < j) /\ l # j
        BY <1>2, <2>2, <3>1, <4>1, <4>2
      <4>4. j < l
        BY ONLY <4>2, <4>3
      <4>5. l \in Act(p)
        BY <3>1 DEF Act
      <4> QED BY <2>2, <3>1, <4>1, <4>4, <4>5 DEF Tidy, Exclusive
    <3> QED BY <3>2, <3>3
  <2> QED BY <2>1, <2>2 DEF Exclusive
<1>11. NoExt(q)
  BY <1>4 DEF Tidy, NoExt
<1> QED BY <1>7, <1>8, <1>9, <1>10, <1>11 DEF Tidy

\* A work is put in front of the queue or at its end.
LEMMA GrownIs ==
  ASSUME NEW p \in Seq(Works), NEW w \in Works, w.started = FALSE
  PROVE  /\ Append(p, w) \in Seq(Works) /\ Grown(Append(p, w), p, Len(p) + 1)
         /\ Append(p, w)[Len(p) + 1] = w /\ \A k \in DOMAIN Append(p, w) : k <= Len(p) + 1
         /\ <<w>> \o p \in Seq(Works) /\ Grown(<<w>> \o p, p, 1) /\ (<<w>> \o p)[1] = w
         /\ Len(Append(p, w)) = Len(p) + 1 /\ Len(<<w>> \o p) = Len(p) + 1
<1> DEFINE n == Len(p)
           a == Append(p, w)
           b == <<w>> \o p
           g == [j \in 1 .. n |-> j]
           h == [j \in 1 .. n |-> j + 1]
<1>1. n \in Nat /\ DOMAIN p = 1 .. n
  OBVIOUS
<1>2. /\ a \in Seq(Works) /\ Len(a) = n + 1 /\ DOMAIN a = 1 .. n + 1
      /\ a[n + 1] = w /\ \A j \in 1 .. n : a[j] = p[j]
  OBVIOUS
<1>3. /\ b \in Seq(Works) /\ Len(b) = n + 1 /\ DOMAIN b = 1 .. n + 1 /\ b[1] = w
  OBVIOUS
<1>4. \A j \in 1 .. n : b[j + 1] = p[j]
  OBVIOUS
<1> HIDE DEF n, a, b
<1>5. Sub(p, a, g, DOMAIN a \ {n + 1})
  <2>1. g \in [DOMAIN p -> DOMAIN a \ {n + 1}] /\ \A j, m \in DOMAIN p : j < m => g[j] < g[m]
    BY <1>1, <1>2
  <2>2. \A j, m \in DOMAIN p : g[j] = g[m] => j = m
    BY <1>1
  <2>3. \A k \in DOMAIN a \ {n + 1} : \E j \in DOMAIN p : g[j] = k
    BY <1>1, <1>2
  <2>4. \A j \in DOMAIN p : p[j] = a[g[j]]
    BY <1>1, <1>2
  <2> HIDE DEF g
  <2> QED BY <2>1, <2>2, <2>3, <2>4 DEF Sub, Bijection, Injection, Surjection, IsInjective
<1>6. Sub(p, b, h, DOMAIN b \ {1})
  <2>1. h \in [DOMAIN p -> DOMAIN b \ {1}] /\ \A j, m \in DOMAIN p : j < m => h[j] < h[m]
    BY <1>1, <1>3
  <2>2. \A j, m \in DOMAIN p : h[j] = h[m] => j = m
    BY <1>1
  <2>3. ASSUME NEW k \in DOMAIN b \ {1} PROVE \E j \in DOMAIN p : h[j] = k
    <3>1. k - 1 \in DOMAIN p /\ h[k - 1] = k
      BY <1>1, <1>3
    <3> QED BY <3>1
  <2>4. \A j \in DOMAIN p : p[j] = b[h[j]]
    BY <1>1, <1>4
  <2> HIDE DEF h
  <2> QED BY <2>1, <2>2, <2>3, <2>4 DEF Sub, Bijection, Injection, Surjection, IsInjective
<1>7. Grown(a, p, n + 1) /\ Grown(b, p, 1)
  BY <1>1, <1>2, <1>3, <1>5, <1>6 DEF Grown
<1>8. \A k \in DOMAIN a : k <= n + 1
  BY <1>1, <1>2
<1> QED BY <1>2, <1>3, <1>7, <1>8 DEF n, a, b

\* The radio c is r with a work in its queue that has not started.
Added(c, r) ==
  /\ Counted(c) /\ c.work # <<>>
  /\ Act(c.work) = {} <=> Act(r.work) = {}
  /\ \A i, type : Has(c.work, i, type) <=> Has(r.work, i, type)

LEMMA AddWorkIs ==
  ASSUME NEW r, Counted(r), Len(r.work) < MaxQueue, NEW w \in Works, w.started = FALSE,
         NEW next \in BOOLEAN, NEW ext,
         w.type = "connect"
           => \A j \in DOMAIN r.work : ~(r.work[j].i = w.i /\ r.work[j].type = "connect"),
         w.type = "ext" => "ext" \in env,
         next => w.type = "connect"
  PROVE  /\ Added(AddWork(r, w, next, ext), r)
         /\ r.timer = TRUE => AddWork(r, w, next, ext).timer = TRUE
         /\ r.work = <<>> /\ w.i \notin ext => AddWork(r, w, next, ext).timer = TRUE
<1> DEFINE p == r.work
           q == IF next THEN <<w>> \o p ELSE Append(p, w)
           x == IF next THEN 1 ELSE Len(p) + 1
           s == [r EXCEPT !.work = q]
           i == w.i
           c == CheckNext(s, i, ext)
<1>1. r \in Radios /\ p \in Seq(Works) /\ Len(p) \in Nat
  BY DEF Counted, Radios
<1>2. /\ q \in Seq(Works) /\ Grown(q, p, x) /\ q[x] = w /\ Len(q) = Len(p) + 1
      /\ (\A k \in DOMAIN q : k <= x) \/ w.type = "connect"
  <2>1. CASE next
    BY <1>1, <2>1, GrownIs
  <2>2. CASE ~next
    BY <1>1, <2>2, GrownIs
  <2> QED BY <2>1, <2>2
<1> HIDE DEF q, x
<1>3. /\ Tidy(q) /\ Cardinality(Act(q)) = Cardinality(Act(p))
      /\ \A j, type : Has(q, j, type) <=> Has(p, j, type)
  <2>1. Tidy(p)
    BY DEF Counted
  <2> QED BY <1>1, <1>2, <2>1, GrownTidy
<1>4. /\ s \in Radios /\ s.work = q /\ s.num_active_works = r.num_active_works
      /\ s.timer = r.timer
  BY <1>1, <1>2 DEF Radios
<1>5. Len(q) <= MaxQueue
  BY <1>1, <1>2, RadioWorkAssumption
<1> HIDE DEF s
<1>6. Counted(s)
  BY <1>3, <1>4, <1>5 DEF Counted
<1>7. q # <<>>
  BY <1>1, <1>2
<1>8. Act(q) = {} <=> Act(p) = {}
  BY <1>1, <1>2, <1>3, EmptyAct
<1> HIDE DEF p, i
<1>9. Checked(c, s, i, ext)
  BY <1>6, CheckNextIs
<1>10. AddWork(r, w, next, ext)
         = IF p = <<>> \/ (sim /\ r.num_active_works < MaxActive) THEN c ELSE s
  BY DEF AddWork, c, s, q, p, i
<1> HIDE DEF c
<1>11. Added(c, r) /\ Added(s, r)
  BY <1>3, <1>4, <1>6, <1>7, <1>8, <1>9 DEF Added, Checked, p
<1>12. CASE p = <<>> \/ (sim /\ r.num_active_works < MaxActive)
  <2>1. AddWork(r, w, next, ext) = c
    BY <1>10, <1>12
  <2> QED BY <1>4, <1>7, <1>9, <1>11, <2>1 DEF Checked, i
<1>13. CASE ~(p = <<>> \/ (sim /\ r.num_active_works < MaxActive))
  <2>1. AddWork(r, w, next, ext) = s /\ p # <<>>
    BY <1>10, <1>13
  <2> QED BY <1>4, <1>11, <2>1 DEF p
<1> QED BY <1>12, <1>13

----------------------------------------------------------------------------
(* The start of the next work.                                                 *)

LEMMA ToStartIs ==
  ASSUME Counted(radio)
  PROVE  /\ ToStart = 0 /\ Queue # <<>> /\ (sim \/ external_scan_req_interface = None)
              => Started # {}
         /\ ToStart # 0
              => /\ ToStart \in DOMAIN Queue /\ Queue[ToStart].started = FALSE
                 /\ ~sim => ToStart = 1
                 /\ sim => radio.num_active_works < MaxActive
                 /\ sim /\ Started # {}
                      => \E a \in Started : /\ Queue[a].type # "connect"
                                            /\ Queue[ToStart].type # "connect"
                                            /\ Queue[ToStart].type # Queue[a].type
<1> DEFINE q == radio.work
           S == {k \in DOMAIN q : q[k].started}
           a == First(S)
           T == {k \in DOMAIN q :
                  /\ ~q[k].started
                  /\ \A m \in 1 .. k : ~q[m].started => q[m].type # "connect"
                  /\ ~(q[k].i = q[a].i /\ q[k].type = "scan" /\ q[a].type = "scan")
                  /\ q[k].type # q[a].type /\ q[k].bands # q[a].bands}
<1>1. q \in Seq(Works) /\ radio.num_active_works = Cardinality(S) /\ S = Act(q)
  BY DEF Counted, Radios, Act
<1>2. Queue = q /\ Started = S
  BY DEF Queue, Started
<1>3. DOMAIN q \in SUBSET Nat /\ 0 \notin DOMAIN q /\ (q # <<>> => 1 \in DOMAIN q)
  BY <1>1
<1>4. \A k \in DOMAIN q : q[k].started \in BOOLEAN
  BY <1>1 DEF Works
<1>5. (a = 0 <=> S = {}) /\ (S # {} => a \in S)
  <2>1. S \in SUBSET Nat /\ 0 \notin S
    BY <1>3
  <2> HIDE DEF S
  <2> QED BY <2>1, FirstIs
<1>6. (First(T) = 0 <=> T = {}) /\ (T # {} => First(T) \in T)
  <2>1. T \in SUBSET Nat /\ 0 \notin T
    BY <1>3
  <2> HIDE DEF T
  <2> QED BY <2>1, FirstIs
<1>7. GetNextWork(radio) = IF a = 0 THEN 1 ELSE IF q[a].type = "connect" THEN 0 ELSE First(T)
  BY DEF GetNextWork
<1>8. CASE q = <<>>
  BY <1>2, <1>8 DEF ToStart
<1>9. CASE q # <<>> /\ ~sim
  <2>1. ToStart = IF q[1].started \/ external_scan_req_interface # None THEN 0 ELSE 1
    BY <1>2, <1>9 DEF ToStart
  <2>2. q[1].started => 1 \in S
    BY <1>3, <1>9
  <2> QED BY <1>2, <1>3, <1>4, <1>9, <2>1, <2>2
<1>10. CASE q # <<>> /\ sim /\ ~(radio.num_active_works < MaxActive)
  <2>1. ToStart = 0
    BY <1>2, <1>10 DEF ToStart
  <2>2. S # {}
    <3>1. MaxActive \in Nat /\ MaxActive > 0
      BY RadioWorkAssumption
    <3>2. Cardinality(S) # 0
      BY <1>1, <1>10, <3>1
    <3> QED BY <3>2, FS_EmptySet
  <2> QED BY <1>2, <2>1, <2>2
<1>11. CASE q # <<>> /\ sim /\ radio.num_active_works < MaxActive
  <2>1. ToStart = GetNextWork(radio)
    BY <1>2, <1>11 DEF ToStart
  <2>2. CASE a = 0
    <3>1. ToStart = 1 /\ S = {}
      BY <1>5, <1>7, <2>1, <2>2
    <3> QED BY <1>2, <1>3, <1>4, <1>11, <3>1
  <2>3. CASE a # 0 /\ q[a].type = "connect"
    <3>1. ToStart = 0 /\ S # {}
      BY <1>5, <1>7, <2>1, <2>3
    <3> QED BY <1>2, <3>1
  <2>4. CASE a # 0 /\ q[a].type # "connect"
    <3>1. ToStart = First(T) /\ a \in S
      BY <1>5, <1>7, <2>1, <2>4
    <3>2. ASSUME ToStart # 0
          PROVE  /\ ToStart \in DOMAIN q /\ q[ToStart].started = FALSE
                 /\ q[ToStart].type # "connect" /\ q[ToStart].type # q[a].type
      <4>1. ToStart \in T
        BY <1>6, <3>1, <3>2
      <4> DEFINE n == ToStart
      <4>2. n \in DOMAIN q /\ ~q[n].started /\ q[n].type # q[a].type
        BY <4>1
      <4>3. \A m \in 1 .. n : ~q[m].started => q[m].type # "connect"
        BY <4>1
      <4>4. n \in 1 .. n
        BY <1>1, <4>2
      <4> HIDE DEF n
      <4> QED BY <1>4, <4>2, <4>3, <4>4 DEF n
    <3> HIDE DEF S, T, a
    <3> QED BY <1>2, <1>11, <2>4, <3>1, <3>2
  <2> QED BY <2>2, <2>3, <2>4
<1> QED BY <1>8, <1>9, <1>10, <1>11

LEMMA MarkedIs ==
  ASSUME Counted(radio), ToStart # 0
  PROVE  /\ Counted(Marked)
         /\ ToStart \in DOMAIN Marked.work /\ DOMAIN Marked.work = DOMAIN Queue
         /\ Marked.work[ToStart].started = TRUE
         /\ Marked.work[ToStart].i = Queue[ToStart].i
         /\ Marked.work[ToStart].type = Queue[ToStart].type
         /\ Queue[ToStart].started = FALSE
         /\ \A m \in DOMAIN Queue : m # ToStart => Marked.work[m] = Queue[m]
<1> DEFINE k == ToStart
           q == radio.work
           w == [q[k] EXCEPT !.started = TRUE]
           p == [q EXCEPT ![k] = w]
           n == (IF sim /\ Started = {} THEN 0 ELSE radio.num_active_works) + 1
           r == [radio EXCEPT !.timer = FALSE, !.work = p, !.num_active_works = n]
<1>1. radio \in Radios /\ q \in Seq(Works) /\ Queue = q /\ Started = Act(q)
  BY DEF Counted, Radios, Queue, Started, Act
<1>2. /\ k \in DOMAIN q /\ q[k].started = FALSE
      /\ ~sim => k = 1
      /\ sim => radio.num_active_works < MaxActive
      /\ sim /\ Act(q) # {}
           => \E a \in Act(q) : /\ q[a].type # "connect" /\ q[k].type # "connect"
                                /\ q[k].type # q[a].type
  BY <1>1, ToStartIs
<1>3. Marked = r
  BY DEF Marked, Queue
<1> HIDE DEF k
<1>4. q[k] \in Works
  BY <1>1, <1>2
<1>5. w \in Works /\ w.started = TRUE /\ w.i = q[k].i /\ w.type = q[k].type
  BY <1>4 DEF Works
<1> HIDE DEF w
<1>6. /\ p \in Seq(Works) /\ DOMAIN p = DOMAIN q /\ Len(p) = Len(q) /\ p[k] = w
      /\ \A m \in DOMAIN q : m # k => p[m] = q[m]
  BY <1>1, <1>2, <1>5
<1> HIDE DEF p
<1>7. IsFiniteSet(Act(q)) /\ Cardinality(Act(q)) \in Nat
  BY <1>1, ActFinite DEF Act
<1>8. radio.num_active_works = Cardinality(Act(q)) /\ radio.num_active_works \in Int
  BY <1>1 DEF Counted, Radios
<1>9. Act(p) = Act(q) \cup {k} /\ k \notin Act(q)
  BY <1>2, <1>5, <1>6 DEF Act
<1>10. Cardinality(Act(p)) = Cardinality(Act(q)) + 1
  BY <1>7, <1>9, FS_AddElement
<1>11. n = Cardinality(Act(p)) /\ n \in Int
  <2>1. Act(q) = {} => Cardinality(Act(q)) = 0
    BY FS_EmptySet
  <2> QED BY <1>1, <1>7, <1>8, <1>10, <2>1
<1> HIDE DEF n
<1>12. r \in Radios /\ r.work = p /\ r.num_active_works = n
  BY <1>1, <1>6, <1>11 DEF Radios
<1>13. sim => Cardinality(Act(p)) <= MaxActive
  <2>1. MaxActive \in Nat
    BY RadioWorkAssumption
  <2> QED BY <1>2, <1>7, <1>8, <1>10, <2>1
\* With a work in progress that is the only one.
<1>14. ASSUME sim, NEW m \in Act(q)
       PROVE  q[m].type # "connect" /\ q[k].type # "connect" /\ q[k].type # q[m].type
  <2>1. PICK a \in Act(q) : /\ q[a].type # "connect" /\ q[k].type # "connect"
                            /\ q[k].type # q[a].type
    BY <1>2, <1>14
  <2>2. Cardinality(Act(q)) < 2
    BY <1>2, <1>7, <1>8, <1>14, RadioWorkAssumption
  <2>3. Cardinality(Act(q)) # 0
    BY <1>7, <1>14, FS_EmptySet
  <2>4. Cardinality(Act(q)) = 1
    BY <1>7, <2>2, <2>3
  <2>5. PICK x : Act(q) = {x}
    BY <1>7, <2>4, FS_Singleton
  <2>6. m = a
    BY <2>5
  <2> QED BY <2>1, <2>6
<1>15. ASSUME ~sim, NEW m \in Act(q), q[m].type # "connect" PROVE q[k].type = "connect"
  <2>1. k = 1 /\ m # k /\ m \in DOMAIN q
    BY <1>2, <1>9, <1>15 DEF Act
  <2>2. k < m
    BY <1>1, <2>1
  <2> QED BY <1>2, <1>15, <2>2 DEF Counted, Tidy, Exclusive
<1>16. \A m \in DOMAIN q : p[m].i = q[m].i /\ p[m].type = q[m].type
  BY <1>5, <1>6
<1>17. Tidy(q)
  BY DEF Counted
<1>18. Unique(p)
  <2> SUFFICES ASSUME NEW l \in DOMAIN q, NEW m \in DOMAIN q, l # m,
                      q[l].i = q[m].i, q[l].type = q[m].type
               PROVE  /\ q[l].type # "connect"
                      /\ q[l].type = "scan" => ~(p[l].started /\ p[m].started)
    BY <1>6, <1>16 DEF Unique
  <2>1. q[l].type # "connect"
    BY <1>17 DEF Tidy, Unique
  <2>2. ASSUME q[l].type = "scan", p[l].started, p[m].started PROVE FALSE
    <3>1. l \in Act(p) /\ m \in Act(p)
      BY <1>6, <2>2 DEF Act
    <3>2. CASE l # k /\ m # k
      <4>1. l \in Act(q) /\ m \in Act(q)
        BY <1>9, <3>1, <3>2
      <4> QED BY <1>17, <2>2, <4>1 DEF Tidy, Unique, Act
    <3>3. CASE l = k \/ m = k
      <4>1. PICK y \in {l, m} : y # k
        BY <3>3
      <4>2. y \in Act(q) /\ q[y].type = q[k].type
        BY <1>9, <3>1, <3>3, <4>1
      <4>3. CASE sim
        BY <1>14, <4>2, <4>3
      <4>4. CASE ~sim
        BY <1>15, <2>2, <3>3, <4>2, <4>4
      <4> QED BY <4>3, <4>4
    <3> QED BY <3>2, <3>3
  <2> QED BY <2>1, <2>2
<1>19. Exclusive(p)
  <2>1. ASSUME sim, NEW l \in Act(p), NEW m \in Act(p), p[l].type = "connect" PROVE m = l
    <3>1. CASE l \in Act(q)
      <4>1. q[l].type # "connect"
        BY <1>14, <2>1, <3>1
      <4>2. p[l].type = q[l].type
        BY <1>16, <3>1 DEF Act
      <4> QED BY <2>1, <4>1, <4>2
    <3>2. CASE l = k
      <4>1. q[k].type = "connect"
        BY <1>2, <1>16, <2>1, <3>2
      <4>2. m \notin Act(q)
        BY <1>14, <2>1, <4>1
      <4> QED BY <1>9, <3>2, <4>2
    <3> QED BY <1>9, <3>1, <3>2
  <2>2. ASSUME ~sim, NEW m \in Act(p), p[m].type # "connect", NEW l \in DOMAIN p, l < m
        PROVE  p[l].type = "connect"
    <3>1. CASE m = k
      <4>1. m = 1 /\ l \in 1 .. Len(p)
        BY <1>2, <1>6, <2>2, <3>1
      <4> QED BY <2>2, <4>1
    <3>2. CASE m \in Act(q)
      <4>1. q[m].type # "connect" /\ l \in DOMAIN q
        BY <1>6, <1>16, <2>2, <3>2 DEF Act
      <4>2. q[l].type = "connect"
        BY <1>17, <2>2, <3>2, <4>1 DEF Tidy, Exclusive
      <4> QED BY <1>16, <4>1, <4>2
    <3> QED BY <1>9, <3>1, <3>2
  <2> QED BY <2>1, <2>2 DEF Exclusive
<1>20. NoExt(p)
  BY <1>6, <1>16, <1>17 DEF Tidy, NoExt
<1>21. Len(p) <= MaxQueue
  BY <1>6 DEF Counted
<1> HIDE DEF r
<1>22. Counted(r)
  BY <1>11, <1>12, <1>13, <1>18, <1>19, <1>20, <1>21 DEF Counted, Tidy
<1> QED BY <1>1, <1>2, <1>3, <1>5, <1>6, <1>12, <1>22 DEF k

\* After the callback the timer may be set.
LEMMA AfterCbIs ==
  ASSUME NEW r, Counted(r), NEW i, NEW ext
  PROVE  /\ Counted(AfterCb(r, i, ext)) /\ AfterCb(r, i, ext).work = r.work
         /\ r.timer = TRUE => AfterCb(r, i, ext).timer = TRUE
<1> DEFINE c == CheckNext(r, i, ext)
<1>1. Checked(c, r, i, ext)
  BY CheckNextIs
<1>2. AfterCb(r, i, ext) = c \/ AfterCb(r, i, ext) = r
  BY DEF AfterCb
<1> HIDE DEF c
<1> QED BY <1>1, <1>2 DEF Checked

----------------------------------------------------------------------------
(* The inductive step.                                                         *)

\* The start of the next work is scheduled on radio r if there is nothing to wait
\* for; e is the interface of an external scan.
Wakes(r, e) ==
  Steady /\ r.work # <<>> /\ Act(r.work) = {} /\ (sim \/ e = None) => r.timer = TRUE

\* The types of what is not in the radio.
Others ==
  /\ up \subseteq Ifaces /\ gone \subseteq Ifaces
  /\ scan_work \subseteq Ifaces /\ connect_work \subseteq Ifaces
  /\ ext_work_in_progress \subseteq Ifaces
  /\ external_scan_req_interface \in Ifaces \cup {None}
  /\ drvScan \in Ifaces \cup {None}
  /\ adds \in 0 .. MaxAdds

\* What an action has to show.
Step ==
  /\ UNCHANGED config /\ Others' /\ ExtScanInv'
  /\ Counted(radio') /\ Refs(radio'.work, scan_work', connect_work')
  /\ Wakes(radio', external_scan_req_interface')

LEMMA InvFacts ==
  ASSUME Inv
  PROVE  /\ Others /\ ExtScanInv /\ Counted(radio)
         /\ Refs(radio.work, scan_work, connect_work)
         /\ Wakes(radio, external_scan_req_interface)
         /\ radio \in Radios /\ radio.work \in Seq(Works) /\ Queue = radio.work
         /\ Started = Act(radio.work)
         /\ Steady => ext_work_in_progress = {}
         /\ \A k \in DOMAIN radio.work :
              /\ radio.work[k] \in Works /\ radio.work[k].i \in Ifaces
              /\ radio.work[k].type \in Types /\ radio.work[k].started \in BOOLEAN
<1>1. Others /\ ExtScanInv /\ Counted(radio) /\ Refs(radio.work, scan_work, connect_work)
  BY DEF Inv, TypeOK, Others, Queue
<1>2. radio \in Radios /\ radio.work \in Seq(Works)
  BY <1>1 DEF Counted, Radios
<1>3. Queue = radio.work /\ Started = Act(radio.work)
  BY DEF Queue, Started, Act
<1>4. Wakes(radio, external_scan_req_interface)
  <2>1. radio.timer \in BOOLEAN
    BY <1>2 DEF Radios
  <2> QED BY <1>3, <2>1 DEF Inv, NoStall, Wakes, RadioFree
<1>5. Steady => ext_work_in_progress = {}
  BY <1>1 DEF ExtScanInv, Steady
<1>6. ASSUME NEW k \in DOMAIN radio.work
      PROVE  /\ radio.work[k] \in Works /\ radio.work[k].i \in Ifaces
             /\ radio.work[k].type \in Types /\ radio.work[k].started \in BOOLEAN
  <2>1. radio.work[k] \in Works
    BY <1>2
  <2> QED BY <2>1 DEF Works, Types
<1> QED BY <1>1, <1>2, <1>3, <1>4, <1>5, <1>6

LEMMA StepInv ==
  ASSUME Inv, Step
  PROVE  Inv'
<1>1. env' = env /\ sim' = sim /\ sme' = sme
  BY DEF Step, config
<1>2. Counted(radio)'
  BY <1>1 DEF Step, Counted, Tidy, Unique, Exclusive, NoExt, Act
<1>3. Refs(Queue, scan_work, connect_work)'
  BY DEF Step, Queue
<1> DEFINE q == radio'.work
           n == radio'.num_active_works
<1>4. /\ radio' \in Radios /\ q \in Seq(Works) /\ Len(q) <= MaxQueue
      /\ n = Cardinality(Act(q)) /\ radio'.timer \in BOOLEAN
  BY DEF Step, Counted, Radios
<1>5. n \in 0 .. MaxQueue
  <2>1. n \in Nat /\ n <= Len(q) /\ Len(q) \in Nat
    BY <1>4, ActFinite, DomainFinite DEF Act
  <2>2. MaxQueue \in Nat
    BY RadioWorkAssumption
  <2> QED BY ONLY <1>4, <2>1, <2>2
<1>6. radio' \in [work : Seq(Works), num_active_works : 0 .. MaxQueue, timer : BOOLEAN]
  BY <1>4, <1>5 DEF Radios
<1>7. TypeOK'
  BY <1>1, <1>4, <1>6 DEF Inv, TypeOK, Step, Others
<1>8. NoStall'
  BY <1>1 DEF NoStall, Steady, RadioFree, Queue, Started, Step, Wakes, Act
<1> QED BY <1>2, <1>3, <1>7, <1>8 DEF Inv, Step

\* A work that is in progress, of the types that interfaces refer to.
LEMMA HasIs ==
  ASSUME Inv, NEW i \in Ifaces
  PROVE  /\ i \in scan_work <=> Has(radio.work, i, "scan")
         /\ i \in connect_work <=> Has(radio.work, i, "connect")
         /\ \A type : Has(radio.work, i, type) <=> StartedOf(i, type) # {}
         /\ \A type : StartedOf(i, type)
                        = {k \in DOMAIN radio.work : /\ radio.work[k].started
                                                     /\ radio.work[k].i = i
                                                     /\ radio.work[k].type = type}
<1>1. \A type : StartedOf(i, type)
                        = {k \in DOMAIN radio.work : /\ radio.work[k].started
                                                     /\ radio.work[k].i = i
                                                     /\ radio.work[k].type = type}
  BY DEF StartedOf, Started, Queue
<1>2. \A type : Has(radio.work, i, type) <=> StartedOf(i, type) # {}
  BY <1>1 DEF Has, Act
<1>3. Refs(radio.work, scan_work, connect_work)
  BY InvFacts
<1> QED BY <1>1, <1>2, <1>3 DEF Refs

LEMMA NothingStep ==
  ASSUME Inv, NothingToStart
  PROVE  Step
<1>1. /\ UNCHANGED config /\ Others' /\ ExtScanInv'
  BY InvFacts DEF NothingToStart, flags, Others, ExtScanInv, config
<1> DEFINE n == IF Queue = <<>> THEN 0 ELSE radio.num_active_works
<1>2. radio.num_active_works = Cardinality(Act(radio.work)) /\ radio.num_active_works \in Int
  BY InvFacts DEF Counted, Radios
<1>3. n = Cardinality(Act(radio.work)) /\ n \in Int
  <2>1. CASE Queue = <<>>
    <3>1. Act(radio.work) = {}
      BY <2>1, InvFacts DEF Act
    <3> QED BY <2>1, <3>1, FS_EmptySet
  <2>2. CASE Queue # <<>>
    BY <1>2, <2>2
  <2> QED BY <2>1, <2>2
<1>4. radio' = [radio EXCEPT !.timer = FALSE, !.num_active_works = n]
  BY DEF NothingToStart
<1> HIDE DEF n
<1>5. radio' \in Radios /\ radio'.work = radio.work /\ radio'.num_active_works = n
  BY <1>3, <1>4, InvFacts DEF Radios
<1>6. Counted(radio')
  BY <1>3, <1>5, InvFacts DEF Counted
<1>7. Refs(radio'.work, scan_work', connect_work')
  BY <1>5, InvFacts DEF NothingToStart, flags, Refs
<1>8. Wakes(radio', external_scan_req_interface')
  <2>1. ToStart = 0 /\ external_scan_req_interface' = external_scan_req_interface
    BY DEF NothingToStart
  <2>2. radio.work # <<>> /\ (sim \/ external_scan_req_interface = None) => Act(radio.work) # {}
    BY <2>1, InvFacts, ToStartIs
  <2> QED BY <1>5, <2>1, <2>2 DEF Wakes
<1> QED BY <1>1, <1>6, <1>7, <1>8 DEF Step

LEMMA StartIs ==
  ASSUME Inv, ToStart # 0, NEW ext
  PROVE  LET i == Queue[ToStart].i
             type == Queue[ToStart].type
             r == AfterCb(Marked, i, ext)
             f == AfterCb(WorkDone(Marked, ToStart, ext), i, ext)
         IN /\ i \in Ifaces /\ type \in Types
            /\ Counted(r) /\ Act(r.work) # {}
            /\ \A j, t : Has(r.work, j, t) <=> Has(radio.work, j, t) \/ (j = i /\ t = type)
            /\ Counted(f)
            /\ \A j, t : Has(f.work, j, t) <=> Has(radio.work, j, t)
            /\ i \notin ext /\ f.work # <<>> => f.timer = TRUE
<1> DEFINE k == ToStart
           q == radio.work
           i == q[k].i
           type == q[k].type
           m == Marked
           d == WorkDone(m, k, ext)
           r == AfterCb(m, i, ext)
           f == AfterCb(d, i, ext)
<1>1. /\ Counted(m) /\ k \in DOMAIN m.work /\ DOMAIN m.work = DOMAIN q
      /\ m.work[k].started = TRUE /\ m.work[k].i = i /\ m.work[k].type = type
      /\ q[k].started = FALSE
      /\ \A l \in DOMAIN q : l # k => m.work[l] = q[l]
  BY InvFacts, MarkedIs
<1>2. i \in Ifaces /\ type \in Types
  BY <1>1, InvFacts
<1>a. Queue = q
  BY DEF Queue
<1> HIDE DEF k, q, m, i, type
<1>3. /\ Freed(d, m, k)
      /\ i \notin ext /\ d.work # <<>> => d.timer = TRUE
  BY <1>1, WorkDoneIs
<1>4. Counted(r) /\ r.work = m.work
  BY <1>1, AfterCbIs
<1> HIDE DEF d
<1>5. Counted(f) /\ f.work = d.work /\ (d.timer = TRUE => f.timer = TRUE)
  BY <1>3, AfterCbIs DEF Freed
<1> HIDE DEF r, f
<1>6. Act(r.work) # {}
  BY <1>1, <1>4 DEF Act
<1>7. ASSUME NEW j, NEW t
      PROVE  Has(r.work, j, t) <=> Has(q, j, t) \/ (j = i /\ t = type)
  BY <1>1, <1>4 DEF Has, Act
<1>8. ASSUME NEW j, NEW t PROVE Has(f.work, j, t) <=> Has(q, j, t)
  <2>1. Has(d.work, j, t) <=> \E l \in DOMAIN m.work : /\ l # k /\ m.work[l].started
                                                     /\ m.work[l].i = j /\ m.work[l].type = t
    BY <1>3 DEF Freed
  <2>2. (\E l \in DOMAIN m.work : /\ l # k /\ m.work[l].started
                                /\ m.work[l].i = j /\ m.work[l].type = t) <=> Has(q, j, t)
    BY <1>1 DEF Has, Act
  <2> QED BY <1>5, <2>1, <2>2
<1> QED BY <1>2, <1>3, <1>4, <1>5, <1>6, <1>7, <1>8, <1>a DEF k, q, i, type, m, d, r, f

LEMMA StartScanStep ==
  ASSUME Inv, StartScan
  PROVE  Step
<1> DEFINE i == Queue[ToStart].i
           ext == ext_work_in_progress
           r == AfterCb(Marked, i, ext)
           f == AfterCb(WorkDone(Marked, ToStart, ext), i, ext)
<1>1. ToStart # 0 /\ Queue[ToStart].type = "scan"
  BY DEF StartScan, StartOf
<1>2. /\ i \in Ifaces
      /\ Counted(r) /\ Act(r.work) # {}
      /\ \A j, t : Has(r.work, j, t) <=> Has(radio.work, j, t) \/ (j = i /\ t = "scan")
      /\ Counted(f)
      /\ \A j, t : Has(f.work, j, t) <=> Has(radio.work, j, t)
      /\ i \notin ext /\ f.work # <<>> => f.timer = TRUE
  BY <1>1, StartIs
<1>3. \/ drvScan = None /\ drvScan' = i /\ scan_work' = scan_work \cup {i} /\ radio' = r
      \/ radio' = f /\ UNCHANGED <<drvScan, scan_work>>
  BY DEF StartScan
<1>4. UNCHANGED <<config, up, gone, connect_work, ext_work_in_progress,
                  external_scan_req_interface, adds>>
  BY DEF StartScan
<1> HIDE DEF i, r, f
<1>5. Others'
  BY <1>2, <1>3, <1>4, InvFacts DEF Others
<1>6. ExtScanInv'
  BY <1>3, <1>4, InvFacts DEF ExtScanInv, config
<1>7. Counted(radio')
  BY <1>2, <1>3
<1>8. Refs(radio'.work, scan_work', connect_work')
  <2>1. CASE scan_work' = scan_work \cup {i} /\ radio' = r
    BY <1>2, <1>4, <2>1, InvFacts DEF Refs
  <2>2. CASE radio' = f /\ UNCHANGED scan_work
    BY <1>2, <1>4, <2>2, InvFacts DEF Refs
  <2> QED BY <1>3, <2>1, <2>2
<1>9. Wakes(radio', external_scan_req_interface')
  BY <1>2, <1>3, InvFacts DEF Wakes
<1> QED BY <1>4, <1>5, <1>6, <1>7, <1>8, <1>9 DEF Step

LEMMA StartConnectStep ==
  ASSUME Inv, StartConnect
  PROVE  Step
<1> DEFINE i == Queue[ToStart].i
           ext == ext_work_in_progress
           r == AfterCb(Marked, i, ext)
           f == AfterCb(WorkDone(Marked, ToStart, ext), i, ext)
<1>1. ToStart # 0 /\ Queue[ToStart].type = "connect"
  BY DEF StartConnect, StartOf
<1>2. /\ i \in Ifaces
      /\ Counted(r) /\ Act(r.work) # {}
      /\ \A j, t : Has(r.work, j, t) <=> Has(radio.work, j, t) \/ (j = i /\ t = "connect")
      /\ Counted(f)
      /\ \A j, t : Has(f.work, j, t) <=> Has(radio.work, j, t)
      /\ i \notin ext /\ f.work # <<>> => f.timer = TRUE
  BY <1>1, StartIs
<1>3. \/ connect_work' = connect_work \cup {i} /\ radio' = r
      \/ radio' = f /\ UNCHANGED connect_work
  BY DEF StartConnect
<1>4. UNCHANGED <<config, up, gone, scan_work, ext_work_in_progress,
                  external_scan_req_interface, drvScan, adds>>
  BY DEF StartConnect
<1> HIDE DEF i, r, f
<1>5. Others' /\ ExtScanInv'
  BY <1>2, <1>3, <1>4, InvFacts DEF Others, ExtScanInv, config
<1>6. Counted(radio')
  BY <1>2, <1>3
<1>7. Refs(radio'.work, scan_work', connect_work')
  <2>1. CASE connect_work' = connect_work \cup {i} /\ radio' = r
    BY <1>2, <1>4, <2>1, InvFacts DEF Refs
  <2>2. CASE radio' = f /\ UNCHANGED connect_work
    BY <1>2, <1>4, <2>2, InvFacts DEF Refs
  <2> QED BY <1>3, <2>1, <2>2
<1>8. Wakes(radio', external_scan_req_interface')
  BY <1>2, <1>3, InvFacts DEF Wakes
<1> QED BY <1>4, <1>5, <1>6, <1>7, <1>8 DEF Step

LEMMA StartGasStep ==
  ASSUME Inv, StartGas
  PROVE  Step
<1> DEFINE i == Queue[ToStart].i
           ext == ext_work_in_progress
           r == AfterCb(Marked, i, ext)
           f == AfterCb(WorkDone(Marked, ToStart, ext), i, ext)
<1>1. ToStart # 0 /\ Queue[ToStart].type = "gas-query"
  BY DEF StartGas, StartOf
<1>2. /\ Counted(r) /\ Act(r.work) # {}
      /\ \A j, t : Has(r.work, j, t) <=> Has(radio.work, j, t) \/ (j = i /\ t = "gas-query")
      /\ Counted(f)
      /\ \A j, t : Has(f.work, j, t) <=> Has(radio.work, j, t)
      /\ i \notin ext /\ f.work # <<>> => f.timer = TRUE
  BY <1>1, StartIs
<1>3. radio' = r \/ radio' = f
  BY DEF StartGas
<1>4. UNCHANGED <<config, up, gone, flags, external_scan_req_interface, drvScan, adds>>
  BY DEF StartGas
<1> HIDE DEF i, r, f
<1>5. Others' /\ ExtScanInv'
  BY <1>4, InvFacts DEF Others, ExtScanInv, config, flags
<1>6. Counted(radio')
  BY <1>2, <1>3
<1>7. Refs(radio'.work, scan_work', connect_work')
  BY <1>2, <1>3, <1>4, InvFacts DEF Refs, flags
<1>8. Wakes(radio', external_scan_req_interface')
  BY <1>2, <1>3, InvFacts DEF Wakes
<1> QED BY <1>4, <1>5, <1>6, <1>7, <1>8 DEF Step

\* An external work needs "ext" in env.
LEMMA ExtNotSteady ==
  ASSUME Inv, NEW k \in DOMAIN Queue, Queue[k].type = "ext"
  PROVE  "ext" \in env /\ ~Steady
<1>1. NoExt(Queue)
  BY InvFacts DEF Counted, Tidy
<1> QED BY <1>1 DEF NoExt, Steady

LEMMA StartExtStep ==
  ASSUME Inv, StartExt
  PROVE  Step
<1> DEFINE i == Queue[ToStart].i
           ext == ext_work_in_progress \cup {i}
           r == AfterCb(Marked, i, ext)
<1>1. ToStart # 0 /\ Queue[ToStart].type = "ext"
  BY DEF StartExt, StartOf
<1>2. /\ i \in Ifaces /\ Counted(r) /\ Act(r.work) # {}
      /\ \A j, t : Has(r.work, j, t) <=> Has(radio.work, j, t) \/ (j = i /\ t = "ext")
  BY <1>1, StartIs
<1>3. radio' = r /\ ext_work_in_progress' = ext
  BY DEF StartExt
<1>4. UNCHANGED <<config, up, gone, scan_work, connect_work,
                  external_scan_req_interface, drvScan, adds>>
  BY DEF StartExt
<1>a. "ext" \in env
  BY <1>1, InvFacts, ToStartIs, ExtNotSteady
<1> HIDE DEF i, r
<1>5. Others'
  BY <1>2, <1>3, <1>4, InvFacts DEF Others
<1>6. ExtScanInv'
  BY <1>4, <1>a, InvFacts DEF ExtScanInv, config
<1>7. Counted(radio') /\ Wakes(radio', external_scan_req_interface')
  BY <1>2, <1>3 DEF Wakes
<1>8. Refs(radio'.work, scan_work', connect_work')
  BY <1>2, <1>3, <1>4, InvFacts DEF Refs
<1> QED BY <1>4, <1>5, <1>6, <1>7, <1>8 DEF Step

----------------------------------------------------------------------------
(* Works are added.                                                            *)

\* The work w of interface i is added to a queue that is r's.
LEMMA AddStep ==
  ASSUME Inv, NEW i \in Ifaces, MayAdd(i), NEW r, Counted(r), Len(r.work) < MaxQueue,
         NEW w \in Works, w.started = FALSE, w.i = i, NEW next \in BOOLEAN,
         radio' = AddWork(r, w, next, ext_work_in_progress),
         w.type = "connect"
           => \A j \in DOMAIN r.work : ~(r.work[j].i = w.i /\ r.work[j].type = "connect"),
         w.type = "ext" => "ext" \in env,
         next => w.type = "connect",
         \A j, type : Has(r.work, j, type) <=> Has(radio.work, j, type),
         Wakes(r, external_scan_req_interface)
  PROVE  Step
<1>1. /\ UNCHANGED config /\ UNCHANGED <<up, gone>> /\ UNCHANGED flags
      /\ UNCHANGED <<external_scan_req_interface, drvScan>>
      /\ adds < MaxAdds /\ adds' = adds + 1
  BY DEF MayAdd
<1>2. adds' \in 0 .. MaxAdds
  <2>1. adds \in 0 .. MaxAdds
    BY InvFacts DEF Others
  <2> QED BY <1>1, <2>1, RadioWorkAssumption
<1>3. Others'
  BY <1>1, <1>2, InvFacts DEF Others, flags
<1>4. ExtScanInv'
  BY <1>1, InvFacts DEF ExtScanInv, flags, config
<1>5. /\ Added(radio', r)
      /\ r.timer = TRUE => radio'.timer = TRUE
      /\ r.work = <<>> /\ w.i \notin ext_work_in_progress => radio'.timer = TRUE
  BY AddWorkIs
<1>6. Refs(radio'.work, scan_work', connect_work')
  BY <1>1, <1>5, InvFacts DEF Refs, Added, flags
<1>7. Wakes(radio', external_scan_req_interface')
  BY <1>1, <1>5, InvFacts DEF Wakes, Added
<1> QED BY <1>1, <1>3, <1>4, <1>5, <1>6, <1>7 DEF Step, Added

LEMMA AddsStep ==
  ASSUME Inv, NEW i \in Ifaces,
         \/ TriggerScan(i) \/ (\E b \in {"2.4", "5"} : GasQuery(i, b)) \/ ExtAdd(i)
  PROVE  Step
<1>1. PICK type \in {"scan", "gas-query", "ext"}, b \in {"all", "2.4", "5"} :
        /\ \/ type = "scan" /\ b = "all"
           \/ type \in {"connect", "gas-query", "ext"} /\ b \in {"2.4", "5"}
        /\ type = "ext" => "ext" \in env
        /\ MayAdd(i)
        /\ radio' = AddWork(radio, NewWork(i, type, b), FALSE, ext_work_in_progress)
  <2>1. CASE TriggerScan(i)
    BY <2>1 DEF TriggerScan, Add
  <2>2. CASE \E b \in {"2.4", "5"} : GasQuery(i, b)
    BY <2>2 DEF GasQuery, Add
  <2>3. CASE ExtAdd(i)
    BY <2>3 DEF ExtAdd, Add
  <2> QED BY <2>1, <2>2, <2>3
<1> DEFINE w == NewWork(i, type, b)
<1>2. w \in Works /\ w.i = i /\ w.type = type /\ w.started = FALSE
  BY <1>1 DEF NewWork, Works, Types
<1>3. radio' = AddWork(radio, w, FALSE, ext_work_in_progress)
  BY <1>1
<1> HIDE DEF w
<1>4. Len(radio.work) < MaxQueue
  BY <1>1 DEF MayAdd, Queue
<1>5. Counted(radio) /\ Wakes(radio, external_scan_req_interface)
  BY InvFacts
<1> QED BY <1>1, <1>2, <1>3, <1>4, <1>5, AddStep

LEMMA ConnectStep ==
  ASSUME Inv, NEW i \in Ifaces, Connect(i)
  PROVE  Step
<1> DEFINE W == WorksOf(i, {"connect"})
           ext == ext_work_in_progress
           d == RemoveWorks(radio, i, W, ext)
           r == IF W # {} THEN d ELSE radio
           w == NewWork(i, "connect", "5")
           q == radio.work
<1>1. /\ i \notin connect_work /\ MayAdd(i) /\ radio' = AddWork(r, w, TRUE, ext)
  BY DEF Connect
<1>2. w \in Works /\ w.i = i /\ w.type = "connect" /\ w.started = FALSE
  BY DEF NewWork, Works, Types
<1>3. \A k \in DOMAIN q : q[k] \in W <=> q[k].i = i /\ q[k].type = "connect"
  BY DEF WorksOf, Queue, Range
<1>c. Counted(radio)
  BY InvFacts
<1>4. /\ Taken(d, radio, W)
      /\ d.work # <<>> /\ i \notin ext => d.timer = TRUE
  <2> HIDE DEF W
  <2> QED BY <1>c, RemoveWorksIs
<1>a. q \in Seq(Works) /\ Len(q) \in Nat /\ Len(q) < MaxQueue
  BY <1>1, InvFacts DEF MayAdd
<1> HIDE DEF d, w, W
<1>5. \A k \in DOMAIN q : q[k] \in W => ~q[k].started
  <2>1. ~Has(q, i, "connect")
    BY <1>1, HasIs
  <2> QED BY <1>3, <2>1 DEF Has, Act
<1>6. ASSUME NEW j, NEW type PROVE Has(d.work, j, type) <=> Has(q, j, type)
  <2>1. Has(d.work, j, type)
          <=> \E m \in DOMAIN q : /\ q[m] \notin W /\ q[m].started
                                 /\ q[m].i = j /\ q[m].type = type
    BY <1>4 DEF Taken
  <2> QED BY <1>5, <2>1 DEF Has, Act
<1>7. \A j \in DOMAIN d.work : ~(d.work[j].i = i /\ d.work[j].type = "connect")
  BY <1>3, <1>4 DEF Taken
<1>8. Wakes(d, external_scan_req_interface)
  BY <1>4, InvFacts DEF Wakes
<1>9. d.work \in Seq(Works) /\ Len(d.work) \in Nat /\ Len(d.work) <= Len(q)
  BY <1>4 DEF Taken, Counted, Radios
<1>10. Len(d.work) < MaxQueue
  BY ONLY <1>9, <1>a, RadioWorkAssumption
<1>11. CASE W # {}
  <2>1. Counted(d) /\ radio' = AddWork(d, w, TRUE, ext)
    BY <1>1, <1>4, <1>11 DEF Taken
  <2> QED BY <1>1, <1>2, <1>6, <1>7, <1>8, <1>10, <2>1, AddStep
<1>12. CASE W = {}
  <2>1. Counted(radio) /\ radio' = AddWork(radio, w, TRUE, ext)
    BY <1>1, <1>12, InvFacts
  <2>2. \A j \in DOMAIN q : ~(q[j].i = i /\ q[j].type = "connect")
    BY <1>3, <1>12
  <2>3. Wakes(radio, external_scan_req_interface)
    BY InvFacts
  <2> QED BY <1>1, <1>2, <1>a, <2>1, <2>2, <2>3, AddStep
<1> QED BY <1>11, <1>12

----------------------------------------------------------------------------
(* Works end.                                                                  *)

LEMMA DoneIs ==
  ASSUME Inv, NEW k \in DOMAIN radio.work, NEW ext
  PROVE  LET q == radio.work
             d == WorkDone(radio, k, ext)
         IN /\ Counted(d)
            /\ \A j, t : ~(q[k].started /\ q[k].i = j /\ q[k].type = t)
                           => (Has(d.work, j, t) <=> Has(q, j, t))
            /\ q[k].started /\ q[k].type \in {"scan", "connect"}
                 => ~Has(d.work, q[k].i, q[k].type)
            /\ (Steady /\ q[k].started => q[k].i \notin ext)
                 => Wakes(d, external_scan_req_interface)
<1> DEFINE q == radio.work
           d == WorkDone(radio, k, ext)
<1>1. Counted(radio) /\ Wakes(radio, external_scan_req_interface)
  BY InvFacts
<1>2. /\ Freed(d, radio, k)
      /\ radio.timer = TRUE => d.timer = TRUE
      /\ q[k].started /\ q[k].i \notin ext /\ d.work # <<>> => d.timer = TRUE
  BY <1>1, WorkDoneIs
<1> HIDE DEF d
<1>3. ASSUME NEW j, NEW t
      PROVE  Has(d.work, j, t) <=> \E m \in DOMAIN q : /\ m # k /\ q[m].started
                                                     /\ q[m].i = j /\ q[m].type = t
  BY <1>2 DEF Freed
<1>4. ASSUME NEW j, NEW t, ~(q[k].started /\ q[k].i = j /\ q[k].type = t)
      PROVE  Has(d.work, j, t) <=> Has(q, j, t)
  BY <1>3, <1>4 DEF Has, Act
<1>5. ASSUME q[k].started, q[k].type \in {"scan", "connect"}
      PROVE  ~Has(d.work, q[k].i, q[k].type)
  <2>1. Unique(q)
    BY <1>1 DEF Counted, Tidy
  <2> SUFFICES ASSUME NEW m \in DOMAIN q, m # k, q[m].started,
                      q[m].i = q[k].i, q[m].type = q[k].type
               PROVE  FALSE
    BY <1>3
  <2> QED BY <1>5, <2>1 DEF Unique
<1>6. ASSUME Steady /\ q[k].started => q[k].i \notin ext
      PROVE  Wakes(d, external_scan_req_interface)
  <2>1. CASE q[k].started
    BY <1>2, <1>6, <2>1 DEF Wakes
  <2>2. CASE ~q[k].started
    <3>1. k \notin Act(q) /\ q # <<>>
      BY <2>2, InvFacts DEF Act
    <3>2. Act(d.work) = {} => Act(q) = {}
      BY <1>2, <3>1 DEF Freed
    <3> QED BY <1>1, <1>2, <3>1, <3>2 DEF Wakes
  <2> QED BY <2>1, <2>2
<1>7. Counted(d)
  BY <1>2 DEF Freed
<1> QED BY <1>4, <1>5, <1>6, <1>7 DEF d

LEMMA ConnectDoneStep ==
  ASSUME Inv, NEW i \in Ifaces, ConnectDone(i)
  PROVE  Step
<1> DEFINE q == radio.work
<1>1. PICK k \in StartedOf(i, "connect") : radio' = WorkDone(radio, k, ext_work_in_progress)
  BY DEF ConnectDone
<1>2. k \in DOMAIN q /\ q[k].started /\ q[k].i = i /\ q[k].type = "connect"
  BY HasIs
<1>3. /\ Counted(radio')
      /\ \A j, t : ~(i = j /\ t = "connect") => (Has(radio'.work, j, t) <=> Has(q, j, t))
      /\ ~Has(radio'.work, i, "connect")
      /\ (Steady => i \notin ext_work_in_progress)
           => Wakes(radio', external_scan_req_interface)
  BY <1>1, <1>2, DoneIs
<1>4. /\ connect_work' = connect_work \ {i}
      /\ UNCHANGED <<config, up, gone, scan_work, ext_work_in_progress,
                     external_scan_req_interface, drvScan, adds>>
  BY DEF ConnectDone
<1>5. Others' /\ ExtScanInv'
  BY <1>4, InvFacts DEF Others, ExtScanInv, config
<1>6. Refs(radio'.work, scan_work', connect_work')
  BY <1>3, <1>4, InvFacts DEF Refs
<1>7. Wakes(radio', external_scan_req_interface')
  BY <1>3, <1>4, InvFacts
<1> QED BY <1>3, <1>4, <1>5, <1>6, <1>7 DEF Step

LEMMA GasDoneStep ==
  ASSUME Inv, NEW i \in Ifaces, GasDone(i)
  PROVE  Step
<1> DEFINE q == radio.work
<1>1. PICK k \in DOMAIN q : /\ q[k].type = "gas-query"
                            /\ radio' = WorkDone(radio, k, ext_work_in_progress)
  BY DEF GasDone, Queue
<1>2. /\ Counted(radio')
      /\ \A j, t : t # "gas-query" => (Has(radio'.work, j, t) <=> Has(q, j, t))
      /\ (Steady => q[k].i \notin ext_work_in_progress)
           => Wakes(radio', external_scan_req_interface)
  BY <1>1, DoneIs
<1>3. UNCHANGED <<config, up, gone, flags, external_scan_req_interface, drvScan, adds>>
  BY DEF GasDone
<1>4. Others' /\ ExtScanInv'
  BY <1>3, InvFacts DEF Others, ExtScanInv, config, flags
<1>5. Refs(radio'.work, scan_work', connect_work')
  BY <1>2, <1>3, InvFacts DEF Refs, flags
<1>6. Wakes(radio', external_scan_req_interface')
  BY <1>2, <1>3, InvFacts
<1> QED BY <1>2, <1>3, <1>4, <1>5, <1>6 DEF Step

LEMMA ExtEndStep ==
  ASSUME Inv, NEW i \in Ifaces, ExtTimeout(i) \/ ExtDone(i)
  PROVE  Step
<1> DEFINE q == radio.work
<1>1. PICK k \in DOMAIN q : /\ q[k].type = "ext"
                            /\ radio' = WorkDone(radio, k, ext_work_in_progress')
  <2>1. \A k \in StartedOf(i, "ext") : k \in DOMAIN q /\ q[k].type = "ext"
    BY HasIs
  <2> QED BY <2>1 DEF ExtTimeout, ExtDone, Queue
<1>2. /\ Counted(radio')
      /\ \A j, t : t # "ext" => (Has(radio'.work, j, t) <=> Has(q, j, t))
  BY <1>1, DoneIs
<1>3. "ext" \in env /\ ~Steady
  BY <1>1, ExtNotSteady DEF Queue
<1>4. /\ ext_work_in_progress' = ext_work_in_progress \ {i}
      /\ UNCHANGED <<config, up, gone, scan_work, connect_work,
                     external_scan_req_interface, drvScan, adds>>
  BY DEF ExtTimeout, ExtDone
<1>5. Others'
  BY <1>4, InvFacts DEF Others
<1>6. ExtScanInv'
  BY <1>3, <1>4, InvFacts DEF ExtScanInv, config
<1>7. Refs(radio'.work, scan_work', connect_work')
  BY <1>2, <1>4, InvFacts DEF Refs
<1>8. Wakes(radio', external_scan_req_interface')
  BY <1>3 DEF Wakes
<1> QED BY <1>2, <1>4, <1>5, <1>6, <1>7, <1>8 DEF Step

LEMMA ScanDoneIs ==
  ASSUME Inv, NEW i \in Ifaces
  PROVE  LET d == ScanDone(radio, i)
         IN /\ Counted(d) /\ ~Has(d.work, i, "scan")
            /\ \A j, t : ~(i = j /\ t = "scan") => (Has(d.work, j, t) <=> Has(radio.work, j, t))
<1> DEFINE q == radio.work
           S == StartedOf(i, "scan")
           d == ScanDone(radio, i)
<1>1. i \in scan_work <=> S # {}
  BY HasIs
<1>2. CASE S # {}
  <2> DEFINE k == Min(S)
  <2>1. S \in SUBSET Nat
    BY InvFacts, HasIs
  <2>2. k \in S
    <3> HIDE DEF S
    <3> QED BY <1>2, <2>1, MinIs
  <2>3. k \in DOMAIN q /\ q[k].started /\ q[k].i = i /\ q[k].type = "scan"
    BY <2>2, HasIs
  <2>4. d = WorkDone(radio, k, ext_work_in_progress)
    BY <1>1, <1>2 DEF ScanDone
  <2> HIDE DEF k, d
  <2>5. /\ Counted(d) /\ ~Has(d.work, i, "scan")
        /\ \A j, t : ~(i = j /\ t = "scan") => (Has(d.work, j, t) <=> Has(q, j, t))
    BY <2>3, <2>4, DoneIs
  <2> QED BY <2>5 DEF d
<1>3. CASE S = {}
  <2>1. d = radio
    BY <1>3 DEF ScanDone
  <2>2. ~Has(q, i, "scan")
    BY <1>3, HasIs
  <2> QED BY <2>1, <2>2, InvFacts
<1> QED BY <1>2, <1>3

LEMMA ScanResultsStep ==
  ASSUME Inv, ScanResults
  PROVE  Step
<1> DEFINE i == drvScan
           ext == ext_work_in_progress
           d == ScanDone(radio, i)
           c == CheckNext(d, i, ext)
           n == CheckNext(radio, i, ext)
<1>1. /\ i # None /\ i \in Ifaces
  BY InvFacts DEF ScanResults, Others
<1>2. /\ drvScan' = None /\ external_scan_req_interface' = None
      /\ \/ i \in up /\ radio' = c /\ scan_work' = scan_work \ {i}
         \/ i \in up /\ radio' = n /\ UNCHANGED scan_work
         \/ i \notin up /\ UNCHANGED <<radio, scan_work>>
      /\ UNCHANGED <<config, up, gone, connect_work, ext_work_in_progress, adds>>
  BY DEF ScanResults
<1>3. /\ Counted(d) /\ ~Has(d.work, i, "scan")
      /\ \A j, t : ~(i = j /\ t = "scan") => (Has(d.work, j, t) <=> Has(radio.work, j, t))
  BY <1>1, ScanDoneIs
<1> HIDE DEF d
<1>4. Checked(c, d, i, ext) /\ Checked(n, radio, i, ext)
  BY <1>3, InvFacts, CheckNextIs
<1> HIDE DEF c, n
<1>5. Others' /\ ExtScanInv'
  BY <1>2, InvFacts DEF Others, ExtScanInv, config
<1>6. Counted(radio')
  BY <1>2, <1>4, InvFacts DEF Checked
<1>7. Refs(radio'.work, scan_work', connect_work')
  <2>1. CASE radio' = c /\ scan_work' = scan_work \ {i}
    BY <1>2, <1>3, <1>4, <2>1, InvFacts DEF Refs, Checked
  <2>2. CASE radio'.work = radio.work /\ UNCHANGED scan_work
    BY <1>2, <2>2, InvFacts DEF Refs
  <2> QED BY <1>2, <1>4, <2>1, <2>2 DEF Checked
<1>8. Wakes(radio', external_scan_req_interface')
  <2>1. CASE i \in up
    <3>1. radio' = c \/ radio' = n
      BY <1>2, <2>1
    <3>2. Steady => i \notin ext
      BY InvFacts
    <3> QED BY <1>4, <3>1, <3>2 DEF Wakes, Checked
  <2>2. CASE i \notin up
    <3>1. radio' = radio
      BY <1>2, <2>2
    <3>2. Steady => external_scan_req_interface = None
      <4> SUFFICES ASSUME Steady, external_scan_req_interface # None PROVE FALSE
        OBVIOUS
      <4>1. "extscan" \in env /\ i \notin gone
        BY InvFacts DEF ExtScanInv
      <4>2. "disable" \notin env
        BY <4>1 DEF Steady
      <4>3. up = Ifaces \ gone
        BY <4>2, InvFacts DEF ExtScanInv
      <4> QED BY <1>1, <2>2, <4>1, <4>3
    <3>3. Wakes(radio, external_scan_req_interface)
      BY InvFacts
    <3> QED BY <1>2, <3>1, <3>2, <3>3 DEF Wakes
  <2> QED BY <2>1, <2>2
<1> QED BY <1>2, <1>5, <1>6, <1>7, <1>8 DEF Step

LEMMA ExtScanStep ==
  ASSUME Inv, NEW i \in Ifaces, ExtScan(i)
  PROVE  Step
<1>1. /\ "extscan" \in env /\ i \in up /\ drvScan = None /\ drvScan' = i
      /\ external_scan_req_interface' = i /\ adds < MaxAdds /\ adds' = adds + 1
      /\ UNCHANGED <<config, radio, up, gone, flags>>
  BY DEF ExtScan
<1>2. adds' \in 0 .. MaxAdds
  <2>1. adds \in 0 .. MaxAdds
    BY InvFacts DEF Others
  <2> QED BY <1>1, <2>1, RadioWorkAssumption
<1>3. Others'
  BY <1>1, <1>2, InvFacts DEF Others, flags
<1>4. ExtScanInv'
  BY <1>1, InvFacts DEF ExtScanInv, config, flags
<1>5. Counted(radio') /\ Refs(radio'.work, scan_work', connect_work')
  BY <1>1, InvFacts DEF flags
<1>6. Wakes(radio', external_scan_req_interface')
  <2>1. i # None
    BY RadioWorkAssumption
  <2>2. Wakes(radio, external_scan_req_interface)
    BY InvFacts
  <2>3. external_scan_req_interface = None
    BY <1>1, InvFacts DEF ExtScanInv
  <2> QED BY <1>1, <2>1, <2>2, <2>3 DEF Wakes
<1> QED BY <1>1, <1>3, <1>4, <1>5, <1>6 DEF Step

----------------------------------------------------------------------------
(* Works are removed.                                                          *)

\* The works of interface i with one of the types are taken out of radio r, which
\* has some of the works of the queue.
LEMMA RemoveIs ==
  ASSUME Inv, NEW i \in Ifaces, NEW types \in SUBSET Types, NEW r, Counted(r),
         \A j \in DOMAIN r.work : \E k \in DOMAIN radio.work : r.work[j] = radio.work[k]
  PROVE  LET d == RemoveWorks(r, i, WorksOf(i, types), ext_work_in_progress)
         IN /\ Counted(d)
            /\ \A e : Wakes(d, e)
            /\ \A j, t : Has(d.work, j, t) <=> Has(r.work, j, t) /\ ~(j = i /\ t \in types)
<1> DEFINE W == WorksOf(i, types)
           ext == ext_work_in_progress
           d == RemoveWorks(r, i, W, ext)
           q == r.work
<1>1. \A k \in DOMAIN q : q[k] \in W <=> q[k].i = i /\ q[k].type \in types
  BY DEF WorksOf, Queue, Range
<1> HIDE DEF W
<1>2. Taken(d, r, W) /\ (d.work # <<>> /\ i \notin ext => d.timer = TRUE)
  BY RemoveWorksIs
<1> HIDE DEF d
<1>3. Counted(d)
  BY <1>2 DEF Taken
<1>4. ASSUME NEW e PROVE Wakes(d, e)
  BY <1>2, InvFacts DEF Wakes
<1>5. ASSUME NEW j, NEW t
      PROVE  Has(d.work, j, t) <=> Has(q, j, t) /\ ~(j = i /\ t \in types)
  <2>1. Has(d.work, j, t) <=> \E m \in DOMAIN q : /\ q[m] \notin W /\ q[m].started
                                                /\ q[m].i = j /\ q[m].type = t
    BY <1>2 DEF Taken
  <2> QED BY <1>1, <2>1 DEF Has, Act
<1> QED BY <1>3, <1>4, <1>5 DEF d, W

\* The references that DeinitWorks leaves.
LEMMA DeinitIs ==
  ASSUME Inv, NEW S \in SUBSET Ifaces, DeinitWorks(S)
  PROVE  scan_work' = scan_work \ S /\ connect_work' = connect_work \ S
<1>1. \A i \in S : i \in scan_work => StartedOf(i, "scan") # {}
  BY HasIs
<1>2. \A i \in S : i \in connect_work => StartedOf(i, "connect") # {}
  BY HasIs
<1> QED BY <1>1, <1>2 DEF DeinitWorks

LEMMA DisabledStep ==
  ASSUME Inv, NEW i \in Ifaces, InterfaceDisabled(i)
  PROVE  Step
<1>1. /\ "disable" \in env /\ up' = up \ {i} /\ DeinitWorks({i})
      /\ radio' = RemoveWorks(radio, i, WorksOf(i, Types), ext_work_in_progress)
      /\ UNCHANGED <<config, gone, ext_work_in_progress, external_scan_req_interface,
                     drvScan, adds>>
  BY DEF InterfaceDisabled
<1>2. scan_work' = scan_work \ {i} /\ connect_work' = connect_work \ {i}
  BY <1>1, DeinitIs
<1>3. /\ Counted(radio') /\ Wakes(radio', external_scan_req_interface')
      /\ \A j, t : Has(radio'.work, j, t) <=> Has(radio.work, j, t) /\ ~(j = i /\ t \in Types)
  BY <1>1, InvFacts, RemoveIs
<1>4. Others'
  BY <1>1, <1>2, InvFacts DEF Others
<1>5. ExtScanInv'
  BY <1>1, InvFacts DEF ExtScanInv, config
<1>6. Refs(radio'.work, scan_work', connect_work')
  BY <1>2, <1>3, InvFacts DEF Refs, Types
<1> QED BY <1>1, <1>3, <1>4, <1>5, <1>6 DEF Step

LEMMA EnabledStep ==
  ASSUME Inv, NEW i \in Ifaces, InterfaceEnabled(i)
  PROVE  Step
<1>1. /\ i \notin up \cup gone /\ up' = up \cup {i}
      /\ UNCHANGED <<config, radio, gone, flags, external_scan_req_interface, drvScan, adds>>
  BY DEF InterfaceEnabled
<1>2. Others'
  BY <1>1, InvFacts DEF Others, flags
<1>3. ExtScanInv'
  BY <1>1, InvFacts DEF ExtScanInv, config, flags
<1>4. Counted(radio') /\ Refs(radio'.work, scan_work', connect_work')
      /\ Wakes(radio', external_scan_req_interface')
  BY <1>1, InvFacts DEF flags
<1> QED BY <1>1, <1>2, <1>3, <1>4 DEF Step

LEMMA DisconnectionStep ==
  ASSUME Inv, NEW i \in Ifaces, RequestDisconnection(i)
  PROVE  Step
<1>1. /\ connect_work' = connect_work \ {i}
      /\ radio' = RemoveWorks(radio, i, WorksOf(i, {"connect"}), ext_work_in_progress)
      /\ UNCHANGED <<config, up, gone, scan_work, ext_work_in_progress,
                     external_scan_req_interface, drvScan, adds>>
  BY DEF RequestDisconnection
<1>2. {"connect"} \in SUBSET Types
  BY DEF Types
<1>3. /\ Counted(radio') /\ Wakes(radio', external_scan_req_interface')
      /\ \A j, t : Has(radio'.work, j, t)
                     <=> Has(radio.work, j, t) /\ ~(j = i /\ t \in {"connect"})
  BY <1>1, <1>2, InvFacts, RemoveIs
<1>4. Others' /\ ExtScanInv'
  BY <1>1, InvFacts DEF Others, ExtScanInv, config
<1>5. Refs(radio'.work, scan_work', connect_work')
  BY <1>1, <1>3, InvFacts DEF Refs
<1> QED BY <1>1, <1>3, <1>4, <1>5 DEF Step

LEMMA FlushStep ==
  ASSUME Inv, NEW i \in Ifaces, Flush(i)
  PROVE  Step
<1> DEFINE W == Range(Queue)
<1>1. /\ DeinitWorks(Ifaces)
      /\ radio' = RemoveWorks(radio, i, W, ext_work_in_progress)
      /\ ext_work_in_progress' = ext_work_in_progress \ {i}
      /\ UNCHANGED <<config, up, gone, external_scan_req_interface, drvScan, adds>>
  BY DEF Flush
<1>2. scan_work' = {} /\ connect_work' = {}
  BY <1>1, InvFacts, DeinitIs DEF Others
<1>3. \A k \in DOMAIN radio.work : radio.work[k] \in W
  BY DEF Range, Queue
<1> HIDE DEF W
<1>4. Taken(radio', radio, W)
  BY <1>1, InvFacts, RemoveWorksIs
<1>5. Counted(radio') /\ radio'.work \in Seq(Works)
  BY <1>4 DEF Taken, Counted, Radios
<1>6. DOMAIN radio'.work = {}
  BY <1>3, <1>4 DEF Taken
<1>7. radio'.work = <<>>
  <2> DEFINE q == radio'.work
  <2>0. q \in Seq(Works) /\ DOMAIN q = {}
    BY <1>5, <1>6
  <2> HIDE DEF q
  <2>1. Len(q) \in Nat /\ DOMAIN q = 1 .. Len(q)
    BY <2>0, DomainFinite
  <2>2. Len(q) = 0
    <3>1. ~(1 \in 1 .. Len(q))
      BY <2>0, <2>1
    <3> QED BY <2>1, <3>1
  <2> QED BY <2>0, <2>2 DEF q
<1>8. Others'
  BY <1>1, <1>2, InvFacts DEF Others
<1>9. ExtScanInv'
  BY <1>1, InvFacts DEF ExtScanInv, config
<1>10. Refs(radio'.work, scan_work', connect_work')
  BY <1>2, <1>6 DEF Refs, Has, Act
<1>11. Wakes(radio', external_scan_req_interface')
  BY <1>7 DEF Wakes
<1> QED BY <1>1, <1>5, <1>8, <1>9, <1>10, <1>11 DEF Step

LEMMA FlushExtIs ==
  ASSUME Inv, NEW ext
  PROVE  LET f == FlushExt(radio, ext)
         IN /\ Counted(f)
            /\ \A j \in DOMAIN f.work : \E k \in DOMAIN radio.work : f.work[j] = radio.work[k]
            /\ \A j, t : t # "ext" => (Has(f.work, j, t) <=> Has(radio.work, j, t))
<1> DEFINE q == radio.work
           E == {k \in DOMAIN q : q[k].type = "ext"}
           W == {q[k] : k \in E}
           d == TakeOut(radio, W)
           b == d.timer \/ \E k \in E : /\ q[k].started /\ q[k].i \notin ext
                                        /\ d.work # <<>> \/ \E m \in E : m > k
           f == [d EXCEPT !.timer = b]
<1>1. FlushExt(radio, ext) = f
  BY DEF FlushExt
<1>2. \A k \in DOMAIN q : q[k] \in W <=> q[k].type = "ext"
  OBVIOUS
<1> HIDE DEF W
<1>3. Taken(d, radio, W)
  BY InvFacts, TakeOutIs
<1>4. d \in Radios /\ Counted(d)
  BY <1>3 DEF Taken, Counted
<1> HIDE DEF d
<1>5. b \in BOOLEAN
  OBVIOUS
<1> HIDE DEF b
<1>6. f \in Radios /\ f.work = d.work /\ f.num_active_works = d.num_active_works
  BY <1>4, <1>5 DEF Radios
<1> HIDE DEF f
<1>7. Counted(f)
  BY <1>4, <1>6 DEF Counted
<1>8. ASSUME NEW j, NEW t, t # "ext" PROVE Has(d.work, j, t) <=> Has(q, j, t)
  <2>1. Has(d.work, j, t) <=> \E m \in DOMAIN q : /\ q[m] \notin W /\ q[m].started
                                                /\ q[m].i = j /\ q[m].type = t
    BY <1>3 DEF Taken
  <2> QED BY <1>2, <1>8, <2>1 DEF Has, Act
<1>9. \A j \in DOMAIN d.work : \E k \in DOMAIN q : d.work[j] = q[k]
  BY <1>3 DEF Taken
<1> QED BY <1>1, <1>6, <1>7, <1>8, <1>9

LEMMA RemoveInterfaceStep ==
  ASSUME Inv, NEW i \in Ifaces, RemoveInterface(i)
  PROVE  Step
<1> DEFINE f == FlushExt(radio, ext_work_in_progress)
<1>1. /\ up' = up \ {i} /\ gone' = gone \cup {i} /\ DeinitWorks({i})
      /\ radio' = RemoveWorks(f, i, WorksOf(i, Types), ext_work_in_progress)
      /\ external_scan_req_interface' = IF external_scan_req_interface = i THEN None
                                        ELSE external_scan_req_interface
      /\ drvScan' = IF drvScan = i THEN None ELSE drvScan
      /\ UNCHANGED <<config, ext_work_in_progress, adds>>
  BY DEF RemoveInterface
<1>2. scan_work' = scan_work \ {i} /\ connect_work' = connect_work \ {i}
  BY <1>1, DeinitIs
<1>3. /\ Counted(f)
      /\ \A j \in DOMAIN f.work : \E k \in DOMAIN radio.work : f.work[j] = radio.work[k]
      /\ \A j, t : t # "ext" => (Has(f.work, j, t) <=> Has(radio.work, j, t))
  BY FlushExtIs
<1> HIDE DEF f
<1>4. /\ Counted(radio') /\ Wakes(radio', external_scan_req_interface')
      /\ \A j, t : Has(radio'.work, j, t) <=> Has(f.work, j, t) /\ ~(j = i /\ t \in Types)
  BY <1>1, <1>3, RemoveIs
<1>5. Others'
  BY <1>1, <1>2, InvFacts DEF Others
<1>6. ExtScanInv'
  BY <1>1, InvFacts DEF ExtScanInv, config
<1>7. Refs(radio'.work, scan_work', connect_work')
  BY <1>2, <1>3, <1>4, InvFacts DEF Refs, Types
<1> QED BY <1>1, <1>4, <1>5, <1>6, <1>7 DEF Step

----------------------------------------------------------------------------
(* The theorems.                                                               *)

LEMMA InitInv ==
  ASSUME Init
  PROVE  Inv
<1>1. Act(<<>>) = {} /\ <<>> \in Seq(Works) /\ DOMAIN <<>> = {} /\ Len(<<>>) = 0
  BY DEF Act
<1>2. Cardinality({}) = 0
  BY FS_EmptySet
<1>3. MaxActive \in Nat /\ MaxQueue \in Nat /\ MaxAdds \in Nat
  BY RadioWorkAssumption
<1>4. /\ radio.work = <<>> /\ radio.num_active_works = 0 /\ radio.timer = FALSE
      /\ radio \in Radios
  BY <1>1 DEF Init, Radios
<1>5. Counted(radio)
  BY <1>1, <1>2, <1>3, <1>4 DEF Counted, Tidy, Unique, Exclusive, NoExt
<1>6. Refs(Queue, scan_work, connect_work)
  BY <1>1, <1>4 DEF Refs, Has, Init, Queue
<1>7. ExtScanInv /\ NoStall
  BY <1>4 DEF Init, ExtScanInv, NoStall, RadioFree, Queue
<1>8. TypeOK
  BY <1>1, <1>3 DEF Init, TypeOK
<1> QED BY <1>5, <1>6, <1>7, <1>8 DEF Inv

LEMMA NextInv ==
  ASSUME Inv, [Next]_vars
  PROVE  Inv'
<1>1. ASSUME StartNextWork PROVE Step
  BY <1>1, NothingStep, StartScanStep, StartConnectStep, StartGasStep, StartExtStep
     DEF StartNextWork
<1>2. ASSUME Finish PROVE Step
  BY <1>2, ScanResultsStep, ConnectDoneStep, GasDoneStep, ExtEndStep DEF Finish
<1>3. ASSUME NEW i \in Ifaces,
             \/ TriggerScan(i) \/ Connect(i) \/ (\E b \in {"2.4", "5"} : GasQuery(i, b))
             \/ ExtAdd(i) \/ ExtScan(i) \/ ExtDone(i)
      PROVE  Step
  BY <1>3, AddsStep, ConnectStep, ExtScanStep, ExtEndStep
<1>4. ASSUME NEW i \in Ifaces,
             \/ InterfaceDisabled(i) \/ InterfaceEnabled(i) \/ RequestDisconnection(i)
             \/ Flush(i) \/ RemoveInterface(i)
      PROVE  Step
  BY <1>4, DisabledStep, EnabledStep, DisconnectionStep, FlushStep, RemoveInterfaceStep
<1>5. ASSUME UNCHANGED vars PROVE Step
  <2>1. UNCHANGED <<config, radio, up, gone, flags, external_scan_req_interface, drvScan, adds>>
    BY <1>5 DEF vars
  <2>2. Others' /\ ExtScanInv'
    BY <2>1, InvFacts DEF Others, ExtScanInv, config, flags
  <2>3. Counted(radio') /\ Refs(radio'.work, scan_work', connect_work')
        /\ Wakes(radio', external_scan_req_interface')
    BY <2>1, InvFacts DEF flags
  <2> QED BY <2>1, <2>2, <2>3 DEF Step
<1>6. Step
  BY <1>1, <1>2, <1>3, <1>4, <1>5 DEF Next
<1> QED BY <1>6, StepInv

LEMMA InvAlways == Spec => []Inv
<1>1. Init => Inv
  BY InitInv
<1>2. Inv /\ [Next]_vars => Inv'
  BY NextInv
<1> QED BY <1>1, <1>2, PTL DEF Spec

\* The radio, the references to works and the driver's state keep their types,
\* and the queue and the count their bounds, whatever ends or removes works.
THEOREM TypeCorrect == Spec => []TypeOK
<1>1. Inv => TypeOK
  BY DEF Inv
<1> QED BY <1>1, InvAlways, PTL

\* num_active_works is the number of works in progress, for any number of
\* interfaces and works and whichever way works end or are removed.
THEOREM CountCorrect == Spec => []ActiveCount
<1>1. Inv => ActiveCount
  <2> SUFFICES ASSUME Inv PROVE ActiveCount
    OBVIOUS
  <2> QED BY InvFacts DEF ActiveCount, Counted
<1> QED BY <1>1, InvAlways, PTL

\* Each interface refers to its scan and its connection attempt in progress, of
\* which there is at most one, and to no work that was freed.
THEOREM PointersCorrect == Spec => []WorkPointers
<1>1. ASSUME Inv, NEW i \in Ifaces, NEW type \in {"scan", "connect"},
             NEW S, S = StartedOf(i, type)
      PROVE  Cardinality(S) = IF Has(radio.work, i, type) THEN 1 ELSE 0
  <2> DEFINE q == radio.work
  <2>1. S = {k \in DOMAIN q : q[k].started /\ q[k].i = i /\ q[k].type = type}
    BY <1>1, HasIs
  <2>2. Has(q, i, type) <=> S # {}
    BY <1>1, HasIs
  <2>3. Unique(q)
    BY <1>1, InvFacts DEF Counted, Tidy
  <2>4. \A k, m \in S : k = m
    BY <2>1, <2>3 DEF Unique
  <2>5. CASE S = {}
    BY <2>2, <2>5, FS_EmptySet
  <2>6. CASE S # {}
    <3>1. PICK k : S = {k}
      BY <2>4, <2>6
    <3> QED BY <2>2, <2>6, <3>1, FS_Singleton
  <2> QED BY <2>5, <2>6
<1>2. Inv => WorkPointers
  <2> SUFFICES ASSUME Inv, NEW i \in Ifaces
               PROVE  /\ Cardinality(StartedOf(i, "scan")) = IF i \in scan_work THEN 1 ELSE 0
                      /\ Cardinality(StartedOf(i, "connect"))
                           = IF i \in connect_work THEN 1 ELSE 0
    BY DEF WorkPointers
  <2>1. /\ i \in scan_work <=> Has(radio.work, i, "scan")
        /\ i \in connect_work <=> Has(radio.work, i, "connect")
    BY HasIs
  <2> QED BY <1>1, <2>1
<1> QED BY <1>2, InvAlways, PTL

\* The driver is given nothing next to a connection attempt and at most MaxActive
\* works if it can do two things at a time, and otherwise at most one work that is
\* not a connection attempt.
THEOREM SharingCorrect == Spec => []RadioShared
<1>1. Inv => RadioShared
  <2> SUFFICES ASSUME Inv PROVE RadioShared
    OBVIOUS
  <2> DEFINE q == radio.work
             T == {k \in Started : Queue[k].type # "connect"}
  <2>1. Counted(radio) /\ Exclusive(q) /\ Queue = q /\ Started = Act(q) /\ q \in Seq(Works)
    BY InvFacts DEF Counted, Tidy
  <2>2. ASSUME sim
        PROVE  /\ Cardinality(Started) <= MaxActive
               /\ \A k \in Started : Queue[k].type = "connect" => Started = {k}
    <3>1. Cardinality(Started) <= MaxActive
      BY <2>1, <2>2 DEF Counted
    <3>2. ASSUME NEW k \in Started, Queue[k].type = "connect" PROVE Started = {k}
      BY <2>1, <2>2, <3>2 DEF Exclusive
    <3> QED BY <3>1, <3>2
  <2>3. ASSUME ~sim PROVE Cardinality(T) <= 1
    <3>1. ASSUME NEW k \in T, NEW m \in T PROVE k = m
      <4>1. k \in DOMAIN q /\ m \in DOMAIN q /\ k \in Nat /\ m \in Nat
        BY <2>1 DEF Act
      <4>2. ~(k < m) /\ ~(m < k)
        BY <2>1, <2>3, <4>1 DEF Exclusive
      <4> QED BY ONLY <4>1, <4>2
    <3>2. CASE T = {}
      <4>1. Cardinality(T) = 0
        BY <3>2, FS_EmptySet
      <4> QED BY <4>1
    <3>3. CASE T # {}
      <4>1. PICK k : T = {k}
        BY <3>1, <3>3
      <4>2. Cardinality(T) = 1
        BY <4>1, FS_Singleton
      <4> QED BY <4>2
    <3> QED BY <3>2, <3>3
  <2> QED BY <2>2, <2>3 DEF RadioShared
<1> QED BY <1>1, InvAlways, PTL

\* In a steady environment, a queue with works of which none is in progress has
\* the start of the next one scheduled, for any number of interfaces and works.
THEOREM NeverStalls == Spec => []NoStall
<1>1. Inv => NoStall
  BY DEF Inv
<1> QED BY <1>1, InvAlways, PTL
=============================================================================
