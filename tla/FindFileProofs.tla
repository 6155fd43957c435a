---------------------------- MODULE FindFileProofs ----------------------------
(* What the search of the build script finds, for every file system, every *)
(* number of directories and every depth.                                  *)
EXTENDS FindFile, TLAPS, WellFoundedInduction, SequenceTheorems

-----------------------------------------------------------------------------
(* Induction over the depth, by sets of numbers.                           *)

LEMMA LeastNumber ==
  ASSUME NEW T \in SUBSET Nat, T # {}
  PROVE  \E x \in T : \A y \in T : x <= y
<1> DEFINE R == OpToRel(<, Nat)
<1>1. PICK x \in T : \A y \in T : ~(<<y, x>> \in R)
  <2>1. IsWellFoundedOn(R, Nat)
    BY NatLessThanWellFounded
  <2> HIDE DEF R
  <2> QED
    BY <2>1, WFMin
<1>2. \A y \in T : ~(y < x)
  BY <1>1 DEF OpToRel
<1> QED
  BY <1>2

LEMMA EveryNumber ==
  ASSUME NEW S, 0 \in S, \A n \in Nat : n \in S => n + 1 \in S
  PROVE  Nat \subseteq S
<1> SUFFICES ASSUME Nat \ S # {}
             PROVE  FALSE
  OBVIOUS
<1>1. PICK x \in Nat \ S : \A y \in Nat \ S : x <= y
  BY LeastNumber
<1>2. x - 1 \in Nat /\ ~(x <= x - 1)
  BY <1>1
<1>3. x - 1 \in S /\ (x - 1) + 1 = x
  BY <1>1, <1>2
<1> QED
  BY <1>1, <1>2, <1>3

-----------------------------------------------------------------------------
(* The recursion is well defined.                                          *)

Deeper(w, n) == [d \in Dirs |-> IF n = 0 THEN NotFound ELSE WayFrom(d, w[n - 1])]

LEMMA WaysDefined == Ways = [n \in 0 .. Depth |-> Deeper(Ways, n)]
<1> DEFINE Good == {m \in Nat : \E w : w = [n \in 0 .. m |-> Deeper(w, n)]}
<1>1. 0 \in Good
  <2> DEFINE w == [n \in 0 .. 0 |-> [d \in Dirs |-> NotFound]]
  <2>1. \A n \in 0 .. 0 : w[n] = Deeper(w, n)
    BY DEF Deeper
  <2>2. w = [n \in 0 .. 0 |-> Deeper(w, n)]
    BY <2>1
  <2> QED
    BY <2>2
<1>2. ASSUME NEW m \in Nat, m \in Good
      PROVE  m + 1 \in Good
  <2>1. PICK w : w = [n \in 0 .. m |-> Deeper(w, n)]
    BY <1>2
  <2> DEFINE v == [n \in 0 .. m + 1 |-> IF n <= m THEN w[n] ELSE Deeper(w, n)]
  <2>2. ASSUME NEW n \in 0 .. m + 1
        PROVE  v[n] = Deeper(v, n)
    <3>1. v[n] = Deeper(w, n)
      BY <2>1
    <3>2. n = 0 \/ (n - 1 \in 0 .. m + 1 /\ n - 1 <= m)
      OBVIOUS
    <3>3. n = 0 \/ v[n - 1] = w[n - 1]
      BY <3>2
    <3> HIDE DEF v
    <3> QED
      BY <3>1, <3>3 DEF Deeper
  <2>3. v = [n \in 0 .. m + 1 |-> Deeper(v, n)]
    BY <2>2
  <2> HIDE DEF v
  <2> QED
    BY <2>3
<1>3. \A m \in Nat : m \in Good
  <2> HIDE DEF Good
  <2> QED
    BY <1>1, <1>2, EveryNumber
<1>4. \E w : w = [n \in 0 .. Depth |-> Deeper(w, n)]
  BY <1>3, FindFileAssumption
<1> QED
  BY <1>4 DEF Ways, Deeper

LEMMA WaysStep ==
  ASSUME NEW d \in Dirs
  PROVE  /\ Ways[0][d] = NotFound
         /\ \A n \in 0 .. Depth - 1 : Ways[n + 1][d] = WayFrom(d, Ways[n])
<1>1. \A n \in 0 .. Depth : Ways[n] = Deeper(Ways, n)
  BY WaysDefined
<1>2. Ways[0][d] = NotFound
  <2>1. 0 \in 0 .. Depth
    BY FindFileAssumption
  <2>2. Ways[0] = Deeper(Ways, 0)
    BY <1>1, <2>1
  <2> QED
    BY <2>2 DEF Deeper
<1>3. ASSUME NEW n \in 0 .. Depth - 1
      PROVE  Ways[n + 1][d] = WayFrom(d, Ways[n])
  <2>1. n + 1 \in 0 .. Depth /\ n + 1 # 0 /\ (n + 1) - 1 = n
    BY FindFileAssumption
  <2>2. Ways[n + 1] = Deeper(Ways, n + 1)
    BY <1>1, <2>1
  <2> QED
    BY <2>1, <2>2 DEF Deeper
<1> QED
  BY <1>2, <1>3

-----------------------------------------------------------------------------
(* The listings.                                                           *)

LEMMA ListingType ==
  ASSUME subdirs \in [Dirs -> Seq(Dirs)], NEW d \in Dirs
  PROVE  /\ Len(subdirs[d]) \in Nat
         /\ \A i \in 1 .. Len(subdirs[d]) : subdirs[d][i] \in Dirs
         /\ Listed(d) \subseteq Dirs
<1>1. subdirs[d] \in Seq(Dirs)
  OBVIOUS
<1> QED
  BY <1>1, LenProperties, ElementOfSeq DEF Listed

(* The first entry that leads to the archive is listed before any other    *)
(* directory that does.                                                    *)
LEMMA FirstIsEarliest ==
  ASSUME subdirs \in [Dirs -> Seq(Dirs)], NEW d \in Dirs, NEW ways, Leading(d, ways) # {}
  PROVE  /\ First(d, ways) \in Listed(d) /\ ways[First(d, ways)] # NotFound
         /\ \A s \in Listed(d) :
              ways[s] # NotFound /\ s # First(d, ways) => Earlier(d, First(d, ways), s)
<1> DEFINE m == Min(Leading(d, ways))
<1>1. Leading(d, ways) \subseteq 1 .. Len(subdirs[d]) /\ Len(subdirs[d]) \in Nat
  BY ListingType DEF Leading
<1>2. m \in Leading(d, ways) /\ \A i \in Leading(d, ways) : m <= i
  <2>1. Leading(d, ways) \in SUBSET Nat
    BY <1>1
  <2>2. \E x \in Leading(d, ways) : \A y \in Leading(d, ways) : x <= y
    BY <2>1, LeastNumber
  <2> QED
    BY <2>2 DEF Min
<1>3. First(d, ways) = subdirs[d][m]
  BY DEF First
<1> HIDE DEF m
<1>4. m \in 1 .. Len(subdirs[d]) /\ ways[subdirs[d][m]] # NotFound
  BY <1>2 DEF Leading
<1>5. ASSUME NEW s \in Listed(d), ways[s] # NotFound, s # subdirs[d][m]
      PROVE  Earlier(d, subdirs[d][m], s)
  <2>1. ASSUME NEW j \in 1 .. m, subdirs[d][j] = s
        PROVE  FALSE
    <3>1. j \in 1 .. Len(subdirs[d])
      BY <1>1, <1>4
    <3>2. j \in Leading(d, ways)
      BY <1>5, <2>1, <3>1 DEF Leading
    <3>3. j = m
      BY <1>1, <1>2, <3>1, <3>2
    <3> QED
      BY <1>5, <2>1, <3>3
  <2> QED
    BY <1>4, <2>1 DEF Earlier
<1> QED
  BY <1>3, <1>4, <1>5 DEF Listed

-----------------------------------------------------------------------------
(* Ways to an archive of at most n directories.                            *)

PathsTo(d, n) ==
  {p \in Seq(Dirs) :
     /\ Len(p) \in 1 .. n /\ p[1] = d
     /\ \A i \in 1 .. Len(p) - 1 : p[i + 1] \in Listed(p[i])}

HitsTo(d, n) ==
  {p \in PathsTo(d, n) : \A i \in 1 .. Len(p) : p[i] \in holds <=> i = Len(p)}

LEMMA HitsAtDepth ==
  ASSUME NEW d
  PROVE  HitsTo(d, Depth) = Hits(d)
<1>1. ASSUME NEW p \in Seq(Dirs), Len(p) \in 1 .. Depth
      PROVE  p \in UNION {[1 .. n -> Dirs] : n \in 1 .. Depth}
  BY <1>1, SeqDef, LenProperties
<1>2. ASSUME NEW p \in UNION {[1 .. n -> Dirs] : n \in 1 .. Depth}
      PROVE  p \in Seq(Dirs) /\ Len(p) \in 1 .. Depth
  <2>1. PICK n \in 1 .. Depth : p \in [1 .. n -> Dirs]
    BY <1>2
  <2>2. n \in Nat
    BY FindFileAssumption
  <2>3. p \in Seq(Dirs) /\ Len(p) = n
    BY <2>1, <2>2, IsASeq, LenProperties
  <2> QED
    BY <2>3
<1>3. PathsTo(d, Depth) = Paths(d)
  BY <1>1, <1>2 DEF PathsTo, Paths
<1> QED
  BY <1>3 DEF HitsTo, Hits

LEMMA Down ==
  ASSUME NEW d \in Dirs, NEW q \in Seq(Dirs)
  PROVE  /\ <<d>> \o q \in Seq(Dirs)
         /\ Len(<<d>> \o q) = Len(q) + 1
         /\ (<<d>> \o q)[1] = d
         /\ \A i \in 1 .. Len(q) : (<<d>> \o q)[i + 1] = q[i]
OBVIOUS

LEMMA NoHits == \A d : HitsTo(d, 0) = {}
BY DEF HitsTo, PathsTo

LEMMA HitHere ==
  ASSUME NEW d \in Dirs, d \in holds, NEW n \in Nat
  PROVE  HitsTo(d, n + 1) = {<<d>>}
<1>1. <<d>> \in HitsTo(d, n + 1)
  BY DEF HitsTo, PathsTo
<1>2. ASSUME NEW p \in HitsTo(d, n + 1)
      PROVE  p = <<d>>
  <2>1. p \in Seq(Dirs) /\ Len(p) \in Nat /\ Len(p) >= 1 /\ p[1] = d
    BY <1>2, LenProperties DEF HitsTo, PathsTo
  <2>2. Len(p) = 1
    BY <1>2, <2>1 DEF HitsTo
  <2> QED
    BY <2>1, <2>2
<1> QED
  BY <1>1, <1>2

LEMMA HitBelow ==
  ASSUME NEW d \in Dirs, d \notin holds, subdirs \in [Dirs -> Seq(Dirs)],
         NEW n \in Nat, NEW s \in Listed(d), NEW q \in HitsTo(s, n)
  PROVE  <<d>> \o q \in HitsTo(d, n + 1)
<1> DEFINE p == <<d>> \o q
<1>1. /\ q \in Seq(Dirs) /\ Len(q) \in Nat /\ Len(q) \in 1 .. n /\ q[1] = s
      /\ \A i \in 1 .. Len(q) - 1 : q[i + 1] \in Listed(q[i])
      /\ \A i \in 1 .. Len(q) : q[i] \in holds <=> i = Len(q)
  BY LenProperties DEF HitsTo, PathsTo
<1>2. /\ p \in Seq(Dirs) /\ Len(p) = Len(q) + 1 /\ p[1] = d
      /\ \A i \in 1 .. Len(q) : p[i + 1] = q[i]
  BY <1>1, Down
<1> HIDE DEF p
<1>3. ASSUME NEW i \in 1 .. Len(p), i # 1
      PROVE  i - 1 \in 1 .. Len(q) /\ p[i] = q[i - 1]
  <2>1. i - 1 \in 1 .. Len(q) /\ (i - 1) + 1 = i
    BY <1>1, <1>2, <1>3
  <2>2. p[(i - 1) + 1] = q[i - 1]
    BY <1>2, <2>1
  <2> QED
    BY <2>1, <2>2
<1>4. ASSUME NEW i \in 1 .. Len(p) - 1
      PROVE  p[i + 1] \in Listed(p[i])
  <2>1. i \in 1 .. Len(q) /\ p[i + 1] = q[i]
    BY <1>1, <1>2
  <2>2. CASE i = 1
    BY <1>1, <1>2, <2>1, <2>2
  <2>3. CASE i # 1
    <3>1. i - 1 \in 1 .. Len(q) - 1 /\ (i - 1) + 1 = i
      BY <1>1, <1>2, <2>1, <2>3
    <3>2. i \in 1 .. Len(p)
      BY <1>1, <1>2
    <3>3. p[i] = q[i - 1]
      BY <1>3, <2>3, <3>2
    <3>4. q[(i - 1) + 1] \in Listed(q[i - 1])
      BY <1>1, <3>1
    <3> QED
      BY <2>1, <3>1, <3>3, <3>4
  <2> QED
    BY <2>2, <2>3
<1>5. ASSUME NEW i \in 1 .. Len(p)
      PROVE  p[i] \in holds <=> i = Len(p)
  <2>1. CASE i = 1
    BY <1>1, <1>2, <2>1
  <2>2. CASE i # 1
    <3>1. i - 1 \in 1 .. Len(q) /\ p[i] = q[i - 1] /\ (i = Len(p) <=> i - 1 = Len(q))
      BY <1>1, <1>2, <1>3, <2>2
    <3> QED
      BY <1>1, <3>1
  <2> QED
    BY <2>1, <2>2
<1>6. Len(p) \in 1 .. n + 1
  BY <1>1, <1>2
<1> QED
  BY <1>2, <1>4, <1>5, <1>6 DEF HitsTo, PathsTo, p

LEMMA HitAbove ==
  ASSUME NEW d \in Dirs, d \notin holds, subdirs \in [Dirs -> Seq(Dirs)],
         NEW n \in Nat, NEW p \in HitsTo(d, n + 1)
  PROVE  \E s \in Listed(d) : \E q \in HitsTo(s, n) : p = <<d>> \o q
<1>1. /\ p \in Seq(Dirs) /\ Len(p) \in Nat /\ Len(p) \in 1 .. n + 1 /\ p[1] = d
      /\ \A i \in 1 .. Len(p) - 1 : p[i + 1] \in Listed(p[i])
      /\ \A i \in 1 .. Len(p) : p[i] \in holds <=> i = Len(p)
  BY LenProperties DEF HitsTo, PathsTo
<1>2. Len(p) >= 2
  BY <1>1
<1> DEFINE q == Tail(p)
<1>3. /\ p = <<d>> \o q /\ q \in Seq(Dirs) /\ Len(q) = Len(p) - 1
      /\ \A i \in 1 .. Len(q) : q[i] = p[i + 1]
  BY <1>1, <1>2
<1> HIDE DEF q
<1>4. q[1] = p[2] /\ p[2] \in Listed(d)
  <2>1. 1 \in 1 .. Len(p) - 1 /\ 1 \in 1 .. Len(q) /\ 1 + 1 = 2
    BY <1>1, <1>2, <1>3
  <2> QED
    BY <1>1, <1>3, <2>1
<1>5. ASSUME NEW i \in 1 .. Len(q) - 1
      PROVE  q[i + 1] \in Listed(q[i])
  <2>1. i \in 1 .. Len(q) /\ i + 1 \in 1 .. Len(q) /\ i + 1 \in 1 .. Len(p) - 1
    BY <1>1, <1>3
  <2> QED
    BY <1>1, <1>3, <2>1
<1>6. ASSUME NEW i \in 1 .. Len(q)
      PROVE  q[i] \in holds <=> i = Len(q)
  <2>1. i + 1 \in 1 .. Len(p) /\ (i + 1 = Len(p) <=> i = Len(q))
    BY <1>1, <1>3
  <2> QED
    BY <1>1, <1>3, <2>1
<1>7. Len(q) \in 1 .. n
  BY <1>1, <1>2, <1>3
<1>8. q \in HitsTo(p[2], n)
  BY <1>3, <1>4, <1>5, <1>6, <1>7 DEF HitsTo, PathsTo
<1> QED
  BY <1>3, <1>4, <1>8

-----------------------------------------------------------------------------
(* The order of the listings.                                              *)

LEMMA BeforeBelow ==
  ASSUME NEW d \in Dirs, NEW q \in Seq(Dirs), NEW r \in Seq(Dirs),
         Len(q) >= 1, Len(r) >= 1, Earlier(d, q[1], r[1]) \/ Before(q, r)
  PROVE  Before(<<d>> \o q, <<d>> \o r)
<1> DEFINE p == <<d>> \o q
           o == <<d>> \o r
<1> SUFFICES Before(p, o)
  OBVIOUS
<1>1. Len(q) \in Nat /\ Len(r) \in Nat
  BY LenProperties
<1>2. /\ Len(p) = Len(q) + 1 /\ p[1] = d
      /\ \A k \in 1 .. Len(q) : p[k + 1] = q[k]
      /\ Len(o) = Len(r) + 1 /\ o[1] = d
      /\ \A k \in 1 .. Len(r) : o[k + 1] = r[k]
  BY Down
<1> HIDE DEF p, o
<1>3. CASE Earlier(d, q[1], r[1])
  <2>1. /\ 2 \in (2 .. Len(p)) \cap (2 .. Len(o)) /\ 1 \in 1 .. Len(q) /\ 1 \in 1 .. Len(r)
        /\ 1 + 1 = 2 /\ 2 - 1 = 1
    BY <1>1, <1>2
  <2>2. p[2 - 1] = d /\ p[2] = q[1] /\ o[2] = r[1]
    BY <1>2, <2>1
  <2>3. \A j \in 1 .. 2 - 1 : p[j] = o[j]
    BY <1>2
  <2> QED
    BY <1>3, <2>1, <2>2, <2>3 DEF Before
<1>4. CASE Before(q, r)
  <2>1. PICK i \in (2 .. Len(q)) \cap (2 .. Len(r)) :
          Earlier(q[i - 1], q[i], r[i]) /\ \A j \in 1 .. i - 1 : q[j] = r[j]
    BY <1>4 DEF Before
  <2>2. /\ i + 1 \in (2 .. Len(p)) \cap (2 .. Len(o)) /\ (i + 1) - 1 = i
        /\ i - 1 \in 1 .. Len(q) /\ i \in 1 .. Len(q) /\ i \in 1 .. Len(r) /\ (i - 1) + 1 = i
    BY <1>1, <1>2, <2>1
  <2>3. p[(i + 1) - 1] = q[i - 1] /\ p[i + 1] = q[i] /\ o[i + 1] = r[i]
    BY <1>2, <2>2
  <2>4. ASSUME NEW j \in 1 .. (i + 1) - 1
        PROVE  p[j] = o[j]
    <3>1. CASE j = 1
      BY <1>2, <3>1
    <3>2. CASE j # 1
      <4>1. /\ j - 1 \in 1 .. i - 1 /\ j - 1 \in 1 .. Len(q) /\ j - 1 \in 1 .. Len(r)
            /\ (j - 1) + 1 = j
        BY <1>1, <2>1, <3>2
      <4> QED
        BY <1>2, <2>1, <4>1
    <3> QED
      BY <3>1, <3>2
  <2> QED
    BY <2>1, <2>2, <2>3, <2>4 DEF Before
<1> QED
  BY <1>3, <1>4

LEMMA HitNotEmpty ==
  ASSUME NEW d, NEW n \in Nat, NEW p \in HitsTo(d, n)
  PROVE  p \in Seq(Dirs) /\ Len(p) \in Nat /\ Len(p) >= 1 /\ Len(p) <= n /\ p[1] = d /\ p # NotFound
<1>1. p \in Seq(Dirs) /\ Len(p) \in Nat /\ Len(p) \in 1 .. n /\ p[1] = d
  BY LenProperties DEF HitsTo, PathsTo
<1> QED
  BY <1>1 DEF NotFound

LEMMA FirstFound ==
  ASSUME subdirs \in [Dirs -> Seq(Dirs)], NEW n \in Nat, NEW ways, NEW d \in Dirs,
         \A s \in Dirs : IsFirst(ways[s], HitsTo(s, n))
  PROVE  IsFirst(WayFrom(d, ways), HitsTo(d, n + 1))
<1>1. CASE d \in holds
  BY <1>1, HitHere DEF WayFrom, IsFirst
<1>2. ASSUME NEW s \in Dirs
      PROVE  ways[s] # NotFound <=> HitsTo(s, n) # {}
  BY HitNotEmpty DEF IsFirst
<1>3. CASE d \notin holds /\ Leading(d, ways) = {}
  <2>1. \A s \in Listed(d) : ways[s] = NotFound
    BY <1>3 DEF Leading, Listed
  <2>2. HitsTo(d, n + 1) = {}
    BY <1>2, <1>3, <2>1, ListingType, HitAbove
  <2>3. WayFrom(d, ways) = NotFound
    BY <1>3 DEF WayFrom
  <2> QED
    BY <2>2, <2>3 DEF IsFirst
<1>4. CASE d \notin holds /\ Leading(d, ways) # {}
  <2> DEFINE m == First(d, ways)
             p == <<d>> \o ways[m]
  <2>1. /\ m \in Listed(d) /\ m \in Dirs /\ ways[m] # NotFound
        /\ \A s \in Listed(d) : ways[s] # NotFound /\ s # m => Earlier(d, m, s)
    BY <1>4, FirstIsEarliest, ListingType
  <2>2. WayFrom(d, ways) = p
    BY <1>4 DEF WayFrom
  <2> HIDE DEF m
  <2>4. /\ ways[m] \in HitsTo(m, n)
        /\ \A q \in HitsTo(m, n) \ {ways[m]} : Before(ways[m], q)
    BY <1>2, <2>1 DEF IsFirst
  <2>5. p \in HitsTo(d, n + 1)
    BY <1>4, <2>1, <2>4, HitBelow
  <2>6. ASSUME NEW o \in HitsTo(d, n + 1) \ {p}
        PROVE  Before(p, o)
    <3>1. PICK s \in Listed(d) : \E q \in HitsTo(s, n) : o = <<d>> \o q
      BY <1>4, HitAbove
    <3>2. PICK q \in HitsTo(s, n) : o = <<d>> \o q
      BY <3>1
    <3>3. /\ ways[m] \in Seq(Dirs) /\ Len(ways[m]) >= 1 /\ ways[m][1] = m
          /\ q \in Seq(Dirs) /\ Len(q) >= 1 /\ q[1] = s
      BY <2>4, HitNotEmpty
    <3>4. ways[s] # NotFound
      BY <1>2, ListingType
    <3>5. CASE s = m
      <4>1. q # ways[m]
        BY <2>6, <3>2
      <4>2. Before(ways[m], q)
        BY <2>4, <3>5, <4>1
      <4> QED
        BY <3>2, <3>3, <4>2, BeforeBelow
    <3>6. CASE s # m
      <4>1. Earlier(d, m, s)
        BY <2>1, <3>4, <3>6
      <4> QED
        BY <3>2, <3>3, <4>1, BeforeBelow
    <3> QED
      BY <3>5, <3>6
  <2> QED
    BY <2>2, <2>5, <2>6 DEF IsFirst
<1> QED
  BY <1>1, <1>3, <1>4

(* find_file is right for every directory and at every depth.              *)
LEMMA WaysFirst ==
  ASSUME subdirs \in [Dirs -> Seq(Dirs)]
  PROVE  \A n \in 0 .. Depth : \A d \in Dirs : IsFirst(Ways[n][d], HitsTo(d, n))
<1> DEFINE Right(n) == \A d \in Dirs : IsFirst(Ways[n][d], HitsTo(d, n))
           S == {n \in Nat : n \in 0 .. Depth => Right(n)}
<1>1. 0 \in S
  BY WaysStep, NoHits DEF IsFirst
<1>2. ASSUME NEW n \in Nat, n \in S, n + 1 \in 0 .. Depth
      PROVE  Right(n + 1)
  <2>1. n \in 0 .. Depth /\ n \in 0 .. Depth - 1
    BY <1>2, FindFileAssumption
  <2>2. \A s \in Dirs : IsFirst(Ways[n][s], HitsTo(s, n))
    BY <1>2, <2>1
  <2> SUFFICES ASSUME NEW d \in Dirs
               PROVE  IsFirst(Ways[n + 1][d], HitsTo(d, n + 1))
    OBVIOUS
  <2>3. Ways[n + 1][d] = WayFrom(d, Ways[n])
    BY <2>1, WaysStep
  <2> QED
    BY <2>2, <2>3, FirstFound
<1>3. \A n \in Nat : n \in S => n + 1 \in S
  BY <1>2
<1>4. Nat \subseteq S
  <2> HIDE DEF S
  <2> QED
    BY <1>1, <1>3, EveryNumber
<1> QED
  BY <1>4

LEMMA FindFirst ==
  ASSUME subdirs \in [Dirs -> Seq(Dirs)], NEW d \in Dirs
  PROVE  IsFirst(Find(d), Hits(d))
<1>1. Depth \in 0 .. Depth
  BY FindFileAssumption
<1> QED
  BY <1>1, WaysFirst, HitsAtDepth DEF Find

-----------------------------------------------------------------------------
(* The theorems.                                                           *)

LEMMA FindType ==
  ASSUME subdirs \in [Dirs -> Seq(Dirs)], NEW d \in Dirs
  PROVE  Find(d) \in Seq(Dirs) /\ Len(Find(d)) \in Nat /\ Len(Find(d)) <= Depth
<1>1. CASE Find(d) = NotFound
  BY <1>1, FindFileAssumption DEF NotFound
<1>2. CASE Find(d) \in HitsTo(d, Depth)
  BY <1>2, HitNotEmpty, FindFileAssumption
<1> QED
  BY <1>1, <1>2, FindFirst, HitsAtDepth DEF IsFirst

(* BuildTypeOK: no way is longer than the depth, whatever circles the      *)
(* directories form.                                                       *)
THEOREM BuildTypeCorrect == BuildSpec => []BuildTypeOK
<1>1. BuildInit => BuildTypeOK
  BY FindFileAssumption DEF BuildInit, BuildTypeOK, NotFound
<1>2. BuildTypeOK /\ [BuildNext]_buildVars => BuildTypeOK'
  <2> SUFFICES ASSUME BuildTypeOK, [BuildNext]_buildVars
               PROVE  BuildTypeOK'
    OBVIOUS
  <2>1. CASE CheckTarget \/ Warn \/ UNCHANGED buildVars
    BY <2>1 DEF CheckTarget, Warn, BuildTypeOK, buildVars
  <2>2. CASE SearchRoot
    <3>1. Head(roots) \in Dirs /\ Tail(roots) \in Seq(Dirs)
      BY <2>2 DEF SearchRoot, BuildTypeOK
    <3>2. Find(Head(roots)) \in Seq(Dirs) /\ Len(Find(Head(roots))) <= Depth
      BY <3>1, FindType DEF BuildTypeOK
    <3> QED
      BY <2>2, <3>1, <3>2 DEF SearchRoot, BuildTypeOK
  <2> QED
    BY <2>1, <2>2 DEF BuildNext
<1> QED
  BY <1>1, <1>2, PTL DEF BuildSpec

(* FindsTheFirst: what find_file returns is the first of the ways to the   *)
(* archive, and it finds one if there is one.                              *)
THEOREM SearchFindsTheFirst == BuildSpec => []FindsTheFirst
<1>1. BuildTypeOK => FindsTheFirst
  <2> SUFFICES ASSUME BuildTypeOK, roots # <<>>
               PROVE  IsFirst(Find(Head(roots)), Hits(Head(roots)))
    BY DEF FindsTheFirst
  <2>1. Head(roots) \in Dirs
    BY DEF BuildTypeOK
  <2> QED
    BY <2>1, FindFirst DEF BuildTypeOK
<1> QED
  BY <1>1, BuildTypeCorrect, PTL

(* SearchInOrder: roots are given up, linked and warned about as they must *)
(* be, which is the part of LinksIfThere that speaks of single steps.      *)
THEOREM RootsSearchedInOrder == BuildSpec => SearchInOrder
<1> DEFINE Idle == step \in {"start", "search"} => found = NotFound
           Ordered ==
             /\ roots' # roots => roots' = Tail(roots) /\ Hits(Head(roots)) = {}
             /\ found' # found =>
                  step' = "linked" /\ found' # NotFound /\ IsFirst(found', Hits(Head(roots)))
             /\ step' = "linked" /\ step # "linked" => Hits(Head(roots)) # {}
             /\ step' = "warned" /\ step # "warned" => roots = <<>>
<1>1. BuildTypeOK /\ Idle /\ [BuildNext]_buildVars => [Ordered]_buildVars /\ Idle'
  <2> SUFFICES ASSUME BuildTypeOK, Idle, [BuildNext]_buildVars
               PROVE  [Ordered]_buildVars /\ Idle'
    OBVIOUS
  <2>1. CASE CheckTarget \/ Warn \/ UNCHANGED buildVars
    BY <2>1 DEF CheckTarget, Warn, buildVars
  <2>2. CASE SearchRoot
    <3>1. Head(roots) \in Dirs
      BY <2>2 DEF SearchRoot, BuildTypeOK
    <3>2. /\ found' = NotFound <=> Hits(Head(roots)) = {}
          /\ IsFirst(found', Hits(Head(roots)))
      <4>1. IsFirst(found', Hits(Head(roots)))
        BY <2>2, <3>1, FindFirst DEF SearchRoot, BuildTypeOK
      <4>2. \A p \in Hits(Head(roots)) : p # NotFound
        BY HitsAtDepth, HitNotEmpty, FindFileAssumption
      <4> QED
        BY <4>1, <4>2 DEF IsFirst
    <3> QED
      BY <2>2, <3>2 DEF SearchRoot
  <2> QED
    BY <2>1, <2>2 DEF BuildNext
<1>2. BuildInit => Idle
  BY DEF BuildInit
<1> QED
  BY <1>1, <1>2, BuildTypeCorrect, PTL DEF BuildSpec, SearchInOrder
==============================================================================
