---------------------------- MODULE Decoder_proofs ----------------------------
(***************************************************************************)
(* Proofs about FlacSeek, for files of any number of frames of any sizes,  *)
(* about FlacCue, for albums of any number of tracks, and about            *)
(* ApeVectors, for vectors of any length and halves of any width.          *)
(***************************************************************************)
EXTENDS FlacSeek, FlacCue, ApeVectors, FiniteSetTheorems, WellFoundedInduction, TLAPS

(* The first of a set of numbers: what the inductions below begin with.    *)
Less == {ss \in Nat \X Nat : ss[1] < ss[2]}
LEMMA LessWF == IsWellFoundedOn(Less, Nat)
BY NatLessThanWellFounded DEF OpToRel, Less

LEMMA Least ==
    ASSUME NEW S \in SUBSET Nat, S # {}
    PROVE  \E x \in S : \A y \in S : x <= y
<1>1. PICK x \in S : \A y \in S : ~ (<<y, x>> \in Less)
  BY LessWF, WFMin
<1>2. ASSUME NEW y \in S PROVE x <= y
  <2>1. <<y, x>> \in Nat \X Nat
    OBVIOUS
  <2>2. ~ (<<y, x>>[1] < <<y, x>>[2])
    BY <1>1, <2>1 DEF Less
  <2>3. QED
    BY <2>2
<1>3. QED
  BY <1>2

LEMMA MinIs ==
    ASSUME NEW S \in SUBSET Int, NEW x \in S, \A y \in S : x <= y
    PROVE  Min(S) = x
<1>1. ASSUME NEW z \in S, \A y \in S : z <= y PROVE z = x
  <2>1. z <= x /\ x <= z /\ z \in Int /\ x \in Int
    BY <1>1
  <2>2. QED
    BY <2>1
<1>2. QED
  BY <1>1 DEF Min

LEMMA MaxIs ==
    ASSUME NEW a \in Int, NEW b \in Int
    PROVE  Max({a, b}) = IF a >= b THEN a ELSE b
BY DEF Max

-----------------------------------------------------------------------------
(* Where the k-th frame begins, in the file and in the sound; behind the   *)
(* last one is the end.                                                    *)
Count    == Len(file.frames)
At(k)    == IF k <= Count THEN file.frames[k].at ELSE file.size
First(k) == IF k <= Count THEN file.frames[k].first ELSE Samples(file)

LEMMA Layout ==
    ASSUME file \in Files
    PROVE  /\ Count \in Nat \ {0} /\ First(1) = 0
           /\ metadatalength(file) \in Nat /\ metadatalength(file) <= At(1)
           /\ \A k \in 1 .. Count + 1 : At(k) \in Nat /\ First(k) \in Nat
           /\ \A k \in 1 .. Count :
                LET this == file.frames[k]
                IN  /\ this.at = At(k) /\ this.first = First(k)
                    /\ this.bytes \in Nat \ {0} /\ this.samples \in Nat \ {0}
                    /\ At(k + 1) = At(k) + this.bytes
                    /\ First(k + 1) = First(k) + this.samples
           /\ At(Count + 1) = file.size /\ First(Count + 1) = Samples(file)
<1> DEFINE Frame == [at : Nat, first : Nat, samples : Nat \ {0}, bytes : Nat \ {0}]
<1>1. /\ file.frames \in Seq(Frame) /\ file.frames # <<>>
      /\ file.frames[1].first = 0 /\ metadatalength(file) \in 0 .. file.frames[1].at
      /\ \A k \in DOMAIN file.frames :
            LET this == file.frames[k]
                end  == this.at + this.bytes
            IN  IF k = Len(file.frames) THEN file.size = end
                ELSE /\ file.frames[k + 1].at = end
                     /\ file.frames[k + 1].first = this.first + this.samples
  BY FilesAssumption
<1>2. Count \in Nat \ {0} /\ DOMAIN file.frames = 1 .. Count
  BY <1>1 DEF Count
<1>3. ASSUME NEW k \in 1 .. Count
      PROVE  /\ file.frames[k].at = At(k) /\ file.frames[k].first = First(k)
             /\ At(k) \in Nat /\ First(k) \in Nat
             /\ file.frames[k].bytes \in Nat \ {0} /\ file.frames[k].samples \in Nat \ {0}
  <2>1. file.frames[k] \in Frame
    <3> HIDE DEF Frame
    <3>1. QED
      BY <1>1, <1>2 DEF Count
  <2>2. k <= Count
    BY <1>2
  <2>3. QED
    BY <2>1, <2>2 DEF At, First
<1>4. ~ (Count + 1 <= Count)
  BY <1>2
<1>5. At(Count + 1) = file.size /\ First(Count + 1) = Samples(file)
  BY <1>4 DEF At, First
<1>6. ASSUME NEW k \in 1 .. Count
      PROVE  /\ At(k + 1) = At(k) + file.frames[k].bytes
             /\ First(k + 1) = First(k) + file.frames[k].samples
  <2>1. CASE k = Count
    BY <1>1, <1>2, <1>3, <1>5, <2>1 DEF Samples, Count
  <2>2. CASE k # Count
    <3>1. k + 1 \in 1 .. Count
      BY <1>2, <2>2
    <3>2. k # Len(file.frames)
      BY <2>2 DEF Count
    <3>3. QED
      BY <1>1, <1>2, <1>3, <3>1, <3>2
  <2>3. QED
    BY <2>1, <2>2
<1>7. At(Count + 1) \in Nat /\ First(Count + 1) \in Nat
  <2>1. Count \in 1 .. Count
    BY <1>2
  <2>2. QED
    BY <1>3, <1>6, <2>1
<1>8. First(1) = 0 /\ metadatalength(file) \in Nat /\ metadatalength(file) <= At(1)
  <2>1. 1 \in 1 .. Count
    BY <1>2
  <2>2. /\ file.frames[1].at = At(1) /\ file.frames[1].first = First(1) /\ At(1) \in Nat
    BY <1>3, <2>1
  <2>3. file.frames[1].first = 0 /\ metadatalength(file) \in 0 .. file.frames[1].at
    BY <1>1
  <2>4. metadatalength(file) \in 0 .. At(1)
    BY <2>2, <2>3
  <2>5. QED
    BY <2>2, <2>3, <2>4
<1>9. ASSUME NEW k \in 1 .. Count + 1 PROVE At(k) \in Nat /\ First(k) \in Nat
  BY <1>2, <1>3, <1>7
<1>10. QED
  BY <1>2, <1>3, <1>5, <1>6, <1>8, <1>9

(* The frames are in order.                                                *)
LEMMA Order ==
    ASSUME file \in Files, NEW j \in 1 .. Count + 1, NEW k \in 1 .. Count + 1, j < k
    PROVE  At(j) < At(k) /\ First(j) < First(k)
<1> DEFINE Bad == {n \in Nat : /\ j < n /\ n <= Count + 1
                               /\ ~ (At(j) < At(n) /\ First(j) < First(n))}
<1>1. Count \in Nat \ {0} /\ j \in Nat /\ k \in Nat
  BY Layout
<1>2. SUFFICES ASSUME k \in Bad PROVE FALSE
  BY <1>1
<1>3. PICK n \in Bad : \A m \in Bad : n <= m
  <2>1. Bad \in SUBSET Nat /\ Bad # {}
    BY <1>2
  <2> HIDE DEF Bad
  <2>2. QED
    BY <2>1, Least
<1>4. n \in Nat /\ j < n /\ n <= Count + 1 /\ n - 1 \in 1 .. Count /\ (n - 1) + 1 = n
  BY <1>1, <1>3
<1>5. /\ At(n) = At(n - 1) + file.frames[n - 1].bytes
      /\ First(n) = First(n - 1) + file.frames[n - 1].samples
      /\ file.frames[n - 1].bytes \in Nat \ {0} /\ file.frames[n - 1].samples \in Nat \ {0}
  BY <1>4, Layout
<1>6. /\ At(n - 1) \in Nat /\ First(n - 1) \in Nat /\ At(j) \in Nat /\ First(j) \in Nat
  BY <1>1, <1>4, Layout
<1>7. CASE n - 1 = j
  BY <1>3, <1>5, <1>6, <1>7
<1>8. CASE n - 1 # j
  <2>1. n - 1 \notin Bad /\ n - 1 \in Nat /\ j < n - 1 /\ n - 1 <= Count + 1
    BY <1>1, <1>3, <1>4, <1>8
  <2>2. At(j) < At(n - 1) /\ First(j) < First(n - 1)
    BY <2>1
  <2>3. At(j) < At(n) /\ First(j) < First(n)
    BY <1>5, <1>6, <2>2
  <2>4. QED
    BY <1>3, <2>3
<1>9. QED
  BY <1>7, <1>8

(* Every sample of the sound is in a frame.                                *)
LEMMA FrameOf ==
    ASSUME file \in Files, target \in Nat, target < Samples(file)
    PROVE  \E k \in 1 .. Count : First(k) <= target /\ target < First(k + 1)
<1> DEFINE Later == {k \in Nat : 1 <= k /\ k <= Count + 1 /\ target < First(k)}
<1>1. /\ Count \in Nat \ {0} /\ First(1) = 0 /\ target < First(Count + 1)
      /\ \A k \in 1 .. Count + 1 : First(k) \in Nat
  BY Layout
<1>2. PICK n \in Later : \A k \in Later : n <= k
  <2>1. Count + 1 \in Later /\ Later \in SUBSET Nat
    BY <1>1
  <2> HIDE DEF Later
  <2>2. QED
    BY <2>1, Least
<1>3. n \in Nat /\ n # 1 /\ 1 <= n /\ n <= Count + 1 /\ target < First(n)
  BY <1>1, <1>2
<1>4. n - 1 \notin Later /\ n - 1 \in 1 .. Count /\ (n - 1) + 1 = n
  BY <1>1, <1>2, <1>3
<1>5. First(n - 1) <= target
  <2>1. First(n - 1) \in Nat /\ n - 1 \in Nat /\ 1 <= n - 1 /\ n - 1 <= Count + 1
    BY <1>1, <1>4
  <2>2. QED
    BY <1>4, <2>1
<1>6. QED
  BY <1>3, <1>4, <1>5

(* From a place that is not behind the last header, frame_sync() comes to  *)
(* the next frame.                                                         *)
LEMMA Landing ==
    ASSUME file \in Files, FakesArePassed, NEW p \in Nat, p <= At(Count)
    PROVE  \E m \in 1 .. Count :
              /\ p <= At(m) /\ \A k \in 1 .. m - 1 : At(k) < p
              /\ Probed(p) = {file.frames[m]}
<1> DEFINE Ahead == {k \in Nat : 1 <= k /\ k <= Count /\ p <= At(k)}
<1>1. /\ Count \in Nat \ {0} /\ \A k \in 1 .. Count + 1 : At(k) \in Nat
      /\ \A k \in 1 .. Count : file.frames[k].at = At(k)
      /\ At(Count + 1) = file.size
  BY Layout
<1>2. PICK m \in Ahead : \A k \in Ahead : m <= k
  <2>1. Count \in Ahead /\ Ahead \in SUBSET Nat
    BY <1>1
  <2> HIDE DEF Ahead
  <2>2. QED
    BY <2>1, Least
<1>3. m \in 1 .. Count /\ p <= At(m)
  BY <1>1, <1>2
<1>4. ASSUME NEW k \in 1 .. m - 1 PROVE At(k) < p
  <2>1. k \notin Ahead /\ k \in Nat /\ 1 <= k /\ k <= Count /\ k \in 1 .. Count + 1
    BY <1>1, <1>2, <1>3
  <2>2. At(k) \in Nat /\ ~ (p <= At(k))
    BY <1>1, <2>1
  <2>3. QED
    BY <2>2
<1>5. Range(file.frames) = {file.frames[k] : k \in 1 .. Count}
  <2>1. DOMAIN file.frames = 1 .. Count
    BY FilesAssumption DEF Count
  <2>2. QED
    BY <2>1 DEF Range
<1> DEFINE There == {at \in HeadersOf(file) : at >= p} \cup {file.size}
<1>6. Min(There) = At(m)
  <2>1. HeadersOf(file) = {At(k) : k \in 1 .. Count}
    BY <1>1, <1>5 DEF HeadersOf
  <2>2. There \in SUBSET Int /\ At(m) \in There
    BY <1>1, <1>3, <2>1
  <2>3. ASSUME NEW k \in 1 .. Count, At(k) >= p PROVE At(m) <= At(k)
    <3>1. ~ (k < m)
      <4>1. SUFFICES ASSUME k < m PROVE FALSE
        OBVIOUS
      <4>2. At(k) < p /\ At(k) \in Nat
        BY <1>1, <1>3, <1>4, <4>1
      <4>3. QED
        BY <2>3, <4>2
    <3>2. k = m \/ m < k
      BY <1>3, <3>1
    <3>3. CASE m < k
      BY <1>1, <1>3, <3>3, Order
    <3>4. QED
      BY <1>1, <1>3, <3>2, <3>3
  <2>4. At(m) <= At(Count + 1)
    BY <1>1, <1>3, Order
  <2>5. \A at \in There : At(m) <= at
    BY <1>1, <2>1, <2>3, <2>4
  <2> HIDE DEF There
  <2>6. QED
    BY <2>2, <2>5, MinIs
<1>7. p \in 0 .. file.size
  BY <1>1, Order
<1>8. frame_sync(file, p) = At(m)
  BY <1>6, <1>7 DEF FakesArePassed
<1>9. ASSUME NEW k \in 1 .. Count, At(k) = At(m) PROVE k = m
  <2>1. k < m \/ k = m \/ m < k
    BY <1>3
  <2>2. k \in 1 .. Count + 1 /\ m \in 1 .. Count + 1 /\ At(k) \in Nat
    BY <1>1, <1>3
  <2>3. k < m => At(k) < At(m)
    BY <2>2, Order
  <2>4. m < k => At(m) < At(k)
    BY <2>2, Order
  <2>5. QED
    BY <1>9, <2>1, <2>2, <2>3, <2>4
<1>10. Probed(p) = {file.frames[m]}
  BY <1>1, <1>3, <1>5, <1>8, <1>9 DEF Probed
<1>11. QED
  BY <1>3, <1>4, <1>10

-----------------------------------------------------------------------------
(* A share of a distance is not longer than the distance.                  *)
LEMMA Share ==
    ASSUME NEW a \in Nat, NEW b \in Nat \ {0}, NEW d \in Nat, a <= b
    PROVE  (a * d) \div b \in Int /\ (a * d) \div b <= d
<1>1. a * d \in Nat /\ b * d \in Nat /\ a * d <= b * d
  <2>1. b - a \in Nat /\ (b - a) * d >= 0
    OBVIOUS
  <2>2. b * d = a * d + (b - a) * d
    OBVIOUS
  <2>3. QED
    BY <2>1, <2>2
<1> DEFINE x == a * d
           q == x \div b
<1>2. q \in Int /\ b * q <= x
  BY <1>1
<1>3. SUFFICES ASSUME q > d PROVE FALSE
  BY <1>2
<1>4. q - d - 1 >= 0
  BY <1>2, <1>3
<1> HIDE DEF q, x
<1>5. b * q >= b * d + b
  <2>1. b * (q - d - 1) >= 0
    BY <1>2, <1>4
  <2>2. b * (q - d - 1) = b * q - b * d - b
    BY <1>2
  <2>3. QED
    BY <1>2, <2>1, <2>2
<1>6. b * d \in Nat /\ b * q \in Int /\ x \in Nat /\ x <= b * d /\ b > 0
  BY <1>1, <1>2 DEF x
<1>7. QED
  BY <1>2, <1>5, <1>6

(* The next place to look at is between the bounds, and as far in front of *)
(* the upper one as a frame is thought to be long.                         *)
LEMMA PositionBetween ==
    ASSUME lower.pos \in Nat, upper.pos \in Nat, lower.pos < upper.pos,
           lower.sample \in Nat, upper.sample \in Nat, lower.sample < upper.sample,
           target \in Nat, lower.sample <= target, target <= upper.sample,
           approx \in Nat \ {0}, needs_seek
    PROVE  /\ Position \in Nat /\ lower.pos <= Position /\ Position < upper.pos
           /\ Position = lower.pos \/ Position <= upper.pos - approx
<1> DEFINE a == target - lower.sample
           b == upper.sample - lower.sample
           d == upper.pos - lower.pos
           q == (a * d) \div b
<1>1. a \in Nat /\ b \in Nat \ {0} /\ d \in Nat /\ a <= b
  OBVIOUS
<1>2. q \in Int /\ q <= d
  <2> HIDE DEF a, b, d
  <2>1. QED
    BY <1>1, Share
<1>3. Interpolated = lower.pos - approx + q
  BY DEF Interpolated
<1> HIDE DEF q
<1>4. Interpolated \in Int /\ Interpolated <= upper.pos - approx
  BY <1>2, <1>3
<1> DEFINE low == IF Interpolated <= upper.pos - 1 THEN Interpolated ELSE upper.pos - 1
<1>5. Min({Interpolated, upper.pos - 1}) = low
  <2>1. {Interpolated, upper.pos - 1} \in SUBSET Int /\ low \in {Interpolated, upper.pos - 1}
    BY <1>4
  <2>2. \A y \in {Interpolated, upper.pos - 1} : low <= y
    BY <1>4
  <2> HIDE DEF low
  <2>3. QED
    BY <2>1, <2>2, MinIs
<1>6. low \in Int /\ low <= upper.pos - 1 /\ low <= upper.pos - approx
  BY <1>4
<1> HIDE DEF low
<1>7. Position = IF low >= lower.pos THEN low ELSE lower.pos
  <2>1. Max({low, lower.pos}) = IF low >= lower.pos THEN low ELSE lower.pos
    BY <1>6, MaxIs
  <2>2. Position = Max({low, lower.pos})
    BY <1>5, Zenon DEF Position
  <2>3. QED
    BY <2>1, <2>2
<1>8. QED
  BY <1>6, <1>7

-----------------------------------------------------------------------------
(* The entries around the target, if there are any, are of frames.         *)
EntryOf(k) == [sample |-> First(k), offset |-> At(k) - At(1)]

LEMMA Entries ==
    ASSUME file \in Files, NEW n \in DOMAIN Points(file)
    PROVE  \E k \in 1 .. Count : Points(file)[n] = EntryOf(k)
<1> DEFINE P == {[sample |-> x.first, offset |-> x.at - file.frames[1].at] : x \in Range(file.frames)}
<1>1. Points(file) \in Seq(P) /\ DOMAIN file.frames = 1 .. Count
  BY FilesAssumption DEF Count
<1>2. Points(file)[n] \in P
  <2> HIDE DEF P
  <2>1. QED
    BY <1>1
<1>3. PICK k \in 1 .. Count : Points(file)[n] = [sample |-> file.frames[k].first,
                                                 offset |-> file.frames[k].at - file.frames[1].at]
  BY <1>1, <1>2 DEF Range
<1>4. 1 \in 1 .. Count
  BY Layout
<1>5. QED
  BY <1>3, <1>4, Layout DEF EntryOf

LEMMA BracketFacts ==
    ASSUME file \in Files, target \in Nat \ {0},
           NEW b, b = Bracket(Points(file), target), b.lo.sample < b.hi.sample
    PROVE  \E i, j \in 1 .. Count : /\ b.lo = EntryOf(i) /\ First(i) <= target
                                    /\ b.hi = EntryOf(j) /\ target < First(j)
<1> DEFINE points == Points(file)
           none   == [sample |-> 0, offset |-> 0]
           behind == {k \in DOMAIN points : points[k].sample > target}
           n      == IF behind = {} THEN Len(points) + 1 ELSE Min(behind)
<1>1. /\ b.lo = IF n = 1 THEN none ELSE points[n - 1]
      /\ b.hi = IF behind = {} THEN none ELSE points[n]
  BY DEF Bracket
<1>2. /\ Count \in Nat \ {0} /\ First(1) = 0
      /\ \A k \in 1 .. Count : At(k) \in Nat /\ First(k) \in Nat
  <2>1. Count \in Nat \ {0} /\ First(1) = 0 /\ \A k \in 1 .. Count + 1 : At(k) \in Nat /\ First(k) \in Nat
    BY Layout
  <2>2. QED
    BY <2>1
<1>3. none = EntryOf(1)
  BY <1>2 DEF EntryOf
<1>4. Len(points) \in Nat /\ DOMAIN points = 1 .. Len(points)
  BY FilesAssumption
<1>5. \A k \in DOMAIN points : points[k].sample \in Nat
  <2>1. ASSUME NEW k \in DOMAIN points PROVE points[k].sample \in Nat
    <3>1. PICK f \in 1 .. Count : points[k] = EntryOf(f)
      BY Entries
    <3>2. QED
      BY <1>2, <3>1 DEF EntryOf
  <2>2. QED
    BY <2>1
<1>6. behind # {}
  <2>1. SUFFICES ASSUME behind = {} PROVE FALSE
    OBVIOUS
  <2>2. none.sample = 0
    OBVIOUS
  <2>3. n = Len(points) + 1
    <3> HIDE DEF behind, points
    <3>1. QED
      BY <2>1
  <2>4. b.hi = none
    <3> HIDE DEF n, none, behind, points
    <3>1. QED
      BY <1>1, <2>1
  <2> HIDE DEF n, none, behind
  <2>5. b.lo.sample \in Nat
    <3>1. CASE n = 1
      BY <1>1, <2>2, <3>1
    <3>2. CASE n # 1
      <4> HIDE DEF points
      <4>1. n - 1 \in DOMAIN points
        BY <1>4, <2>3, <3>2
      <4>2. QED
        BY <1>1, <1>5, <3>2, <4>1
    <3>3. QED
      BY <3>1, <3>2
  <2>6. QED
    BY <2>2, <2>4, <2>5
<1>7. n \in behind /\ \A k \in behind : n <= k
  <2>1. behind \in SUBSET Nat
    BY <1>4
  <2>2. PICK k \in behind : \A y \in behind : k <= y
    <3> HIDE DEF behind
    <3>1. QED
      BY <1>6, <2>1, Least
  <2>3. Min(behind) = k
    <3> HIDE DEF behind
    <3>1. behind \in SUBSET Int
      BY <2>1
    <3>2. QED
      BY <2>2, <3>1, MinIs
  <2>4. n = k
    BY <1>6, <2>3
  <2>5. QED
    BY <2>2, <2>4
<1>8. n \in DOMAIN points /\ n \in Nat /\ 1 <= n /\ points[n].sample > target /\ b.hi = points[n]
  <2>1. b.hi = points[n]
    <3> HIDE DEF n, points, behind
    <3>1. QED
      BY <1>1, <1>6
  <2>2. n \in DOMAIN points /\ points[n].sample > target
    <3> HIDE DEF n, points
    <3>1. QED
      BY <1>7
  <2> HIDE DEF n, points
  <2>3. n \in Nat /\ 1 <= n
    BY <1>4, <2>2
  <2>4. QED
    BY <2>1, <2>2, <2>3
<1>9. PICK j \in 1 .. Count : points[n] = EntryOf(j)
  BY <1>8, Entries
<1>10. target < First(j)
  BY <1>2, <1>8, <1>9 DEF EntryOf
<1>11. PICK i \in 1 .. Count : b.lo = EntryOf(i) /\ First(i) <= target
  <2>1. CASE n = 1
    <3> HIDE DEF n, none
    <3>1. b.lo = EntryOf(1)
      BY <1>1, <1>3, <2>1
    <3>2. 1 \in 1 .. Count /\ First(1) <= target
      BY <1>2
    <3>3. QED
      BY <3>1, <3>2
  <2>2. CASE n # 1
    <3>1. n - 1 \in DOMAIN points /\ n - 1 \notin behind
      <4>1. n \in 1 .. Len(points) /\ n # 1 /\ Len(points) \in Nat /\ \A k \in behind : n <= k
        BY <1>4, <1>7, <1>8, <2>2
      <4> HIDE DEF n, behind, points
      <4>2. n - 1 \in 1 .. Len(points)
        BY <4>1
      <4>3. n - 1 \notin behind
        <5>1. SUFFICES ASSUME n - 1 \in behind PROVE FALSE
          OBVIOUS
        <5>2. n <= n - 1 /\ n \in Nat
          BY <4>1, <5>1
        <5>3. QED
          BY <5>2
      <4>4. QED
        BY <1>4, <4>2, <4>3
    <3>2. PICK i \in 1 .. Count : points[n - 1] = EntryOf(i)
      BY <3>1, Entries
    <3>3. ~ (points[n - 1].sample > target) /\ points[n - 1].sample \in Nat
      BY <1>5, <3>1
    <3>4. First(i) <= target
      BY <1>2, <3>2, <3>3 DEF EntryOf
    <3>5. QED
      BY <1>1, <2>2, <3>2, <3>4
  <2>3. QED
    BY <2>1, <2>2
<1>12. QED
  BY <1>8, <1>9, <1>10, <1>11
-----------------------------------------------------------------------------
(* The files and targets of which SeekFinds says that the seek finds them. *)
Regular ==
    /\ FixedSize(file) /\ FakesArePassed /\ target < Samples(file)
    /\ IF Bounded THEN ~ HasId3 ELSE ~ LastIsLong

(* The frame T of the target is between the bounds: the lower one is where *)
(* a frame not behind it begins, or in front of that but not of the frame  *)
(* before; the upper one is the beginning of a frame behind it, or the end *)
(* of a file whose last frame is not longer than a frame is thought to be. *)
LowerAt(i) == /\ lower.sample = First(i) /\ lower.pos \in Nat /\ lower.pos <= At(i)
              /\ \A k \in 1 .. i - 1 : At(k) < lower.pos
UpperAt(j) == /\ upper.pos = At(j)
              /\ j = Count + 1 => file.frames[Count].bytes <= approx
Enclosing(T) ==
    /\ First(T) <= target /\ target < First(T + 1)
    /\ \E i \in 1 .. T : LowerAt(i)
    /\ \E j \in T + 1 .. Count + 1 : UpperAt(j)
    /\ upper.sample \in Nat /\ First(T) < upper.sample /\ target <= upper.sample
    /\ approx \in Nat \ {0}
    /\ ~ needs_seek => /\ pos = lower.pos
                       /\ target < lower.sample + 4 * file.info.min_blocksize

SeekTypeOK ==
    /\ file \in Files /\ target \in Nat \ {0} /\ needs_seek \in BOOLEAN
    /\ seek \in {"open", "first", "search", "again", "retry", "found", "failed", "dead"}
KnownInv == seek = "first" => file.info.totalsamples # 0
TableInv ==
    (seek = "first" /\ Bounded) =>
        \E i, j \in 1 .. Count : /\ lo = EntryOf(i) /\ First(i) <= target
                                 /\ hi = EntryOf(j) /\ target < First(j)
BracketInv == (seek = "search" /\ Regular) => \E T \in 1 .. Count : Enclosing(T)
SeekInv == SeekTypeOK /\ KnownInv /\ TableInv /\ BracketInv /\ SeekFinds

-----------------------------------------------------------------------------
(* What a step of the search has to go on: the frame of the target, and    *)
(* the frames that the bounds stand at.                                    *)
LEMMA GuessIsPositive ==
    ASSUME file \in Files
    PROVE  Guess(file.info) \in Nat \ {0}
<1>1. /\ file.info.min_blocksize \in Nat /\ file.info.min_framesize \in Nat
      /\ file.info.max_framesize \in Nat
  BY FilesAssumption
<1>2. RawBytes \in Nat /\ Slack \in Nat \ {0} /\ GuessedBlock \in Nat
  BY SeekAssumption
<1>3. file.info.min_blocksize * RawBytes \in Nat /\ GuessedBlock * RawBytes \in Nat
  BY <1>1, <1>2
<1>4. QED
  BY <1>1, <1>2, <1>3 DEF Guess

(* A file of which no samples are known does not get past flac_init().      *)
LEMMA NoSamplesNoTime ==
    ASSUME Milliseconds(file.info) # 0
    PROVE  file.info.totalsamples # 0
<1>1. SUFFICES ASSUME file.info.totalsamples = 0 PROVE Milliseconds(file.info) = 0
  OBVIOUS
<1>2. Second \in Nat \ {0}
  BY SeekAssumption
<1>3. 0 \div Second = 0
  BY <1>2
<1>4. QED
  BY <1>1, <1>3 DEF Milliseconds

LEMMA Begins ==
    ASSUME SeekTypeOK, KnownInv, TableInv, Begin, seek = "first", Regular
    PROVE  \E T \in 1 .. Count : Enclosing(T)'
<1>1. file \in Files /\ target \in Nat \ {0} /\ target < Samples(file)
  BY DEF SeekTypeOK, Regular
<1>2. file' = file /\ target' = target /\ needs_seek' /\ approx' = Guess(file.info)
  BY DEF Begin
<1>3. Count' = Count /\ \A k : At(k)' = At(k) /\ First(k)' = First(k)
  BY <1>2 DEF Count, At, First
<1>4. PICK T \in 1 .. Count : First(T) <= target /\ target < First(T + 1)
  BY <1>1, FrameOf
<1>5. /\ Count \in Nat \ {0} /\ First(1) = 0
      /\ metadatalength(file) \in Nat /\ metadatalength(file) <= At(1)
      /\ \A k \in 1 .. Count + 1 : At(k) \in Nat /\ First(k) \in Nat
      /\ At(Count + 1) = file.size /\ First(Count + 1) = Samples(file)
      /\ file.frames[1].at = At(1)
  <2>1. 1 \in 1 .. Count
    BY <1>1, Layout
  <2>2. QED
    BY <1>1, <2>1, Layout
<1>6. T \in 1 .. Count + 1 /\ T + 1 \in 1 .. Count + 1 /\ T \in Nat
  BY <1>5
<1>7. approx' \in Nat \ {0}
  BY <1>1, <1>2, GuessIsPositive
<1>8. ASSUME NEW i \in 1 .. T, LowerAt(i)', NEW j \in T + 1 .. Count + 1, UpperAt(j)',
             upper'.sample \in Nat, First(T) < upper'.sample, target <= upper'.sample
      PROVE  Enclosing(T)'
  <2>1. \E ii \in 1 .. T : LowerAt(ii)'
    BY <1>8
  <2>2. \E jj \in T + 1 .. Count + 1 : UpperAt(jj)'
    BY <1>8
  <2>3. QED
    BY <1>2, <1>3, <1>4, <1>7, <1>8, <2>1, <2>2 DEF Enclosing
<1>9. CASE Bounded
  <2>1. PICK i \in 1 .. Count, j \in 1 .. Count :
            /\ lo = EntryOf(i) /\ First(i) <= target /\ hi = EntryOf(j) /\ target < First(j)
    BY <1>9 DEF TableInv
  <2>2. i \in 1 .. Count + 1 /\ j \in 1 .. Count + 1 /\ i \in Nat /\ j \in Nat
    BY <1>5
  <2>3. metadatalength(file) = At(1)
    BY <1>5, <1>9 DEF Regular, HasId3
  <2>4. lower' = [pos |-> At(i), sample |-> First(i)] /\ upper' = [pos |-> At(j), sample |-> First(j)]
    <3>1. 1 \in 1 .. Count + 1 /\ At(1) \in Nat /\ At(i) \in Nat /\ At(j) \in Nat
      BY <1>5, <2>2
    <3>2. lower' = Bound(lo) /\ upper' = Bound(hi)
      BY <1>9 DEF Begin
    <3>3. At(1) + (At(i) - At(1)) = At(i) /\ At(1) + (At(j) - At(1)) = At(j)
      BY <3>1
    <3>4. QED
      BY <2>1, <2>3, <3>2, <3>3 DEF Bound, EntryOf
  <2>5. i \in 1 .. T
    <3>1. SUFFICES ASSUME T + 1 <= i PROVE FALSE
      BY <1>6, <2>2
    <3>2. First(T + 1) <= First(i)
      <4>1. CASE T + 1 = i
        BY <1>5, <1>6, <4>1
      <4>2. CASE T + 1 < i
        BY <1>1, <1>5, <1>6, <2>2, <4>2, Order
      <4>3. QED
        BY <1>6, <2>2, <3>1, <4>1, <4>2
    <3>3. First(i) \in Nat /\ First(T + 1) \in Nat
      BY <1>5, <1>6, <2>2
    <3>4. QED
      BY <1>1, <1>4, <2>1, <3>2, <3>3
  <2>6. j \in T + 1 .. Count + 1
    <3>1. SUFFICES ASSUME j <= T PROVE FALSE
      BY <1>6, <2>2
    <3>2. First(j) <= First(T)
      <4>1. CASE j = T
        BY <1>5, <1>6, <4>1
      <4>2. CASE j < T
        BY <1>1, <1>5, <1>6, <2>2, <4>2, Order
      <4>3. QED
        BY <1>6, <2>2, <3>1, <4>1, <4>2
    <3>3. First(j) \in Nat /\ First(T) \in Nat
      BY <1>5, <1>6, <2>2
    <3>4. QED
      BY <1>1, <1>4, <2>1, <3>2, <3>3
  <2>7. LowerAt(i)'
    <3>1. ASSUME NEW k \in 1 .. i - 1 PROVE At(k) < At(i)
      <4>1. k \in 1 .. Count + 1 /\ k < i
        BY <1>5, <2>2
      <4>2. QED
        BY <1>1, <2>2, <4>1, Order
    <3>2. At(i) \in Nat
      BY <1>5, <2>2
    <3>3. QED
      BY <1>3, <2>4, <3>1, <3>2 DEF LowerAt
  <2>8. UpperAt(j)'
    <3>1. j # Count + 1
      BY <1>5, <2>1
    <3>2. QED
      BY <1>3, <2>4, <3>1 DEF UpperAt
  <2>9. First(j) \in Nat /\ First(T) \in Nat /\ First(T) < First(j) /\ target <= First(j)
    BY <1>1, <1>4, <1>5, <1>6, <2>1, <2>2
  <2>10. QED
    BY <1>8, <2>4, <2>5, <2>6, <2>7, <2>8, <2>9
<1>10. CASE ~ Bounded
  <2>1. /\ lower' = [pos |-> metadatalength(file), sample |-> 0]
        /\ upper' = [pos |-> file.size, sample |-> LastSample]
    BY <1>10 DEF Begin
  <2>2. file.frames[Count].bytes <= approx'
    <3>1. ~ LastIsLong
      BY <1>10 DEF Regular
    <3>2. Count \in 1 .. Count /\ file.frames[Count].bytes \in Nat
      <4>1. Count \in 1 .. Count
        BY <1>5
      <4>2. QED
        BY <1>1, <4>1, Layout
    <3>3. QED
      BY <1>2, <1>7, <3>1, <3>2 DEF LastIsLong, Count
  <2>3. 1 \in 1 .. T /\ LowerAt(1)'
    <3>1. 1 \in 1 .. T /\ \A k \in 1 .. 1 - 1 : FALSE
      BY <1>6
    <3>2. QED
      BY <1>3, <1>5, <2>1, <3>1 DEF LowerAt
  <2>4. Count + 1 \in T + 1 .. Count + 1 /\ UpperAt(Count + 1)'
    <3>1. Count + 1 \in T + 1 .. Count + 1
      BY <1>5, <1>6
    <3>2. QED
      BY <1>2, <1>3, <1>5, <2>1, <2>2, <3>1 DEF UpperAt
  <2>5. LastSample \in Nat /\ First(T) < LastSample /\ target <= LastSample
    <3>1. First(T) \in Nat /\ Samples(file) \in Nat
      BY <1>5, <1>6
    <3>2. file.info.totalsamples = Samples(file)
      <4>1. file.info.totalsamples \in {0, Samples(file)}
        BY <1>1, FilesAssumption
      <4>2. QED
        BY <4>1 DEF KnownInv
    <3>3. QED
      BY <1>1, <1>4, <3>1, <3>2 DEF LastSample
  <2>6. upper'.sample \in Nat /\ First(T) < upper'.sample /\ target <= upper'.sample
    BY <2>1, <2>5
  <2>7. Enclosing(T)'
    BY <1>3, <1>8, <2>3, <2>4, <2>6
  <2>8. QED
    BY <2>7
<1>11. QED
  BY <1>9, <1>10
(* A turn comes to a frame between the bounds.                             *)
LEMMA Probing ==
    ASSUME SeekTypeOK, Regular, NEW T \in 1 .. Count, Enclosing(T)
    PROVE  /\ BoundsAreOk
           /\ \E i \in 1 .. T, j \in T + 1 .. Count + 1, m \in 1 .. Count :
                 /\ LowerAt(i) /\ UpperAt(j) /\ i <= m
                 /\ Probed(Position) = {file.frames[m]}
                 /\ Position = lower.pos => m = i
                 /\ ~ needs_seek => Position = lower.pos
<1>1. file \in Files /\ target \in Nat \ {0}
  BY DEF SeekTypeOK
<1>2. Count \in Nat \ {0} /\ \A k \in 1 .. Count + 1 : At(k) \in Nat /\ First(k) \in Nat
  BY <1>1, Layout
<1>3. PICK i \in 1 .. T, j \in T + 1 .. Count + 1 : LowerAt(i) /\ UpperAt(j)
  BY DEF Enclosing
<1>4. /\ T \in Nat /\ i \in Nat /\ j \in Nat /\ i <= T /\ T < j
      /\ i \in 1 .. Count + 1 /\ j \in 1 .. Count + 1 /\ T \in 1 .. Count + 1 /\ Count \in 1 .. Count + 1
  BY <1>2
<1>5. At(i) <= At(T) /\ First(i) <= First(T) /\ At(i) <= At(Count)
  <2>1. CASE i = T
    <3>1. At(T) <= At(Count)
      <4>1. CASE T = Count
        BY <1>2, <1>4, <4>1
      <4>2. CASE T < Count
        BY <1>1, <1>2, <1>4, <4>2, Order
      <4>3. QED
        BY <1>2, <4>1, <4>2
    <3>2. QED
      BY <1>2, <1>4, <2>1, <3>1
  <2>2. CASE i < T
    <3>1. At(i) < At(T) /\ First(i) < First(T) /\ At(i) < At(Count)
      BY <1>1, <1>2, <1>4, <2>2, Order
    <3>2. QED
      BY <1>2, <1>4, <3>1
  <2>3. QED
    BY <1>4, <2>1, <2>2
<1>6. At(T) < At(j)
  BY <1>1, <1>4, Order
<1>7. /\ lower.sample = First(i) /\ lower.pos \in Nat /\ lower.pos <= At(i)
      /\ \A k \in 1 .. i - 1 : At(k) < lower.pos
      /\ upper.pos = At(j)
      /\ j = Count + 1 => file.frames[Count].bytes <= approx
  BY <1>3 DEF LowerAt, UpperAt
<1>8. /\ First(T) <= target /\ upper.sample \in Nat /\ First(T) < upper.sample
      /\ target <= upper.sample /\ approx \in Nat \ {0}
      /\ ~ needs_seek => pos = lower.pos
  BY DEF Enclosing
<1>9. /\ At(i) \in Nat /\ At(T) \in Nat /\ At(j) \in Nat /\ At(Count) \in Nat
      /\ First(i) \in Nat /\ First(T) \in Nat
  BY <1>2, <1>4
<1>10. lower.pos < upper.pos /\ lower.sample < upper.sample /\ lower.sample <= target
  BY <1>1, <1>5, <1>6, <1>7, <1>8, <1>9
<1>11. /\ Position \in Nat /\ lower.pos <= Position
       /\ Position = lower.pos \/ Position <= upper.pos - approx
       /\ Position = lower.pos \/ Position < upper.pos
       /\ ~ needs_seek => Position = lower.pos
  <2>1. CASE needs_seek
    BY <1>1, <1>7, <1>8, <1>9, <1>10, <2>1, PositionBetween
  <2>2. CASE ~ needs_seek
    <3>1. Position = lower.pos
      BY <1>8, <2>2 DEF Position
    <3>2. QED
      BY <1>7, <3>1
  <2>3. QED
    BY <2>1, <2>2
<1>12. Position <= At(Count)
  <2>1. CASE Position = lower.pos
    BY <1>5, <1>7, <1>9, <2>1
  <2>2. CASE Position # lower.pos /\ j = Count + 1
    <3>1. At(Count + 1) = At(Count) + file.frames[Count].bytes /\ file.frames[Count].bytes \in Nat
      <4>1. Count \in 1 .. Count
        BY <1>2
      <4>2. QED
        BY <1>1, <4>1, Layout
    <3>2. QED
      BY <1>7, <1>8, <1>9, <1>11, <2>2, <3>1
  <2>3. CASE Position # lower.pos /\ j # Count + 1
    <3>1. j = Count \/ j < Count
      BY <1>2, <1>4, <2>3
    <3>2. At(j) <= At(Count)
      BY <1>1, <1>4, <1>9, <3>1, Order
    <3>3. QED
      BY <1>7, <1>9, <1>11, <2>3, <3>2
  <2>4. QED
    BY <2>1, <2>2, <2>3
<1>13. PICK m \in 1 .. Count : /\ Position <= At(m) /\ \A k \in 1 .. m - 1 : At(k) < Position
                               /\ Probed(Position) = {file.frames[m]}
  BY <1>1, <1>11, <1>12, Landing DEF Regular
<1>14. m \in Nat /\ m \in 1 .. Count + 1 /\ At(m) \in Nat
  BY <1>2
<1>15. i <= m
  <2>1. SUFFICES ASSUME m < i PROVE FALSE
    BY <1>4, <1>14
  <2>2. At(m) < lower.pos
    BY <1>4, <1>7, <1>14, <2>1
  <2>3. QED
    BY <1>7, <1>11, <1>13, <1>14, <2>2
<1>16. Position = lower.pos => m = i
  <2>1. SUFFICES ASSUME Position = lower.pos, i < m PROVE FALSE
    BY <1>4, <1>14, <1>15
  <2>2. At(i) < lower.pos
    BY <1>4, <1>13, <1>14, <2>1
  <2>3. QED
    BY <1>7, <1>9, <2>2
<1>17. BoundsAreOk
  BY <1>7, <1>9, <1>10 DEF BoundsAreOk
<1>18. QED
  BY <1>3, <1>11, <1>13, <1>15, <1>16, <1>17

(* It never gives up, and the frame of the target stays between the bounds. *)
LEMMA Turns ==
    ASSUME SeekTypeOK, Regular, NEW T \in 1 .. Count, Enclosing(T), seek = "search", flac_seek
    PROVE  /\ seek' \in {"search", "found"} /\ UNCHANGED <<file, target, lo, hi>>
           /\ needs_seek' \in BOOLEAN
           /\ seek' = "search" => Enclosing(T)'
<1>1. file \in Files /\ target \in Nat \ {0} /\ needs_seek \in BOOLEAN
  BY DEF SeekTypeOK
<1>2. /\ Count \in Nat \ {0} /\ \A k \in 1 .. Count + 1 : At(k) \in Nat /\ First(k) \in Nat
      /\ T \in Nat /\ T + 1 \in 1 .. Count + 1 /\ T \in 1 .. Count + 1
  BY <1>1, Layout
<1>3. PICK i \in 1 .. T, j \in T + 1 .. Count + 1, m \in 1 .. Count :
            /\ LowerAt(i) /\ UpperAt(j) /\ i <= m
            /\ Probed(Position) = {file.frames[m]}
            /\ Position = lower.pos => m = i
            /\ ~ needs_seek => Position = lower.pos
  BY Probing
<1> DEFINE p == Position
           frame == file.frames[m]
<1>4. Turn
  <2>1. ~ Begin
    BY DEF Begin
  <2>2. BoundsAreOk /\ Probed(Position) # {}
    BY <1>3, Probing
  <2>3. ~ NoFrame
    BY <2>2 DEF NoFrame
  <2>4. QED
    BY <2>1, <2>3 DEF flac_seek
<1>5. FindFrame(frame) \/ Stuck(p, frame) \/ StepBack(p, frame) \/ Narrow(p, frame)
  BY <1>3, <1>4 DEF Turn
<1>6. /\ frame.at = At(m) /\ frame.first = First(m)
      /\ frame.bytes \in Nat \ {0} /\ frame.samples \in Nat \ {0}
      /\ frame.at + frame.bytes = At(m + 1) /\ frame.first + frame.samples = First(m + 1)
  BY <1>1, Layout
<1>7. /\ m \in Nat /\ m + 1 \in Nat /\ m \in 1 .. Count + 1 /\ m + 1 \in 1 .. Count + 1
      /\ First(m) \in Nat /\ First(m + 1) \in Nat /\ First(T) \in Nat /\ First(T + 1) \in Nat
      /\ At(m) \in Nat /\ At(m + 1) \in Nat /\ i \in Nat /\ First(i) \in Nat /\ i <= T
  BY <1>2
<1>8. ASSUME m < T PROVE First(m + 1) <= First(T)
  <2>1. m + 1 = T \/ m + 1 < T
    BY <1>2, <1>7, <1>8
  <2>2. QED
    BY <1>1, <1>2, <1>7, <2>1, Order
<1>9. ASSUME T < m PROVE First(T + 1) <= First(m)
  <2>1. T + 1 = m \/ T + 1 < m
    BY <1>2, <1>7, <1>9
  <2>2. QED
    BY <1>1, <1>2, <1>7, <2>1, Order
<1>10. /\ First(T) <= target /\ target < First(T + 1)
       /\ upper.sample \in Nat /\ First(T) < upper.sample /\ target <= upper.sample
       /\ approx \in Nat \ {0}
       /\ ~ needs_seek => /\ pos = lower.pos
                          /\ target < lower.sample + 4 * file.info.min_blocksize
  BY DEF Enclosing
<1>11. /\ lower.sample = First(i) /\ upper.pos = At(j)
       /\ j = Count + 1 => file.frames[Count].bytes <= approx
  BY <1>3 DEF LowerAt, UpperAt
<1>12. ASSUME UNCHANGED file
       PROVE  Count' = Count /\ \A k : At(k)' = At(k) /\ First(k)' = First(k)
  BY <1>12 DEF Count, At, First
<1>13. ASSUME UNCHANGED <<file, target>>, NEW l \in 1 .. T, LowerAt(l)',
              NEW u \in T + 1 .. Count + 1, UpperAt(u)',
              upper'.sample \in Nat, First(T) < upper'.sample, target <= upper'.sample,
              approx' \in Nat \ {0},
              needs_seek' \/ (/\ pos' = lower'.pos
                              /\ target < lower'.sample + 4 * file.info.min_blocksize)
       PROVE  Enclosing(T)'
  <2>1. Count' = Count /\ \A k : At(k)' = At(k) /\ First(k)' = First(k)
    BY <1>12, <1>13
  <2>2. \E ll \in 1 .. T : LowerAt(ll)'
    BY <1>13
  <2>3. \E uu \in T + 1 .. Count + 1 : UpperAt(uu)'
    BY <1>13
  <2>4. QED
    BY <1>10, <1>13, <2>1, <2>2, <2>3 DEF Enclosing
<1> HIDE DEF p, frame
<1>14. CASE FindFrame(frame)
  BY <1>1, <1>14 DEF FindFrame, bounds
<1>15. ~ Stuck(p, frame)
  <2>1. SUFFICES ASSUME Stuck(p, frame) PROVE FALSE
    OBVIOUS
  <2>2. m # T
    BY <1>6, <1>10, <2>1 DEF Stuck, Holds
  <2>3. CASE Beyond(frame)
    <3>1. p = lower.pos \/ ~ needs_seek
      BY <2>1, <2>3 DEF Stuck
    <3>2. m = i
      BY <1>3, <3>1 DEF p
    <3>3. First(m + 1) >= upper.sample
      BY <1>6, <2>3 DEF Beyond
    <3>4. m < T
      BY <1>2, <1>7, <2>2, <3>2
    <3>5. QED
      BY <1>7, <1>8, <1>10, <3>3, <3>4
  <2>4. CASE ~ Beyond(frame)
    <3>1. First(m) < First(i)
      BY <1>6, <1>11, <2>1, <2>4 DEF Stuck, Astray
    <3>2. i = m \/ i < m
      BY <1>3, <1>7
    <3>3. i < m => First(i) < First(m)
      BY <1>1, <1>2, <1>7, Order
    <3>4. QED
      BY <1>7, <3>1, <3>2, <3>3
  <2>5. QED
    BY <2>3, <2>4
<1>16. CASE StepBack(p, frame)
  <2>1. /\ approx' = approx * 2 /\ UNCHANGED <<file, target, seek, lo, hi, lower, upper, needs_seek>>
        /\ needs_seek
    BY <1>16 DEF StepBack
  <2>2. Count' = Count /\ \A k : At(k)' = At(k) /\ First(k)' = First(k)
    BY <1>12, <2>1
  <2>3. approx' \in Nat \ {0} /\ approx <= approx'
    BY <1>10, <2>1
  <2>4. LowerAt(i)'
    BY <1>3, <2>1, <2>2 DEF LowerAt
  <2>5. UpperAt(j)'
    <3>1. Count \in 1 .. Count
      BY <1>2
    <3>2. file.frames[Count].bytes \in Nat
      BY <1>1, <3>1, Layout
    <3>3. j = Count + 1 => file.frames[Count].bytes <= approx'
      BY <1>10, <1>11, <2>3, <3>2
    <3>4. QED
      BY <1>11, <2>1, <2>2, <3>3 DEF UpperAt
  <2>6. Enclosing(T)'
    BY <1>10, <1>13, <2>1, <2>3, <2>4, <2>5
  <2>7. QED
    BY <1>1, <2>1, <2>6
<1>17. CASE Narrow(p, frame)
  <2>1. /\ approx' = frame.samples * RawBytes + Slack /\ UNCHANGED <<file, target, seek, lo, hi>>
        /\ ~ Holds(frame)
        /\ NarrowUpper(p, frame) \/ NarrowLower(p, frame)
    BY <1>17 DEF Narrow
  <2>2. Count' = Count /\ \A k : At(k)' = At(k) /\ First(k)' = First(k)
    BY <1>12, <2>1
  <2>3. /\ RawBytes \in Nat \ {0} /\ Slack \in Nat \ {0} /\ frame.samples * RawBytes \in Nat
        /\ approx' \in Nat \ {0}
    <3>1. RawBytes \in Nat \ {0} /\ Slack \in Nat \ {0}
      BY SeekAssumption
    <3>2. frame.samples * RawBytes \in Nat
      BY <1>6, <3>1
    <3>3. QED
      BY <2>1, <3>1, <3>2
  <2>4. CASE NarrowUpper(p, frame)
    <3>1. /\ target < First(m) /\ upper' = [pos |-> At(m), sample |-> First(m)] /\ pos' = p
          /\ lower' = lower /\ needs_seek' = needs_seek
      BY <1>6, <2>4 DEF NarrowUpper
    <3>2. m \in T + 1 .. Count + 1 /\ m # Count + 1
      <4>1. m # T /\ ~ (m < T)
        BY <1>7, <1>8, <1>10, <3>1, <1>1, <1>2, Order
      <4>2. QED
        BY <1>2, <1>7, <4>1
    <3>3. LowerAt(i)'
      BY <1>3, <2>2, <3>1 DEF LowerAt
    <3>4. UpperAt(m)'
      BY <2>2, <3>1, <3>2 DEF UpperAt
    <3>5. First(T) < First(m) /\ target <= First(m)
      BY <1>1, <1>7, <1>10, <3>1
    <3>6. needs_seek' \/ (/\ pos' = lower'.pos
                          /\ target < lower'.sample + 4 * file.info.min_blocksize)
      BY <1>3, <1>10, <3>1 DEF p
    <3>7. Enclosing(T)'
      BY <1>7, <1>13, <2>1, <2>3, <3>1, <3>2, <3>3, <3>4, <3>5, <3>6
    <3>8. QED
      BY <1>1, <2>1, <3>1, <3>7
  <2>5. CASE NarrowLower(p, frame)
    <3>1. /\ target >= First(m + 1) /\ lower' = [pos |-> At(m + 1), sample |-> First(m + 1)]
          /\ pos' = IF Close(frame) THEN At(m + 1) ELSE p
          /\ needs_seek' = (needs_seek /\ ~ Close(frame)) /\ upper' = upper
      BY <1>6, <2>5 DEF NarrowLower
    <3>2. m < T /\ m + 1 \in 1 .. T
      <4>1. m # T /\ ~ (T < m)
        <5>1. m # T
          BY <1>7, <1>10, <3>1, <1>1
        <5>2. ASSUME T < m PROVE FALSE
          <6>1. First(m) < First(m + 1)
            BY <1>6, <1>7
          <6>2. QED
            BY <1>1, <1>7, <1>9, <1>10, <3>1, <5>2, <6>1
        <5>3. QED
          BY <5>1, <5>2
      <4>2. QED
        BY <1>2, <1>7, <4>1
    <3>3. LowerAt(m + 1)'
      <4>1. ASSUME NEW k \in 1 .. m + 1 - 1 PROVE At(k) < At(m + 1)
        <5>1. k \in 1 .. Count + 1 /\ k < m + 1
          BY <1>2, <1>7
        <5>2. QED
          BY <1>1, <1>7, <5>1, Order
      <4>2. QED
        BY <1>7, <2>2, <3>1, <4>1 DEF LowerAt
    <3>4. /\ frame.samples = file.info.min_blocksize
          /\ file.frames[Count].bytes \in Nat /\ file.frames[Count].bytes <= approx'
      <4>1. /\ Count \in 1 .. Count /\ DOMAIN file.frames = 1 .. Count /\ Count = Len(file.frames)
            /\ m < Count
        <5>1. DOMAIN file.frames = 1 .. Count /\ Count = Len(file.frames)
          BY <1>1, FilesAssumption DEF Count
        <5>2. Count \in 1 .. Count /\ m < Count
          BY <1>2, <1>7, <3>2
        <5>3. QED
          BY <5>1, <5>2
      <4>2. /\ file.frames[Count].bytes \in Nat \ {0} /\ file.frames[Count].samples \in Nat \ {0}
        BY <1>1, <4>1, Layout
      <4>3. FixedSize(file)
        BY DEF Regular
      <4>4. /\ frame.samples = file.info.min_blocksize
            /\ file.frames[Count].samples <= file.info.min_blocksize
            /\ file.frames[Count].bytes <= file.frames[Count].samples * RawBytes + Slack
        BY <1>1, <4>1, <4>3, FilesAssumption DEF frame
      <4>5. file.frames[Count].samples * RawBytes <= frame.samples * RawBytes
        <5>1. frame.samples - file.frames[Count].samples \in Nat
          BY <1>6, <4>2, <4>4
        <5>2. (frame.samples - file.frames[Count].samples) * RawBytes >= 0
          BY <2>3, <5>1
        <5>3. (frame.samples - file.frames[Count].samples) * RawBytes
                = frame.samples * RawBytes - file.frames[Count].samples * RawBytes
          BY <1>6, <2>3, <4>2
        <5>4. file.frames[Count].samples * RawBytes \in Nat
          BY <2>3, <4>2
        <5>5. QED
          BY <2>3, <5>2, <5>3, <5>4
      <4>6. file.frames[Count].samples * RawBytes \in Nat
        BY <2>3, <4>2
      <4>7. QED
        BY <2>1, <2>3, <4>2, <4>4, <4>5, <4>6
    <3>5. UpperAt(j)'
      BY <1>11, <2>1, <2>2, <3>1, <3>4 DEF UpperAt
    <3>6. needs_seek' \/ (/\ pos' = lower'.pos
                          /\ target < lower'.sample + 4 * file.info.min_blocksize)
      <4>1. CASE Close(frame)
        <5>1. target < First(m) + 4 * file.info.min_blocksize /\ First(m) <= First(m + 1)
          BY <1>6, <1>7, <3>4, <4>1 DEF Close
        <5>2. file.info.min_blocksize \in Nat
          BY <1>6, <3>4
        <5>3. QED
          BY <1>1, <1>7, <3>1, <4>1, <5>1, <5>2
      <4>2. CASE ~ Close(frame)
        <5>1. needs_seek
          <6>1. SUFFICES ASSUME ~ needs_seek PROVE FALSE
            OBVIOUS
          <6>2. m = i /\ target < lower.sample + 4 * file.info.min_blocksize
            BY <1>3, <1>10, <6>1
          <6>3. QED
            BY <1>6, <1>11, <3>4, <4>2, <6>2 DEF Close
        <5>2. QED
          BY <3>1, <4>2, <5>1
      <4>3. QED
        BY <4>1, <4>2
    <3>7. Enclosing(T)'
      BY <1>10, <1>13, <2>1, <2>3, <3>1, <3>2, <3>3, <3>5, <3>6
    <3>8. needs_seek' \in BOOLEAN
      BY <3>1
    <3>9. QED
      BY <2>1, <3>7, <3>8
  <2>6. QED
    BY <2>1, <2>4, <2>5
<1>18. QED
  BY <1>5, <1>14, <1>15, <1>16, <1>17 DEF p, frame
-----------------------------------------------------------------------------
(* A step of the search either gives up or leaves what is looked for.      *)
LEMMA Outcomes ==
    ASSUME needs_seek \in BOOLEAN, NoFrame \/ Turn
    PROVE  /\ needs_seek' \in BOOLEAN /\ UNCHANGED <<file, lo, hi>>
           /\ GiveUp \/ (seek' \in {seek, "found"} /\ target' = target)
<1>1. CASE GiveUp
  BY <1>1 DEF GiveUp, bounds
<1>2. CASE ~ GiveUp
  <2>1. PICK p \in {Position}, frame \in Probed(Position) :
            FindFrame(frame) \/ StepBack(p, frame) \/ Narrow(p, frame)
    BY <1>2 DEF NoFrame, Turn, Stuck
  <2>2. CASE FindFrame(frame)
    BY <2>2 DEF FindFrame, bounds
  <2>3. CASE StepBack(p, frame)
    BY <2>3 DEF StepBack
  <2>4. CASE Narrow(p, frame)
    BY <2>4 DEF Narrow, NarrowUpper, NarrowLower
  <2>5. QED
    BY <2>1, <2>2, <2>3, <2>4
<1>3. QED
  BY <1>1, <1>2

LEMMA RegularStays ==
    ASSUME UNCHANGED <<file, target, lo, hi>>
    PROVE  Regular' <=> Regular
BY DEF Regular, FakesArePassed, Bounded, HasId3, LastIsLong

(* The first flac_seek() gives up only where SeekFinds says so.            *)
LEMMA GivingUp ==
    ASSUME SeekTypeOK, ~ Regular, seek = "search", GiveUp
    PROVE  SeekFinds'
<1>1. /\ file \in Files /\ target \in Nat \ {0} /\ Second \in Nat
  BY SeekAssumption DEF SeekTypeOK
<1>2. UNCHANGED <<file, lo, hi>> /\ target' - Second = target
  BY <1>1 DEF GiveUp
<1>3. Samples(file) \in Nat
  BY <1>1, Layout
<1>4. SUFFICES ASSUME FixedSize(file), target < Samples(file), FakesArePassed,
                      ~ (IF Bounded THEN HasId3 ELSE LastIsLong)
               PROVE  FALSE
  BY <1>1, <1>2, <1>3 DEF SeekFinds, FakesArePassed, Bounded, HasId3, LastIsLong
<1>5. QED
  BY <1>4 DEF Regular

(* In a regular file the frame of the target is between the bounds as long *)
(* as flac_seek() looks for it, and so it is found.                        *)
THEOREM SearchInvariance == SeekSpec => []SeekInv
<1>1. SeekInit => SeekInv
  BY DEF SeekInit, SeekInv, SeekTypeOK, KnownInv, TableInv, BracketInv, SeekFinds
<1>2. SeekInv /\ [SeekNext]_seekVars => SeekInv'
  <2>1. SUFFICES ASSUME SeekInv, [SeekNext]_seekVars PROVE SeekInv'
    OBVIOUS
  <2>2. /\ SeekTypeOK /\ KnownInv /\ TableInv /\ BracketInv /\ SeekFinds
        /\ file \in Files /\ target \in Nat \ {0} /\ needs_seek \in BOOLEAN
    BY <2>1 DEF SeekInv, SeekTypeOK
  <2>3. CASE flac_init
    <3>1. /\ lo' = Bracket(Points(file), target).lo /\ hi' = Bracket(Points(file), target).hi
          /\ seek' \in {"failed", "dead", "first"} /\ UNCHANGED <<file, target, needs_seek>>
          /\ seek' = "first" => Milliseconds(file.info) # 0
      BY <2>3 DEF flac_init, bounds
    <3>2. SeekTypeOK' /\ BracketInv' /\ SeekFinds'
      BY <2>2, <3>1 DEF SeekTypeOK, BracketInv, SeekFinds
    <3>3. Count' = Count /\ \A k : First(k)' = First(k) /\ EntryOf(k)' = EntryOf(k)
      BY <3>1 DEF Count, At, First, EntryOf
    <3>4. ASSUME Bounded'
          PROVE  \E i, j \in 1 .. Count : /\ lo' = EntryOf(i) /\ First(i) <= target
                                          /\ hi' = EntryOf(j) /\ target < First(j)
      <4>1. lo'.sample < hi'.sample
        BY <3>4 DEF Bounded
      <4>2. QED
        BY <2>2, <3>1, <4>1, BracketFacts
    <3>5. TableInv'
      BY <3>1, <3>3, <3>4 DEF TableInv
    <3>6. KnownInv'
      BY <3>1, NoSamplesNoTime DEF KnownInv
    <3>7. QED
      BY <3>2, <3>5, <3>6 DEF SeekInv
  <2>4. CASE Begin
    <3>1. /\ UNCHANGED <<file, target, lo, hi>> /\ needs_seek' = TRUE
          /\ seek' = IF seek = "first" THEN "search" ELSE "retry"
      BY <2>4 DEF Begin
    <3>2. SeekTypeOK' /\ KnownInv' /\ TableInv' /\ SeekFinds'
      BY <2>2, <3>1 DEF SeekTypeOK, KnownInv, TableInv, SeekFinds
    <3>3. BracketInv'
      <4>1. SUFFICES ASSUME seek = "first", Regular PROVE \E T \in 1 .. Count' : Enclosing(T)'
        BY <3>1, RegularStays DEF BracketInv
      <4>2. Count' = Count
        BY <3>1 DEF Count
      <4>3. QED
        BY <2>2, <2>4, <4>1, <4>2, Begins
    <3>4. QED
      BY <3>2, <3>3 DEF SeekInv
  <2>5. CASE NoFrame \/ Turn
    <3>1. seek \in {"search", "retry"} /\ flac_seek
      BY <2>5 DEF NoFrame, Turn, Searching, flac_seek
    <3>2. CASE seek = "search" /\ Regular
      <4>1. PICK T \in 1 .. Count : Enclosing(T)
        BY <2>2, <3>2 DEF BracketInv
      <4>2. /\ seek' \in {"search", "found"} /\ UNCHANGED <<file, target, lo, hi>>
            /\ needs_seek' \in BOOLEAN
            /\ seek' = "search" => Enclosing(T)'
        BY <2>2, <3>1, <3>2, <4>1, Turns
      <4>3. Count' = Count
        BY <4>2 DEF Count
      <4>4. QED
        BY <2>2, <4>1, <4>2, <4>3 DEF SeekInv, SeekTypeOK, KnownInv, TableInv, BracketInv, SeekFinds
    <3>3. CASE ~ (seek = "search" /\ Regular)
      <4>1. /\ needs_seek' \in BOOLEAN /\ UNCHANGED <<file, lo, hi>>
            /\ GiveUp \/ (seek' \in {seek, "found"} /\ target' = target)
        BY <2>2, <2>5, Outcomes
      <4>2. CASE GiveUp
        <5>1. /\ seek' \in {"again", "failed"}
              /\ seek' = "again" => seek = "search"
              /\ target' \in Nat \ {0}
          <6>1. Second \in Nat
            BY SeekAssumption
          <6>2. QED
            BY <2>2, <4>2, <6>1 DEF GiveUp
        <5>2. SeekTypeOK' /\ KnownInv' /\ TableInv' /\ BracketInv'
          BY <2>2, <4>1, <5>1 DEF SeekTypeOK, KnownInv, TableInv, BracketInv
        <5>3. SeekFinds'
          <6>1. CASE seek = "search"
            BY <2>2, <3>3, <4>2, <6>1, GivingUp
          <6>2. CASE seek # "search"
            BY <5>1, <6>2 DEF SeekFinds
          <6>3. QED
            BY <6>1, <6>2
        <5>4. QED
          BY <5>2, <5>3 DEF SeekInv
      <4>3. CASE seek' \in {seek, "found"} /\ target' = target
        <5>1. SeekTypeOK' /\ KnownInv' /\ TableInv' /\ SeekFinds'
          BY <2>2, <3>1, <4>1, <4>3 DEF SeekTypeOK, KnownInv, TableInv, SeekFinds
        <5>2. BracketInv'
          BY <3>1, <3>3, <4>1, <4>3, RegularStays DEF BracketInv
        <5>3. QED
          BY <5>1, <5>2 DEF SeekInv
      <4>4. QED
        BY <4>1, <4>2, <4>3
    <3>4. QED
      BY <3>2, <3>3
  <2>6. CASE UNCHANGED seekVars
    <3>1. UNCHANGED <<file, target, seek, lo, hi, lower, upper, approx, pos, needs_seek>>
      BY <2>6 DEF seekVars, bounds
    <3>2. (Regular' <=> Regular) /\ (Bounded' <=> Bounded) /\ Count' = Count
      BY <3>1, RegularStays DEF Bounded, Count
    <3>3. \A k : At(k)' = At(k) /\ First(k)' = First(k) /\ EntryOf(k)' = EntryOf(k)
      BY <3>1 DEF Count, At, First, EntryOf
    <3>4. SeekTypeOK' /\ KnownInv' /\ TableInv'
      BY <2>2, <3>1, <3>2, <3>3 DEF SeekTypeOK, KnownInv, TableInv
    <3>5. BracketInv'
      BY <2>2, <3>1, <3>2, <3>3 DEF BracketInv, Enclosing, LowerAt, UpperAt
    <3>6. SeekFinds'
      BY <2>2, <3>1 DEF SeekFinds, FakesArePassed, Bounded, HasId3, LastIsLong
    <3>7. QED
      BY <3>4, <3>5, <3>6 DEF SeekInv
  <2>7. QED
    BY <2>1, <2>3, <2>4, <2>5, <2>6 DEF SeekNext, flac_seek
<1>3. QED
  BY <1>1, <1>2, PTL DEF SeekSpec

(* Which seeks find their frame at once: flac/main.c 302-462.              *)
THEOREM SeekFindsItsFrame == SeekSpec => []SeekFinds
<1>1. SeekInv => SeekFinds
  BY DEF SeekInv
<1>2. QED
  BY <1>1, SearchInvariance, PTL
-----------------------------------------------------------------------------
(* Why a search comes to an end, in every file: each step makes the first  *)
(* of four numbers smaller that it does not leave as it is.  The numbers   *)
(* are how far the two calls of flac_seek() have come, whether the bounds  *)
(* are still the ones it began with, how many samples are between them,    *)
(* and how far in front of the lower one the place to look at next is.     *)
Stage == CASE seek = "open"   -> 5
           [] seek = "first"  -> 4
           [] seek = "search" -> 3
           [] seek = "again"  -> 2
           [] seek = "retry"  -> 1
           [] seek \in {"found", "failed", "dead"} -> 0
Unturned == IF first_seek THEN 1 ELSE 0
Apart    == IF lower.sample < upper.sample THEN upper.sample - lower.sample ELSE 0
InFront  == IF BoundsAreOk /\ lower.pos < Interpolated THEN Interpolated - lower.pos ELSE 0
Measure  == <<Stage, Unturned, Apart, InFront>>

SearchAdvances == <<Measure', Measure>> \in LexProductOrdering(Less, Nat, 4)

(* What the steps of a search go on: what SearchAdvances compares.         *)
BoundsInv ==
    /\ first_seek \in BOOLEAN /\ approx \in Nat
    /\ {lower.pos, lower.sample, upper.pos, upper.sample} \subseteq Int
    /\ seek # "open" /\ Bounded => {lo.sample, lo.offset, hi.sample, hi.offset} \subseteq Int
    /\ Searching => approx # 0

LEMMA Lexicographic ==
    ASSUME NEW a1 \in Nat, NEW a2 \in Nat, NEW a3 \in Nat, NEW a4 \in Nat,
           NEW b1 \in Nat, NEW b2 \in Nat, NEW b3 \in Nat, NEW b4 \in Nat,
           \/ a1 < b1
           \/ a1 = b1 /\ a2 < b2
           \/ a1 = b1 /\ a2 = b2 /\ a3 < b3
           \/ a1 = b1 /\ a2 = b2 /\ a3 = b3 /\ a4 < b4
    PROVE  <<<<a1, a2, a3, a4>>, <<b1, b2, b3, b4>>>> \in LexProductOrdering(Less, Nat, 4)
<1> DEFINE a == <<a1, a2, a3, a4>>
           b == <<b1, b2, b3, b4>>
<1>1. <<a, b>> \in [1 .. 4 -> Nat] \X [1 .. 4 -> Nat]
  OBVIOUS
<1>2. \E j \in 1 .. 4 : /\ \A i \in 1 .. (j - 1) : a[i] = b[i]
                        /\ <<a[j], b[j]>> \in Less
  <2>1. CASE a1 < b1
    <3>1. \A i \in 1 .. (1 - 1) : a[i] = b[i]
      OBVIOUS
    <3>2. <<a[1], b[1]>> \in Less
      BY <2>1 DEF Less
    <3>3. QED
      BY <3>1, <3>2
  <2>2. CASE a1 = b1 /\ a2 < b2
    <3>1. \A i \in 1 .. (2 - 1) : a[i] = b[i]
      BY <2>2
    <3>2. <<a[2], b[2]>> \in Less
      BY <2>2 DEF Less
    <3>3. QED
      BY <3>1, <3>2
  <2>3. CASE a1 = b1 /\ a2 = b2 /\ a3 < b3
    <3>1. \A i \in 1 .. (3 - 1) : a[i] = b[i]
      BY <2>3
    <3>2. <<a[3], b[3]>> \in Less
      BY <2>3 DEF Less
    <3>3. QED
      BY <3>1, <3>2
  <2>4. CASE a1 = b1 /\ a2 = b2 /\ a3 = b3 /\ a4 < b4
    <3>1. \A i \in 1 .. (4 - 1) : a[i] = b[i]
      BY <2>4
    <3>2. <<a[4], b[4]>> \in Less
      BY <2>4 DEF Less
    <3>3. QED
      BY <3>1, <3>2
  <2>5. QED
    BY <2>1, <2>2, <2>3, <2>4
<1>3. QED
  BY <1>1, <1>2 DEF LexProductOrdering

(* There is no endless row of steps that each make the measure smaller.    *)
THEOREM SearchIsWellFounded == IsWellFoundedOn(LexProductOrdering(Less, Nat, 4), [1 .. 4 -> Nat])
BY LessWF, WFLexProductOrdering
(* The numbers that a search goes by.                                      *)
LEMMA FileNumbers ==
    ASSUME file \in Files, target \in Nat
    PROVE  /\ metadatalength(file) \in Nat /\ file.size \in Nat /\ LastSample \in Nat
           /\ \A x \in DOMAIN Points(file) : /\ Points(file)[x].sample \in Int
                                             /\ Points(file)[x].offset \in Int
<1>1. /\ Count \in Nat \ {0} /\ metadatalength(file) \in Nat
      /\ \A k \in 1 .. Count + 1 : At(k) \in Nat /\ First(k) \in Nat
      /\ At(Count + 1) = file.size /\ First(Count + 1) = Samples(file)
  BY Layout
<1>2. Count + 1 \in 1 .. Count + 1
  BY <1>1
<1>3. file.size \in Nat /\ Samples(file) \in Nat
  BY <1>1, <1>2
<1>4. LastSample \in Nat
  <2>1. file.info.totalsamples \in {0, Samples(file)}
    BY FilesAssumption
  <2>2. QED
    BY <1>3, <2>1 DEF LastSample
<1>5. ASSUME NEW x \in DOMAIN Points(file)
      PROVE  Points(file)[x].sample \in Int /\ Points(file)[x].offset \in Int
  <2>1. PICK k \in 1 .. Count : Points(file)[x] = EntryOf(k)
    BY Entries
  <2>2. At(k) \in Nat /\ First(k) \in Nat /\ At(1) \in Nat
    BY <1>1
  <2>3. QED
    BY <2>1, <2>2 DEF EntryOf
<1>6. QED
  BY <1>1, <1>3, <1>4, <1>5

LEMMA FrameNumbers ==
    ASSUME file \in Files, NEW p, NEW frame \in Probed(p)
    PROVE  frame.at \in Nat /\ frame.first \in Nat /\ frame.samples \in Nat \ {0} /\ frame.bytes \in Nat \ {0}
<1> DEFINE Frame == [at : Nat, first : Nat, samples : Nat \ {0}, bytes : Nat \ {0}]
<1>1. file.frames \in Seq(Frame)
  BY FilesAssumption
<1>2. frame \in Frame
  <2>1. frame \in Range(file.frames)
    BY DEF Probed
  <2>2. PICK k \in DOMAIN file.frames : frame = file.frames[k]
    BY <2>1 DEF Range
  <2> HIDE DEF Frame
  <2>3. QED
    BY <1>1, <2>2
<1>3. QED
  BY <1>2

LEMMA ShareIsInt ==
    ASSUME target \in Int, lower.pos \in Int, lower.sample \in Int,
           upper.pos \in Int, upper.sample \in Int, BoundsAreOk
    PROVE  ((target - lower.sample) * (upper.pos - lower.pos)) \div (upper.sample - lower.sample) \in Int
<1> DEFINE x == (target - lower.sample) * (upper.pos - lower.pos)
           y == upper.sample - lower.sample
<1>1. y \in Nat \ {0}
  BY DEF BoundsAreOk
<1>2. x \in Int
  OBVIOUS
<1>3. x \div y \in Int
  <2> HIDE DEF x, y
  <2>1. QED
    BY <1>1, <1>2
<1>4. QED
  BY <1>3

LEMMA InterpolatedIsInt ==
    ASSUME target \in Int, lower.pos \in Int, lower.sample \in Int,
           upper.pos \in Int, upper.sample \in Int, approx \in Nat, BoundsAreOk
    PROVE  Interpolated \in Int
<1> DEFINE share == ((target - lower.sample) * (upper.pos - lower.pos)) \div (upper.sample - lower.sample)
<1>1. share \in Int
  BY ShareIsInt
<1>2. Interpolated = lower.pos - approx + share
  BY DEF Interpolated
<1> HIDE DEF share
<1>3. QED
  BY <1>1, <1>2

(* What a turn of the loop does to the bounds: it narrows them, or goes    *)
(* back from where it looked.                                              *)
LEMMA TurnsOfTheLoop ==
    ASSUME SeekTypeOK, BoundsInv, Turn
    PROVE  \/ GiveUp
           \/ seek' = "found" /\ UNCHANGED <<lo, hi, bounds>>
           \/ /\ UNCHANGED <<file, target, seek, lo, hi>> /\ first_seek' = FALSE
              /\ \/ /\ ~ first_seek /\ UNCHANGED <<lower, upper>>
                    /\ approx' = approx * 2 /\ lower.pos < Interpolated
                 \/ /\ {lower'.pos, lower'.sample, upper'.pos, upper'.sample} \subseteq Int
                    /\ approx' \in Nat \ {0}
                    /\ ~ first_seek => upper'.sample - lower'.sample < upper.sample - lower.sample
<1>1. PICK frame \in Probed(Position) :
          FindFrame(frame) \/ Stuck(Position, frame) \/ StepBack(Position, frame) \/ Narrow(Position, frame)
  BY DEF Turn
<1>2. /\ file \in Files /\ target \in Nat /\ BoundsAreOk
      /\ approx \in Nat \ {0} /\ first_seek \in BOOLEAN
      /\ lower.pos \in Int /\ lower.sample \in Int /\ upper.pos \in Int /\ upper.sample \in Int
  <2>1. Searching /\ BoundsAreOk
    BY Zenon DEF Turn
  <2>2. file \in Files /\ target \in Nat
    BY Zenon DEF SeekTypeOK
  <2>3. QED
    BY <2>1, <2>2 DEF BoundsInv
<1>3. frame.at \in Nat /\ frame.first \in Nat /\ frame.samples \in Nat \ {0} /\ frame.bytes \in Nat \ {0}
  BY <1>2, FrameNumbers
<1>4. CASE FindFrame(frame)
  BY <1>4 DEF FindFrame, bounds
<1>5. CASE Stuck(Position, frame)
  BY <1>5 DEF Stuck
<1>6. CASE StepBack(Position, frame)
  <2>1. /\ ~ first_seek /\ needs_seek /\ Position # lower.pos
        /\ UNCHANGED <<file, target, seek, lo, hi, lower, upper, first_seek>> /\ approx' = approx * 2
    BY <1>6 DEF StepBack, Beyond
  <2>2. lower.pos < Interpolated
    <3> DEFINE i == Interpolated
               low == IF i <= upper.pos - 1 THEN i ELSE upper.pos - 1
    <3>1. i \in Int
      BY <1>2, InterpolatedIsInt
    <3> HIDE DEF i
    <3>2. Min({i, upper.pos - 1}) = low
      <4>1. {i, upper.pos - 1} \in SUBSET Int /\ low \in {i, upper.pos - 1}
        BY <1>2, <3>1
      <4>2. \A y \in {i, upper.pos - 1} : low <= y
        BY <1>2, <3>1
      <4> HIDE DEF low
      <4>3. QED
        BY <4>1, <4>2, MinIs
    <3>3. low \in Int /\ low <= i
      BY <1>2, <3>1
    <3> HIDE DEF low
    <3>4. Max({low, lower.pos}) = IF low >= lower.pos THEN low ELSE lower.pos
      BY <1>2, <3>3, MaxIs
    <3>5. Position = Max({low, lower.pos})
      BY <2>1, <3>2, Zenon DEF Position, i
    <3>6. lower.pos < i
      BY <1>2, <2>1, <3>1, <3>3, <3>4, <3>5
    <3>7. QED
      BY <3>6 DEF i
  <2>3. QED
    BY <2>1, <2>2
<1>7. CASE Narrow(Position, frame)
  <2>1. /\ approx' = frame.samples * RawBytes + Slack /\ first_seek' = FALSE
        /\ UNCHANGED <<file, target, seek, lo, hi>>
        /\ ~ Beyond(frame) /\ ~ Astray(frame)
        /\ NarrowUpper(Position, frame) \/ NarrowLower(Position, frame)
    BY <1>7 DEF Narrow
  <2>2. approx' \in Nat \ {0}
    <3>1. RawBytes \in Nat /\ Slack \in Nat \ {0}
      BY SeekAssumption
    <3>2. frame.samples * RawBytes \in Nat
      BY <1>3, <3>1
    <3>3. QED
      BY <2>1, <3>1, <3>2
  <2>3. /\ frame.first >= lower.sample
        /\ ~ first_seek => frame.first + frame.samples < upper.sample
    BY <1>2, <1>3, <2>1 DEF Beyond, Astray
  <2>4. CASE NarrowUpper(Position, frame)
    <3>1. lower' = lower /\ upper' = [pos |-> frame.at, sample |-> frame.first]
      BY <2>4 DEF NarrowUpper
    <3>2. upper'.pos = frame.at /\ upper'.sample = frame.first
      BY <3>1
    <3>3. QED
      BY <1>2, <1>3, <2>1, <2>2, <2>3, <3>1, <3>2
  <2>5. CASE NarrowLower(Position, frame)
    <3>1. /\ upper' = upper
          /\ lower' = [pos |-> frame.at + frame.bytes, sample |-> frame.first + frame.samples]
      BY <2>5 DEF NarrowLower
    <3>2. lower'.pos = frame.at + frame.bytes /\ lower'.sample = frame.first + frame.samples
      BY <3>1
    <3>3. QED
      BY <1>2, <1>3, <2>1, <2>2, <2>3, <3>1, <3>2
  <2>6. QED
    BY <2>1, <2>4, <2>5
<1>8. QED
  BY <1>1, <1>4, <1>5, <1>6, <1>7
LEMMA BoundsStay ==
    ASSUME SeekTypeOK, BoundsInv, [SeekNext]_seekVars
    PROVE  BoundsInv'
<1>1. /\ file \in Files /\ target \in Nat \ {0}
      /\ seek \in {"open", "first", "search", "again", "retry", "found", "failed", "dead"}
  BY DEF SeekTypeOK
<1>2. /\ first_seek \in BOOLEAN /\ approx \in Nat
      /\ {lower.pos, lower.sample, upper.pos, upper.sample} \subseteq Int
  BY DEF BoundsInv
<1>3. CASE flac_init
  <2>1. /\ UNCHANGED <<lower, upper, approx, first_seek>> /\ ~ Searching'
        /\ lo' = Bracket(Points(file), target).lo /\ hi' = Bracket(Points(file), target).hi
    BY <1>3 DEF flac_init, bounds, Searching
  <2>2. ASSUME Bounded' PROVE {lo'.sample, lo'.offset, hi'.sample, hi'.offset} \subseteq Int
    <3>1. lo'.sample < hi'.sample
      BY <2>2 DEF Bounded
    <3>2. PICK i \in 1 .. Count, j \in 1 .. Count : lo' = EntryOf(i) /\ hi' = EntryOf(j)
      BY <1>1, <2>1, <3>1, BracketFacts
    <3>3. /\ At(1) \in Nat /\ At(i) \in Nat /\ First(i) \in Nat
          /\ At(j) \in Nat /\ First(j) \in Nat
      BY <1>1, Layout
    <3>4. QED
      BY <3>2, <3>3 DEF EntryOf
  <2>3. QED
    BY <1>2, <2>1, <2>2 DEF BoundsInv
<1>4. CASE Begin
  <2>1. /\ UNCHANGED <<file, lo, hi>> /\ seek \in {"first", "again"} /\ first_seek' = TRUE
        /\ approx' = Guess(file.info)
        /\ lower' = IF Bounded THEN Bound(lo) ELSE [pos |-> metadatalength(file), sample |-> 0]
        /\ upper' = IF Bounded THEN Bound(hi) ELSE [pos |-> file.size, sample |-> LastSample]
    BY <1>4 DEF Begin
  <2>2. approx' \in Nat \ {0}
    BY <1>1, <2>1, GuessIsPositive
  <2>3. metadatalength(file) \in Nat /\ file.size \in Nat /\ LastSample \in Nat
    BY <1>1, FileNumbers
  <2>4. ASSUME Bounded PROVE {lo.sample, lo.offset, hi.sample, hi.offset} \subseteq Int
    BY <2>1, <2>4 DEF BoundsInv
  <2>5. {lower'.pos, lower'.sample, upper'.pos, upper'.sample} \subseteq Int
    <3>1. CASE Bounded
      BY <2>1, <2>3, <2>4, <3>1 DEF Bound
    <3>2. CASE ~ Bounded
      BY <2>1, <2>3, <3>2
    <3>3. QED
      BY <3>1, <3>2
  <2>6. Bounded' <=> Bounded
    BY <2>1 DEF Bounded
  <2>7. QED
    BY <2>1, <2>2, <2>4, <2>5, <2>6 DEF BoundsInv
<1>5. ASSUME UNCHANGED <<lo, hi>>, seek # "open", Bounded'
      PROVE  {lo'.sample, lo'.offset, hi'.sample, hi'.offset} \subseteq Int
  BY <1>5 DEF BoundsInv, Bounded
<1>6. CASE GiveUp /\ Searching
  <2>1. /\ UNCHANGED <<lo, hi, lower, upper, approx, first_seek>> /\ ~ Searching'
    BY <1>6 DEF GiveUp, bounds, Searching
  <2>2. seek # "open"
    BY <1>6 DEF Searching
  <2>3. QED
    BY <1>2, <1>5, <2>1, <2>2 DEF BoundsInv
<1>7. CASE Turn
  <2>1. Searching /\ seek # "open" /\ approx \in Nat \ {0}
    BY <1>7 DEF Turn, Searching, BoundsInv
  <2>2. CASE GiveUp
    BY <1>6, <2>1, <2>2
  <2>3. CASE seek' = "found" /\ UNCHANGED <<lo, hi, bounds>>
    BY <1>2, <1>5, <2>1, <2>3 DEF BoundsInv, Searching, bounds
  <2>4. CASE ~ GiveUp /\ ~ (seek' = "found" /\ UNCHANGED <<lo, hi, bounds>>)
    <3>1. /\ UNCHANGED <<lo, hi>> /\ first_seek' = FALSE
          /\ \/ UNCHANGED <<lower, upper>> /\ approx' = approx * 2
             \/ /\ {lower'.pos, lower'.sample, upper'.pos, upper'.sample} \subseteq Int
                /\ approx' \in Nat \ {0}
      BY <1>7, <2>4, TurnsOfTheLoop
    <3>2. approx * 2 \in Nat \ {0}
      BY <2>1
    <3>3. approx' \in Nat \ {0} /\ {lower'.pos, lower'.sample, upper'.pos, upper'.sample} \subseteq Int
      BY <1>2, <3>1, <3>2
    <3>4. QED
      BY <1>5, <2>1, <3>1, <3>3 DEF BoundsInv
  <2>5. QED
    BY <2>2, <2>3, <2>4
<1>8. CASE UNCHANGED seekVars
  BY <1>8 DEF BoundsInv, seekVars, bounds, Bounded, Searching
<1>9. QED
  BY <1>3, <1>4, <1>6, <1>7, <1>8 DEF SeekNext, flac_seek, NoFrame

LEMMA BoundsInvariance == SeekSpec => [](SeekTypeOK /\ BoundsInv)
<1>1. SeekInit => BoundsInv
  BY DEF SeekInit, BoundsInv, Searching
<1>2. SeekTypeOK /\ BoundsInv /\ [SeekNext]_seekVars => BoundsInv'
  BY BoundsStay
<1>3. SeekInv => SeekTypeOK
  BY DEF SeekInv
<1>4. QED
  BY <1>1, <1>2, <1>3, SearchInvariance, PTL DEF SeekSpec

(* The measure is of natural numbers.                                      *)
LEMMA MeasureIsNat ==
    SeekTypeOK /\ BoundsInv => /\ Stage \in Nat /\ Unturned \in Nat
                               /\ Apart \in Nat /\ InFront \in Nat
<1>1. SUFFICES ASSUME SeekTypeOK, BoundsInv
               PROVE  Stage \in Nat /\ Unturned \in Nat /\ Apart \in Nat /\ InFront \in Nat
  OBVIOUS
<1>2. /\ seek \in {"open", "first", "search", "again", "retry", "found", "failed", "dead"}
      /\ target \in Nat
  BY <1>1 DEF SeekTypeOK
<1>3. /\ lower.pos \in Int /\ lower.sample \in Int /\ upper.pos \in Int /\ upper.sample \in Int
      /\ approx \in Nat
  BY <1>1 DEF BoundsInv
<1>4. Stage \in Nat
  BY <1>2 DEF Stage
<1>5. Unturned \in Nat /\ Apart \in Nat
  BY <1>3 DEF Unturned, Apart
<1>6. InFront \in Nat
  BY <1>2, <1>3, InterpolatedIsInt DEF InFront
<1>7. QED
  BY <1>4, <1>5, <1>6

(* Each step of a search makes its measure smaller: flac/main.c 302-462.   *)
THEOREM EverySearchAdvances == SeekSpec => [][SearchAdvances]_seekVars
<1> DEFINE Inv == SeekTypeOK /\ BoundsInv
           Numbers == Stage \in Nat /\ Unturned \in Nat /\ Apart \in Nat /\ InFront \in Nat
<1>1. ASSUME Inv, Numbers, Numbers', SeekNext PROVE SearchAdvances
  <2>1. /\ seek \in {"open", "first", "search", "again", "retry", "found", "failed", "dead"}
        /\ SeekTypeOK /\ BoundsInv
    BY <1>1 DEF SeekTypeOK
  <2>2. ASSUME \/ Stage' < Stage
               \/ Stage' = Stage /\ Unturned' < Unturned
               \/ Stage' = Stage /\ Unturned' = Unturned /\ Apart' < Apart
               \/ /\ Stage' = Stage /\ Unturned' = Unturned /\ Apart' = Apart
                  /\ InFront' < InFront
        PROVE  SearchAdvances
    BY <1>1, <2>2, Lexicographic DEF SearchAdvances, Measure
  <2>3. CASE flac_init \/ Begin
    <3>1. \/ seek = "open" /\ seek' \in {"failed", "dead", "first"}
          \/ seek = "first" /\ seek' = "search"
          \/ seek = "again" /\ seek' = "retry"
      BY <2>3 DEF flac_init, Begin
    <3>2. Stage' < Stage
      BY <3>1 DEF Stage
    <3>3. QED
      BY <2>2, <3>2
  <2>4. CASE GiveUp /\ Searching
    <3>1. \/ seek = "search" /\ seek' = "again"
          \/ seek = "retry" /\ seek' = "failed"
      BY <2>4 DEF GiveUp, Searching
    <3>2. Stage' < Stage
      BY <3>1 DEF Stage
    <3>3. QED
      BY <2>2, <3>2
  <2>5. CASE Turn /\ seek' = "found"
    <3>1. seek \in {"search", "retry"}
      BY <2>5 DEF Turn, Searching
    <3>2. Stage' < Stage
      BY <2>5, <3>1 DEF Stage
    <3>3. QED
      BY <2>2, <3>2
  <2>6. CASE Turn /\ ~ GiveUp /\ seek' # "found"
    <3>1. /\ BoundsAreOk /\ lower.pos \in Int /\ lower.sample \in Int
          /\ upper.pos \in Int /\ upper.sample \in Int /\ first_seek \in BOOLEAN
          /\ approx \in Nat \ {0}
      BY <2>1, <2>6 DEF Turn, BoundsInv
    <3>2. /\ seek' = seek /\ target' = target /\ first_seek' = FALSE
          /\ \/ /\ ~ first_seek /\ UNCHANGED <<lower, upper>>
                /\ approx' = approx * 2 /\ lower.pos < Interpolated
             \/ /\ {lower'.sample, upper'.sample} \subseteq Int
                /\ ~ first_seek => upper'.sample - lower'.sample < upper.sample - lower.sample
      BY <2>1, <2>6, TurnsOfTheLoop
    <3>3. Stage' = Stage
      BY <3>2 DEF Stage
    <3>4. CASE first_seek
      <4>1. Unturned' < Unturned
        BY <3>2, <3>4 DEF Unturned
      <4>2. QED
        BY <2>2, <3>3, <4>1
    <3>5. CASE ~ first_seek /\ upper'.sample - lower'.sample < upper.sample - lower.sample
               /\ {lower'.sample, upper'.sample} \subseteq Int
      <4>1. Unturned' = Unturned
        BY <3>2, <3>5 DEF Unturned
      <4>2. Apart' < Apart
        BY <3>1, <3>5 DEF Apart, BoundsAreOk
      <4>3. QED
        BY <2>2, <3>3, <4>1, <4>2
    <3>6. CASE /\ ~ first_seek /\ UNCHANGED <<lower, upper>>
               /\ approx' = approx * 2 /\ lower.pos < Interpolated
      <4>1. Unturned' = Unturned /\ Apart' = Apart /\ (BoundsAreOk' <=> BoundsAreOk)
        BY <3>2, <3>6 DEF Unturned, Apart, BoundsAreOk
      <4>2. Interpolated \in Int /\ Interpolated' = Interpolated - approx
        <5>1. Interpolated \in Int /\ target \in Nat
          BY <2>1, <3>1, InterpolatedIsInt DEF SeekTypeOK
        <5> DEFINE share == ((target - lower.sample) * (upper.pos - lower.pos)) \div (upper.sample - lower.sample)
        <5>2. Interpolated = lower.pos - approx + share
          BY DEF Interpolated
        <5>3. Interpolated' = lower.pos - approx * 2 + share
          BY <3>2, <3>6 DEF Interpolated
        <5>4. share \in Int
          BY <3>1, <5>1, ShareIsInt
        <5> HIDE DEF share
        <5>5. QED
          BY <3>1, <5>1, <5>2, <5>3, <5>4
      <4>3. InFront' < InFront
        BY <3>1, <3>6, <4>1, <4>2 DEF InFront
      <4>4. QED
        BY <2>2, <3>3, <4>1, <4>3
    <3>7. QED
      BY <3>1, <3>2, <3>4, <3>5, <3>6
  <2>7. QED
    BY <1>1, <2>3, <2>4, <2>5, <2>6 DEF SeekNext, flac_seek, NoFrame, Turn
<1>2. Inv => Numbers
  BY MeasureIsNat
<1>3. SeekSpec => []Inv
  BY BoundsInvariance
<1> HIDE DEF Inv, Numbers
<1>4. Inv /\ Numbers /\ Numbers' /\ [SeekNext]_seekVars => [SearchAdvances]_seekVars
  BY <1>1
<1>5. QED
  BY <1>2, <1>3, <1>4, PTL DEF SeekSpec
-----------------------------------------------------------------------------
(* What the reading of a cue sheet goes by: before the sheet the rate that *)
(* is told last; in it the place of the next track, and the starts of the  *)
(* tracks before that one.                                                 *)
CueTypeOK ==
    /\ cuefile \in CueFiles
    /\ cue \in [state : {"open", "blocks", "tracks", "returned"}, block : Nat \ {0},
                samplerate : Nat, p : Nat, i : Nat, times : Seq(Nat)]
RateIsKnown == \/ RatesAt(cue.block) = {cue.samplerate}
               \/ RatesAt(cue.block) = {} /\ cue.samplerate = 0
NoSheetBefore(n) == \A j \in 1 .. n - 1 : cuefile.blocks[j].type # BLOCK_CUESHEET

Album == cuefile.blocks[cue.block].album
TimesUpTo(album, i) ==
    /\ Len(cue.times) = Cardinality(UpTo(album, i))
    /\ \A k \in UpTo(album, i) : /\ Cardinality(UpTo(album, k)) \in 1 .. Len(cue.times)
                                 /\ cue.times[Cardinality(UpTo(album, k))] \in StartsAt(album[k], cue.samplerate)
Unread == cue.i = 0 /\ cue.times = <<>>
CueInv ==
    /\ CueTypeOK
    /\ cue.state = "open" => Unread /\ cue.block = 1 /\ cue.samplerate = 0
    /\ cue.state = "blocks" => Unread /\ IsFlac /\ NoSheetBefore(cue.block) /\ RateIsKnown
    /\ cue.state = "tracks" =>
          /\ cue.block \in SheetsRead /\ RateIsKnown
          /\ cue.i \in 0 .. Len(Album) /\ cue.p = PlaceOf(Album, cue.i + 1)
          /\ TimesUpTo(Album, cue.i)
    /\ CueGivesTheTracks

(* The words of a track are read as what the album says of it.             *)
LEMMA CueFacts ==
    ASSUME cuefile \in CueFiles
    PROVE  /\ Len(cuefile.blocks) \in Nat /\ DOMAIN cuefile.blocks = 1 .. Len(cuefile.blocks)
           /\ \A k \in DOMAIN cuefile.blocks :
                /\ cuefile.blocks[k].samplerate \in Nat
                /\ Len(cuefile.blocks[k].album) \in Nat
                /\ DOMAIN cuefile.blocks[k].album = 1 .. Len(cuefile.blocks[k].album)
                /\ cuefile.blocks[k].type = BLOCK_CUESHEET
                     => IsSheetOf(cuefile.blocks[k].words, cuefile.blocks[k].album)
<1>1. ASSUME NEW k \in DOMAIN cuefile.blocks
      PROVE  /\ Len(cuefile.blocks[k].album) \in Nat
             /\ DOMAIN cuefile.blocks[k].album = 1 .. Len(cuefile.blocks[k].album)
  <2> DEFINE Track == [at : Nat, offset : Nat, number : Nat, indices : Seq([offset : Nat, number : Nat])]
  <2>1. cuefile.blocks[k].album \in Seq(Track)
    BY CueAssumption
  <2> HIDE DEF Track
  <2>2. QED
    BY <2>1
<1>2. QED
  BY <1>1, CueAssumption

LEMMA TrackFacts ==
    ASSUME cuefile \in CueFiles, NEW n \in DOMAIN cuefile.blocks,
           NEW k \in DOMAIN cuefile.blocks[n].album,
           NEW t, t = cuefile.blocks[n].album[k]
    PROVE  /\ t.at \in Nat /\ t.offset \in Nat /\ t.number \in Nat
           /\ Len(t.indices) \in Nat /\ DOMAIN t.indices = 1 .. Len(t.indices)
           /\ \A j \in DOMAIN t.indices : t.indices[j].offset \in Nat /\ t.indices[j].number \in Nat
<1> DEFINE Index == [offset : Nat, number : Nat]
           Track == [at : Nat, offset : Nat, number : Nat, indices : Seq(Index)]
<1>1. cuefile.blocks[n].album \in Seq(Track)
  BY CueAssumption
<1>2. t \in Track
  <2> HIDE DEF Track
  <2>1. QED
    BY <1>1
<1>3. t.at \in Nat /\ t.offset \in Nat /\ t.number \in Nat /\ t.indices \in Seq(Index)
  <2> HIDE DEF Index
  <2>1. QED
    BY <1>2
<1>4. Len(t.indices) \in Nat /\ DOMAIN t.indices = 1 .. Len(t.indices)
      /\ \A j \in DOMAIN t.indices : t.indices[j] \in Index
  <2> HIDE DEF Index
  <2>1. QED
    BY <1>3
<1>5. QED
  BY <1>3, <1>4

LEMMA WordsOfTrack ==
    ASSUME cuefile \in CueFiles, AtBlock \/ cue.block \in DOMAIN cuefile.blocks,
           Block.type = BLOCK_CUESHEET, cue.samplerate \in Nat,
           NEW k \in DOMAIN Album, NEW p, p = PlaceOf(Album, k)
    PROVE  /\ IsTrack(p) <=> Album[k].number <= 99
           /\ StartOf(p) = StartsAt(Album[k], cue.samplerate)
           /\ NextTrack(p) = PlaceOf(Album, k + 1)
<1> DEFINE t == Album[k]
           place == [j \in DOMAIN t.indices |-> PlaceOfIndex(t, j)]
<1>1. cue.block \in DOMAIN cuefile.blocks /\ Album = Block.album
  BY DEF AtBlock, Album, Block
<1>2. /\ t.at \in Nat /\ t.offset \in Nat /\ t.number \in Nat
      /\ Len(t.indices) \in Nat /\ DOMAIN t.indices = 1 .. Len(t.indices)
      /\ \A j \in DOMAIN t.indices : t.indices[j].offset \in Nat /\ t.indices[j].number \in Nat
  BY <1>1, TrackFacts DEF Album
<1>3. /\ p = t.at
      /\ Block.words[p] = t.offset /\ Block.words[p + 1] = t.number /\ Block.words[p + 2] = Len(t.indices)
      /\ \A j \in DOMAIN t.indices : /\ Block.words[PlaceOfIndex(t, j)] = t.indices[j].offset
                                     /\ Block.words[PlaceOfIndex(t, j) + 1] = t.indices[j].number
  <2>1. IsSheetOf(Block.words, Block.album)
    BY <1>1, CueAssumption DEF Block
  <2>2. QED
    BY <1>1, <2>1 DEF IsSheetOf
<1>4. IsTrack(p) <=> t.number <= 99
  BY <1>3 DEF IsTrack
<1>5. NextTrack(p) = PlaceOf(Album, k + 1)
  <2>1. k \in Nat \ {0}
    BY <1>1, CueFacts DEF Album
  <2>2. k + 1 # 1 /\ (k + 1) - 1 = k
    BY <2>1
  <2>3. QED
    BY <1>2, <1>3, <2>2 DEF NextTrack, IdxPoints, PlaceOf
<1> HIDE DEF t
<1>6. PointsOf(p) = {PlaceOfIndex(t, j) : j \in DOMAIN t.indices}
  <2> DEFINE len == Len(t.indices)
             at  == t.at
  <2>0. /\ len \in Nat /\ at \in Nat /\ DOMAIN t.indices = 1 .. len /\ p = at
        /\ \A j : PlaceOfIndex(t, j) = at + 3 + (j - 1) * 2
    BY <1>2, <1>3 DEF PlaceOfIndex, SIZEOF_CUESHEET_TRACK, SIZEOF_CUESHEET_TRACK_INDEX
  <2> HIDE DEF len, at
  <2>1. ASSUME NEW m \in 0 .. len - 1
        PROVE  /\ m + 1 \in DOMAIN t.indices
               /\ p + SIZEOF_CUESHEET_TRACK + m * SIZEOF_CUESHEET_TRACK_INDEX = PlaceOfIndex(t, m + 1)
    <3>1. m + 1 \in 1 .. len /\ (m + 1) - 1 = m
      BY <2>0
    <3>2. QED
      BY <2>0, <3>1 DEF SIZEOF_CUESHEET_TRACK, SIZEOF_CUESHEET_TRACK_INDEX
  <2>2. ASSUME NEW j \in DOMAIN t.indices
        PROVE  /\ j - 1 \in 0 .. len - 1
               /\ p + SIZEOF_CUESHEET_TRACK + (j - 1) * SIZEOF_CUESHEET_TRACK_INDEX = PlaceOfIndex(t, j)
    <3>1. j \in 1 .. len
      BY <2>0
    <3>2. j - 1 \in 0 .. len - 1
      BY <2>0, <3>1
    <3>3. QED
      BY <2>0, <3>2 DEF SIZEOF_CUESHEET_TRACK, SIZEOF_CUESHEET_TRACK_INDEX
  <2>3. PointsOf(p) = {p + SIZEOF_CUESHEET_TRACK + m * SIZEOF_CUESHEET_TRACK_INDEX : m \in 0 .. len - 1}
    BY <1>3 DEF PointsOf, IdxPoints, len
  <2>4. QED
    BY <2>1, <2>2, <2>3
<1>7. ASSUME NEW j \in DOMAIN t.indices, NEW l \in DOMAIN t.indices
      PROVE  PlaceOfIndex(t, l) < PlaceOfIndex(t, j) <=> l < j
  <2>1. j \in Nat /\ l \in Nat /\ t.at \in Nat
    BY <1>2
  <2>2. PlaceOfIndex(t, l) = t.at + 3 + (l - 1) * 2 /\ PlaceOfIndex(t, j) = t.at + 3 + (j - 1) * 2
    BY DEF PlaceOfIndex, SIZEOF_CUESHEET_TRACK, SIZEOF_CUESHEET_TRACK_INDEX
  <2>3. QED
    BY <2>1, <2>2
<1>8. ASSUME NEW j \in DOMAIN t.indices
      PROVE  PlaceOfIndex(t, j) \in Index01(p) <=> j \in FirstIndex01(t)
  <2>1. PlaceOfIndex(t, j) \in PointsOf(p)
    BY <1>6
  <2>2. (\A r \in PointsOf(p) : r < PlaceOfIndex(t, j) => Block.words[r + 1] # 1)
          <=> \A l \in DOMAIN t.indices : l < j => t.indices[l].number # 1
    BY <1>3, <1>6, <1>7
  <2>3. (\A l \in DOMAIN t.indices : l < j => t.indices[l].number # 1)
          <=> \A l \in 1 .. j - 1 : t.indices[l].number # 1
    <3>1. ASSUME NEW l PROVE l \in 1 .. j - 1 <=> l \in DOMAIN t.indices /\ l < j
      <4> DEFINE len == Len(t.indices)
      <4>1. len \in Nat /\ j \in 1 .. len /\ DOMAIN t.indices = 1 .. len
        BY <1>2
      <4> HIDE DEF len
      <4>2. l \in 1 .. j - 1 <=> l \in 1 .. len /\ l < j
        BY <4>1
      <4>3. QED
        BY <4>1, <4>2
    <3>2. QED
      BY <3>1
  <2>4. QED
    BY <1>3, <2>1, <2>2, <2>3 DEF Index01, FirstIndex01
<1>9. StartOf(p) = StartsAt(t, cue.samplerate)
  <2>1. Index01(p) = {PlaceOfIndex(t, j) : j \in FirstIndex01(t)}
    <3>1. Index01(p) \subseteq PointsOf(p) /\ FirstIndex01(t) \subseteq DOMAIN t.indices
      BY DEF Index01, FirstIndex01
    <3>2. QED
      BY <1>6, <1>8, <3>1
  <2>2. FirstIndex01(t) \subseteq DOMAIN t.indices
    BY DEF FirstIndex01
  <2>3. \A j \in FirstIndex01(t) : Block.words[PlaceOfIndex(t, j)] = t.indices[j].offset
    BY <1>3, <2>2
  <2>4. QED
    BY <1>3, <2>1, <2>3 DEF StartOf, StartsAt
<1>10. QED
  BY <1>4, <1>5, <1>9 DEF t

(* How many tracks are listed up to one.                                   *)
LEMMA UpToFacts ==
    ASSUME NEW album, Len(album) \in Nat, DOMAIN album = 1 .. Len(album), NEW i \in Nat
    PROVE  /\ IsFiniteSet(UpTo(album, i)) /\ Cardinality(UpTo(album, i)) \in Nat
           /\ UpTo(album, 0) = {} /\ UpTo(album, Len(album)) = Listed(album)
           /\ UpTo(album, i + 1) = IF i + 1 \in Listed(album) THEN UpTo(album, i) \cup {i + 1}
                                   ELSE UpTo(album, i)
           /\ i + 1 \notin UpTo(album, i)
<1>1. Listed(album) \subseteq 1 .. Len(album)
  BY DEF Listed
<1>2. IsFiniteSet(UpTo(album, i))
  <2>1. IsFiniteSet(1 .. Len(album))
    BY FS_Interval
  <2>2. UpTo(album, i) \subseteq 1 .. Len(album)
    BY <1>1 DEF UpTo
  <2>3. QED
    BY <2>1, <2>2, FS_Subset
<1>3. Cardinality(UpTo(album, i)) \in Nat
  BY <1>2, FS_CardinalityType
<1>4. \A j \in Listed(album) : j \in Nat /\ 1 <= j /\ j <= Len(album)
  BY <1>1
<1>5. UpTo(album, 0) = {} /\ UpTo(album, Len(album)) = Listed(album)
  BY <1>4 DEF UpTo
<1>6. UpTo(album, i + 1) = IF i + 1 \in Listed(album) THEN UpTo(album, i) \cup {i + 1} ELSE UpTo(album, i)
  <2>1. ASSUME NEW j \in Listed(album) PROVE j <= i + 1 <=> j <= i \/ j = i + 1
    BY <1>4
  <2>2. ~ (i + 1 <= i)
    OBVIOUS
  <2> DEFINE L == Listed(album)
  <2> HIDE DEF L
  <2>3. \A j \in L : j <= i + 1 <=> j <= i \/ j = i + 1
    BY <2>1 DEF L
  <2>4. {j \in L : j <= i + 1} = IF i + 1 \in L THEN {j \in L : j <= i} \cup {i + 1} ELSE {j \in L : j <= i}
    BY <2>3
  <2>5. QED
    BY <2>4 DEF L, UpTo
<1>7. i + 1 \notin UpTo(album, i)
  BY DEF UpTo
<1>8. QED
  BY <1>2, <1>3, <1>5, <1>6, <1>7

(* The sheet that is read is the only one, and its rate the last one told. *)
LEMMA SheetIsRead ==
    ASSUME CueTypeOK, cue.block \in SheetsRead, RateIsKnown
    PROVE  /\ cue.block \in DOMAIN cuefile.blocks /\ Block.type = BLOCK_CUESHEET /\ IsFlac /\ Block.whole
           /\ SheetsRead = {cue.block} /\ RatesAt(cue.block) = {cue.samplerate}
           /\ cue.samplerate \in Nat \ {0}
           /\ Len(Album) \in Nat /\ DOMAIN Album = 1 .. Len(Album) /\ TrackCount = Len(Album)
<1>1. /\ cuefile \in CueFiles /\ cue.samplerate \in Nat
  BY DEF CueTypeOK
<1>2. /\ cue.block \in DOMAIN cuefile.blocks /\ IsFlac /\ IsFirstSheet(cue.block) /\ Block.whole
      /\ \E rate \in RatesAt(cue.block) : rate # 0
  BY DEF SheetsRead, Block
<1>3. RatesAt(cue.block) = {cue.samplerate} /\ cue.samplerate # 0
  BY <1>2 DEF RateIsKnown
<1>4. Block.type = BLOCK_CUESHEET
  BY <1>2 DEF IsFirstSheet, Block
<1>5. DOMAIN cuefile.blocks = 1 .. Len(cuefile.blocks) /\ Len(cuefile.blocks) \in Nat
  BY <1>1, CueFacts
<1>6. ASSUME NEW n \in SheetsRead PROVE n = cue.block
  <2>1. IsFirstSheet(n) /\ n \in Int /\ cue.block \in Int /\ 1 <= n /\ 1 <= cue.block
    BY <1>2, <1>5 DEF SheetsRead
  <2>2. ~ (n < cue.block) /\ ~ (cue.block < n)
    BY <1>2, <2>1 DEF IsFirstSheet
  <2>3. QED
    BY <2>1, <2>2
<1>7. Len(Album) \in Nat /\ DOMAIN Album = 1 .. Len(Album) /\ IsSheetOf(Block.words, Album)
  BY <1>1, <1>2, <1>4, CueFacts DEF Album, Block
<1>8. TrackCount = Len(Album)
  BY <1>7 DEF IsSheetOf, TrackCount
<1>9. QED
  BY <1>1, <1>2, <1>3, <1>4, <1>6, <1>7, <1>8

(* A time is a number of seconds.                                          *)
LEMMA TimeIsNat ==
    ASSUME NEW a \in Nat, NEW b \in Nat, NEW rate \in Nat \ {0}
    PROVE  (a + b) \div rate \in Nat
<1>1. a + b \in Nat
  OBVIOUS
<1>2. ASSUME NEW x \in Nat PROVE x \div rate \in Nat
  OBVIOUS
<1>3. QED
  BY <1>1, <1>2

(* The start of a track is put behind those of the tracks before.          *)
LEMMA TrackIsRead ==
    ASSUME CueTypeOK, cue.block \in SheetsRead, RateIsKnown,
           cue.i \in 0 .. Len(Album), cue.p = PlaceOf(Album, cue.i + 1), TimesUpTo(Album, cue.i),
           CueTrack
    PROVE  /\ UNCHANGED <<cuefile, cue.state, cue.block, cue.samplerate>>
           /\ CueTypeOK'
           /\ cue'.i = cue.i + 1 /\ cue'.i \in 0 .. Len(Album) /\ cue'.p = PlaceOf(Album, cue'.i + 1)
           /\ TimesUpTo(Album, cue.i)'
<1> DEFINE k == cue.i + 1
           album == Album
           s == StartsAt(album[k], cue.samplerate)
           r(n) == Cardinality(UpTo(album, n))
<1>1. /\ cue.block \in DOMAIN cuefile.blocks /\ Block.type = BLOCK_CUESHEET
      /\ cue.samplerate \in Nat \ {0}
      /\ Len(album) \in Nat /\ DOMAIN album = 1 .. Len(album) /\ TrackCount = Len(album)
  BY SheetIsRead
<1>2. /\ cuefile \in CueFiles
      /\ cue \in [state : {"open", "blocks", "tracks", "returned"}, block : Nat \ {0},
                  samplerate : Nat, p : Nat, i : Nat, times : Seq(Nat)]
  BY DEF CueTypeOK
<1>3. k \in DOMAIN album /\ k \in Nat /\ k <= Len(album) /\ cue.i \in Nat
  BY <1>1 DEF CueTrack
<1>4. /\ IsTrack(cue.p) <=> album[k].number <= 99
      /\ StartOf(cue.p) = s /\ NextTrack(cue.p) = PlaceOf(album, k + 1)
  BY <1>1, <1>2, <1>3, WordsOfTrack
<1>5. k \in Listed(album) <=> IsTrack(cue.p) /\ StartOf(cue.p) # {}
  BY <1>3, <1>4 DEF Listed, StartsAt
<1> DEFINE times == IF k \in Listed(album) THEN Append(cue.times, CHOOSE t \in s : TRUE) ELSE cue.times
<1>6. /\ cuefile' = cuefile
      /\ cue' = [cue EXCEPT !.p = PlaceOf(album, k + 1), !.i = k, !.times = times]
  <2>1. /\ cuefile' = cuefile
        /\ cue' = [cue EXCEPT !.p = NextTrack(cue.p), !.i = cue.i + 1,
                     !.times = IF IsTrack(cue.p) /\ StartOf(cue.p) # {}
                               THEN Append(cue.times, CHOOSE t \in StartOf(cue.p) : TRUE) ELSE cue.times]
    BY DEF CueTrack
  <2>2. times = IF IsTrack(cue.p) /\ StartOf(cue.p) # {}
                THEN Append(cue.times, CHOOSE t \in StartOf(cue.p) : TRUE) ELSE cue.times
    <3> HIDE DEF s, album, k
    <3> DEFINE start == StartOf(cue.p)
               c == CHOOSE t \in start : TRUE
               d == CHOOSE t \in s : TRUE
    <3>1. c = d
      <4>1. start = s
        BY <1>4
      <4> HIDE DEF start, s
      <4>2. QED
        BY <4>1, Zenon
    <3>2. k \in Listed(album) <=> IsTrack(cue.p) /\ start # {}
      BY <1>5
    <3>3. times = IF k \in Listed(album) THEN Append(cue.times, d) ELSE cue.times
      OBVIOUS
    <3> HIDE DEF start, d, times
    <3>4. times = IF IsTrack(cue.p) /\ start # {} THEN Append(cue.times, c) ELSE cue.times
      <4> HIDE DEF c
      <4>1. QED
        BY <3>1, <3>2, <3>3
    <3>5. QED
      BY <3>4 DEF start
  <2> HIDE DEF times, s
  <2>3. QED
    BY <1>4, <2>1, <2>2
<1> HIDE DEF times, album, k, s
<1>7. /\ UNCHANGED <<cue.state, cue.block, cue.samplerate>>
      /\ cue'.i = k /\ cue'.p = PlaceOf(album, k + 1) /\ cue'.times = times
  BY <1>2, <1>6
<1>8. album' = album
  BY <1>6, <1>7 DEF album, Album
<1>9. /\ album[k].at \in Nat /\ album[k].offset \in Nat /\ Len(album[k].indices) \in Nat
      /\ \A j \in DOMAIN album[k].indices : album[k].indices[j].offset \in Nat
  BY <1>1, <1>2, <1>3, TrackFacts DEF album, Album
<1>10. PlaceOf(album, k + 1) \in Nat
  <2>1. (k + 1) - 1 = k /\ k + 1 # 1
    BY <1>3 DEF k
  <2> DEFINE a == album[k].at
             l == Len(album[k].indices)
  <2>2. a \in Nat /\ l \in Nat
    BY <1>9
  <2> HIDE DEF a, l
  <2>3. a + 3 + l * 2 \in Nat
    BY <2>2
  <2>4. QED
    BY <2>1, <2>3 DEF PlaceOf, SIZEOF_CUESHEET_TRACK, SIZEOF_CUESHEET_TRACK_INDEX, a, l
<1>11. s \subseteq Nat
  <2>1. ASSUME NEW j \in FirstIndex01(album[k])
        PROVE  (album[k].offset + album[k].indices[j].offset) \div cue.samplerate \in Nat
    <3>1. j \in DOMAIN album[k].indices
      BY DEF FirstIndex01
    <3>2. album[k].offset \in Nat /\ album[k].indices[j].offset \in Nat /\ cue.samplerate \in Nat \ {0}
      BY <1>1, <1>9, <3>1
    <3>3. QED
      BY <3>2, TimeIsNat
  <2>2. QED
    BY <2>1 DEF s, StartsAt
<1>12. k \in Listed(album) => (CHOOSE t \in s : TRUE) \in s
  BY <1>4, <1>5
<1>13. cue.times \in Seq(Nat) /\ times \in Seq(Nat)
  <2>1. cue.times \in Seq(Nat)
    BY <1>2
  <2> DEFINE t == CHOOSE t \in s : TRUE
  <2>2. k \in Listed(album) => t \in Nat
    BY <1>11, <1>12
  <2>3. times = IF k \in Listed(album) THEN Append(cue.times, t) ELSE cue.times
    BY Zenon DEF times
  <2> HIDE DEF t
  <2>4. QED
    BY <2>1, <2>2, <2>3
<1>14. CueTypeOK'
  <2>1. cue' \in [state : {"open", "blocks", "tracks", "returned"}, block : Nat \ {0},
                  samplerate : Nat, p : Nat, i : Nat, times : Seq(Nat)]
    BY <1>2, <1>3, <1>6, <1>10, <1>13
  <2>2. QED
    BY <1>2, <1>6, <2>1 DEF CueTypeOK
<1>15. /\ UpTo(album, k) = IF k \in Listed(album) THEN UpTo(album, cue.i) \cup {k} ELSE UpTo(album, cue.i)
       /\ IsFiniteSet(UpTo(album, cue.i)) /\ k \notin UpTo(album, cue.i)
       /\ r(cue.i) \in Nat
  BY <1>1, <1>3, UpToFacts DEF k
<1>16. /\ Len(cue.times) = r(cue.i)
       /\ \A n \in UpTo(album, cue.i) : /\ r(n) \in 1 .. Len(cue.times)
                                        /\ cue.times[r(n)] \in StartsAt(album[n], cue.samplerate)
  BY DEF TimesUpTo, album
<1>17. /\ Len(times) = r(k)
       /\ \A n \in UpTo(album, k) : /\ r(n) \in 1 .. Len(times)
                                    /\ times[r(n)] \in StartsAt(album[n], cue.samplerate)
  <2>1. CASE k \notin Listed(album)
    BY <1>15, <1>16, <2>1 DEF times
  <2>2. CASE k \in Listed(album)
    <3>1. r(k) = r(cue.i) + 1
      BY <1>15, <2>2, FS_AddElement
    <3> DEFINE t == CHOOSE t \in s : TRUE
    <3>2. times = Append(cue.times, t) /\ t \in s
      BY <1>12, <2>2 DEF times
    <3> HIDE DEF t
    <3>3. /\ Len(times) = Len(cue.times) + 1 /\ Len(cue.times) \in Nat
          /\ times[Len(times)] = t /\ \A n \in 1 .. Len(cue.times) : times[n] = cue.times[n]
      BY <1>11, <1>13, <3>2
    <3>4. ASSUME NEW n \in UpTo(album, cue.i)
          PROVE  r(n) \in 1 .. Len(times) /\ times[r(n)] \in StartsAt(album[n], cue.samplerate)
      <4>1. /\ r(n) \in 1 .. Len(cue.times)
            /\ cue.times[r(n)] \in StartsAt(album[n], cue.samplerate)
        BY <1>16, <3>4
      <4> HIDE DEF r
      <4>2. QED
        BY <3>3, <4>1
    <3>5. r(k) \in 1 .. Len(times) /\ times[r(k)] \in StartsAt(album[k], cue.samplerate)
      <4>1. r(k) = Len(times) /\ r(k) \in 1 .. Len(times)
        BY <1>16, <3>1, <3>3
      <4>2. QED
        BY <3>2, <3>3, <4>1 DEF s
    <3>6. QED
      BY <1>15, <1>16, <2>2, <3>1, <3>3, <3>4, <3>5
  <2>3. QED
    BY <2>1, <2>2
<1>18. TimesUpTo(Album, cue.i)'
  BY <1>7, <1>8, <1>17 DEF TimesUpTo, album
<1>19. cue'.i = cue.i + 1 /\ cue'.i \in 0 .. Len(Album) /\ cue'.p = PlaceOf(Album, cue'.i + 1)
  BY <1>1, <1>3, <1>7 DEF k, album
<1>20. QED
  BY <1>6, <1>7, <1>14, <1>18, <1>19

(* The rate behind a block: its own, or the one in front of it.            *)
LEMMA RatesBehind ==
    ASSUME cuefile \in CueFiles, cue.block \in Nat \ {0}, cue.block \in DOMAIN cuefile.blocks
    PROVE  RatesAt(cue.block + 1) = IF Block.type = BLOCK_STREAMINFO THEN {Block.samplerate}
                                    ELSE RatesAt(cue.block)
<1> DEFINE n == cue.block
           b == cuefile.blocks
           Told(m) == {i \in DOMAIN b : /\ i < m /\ b[i].type = BLOCK_STREAMINFO
                                        /\ \A j \in i + 1 .. m - 1 : b[j].type # BLOCK_STREAMINFO}
<1>1. \A i \in DOMAIN b : i \in Nat
  BY CueFacts
<1>2. n \in DOMAIN b /\ n \in Nat
  OBVIOUS
<1> HIDE DEF n, b
<1>3. CASE b[n].type = BLOCK_STREAMINFO
  <2>1. n \in Told(n + 1)
    BY <1>1, <1>2, <1>3
  <2>2. ASSUME NEW i \in Told(n + 1) PROVE i = n
    BY <1>1, <1>2, <1>3
  <2>3. Told(n + 1) = {n}
    BY <2>1, <2>2, Zenon
  <2>4. {b[i].samplerate : i \in Told(n + 1)} = {b[n].samplerate}
    BY <2>3
  <2>5. QED
    BY <1>3, <2>4 DEF RatesAt, Block, n, b
<1>4. CASE b[n].type # BLOCK_STREAMINFO
  <2>1. ASSUME NEW i \in DOMAIN b PROVE i \in Told(n + 1) <=> i \in Told(n)
    <3>1. CASE i < n
      <4>1. \A j : j \in i + 1 .. (n + 1) - 1 <=> j \in i + 1 .. n - 1 \/ j = n
        BY <1>1, <1>2, <3>1
      <4>2. QED
        BY <1>1, <1>2, <1>4, <3>1, <4>1
    <3>2. CASE ~ (i < n)
      BY <1>1, <1>2, <1>4, <3>2
    <3>3. QED
      BY <3>1, <3>2
  <2>2. Told(n + 1) = Told(n)
    BY <2>1
  <2>3. {b[i].samplerate : i \in Told(n + 1)} = {b[i].samplerate : i \in Told(n)}
    BY <2>2
  <2>4. QED
    BY <1>4, <2>3 DEF RatesAt, Block, n, b
<1>5. QED
  BY <1>3, <1>4

(* Nothing is returned where no sheet is read.                              *)
LEMMA NothingReturned ==
    ASSUME CueTypeOK, cue.times = <<>>, SheetsRead = {}, Return(<<>>), UNCHANGED cuefile
    PROVE  CueInv'
<1>1. cue \in [state : {"open", "blocks", "tracks", "returned"}, block : Nat \ {0},
               samplerate : Nat, p : Nat, i : Nat, times : Seq(Nat)] /\ cuefile \in CueFiles
  BY DEF CueTypeOK
<1>2. cue' = [cue EXCEPT !.state = "returned", !.times = <<>>]
  BY DEF Return
<1>3. <<>> \in Seq(Nat)
  OBVIOUS
<1>4. CueTypeOK' /\ cue'.state = "returned" /\ cue'.times = <<>>
  BY <1>1, <1>2, <1>3 DEF CueTypeOK
<1>5. SheetsRead' = {}
  <2>1. SheetsRead' = SheetsRead
    <3>1. cuefile' = cuefile
      OBVIOUS
    <3>2. QED
      BY <3>1 DEF SheetsRead, IsFlac, IsFirstSheet, RatesAt
  <2>2. SheetsRead = {}
    OBVIOUS
  <2>3. QED
    BY <2>1, <2>2
<1>6. CueGivesTheTracks'
  BY <1>4, <1>5 DEF CueGivesTheTracks
<1>7. QED
  BY <1>4, <1>6 DEF CueInv

(* Every step of flac_read_cue() keeps to it.                               *)
LEMMA CueStep == ASSUME CueInv, [CueNext]_cueVars PROVE CueInv'
<1> DEFINE n == cue.block
<1>1. /\ CueTypeOK /\ cuefile \in CueFiles
      /\ cue \in [state : {"open", "blocks", "tracks", "returned"}, block : Nat \ {0},
                  samplerate : Nat, p : Nat, i : Nat, times : Seq(Nat)]
  BY DEF CueInv, CueTypeOK
<1>2. CASE OpenCueFile
  <2>1. cue.state = "open" /\ Unread /\ n = 1 /\ cue.samplerate = 0 /\ cuefile' = cuefile
    BY <1>2 DEF CueInv, OpenCueFile
  <2>2. CASE IsFlac
    <3>1. cue' = [cue EXCEPT !.state = "blocks"]
      BY <1>2, <2>2 DEF OpenCueFile
    <3>2. CueTypeOK' /\ cue'.state = "blocks" /\ cue'.block = 1 /\ cue'.samplerate = 0 /\ Unread'
      BY <1>1, <2>1, <3>1 DEF CueTypeOK, Unread
    <3>3. IsFlac' /\ NoSheetBefore(cue.block)'
      BY <2>1, <2>2, <3>2 DEF IsFlac, NoSheetBefore
    <3>4. RateIsKnown'
      <4>1. ASSUME NEW i \in DOMAIN cuefile.blocks PROVE ~ (i < 1)
        BY <1>1, CueFacts
      <4>2. RatesAt(1) = {}
        BY <4>1 DEF RatesAt
      <4>3. RatesAt(1)' = RatesAt(1)
        BY <2>1 DEF RatesAt
      <4>4. QED
        BY <3>2, <4>2, <4>3 DEF RateIsKnown, RatesAt
    <3>5. CueGivesTheTracks'
      BY <3>2 DEF CueGivesTheTracks
    <3>6. QED
      BY <3>2, <3>3, <3>4, <3>5 DEF CueInv
  <2>3. CASE ~ IsFlac
    <3>1. SheetsRead = {} /\ cue.times = <<>> /\ Return(<<>>)
      BY <1>2, <2>1, <2>3 DEF OpenCueFile, SheetsRead, Unread
    <3>2. QED
      BY <1>1, <2>1, <3>1, NothingReturned
  <2>4. QED
    BY <2>2, <2>3
<1>3. ASSUME cue.state = "blocks"
      PROVE  Unread /\ IsFlac /\ NoSheetBefore(n) /\ RateIsKnown /\ n \in Nat \ {0}
  BY <1>1, <1>3 DEF CueInv
<1>4. ASSUME AtBlock, Block.type # BLOCK_CUESHEET, cuefile' = cuefile,
             \/ Block.type = BLOCK_STREAMINFO /\ cue' = [cue EXCEPT !.samplerate = Block.samplerate, !.block = n + 1]
             \/ Block.type # BLOCK_STREAMINFO /\ cue' = [cue EXCEPT !.block = n + 1]
      PROVE  CueInv'
  <2>1. cue.state = "blocks" /\ n \in DOMAIN cuefile.blocks
    BY <1>4 DEF AtBlock
  <2>2. Block.samplerate \in Nat
    BY <1>1, <2>1, CueFacts DEF Block
  <2>3. /\ CueTypeOK' /\ cue'.state = "blocks" /\ cue'.block = n + 1 /\ cue'.i = cue.i /\ cue'.times = cue.times
        /\ cue'.samplerate = IF Block.type = BLOCK_STREAMINFO THEN Block.samplerate ELSE cue.samplerate
    <3> DEFINE rate == Block.samplerate
               next == n + 1
    <3>1. n \in Nat \ {0} /\ next \in Nat \ {0} /\ rate \in Nat
      BY <1>1, <2>2
    <3> HIDE DEF rate, next
    <3>2. CASE Block.type = BLOCK_STREAMINFO
      <4>1. cue' = [cue EXCEPT !.samplerate = rate, !.block = next]
        BY <1>4, <3>2 DEF rate, next
      <4>2. QED
        BY <1>1, <1>4, <2>1, <3>1, <3>2, <4>1 DEF CueTypeOK, rate, next
    <3>3. CASE Block.type # BLOCK_STREAMINFO
      <4>1. cue' = [cue EXCEPT !.block = next]
        BY <1>4, <3>3 DEF next
      <4>2. QED
        BY <1>1, <1>4, <2>1, <3>1, <3>3, <4>1 DEF CueTypeOK, rate, next
    <3>4. QED
      BY <3>2, <3>3
  <2>4. Unread' /\ IsFlac'
    BY <1>3, <1>4, <2>1, <2>3 DEF Unread, IsFlac
  <2>5. NoSheetBefore(cue.block)'
    <3>1. ASSUME NEW j \in 1 .. (n + 1) - 1 PROVE cuefile.blocks[j].type # BLOCK_CUESHEET
      <4>1. j \in 1 .. n - 1 \/ j = n
        BY <1>1
      <4>2. QED
        BY <1>3, <1>4, <2>1, <4>1 DEF NoSheetBefore, Block
    <3>2. QED
      BY <1>4, <2>3, <3>1 DEF NoSheetBefore
  <2>6. RateIsKnown'
    <3>1. RatesAt(n + 1) = IF Block.type = BLOCK_STREAMINFO THEN {Block.samplerate} ELSE RatesAt(n)
      BY <1>1, <2>1, RatesBehind
    <3>2. RatesAt(cue.block)' = RatesAt(n + 1)
      BY <1>4, <2>3 DEF RatesAt
    <3>3. \/ RatesAt(n) = {cue.samplerate}
          \/ RatesAt(n) = {} /\ cue.samplerate = 0
      BY <1>3, <2>1 DEF RateIsKnown
    <3>4. QED
      BY <2>3, <3>1, <3>2, <3>3 DEF RateIsKnown
  <2>7. CueGivesTheTracks'
    BY <2>3 DEF CueGivesTheTracks
  <2>8. QED
    BY <2>3, <2>4, <2>5, <2>6, <2>7 DEF CueInv
<1>5. CASE ReadStreamInfo
  <2>1. BLOCK_STREAMINFO # BLOCK_CUESHEET
    BY DEF BLOCK_STREAMINFO, BLOCK_CUESHEET
  <2>2. QED
    BY <1>4, <1>5, <2>1 DEF ReadStreamInfo
<1>6. CASE SkipBlock
  BY <1>4, <1>6 DEF SkipBlock
<1>7. CASE NoCueSheet
  <2>1. /\ cue.state = "blocks" /\ n \notin DOMAIN cuefile.blocks
        /\ Return(<<>>) /\ cuefile' = cuefile /\ cue.times = <<>>
    BY <1>3, <1>7 DEF NoCueSheet, Unread
  <2>2. SheetsRead = {}
    <3>1. ASSUME NEW m \in DOMAIN cuefile.blocks PROVE cuefile.blocks[m].type # BLOCK_CUESHEET
      <4>1. m \in 1 .. n - 1
        BY <1>1, <2>1, CueFacts
      <4>2. QED
        BY <1>3, <2>1, <4>1 DEF NoSheetBefore
    <3>2. QED
      BY <3>1 DEF SheetsRead, IsFirstSheet
  <2>3. QED
    BY <1>1, <2>1, <2>2, NothingReturned
<1>8. CASE ReadCueSheet
  <2>1. cue.state = "blocks" /\ n \in DOMAIN cuefile.blocks /\ Block.type = BLOCK_CUESHEET /\ cuefile' = cuefile
    BY <1>8 DEF ReadCueSheet, AtBlock
  <2>2. Unread /\ IsFlac /\ RateIsKnown /\ IsFirstSheet(n) /\ n \in Nat \ {0}
    BY <1>3, <2>1 DEF IsFirstSheet, NoSheetBefore, Block
  <2>3. CASE cue.samplerate = 0 \/ ~ Block.whole
    <3>1. Return(<<>>) /\ cue.times = <<>>
      BY <1>8, <2>2, <2>3 DEF ReadCueSheet, Unread
    <3>2. n \notin SheetsRead
      <4>1. CASE cue.samplerate = 0
        <5>1. \A rate \in RatesAt(n) : rate = 0
          BY <2>2, <4>1 DEF RateIsKnown
        <5>2. QED
          BY <5>1 DEF SheetsRead
      <4>2. CASE ~ Block.whole
        BY <4>2 DEF SheetsRead, Block
      <4>3. QED
        BY <2>3, <4>1, <4>2
    <3>3. ASSUME NEW m \in SheetsRead PROVE m = n
      <4>1. m \in DOMAIN cuefile.blocks /\ IsFirstSheet(m) /\ m \in Nat /\ 1 <= m
        BY <1>1, CueFacts DEF SheetsRead
      <4>2. ~ (m < n) /\ ~ (n < m)
        BY <2>1, <2>2, <4>1 DEF IsFirstSheet
      <4>3. QED
        BY <2>2, <4>1, <4>2
    <3>4. SheetsRead = {}
      BY <3>2, <3>3
    <3>5. QED
      BY <1>1, <2>1, <3>1, <3>4, NothingReturned
  <2>4. CASE cue.samplerate # 0 /\ Block.whole
    <3>1. cue' = [cue EXCEPT !.state = "tracks", !.p = SIZEOF_METADATA_BLOCK_CUESHEET + 1]
      BY <1>8, <2>4 DEF ReadCueSheet
    <3>2. SIZEOF_METADATA_BLOCK_CUESHEET + 1 \in Nat
      BY DEF SIZEOF_METADATA_BLOCK_CUESHEET
    <3> DEFINE first == SIZEOF_METADATA_BLOCK_CUESHEET + 1
    <3> HIDE DEF first
    <3>3. cue' = [cue EXCEPT !.state = "tracks", !.p = first] /\ first \in Nat
      BY <3>1, <3>2 DEF first
    <3>4. /\ CueTypeOK' /\ cue'.state = "tracks" /\ cue'.block = n /\ cue'.p = first
          /\ cue'.samplerate = cue.samplerate /\ cue'.i = 0 /\ cue'.times = <<>>
      BY <1>1, <2>1, <2>2, <3>3 DEF CueTypeOK, Unread
    <3>5. RatesAt(n) = {cue.samplerate}
      BY <2>2, <2>4 DEF RateIsKnown
    <3>6. n \in SheetsRead
      BY <2>1, <2>2, <2>4, <3>5 DEF SheetsRead, Block
    <3>7. cue'.block \in SheetsRead' /\ RateIsKnown' /\ Album' = Album
      <4>1. SheetsRead' = SheetsRead
        BY <2>1 DEF SheetsRead, IsFlac, IsFirstSheet, RatesAt
      <4>2. RateIsKnown'
        <5>1. RatesAt(cue.block)' = RatesAt(cue.block)
          BY <2>1, <3>4 DEF RatesAt
        <5>2. QED
          BY <3>4, <3>5, <5>1 DEF RateIsKnown
      <4>3. QED
        BY <2>1, <3>4, <3>6, <4>1, <4>2 DEF Album
    <3>8. Len(Album) \in Nat /\ DOMAIN Album = 1 .. Len(Album)
      BY <1>1, <2>1, CueFacts DEF Album
    <3>9. cue'.i \in 0 .. Len(Album) /\ cue'.p = PlaceOf(Album, cue'.i + 1)
      <4>1. PlaceOf(Album, 1) = first
        BY DEF PlaceOf, first
      <4>2. QED
        BY <3>4, <3>8, <4>1
    <3>10. UpTo(Album, 0) = {}
      BY <3>8, UpToFacts
    <3>11. TimesUpTo(Album, cue.i)'
      <4>1. UpTo(Album, cue.i)' = {}
        BY <3>4, <3>7, <3>10 DEF UpTo
      <4>2. Len(cue'.times) = 0 /\ Cardinality({}) = 0
        BY <3>4, FS_EmptySet
      <4>3. QED
        BY <4>1, <4>2 DEF TimesUpTo
    <3>12. CueGivesTheTracks'
      BY <3>4 DEF CueGivesTheTracks
    <3>13. QED
      BY <3>4, <3>7, <3>9, <3>11, <3>12 DEF CueInv
  <2>5. QED
    BY <2>3, <2>4
<1>9. ASSUME cue.state = "tracks"
      PROVE  /\ n \in SheetsRead /\ RateIsKnown
             /\ cue.i \in 0 .. Len(Album) /\ cue.p = PlaceOf(Album, cue.i + 1)
             /\ TimesUpTo(Album, cue.i)
  BY <1>9 DEF CueInv
<1>10. CASE CueTrack
  <2>1. cue.state = "tracks"
    BY <1>10 DEF CueTrack
  <2>2. /\ UNCHANGED <<cuefile, cue.state, cue.block, cue.samplerate>>
        /\ CueTypeOK'
        /\ cue'.i \in 0 .. Len(Album) /\ cue'.p = PlaceOf(Album, cue'.i + 1)
        /\ TimesUpTo(Album, cue.i)'
    BY <1>1, <1>9, <1>10, <2>1, TrackIsRead
  <2>3. SheetsRead' = SheetsRead /\ Album' = Album
    BY <2>2 DEF SheetsRead, IsFlac, IsFirstSheet, RatesAt, Album
  <2>4. RateIsKnown'
    <3>1. RatesAt(cue.block)' = RatesAt(cue.block)
      BY <2>2 DEF RatesAt
    <3>2. QED
      BY <1>9, <2>1, <2>2, <3>1 DEF RateIsKnown
  <2>5. CueGivesTheTracks'
    BY <2>1, <2>2 DEF CueGivesTheTracks
  <2>6. QED
    BY <1>9, <2>1, <2>2, <2>3, <2>4, <2>5 DEF CueInv
<1>11. CASE ReturnTimes
  <2>1. /\ cue.state = "tracks" /\ cue.i = TrackCount /\ cuefile' = cuefile
        /\ cue' = [cue EXCEPT !.state = "returned", !.times = cue.times]
    BY <1>11 DEF ReturnTimes, Return
  <2>2. /\ SheetsRead = {n} /\ RatesAt(n) = {cue.samplerate}
        /\ Len(Album) \in Nat /\ DOMAIN Album = 1 .. Len(Album) /\ TrackCount = Len(Album)
    BY <1>1, <1>9, <2>1, SheetIsRead
  <2>3. CueTypeOK' /\ cue'.state = "returned" /\ cue'.times = cue.times
    BY <1>1, <2>1 DEF CueTypeOK
  <2>4. UpTo(Album, cue.i) = Listed(Album)
    BY <2>1, <2>2, UpToFacts
  <2>5. /\ Len(cue.times) = Cardinality(Listed(Album))
        /\ \A k \in Listed(Album) :
              cue.times[Cardinality(UpTo(Album, k))] \in StartsAt(Album[k], cue.samplerate)
    BY <1>9, <2>1, <2>4 DEF TimesUpTo
  <2>6. SheetsRead' = {n}
    <3>1. SheetsRead' = SheetsRead
      BY <2>1 DEF SheetsRead, IsFlac, IsFirstSheet, RatesAt
    <3>2. QED
      BY <2>2, <3>1
  <2>7. CueGivesTheTracks'
    <3>1. ASSUME NEW m \in SheetsRead', NEW rate \in RatesAt(m)'
          PROVE  m = n /\ rate = cue.samplerate
      <4>1. RatesAt(m)' = RatesAt(m)
        BY <2>1 DEF RatesAt
      <4>2. QED
        BY <2>2, <2>6, <4>1
    <3>2. /\ Len(cue'.times) = Cardinality(Listed(Album))
          /\ \A k \in Listed(Album) :
                cue'.times[Cardinality(UpTo(Album, k))] \in StartsAt(Album[k], cue.samplerate)
      BY <2>3, <2>5
    <3>3. ASSUME NEW m \in SheetsRead', NEW rate \in RatesAt(m)'
          PROVE  /\ Len(cue'.times) = Cardinality(Listed(cuefile'.blocks[m].album))
                 /\ \A k \in Listed(cuefile'.blocks[m].album) :
                       cue'.times[Cardinality(UpTo(cuefile'.blocks[m].album, k))]
                         \in StartsAt(cuefile'.blocks[m].album[k], rate)
      <4>1. cuefile'.blocks[m].album = Album /\ rate = cue.samplerate
        BY <2>1, <3>1 DEF Album
      <4>2. QED
        BY <3>2, <4>1
    <3>4. SheetsRead' # {}
      BY <2>6
    <3>5. QED
      BY <3>3, <3>4 DEF CueGivesTheTracks
  <2>8. QED
    BY <2>3, <2>7 DEF CueInv
<1>12. CASE UNCHANGED cueVars
  <2>1. cuefile' = cuefile /\ cue' = cue
    BY <1>12 DEF cueVars
  <2>2. /\ CueTypeOK' /\ Unread' = Unread /\ IsFlac' = IsFlac /\ Album' = Album
        /\ NoSheetBefore(cue.block)' = NoSheetBefore(cue.block)
    BY <1>1, <2>1 DEF CueTypeOK, Unread, IsFlac, Album, NoSheetBefore
  <2>3. SheetsRead' = SheetsRead
    BY <2>1 DEF SheetsRead, IsFlac, IsFirstSheet, RatesAt
  <2>4. RateIsKnown' = RateIsKnown
    BY <2>1 DEF RateIsKnown, RatesAt
  <2>5. TimesUpTo(Album, cue.i)' = TimesUpTo(Album, cue.i)
    BY <2>1, <2>2 DEF TimesUpTo
  <2>6. CueGivesTheTracks'
    <3>1. ASSUME NEW m \in SheetsRead', NEW rate \in RatesAt(m)'
          PROVE  m \in SheetsRead /\ rate \in RatesAt(m)
      <4>1. RatesAt(m)' = RatesAt(m)
        BY <2>1 DEF RatesAt
      <4>2. QED
        BY <2>3, <4>1
    <3>2. CueGivesTheTracks
      BY DEF CueInv
    <3>3. QED
      BY <2>1, <2>3, <3>1, <3>2 DEF CueGivesTheTracks
  <2>7. QED
    BY <2>1, <2>2, <2>3, <2>4, <2>5, <2>6 DEF CueInv
<1>13. QED
  BY <1>2, <1>5, <1>6, <1>7, <1>8, <1>10, <1>11, <1>12 DEF CueNext

(* Of every file, of every number of blocks, tracks and indices, it is the  *)
(* starts of its listed tracks that extractFlacCUE() returns, or nothing.   *)
THEOREM CueTracksAreGiven == CueSpec => []CueGivesTheTracks
<1>1. CueInit => CueInv
  <2> SUFFICES ASSUME CueInit PROVE CueInv
    OBVIOUS
  <2>1. <<>> \in Seq(Nat) /\ 1 \in Nat \ {0} /\ 0 \in Nat
    OBVIOUS
  <2>2. CueTypeOK /\ cue.state = "open" /\ Unread /\ cue.block = 1 /\ cue.samplerate = 0
    BY <2>1 DEF CueInit, CueTypeOK, Unread
  <2>3. QED
    BY <2>2 DEF CueInv, CueGivesTheTracks
<1>2. CueInv /\ [CueNext]_cueVars => CueInv'
  BY CueStep
<1>3. CueInv => CueGivesTheTracks
  BY DEF CueInv
<1>4. QED
  BY <1>1, <1>2, <1>3, PTL DEF CueSpec
-----------------------------------------------------------------------------
(* A word of two numbers, the lower half first.                            *)
Pair(l, u) == l + u * H
Half == 0 .. H - 1
Word == {Pair(l, u) : l \in Half, u \in Half}
Plus(x, y)  == (x + y) % H
Minus(x, y) == (x - y) % H

(* A remainder within a turn, a turn above and a turn below.               *)
LEMMA OneTurn ==
    ASSUME NEW R \in Nat \ {0}
    PROVE  /\ \A x \in 0 .. R - 1 : x % R = x
           /\ \A x \in 0 .. R - 1 : (x + R) % R = x
           /\ \A x \in 0 .. R - 1 : (x - R) % R = x
<1>1. ASSUME NEW x \in 0 .. R - 1 PROVE x % R = x
  OBVIOUS
<1>2. ASSUME NEW x \in 0 .. R - 1 PROVE (x + R) % R = x
  OBVIOUS
<1>3. ASSUME NEW x \in 0 .. R - 1 PROVE (x - R) % R = x
  OBVIOUS
<1>4. QED
  BY <1>1, <1>2, <1>3

(* A number in its half of a word, and what is carried out of it.          *)
LEMMA Carry ==
    ASSUME NEW x \in -H .. 2 * H - 1
    PROVE  /\ x % H \in Half
           /\ \E c \in {-1, 0, 1} : /\ x = (x % H) + c * H
                                    /\ c = 1 <=> x >= H
                                    /\ c = -1 <=> x < 0
<1>1. H \in Nat \ {0}
  BY HalfAssumption
<1>2. CASE x \in 0 .. H - 1
  <2>1. x % H = x
    BY <1>1, <1>2, OneTurn
  <2>2. QED
    BY <1>1, <1>2, <2>1 DEF Half
<1>3. CASE x >= H
  <2> DEFINE y == x - H
  <2>1. y \in 0 .. H - 1 /\ x = y + H
    BY <1>1, <1>3
  <2> HIDE DEF y
  <2>2. x % H = y
    BY <1>1, <2>1, OneTurn
  <2>3. QED
    BY <1>1, <1>3, <2>1, <2>2 DEF Half
<1>4. CASE x < 0
  <2> DEFINE y == x + H
  <2>1. y \in 0 .. H - 1 /\ x = y - H
    BY <1>1, <1>4
  <2> HIDE DEF y
  <2>2. x % H = y
    BY <1>1, <2>1, OneTurn
  <2>3. QED
    BY <1>1, <1>4, <2>1, <2>2 DEF Half
<1>5. QED
  BY <1>1, <1>2, <1>3, <1>4

(* The two halves of a word, and the range of words.                       *)
LEMMA PairFacts ==
    ASSUME NEW l \in Half, NEW u \in Half
    PROVE  /\ Pair(l, u) \in 0 .. H * H - 1
           /\ Lower(Pair(l, u)) = l /\ Upper(Pair(l, u)) = u
<1>1. H \in Nat /\ H >= 2 /\ l \in Int /\ u \in Int /\ 0 <= l /\ l < H /\ 0 <= u /\ u <= H - 1
  BY HalfAssumption DEF Half
<1> DEFINE x == u * H
<1>2. x \in Int /\ 0 <= x /\ x <= (H - 1) * H
  BY <1>1
<1>3. (H - 1) * H = H * H - H
  BY <1>1
<1>4. H * H \in Int
  BY <1>1
<1>5. Pair(l, u) \in 0 .. H * H - 1
  <2> DEFINE y == H * H
  <2>1. y \in Int /\ x <= y - H
    BY <1>2, <1>3, <1>4
  <2> HIDE DEF x, y
  <2>2. l + x \in 0 .. y - 1
    BY <1>1, <1>2, <2>1
  <2>3. QED
    BY <2>2 DEF Pair, x, y
<1> HIDE DEF x
<1>6. (l + x) % H = l /\ (l + x) \div H = u
  <2> DEFINE q == (l + x) \div H
             r == (l + x) % H
  <2>1. q \in Int /\ r \in Int /\ 0 <= r /\ r < H /\ l + x = q * H + r
    BY <1>1, <1>2
  <2> HIDE DEF q, r
  <2>2. l - r = (q - u) * H
    BY <1>1, <2>1 DEF x
  <2>3. ~ (q - u >= 1)
    <3> SUFFICES ASSUME q - u >= 1 PROVE FALSE
      OBVIOUS
    <3>1. (q - u) * H >= H
      BY <1>1, <2>1
    <3>2. QED
      BY <1>1, <2>1, <2>2, <3>1
  <2>4. ~ (q - u <= -1)
    <3> SUFFICES ASSUME q - u <= -1 PROVE FALSE
      OBVIOUS
    <3>1. (q - u) * H <= -H
      BY <1>1, <2>1
    <3>2. QED
      BY <1>1, <2>1, <2>2, <3>1
  <2>5. q = u
    BY <1>1, <2>1, <2>3, <2>4
  <2>6. r = l
    BY <1>1, <2>1, <2>2, <2>5
  <2>7. QED
    BY <2>5, <2>6 DEF q, r
<1>7. QED
  BY <1>5, <1>6 DEF Pair, Lower, Upper, x

(* The halves are wrapped one after the other.                             *)
LEMMA Wrapped ==
    ASSUME NEW l \in Half, NEW u \in -H .. 2 * H - 1
    PROVE  (l + u * H) % (H * H) = Pair(l, u % H)
<1>1. H \in Nat /\ H >= 2 /\ l \in Int /\ u \in Int
  BY HalfAssumption DEF Half
<1>2. PICK c \in {-1, 0, 1} : u = (u % H) + c * H
  BY Carry
<1> DEFINE v == u % H
           R == H * H
<1>3. v \in Half /\ v \in Int
  BY <1>1, Carry DEF Half
<1>4. R \in Nat \ {0}
  BY <1>1
<1>5. Pair(l, v) \in 0 .. R - 1
  BY <1>3, PairFacts
<1>6. l + u * H = Pair(l, v) + c * R
  <2> HIDE DEF v
  <2>1. u = v + c * H
    BY <1>2 DEF v
  <2>2. u * H = v * H + c * (H * H)
    BY <1>1, <1>3, <2>1
  <2>3. QED
    BY <1>1, <1>3, <2>2 DEF Pair, R
<1> HIDE DEF R, v
<1> DEFINE p == Pair(l, v)
<1>7. p \in 0 .. R - 1 /\ l + u * H = p + c * R
  BY <1>5, <1>6
<1> HIDE DEF p
<1>8. p + c * R = p \/ p + c * R = p + R \/ p + c * R = p - R
  BY <1>4, <1>7
<1>9. (l + u * H) % R = p
  BY <1>4, <1>7, <1>8, OneTurn
<1>10. QED
  BY <1>9 DEF p, v, R

(* A sum of words is right in its lower half, and in the upper one where no*)
(* number is in the lower half of one of them: nothing is carried.         *)
LEMMA SumOfPairs ==
    ASSUME NEW l \in Half, NEW u \in Half, NEW m \in Half, NEW v \in Half
    PROVE  /\ Lower(add(Pair(l, u), Pair(m, v))) = (l + m) % H
           /\ l = 0 \/ m = 0 => Upper(add(Pair(l, u), Pair(m, v))) = (u + v) % H
<1>1. H \in Nat /\ H >= 2 /\ {l, u, m, v} \subseteq Int
      /\ 0 <= l /\ l < H /\ 0 <= u /\ u < H /\ 0 <= m /\ m < H /\ 0 <= v /\ v < H
  BY HalfAssumption DEF Half
<1>2. l + m \in -H .. 2 * H - 1 /\ u + v \in 0 .. 2 * H - 2
  BY <1>1
<1>3. PICK c \in {-1, 0, 1} : /\ l + m = ((l + m) % H) + c * H
                              /\ c = 1 <=> l + m >= H
                              /\ c = -1 <=> l + m < 0
  BY <1>2, Carry
<1> DEFINE n == (l + m) % H
           w == u + v + c
<1>4. n \in Half /\ n \in Int /\ w \in -H .. 2 * H - 1 /\ w % H \in Half
  BY <1>1, <1>2, <1>3, Carry DEF Half
<1>5. Pair(l, u) + Pair(m, v) = n + w * H
  <2>1. l + m = n + c * H
    BY <1>3
  <2> HIDE DEF n
  <2>2. QED
    BY <1>1, <1>4, <2>1 DEF Pair
<1>6. add(Pair(l, u), Pair(m, v)) = Pair(n, w % H)
  <2> HIDE DEF n, w
  <2>1. QED
    BY <1>4, <1>5, Wrapped DEF add
<1>7. Lower(Pair(n, w % H)) = n /\ Upper(Pair(n, w % H)) = w % H
  <2> HIDE DEF n, w
  <2>1. QED
    BY <1>4, PairFacts
<1>8. l = 0 \/ m = 0 => w = u + v
  BY <1>1, <1>3
<1>9. QED
  BY <1>6, <1>7, <1>8

(* A difference is right in its lower half, and in the upper one where     *)
(* nothing is taken from the lower half.                                   *)
LEMMA DifferenceOfPairs ==
    ASSUME NEW l \in Half, NEW u \in Half, NEW m \in Half, NEW v \in Half
    PROVE  /\ Lower(sub(Pair(l, u), Pair(m, v))) = (l - m) % H
           /\ m = 0 => /\ Upper(sub(Pair(l, u), Pair(m, v))) = (u - v) % H
                       /\ sub(Pair(l, u), Pair(m, v)) = Pair(l, (u - v) % H)
<1>1. H \in Nat /\ H >= 2 /\ {l, u, m, v} \subseteq Int
      /\ 0 <= l /\ l < H /\ 0 <= u /\ u < H /\ 0 <= m /\ m < H /\ 0 <= v /\ v < H
  BY HalfAssumption DEF Half
<1>2. l - m \in -H .. 2 * H - 1 /\ u - v \in 1 - H .. H - 1
  BY <1>1
<1>3. PICK c \in {-1, 0, 1} : /\ l - m = ((l - m) % H) + c * H
                              /\ c = 1 <=> l - m >= H
                              /\ c = -1 <=> l - m < 0
  BY <1>2, Carry
<1> DEFINE n == (l - m) % H
           w == u - v + c
<1>4. n \in Half /\ n \in Int /\ w \in -H .. 2 * H - 1 /\ w % H \in Half
  BY <1>1, <1>2, <1>3, Carry DEF Half
<1>5. Pair(l, u) - Pair(m, v) = n + w * H
  <2>1. l - m = n + c * H
    BY <1>3
  <2> HIDE DEF n
  <2>2. QED
    BY <1>1, <1>4, <2>1 DEF Pair
<1>6. sub(Pair(l, u), Pair(m, v)) = Pair(n, w % H)
  <2> HIDE DEF n, w
  <2>1. QED
    BY <1>4, <1>5, Wrapped DEF sub
<1>7. Lower(Pair(n, w % H)) = n /\ Upper(Pair(n, w % H)) = w % H
  <2> HIDE DEF n, w
  <2>1. QED
    BY <1>4, PairFacts
<1>8. m = 0 => w = u - v /\ n = l
  <2>1. l - 0 = l /\ l % H = l
    BY <1>1, OneTurn DEF Half
  <2>2. QED
    BY <1>1, <1>3, <2>1
<1>9. QED
  BY <1>6, <1>7, <1>8

(* A word from its upper half.                                             *)
LEMMA Reversed == ASSUME NEW x \in Int, NEW y \in Int PROVE y * H + x = Pair(x, y)
<1> DEFINE z == y * H
<1>1. z \in Int
  BY HalfAssumption
<1> HIDE DEF z
<1>2. z + x = x + z
  BY <1>1
<1>3. QED
  BY <1>2 DEF z, Pair

(* What the halves are put together from in ADDHALFREGS and ADDHALFXREGS.  *)
LEMMA Added ==
    ASSUME NEW w, NEW x, Lower(w) \in Int, Upper(x) \in Int
    PROVE  lsl(w) + lsr(x) = Pair(Upper(x), Lower(w))
BY Reversed DEF lsl, lsr

(* What moves the halves of a word.                                        *)
LEMMA Moves ==
    ASSUME NEW l \in Half, NEW u \in Half
    PROVE  /\ 0 \in Half /\ l = Pair(l, 0)
           /\ lsr(Pair(l, u)) = Pair(u, 0) /\ lsl(Pair(l, u)) = Pair(0, l)
           /\ ror(Pair(l, u)) = Pair(u, l) /\ clr(Pair(l, u)) = Pair(0, u)
<1>1. H \in Nat /\ H >= 2 /\ l \in Int /\ u \in Int
  BY HalfAssumption DEF Half
<1>2. 0 \in Half
  BY <1>1 DEF Half
<1>3. \A x \in Int : Pair(x, 0) = x /\ Pair(0, x) = x * H
  BY <1>1 DEF Pair
<1>4. Lower(Pair(l, u)) = l /\ Upper(Pair(l, u)) = u
  BY PairFacts
<1>5. l * H + u = Pair(u, l)
  <2> DEFINE x == l * H
  <2>1. x \in Int
    BY <1>1
  <2> HIDE DEF x
  <2>2. x + u = u + x
    BY <1>1, <2>1
  <2>3. QED
    BY <2>2 DEF x, Pair
<1>6. QED
  BY <1>1, <1>2, <1>3, <1>4, <1>5 DEF lsr, lsl, ror, clr

(* A word is the pair of its halves.                                       *)
LEMMA HalvesOfWord ==
    ASSUME NEW w \in Word
    PROVE  Lower(w) \in Half /\ Upper(w) \in Half /\ w = Pair(Lower(w), Upper(w))
<1>1. PICK l \in Half, u \in Half : w = Pair(l, u)
  BY DEF Word
<1>2. QED
  BY <1>1, PairFacts

(* A number alone in a word, and shifted up in it.                         *)
LEMMA Alone ==
    ASSUME NEW m \in Half
    PROVE  m \in Word /\ Lower(m) = m /\ lsl(m) \in Word /\ Upper(lsl(m)) = m
<1>1. 0 \in Half /\ m = Pair(m, 0) /\ lsl(Pair(m, 0)) = Pair(0, m)
  <2>1. m = Pair(m, 0) /\ 0 \in Half
    BY Moves
  <2>2. QED
    BY <2>1, Moves
<1>2. Pair(m, 0) \in Word /\ Pair(0, m) \in Word
  BY <1>1 DEF Word
<1>3. Lower(Pair(m, 0)) = m /\ Upper(Pair(0, m)) = m
  BY <1>1, PairFacts
<1>4. QED
  BY <1>1, <1>2, <1>3

(* What the four macros of the ARMv5TE do to the halves of their registers.*)
LEMMA Halves5 ==
    ASSUME NEW x \in Word, NEW s \in Word, NEW t \in Word
    PROVE  /\ ADDHALFREGS(x, s) = Pair(Plus(Lower(x), Lower(s)), Plus(Upper(x), Upper(s)))
           /\ SUBHALFREGS(x, s) = Pair(Minus(Lower(x), Lower(s)), Minus(Upper(x), Upper(s)))
           /\ ADDHALFXREGS(x, s, t) = Pair(Plus(Lower(x), Upper(s)), Plus(Upper(x), Lower(t)))
           /\ SUBHALFXREGS(x, s, t) = Pair(Minus(Lower(x), Upper(s)), Minus(Upper(x), Lower(t)))
<1> DEFINE l == Lower(x)
           u == Upper(x)
           p == Lower(s)
           q == Upper(s)
           c == Lower(t)
           d == Upper(t)
<1>0. /\ x = Pair(l, u) /\ s = Pair(p, q) /\ t = Pair(c, d)
      /\ l \in Half /\ u \in Half /\ p \in Half /\ q \in Half /\ c \in Half /\ d \in Half
  BY HalvesOfWord
<1> HIDE DEF l, u, p, q, c, d
<1>1. H \in Nat /\ {l, u, p, q, c, d} \subseteq Int /\ 0 \in Half
  BY <1>0, HalfAssumption DEF Half
<1>2. l + p = p + l /\ u + q = q + u /\ l + q = q + l /\ u + c = c + u
  BY <1>1
<1>8. {(l + p) % H, (u + q) % H, (l + q) % H, (u + c) % H} \subseteq Int
  <2>1. {l + p, u + q, l + q, u + c} \subseteq -H .. 2 * H - 1
    BY <1>0, <1>1 DEF Half
  <2>2. {(l + p) % H, (u + q) % H, (l + q) % H, (u + c) % H} \subseteq Half
    BY <2>1, Carry
  <2>3. QED
    BY <1>0, <1>1, <2>2 DEF Half
<1>3. ADDHALFREGS(Pair(l, u), Pair(p, q)) = Pair((l + p) % H, (u + q) % H)
  <2>1. ror(Pair(p, q)) = Pair(q, p) /\ lsr(Pair(l, u)) = Pair(u, 0) /\ lsl(Pair(l, u)) = Pair(0, l)
    BY <1>0, Moves
  <2>2. Lower(add(Pair(q, p), Pair(u, 0))) = (u + q) % H /\ Upper(add(Pair(q, p), Pair(0, l))) = (l + p) % H
    BY <1>0, <1>1, <1>2, SumOfPairs
  <2>3. QED
    BY <1>8, <2>1, <2>2, Added DEF ADDHALFREGS
<1>4. ADDHALFXREGS(Pair(l, u), Pair(p, q), Pair(c, d)) = Pair((l + q) % H, (u + c) % H)
  <2>1. lsr(Pair(l, u)) = Pair(u, 0) /\ lsl(Pair(l, u)) = Pair(0, l)
    BY <1>0, Moves
  <2>2. Lower(add(Pair(c, d), Pair(u, 0))) = (u + c) % H /\ Upper(add(Pair(p, q), Pair(0, l))) = (l + q) % H
    BY <1>0, <1>1, <1>2, SumOfPairs
  <2>3. QED
    BY <1>8, <2>1, <2>2, Added DEF ADDHALFXREGS
<1>5. SUBHALFREGS(Pair(l, u), Pair(p, q)) = Pair((l - p) % H, (u - q) % H)
  <2>1. lsr(Pair(l, u)) = Pair(u, 0) /\ lsr(Pair(p, q)) = Pair(q, 0)
    BY <1>0, Moves
  <2>2. Lower(sub(Pair(l, u), Pair(p, q))) = (l - p) % H /\ Lower(sub(Pair(u, 0), Pair(q, 0))) = (u - q) % H
    BY <1>0, <1>1, DifferenceOfPairs
  <2>3. QED
    BY <2>1, <2>2 DEF SUBHALFREGS, lsl, Pair
<1>6. SUBHALFXREGS(Pair(l, u), Pair(p, q), Pair(c, d)) = Pair((l - q) % H, (u - c) % H)
  <2>1. lsr(Pair(l, u)) = Pair(u, 0) /\ lsr(Pair(p, q)) = Pair(q, 0)
    BY <1>0, Moves
  <2>2. Lower(sub(Pair(l, u), Pair(q, 0))) = (l - q) % H /\ Lower(sub(Pair(u, 0), Pair(c, d))) = (u - c) % H
    BY <1>0, <1>1, DifferenceOfPairs
  <2>3. QED
    BY <2>1, <2>2 DEF SUBHALFXREGS, lsl, Pair
<1>7. QED
  BY <1>0, <1>3, <1>4, <1>5, <1>6 DEF Plus, Minus, l, u, p, q, c, d

(* What the instructions of the ARMv6 do to the halves, and that both ways of*)
(* putting a word together of two take their inner halves.                 *)
LEMMA Halves6 ==
    ASSUME NEW x \in Word, NEW s \in Word, NEW t \in Word
    PROVE  /\ sadd16(x, s) = Pair(Plus(Lower(x), Lower(s)), Plus(Upper(x), Upper(s)))
           /\ ssub16(x, s) = Pair(Minus(Lower(x), Lower(s)), Minus(Upper(x), Upper(s)))
           /\ pkhtb(ror(t), lsr(s)) = Pair(Upper(s), Lower(t))
           /\ pkhbt(ror(s), lsl(t)) = Pair(Upper(s), Lower(t))
<1> DEFINE l == Lower(x)
           u == Upper(x)
           p == Lower(s)
           q == Upper(s)
           c == Lower(t)
           d == Upper(t)
<1>0. /\ x = Pair(l, u) /\ s = Pair(p, q) /\ t = Pair(c, d)
      /\ l \in Half /\ u \in Half /\ p \in Half /\ q \in Half /\ c \in Half /\ d \in Half
  BY HalvesOfWord
<1> HIDE DEF l, u, p, q, c, d
<1>1. H \in Nat /\ {l, u, p, q, c, d} \subseteq Int /\ 0 \in Half
  BY <1>0, HalfAssumption DEF Half
<1>2. \A g \in Half, h \in Half : /\ Lower(Pair(g, h)) = g /\ Upper(Pair(g, h)) = h
                                  /\ h * H + g = Pair(g, h)
  <2>1. ASSUME NEW g \in Half, NEW h \in Half PROVE h * H + g = Pair(g, h)
    <3>1. g \in Int /\ h \in Int
      BY HalfAssumption DEF Half
    <3>2. QED
      BY <3>1, Reversed
  <2>2. QED
    BY <2>1, PairFacts
<1>3. /\ ror(Pair(c, d)) = Pair(d, c) /\ lsr(Pair(p, q)) = Pair(q, 0)
      /\ ror(Pair(p, q)) = Pair(q, p) /\ lsl(Pair(c, d)) = Pair(0, c)
  BY <1>0, Moves
<1>4. {(l + p) % H, (u + q) % H, (l - p) % H, (u - q) % H} \subseteq Half
  <2>1. {l + p, u + q, l - p, u - q} \subseteq -H .. 2 * H - 1
    BY <1>0, <1>1 DEF Half
  <2>2. QED
    BY <2>1, Carry
<1>5. /\ sadd16(x, s) = Pair((l + p) % H, (u + q) % H) /\ ssub16(x, s) = Pair((l - p) % H, (u - q) % H)
  BY <1>0, <1>2, <1>4 DEF sadd16, ssub16
<1>6. pkhtb(ror(t), lsr(s)) = Pair(q, c) /\ pkhbt(ror(s), lsl(t)) = Pair(q, c)
  BY <1>0, <1>1, <1>2, <1>3 DEF pkhtb, pkhbt
<1>7. QED
  BY <1>5, <1>6 DEF Plus, Minus, l, u, p, q, c, d

(* What the four macros of the ColdFire do; the word before is swapped.    *)
LEMMA HalvesCf ==
    ASSUME NEW x \in Word, NEW s \in Word, NEW t \in Word
    PROVE  /\ ADDHALFREGS_cf(x, s) = Pair(Plus(Lower(x), Lower(s)), Plus(Upper(x), Upper(s)))
           /\ SUBHALFREGS_cf(x, s) = Pair(Minus(Lower(x), Lower(s)), Minus(Upper(x), Upper(s)))
           /\ ADDHALFXREGS_cf(x, ror(s), t) = Pair(Plus(Lower(x), Upper(t)), Plus(Upper(x), Lower(s)))
           /\ SUBHALFXREGS_cf(x, ror(s), t) = Pair(Minus(Lower(x), Upper(t)), Minus(Upper(x), Lower(s)))
<1> DEFINE l == Lower(x)
           u == Upper(x)
           p == Lower(s)
           q == Upper(s)
           c == Lower(t)
           d == Upper(t)
<1>0. /\ x = Pair(l, u) /\ s = Pair(p, q) /\ t = Pair(c, d)
      /\ l \in Half /\ u \in Half /\ p \in Half /\ q \in Half /\ c \in Half /\ d \in Half
  BY HalvesOfWord
<1> HIDE DEF l, u, p, q, c, d
<1>1. H \in Nat /\ {l, u, p, q, c, d} \subseteq Int /\ 0 \in Half
  BY <1>0, HalfAssumption DEF Half
<1>2. \A g \in Int, h \in Int : h * H + g = Pair(g, h)
  BY <1>0, <1>1, Reversed
<1>3. l + p = p + l /\ u + q = q + u /\ l + d = d + l /\ u + p = p + u
  BY <1>1
<1>4. /\ clr(Pair(p, q)) = Pair(0, q) /\ ror(Pair(p, q)) = Pair(q, p) /\ clr(Pair(q, p)) = Pair(0, p)
      /\ ror(Pair(c, d)) = Pair(d, c)
  BY <1>0, Moves
<1>5. {(l + p) % H, (u + q) % H, (l - p) % H, (u - q) % H,
       (l + d) % H, (u + p) % H, (l - d) % H, (u - p) % H} \subseteq Half
  <2>1. {l + p, u + q, l - p, u - q, l + d, u + p, l - d, u - p} \subseteq -H .. 2 * H - 1
    BY <1>0, <1>1 DEF Half
  <2>2. QED
    BY <2>1, Carry
<1>6. {(l + p) % H, (u + q) % H, (l - p) % H, (u - q) % H,
       (l + d) % H, (u + p) % H, (l - d) % H, (u - p) % H} \subseteq Int
  BY <1>0, <1>1, <1>5 DEF Half
<1>7. ADDHALFREGS_cf(Pair(l, u), Pair(p, q)) = Pair((l + p) % H, (u + q) % H)
  <2>1. Lower(add(Pair(p, q), Pair(l, u))) = (l + p) % H /\ Upper(add(Pair(l, u), Pair(0, q))) = (u + q) % H
    BY <1>0, <1>1, <1>3, SumOfPairs
  <2>2. QED
    BY <1>2, <1>4, <1>6, <2>1 DEF ADDHALFREGS_cf, move
<1>8. ADDHALFXREGS_cf(Pair(l, u), ror(Pair(p, q)), Pair(c, d)) = Pair((l + d) % H, (u + p) % H)
  <2>1. Lower(add(Pair(l, u), Pair(d, c))) = (l + d) % H /\ Upper(add(Pair(0, p), Pair(l, u))) = (u + p) % H
    BY <1>0, <1>1, <1>3, SumOfPairs
  <2>2. QED
    BY <1>2, <1>4, <1>6, <2>1 DEF ADDHALFXREGS_cf, move
<1>9. SUBHALFREGS_cf(Pair(l, u), Pair(p, q)) = Pair((l - p) % H, (u - q) % H)
  <2>1. Lower(sub(Pair(l, u), Pair(p, q))) = (l - p) % H /\ Upper(sub(Pair(l, u), Pair(0, q))) = (u - q) % H
    BY <1>0, <1>1, DifferenceOfPairs
  <2>2. QED
    BY <1>2, <1>4, <1>6, <2>1 DEF SUBHALFREGS_cf, move
<1>10. SUBHALFXREGS_cf(Pair(l, u), ror(Pair(p, q)), Pair(c, d)) = Pair((l - d) % H, (u - p) % H)
  <2>0. sub(Pair(l, u), Pair(0, p)) = Pair(l, (u - p) % H)
    BY <1>0, <1>1, DifferenceOfPairs
  <2> DEFINE w == (u - p) % H
  <2>1. sub(Pair(l, u), Pair(0, p)) = Pair(l, w) /\ w \in Half
    BY <1>5, <2>0
  <2> HIDE DEF w
  <2>2. Lower(sub(Pair(l, w), Pair(d, c))) = (l - d) % H /\ Upper(Pair(l, w)) = w
    <3>1. Upper(Pair(l, w)) = w
      BY <1>0, <2>1, PairFacts
    <3>2. Lower(sub(Pair(l, w), Pair(d, c))) = (l - d) % H
      BY <1>0, <2>1, DifferenceOfPairs
    <3>3. QED
      BY <3>1, <3>2
  <2>3. QED
    BY <1>2, <1>4, <1>6, <2>1, <2>2 DEF SUBHALFXREGS_cf, move, w
<1>11. QED
  BY <1>0, <1>7, <1>8, <1>9, <1>10 DEF Plus, Minus, l, u, p, q, c, d

(* A sum and a difference wrapped are halves again.                        *)
LEMMA Wraps ==
    ASSUME NEW l \in Half, NEW u \in Half, NEW m \in Half, NEW v \in Half
    PROVE  {Plus(l, m), Plus(u, v), Minus(l, m), Minus(u, v)} \subseteq Half
<1>1. {l + m, u + v, l - m, u - v} \subseteq -H .. 2 * H - 1
  BY HalfAssumption DEF Half
<1>2. QED
  BY <1>1, Carry DEF Plus, Minus

(* Whole turns of a half do not change what is left in it.                 *)
LEMMA WholeTurns ==
    ASSUME NEW x \in -H .. 2 * H - 1, NEW y \in -H .. 2 * H - 1, NEW d \in -2 .. 2, x = y + d * H
    PROVE  x % H = y % H
<1>1. H \in Nat /\ H >= 2 /\ x \in Int /\ y \in Int
  BY HalfAssumption
<1>2. x % H \in Half /\ y % H \in Half
  BY Carry
<1>3. PICK a \in {-1, 0, 1} : x = (x % H) + a * H
  BY Carry
<1>4. PICK b \in {-1, 0, 1} : y = (y % H) + b * H
  BY Carry
<1> DEFINE r == x % H
           q == y % H
           e == b - a + d
<1>5. r \in Half /\ q \in Half /\ x = r + a * H /\ y = q + b * H
  BY <1>2, <1>3, <1>4
<1> HIDE DEF r, q
<1>6. r \in Int /\ q \in Int /\ -H < r - q /\ r - q < H
  BY <1>1, <1>5 DEF Half
<1>7. e \in -4 .. 4 /\ r - q = e * H
  BY <1>1, <1>5, <1>6
<1>8. e = 0
  BY <1>1, <1>6, <1>7
<1>9. r = q
  BY <1>1, <1>6, <1>7, <1>8
<1>10. QED
  BY <1>9 DEF r, q

(* The halves of the assemblers hold what the C code adds and subtracts    *)
(* with the signs of the numbers: the sum or the difference wrapped.       *)
THEOREM HalvesAreAsInC ==
    ASSUME NEW x \in Half, NEW y \in Half
    PROVE  /\ Value(Plus(x, y)) = Value(Value(x) + Value(y))
           /\ Value(Minus(x, y)) = Value(Value(x) - Value(y))
<1>1. H \in Nat /\ H >= 2 /\ {x, y} \subseteq Int /\ 0 <= x /\ x < H /\ 0 <= y /\ y < H
  BY HalfAssumption DEF Half
<1>2. x % H = x /\ y % H = y
  BY <1>1, OneTurn DEF Half
<1>3. PICK a \in {0, 1} : Value(x) = x - a * H /\ (a = 1 <=> 2 * x >= H)
  BY <1>1, <1>2 DEF Value
<1>4. PICK b \in {0, 1} : Value(y) = y - b * H /\ (b = 1 <=> 2 * y >= H)
  BY <1>1, <1>2 DEF Value
<1> DEFINE v == Value(x)
           w == Value(y)
<1>5. v = x - a * H /\ w = y - b * H
  BY <1>3, <1>4
<1> HIDE DEF v, w
<1>6. /\ v + w \in -H .. 2 * H - 1 /\ x + y \in -H .. 2 * H - 1
      /\ v - w \in -H .. 2 * H - 1 /\ x - y \in -H .. 2 * H - 1
  BY <1>1, <1>3, <1>4, <1>5
<1>7. x + y = (v + w) + (a + b) * H /\ x - y = (v - w) + (a - b) * H
      /\ a + b \in -2 .. 2 /\ a - b \in -2 .. 2
  BY <1>1, <1>5
<1>8. (x + y) % H = (v + w) % H
  BY <1>6, <1>7, WholeTurns
<1>9. (x - y) % H = (v - w) % H
  BY <1>6, <1>7, WholeTurns
<1>10. Plus(x, y) \in Half /\ Minus(x, y) \in Half
  BY <1>6, Carry DEF Plus, Minus
<1>11. Plus(x, y) % H = (v + w) % H /\ Minus(x, y) % H = (v - w) % H
  <2>1. \A z \in Half : z % H = z
    BY <1>1, OneTurn DEF Half
  <2>2. QED
    BY <1>8, <1>9, <1>10, <2>1 DEF Plus, Minus
<1>12. QED
  BY <1>11 DEF Value, v, w

(* Numbers in the words of a memory, and out of the words.                 *)
LEMMA Words ==
    ASSUME NEW n \in Nat, NEW m \in Seq(Half), Len(m) = 2 * n
    PROVE  /\ DOMAIN Little(m) = 1 .. n
           /\ \A k \in 1 .. n : /\ Little(m)[k] \in Word
                                /\ Lower(Little(m)[k]) = m[2 * k - 1] /\ Upper(Little(m)[k]) = m[2 * k]
           /\ DOMAIN Big(m) = 1 .. n
           /\ \A k \in 1 .. n : /\ Big(m)[k] \in Word
                                /\ Upper(Big(m)[k]) = m[2 * k - 1] /\ Lower(Big(m)[k]) = m[2 * k]
           /\ \A k \in 1 .. n : m[2 * k - 1] \in Half /\ m[2 * k] \in Half
<1>1. Len(m) \div 2 = n
  OBVIOUS
<1>2. ASSUME NEW k \in 1 .. n PROVE m[2 * k - 1] \in Half /\ m[2 * k] \in Half
  <2>1. 2 * k - 1 \in 1 .. Len(m) /\ 2 * k \in 1 .. Len(m)
    OBVIOUS
  <2>2. QED
    BY <2>1
<1>3. ASSUME NEW k \in 1 .. n PROVE m[2 * k - 1] * H + m[2 * k] = Pair(m[2 * k], m[2 * k - 1])
  <2>1. m[2 * k - 1] \in Int /\ m[2 * k] \in Int
    BY <1>2, HalfAssumption DEF Half
  <2>2. QED
    BY <2>1, Reversed
<1>4. /\ DOMAIN Little(m) = 1 .. n /\ \A k \in 1 .. n : Little(m)[k] = m[2 * k - 1] + m[2 * k] * H
      /\ DOMAIN Big(m) = 1 .. n /\ \A k \in 1 .. n : Big(m)[k] = m[2 * k - 1] * H + m[2 * k]
  BY <1>1, Zenon DEF Little, Big
<1>5. \A k \in 1 .. n : Little(m)[k] = Pair(m[2 * k - 1], m[2 * k])
  BY <1>4, Zenon DEF Pair
<1>6. ASSUME NEW k \in 1 .. n
      PROVE  /\ Little(m)[k] \in Word /\ Lower(Little(m)[k]) = m[2 * k - 1] /\ Upper(Little(m)[k]) = m[2 * k]
             /\ Big(m)[k] \in Word /\ Upper(Big(m)[k]) = m[2 * k - 1] /\ Lower(Big(m)[k]) = m[2 * k]
  <2> DEFINE a == m[2 * k - 1]
             b == m[2 * k]
  <2>1. a \in Half /\ b \in Half /\ Little(m)[k] = Pair(a, b) /\ Big(m)[k] = Pair(b, a)
    BY <1>2, <1>3, <1>4, <1>5
  <2> HIDE DEF a, b
  <2>2. Pair(a, b) \in Word /\ Pair(b, a) \in Word
    BY <2>1 DEF Word
  <2>3. /\ Lower(Pair(a, b)) = a /\ Upper(Pair(a, b)) = b
        /\ Lower(Pair(b, a)) = b /\ Upper(Pair(b, a)) = a
    BY <2>1, PairFacts
  <2>4. QED
    BY <2>1, <2>2, <2>3 DEF a, b
<1>7. QED
  BY <1>2, <1>4, <1>6

(* The two numbers that a word gives in its memory.                        *)
LEMMA Spread ==
    ASSUME NEW n \in Nat, NEW ws, Len(ws) = n, NEW k \in 1 .. n,
           NEW l \in Half, NEW u \in Half, ws[k] = Pair(l, u)
    PROVE  /\ FromLittle(ws)[2 * k - 1] = l /\ FromLittle(ws)[2 * k] = u
           /\ FromBig(ws)[2 * k - 1] = u /\ FromBig(ws)[2 * k] = l
<1>1. /\ 2 * k - 1 \in 1 .. 2 * Len(ws) /\ ((2 * k - 1) + 1) \div 2 = k /\ (2 * k - 1) % 2 = 1
      /\ 2 * k \in 1 .. 2 * Len(ws) /\ (2 * k + 1) \div 2 = k /\ (2 * k) % 2 # 1
  OBVIOUS
<1>2. Lower(ws[k]) = l /\ Upper(ws[k]) = u
  BY PairFacts
<1>3. FromLittle(ws)[2 * k - 1] = Lower(ws[k]) /\ FromBig(ws)[2 * k - 1] = Upper(ws[k])
  BY <1>1, Zenon DEF FromLittle, FromBig
<1>4. FromLittle(ws)[2 * k] = Upper(ws[k]) /\ FromBig(ws)[2 * k] = Lower(ws[k])
  BY <1>1, Zenon DEF FromLittle, FromBig
<1>5. QED
  BY <1>2, <1>3, <1>4

(* What is fetched of a vector with what lies behind and around it.        *)
LEMMA Neighbours ==
    ASSUME NEW n \in Nat \ {0}, NEW v, v.nums \in Seq(Half), Len(v.nums) = 2 * n, v.beside \in Half
    PROVE  /\ Tail(Behind(v)) \in Seq(Half) /\ Len(Tail(Behind(v))) = 2 * n
           /\ \A i \in 1 .. 2 * n - 1 : Tail(Behind(v))[i] = v.nums[i + 1]
           /\ Around(v) \in Seq(Half) /\ Len(Around(v)) = 2 * (n + 1)
           /\ \A i \in 2 .. 2 * n + 1 : Around(v)[i] = v.nums[i - 1]
<1> DEFINE N == v.nums
           b == v.beside
<1>1. N \in Seq(Half) /\ Len(N) = 2 * n /\ b \in Half /\ <<b>> \in Seq(Half) /\ Len(<<b>>) = 1
  OBVIOUS
<1> HIDE DEF N, b
<1> DEFINE B == N \o <<b>>
<1>2. B \in Seq(Half) /\ Len(B) = 2 * n + 1 /\ \A i \in 1 .. 2 * n : B[i] = N[i]
  BY <1>1
<1> HIDE DEF B
<1>3. Tail(B) \in Seq(Half) /\ Len(Tail(B)) = 2 * n /\ \A i \in 1 .. 2 * n : Tail(B)[i] = B[i + 1]
  BY <1>2
<1>4. \A i \in 1 .. 2 * n - 1 : Tail(B)[i] = N[i + 1]
  BY <1>2, <1>3
<1> DEFINE A == <<b>> \o B
<1>5. A \in Seq(Half) /\ Len(A) = 2 * n + 2 /\ \A i \in 2 .. 2 * n + 2 : A[i] = B[i - 1]
  BY <1>1, <1>2
<1> HIDE DEF A
<1>6. \A i \in 2 .. 2 * n + 1 : A[i] = N[i - 1]
  BY <1>2, <1>5
<1>7. Behind(v) = B /\ Around(v) = A
  BY DEF Behind, Around, A, B, N, b
<1>8. QED
  BY <1>3, <1>4, <1>5, <1>6, <1>7 DEF N

(* Two vectors of n words; the second one may begin in the middle of one.  *)
Laid(n, v1, v2) ==
    /\ n \in Nat \ {0}
    /\ v1 \in Seq(Half) /\ Len(v1) = 2 * n
    /\ v2.nums \in Seq(Half) /\ Len(v2.nums) = 2 * n
    /\ v2.odd \in BOOLEAN /\ v2.beside \in Half

Sums(f, v1, v2)        == \A j \in DOMAIN v1 : f[j] = Plus(v1[j], v2.nums[j])
Differences(f, v1, v2) == \A j \in DOMAIN v1 : f[j] = Minus(v1[j], v2.nums[j])

(* A number is in the lower or in the upper half of a word.                *)
LEMMA WhichWord ==
    ASSUME NEW n, NEW v1, NEW v2, Laid(n, v1, v2), NEW j \in DOMAIN v1
    PROVE  \E k \in 1 .. n : j = 2 * k - 1 \/ j = 2 * k
<1>1. n \in Nat /\ j \in 1 .. 2 * n
  BY DEF Laid
<1> DEFINE k == (j + 1) \div 2
<1>2. k \in 1 .. n /\ (j = 2 * k - 1 \/ j = 2 * k)
  BY <1>1
<1> HIDE DEF k
<1>3. QED
  BY <1>2

(* The vectors of the ARMv5TE: the word before an odd one ends with the    *)
(* number that meets the lower half.                                       *)
LEMMA Vectors5 ==
    ASSUME NEW n, NEW order, Words5(order) = n,
           NEW v1, NEW v2, Laid(n, v1, v2)
    PROVE  Sums(vector_add5(order, v1, v2), v1, v2) /\ Differences(vector_sub5(order, v1, v2), v1, v2)
<1>1. ASSUME NEW k \in 1 .. n
      PROVE  /\ vector_add5(order, v1, v2)[2 * k - 1] = Plus(v1[2 * k - 1], v2.nums[2 * k - 1])
             /\ vector_add5(order, v1, v2)[2 * k] = Plus(v1[2 * k], v2.nums[2 * k])
             /\ vector_sub5(order, v1, v2)[2 * k - 1] = Minus(v1[2 * k - 1], v2.nums[2 * k - 1])
             /\ vector_sub5(order, v1, v2)[2 * k] = Minus(v1[2 * k], v2.nums[2 * k])
  <2> USE DEF Laid
  <2> DEFINE l == v1[2 * k - 1]
             u == v1[2 * k]
             m == v2.nums[2 * k - 1]
             v == v2.nums[2 * k]
             w1 == Little(v1)
             w2 == Little(v2.nums)
             tail == Tail(Behind(v2))
             t == Little(tail)
             s == IF k = 1 THEN Lone(v2) ELSE t[k - 1]
  <2>1. /\ DOMAIN w1 = 1 .. n /\ w1[k] \in Word /\ w2[k] \in Word
        /\ Lower(w1[k]) = l /\ Upper(w1[k]) = u /\ Lower(w2[k]) = m /\ Upper(w2[k]) = v
        /\ l \in Half /\ u \in Half /\ m \in Half /\ v \in Half
    BY Words
  <2>2. tail \in Seq(Half) /\ Len(tail) = 2 * n /\ \A i \in 1 .. 2 * n - 1 : tail[i] = v2.nums[i + 1]
    BY Neighbours
  <2> HIDE DEF tail
  <2>3. \A i \in 1 .. n : t[i] \in Word /\ Lower(t[i]) = tail[2 * i - 1] /\ Upper(t[i]) = tail[2 * i]
    BY <2>2, Words
  <2>4. s \in Word /\ Upper(s) = m
    <3>1. CASE k = 1
      <4>1. 2 * k - 1 = 1 /\ s = Lone(v2)
        BY <3>1
      <4>2. s = lsl(m)
        BY <4>1 DEF Lone
      <4>3. QED
        BY <2>1, <4>2, Alone
    <3>2. CASE k # 1
      <4>1. k - 1 \in 1 .. n /\ s = t[k - 1] /\ 2 * (k - 1) \in 1 .. 2 * n - 1 /\ 2 * (k - 1) + 1 = 2 * k - 1
        BY <3>2
      <4>2. tail[2 * (k - 1)] = m
        BY <2>2, <4>1
      <4>3. QED
        BY <2>3, <4>1, <4>2
    <3>3. QED
      BY <3>1, <3>2
  <2>5. t[k] \in Word /\ Lower(t[k]) = v
    <3>1. 2 * k - 1 \in 1 .. 2 * n - 1 /\ (2 * k - 1) + 1 = 2 * k
      OBVIOUS
    <3>2. QED
      BY <2>2, <2>3, <3>1
  <2> HIDE DEF l, u, m, v, w1, w2, t, s
  <2>6. k <= Words5(order) /\ {Plus(l, m), Plus(u, v), Minus(l, m), Minus(u, v)} \subseteq Half
    BY <2>1, Wraps
  <2>7. CASE ~ v2.odd
    <3> DEFINE add5 == Straight(ADDHALFREGS, Words5(order), w1, w2)
               sub5 == Straight(SUBHALFREGS, Words5(order), w1, w2)
    <3>1. /\ Len(add5) = n /\ add5[k] = ADDHALFREGS(w1[k], w2[k])
          /\ Len(sub5) = n /\ sub5[k] = SUBHALFREGS(w1[k], w2[k])
      BY <2>1, <2>6 DEF Straight
    <3>2. vector_add5(order, v1, v2) = FromLittle(add5) /\ vector_sub5(order, v1, v2) = FromLittle(sub5)
      BY <2>7 DEF vector_add5, vector_sub5, w1, w2
    <3> HIDE DEF add5, sub5
    <3>3. add5[k] = Pair(Plus(l, m), Plus(u, v)) /\ sub5[k] = Pair(Minus(l, m), Minus(u, v))
      BY <2>1, <3>1, Halves5
    <3>4. QED
      BY <2>6, <3>1, <3>2, <3>3, Spread DEF l, u, m, v
  <2>8. CASE v2.odd
    <3> DEFINE add5 == Across(ADDHALFXREGS, Words5(order), w1, Lone(v2), t)
               sub5 == Across(SUBHALFXREGS, Words5(order), w1, Lone(v2), t)
    <3>1. /\ Len(add5) = n /\ add5[k] = ADDHALFXREGS(w1[k], s, t[k])
          /\ Len(sub5) = n /\ sub5[k] = SUBHALFXREGS(w1[k], s, t[k])
      BY <2>1, <2>6 DEF Across, s
    <3>2. vector_add5(order, v1, v2) = FromLittle(add5) /\ vector_sub5(order, v1, v2) = FromLittle(sub5)
      BY <2>8 DEF vector_add5, vector_sub5, w1, t, tail
    <3> HIDE DEF add5, sub5
    <3>3. add5[k] = Pair(Plus(l, m), Plus(u, v)) /\ sub5[k] = Pair(Minus(l, m), Minus(u, v))
      BY <2>1, <2>4, <2>5, <3>1, Halves5
    <3>4. QED
      BY <2>6, <3>1, <3>2, <3>3, Spread DEF l, u, m, v
  <2>9. QED
    BY <2>7, <2>8
<1>2. ASSUME NEW j \in DOMAIN v1
      PROVE  /\ vector_add5(order, v1, v2)[j] = Plus(v1[j], v2.nums[j])
             /\ vector_sub5(order, v1, v2)[j] = Minus(v1[j], v2.nums[j])
  <2>1. PICK k \in 1 .. n : j = 2 * k - 1 \/ j = 2 * k
    BY WhichWord
  <2>2. QED
    BY <1>1, <2>1
<1>3. QED
  BY <1>2 DEF Sums, Differences

(* The vectors of the ARMv6: a word put together of two neighbours has the *)
(* two numbers of the even place.                                          *)
LEMMA Vectors6 ==
    ASSUME NEW n, NEW order, Words6(order) = n,
           NEW v1, NEW v2, Laid(n, v1, v2)
    PROVE  Sums(vector_add6(order, v1, v2), v1, v2) /\ Differences(vector_sub6(order, v1, v2), v1, v2)
<1>1. ASSUME NEW k \in 1 .. n
      PROVE  /\ vector_add6(order, v1, v2)[2 * k - 1] = Plus(v1[2 * k - 1], v2.nums[2 * k - 1])
             /\ vector_add6(order, v1, v2)[2 * k] = Plus(v1[2 * k], v2.nums[2 * k])
             /\ vector_sub6(order, v1, v2)[2 * k - 1] = Minus(v1[2 * k - 1], v2.nums[2 * k - 1])
             /\ vector_sub6(order, v1, v2)[2 * k] = Minus(v1[2 * k], v2.nums[2 * k])
  <2> USE DEF Laid
  <2> DEFINE l == v1[2 * k - 1]
             u == v1[2 * k]
             m == v2.nums[2 * k - 1]
             v == v2.nums[2 * k]
             w1 == Little(v1)
             w2 == Little(v2.nums)
             around == Around(v2)
             t == Little(around)
             w == Fetched6(v2)
  <2>1. /\ DOMAIN w1 = 1 .. n /\ w1[k] \in Word /\ w2[k] \in Word
        /\ Lower(w1[k]) = l /\ Upper(w1[k]) = u /\ Lower(w2[k]) = m /\ Upper(w2[k]) = v
        /\ l \in Half /\ u \in Half /\ m \in Half /\ v \in Half
    BY Words
  <2>2. around \in Seq(Half) /\ Len(around) = 2 * (n + 1) /\ \A i \in 2 .. 2 * n + 1 : around[i] = v2.nums[i - 1]
    BY Neighbours
  <2> HIDE DEF around
  <2>3. /\ DOMAIN t = 1 .. n + 1
        /\ \A i \in 1 .. n + 1 : t[i] \in Word /\ Lower(t[i]) = around[2 * i - 1] /\ Upper(t[i]) = around[2 * i]
    <3>1. n + 1 \in Nat
      OBVIOUS
    <3>2. QED
      BY <2>2, <3>1, Words
  <2>4. w[k] \in Word /\ Lower(w[k]) = m /\ Upper(w[k]) = v
    <3>1. CASE ~ v2.odd
      BY <2>1, <3>1 DEF Fetched6
    <3>2. CASE v2.odd
      <4>1. /\ k \in 1 .. n + 1 /\ k + 1 \in 1 .. n + 1
            /\ 2 * k \in 2 .. 2 * n + 1 /\ 2 * (k + 1) - 1 \in 2 .. 2 * n + 1
            /\ 2 * (k + 1) - 1 - 1 = 2 * k
        OBVIOUS
      <4>2. around[2 * k] = m
        BY <2>2, <4>1
      <4>3. around[2 * (k + 1) - 1] = v
        BY <2>2, <4>1
      <4>4. t[k] \in Word /\ t[k + 1] \in Word /\ Upper(t[k]) = m /\ Lower(t[k + 1]) = v
        BY <2>3, <4>1, <4>2, <4>3
      <4>5. w[k] = pkhtb(ror(t[k + 1]), lsr(t[k])) \/ w[k] = pkhbt(ror(t[k]), lsl(t[k + 1]))
        <5>1. w = Repacked(t)
          BY <3>2 DEF Fetched6, around
        <5>2. Len(t) - 1 = n
          BY <2>3
        <5> HIDE DEF w, t
        <5>3. QED
          BY <5>1, <5>2 DEF Repacked
      <4> HIDE DEF w, t, m, v
      <4>6. w[k] = Pair(m, v)
        BY <4>4, <4>5, Halves6
      <4>7. QED
        BY <2>1, <4>6, PairFacts DEF Word
    <3>3. QED
      BY <3>1, <3>2
  <2> HIDE DEF l, u, m, v, w1, w2, w
  <2>5. k <= Words6(order) /\ {Plus(l, m), Plus(u, v), Minus(l, m), Minus(u, v)} \subseteq Half
    BY <2>1, Wraps
  <2> DEFINE add6 == Straight(sadd16, Words6(order), w1, w)
             sub6 == Straight(ssub16, Words6(order), w1, w)
  <2>6. /\ Len(add6) = n /\ add6[k] = sadd16(w1[k], w[k])
        /\ Len(sub6) = n /\ sub6[k] = ssub16(w1[k], w[k])
    BY <2>1, <2>5 DEF Straight
  <2>7. vector_add6(order, v1, v2) = FromLittle(add6) /\ vector_sub6(order, v1, v2) = FromLittle(sub6)
    BY DEF vector_add6, vector_sub6, w1, w
  <2> HIDE DEF add6, sub6
  <2>8. add6[k] = Pair(Plus(l, m), Plus(u, v)) /\ sub6[k] = Pair(Minus(l, m), Minus(u, v))
    BY <2>1, <2>4, <2>6, Halves6
  <2>9. QED
    BY <2>5, <2>6, <2>7, <2>8, Spread DEF l, u, m, v
<1>2. ASSUME NEW j \in DOMAIN v1
      PROVE  /\ vector_add6(order, v1, v2)[j] = Plus(v1[j], v2.nums[j])
             /\ vector_sub6(order, v1, v2)[j] = Minus(v1[j], v2.nums[j])
  <2>1. PICK k \in 1 .. n : j = 2 * k - 1 \/ j = 2 * k
    BY WhichWord
  <2>2. QED
    BY <1>1, <2>1
<1>3. QED
  BY <1>2 DEF Sums, Differences

(* The vectors of the ColdFire, where the upper half is first.             *)
LEMMA VectorsCf ==
    ASSUME NEW n, NEW order, Words5(order) = n,
           NEW v1, NEW v2, Laid(n, v1, v2)
    PROVE  Sums(vector_add_cf(order, v1, v2), v1, v2) /\ Differences(vector_sub_cf(order, v1, v2), v1, v2)
<1>1. ASSUME NEW k \in 1 .. n
      PROVE  /\ vector_add_cf(order, v1, v2)[2 * k - 1] = Plus(v1[2 * k - 1], v2.nums[2 * k - 1])
             /\ vector_add_cf(order, v1, v2)[2 * k] = Plus(v1[2 * k], v2.nums[2 * k])
             /\ vector_sub_cf(order, v1, v2)[2 * k - 1] = Minus(v1[2 * k - 1], v2.nums[2 * k - 1])
             /\ vector_sub_cf(order, v1, v2)[2 * k] = Minus(v1[2 * k], v2.nums[2 * k])
  <2> USE DEF Laid
  <2> DEFINE l == v1[2 * k]
             u == v1[2 * k - 1]
             m == v2.nums[2 * k]
             v == v2.nums[2 * k - 1]
             w1 == Big(v1)
             w2 == Big(v2.nums)
             tail == Tail(Behind(v2))
             t == Big(tail)
             s == IF k = 1 THEN v2.nums[1] ELSE t[k - 1]
  <2>1. /\ DOMAIN w1 = 1 .. n /\ w1[k] \in Word /\ w2[k] \in Word
        /\ Lower(w1[k]) = l /\ Upper(w1[k]) = u /\ Lower(w2[k]) = m /\ Upper(w2[k]) = v
        /\ l \in Half /\ u \in Half /\ m \in Half /\ v \in Half
    BY Words
  <2>2. tail \in Seq(Half) /\ Len(tail) = 2 * n /\ \A i \in 1 .. 2 * n - 1 : tail[i] = v2.nums[i + 1]
    BY Neighbours
  <2> HIDE DEF tail
  <2>3. \A i \in 1 .. n : t[i] \in Word /\ Upper(t[i]) = tail[2 * i - 1] /\ Lower(t[i]) = tail[2 * i]
    BY <2>2, Words
  <2>4. s \in Word /\ Lower(s) = v
    <3>1. CASE k = 1
      <4>1. 2 * k - 1 = 1
        BY <3>1
      <4>2. s = v
        BY <3>1, <4>1
      <4>3. QED
        BY <2>1, <4>2, Alone
    <3>2. CASE k # 1
      <4>1. k - 1 \in 1 .. n /\ s = t[k - 1] /\ 2 * (k - 1) \in 1 .. 2 * n - 1 /\ 2 * (k - 1) + 1 = 2 * k - 1
        BY <3>2
      <4>2. tail[2 * (k - 1)] = v
        BY <2>2, <4>1
      <4>3. QED
        BY <2>3, <4>1, <4>2
    <3>3. QED
      BY <3>1, <3>2
  <2>5. t[k] \in Word /\ Upper(t[k]) = m
    <3>1. 2 * k - 1 \in 1 .. 2 * n - 1 /\ (2 * k - 1) + 1 = 2 * k
      OBVIOUS
    <3>2. QED
      BY <2>2, <2>3, <3>1
  <2> HIDE DEF l, u, m, v, w1, w2, t, s
  <2>6. k <= Words5(order) /\ {Plus(l, m), Plus(u, v), Minus(l, m), Minus(u, v)} \subseteq Half
    BY <2>1, Wraps
  <2>7. CASE ~ v2.odd
    <3> DEFINE sums == Straight(ADDHALFREGS_cf, Words5(order), w1, w2)
               difs == Straight(SUBHALFREGS_cf, Words5(order), w1, w2)
    <3>1. /\ Len(sums) = n /\ sums[k] = ADDHALFREGS_cf(w1[k], w2[k])
          /\ Len(difs) = n /\ difs[k] = SUBHALFREGS_cf(w1[k], w2[k])
      BY <2>1, <2>6 DEF Straight
    <3>2. vector_add_cf(order, v1, v2) = FromBig(sums) /\ vector_sub_cf(order, v1, v2) = FromBig(difs)
      BY <2>7 DEF vector_add_cf, vector_sub_cf, vector_cf, w1, w2
    <3> HIDE DEF sums, difs
    <3>3. sums[k] = Pair(Plus(l, m), Plus(u, v)) /\ difs[k] = Pair(Minus(l, m), Minus(u, v))
      BY <2>1, <3>1, HalvesCf
    <3>4. QED
      BY <2>6, <3>1, <3>2, <3>3, Spread DEF l, u, m, v
  <2>8. CASE v2.odd
    <3> DEFINE sums == Across(LAMBDA s1, before, s2 : ADDHALFXREGS_cf(s1, ror(before), s2),
                              Words5(order), w1, v2.nums[1], t)
               difs == Across(LAMBDA s1, before, s2 : SUBHALFXREGS_cf(s1, ror(before), s2),
                              Words5(order), w1, v2.nums[1], t)
    <3>1. /\ Len(sums) = n /\ sums[k] = ADDHALFXREGS_cf(w1[k], ror(s), t[k])
          /\ Len(difs) = n /\ difs[k] = SUBHALFXREGS_cf(w1[k], ror(s), t[k])
      BY <2>1, <2>6 DEF Across, s
    <3>2. vector_add_cf(order, v1, v2) = FromBig(sums) /\ vector_sub_cf(order, v1, v2) = FromBig(difs)
      BY <2>8 DEF vector_add_cf, vector_sub_cf, vector_cf, w1, t, tail
    <3> HIDE DEF sums, difs
    <3>3. sums[k] = Pair(Plus(l, m), Plus(u, v)) /\ difs[k] = Pair(Minus(l, m), Minus(u, v))
      BY <2>1, <2>4, <2>5, <3>1, HalvesCf
    <3>4. QED
      BY <2>6, <3>1, <3>2, <3>3, Spread DEF l, u, m, v
  <2>9. QED
    BY <2>7, <2>8
<1>2. ASSUME NEW j \in DOMAIN v1
      PROVE  /\ vector_add_cf(order, v1, v2)[j] = Plus(v1[j], v2.nums[j])
             /\ vector_sub_cf(order, v1, v2)[j] = Minus(v1[j], v2.nums[j])
  <2>1. PICK k \in 1 .. n : j = 2 * k - 1 \/ j = 2 * k
    BY WhichWord
  <2>2. QED
    BY <1>1, <2>1
<1>3. QED
  BY <1>2 DEF Sums, Differences

(* The orders of the filters: 16, and 32 or more of which 32 is a part.    *)
FilterOrders == {16} \union {32 * p : p \in Nat \ {0}}

(* So many words are all of the vector, and so many numbers on an ARMv4.   *)
LEMMA Counts ==
    ASSUME NEW order \in FilterOrders
    PROVE  /\ order \in Nat \ {0} /\ order \div 2 \in Nat \ {0} /\ 2 * (order \div 2) = order
           /\ Words5(order) = order \div 2 /\ Words6(order) = order \div 2 /\ Numbers4(order) = order
<1>1. CASE order = 16
  BY <1>1 DEF Words5, Words6, Numbers4, Passes
<1>2. ASSUME NEW p \in Nat \ {0}, order = 32 * p
      PROVE  /\ order \in Nat \ {0} /\ order \div 2 \in Nat \ {0} /\ 2 * (order \div 2) = order
             /\ Words5(order) = order \div 2 /\ Words6(order) = order \div 2 /\ Numbers4(order) = order
  <2>1. (32 * p) \div 2 = 16 * p /\ (32 * p) \div 16 = 2 * p /\ (32 * p) \div 32 = p /\ 32 * p > 16
    OBVIOUS
  <2>2. Passes(order) = p
    BY <1>2, <2>1 DEF Passes
  <2>3. QED
    BY <1>2, <2>1, <2>2 DEF Words5, Words6, Numbers4
<1>3. QED
  BY <1>1, <1>2 DEF FilterOrders

Vector(order) == {m \in Seq(Half) : Len(m) = order}

(* vector_add() and vector_sub() of the ARMv5TE, the ARMv6, the ColdFire and*)
(* the ARMv4 come to the sum and the difference of every two numbers, each *)
(* in its half with nothing carried into the other, wherever the second    *)
(* vector begins in a word and whatever lies beside it.                    *)
THEOREM VectorsAreExact ==
    ASSUME NEW order \in FilterOrders, NEW v1 \in Vector(order),
           NEW v2 \in [nums : Vector(order), odd : BOOLEAN, beside : Half]
    PROVE  /\ Sums(vector_add5(order, v1, v2), v1, v2) /\ Differences(vector_sub5(order, v1, v2), v1, v2)
           /\ Sums(vector_add6(order, v1, v2), v1, v2) /\ Differences(vector_sub6(order, v1, v2), v1, v2)
           /\ Sums(vector_add_cf(order, v1, v2), v1, v2) /\ Differences(vector_sub_cf(order, v1, v2), v1, v2)
           /\ \A j \in 1 .. order : /\ vector_add4(order, v1, v2)[j] = v1[j] + v2.nums[j]
                                    /\ vector_sub4(order, v1, v2)[j] = v1[j] - v2.nums[j]
<1> DEFINE n == order \div 2
<1>1. /\ order \in Nat \ {0} /\ n \in Nat \ {0} /\ 2 * n = order
      /\ Words5(order) = n /\ Words6(order) = n /\ Numbers4(order) = order
  BY Counts
<1> HIDE DEF n
<1>2. Laid(n, v1, v2) /\ DOMAIN v1 = 1 .. order
  BY <1>1 DEF Laid, Vector
<1>3. Sums(vector_add5(order, v1, v2), v1, v2) /\ Differences(vector_sub5(order, v1, v2), v1, v2)
  BY <1>1, <1>2, Vectors5
<1>4. Sums(vector_add6(order, v1, v2), v1, v2) /\ Differences(vector_sub6(order, v1, v2), v1, v2)
  BY <1>1, <1>2, Vectors6
<1>5. Sums(vector_add_cf(order, v1, v2), v1, v2) /\ Differences(vector_sub_cf(order, v1, v2), v1, v2)
  BY <1>1, <1>2, VectorsCf
<1>6. \A j \in 1 .. order : /\ vector_add4(order, v1, v2)[j] = v1[j] + v2.nums[j]
                            /\ vector_sub4(order, v1, v2)[j] = v1[j] - v2.nums[j]
  BY <1>1, <1>2 DEF vector_add4, vector_sub4, Straight
<1>7. QED
  BY <1>3, <1>4, <1>5, <1>6
=============================================================================
