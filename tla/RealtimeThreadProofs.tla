------------------------ MODULE RealtimeThreadProofs ------------------------
(***************************************************************************)
(* The realtime thread runs the ramp as VelocityRamp has it, its ring of   *)
(* jitters holds the latest ones, for every capacity of the ring, and what *)
(* it reports are percentiles of those.                                    *)
(***************************************************************************)
EXTENDS RealtimeThread, VelocityRampProofs, FiniteSetTheorems, WellFoundedInduction

USE WindowAssumption

(* Measuring the jitter does not disturb the ramp.                          *)
LEMMA ThreadRefinesRamp == ThreadSpec => Spec
<1>1. ThreadInit => Init
  BY DEF ThreadInit
<1>2. [ThreadNext]_threadVars => [Next]_vars
  BY DEF ThreadNext, MeasuredWake, Unmeasured, Next, threadVars
<1>3. QED
  BY <1>1, <1>2, PTL DEF ThreadSpec, Spec

-----------------------------------------------------------------------------
(* Stepping around the ring.                                                *)
LEMMA RingStep ==
  ASSUME NEW i \in Slots
  PROVE  (i + 1) % WINDOW = IF i + 1 = WINDOW THEN 0 ELSE i + 1
BY DEF Slots

LEMMA RingBack ==
  ASSUME NEW i \in Slots, NEW k \in 1 .. WINDOW
  PROVE  (i - k) % WINDOW = IF k <= i THEN i - k ELSE i - k + WINDOW
BY DEF Slots
-----------------------------------------------------------------------------
(* The types of the ring follow from those of the ramp: a jitter is a time. *)
LEMMA JitterIsNat ==
  ASSUME TypeOK PROVE WakeJitter \in Nat
BY DEF TypeOK, WakeJitter

LEMMA RingTypeStep ==
  ASSUME JitterTypeOK, NEW ms \in Nat, UpdateJitter(ms)
  PROVE  JitterTypeOK'
<1>1. ring_idx' \in Slots
  BY RingStep DEF UpdateJitter, NextIdx, JitterTypeOK, Slots
<1>2. ring_buffer' \in [Slots -> Nat] /\ measured' \in Seq(Nat)
  BY DEF UpdateJitter, JitterTypeOK
<1>3. ring_count' \in 0 .. WINDOW /\ max_ms' \in Nat
  BY DEF UpdateJitter, JitterTypeOK
<1>4. QED
  BY <1>1, <1>2, <1>3 DEF JitterTypeOK

LEMMA ThreadTypeInit == ThreadInit => JitterTypeOK
BY DEF ThreadInit, JitterInit, JitterTypeOK, Slots

LEMMA ThreadTypeStep == TypeOK /\ JitterTypeOK /\ [ThreadNext]_threadVars => JitterTypeOK'
<1> SUFFICES ASSUME TypeOK, JitterTypeOK, [ThreadNext]_threadVars PROVE JitterTypeOK'
  OBVIOUS
<1>1. CASE MeasuredWake
  BY <1>1, JitterIsNat, RingTypeStep DEF MeasuredWake
<1>2. CASE UNCHANGED jitterVars
  BY <1>2 DEF jitterVars, JitterTypeOK
<1>3. QED
  BY <1>1, <1>2 DEF ThreadNext, Unmeasured, threadVars

(* Every variable of the realtime thread keeps its type: no jitter is       *)
(* negative, whatever wakes the thread early, and the index stays in range. *)
THEOREM ThreadTypeCorrect == ThreadSpec => []ThreadTypeOK
<1>1. TypeOK /\ JitterTypeOK => ThreadTypeOK
  BY DEF ThreadTypeOK
<1>2. QED
  BY ThreadRefinesRamp, TypeCorrect, ThreadTypeInit, ThreadTypeStep, <1>1, PTL
     DEF ThreadSpec

(* The bound of the ramp holds of the thread with its measurements.         *)
THEOREM ThreadRampBounded == ThreadSpec => [](RampBounded /\ TargetReached)
BY ThreadRefinesRamp, RampBoundedAlways, TargetReachedAlways, PTL

-----------------------------------------------------------------------------
(* One measurement overwrites the slot furthest back and moves every other  *)
(* one a step further from the index.                                       *)
LEMMA LatestStep ==
  ASSUME JitterTypeOK, RingHoldsLatest, NEW ms \in Nat, UpdateJitter(ms)
  PROVE  RingHoldsLatest'
<1> USE DEF JitterTypeOK
<1>1. /\ ring_buffer' = [ring_buffer EXCEPT ![ring_idx] = ms]
      /\ ring_idx' = (ring_idx + 1) % WINDOW
      /\ ring_count' = IF ring_count < WINDOW THEN ring_count + 1 ELSE ring_count
      /\ measured' = Append(measured, ms)
  BY DEF UpdateJitter, NextIdx
<1>2. Len(measured') = Len(measured) + 1 /\ Len(measured) \in Nat
  BY <1>1
<1>3. ring_count' = Lesser(Len(measured'), WINDOW)
  BY <1>1, <1>2 DEF RingHoldsLatest, Lesser
<1>4. ASSUME NEW k \in 1 .. ring_count'
      PROVE  ring_buffer'[(ring_idx' - k) % WINDOW] = measured'[Len(measured') - k + 1]
  <2>1. ring_count' \in 0 .. WINDOW /\ k \in 1 .. WINDOW /\ k - 1 \in 0 .. ring_count
    BY <1>1
  <2>2. k <= Len(measured) + 1
    BY <1>2, <1>3, <2>1 DEF Lesser
  <2>3. ring_idx' \in Slots
    BY <1>1, RingStep DEF Slots
  <2>4. (ring_idx' - k) % WINDOW
          = IF k <= ring_idx' THEN ring_idx' - k ELSE ring_idx' - k + WINDOW
    BY <2>1, <2>3, RingBack
  <2>5. ring_idx' = IF ring_idx + 1 = WINDOW THEN 0 ELSE ring_idx + 1
    BY <1>1, RingStep
  <2>6. CASE k = 1
    <3>1. (ring_idx' - k) % WINDOW = ring_idx
      BY <2>4, <2>5, <2>6 DEF Slots
    <3>2. QED
      BY <1>1, <1>2, <2>6, <3>1
  <2>7. CASE k > 1
    <3>1. k - 1 \in 1 .. ring_count /\ k - 1 \in 1 .. WINDOW
      BY <2>1, <2>7
    <3>2. (ring_idx - (k - 1)) % WINDOW
            = IF k - 1 <= ring_idx THEN ring_idx - (k - 1) ELSE ring_idx - (k - 1) + WINDOW
      BY <3>1, RingBack
    <3>3. (ring_idx' - k) % WINDOW = (ring_idx - (k - 1)) % WINDOW
      BY <2>4, <2>5, <3>1, <3>2 DEF Slots
    <3>4. (ring_idx - (k - 1)) % WINDOW \in Slots
          /\ (ring_idx - (k - 1)) % WINDOW # ring_idx
      BY <2>1, <3>1, <3>2 DEF Slots
    <3>5. ring_buffer'[(ring_idx' - k) % WINDOW] = ring_buffer[(ring_idx - (k - 1)) % WINDOW]
      BY <1>1, <3>3, <3>4
    <3>6. ring_buffer[(ring_idx - (k - 1)) % WINDOW] = measured[Len(measured) - (k - 1) + 1]
      BY <3>1 DEF RingHoldsLatest
    <3>7. measured'[Len(measured') - k + 1] = measured[Len(measured) - (k - 1) + 1]
      BY <1>1, <1>2, <2>1, <2>2, <2>7
    <3>8. QED
      BY <3>5, <3>6, <3>7
  <2>8. QED
    BY <2>1, <2>6, <2>7
<1>5. QED
  BY <1>3, <1>4 DEF RingHoldsLatest

(* The ring holds the latest WINDOW jitters in order, through every wrap.   *)
THEOREM RingHoldsLatestAlways == ThreadSpec => []RingHoldsLatest
<1>1. ThreadInit => RingHoldsLatest
  BY DEF ThreadInit, JitterInit, RingHoldsLatest, Lesser
<1>2. ThreadTypeOK /\ RingHoldsLatest /\ [ThreadNext]_threadVars => RingHoldsLatest'
  <2> SUFFICES ASSUME ThreadTypeOK, RingHoldsLatest, [ThreadNext]_threadVars
               PROVE  RingHoldsLatest'
    OBVIOUS
  <2>1. CASE MeasuredWake
    BY <2>1, JitterIsNat, LatestStep DEF MeasuredWake, ThreadTypeOK
  <2>2. CASE UNCHANGED jitterVars
    BY <2>2 DEF jitterVars, RingHoldsLatest
  <2>3. QED
    BY <2>1, <2>2 DEF ThreadNext, Unmeasured, threadVars
<1>3. QED
  BY ThreadTypeCorrect, <1>1, <1>2, PTL DEF ThreadSpec

-----------------------------------------------------------------------------
(* A set of numbers has a least one.  (< is well founded on Nat; from here  *)
(* on a smallest counterexample takes the place of induction.)              *)
LEMMA Least ==
  ASSUME NEW S \in SUBSET Nat, S # {}
  PROVE  \E n \in S : \A m \in S : n <= m
<1> DEFINE R == OpToRel(<, Nat)
<1>1. IsWellFoundedOn(R, Nat)
  BY NatLessThanWellFounded
<1>2. \A a, b \in Nat : a < b => <<a, b>> \in R
  BY Zenon DEF OpToRel
<1> HIDE DEF R
<1>3. \E n \in S : \A m \in S : ~ (<<m, n>> \in R)
  BY <1>1, WFMin
<1>4. PICK n \in S : \A m \in S : ~ (<<m, n>> \in R)
  BY <1>3
<1>5. \A m \in S : ~ (m < n)
  BY <1>2, <1>4
<1>6. QED
  BY <1>5

(* What std::sort promises of the first n slots: an order in which they     *)
(* ascend.                                                                  *)
Ordered(n) == \E order \in Injection(1 .. n, 0 .. n - 1) : Ascends(order)

(* The slot n - 1 goes before the first slot that holds more, and the ones  *)
(* from there on make room.                                                 *)
LEMMA Insertion ==
  ASSUME ring_buffer \in [Slots -> Nat], NEW n \in 1 .. WINDOW, Ordered(n - 1)
  PROVE  Ordered(n)
<1>1. PICK p \in Injection(1 .. n - 1, 0 .. (n - 1) - 1) : Ascends(p)
  BY DEF Ordered
<1>2. /\ p \in [1 .. n - 1 -> 0 .. n - 2]
      /\ \A i, j \in 1 .. n - 1 : p[i] = p[j] => i = j
  BY <1>1 DEF Injection, IsInjective
<1>3. \A i, j \in 1 .. n - 1 : i < j => ring_buffer[p[i]] <= ring_buffer[p[j]]
  BY <1>1, <1>2 DEF Ascends
<1> DEFINE last == ring_buffer[n - 1]
           Above == {i \in 1 .. n : i = n \/ ring_buffer[p[i]] > last}
<1>4. /\ last \in Nat
      /\ \A i \in 1 .. n - 1 : p[i] \in Slots /\ ring_buffer[p[i]] \in Nat /\ p[i] # n - 1
  BY <1>2 DEF Slots
<1>5. PICK k \in Above : \A i \in Above : k <= i
  <2>1. Above \in SUBSET Nat /\ Above # {}
    OBVIOUS
  <2>2. QED
    BY <2>1, Least
<1>6. /\ k \in 1 .. n
      /\ \A i \in 1 .. k - 1 : ring_buffer[p[i]] <= last
  BY <1>4, <1>5
<1>7. \A i \in k .. n - 1 : ring_buffer[p[i]] > last
  BY <1>3, <1>4, <1>5
<1> DEFINE q == [i \in 1 .. n |-> IF i < k THEN p[i] ELSE IF i = k THEN n - 1 ELSE p[i - 1]]
<1>8. q \in [1 .. n -> 0 .. n - 1]
  BY <1>2, <1>6
<1>9. ASSUME NEW i \in 1 .. n, NEW j \in 1 .. n, i < j
      PROVE  q[i] # q[j] /\ ring_buffer[q[i]] <= ring_buffer[q[j]]
  <2>1. CASE j < k
    BY <1>2, <1>3, <1>6, <1>9, <2>1
  <2>2. CASE j = k
    BY <1>4, <1>6, <1>9, <2>2
  <2>3. CASE k < j /\ i < k
    <3>1. q[i] = p[i] /\ q[j] = p[j - 1] /\ i \in 1 .. n - 1 /\ j - 1 \in 1 .. n - 1 /\ i < j - 1
      BY <1>6, <1>9, <2>3
    <3>3. QED
      BY <1>2, <1>3, <3>1
  <2>4. CASE k < j /\ i = k
    BY <1>4, <1>6, <1>7, <1>9, <2>4
  <2>5. CASE k < i
    <3>1. q[i] = p[i - 1] /\ q[j] = p[j - 1]
          /\ i - 1 \in 1 .. n - 1 /\ j - 1 \in 1 .. n - 1 /\ i - 1 < j - 1
      BY <1>6, <1>9, <2>5
    <3>2. QED
      BY <1>2, <1>3, <3>1
  <2>6. QED
    BY <1>6, <1>9, <2>1, <2>2, <2>3, <2>4, <2>5
<1> HIDE DEF q
<1>10. \A i, j \in 1 .. n : q[i] = q[j] => i = j
  <2>1. \A i, j \in 1 .. n : i < j => q[i] # q[j]
    BY <1>9
  <2>2. QED
    BY <2>1
<1>11. q \in Injection(1 .. n, 0 .. n - 1)
  BY <1>8, <1>10 DEF Injection, IsInjective
<1>12. Ascends(q)
  BY <1>8, <1>9 DEF Ascends
<1>13. QED
  BY <1>11, <1>12 DEF Ordered

(* So every prefix of the ring can be sorted, and CHOOSE finds an order.    *)
LEMMA OrderExists ==
  ASSUME ring_buffer \in [Slots -> Nat], NEW n \in 0 .. WINDOW
  PROVE  Ordered(n)
<1> DEFINE Bad == {m \in 0 .. WINDOW : ~ Ordered(m)}
<1>1. Ordered(0)
  <2> DEFINE p == [i \in 1 .. 0 |-> 0]
  <2>1. p \in Injection(1 .. 0, 0 .. 0 - 1)
    BY DEF Injection, IsInjective
  <2>2. Ascends(p)
    BY DEF Ascends
  <2>3. QED
    BY <2>1, <2>2 DEF Ordered
<1>2. CASE Bad # {}
  <2>1. PICK m \in Bad : \A i \in Bad : m <= i
    <3>1. Bad \in SUBSET Nat
      OBVIOUS
    <3>2. QED
      BY <1>2, <3>1, Least
  <2>2. m \in 1 .. WINDOW /\ m - 1 \in 0 .. WINDOW /\ m - 1 \notin Bad /\ ~ Ordered(m)
    BY <1>1, <2>1
  <2>3. Ordered(m - 1)
    BY <2>2
  <2>4. QED
    BY <2>2, <2>3, Insertion
<1>3. CASE Bad = {}
  BY <1>3
<1>4. QED
  BY <1>2, <1>3

-----------------------------------------------------------------------------
(* The index n * p / 100 is one of the n, and its place is the right one.   *)
LEMMA PercentileIndex ==
  ASSUME NEW n \in Nat \ {0}
  PROVE  /\ \A p \in {50, 95, 99} :
              LET k == (n * p) \div 100 + 1
              IN  k \in 1 .. n /\ (k - 1) * 100 <= p * n /\ k * 100 > p * n
         /\ (n * 50) \div 100 <= (n * 95) \div 100
         /\ (n * 95) \div 100 <= (n * 99) \div 100
<1>1. ASSUME NEW p \in {50, 95, 99}
      PROVE  LET k == (n * p) \div 100 + 1
             IN  k \in 1 .. n /\ (k - 1) * 100 <= p * n /\ k * 100 > p * n
  <2>1. CASE p = 50
    BY <2>1
  <2>2. CASE p = 95
    BY <2>2
  <2>3. CASE p = 99
    BY <2>3
  <2>4. QED
    BY <1>1, <2>1, <2>2, <2>3
<1>2. QED
  BY <1>1

(* Besides where the latest frames are, a report relies on which slots are  *)
(* the filled ones, and on the maximum being one of all that was stored.    *)
RingFillsInOrder == ring_count < WINDOW => ring_idx = ring_count

RingBelowMax == \A s \in Slots : ring_buffer[s] <= max_ms

JitterInv ==
  JitterTypeOK /\ RingHoldsLatest /\ RingFillsInOrder /\ RingBelowMax

(* How far behind the index the slot s lies, and the frame that is there.   *)
Back(s) == IF s < ring_idx THEN ring_idx - s ELSE ring_idx - s + WINDOW
FrameOf(s) == Len(measured) - Back(s) + 1

(* A filled slot holds one of the latest frames.                            *)
LEMMA SlotHoldsFrame ==
  ASSUME JitterInv, NEW s \in 0 .. ring_count - 1
  PROVE  /\ s \in Slots
         /\ FrameOf(s) \in Latest
         /\ ring_buffer[s] = measured[FrameOf(s)]
<1> USE DEF JitterInv, JitterTypeOK
<1>1. s \in Slots /\ Back(s) \in 1 .. ring_count /\ Back(s) \in 1 .. WINDOW
  BY DEF RingFillsInOrder, Back, Slots
<1>2. (ring_idx - Back(s)) % WINDOW = s
  <2>1. (ring_idx - Back(s)) % WINDOW
          = IF Back(s) <= ring_idx THEN ring_idx - Back(s) ELSE ring_idx - Back(s) + WINDOW
    BY <1>1, RingBack
  <2>2. (IF Back(s) <= ring_idx THEN ring_idx - Back(s) ELSE ring_idx - Back(s) + WINDOW) = s
    BY <1>1 DEF Back, Slots
  <2>3. QED
    BY <2>1, <2>2
<1>3. ring_buffer[s] = measured[FrameOf(s)]
  BY <1>1, <1>2 DEF RingHoldsLatest, FrameOf
<1>4. Len(measured) \in Nat /\ ring_count <= Len(measured) /\ ring_count <= WINDOW
      /\ DOMAIN measured = 1 .. Len(measured)
  BY DEF RingHoldsLatest, Lesser
<1>5. FrameOf(s) \in Latest
  <2>1. WINDOW \in Nat /\ ring_count \in Nat /\ Back(s) \in Int
    BY <1>1
  <2> HIDE DEF JitterInv, JitterTypeOK
  <2>2. FrameOf(s) \in 1 .. Len(measured) /\ FrameOf(s) > Len(measured) - WINDOW
    BY <1>1, <1>4, <2>1 DEF FrameOf
  <2>3. QED
    BY <1>4, <2>2 DEF Latest
<1>6. QED
  BY <1>1, <1>3, <1>5

(* There are as many latest frames as filled slots.                         *)
LEMMA LatestCount ==
  ASSUME JitterTypeOK, RingHoldsLatest
  PROVE  IsFiniteSet(Latest) /\ Cardinality(Latest) = ring_count
<1>1. Len(measured) \in Nat /\ DOMAIN measured = 1 .. Len(measured)
      /\ ring_count = Lesser(Len(measured), WINDOW)
  BY DEF RingHoldsLatest, JitterTypeOK
<1>2. Latest = Len(measured) - ring_count + 1 .. Len(measured)
  <2>1. CASE Len(measured) < WINDOW
    BY <1>1, <2>1 DEF Latest, Lesser
  <2>2. CASE ~ (Len(measured) < WINDOW)
    BY <1>1, <2>2 DEF Latest, Lesser
  <2>3. QED
    BY <2>1, <2>2
<1>3. ring_count \in Nat /\ ring_count <= Len(measured)
  BY <1>1 DEF Lesser
<1>4. QED
  BY <1>1, <1>2, <1>3, FS_Interval

(* What the percentiles are read from.                                      *)
LEMMA SortedAscends ==
  ASSUME JitterTypeOK
  PROVE  /\ Order \in Injection(1 .. ring_count, 0 .. ring_count - 1)
         /\ \A i, j \in 1 .. ring_count : i <= j => Sorted[i] <= Sorted[j]
         /\ \A i \in 1 .. ring_count :
              /\ Order[i] \in 0 .. ring_count - 1
              /\ Sorted[i] = ring_buffer[Order[i]]
              /\ Sorted[i] \in Nat
<1>1. ring_count \in 0 .. WINDOW /\ ring_buffer \in [Slots -> Nat]
  BY DEF JitterTypeOK
<1>2. \E order \in Injection(1 .. ring_count, 0 .. ring_count - 1) : Ascends(order)
  BY <1>1, OrderExists DEF Ordered
<1>3. Order \in Injection(1 .. ring_count, 0 .. ring_count - 1) /\ Ascends(Order)
  BY <1>2 DEF Order, Filled
<1>4. Order \in [1 .. ring_count -> 0 .. ring_count - 1]
  BY <1>3 DEF Injection
<1>5. \A i \in 1 .. ring_count :
        /\ Order[i] \in 0 .. ring_count - 1
        /\ Sorted[i] = ring_buffer[Order[i]]
        /\ Sorted[i] \in Nat
  BY <1>1, <1>4 DEF Sorted, Filled, Slots
<1>6. \A i, j \in 1 .. ring_count : i < j => Sorted[i] <= Sorted[j]
  BY <1>3, <1>4, <1>5 DEF Ascends
<1>7. \A i, j \in 1 .. ring_count : i <= j => Sorted[i] <= Sorted[j]
  BY <1>5, <1>6
<1>8. QED
  BY <1>3, <1>5, <1>7

(* The sorted slots and the latest frames are in one-to-one correspondence, *)
(* so the k-th of the first has its rank among the second.                  *)
LEMMA RankOfSorted ==
  ASSUME JitterInv, NEW k \in 1 .. ring_count
  PROVE  /\ Cardinality({i \in Latest : measured[i] < Sorted[k]}) \in 0 .. k - 1
         /\ Cardinality({i \in Latest : measured[i] <= Sorted[k]}) \in Nat
         /\ Cardinality({i \in Latest : measured[i] <= Sorted[k]}) >= k
<1> DEFINE n == ring_count
           frame == [j \in 1 .. n |-> FrameOf(Order[j])]
           Less == {i \in Latest : measured[i] < Sorted[k]}
           AtMost == {i \in Latest : measured[i] <= Sorted[k]}
<1>1. JitterTypeOK /\ RingHoldsLatest /\ n \in Nat /\ ring_idx \in Slots
  BY DEF JitterInv, JitterTypeOK
<1>2. /\ \A i, j \in 1 .. n : i <= j => Sorted[i] <= Sorted[j]
      /\ \A j \in 1 .. n : Sorted[j] \in Nat
      /\ \A i, j \in 1 .. n : Order[i] = Order[j] => i = j
  BY <1>1, SortedAscends DEF Injection, IsInjective
<1>3. \A j \in 1 .. n : frame[j] \in Latest /\ measured[frame[j]] = Sorted[j]
  BY <1>1, SlotHoldsFrame, SortedAscends
<1>4. \A i, j \in 1 .. n : frame[i] = frame[j] => i = j
  <2>1. \A s, t \in 0 .. n - 1 : FrameOf(s) = FrameOf(t) => s = t
    BY <1>1 DEF FrameOf, Back, JitterTypeOK, Slots
  <2>2. \A j \in 1 .. n : Order[j] \in 0 .. n - 1
    BY <1>1, SortedAscends
  <2>3. QED
    BY <1>2, <2>1, <2>2
<1>5. IsFiniteSet(Latest) /\ Cardinality(Latest) = n
  BY <1>1, LatestCount
<1>6. IsFiniteSet(1 .. n) /\ Cardinality(1 .. n) = n
  BY <1>1, FS_Interval
<1>7. \A i \in Latest : \E j \in 1 .. n : frame[j] = i
  <2>1. frame \in Injection(1 .. n, Latest)
    BY <1>3, <1>4 DEF Injection, IsInjective
  <2>2. frame \in Surjection(1 .. n, Latest)
    BY <1>5, <1>6, <2>1, FS_Injection
  <2>3. QED
    BY <2>2 DEF Surjection
<1> HIDE DEF frame
<1>8. Cardinality(Less) \in 0 .. k - 1
  <2> DEFINE first == [j \in 1 .. k - 1 |-> frame[j]]
             Image == {frame[j] : j \in 1 .. k - 1}
  <2>1. Less \subseteq Image
    BY <1>2, <1>3, <1>7
  <2>2. first \in Surjection(1 .. k - 1, Image)
    BY DEF Surjection
  <2>3. IsFiniteSet(1 .. k - 1) /\ Cardinality(1 .. k - 1) = k - 1
    BY FS_Interval
  <2>4. IsFiniteSet(Image) /\ Cardinality(Image) <= k - 1
    BY <2>2, <2>3, FS_Surjection
  <2>5. /\ IsFiniteSet(Less) /\ Cardinality(Less) <= Cardinality(Image)
        /\ Cardinality(Less) \in Nat /\ Cardinality(Image) \in Nat
    BY <2>1, <2>4, FS_Subset, FS_CardinalityType
  <2>6. QED
    BY <2>4, <2>5
<1>9. Cardinality(AtMost) \in Nat /\ Cardinality(AtMost) >= k
  <2> DEFINE first == [j \in 1 .. k |-> frame[j]]
  <2>1. \A j \in 1 .. k : j \in 1 .. n /\ frame[j] \in AtMost
    BY <1>1, <1>2, <1>3
  <2>2. first \in Injection(1 .. k, AtMost)
    BY <1>4, <2>1 DEF Injection, IsInjective
  <2>3. Cardinality(1 .. k) = k
    BY FS_Interval
  <2>4. IsFiniteSet(AtMost) /\ Cardinality(AtMost) \in Nat
    BY <1>5, FS_Subset, FS_CardinalityType
  <2>5. QED
    BY <2>2, <2>3, <2>4, FS_Injection
<1>10. QED
  BY <1>8, <1>9

(* Each number of a report is the percentile of the latest frames it is     *)
(* called.                                                                  *)
LEMMA ReportIsPercentile ==
  ASSUME JitterInv, ring_count > 0, NEW p \in {50, 95, 99}
  PROVE  IsPercentile(p, Percentile(p))
<1> DEFINE k == (ring_count * p) \div 100 + 1
<1>1. ring_count \in Nat \ {0} /\ JitterTypeOK /\ RingHoldsLatest
  BY DEF JitterInv, JitterTypeOK
<1>2. k \in 1 .. ring_count /\ (k - 1) * 100 <= p * ring_count /\ k * 100 > p * ring_count
  BY <1>1, PercentileIndex
<1>3. Percentile(p) = Sorted[k]
  BY DEF Percentile, Filled
<1>4. Cardinality(Latest) = ring_count
  BY <1>1, LatestCount
<1> HIDE DEF k
<1>5. /\ Cardinality({i \in Latest : measured[i] < Sorted[k]}) \in 0 .. k - 1
      /\ Cardinality({i \in Latest : measured[i] <= Sorted[k]}) \in Nat
      /\ Cardinality({i \in Latest : measured[i] <= Sorted[k]}) >= k
  BY <1>2, RankOfSorted
<1>6. QED
  BY <1>1, <1>2, <1>3, <1>4, <1>5 DEF IsPercentile

(* So is a whole report, and it is in order up to the maximum.              *)
LEMMA PercentilesFollow == JitterInv => PercentilesOfWindow
<1> SUFFICES ASSUME JitterInv PROVE PercentilesOfWindow
  OBVIOUS
<1>1. JitterTypeOK /\ RingBelowMax
  BY DEF JitterInv
<1>2. CASE ring_count = 0
  BY <1>2 DEF PercentilesOfWindow, GetJitterPercentiles
<1>3. CASE ring_count > 0
  <2> DEFINE i50 == (ring_count * 50) \div 100 + 1
             i95 == (ring_count * 95) \div 100 + 1
             i99 == (ring_count * 99) \div 100 + 1
  <2>1. ring_count \in Nat \ {0}
    BY <1>1, <1>3 DEF JitterTypeOK
  <2>2. /\ i50 \in 1 .. ring_count /\ i95 \in 1 .. ring_count /\ i99 \in 1 .. ring_count
        /\ i50 <= i95 /\ i95 <= i99
    BY <2>1, PercentileIndex
  <2>3. Percentile(50) = Sorted[i50] /\ Percentile(95) = Sorted[i95] /\ Percentile(99) = Sorted[i99]
    BY DEF Percentile, Filled
  <2> HIDE DEF i50, i95, i99
  <2>4. Percentile(50) <= Percentile(95) /\ Percentile(95) <= Percentile(99)
    BY <1>1, <2>2, <2>3, SortedAscends
  <2>5. Percentile(99) <= max_ms
    <3>1. Sorted[i99] = ring_buffer[Order[i99]] /\ Order[i99] \in 0 .. ring_count - 1
      BY <1>1, <2>2, SortedAscends
    <3>2. Order[i99] \in Slots
      BY <1>1, <3>1 DEF JitterTypeOK, Slots
    <3>3. QED
      BY <1>1, <2>3, <3>1, <3>2 DEF RingBelowMax
  <2>6. IsPercentile(50, Percentile(50)) /\ IsPercentile(95, Percentile(95))
        /\ IsPercentile(99, Percentile(99))
    BY <1>3, ReportIsPercentile
  <2>7. GetJitterPercentiles = [p50 |-> Percentile(50), p95 |-> Percentile(95),
                                p99 |-> Percentile(99), max |-> max_ms]
    BY <2>1 DEF GetJitterPercentiles
  <2>8. QED
    BY <2>4, <2>5, <2>6, <2>7 DEF PercentilesOfWindow
<1>4. QED
  BY <1>1, <1>2, <1>3 DEF JitterTypeOK

(* A frame fills the next slot while there is one that was never filled,    *)
(* and raises the maximum if it has to.                                     *)
LEMMA JitterInvStep ==
  ASSUME JitterInv, NEW ms \in Nat, UpdateJitter(ms)
  PROVE  JitterInv'
<1>1. JitterTypeOK /\ RingHoldsLatest /\ RingFillsInOrder /\ RingBelowMax
  BY DEF JitterInv
<1>2. JitterTypeOK'
  BY <1>1, RingTypeStep
<1>3. RingHoldsLatest'
  BY <1>1, LatestStep
<1>4. RingFillsInOrder'
  <2>1. ring_idx' = IF ring_idx + 1 = WINDOW THEN 0 ELSE ring_idx + 1
    BY <1>1, RingStep DEF UpdateJitter, NextIdx, JitterTypeOK
  <2>2. QED
    BY <1>1, <2>1 DEF UpdateJitter, RingFillsInOrder, JitterTypeOK, Slots
<1>5. RingBelowMax'
  BY <1>1 DEF UpdateJitter, RingBelowMax, JitterTypeOK
<1>6. QED
  BY <1>2, <1>3, <1>4, <1>5 DEF JitterInv

(* Whatever the capacity of the ring and however long the thread has run,   *)
(* the p50, p95 and p99 of a status message are percentiles of the latest   *)
(* WINDOW frames (of all, while there are fewer), and none of them exceeds  *)
(* the maximum.                                                             *)
THEOREM PercentilesOfWindowAlways == ThreadSpec => []PercentilesOfWindow
<1>1. ThreadInit => JitterInv
  BY ThreadTypeInit DEF ThreadInit, JitterInit, JitterInv, RingHoldsLatest, Lesser,
                        RingFillsInOrder, RingBelowMax
<1>2. ThreadTypeOK /\ JitterInv /\ [ThreadNext]_threadVars => JitterInv'
  <2> SUFFICES ASSUME ThreadTypeOK, JitterInv, [ThreadNext]_threadVars PROVE JitterInv'
    OBVIOUS
  <2>1. CASE MeasuredWake
    BY <2>1, JitterIsNat, JitterInvStep DEF MeasuredWake, ThreadTypeOK
  <2>2. CASE UNCHANGED jitterVars
    BY <2>2 DEF jitterVars, JitterInv, JitterTypeOK, RingHoldsLatest, RingFillsInOrder, RingBelowMax
  <2>3. QED
    BY <2>1, <2>2 DEF ThreadNext, Unmeasured, threadVars
<1>3. QED
  BY ThreadTypeCorrect, <1>1, <1>2, PercentilesFollow, PTL DEF ThreadSpec
=============================================================================
