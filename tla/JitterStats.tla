----------------------------- MODULE JitterStats -----------------------------
(***************************************************************************)
(* The wake-up jitter of the realtime thread (RosNode, JitterStats): a     *)
(* ring of the last WINDOW frames, filled by UpdateJitter, and the         *)
(* percentiles of it that a status message reports.  Both hold the mutex   *)
(* from end to end.  A component: RealtimeThread gives it its frames.      *)
(***************************************************************************)
EXTENDS Integers, Sequences, FiniteSets, Functions

CONSTANT WINDOW   \* capacity of the ring, 1000 in the code

ASSUME WindowAssumption == WINDOW \in Nat \ {0}

VARIABLES
  ring_buffer, ring_idx, ring_count, max_ms,
  measured \* history: every jitter measured, in order

jitterVars == <<ring_buffer, ring_idx, ring_count, max_ms, measured>>

Slots == 0 .. WINDOW - 1

JitterInit ==
  /\ ring_buffer = [i \in Slots |-> 0]
  /\ ring_idx = 0 /\ ring_count = 0 /\ max_ms = 0
  /\ measured = << >>

NextIdx_Short == (ring_idx + 1) % (WINDOW - 1)    \* mutant: off by one

NextIdx == (ring_idx + 1) % WINDOW

UpdateJitter(ms) ==
  /\ ring_buffer' = [ring_buffer EXCEPT ![ring_idx] = ms]
  /\ ring_idx' = NextIdx
  /\ ring_count' = IF ring_count < WINDOW THEN ring_count + 1 ELSE ring_count
  /\ max_ms' = IF ms > max_ms THEN ms ELSE max_ms
  /\ measured' = Append(measured, ms)

Filled_Whole == WINDOW    \* mutant: the slots not yet filled are sorted too

Filled == ring_count

(* std::sort of the slots that are filled: some order of them ascends.      *)
Ascends(order) ==
  \A i, j \in DOMAIN order : i < j => ring_buffer[order[i]] <= ring_buffer[order[j]]

Order == CHOOSE order \in Injection(1 .. Filled, 0 .. Filled - 1) : Ascends(order)

Sorted == [i \in 1 .. Filled |-> ring_buffer[Order[i]]]

Percentile(p) == Sorted[(Filled * p) \div 100 + 1]

(* What a status message would report now.                                  *)
GetJitterPercentiles ==
  IF ring_count = 0 THEN [p50 |-> 0, p95 |-> 0, p99 |-> 0, max |-> 0]
  ELSE [p50 |-> Percentile(50), p95 |-> Percentile(95),
        p99 |-> Percentile(99), max |-> max_ms]

-----------------------------------------------------------------------------
JitterTypeOK ==
  /\ ring_buffer \in [Slots -> Nat]
  /\ ring_idx \in Slots /\ ring_count \in 0 .. WINDOW
  /\ max_ms \in Nat
  /\ measured \in Seq(Nat)

(* The ring holds the latest frames, WINDOW of them once there are as many, *)
(* behind the index that is written next, through every wrap.               *)
Lesser(a, b) == IF a < b THEN a ELSE b

RingHoldsLatest ==
  /\ ring_count = Lesser(Len(measured), WINDOW)
  /\ \A k \in 1 .. ring_count :
       ring_buffer[(ring_idx - k) % WINDOW] = measured[Len(measured) - k + 1]

(* What is reported is a percentile of the latest frames in the usual       *)
(* sense: fewer than p in a hundred of them, or exactly as many, lie below, *)
(* and more than p in a hundred do not lie above.  So the index never runs  *)
(* off the end of what has been filled, and a report is in order up to the  *)
(* maximum, which is that of all frames and not of the window.              *)
Latest == {i \in DOMAIN measured : i > Len(measured) - WINDOW}

IsPercentile(p, v) ==
  /\ Cardinality({i \in Latest : measured[i] < v}) * 100 <= p * Cardinality(Latest)
  /\ Cardinality({i \in Latest : measured[i] <= v}) * 100 > p * Cardinality(Latest)

PercentilesOfWindow ==
  LET r == GetJitterPercentiles
  IN  /\ ring_count > 0 =>
           /\ IsPercentile(50, r.p50) /\ IsPercentile(95, r.p95)
           /\ IsPercentile(99, r.p99)
      /\ r.p50 <= r.p95 /\ r.p95 <= r.p99 /\ r.p99 <= r.max
=============================================================================
