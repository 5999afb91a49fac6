----------------------------- MODULE BufferPool -----------------------------
(***************************************************************************)
(* infra::BufferPool: observation buffers that are lent to the inference   *)
(* worker and come back through the deleter of the unique_ptr it holds.    *)
(* The buffers are alike, so what matters is how many are in the pool.  A  *)
(* component: Lifecycle builds it, uses it and destroys it.                *)
(***************************************************************************)
EXTENDS Naturals

CONSTANT Buffers   \* buffers allocated in advance, 3 in the code

ASSUME BuffersAssumption == Buffers \in Nat

VARIABLES
  free,  \* buffers in the pool
  loan   \* what the worker holds: none, a pooled or a temporary buffer

bufferVars == <<free, loan>>

Loans == {"none", "pooled", "temporary"}

NoBuffers == free = 0 /\ loan = "none"

Allocate == free' = Buffers /\ UNCHANGED loan

Acquire_NotPopped ==    \* mutant: pool_.pop() is missing
  IF free = 0 THEN loan' = "temporary" /\ UNCHANGED free
              ELSE loan' = "pooled" /\ UNCHANGED free

(* An exhausted pool allocates one more, which is not going to be kept.     *)
Acquire ==
  IF free = 0 THEN loan' = "temporary" /\ UNCHANGED free
              ELSE loan' = "pooled" /\ free' = free - 1

GiveBack_Leaks == loan' = "none" /\ UNCHANGED free    \* mutant: not pushed

(* The deleter: a pooled buffer goes back to the pool.                      *)
GiveBack ==
  /\ loan' = "none"
  /\ free' = IF loan = "pooled" THEN free + 1 ELSE free

-----------------------------------------------------------------------------
BufferTypeOK == free \in 0 .. Buffers /\ loan \in Loans
=============================================================================
