------------------------------ MODULE MCKeyPool ------------------------------
(***************************************************************************)
(* Constants for model checking KeyPool.                                   *)
(***************************************************************************)
EXTENDS KeyPool

Set(f, v) == [field |-> f, value |-> v]

\* Bodies that leave the key material and the capacity alone; a rate below 0 counts as 0.
TuningUpdates ==
    { <<Set("threshold", 3)>>,
      <<Set("refill_target", 1), Set("prefetch_rate", 1)>>,
      <<Set("prefetch_rate", -1)>>,
      <<Set("prefetching", TRUE)>>, <<Set("prefetching", FALSE)>> }
=============================================================================
