----------------------------- MODULE MCPoolBench -----------------------------
(***************************************************************************)
(* Constants for model checking PoolBench.                                 *)
(***************************************************************************)
EXTENDS PoolBench, MCKeyPool

\* Bodies that change the key material or the capacity.
ControlUpdates ==
    { <<Set("level", 4)>>,
      <<Set("stored", 9), Set("prefetching", TRUE)>>,
      <<Set("capacity", 4), Set("level", 2)>> }
=============================================================================
