-------------------------- MODULE MCEventPipeline --------------------------
(* Instances of EventPipeline for TLC; orders are interchangeable.               *)
EXTENDS EventPipeline, TLC

OrderSymmetry == Permutations(Orders)
=============================================================================
