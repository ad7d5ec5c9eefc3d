------------------------------ MODULE MCConfig ------------------------------
(***************************************************************************)
(* Bodies of PATCH /api/config for TLC: each way a field is merged, named  *)
(* alone and with a field of the same object, and each verdict of Validate. *)
(***************************************************************************)
EXTENDS Config, TLC

ClientSymmetry == Permutations(Clients)

MixedPatches ==
    {[host |-> 2],
     [host |-> 3, is_remote |-> 1],
     [is_remote |-> 0],
     [large_memory |-> 0],
     [small_device |-> 4],
     [large_name |-> 0, concurrent_jobs |-> 2],
     [default_max_iterations |-> -1]}

\* Keep finished jobs for no time at all.
NoRetention == {[job_retention_days |-> 0], [job_retention_days |-> 7]}

=============================================================================
