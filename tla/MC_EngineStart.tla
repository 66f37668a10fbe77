--------------------------- MODULE MC_EngineStart ---------------------------
(* The launches of the runs of EngineStart: no feature and no analyzer, as *)
(* on a worker; no feature and an engine that the analyzer's probe need not *)
(* reach; two patches, one with a dependency; a dependency without a patch; *)
(* the user's override, on a worker; an accel volume without its installer. *)
EXTENDS EngineStart

Launch(w, a, i, z, r) ==
  [wanted |-> w, accel |-> a, installer |-> i, analyzed |-> z, reached |-> r]
MCPlans ==
  {Launch({}, "off", TRUE, FALSE, TRUE),
   Launch({}, "off", TRUE, TRUE, FALSE),
   Launch({"speculative_decode", "sparse_kv"}, "auto", TRUE, TRUE, TRUE),
   Launch({"kv_offload"}, "auto", TRUE, TRUE, TRUE),
   Launch({"sparse_kv"}, "override", TRUE, FALSE, TRUE),
   Launch({"sparse_kv"}, "auto", FALSE, TRUE, TRUE)}
=============================================================================
