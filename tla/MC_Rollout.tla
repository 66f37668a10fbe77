----------------------------- MODULE MC_Rollout -----------------------------
(* Rollout on two workers, one worker listed twice, and none.              *)
EXTENDS Rollout

CONSTANTS w1, w2

SmallTopologies ==
  {<<Master, w1, w2>>, <<Master, w1, w1>>, <<Master>>}
=============================================================================
