--------------------------- MODULE MC_Supervisor ----------------------------
(* Supervisor of two services, one of them in worker mode.                 *)
EXTENDS Supervisor

SmallServices       == <<"proxy", "health">>
SmallWorkerServices == <<"health">>
=============================================================================
