-------------------------------- MODULE Lease --------------------------------
(***************************************************************************)
(* What the registry of the master promises to the scheduler and to the    *)
(* dispatch that read it, with no counter and no check interval in it:     *)
(* whoever is heard of is a member, from time to time all those are        *)
(* removed who have been silent for longer than Patience, and that often   *)
(* enough that none is kept for more than Grace beyond it.                 *)
(*                                                                         *)
(* Registry implements this specification (Registry!ImplementsLease).      *)
(***************************************************************************)
EXTENDS Naturals, Functions

CONSTANTS
  Nodes,      (* who may become a member                           *)
  Patience,   (* the silence that is forgiven                      *)
  Grace       (* how much more of it there may be before a removal *)

VARIABLE silence   (* of each member: the time since it was heard of *)

Members == DOMAIN silence

LeaseInit == silence = <<>>

(* A registration, or the heartbeat of a member.                           *)
HearOf(n) ==
  silence' = [m \in Members \cup {n} |-> IF m = n THEN 0 ELSE silence[m]]

(* The members who are past their patience, all of them and no others.     *)
RemoveSilent == silence' = Restrict(silence, {n \in Members : silence[n] <= Patience})

(* Whoever keeps the registry has restarted.                               *)
Forget == silence' = <<>>

Pass ==
  /\ \A n \in Members : silence[n] < Patience + Grace
  /\ silence' = [n \in Members |-> silence[n] + 1]

LeaseNext == (\E n \in Nodes : HearOf(n)) \/ RemoveSilent \/ Forget \/ Pass

LeaseSpec == LeaseInit /\ [][LeaseNext]_silence
=============================================================================
