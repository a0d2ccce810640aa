------------------------------- MODULE MCFleet -------------------------------
(* A small fleet: agents with the capabilities setup-supervisor.sh gives.   *)
EXTENDS Fleet, TLC

SupervisorCaps == {"effective_config", "remote_config_status", "health"}

\* Connections and agents are interchangeable.
FleetSymmetry == Permutations(Conns) \cup Permutations(Ids)

(* The same for runs of liveness properties, which SYMMETRY does not serve: *)
(* of the connections that are left, agents take them in one order.         *)
InOrder ==
    \A c \in Conns :
      phase[c] = "fresh" /\ phase'[c] # "fresh" => c = CHOOSE d \in Conns : phase[d] = "fresh"

OrderedSpec == FleetInit /\ [][FleetNext /\ InOrder]_fleetVars /\ FleetFairness
=============================================================================
