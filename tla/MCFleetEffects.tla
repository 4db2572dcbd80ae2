--------------------------- MODULE MCFleetEffects ---------------------------
(***************************************************************************)
(* FleetEffects for TLC: one request per kind of action.  The suspend and  *)
(* the resume are sent under the same key, the exec under the key of the   *)
(* restore in its own directory.                                           *)
(***************************************************************************)
EXTENDS FleetEffects

MCAction == [reconf |-> "reconfigure", susp |-> "suspend", res |-> "resume",
             regen |-> "regenerate", rest |-> "restore", run |-> "exec"]
MCRequest == DOMAIN MCAction
MCKey == [reconf |-> "k1", susp |-> "k2", res |-> "k2",
          regen |-> "k3", rest |-> "k4", run |-> "k4"]
MCEffectID == [r \in MCRequest |-> "e"]
=============================================================================
