-------------------------- MODULE ManifestRegister --------------------------
(***************************************************************************)
(* What Manifest.save promises: the manifest path holds nothing or one     *)
(* whole manifest, a save replaces it in one step, and a power loss falls  *)
(* back to a whole earlier one.  These are the steps Engine takes on its   *)
(* variables `manifest` and `durable`.                                     *)
(***************************************************************************)
CONSTANTS Values, None

VARIABLES
    value,   \* what a reader of the path finds
    stable   \* what a reader would find after a power loss

vars == <<value, stable>>

Init == value = None /\ stable = None

Save(v) == value' = v /\ UNCHANGED stable

Writeback == stable' = value /\ UNCHANGED value

PowerLoss ==
    \E m \in {value, stable} : value' = m /\ stable' = m

Next == (\E v \in Values : Save(v)) \/ Writeback \/ PowerLoss

Spec == Init /\ [][Next]_vars
=============================================================================
