---------------------------- MODULE ResumableJob ----------------------------
(***************************************************************************)
(* What a quantization job promises to whoever looks at its checkpoint: a  *)
(* list of tensors, stored in the output and then banked in the manifest   *)
(* one by one and in order, and a status that becomes "complete" when all  *)
(* are banked and stays so.  There is no crash here: to this observer a    *)
(* killed and resumed job is a job that was slow.                          *)
(***************************************************************************)
EXTENDS Naturals

VARIABLES
    total,   \* tensors in the plan
    status,  \* "absent", "in_progress", "complete"
    stored,  \* leading tensors whose bytes are final in the output
    banked   \* tensors the manifest vouches for

vars == <<total, status, stored, banked>>

Init ==
    /\ total \in Nat
    /\ status = "absent"
    /\ stored = 0 /\ banked = 0

\* The initial checkpoint.
Begin ==
    /\ status = "absent"
    /\ status' = "in_progress"
    /\ UNCHANGED <<total, stored, banked>>

\* The next tensor becomes whole, one ahead of the manifest at most.
Store ==
    /\ status = "in_progress"
    /\ stored = banked /\ stored < total
    /\ stored' = stored + 1
    /\ UNCHANGED <<total, status, banked>>

\* The checkpoint after it.
Bank ==
    /\ status = "in_progress"
    /\ banked < stored
    /\ banked' = banked + 1
    /\ UNCHANGED <<total, status, stored>>

Finish ==
    /\ status = "in_progress"
    /\ banked = total
    /\ status' = "complete"
    /\ UNCHANGED <<total, stored, banked>>

Next == Begin \/ Store \/ Bank \/ Finish

Spec == Init /\ [][Next]_vars
=============================================================================
