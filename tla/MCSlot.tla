------------------------------- MODULE MCSlot -------------------------------
(***************************************************************************)
(* Slot for TLC: two mounts and one Stop or Restart call, or one mount and *)
(* two calls.  The mount that may outlast the startup budget comes first,  *)
(* and beside a second mount a Restart is under way only while none has:   *)
(* otherwise, to the properties of this run, it is a Stop and, later, a    *)
(* Start.                                                                  *)
(***************************************************************************)
EXTENDS Slot

CONSTANTS m1, m2, c1, c2

InOrder ==
    /\ phase[m1] = "new" => phase[m2] = "new"
    /\ stopPc[c1] = "new" => stopPc[c2] = "new"

TwoOfOne == phase[m2] = "new" \/ stopPc[c2] = "new"

RestartInTime == phase[m2] = "new" \/ polling = {} \/ timedOut = {}
=============================================================================
