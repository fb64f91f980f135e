------------------------------ MODULE MCGhCall ------------------------------
(***************************************************************************)
(* One call of gh whose child ends well and leaves a descendant behind     *)
(* that holds stdout and writes to it without end.                         *)
(***************************************************************************)
EXTENDS GhCall

MCPlans == {[answer |-> "data", out |-> 1, err |-> 0, says |-> "nothing", code |-> 0]}
MCHolds == {{}, {"out"}}
=============================================================================
