---------------------------- MODULE EnergyKeyGate ----------------------------
(***************************************************************************)
(* What EnergyKeyClient promises the portal: requests of a session come    *)
(* one at a time, and none comes after the portal has rejected the         *)
(* session ("Further polling attempts fail locally without contacting      *)
(* EnergyKey", README).                                                    *)
(***************************************************************************)
CONSTANT Caller

VARIABLES
  wire,    \* the callers with a request on the wire
  open     \* the session has not been rejected

vars == <<wire, open>>

Init == wire = {} /\ open = TRUE

Enter(c) ==
  /\ open /\ wire = {}
  /\ wire' = {c} /\ UNCHANGED open

\* The request ends; the portal may have rejected the session with its answer.
Leave(c) ==
  /\ wire = {c}
  /\ wire' = {} /\ open' \in {open, FALSE}

Next == \E c \in Caller : Enter(c) \/ Leave(c)

Spec == Init /\ [][Next]_vars

=============================================================================
