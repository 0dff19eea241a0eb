--------------------------- MODULE MCIbComponent ---------------------------
(* Model-checking instance of IbComponent: two ports, the Start loop and *)
(* one trigger, the drop and flap windows scaled down (see README).      *)
EXTENDS IbComponent, TLC

CONSTANTS d1, d2, loop, trigger

MCDevices == {d1, d2}
\* One port, for the liveness run: whether a check returns does not depend
\* on the number of ports.
MCOneDevice == {d1}

MCCheckers == {loop, trigger}
MCThresholds == {[ports |-> 0, rate |-> 0], [ports |-> 2, rate |-> 400]}

Symmetry == Permutations(MCDevices)
=============================================================================
