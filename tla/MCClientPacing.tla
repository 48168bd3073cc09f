--------------------------- MODULE MCClientPacing ---------------------------
(* Small instances of ClientPacing for TLC.                                *)
EXTENDS ClientPacing

CONSTANTS Horizon     \* how long after a start the clock is followed

\* At 00:56:40, before the hours of the preprocessing, and at 23:53:20.
MCStarts == {3400, 86000}
MCWorks == {5, 20, 45}
Followed == \E start \in MCStarts : now \in start..(start + Horizon)
=============================================================================
