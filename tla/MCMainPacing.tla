---------------------------- MODULE MCMainPacing ----------------------------
(* Small instances of MainPacing for TLC.                                  *)
EXTENDS MainPacing

CONSTANTS Horizon     \* how long after a start the clock is followed

\* Half an hour before 02:00 and an hour before midnight.
MCStarts == {5400, 82800}
MCRounds == {20, 300, 320, 620, 920, 1220, 1820}
\* 20 s: the waits see every boundary of the intervals; 50 s: they miss some.
MCLooks == {20, 50}
Followed == \E start \in MCStarts : now \in start..(start + Horizon)
=============================================================================
