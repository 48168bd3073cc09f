------------------------------ MODULE MCEnergy ------------------------------
(* Small instances of Energy for TLC.                                      *)
EXTENDS Energy

CONSTANTS MaxLife     \* bound: the lifetime energy of a channel

Few == \A i \in Inverters, c \in Channels : life[i][c] <= MaxLife
=============================================================================
