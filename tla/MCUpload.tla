------------------------------ MODULE MCUpload ------------------------------
(* Small instances of Upload for TLC.                                      *)
EXTENDS Upload

CONSTANTS NumRecords,   \* records the main thread collects
          PerDay        \* records of one day

MCTimes == 1..NumRecords
MCDayOf == [t \in MCTimes |-> 1 + (t - 1) \div PerDay]
MCDays == {MCDayOf[t] : t \in MCTimes}
MCSlots == 1..Cardinality(MCDays)

\* The runs of the safety properties leave out the time after Stabilise,
\* which only restricts what the network and the server may do.
Unstable == ~healthy
=============================================================================
