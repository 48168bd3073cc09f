--------------------------- MODULE MCStatusReport ---------------------------
(* Small instances of StatusReport for TLC.                                *)
EXTENDS StatusReport

CONSTANTS NumRecords,   \* status records the main thread writes
          PerDay        \* status records of one day

MCTimes == 1..NumRecords
MCDayOf == [t \in MCTimes |-> 1 + (t - 1) \div PerDay]
MCDays == {MCDayOf[t] : t \in MCTimes}
MCSlots == 1..Cardinality(MCDays)
=============================================================================
