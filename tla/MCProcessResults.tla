-------------------------- MODULE MCProcessResults --------------------------
(* A small instance of ProcessResults for TLC.                             *)
EXTENDS ProcessResults, Sequences

\* The results to save: <<directory, day, item, length>>.  The first is the
\* longest; of the two that share the file of the next day one has its item.
Plan == << <<"ecu", 1, "power", 2>>,
           <<"ecu", 2, "gfdi", 1>>,
           <<"ecu", 2, "power", 1>> >>

MCResults == DOMAIN Plan
MCDirOf == [r \in MCResults |-> Plan[r][1]]
MCDayOf == [r \in MCResults |-> Plan[r][2]]
MCItemOf == [r \in MCResults |-> Plan[r][3]]
MCLengthOf == [r \in MCResults |-> Plan[r][4]]
MCDays == {MCDayOf[r] : r \in MCResults}
MCSlots == 1..Cardinality(MCDays)
=============================================================================
