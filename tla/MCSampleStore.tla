--------------------------- MODULE MCSampleStore ---------------------------
(* Small instances of SampleStore.  Two processes with three threads map   *)
(* one shared page: address 11 of the first and 12 of the second are the   *)
(* same memory; 22 and 24 are not, but have one hash, as have the failure *)
(* value and 21; every page may be absent.  The polynomial hash gives 11   *)
(* and 12 one bit, and that of address 13 is negative.                     *)
EXTENDS SampleStore

MCAddrs     == {11, 12, 13}
MCPhysAddrs == {21, 22, 23, 24, 0}
MCPidOf     == [t \in {1, 2, 3} |-> IF t = 3 THEN 200 ELSE 100]
MCFrame     == [p \in {100, 200} |->
                  [a \in MCAddrs |-> IF p = 100 THEN a + 10 ELSE IF a = 12 THEN 21 ELSE 24]]
MCOffset    == [a \in MCAddrs |-> 0]
MCHash      == [a \in MCAddrs \cup MCPhysAddrs \cup {1} |->
                  IF a = 13 THEN 0 ELSE IF a = 24 THEN 2 ELSE a % 5]
MCPolyHash  == [a \in MCAddrs |-> IF a = 13 THEN -2 ELSE 1]
MCLow       == [a \in MCAddrs \cup MCPhysAddrs \cup {1} |-> a]
MCHigh      == [a \in MCAddrs \cup MCPhysAddrs \cup {1} |-> 0]
=============================================================================
