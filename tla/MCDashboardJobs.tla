--------------------------- MODULE MCDashboardJobs ---------------------------
EXTENDS DashboardJobs

(* b1 and b2 use the same file; the range of k1 takes two pages; the exchange *)
(* has nothing in the range of k2.                                            *)
WantsDef == [j \in {"b1", "b2", "s1"} |->
               IF j = "b1" THEN <<"k1">> ELSE IF j = "b2" THEN <<"k2">> ELSE <<"k1", "k2">>]
VerifiedDef == [j \in {"s1"} |-> 1]
HeldDef == [k \in {"k1", "k2"} |-> IF k = "k1" THEN {1, 2, 3, 5} ELSE {7}]
FirstDef == [k \in {"k1", "k2"} |-> 2]
LastDef == [k \in {"k1", "k2"} |-> 6]
=============================================================================
