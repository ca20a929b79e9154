----------------------------- MODULE MCDashboard ----------------------------
(* Instances of Dashboard for TLC.                                         *)
EXTENDS Dashboard

CONSTANTS s1, s2

\* The private seller with the lowest score, and the business seller with the
\* highest.
PrivateAndBusiness ==
    {[s \in {s1, s2} |-> IF s = s1 THEN [business |-> FALSE, age |-> "unknown"]
                                   ELSE [business |-> TRUE, age |-> "two years"]]}
=============================================================================
