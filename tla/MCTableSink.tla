----------------------------- MODULE MCTableSink -----------------------------
(* Instances of TableSink for TLC: the table at the start and the window. *)
EXTENDS TableSink, TLC

CONSTANTS k1, k2, k3, k4

ThreeRows == <<k1, k2, k3>>

\* The two rows after the first.
NoDirectives == [seek |-> Absent, offset |-> Absent, take |-> Absent,
                 columns |-> Absent, orderBy |-> Absent]
SecondTwo == [NoDirectives EXCEPT !.offset = 1, !.take = 2]


OneWindow == {SecondTwo}
=============================================================================
