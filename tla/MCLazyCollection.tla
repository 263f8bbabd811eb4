-------------------------- MODULE MCLazyCollection --------------------------
(* Instances of LazyCollection for TLC: rows, windows and IDs asked for. *)
EXTENDS LazyCollection, TLC

CONSTANTS r1, r2, r3

Whole   == [seek |-> Absent, offset |-> Absent, take |-> Absent,
            columns |-> Absent, orderBy |-> Absent]
Later   == [Whole EXCEPT !.offset = 1]

TwoRows == <<r1, r2>>

NoWindow == {Whole}
Shifted  == {Whole, Later}

TwoIds == {<<r1, r3>>, <<r2>>}
NoIds  == {}
=============================================================================
