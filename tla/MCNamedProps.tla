---------------------------- MODULE MCNamedProps ----------------------------
(* Instances of NamedProps for TLC. *)
EXTENDS NamedProps

ThreeNames == 1..3
FirstIds   == {FirstNamedId, FirstNamedId + 1}

\* The second name comes out as itself or as the third, and so does the third.
HalfGuids == <<{1}, {2, 3}, {2, 3}>>

\* What an object may have: a built-in property and both of the named ones.
SomeObjects == {<<5, FirstNamedId>>, <<FirstNamedId + 1>>, <<FirstNamedId + 1, FirstNamedId, 5>>}

\* One or two inputs of each kind.
SomeRequests == {r \in SeqOf([id : {5}] \cup [name : Names] \cup {[bad |-> TRUE]}, 2) : r # <<>>}
=============================================================================
