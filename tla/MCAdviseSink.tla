---------------------------- MODULE MCAdviseSink ----------------------------
(* The instance of AdviseSink for TLC: every kind of owner. *)
EXTENDS AdviseSink, TLC

EveryOwner == AllOwners
=============================================================================
