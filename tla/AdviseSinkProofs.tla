--------------------------- MODULE AdviseSinkProofs ---------------------------
(***************************************************************************)
(* Theorems about AdviseSink: the reference count of the proxy is right,   *)
(* and its callback runs neither in a deleted proxy nor on an owner that   *)
(* is being destroyed, for every kind of owner and every interleaving.     *)
(***************************************************************************)
EXTENDS AdviseSink, TLAPS

\* The references are as SinkInv says at the start, and their types right.
LEMMA InitInvariant == Init => TypeOK /\ SinkInv
  <1> SUFFICES ASSUME Init PROVE TypeOK /\ SinkInv
    OBVIOUS
  <1>1. TypeOK
    <2>1. owned \in BOOLEAN /\ source \in BOOLEAN /\ connected \in BOOLEAN
      BY Zenon DEF Init
    <2>2. refcount \in Nat /\ local \in 0..1 /\ member \in 0..1 /\ mapi \in 0..1
      BY DEF Init
    <2> QED
      BY <2>1, <2>2 DEF Init, TypeOK
  <1>2. RefcountCounts /\ CallbackHasOwner
    BY DEF Init, RefcountCounts, CallbackHasOwner, HoldsOwner
  <1>3. SinkInv
    BY <1>2 DEF Init, SinkInv, HoldsOwner, Unadvises
  <1> QED
    BY <1>1, <1>3

\* Each step of the resolver, the destructor and the callback keeps them so.
LEMMA NextInvariant == TypeOK /\ SinkInv /\ [Next]_vars => (TypeOK /\ SinkInv)'
  <1> SUFFICES ASSUME TypeOK, SinkInv, [Next]_vars
               PROVE  (TypeOK /\ SinkInv)'
    OBVIOUS
  <1> USE DEF TypeOK, SinkInv, RefcountCounts, CallbackHasOwner, HoldsOwner, Unadvises
  <1>1. CASE NewSink
    BY <1>1 DEF NewSink
  <1>2. CASE Advise
    BY <1>2 DEF Advise, AddRef
  <1>3. CASE AdviseFails
    BY <1>3 DEF AdviseFails, Release
  <1>4. CASE OnAdvise
    BY <1>4 DEF OnAdvise, AddRef
  <1>5. CASE LeaveScope
    BY <1>5 DEF LeaveScope, Release
  <1>6. CASE DropOwner
    BY <1>6 DEF DropOwner
  <1>7. CASE DestroyUnadvise
    <2> USE <1>7 DEF DestroyUnadvise
    <2>1. CASE ~(member = 1 /\ Unadvises)
      BY <2>1
    <2>2. CASE member = 1 /\ Unadvises
      <3>1. source /\ connected /\ mapi = 1
        BY <2>2
      <3>2. connected' = FALSE /\ source' = FALSE /\ UNCHANGED <<local, member>>
        BY <2>2, <3>1 DEF Unadvise, Disconnect
      <3>3. CASE phase = "no"
        <4>1. mapi' = 0 /\ refcount' = refcount - 1
          BY <2>2, <3>1, <3>3 DEF Unadvise, Disconnect, Release
        <4>2. sink' = IF refcount' = 0 THEN "deleted" ELSE sink
          BY <2>2, <3>1, <3>3 DEF Unadvise, Disconnect, Release
        <4>3. refcount' = local' + member' + mapi' /\ refcount' \in Nat
          BY <3>1, <3>2, <4>1
        <4>4. RefcountCounts'
          BY <4>2, <4>3
        <4>5. TypeOK'
          <5>1. connected' \in BOOLEAN /\ source' \in BOOLEAN
            BY <3>2, Zenon
          <5>2. sink' \in {"none", "live", "deleted"} /\ mapi' \in 0..1
            BY <4>1, <4>2
          <5> QED
            BY <3>2, <4>3, <5>1, <5>2
        <4> QED
          BY <2>2, <3>1, <3>2, <3>3, <4>1, <4>4, <4>5
      <3>4. CASE phase # "no"
        BY <2>2, <3>1, <3>2, <3>4 DEF Unadvise, Disconnect
      <3> QED
        BY <3>3, <3>4
    <2> QED
      BY <2>1, <2>2
  <1>8. CASE DestroyRelease
    BY <1>8 DEF DestroyRelease, Release
  <1>9. CASE OnNotify
    BY <1>9 DEF OnNotify
  <1>10. CASE LockOwner
    BY <1>10 DEF LockOwner
  <1>11. CASE ResetList
    BY <1>11 DEF ResetList
  <1>12. CASE UnlockOwner
    BY <1>12 DEF UnlockOwner
  <1>13. CASE Destroyed
    BY <1>13 DEF Destroyed
  <1>14. CASE EndNotify
    BY <1>14 DEF EndNotify, Release
  <1>15. CASE UNCHANGED vars
    BY <1>15 DEF vars
  <1>16. QED
    BY <1>1, <1>2, <1>3, <1>4, <1>5, <1>6, <1>7, <1>8, <1>9, <1>10, <1>11, <1>12, <1>13, <1>14, <1>15
       DEF Next, Resolver, Destructor, Callback

\* Types.h:112-191: the variables of the sink, its owner and its threads keep their
\* types, and the references are where SinkInv says they are.
THEOREM SinkCorrect == Spec => [](TypeOK /\ SinkInv)
  BY InitInvariant, NextInvariant, PTL DEF Spec

\* Types.h:158-171, AddRef and Release: m_refcount is the number of references held,
\* so that the proxy is deleted when the last one goes and no earlier.
THEOREM RefcountIsRight == Spec => []RefcountCounts
  <1>1. SinkInv => RefcountCounts
    BY DEF SinkInv
  <1> QED
    BY <1>1, SinkCorrect, PTL

\* Types.h:174-178, OnNotify: the proxy outlives each of its callbacks.
THEOREM CallbackKeepsSink == Spec => []CallbackHasSink
  <1>1. TypeOK /\ SinkInv => CallbackHasSink
    BY DEF TypeOK, SinkInv, RefcountCounts, CallbackHasSink
  <1> QED
    BY <1>1, SinkCorrect, PTL

\* The weak pointer of each callback (Query.cpp:113 and the like): an owner is never
\* touched once its destructor has begun.
THEOREM CallbackKeepsOwner == Spec => []CallbackHasOwner
  <1>1. SinkInv => CallbackHasOwner
    BY DEF SinkInv
  <1> QED
    BY <1>1, SinkCorrect, PTL

\* ~Query, ~Store and ~Folder unadvise their sinks: nothing of them is left.
THEOREM UnadvisedSinkIsGone == Spec => []NothingLeaks
  <1>1. TypeOK /\ SinkInv => NothingLeaks
    BY DEF TypeOK, SinkInv, RefcountCounts, NothingLeaks, OwnsSink, Unadvises
  <1> QED
    BY <1>1, SinkCorrect, PTL
=============================================================================
