------------------------------ MODULE AdviseSink ------------------------------
(***************************************************************************)
(* The life of one AdviseSinkProxy (Types.h), the object MAPI calls back:  *)
(* its reference count, its connection to the table it listens to, and the *)
(* object that owns it - Query, Store, Folder or a TableSink.              *)
(*                                                                         *)
(* Two threads meet here.  A resolver makes the sink, advises it and one   *)
(* day lets its owner go; a thread of MAPI calls the callback, which turns *)
(* its weak pointer into a strong one for as long as it runs.  Whoever     *)
(* drops the last strong pointer runs the owner's destructor, on its own   *)
(* thread.                                                                 *)
(***************************************************************************)
EXTENDS Integers

CONSTANTS Owners   \* kinds of owner: a subset of AllOwners

AllOwners == {"stores", "rootFolders", "subFolders", "items", "TableSink"}

ASSUME OwnersAssumption == Owners \subseteq AllOwners

VARIABLES
  owner,      \* the kind of owner
  owned,      \* a resolver or a client holds the owner
  destroying, \* the owner's destructor: "no", "unadvise", "release", "done"
  pc,         \* the resolver that makes the sink: "idle", "made", "advised", "kept"
  phase,      \* the callback: "no", "entered", "locked", "reset", "last", "leaving"
  sink,       \* the proxy: "none", "live", "deleted"
  refcount,   \* m_refcount
  local,      \* references to the proxy, 0 or 1: sinkProxy of the resolver,
  member,     \* m_storeSink, m_rootFolderSink ... of the owner,
  mapi,       \* and MAPI's, for the connection or for a call in progress
  source,     \* m_source is set
  connected   \* MAPI has the connection

vars == <<owner, owned, destroying, pc, phase, sink, refcount, local, member, mapi,
          source, connected>>

Init ==
  /\ owner \in Owners
  /\ owned = TRUE
  /\ destroying = "no"
  /\ pc = "idle"
  /\ phase = "no"
  /\ sink = "none"
  /\ refcount = 0
  /\ local = 0
  /\ member = 0
  /\ mapi = 0
  /\ source = FALSE
  /\ connected = FALSE
-----------------------------------------------------------------------------
(* AdviseSinkProxy *)

\* Also what QueryInterface does for MAPI.
AddRef == refcount' = refcount + 1 /\ UNCHANGED sink

\* Mutant of Release: deletes when one reference is left.
ReleaseEarly ==
  /\ refcount' = refcount - 1
  /\ sink' = IF refcount' <= 1 THEN "deleted" ELSE sink

\* The last Release deletes the proxy.
Release ==
  /\ refcount' = refcount - 1
  /\ sink' = IF refcount' = 0 THEN "deleted" ELSE sink

\* MAPI gives up a connection, and its reference when no call is in progress.
Disconnect ==
  /\ connected' = FALSE
  /\ IF phase = "no"
     THEN mapi' = 0 /\ Release
     ELSE UNCHANGED <<mapi, refcount, sink>>

\* Unadvise the source, if there is one, and forget it.
Unadvise ==
  IF source
  THEN source' = FALSE /\ Disconnect
  ELSE UNCHANGED <<source, connected, mapi, refcount, sink>>
-----------------------------------------------------------------------------
(* The resolver: the end of LoadStores, LoadRootFolders, LoadSubFolders,     *)
(* LoadItems and RegisterAdviseSinkProxy.                                    *)

\* A list without a sink gets one; the new object has a reference, which Attach takes.
NewSink ==
  /\ owned
  /\ pc = "idle"
  /\ member = 0
  /\ sink # "live"
  /\ sink' = "live"
  /\ refcount' = 1
  /\ local' = 1
  /\ pc' = "made"
  /\ UNCHANGED <<owner, owned, destroying, phase, member, mapi, source, connected>>

\* IMAPITable::Advise takes a reference, and may call back from now on.
Advise ==
  /\ pc = "made"
  /\ AddRef
  /\ mapi' = 1
  /\ connected' = TRUE
  /\ pc' = "advised"
  /\ UNCHANGED <<owner, owned, destroying, phase, local, member, source>>

\* Or it fails, the resolver throws, and its reference goes.
AdviseFails ==
  /\ pc = "made"
  /\ Release
  /\ local' = 0
  /\ pc' = "idle"
  /\ UNCHANGED <<owner, owned, destroying, phase, member, mapi, source, connected>>

\* Mutant of OnAdvise: the owner's member is attached, without a reference.
OnAdviseAttach ==
  /\ pc = "advised"
  /\ source' = TRUE
  /\ member' = 1
  /\ pc' = "kept"
  /\ UNCHANGED <<owner, owned, destroying, phase, sink, refcount, local, mapi, connected>>

\* OnAdvise remembers the source; the owner's member takes a reference.
OnAdvise ==
  /\ pc = "advised"
  /\ source' = TRUE
  /\ member' = 1
  /\ AddRef
  /\ pc' = "kept"
  /\ UNCHANGED <<owner, owned, destroying, phase, local, mapi, connected>>

\* The resolver's own reference goes out of scope.
LeaveScope ==
  /\ pc = "kept"
  /\ local' = 0
  /\ Release
  /\ pc' = "idle"
  /\ UNCHANGED <<owner, owned, destroying, phase, member, mapi, source, connected>>
-----------------------------------------------------------------------------
(* The owner's destructor *)

\* Mutant of Unadvises: ~Query unadvises nothing.
UnadvisesFolders == owner \in {"rootFolders", "subFolders"}

\* ~Query, ~Store, ~Folder; the sink of the items and those of a subscription are
\* released only.
Unadvises == owner \in {"stores", "rootFolders", "subFolders"}

HoldsOwner == phase \in {"locked", "reset"}

\* The last strong pointer outside a callback goes.
DropOwner ==
  /\ owned
  /\ pc = "idle"
  /\ owned' = FALSE
  /\ destroying' = IF HoldsOwner THEN "no" ELSE "unadvise"
  /\ UNCHANGED <<owner, pc, phase, sink, refcount, local, member, mapi, source, connected>>

DestroyUnadvise ==
  /\ destroying = "unadvise"
  /\ destroying' = "release"
  /\ IF member = 1 /\ Unadvises
     THEN Unadvise
     ELSE UNCHANGED <<source, connected, mapi, refcount, sink>>
  /\ UNCHANGED <<owner, owned, pc, phase, local, member>>

DestroyRelease ==
  /\ destroying = "release"
  /\ destroying' = "done"
  /\ member' = 0
  /\ IF member = 1 THEN Release ELSE UNCHANGED <<refcount, sink>>
  /\ UNCHANGED <<owner, owned, pc, phase, local, mapi, source, connected>>
-----------------------------------------------------------------------------
(* The callback, on a thread of MAPI; MAPI makes one call of a sink at a time. *)

OnNotify ==
  /\ connected
  /\ phase = "no"
  /\ phase' = "entered"
  /\ UNCHANGED <<owner, owned, destroying, pc, sink, refcount, local, member, mapi,
                 source, connected>>

\* Mutant of LockOwner: a plain pointer in place of the weak one.
LockOwnerPlain ==
  /\ phase = "entered"
  /\ phase' = "locked"
  /\ UNCHANGED <<owner, owned, destroying, pc, sink, refcount, local, member, mapi,
                 source, connected>>

\* weak_ptr::lock gives the owner unless its last strong pointer is gone.
LockOwner ==
  /\ phase = "entered"
  /\ phase' = IF owned THEN "locked" ELSE "leaving"
  /\ UNCHANGED <<owner, owned, destroying, pc, sink, refcount, local, member, mapi,
                 source, connected>>

\* The list is dropped.
ResetList ==
  /\ phase = "locked"
  /\ phase' = "reset"
  /\ UNCHANGED <<owner, owned, destroying, pc, sink, refcount, local, member, mapi,
                 source, connected>>

\* The strong pointer goes; if it was the last, the owner is destroyed here.
UnlockOwner ==
  /\ phase = "reset"
  /\ phase' = IF owned THEN "leaving" ELSE "last"
  /\ destroying' = IF owned THEN destroying ELSE "unadvise"
  /\ UNCHANGED <<owner, owned, pc, sink, refcount, local, member, mapi, source, connected>>

Destroyed ==
  /\ phase = "last"
  /\ destroying = "done"
  /\ phase' = "leaving"
  /\ UNCHANGED <<owner, owned, destroying, pc, sink, refcount, local, member, mapi,
                 source, connected>>

\* MAPI's reference for the call goes, if the connection has gone meanwhile.
EndNotify ==
  /\ phase = "leaving"
  /\ phase' = "no"
  /\ IF connected
     THEN UNCHANGED <<mapi, refcount, sink>>
     ELSE mapi' = 0 /\ Release
  /\ UNCHANGED <<owner, owned, destroying, pc, local, member, source, connected>>
-----------------------------------------------------------------------------
Resolver == NewSink \/ Advise \/ AdviseFails \/ OnAdvise \/ LeaveScope \/ DropOwner
Destructor == DestroyUnadvise \/ DestroyRelease
Callback == LockOwner \/ ResetList \/ UnlockOwner \/ Destroyed \/ EndNotify

Next == Resolver \/ Destructor \/ OnNotify \/ Callback

\* A destructor and a callback that have begun go on; nobody has to let the owner go.
Fairness == WF_vars(Destructor) /\ WF_vars(Callback)

Spec == Init /\ [][Next]_vars
FairSpec == Spec /\ Fairness
-----------------------------------------------------------------------------
(* Properties *)

TypeOK ==
  /\ owner \in Owners
  /\ destroying \in {"no", "unadvise", "release", "done"}
  /\ pc \in {"idle", "made", "advised", "kept"}
  /\ phase \in {"no", "entered", "locked", "reset", "last", "leaving"}
  /\ sink \in {"none", "live", "deleted"}
  /\ refcount \in Nat
  /\ owned \in BOOLEAN
  /\ local \in 0..1 /\ member \in 0..1 /\ mapi \in 0..1
  /\ source \in BOOLEAN /\ connected \in BOOLEAN

\* Every reference anybody holds is counted, through every order of Release on two
\* threads, so the proxy lives exactly as long as somebody holds it.
RefcountCounts ==
  /\ refcount = local + member + mapi
  /\ sink = "live" <=> refcount > 0

\* A callback never runs in a deleted proxy, not even when it destroys the owner, and
\* the proxy with it, itself.
CallbackHasSink == phase # "no" => sink = "live"

\* A callback never touches an owner whose destructor has begun.
CallbackHasOwner == HoldsOwner => destroying = "no"

\* Owners whose sink must not outlive them: lists that are read again and again.
OwnsSink == owner \in {"stores", "rootFolders", "subFolders"}

\* Once such an owner is gone and no callback runs, so is the sink, and MAPI
\* has no connection to it.
NothingLeaks ==
  (destroying = "done" /\ phase = "no" /\ OwnsSink) => (sink # "live" /\ ~connected)

\* Such a sink is deleted in the end, however the callbacks fall.
SinkGoes == ~owned ~> (OwnsSink => sink # "live")

(* The inductive invariant. *)

\* Who holds a reference while: the resolver from NewSink to LeaveScope, the member from
\* OnAdvise to the destructor, MAPI while connected or calling.
SinkInv ==
  /\ RefcountCounts
  /\ CallbackHasOwner
  /\ local = 1 <=> pc # "idle"
  /\ pc # "idle" => owned
  /\ owned => destroying = "no"
  /\ destroying = "no" => (owned \/ HoldsOwner)
  /\ pc \in {"made", "advised"} => member = 0 /\ ~source
  /\ pc = "kept" => member = 1
  /\ pc = "made" => ~connected /\ mapi = 0 /\ phase = "no"
  /\ pc = "advised" => connected
  /\ connected => mapi = 1 /\ (source \/ pc = "advised")
  /\ mapi = 1 <=> (connected \/ phase # "no")
  /\ source => connected
  /\ member = 1 /\ destroying # "release" => source
  /\ member = 1 /\ destroying = "release" => (source <=> ~Unadvises)
  /\ member = 0 /\ pc \in {"idle", "made"} =>
       (source => destroying = "done" /\ ~Unadvises)
  /\ destroying = "done" => member = 0
  /\ destroying \in {"release", "done"} /\ Unadvises => ~connected
  /\ phase = "last" => ~owned
=============================================================================
