--------------------------- MODULE LazyCollection ---------------------------
(***************************************************************************)
(* A list that is read from MAPI when it is first asked for, and kept: the *)
(* stores of Query, the root folders of Store, the sub-folders and the     *)
(* items of Folder (Query.cpp, Store.cpp, Folder.cpp).  The four are       *)
(* written alike; `collection` says which one this is.                     *)
(*                                                                         *)
(* A resolver asks for the whole list or for rows by ID.  The first read   *)
(* of the table advises a sink whose callback drops the list, so that the  *)
(* next call reads it again.  With std::launch::async the resolvers run on *)
(* threads other than the one MAPI calls back on.  The generated wrapper   *)
(* of an object (schema/QueryObject.cpp and the like) resolves one field   *)
(* of the list at a time, under the wrapper's mutex; two wrappers of one   *)
(* Store or Folder each have a mutex of their own.                         *)
(***************************************************************************)
EXTENDS Integers, SequencesExt

CONSTANTS
  Ids,           \* entry IDs of rows
  InitialTable,  \* the rows of the table at the start
  Windows,       \* directives the fields are asked with
  Wanted,        \* lists of IDs that are asked for
  All,           \* ids: null
  Callers,       \* resolver calls that may be under way at the same time
  Wrappers,      \* generated wrappers of the object that has the list
  Overlap,       \* a lookup of one operation may run beside a field of another
  Collections,   \* which of the four lists are considered
  Async,         \* the launch policy: calls and callbacks interleave
  Faults,        \* which MAPI calls may fail: a subset of {"read", "advise"}
  NotLoaded, NotFound, Failed,
  Absent, Null, PageSize,
  MaxChanges     \* bound: how many changes of the table are considered

ASSUME CollectionsAssumption ==
  Collections \subseteq {"stores", "rootFolders", "subFolders", "items"}
ASSUME InitialTableAssumption == InitialTable \in Seq(Ids) /\ IsInjective(InitialTable)
ASSUME WantedAssumption == Wanted \subseteq (Seq(Ids) \ {<<>>}) /\ All \notin Seq(Ids)
ASSUME WrappersAssumption == Wrappers # {} /\ "lookup" \notin Wrappers
ASSUME SwitchAssumption == Async \in BOOLEAN /\ Overlap \in BOOLEAN /\ Faults \subseteq {"read", "advise"}
\* There is one order to read in: another one is another list of rows.
ASSUME WindowsAssumption ==
  \A d \in Windows :
    d.offset \in Int \cup {Absent} /\ d.take \in Int \cup {Absent} /\ d.orderBy = Absent
ASSUME MarksAssumption ==
  NotLoaded \notin Seq(Ids) /\ Failed \notin Seq(Ids \cup {NotFound})
ASSUME BoundAssumption == MaxChanges \in Nat /\ PageSize \in Nat \ {0}

TD == INSTANCE TableDirectives

VARIABLES
  collection, \* which list this is
  table,      \* the rows MAPI has (external)
  changes,    \* how many changes there were
  pending,    \* notifications MAPI has not passed on yet
  connections,\* Advise connections of the list's sink
  untold,     \* ghost: the table changed, with no connection, since it was last read
  rows,       \* m_stores, m_rootFolders, m_subFolders, m_items
  ids,        \* m_ids ...: the position of each ID in rows
  directives, \* m_storeDirectives ...
  pc,         \* where each caller is
  call,       \* what it asks for, and through which wrapper
  inner,      \* it is inside a lookup, which loads without directives
  rowset,     \* the rows it has read
  answer,     \* what it has got
  crashed,    \* the process is gone
  alive       \* the object that has the list exists

vars == <<collection, table, changes, pending, connections, untold, rows, ids, directives,
          pc, call, inner, rowset, answer, crashed, alive>>

cacheVars == <<rows, ids, directives>>
callVars == <<pc, call, inner, rowset, answer>>
mapiVars == <<table, changes, pending, connections, untold>>

\* What TableDirectives::read makes of the table as it is.
ReadWith(d) == TD!read(d, [o \in {"default"} |-> table], TRUE, {}, <<>>, "default")
Window(d) == ReadWith(d).rows

\* A field of the list goes through a wrapper; Query::lookup is called by a mutation
\* or a subscription, which has a wrapper, and a mutex, of its own.
FieldOf(w, d, wanted) == [via |-> w, directives |-> d, wanted |-> wanted]
LookupOf(wanted)      == [via |-> "lookup", directives |-> TD!NoDirectives, wanted |-> wanted]
IsField(t)            == call[t].via # "lookup"

Init ==
  /\ collection \in Collections
  /\ table = InitialTable
  /\ changes = 0
  /\ pending = 0
  /\ connections = 0
  /\ untold = FALSE
  /\ rows = NotLoaded
  /\ ids = <<>>
  /\ directives = TD!NoDirectives
  /\ pc = [t \in Callers |-> "idle"]
  /\ call = [t \in Callers |-> LookupOf(All)]
  /\ inner = [t \in Callers |-> FALSE]
  /\ rowset = [t \in Callers |-> <<>>]
  /\ answer = [t \in Callers |-> Failed]
  /\ crashed = FALSE
  /\ alive = TRUE
-----------------------------------------------------------------------------
\* Only an asynchronous launch lets a call run beside others, and beside callbacks.
Running(t, at) ==
  /\ ~crashed
  /\ pc[t] = at
  /\ Async \/ \A u \in Callers \ {t} : pc[u] = "idle"

Goto(t, to) == pc' = [pc EXCEPT ![t] = to]

\* A null unique_ptr is dereferenced, or an exception meets a noexcept lambda.
Crash == crashed' = TRUE /\ UNCHANGED <<pc, answer>>

\* CORt or CFRt throws.  getStores ... call lookup from a noexcept lambda.
Throw(t) ==
  IF inner[t] /\ IsField(t)
  THEN Crash
  ELSE Goto(t, "idle") /\ answer' = [answer EXCEPT ![t] = Failed] /\ UNCHANGED crashed

\* Mutant of Unlocked: the resolver takes no lock.
UnlockedAlways(via) == TRUE

\* The resolver's mutex is held from before getStores ... until its result is there.
Unlocked(via) == \A u \in Callers : pc[u] # "idle" => call[u].via # via

\* A call comes in, on any idle thread; which one makes no difference.
Called(request, isLookup) ==
  /\ alive
  /\ Unlocked(request.via)
  /\ Overlap \/ \A u \in Callers : pc[u] # "idle" => IsField(u) # isLookup
  /\ \E u \in Callers : pc[u] = "idle"
  /\ LET t == CHOOSE u \in Callers : pc[u] = "idle" IN
     /\ Running(t, "idle")
     /\ call' = [call EXCEPT ![t] = request]
     /\ inner' = [inner EXCEPT ![t] = isLookup]
     /\ answer' = [answer EXCEPT ![t] = <<>>]
     /\ Goto(t, "check")
  /\ UNCHANGED <<collection, mapiVars, cacheVars, rowset, crashed, alive>>

\* A field of the list, with or without IDs.
GetField(w) ==
  \E d \in Windows, wanted \in Wanted \cup {All} : Called(FieldOf(w, d, wanted), FALSE)

getStores(w)      == collection = "stores"      /\ GetField(w)
getRootFolders(w) == collection = "rootFolders" /\ GetField(w)
getSubFolders(w)  == collection = "subFolders"  /\ GetField(w)
getItems(w)       == collection = "items"       /\ GetField(w)

\* The generated resolvers: take the mutex of the wrapper and call the object.
resolveStores      == \E w \in Wrappers : getStores(w)
resolveRootFolders == \E w \in Wrappers : getRootFolders(w)
resolveSubFolders  == \E w \in Wrappers : getSubFolders(w)
resolveItems       == \E w \in Wrappers : getItems(w)

\* Query::lookup, from a mutation or a subscription.
lookup ==
  /\ collection = "stores"
  /\ \E id \in Ids : Called(LookupOf(<<id>>), TRUE)
-----------------------------------------------------------------------------
(* LoadStores, LoadRootFolders, LoadSubFolders, LoadItems *)

LoadDirectives(t) == IF inner[t] THEN TD!NoDirectives ELSE call[t].directives

\* Mutant of CheckLoaded: other directives do not drop the list.
CheckLoadedOnly(t) ==
  /\ Running(t, "check")
  /\ directives' = LoadDirectives(t)
  /\ IF rows # NotLoaded
     THEN Goto(t, "use") /\ UNCHANGED <<rows, ids>>
     ELSE Goto(t, "read") /\ rows' = <<>> /\ ids' = <<>>
  /\ UNCHANGED <<collection, mapiVars, call, inner, rowset, answer, crashed, alive>>

\* Mutant of CheckLoaded: the index of the dropped list is kept.
CheckLoadedKeepingIds(t) ==
  /\ Running(t, "check")
  /\ directives' = LoadDirectives(t)
  /\ IF rows # NotLoaded /\ directives = LoadDirectives(t)
     THEN Goto(t, "use") /\ UNCHANGED rows
     ELSE Goto(t, "read") /\ rows' = <<>>
  /\ UNCHANGED <<collection, mapiVars, ids, call, inner, rowset, answer, crashed, alive>>

\* Other directives drop the list; a list that is there is used; else an empty one
\* is made.
CheckLoaded(t) ==
  /\ Running(t, "check")
  /\ directives' = LoadDirectives(t)
  /\ IF rows # NotLoaded /\ directives = LoadDirectives(t)
     THEN Goto(t, "use") /\ UNCHANGED <<rows, ids>>
     ELSE Goto(t, "read") /\ rows' = <<>> /\ ids' = <<>>
  /\ UNCHANGED <<collection, mapiVars, call, inner, rowset, answer, crashed, alive>>

\* Open the table and read the window; the empty list stays when that throws.
ReadRows(t) ==
  /\ Running(t, "read")
  /\ \/ /\ ReadWith(directives).ok
        /\ rowset' = [rowset EXCEPT ![t] = Window(directives)]
        /\ Goto(t, "fill")
        /\ untold' = FALSE
        /\ UNCHANGED <<answer, crashed>>
     \/ /\ ~ReadWith(directives).ok \/ "read" \in Faults
        /\ Throw(t)
        /\ UNCHANGED <<rowset, untold>>
  /\ UNCHANGED <<collection, table, changes, pending, connections, cacheVars, call, inner,
                 alive>>

\* Where a list has an ID first.
PlaceOf(id, list) == SelectInSeq(list, LAMBDA r : r = id)

\* insert and push_back; map::insert keeps the entry it has.
FillRows(t) ==
  /\ Running(t, "fill")
  /\ IF rows = NotLoaded
     THEN Crash /\ UNCHANGED <<rows, ids>>
     ELSE /\ rows' = rows \o rowset[t]
          /\ ids' = [id \in DOMAIN ids \cup ToSet(rowset[t]) |->
                       IF id \in DOMAIN ids THEN ids[id]
                       ELSE Len(rows) + PlaceOf(id, rowset[t])]
          /\ Goto(t, IF connections = 0 THEN "advise" ELSE "use")
          /\ UNCHANGED <<answer, crashed>>
  /\ UNCHANGED <<collection, mapiVars, directives, call, inner, rowset, alive>>

\* Advise, once; the list stays when that throws.
AdviseSink(t) ==
  /\ Running(t, "advise")
  /\ \/ /\ connections' = connections + 1
        /\ Goto(t, "use")
        /\ UNCHANGED <<answer, crashed>>
     \/ /\ "advise" \in Faults
        /\ Throw(t)
        /\ UNCHANGED connections
  /\ UNCHANGED <<collection, table, changes, pending, untold, cacheVars, call, inner, rowset,
                 alive>>

Load(t) == CheckLoaded(t) \/ ReadRows(t) \/ FillRows(t) \/ AdviseSink(t)

LoadStores(t)      == collection = "stores"      /\ Load(t)
LoadRootFolders(t) == collection = "rootFolders" /\ Load(t)
LoadSubFolders(t)  == collection = "subFolders"  /\ Load(t)
LoadItems(t)       == collection = "items"       /\ Load(t)
-----------------------------------------------------------------------------
\* ids: null: the list as it is.
CloneRows(t) ==
  /\ Running(t, "use")
  /\ ~inner[t] /\ call[t].wanted = All
  /\ IF rows = NotLoaded
     THEN Crash
     ELSE Goto(t, "idle") /\ answer' = [answer EXCEPT ![t] = rows] /\ UNCHANGED crashed
  /\ UNCHANGED <<collection, mapiVars, cacheVars, call, inner, rowset, alive>>

\* With IDs: a lookup for each, and each loads again, without the directives.
BeginLookups(t) ==
  /\ Running(t, "use")
  /\ ~inner[t] /\ call[t].wanted # All
  /\ inner' = [inner EXCEPT ![t] = TRUE]
  /\ Goto(t, "check")
  /\ UNCHANGED <<collection, mapiVars, cacheVars, call, rowset, answer, crashed, alive>>

NextId(t) == call[t].wanted[Len(answer[t]) + 1]

\* Mutant of FindRow: an ID that is not found is looked up again.
FindRowAgain(t) ==
  LET id   == NextId(t)
      last == Len(answer[t]) + 1 = Len(call[t].wanted)
      Found(row) ==
        /\ answer' = [answer EXCEPT ![t] = Append(@, row)]
        /\ Goto(t, IF last THEN "idle" ELSE "check")
        /\ UNCHANGED crashed
  IN  /\ Running(t, "use")
      /\ inner[t]
      /\ CASE id \notin DOMAIN ids      -> Goto(t, "check") /\ UNCHANGED <<answer, crashed>>
           [] id \in DOMAIN ids /\ rows = NotLoaded -> Crash
           [] OTHER -> IF ids[id] \in DOMAIN rows THEN Found(rows[ids[id]]) ELSE Throw(t)
      /\ UNCHANGED <<collection, mapiVars, cacheVars, call, inner, rowset, alive>>
\* The rest of a lookup, and on to the next ID.
FindRow(t) ==
  LET id   == NextId(t)
      last == Len(answer[t]) + 1 = Len(call[t].wanted)
      Found(row) ==
        /\ answer' = [answer EXCEPT ![t] = Append(@, row)]
        /\ Goto(t, IF last THEN "idle" ELSE "check")
        /\ UNCHANGED crashed
  IN  /\ Running(t, "use")
      /\ inner[t]
      /\ CASE id \notin DOMAIN ids      -> Found(NotFound)
           [] id \in DOMAIN ids /\ rows = NotLoaded -> Crash
           [] OTHER -> IF ids[id] \in DOMAIN rows THEN Found(rows[ids[id]]) ELSE Throw(t)
      /\ UNCHANGED <<collection, mapiVars, cacheVars, call, inner, rowset, alive>>
-----------------------------------------------------------------------------
\* External: a row comes or goes, at any moment.  Without a connection, as between the
\* first read and the Advise that follows it, nobody is told.
TableChange ==
  /\ ~crashed
  /\ changes < MaxChanges
  /\ \/ \E id \in Ids \ ToSet(table), i \in 1..(Len(table) + 1) :
          table' = InsertAt(table, i, id)
     \/ \E i \in DOMAIN table : table' = RemoveAt(table, i)
  /\ changes' = changes + 1
  /\ pending' = IF connections > 0 THEN pending + 1 ELSE pending
  /\ untold' = (untold \/ connections = 0)
  /\ UNCHANGED <<collection, connections, cacheVars, callVars, crashed, alive>>

\* Mutant of OnNotify: the callback does nothing while a caller is in its call.
OnNotifyWhenIdle ==
  /\ ~crashed
  /\ pending > 0
  /\ Async \/ \A t \in Callers : pc[t] = "idle"
  /\ pending' = 0
  /\ rows' = IF alive /\ \A t \in Callers : pc[t] = "idle" THEN NotLoaded ELSE rows
  /\ UNCHANGED <<collection, table, changes, connections, untold, ids, directives, callVars,
                 crashed, alive>>

\* The callback of the sink takes what there is and drops the list, not its index.
OnNotify ==
  /\ ~crashed
  /\ pending > 0
  /\ Async \/ \A t \in Callers : pc[t] = "idle"
  /\ pending' = 0
  /\ rows' = IF alive THEN NotLoaded ELSE rows
  /\ UNCHANGED <<collection, table, changes, connections, untold, ids, directives, callVars,
                 crashed, alive>>

\* ~Query, ~Store, ~Folder: the sinks are unadvised, but not the one of the items.
Release ==
  /\ ~crashed
  /\ alive
  /\ \A t \in Callers : pc[t] = "idle"
  /\ alive' = FALSE
  /\ rows' = NotLoaded
  /\ connections' = IF collection = "items" THEN connections ELSE 0
  /\ UNCHANGED <<collection, table, changes, pending, untold, ids, directives, callVars, crashed>>

Next ==
  \/ resolveStores \/ resolveRootFolders \/ resolveSubFolders \/ resolveItems
  \/ lookup
  \/ \E t \in Callers :
       \/ LoadStores(t) \/ LoadRootFolders(t) \/ LoadSubFolders(t) \/ LoadItems(t)
       \/ CloneRows(t) \/ BeginLookups(t) \/ FindRow(t)
  \/ TableChange
  \/ OnNotify
  \/ Release

\* A call that is under way goes on: it is one function running on its thread.
Fairness ==
  \A t \in Callers :
    WF_vars(\/ LoadStores(t) \/ LoadRootFolders(t) \/ LoadSubFolders(t) \/ LoadItems(t)
            \/ CloneRows(t) \/ BeginLookups(t) \/ FindRow(t))

Spec == Init /\ [][Next]_vars
FairSpec == Spec /\ Fairness
-----------------------------------------------------------------------------
(* Properties *)

\* Types; one connection at most; a caller that got rows asked for them.
TypeOK ==
  /\ collection \in Collections
  /\ table \in Seq(Ids)
  /\ changes \in 0..MaxChanges
  /\ pending \in 0..MaxChanges
  /\ connections \in 0..1
  /\ untold \in BOOLEAN
  /\ rows = NotLoaded \/ rows \in Seq(Ids)
  /\ DOMAIN ids \subseteq Ids /\ \A id \in DOMAIN ids : ids[id] \in Nat
  /\ directives \in Windows \cup {TD!NoDirectives}
  /\ pc \in [Callers -> {"idle", "check", "read", "fill", "advise", "use"}]
  /\ inner \in [Callers -> BOOLEAN]
  /\ rowset \in [Callers -> Seq(Ids)]
  /\ answer \in [Callers -> {Failed} \cup Seq(Ids \cup {NotFound})]
  /\ crashed \in BOOLEAN
  /\ alive \in BOOLEAN

Loading == \E t \in Callers : pc[t] \in {"read", "fill"}

\* The index and the list are dropped apart: the callback and the check drop the list
\* and leave the index to the next load, which may throw half-way.  Whenever a list
\* is there to be used, its index is the index of this list and no older one.
IndexAgrees ==
  TypeOK /\ ((rows # NotLoaded /\ ~Loading) =>
    /\ DOMAIN ids = ToSet(rows)
    /\ \A id \in DOMAIN ids : ids[id] \in DOMAIN rows /\ rows[ids[id]] = id)

\* A list that outlives the calls that loaded it, and a sink that is advised, is the
\* window of the table as it is now, or a callback that drops it is on its way; or it
\* is the empty list that a read which threw has left.  One exception is the code's:
\* the sink is advised after the first read, so a change that falls between the two is
\* told to nobody, and the list stays stale until another change is told (untold).
CacheIsCurrent ==
  (rows # NotLoaded /\ ~Loading /\ connections > 0 /\ pending = 0 /\ ~untold) =>
    rows \in {<<>>, Window(directives)}

\* Whatever other calls asked for before, with other directives or by ID, a field is
\* answered with its own window, and a lookup finds what the default window has, but
\* for a list that is stale by that exception.
\* (Again with the empty list of a read that threw, or without one that a callback
\* has dropped: the index may not have had the ID.)
AnswersAreCurrent ==
  [][\A t \in Callers :
       (pending = 0 /\ connections > 0 /\ ~untold /\ ~crashed') =>
         /\ CloneRows(t) => answer'[t] \in {<<>>, Window(call[t].directives)}
         /\ FindRow(t) /\ answer'[t] \notin {Failed, answer[t]} =>
              LET found == NextId(t) \in ToSet(Window(TD!NoDirectives)) IN
              \/ Last(answer'[t]) = IF found THEN NextId(t) ELSE NotFound
              \/ Last(answer'[t]) = NotFound /\ rows \in {<<>>, NotLoaded}]_vars

\* However often callbacks drop the list, a call that has the resolver's mutex comes to
\* its end and gives the mutex back, unless the process is gone.
CallsEnd == \A t \in Callers : (pc[t] # "idle") ~> (pc[t] = "idle" \/ crashed)

(* What the repository says and the code does not do. *)

\* Types.h:226 "These lazy load and cache results between calls to const methods":
\* a list that was loaded is there when it is used.
LoadedWhenUsed == ~crashed
=============================================================================
