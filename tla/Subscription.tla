---------------------------- MODULE Subscription ----------------------------
(***************************************************************************)
(* The registry of live queries: class Subscription (Subscription.cpp).    *)
(*                                                                         *)
(* A GraphQL client subscribes to items(folderId), subFolders(folderId) or *)
(* rootFolders(storeId), optionally with window directives.  Listeners     *)
(* whose request has the same registration key share one TableSink, and a  *)
(* TableSink holds one MAPI table, its cached rows and one IMAPIAdviseSink *)
(* connection.  MAPI calls the connection's callback on a thread other     *)
(* than the resolvers'; the callback hands the change to the GraphQL       *)
(* service, which picks the listeners with a filter the callback gives it. *)
(*                                                                         *)
(* What the rows of a sink are is the subject of TableSink; here a batch   *)
(* of notifications is only counted, and a counted one changes the window. *)
(***************************************************************************)
EXTENDS Naturals, FiniteSets, SequencesExt

CONSTANTS
  Listeners,   \* subscription requests a client may hold
  Request,     \* Request[l]: the field, argument and directives of l
  Sinks,       \* TableSink objects that may be created
  NoListener, NoSink,
  Faults,      \* which calls may throw: a subset of {"load", "advise", "notify"}
  MaxChanges   \* bound: how many table changes are considered

Fields == {"items", "subFolders", "rootFolders"}

ASSUME RequestAssumption ==
  \A l \in Listeners : Request[l].field \in Fields
\* A directive written in the same words parses to the same value.
ASSUME TextAssumption ==
  \A l, m \in Listeners :
    \A d \in Request[l].directives, e \in Request[m].directives :
      d.name = e.name /\ d.text = e.text => d.value = e.value
ASSUME ListenersFinite == IsFiniteSet(Listeners)
ASSUME NoneAssumption == NoListener \notin Listeners /\ NoSink \notin Sinks
ASSUME FaultsAssumption == Faults \subseteq {"load", "advise", "notify"}
ASSUME MaxChangesAssumption == MaxChanges \in Nat

(***************************************************************************)
(* A directive is a record [name, text, value]: what the client wrote, and *)
(* the value the arguments parse to.  RegistrationKey::operator< compares  *)
(* the parsed values of the five window directives and nothing else; two   *)
(* requests are in the same multiset range iff their KeyOf is equal.       *)
(***************************************************************************)
WindowDirectives == {"offset", "take", "seek", "columns", "orderBy"}

KeyOf(l) ==
  [field      |-> Request[l].field,
   argument   |-> Request[l].argument,
   directives |-> {[name |-> d.name, value |-> d.value] :
                     d \in {e \in Request[l].directives : e.name \in WindowDirectives}}]

Keys == {KeyOf(l) : l \in Listeners}

VARIABLES
  phase,      \* where each listener is in the service's subscribe/unsubscribe
  registered, \* the three multisets: for each key its equal_range, a sequence of sinks
  creator,    \* creator[s]: the listener whose request the callback of s captured
  resolver,   \* the listener whose resolver call is between LoadRows and insert
  local,      \* registration.sink of that call
  connected,  \* sinks with an Advise connection in MAPI
  pending,    \* pending[s]: notifications MAPI holds for the connection of s
  changes,    \* how many table changes there were
  alive,      \* the Subscription object (and the service) exist
  heard,      \* ghost: heard[l], the sinks whose deltas l got since its subscribe returned
  owed        \* ghost: owed[l], changes of l's window that no callback has taken yet

vars == <<phase, registered, creator, resolver, local, connected, pending,
          changes, alive, heard, owed>>

SinksAt(k) == ToSet(registered[k])

\* Mutant of Live: only the registration that made the sink holds it.
LiveWithItsCreator(s) ==
  s = local \/ (creator[s] \in Listeners /\ phase[creator[s]] = "subscribed")

\* Mutant of Live: the callback has a strong pointer to its sink.
LiveWhileAdvised(s) == s \in connected

\* shared_ptr<TableSink>: held by registrations and by the call in progress.
Live(s) == s = local \/ \E k \in Keys : s \in SinksAt(k)

\* Listeners whose registration holds s.
Sharing(s) == {l \in Listeners : phase[l] = "subscribed" /\ s \in SinksAt(KeyOf(l))}

Init ==
  /\ phase = [l \in Listeners |-> "idle"]
  /\ registered = [k \in Keys |-> <<>>]
  /\ creator = [s \in Sinks |-> NoListener]
  /\ resolver = NoListener
  /\ local = NoSink
  /\ connected = {}
  /\ pending = [s \in Sinks |-> 0]
  /\ changes = 0
  /\ alive = TRUE
  /\ heard = [l \in Listeners |-> {}]
  /\ owed = [l \in Listeners |-> 0]
-----------------------------------------------------------------------------
(* The GraphQL service around the resolvers (external). *)

\* Bound: a request is made only while there is a sink left to serve it.
SinkLeft ==
  Cardinality({l \in Listeners : phase[l] = "subscribing"})
    < Cardinality({s \in Sinks : creator[s] = NoListener})

\* The service files the listener, then calls the resolver with NotifySubscribe.
Subscribe(l) ==
  /\ alive
  /\ phase[l] = "idle"
  /\ SinkLeft
  /\ phase' = [phase EXCEPT ![l] = "subscribing"]
  /\ UNCHANGED <<registered, creator, resolver, local, connected, pending, changes,
                 alive, heard, owed>>

\* The listener is dropped once the NotifyUnsubscribe resolver has returned.
Forget(l) ==
  /\ phase[l] = "leaving"
  /\ phase' = [phase EXCEPT ![l] = "idle"]
  /\ UNCHANGED <<registered, creator, resolver, local, connected, pending, changes,
                 alive, heard, owed>>
-----------------------------------------------------------------------------
(* The resolvers getItems, getSubFolders, getRootFolders, one text three   *)
(* times, each with the multiset of its field.  The generated              *)
(* object::Subscription runs one of them at a time (_resolverMutex).       *)

\* Mutant of ShareSink: only from a listener that is still subscribed.
ShareSinkOfSubscribed(l) ==
  LET k == KeyOf(l) IN
  /\ phase[l] = "subscribing"
  /\ resolver = NoListener
  /\ registered[k] # <<>>
  /\ phase[creator[Head(registered[k])]] = "subscribed"
  /\ registered' = [registered EXCEPT ![k] = Append(@, Head(@))]
  /\ phase' = [phase EXCEPT ![l] = "subscribed"]
  /\ heard' = [heard EXCEPT ![l] = {}]
  /\ UNCHANGED <<creator, resolver, local, connected, pending, changes, alive, owed>>

\* itr != itrEnd: take the sink of the first equal registration.
ShareSink(l) ==
  LET k == KeyOf(l) IN
  /\ phase[l] = "subscribing"
  /\ resolver = NoListener
  /\ registered[k] # <<>>
  /\ registered' = [registered EXCEPT ![k] = Append(@, Head(@))]
  /\ phase' = [phase EXCEPT ![l] = "subscribed"]
  /\ heard' = [heard EXCEPT ![l] = {}]
  /\ UNCHANGED <<creator, resolver, local, connected, pending, changes, alive, owed>>

\* Mutant of LoadSink: a new sink whether or not the range is empty.
LoadSinkAlways(l) ==
  /\ phase[l] = "subscribing"
  /\ resolver = NoListener
  /\ \E s \in Sinks :
       /\ creator[s] = NoListener
       /\ creator' = [creator EXCEPT ![s] = l]
       /\ local' = s
  /\ resolver' = l
  /\ UNCHANGED <<phase, registered, connected, pending, changes, alive, heard, owed>>

\* itr == itrEnd: RegisterAdviseSinkProxy makes a sink and loads its rows ...
LoadSink(l) ==
  /\ phase[l] = "subscribing"
  /\ resolver = NoListener
  /\ registered[KeyOf(l)] = <<>>
  /\ \E s \in Sinks :
       /\ creator[s] = NoListener
       /\ creator' = [creator EXCEPT ![s] = l]
       /\ local' = s
  /\ resolver' = l
  /\ UNCHANGED <<phase, registered, connected, pending, changes, alive, heard, owed>>

\* ... or throws on the way: the service drops the listener.
LoadFails(l) ==
  /\ "load" \in Faults
  /\ phase[l] = "subscribing"
  /\ resolver = NoListener
  /\ registered[KeyOf(l)] = <<>>
  /\ phase' = [phase EXCEPT ![l] = "idle"]
  /\ UNCHANGED <<registered, creator, resolver, local, connected, pending, changes,
                 alive, heard, owed>>

\* table->Advise: from here on MAPI may call the callback.
AdviseSink(l) ==
  /\ resolver = l
  /\ local \notin connected
  /\ connected' = connected \cup {local}
  /\ UNCHANGED <<phase, registered, creator, resolver, local, pending, changes, alive,
                 heard, owed>>

\* CORt(Advise) throws: the new sink dies with the registration.
AdviseFails(l) ==
  /\ "advise" \in Faults
  /\ resolver = l
  /\ local \notin connected
  /\ phase' = [phase EXCEPT ![l] = "idle"]
  /\ creator' = [creator EXCEPT ![local] = NoListener]
  /\ resolver' = NoListener
  /\ local' = NoSink
  /\ UNCHANGED <<registered, connected, pending, changes, alive, heard, owed>>

\* insert(itrEnd, registration)
InsertSink(l) ==
  /\ resolver = l
  /\ local \in connected
  /\ registered' = [registered EXCEPT ![KeyOf(l)] = Append(@, local)]
  /\ phase' = [phase EXCEPT ![l] = "subscribed"]
  /\ resolver' = NoListener
  /\ local' = NoSink
  /\ heard' = [heard EXCEPT ![l] = {}]
  /\ UNCHANGED <<creator, connected, pending, changes, alive, owed>>

RegisterAdviseSinkProxy(l) ==
  LoadSink(l) \/ LoadFails(l) \/ AdviseSink(l) \/ AdviseFails(l) \/ InsertSink(l)

\* Mutant of NotifyUnsubscribe: erase(registration) takes the whole range.
EraseAllEqual(l) ==
  /\ alive
  /\ phase[l] = "subscribed"
  /\ resolver = NoListener
  /\ registered' = [registered EXCEPT ![KeyOf(l)] = <<>>]
  /\ phase' = [phase EXCEPT ![l] = "leaving"]
  /\ owed' = [owed EXCEPT ![l] = 0]
  /\ UNCHANGED <<creator, resolver, local, connected, pending, changes, alive, heard>>

\* erase(itr): the oldest equal registration goes, whoever made it.  When there
\* is none, CFRt throws and nothing is erased.
NotifyUnsubscribe(l) ==
  LET k == KeyOf(l) IN
  /\ alive
  /\ phase[l] = "subscribed"
  /\ resolver = NoListener
  /\ registered' = [registered EXCEPT ![k] = IF @ = <<>> THEN @ ELSE Tail(@)]
  /\ phase' = [phase EXCEPT ![l] = "leaving"]
  /\ owed' = [owed EXCEPT ![l] = 0]
  /\ UNCHANGED <<creator, resolver, local, connected, pending, changes, alive, heard>>

\* The field of l is part of its key, and so picks the multiset.
Resolve(l) == ShareSink(l) \/ RegisterAdviseSinkProxy(l) \/ NotifyUnsubscribe(l)
-----------------------------------------------------------------------------
(* MAPI and the callback of a connection. *)

\* External: a row in the window of s changes, MAPI queues a notification.
TableChange(s) ==
  /\ s \in connected
  /\ changes < MaxChanges
  /\ changes' = changes + 1
  /\ pending' = [pending EXCEPT ![s] = @ + 1]
  /\ owed' = [l \in Listeners |-> IF l \in Sharing(s) THEN owed[l] + 1 ELSE owed[l]]
  /\ UNCHANGED <<phase, registered, creator, resolver, local, connected, alive, heard>>

\* argumentsMatch and the fieldName of the delivery.
argumentsMatch(s, l) ==
  /\ Request[l].field = Request[creator[s]].field
  /\ Request[l].argument = Request[creator[s]].argument

\* directivesMatch: every directive the listener wrote is one the creator wrote.
directivesMatch(s, l) ==
  \A required \in Request[l].directives :
    \E d \in Request[creator[s]].directives :
      d.name = required.name /\ d.text = required.text

\* Mutant of Matching: only the listener whose request made the sink.
MatchingCreator(s) == {l \in Listeners : phase[l] # "idle" /\ l = creator[s]}

\* The service delivers to every listener on file that the filter accepts.
Matching(s) ==
  {l \in Listeners : phase[l] # "idle" /\ argumentsMatch(s, l) /\ directivesMatch(s, l)}

\* The debts of listeners ls once the callback has taken all but r notifications.
OwedAtMost(ls, r) ==
  [l \in Listeners |-> IF l \in ls /\ owed[l] > r THEN r ELSE owed[l]]

\* The callback takes the next n notifications as one batch.  Its weak pointers
\* may have expired; otherwise it delivers one payload.
OnNotify(s) ==
  /\ \E n \in 1..pending[s] :
       /\ pending' = [pending EXCEPT ![s] = @ - n]
       /\ IF alive /\ Live(s)
          THEN /\ heard' = [l \in Listeners |->
                              IF l \in Matching(s) THEN heard[l] \cup {s} ELSE heard[l]]
               /\ owed' = OwedAtMost(Matching(s) \cap Sharing(s), pending[s] - n)
          ELSE UNCHANGED <<heard, owed>>
  /\ UNCHANGED <<phase, registered, creator, resolver, local, connected, changes, alive>>

\* CORt(ScDupPropset) or the reload throws: the batch is lost for all who share the
\* sink, and nobody will be told of it.
OnNotifyThrows(s) ==
  /\ "notify" \in Faults
  /\ alive /\ Live(s)
  /\ \E n \in 1..pending[s] :
       /\ pending' = [pending EXCEPT ![s] = @ - n]
       /\ owed' = OwedAtMost(Sharing(s), pending[s] - n)
  /\ UNCHANGED <<phase, registered, creator, resolver, local, connected, changes,
                 alive, heard>>

\* ~Subscription: the client drops the service.  A resolver in progress holds a
\* reference to it, so there is none.  The multisets are cleared; nothing calls
\* Unadvise.
Shutdown ==
  /\ alive
  /\ \A l \in Listeners : phase[l] \in {"idle", "subscribed"}
  /\ alive' = FALSE
  /\ registered' = [k \in Keys |-> <<>>]
  /\ phase' = [l \in Listeners |-> "idle"]
  /\ owed' = [l \in Listeners |-> 0]
  /\ UNCHANGED <<creator, resolver, local, connected, pending, changes, heard>>
-----------------------------------------------------------------------------
Next ==
  \/ \E l \in Listeners :
       Subscribe(l) \/ Resolve(l) \/ Forget(l)
  \/ \E s \in Sinks : TableChange(s) \/ OnNotify(s) \/ OnNotifyThrows(s)
  \/ Shutdown

\* A resolver call, once made, runs to its end, and MAPI keeps calling back.
\* Clients are free to subscribe, to unsubscribe or to leave.
Fairness ==
  /\ \A l \in Listeners : WF_vars(AdviseSink(l)) /\ WF_vars(InsertSink(l))
  /\ \A l \in Listeners : SF_vars(ShareSink(l) \/ LoadSink(l))
  /\ \A l \in Listeners : WF_vars(Forget(l))
  /\ \A s \in Sinks : WF_vars(OnNotify(s))

Spec == Init /\ [][Next]_vars
FairSpec == Spec /\ Fairness
-----------------------------------------------------------------------------
(* Properties. *)

\* Types; the resolver in progress, and only it, has a sink of its own.
TypeOK ==
  /\ phase \in [Listeners -> {"idle", "subscribing", "subscribed", "leaving"}]
  /\ registered \in [Keys -> Seq(Sinks)]
  /\ creator \in [Sinks -> Listeners \cup {NoListener}]
  /\ \/ resolver = NoListener /\ local = NoSink
     \/ resolver \in Listeners /\ local \in Sinks
  /\ connected \subseteq Sinks
  /\ pending \in [Sinks -> Nat]
  /\ changes \in 0..MaxChanges
  /\ alive \in BOOLEAN
  /\ heard \in [Listeners -> SUBSET Sinks]
  /\ owed \in [Listeners -> Nat]

\* Types.h:295 "If multiple subscriptions are registered with the same arguments
\* and directives, they should re-use the existing sink": equal registrations
\* share one sink, different ones never do, and the sink being made belongs to a
\* key that has no other.  The lookup and the insert are apart in time, and the
\* oldest registration, the creator's, may go while others stay.
OneSinkPerKey ==
  /\ \A k \in Keys : \A s, t \in SinksAt(k) : s = t
  /\ \A j, k \in Keys : j # k => SinksAt(j) \cap SinksAt(k) = {}
  /\ \A k \in Keys : local \notin SinksAt(k)
  /\ resolver # NoListener => registered[KeyOf(resolver)] = <<>>

\* erase(itr) drops a registration without knowing whose it is.  Still there is
\* one for each subscribed listener: nobody's unsubscribe throws at
\* CFRt(itr != itrEnd) or takes the last reference from under another listener.
EveryListenerRegistered ==
  \A k \in Keys :
    Len(registered[k]) =
      Cardinality({l \in Listeners : phase[l] = "subscribed" /\ KeyOf(l) = k})

\* What keeps the registry so: a registered sink is connected and was made for its
\* key; while a sink is in the making its key stays empty, though the mutex alone
\* orders the lookup and the insert; and the anonymous erase keeps the count.
SinkWasMadeFor(k, s) == s \in connected /\ creator[s] \in Listeners /\ KeyOf(creator[s]) = k

RegistryInv ==
  /\ \A k \in Keys : \A s \in SinksAt(k) : SinkWasMadeFor(k, s)
  /\ \A k \in Keys : \A s, t \in SinksAt(k) : s = t
  /\ resolver # NoListener => /\ phase[resolver] = "subscribing"
                              /\ creator[local] = resolver
                              /\ registered[KeyOf(resolver)] = <<>>
  /\ EveryListenerRegistered

\* A listener whose subscribe call has returned has a sink that MAPI notifies and
\* whose callback filters for an equal request.
ListenersConnected ==
  \A l \in Listeners : phase[l] = "subscribed" =>
    \E s \in SinksAt(KeyOf(l)) : SinkWasMadeFor(KeyOf(l), s)

\* s was made for the same field and object, and for a window with more directives
\* than l's: directivesMatch asks only that what the listener wrote be there.
NarrowerWindow(s, l) ==
  LET asked == KeyOf(l)
      made  == KeyOf(creator[s]) IN
  /\ creator[s] \in Listeners
  /\ made.field = asked.field /\ made.argument = asked.argument
  /\ asked.directives \subseteq made.directives /\ asked.directives # made.directives

\* Types.h:301 "deliver those to the listeners": the indexes of a delta are places in
\* the rows of its sink, so a listener must hear of its own sink and of no other.  The
\* service picks listeners by field, argument and directives, never by sink, and MAPI
\* still calls for sinks that are gone; yet what a listener has heard since its
\* subscribe returned is from the sink it shares, and from no earlier one made for an
\* equal request.  The exception is the filter's: sinks of narrower windows.
HeardFromOwnSink ==
  \A l \in Listeners : phase[l] = "subscribed" =>
    \A s \in heard[l] : s \in SinksAt(KeyOf(l)) \/ NarrowerWindow(s, l)

\* Types.h:301 "translates it into appropriate subscription types and deliver
\* those to the listeners": every change of the window since the listener
\* subscribed has reached it, or waits in MAPI, or was lost in a batch whose callback
\* threw; no callback that ran to its end has passed a listener over.
NothingMissed ==
  \A l \in Listeners : \A s \in Sinks :
    l \in Sharing(s) => owed[l] <= pending[s]

\* What keeps it so: nobody outlives the service, a listener is owed nothing before
\* its subscribe has returned, and MAPI holds notifications for connections only.
DeliveryInv ==
  /\ \A l \in Listeners : alive \/ phase[l] = "idle"
  /\ \A l \in Listeners : phase[l] # "subscribed" => owed[l] = 0
  /\ \A s \in Sinks : pending[s] > 0 => s \in connected
  /\ \A s \in connected : creator[s] \in Listeners
  /\ \A l \in Listeners : heard[l] \subseteq connected

\* A subscribed listener hears of a change sooner or later, unless it leaves or the
\* callback that was to tell it throws.
EveryChangeHeard == \A l \in Listeners : (owed[l] > 0) ~> (owed[l] = 0)

\* A subscribe request is answered: the resolver mutex is never kept.
EveryRequestAnswered ==
  \A l \in Listeners : (phase[l] = "subscribing") ~> (phase[l] # "subscribing")

(* The registry implements Feed: joined is the set of subscribed listeners. *)
Subscribed == {l \in Listeners : phase[l] = "subscribed"}

RequestKey == [l \in Listeners |-> KeyOf(l)]

feed == INSTANCE Feed WITH joined <- Subscribed, GroupOf <- RequestKey

\* Types.h:346 "In that case, they should all take a reference on the same
\* Registration::sink member": listeners with equal requests are told of the same
\* changes at the same time, however they come and go and whoever's request made
\* the sink.  (When equal requests are written alike.)
ImplementsFeed == feed!FeedSpec
=============================================================================
