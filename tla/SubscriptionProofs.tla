------------------------- MODULE SubscriptionProofs -------------------------
(***************************************************************************)
(* Theorems about Subscription, for every set of listeners, requests and   *)
(* sinks, every choice of faults and any number of table changes.          *)
(***************************************************************************)
EXTENDS Subscription, FiniteSetTheorems, SequenceTheorems, TLAPS

(***************************************************************************)
(* The registered sinks after an insert and after an erase.                *)
(***************************************************************************)

\* Inserting a registration adds its sink.
LEMMA InsertedSinks ==
  ASSUME NEW S, NEW q \in Seq(S), NEW e \in S
  PROVE  /\ Append(q, e) \in Seq(S)
         /\ Len(Append(q, e)) = Len(q) + 1
         /\ ToSet(Append(q, e)) = ToSet(q) \cup {e}
  <1>1. Append(q, e) \in Seq(S) /\ Len(Append(q, e)) = Len(q) + 1
    BY AppendProperties
  <1>2. DOMAIN q = 1..Len(q) /\ DOMAIN Append(q, e) = 1..(Len(q) + 1) /\ Len(q) \in Nat
    BY <1>1, LenProperties
  <1>3. /\ \A i \in 1..Len(q) : Append(q, e)[i] = q[i]
        /\ Append(q, e)[Len(q) + 1] = e
    BY AppendProperties
  <1>4. \A x \in ToSet(Append(q, e)) : x \in ToSet(q) \cup {e}
    BY <1>2, <1>3 DEF ToSet
  <1>5. \A x \in ToSet(q) \cup {e} : x \in ToSet(Append(q, e))
    BY <1>2, <1>3 DEF ToSet
  <1>6. QED
    BY <1>1, <1>4, <1>5

\* Erasing the oldest one adds none, and leaves one fewer.
LEMMA ErasedSinks ==
  ASSUME NEW S, NEW q \in Seq(S), q # <<>>
  PROVE  /\ Tail(q) \in Seq(S)
         /\ Len(Tail(q)) = Len(q) - 1
         /\ Head(q) \in S
         /\ Head(q) \in ToSet(q)
         /\ ToSet(Tail(q)) \subseteq ToSet(q)
  BY DEF ToSet

\* An empty range has no sink ...
LEMMA NoSinks == ToSet(<<>>) = {}
  BY DEF ToSet

\* ... and a range that is not empty has one.
LEMMA SinksOfRange ==
  ASSUME NEW S, NEW q \in Seq(S)
  PROVE  /\ ToSet(q) \subseteq S
         /\ (q = <<>>) <=> (Len(q) = 0)
         /\ Len(q) \in Nat
         /\ (q # <<>>) => \E s \in S : s \in ToSet(q)
  BY DEF ToSet

\* A listener's key is a key.
LEMMA KeyOfListener == \A l \in Listeners : KeyOf(l) \in Keys
  BY DEF Keys

-----------------------------------------------------------------------------
(* Type correctness. *)

\* TypeOK holds initially.
LEMMA TypeInit == Init => TypeOK
  <1> SUFFICES ASSUME Init PROVE TypeOK
      OBVIOUS
  <1> QED
      BY MaxChangesAssumption DEF Init, TypeOK

\* Every handler, callback and step of the service keeps TypeOK.
LEMMA TypeStep == TypeOK /\ [Next]_vars => TypeOK'
  <1> SUFFICES ASSUME TypeOK, [Next]_vars PROVE TypeOK'
      OBVIOUS
  <1> USE KeyOfListener
  <1>1. ASSUME NEW l \in Listeners, Subscribe(l) PROVE TypeOK'
    BY <1>1 DEF TypeOK, Subscribe
  <1>2. ASSUME NEW l \in Listeners, Forget(l) PROVE TypeOK'
    BY <1>2 DEF TypeOK, Forget
  <1>3. ASSUME NEW l \in Listeners, ShareSink(l) PROVE TypeOK'
    <2>1. registered' \in [Keys -> Seq(Sinks)]
      <3>1. registered[KeyOf(l)] \in Seq(Sinks) /\ registered[KeyOf(l)] # <<>>
        BY <1>3 DEF TypeOK, ShareSink
      <3>2. Append(registered[KeyOf(l)], Head(registered[KeyOf(l)])) \in Seq(Sinks)
        BY <3>1, ErasedSinks, InsertedSinks
      <3>3. QED
        BY <1>3, <3>2 DEF TypeOK, ShareSink
    <2>2. QED
      BY <1>3, <2>1 DEF TypeOK, ShareSink
  <1>4. ASSUME NEW l \in Listeners, LoadSink(l) PROVE TypeOK'
    BY <1>4 DEF TypeOK, LoadSink
  <1>5. ASSUME NEW l \in Listeners, LoadFails(l) PROVE TypeOK'
    BY <1>5 DEF TypeOK, LoadFails
  <1>6. ASSUME NEW l \in Listeners, AdviseSink(l) PROVE TypeOK'
    BY <1>6, NoneAssumption DEF TypeOK, AdviseSink
  <1>7. ASSUME NEW l \in Listeners, AdviseFails(l) PROVE TypeOK'
    BY <1>7 DEF TypeOK, AdviseFails
  <1>8. ASSUME NEW l \in Listeners, InsertSink(l) PROVE TypeOK'
    <2>1. local \in Sinks
      BY <1>8, NoneAssumption DEF TypeOK, InsertSink
    <2>2. registered' \in [Keys -> Seq(Sinks)]
      <3>1. Append(registered[KeyOf(l)], local) \in Seq(Sinks)
        BY <2>1, InsertedSinks DEF TypeOK
      <3>2. QED
        BY <1>8, <3>1 DEF TypeOK, InsertSink
    <2>3. QED
      BY <1>8, <2>2 DEF TypeOK, InsertSink
  <1>9. ASSUME NEW l \in Listeners, NotifyUnsubscribe(l) PROVE TypeOK'
    <2>1. registered' \in [Keys -> Seq(Sinks)]
      <3>1. ASSUME registered[KeyOf(l)] # <<>>
            PROVE  Tail(registered[KeyOf(l)]) \in Seq(Sinks)
        BY <3>1, ErasedSinks DEF TypeOK
      <3>2. QED
        BY <1>9, <3>1 DEF TypeOK, NotifyUnsubscribe
    <2>2. QED
      BY <1>9, <2>1 DEF TypeOK, NotifyUnsubscribe
  <1>10. ASSUME NEW s \in Sinks, TableChange(s) PROVE TypeOK'
    <2>1. owed' \in [Listeners -> Nat] /\ pending' \in [Sinks -> Nat]
      BY <1>10 DEF TypeOK, TableChange
    <2>2. changes' \in 0..MaxChanges
      BY <1>10, MaxChangesAssumption DEF TypeOK, TableChange
    <2>3. QED
      BY <1>10, <2>1, <2>2 DEF TypeOK, TableChange
  <1>11. ASSUME NEW s \in Sinks, OnNotify(s) PROVE TypeOK'
    <2>1. PICK n \in 1..pending[s] :
            /\ pending' = [pending EXCEPT ![s] = @ - n]
            /\ \/ /\ heard' = [l \in Listeners |->
                        IF l \in Matching(s) THEN heard[l] \cup {s} ELSE heard[l]]
                  /\ owed' = OwedAtMost(Matching(s) \cap Sharing(s), pending[s] - n)
               \/ UNCHANGED <<heard, owed>>
      BY <1>11 DEF OnNotify
    <2>2. pending[s] \in Nat /\ pending[s] - n \in Nat
      BY DEF TypeOK
    <2>3. pending' \in [Sinks -> Nat]
      BY <2>1, <2>2 DEF TypeOK
    <2>4. heard' \in [Listeners -> SUBSET Sinks]
      <3>1. heard \in [Listeners -> SUBSET Sinks]
        BY DEF TypeOK
      <3>2. \A l \in Listeners : heard[l] \cup {s} \in SUBSET Sinks
        BY <3>1
      <3>3. [l \in Listeners |-> IF l \in Matching(s) THEN heard[l] \cup {s} ELSE heard[l]]
              \in [Listeners -> SUBSET Sinks]
        BY <3>1, <3>2
      <3>4. QED
        BY <2>1, <3>1, <3>3
    <2>5. owed' \in [Listeners -> Nat]
      BY <2>1, <2>2 DEF TypeOK, OwedAtMost
    <2>6. QED
      BY <1>11, <2>3, <2>4, <2>5 DEF TypeOK, OnNotify
  <1>12. ASSUME NEW s \in Sinks, OnNotifyThrows(s) PROVE TypeOK'
    <2>1. PICK n \in 1..pending[s] :
            /\ pending' = [pending EXCEPT ![s] = @ - n]
            /\ owed' = OwedAtMost(Sharing(s), pending[s] - n)
      BY <1>12 DEF OnNotifyThrows
    <2>2. pending[s] \in Nat /\ pending[s] - n \in Nat
      BY DEF TypeOK
    <2>3. pending' \in [Sinks -> Nat]
      BY <2>1, <2>2 DEF TypeOK
    <2>4. owed' \in [Listeners -> Nat]
      BY <2>1, <2>2 DEF TypeOK, OwedAtMost
    <2>5. QED
      BY <1>12, <2>3, <2>4 DEF TypeOK, OnNotifyThrows
  <1>13. CASE Shutdown
    <2>1. /\ registered' = [k \in Keys |-> <<>>]
          /\ phase' = [l \in Listeners |-> "idle"]
          /\ owed' = [l \in Listeners |-> 0]
      BY <1>13 DEF Shutdown
    <2>2. registered' \in [Keys -> Seq(Sinks)]
      BY <2>1, EmptySeq
    <2>3. /\ phase' \in [Listeners -> {"idle", "subscribing", "subscribed", "leaving"}]
          /\ owed' \in [Listeners -> Nat]
      BY <2>1
    <2>4. alive' \in BOOLEAN
      BY <1>13 DEF Shutdown
    <2>5. QED
      BY <1>13, <2>2, <2>3, <2>4 DEF TypeOK, Shutdown
  <1>14. CASE UNCHANGED vars
    BY <1>14 DEF TypeOK, vars
  <1>15. QED
    BY <1>1, <1>2, <1>3, <1>4, <1>5, <1>6, <1>7, <1>8, <1>9, <1>10, <1>11, <1>12,
       <1>13, <1>14
    DEF Next, Resolve, RegisterAdviseSinkProxy

\* The variables keep their types, and the mutex holder alone has a sink in making.
THEOREM TypeCorrect == Spec => []TypeOK
  BY TypeInit, TypeStep, PTL DEF Spec
-----------------------------------------------------------------------------
(* The registry. *)

\* The listeners the count is about.
Holders(k) == {l \in Listeners : phase[l] = "subscribed" /\ KeyOf(l) = k}

\* The parts of RegistryInv that each have their own proof.
MadeForKey == \A k \in Keys : \A s \in SinksAt(k) : SinkWasMadeFor(k, s)
OneSink == \A k \in Keys : \A s, t \in SinksAt(k) : s = t
InTheMaking ==
  resolver # NoListener => /\ phase[resolver] = "subscribing"
                           /\ creator[local] = resolver
                           /\ registered[KeyOf(resolver)] = <<>>

\* A listener that comes to a key, or goes from it, changes its count by one, and
\* no other count; a set of listeners is finite.
LEMMA HoldersCount ==
  ASSUME NEW S, NEW l \in Listeners, S \subseteq Listeners
  PROVE  /\ Cardinality(S) \in Nat
         /\ l \notin S => Cardinality(S \cup {l}) = Cardinality(S) + 1
         /\ l \in S => Cardinality(S \ {l}) = Cardinality(S) - 1
         /\ S = {} => Cardinality(S) = 0
  <1>1. IsFiniteSet(S)
    BY ListenersFinite, FS_Subset
  <1>2. QED
    BY <1>1, FS_CardinalityType, FS_AddElement, FS_RemoveElement, FS_EmptySet

\* The registry is right when it is empty.
LEMMA RegistryInit == Init => RegistryInv
  <1> SUFFICES ASSUME Init PROVE RegistryInv
      OBVIOUS
  <1>1. \A k \in Keys : registered[k] = <<>> /\ SinksAt(k) = {}
    BY NoSinks DEF Init, SinksAt
  <1>2. EveryListenerRegistered
    <2> SUFFICES ASSUME NEW k \in Keys
                 PROVE  Len(registered[k]) = Cardinality(Holders(k))
        BY DEF EveryListenerRegistered, Holders
    <2>1. Holders(k) = {}
      BY DEF Init, Holders
    <2>2. QED
      BY <1>1, <2>1, FS_EmptySet
  <1>3. QED
    BY <1>1, <1>2 DEF Init, RegistryInv

\* A step that leaves the registry, the connections and the mutex alone, and moves
\* no listener into or out of "subscribed", keeps the invariant.
LEMMA RegistryFrame ==
  ASSUME TypeOK, RegistryInv,
         UNCHANGED <<registered, connected, creator, resolver, local>>,
         \A l \in Listeners : (phase'[l] = "subscribed") <=> (phase[l] = "subscribed"),
         resolver # NoListener => phase'[resolver] = phase[resolver]
  PROVE  RegistryInv'
  <1>1. \A k \in Keys : Holders(k)' = Holders(k) /\ SinksAt(k)' = SinksAt(k)
    BY DEF Holders, SinksAt
  <1>2. EveryListenerRegistered'
    BY <1>1 DEF RegistryInv, EveryListenerRegistered, Holders
  <1>3. QED
    BY <1>1, <1>2 DEF RegistryInv, SinkWasMadeFor

\* A registration of a sink s under key k for listener l: the key was empty and s is
\* the sink made for it, or the key had s already.
LEMMA RegistryInsert ==
  ASSUME TypeOK, RegistryInv, NEW l \in Listeners, NEW s \in Sinks,
         phase[l] = "subscribing",
         phase' = [phase EXCEPT ![l] = "subscribed"],
         registered' = [registered EXCEPT ![KeyOf(l)] = Append(@, s)],
         UNCHANGED <<connected, creator>>,
         SinkWasMadeFor(KeyOf(l), s),
         \A t \in SinksAt(KeyOf(l)) : t = s,
         resolver' = NoListener
  PROVE  RegistryInv'
  <1> DEFINE K == KeyOf(l)
  <1>1. K \in Keys
    BY KeyOfListener
  <1>2. registered[K] \in Seq(Sinks)
    BY <1>1 DEF TypeOK
  <1>3. registered' = [registered EXCEPT ![K] = Append(registered[K], s)]
    BY <1>1 DEF TypeOK
  <1>4. \A k \in Keys : k # K => registered'[k] = registered[k] /\ SinksAt(k)' = SinksAt(k)
    BY <1>3 DEF TypeOK, SinksAt
  <1>5. registered'[K] = Append(registered[K], s)
    BY <1>1, <1>3 DEF TypeOK
  <1>6. SinksAt(K)' = SinksAt(K) \cup {s} /\ Len(registered'[K]) = Len(registered[K]) + 1
    BY <1>2, <1>5, InsertedSinks DEF SinksAt
  <1>7. MadeForKey'
    BY <1>4, <1>6 DEF RegistryInv, SinkWasMadeFor, MadeForKey
  <1>8. OneSink'
    BY <1>4, <1>6 DEF RegistryInv, OneSink
  <1>9. EveryListenerRegistered'
    <2> SUFFICES ASSUME NEW k \in Keys
                 PROVE  Len(registered'[k]) = Cardinality(Holders(k)')
        BY DEF EveryListenerRegistered, Holders
    <2>1. Len(registered[k]) = Cardinality(Holders(k)) /\ Holders(k) \subseteq Listeners
      BY DEF RegistryInv, EveryListenerRegistered, Holders
    <2>2. CASE k = K
      <3>1. Holders(k)' = Holders(k) \cup {l} /\ l \notin Holders(k)
        BY <2>2 DEF Holders, TypeOK
      <3>2. Cardinality(Holders(k) \cup {l}) = Cardinality(Holders(k)) + 1
        BY <2>1, <3>1, HoldersCount
      <3>3. QED
        BY <1>6, <2>1, <2>2, <3>1, <3>2
    <2>3. CASE k # K
      <3>1. Holders(k)' = Holders(k)
        BY <2>3 DEF Holders, TypeOK
      <3>2. QED
        BY <1>4, <2>1, <2>3, <3>1
    <2>4. QED
      BY <2>2, <2>3
  <1>10. QED
    BY <1>7, <1>8, <1>9 DEF RegistryInv, MadeForKey, OneSink

\* An erase drops one registration and one listener of the key, and nothing is in
\* the making meanwhile.
LEMMA RegistryErase ==
  ASSUME TypeOK, RegistryInv, NEW l \in Listeners, NotifyUnsubscribe(l)
  PROVE  RegistryInv'
  <1> DEFINE K == KeyOf(l)
  <1>1. K \in Keys
    BY KeyOfListener
  <1>2. registered[K] \in Seq(Sinks)
    BY <1>1 DEF TypeOK
  <1>3. Holders(K) \subseteq Listeners /\ l \in Holders(K)
    BY DEF Holders, NotifyUnsubscribe
  <1>4. Len(registered[K]) = Cardinality(Holders(K))
    BY <1>1 DEF RegistryInv, EveryListenerRegistered, Holders
  <1>5. registered[K] # <<>>
    <2>1. Cardinality(Holders(K)) - 1 = Cardinality(Holders(K) \ {l})
      BY <1>3, HoldersCount
    <2>2. Cardinality(Holders(K) \ {l}) \in Nat
      BY <1>3, HoldersCount
    <2>3. QED
      BY <1>2, <1>4, <2>1, <2>2, SinksOfRange
  <1>6. registered' = [registered EXCEPT ![K] = Tail(registered[K])]
    BY <1>1, <1>5 DEF NotifyUnsubscribe, TypeOK
  <1>7. \A k \in Keys : k # K => registered'[k] = registered[k] /\ SinksAt(k)' = SinksAt(k)
    BY <1>6 DEF TypeOK, SinksAt
  <1>8. registered'[K] = Tail(registered[K])
    BY <1>1, <1>6 DEF TypeOK
  <1>9. SinksAt(K)' \subseteq SinksAt(K) /\ Len(registered'[K]) = Len(registered[K]) - 1
    BY <1>2, <1>5, <1>8, ErasedSinks DEF SinksAt
  <1>10. MadeForKey'
    BY <1>7, <1>9 DEF RegistryInv, SinkWasMadeFor, MadeForKey, NotifyUnsubscribe
  <1>11. OneSink'
    BY <1>7, <1>9 DEF RegistryInv, OneSink
  <1>12. EveryListenerRegistered'
    <2> SUFFICES ASSUME NEW k \in Keys
                 PROVE  Len(registered'[k]) = Cardinality(Holders(k)')
        BY DEF EveryListenerRegistered, Holders
    <2>1. Len(registered[k]) = Cardinality(Holders(k))
      BY DEF RegistryInv, EveryListenerRegistered, Holders
    <2>2. CASE k = K
      <3>1. Holders(k)' = Holders(k) \ {l}
        BY <2>2 DEF Holders, TypeOK, NotifyUnsubscribe
      <3>2. Cardinality(Holders(k) \ {l}) = Cardinality(Holders(k)) - 1
        BY <1>3, <2>2, HoldersCount
      <3>3. QED
        BY <1>9, <2>1, <2>2, <3>1, <3>2
    <2>3. CASE k # K
      <3>1. Holders(k)' = Holders(k)
        BY <2>3 DEF Holders, TypeOK, NotifyUnsubscribe
      <3>2. QED
        BY <1>7, <2>1, <2>3, <3>1
    <2>4. QED
      BY <2>2, <2>3
  <1>13. QED
    BY <1>10, <1>11, <1>12 DEF RegistryInv, MadeForKey, OneSink, NotifyUnsubscribe

\* Every step keeps the registry invariant.
LEMMA RegistryStep == TypeOK /\ RegistryInv /\ [Next]_vars => RegistryInv'
  <1> SUFFICES ASSUME TypeOK, RegistryInv, [Next]_vars PROVE RegistryInv'
      OBVIOUS
  <1>1. ASSUME NEW l \in Listeners, Subscribe(l) PROVE RegistryInv'
    <2>1. resolver # NoListener => resolver # l
      BY <1>1 DEF Subscribe, RegistryInv
    <2>2. QED
      BY <1>1, <2>1, RegistryFrame DEF Subscribe, TypeOK
  <1>2. ASSUME NEW l \in Listeners, Forget(l) PROVE RegistryInv'
    <2>1. resolver # NoListener => resolver # l
      BY <1>2 DEF Forget, RegistryInv
    <2>2. QED
      BY <1>2, <2>1, RegistryFrame DEF Forget, TypeOK
  <1>3. ASSUME NEW l \in Listeners, ShareSink(l) PROVE RegistryInv'
    <2>1. KeyOf(l) \in Keys /\ registered[KeyOf(l)] \in Seq(Sinks)
      BY KeyOfListener DEF TypeOK
    <2> DEFINE s == Head(registered[KeyOf(l)])
    <2>2. s \in Sinks /\ s \in SinksAt(KeyOf(l))
      BY <1>3, <2>1, ErasedSinks DEF ShareSink, SinksAt
    <2>3. SinkWasMadeFor(KeyOf(l), s) /\ \A t \in SinksAt(KeyOf(l)) : t = s
      BY <2>1, <2>2 DEF RegistryInv
    <2>4. registered' = [registered EXCEPT ![KeyOf(l)] = Append(@, s)]
      BY <1>3, <2>1 DEF ShareSink, TypeOK
    <2> HIDE DEF s
    <2>5. QED
      BY <1>3, <2>2, <2>3, <2>4, RegistryInsert DEF ShareSink
  <1>4. ASSUME NEW l \in Listeners, LoadSink(l) PROVE RegistryInv'
    <2>1. PICK s \in Sinks : /\ creator[s] = NoListener
                             /\ creator' = [creator EXCEPT ![s] = l]
                             /\ local' = s
      BY <1>4 DEF LoadSink
    <2>2. \A k \in Keys : SinksAt(k)' = SinksAt(k) /\ s \notin SinksAt(k)
      BY <1>4, <2>1, NoneAssumption DEF LoadSink, RegistryInv, SinkWasMadeFor, SinksAt
    <2>3. MadeForKey'
      <3> SUFFICES ASSUME NEW k \in Keys, NEW t \in SinksAt(k)'
                   PROVE  SinkWasMadeFor(k, t)'
          BY DEF MadeForKey
      <3>1. SinkWasMadeFor(k, t) /\ t # s /\ t \in Sinks
        BY <2>2 DEF RegistryInv, SinkWasMadeFor, TypeOK
      <3>2. QED
        BY <1>4, <2>1, <3>1 DEF LoadSink, SinkWasMadeFor, TypeOK
    <2>4. OneSink'
      BY <2>2 DEF RegistryInv, OneSink
    <2>5. InTheMaking'
      BY <1>4, <2>1 DEF LoadSink, TypeOK, InTheMaking
    <2>6. EveryListenerRegistered'
      BY <1>4 DEF LoadSink, RegistryInv, EveryListenerRegistered
    <2>7. QED
      BY <2>3, <2>4, <2>5, <2>6 DEF RegistryInv, MadeForKey, OneSink, InTheMaking
  <1>5. ASSUME NEW l \in Listeners, LoadFails(l) PROVE RegistryInv'
    BY <1>5, RegistryFrame DEF LoadFails, TypeOK
  <1>6. ASSUME NEW l \in Listeners, AdviseSink(l) PROVE RegistryInv'
    BY <1>6 DEF AdviseSink, RegistryInv, SinkWasMadeFor, SinksAt, EveryListenerRegistered
  <1>7. ASSUME NEW l \in Listeners, AdviseFails(l) PROVE RegistryInv'
    <2>1. \A k \in Keys : SinksAt(k)' = SinksAt(k) /\ local \notin SinksAt(k)
      BY <1>7 DEF AdviseFails, RegistryInv, SinkWasMadeFor, SinksAt
    <2>2. MadeForKey'
      <3> SUFFICES ASSUME NEW k \in Keys, NEW t \in SinksAt(k)'
                   PROVE  SinkWasMadeFor(k, t)'
          BY DEF MadeForKey
      <3>1. SinkWasMadeFor(k, t) /\ t # local /\ t \in Sinks
        BY <2>1 DEF RegistryInv, SinkWasMadeFor, TypeOK
      <3>2. QED
        BY <1>7, <3>1 DEF AdviseFails, SinkWasMadeFor, TypeOK
    <2>3. OneSink'
      BY <2>1 DEF RegistryInv, OneSink
    <2>4. EveryListenerRegistered'
      <3>1. phase[l] = "subscribing"
        BY <1>7, NoneAssumption DEF AdviseFails, RegistryInv
      <3>2. \A k \in Keys : Holders(k)' = Holders(k)
        BY <1>7, <3>1 DEF AdviseFails, Holders, TypeOK
      <3>3. QED
        BY <1>7, <3>2 DEF AdviseFails, RegistryInv, EveryListenerRegistered, Holders
    <2>5. QED
      BY <1>7, <2>2, <2>3, <2>4 DEF AdviseFails, RegistryInv, MadeForKey, OneSink
  <1>8. ASSUME NEW l \in Listeners, InsertSink(l) PROVE RegistryInv'
    <2>1. /\ local \in Sinks /\ phase[l] = "subscribing" /\ creator[local] = l
          /\ registered[KeyOf(l)] = <<>>
      BY <1>8, NoneAssumption DEF InsertSink, RegistryInv, TypeOK
    <2>2. SinkWasMadeFor(KeyOf(l), local)
      BY <1>8, <2>1 DEF InsertSink, SinkWasMadeFor
    <2>3. SinksAt(KeyOf(l)) = {}
      BY <2>1, NoSinks DEF SinksAt
    <2>4. QED
      BY <1>8, <2>1, <2>2, <2>3, RegistryInsert DEF InsertSink
  <1>9. ASSUME NEW l \in Listeners, NotifyUnsubscribe(l) PROVE RegistryInv'
    BY <1>9, RegistryErase
  <1>10. ASSUME NEW s \in Sinks, TableChange(s) PROVE RegistryInv'
    BY <1>10, RegistryFrame DEF TableChange
  <1>11. ASSUME NEW s \in Sinks, OnNotify(s) PROVE RegistryInv'
    BY <1>11, RegistryFrame DEF OnNotify
  <1>12. ASSUME NEW s \in Sinks, OnNotifyThrows(s) PROVE RegistryInv'
    BY <1>12, RegistryFrame DEF OnNotifyThrows
  <1>13. CASE Shutdown
    <2>1. \A k \in Keys : registered'[k] = <<>> /\ SinksAt(k)' = {}
      BY <1>13, NoSinks DEF Shutdown, SinksAt
    <2>2. \A k \in Keys : Holders(k)' = {} /\ Len(registered'[k]) = 0
      BY <1>13, <2>1 DEF Shutdown, Holders
    <2>3. EveryListenerRegistered'
      BY <2>2, FS_EmptySet DEF EveryListenerRegistered, Holders
    <2>4. resolver = NoListener
      BY <1>13 DEF Shutdown, RegistryInv, TypeOK
    <2>5. QED
      BY <1>13, <2>1, <2>3, <2>4 DEF Shutdown, RegistryInv
  <1>14. CASE UNCHANGED vars
    BY <1>14, RegistryFrame DEF vars
  <1>15. QED
    BY <1>1, <1>2, <1>3, <1>4, <1>5, <1>6, <1>7, <1>8, <1>9, <1>10, <1>11, <1>12,
       <1>13, <1>14
    DEF Next, Resolve, RegisterAdviseSinkProxy

\* Each registered sink was made for its key, and the registrations of a key are as
\* many as its subscribed listeners.
THEOREM RegistryCorrect == Spec => []RegistryInv
  <1>1. Init => TypeOK /\ RegistryInv
    BY TypeInit, RegistryInit
  <1>2. TypeOK /\ RegistryInv /\ [Next]_vars => (TypeOK /\ RegistryInv)'
    BY TypeStep, RegistryStep
  <1>3. QED
    BY <1>1, <1>2, PTL DEF Spec

\* Equal registrations share one sink, different ones none, and the sink in the
\* making is nobody's yet (Types.h:295, 346).
THEOREM SinksAreShared == Spec => []OneSinkPerKey
  <1>1. TypeOK /\ RegistryInv => OneSinkPerKey
    <2> SUFFICES ASSUME TypeOK, RegistryInv PROVE OneSinkPerKey
        OBVIOUS
    <2>1. \A j, k \in Keys : j # k => SinksAt(j) \cap SinksAt(k) = {}
      BY DEF RegistryInv, SinkWasMadeFor
    <2>2. \A k \in Keys : local \notin SinksAt(k)
      <3> SUFFICES ASSUME NEW k \in Keys, local \in SinksAt(k) PROVE FALSE
          OBVIOUS
      <3>1. SinkWasMadeFor(k, local) /\ SinksAt(k) \subseteq Sinks
        BY SinksOfRange DEF RegistryInv, TypeOK, SinksAt
      <3>2. resolver \in Listeners /\ creator[local] = resolver
        BY <3>1, NoneAssumption DEF RegistryInv, TypeOK
      <3>3. registered[k] = <<>>
        BY <3>1, <3>2, NoneAssumption DEF RegistryInv, SinkWasMadeFor
      <3>4. QED
        BY <3>3, NoSinks DEF SinksAt
    <2>3. QED
      BY <2>1, <2>2 DEF RegistryInv, OneSinkPerKey
  <1>2. QED
    BY <1>1, TypeCorrect, RegistryCorrect, PTL

\* The anonymous erase(itr) of NotifyUnsubscribe never finds an empty range and never
\* drops a registration that another listener still needs.
THEOREM EraseKeepsCount == Spec => []EveryListenerRegistered
  <1>1. RegistryInv => EveryListenerRegistered
    BY DEF RegistryInv
  <1>2. QED
    BY <1>1, RegistryCorrect, PTL

\* A subscribed listener has registrations under its key.
LEMMA SubscribedHasSink ==
  ASSUME TypeOK, RegistryInv, NEW l \in Listeners, phase[l] = "subscribed"
  PROVE  \E s \in Sinks : s \in SinksAt(KeyOf(l))
  <1>1. KeyOf(l) \in Keys /\ registered[KeyOf(l)] \in Seq(Sinks)
    BY KeyOfListener DEF TypeOK
  <1>2. Len(registered[KeyOf(l)]) = Cardinality(Holders(KeyOf(l)))
    BY <1>1 DEF RegistryInv, EveryListenerRegistered, Holders
  <1>3. l \in Holders(KeyOf(l)) /\ Holders(KeyOf(l)) \subseteq Listeners
    BY DEF Holders
  <1>4. /\ Cardinality(Holders(KeyOf(l)) \ {l}) \in Nat
        /\ Cardinality(Holders(KeyOf(l)) \ {l}) = Cardinality(Holders(KeyOf(l))) - 1
    BY <1>3, HoldersCount
  <1>5. Cardinality(Holders(KeyOf(l))) \in Nat
    BY <1>3, HoldersCount
  <1>6. registered[KeyOf(l)] # <<>>
    BY <1>1, <1>2, <1>4, <1>5, SinksOfRange
  <1>7. QED
    BY <1>1, <1>6, SinksOfRange DEF SinksAt

\* Once subscribe has returned, and until unsubscribe, a listener has a sink that
\* MAPI notifies and that filters for its key.
THEOREM SubscribedIsConnected == Spec => []ListenersConnected
  <1>1. TypeOK /\ RegistryInv => ListenersConnected
    BY SubscribedHasSink, KeyOfListener DEF ListenersConnected, RegistryInv
  <1>2. QED
    BY <1>1, TypeCorrect, RegistryCorrect, PTL

-----------------------------------------------------------------------------
(* Deliveries. *)

\* Initially nothing is heard, owed or pending.
LEMMA DeliveryInit == Init => DeliveryInv /\ HeardFromOwnSink /\ NothingMissed
  <1> SUFFICES ASSUME Init PROVE DeliveryInv /\ HeardFromOwnSink /\ NothingMissed
      OBVIOUS
  <1>1. DeliveryInv /\ HeardFromOwnSink
    BY DEF Init, DeliveryInv, HeardFromOwnSink
  <1>2. NothingMissed
    BY DEF Init, NothingMissed, Sharing
  <1>3. QED
    BY <1>1, <1>2

\* Every step keeps DeliveryInv.
LEMMA DeliveryStep ==
  TypeOK /\ RegistryInv /\ DeliveryInv /\ [Next]_vars => DeliveryInv'
  <1> SUFFICES ASSUME TypeOK, RegistryInv, DeliveryInv, [Next]_vars PROVE DeliveryInv'
      OBVIOUS
  <1>1. ASSUME NEW l \in Listeners, Subscribe(l) PROVE DeliveryInv'
    BY <1>1 DEF Subscribe, TypeOK, DeliveryInv
  <1>2. ASSUME NEW l \in Listeners, Forget(l) PROVE DeliveryInv'
    BY <1>2 DEF Forget, TypeOK, DeliveryInv
  <1>3. ASSUME NEW l \in Listeners, ShareSink(l) PROVE DeliveryInv'
    BY <1>3 DEF ShareSink, TypeOK, DeliveryInv
  <1>4. ASSUME NEW l \in Listeners, LoadSink(l) PROVE DeliveryInv'
    BY <1>4 DEF LoadSink, TypeOK, DeliveryInv
  <1>5. ASSUME NEW l \in Listeners, LoadFails(l) PROVE DeliveryInv'
    BY <1>5 DEF LoadFails, TypeOK, DeliveryInv
  <1>6. ASSUME NEW l \in Listeners, AdviseSink(l) PROVE DeliveryInv'
    <2>1. creator[local] \in Listeners
      BY <1>6, NoneAssumption DEF AdviseSink, RegistryInv
    <2>2. QED
      BY <1>6, <2>1 DEF AdviseSink, TypeOK, DeliveryInv
  <1>7. ASSUME NEW l \in Listeners, AdviseFails(l) PROVE DeliveryInv'
    <2>1. \A s \in connected : creator'[s] = creator[s]
      BY <1>7 DEF AdviseFails, TypeOK
    <2>2. phase[l] = "subscribing"
      BY <1>7, NoneAssumption DEF AdviseFails, RegistryInv
    <2>3. QED
      BY <1>7, <2>1, <2>2 DEF AdviseFails, TypeOK, DeliveryInv
  <1>8. ASSUME NEW l \in Listeners, InsertSink(l) PROVE DeliveryInv'
    <2>1. phase[l] = "subscribing"
      BY <1>8, NoneAssumption DEF InsertSink, RegistryInv
    <2>2. QED
      BY <1>8, <2>1 DEF InsertSink, TypeOK, DeliveryInv
  <1>9. ASSUME NEW l \in Listeners, NotifyUnsubscribe(l) PROVE DeliveryInv'
    BY <1>9 DEF NotifyUnsubscribe, TypeOK, DeliveryInv
  <1>10. ASSUME NEW s \in Sinks, TableChange(s) PROVE DeliveryInv'
    <2>1. \A t \in Sinks : pending'[t] > 0 => pending[t] > 0 \/ t = s
      BY <1>10 DEF TableChange, TypeOK
    <2>2. \A l \in Listeners : phase[l] # "subscribed" => owed'[l] = owed[l]
      BY <1>10 DEF TableChange, TypeOK, Sharing
    <2>3. QED
      BY <1>10, <2>1, <2>2 DEF TableChange, DeliveryInv
  <1>11. ASSUME NEW s \in Sinks, OnNotify(s) PROVE DeliveryInv'
    <2>1. PICK n \in 1..pending[s] :
            /\ pending' = [pending EXCEPT ![s] = @ - n]
            /\ \/ /\ heard' = [l \in Listeners |->
                        IF l \in Matching(s) THEN heard[l] \cup {s} ELSE heard[l]]
                  /\ owed' = OwedAtMost(Matching(s) \cap Sharing(s), pending[s] - n)
               \/ UNCHANGED <<heard, owed>>
      BY <1>11 DEF OnNotify
    <2>2. pending[s] \in Nat /\ s \in connected
      BY <1>11, <2>1 DEF OnNotify, TypeOK, DeliveryInv
    <2>3. \A t \in Sinks : pending'[t] > 0 => pending[t] > 0
      BY <2>1, <2>2 DEF TypeOK
    <2>4. \A l \in Listeners : heard'[l] \subseteq heard[l] \cup {s}
      BY <2>1 DEF TypeOK
    <2>5. \A l \in Listeners : phase[l] # "subscribed" => owed'[l] = owed[l]
      BY <2>1 DEF TypeOK, Sharing, OwedAtMost
    <2>6. QED
      BY <1>11, <2>2, <2>3, <2>4, <2>5 DEF OnNotify, DeliveryInv
  <1>12. ASSUME NEW s \in Sinks, OnNotifyThrows(s) PROVE DeliveryInv'
    <2>1. PICK n \in 1..pending[s] :
            /\ pending' = [pending EXCEPT ![s] = @ - n]
            /\ owed' = OwedAtMost(Sharing(s), pending[s] - n)
      BY <1>12 DEF OnNotifyThrows
    <2>2. \A t \in Sinks : pending'[t] > 0 => pending[t] > 0
      BY <2>1 DEF TypeOK
    <2>3. \A l \in Listeners : phase[l] # "subscribed" => owed'[l] = owed[l]
      BY <2>1 DEF TypeOK, Sharing, OwedAtMost
    <2>4. QED
      BY <1>12, <2>2, <2>3 DEF OnNotifyThrows, DeliveryInv
  <1>13. CASE Shutdown
    BY <1>13 DEF Shutdown, DeliveryInv
  <1>14. CASE UNCHANGED vars
    BY <1>14 DEF vars, DeliveryInv
  <1>15. QED
    BY <1>1, <1>2, <1>3, <1>4, <1>5, <1>6, <1>7, <1>8, <1>9, <1>10, <1>11, <1>12,
       <1>13, <1>14
    DEF Next, Resolve, RegisterAdviseSinkProxy

\* A share leaves the sinks of every key as they are.
LEMMA ShareKeepsSinks ==
  ASSUME TypeOK, NEW l \in Listeners, ShareSink(l)
  PROVE  \A k \in Keys : SinksAt(k)' = SinksAt(k)
  <1>1. KeyOf(l) \in Keys /\ registered[KeyOf(l)] \in Seq(Sinks)
    BY KeyOfListener DEF TypeOK
  <1>2. Head(registered[KeyOf(l)]) \in SinksAt(KeyOf(l)) /\ Head(registered[KeyOf(l)]) \in Sinks
    BY <1>1, ErasedSinks DEF ShareSink, SinksAt
  <1>3. registered'[KeyOf(l)] = Append(registered[KeyOf(l)], Head(registered[KeyOf(l)]))
    BY <1>1 DEF ShareSink, TypeOK
  <1>4. ToSet(registered'[KeyOf(l)])
          = ToSet(registered[KeyOf(l)]) \cup {Head(registered[KeyOf(l)])}
    BY <1>1, <1>2, <1>3, InsertedSinks
  <1>5. SinksAt(KeyOf(l))' = SinksAt(KeyOf(l))
    BY <1>2, <1>4 DEF SinksAt
  <1>6. \A k \in Keys : k # KeyOf(l) => registered'[k] = registered[k]
    BY DEF ShareSink, TypeOK
  <1>7. QED
    BY <1>5, <1>6 DEF SinksAt

\* An erase adds no sink to any key.
LEMMA EraseAddsNoSink ==
  ASSUME TypeOK, NEW l \in Listeners, NotifyUnsubscribe(l)
  PROVE  \A k \in Keys : SinksAt(k)' \subseteq SinksAt(k)
  <1> SUFFICES ASSUME NEW k \in Keys PROVE SinksAt(k)' \subseteq SinksAt(k)
      OBVIOUS
  <1>1. registered[k] \in Seq(Sinks)
    BY DEF TypeOK
  <1>2. \/ registered'[k] = registered[k]
        \/ registered[k] # <<>> /\ registered'[k] = Tail(registered[k])
    BY DEF NotifyUnsubscribe, TypeOK
  <1>3. QED
    BY <1>1, <1>2, ErasedSinks DEF SinksAt

\* A sink is made for a key that no subscribed listener has.
LEMMA MadeForNobodysKey ==
  ASSUME TypeOK, RegistryInv, resolver # NoListener, NEW m \in Listeners,
         phase[m] = "subscribed"
  PROVE  KeyOf(m) # KeyOf(resolver)
  <1>1. \E s \in Sinks : s \in SinksAt(KeyOf(m))
    BY SubscribedHasSink
  <1>2. registered[KeyOf(resolver)] = <<>>
    BY DEF RegistryInv
  <1>3. QED
    BY <1>1, <1>2, NoSinks DEF SinksAt

\* While a listener stays subscribed, the sink of its key stays the same.
LEMMA OwnSinkStays ==
  ASSUME TypeOK, RegistryInv, [Next]_vars, NEW l \in Listeners,
         phase[l] = "subscribed", phase'[l] = "subscribed"
  PROVE  SinksAt(KeyOf(l))' = SinksAt(KeyOf(l))
  <1>1. KeyOf(l) \in Keys
    BY KeyOfListener
  <1>2. CASE UNCHANGED registered
    BY <1>2 DEF SinksAt
  <1>3. ASSUME NEW m \in Listeners, ShareSink(m) PROVE SinksAt(KeyOf(l))' = SinksAt(KeyOf(l))
    BY <1>1, <1>3, ShareKeepsSinks
  <1>4. ASSUME NEW m \in Listeners, InsertSink(m) PROVE SinksAt(KeyOf(l))' = SinksAt(KeyOf(l))
    <2>1. KeyOf(l) # KeyOf(m)
      BY <1>4, MadeForNobodysKey, NoneAssumption DEF InsertSink
    <2>2. registered'[KeyOf(l)] = registered[KeyOf(l)]
      BY <1>1, <1>4, <2>1 DEF InsertSink, TypeOK
    <2>3. QED
      BY <2>2 DEF SinksAt
  <1>5. ASSUME NEW m \in Listeners, NotifyUnsubscribe(m)
        PROVE  SinksAt(KeyOf(l))' = SinksAt(KeyOf(l))
    <2>1. SinksAt(KeyOf(l))' \subseteq SinksAt(KeyOf(l))
      BY <1>1, <1>5, EraseAddsNoSink
    <2>2. TypeOK' /\ RegistryInv'
      BY TypeStep, RegistryStep
    <2>3. \E s \in Sinks : s \in SinksAt(KeyOf(l))'
      <3>1. registered'[KeyOf(l)] \in Seq(Sinks)
        BY <1>1, <2>2 DEF TypeOK
      <3>2. Len(registered'[KeyOf(l)]) = Cardinality(Holders(KeyOf(l))')
        BY <1>1, <2>2 DEF RegistryInv, EveryListenerRegistered, Holders
      <3>3. l \in Holders(KeyOf(l))' /\ Holders(KeyOf(l))' \subseteq Listeners
        BY DEF Holders
      <3>4. /\ Cardinality(Holders(KeyOf(l))' \ {l}) \in Nat
            /\ Cardinality(Holders(KeyOf(l))' \ {l}) = Cardinality(Holders(KeyOf(l))') - 1
            /\ Cardinality(Holders(KeyOf(l))') \in Nat
        BY <3>3, HoldersCount
      <3>5. registered'[KeyOf(l)] # <<>>
        BY <3>1, <3>2, <3>4, SinksOfRange
      <3>6. QED
        BY <3>1, <3>5, SinksOfRange DEF SinksAt
    <2>4. QED
      BY <1>1, <2>1, <2>3 DEF RegistryInv
  <1>6. CASE Shutdown
    BY <1>6 DEF Shutdown
  <1>7. QED
    BY <1>2, <1>3, <1>4, <1>5, <1>6
    DEF Next, vars, Resolve, RegisterAdviseSinkProxy, Subscribe, Forget, LoadSink,
        LoadFails, AdviseSink, AdviseFails, TableChange, OnNotify, OnNotifyThrows

\* What the filter accepts is the listener's own sink or one of a narrower window: a
\* sink in the making has a key that nobody is subscribed to.
LEMMA DeliveredFromOwn ==
  ASSUME TypeOK, RegistryInv, NEW l \in Listeners, phase[l] = "subscribed",
         NEW s \in Sinks, s \in connected, creator[s] \in Listeners, Live(s),
         l \in Matching(s)
  PROVE  s \in SinksAt(KeyOf(l)) \/ NarrowerWindow(s, l)
  <1> DEFINE c == creator[s]
  <1>1. /\ KeyOf(c).field = KeyOf(l).field
        /\ KeyOf(c).argument = KeyOf(l).argument
    BY DEF Matching, argumentsMatch, KeyOf
  <1>2. KeyOf(l).directives \subseteq KeyOf(c).directives
    <2> SUFFICES ASSUME NEW d \in Request[l].directives, d.name \in WindowDirectives
                 PROVE  [name |-> d.name, value |-> d.value] \in KeyOf(c).directives
        BY DEF KeyOf
    <2>1. PICK e \in Request[c].directives : e.name = d.name /\ e.text = d.text
      BY DEF Matching, directivesMatch
    <2>2. e.value = d.value
      BY <2>1, TextAssumption
    <2>3. QED
      BY <2>1, <2>2 DEF KeyOf
  <1>3. CASE KeyOf(l).directives # KeyOf(c).directives
    BY <1>1, <1>2, <1>3 DEF NarrowerWindow
  <1>4. CASE KeyOf(l).directives = KeyOf(c).directives
    <2>1. KeyOf(c) = KeyOf(l)
      BY <1>1, <1>4 DEF KeyOf
    <2>2. s # local
      <3> SUFFICES ASSUME s = local PROVE FALSE
          OBVIOUS
      <3>1. resolver \in Listeners /\ resolver # NoListener
        BY NoneAssumption DEF TypeOK
      <3>2. creator[s] = resolver
        BY <3>1 DEF RegistryInv
      <3>3. QED
        BY <2>1, <3>1, <3>2, MadeForNobodysKey
    <2>3. PICK k \in Keys : s \in SinksAt(k)
      BY <2>2 DEF Live
    <2>4. k = KeyOf(l)
      BY <2>1, <2>3 DEF RegistryInv, SinkWasMadeFor
    <2>5. QED
      BY <2>3, <2>4
  <1>5. QED
    BY <1>3, <1>4

\* Each step keeps what was heard to one's own sink.
LEMMA HeardStep ==
  TypeOK /\ RegistryInv /\ DeliveryInv /\ HeardFromOwnSink /\ [Next]_vars
    => HeardFromOwnSink'
  <1> SUFFICES ASSUME TypeOK, RegistryInv, DeliveryInv, HeardFromOwnSink, [Next]_vars,
                      NEW l \in Listeners, phase'[l] = "subscribed", NEW s \in heard'[l]
               PROVE  (s \in SinksAt(KeyOf(l)) \/ NarrowerWindow(s, l))'
      BY DEF HeardFromOwnSink
  <1>1. CASE phase[l] # "subscribed"
    <2>1. ShareSink(l) \/ InsertSink(l)
      <3>1. phase \in [Listeners -> {"idle", "subscribing", "subscribed", "leaving"}]
        BY DEF TypeOK
      <3>2. ~(Shutdown \/ UNCHANGED vars)
        BY <1>1 DEF Shutdown, vars
      <3>3. ~(\E t \in Sinks : TableChange(t) \/ OnNotify(t) \/ OnNotifyThrows(t))
        BY <1>1 DEF TableChange, OnNotify, OnNotifyThrows
      <3>4. PICK m \in Listeners : Subscribe(m) \/ Resolve(m) \/ Forget(m)
        BY <3>2, <3>3 DEF Next
      <3>5. ~(Subscribe(m) \/ Forget(m) \/ NotifyUnsubscribe(m))
        BY <1>1, <3>1 DEF Subscribe, Forget, NotifyUnsubscribe
      <3>6. ~(LoadSink(m) \/ LoadFails(m) \/ AdviseSink(m) \/ AdviseFails(m))
        BY <1>1, <3>1 DEF LoadSink, LoadFails, AdviseSink, AdviseFails
      <3>7. ShareSink(m) \/ InsertSink(m)
        BY <3>4, <3>5, <3>6 DEF Resolve, RegisterAdviseSinkProxy
      <3>8. m = l
        BY <1>1, <3>1, <3>7 DEF ShareSink, InsertSink
      <3>9. QED
        BY <3>7, <3>8
    <2>2. heard'[l] = {}
      BY <2>1 DEF ShareSink, InsertSink, TypeOK
    <2>3. QED
      BY <2>2
  <1>2. CASE phase[l] = "subscribed" /\ s \in heard[l]
    <2>1. s \in connected /\ creator[s] \in Listeners
      BY <1>2 DEF DeliveryInv, TypeOK
    <2>2. creator'[s] = creator[s]
      <3>1. creator \in [Sinks -> Listeners \cup {NoListener}]
        BY DEF TypeOK
      <3>2. ASSUME NEW m \in Listeners, LoadSink(m) PROVE creator'[s] = creator[s]
        BY <2>1, <3>1, <3>2, NoneAssumption DEF LoadSink
      <3>3. ASSUME NEW m \in Listeners, AdviseFails(m) PROVE creator'[s] = creator[s]
        BY <2>1, <3>1, <3>3 DEF AdviseFails
      <3>4. ASSUME NEW m \in Listeners, ShareSink(m) \/ InsertSink(m) \/ NotifyUnsubscribe(m)
                                           \/ LoadFails(m) \/ AdviseSink(m)
            PROVE  creator' = creator
        BY <3>4 DEF ShareSink, InsertSink, NotifyUnsubscribe, LoadFails, AdviseSink
      <3>5. ASSUME NEW m \in Listeners, Subscribe(m) \/ Forget(m) PROVE creator' = creator
        BY <3>5 DEF Subscribe, Forget
      <3>6. ASSUME NEW t \in Sinks, TableChange(t) \/ OnNotify(t) \/ OnNotifyThrows(t)
            PROVE  creator' = creator
        BY <3>6 DEF TableChange, OnNotify, OnNotifyThrows
      <3>7. Shutdown \/ UNCHANGED vars => creator' = creator
        BY DEF Shutdown, vars
      <3>8. QED
        BY <3>2, <3>3, <3>4, <3>5, <3>6, <3>7 DEF Next, Resolve, RegisterAdviseSinkProxy
    <2>3. SinksAt(KeyOf(l))' = SinksAt(KeyOf(l))
      BY <1>2, OwnSinkStays
    <2>4. QED
      BY <1>2, <2>2, <2>3 DEF HeardFromOwnSink, NarrowerWindow
  <1>3. CASE phase[l] = "subscribed" /\ s \notin heard[l]
    <2>1. PICK t \in Sinks : OnNotify(t) /\ heard' # heard
      <3>1. heard \in [Listeners -> SUBSET Sinks]
        BY DEF TypeOK
      <3>2. ASSUME NEW m \in Listeners, ShareSink(m) \/ InsertSink(m) PROVE FALSE
        BY <1>3, <3>1, <3>2 DEF ShareSink, InsertSink
      <3>3. ASSUME NEW m \in Listeners, NotifyUnsubscribe(m) \/ Subscribe(m) \/ Forget(m)
            PROVE  FALSE
        BY <1>3, <3>3 DEF NotifyUnsubscribe, Subscribe, Forget
      <3>4. ASSUME NEW m \in Listeners,
                   LoadSink(m) \/ LoadFails(m) \/ AdviseSink(m) \/ AdviseFails(m)
            PROVE  FALSE
        BY <1>3, <3>4 DEF LoadSink, LoadFails, AdviseSink, AdviseFails
      <3>5. ASSUME NEW u \in Sinks, TableChange(u) \/ OnNotifyThrows(u) PROVE FALSE
        BY <1>3, <3>5 DEF TableChange, OnNotifyThrows
      <3>6. ~(Shutdown \/ UNCHANGED vars)
        BY <1>3 DEF Shutdown, vars
      <3>7. heard' # heard
        BY <1>3
      <3>8. QED
        BY <3>2, <3>3, <3>4, <3>5, <3>6, <3>7 DEF Next, Resolve, RegisterAdviseSinkProxy
    <2>2. /\ heard' = [m \in Listeners |->
                         IF m \in Matching(t) THEN heard[m] \cup {t} ELSE heard[m]]
          /\ UNCHANGED <<creator, registered>>
          /\ Live(t)
          /\ pending[t] > 0
      BY <2>1 DEF OnNotify, TypeOK
    <2>3. s = t /\ l \in Matching(t) /\ t \in connected /\ creator[t] \in Listeners
      BY <1>3, <2>2 DEF DeliveryInv
    <2>4. s \in SinksAt(KeyOf(l)) \/ NarrowerWindow(s, l)
      BY <1>3, <2>2, <2>3, DeliveredFromOwn
    <2>5. QED
      BY <2>2, <2>4 DEF SinksAt, NarrowerWindow
  <1>4. QED
    BY <1>1, <1>2, <1>3

\* Since its subscribe returned a listener has heard from the sink it shares and, but for
\* sinks of narrower windows, from no other: not from one that was released, though MAPI
\* still calls for it, nor from one in the making.
THEOREM HeardIsOwnSink == Spec => []HeardFromOwnSink
  <1> DEFINE Inv == TypeOK /\ RegistryInv /\ DeliveryInv /\ HeardFromOwnSink
  <1>1. Init => Inv
    BY TypeInit, RegistryInit, DeliveryInit
  <1>2. Inv /\ [Next]_vars => Inv'
    BY TypeStep, RegistryStep, DeliveryStep, HeardStep
  <1>3. Inv => HeardFromOwnSink
    OBVIOUS
  <1>4. QED
    BY <1>1, <1>2, <1>3, PTL DEF Spec

-----------------------------------------------------------------------------
(* Nothing is missed. *)

\* Requests that have the same key are written alike: the premise under which the
\* filter, which compares words, agrees with the registry, which compares values.
WrittenAlike ==
  \A l, m \in Listeners : KeyOf(l) = KeyOf(m) =>
    \A d \in Request[l].directives : \E e \in Request[m].directives :
      e.name = d.name /\ e.text = d.text

\* Then the filter of a sink accepts every listener that shares it.
LEMMA SharingMatches ==
  ASSUME RegistryInv, WrittenAlike, NEW s \in Sinks
  PROVE  Sharing(s) \subseteq Matching(s)
  <1> SUFFICES ASSUME NEW l \in Sharing(s) PROVE l \in Matching(s)
      OBVIOUS
  <1>1. creator[s] \in Listeners /\ KeyOf(creator[s]) = KeyOf(l) /\ l \in Listeners
    BY KeyOfListener DEF Sharing, RegistryInv, SinkWasMadeFor
  <1>2. argumentsMatch(s, l)
    BY <1>1 DEF argumentsMatch, KeyOf
  <1>3. directivesMatch(s, l)
    BY <1>1 DEF WrittenAlike, directivesMatch
  <1>4. QED
    BY <1>1, <1>2, <1>3 DEF Matching, Sharing

\* A listener that starts to share a sink is owed nothing; one that shared it before
\* and after a step that moves no debt and takes no notification is owed no more.
LEMMA MissedFrame ==
  ASSUME TypeOK, DeliveryInv, NothingMissed,
         UNCHANGED <<pending, owed>>,
         \A l \in Listeners, s \in Sinks :
           l \in Sharing(s)' => l \in Sharing(s) \/ phase[l] # "subscribed"
  PROVE  NothingMissed'
  <1> SUFFICES ASSUME NEW l \in Listeners, NEW s \in Sinks, l \in Sharing(s)'
               PROVE  owed[l] <= pending[s]
      BY DEF NothingMissed
  <1>1. pending[s] \in Nat
    BY DEF TypeOK
  <1>2. QED
    BY <1>1 DEF NothingMissed, DeliveryInv

\* A callback that takes all but r notifications of s, and leaves those who share s owed
\* no more than r, keeps NothingMissed.
LEMMA MissedTaken ==
  ASSUME TypeOK, RegistryInv, NothingMissed, NEW s \in Sinks, NEW r \in Nat,
         pending' = [pending EXCEPT ![s] = r],
         owed' = OwedAtMost(Sharing(s), r),
         UNCHANGED <<phase, registered>>
  PROVE  NothingMissed'
  <1> SUFFICES ASSUME NEW l \in Listeners, NEW t \in Sinks, l \in Sharing(t)'
               PROVE  owed'[l] <= pending'[t]
      BY DEF NothingMissed
  <1>1. l \in Sharing(t) /\ owed[l] <= pending[t]
    BY DEF Sharing, SinksAt, NothingMissed
  <1>2. owed[l] \in Nat /\ pending[t] \in Nat
    BY DEF TypeOK
  <1>3. l \in Sharing(s) => s = t
    BY <1>1, KeyOfListener DEF Sharing, RegistryInv
  <1>4. /\ owed'[l] = IF l \in Sharing(s) /\ owed[l] > r THEN r ELSE owed[l]
        /\ pending'[t] = IF t = s THEN r ELSE pending[t]
    BY DEF TypeOK, OwedAtMost
  <1>5. QED
    BY <1>1, <1>2, <1>3, <1>4

\* Each step keeps NothingMissed.
LEMMA MissedStep ==
  ASSUME TypeOK, RegistryInv, DeliveryInv, NothingMissed, [Next]_vars, WrittenAlike
  PROVE  NothingMissed'
  <1>1. ASSUME NEW l \in Listeners, Subscribe(l) PROVE NothingMissed'
    BY <1>1, MissedFrame DEF Subscribe, TypeOK, Sharing, SinksAt
  <1>2. ASSUME NEW l \in Listeners, Forget(l) PROVE NothingMissed'
    BY <1>2, MissedFrame DEF Forget, TypeOK, Sharing, SinksAt
  <1>3. ASSUME NEW l \in Listeners, ShareSink(l) PROVE NothingMissed'
    <2>1. \A k \in Keys : SinksAt(k)' = SinksAt(k)
      BY <1>3, ShareKeepsSinks
    <2>2. QED
      BY <1>3, <2>1, MissedFrame, KeyOfListener DEF ShareSink, TypeOK, Sharing
  <1>4. ASSUME NEW l \in Listeners, LoadSink(l) PROVE NothingMissed'
    BY <1>4, MissedFrame DEF LoadSink, Sharing, SinksAt
  <1>5. ASSUME NEW l \in Listeners, LoadFails(l) PROVE NothingMissed'
    BY <1>5, MissedFrame DEF LoadFails, TypeOK, Sharing, SinksAt
  <1>6. ASSUME NEW l \in Listeners, AdviseSink(l) PROVE NothingMissed'
    BY <1>6, MissedFrame DEF AdviseSink, Sharing, SinksAt
  <1>7. ASSUME NEW l \in Listeners, AdviseFails(l) PROVE NothingMissed'
    BY <1>7, MissedFrame DEF AdviseFails, TypeOK, Sharing, SinksAt
  <1>8. ASSUME NEW l \in Listeners, InsertSink(l) PROVE NothingMissed'
    <2>1. phase[l] = "subscribing" /\ registered[KeyOf(l)] = <<>>
      BY <1>8, NoneAssumption DEF InsertSink, RegistryInv
    <2>2. \A m \in Listeners : m # l /\ phase[m] = "subscribed" => KeyOf(m) # KeyOf(l)
      BY <1>8, MadeForNobodysKey, NoneAssumption DEF InsertSink
    <2>3. \A m \in Listeners, s \in Sinks :
            m \in Sharing(s)' => m \in Sharing(s) \/ phase[m] # "subscribed"
      <3> SUFFICES ASSUME NEW m \in Listeners, NEW s \in Sinks, m \in Sharing(s)',
                          phase[m] = "subscribed"
                   PROVE  m \in Sharing(s)
          OBVIOUS
      <3>1. KeyOf(m) # KeyOf(l) /\ KeyOf(m) \in Keys
        BY <2>1, <2>2, KeyOfListener
      <3>2. registered'[KeyOf(m)] = registered[KeyOf(m)]
        BY <1>8, <3>1 DEF InsertSink, TypeOK
      <3>3. QED
        BY <3>2 DEF Sharing, SinksAt
    <2>4. QED
      BY <1>8, <2>3, MissedFrame DEF InsertSink
  <1>9. ASSUME NEW l \in Listeners, NotifyUnsubscribe(l) PROVE NothingMissed'
    <2>1. \A k \in Keys : SinksAt(k)' \subseteq SinksAt(k)
      BY <1>9, EraseAddsNoSink
    <2>2. \A m \in Listeners, s \in Sinks : m \in Sharing(s)' => m \in Sharing(s) /\ m # l
      BY <1>9, <2>1, KeyOfListener DEF NotifyUnsubscribe, TypeOK, Sharing
    <2>3. \A m \in Listeners : m # l => owed'[m] = owed[m]
      BY <1>9 DEF NotifyUnsubscribe, TypeOK
    <2>4. QED
      BY <1>9, <2>2, <2>3 DEF NotifyUnsubscribe, NothingMissed
  <1>10. ASSUME NEW s \in Sinks, TableChange(s) PROVE NothingMissed'
    <2> SUFFICES ASSUME NEW l \in Listeners, NEW t \in Sinks, l \in Sharing(t)'
                 PROVE  owed'[l] <= pending'[t]
        BY DEF NothingMissed
    <2>1. l \in Sharing(t) /\ owed[l] <= pending[t]
      BY <1>10 DEF TableChange, Sharing, SinksAt, NothingMissed
    <2>2. owed[l] \in Nat /\ pending[t] \in Nat
      BY DEF TypeOK
    <2>3. l \in Sharing(s) => s = t
      BY <2>1, KeyOfListener DEF Sharing, RegistryInv
    <2>4. /\ owed'[l] = IF l \in Sharing(s) THEN owed[l] + 1 ELSE owed[l]
          /\ pending'[t] = IF t = s THEN pending[t] + 1 ELSE pending[t]
      BY <1>10 DEF TableChange, TypeOK
    <2>5. QED
      BY <2>1, <2>2, <2>3, <2>4
  <1>11. ASSUME NEW s \in Sinks, OnNotify(s) PROVE NothingMissed'
    <2>1. PICK n \in 1..pending[s] :
            /\ pending' = [pending EXCEPT ![s] = @ - n]
            /\ \/ owed' = OwedAtMost(Matching(s) \cap Sharing(s), pending[s] - n)
               \/ ~(alive /\ Live(s)) /\ UNCHANGED owed
      BY <1>11 DEF OnNotify
    <2> DEFINE r == pending[s] - n
    <2>2. r \in Nat /\ pending' = [pending EXCEPT ![s] = r]
      BY <2>1 DEF TypeOK
    <2>3. Matching(s) \cap Sharing(s) = Sharing(s)
      BY SharingMatches
    <2>4. ~(alive /\ Live(s)) => Sharing(s) = {}
      BY KeyOfListener DEF Sharing, Live, DeliveryInv
    <2>5. owed' = OwedAtMost(Sharing(s), r)
      <3>1. Sharing(s) = {} => owed = OwedAtMost(Sharing(s), r)
        BY DEF OwedAtMost, TypeOK
      <3>2. QED
        BY <2>1, <2>3, <2>4, <3>1
    <2> HIDE DEF r
    <2>6. QED
      BY <1>11, <2>2, <2>5, MissedTaken DEF OnNotify
  <1>12. ASSUME NEW s \in Sinks, OnNotifyThrows(s) PROVE NothingMissed'
    <2>1. PICK n \in 1..pending[s] :
            /\ pending' = [pending EXCEPT ![s] = @ - n]
            /\ owed' = OwedAtMost(Sharing(s), pending[s] - n)
      BY <1>12 DEF OnNotifyThrows
    <2> DEFINE r == pending[s] - n
    <2>2. r \in Nat /\ pending' = [pending EXCEPT ![s] = r] /\ owed' = OwedAtMost(Sharing(s), r)
      BY <2>1 DEF TypeOK
    <2> HIDE DEF r
    <2>3. QED
      BY <1>12, <2>2, MissedTaken DEF OnNotifyThrows
  <1>13. CASE Shutdown
    BY <1>13 DEF Shutdown, NothingMissed, Sharing
  <1>14. CASE UNCHANGED vars
    BY <1>14, MissedFrame DEF vars, Sharing, SinksAt
  <1>15. QED
    BY <1>1, <1>2, <1>3, <1>4, <1>5, <1>6, <1>7, <1>8, <1>9, <1>10, <1>11, <1>12,
       <1>13, <1>14
    DEF Next, Resolve, RegisterAdviseSinkProxy

\* When equal requests are written alike, no callback that runs to its end passes over a
\* subscribed listener of the window that changed (Types.h:301).
THEOREM NothingIsMissed ==
  ASSUME WrittenAlike
  PROVE  Spec => []NothingMissed
  <1> DEFINE Inv == TypeOK /\ RegistryInv /\ DeliveryInv /\ NothingMissed
  <1>1. Init => Inv
    BY TypeInit, RegistryInit, DeliveryInit
  <1>2. Inv /\ [Next]_vars => Inv'
    BY TypeStep, RegistryStep, DeliveryStep, MissedStep
  <1>3. Inv => NothingMissed
    OBVIOUS
  <1>4. QED
    BY <1>1, <1>2, <1>3, PTL DEF Spec

-----------------------------------------------------------------------------
(* The registry implements Feed. *)

\* The members of a group are the listeners that share its sink.
LEMMA GroupShares ==
  ASSUME TypeOK, RegistryInv, NEW s \in Sinks, NEW l \in Sharing(s)
  PROVE  feed!Group(l) = Sharing(s)
  <1>1. l \in Listeners /\ phase[l] = "subscribed" /\ s \in SinksAt(KeyOf(l))
    BY DEF Sharing
  <1>2. ASSUME NEW m \in feed!Group(l) PROVE m \in Sharing(s)
    BY <1>1, <1>2 DEF feed!Group, Subscribed, RequestKey, Sharing
  <1>3. ASSUME NEW m \in Sharing(s) PROVE m \in feed!Group(l)
    <2>1. KeyOf(m) = KeyOf(l)
      BY <1>1, KeyOfListener DEF Sharing, RegistryInv, SinkWasMadeFor
    <2>2. QED
      BY <1>1, <2>1 DEF feed!Group, Subscribed, RequestKey, Sharing
  <1>4. QED
    BY <1>2, <1>3

\* The registry starts where Feed starts.
LEMMA FeedInitially == Init => feed!FeedInit
  BY DEF Init, feed!FeedInit, Subscribed

\* Every step of the registry is a step of Feed or leaves Feed's state alone.
LEMMA FeedStep ==
  ASSUME TypeOK, RegistryInv, DeliveryInv, [Next]_vars, WrittenAlike
  PROVE  [feed!FeedNext]_(feed!feedVars)
  <1> DEFINE Goal == [feed!FeedNext]_(feed!feedVars)
  <1>1. ASSUME UNCHANGED owed,
               \A l \in Listeners : (phase'[l] = "subscribed") <=> (phase[l] = "subscribed")
        PROVE  Goal
    BY <1>1 DEF Subscribed, feed!feedVars
  <1>2. ASSUME NEW l \in Listeners, Subscribe(l) \/ Forget(l) \/ LoadSink(l) \/ LoadFails(l)
                                    \/ AdviseSink(l) \/ AdviseFails(l)
        PROVE  Goal
    <2>1. AdviseFails(l) => phase[l] = "subscribing"
      BY NoneAssumption DEF AdviseFails, RegistryInv
    <2>2. QED
      BY <1>1, <1>2, <2>1
      DEF TypeOK, Subscribe, Forget, LoadSink, LoadFails, AdviseSink, AdviseFails
  <1>3. ASSUME NEW l \in Listeners, ShareSink(l) \/ InsertSink(l) PROVE Goal
    <2>1. phase[l] = "subscribing"
      BY <1>3, NoneAssumption DEF ShareSink, InsertSink, RegistryInv
    <2>2. Subscribed' = Subscribed \cup {l} /\ l \notin Subscribed /\ UNCHANGED owed
      BY <1>3, <2>1 DEF ShareSink, InsertSink, Subscribed, TypeOK
    <2>3. feed!Join(l)
      BY <2>2 DEF feed!Join
    <2>4. QED
      BY <2>3 DEF feed!FeedNext
  <1>4. ASSUME NEW l \in Listeners, NotifyUnsubscribe(l) PROVE Goal
    <2>1. Subscribed' = Subscribed \ {l} /\ l \in Subscribed
      BY <1>4 DEF NotifyUnsubscribe, Subscribed, TypeOK
    <2>2. feed!Leave(l)
      BY <1>4, <2>1 DEF NotifyUnsubscribe, feed!Leave
    <2>3. QED
      BY <2>2 DEF feed!FeedNext
  <1>5. ASSUME NEW s \in Sinks, TableChange(s) PROVE Goal
    <2>1. UNCHANGED Subscribed
      BY <1>5 DEF TableChange, Subscribed
    <2>2. CASE Sharing(s) = {}
      <3>1. UNCHANGED owed
        BY <1>5, <2>2 DEF TableChange, TypeOK
      <3>2. QED
        BY <2>1, <3>1 DEF feed!feedVars
    <2>3. ASSUME NEW l \in Sharing(s) PROVE Goal
      <3>1. feed!Group(l) = Sharing(s) /\ l \in Subscribed /\ l \in Listeners
        BY GroupShares DEF Sharing, Subscribed
      <3>2. feed!Change(l)
        BY <1>5, <2>1, <3>1 DEF TableChange, feed!Change
      <3>3. QED
        BY <3>1, <3>2 DEF feed!FeedNext
    <2>4. QED
      BY <2>2, <2>3
  <1>6. ASSUME NEW s \in Sinks, NEW r \in Nat, UNCHANGED Subscribed,
               owed' = OwedAtMost(Sharing(s), r)
        PROVE  Goal
    <2>1. CASE \A m \in Sharing(s) : ~(owed[m] > r)
      <3>1. UNCHANGED owed
        BY <1>6, <2>1 DEF TypeOK, OwedAtMost
      <3>2. QED
        BY <1>6, <3>1 DEF feed!feedVars
    <2>2. ASSUME NEW l \in Sharing(s), owed[l] > r PROVE Goal
      <3>1. feed!Group(l) = Sharing(s) /\ l \in Subscribed /\ l \in Listeners
        BY GroupShares DEF Sharing, Subscribed
      <3>2. r < owed[l] /\ r \in 0..owed[l]
        BY <2>2, <3>1 DEF TypeOK
      <3>3. feed!Deliver(l, r)
        BY <1>6, <3>1, <3>2 DEF feed!Deliver, OwedAtMost
      <3>4. QED
        BY <3>1, <3>2, <3>3 DEF feed!FeedNext
    <2>3. QED
      BY <2>1, <2>2
  <1>7. ASSUME NEW s \in Sinks, OnNotify(s) \/ OnNotifyThrows(s) PROVE Goal
    <2>1. UNCHANGED Subscribed
      BY <1>7 DEF OnNotify, OnNotifyThrows, Subscribed
    <2>2. Matching(s) \cap Sharing(s) = Sharing(s)
      BY SharingMatches
    <2>3. \/ UNCHANGED owed
          \/ \E n \in 1..pending[s] : owed' = OwedAtMost(Sharing(s), pending[s] - n)
      BY <1>7, <2>2 DEF OnNotify, OnNotifyThrows
    <2>4. ASSUME NEW n \in 1..pending[s] PROVE pending[s] - n \in Nat
      BY DEF TypeOK
    <2>5. CASE UNCHANGED owed
      BY <2>1, <2>5 DEF feed!feedVars
    <2>6. QED
      BY <1>6, <2>1, <2>3, <2>4, <2>5
  <1>8. CASE Shutdown
    <2>1. Subscribed' = {} /\ owed' = [l \in Listeners |-> 0]
      BY <1>8 DEF Shutdown, Subscribed
    <2>2. QED
      BY <2>1 DEF feed!Close, feed!FeedNext
  <1>9. CASE UNCHANGED vars
    BY <1>1, <1>9 DEF vars
  <1>10. QED
    BY <1>2, <1>3, <1>4, <1>5, <1>6, <1>7, <1>8, <1>9
    DEF Next, Resolve, RegisterAdviseSinkProxy

\* Listeners with equal requests are told of the same changes at the same time,
\* when their requests are written alike (Types.h:346).
THEOREM RegistryImplementsFeed ==
  ASSUME WrittenAlike
  PROVE  Spec => ImplementsFeed
  <1> DEFINE Inv == TypeOK /\ RegistryInv /\ DeliveryInv
  <1>1. Init => Inv /\ feed!FeedInit
    BY TypeInit, RegistryInit, DeliveryInit, FeedInitially
  <1>2. Inv /\ [Next]_vars => Inv'
    BY TypeStep, RegistryStep, DeliveryStep
  <1>3. Inv /\ [Next]_vars => [feed!FeedNext]_(feed!feedVars)
    BY FeedStep
  <1>4. QED
    BY <1>1, <1>2, <1>3, PTL DEF Spec, ImplementsFeed, feed!FeedSpec
=============================================================================
