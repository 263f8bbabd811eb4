----------------------------- MODULE MCMutation -----------------------------
(* Instances of Mutation for TLC: the store at the start and the fields. *)
EXTENDS Mutation, TLC

CONSTANTS i1, i2, i3, root, inbox, trash, new, title, body, v1

Empty == [p \in Props |-> Unset]

OneOpenItem ==
  i1 :> [folder |-> inbox, content |-> [Empty EXCEPT ![body] = v1], read |-> TRUE] @@
  i2 :> [folder |-> inbox, content |-> Empty, read |-> FALSE] @@
  i3 :> Gone

Folders ==
  root  :> [parent |-> root, content |-> Empty] @@
  inbox :> [parent |-> root, content |-> Empty] @@
  trash :> [parent |-> root, content |-> Empty] @@
  new   :> Gone

Request(name) ==
  [field |-> name, id |-> Absent, folder |-> inbox, items |-> {}, destination |-> Absent,
   title |-> Absent, properties |-> <<>>, deleted |-> {}, extras |-> <<>>,
   read |-> Absent, hard |-> Absent]

Property(p, type) == [prop |-> p, value |-> v1, type |-> type]
Body(type) == <<Property(body, type)>>
Many == [i \in 1..9 |-> Property(body, "string")]

Creations ==
  {[Request("createItem") EXCEPT !.title = v1, !.properties = ps, !.read = r] :
     ps \in {<<>>, Body("string"), Body("time")}, r \in {Absent, TRUE}} \cup
  {[Request("createItem") EXCEPT !.title = v1, !.properties = Many,
                                 !.extras = <<"time", "time">>]} \cup
  {[Request("createSubFolder") EXCEPT !.title = v1, !.properties = ps] :
     ps \in {<<>>, Body("stream"), Many}}

Modifications ==
  {[Request("modifyItem") EXCEPT !.id = i1, !.title = t, !.properties = ps, !.deleted = d,
                                 !.read = r] :
     t \in {Absent, v1}, ps \in {<<>>, <<Property(title, "string")>>}, d \in {{}, {body}},
     r \in {Absent, TRUE}} \cup
  {[Request("modifyItem") EXCEPT !.id = i1, !.title = v1, !.properties = Body("string"), !.read = FALSE]} \cup
  {[Request("modifyFolder") EXCEPT !.id = new, !.title = v1, !.properties = ps,
                                   !.deleted = {body}] : ps \in {<<>>, Body("string")}}

Bulks ==
  {[Request("copyItems") EXCEPT !.items = {i1}, !.destination = trash],
   [Request("moveItems") EXCEPT !.items = {i1, i2}, !.destination = new],
   [Request("markAsRead") EXCEPT !.items = {i1, i2}],
   [Request("deleteItems") EXCEPT !.items = {i1, i2}],
   [Request("deleteItems") EXCEPT !.items = {i1, i2}, !.hard = TRUE],
   [Request("removeFolder") EXCEPT !.id = root],
   [Request("removeFolder") EXCEPT !.id = inbox],
   [Request("removeFolder") EXCEPT !.id = inbox, !.hard = TRUE]}

\* Fields that name the root by the empty ID.
OfTheRoot ==
  {[Request("createSubFolder") EXCEPT !.folder = NoId, !.title = v1, !.properties = Many],
   [Request("modifyFolder") EXCEPT !.id = NoId, !.title = v1, !.properties = Body("string")],
   [Request("moveItems") EXCEPT !.items = {i1}, !.destination = NoId]}

EveryField == Creations \cup Modifications \cup Bulks \cup OfTheRoot
=============================================================================
