-------------------------------- MODULE Feed --------------------------------
(***************************************************************************)
(* What the subscription registry promises its clients, with no word of    *)
(* sinks, tables or callbacks (Types.h:295-301): listeners come and go;    *)
(* those who made the same request form a group; a change of a group's     *)
(* window is owed to every member of that moment; and what is delivered is *)
(* delivered to the whole group, so that its members never drift apart.    *)
(***************************************************************************)
EXTENDS Naturals

CONSTANTS
  Listeners,
  GroupOf   \* GroupOf[l]: what l asked for

VARIABLES
  joined,   \* listeners whose subscribe call has returned
  owed      \* owed[l]: changes l was not told of

feedVars == <<joined, owed>>

Group(l) == {m \in joined : GroupOf[m] = GroupOf[l]}

FeedInit == joined = {} /\ owed = [l \in Listeners |-> 0]

Join(l) == l \notin joined /\ joined' = joined \cup {l} /\ UNCHANGED owed

Leave(l) ==
  /\ l \in joined
  /\ joined' = joined \ {l}
  /\ owed' = [owed EXCEPT ![l] = 0]

Change(l) ==
  /\ l \in joined
  /\ owed' = [m \in Listeners |-> IF m \in Group(l) THEN owed[m] + 1 ELSE owed[m]]
  /\ UNCHANGED joined

\* No member of the group is owed more than r changes afterwards.
Deliver(l, r) ==
  /\ l \in joined
  /\ r < owed[l]
  /\ owed' = [m \in Listeners |-> IF m \in Group(l) /\ owed[m] > r THEN r ELSE owed[m]]
  /\ UNCHANGED joined

Close == joined' = {} /\ owed' = [l \in Listeners |-> 0]

FeedNext ==
  \/ \E l \in Listeners : Join(l) \/ Leave(l) \/ Change(l)
  \/ \E l \in Listeners : \E r \in 0..owed[l] : Deliver(l, r)
  \/ Close

FeedSpec == FeedInit /\ [][FeedNext]_feedVars
=============================================================================
