------------------------------ MODULE TableSink ------------------------------
(***************************************************************************)
(* The rows of one TableSink and the deltas made of them: the callback of  *)
(* RegisterAdviseSinkProxy and LoadRows (Subscription.cpp).                *)
(*                                                                         *)
(* The sink reads the window of its table once and asks MAPI to be told of *)
(* changes.  MAPI queues a notification for each change of the table and   *)
(* calls back with a few of them at a time, while the table goes on        *)
(* changing.  The callback edits the cached rows, notification by          *)
(* notification, and hands the collected deltas to the listeners, who edit *)
(* their copy of the window: `replica` is the copy of one that has read    *)
(* the window when the sink did.                                           *)
(*                                                                         *)
(* Which listeners get a delivery is the subject of Subscription; here     *)
(* there is one, and every delivery reaches it.                            *)
(***************************************************************************)
EXTENDS Integers, SequencesExt

CONSTANTS
  Keys,          \* values of PR_INSTANCE_KEY
  NoKey,         \* propPrior of the first row: PR_NULL
  InitialTable,  \* keys of the rows of the table at the start
  Windows,       \* directives of sinks: seek (Absent or Null), offset and take
  Absent, Null, PageSize,
  Kinds,         \* what happens to the table: a subset of AllKinds
  MayThrow,      \* ScDupPropset and LoadRows may fail in the callback
  MaxChanges     \* bound: how many changes of the table are considered

\* "early": between LoadRows and Advise.  "reload": MAPI may report any change as
\* TABLE_CHANGED, TABLE_ERROR or TABLE_RELOAD, which the callback treats alike.
AllKinds == {"add", "modify", "move", "delete", "early", "reload"}

ASSUME NoKeyAssumption == NoKey \notin Keys
ASSUME InitialTableAssumption == InitialTable \in Seq(Keys) /\ IsInjective(InitialTable)
ASSUME KindsAssumption == Kinds \subseteq AllKinds /\ MayThrow \in BOOLEAN
\* There is one order to read in: another one is another table.
ASSUME WindowsAssumption ==
  \A d \in Windows :
    /\ d.seek \in {Absent, Null} /\ d.orderBy = Absent
    /\ d.offset \in Int \cup {Absent} /\ d.take \in Int \cup {Absent}
ASSUME BoundAssumption == MaxChanges \in Nat /\ PageSize \in Nat \ {0}

TD == INSTANCE TableDirectives

\* A row is a key and a version of the other columns.
Row(key, version) == [key |-> key, version |-> version]
KeysOf(r) == {r[i].key : i \in DOMAIN r}
PositionOf(key, r) == SelectInSeq(r, LAMBDA row : row.key = key)

VARIABLES
  window,     \* the directives of the sink
  table,      \* the rows MAPI has, in order (external)
  queue,      \* notifications MAPI has not passed on yet
  changes,    \* how many changes there were
  advised,    \* "no", "loaded" (between LoadRows and Advise) or "yes"
  rows,       \* spSink->rows
  todo,       \* notifications the running callback has still to look at
  inCallback, \* the callback is running
  items,      \* deltas it has collected
  replica,    \* the listener's copy of the window
  lost,       \* ghost: a callback threw, and no reload was made since
  displaced   \* ghost: a row moved, changed before Advise, or was reloaded or lost

vars == <<window, table, queue, changes, advised, rows, todo, inCallback, items, replica,
          lost, displaced>>

\* TableDirectives::read of LoadRows.
Window(t) == TD!read(window, [o \in {"default"} |-> t], TRUE, {}, <<>>, "default").rows

Init ==
  /\ window \in Windows
  /\ table = [i \in DOMAIN InitialTable |-> Row(InitialTable[i], 0)]
  /\ queue = <<>>
  /\ changes = 0
  /\ advised = "no"
  /\ rows = <<>>
  /\ todo = 0
  /\ inCallback = FALSE
  /\ items = <<>>
  /\ replica = <<>>
  /\ lost = FALSE
  /\ displaced = FALSE
-----------------------------------------------------------------------------
(* RegisterAdviseSinkProxy *)

Load ==
  /\ advised = "no"
  /\ rows' = Window(table)
  /\ replica' = Window(table)
  /\ advised' = "loaded"
  /\ UNCHANGED <<window, table, queue, changes, todo, inCallback, items, lost, displaced>>

Advise ==
  /\ advised = "loaded"
  /\ advised' = "yes"
  /\ UNCHANGED <<window, table, queue, changes, rows, todo, inCallback, items, replica, lost, displaced>>
-----------------------------------------------------------------------------
(* MAPI (external): the table changes and a notification says how.         *)

\* `before` is a ghost: the table the notification is a change of.
Notification(event, key, prior, row) ==
  [event |-> event, key |-> key, prior |-> prior, row |-> row, before |-> table]

Reload == Notification("RELOAD", NoKey, NoKey, Row(NoKey, 0))

Changed(newTable, notification, moved) ==
  /\ advised = "yes" \/ (advised = "loaded" /\ "early" \in Kinds)
  /\ changes < MaxChanges
  /\ changes' = changes + 1
  /\ table' = newTable
  /\ \/ /\ advised = "loaded"
        /\ displaced' = TRUE
        /\ UNCHANGED queue
     \/ /\ advised = "yes"
        /\ queue' = Append(queue, notification)
        /\ displaced' = (displaced \/ moved)
     \/ /\ advised = "yes"
        /\ "reload" \in Kinds
        /\ queue' = Append(queue, Reload)
        /\ displaced' = TRUE
  /\ UNCHANGED <<window, advised, rows, todo, inCallback, items, replica, lost>>

PriorIn(t, i) == IF i = 1 THEN NoKey ELSE t[i - 1].key

AddRow ==
  /\ "add" \in Kinds
  /\ \E key \in Keys \ KeysOf(table), i \in 1..(Len(table) + 1) :
       LET row == Row(key, 0) IN
       Changed(InsertAt(table, i, row),
               Notification("ROW_ADDED", key, PriorIn(table, i), row), FALSE)

\* A modified row may have to move to keep the sort order.
ModifyRow ==
  \E i \in DOMAIN table, j \in DOMAIN table :
    LET row   == Row(table[i].key, changes + 1)
        moved == InsertAt(RemoveAt(table, i), j, row)
    IN  /\ IF i = j THEN "modify" \in Kinds ELSE "move" \in Kinds
        /\ Changed(moved, Notification("ROW_MODIFIED", row.key, PriorIn(moved, j), row), i # j)

DeleteRow ==
  /\ "delete" \in Kinds
  /\ \E i \in DOMAIN table :
       Changed(RemoveAt(table, i),
               Notification("ROW_DELETED", table[i].key, NoKey, Row(NoKey, 0)), FALSE)
-----------------------------------------------------------------------------
(* The callback *)

Delta(change, index, r, removed) ==
  [change |-> change, index |-> index, rows |-> r, removed |-> removed]

Added(index, row)   == Delta("Added", index, <<row>>, NoKey)
Updated(index, row) == Delta("Updated", index, <<row>>, NoKey)
Removed(index, key) == Delta("Removed", index, <<>>, key)
Reloaded(r)         == Delta("Reloaded", 0, r, NoKey)

\* MAPI calls OnNotify with the next n notifications.
BeginNotify ==
  /\ advised = "yes"
  /\ ~inCallback
  /\ \E n \in 1..Len(queue) : todo' = n
  /\ inCallback' = TRUE
  /\ items' = <<>>
  /\ UNCHANGED <<window, table, queue, changes, advised, rows, replica, lost, displaced>>

\* The next notification of the batch is one for `event`.
Handles(event) == todo > 0 /\ Head(queue).event = event

\* On to the following one.
Step ==
  /\ queue' = Tail(queue)
  /\ todo' = todo - 1
  /\ UNCHANGED <<window, table, changes, advised, inCallback, replica, lost, displaced>>

Ignore == Step /\ UNCHANGED <<rows, items>>

\* Mutant of RowAdded: before its prior row.
RowAddedBefore ==
  LET n == Head(queue)
      p == PositionOf(n.prior, rows)
  IN  /\ Handles("ROW_ADDED")
      /\ IF p = 0
         THEN Ignore
         ELSE /\ rows' = InsertAt(rows, p, n.row)
              /\ items' = Append(items, Added(p - 1, n.row))
              /\ Step

\* TABLE_ROW_ADDED: after its prior row, if that one is cached.
RowAdded ==
  LET n == Head(queue)
      p == PositionOf(n.prior, rows)
  IN  /\ Handles("ROW_ADDED")
      /\ IF p = 0
         THEN Ignore
         ELSE /\ rows' = InsertAt(rows, p + 1, n.row)
              /\ items' = Append(items, Added(p, n.row))
              /\ Step

\* TABLE_ROW_MODIFIED: in its old place, if it is cached.
RowModified ==
  LET n == Head(queue)
      p == PositionOf(n.key, rows)
  IN  /\ Handles("ROW_MODIFIED")
      /\ IF p = 0
         THEN Ignore
         ELSE /\ rows' = ReplaceAt(rows, p, n.row)
              /\ items' = Append(items, Updated(p - 1, n.row))
              /\ Step

\* Mutant of RowDeleted: told to the listener, kept in the cache.
RowDeletedKept ==
  LET n == Head(queue)
      p == PositionOf(n.key, rows)
  IN  /\ Handles("ROW_DELETED")
      /\ IF p = 0
         THEN Ignore
         ELSE /\ items' = Append(items, Removed(p - 1, n.key))
              /\ UNCHANGED rows
              /\ Step

\* Mutant of RowDeleted: the index of the row that follows.
RowDeletedNext ==
  LET n == Head(queue)
      p == PositionOf(n.key, rows)
  IN  /\ Handles("ROW_DELETED")
      /\ IF p = 0
         THEN Ignore
         ELSE /\ rows' = RemoveAt(rows, p)
              /\ items' = Append(items, Removed(p, n.key))
              /\ Step

\* TABLE_ROW_DELETED
RowDeleted ==
  LET n == Head(queue)
      p == PositionOf(n.key, rows)
  IN  /\ Handles("ROW_DELETED")
      /\ IF p = 0
         THEN Ignore
         ELSE /\ rows' = RemoveAt(rows, p)
              /\ items' = Append(items, Removed(p - 1, n.key))
              /\ Step

\* The rest of the batch is never looked at.
DropBatch == queue' = SubSeq(queue, todo + 1, Len(queue)) /\ todo' = 0

\* reload: the window as it is now stands for all that was collected; break.
ReloadRows ==
  /\ Handles("RELOAD")
  /\ rows' = Window(table)
  /\ items' = <<Reloaded(Window(table))>>
  /\ lost' = FALSE
  /\ DropBatch
  /\ UNCHANGED <<window, table, changes, advised, inCallback, replica, displaced>>

\* CORt(ScDupPropset) or LoadRows throws: the callback is left without delivering.
CallbackThrows ==
  /\ MayThrow
  /\ \/ Handles("ROW_ADDED") /\ PositionOf(Head(queue).prior, rows) # 0
     \/ Handles("ROW_MODIFIED") /\ PositionOf(Head(queue).key, rows) # 0
     \/ Handles("RELOAD")
  /\ DropBatch
  /\ inCallback' = FALSE
  /\ items' = <<>>
  /\ lost' = TRUE
  /\ displaced' = TRUE
  /\ UNCHANGED <<window, table, changes, advised, rows, replica>>

\* What a listener does with a delta (external); one out of range is no use to it.
Apply(r, c) ==
  CASE c.change = "Added" /\ c.index \in 0..Len(r)  -> InsertAt(r, c.index + 1, c.rows[1])
    [] c.change = "Updated" /\ c.index + 1 \in DOMAIN r -> ReplaceAt(r, c.index + 1, c.rows[1])
    [] c.change = "Removed" /\ c.index + 1 \in DOMAIN r -> RemoveAt(r, c.index + 1)
    [] c.change = "Reloaded" -> c.rows
    [] OTHER -> r

Replay(r, changeList) ==
  LET after[n \in 0..Len(changeList)] ==
        IF n = 0 THEN r ELSE Apply(after[n - 1], changeList[n])
  IN  after[Len(changeList)]

\* The loop is over: deliver what was collected, if anything.
EndNotify ==
  /\ inCallback
  /\ todo = 0
  /\ replica' = Replay(replica, items)
  /\ items' = <<>>
  /\ inCallback' = FALSE
  /\ UNCHANGED <<window, table, queue, changes, advised, rows, todo, lost, displaced>>

OnNotify ==
  BeginNotify \/ RowAdded \/ RowModified \/ RowDeleted \/ ReloadRows \/ EndNotify
-----------------------------------------------------------------------------
TableChanges == AddRow \/ ModifyRow \/ DeleteRow

Next == Load \/ Advise \/ TableChanges \/ OnNotify \/ CallbackThrows

\* A subscribe call goes on, MAPI passes its notifications on, a callback ends.
Fairness == WF_vars(Load) /\ WF_vars(Advise) /\ WF_vars(OnNotify)

Spec == Init /\ [][Next]_vars
FairSpec == Spec /\ Fairness
-----------------------------------------------------------------------------
(* Properties *)

Rows == [key : Keys, version : Nat]

\* The table after the notifications that were handled.
Acked == IF queue = <<>> THEN table ELSE Head(queue).before

\* Types; a batch is a part of the queue, and deltas are collected in a callback only.
TypeOK ==
  /\ window \in Windows
  /\ table \in Seq(Rows)
  /\ queue \in Seq([event : {"ROW_ADDED", "ROW_MODIFIED", "ROW_DELETED", "RELOAD"},
                    key : Keys \cup {NoKey}, prior : Keys \cup {NoKey},
                    row : [key : Keys \cup {NoKey}, version : Nat], before : Seq(Rows)])
  /\ changes \in 0..MaxChanges
  /\ advised \in {"no", "loaded", "yes"}
  /\ rows \in Seq(Rows)
  /\ todo \in 0..Len(queue)
  /\ inCallback \in BOOLEAN
  /\ inCallback \/ (todo = 0 /\ items = <<>>)
  /\ items \in Seq([change : {"Added", "Updated", "Removed", "Reloaded"}, index : Nat,
                    rows : Seq(Rows), removed : Keys \cup {NoKey}])
  /\ replica \in Seq(Rows)
  /\ lost \in BOOLEAN
  /\ displaced \in BOOLEAN
  /\ lost => displaced

\* schema/mapi.graphql:463 "Index in the subscribed window": the indices of the
\* deltas, each relative to the deltas before it in the same batch and in earlier
\* ones, turn the listener's copy into the rows of the sink.  A callback that throws
\* loses deltas it has already made in the cache; whatever was lost, a reload makes
\* the copy right again.
ReplicaFollowsRows == lost \/ Replay(replica, items) = rows

\* While rows keep their order, the cache is a gapless stretch of the table: a row
\* added inside it is never missed and one added elsewhere is never taken for one
\* of it.
Stretch(r, t) ==
  \E first \in 0..(Len(t) - Len(r)) : r = SubSeq(t, first + 1, first + Len(r))

RowsAreAStretch == TypeOK /\ (displaced \/ Stretch(rows, Acked))

\* Once the table is quiet, the listener's copy comes to be such a stretch of it.
ReplicaConverges ==
  <>[](displaced \/ (queue = <<>> /\ ~inCallback /\ Stretch(replica, table)))
=============================================================================
