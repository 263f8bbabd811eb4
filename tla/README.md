# A verification development for gqlmapi

gqlmapi is a GraphQL service over MAPI, the mail stores of Windows: queries read
stores, folders and items, mutations change them, and subscriptions report what changes
in a folder. The code that decides what a client sees is in `src/src`; the classes in
`src/schema` are generated from `src/schema/mapi.graphql`, and the GraphQL service
itself (parsing, resolving, delivering) is the library cppgraphqlgen, outside the
repository.

This directory has TLA+ modules of the parts with behaviour worth checking, TLC
configurations that check them on small instances, and modules of theorems proved with
TLAPS. `PROJECT.json` lists the components, the runs, the mutants, the source lines each
definition stands for, what the runs found, and the hazards.

    cd tla
    tlc -workers 2 -config MCSubscription_registry.cfg MCSubscription
    tlapm SubscriptionProofs.tla

Paths below are relative to `src/`: `Store.cpp`, `Types.h` and the like are in `src/src`.

## 1. The system

### Components

| Component | State | Operations | What makes it correct |
|---|---|---|---|
| **Subscription registry** (`Subscription.cpp`, `Types.h:265-355`) | three multisets of registrations ordered by field, argument and window directives; each registration holds a `TableSink` by `shared_ptr` | `getItems`, `getSubFolders`, `getRootFolders` for NotifySubscribe and NotifyUnsubscribe; the callback of a sink; destruction | equal requests share one sink and no others do; no listener loses its sink to another's unsubscribe; a change reaches all listeners of its window, and a listener hears from its own sink |
| **Table sink** (`Subscription.cpp:220-574`) | the cached rows of one MAPI table and the deltas collected by a callback | load, advise, the callback's loop over a batch of notifications | the deltas turn a listener's copy into the rows of the sink; the rows are a stretch of the table |
| **Table directives** (`TableDirectives.cpp`) | none (the cursor of a table during a read) | `read` with @seek, @offset, @take, @columns, @orderBy | a read returns one window, which starts where the schema says and is as long as the code's rule for a page |
| **Lazily loaded lists** (`Query.cpp`, `Store.cpp`, `Folder.cpp`) | per list: rows, the index by ID, the directives it was read with, a sink that drops it | a field with directives or with IDs; a lookup; load; the sink's callback; destruction | list and index agree; a list that is kept is current, if its sink was there; an answer is that of the field's own window |
| **Mutations** (`Mutation.cpp`, `Store.cpp:605-813`) | the caches of opened items and folders, which the fields of one operation share | nine fields, `endSelectionSet` | an answered field has done what it was asked; a failed one leaves nothing that a later one commits for somebody else |
| **Store** (`Store.cpp`, and the constructors and parents of `Folder.cpp`, `Item.cpp`) | seven members set one by one, the special folders, the caches of folders and items | `OpenStore`, `LoadSpecialFolders`, `OpenFolder`, `OpenItem`, and the fields on top of them | the special folders are the documented ones, whichever field came first; an answer is the folder that was asked for |
| **Named properties** (`Store.cpp:125-600`) | `m_nameIdToPropIds` | `lookupPropIdInputs`, `lookupPropIds`, `GetProperties`, `GetColumns` | the map says what MAPI says; values and names are paired rightly |
| **Advise sink proxy** (`Types.h:140-215`) | reference count, callback, connection | `Advise`, `Unadvise`, `OnNotify`, `Release`, and the destructors of its owners | references are counted; a callback has its proxy and its owner; nothing outlives an owner that unadvises |
| **Folder, Item, payloads, properties and values** | columns; otherwise immutable | getters | every answer has its declared type and a Store that is alive; a value comes back as it was written, as far as the code has it |
| **Conversions** (`Guid.cpp`, `DateTime.cpp`, `Unicode.cpp`) | none | text, GUID and time, both ways | the two ways are inverse to each other |
| Schema (`src/schema`) | none | arguments, resolvers | as far as declared types and arguments go: with the objects |
| Session, service (`Session.cpp`, `Service.cpp`) | the MAPI session | one constructor, one wiring function | not modelled |

### How they interact

- A **query** or **mutation** resolves its fields in turn or, with `std::launch::async`,
  on several threads. Fields ask `Query` for a store, `Store` for folders and items,
  `Folder` for its lists; each of those is read from a MAPI table through
  `TableDirectives::read`. The generated wrapper of each object has a mutex of its own, so two
  wrappers of one `Folder` do not exclude each other.
- A **Store** opens itself when first asked for something. Folders and items have a
  weak pointer to it; a wrapper on the way from the root of a selection, or the list of
  stores, keeps it alive.
- A list that has been read **advises** a sink. MAPI calls the sink back on a thread of its
  own, and the callback drops the list without a lock.
- A **subscription** resolves its field twice: when the client subscribes and when it
  unsubscribes. The first resolver of a request makes a `TableSink` (a table, its
  rows, and an Advise connection whose callback holds weak pointers only); equal requests re-use it.
- The callback turns MAPI's notifications into **deltas** and hands them to the service
  with a filter by arguments and directives. The service delivers to the listeners that match.
- The **names** of properties are looked up in both directions in one map, which every
  request by name and every row with named columns fills.

### What is hard

- The multiset erases *an* equal registration, not the caller's own; the sink's filter is that of the
  request that made it, which may be gone.
- A sink is made between a lookup and an insert with long MAPI calls in between, of
  which each may throw.
- MAPI's queue runs behind the table: a notification describes a past table, a reload reads the
  present one.
- Callbacks and resolver calls interleave; a list may be dropped between its load and its
  use; a load that throws leaves an empty list.
- A callback and the owner's destructor meet on two threads, and the callback may be the one that
  runs the destructor.
- `OpenStore` returns early once its first member is set: a step that fails later leaves a store that is
  taken for open.
- An object of a failed mutation field stays in a cache with its unsaved changes.
- MAPI calls may do a part of the work and say so in a success code.

`PROJECT.json` lists each hazard with its line and the properties that would catch it.

## 2. The modules

| Module | Models | Uses |
|---|---|---|
| `Feed` | the abstract specification of the registry: groups of listeners and what they are owed | |
| `Subscription` | the registry; refines `Feed` | `Feed` |
| `KeyOrder` | `RegistrationKey::operator<`, the order the registry rests on | `TableDirectives` |
| `TableDirectives` | `read` as an operator: seek, offset, take, columns, order | |
| `TableReads` | fields of a table read one after another, the window they get and how they fail | `TableDirectives` |
| `TableSink` | one sink: rows, notifications, deltas and a listener's copy | `TableDirectives` |
| `LazyCollection` | the four lazily loaded lists | `TableDirectives` |
| `AdviseSink` | the life of one proxy, with its owner and its callback | |
| `Store` | opening a store, special folders, the caches and the fields that read them | |
| `NamedProps` | the map of property names and what requests make of it | |
| `PropertyValues` | a property from argument to MAPI and back; text, GUIDs and times | |
| `Objects` | the walk of a selection down the objects; types, and who keeps the Store | |
| `Operators` | reads, keys, values, names and times, one input after another, and the walk; what must come out | `TableReads`, `KeyOrder`, `PropertyValues`, `Objects` |
| `Mutation` | the fields of a mutation and the caches they share | |
| `MC...` | instances for TLC | |
| `...Proofs` | eight modules of theorems (section 5) | TLAPS |

Several modules are views of one class. `Subscription` asks who
hears of a change, and counts changes; `TableSink` asks what the change
says, and has one listener. They meet in the callback: `Subscription!OnNotify` is one
batch, from `TableSink!BeginNotify` to `EndNotify`. `LazyCollection` asks what a list answers, and
takes the sink's life for granted; `AdviseSink` is that life. `Store` opens folders;
`Mutation` takes for granted that they open or that the call throws.

Comments mark as *mutant* a definition that differs from the one after it the way a
plausible mistake would; each property is shown to fail with one of them
(`PROJECT.json`, `mutants`).

### Subscription, Feed, KeyOrder

`registered[k]` is the `equal_range` of key `k` in the multiset of its field, a
sequence of sinks in the order of insertion. `KeyOf` is what `RegistrationKey::operator<`
compares: the field, the ID and the parsed arguments of the five window directives. A
directive is a record of a name, the text the client wrote and the value it parses
to, since the order compares values and the callback's filter compares text. `KeyOrder` is the
comparison itself: object IDs, then for each directive first whether it is there, then whether it has an
argument, then the argument; columns and orders as vectors; named properties by
property set, name and ID. `CompareThrows` are its exceptions, which would end the process, the comparison being
`noexcept`.

A subscribe call is `Subscribe` (the service files the listener), then `ShareSink`, or
`LoadSink`, `AdviseSink` and `InsertSink`, with `LoadFails` and `AdviseFails` where a call throws. The resolver
mutex of the service's Subscription object is `resolver`: one call is between its
lookup and its insert at any time. Unsubscribe is `NotifyUnsubscribe` (the erase of the first
equal registration) and `Forget` (the service drops the listener when the resolver has returned). `OnNotify`
is the callback, guarded by the weak pointers (`alive /\ Live(s)`). `owed[l]` counts
changes of the window that `l` was not told of; it is no variable of the program, nor is `heard`,
the sinks whose payloads have reached `l` since its subscribe returned. `Resolve` is the switch in `getItems`, `getSubFolders` and
`getRootFolders`, which are alike but for the multiset. The service picks listeners by field, argument and directives, so a
payload may reach listeners of another sink: `HeardFromOwnSink` says that only those with a wider window get one.

### TableDirectives

`read` is a function of the table in each order, the directives and the defaults, with the
outcome `Failure` where the code throws. A column or an order is a record of a property, a type and how the
property is given: by its ID, by name, or malformed. `Resolvable` is `lookupPropIdInputs` as a read sees it: a named property needs a store, and
`GetIDsFromNames` not to fail; `Lookups` are the calls of it that may. With a store, columns and orders are resolved together in the
constructor, which is `noexcept`: `terminates` is that failure, after which nothing is answered any more. MAPI's cursor is `BookmarkAt`,
`SeekRow`, `QueryRows` and `FindRow`, external. `PageSize` is the 50 of the code.

`TableReads` asks for one window after another, of any table: `Anchor`, `Start` and `Positions` say without a cursor
what the window is. Where it starts and to which side it goes are the schema's words; how many rows it has is the code's rule (a page for
`take` 0 or none), which the schema's "maximum of `count` elements" is not. An ID that a client seeks as text is sought as that text (`IdTexts`), and
no row has it. `Operators` does the same for the other operators: a state holds what was asked (`sample`), and the
properties say what the operators must answer. Its constants are the samples, sets that may be anything the code can meet.

### TableSink

`queue` holds MAPI's notifications, each with the table before the change it reports
(`before`), which only the properties look at. A callback takes a prefix of the
queue (`todo`) and works on it one notification at a time; the table may change between two of
them. `items` are the deltas collected so far, with the index each gets in the code. `EndNotify`
delivers, and `Apply` is what a client does with a delta. `early` changes fall between `LoadRows` and
`Advise`. MAPI may report any change as a reload. `lost` marks deltas that a callback which threw has not
delivered, `displaced` that the rows may be no stretch of the table any more, since a row has moved, changed before Advise, been reloaded or been lost; neither is a variable of the program.

### LazyCollection

A caller is at `check` (are there rows, with these directives?), `read` (the table is
queried; the list is already assigned, empty), `fill`, `advise`, and `use`.
A field with IDs does a lookup for each of them, and each lookup loads again, with no directives (`inner`). `OnNotify` is
the callback that drops the list. `Release` is the destructor. `crashed` is the end of
the process: a null list dereferenced, or an exception in a `noexcept` lambda. Callers go through
`Wrappers`, each with its mutex; `Overlap` lets fields of two wrappers of one object run at a time.
The table may change at any moment. A change with no connection is told to nobody: `untold`, no variable of the program,
remembers one until the table is read again.

### AdviseSink

The references are counted by who holds them: `local` (the resolver's `sinkProxy`), `member` (`m_storeSink` and
the like) and `mapi` (the connection, or a call in progress). The resolver makes (`NewSink`), advises (`Advise`),
remembers (`OnAdvise`) and lets go (`LeaveScope`); `DestroyUnadvise` and `DestroyRelease` are the two halves of
the owner's destructor. The callback is `OnNotify` (MAPI enters), `LockOwner` (`weak_ptr::lock`),
`ResetList`, `UnlockOwner` (which may drop the last strong pointer, and then runs the destructor: phase `last`) and `EndNotify`.
`Unadvises` says which owners unadvise: not the `items` of a folder nor a subscription's `TableSink`.

### Store

`reached` counts the `OpenSteps` that are done: the members that `OpenStore` assigns, in their order. A call that fails leaves any number of
them; only `GetReceiveFolder` may fail without a throw. `special` is
`m_specialFolders`: assigned empty, filled after the store is open. `mailbox` is MAPI's side: whether there are an IPM subtree and an
Inbox, and which special folders the properties of the store, the Inbox and the subtree name.

A field (`getSpecialFolders`, `getRootFolders`, `getFolderProperties`, `getItemProperties`, `getParentFolder` of a folder or an
item, and `createSubFolder` of a mutation) is `call`, at `kinds`, `lookup`, `open`, `construct`, `item`, `rows` or `table`; an exception that leaves the
`noexcept` lambda of `getSpecialFolders` ends the process. `folders` and `items` are the caches; a cached folder has the
ID it is cached under and the folder of the mailbox it stands for (`is`), which differ for a folder that `createSubFolder` has
made. `selectMissing` is the wrapper of a null pointer that a client selects from. Calls come one at a time: fields of one Store share
its wrapper's mutex.

### NamedProps

A name is its place in the order of `CompareMAPINAMEID`, which is all the map looks at. `propIds` is the map and `named` what
MAPI knows, to which other programs add (`NameProperty`). `lookupPropIdInputs` and `lookupPropIds` are sets of outcomes: the new
map, the results, whether a call has failed, and which names were misread. `Misreads` says what the copy of a GUID may come out as:
`Store.cpp:342` copies as many bytes as a pointer has, half of them, and the rest is what the buffer held. `Answer` pairs the values
MAPI gives with the names, by property ID.

### PropertyValues

The path of one property: the arguments (`PropValueInput`, `NamedPropInput`), `ConvertPropertyInput`, an `SPropValue`,
`getValue`. A text is a sequence of characters, of which U+0000 and an unpaired surrogate matter; a GUID is its hexadecimal
digits, since leading zeros matter; a time is a second and ticks. `Undefined` is a read of what is not there. `IntLimit` is the 2^31 of
the 32 bits that int, LONG and ULONG have.
`NotText` is a Guid that is not given as a string. A binary value is an ID, so text that encodes bytes (`Encoded`): the code takes the text for the
bytes and encodes it once more for an answer. `Copies` is what the store has of a name that `lookupPropIds` got from MAPI: of its GUID the bytes of
`data1` and, from a buffer, the rest. (A pointer of 8 bytes would copy `data2` and `data3` too; the property claims what both have.)

### Objects

The schema as a record of each type's fields, with the type each declares; `Classes` with what each getter of the code may answer. A
walk goes from the root of an operation to one leaf. Between any two steps
the callback of the stores may drop them (`ResetStores`) and the last listener may go (`Unsubscribe`). `inStores`, `inSink` and `onPath` say who holds the
Store; an answer may be a wrapper of nothing (`there`).

### Mutation

`request` is the field being resolved, `pc` the MAPI call that is next: `open`, `delete`
(DeleteProps), `convert` (ConvertPropertyInputs), `set` (SetProps), `save` (SaveChanges),
`read` (SetReadFlag), `wrap` (the answer). Each call is a step with the
alternative that it throws. A message keeps changes to itself until SaveChanges: `itemCache[i]` is the
content as the cached IMessage has it, `items[i]` as the store has it. A folder is
changed at once. `folderCache[f]` is the parent the cached Folder remembers.
`unnamed` is the folder that is cached under the empty ID `NoId`, which `Wrap` puts there for a created sub-folder; `Where` is the
folder that `OpenFolder` then gives for a name. `asked` gathers what the fields of the operation asked for, for the properties only.

One store stands for all stores. Named properties are property names. A new message gets an ID that no cached one
has (`FreshItems`); a copy is made only while there are IDs left for it. A created
folder whose first property is binary, which is cached under an ID of the client's making, and what MAPI makes of removing a folder with the empty
ID are not modelled.

## 3. The runs

| Run | Bounds | Shows |
|---|---|---|
| `registry` | 3 listeners (two equal requests for a window of the items of a folder, one for all of them), 2 sinks, 2 changes, load, Advise and the callback may throw; fair | `OneSinkPerKey`, `EveryListenerRegistered`, `ListenersConnected`: the registry through every order of subscribe, unsubscribe, failing load or Advise, callback and destruction. `HeardFromOwnSink`, `NothingMissed`, `EveryChangeHeard`: what reaches listeners, and from which sink. `EveryRequestAnswered`; `ImplementsFeed` |
| `operators` | tables of up to 4 rows, pages of 2, counts -3..3, every seek and an ID as text, columns and orders by ID, by name, malformed and of a stream, lookups that fail, with and without a store; some 60 keys in pairs and triples; every pair of kinds of argument, 12 GUIDs and one that is no text, names as asked for and as copied from MAPI, texts of up to 2 characters; times at both ends of the millisecond; every walk | `ReadIsWindow`: the start against the words of the schema, the length against the code's rule; `DefaultColumnsInPlace`; `FailureIsExplained`; `KeysAreOrdered`; `ValuesComeBack`, `TimesComeBack`, `WholeNamesComeBack`; `AnswersConform`, `CrashIsExplained` |
| `sink` | 3 rows of 4 keys, the window of two after the first, 3 changes: add, modify, move, delete, early, reload; callbacks may throw; fair | `RowsAreAStretch`, `ReplicaFollowsRows`, `ReplicaConverges` |
| `lists` | the four lists, 2 rows of 3 IDs, two windows, two lists of IDs, 2 changes, two callers through one wrapper, callbacks at any moment, read and Advise may throw; fair | `IndexAgrees`, `CacheIsCurrent`, `AnswersAreCurrent`, `CallsEnd` |
| `advise` | one sink of each of the five kinds of owner; fair | `RefcountCounts`, `CallbackHasSink`, `CallbackHasOwner`, `NothingLeaks`, `SinkGoes` |
| `store` | a special folder of each sort (of the store, of the Inbox or the subtree, the Inbox, one nobody names), a plain folder, a message, every mailbox of them, every fault, 3 fields | `SpecialAsDocumented`, `NullOnlyHalfOpen`, `AnswersAreAsked`, `KindsAgree` |
| `names` | 3 names, 2 named IDs, a built-in one, requests of one or two inputs, objects of up to three properties, every fault, 3 calls | `MapIsMapis`, `AnswersAreAsked`, `FailuresExplained` |
| `fields` | operations of up to three fields of all nine kinds on 3 messages and 4 folders, some by the empty ID, read flags of both values and none, any call may fail or do a part, with and without Deleted Items | `TypeOK`; `AnsweredIsDone`, `CommittedWasAsked`, `CreatedWhole` |
| `reworded` | 2 listeners that ask for one thing in two wordings | violation: `NothingMissed` |
| `crash` | two callers, one callback | violation: `LoadedWhenUsed` |
| `guid` | the samples of `operators` | violation: `NamesComeBack` |
| `time` | the same | violation: `TimesCanBeSet` |

The type invariants of `TableSink`, `LazyCollection`, `Store` and `NamedProps` are conjuncts of `RowsAreAStretch`,
`IndexAgrees`, `NullOnlyHalfOpen` and `MapIsMapis`; those of `Subscription` and `AdviseSink` are proved, and not run.

**Why the bounds are enough.** The registry's state for one key depends on other keys
only through the mutex, so two keys, one of them with two listeners that may come and go in
either order, show each interplay; two sinks let a key be given up and taken again, by a
second sink while MAPI still calls for the first, and the wider window of the third listener is what the filter must tell apart from theirs. Two changes
make a callback with a batch and a callback behind the table. In `TableSink` a row before, in
and after the window, and three changes, let a batch hold a change whose `propPrior` is itself a
change of the batch. `operators` has seeks, offsets and counts on both sides of both
ends of each table, tables of zero, one, two and more pages, keys that differ in every place the comparison looks at, and GUIDs with
zeros before, at and after the words that lose them. `IntLimit = 8` stands for 2^31: the samples have numbers at both ends of
the width, and the theorems hold for any. In
`LazyCollection` two changes make a callback pending while a list is read again, and the second
caller finds what the first has left. In `AdviseSink` there is nothing to bound: one owner has one sink of a kind at a time. In
`Store` three fields are one that fails, one that answers from what it has left, and one that selects from that
answer; in `NamedProps` three calls are one that misreads a name, one that learns another, and one that meets both. In `Mutation`
three fields are one that fails, one that meets what it left, and one in the next
operation; and one that creates a folder, one that fills it and one that empties it.

`CHECK_DEADLOCK FALSE` stands where the system stops: the bounded changes, fields or calls are used up, the
service or the owner is gone, the operations are over or the process has crashed.

**Fairness.** `Subscription!Fairness`: a resolver call that has begun goes on (weak fairness of Advise, insert and
`Forget`: they are statements of a function that is running); a request waiting for the
resolver mutex gets it in the end (strong fairness of `ShareSink \/ LoadSink`, since the mutex is
taken and given up again and again by others); MAPI goes on calling back. No fairness is asked of the
clients: nobody has to unsubscribe. `TableSink!Fairness`: the subscribe call, MAPI and the callback go on;
the table need not change. `LazyCollection!Fairness`: the call that has the mutex goes on, being a function that is
running; no call has to begin, and callbacks may come or not. `AdviseSink!Fairness`: a destructor and a callback that
have begun go on; nobody has to let the owner go.

## 4. What the runs found

Each is a run marked as a violation, with the words it contradicts in `PROJECT.json`, `findings`.

1. `reworded`: requests are equal by parsed value and the filter compares what was written; a listener
   that says the same in other words shares a sink that never delivers to it (`Subscription.cpp:440`).
2. `crash`: the callback resets the list between its load and its use (`Query.cpp:131`).
3. `guid`: `std::setw` is for the next number only, so the last two words of a GUID lose their leading zeros; the text is read
   as another GUID (`Guid.cpp:42`).
4. `time`: a time is read from the guid, which the branches before have shown is not there (`Store.cpp:689`).

Other places where code and schema or comment differ, or where the models show a limit. The models
do what the code does, and the properties are stated so as to hold of it.

*Subscriptions*

- A listener of a whole folder gets the deltas of narrower windows of it, whose indices are not its own
  (`Subscription.cpp:431`): `NarrowerWindow`, the exception in `HeardFromOwnSink`.
- The filters capture the argument and the key by reference, and with an asynchronous launch two deliveries of a sink may run side by
  side (`Subscription.cpp:419-445`). The models deliver at once and in order.
- A row added before the first row of a window from the start of the table has no `propPrior` and is ignored
  (`Subscription.cpp:280`); a row added after a cached row makes the window grow past its @take (`Subscription.cpp:317`).
- After a reload, notifications that MAPI still holds add rows a second time, and a row that
  moves is left in its place (`Subscription.cpp:317, 363`): `displaced` in `RowsAreAStretch`
  and `ReplicaConverges`. `ReplicaFollowsRows` compares a listener's copy with the cache, not with the table: what it finds is a wrong delta, not a wrong
  cache. So none of the three would catch rows that are stale since a change before Advise (`Subscription.cpp:227`), doubled by a reload, or moved.
- A callback that throws has edited rows whose deltas are lost (`Subscription.cpp:303`): `lost` in `ReplicaFollowsRows`,
  and an exception in `NothingMissed` and `EveryChangeHeard`.
- `Removed` gives the instance key where the schema says ID (`Subscription.cpp:399`).
- `~Subscription` and, for items, `~Folder` release their sinks without Unadvise (`Subscription.cpp:32`, `Folder.cpp:69`):
  `NothingLeaks` and `SinkGoes` leave these owners out, and callbacks after the end are in the model.
- The comparison of registrations is `noexcept`, and a malformed property in it ends the process (`Subscription.cpp:590-648`): `KeysAreOrdered` compares
  well-formed properties.

*Lists and stores*

- `@take(count: 0)` reads 50 rows, where `mapi.graphql:536` says a maximum of `count` elements, and so does a field without @take (`TableDirectives.cpp:282-289`).
- With a store, a malformed or unresolvable property in a request with both @columns and @orderBy ends the process, the constructor being
  `noexcept` (`TableDirectives.cpp:73`): `FailureIsExplained` says so.
- `@seek` compares the text of an ID with the bytes of the rows (`TableDirectives.cpp:245-260`), and a read that seeks one fails.
- The sink of a list is advised after its first read (`Query.cpp:101-135`). A table that changes between the two tells nobody, and the list is kept and answered until
  another change is told: `untold` in `CacheIsCurrent` and `AnswersAreCurrent`. So is a list whose Advise has thrown (`Folder.cpp:380`).
- After a read that throws, the empty list is taken for loaded (`Folder.cpp:318`): `CacheIsCurrent` and
  `AnswersAreCurrent` allow it.
- Fields of two wrappers of one object that overlap meet each other's half-loaded lists (`Query.cpp:69`): with two `Wrappers`, or with `Overlap`,
  `IndexAgrees` and `AnswersAreCurrent` fail; `lists` has one wrapper, and the theorems assume `OneMutex`.
- IDs are looked up in the default window, not in the field's (`Folder.cpp:139`): `AnswersAreCurrent` says so.
- A failed `OpenStore` leaves a store that is taken for open (`Store.cpp:831`): later fields use null pointers, or answer without the
  folders that were not reached. `Sound` in the properties of `Store` is a store where no call has failed.
- An ID that is not there, a special folder the mailbox lacks and the parent of the root are answered as wrappers of a null pointer, and selecting
  from one ends the process: `selectMissing`, and `MayDangle` in `CrashIsExplained`.
- `Folder::getStore` of a Store that is gone, and what a mutation or a delivery answers once its Store is gone, use a null
  pointer (`Folder.cpp:424`).
- A created sub-folder whose first property is not binary is cached under the empty ID, which stands for the root
  (`Mutation.cpp:250`): `AnswersAreAsked` excuses answers while it is there, and `AnsweredIsDone` the fields that use the empty ID.

*Properties and values*

- Two names that MAPI does not know, or one property asked for twice, fail the whole request; an absent one among others comes out as property 0, and a
  value written for it goes to property 0.
- A misread name (`Store.cpp:342`) stays in the map and may answer later requests by that name. A client that gives it back names another property:
  `WholeNamesComeBack` claims of it only the kind, the ID or text and the first four bytes of the GUID.
- A binary value is written as the text it was given in, and read as the encoding of that text (`Store.cpp:694-704`; `from_input`, which decodes, is not called).
- A fraction of a second is read as a number of milliseconds, so ".5" is 5 ms.
- `Property.value` is null for a MAPI type the code does not know, where `mapi.graphql:419` says `PropValue!`; an 8-byte integer is cut to an
  Int, a property ID to 16 bits, and a text at its first NUL.

*Mutations*

- `createItem` saves the message and then fails to wrap it, always: the constructor of `Item` wants eleven
  columns with two times in fixed places, which the properties of an input cannot be (`Mutation.cpp:184`).
- `modifyItem` tests whether the read argument is there, not its value (`Mutation.cpp:338`): false marks the item read, and no argument marks it unread, where
  `mapi.graphql:266` says "Optionally mark the item as read/unread". `Done` claims that true marks it read, and nothing else of `read`.
- `createSubFolder` leaves a nameless folder when a later call fails, and fails itself for a name without properties
  (`Mutation.cpp:201, 233`); the same goes for a title alone in `modifyItem` and `modifyFolder` (`:314`).
- `removeFolder` dereferences a null Deleted Items folder (`Mutation.cpp:465`); this ends in `crashed`.
- A `modifyFolder` that changes nothing answers with a folder that an earlier field has removed: `Changes` in `Done`.

## 5. What is proved

Every theorem holds for every value of the constants, under the named assumptions the modules make on them and what the table says.

| Theorem | Module | Says |
|---|---|---|
| `TypeCorrect` | `SubscriptionProofs` | `Spec => []TypeOK` |
| `RegistryCorrect` | | `Spec => []RegistryInv` |
| `SinksAreShared` | | `Spec => []OneSinkPerKey` |
| `EraseKeepsCount` | | `Spec => []EveryListenerRegistered` |
| `SubscribedIsConnected` | | `Spec => []ListenersConnected` |
| `HeardIsOwnSink` | | `Spec => []HeardFromOwnSink` |
| `NothingIsMissed` | | `Spec => []NothingMissed`, if equal requests are written alike |
| `RegistryImplementsFeed` | | `Spec => ImplementsFeed`, if equal requests are written alike |
| `SinkCorrect` | `AdviseSinkProofs` | `Spec => [](TypeOK /\ SinkInv)` |
| `RefcountIsRight`, `CallbackKeepsSink`, `CallbackKeepsOwner`, `UnadvisedSinkIsGone` | | `RefcountCounts`, `CallbackHasSink`, `CallbackHasOwner`, `NothingLeaks` |
| `CopyFollows`, `CacheIsAStretch` | `TableSinkProofs` | `ReplicaFollowsRows`, `RowsAreAStretch` |
| `MapCorrect` | `NamedPropsProofs` | `Spec => []MapIsMapis` |
| `AnswersAreOwn`, `FailuresHaveReasons` | | `AnswersAreAsked`, `FailuresExplained` |
| `IndexIsRight`, `KeptListIsCurrent`, `AnswersStayCurrent` | `LazyCollectionProofs` | `IndexAgrees`, `CacheIsCurrent`, `AnswersAreCurrent`, under `OneMutex`; a list that changed untold is excepted |
| `StoreCorrect` | `StoreProofs` | `Spec => []StoreInv` |
| `SpecialFoldersAreDocumented`, `NullIsHalfOpen`, `KindsAlwaysAgree` | | `SpecialAsDocumented`, `NullOnlyHalfOpen`, `KindsAgree` |
| `AnswersAreRight` | | `Spec => []AnswersAreAsked` |
| `MutationCorrect` | `MutationProofs` | `Spec => []MutInv` |
| `TypesAreRight`, `AnswersAreTrue`, `CommitsWereAsked`, `CreationIsWhole` | | `TypeOK`, `AnsweredIsDone`, `CommittedWasAsked`, `CreatedWhole` |
| `EachIsAnswered` | `OperatorProofs` | `OpSpec => []OpInv` |
| `ReadsAreWindows`, `DefaultColumnsStay`, `FailuresAreExplained` | | `ReadIsWindow`, `DefaultColumnsInPlace`, `FailureIsExplained` |
| `PagesTileTheTable` | | pages read one after another have each row of the table once |
| `KeysAreTotallyOrdered` | | `KeysAreOrdered`, of well-formed properties |
| `ValuesAreKept`, `TimesAreRead`, `NamesAreKept` | | `ValuesComeBack`, `TimesComeBack`, `WholeNamesComeBack` |
| `AnswersFitTheSchema`, `CrashesAreExplained` | | `AnswersConform`, `CrashIsExplained` |

**The registry.** `OneSinkPerKey` is not inductive: that an insert keeps it rests on the range being
still empty, and that the shared sink's callback filters for the right requests rests on who made
it. `RegistryInv` has both: a registered sink is connected and was made by a listener with an equal
key; while a sink is in the making its key's range stays empty (the lookup is not repeated
before the insert, and only the mutex keeps others out); and the length of a range is the number of
subscribed listeners with its key. The count makes the anonymous erase safe: whoever's registration goes,
enough are left for the listeners that stay, and as all of a range hold the same sink it does not matter
which. The proof has a step for each action; insert and erase are lemmas of their own
(`RegistryInsert`, `RegistryErase`), and whatever leaves the registry alone is `RegistryFrame`.

`HeardFromOwnSink` is an invariant only together with `RegistryInv`: MAPI calls for a sink only while somebody holds it, and whoever holds
a sink with the listener's key has the listener's own sink (`DeliveredFromOwn`); and what was heard stays its own while the listener is subscribed, since
the erase of equal registrations leaves one, of the same sink (`OwnSinkStays`).

`DeliveryInv` adds that MAPI holds notifications for connections only and that nobody is owed anything before its
subscribe has returned. `NothingMissed` follows from it with `SharingMatches`: those who share a sink are among
those its filter picks. That is where `WrittenAlike` is needed, and the run `reworded` shows what
happens without it. `RegistryImplementsFeed` maps each action to a step of `Feed` or to a stutter:
`ShareSink` and `InsertSink` to `Join`, `NotifyUnsubscribe` to `Leave`, `TableChange` to `Change`, a delivery
to `Deliver`, `Shutdown` to `Close`; `GroupShares` says that a group of `Feed` is the set of
listeners that share a sink.

**The table sink.** `CopyInv` has the types and `ReplicaFollowsRows` itself: a delta that is added to the batch edits the copy as the callback has
edited the cache (`EditKeeps`), since a replay of one delta more is one step more (`ReplayOneMore`). That is an induction over the
list of deltas; it is written out with the least counterexample, as the library's takes an operator. For the stretch, types are not enough: where a row
goes is known only from the table its notification was made of. `StretchInv` adds that keys are distinct and that each notification in the queue leads
from that table to the next one's (`Linked`). For each kind of notification there are two lemmas, for a row the cache goes by
and for one outside it (`AddedInside`, `AddedOutside` and so on). The windows at the start are stretches by `WindowIsStretch`, which follows `read` to `QueryRows`.

**The sink proxy.** That the count is the number of references says nothing of who has them. `SinkInv` adds that: the resolver from `NewSink` to
`LeaveScope`, the member from `OnAdvise` to the end of the destructor, MAPI while it is connected or calling. From this, a callback
that destroys its owner, and with it the member's reference, still has MAPI's.

**The lists.** `ListInv` is `Shape` (what each caller has at each step), `Agrees` (the index is that of the list wherever a list may be used),
`Current` (a list is the window of its directives, or empty, or a callback is on its way, or its table changed `untold`) and `Directed` (from its read to its use, the directives kept are those of the
call in progress). `OneMutex`, no overlap and a single wrapper, is what makes the callers' steps separate; without it `Agrees` is
lost in `fill`.

**The store.** Whether a folder is special is decided when it is constructed, from `special`; so `StoreInv` relates four things: `Shape` (what is loaded at
each step of a field), `Opened` (while nothing has failed, a store is closed or open as a whole), `KindsAgree`, and `Named` (the special folders are the documented ones
once they are loaded). `AnswersInv` follows one field from question to answer: what is answered already, what is left to look up, and
that the folder being opened is the next of those asked for.

**Names.** `MapIsMapis` is inductive: both lookups put into the map what MAPI said, where `Inserted` does not touch what is there, and an allocation that fails
half-way leaves a part of it. The answers pair names with properties by ID, through a map that holds one place for each ID: the code throws
unless there are as many IDs as places. `Pairing` and `OnePlaceEach` show that then no ID came twice, so each property has its own name; that an
ID comes twice only for equal inputs or two unknown names rests on `MapIsMapis`, MAPI giving an ID to one name. The theorems assume that an object has each property once.

**Mutations.** `CommittedWasAsked` rests on what the caches hold between fields and in the middle of one. `MutInv` is `Members` and `FieldType` (types),
`InMaking` (what the object of the field has after each call: nothing, without the deleted properties, with those to be set), `Unsaved` (what a cached message has
over the store's was asked for) and `AskedFirst` (the field's own requests are among those asked). The lemma `Modified` shows that
setting after deleting may be done twice without harm, which is what happens when a field finds in the cache what a failed one has left; it needs the last
input for a property, which `LastInput` finds by the well-foundedness of the numbers.

**Reads, keys and values.** A state of `Operators` holds one question and its answer (`OpInv`); the rest are facts about the operators, for tables, requests and
texts of any length.

- *Windows.* The place nearest to the one wanted is where a cursor stops (`ClampIsNearest`), a row that is there once is found in its place (`FoundInPlace`), and
  the positions of the window are those that QueryRows reads (`PositionsAreRead`). `RowsOfPage` says which rows a page has; that no row is on two pages is arithmetic
  (`PagesApart`).
- *Keys.* An order of the elements is a set of pairs, and `Vectors` is the order it makes of lists: total and transitive if the order of the elements is. That is
  no induction: two lists that differ have a first place where they do, or one is the beginning of the other. Property IDs, columns, orders, windows and object IDs are each shown to be
  ordered so, then the keys; the five comparisons of a window are one vector of results (`Comparisons`), of which the first that is no tie decides.
- *Values, times and names.* A number survives the cut to its width and back, since what is given fits it. A text is cut at its first
  NUL and each unpaired surrogate in it is replaced; a second pass leaves the result alone. The text of a GUID is five numbers, and reading fills each up to
  its width: that changes nothing if only leading zeros were left out of a number of its own, which fails for the last two words unless they begin with
  a digit that is not zero (`Whole`). A fraction is written with three digits and its `Number` is what was written (`NumberOfDecimal`). `ValuesAreKept` has a case for each kind, and one for none
  or more than one.

**The walk.** `AnswersConform` needs no history but the class of the object, and that class is known from the answer before: so each getter of each class is compared with the field
it answers (`Fit`), which `ClassesFit` has for all of them. `EntryFits` asks two things more: a wrapper of nothing comes from a field that may dangle or from a Store that is gone, and only folders and
items need the Store. `WalkInv` adds that in a query a wrapper on the way has the Store as soon as one is passed, and that a wrapper of nothing keeps its explanation: nothing brings a Store
back while the walk stands at one. `StoreIsKept` is then why no drop of the lists can harm a query.

**Only model-checked:** the liveness properties (`EveryChangeHeard`, `EveryRequestAnswered`,
`ReplicaConverges`, `CallsEnd`, `SinkGoes`), which the prover cannot do, as it has no ENABLED. All other properties of the passing runs are stated by theorems.

## 6. What is not modelled

- **Session and service**: MAPI is initialised and logged on to in a constructor, and one function wires the objects together. (A constructor that fails
  after `MAPIInitialize` never uninitialises, `GetService` is `noexcept`, and a callback that has the last Store may release MAPI's objects after
  `MAPIUninitialize`; none of it is in the models.)
- **Object IDs** (`Input.cpp`): whether an ID comes as text or bytes is the library's `IdType`; the models of objects
  take IDs as values. Where no code decodes them, in a seek and in a binary value, they are text that is used as it is.
- **Error checks**: throwing macros; in each module an alternative that throws.
- **Schema**: introspection and the texts of enumerations are generated tables without state. What a field declares, and how arguments become inputs, is in `Objects`,
  `PropertyValues` and `Mutation`.
- **Attachments, bodies and columns** of items are reads without state, in `Objects` only by what they answer.
- **MAPI and the GraphQL library** are external: MAPI's tables, notifications and objects appear as the steps
  its callers can see, the library as the order in which it calls resolvers and delivers. Tests and mocks are read as documentation.

Two abstractions join modules that could be joined more closely: `Objects` and `Mutation` have one store for all, and `Subscription` counts the
changes that `TableSink` spells out.

## 7. Where it could go on

- `Subscription` and `TableSink` as one: that a change counted by the registry is the batch that the sink spells out.
- `Objects` with more than one store, as `Query` has them.
- `LazyCollection` with two wrappers, once the code shares a mutex between them.
