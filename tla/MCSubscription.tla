--------------------------- MODULE MCSubscription ---------------------------
(* Instances of Subscription for TLC: who asks for what. *)
EXTENDS Subscription, TLC

CONSTANTS l1, l2, l3

Take(text, value) == [name |-> "take", text |-> text, value |-> value]
SortByName(text)  == [name |-> "orderBy", text |-> text, value |-> "byName"]

Asks(field, argument, directives) ==
  [field |-> field, argument |-> argument, directives |-> directives]

\* Two equal requests for a window of the items of a folder, and one for all of them.
InboxRequest ==
  l1 :> Asks("items", "inbox", {Take("5", 5)}) @@
  l2 :> Asks("items", "inbox", {Take("5", 5)}) @@
  l3 :> Asks("items", "inbox", {})

\* l1 and l2 ask for the same rows in different words.
RewordedRequest ==
  l1 :> Asks("items", "inbox", {SortByName("property, type")}) @@
  l2 :> Asks("items", "inbox", {SortByName("descending: false, property, type")})
=============================================================================
