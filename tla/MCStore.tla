------------------------------ MODULE MCStore ------------------------------
(* Instances of Store for TLC. *)
EXTENDS Store

\* Whether there is an IPM subtree and an Inbox; the Inbox may name a folder
\* that the subtree names too, the subtree one that the Inbox does not.
AnyMailbox ==
  [subtree : BOOLEAN, inbox : BOOLEAN,
   names : {[p \in Places |-> IF p = "store" THEN StoreKinds ELSE n[p]] :
              n \in [{"inbox", "subtree"} -> SUBSET FolderKinds]}]
=============================================================================
