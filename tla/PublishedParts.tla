--------------------------- MODULE PublishedParts ---------------------------
(***************************************************************************)
(* What publication promises, whatever is interrupted: output parts are    *)
(* only ever added, each with at least one item, and no item is put into   *)
(* two of them.                                                            *)
(***************************************************************************)
CONSTANTS Keys

VARIABLES published     \* the sets of items of the parts published so far

Init == published = {}

Publish ==
    \E items \in (SUBSET Keys) \ {{}} :
        /\ \A other \in published : items \cap other = {}
        /\ published' = published \cup {items}

Spec == Init /\ [][Publish]_published
=============================================================================
