------------------------------ MODULE DatasetStore ------------------------------
(***************************************************************************)
(* What a dataset directory promises its readers, whatever happens to the  *)
(* collect calls that write it (docs/cohort-collection.md:71-74): it holds *)
(* no extraction, or one, which is first marked incomplete, keeps its      *)
(* identity and its pseudonyms for good, and is only ever replaced whole.  *)
(***************************************************************************)
CONSTANTS Ids, Identities, Workspaces

VARIABLE kept  \* the extraction, if there is one

Extraction == [id : Ids, identity : Identities, key : Workspaces, incomplete : BOOLEAN]

Init == kept = {}

Mark ==
  /\ kept = {}
  /\ \E e \in Extraction : e.incomplete /\ kept' = {e}

Reconcile ==
  \E e \in kept, incomplete \in BOOLEAN :
    kept' = {[e EXCEPT !.incomplete = incomplete]}

Next == Mark \/ Reconcile

Spec == Init /\ [][Next]_kept
=============================================================================
