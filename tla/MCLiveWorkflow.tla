----------------------------- MODULE MCLiveWorkflow -----------------------------
(* Instance of LiveWorkflow for TLC.                                       *)
EXTENDS LiveWorkflow

Rows(pulls, reviews, events) ==
  [f \in Families |-> CASE f = "pull_requests" -> {pulls}
                        [] f = "reviews" -> reviews
                        [] f = "lifecycle_events" -> events
                        [] OTHER -> {"not_requested"}]

(* Every family complete or without a row, and one endpoint gone; an       *)
(* interrupted collection leaves pull requests partial besides.            *)
SomeCollections ==
  {Rows("complete", {"complete"}, {}),
   Rows("complete", {"complete"}, {"complete", "unavailable"})}
=============================================================================
