--------------------------------- MODULE Calls ---------------------------------
(***************************************************************************)
(* The components that keep their promise under any sequence of calls: the *)
(* record of a pull request and whoever fires its events                   *)
(* (LifecycleMachine), an output directory and its writers (Publication),  *)
(* the output tree of the live workflow and its calls (LiveWorkflow).      *)
(* They share no state here: one of them is called.                        *)
(***************************************************************************)
EXTENDS LifecycleMachine, Publication, LiveWorkflow

VARIABLE called  \* the component that is called

callsVars == <<machineVars, publicationVars, liveVars, called>>

Components == {"lifecycle", "publication", "live"}

(* The components that are not called wait in one of their initial states. *)
Waiting(component) ==
  CASE component = "lifecycle" -> p = Fresh(1, 0, FALSE, FALSE)
    [] component = "publication" ->
         before = NoDir /\ writer = CHOOSE w \in Writers : TRUE
    [] component = "live" -> TRUE

Init ==
  /\ MachineInit /\ PublicationInit /\ LiveInit
  /\ called \in Components
  /\ \A component \in Components \ {called} : Waiting(component)

Next ==
  \/ /\ called = "lifecycle" /\ MachineNext
     /\ UNCHANGED <<publicationVars, liveVars, called>>
  \/ /\ called = "publication" /\ PublicationNext
     /\ UNCHANGED <<machineVars, liveVars, called>>
  \/ /\ called = "live" /\ LiveNext
     /\ UNCHANGED <<machineVars, publicationVars, called>>

Spec == Init /\ [][Next]_callsVars
=============================================================================
