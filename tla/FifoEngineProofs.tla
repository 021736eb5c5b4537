--------------------------- MODULE FifoEngineProofs ---------------------------
(***************************************************************************)
(* Proofs about FifoEngine and MeasuredEngine for every instance of their  *)
(* constants, in three parts.  The inductive invariant IInv gives the type *)
(* invariant, the absence of rejected events, the wake-up discipline and   *)
(* the ownership of reviews.  Agenda, on top of it, gives deadlines,       *)
(* wake-ups, service, work conservation, the order of first reviews,       *)
(* earned merges, the accounts of time and the completeness of the result. *)
(* MeterInv, on top of both, gives that the meter does not touch the run,  *)
(* that flow is conserved over the window and that the integrals are those *)
(* of the run: it says what the meter knows while the run goes on, the     *)
(* work carried into the window, the completed reviews, and each integral  *)
(* as the number of elements of a set of seconds, to which an advance adds *)
(* the seconds it passes.                                                  *)
(***************************************************************************)
EXTENDS MeasuredEngine, LifecycleProofs, FiniteSetTheorems

(* Every record is sane.                                                   *)
Sanity == \A p \in PRs : Sane(pr[p])

(* No record is ahead of the clock, and a proposal not yet admitted was    *)
(* last touched when it became ready.                                      *)
Timely ==
  \A p \in PRs : IF pr[p].state = "ready"
                 THEN pr[p].last_transition_at = pr[p].ready_at
                 ELSE pr[p].last_transition_at <= now

(* The heap lies ahead of the clock once the instant being processed has   *)
(* been popped, and short of the horizon until the horizon is popped.      *)
HeapAhead ==
  /\ phase = "advance" => previous = now
  /\ \A t \in times : now < t \/ (phase = "advance" /\ now = t /\ Admitted = {})
  /\ phase \in {"advance", "abandon", "finish", "admit", "settle", "dispatch"}
       => now < Horizon
  /\ phase = "censor" => now = Horizon

(* Each inner loop works on what its phase selected, and an arrival is     *)
(* still to be admitted when its turn comes.                               *)
LoopSound ==
  /\ phase \in {"abandon", "finish"} =>
       \A p \in Admitted : pr[p].ready_at < now
  /\ phase = "abandon" => todo \subseteq Admitted
  /\ phase = "finish" => todo \subseteq Assigned
  /\ phase = "admit" =>
       \A p \in todo : pr[p].state = "ready" /\ pr[p].ready_at = now

(* From the finish loop to the dispatch, a visit under way lacks service.  *)
ServiceLeft ==
  \A r \in Assigned :
    phase \in {"admit", "settle", "dispatch"} \/ (phase = "finish" /\ r \notin todo)
      => used[assigned[r]] < Service[assigned[r]]

IInv ==
  /\ TypeOK /\ Sanity /\ Timely /\ HeapAhead /\ LoopSound
  /\ NoStrayWakeUp /\ ReviewOwnership /\ ServiceLeft

-----------------------------------------------------------------------------
(* Every visit takes some service.                                         *)
LEMMA PositiveService ==
  ASSUME NEW p \in PRs
  PROVE  Service[p] \in Nat /\ 0 < Service[p]
<1>1. Service[p] \in Nat \ {0} BY InstanceAssumption
<1> QED BY <1>1

(* The end of the duty interval that covers t lies after t and within the  *)
(* horizon.                                                                *)
LEMMA DutyEndBounds ==
  ASSUME NEW r \in Reviewers, NEW t \in Nat, OnDuty(r, t)
  PROVE  DutyEnd(r, t) \in t + 1 .. Horizon
<1> DEFINE C == ClippedDuty(r)
           d == CHOOSE e \in C : e[1] <= t /\ t < e[2]
<1>1. PICK c \in C : c[1] <= t /\ t < c[2] BY DEF OnDuty
<1>2. d \in C /\ d[1] <= t /\ t < d[2] BY <1>1
<1>3. \A e \in C : e[2] \in Int /\ e[2] <= Horizon
  BY InstanceAssumption, DutyAssumption DEF ClippedDuty
<1> QED BY <1>2, <1>3, InstanceAssumption DEF DutyEnd

(* The instants at which duty starts or ends lie within the run.           *)
LEMMA BoundariesInRun == Boundaries \subseteq 0 .. Horizon
<1> SUFFICES ASSUME NEW r \in Reviewers, NEW d \in ClippedDuty(r)
             PROVE  d[1] \in 0 .. Horizon /\ d[2] \in 0 .. Horizon
  BY DEF Boundaries
<1> QED BY InstanceAssumption, DutyAssumption DEF ClippedDuty

(* The initial states satisfy the invariant.                               *)
LEMMA InitIInv == Init => IInv
<1> SUFFICES ASSUME Init PROVE IInv OBVIOUS
<1> USE InstanceAssumption
<1>1. PICK author \in [PRs -> Authors], ready \in [PRs -> ReadyTimes],
           flags \in [PRs -> ProposalFlags] :
        pr = [p \in PRs |-> Fresh(author[p], ready[p], flags[p][1], flags[p][2])]
  BY DEF Init
<1>2. \A p \in PRs : Sane(pr[p])
  <2> TAKE p \in PRs
  <2>1. author[p] \in Nat /\ ready[p] \in Nat OBVIOUS
  <2>2. flags[p][1] \in BOOLEAN /\ flags[p][2] \in BOOLEAN OBVIOUS
  <2> QED BY <1>1, <2>1, <2>2, FreshSane
<1>3. \A p \in PRs : /\ pr[p].state = "ready"
                     /\ pr[p].last_transition_at = pr[p].ready_at
                     /\ pr[p].ready_at \in Nat
  BY <1>1 DEF Fresh
<1>4. TypeOK
  <2>1. pr \in [PRs -> PullRequest] BY <1>1, <1>2 DEF Sane
  <2>2. times \subseteq 0 .. Horizon
    BY <1>3, BoundariesInRun DEF Init
  <2> QED BY <2>1, <2>2 DEF Init, TypeOK, Phases
<1>5. Timely /\ Sanity BY <1>2, <1>3 DEF Timely, Sanity
<1>6. HeapAhead
  <2>1. Admitted = {} BY <1>3 DEF Admitted
  <2> QED BY <1>4, <2>1 DEF HeapAhead, Init, TypeOK
<1>7. LoopSound /\ ServiceLeft BY DEF Init, LoopSound, ServiceLeft, Assigned
<1>8. NoStrayWakeUp BY DEF Init, NoStrayWakeUp
<1>9. ReviewOwnership BY <1>3 DEF Init, ReviewOwnership, Assigned
<1> QED BY <1>4, <1>5, <1>6, <1>7, <1>8, <1>9 DEF IInv
-----------------------------------------------------------------------------
(* An event was applied to p at this instant, accepted, and took it to     *)
(* state; the other records are as they were.                              *)
Applied(p, state) ==
  /\ pr' \in [PRs -> PullRequest]
  /\ Sane(pr'[p])
  /\ pr'[p].state = state
  /\ pr'[p].last_transition_at = now
  /\ pr'[p].author = pr[p].author
  /\ pr'[p].ready_at = pr[p].ready_at
  /\ \A x \in PRs \ {p} : pr'[x] = pr[x]

(* An accepted event on one record is applied.                             *)
LEMMA ApplyOne ==
  ASSUME pr \in [PRs -> PullRequest], NEW p \in PRs, NEW q, NEW state,
         Accepted(pr[p], q, now, state), pr' = [pr EXCEPT ![p] = q]
  PROVE  Applied(p, state)
<1>1. q \in PullRequest BY DEF Accepted, Sane
<1>2. pr'[p] = q /\ pr' \in [PRs -> PullRequest]
      /\ \A x \in PRs \ {p} : pr'[x] = pr[x]
  BY <1>1
<1>3. /\ Sane(q) /\ q.state = state /\ q.last_transition_at = now
      /\ q.author = pr[p].author /\ q.ready_at = pr[p].ready_at
  BY DEF Accepted, SameProposal
<1> QED BY <1>2, <1>3 DEF Applied

(* An applied event keeps every record sane and behind the clock.          *)
LEMMA AppliedSane ==
  ASSUME Sanity, Timely, now \in Nat, NEW p \in PRs, NEW state,
         Applied(p, state), state # "ready", now' = now
  PROVE  Sanity' /\ Timely'
<1>1. Sane(pr'[p]) /\ pr'[p].state = state /\ pr'[p].last_transition_at = now
  BY DEF Applied
<1>2. \A x \in PRs : x = p \/ pr'[x] = pr[x] BY DEF Applied
<1>3. Sanity' BY <1>1, <1>2 DEF Sanity
<1>4. Timely' BY <1>1, <1>2 DEF Timely
<1> QED BY <1>3, <1>4

(* An applied event and the wake-up its new state calls for keep the       *)
(* discipline of the wake-ups.                                             *)
LEMMA AppliedNoStray ==
  ASSUME NoStrayWakeUp, NEW p \in PRs, NEW state, Applied(p, state),
         state \in Terminal \/ \A e \in pending : e[1] # p,
         \A e \in pending' : e \in pending
           \/ /\ e = <<p, now + DelayOf(state)>>
              /\ state \in {"verifying", "author_response",
                            "approved_waiting_merge"},
         phase' = phase, todo' \subseteq todo, phase = "settle" => p \notin todo'
  PROVE  NoStrayWakeUp'
<1>1. pr'[p].state = state /\ pr'[p].last_transition_at = now
  BY DEF Applied
<1> SUFFICES ASSUME NEW x \in PRs, ~IsTerminal(pr'[x])
             PROVE  /\ \A e \in pending' : e[1] = x =>
                         Waiting(x)' /\ e[2] = WakeUpAt(x)'
                    /\ phase' = "settle" /\ x \in todo' =>
                         Waiting(x)' /\ \A e \in pending' : e[1] # x
  BY DEF NoStrayWakeUp
<1>2. CASE x = p
  <2>1. \A e \in pending : e[1] # p BY <1>1, <1>2 DEF IsTerminal
  <2> QED BY <1>1, <1>2, <2>1 DEF Waiting, WakeUpAt
<1>3. CASE x # p
  <2>1. pr'[x] = pr[x] BY <1>3 DEF Applied
  <2>2. Waiting(x)' = Waiting(x) /\ WakeUpAt(x)' = WakeUpAt(x)
        /\ ~IsTerminal(pr[x])
    BY <2>1 DEF Waiting, WakeUpAt
  <2>3. \A e \in pending' : e[1] = x => e \in pending BY <1>3
  <2> QED BY <2>2, <2>3 DEF NoStrayWakeUp
<1> QED BY <1>2, <1>3

-----------------------------------------------------------------------------
(* The steps that leave every record and the clock alone.                  *)
LEMMA QuietSane ==
  ASSUME Sanity, Timely, pr' = pr, now' = now
  PROVE  Sanity' /\ Timely'
BY DEF Sanity, Timely

LEMMA AbandonmentsDoneIInv ==
  ASSUME IInv, AbandonmentsDone PROVE IInv'
<1> USE InstanceAssumption DEF AbandonmentsDone, At, IInv
<1>1. TypeOK' BY DEF TypeOK, Phases, Assigned
<1>2. Sanity' /\ Timely' BY QuietSane
<1>3. HeapAhead' BY DEF HeapAhead, Admitted
<1>4. LoopSound' BY DEF LoopSound, Admitted, Assigned
<1>5. NoStrayWakeUp' BY DEF NoStrayWakeUp, Waiting, WakeUpAt
<1>6. ReviewOwnership' BY DEF ReviewOwnership, Assigned
<1>7. ServiceLeft' BY DEF ServiceLeft, Assigned
<1> QED BY <1>1, <1>2, <1>3, <1>4, <1>5, <1>6, <1>7

LEMMA FinishesDoneIInv ==
  ASSUME IInv, FinishesDone PROVE IInv'
<1> USE InstanceAssumption DEF FinishesDone, At, IInv
<1>1. TypeOK' BY DEF TypeOK, Phases
<1>2. Sanity' /\ Timely' BY QuietSane
<1>3. HeapAhead' BY DEF HeapAhead, Admitted
<1>4. LoopSound'
  <2>1. now \in Int BY DEF TypeOK
  <2>2. \A p \in PRs : pr[p].ready_at = now => pr[p].state = "ready"
    BY <2>1 DEF LoopSound, Admitted
  <2> QED BY <2>2 DEF LoopSound
<1>5. NoStrayWakeUp' BY DEF NoStrayWakeUp, Waiting, WakeUpAt
<1>6. ReviewOwnership' BY DEF ReviewOwnership, Assigned
<1>7. ServiceLeft' BY DEF ServiceLeft, Assigned
<1> QED BY <1>1, <1>2, <1>3, <1>4, <1>5, <1>6, <1>7

LEMMA NextBatchIInv ==
  ASSUME IInv, NextBatch PROVE IInv'
<1> USE InstanceAssumption DEF NextBatch, At, IInv
<1>1. TypeOK' BY DEF TypeOK, Phases, DueNow
<1>2. Sanity' /\ Timely' BY QuietSane
<1>3. HeapAhead' BY DEF HeapAhead, Admitted
<1>4. LoopSound' BY DEF LoopSound
<1>5. NoStrayWakeUp'
  <2> SUFFICES ASSUME NEW p \in PRs, ~IsTerminal(pr[p])
               PROVE  /\ \A e \in pending' : e[1] = p =>
                           Waiting(p) /\ e[2] = WakeUpAt(p)
                      /\ p \in DueNow =>
                           Waiting(p) /\ \A e \in pending' : e[1] # p
    BY DEF NoStrayWakeUp, Waiting, WakeUpAt
  <2>1. \A e \in pending : e[1] = p => Waiting(p) /\ e[2] = WakeUpAt(p)
    BY DEF NoStrayWakeUp
  <2>2. \A e \in pending' : e \in pending /\ e \notin PRs \X {now}
    OBVIOUS
  <2>3. ASSUME p \in DueNow
        PROVE  Waiting(p) /\ \A e \in pending' : e[1] # p
    <3>1. <<p, now>> \in pending BY <2>3 DEF DueNow
    <3>2. Waiting(p) /\ WakeUpAt(p) = now BY <2>1, <3>1
    <3>3. \A e \in pending : e[1] = p => e = <<p, now>>
      BY <2>1, <3>2 DEF TypeOK
    <3> QED BY <2>2, <3>2, <3>3
  <2> QED BY <2>1, <2>2, <2>3
<1>6. ReviewOwnership' BY DEF ReviewOwnership, Assigned
<1>7. ServiceLeft' BY DEF ServiceLeft, Assigned
<1> QED BY <1>1, <1>2, <1>3, <1>4, <1>5, <1>6, <1>7

LEMMA BatchesDoneIInv ==
  ASSUME IInv, BatchesDone PROVE IInv'
<1> USE InstanceAssumption DEF BatchesDone, At, IInv
<1>1. TypeOK' BY DEF TypeOK, Phases
<1>2. Sanity' /\ Timely' BY QuietSane
<1>3. HeapAhead' BY DEF HeapAhead, Admitted
<1>4. LoopSound' BY DEF LoopSound
<1>5. NoStrayWakeUp' BY DEF NoStrayWakeUp, Waiting, WakeUpAt
<1>6. ReviewOwnership' BY DEF ReviewOwnership, Assigned
<1>7. ServiceLeft' BY DEF ServiceLeft, Assigned
<1> QED BY <1>1, <1>2, <1>3, <1>4, <1>5, <1>6, <1>7

LEMMA DispatchDoneIInv ==
  ASSUME IInv, DispatchDone PROVE IInv'
<1> USE InstanceAssumption DEF DispatchDone, At, IInv
<1>1. TypeOK' BY DEF TypeOK, Phases
<1>2. Sanity' /\ Timely' BY QuietSane
<1>3. HeapAhead' BY DEF HeapAhead, Admitted
<1>4. LoopSound' BY DEF LoopSound
<1>5. NoStrayWakeUp' BY DEF NoStrayWakeUp, Waiting, WakeUpAt
<1>6. ReviewOwnership' BY DEF ReviewOwnership, Assigned
<1>7. ServiceLeft' BY DEF ServiceLeft, Assigned
<1> QED BY <1>1, <1>2, <1>3, <1>4, <1>5, <1>6, <1>7

LEMMA RecordIInv ==
  ASSUME IInv, Record PROVE IInv'
<1> USE InstanceAssumption DEF Record, At, IInv
<1>1. TypeOK' BY DEF TypeOK, Phases
<1>2. Sanity' /\ Timely' BY QuietSane
<1>3. HeapAhead'
  <2>1. \A t \in times : now < t BY DEF HeapAhead
  <2>2. phase' = "advance" => previous' = now /\ now < Horizon
    BY <2>1 DEF TypeOK
  <2> QED BY <2>1, <2>2 DEF HeapAhead
<1>4. LoopSound' BY DEF LoopSound
<1>5. NoStrayWakeUp' BY DEF NoStrayWakeUp, Waiting, WakeUpAt
<1>6. ReviewOwnership' BY DEF ReviewOwnership, Assigned
<1>7. ServiceLeft' BY DEF ServiceLeft, Assigned
<1> QED BY <1>1, <1>2, <1>3, <1>4, <1>5, <1>6, <1>7

LEMMA SkipTerminalIInv ==
  ASSUME IInv, NEW p \in PRs, SkipTerminal(p) PROVE IInv'
<1> USE InstanceAssumption DEF SkipTerminal, Settling, At, IInv
<1>1. TypeOK' BY DEF TypeOK, Phases
<1>2. Sanity' /\ Timely' BY QuietSane
<1>3. HeapAhead' BY DEF HeapAhead, Admitted
<1>4. LoopSound' BY DEF LoopSound
<1>5. NoStrayWakeUp' BY DEF NoStrayWakeUp, Waiting, WakeUpAt
<1>6. ReviewOwnership' BY DEF ReviewOwnership, Assigned
<1>7. ServiceLeft' BY DEF ServiceLeft, Assigned
<1> QED BY <1>1, <1>2, <1>3, <1>4, <1>5, <1>6, <1>7

(* The two limits stop the run without touching a record.                  *)
LEMMA TruncateIInv ==
  ASSUME IInv, At("settle") \/ At("dispatch"),
         phase' = "record", todo' = {}, truncated' = TRUE,
         UNCHANGED <<now, previous, times, pr, assigned, used, active,
                     pending, boundary>>
  PROVE  IInv'
<1> USE InstanceAssumption DEF At, IInv
<1>1. TypeOK' BY DEF TypeOK, Phases
<1>2. Sanity' /\ Timely' BY QuietSane
<1>3. HeapAhead' BY DEF HeapAhead, Admitted
<1>4. LoopSound' BY DEF LoopSound
<1>5. NoStrayWakeUp' BY DEF NoStrayWakeUp, Waiting, WakeUpAt
<1>6. ReviewOwnership' BY DEF ReviewOwnership, Assigned
<1>7. ServiceLeft' BY DEF ServiceLeft, Assigned
<1> QED BY <1>1, <1>2, <1>3, <1>4, <1>5, <1>6, <1>7

LEMMA PassOverIInv ==
  ASSUME IInv, NEW r \in Reviewers, PassOver(r) PROVE IInv'
<1> USE InstanceAssumption DEF PassOver, Dispatching, At, IInv
<1>1. TypeOK' BY DEF TypeOK, Phases
<1>2. Sanity' /\ Timely' BY QuietSane
<1>3. HeapAhead' BY DEF HeapAhead, Admitted
<1>4. LoopSound' BY DEF LoopSound
<1>5. NoStrayWakeUp' BY DEF NoStrayWakeUp, Waiting, WakeUpAt
<1>6. ReviewOwnership' BY DEF ReviewOwnership, Assigned
<1>7. ServiceLeft' BY DEF ServiceLeft, Assigned
<1> QED BY <1>1, <1>2, <1>3, <1>4, <1>5, <1>6, <1>7

LEMMA KeepReviewingIInv ==
  ASSUME IInv, NEW r \in Reviewers, KeepReviewing(r) PROVE IInv'
<1> USE InstanceAssumption DEF KeepReviewing, At, IInv
<1>1. TypeOK' BY DEF TypeOK, Phases
<1>2. Sanity' /\ Timely' BY QuietSane
<1>3. HeapAhead' BY DEF HeapAhead, Admitted
<1>4. LoopSound' BY DEF LoopSound, Admitted, Assigned
<1>5. NoStrayWakeUp' BY DEF NoStrayWakeUp, Waiting, WakeUpAt
<1>6. ReviewOwnership' BY DEF ReviewOwnership, Assigned
<1>7. ServiceLeft'
  <2>1. r \in Assigned /\ assigned[r] \in PRs
    BY DEF LoopSound, Assigned, TypeOK
  <2>2. used[assigned[r]] \in Nat /\ Service[assigned[r]] \in Nat
    BY <2>1 DEF TypeOK
  <2>3. used[assigned[r]] < Service[assigned[r]] BY <2>2 DEF Served
  <2> QED BY <2>3 DEF ServiceLeft, Assigned
<1> QED BY <1>1, <1>2, <1>3, <1>4, <1>5, <1>6, <1>7

(* Releasing a reviewer leaves the ownership of the other reviews.         *)
LEMMA ReleaseReviewerIInv ==
  ASSUME IInv, NEW r \in Reviewers, ReleaseReviewer(r) PROVE IInv'
<1> USE InstanceAssumption DEF ReleaseReviewer, At, IInv
<1>1. TypeOK' BY DEF TypeOK, Phases, None
<1>2. Sanity' /\ Timely' BY QuietSane
<1>3. HeapAhead' BY DEF HeapAhead, Admitted
<1>4. assigned'[r] = None /\ \A x \in Reviewers : x # r => assigned'[x] = assigned[x]
  BY DEF TypeOK
<1>5. Assigned' = Assigned \ {r} BY <1>4 DEF Assigned
<1>6. LoopSound'
  <2>1. todo' \subseteq Assigned' BY <1>5 DEF LoopSound
  <2> QED BY <2>1 DEF LoopSound, Admitted
<1>7. NoStrayWakeUp' BY DEF NoStrayWakeUp, Waiting, WakeUpAt
<1>8. ReviewOwnership'
  <2>1. pr[assigned[r]].state # "in_review" BY DEF IsTerminal, Terminal
  <2>2. \A p \in PRs : pr[p].state = "in_review" =>
          \E x \in Reviewers : assigned'[x] = p
    BY <1>4, <2>1 DEF ReviewOwnership
  <2>3. \A x \in Assigned' : x \in Assigned /\ x # r /\ assigned'[x] = assigned[x]
    BY <1>4, <1>5 DEF Assigned
  <2> QED BY <2>2, <2>3 DEF ReviewOwnership
<1>9. ServiceLeft'
  <2>1. \A x \in Assigned' : x \in Assigned /\ x # r /\ assigned'[x] = assigned[x]
    BY <1>4, <1>5 DEF Assigned
  <2> QED BY <2>1 DEF ServiceLeft
<1> QED BY <1>1, <1>2, <1>3, <1>6, <1>7, <1>8, <1>9

-----------------------------------------------------------------------------
(* schedule() types its wake-up and keeps the heap ahead of the clock.     *)
LEMMA ScheduleTyped ==
  ASSUME now \in 0 .. Horizon, NEW p \in PRs, NEW delay \in Nat
  PROVE  /\ PushDelay(delay) \subseteq now + 1 .. Horizon
         /\ Wake(p, delay) \subseteq PRs \X (0 .. Horizon - 1)
         /\ \A e \in Wake(p, delay) : e = <<p, now + delay>>
BY InstanceAssumption DEF PushDelay, Push, Wake

(* A reviewer who completes a visit is released, and the proposal waits    *)
(* for the author or for coordination.                                     *)
LEMMA CompleteReviewIInv ==
  ASSUME IInv, NEW r \in Reviewers, CompleteReview(r) PROVE IInv'
<1> DEFINE p == assigned[r]
<1> USE InstanceAssumption DEF At, IInv
<1>1. /\ phase = "finish" /\ r \in todo /\ phase' = phase /\ now' = now
      /\ todo' = todo \ {r} /\ previous' = previous /\ used' = used
      /\ active' = active /\ truncated' = truncated
      /\ assigned' = [assigned EXCEPT ![r] = None]
      /\ ~IsTerminal(pr[p])
  BY DEF CompleteReview
<1>2. /\ r \in Assigned /\ p \in PRs /\ now \in 0 .. Horizon
      /\ pr[p].state = "in_review"
  <2>1. r \in Assigned BY <1>1 DEF LoopSound
  <2>2. p \in PRs /\ now \in 0 .. Horizon BY <2>1 DEF Assigned, TypeOK
  <2>3. now < Horizon BY <1>1 DEF HeapAhead
  <2>4. pr[p].state = "in_review" BY <1>1, <2>1 DEF ReviewOwnership
  <2> QED BY <2>1, <2>2, <2>4
<1>3. now \in Nat /\ now >= pr[p].last_transition_at /\ Sane(pr[p])
  <2>1. Sane(pr[p]) /\ pr[p].last_transition_at <= now
    BY <1>2 DEF Timely, Sanity
  <2>2. pr[p].last_transition_at \in Nat BY <2>1 DEF Sane, PullRequest
  <2> QED BY <1>2, <2>1, <2>2
<1>4. PICK state \in {"author_response", "approved_waiting_merge"},
           q \in {ChangesRequested(pr[p], now), ReviewApproved(pr[p], now)} :
        /\ Accepted(pr[p], q, now, state)
        /\ pr' = [pr EXCEPT ![p] = q]
        /\ pending' = pending \cup Wake(p, DelayOf(state))
        /\ times' = times \cup PushDelay(DelayOf(state))
  <2>1. PICK changes \in ChangeOutcomes(pr[p]) :
          /\ pr' = [pr EXCEPT ![p] = IF changes THEN ChangesRequested(@, now)
                                     ELSE ReviewApproved(@, now)]
          /\ pending' = pending \cup
               Wake(p, IF changes THEN ResponseDelay ELSE CoordinationDelay)
          /\ times' = times \cup
               PushDelay(IF changes THEN ResponseDelay ELSE CoordinationDelay)
    BY DEF CompleteReview, DelayAfter
  <2>2. CASE changes
    <3>1. Accepted(pr[p], ChangesRequested(pr[p], now), now, "author_response")
      BY <1>2, <1>3, ChangesRequestedSane
    <3> QED BY <2>1, <2>2, <3>1 DEF DelayOf
  <2>3. CASE ~changes
    <3>1. Accepted(pr[p], ReviewApproved(pr[p], now), now,
                   "approved_waiting_merge")
      BY <1>2, <1>3, ReviewApprovedSane
    <3> QED BY <2>1, <2>3, <3>1 DEF DelayOf
  <2> QED BY <2>2, <2>3
<1>5. Applied(p, state) BY <1>2, <1>4, ApplyOne DEF TypeOK
<1>6. DelayOf(state) \in Nat BY DEF DelayOf
<1>7. /\ PushDelay(DelayOf(state)) \subseteq now + 1 .. Horizon
      /\ Wake(p, DelayOf(state)) \subseteq PRs \X (0 .. Horizon - 1)
      /\ \A e \in Wake(p, DelayOf(state)) : e = <<p, now + DelayOf(state)>>
  BY <1>2, <1>6, ScheduleTyped
<1>8. /\ assigned'[r] = None
      /\ \A x \in Reviewers : x # r => assigned'[x] = assigned[x]
      /\ Assigned' = Assigned \ {r}
  BY <1>1 DEF TypeOK, Assigned
<1>9. \A x \in Assigned' : /\ x \in Assigned /\ x # r
                           /\ assigned'[x] = assigned[x] /\ assigned[x] \in PRs
                           /\ assigned[x] # p
                           /\ pr'[assigned'[x]] = pr[assigned[x]]
  BY <1>2, <1>5, <1>8 DEF ReviewOwnership, Assigned, Applied, TypeOK
<1>10. TypeOK'
  <2>1. now + 1 .. Horizon \subseteq 0 .. Horizon BY <1>2
  <2>2. pending' \subseteq PRs \X (0 .. Horizon - 1) BY <1>4, <1>7 DEF TypeOK
  <2>3. times' \subseteq 0 .. Horizon BY <1>4, <1>7, <2>1 DEF TypeOK
  <2>5. pr' \in [PRs -> PullRequest] BY <1>5 DEF Applied
  <2>4. assigned' \in [Reviewers -> PRs \cup {None}] BY <1>1 DEF TypeOK
  <2> QED BY <1>1, <2>2, <2>3, <2>4, <2>5 DEF TypeOK
<1>11. Sanity' /\ Timely' BY <1>1, <1>2, <1>3, <1>4, <1>5, AppliedSane
<1>12. Admitted' = Admitted /\ \A x \in PRs : pr'[x].ready_at = pr[x].ready_at
  BY <1>2, <1>5 DEF Admitted, Applied
<1>13. HeapAhead' BY <1>1, <1>2, <1>4, <1>7, <1>12 DEF HeapAhead
<1>14. LoopSound'
  <2>1. todo' \subseteq Assigned' BY <1>1, <1>8 DEF LoopSound
  <2>2. \A x \in Admitted' : pr'[x].ready_at < now
    BY <1>1, <1>12 DEF LoopSound, Admitted
  <2> QED BY <1>1, <2>1, <2>2 DEF LoopSound
<1>15. NoStrayWakeUp'
  <2>1. \A e \in pending : e[1] # p
    BY <1>2 DEF NoStrayWakeUp, Waiting, IsTerminal, Terminal
  <2>2. \A e \in pending' : e \in pending
          \/ /\ e = <<p, now + DelayOf(state)>>
             /\ state \in {"verifying", "author_response",
                           "approved_waiting_merge"}
    BY <1>4, <1>7
  <2>3. /\ phase' = phase /\ todo' \subseteq todo
        /\ phase = "settle" => p \notin todo'
    BY <1>1
  <2> QED BY <1>2, <1>5, <2>1, <2>2, <2>3, AppliedNoStray
<1>16. ReviewOwnership'
  <2>1. ASSUME NEW x \in PRs, pr'[x].state = "in_review"
        PROVE  \E y \in Reviewers : assigned'[y] = x
    <3>1. x # p BY <1>5, <2>1 DEF Applied
    <3>2. pr[x].state = "in_review" BY <1>5, <2>1, <3>1 DEF Applied
    <3>3. PICK y \in Reviewers : assigned[y] = x BY <3>2 DEF ReviewOwnership
    <3> QED BY <1>8, <3>1, <3>3
  <2> QED BY <1>1, <1>9, <2>1 DEF ReviewOwnership
<1>17. ServiceLeft' BY <1>1, <1>9 DEF ServiceLeft
<1> QED BY <1>10, <1>11, <1>13, <1>14, <1>15, <1>16, <1>17

(* An event of the admit or settle loop on a proposal that nobody reviews. *)
LEMMA LoopEventIInv ==
  ASSUME IInv, NEW p \in PRs, p \in todo, phase \in {"admit", "settle"},
         phase' = phase, todo' = todo \ {p},
         UNCHANGED <<now, previous, assigned, used, active, truncated>>,
         NEW state, Applied(p, state), state \notin {"ready", "in_review"},
         pr[p].state \notin {"in_review"} \cup Terminal,
         \A e \in pending : e[1] # p,
         \/ pending' = pending
         \/ /\ pending' = pending \cup Wake(p, DelayOf(state))
            /\ state \in {"verifying", "author_response",
                          "approved_waiting_merge"},
         \A t \in times' : t \in times \/ t \in now + 1 .. Horizon
  PROVE  IInv'
<1> USE InstanceAssumption DEF IInv
<1>1. now \in 0 .. Horizon /\ now \in Nat /\ DelayOf(state) \in Nat
  BY DEF TypeOK, DelayOf
<1>2. /\ Wake(p, DelayOf(state)) \subseteq PRs \X (0 .. Horizon - 1)
      /\ \A e \in Wake(p, DelayOf(state)) : e = <<p, now + DelayOf(state)>>
  BY <1>1, ScheduleTyped
<1>3. /\ \A x \in PRs : x = p \/ pr'[x] = pr[x]
      /\ pr'[p].state = state /\ pr' \in [PRs -> PullRequest]
  BY DEF Applied
<1>4. TypeOK'
  <2>1. now + 1 .. Horizon \subseteq 0 .. Horizon BY <1>1
  <2>2. times' \subseteq 0 .. Horizon BY <2>1 DEF TypeOK
  <2>3. pending' \subseteq PRs \X (0 .. Horizon - 1) BY <1>2 DEF TypeOK
  <2> QED BY <1>3, <2>2, <2>3 DEF TypeOK
<1>5. Sanity' /\ Timely' BY <1>1, AppliedSane
<1>6. HeapAhead'
  <2>1. \A t \in times' : now < t BY <1>1 DEF HeapAhead
  <2> QED BY <2>1 DEF HeapAhead
<1>7. LoopSound'
  <2>1. \A x \in todo' : x \in todo /\ x # p OBVIOUS
  <2> QED BY <1>3, <2>1 DEF LoopSound, TypeOK
<1>8. NoStrayWakeUp'
  <2>1. \A e \in pending' : e \in pending
          \/ /\ e = <<p, now + DelayOf(state)>>
             /\ state \in {"verifying", "author_response",
                           "approved_waiting_merge"}
    BY <1>2
  <2>2. /\ phase' = phase /\ todo' \subseteq todo
        /\ phase = "settle" => p \notin todo'
    OBVIOUS
  <2> QED BY <2>1, <2>2, AppliedNoStray
<1>9. \A r \in Assigned : /\ assigned[r] \in PRs /\ assigned[r] # p
                          /\ pr'[assigned[r]] = pr[assigned[r]]
  <2> SUFFICES ASSUME NEW r \in Assigned
               PROVE  assigned[r] \in PRs /\ assigned[r] # p
    BY <1>3
  <2>1. assigned[r] \in PRs BY DEF Assigned, TypeOK
  <2>2. assigned[r] # p BY DEF ReviewOwnership, IsTerminal
  <2> QED BY <2>1, <2>2
<1>10. ReviewOwnership'
  <2>1. \A x \in PRs : pr'[x].state = "in_review" => pr[x].state = "in_review"
    BY <1>3
  <2>2. Assigned' = Assigned BY DEF Assigned
  <2> QED BY <1>9, <2>1, <2>2 DEF ReviewOwnership, IsTerminal
<1>11. ServiceLeft' BY DEF ServiceLeft, Assigned
<1> QED BY <1>4, <1>5, <1>6, <1>7, <1>8, <1>10, <1>11

(* An arrival is classified, may draw a deadline and starts verification.  *)
LEMMA AdmitIInv ==
  ASSUME IInv, NEW p \in PRs, Admit(p) PROVE IInv'
<1> USE InstanceAssumption
<1>1. PICK class \in Classifications(pr[p]), elapsed \in AbandonAfter :
        LET deadline == IF elapsed = None THEN None ELSE now + elapsed IN
        /\ pr' = [pr EXCEPT ![p] = StartVerification(
                   [@ EXCEPT !.bypass_eligible = class[1],
                             !.bypass_audited = class[2],
                             !.abandonment_deadline = deadline], now)]
        /\ times' = times \cup PushDelay(VerificationDelay)
                      \cup (IF elapsed = None THEN {} ELSE Push(deadline))
  BY DEF Admit
<1> DEFINE deadline == IF elapsed = None THEN None ELSE now + elapsed
           q == Classified(pr[p], class[1], class[2], deadline)
           s == StartVerification(q, now)
<1>2. /\ pr \in [PRs -> PullRequest] /\ Sane(pr[p]) /\ now \in 0 .. Horizon
      /\ phase = "admit" /\ p \in todo
      /\ pr[p].state = "ready" /\ pr[p].ready_at = now
      /\ pr[p].last_transition_at = now
  BY DEF IInv, TypeOK, Sanity, Timely, LoopSound, Admit, At
<1>3. now \in Nat BY <1>2
<1>4. class[1] \in BOOLEAN /\ class[2] \in BOOLEAN
  <2>1. pr[p].bypass_eligible \in BOOLEAN /\ pr[p].bypass_audited \in BOOLEAN
    BY <1>2 DEF PullRequest
  <2> QED BY <2>1 DEF Classifications
<1>5. deadline \in OptTime /\ (deadline # None => deadline > pr[p].ready_at)
  BY <1>2, <1>3 DEF OptTime, None
<1>6. /\ Sane(q) /\ q.state = "ready" /\ q.author = pr[p].author
      /\ q.ready_at = now /\ q.last_transition_at = now
  <2> HIDE DEF deadline
  <2> QED BY <1>2, <1>4, <1>5, ClassifySane
<1>7. Accepted(q, s, now, "verifying")
  <2> HIDE DEF q
  <2> QED BY <1>3, <1>6, StartVerificationSane
<1>8. Applied(p, "verifying")
  <2>1. pr' = [pr EXCEPT ![p] = s] BY <1>1 DEF Classified
  <2> HIDE DEF q, s
  <2>2. /\ Sane(s) /\ s.state = "verifying" /\ s.last_transition_at = now
        /\ s.author = pr[p].author /\ s.ready_at = pr[p].ready_at
        /\ s \in PullRequest
    BY <1>2, <1>6, <1>7 DEF Accepted, SameProposal, Sane
  <2>3. pr'[p] = s /\ pr' \in [PRs -> PullRequest]
        /\ \A x \in PRs \ {p} : pr'[x] = pr[x]
    BY <1>2, <2>1, <2>2
  <2> QED BY <2>2, <2>3 DEF Applied
<1>9. \A t \in times' : t \in times \/ t \in now + 1 .. Horizon
  <2>1. PushDelay(VerificationDelay) \subseteq now + 1 .. Horizon
    BY <1>2, ScheduleTyped
  <2>2. elapsed # None => Push(now + elapsed) \subseteq now + 1 .. Horizon
    BY <1>2, <1>3 DEF Push, None
  <2> QED BY <1>1, <2>1, <2>2
<1>10. \A e \in pending : e[1] # p
  BY <1>2 DEF IInv, NoStrayWakeUp, Waiting, IsTerminal, Terminal
<1>11. pending' = pending \cup Wake(p, DelayOf("verifying"))
  BY DEF Admit, DelayOf
<1>12. /\ phase' = phase /\ todo' = todo \ {p}
       /\ UNCHANGED <<now, previous, assigned, used, active, truncated>>
  BY DEF Admit
<1>13. pr[p].state \notin {"in_review"} \cup Terminal BY <1>2 DEF Terminal
<1> QED BY <1>2, <1>8, <1>9, <1>10, <1>11, <1>12, <1>13, LoopEventIInv

(* What the settle loop finds when a wake-up is due: an open proposal that *)
(* waits, that nobody reviews, and that has no other wake-up.              *)
LEMMA SettlingOpen ==
  ASSUME IInv, NEW p \in PRs, Settling(p), ~IsTerminal(pr[p])
  PROVE  /\ pr \in [PRs -> PullRequest] /\ Sane(pr[p])
         /\ now \in Nat /\ now \in 0 .. Horizon
         /\ now >= pr[p].last_transition_at
         /\ pr[p].state \in {"verifying", "author_response",
                             "approved_waiting_merge"}
         /\ pr[p].state \notin {"in_review"} \cup Terminal
         /\ \A e \in pending : e[1] # p
         /\ p \in todo /\ phase = "settle"
<1>1. phase = "settle" /\ p \in todo BY DEF Settling, At
<1>2. Waiting(p) /\ \A e \in pending : e[1] # p
  BY <1>1 DEF IInv, NoStrayWakeUp
<1>3. /\ pr[p].state \in {"verifying", "author_response",
                          "approved_waiting_merge"}
      /\ pr[p].state \notin {"in_review"} \cup Terminal
  BY <1>2 DEF Waiting, Terminal
<1>4. pr \in [PRs -> PullRequest] /\ now \in 0 .. Horizon /\ now \in Nat
  BY InstanceAssumption DEF IInv, TypeOK
<1>5. Sane(pr[p]) /\ pr[p].last_transition_at <= now
  BY <1>3 DEF IInv, Sanity, Timely
<1>6. pr[p].last_transition_at \in Nat BY <1>5 DEF Sane, PullRequest
<1> QED BY <1>1, <1>2, <1>3, <1>4, <1>5, <1>6

LEMMA MergeIInv ==
  ASSUME IInv, NEW p \in PRs, Merge(p) PROVE IInv'
<1>1. Settling(p) /\ pr[p].state = "approved_waiting_merge" BY DEF Merge
<1>2. ~IsTerminal(pr[p]) BY <1>1 DEF IsTerminal, Terminal
<1>3. Accepted(pr[p], MergeCompleted(pr[p], now), now, "merged")
  BY <1>1, <1>2, SettlingOpen, MergeCompletedSane
<1>4. Applied(p, "merged")
  BY <1>1, <1>2, <1>3, SettlingOpen, ApplyOne DEF Merge
<1>5. /\ phase' = phase /\ todo' = todo \ {p} /\ pending' = pending
      /\ UNCHANGED <<now, previous, assigned, used, active, truncated>>
      /\ \A t \in times' : t \in times
  BY DEF Merge
<1> QED BY <1>1, <1>2, <1>4, <1>5, SettlingOpen, LoopEventIInv

LEMMA SubmitRevisionIInv ==
  ASSUME IInv, NEW p \in PRs, SubmitRevision(p) PROVE IInv'
<1>1. Settling(p) /\ pr[p].state = "author_response" BY DEF SubmitRevision
<1>2. ~IsTerminal(pr[p]) BY <1>1 DEF IsTerminal, Terminal
<1>3. Accepted(pr[p], RevisionSubmitted(pr[p], now), now, "verifying")
  BY <1>1, <1>2, SettlingOpen, RevisionSubmittedSane
<1>4. Applied(p, "verifying")
  BY <1>1, <1>2, <1>3, SettlingOpen, ApplyOne DEF SubmitRevision
<1>5. /\ phase' = phase /\ todo' = todo \ {p}
      /\ pending' = pending \cup Wake(p, DelayOf("verifying"))
      /\ UNCHANGED <<now, previous, assigned, used, active, truncated>>
  BY DEF SubmitRevision, DelayOf
<1>6. \A t \in times' : t \in times \/ t \in now + 1 .. Horizon
  <2>1. PushDelay(VerificationDelay) \subseteq now + 1 .. Horizon
    BY <1>1, <1>2, InstanceAssumption, SettlingOpen, ScheduleTyped
  <2> QED BY <2>1 DEF SubmitRevision
<1> QED BY <1>1, <1>2, <1>4, <1>5, <1>6, SettlingOpen, LoopEventIInv

LEMMA FailVerificationIInv ==
  ASSUME IInv, NEW p \in PRs, FailVerification(p) PROVE IInv'
<1>1. Settling(p) /\ ~IsTerminal(pr[p]) BY DEF FailVerification, Verifies
<1>2. pr[p].state = "verifying"
  BY <1>1, SettlingOpen DEF FailVerification, Verifies
<1>3. Accepted(pr[p], VerificationFailed(pr[p], now), now, "author_response")
  BY <1>1, <1>2, SettlingOpen, VerificationFailedSane
<1>4. Applied(p, "author_response")
  BY <1>1, <1>3, SettlingOpen, ApplyOne DEF FailVerification
<1>5. /\ phase' = phase /\ todo' = todo \ {p}
      /\ pending' = pending \cup Wake(p, DelayOf("author_response"))
      /\ UNCHANGED <<now, previous, assigned, used, active, truncated>>
  BY DEF FailVerification, Verifies, DelayOf
<1>6. \A t \in times' : t \in times \/ t \in now + 1 .. Horizon
  <2>1. PushDelay(ResponseDelay) \subseteq now + 1 .. Horizon
    BY <1>1, InstanceAssumption, SettlingOpen, ScheduleTyped
  <2> QED BY <2>1 DEF FailVerification
<1> QED BY <1>1, <1>4, <1>5, <1>6, SettlingOpen, LoopEventIInv

LEMMA PassVerificationIInv ==
  ASSUME IInv, NEW p \in PRs, PassVerification(p) PROVE IInv'
<1> DEFINE q == VerificationPassed(pr[p], now)
<1>1. /\ Settling(p) /\ ~IsTerminal(pr[p])
      /\ phase' = phase /\ todo' = todo \ {p}
      /\ UNCHANGED <<now, previous, assigned, used, active, truncated>>
  BY DEF PassVerification, Verifies
<1>2. pr[p].state = "verifying"
  BY <1>1, SettlingOpen DEF PassVerification, Verifies
<1>3. Accepted(pr[p], q, now, "queued_for_review")
  BY <1>1, <1>2, SettlingOpen, VerificationPassedSane
<1>4. CASE TakesBypass(pr[p])
  <2> DEFINE b == ReviewBypassed(q, now)
  <2>1. pr' = [pr EXCEPT ![p] = b] BY <1>4 DEF PassVerification
  <2>2. /\ Sane(q) /\ q.state = "queued_for_review"
        /\ q.last_transition_at = now /\ SameProposal(pr[p], q)
        /\ q.bypass_eligible /\ ~q.bypass_audited
    <3> HIDE DEF q
    <3> QED BY <1>3, <1>4 DEF Accepted, SameProposal, TakesBypass
  <2>3. Accepted(q, b, now, "approved_waiting_merge")
    <3>1. now \in Nat /\ now >= now BY <1>1, SettlingOpen
    <3> HIDE DEF q
    <3> QED BY <2>2, <3>1, ReviewBypassedSane
  <2>4. Accepted(pr[p], b, now, "approved_waiting_merge")
    <3> HIDE DEF q, b
    <3> QED BY <2>2, <2>3 DEF Accepted, SameProposal
  <2>5. Applied(p, "approved_waiting_merge")
    <3> HIDE DEF q, b
    <3> QED BY <1>1, <2>1, <2>4, SettlingOpen, ApplyOne
  <2>6. pending' = pending \cup Wake(p, DelayOf("approved_waiting_merge"))
    BY <1>4 DEF PassVerification, DelayOf
  <2>7. \A t \in times' : t \in times \/ t \in now + 1 .. Horizon
    <3>1. PushDelay(CoordinationDelay) \subseteq now + 1 .. Horizon
      BY <1>1, InstanceAssumption, SettlingOpen, ScheduleTyped
    <3> QED BY <1>4, <3>1 DEF PassVerification
  <2> QED BY <1>1, <2>5, <2>6, <2>7, SettlingOpen, LoopEventIInv
<1>5. CASE ~TakesBypass(pr[p])
  <2>1. /\ pr' = [pr EXCEPT ![p] = q] /\ pending' = pending
        /\ \A t \in times' : t \in times
    BY <1>5 DEF PassVerification
  <2>2. Applied(p, "queued_for_review")
    <3> HIDE DEF q
    <3> QED BY <1>1, <1>3, <2>1, SettlingOpen, ApplyOne
  <2> QED BY <1>1, <2>1, <2>2, SettlingOpen, LoopEventIInv
<1> QED BY <1>4, <1>5

-----------------------------------------------------------------------------
(* The next stop of a visit that lacks service lies ahead, within the run. *)
LEMMA NextStopAhead ==
  ASSUME now \in Nat, NEW r \in Reviewers, OnDuty(r, now), NEW p \in PRs,
         NEW served \in Nat, served < Service[p]
  PROVE  NextStop(r, p, served) \in now + 1 .. Horizon
<1>1. DutyEnd(r, now) \in now + 1 .. Horizon BY DutyEndBounds
<1>2. Service[p] \in Nat BY PositiveService
<1>3. now + (Service[p] - served) \in Nat /\ now + (Service[p] - served) > now
  BY <1>2
<1> QED BY <1>1, <1>3, InstanceAssumption DEF NextStop, Earlier

LEMMA ContinueReviewIInv ==
  ASSUME IInv, NEW r \in Reviewers, ContinueReview(r) PROVE IInv'
<1> USE InstanceAssumption DEF IInv
<1>1. /\ phase = "dispatch" /\ OnDuty(r, now) /\ r \in Assigned
      /\ times' = times \cup {NextStop(r, assigned[r], used[assigned[r]])}
      /\ todo' = todo \ {r}
      /\ UNCHANGED <<phase, now, previous, pr, assigned, used, active, pending,
                     truncated, boundary>>
  BY DEF ContinueReview, Dispatching, At, Assigned
<1>2. /\ now \in Nat /\ now \in 0 .. Horizon /\ assigned[r] \in PRs
      /\ used[assigned[r]] \in Nat
  <2>1. assigned[r] \in PRs BY <1>1 DEF TypeOK, Assigned
  <2>2. used[assigned[r]] \in Nat BY <2>1 DEF TypeOK
  <2>3. now \in 0 .. Horizon /\ now \in Nat BY DEF TypeOK
  <2> QED BY <2>1, <2>2, <2>3
<1>3. used[assigned[r]] < Service[assigned[r]] BY <1>1 DEF ServiceLeft
<1>4. NextStop(r, assigned[r], used[assigned[r]]) \in now + 1 .. Horizon
  BY <1>1, <1>2, <1>3, NextStopAhead
<1>5. TypeOK'
  <2>1. now + 1 .. Horizon \subseteq 0 .. Horizon BY <1>2
  <2>2. times' \subseteq 0 .. Horizon BY <1>1, <1>4, <2>1 DEF TypeOK
  <2> QED BY <1>1, <2>2 DEF TypeOK
<1>6. Sanity' /\ Timely' BY <1>1, QuietSane
<1>7. HeapAhead'
  <2>1. \A t \in times' : now < t BY <1>1, <1>2, <1>4 DEF HeapAhead
  <2> QED BY <1>1, <2>1 DEF HeapAhead
<1>8. LoopSound' BY <1>1 DEF LoopSound
<1>9. NoStrayWakeUp' BY <1>1 DEF NoStrayWakeUp, Waiting, WakeUpAt
<1>10. ReviewOwnership' BY <1>1 DEF ReviewOwnership, Assigned
<1>11. ServiceLeft' BY <1>1 DEF ServiceLeft, Assigned
<1> QED BY <1>5, <1>6, <1>7, <1>8, <1>9, <1>10, <1>11

(* A queued proposal passes to the idle reviewer, who is not its author.   *)
LEMMA StartReviewIInv ==
  ASSUME IInv, NEW r \in Reviewers, StartReview(r) PROVE IInv'
<1> USE InstanceAssumption DEF IInv
<1>1. PICK p \in FirstCandidates(r) :
        /\ pr' = [pr EXCEPT ![p] = ReviewStarted(@, now)]
        /\ assigned' = [assigned EXCEPT ![r] = p]
        /\ used' = [used EXCEPT ![p] = 0]
        /\ times' = times \cup {NextStop(r, p, 0)}
  BY DEF StartReview
<1>2. /\ phase = "dispatch" /\ OnDuty(r, now) /\ assigned[r] = None
      /\ todo' = todo \ {r}
      /\ UNCHANGED <<phase, now, previous, active, pending, truncated>>
  BY DEF StartReview, Dispatching, At
<1>3. p \in PRs /\ pr[p].state = "queued_for_review" /\ pr[p].author # r
  BY DEF FirstCandidates, Candidates
<1>4. now \in Nat /\ now \in 0 .. Horizon BY DEF TypeOK
<1>5. Applied(p, "in_review")
  <2>1. Sane(pr[p]) /\ pr[p].last_transition_at <= now
    BY <1>3 DEF Sanity, Timely
  <2>2. pr[p].last_transition_at \in Nat BY <2>1 DEF Sane, PullRequest
  <2>3. Accepted(pr[p], ReviewStarted(pr[p], now), now, "in_review")
    BY <1>3, <1>4, <2>1, <2>2, ReviewStartedSane
  <2> QED BY <1>1, <1>3, <2>3, ApplyOne DEF TypeOK
<1>6. /\ pr' \in [PRs -> PullRequest] /\ pr'[p].state = "in_review"
      /\ pr'[p].author = pr[p].author
      /\ \A x \in PRs : x = p \/ pr'[x] = pr[x]
  BY <1>5 DEF Applied
<1>7. Service[p] \in Nat /\ 0 < Service[p] BY <1>3, PositiveService
<1>8. NextStop(r, p, 0) \in now + 1 .. Horizon
  BY <1>2, <1>3, <1>4, <1>7, NextStopAhead
<1>9. /\ assigned'[r] = p /\ used'[p] = 0 /\ p # None
      /\ assigned' \in [Reviewers -> PRs \cup {None}] /\ used' \in [PRs -> Nat]
      /\ \A x \in Reviewers : x = r \/ assigned'[x] = assigned[x]
      /\ \A x \in PRs : x = p \/ used'[x] = used[x]
  BY <1>1, <1>3 DEF TypeOK, None
<1>10. Assigned' = Assigned \cup {r} BY <1>9 DEF Assigned
<1>11. \A x \in Assigned : /\ x # r /\ assigned'[x] = assigned[x]
                           /\ assigned[x] \in PRs /\ assigned[x] # p
                           /\ pr'[assigned[x]] = pr[assigned[x]]
                           /\ used'[assigned[x]] = used[assigned[x]]
  <2> TAKE x \in Assigned
  <2>1. x # r /\ assigned'[x] = assigned[x] BY <1>2, <1>9 DEF Assigned
  <2>2. assigned[x] \in PRs BY DEF Assigned, TypeOK
  <2>3. assigned[x] # p
    BY <1>3 DEF ReviewOwnership, IsTerminal, Terminal
  <2> QED BY <1>6, <1>9, <2>1, <2>2, <2>3
<1>12. TypeOK'
  <2>1. now + 1 .. Horizon \subseteq 0 .. Horizon BY <1>4
  <2>2. times' \subseteq 0 .. Horizon BY <1>1, <1>8, <2>1 DEF TypeOK
  <2> QED BY <1>2, <1>6, <1>9, <2>2 DEF TypeOK
<1>13. Sanity' /\ Timely' BY <1>2, <1>3, <1>4, <1>5, AppliedSane
<1>14. HeapAhead'
  <2>1. \A t \in times' : now < t BY <1>1, <1>2, <1>4, <1>8 DEF HeapAhead
  <2> QED BY <1>2, <2>1 DEF HeapAhead
<1>15. LoopSound' BY <1>2 DEF LoopSound
<1>16. NoStrayWakeUp'
  <2>1. \A e \in pending : e[1] # p
    BY <1>3 DEF NoStrayWakeUp, Waiting, IsTerminal, Terminal
  <2>2. /\ \A e \in pending' : e \in pending
        /\ phase' = phase /\ todo' \subseteq todo /\ phase # "settle"
    BY <1>2
  <2> QED BY <1>3, <1>5, <2>1, <2>2, AppliedNoStray
<1>17. ReviewOwnership'
  <2>1. \A x \in PRs : pr'[x].state = "in_review" =>
          \E y \in Reviewers : assigned'[y] = x
    <3> SUFFICES ASSUME NEW x \in PRs, pr'[x].state = "in_review", x # p
                 PROVE  \E y \in Reviewers : assigned'[y] = x
      BY <1>9
    <3>1. pr[x].state = "in_review" BY <1>6
    <3>2. PICK y \in Reviewers : assigned[y] = x BY <3>1 DEF ReviewOwnership
    <3>3. y \in Assigned BY <3>2 DEF Assigned, None
    <3> QED BY <1>11, <3>2, <3>3
  <2>2. \A x, y \in Assigned' : assigned'[x] = assigned'[y] => x = y
    BY <1>9, <1>10, <1>11 DEF ReviewOwnership
  <2>3. \A x \in Assigned : /\ pr[assigned[x]].author # x
                            /\ pr[assigned[x]].state = "in_review"
    <3>1. now # Horizon BY <1>2, <1>4 DEF HeapAhead
    <3> QED BY <1>2, <3>1 DEF ReviewOwnership
  <2> QED BY <1>2, <1>3, <1>6, <1>9, <1>10, <1>11, <2>1, <2>2, <2>3
          DEF ReviewOwnership, IsTerminal
<1>18. ServiceLeft' BY <1>2, <1>7, <1>9, <1>10, <1>11 DEF ServiceLeft
<1> QED BY <1>12, <1>13, <1>14, <1>15, <1>16, <1>17, <1>18

-----------------------------------------------------------------------------
(* An open proposal whose deadline is now leaves whatever state it is in;  *)
(* its reviewer, if it has one, is released by the finish loop.            *)
LEMMA AbandonIInv ==
  ASSUME IInv, NEW p \in PRs, Abandon(p) PROVE IInv'
<1> USE InstanceAssumption DEF IInv
<1>1. /\ phase = "abandon" /\ p \in todo /\ p \in Admitted
      /\ todo' = todo \ {p}
      /\ pr' = [pr EXCEPT ![p] = IF IsTerminal(@) THEN @ ELSE Abandoned(@, now)]
      /\ UNCHANGED <<phase, now, previous, times, assigned, used, active,
                     pending, truncated>>
  BY DEF Abandon, At, LoopSound
<1>2. /\ now \in Nat /\ pr \in [PRs -> PullRequest] /\ Sane(pr[p])
      /\ pr[p].state # "ready" /\ now >= pr[p].last_transition_at
  <2>1. now \in Nat /\ pr \in [PRs -> PullRequest] BY DEF TypeOK
  <2>2. Sane(pr[p]) /\ pr[p].state # "ready" BY <1>1 DEF Sanity, Admitted
  <2>3. pr[p].last_transition_at <= now BY <2>2 DEF Timely
  <2>4. pr[p].last_transition_at \in Nat BY <2>2 DEF Sane, PullRequest
  <2> QED BY <2>1, <2>2, <2>3, <2>4
<1>3. /\ pr' \in [PRs -> PullRequest] /\ Sanity' /\ Timely'
      /\ \A x \in PRs : \/ pr'[x] = pr[x]
                        \/ /\ x = p /\ IsTerminal(pr'[x])
                           /\ pr'[x].author = pr[x].author
                           /\ pr'[x].ready_at = pr[x].ready_at
  <2>1. CASE IsTerminal(pr[p])
    <3>1. pr' = pr BY <1>1, <1>2, <2>1
    <3> QED BY <1>1, <1>2, <3>1, QuietSane
  <2>2. CASE ~IsTerminal(pr[p])
    <3>1. pr[p].state \in Live
      BY <1>2, <2>2 DEF Sane, PullRequest, IsTerminal
    <3>2. Accepted(pr[p], Abandoned(pr[p], now), now, "closed_without_merge")
      BY <1>2, <3>1, AbandonedSane
    <3>3. Applied(p, "closed_without_merge")
      BY <1>1, <1>2, <2>2, <3>2, ApplyOne
    <3>4. Sanity' /\ Timely' BY <1>1, <1>2, <3>3, AppliedSane
    <3> QED BY <3>3, <3>4 DEF Applied, IsTerminal, Terminal
  <2> QED BY <2>1, <2>2
<1>4. TypeOK' BY <1>1, <1>3 DEF TypeOK
<1>5. /\ Admitted' = Admitted
      /\ \A x \in Admitted : pr'[x].ready_at = pr[x].ready_at
  BY <1>1, <1>3 DEF Admitted, IsTerminal, Terminal
<1>6. HeapAhead' BY <1>1, <1>5 DEF HeapAhead
<1>7. LoopSound' BY <1>1, <1>5 DEF LoopSound
<1>8. NoStrayWakeUp'
  <2>1. \A x \in PRs : ~IsTerminal(pr'[x]) => pr'[x] = pr[x] BY <1>3
  <2> QED BY <1>1, <2>1 DEF NoStrayWakeUp, Waiting, WakeUpAt
<1>9. ReviewOwnership'
  <2>1. \A x \in PRs : pr'[x].state = "in_review" => pr[x].state = "in_review"
    BY <1>3 DEF IsTerminal, Terminal
  <2>2. \A r \in Assigned :
          LET x == assigned[r] IN
          /\ x \in PRs /\ pr'[x].author = pr[x].author
          /\ pr'[x] = pr[x] \/ IsTerminal(pr'[x])
    BY <1>3 DEF Assigned, TypeOK
  <2> QED BY <1>1, <2>1, <2>2 DEF ReviewOwnership, Assigned
<1>10. ServiceLeft' BY <1>1 DEF ServiceLeft, Assigned
<1> QED BY <1>3, <1>4, <1>6, <1>7, <1>8, <1>9, <1>10

(* At the horizon what is admitted and open becomes unresolved.            *)
LEMMA CensorIInv ==
  ASSUME IInv, Censor PROVE IInv'
<1> USE InstanceAssumption DEF IInv
<1>1. /\ phase = "censor" /\ phase' = "record" /\ now = Horizon
      /\ pr' = [x \in PRs |-> IF x \in Admitted /\ ~IsTerminal(pr[x])
                              THEN HorizonReached(pr[x], now) ELSE pr[x]]
      /\ UNCHANGED <<todo, now, previous, times, assigned, used, active,
                     pending, truncated>>
  BY DEF Censor, At, HeapAhead
<1>2. now \in Nat /\ pr \in [PRs -> PullRequest] BY DEF TypeOK
<1>3. \A x \in PRs :
        /\ Sane(pr'[x]) /\ pr'[x].author = pr[x].author
        /\ \/ x \notin Admitted /\ pr'[x] = pr[x]
           \/ IsTerminal(pr[x]) /\ pr'[x] = pr[x]
           \/ IsTerminal(pr'[x]) /\ pr'[x].last_transition_at = now
  <2> TAKE x \in PRs
  <2>1. Sane(pr[x]) BY DEF Sanity
  <2>2. CASE x \in Admitted /\ ~IsTerminal(pr[x])
    <3>1. pr[x].state \in Live
      BY <2>1, <2>2 DEF Sane, PullRequest, IsTerminal
    <3>2. pr[x].last_transition_at <= now BY <2>2 DEF Timely, Admitted
    <3>3. pr[x].last_transition_at \in Nat BY <2>1 DEF Sane, PullRequest
    <3>4. Accepted(pr[x], HorizonReached(pr[x], now), now, "unresolved")
      BY <1>2, <2>1, <3>1, <3>2, <3>3, HorizonReachedSane
    <3>5. pr'[x] = HorizonReached(pr[x], now) BY <1>1, <2>2
    <3> QED BY <3>4, <3>5 DEF Accepted, SameProposal, IsTerminal, Terminal
  <2>3. CASE ~(x \in Admitted /\ ~IsTerminal(pr[x]))
    <3>1. pr'[x] = pr[x] BY <1>1, <2>3
    <3> QED BY <2>1, <2>3, <3>1
  <2> QED BY <2>2, <2>3
<1>4. pr' \in [PRs -> PullRequest]
  <2>1. \A x \in PRs : pr'[x] \in PullRequest BY <1>3 DEF Sane
  <2> QED BY <1>1, <2>1
<1>5. TypeOK' BY <1>1, <1>4 DEF TypeOK, Phases
<1>6. Sanity' BY <1>3 DEF Sanity
<1>7. Timely'
  <2> SUFFICES ASSUME NEW x \in PRs
               PROVE  IF pr'[x].state = "ready"
                      THEN pr'[x].last_transition_at = pr'[x].ready_at
                      ELSE pr'[x].last_transition_at <= now
    BY <1>1 DEF Timely
  <2>1. CASE pr'[x] = pr[x] BY <2>1 DEF Timely
  <2>2. CASE IsTerminal(pr'[x]) /\ pr'[x].last_transition_at = now
    BY <1>2, <2>2 DEF IsTerminal, Terminal
  <2> QED BY <1>3, <2>1, <2>2
<1>8. HeapAhead' BY <1>1 DEF HeapAhead
<1>9. LoopSound' BY <1>1 DEF LoopSound
<1>10. NoStrayWakeUp'
  <2> SUFFICES ASSUME NEW x \in PRs, ~IsTerminal(pr'[x])
               PROVE  \A e \in pending : e[1] = x =>
                        Waiting(x)' /\ e[2] = WakeUpAt(x)'
    BY <1>1 DEF NoStrayWakeUp
  <2>1. pr'[x] = pr[x] /\ x \notin Admitted BY <1>3
  <2>2. ~IsTerminal(pr[x]) /\ ~Waiting(x)
    BY <2>1 DEF Admitted, IsTerminal, Terminal, Waiting
  <2> QED BY <2>2 DEF NoStrayWakeUp
<1>11. ReviewOwnership'
  <2>1. \A x \in PRs : pr'[x].state # "in_review"
    BY <1>3 DEF Admitted, IsTerminal, Terminal
  <2>2. \A r \in Assigned :
          LET x == assigned[r] IN
          x \in Admitted /\ pr'[x].author = pr[x].author
    <3> TAKE r \in Assigned
    <3>1. assigned[r] \in PRs BY DEF Assigned, TypeOK
    <3>2. assigned[r] \in Admitted
      BY <3>1 DEF ReviewOwnership, Admitted, IsTerminal, Terminal
    <3> QED BY <1>3, <3>1, <3>2
  <2>3. \A x \in Admitted : IsTerminal(pr'[x]) BY <1>3 DEF Admitted
  <2> QED BY <1>1, <2>1, <2>2, <2>3 DEF ReviewOwnership, Assigned
<1>12. ServiceLeft' BY <1>1 DEF ServiceLeft, Assigned
<1> QED BY <1>5, <1>6, <1>7, <1>8, <1>9, <1>10, <1>11, <1>12

(* Popping the next instant moves the clock forward and accounts service   *)
(* to reviews only.                                                        *)
LEMMA AdvanceIInv ==
  ASSUME IInv, Advance PROVE IInv'
<1> USE InstanceAssumption DEF IInv
<1>1. PICK t \in times :
        /\ \A u \in times : t <= u
        /\ now' = t
        /\ times' = times \ {t}
        /\ pr' = [p \in PRs |-> IF p \in UnderService
                                THEN ConsumeReviewService(pr[p], t - previous)
                                ELSE pr[p]]
        /\ used' = [p \in PRs |-> IF p \in UnderService
                                  THEN used[p] + (t - previous) ELSE used[p]]
        /\ active' = [r \in Reviewers |-> IF r \in Working
                                          THEN active[r] + (t - previous)
                                          ELSE active[r]]
        /\ IF t = Horizon
           THEN phase' = "censor" /\ todo' = {}
           ELSE /\ phase' = "abandon"
                /\ todo' = {p \in Admitted : pr[p].abandonment_deadline = t}
  BY DEF Advance
<1>2. /\ phase = "advance" /\ now < Horizon /\ previous = now
      /\ UNCHANGED <<previous, assigned, pending, truncated>>
  BY DEF Advance, At, HeapAhead
<1>3. /\ now \in Nat /\ t \in 0 .. Horizon /\ t \in Nat /\ now <= t
      /\ Admitted # {} => now < t
      /\ t - previous \in Nat
  <2>1. now \in Nat /\ t \in 0 .. Horizon /\ t \in Nat BY DEF TypeOK
  <2>2. now < t \/ (now = t /\ Admitted = {}) BY DEF HeapAhead
  <2> QED BY <1>2, <2>1, <2>2
<1>4. \A r \in Assigned : assigned[r] \in PRs /\ pr[assigned[r]].state = "in_review"
  <2> TAKE r \in Assigned
  <2>1. assigned[r] \in PRs BY DEF Assigned, TypeOK
  <2>2. now # Horizon BY <1>2, <1>3
  <2> QED BY <1>2, <2>1, <2>2 DEF ReviewOwnership
<1>5. \A p \in PRs : /\ Sane(pr'[p]) /\ pr'[p].state = pr[p].state
                     /\ pr'[p].last_transition_at = pr[p].last_transition_at
                     /\ pr'[p].author = pr[p].author
                     /\ pr'[p].ready_at = pr[p].ready_at
  <2> TAKE p \in PRs
  <2>1. Sane(pr[p]) BY DEF Sanity
  <2>2. CASE p \in UnderService
    <3>1. pr[p].state = "in_review"
      BY <1>4, <2>2 DEF UnderService, Working
    <3>2. Accepted(pr[p], ConsumeReviewService(pr[p], t - previous),
                   pr[p].last_transition_at, "in_review")
      BY <1>3, <2>1, <3>1, ConsumeSane
    <3>3. pr'[p] = ConsumeReviewService(pr[p], t - previous) BY <1>1, <2>2
    <3> QED BY <3>1, <3>2, <3>3 DEF Accepted, SameProposal
  <2>3. CASE p \notin UnderService
    <3>1. pr'[p] = pr[p] BY <1>1, <2>3
    <3> QED BY <2>1, <3>1
  <2> QED BY <2>2, <2>3
<1>6. Admitted' = Admitted BY <1>5 DEF Admitted
<1>7. TypeOK'
  <2>1. pr' \in [PRs -> PullRequest]
    <3>1. \A p \in PRs : pr'[p] \in PullRequest BY <1>5 DEF Sane
    <3> QED BY <1>1, <3>1
  <2>2. used' \in [PRs -> Nat]
    <3>1. \A p \in PRs : used[p] + (t - previous) \in Nat /\ used[p] \in Nat
      BY <1>3 DEF TypeOK
    <3> QED BY <1>1, <3>1
  <2>3. active' \in [Reviewers -> Nat]
    <3>1. \A r \in Reviewers : /\ active[r] + (t - previous) \in Nat
                               /\ active[r] \in Nat
      BY <1>3 DEF TypeOK
    <3> QED BY <1>1, <3>1
  <2>4. phase' \in {"censor", "abandon"} /\ todo' \subseteq PRs
    BY <1>1 DEF Admitted
  <2>5. times' \subseteq 0 .. Horizon /\ now' \in 0 .. Horizon
    BY <1>1, <1>3 DEF TypeOK
  <2> QED BY <1>2, <2>1, <2>2, <2>3, <2>4, <2>5 DEF TypeOK, Phases
<1>8. Sanity' BY <1>5 DEF Sanity
<1>9. Timely'
  <2> SUFFICES ASSUME NEW p \in PRs
               PROVE  IF pr[p].state = "ready"
                      THEN pr[p].last_transition_at = pr[p].ready_at
                      ELSE pr[p].last_transition_at <= t
    BY <1>1, <1>5 DEF Timely
  <2>1. pr[p].last_transition_at \in Nat
    BY DEF Sanity, Sane, PullRequest
  <2> QED BY <1>3, <2>1 DEF Timely
<1>10. HeapAhead'
  <2>1. \A u \in times' : now' < u
    <3> TAKE u \in times'
    <3>1. u \in times /\ u # t /\ t <= u BY <1>1
    <3>2. u \in Nat BY <3>1 DEF TypeOK
    <3> QED BY <1>1, <1>3, <3>1, <3>2
  <2>2. /\ phase' = "censor" => now' = Horizon
        /\ phase' # "censor" => phase' = "abandon" /\ now' < Horizon
    BY <1>1, <1>3
  <2> QED BY <2>1, <2>2 DEF HeapAhead
<1>11. LoopSound'
  <2>1. \A p \in Admitted : pr[p].ready_at < t
    <3> TAKE p \in Admitted
    <3>1. pr[p].last_transition_at <= now BY DEF Timely, Admitted
    <3>2. /\ pr[p].ready_at <= pr[p].last_transition_at
          /\ pr[p].ready_at \in Nat /\ pr[p].last_transition_at \in Nat
      BY DEF Admitted, Sanity, Sane, Contract, Chronology, PullRequest
    <3> QED BY <1>3, <3>1, <3>2
  <2>2. \A p \in Admitted' : pr'[p].ready_at < now'
    BY <1>1, <1>5, <1>6, <2>1 DEF Admitted
  <2>3. phase' = "abandon" => todo' \subseteq Admitted' BY <1>1, <1>6
  <2>4. phase' \in {"censor", "abandon"} BY <1>1
  <2> QED BY <2>2, <2>3, <2>4 DEF LoopSound
<1>12. NoStrayWakeUp'
  <2>1. \A p \in PRs : /\ IsTerminal(pr'[p]) = IsTerminal(pr[p])
                       /\ Waiting(p)' = Waiting(p)
                       /\ WakeUpAt(p)' = WakeUpAt(p)
    BY <1>5 DEF IsTerminal, Waiting, WakeUpAt
  <2>2. phase' # "settle" BY <1>1
  <2> QED BY <1>2, <2>1, <2>2 DEF NoStrayWakeUp
<1>13. ReviewOwnership'
  BY <1>2, <1>4, <1>5 DEF ReviewOwnership, Assigned
<1>14. ServiceLeft'
  <2>1. phase' \in {"censor", "abandon"} BY <1>1
  <2> QED BY <2>1 DEF ServiceLeft
<1> QED BY <1>7, <1>8, <1>9, <1>10, <1>11, <1>12, <1>13, <1>14
-----------------------------------------------------------------------------
(* Every step of the engine, and every stutter, preserves the invariant.   *)
LEMMA NextIInv == IInv /\ [Next]_vars => IInv'
<1> SUFFICES ASSUME IInv, [Next]_vars PROVE IInv' OBVIOUS
<1>1. CASE UNCHANGED vars
  <2>1. /\ TypeOK' = TypeOK /\ Sanity' = Sanity /\ Timely' = Timely
        /\ HeapAhead' = HeapAhead /\ LoopSound' = LoopSound
    BY <1>1 DEF vars, TypeOK, Sanity, Timely, HeapAhead, LoopSound, Admitted,
                Assigned
  <2>2. /\ NoStrayWakeUp' = NoStrayWakeUp /\ ServiceLeft' = ServiceLeft
        /\ ReviewOwnership' = ReviewOwnership
    BY <1>1 DEF vars, NoStrayWakeUp, ServiceLeft, ReviewOwnership, Waiting,
                WakeUpAt, Assigned
  <2> QED BY <2>1, <2>2 DEF IInv
<1>2. CASE Advance BY <1>2, AdvanceIInv
<1>3. CASE Censor BY <1>3, CensorIInv
<1>4. CASE Record BY <1>4, RecordIInv
<1>5. CASE AbandonmentsDone BY <1>5, AbandonmentsDoneIInv
<1>6. CASE FinishesDone BY <1>6, FinishesDoneIInv
<1>7. CASE NextBatch BY <1>7, NextBatchIInv
<1>8. CASE BatchesDone BY <1>8, BatchesDoneIInv
<1>9. CASE DispatchDone BY <1>9, DispatchDoneIInv
<1>10. ASSUME NEW p \in PRs,
              \/ Abandon(p) \/ Admit(p) \/ SkipTerminal(p) \/ Merge(p)
              \/ SubmitRevision(p) \/ TruncateVerification(p)
              \/ FailVerification(p) \/ PassVerification(p)
       PROVE  IInv'
  <2>1. CASE TruncateVerification(p)
    BY <2>1, TruncateIInv DEF TruncateVerification, Settling
  <2> QED BY <1>10, <2>1, AbandonIInv, AdmitIInv, SkipTerminalIInv, MergeIInv,
             SubmitRevisionIInv, FailVerificationIInv, PassVerificationIInv
<1>11. ASSUME NEW r \in Reviewers,
              \/ ReleaseReviewer(r) \/ CompleteReview(r) \/ KeepReviewing(r)
              \/ PassOver(r) \/ ContinueReview(r) \/ StartReview(r)
              \/ TruncateReview(r)
       PROVE  IInv'
  <2>1. CASE TruncateReview(r)
    BY <2>1, TruncateIInv DEF TruncateReview, Dispatching
  <2> QED BY <1>11, <2>1, ReleaseReviewerIInv, CompleteReviewIInv,
             KeepReviewingIInv, PassOverIInv, ContinueReviewIInv,
             StartReviewIInv
<1> QED BY <1>1, <1>2, <1>3, <1>4, <1>5, <1>6, <1>7, <1>8, <1>9, <1>10, <1>11
        DEF Next, Returned

(* The inductive invariant is an invariant of the engine.                  *)
THEOREM Inductive == Spec => []IInv
<1> QED BY InitIInv, NextIInv, PTL DEF Spec

(* Type correctness, whatever the proposals, the team and the delays.      *)
THEOREM TypeCorrect == Spec => []TypeOK
<1>1. IInv => TypeOK BY DEF IInv
<1> QED BY <1>1, Inductive, PTL

(* No run of the engine ends in a rejected event: every transition() that  *)
(* run_fifo calls is legal where it calls it, and every record it builds   *)
(* satisfies the contract of PullRequest.                                  *)
THEOREM NeverRejects == Spec => []NoRejection
<1>1. IInv => NoRejection BY DEF IInv, Sanity, Sane, NoRejection
<1> QED BY <1>1, Inductive, PTL

(* A wake-up in pending always belongs to the state its proposal is in, so *)
(* the settle loop needs no check that the wake-up is still meant.         *)
THEOREM WakeUpsMeanTheirState == Spec => []NoStrayWakeUp
<1>1. IInv => NoStrayWakeUp BY DEF IInv
<1> QED BY <1>1, Inductive, PTL

(* Every review under way has exactly one reviewer, never its author, and  *)
(* every occupied reviewer has a review.                                   *)
THEOREM ReviewsAreOwned == Spec => []ReviewOwnership
<1>1. IInv => ReviewOwnership BY DEF IInv
<1> QED BY <1>1, Inductive, PTL

-----------------------------------------------------------------------------
(* What one step may not do to the reviewer of a review under way.         *)
KeptByReviewer ==
  \A r \in Assigned :
    /\ pr[assigned[r]].state = "in_review"
    /\ pr'[assigned[r]].state = "in_review"
    => assigned'[r] = assigned[r]

(* A completed visit is no longer in review.                               *)
LEMMA CompletionEndsReview ==
  ASSUME IInv, NEW r \in Reviewers, CompleteReview(r), r \in Assigned,
         pr[assigned[r]].state = "in_review"
  PROVE  pr'[assigned[r]].state # "in_review"
<1> DEFINE p == assigned[r]
<1>1. /\ p \in PRs /\ now \in Nat /\ pr \in [PRs -> PullRequest]
      /\ Sane(pr[p]) /\ pr[p].last_transition_at <= now
  <2>1. p \in PRs BY DEF IInv, TypeOK, Assigned
  <2>2. now \in Nat /\ pr \in [PRs -> PullRequest]
    BY InstanceAssumption DEF IInv, TypeOK
  <2> QED BY <2>1, <2>2 DEF IInv, Sanity, Timely
<1>2. pr[p].last_transition_at \in Nat BY <1>1 DEF Sane, PullRequest
<1>3. ChangesRequested(pr[p], now).state = "author_response"
  BY <1>1, <1>2, ChangesRequestedSane DEF Accepted
<1>4. ReviewApproved(pr[p], now).state = "approved_waiting_merge"
  BY <1>1, <1>2, ReviewApprovedSane DEF Accepted
<1>5. \/ pr' = [pr EXCEPT ![p] = ChangesRequested(@, now)]
      \/ pr' = [pr EXCEPT ![p] = ReviewApproved(@, now)]
  BY DEF CompleteReview
<1>6. pr'[p] \in {ChangesRequested(pr[p], now), ReviewApproved(pr[p], now)}
  BY <1>1, <1>5
<1> QED BY <1>3, <1>4, <1>6

(* A review under way stays with its reviewer: finishing or terminating it *)
(* are the only ways a reviewer is freed, and only an idle one is given    *)
(* another proposal.                                                       *)
THEOREM ReviewsAreNotHandedOver == Spec => NoHandover
<1>1. ASSUME IInv, [Next]_vars PROVE KeptByReviewer
  <2>1. CASE assigned' = assigned BY <2>1 DEF KeptByReviewer
  <2>2. ASSUME NEW r \in Reviewers, ReleaseReviewer(r) PROVE KeptByReviewer
    <3>1. pr[assigned[r]].state # "in_review"
      BY <2>2 DEF ReleaseReviewer, IsTerminal, Terminal
    <3>2. \A x \in Reviewers : x # r => assigned'[x] = assigned[x]
      BY <1>1, <2>2 DEF ReleaseReviewer, IInv, TypeOK
    <3> QED BY <3>1, <3>2 DEF KeptByReviewer, Assigned
  <2>3. ASSUME NEW r \in Reviewers, CompleteReview(r) PROVE KeptByReviewer
    <3>1. \A x \in Reviewers : x # r => assigned'[x] = assigned[x]
      BY <1>1, <2>3 DEF CompleteReview, IInv, TypeOK
    <3> QED BY <1>1, <2>3, <3>1, CompletionEndsReview
            DEF KeptByReviewer, Assigned
  <2>4. ASSUME NEW r \in Reviewers, StartReview(r) PROVE KeptByReviewer
    <3>1. r \notin Assigned BY <2>4 DEF StartReview, Assigned
    <3>2. \A x \in Reviewers : x # r => assigned'[x] = assigned[x]
      BY <1>1, <2>4 DEF StartReview, IInv, TypeOK
    <3> QED BY <3>1, <3>2 DEF KeptByReviewer, Assigned
  <2>5. \/ assigned' = assigned
        \/ \E r \in Reviewers :
             ReleaseReviewer(r) \/ CompleteReview(r) \/ StartReview(r)
    BY <1>1 DEF Next, vars, Advance, Censor, Record, Returned,
       AbandonmentsDone, FinishesDone, NextBatch, BatchesDone, DispatchDone,
       Abandon, Admit, SkipTerminal, Merge, SubmitRevision,
       TruncateVerification, FailVerification, PassVerification, Verifies,
       KeepReviewing, PassOver, ContinueReview, TruncateReview
  <2> QED BY <2>1, <2>2, <2>3, <2>4, <2>5
<1>2. NoHandover <=> [][KeptByReviewer]_vars BY DEF NoHandover, KeptByReviewer
<1> QED BY <1>1, <1>2, Inductive, PTL DEF Spec

-----------------------------------------------------------------------------
(* What run_fifo promises beyond the ownership of reviews.  The argument   *)
(* is one idea used over and over: the heap holds the next instant at      *)
(* which anything is due, so an advance cannot jump over it.  Agenda says  *)
(* so part by part, on top of IInv.                                        *)

(* The horizon and every change of duty ahead of the clock are events.     *)
HeapComplete ==
  /\ now < Horizon => Horizon \in times
  /\ \A b \in Boundaries : now < b => b \in times

(* A truncated run does nothing but record where it stands.                *)
Stopped == truncated => phase \in {"record", "done"} /\ now < Horizon

(* A proposal not yet admitted has its readiness ahead, or its turn comes  *)
(* at this very instant.                                                   *)
ArrivalsAhead ==
  \A p \in PRs : pr[p].state = "ready" /\ pr[p].ready_at < Horizon =>
    \/ pr[p].ready_at \in times
    \/ phase \in {"abandon", "finish"} /\ pr[p].ready_at = now
    \/ phase = "admit" /\ p \in todo

(* An open proposal has its deadline ahead, in the heap if it falls before *)
(* the horizon; it is met in the abandon loop, or by the censoring.        *)
DeadlinesAhead ==
  /\ \A p \in PRs :
       LET d == pr[p].abandonment_deadline IN
       /\ pr[p].state = "ready" => d = None
       /\ d # None =>
            /\ pr[p].terminal_reason = "abandoned" =>
                 pr[p].last_transition_at = d
            /\ pr[p].state = "merged" => pr[p].last_transition_at < d
            /\ ~IsTerminal(pr[p]) =>
                 /\ \/ now < d
                    \/ now = d /\ phase = "censor"
                    \/ now = d /\ phase = "abandon" /\ p \in todo
                 /\ now < d /\ d < Horizon => d \in times
  /\ phase = "abandon" => \A p \in todo : pr[p].abandonment_deadline = now

(* The wake-ups due now are used up before the instant is dispatched.      *)
WakeUpsAhead ==
  /\ NoLostWakeUp
  /\ phase \in {"dispatch", "record", "advance", "done"} /\ ~truncated =>
       \A e \in pending : e[2] # now

(* The dispatch has dealt with r at this instant.                          *)
Settled(r) ==
  \/ phase = "dispatch" /\ r \notin todo
  \/ phase \in {"record", "advance"} /\ ~truncated /\ now < Horizon

(* A visit under way lacks service, and the instant at which it will be    *)
(* complete or interrupted is in the heap.                                 *)
ServiceAhead ==
  /\ \A p \in PRs : used[p] <= Service[p]
  /\ \A r \in Assigned : Settled(r) =>
       /\ used[assigned[r]] < Service[assigned[r]]
       /\ OnDuty(r, now) => NextStop(r, assigned[r], used[assigned[r]]) \in times

(* Whoever the dispatch left idle on duty finds nothing to review.         *)
NothingForIdle ==
  \A r \in Reviewers : Settled(r) /\ OnDuty(r, now) /\ assigned[r] = None =>
    \A p \in Count("queued_for_review") : pr[p].author = r

(* Somebody other than the author is on duty after p became ready.         *)
Reviewable(p) ==
  \E r \in Reviewers :
    /\ r # pr[p].author
    /\ \E d \in ClippedDuty(r) : d[2] > pr[p].ready_at

(* An approval is earned like the merge it leads to, and a visit took a    *)
(* reviewer who was there.                                                 *)
Earned ==
  \A p \in PRs :
    /\ pr[p].review_bypassed => Bypass
    /\ pr[p].state = "in_review" => pr[p].review_visit_count >= 1
    /\ pr[p].state \in {"approved_waiting_merge", "merged"}
         /\ ~pr[p].review_bypassed =>
         pr[p].review_visit_count >= 1 /\ used[p] = Service[p]
    /\ pr[p].review_visit_count >= 1 => Reviewable(p) /\ ~TakesBypass(pr[p])
    /\ pr[p].state = "queued_for_review" => ~TakesBypass(pr[p])
    /\ pr[p].state = "ready" => pr[p].review_visit_count = 0

Spent(p) == pr[p].queue_wait_seconds + pr[p].active_review_seconds

(* Time spent in the queue and under review, up to the instant that the    *)
(* state of the proposal accounts for.                                     *)
Accounts ==
  \A p \in PRs :
    /\ pr[p].state = "ready" => Spent(p) <= 0
    /\ pr[p].state = "queued_for_review" =>
         Spent(p) <= pr[p].queue_entered_at - pr[p].ready_at
    /\ pr[p].state = "in_review" => Spent(p) <= now - pr[p].ready_at
    /\ pr[p].state \notin {"ready", "queued_for_review", "in_review"} =>
         Spent(p) <= pr[p].last_transition_at - pr[p].ready_at

(* A first review entered the queue no later than what still waits in it.  *)
QueueOrder ==
  /\ \A p \in PRs :
       /\ pr[p].review_visit_count = 0 <=> pr[p].first_review_at = None
       /\ pr[p].review_visit_count = 0 /\ ~IsTerminal(pr[p]) =>
            pr[p].queue_wait_seconds = 0
  /\ \A p, q \in PRs :
       /\ FirstVisitOver(p) /\ pr[q].state = "queued_for_review"
       /\ pr[q].author \notin Reviewers
       => FirstEntry(p) <= pr[q].queue_entered_at
  /\ FirstReviewsFifo

(* What was admitted became ready before the horizon, and is censored at   *)
(* the horizon or never moves there.                                       *)
Closing ==
  /\ \A p \in Admitted :
       /\ pr[p].ready_at < Horizon
       /\ IF pr[p].state = "unresolved" THEN pr[p].last_transition_at = Horizon
          ELSE pr[p].last_transition_at < Horizon
  /\ phase \in {"record", "done"} /\ now = Horizon =>
       \A p \in Admitted : IsTerminal(pr[p])
  /\ phase = "done" /\ ~truncated => times = {}

(* What depends on the records, the service given and the clock only.      *)
Records == Earned /\ Accounts /\ QueueOrder

Agenda ==
  /\ HeapComplete /\ Stopped /\ ArrivalsAhead /\ DeadlinesAhead
  /\ WakeUpsAhead /\ ServiceAhead /\ NothingForIdle /\ Closing /\ Records

-----------------------------------------------------------------------------
(* The records as the contract and the clock constrain them.               *)
LEMMA RecordFacts ==
  ASSUME IInv, NEW p \in PRs
  PROVE  /\ Sane(pr[p]) /\ pr[p] \in PullRequest
         /\ now \in Nat /\ now \in 0 .. Horizon /\ Horizon \in Nat
         /\ pr[p].last_transition_at \in Nat /\ pr[p].ready_at \in Nat
         /\ pr[p].ready_at <= pr[p].last_transition_at
         /\ pr[p].state # "ready" => pr[p].last_transition_at <= now
         /\ pr[p].state = "ready" => pr[p].last_transition_at = pr[p].ready_at
         /\ pr[p].queue_wait_seconds \in Nat
         /\ pr[p].active_review_seconds \in Nat
         /\ pr[p].review_visit_count \in Nat
         /\ pr[p].first_review_at \in Nat \cup {None}
         /\ pr[p].first_review_at # None =>
              pr[p].first_review_at <= pr[p].last_transition_at
         /\ pr[p].queue_entered_at \in Nat \cup {None}
         /\ pr[p].queue_entered_at # None <=> pr[p].state = "queued_for_review"
         /\ pr[p].state = "queued_for_review" =>
              pr[p].queue_entered_at <= pr[p].last_transition_at
<1>1. Sane(pr[p]) /\ pr[p] \in PullRequest BY DEF IInv, Sanity, Sane
<1>2. now \in Nat /\ now \in 0 .. Horizon /\ Horizon \in Nat
  BY InstanceAssumption DEF IInv, TypeOK
<1>3. /\ pr[p].state # "ready" => pr[p].last_transition_at <= now
      /\ pr[p].state = "ready" => pr[p].last_transition_at = pr[p].ready_at
  BY DEF IInv, Timely
<1>4. Contract(pr[p]) /\ Chronology(pr[p]) BY <1>1 DEF Sane, Contract
<1>5. /\ pr[p].last_transition_at \in Nat /\ pr[p].ready_at \in Nat
      /\ pr[p].queue_wait_seconds \in Nat
      /\ pr[p].active_review_seconds \in Nat
      /\ pr[p].review_visit_count \in Nat
      /\ pr[p].first_review_at \in Nat \cup {None}
      /\ pr[p].queue_entered_at \in Nat \cup {None}
  BY <1>1 DEF PullRequest, OptTime
<1>6. /\ pr[p].ready_at <= pr[p].last_transition_at
      /\ pr[p].first_review_at # None =>
           pr[p].first_review_at <= pr[p].last_transition_at
      /\ pr[p].queue_entered_at # None =>
           pr[p].queue_entered_at <= pr[p].last_transition_at
  BY <1>4, <1>5 DEF Chronology
<1>7. pr[p].queue_entered_at # None <=> pr[p].state = "queued_for_review"
  BY <1>1, <1>4 DEF Sane, Contract
<1> QED BY <1>1, <1>2, <1>3, <1>5, <1>6, <1>7

(* The initial states satisfy the agenda.                                  *)
LEMMA InitAgenda == Init => Agenda
<1> SUFFICES ASSUME Init PROVE Agenda OBVIOUS
<1> USE InstanceAssumption
<1>1. PICK author \in [PRs -> Authors], ready \in [PRs -> ReadyTimes],
           flags \in [PRs -> ProposalFlags] :
        pr = [p \in PRs |-> Fresh(author[p], ready[p], flags[p][1], flags[p][2])]
  BY DEF Init
<1>2. \A p \in PRs : /\ pr[p].state = "ready" /\ pr[p].ready_at \in Nat
                     /\ pr[p].terminal_reason = "none"
                     /\ pr[p].abandonment_deadline = None
                     /\ pr[p].review_visit_count = 0
                     /\ pr[p].first_review_at = None
                     /\ pr[p].queue_wait_seconds = 0
                     /\ pr[p].active_review_seconds = 0
                     /\ ~pr[p].review_bypassed
  BY <1>1 DEF Fresh
<1>3. Admitted = {} BY <1>2 DEF Admitted
<1>4. /\ phase = "advance" /\ todo = {} /\ now = 0 /\ pending = {}
      /\ truncated = FALSE /\ Assigned = {}
      /\ used = [p \in PRs |-> 0]
      /\ times = {0, Horizon} \cup Boundaries
                   \cup {t \in {pr[p].ready_at : p \in PRs} : t < Horizon}
  BY DEF Init, Assigned
<1>5. HeapComplete /\ Stopped /\ ArrivalsAhead
  BY <1>4 DEF HeapComplete, Stopped, ArrivalsAhead
<1>6. DeadlinesAhead BY <1>2, <1>4 DEF DeadlinesAhead
<1>7. WakeUpsAhead BY <1>2, <1>4 DEF WakeUpsAhead, NoLostWakeUp, Waiting
<1>8. ServiceAhead
  <2>1. \A p \in PRs : used[p] <= Service[p] BY <1>4, PositiveService
  <2> QED BY <1>4, <2>1 DEF ServiceAhead
<1>9. NothingForIdle BY <1>2 DEF NothingForIdle, Count
<1>10. Closing BY <1>3, <1>4 DEF Closing
<1>11. Earned
  <2>1. \A p \in PRs : pr[p].review_bypassed => Bypass BY <1>2
  <2>2. \A p \in PRs : ~(pr[p].review_visit_count >= 1) BY <1>2
  <2>3. \A p \in PRs : pr[p].state \notin
          {"in_review", "approved_waiting_merge", "merged", "queued_for_review"}
    BY <1>2
  <2> QED BY <1>2, <2>1, <2>2, <2>3 DEF Earned
<1>12. Accounts
  <2>1. \A p \in PRs : Spent(p) <= 0 /\ pr[p].state = "ready" BY <1>2 DEF Spent
  <2>2. \A p \in PRs : pr[p].state \notin {"queued_for_review", "in_review"}
    BY <2>1
  <2> QED BY ONLY <2>1, <2>2, Zenon DEF Accounts
<1>13. QueueOrder
  BY <1>2 DEF QueueOrder, FirstVisitOver, FirstReviewsFifo
<1> QED BY <1>5, <1>6, <1>7, <1>8, <1>9, <1>10, <1>11, <1>12, <1>13
        DEF Agenda, Records

-----------------------------------------------------------------------------
(* Steps that leave the records, the service given and the clock alone     *)
(* keep what depends on nothing else.                                      *)
LEMMA QuietRecords ==
  ASSUME Records, pr' = pr, used' = used, now' = now
  PROVE  Records'
<1>1. Earned' BY DEF Records, Earned, Reviewable, TakesBypass
<1>2. Accounts' BY DEF Records, Accounts, Spent
<1>3. QueueOrder'
  BY DEF Records, QueueOrder, FirstReviewsFifo, FirstVisitOver, FirstEntry
<1> QED BY <1>1, <1>2, <1>3 DEF Records

(* A heap that only grows stays complete.                                  *)
LEMMA GrowingHeap ==
  ASSUME HeapComplete, now' = now, times \subseteq times'
  PROVE  HeapComplete'
BY DEF HeapComplete, Boundaries, ClippedDuty

-----------------------------------------------------------------------------
(* An event applied to p that neither opens nor closes a visit.            *)
Event(p, state) == Applied(p, state) /\ SameAccounts(pr[p], pr'[p])

(* What was spent so far is accounted to the state p is now in.            *)
LEMMA EventAccounts ==
  ASSUME IInv, Accounts, NEW p \in PRs, NEW state, Event(p, state),
         state \notin {"ready", "in_review"},
         pr[p].state \notin {"queued_for_review"} \cup Terminal,
         state = "queued_for_review" => pr'[p].queue_entered_at = now,
         now' = now
  PROVE  Accounts'
<1> SUFFICES ASSUME NEW x \in PRs
             PROVE  /\ pr'[x].state = "ready" => Spent(x)' <= 0
                    /\ pr'[x].state = "queued_for_review" =>
                         Spent(x)' <= pr'[x].queue_entered_at - pr'[x].ready_at
                    /\ pr'[x].state = "in_review" =>
                         Spent(x)' <= now - pr'[x].ready_at
                    /\ pr'[x].state \notin
                         {"ready", "queued_for_review", "in_review"} =>
                         Spent(x)' <= pr'[x].last_transition_at - pr'[x].ready_at
  BY DEF Accounts
<1>1. CASE x # p
  <2>1. pr'[x] = pr[x] BY <1>1 DEF Event, Applied
  <2> QED BY <2>1 DEF Accounts, Spent
<1>2. CASE x = p
  <2>1. /\ pr'[p].state = state /\ pr'[p].last_transition_at = now
        /\ pr'[p].ready_at = pr[p].ready_at /\ Spent(p)' = Spent(p)
    BY DEF Event, Applied, SameAccounts, Spent
  <2>2. Spent(p) \in Nat BY RecordFacts DEF Spent
  <2>3. Spent(p) <= now - pr[p].ready_at
    <3>1. CASE pr[p].state = "ready"
      <4>1. pr[p].ready_at <= now
        BY <3>1, RecordFacts DEF IInv, Event, Applied, Sane, Contract, Chronology
      <4> QED BY <2>2, <3>1, <4>1, RecordFacts DEF Accounts
    <3>2. CASE pr[p].state = "in_review"
      BY <3>2 DEF Accounts
    <3>3. CASE pr[p].state \notin {"ready", "in_review"}
      <4>1. Spent(p) <= pr[p].last_transition_at - pr[p].ready_at
        BY <3>3 DEF Accounts
      <4> QED BY <2>2, <3>3, <4>1, RecordFacts
    <3> QED BY <3>1, <3>2, <3>3
  <2> QED BY <1>2, <2>1, <2>3
<1> QED BY <1>1, <1>2

(* The proofs of an earned approval are unaffected, or new with it.        *)
LEMMA EventEarned ==
  ASSUME Earned, NEW p \in PRs, NEW state, Event(p, state),
         state \notin {"ready", "in_review"}, used' = used,
         pr'[p].review_bypassed => Bypass,
         state \in {"approved_waiting_merge", "merged"}
           /\ ~pr'[p].review_bypassed =>
           pr[p].review_visit_count >= 1 /\ used[p] = Service[p],
         state = "queued_for_review" => ~TakesBypass(pr'[p]),
         pr[p].review_visit_count >= 1 => ~TakesBypass(pr'[p])
  PROVE  Earned'
<1> DEFINE E(x) ==
      /\ pr'[x].review_bypassed => Bypass
      /\ pr'[x].state = "in_review" => pr'[x].review_visit_count >= 1
      /\ pr'[x].state \in {"approved_waiting_merge", "merged"}
           /\ ~pr'[x].review_bypassed =>
           pr'[x].review_visit_count >= 1 /\ used[x] = Service[x]
      /\ pr'[x].review_visit_count >= 1 =>
           Reviewable(x)' /\ ~TakesBypass(pr'[x])
      /\ pr'[x].state = "queued_for_review" => ~TakesBypass(pr'[x])
      /\ pr'[x].state = "ready" => pr'[x].review_visit_count = 0
<1>1. ASSUME NEW x \in PRs, x # p PROVE E(x)
  <2>1. pr'[x] = pr[x] BY <1>1 DEF Event, Applied
  <2>2. Reviewable(x)' <=> Reviewable(x) BY <2>1 DEF Reviewable
  <2> QED BY <2>1, <2>2 DEF Earned
<1>2. E(p)
  <2>1. /\ pr'[p].state = state /\ pr'[p].author = pr[p].author
        /\ pr'[p].ready_at = pr[p].ready_at
        /\ pr'[p].review_visit_count = pr[p].review_visit_count
    BY DEF Event, Applied, SameAccounts
  <2>2. Reviewable(p)' <=> Reviewable(p) BY <2>1 DEF Reviewable
  <2> QED BY <2>1, <2>2 DEF Earned
<1>3. \A x \in PRs : E(x) BY <1>1, <1>2
<1> QED BY <1>3 DEF Earned, TakesBypass

(* The queue order is kept: whoever joins the queue now joins it after     *)
(* every first review that has started.                                    *)
LEMMA EventOrder ==
  ASSUME IInv, QueueOrder, NEW p \in PRs, NEW state, Event(p, state),
         state \notin {"ready", "in_review"} \cup (Terminal \ {"merged"}),
         state = "queued_for_review" => pr'[p].queue_entered_at = now,
         state = "merged" => pr[p].state = "approved_waiting_merge",
         state = "approved_waiting_merge" /\ pr[p].review_visit_count = 1 =>
           pr[p].state = "in_review",
         ~IsTerminal(pr[p])
  PROVE  QueueOrder'
<1>1. /\ pr'[p].state = state /\ pr'[p].author = pr[p].author
      /\ SameAccounts(pr[p], pr'[p])
      /\ \A x \in PRs : x # p => pr'[x] = pr[x]
  BY DEF Event, Applied
<1>2. \A x \in PRs : /\ pr'[x].author = pr[x].author
                     /\ pr'[x].review_visit_count = pr[x].review_visit_count
                     /\ pr'[x].first_review_at = pr[x].first_review_at
                     /\ pr'[x].queue_wait_seconds = pr[x].queue_wait_seconds
                     /\ FirstEntry(x)' = FirstEntry(x)
  BY <1>1 DEF SameAccounts, FirstEntry
<1>3. \A x \in PRs : FirstVisitOver(x)' => FirstVisitOver(x)
  <2> TAKE x \in PRs
  <2>1. CASE x # p
    BY <1>1, <2>1 DEF FirstVisitOver
  <2>2. CASE x = p
    BY <1>1, <1>2, <2>2 DEF FirstVisitOver
  <2> QED BY <2>1, <2>2
<1>4. \A x \in PRs :
        /\ pr'[x].review_visit_count = 0 <=> pr'[x].first_review_at = None
        /\ pr'[x].review_visit_count = 0 /\ ~IsTerminal(pr'[x]) =>
             pr'[x].queue_wait_seconds = 0
  <2> TAKE x \in PRs
  <2>1. ~IsTerminal(pr'[x]) => ~IsTerminal(pr[x]) BY <1>1
  <2> QED BY <1>2, <2>1 DEF QueueOrder
<1>5. ASSUME NEW x \in PRs, NEW q \in PRs, FirstVisitOver(x)',
             pr'[q].state = "queued_for_review", pr'[q].author \notin Reviewers
      PROVE  FirstEntry(x)' <= pr'[q].queue_entered_at
  <2>1. FirstVisitOver(x) BY <1>3, <1>5
  <2>2. CASE q # p
    BY <1>1, <1>2, <1>5, <2>1, <2>2 DEF QueueOrder
  <2>3. CASE q = p
    <3>1. pr'[q].queue_entered_at = now BY <1>1, <1>5, <2>3
    <3>2. FirstEntry(x) <= now
      <4>1. pr[x].first_review_at \in Nat /\ pr[x].state # "ready"
        BY <2>1, RecordFacts DEF FirstVisitOver, QueueOrder
      <4> QED BY <4>1, RecordFacts DEF FirstEntry, None
    <3> QED BY <1>2, <3>1, <3>2
  <2> QED BY <2>2, <2>3
<1>6. FirstReviewsFifo'
  BY <1>2, <1>3 DEF QueueOrder, FirstReviewsFifo
<1> QED BY <1>4, <1>5, <1>6 DEF QueueOrder

-----------------------------------------------------------------------------
(* What each step that applies an event does to the record, the wake-ups   *)
(* and the heap.                                                           *)
LEMMA MoveOne ==
  ASSUME pr \in [PRs -> PullRequest], NEW p \in PRs, NEW q, NEW state,
         Accepted(pr[p], q, now, state), pr' = [pr EXCEPT ![p] = q]
  PROVE  Applied(p, state) /\ SameProposal(pr[p], pr'[p]) /\ pr'[p] = q
<1>1. pr'[p] = q OBVIOUS
<1>2. SameProposal(pr[p], q) BY DEF Accepted
<1> QED BY <1>1, <1>2, ApplyOne

(* The wake-up and the event that the new state calls for are scheduled.   *)
Scheduled(p, state) ==
  /\ pending \cup Wake(p, DelayOf(state)) \subseteq pending'
  /\ times \cup PushDelay(DelayOf(state)) \subseteq times'

(* The frame of the settle loop around what happens to p.                  *)
SettleStep(p) ==
  /\ phase = "settle" /\ phase' = phase /\ p \in todo /\ todo' = todo \ {p}
  /\ UNCHANGED <<now, previous, assigned, used, active, truncated>>

LEMMA MergeEvent ==
  ASSUME IInv, NEW p \in PRs, Merge(p)
  PROVE  /\ SettleStep(p) /\ Event(p, "merged") /\ SameProposal(pr[p], pr'[p])
         /\ pr[p].state = "approved_waiting_merge"
         /\ pr'[p].review_bypassed = pr[p].review_bypassed
         /\ pending' = pending /\ times' = times
<1>1. Settling(p) /\ pr[p].state = "approved_waiting_merge" BY DEF Merge
<1>2. ~IsTerminal(pr[p]) BY <1>1 DEF IsTerminal, Terminal
<1>3. Accepted(pr[p], MergeCompleted(pr[p], now), now, "merged")
  BY <1>1, <1>2, SettlingOpen, MergeCompletedSane
<1>4. /\ Applied(p, "merged") /\ SameProposal(pr[p], pr'[p])
      /\ pr'[p] = MergeCompleted(pr[p], now)
  BY <1>1, <1>2, <1>3, SettlingOpen, MoveOne DEF Merge
<1>5. MergeCompleted(pr[p], now).state # "raised" BY <1>3 DEF Accepted
<1>6. /\ SameAccounts(pr[p], MergeCompleted(pr[p], now))
      /\ MergeCompleted(pr[p], now).review_bypassed = pr[p].review_bypassed
  <2>1. pr[p].queue_entered_at = None BY <1>1, RecordFacts
  <2>2. pr[p] \in PullRequest /\ now \in Nat BY RecordFacts
  <2>3. PICK record, guard, q :
          /\ record = pr[p] /\ guard = Cleared(record)
          /\ q = Terminate(record, {"approved_waiting_merge"}, guard, "merged", "merged", now)
    OBVIOUS
  <2>4. q = MergeCompleted(pr[p], now) BY ONLY <2>3 DEF MergeCompleted
  <2>5. q.state # "raised" BY ONLY <1>5, <2>4
  <2>6. record \in PullRequest /\ now \in Nat BY ONLY <2>2, <2>3
  <2>7. /\ q.queue_wait_seconds =
             IF record.queue_entered_at = None THEN record.queue_wait_seconds
             ELSE record.queue_wait_seconds + now - record.queue_entered_at
        /\ q.active_review_seconds = record.active_review_seconds
        /\ q.review_visit_count = record.review_visit_count
        /\ q.first_review_at = record.first_review_at
        /\ q.review_bypassed = record.review_bypassed
    BY ONLY <2>3, <2>5, <2>6, TerminateAccounts
  <2>8. record.queue_entered_at = None BY ONLY <2>1, <2>3
  <2>9. SameAccounts(record, q) BY ONLY <2>7, <2>8 DEF SameAccounts
  <2> QED BY ONLY <2>3, <2>4, <2>7, <2>9
<1>7. SettleStep(p) /\ pending' = pending /\ times' = times
  BY DEF Merge, Settling, At, SettleStep
<1> QED BY <1>1, <1>4, <1>6, <1>7 DEF Event

LEMMA SubmitRevisionEvent ==
  ASSUME IInv, NEW p \in PRs, SubmitRevision(p)
  PROVE  /\ SettleStep(p) /\ Event(p, "verifying") /\ SameProposal(pr[p], pr'[p])
         /\ pr[p].state = "author_response"
         /\ Scheduled(p, "verifying")
<1>1. Settling(p) /\ pr[p].state = "author_response" BY DEF SubmitRevision
<1>2. ~IsTerminal(pr[p]) BY <1>1 DEF IsTerminal, Terminal
<1>3. Accepted(pr[p], RevisionSubmitted(pr[p], now), now, "verifying")
  BY <1>1, <1>2, SettlingOpen, RevisionSubmittedSane
<1>4. /\ Applied(p, "verifying") /\ SameProposal(pr[p], pr'[p])
      /\ pr'[p] = RevisionSubmitted(pr[p], now)
  BY <1>1, <1>2, <1>3, SettlingOpen, MoveOne DEF SubmitRevision
<1>5. SameAccounts(pr[p], pr'[p]) BY <1>4, RecordFacts, EventsKeepAccounts
<1>6. SettleStep(p) /\ Scheduled(p, "verifying")
  BY DEF SubmitRevision, Settling, At, SettleStep, Scheduled, DelayOf
<1> QED BY <1>1, <1>4, <1>5, <1>6 DEF Event

LEMMA FailVerificationEvent ==
  ASSUME IInv, NEW p \in PRs, FailVerification(p)
  PROVE  /\ SettleStep(p) /\ Event(p, "author_response")
         /\ SameProposal(pr[p], pr'[p])
         /\ pr[p].state = "verifying"
         /\ Scheduled(p, "author_response")
<1>1. Settling(p) /\ ~IsTerminal(pr[p]) BY DEF FailVerification, Verifies
<1>2. pr[p].state = "verifying"
  BY <1>1, SettlingOpen DEF FailVerification, Verifies
<1>3. Accepted(pr[p], VerificationFailed(pr[p], now), now, "author_response")
  BY <1>1, <1>2, SettlingOpen, VerificationFailedSane
<1>4. /\ Applied(p, "author_response") /\ SameProposal(pr[p], pr'[p])
      /\ pr'[p] = VerificationFailed(pr[p], now)
  BY <1>1, <1>3, SettlingOpen, MoveOne DEF FailVerification
<1>5. SameAccounts(pr[p], pr'[p]) BY <1>4, RecordFacts, EventsKeepAccounts
<1>6. SettleStep(p) /\ Scheduled(p, "author_response")
  BY DEF FailVerification, Verifies, Settling, At, SettleStep, Scheduled,
         DelayOf
<1> QED BY <1>2, <1>4, <1>5, <1>6 DEF Event

(* A passed verification queues the proposal now, or takes the bypass.     *)
LEMMA PassVerificationEvent ==
  ASSUME IInv, NEW p \in PRs, PassVerification(p)
  PROVE  /\ SettleStep(p) /\ SameProposal(pr[p], pr'[p])
         /\ pr[p].state = "verifying"
         /\ \/ /\ Event(p, "approved_waiting_merge") /\ TakesBypass(pr[p])
               /\ pr'[p].review_bypassed
               /\ Scheduled(p, "approved_waiting_merge")
            \/ /\ Event(p, "queued_for_review") /\ ~TakesBypass(pr[p])
               /\ pr'[p].queue_entered_at = now
               /\ pending' = pending /\ times' = times
<1> DEFINE q == VerificationPassed(pr[p], now)
<1>1. Settling(p) /\ ~IsTerminal(pr[p]) BY DEF PassVerification, Verifies
<1>2. pr[p].state = "verifying"
  BY <1>1, SettlingOpen DEF PassVerification, Verifies
<1>3. Accepted(pr[p], q, now, "queued_for_review")
  BY <1>1, <1>2, SettlingOpen, VerificationPassedSane
<1>4. SettleStep(p)
  BY DEF PassVerification, Verifies, Settling, At, SettleStep
<1>5. /\ SameAccounts(pr[p], q) /\ q \in PullRequest /\ q.state # "raised"
      /\ q.queue_entered_at = now
  <2>1. pr[p] \in PullRequest BY RecordFacts
  <2>2. q.state # "raised" /\ q \in PullRequest BY <1>3 DEF Accepted, Sane
  <2>3. q.queue_entered_at = now BY <2>1, <2>2, PassedEntersQueue
  <2>4. SameAccounts(pr[p], q) BY <2>1, EventsKeepAccounts
  <2> QED BY <2>2, <2>3, <2>4
<1>6. CASE TakesBypass(pr[p])
  <2> DEFINE b == ReviewBypassed(q, now)
  <2>1. pr' = [pr EXCEPT ![p] = b] BY <1>6 DEF PassVerification
  <2>2. /\ Sane(q) /\ q.state = "queued_for_review"
        /\ q.last_transition_at = now /\ SameProposal(pr[p], q)
        /\ q.bypass_eligible /\ ~q.bypass_audited
    <3> HIDE DEF q
    <3> QED BY <1>3, <1>6 DEF Accepted, SameProposal, TakesBypass
  <2>3. Accepted(q, b, now, "approved_waiting_merge")
    <3>1. now \in Nat /\ now >= now BY <1>1, SettlingOpen
    <3> HIDE DEF q
    <3> QED BY <2>2, <3>1, ReviewBypassedSane
  <2>4. Accepted(pr[p], b, now, "approved_waiting_merge")
    <3> HIDE DEF q, b
    <3> QED BY <2>2, <2>3 DEF Accepted, SameProposal
  <2>5. SameAccounts(pr[p], b)
    <3>1. SameAccounts(q, b) BY <1>5, EventsKeepAccounts
    <3> HIDE DEF q, b
    <3> QED BY <1>5, <3>1 DEF SameAccounts
  <2>6. /\ Applied(p, "approved_waiting_merge") /\ SameProposal(pr[p], pr'[p])
        /\ pr'[p] = b
    <3> HIDE DEF q, b
    <3> QED BY <1>1, <2>1, <2>4, SettlingOpen, MoveOne
  <2>7. b.review_bypassed
    <3>1. b.state # "raised" BY <2>3 DEF Accepted
    <3> HIDE DEF q
    <3> QED BY <1>5, <3>1 DEF ReviewBypassed, Fire, Raise, PullRequest
  <2>8. Scheduled(p, "approved_waiting_merge")
    BY <1>6 DEF PassVerification, Scheduled, DelayOf
  <2> HIDE DEF b
  <2> QED BY <1>2, <1>4, <1>6, <2>5, <2>6, <2>7, <2>8 DEF Event
<1>7. CASE ~TakesBypass(pr[p])
  <2>1. pr' = [pr EXCEPT ![p] = q] /\ pending' = pending /\ times' = times
    BY <1>7 DEF PassVerification
  <2> HIDE DEF q
  <2>2. /\ Applied(p, "queued_for_review") /\ SameProposal(pr[p], pr'[p])
        /\ pr'[p] = q
    BY <1>1, <1>3, <2>1, SettlingOpen, MoveOne
  <2> QED BY <1>2, <1>4, <1>5, <1>7, <2>1, <2>2 DEF Event
<1> QED BY <1>6, <1>7

-----------------------------------------------------------------------------
(* An event of the finish, admit or settle loop keeps the agenda, provided *)
(* it schedules the wake-up and the deadline that the new record needs.    *)
LEMMA EventAgenda ==
  ASSUME IInv, Agenda, NEW p \in PRs, NEW state, Applied(p, state),
         state \in {"merged", "verifying", "author_response",
                    "queued_for_review", "approved_waiting_merge"},
         phase \in {"finish", "admit", "settle"}, phase' = phase,
         UNCHANGED <<now, used, truncated>>,
         times \subseteq times', pending \subseteq pending',
         state \in {"verifying", "author_response", "approved_waiting_merge"}
           => Scheduled(p, state),
         phase \in {"admit", "settle"} => todo' = todo \ {p},
         pr[p].state \notin Terminal,
         LET d == pr'[p].abandonment_deadline IN
           \/ d = None
           \/ now < d /\ d < Horizon /\ d \in times'
           \/ now < d /\ d >= Horizon
           \/ d = pr[p].abandonment_deadline /\ pr[p].state # "ready",
         Records'
  PROVE  Agenda'
<1> DEFINE d == pr'[p].abandonment_deadline
<1> USE InstanceAssumption
<1>1. /\ pr'[p].state = state /\ pr'[p].last_transition_at = now
      /\ pr'[p].ready_at = pr[p].ready_at
      /\ Sane(pr'[p])
      /\ \A x \in PRs : x # p => pr'[x] = pr[x]
  BY DEF Applied
<1>2. now \in Nat /\ now < Horizon /\ Horizon \in Nat
  BY RecordFacts DEF IInv, HeapAhead
<1>3. HeapComplete' BY GrowingHeap DEF Agenda
<1>4. Stopped' BY DEF Agenda, Stopped
<1>5. ArrivalsAhead'
  <2> SUFFICES ASSUME NEW x \in PRs, pr'[x].state = "ready",
                      pr'[x].ready_at < Horizon
               PROVE  \/ pr'[x].ready_at \in times'
                      \/ phase \in {"abandon", "finish"} /\ pr'[x].ready_at = now
                      \/ phase = "admit" /\ x \in todo'
    BY DEF ArrivalsAhead
  <2>1. x # p /\ pr'[x] = pr[x] BY <1>1
  <2> QED BY <2>1 DEF Agenda, ArrivalsAhead
<1>6. DeadlinesAhead'
  <2> SUFFICES ASSUME NEW x \in PRs
               PROVE  LET e == pr'[x].abandonment_deadline IN
                 /\ pr'[x].state = "ready" => e = None
                 /\ e # None =>
                      /\ pr'[x].terminal_reason = "abandoned" =>
                           pr'[x].last_transition_at = e
                      /\ pr'[x].state = "merged" => pr'[x].last_transition_at < e
                      /\ ~IsTerminal(pr'[x]) =>
                           /\ now < e
                           /\ e < Horizon => e \in times'
    BY DEF DeadlinesAhead
  <2>1. ASSUME NEW y \in PRs, pr[y].abandonment_deadline # None,
               ~IsTerminal(pr[y])
        PROVE  /\ now < pr[y].abandonment_deadline
               /\ pr[y].abandonment_deadline < Horizon =>
                    pr[y].abandonment_deadline \in times
    BY <2>1 DEF Agenda, DeadlinesAhead
  <2>2. CASE x # p
    <3>1. pr'[x] = pr[x] BY <1>1, <2>2
    <3> QED BY <2>1, <3>1 DEF Agenda, DeadlinesAhead
  <2>3. CASE x = p
    <3>1. pr'[p].terminal_reason # "abandoned"
      BY <1>1 DEF Sane, Contract, ReasonsOf
    <3>2. d # None => now < d /\ (d < Horizon => d \in times')
      <4>1. CASE d = pr[p].abandonment_deadline /\ pr[p].state # "ready"
        BY <2>1, <4>1 DEF IsTerminal
      <4>2. CASE now < d /\ d >= Horizon
        <5>1. d \in Int
          BY <1>1 DEF Sane, PullRequest, OptTime, None
        <5> QED BY <1>2, <4>2, <5>1
      <4> QED BY <4>1, <4>2
    <3> QED BY <1>1, <2>3, <3>1, <3>2
  <2> QED BY <2>2, <2>3
<1>7. WakeUpsAhead'
  <2> SUFFICES ASSUME ~truncated, NEW x \in PRs, Waiting(x)'
               PROVE  \/ WakeUpAt(x)' >= Horizon
                      \/ /\ <<x, WakeUpAt(x)'>> \in pending'
                         /\ WakeUpAt(x)' \in times' \cup {now}
                      \/ phase = "settle" /\ x \in todo' /\ WakeUpAt(x)' = now
    BY DEF WakeUpsAhead, NoLostWakeUp
  <2>1. CASE x # p
    <3>1. pr'[x] = pr[x] BY <1>1, <2>1
    <3>2. Waiting(x) /\ WakeUpAt(x)' = WakeUpAt(x)
      BY <3>1 DEF Waiting, WakeUpAt
    <3>3. \/ WakeUpAt(x) >= Horizon
          \/ /\ <<x, WakeUpAt(x)>> \in pending
             /\ WakeUpAt(x) \in times \cup {now}
          \/ phase = "settle" /\ x \in todo /\ WakeUpAt(x) = now
      BY <3>2 DEF Agenda, WakeUpsAhead, NoLostWakeUp
    <3> QED BY <2>1, <3>2, <3>3
  <2>2. CASE x = p
    <3>1. /\ WakeUpAt(x)' = now + DelayOf(state)
          /\ state \in {"verifying", "author_response", "approved_waiting_merge"}
      BY <1>1, <2>2 DEF WakeUpAt, Waiting
    <3>2. /\ Wake(p, DelayOf(state)) \subseteq pending'
          /\ PushDelay(DelayOf(state)) \subseteq times'
      BY <3>1 DEF Scheduled
    <3>3. DelayOf(state) \in Nat BY DEF DelayOf
    <3> QED BY <1>2, <2>2, <3>1, <3>2, <3>3 DEF Wake, PushDelay, Push
  <2> QED BY <2>1, <2>2
<1>8. ServiceAhead' /\ NothingForIdle'
  BY DEF Agenda, ServiceAhead, NothingForIdle, Settled
<1>9. Closing'
  <2> SUFFICES ASSUME NEW x \in PRs, pr'[x].state # "ready"
               PROVE  /\ pr'[x].ready_at < Horizon
                      /\ IF pr'[x].state = "unresolved"
                         THEN pr'[x].last_transition_at = Horizon
                         ELSE pr'[x].last_transition_at < Horizon
    BY DEF Closing, Admitted
  <2>1. CASE x # p
    BY <1>1, <2>1 DEF Agenda, Closing, Admitted
  <2>2. CASE x = p
    <3>1. pr[p].ready_at <= now
      <4>1. pr'[p].ready_at <= pr'[p].last_transition_at
        BY <1>1 DEF Sane, Contract, Chronology, PullRequest
      <4> QED BY <1>1, <4>1
    <3>2. pr[p].ready_at \in Nat BY RecordFacts
    <3> QED BY <1>1, <1>2, <2>2, <3>1, <3>2
  <2> QED BY <2>1, <2>2
<1> QED BY <1>3, <1>4, <1>5, <1>6, <1>7, <1>8, <1>9 DEF Agenda

(* The steps of the settle loop.                                           *)
LEMMA SettleAgenda ==
  ASSUME IInv, Agenda, NEW p \in PRs, SettleStep(p), NEW state,
         Event(p, state), SameProposal(pr[p], pr'[p]),
         state \in {"merged", "verifying", "author_response",
                    "queued_for_review", "approved_waiting_merge"},
         pr[p].state \in {"verifying", "author_response",
                          "approved_waiting_merge"},
         times \subseteq times', pending \subseteq pending',
         state \in {"verifying", "author_response", "approved_waiting_merge"}
           => Scheduled(p, state),
         Records'
  PROVE  Agenda'
<1>1. pr[p].state \notin Terminal BY DEF Terminal
<1>2. /\ Applied(p, state) /\ phase = "settle" /\ phase' = phase
      /\ todo' = todo \ {p} /\ UNCHANGED <<now, used, truncated>>
  BY DEF SettleStep, Event
<1>3. pr'[p].abandonment_deadline = pr[p].abandonment_deadline
  BY DEF SameProposal
<1> QED BY <1>1, <1>2, <1>3, EventAgenda

LEMMA MergeAgenda ==
  ASSUME IInv, Agenda, NEW p \in PRs, Merge(p) PROVE Agenda'
<1> USE DEF Agenda, Records
<1>1. /\ SettleStep(p) /\ Event(p, "merged") /\ SameProposal(pr[p], pr'[p])
      /\ pr[p].state = "approved_waiting_merge"
      /\ pr'[p].review_bypassed = pr[p].review_bypassed
      /\ pending' = pending /\ times' = times
  BY MergeEvent
<1>2. now' = now /\ used' = used BY <1>1 DEF SettleStep
<1>3. TakesBypass(pr'[p]) = TakesBypass(pr[p])
  BY <1>1 DEF SameProposal, TakesBypass
<1>4. Earned' BY <1>1, <1>2, <1>3, EventEarned DEF Earned
<1>5. Accounts' BY <1>1, <1>2, EventAccounts DEF Terminal
<1>6. QueueOrder' BY <1>1, EventOrder DEF IsTerminal, Terminal
<1> HIDE DEF Agenda
<1> QED BY <1>1, <1>4, <1>5, <1>6, SettleAgenda

LEMMA SubmitRevisionAgenda ==
  ASSUME IInv, Agenda, NEW p \in PRs, SubmitRevision(p) PROVE Agenda'
<1> USE DEF Agenda, Records
<1>1. /\ SettleStep(p) /\ Event(p, "verifying") /\ SameProposal(pr[p], pr'[p])
      /\ pr[p].state = "author_response"
      /\ Scheduled(p, "verifying")
  BY SubmitRevisionEvent
<1>2. now' = now /\ used' = used BY <1>1 DEF SettleStep
<1>3. TakesBypass(pr'[p]) = TakesBypass(pr[p])
  BY <1>1 DEF SameProposal, TakesBypass
<1>4. ~pr'[p].review_bypassed
  BY <1>1 DEF Event, Applied, Sane, Contract, Terminal
<1>5. Earned' BY <1>1, <1>2, <1>3, <1>4, EventEarned DEF Earned
<1>6. Accounts' BY <1>1, <1>2, EventAccounts DEF Terminal
<1>7. QueueOrder' BY <1>1, EventOrder DEF IsTerminal, Terminal
<1> HIDE DEF Agenda
<1> QED BY <1>1, <1>5, <1>6, <1>7, SettleAgenda DEF Scheduled

LEMMA FailVerificationAgenda ==
  ASSUME IInv, Agenda, NEW p \in PRs, FailVerification(p) PROVE Agenda'
<1> USE DEF Agenda, Records
<1>1. /\ SettleStep(p) /\ Event(p, "author_response")
      /\ SameProposal(pr[p], pr'[p])
      /\ pr[p].state = "verifying"
      /\ Scheduled(p, "author_response")
  BY FailVerificationEvent
<1>2. now' = now /\ used' = used BY <1>1 DEF SettleStep
<1>3. TakesBypass(pr'[p]) = TakesBypass(pr[p])
  BY <1>1 DEF SameProposal, TakesBypass
<1>4. ~pr'[p].review_bypassed
  BY <1>1 DEF Event, Applied, Sane, Contract, Terminal
<1>5. Earned' BY <1>1, <1>2, <1>3, <1>4, EventEarned DEF Earned
<1>6. Accounts' BY <1>1, <1>2, EventAccounts DEF Terminal
<1>7. QueueOrder' BY <1>1, EventOrder DEF IsTerminal, Terminal
<1> HIDE DEF Agenda
<1> QED BY <1>1, <1>5, <1>6, <1>7, SettleAgenda DEF Scheduled

(* Only a proposal that was never reviewed takes the bypass, because the   *)
(* classification is the same at every verification.                       *)
LEMMA PassVerificationAgenda ==
  ASSUME IInv, Agenda, NEW p \in PRs, PassVerification(p) PROVE Agenda'
<1> USE DEF Agenda, Records
<1>1. /\ SettleStep(p) /\ SameProposal(pr[p], pr'[p])
      /\ pr[p].state = "verifying"
  BY PassVerificationEvent
<1>2. now' = now /\ used' = used BY <1>1 DEF SettleStep
<1>3. TakesBypass(pr'[p]) = TakesBypass(pr[p])
  BY <1>1 DEF SameProposal, TakesBypass
<1>4. CASE /\ Event(p, "approved_waiting_merge") /\ TakesBypass(pr[p])
           /\ pr'[p].review_bypassed
           /\ Scheduled(p, "approved_waiting_merge")
  <2>1. Bypass /\ ~(pr[p].review_visit_count >= 1)
    BY <1>4 DEF Earned, TakesBypass
  <2>2. Earned' BY <1>2, <1>4, <2>1, EventEarned
  <2>3. Accounts' BY <1>1, <1>2, <1>4, EventAccounts DEF Terminal
  <2>4. QueueOrder'
    <3>1. pr[p].review_visit_count # 1 BY <2>1
    <3> QED BY <1>1, <1>4, <3>1, EventOrder DEF IsTerminal, Terminal
  <2> HIDE DEF Agenda
  <2> QED BY <1>1, <1>4, <2>2, <2>3, <2>4, SettleAgenda DEF Scheduled
<1>5. CASE /\ Event(p, "queued_for_review") /\ ~TakesBypass(pr[p])
           /\ pr'[p].queue_entered_at = now
           /\ pending' = pending /\ times' = times
  <2>1. ~pr'[p].review_bypassed
    BY <1>5 DEF Event, Applied, Sane, Contract, Terminal
  <2>2. Earned' BY <1>2, <1>3, <1>5, <2>1, EventEarned
  <2>3. Accounts' BY <1>1, <1>2, <1>5, EventAccounts DEF Terminal
  <2>4. QueueOrder' BY <1>1, <1>5, EventOrder DEF IsTerminal, Terminal
  <2> HIDE DEF Agenda
  <2> QED BY <1>1, <1>5, <2>2, <2>3, <2>4, SettleAgenda
<1> QED BY <1>4, <1>5, PassVerificationEvent

-----------------------------------------------------------------------------
(* A completed visit received its service exactly, and ends in requested   *)
(* changes or in approval.                                                 *)
LEMMA CompleteReviewEvent ==
  ASSUME IInv, NEW r \in Reviewers, CompleteReview(r)
  PROVE  LET p == assigned[r] IN
         /\ p \in PRs /\ pr[p].state = "in_review" /\ Served(p)
         /\ phase = "finish" /\ phase' = phase
         /\ UNCHANGED <<now, used, truncated>>
         /\ \E state \in {"author_response", "approved_waiting_merge"} :
              /\ Event(p, state) /\ SameProposal(pr[p], pr'[p])
              /\ ~pr'[p].review_bypassed
              /\ Scheduled(p, state)
<1> DEFINE p == assigned[r]
<1>1. /\ phase = "finish" /\ r \in todo /\ phase' = phase /\ Served(p)
      /\ UNCHANGED <<now, used, truncated>> /\ ~IsTerminal(pr[p])
  BY DEF CompleteReview, At
<1>2. /\ r \in Assigned /\ p \in PRs /\ pr[p].state = "in_review"
      /\ pr \in [PRs -> PullRequest]
  <2>1. r \in Assigned BY <1>1 DEF IInv, LoopSound
  <2>2. p \in PRs /\ now \in 0 .. Horizon /\ pr \in [PRs -> PullRequest]
    BY <2>1 DEF IInv, Assigned, TypeOK
  <2>3. now < Horizon BY <1>1 DEF IInv, HeapAhead
  <2>4. now # Horizon BY <2>2, <2>3, InstanceAssumption
  <2>5. pr[p].state = "in_review"
    BY <1>1, <2>1, <2>4 DEF IInv, ReviewOwnership
  <2> QED BY <2>1, <2>2, <2>5
<1>3. /\ Sane(pr[p]) /\ now \in Nat /\ now >= pr[p].last_transition_at
      /\ pr[p] \in PullRequest
  BY <1>2, RecordFacts
<1>4. ~pr[p].review_bypassed
  BY <1>2, <1>3 DEF Sane, Contract, Terminal
<1>5. PICK changes \in ChangeOutcomes(pr[p]) :
        /\ pr' = [pr EXCEPT ![p] = IF changes THEN ChangesRequested(@, now)
                                   ELSE ReviewApproved(@, now)]
        /\ pending' = pending \cup Wake(p, DelayAfter(changes))
        /\ times' = times \cup PushDelay(DelayAfter(changes))
  BY DEF CompleteReview
<1>6. CASE changes
  <2> DEFINE q == ChangesRequested(pr[p], now)
  <2>1. Accepted(pr[p], q, now, "author_response")
    BY <1>2, <1>3, ChangesRequestedSane
  <2>2. SameAccounts(pr[p], q) BY <1>3, EventsKeepAccounts
  <2>3. pr' = [pr EXCEPT ![p] = q] BY <1>5, <1>6
  <2>4. Scheduled(p, "author_response")
    BY <1>5, <1>6 DEF Scheduled, DelayAfter, DelayOf
  <2> HIDE DEF q
  <2>5. /\ Applied(p, "author_response") /\ SameProposal(pr[p], pr'[p])
        /\ pr'[p] = q
    BY <1>2, <2>1, <2>3, MoveOne
  <2>6. ~pr'[p].review_bypassed
    BY <2>5 DEF Applied, Sane, Contract, Terminal
  <2> QED BY <1>1, <1>2, <2>2, <2>4, <2>5, <2>6 DEF Event
<1>7. CASE ~changes
  <2> DEFINE q == ReviewApproved(pr[p], now)
  <2>1. Accepted(pr[p], q, now, "approved_waiting_merge")
    BY <1>2, <1>3, ReviewApprovedSane
  <2>2. SameAccounts(pr[p], q) BY <1>3, EventsKeepAccounts
  <2>3. pr' = [pr EXCEPT ![p] = q] BY <1>5, <1>7
  <2>4. Scheduled(p, "approved_waiting_merge")
    BY <1>5, <1>7 DEF Scheduled, DelayAfter, DelayOf
  <2>5. ~q.review_bypassed BY <1>3, <1>4, ApprovalKeepsBypass
  <2> HIDE DEF q
  <2>6. /\ Applied(p, "approved_waiting_merge") /\ SameProposal(pr[p], pr'[p])
        /\ pr'[p] = q
    BY <1>2, <2>1, <2>3, MoveOne
  <2> QED BY <1>1, <1>2, <2>2, <2>4, <2>5, <2>6 DEF Event
<1> QED BY <1>6, <1>7

LEMMA CompleteReviewAgenda ==
  ASSUME IInv, Agenda, NEW r \in Reviewers, CompleteReview(r) PROVE Agenda'
<1> DEFINE p == assigned[r]
<1> USE DEF Agenda, Records
<1>1. /\ p \in PRs /\ pr[p].state = "in_review" /\ Served(p)
      /\ phase = "finish" /\ phase' = phase
      /\ UNCHANGED <<now, used, truncated>>
  BY CompleteReviewEvent
<1>2. PICK state \in {"author_response", "approved_waiting_merge"} :
        /\ Event(p, state) /\ SameProposal(pr[p], pr'[p])
        /\ ~pr'[p].review_bypassed
        /\ Scheduled(p, state)
  BY CompleteReviewEvent
<1> HIDE DEF p
<1>3. used[p] = Service[p]
  <2>1. used[p] \in Nat /\ Service[p] \in Nat
    BY <1>1, PositiveService DEF IInv, TypeOK
  <2>2. used[p] <= Service[p] BY <1>1 DEF ServiceAhead
  <2> QED BY <1>1, <2>1, <2>2 DEF Served
<1>4. TakesBypass(pr'[p]) = TakesBypass(pr[p])
  BY <1>2 DEF SameProposal, TakesBypass
<1>5. Earned'
  <2>1. pr[p].review_visit_count >= 1 BY <1>1 DEF Earned
  <2>2. ~TakesBypass(pr'[p]) BY <1>1, <1>4, <2>1 DEF Earned
  <2> QED BY <1>1, <1>2, <1>3, <2>1, <2>2, EventEarned
<1>6. Accounts' BY <1>1, <1>2, EventAccounts DEF Terminal
<1>7. QueueOrder' BY <1>1, <1>2, EventOrder DEF IsTerminal, Terminal
<1>8. pr'[p].abandonment_deadline = pr[p].abandonment_deadline
  BY <1>2 DEF SameProposal
<1>9. /\ Applied(p, state) /\ times \subseteq times'
      /\ pending \subseteq pending' /\ pr[p].state \notin Terminal
  BY <1>1, <1>2 DEF Event, Scheduled, Terminal
<1> HIDE DEF Agenda
<1> QED BY <1>1, <1>2, <1>5, <1>6, <1>7, <1>8, <1>9, EventAgenda

(* An arrival draws its deadline past its readiness.                       *)
LEMMA AdmitEvent ==
  ASSUME IInv, NEW p \in PRs, Admit(p)
  PROVE  /\ Event(p, "verifying") /\ Scheduled(p, "verifying")
         /\ phase = "admit" /\ p \in todo /\ todo' = todo \ {p}
         /\ UNCHANGED <<phase, now, used, truncated>>
         /\ pr[p].state = "ready" /\ pr[p].ready_at = now
         /\ pr'[p].first_review_completed_at = pr[p].first_review_completed_at
         /\ LET deadline == pr'[p].abandonment_deadline IN
              \/ deadline = None
              \/ now < deadline /\ deadline < Horizon /\ deadline \in times'
              \/ now < deadline /\ deadline >= Horizon
<1> USE InstanceAssumption
<1>1. PICK class \in Classifications(pr[p]), elapsed \in AbandonAfter :
        LET deadline == IF elapsed = None THEN None ELSE now + elapsed IN
        /\ pr' = [pr EXCEPT ![p] = StartVerification(
                   [@ EXCEPT !.bypass_eligible = class[1],
                             !.bypass_audited = class[2],
                             !.abandonment_deadline = deadline], now)]
        /\ times' = times \cup PushDelay(VerificationDelay)
                      \cup (IF elapsed = None THEN {} ELSE Push(deadline))
  BY DEF Admit
<1> DEFINE deadline == IF elapsed = None THEN None ELSE now + elapsed
           q == Classified(pr[p], class[1], class[2], deadline)
           s == StartVerification(q, now)
<1>2. /\ pr \in [PRs -> PullRequest] /\ Sane(pr[p]) /\ now \in 0 .. Horizon
      /\ phase = "admit" /\ p \in todo
      /\ pr[p].state = "ready" /\ pr[p].ready_at = now
      /\ pr[p].last_transition_at = now
  BY DEF IInv, TypeOK, Sanity, Timely, LoopSound, Admit, At
<1>3. now \in Nat BY <1>2
<1>4. class[1] \in BOOLEAN /\ class[2] \in BOOLEAN
  <2>1. pr[p].bypass_eligible \in BOOLEAN /\ pr[p].bypass_audited \in BOOLEAN
    BY <1>2 DEF PullRequest
  <2> QED BY <2>1 DEF Classifications
<1>5. deadline \in OptTime /\ (deadline # None => deadline > pr[p].ready_at)
  BY <1>2, <1>3 DEF OptTime, None
<1>6. /\ Sane(q) /\ q.state = "ready" /\ q.author = pr[p].author
      /\ q.ready_at = now /\ q.last_transition_at = now
  <2> HIDE DEF deadline
  <2> QED BY <1>2, <1>4, <1>5, ClassifySane
<1>7. Accepted(q, s, now, "verifying")
  <2> HIDE DEF q
  <2> QED BY <1>3, <1>6, StartVerificationSane
<1>8. SameAccounts(pr[p], q) /\ q.abandonment_deadline = deadline
  BY <1>2 DEF SameAccounts, Classified, PullRequest
<1>9. SameAccounts(pr[p], s) /\ s.abandonment_deadline = deadline
  <2>1. SameAccounts(q, s)
    <3> HIDE DEF q
    <3> QED BY <1>6, EventsKeepAccounts DEF Sane
  <2> HIDE DEF q, s, deadline
  <2> QED BY <1>7, <1>8, <2>1 DEF SameAccounts, Accepted, SameProposal
<1>10. Event(p, "verifying") /\ pr'[p] = s
  <2>1. pr' = [pr EXCEPT ![p] = s] BY <1>1 DEF Classified
  <2> HIDE DEF q, s, deadline
  <2>2. /\ Sane(s) /\ s.state = "verifying" /\ s.last_transition_at = now
        /\ s.author = pr[p].author /\ s.ready_at = pr[p].ready_at
        /\ s \in PullRequest
    BY <1>2, <1>6, <1>7 DEF Accepted, SameProposal, Sane
  <2>3. pr'[p] = s /\ pr' \in [PRs -> PullRequest]
        /\ \A x \in PRs \ {p} : pr'[x] = pr[x]
    BY <1>2, <2>1, <2>2
  <2> QED BY <1>9, <2>2, <2>3 DEF Event, Applied
<1>11. \/ deadline = None
       \/ now < deadline /\ deadline < Horizon /\ deadline \in times'
       \/ now < deadline /\ deadline >= Horizon
  BY <1>1, <1>3 DEF Push, None
<1>12. /\ phase' = phase /\ UNCHANGED <<now, used, truncated>>
       /\ todo' = todo \ {p} /\ Scheduled(p, "verifying")
       /\ times \subseteq times' /\ pending \subseteq pending'
  BY <1>1 DEF Admit, Scheduled, DelayOf
<1>15. pr'[p].abandonment_deadline = deadline BY <1>9, <1>10
<1>16. pr'[p].first_review_completed_at = pr[p].first_review_completed_at
  <2>1. q.first_review_completed_at = pr[p].first_review_completed_at
        /\ q \in PullRequest
    BY <1>2, <1>6 DEF Sane, Classified, PullRequest
  <2> HIDE DEF q
  <2>2. s.first_review_completed_at = q.first_review_completed_at
    BY <2>1 DEF StartVerification, Fire, Raise, PullRequest
  <2> QED BY <1>10, <2>1, <2>2
<1> HIDE DEF deadline, q, s
<1> QED BY <1>2, <1>10, <1>11, <1>12, <1>15, <1>16

LEMMA AdmitAgenda ==
  ASSUME IInv, Agenda, NEW p \in PRs, Admit(p) PROVE Agenda'
<1>1. /\ Event(p, "verifying") /\ Scheduled(p, "verifying")
      /\ phase = "admit" /\ p \in todo /\ todo' = todo \ {p}
      /\ UNCHANGED <<phase, now, used, truncated>>
      /\ pr[p].state = "ready" /\ pr[p].ready_at = now
      /\ LET deadline == pr'[p].abandonment_deadline IN
           \/ deadline = None
           \/ now < deadline /\ deadline < Horizon /\ deadline \in times'
           \/ now < deadline /\ deadline >= Horizon
  BY AdmitEvent
<1>2. Records'
  <2>1. ~pr'[p].review_bypassed
    BY <1>1 DEF Event, Applied, Sane, Contract, Terminal
  <2>2. Earned' BY <1>1, <2>1, EventEarned DEF Agenda, Records, Earned
  <2>3. Accounts' BY <1>1, EventAccounts DEF Agenda, Records, Terminal
  <2>4. QueueOrder'
    BY <1>1, EventOrder DEF Agenda, Records, IsTerminal, Terminal
  <2> QED BY <2>2, <2>3, <2>4 DEF Records
<1>3. pr[p].state \notin Terminal /\ Applied(p, "verifying")
  BY <1>1 DEF Terminal, Event
<1>4. times \subseteq times' /\ pending \subseteq pending'
  BY <1>1 DEF Scheduled
<1> QED BY <1>1, <1>2, <1>3, <1>4, EventAgenda

-----------------------------------------------------------------------------
(* A reviewer starts on the first of the proposals it may take.            *)
LEMMA StartReviewEffect ==
  ASSUME IInv, NEW r \in Reviewers, StartReview(r)
  PROVE  /\ phase = "dispatch" /\ phase' = phase /\ todo' = todo \ {r}
         /\ OnDuty(r, now) /\ assigned[r] = None
         /\ UNCHANGED <<now, pending, truncated>>
         /\ \E p \in FirstCandidates(r) :
              /\ p \in PRs /\ pr[p].state = "queued_for_review"
              /\ pr[p].author # r
              /\ Applied(p, "in_review") /\ SameProposal(pr[p], pr'[p])
              /\ pr'[p].queue_wait_seconds =
                   pr[p].queue_wait_seconds + now - pr[p].queue_entered_at
              /\ pr'[p].active_review_seconds = pr[p].active_review_seconds
              /\ pr'[p].review_visit_count = pr[p].review_visit_count + 1
              /\ pr'[p].first_review_at =
                   IF pr[p].first_review_at = None THEN now
                   ELSE pr[p].first_review_at
              /\ assigned' = [assigned EXCEPT ![r] = p]
              /\ used' = [used EXCEPT ![p] = 0]
              /\ times' = times \cup {NextStop(r, p, 0)}
<1>1. PICK p \in FirstCandidates(r) :
        /\ pr' = [pr EXCEPT ![p] = ReviewStarted(@, now)]
        /\ assigned' = [assigned EXCEPT ![r] = p]
        /\ used' = [used EXCEPT ![p] = 0]
        /\ times' = times \cup {NextStop(r, p, 0)}
  BY DEF StartReview
<1>2. /\ phase = "dispatch" /\ OnDuty(r, now) /\ assigned[r] = None
      /\ phase' = phase /\ todo' = todo \ {r}
      /\ UNCHANGED <<now, pending, truncated>>
  BY DEF StartReview, Dispatching, At
<1>3. p \in PRs /\ pr[p].state = "queued_for_review" /\ pr[p].author # r
  BY DEF FirstCandidates, Candidates
<1> DEFINE q == ReviewStarted(pr[p], now)
<1>4. /\ Sane(pr[p]) /\ pr[p] \in PullRequest /\ now \in Nat
      /\ now >= pr[p].last_transition_at
  BY <1>3, RecordFacts
<1>5. Accepted(pr[p], q, now, "in_review")
  BY <1>3, <1>4, ReviewStartedSane
<1>6. /\ q.queue_wait_seconds =
           pr[p].queue_wait_seconds + now - pr[p].queue_entered_at
      /\ q.active_review_seconds = pr[p].active_review_seconds
      /\ q.review_visit_count = pr[p].review_visit_count + 1
      /\ q.first_review_at = IF pr[p].first_review_at = None THEN now
                             ELSE pr[p].first_review_at
  <2>1. q.state # "raised" BY <1>5 DEF Accepted
  <2> QED BY <1>4, <2>1, StartedAccounts
<1> HIDE DEF q
<1>7. Applied(p, "in_review") /\ SameProposal(pr[p], pr'[p]) /\ pr'[p] = q
  <2>1. pr' = [pr EXCEPT ![p] = q] BY <1>1 DEF q
  <2>2. pr \in [PRs -> PullRequest] BY DEF IInv, TypeOK
  <2> QED BY <1>3, <1>5, <2>1, <2>2, MoveOne
<1> QED BY <1>1, <1>2, <1>3, <1>6, <1>7

LEMMA StartReviewRecords ==
  ASSUME IInv, Records, NEW r \in Reviewers, StartReview(r) PROVE Records'
<1>1. /\ OnDuty(r, now) /\ now' = now BY StartReviewEffect
<1>2. PICK p \in FirstCandidates(r) :
        /\ p \in PRs /\ pr[p].state = "queued_for_review" /\ pr[p].author # r
        /\ Applied(p, "in_review") /\ SameProposal(pr[p], pr'[p])
        /\ pr'[p].queue_wait_seconds =
             pr[p].queue_wait_seconds + now - pr[p].queue_entered_at
        /\ pr'[p].active_review_seconds = pr[p].active_review_seconds
        /\ pr'[p].review_visit_count = pr[p].review_visit_count + 1
        /\ pr'[p].first_review_at =
             IF pr[p].first_review_at = None THEN now ELSE pr[p].first_review_at
        /\ used' = [used EXCEPT ![p] = 0]
  BY StartReviewEffect
<1>3. /\ pr'[p].state = "in_review" /\ pr'[p].author = pr[p].author
      /\ pr'[p].ready_at = pr[p].ready_at
      /\ \A x \in PRs : x # p => pr'[x] = pr[x] /\ used'[x] = used[x]
  BY <1>2 DEF Applied, IInv, TypeOK
<1>0. /\ pr[p].review_visit_count \in Nat /\ now \in Nat
      /\ pr[p].ready_at \in Nat /\ pr[p].ready_at <= now
      /\ pr[p].queue_entered_at \in Nat
      /\ pr[p].first_review_at \in Nat \cup {None}
      /\ pr[p].queue_wait_seconds \in Nat
      /\ pr[p].active_review_seconds \in Nat
  <2>1. pr[p].queue_entered_at # None BY <1>2, RecordFacts
  <2>2. pr[p].ready_at <= now BY <1>2, RecordFacts
  <2> QED BY <1>2, <2>1, <2>2, RecordFacts
<1>4. Earned'
  <2> DEFINE E(x) ==
        /\ pr'[x].review_bypassed => Bypass
        /\ pr'[x].state = "in_review" => pr'[x].review_visit_count >= 1
        /\ pr'[x].state \in {"approved_waiting_merge", "merged"}
             /\ ~pr'[x].review_bypassed =>
             pr'[x].review_visit_count >= 1 /\ used'[x] = Service[x]
        /\ pr'[x].review_visit_count >= 1 =>
             Reviewable(x)' /\ ~TakesBypass(pr'[x])
        /\ pr'[x].state = "queued_for_review" => ~TakesBypass(pr'[x])
        /\ pr'[x].state = "ready" => pr'[x].review_visit_count = 0
  <2>1. ASSUME NEW x \in PRs, x # p PROVE E(x)
    <3>1. pr'[x] = pr[x] /\ used'[x] = used[x] BY <1>3, <2>1
    <3>2. Reviewable(x)' <=> Reviewable(x) BY <3>1 DEF Reviewable
    <3> QED BY <3>1, <3>2 DEF Records, Earned
  <2>2. E(p)
    <3>1. ~pr'[p].review_bypassed
      BY <1>2, <1>3 DEF Applied, Sane, Contract, Terminal
    <3>2. pr'[p].review_visit_count >= 1 BY <1>0, <1>2
    <3>3. Reviewable(p)'
      <4>1. PICK d \in ClippedDuty(r) : d[1] <= now /\ now < d[2]
        BY <1>1 DEF OnDuty
      <4>2. d[2] \in Int BY InstanceAssumption, DutyAssumption DEF ClippedDuty
      <4>4. d[2] > pr[p].ready_at BY <1>0, <4>1, <4>2
      <4> QED BY <1>2, <1>3, <4>4 DEF Reviewable
    <3>4. ~TakesBypass(pr'[p])
      <4>1. ~TakesBypass(pr[p]) BY <1>2 DEF Records, Earned
      <4> QED BY <1>2, <4>1 DEF SameProposal, TakesBypass
    <3> QED BY <1>3, <3>1, <3>2, <3>3, <3>4
  <2>3. \A x \in PRs : E(x) BY <2>1, <2>2
  <2> QED BY <2>3 DEF Earned, TakesBypass
<1>5. Accounts'
  <2> SUFFICES ASSUME NEW x \in PRs
               PROVE  /\ pr'[x].state = "ready" => Spent(x)' <= 0
                      /\ pr'[x].state = "queued_for_review" =>
                           Spent(x)' <= pr'[x].queue_entered_at - pr'[x].ready_at
                      /\ pr'[x].state = "in_review" =>
                           Spent(x)' <= now - pr'[x].ready_at
                      /\ pr'[x].state \notin
                           {"ready", "queued_for_review", "in_review"} =>
                           Spent(x)' <=
                             pr'[x].last_transition_at - pr'[x].ready_at
    BY <1>1 DEF Accounts
  <2>1. CASE x # p
    BY <1>3, <2>1 DEF Records, Accounts, Spent
  <2>2. CASE x = p
    <3>1. Spent(p) <= pr[p].queue_entered_at - pr[p].ready_at
      BY <1>2 DEF Records, Accounts
    <3>2. Spent(p)' = Spent(p) + now - pr[p].queue_entered_at
      BY <1>0, <1>2 DEF Spent
    <3>3. Spent(p) \in Nat BY <1>0 DEF Spent
    <3> QED BY <1>0, <1>3, <2>2, <3>1, <3>2, <3>3
  <2> QED BY <2>1, <2>2
<1>6. QueueOrder'
  <2>1. \A x \in PRs : x # p =>
          /\ FirstVisitOver(x)' = FirstVisitOver(x)
          /\ FirstEntry(x)' = FirstEntry(x)
    BY <1>3 DEF FirstVisitOver, FirstEntry
  <2>2. \A x \in PRs :
          /\ pr'[x].review_visit_count = 0 <=> pr'[x].first_review_at = None
          /\ pr'[x].review_visit_count = 0 /\ ~IsTerminal(pr'[x]) =>
               pr'[x].queue_wait_seconds = 0
    <3> TAKE x \in PRs
    <3>1. CASE x # p BY <1>3, <3>1 DEF Records, QueueOrder
    <3>2. CASE x = p
      <4>1. pr'[p].review_visit_count # 0 BY <1>0, <1>2
      <4>2. pr'[p].first_review_at # None BY <1>0, <1>2 DEF None
      <4> QED BY <3>2, <4>1, <4>2
    <3> QED BY <3>1, <3>2
  <2>3. FirstVisitOver(p)' =>
          /\ FirstEntry(p)' = pr[p].queue_entered_at
          /\ pr'[p].first_review_at = now
          /\ pr[p].author \notin Reviewers
    <3> SUFFICES ASSUME FirstVisitOver(p)'
                 PROVE  /\ FirstEntry(p)' = pr[p].queue_entered_at
                        /\ pr'[p].first_review_at = now
                        /\ pr[p].author \notin Reviewers
      OBVIOUS
    <3>1. pr[p].review_visit_count = 0 /\ pr[p].author \notin Reviewers
      BY <1>0, <1>2, <1>3 DEF FirstVisitOver
    <3>2. pr[p].first_review_at = None /\ pr[p].queue_wait_seconds = 0
      BY <1>2, <3>1 DEF Records, QueueOrder, IsTerminal, Terminal
    <3> QED BY <1>0, <1>2, <3>1, <3>2 DEF FirstEntry
  <2>4. ASSUME NEW x \in PRs, NEW q \in PRs, FirstVisitOver(x)',
               pr'[q].state = "queued_for_review", pr'[q].author \notin Reviewers
        PROVE  FirstEntry(x)' <= pr'[q].queue_entered_at
    <3>1. q # p /\ pr'[q] = pr[q] BY <1>3, <2>4
    <3>2. CASE x # p
      BY <2>1, <2>4, <3>1, <3>2 DEF Records, QueueOrder
    <3>3. CASE x = p
      <4>1. q \in Candidates(r) BY <2>4, <3>1 DEF Candidates
      <4>2. Precedes(p, q) BY <1>2, <4>1 DEF FirstCandidates
      <4>3. pr[q].queue_entered_at \in Nat \cup {None} BY RecordFacts
      <4>4. pr[p].queue_entered_at <= pr[q].queue_entered_at
        BY <1>0, <4>2, <4>3 DEF Precedes, None
      <4> QED BY <2>3, <2>4, <3>1, <3>3, <4>4
    <3> QED BY <3>2, <3>3
  <2>5. ASSUME NEW x \in PRs, NEW q \in PRs, FirstVisitOver(x)',
               FirstVisitOver(q)', FirstEntry(x)' < FirstEntry(q)'
        PROVE  pr'[x].first_review_at <= pr'[q].first_review_at
    <3>1. CASE x # p /\ q # p
      BY <1>3, <2>1, <2>5, <3>1 DEF Records, QueueOrder, FirstReviewsFifo
    <3>2. CASE x = p /\ q # p
      <4>1. FirstEntry(q) <= pr[p].queue_entered_at
        BY <1>2, <2>1, <2>3, <2>5, <3>2 DEF Records, QueueOrder
      <4>2. FirstEntry(q)' = FirstEntry(q)
            /\ FirstEntry(p)' = pr[p].queue_entered_at
        BY <2>1, <2>3, <2>5, <3>2
      <4>3. FirstEntry(q) \in Int /\ pr[p].queue_entered_at \in Nat
        <5>1. pr[q].first_review_at \in Nat \cup {None}
              /\ pr[q].queue_wait_seconds \in Nat
          BY RecordFacts
        <5> QED BY <1>0, <5>1 DEF FirstEntry, None
      <4> QED BY <2>5, <3>2, <4>1, <4>2, <4>3
    <3>3. CASE q = p /\ x # p
      <4>1. FirstVisitOver(x) /\ pr'[x] = pr[x] BY <1>3, <2>1, <2>5, <3>3
      <4>2. pr[x].first_review_at <= now
        <5>1. pr[x].first_review_at # None /\ pr[x].state # "ready"
          BY <4>1 DEF FirstVisitOver, Records, QueueOrder
        <5>2. /\ pr[x].first_review_at <= pr[x].last_transition_at
              /\ pr[x].last_transition_at <= now
              /\ pr[x].last_transition_at \in Nat
              /\ pr[x].first_review_at \in Nat \cup {None}
          BY <5>1, RecordFacts
        <5> QED BY <1>0, <5>2 DEF None
      <4> QED BY <2>3, <2>5, <3>3, <4>1, <4>2
    <3>4. CASE x = p /\ q = p
      <4>1. FirstEntry(p)' \in Int BY <1>0, <2>3, <2>5, <3>4
      <4> QED BY <2>5, <3>4, <4>1
    <3> QED BY <3>1, <3>2, <3>3, <3>4
  <2> QED BY <2>2, <2>4, <2>5 DEF QueueOrder, FirstReviewsFifo
<1> QED BY <1>4, <1>5, <1>6 DEF Records

(* The visit that starts has its next stop in the heap; every reviewer     *)
(* dealt with before keeps its own, and finds no more than before in the   *)
(* queue.                                                                  *)
LEMMA StartReviewAgenda ==
  ASSUME IInv, Agenda, NEW r \in Reviewers, StartReview(r) PROVE Agenda'
<1>1. /\ phase = "dispatch" /\ phase' = phase /\ todo' = todo \ {r}
      /\ OnDuty(r, now) /\ assigned[r] = None
      /\ UNCHANGED <<now, pending, truncated>>
  BY StartReviewEffect
<1>2. PICK p \in FirstCandidates(r) :
        /\ p \in PRs /\ pr[p].state = "queued_for_review" /\ pr[p].author # r
        /\ Applied(p, "in_review") /\ SameProposal(pr[p], pr'[p])
        /\ assigned' = [assigned EXCEPT ![r] = p]
        /\ used' = [used EXCEPT ![p] = 0]
        /\ times' = times \cup {NextStop(r, p, 0)}
  BY StartReviewEffect
<1>3. /\ pr'[p].state = "in_review" /\ pr'[p].last_transition_at = now
      /\ pr'[p].ready_at = pr[p].ready_at /\ Sane(pr'[p])
      /\ pr'[p].abandonment_deadline = pr[p].abandonment_deadline
      /\ \A x \in PRs : x # p => pr'[x] = pr[x] /\ used'[x] = used[x]
      /\ used'[p] = 0 /\ assigned'[r] = p
      /\ \A x \in Reviewers : x # r => assigned'[x] = assigned[x]
  BY <1>2 DEF Applied, SameProposal, IInv, TypeOK
<1>4. now \in Nat /\ now < Horizon
  BY <1>1, <1>2, RecordFacts DEF IInv, HeapAhead
<1>5. HeapComplete'
  <2>1. times \subseteq times' BY <1>2
  <2> QED BY <1>1, <2>1, GrowingHeap DEF Agenda
<1>6. Stopped' BY <1>1 DEF Agenda, Stopped
<1>7. ArrivalsAhead'
  <2> SUFFICES ASSUME NEW x \in PRs, pr'[x].state = "ready",
                      pr'[x].ready_at < Horizon
               PROVE  pr'[x].ready_at \in times'
    BY DEF ArrivalsAhead
  <2>1. pr'[x] = pr[x] BY <1>3
  <2> QED BY <1>1, <1>2, <2>1 DEF Agenda, ArrivalsAhead
<1>8. DeadlinesAhead'
  <2> SUFFICES ASSUME NEW x \in PRs
               PROVE  LET e == pr'[x].abandonment_deadline IN
                 /\ pr'[x].state = "ready" => e = None
                 /\ e # None =>
                      /\ pr'[x].terminal_reason = "abandoned" =>
                           pr'[x].last_transition_at = e
                      /\ pr'[x].state = "merged" => pr'[x].last_transition_at < e
                      /\ ~IsTerminal(pr'[x]) =>
                           /\ now < e
                           /\ e < Horizon => e \in times'
    BY <1>1 DEF DeadlinesAhead
  <2>1. CASE x # p
    <3>1. pr'[x] = pr[x] BY <1>3, <2>1
    <3> QED BY <1>1, <1>2, <3>1 DEF Agenda, DeadlinesAhead
  <2>2. CASE x = p
    <3>1. pr'[p].terminal_reason # "abandoned"
      BY <1>3 DEF Sane, Contract, ReasonsOf
    <3>2. ~IsTerminal(pr[p]) BY <1>2 DEF IsTerminal, Terminal
    <3> QED BY <1>1, <1>2, <1>3, <2>2, <3>1, <3>2 DEF Agenda, DeadlinesAhead
  <2> QED BY <2>1, <2>2
<1>9. WakeUpsAhead'
  <2>1. ASSUME ~truncated, NEW x \in PRs, Waiting(x)'
        PROVE  \/ WakeUpAt(x)' >= Horizon
               \/ /\ <<x, WakeUpAt(x)'>> \in pending
                  /\ WakeUpAt(x)' \in times' \cup {now}
    <3>1. pr'[x] = pr[x] BY <1>3, <2>1 DEF Waiting
    <3>2. Waiting(x) /\ WakeUpAt(x)' = WakeUpAt(x)
      BY <2>1, <3>1 DEF Waiting, WakeUpAt
    <3> QED BY <1>1, <1>2, <2>1, <3>2 DEF Agenda, WakeUpsAhead, NoLostWakeUp
  <2> QED BY <1>1, <2>1 DEF Agenda, WakeUpsAhead, NoLostWakeUp
<1>10. \A x \in Reviewers : x # r => Settled(x)' = Settled(x)
  BY <1>1 DEF Settled
<1>11. ServiceAhead'
  <2>1. \A x \in PRs : used'[x] <= Service[x]
    <3> TAKE x \in PRs
    <3>1. Service[x] \in Nat /\ 0 < Service[x] BY PositiveService
    <3> QED BY <1>3, <3>1 DEF Agenda, ServiceAhead
  <2>2. ASSUME NEW x \in Assigned', Settled(x)'
        PROVE  /\ used'[assigned'[x]] < Service[assigned'[x]]
               /\ OnDuty(x, now) =>
                    NextStop(x, assigned'[x], used'[assigned'[x]]) \in times'
    <3>1. CASE x = r
      BY <1>2, <1>3, <3>1, PositiveService
    <3>2. CASE x # r
      <4>1. x \in Assigned /\ assigned'[x] = assigned[x] /\ assigned[x] \in PRs
        BY <1>3, <3>2 DEF Assigned, IInv, TypeOK
      <4>2. assigned[x] # p
        BY <1>2, <4>1 DEF IInv, ReviewOwnership, IsTerminal, Terminal
      <4>3. used'[assigned[x]] = used[assigned[x]] BY <1>3, <4>1, <4>2
      <4>4. Settled(x) BY <1>10, <2>2, <3>2 DEF Assigned
      <4> QED BY <1>2, <4>1, <4>3, <4>4 DEF Agenda, ServiceAhead
    <3> QED BY <3>1, <3>2
  <2>3. \A x \in Assigned' : OnDuty(x, now)' = OnDuty(x, now)
                             /\ \A q, n : NextStop(x, q, n)' = NextStop(x, q, n)
    BY <1>1 DEF OnDuty, NextStop, DutyEnd, ClippedDuty
  <2> QED BY <1>1, <2>1, <2>2, <2>3 DEF ServiceAhead, NextStop, DutyEnd, OnDuty
<1>12. NothingForIdle'
  <2> SUFFICES ASSUME NEW x \in Reviewers, Settled(x)', OnDuty(x, now),
                      assigned'[x] = None,
                      NEW q \in PRs, pr'[q].state = "queued_for_review"
               PROVE  pr'[q].author = x
    BY <1>1 DEF NothingForIdle, Count, OnDuty
  <2>1. x # r /\ assigned[x] = None BY <1>2, <1>3, InstanceAssumption DEF None
  <2>2. pr'[q] = pr[q] BY <1>3
  <2> QED BY <1>10, <2>1, <2>2 DEF Agenda, NothingForIdle, Count
<1>13. Closing'
  <2> SUFFICES ASSUME NEW x \in PRs, pr'[x].state # "ready"
               PROVE  /\ pr'[x].ready_at < Horizon
                      /\ IF pr'[x].state = "unresolved"
                         THEN pr'[x].last_transition_at = Horizon
                         ELSE pr'[x].last_transition_at < Horizon
    BY <1>1 DEF Closing, Admitted
  <2>1. pr[x].state # "ready" BY <1>2, <1>3
  <2> QED BY <1>3, <1>4, <2>1 DEF Agenda, Closing, Admitted
<1>14. Records' BY StartReviewRecords DEF Agenda
<1> QED BY <1>5, <1>6, <1>7, <1>8, <1>9, <1>11, <1>12, <1>13, <1>14
        DEF Agenda

-----------------------------------------------------------------------------
(* The steps that only move the loop along: every part of the agenda that  *)
(* does not mention the loop is as it was.                                 *)
LEMMA AbandonmentsDoneAgenda ==
  ASSUME IInv, Agenda, AbandonmentsDone PROVE Agenda'
<1> USE DEF AbandonmentsDone, At, Agenda
<1>1. HeapComplete' BY GrowingHeap
<1>2. Records' BY QuietRecords
<1>3. Stopped' BY DEF Stopped
<1>4. ArrivalsAhead' BY DEF ArrivalsAhead
<1>5. DeadlinesAhead' BY DEF DeadlinesAhead
<1>6. WakeUpsAhead' BY DEF WakeUpsAhead, NoLostWakeUp, Waiting, WakeUpAt
<1>7. ServiceAhead' BY DEF ServiceAhead, Settled, Assigned
<1>8. NothingForIdle' BY DEF NothingForIdle, Settled
<1>9. Closing' BY DEF Closing, Admitted
<1> QED BY <1>1, <1>2, <1>3, <1>4, <1>5, <1>6, <1>7, <1>8, <1>9

LEMMA FinishesDoneAgenda ==
  ASSUME IInv, Agenda, FinishesDone PROVE Agenda'
<1> USE DEF FinishesDone, At, Agenda
<1>1. HeapComplete' BY GrowingHeap
<1>2. Records' BY QuietRecords
<1>3. Stopped' BY DEF Stopped
<1>4. ArrivalsAhead' BY DEF ArrivalsAhead
<1>5. DeadlinesAhead' BY DEF DeadlinesAhead
<1>6. WakeUpsAhead' BY DEF WakeUpsAhead, NoLostWakeUp, Waiting, WakeUpAt
<1>7. ServiceAhead' BY DEF ServiceAhead, Settled, Assigned
<1>8. NothingForIdle' BY DEF NothingForIdle, Settled
<1>9. Closing' BY DEF Closing, Admitted
<1> QED BY <1>1, <1>2, <1>3, <1>4, <1>5, <1>6, <1>7, <1>8, <1>9

(* The batch that is popped is the batch that is settled.                  *)
LEMMA NextBatchAgenda ==
  ASSUME IInv, Agenda, NextBatch PROVE Agenda'
<1> USE DEF NextBatch, At, Agenda
<1>1. HeapComplete' BY GrowingHeap
<1>2. Records' BY QuietRecords
<1>3. Stopped' BY DEF Stopped
<1>4. ArrivalsAhead' BY DEF ArrivalsAhead
<1>5. DeadlinesAhead' BY DEF DeadlinesAhead
<1>6. WakeUpsAhead'
  <2> SUFFICES ASSUME ~truncated, NEW p \in PRs, Waiting(p)
               PROVE  \/ WakeUpAt(p) >= Horizon
                      \/ /\ <<p, WakeUpAt(p)>> \in pending'
                         /\ WakeUpAt(p) \in times \cup {now}
                      \/ p \in DueNow /\ WakeUpAt(p) = now
    BY DEF WakeUpsAhead, NoLostWakeUp, Waiting, WakeUpAt
  <2>1. \/ WakeUpAt(p) >= Horizon
        \/ /\ <<p, WakeUpAt(p)>> \in pending
           /\ WakeUpAt(p) \in times \cup {now}
    BY DEF WakeUpsAhead, NoLostWakeUp
  <2>2. CASE WakeUpAt(p) = now BY <2>1, <2>2 DEF DueNow
  <2>3. CASE WakeUpAt(p) # now BY <2>1, <2>3
  <2> QED BY <2>2, <2>3
<1>7. ServiceAhead' BY DEF ServiceAhead, Settled, Assigned
<1>8. NothingForIdle' BY DEF NothingForIdle, Settled
<1>9. Closing' BY DEF Closing, Admitted
<1> QED BY <1>1, <1>2, <1>3, <1>4, <1>5, <1>6, <1>7, <1>8, <1>9

LEMMA BatchesDoneAgenda ==
  ASSUME IInv, Agenda, BatchesDone PROVE Agenda'
<1> USE DEF BatchesDone, At, Agenda
<1>1. HeapComplete' BY GrowingHeap
<1>2. Records' BY QuietRecords
<1>3. Stopped' BY DEF Stopped
<1>4. ArrivalsAhead' BY DEF ArrivalsAhead
<1>5. DeadlinesAhead' BY DEF DeadlinesAhead
<1>6. WakeUpsAhead'
  <2>1. \A e \in pending : e[2] # now BY DEF DueNow, IInv, TypeOK
  <2> QED BY <2>1 DEF WakeUpsAhead, NoLostWakeUp, Waiting, WakeUpAt
<1>7. ServiceAhead' BY DEF ServiceAhead, Settled, Assigned
<1>8. NothingForIdle' BY DEF NothingForIdle, Settled
<1>9. Closing' BY DEF Closing, Admitted
<1> QED BY <1>1, <1>2, <1>3, <1>4, <1>5, <1>6, <1>7, <1>8, <1>9

LEMMA DispatchDoneAgenda ==
  ASSUME IInv, Agenda, DispatchDone PROVE Agenda'
<1> USE DEF DispatchDone, At, Agenda
<1>1. HeapComplete' BY GrowingHeap
<1>2. Records' BY QuietRecords
<1>3. Stopped' BY DEF Stopped
<1>4. ArrivalsAhead' BY DEF ArrivalsAhead
<1>5. DeadlinesAhead' BY DEF DeadlinesAhead
<1>6. WakeUpsAhead' BY DEF WakeUpsAhead, NoLostWakeUp, Waiting, WakeUpAt
<1>7. \A r \in Reviewers : Settled(r) BY DEF Settled
<1>8. ServiceAhead'
  BY <1>7 DEF ServiceAhead, Assigned, OnDuty, NextStop, DutyEnd, ClippedDuty
<1>9. NothingForIdle'
  BY <1>7 DEF NothingForIdle, Count, OnDuty, ClippedDuty
<1>10. Closing'
  <2>1. now < Horizon BY DEF IInv, HeapAhead
  <2>2. now # Horizon BY <2>1, InstanceAssumption DEF IInv, TypeOK
  <2> QED BY <2>2 DEF Closing, Admitted
<1> QED BY <1>1, <1>2, <1>3, <1>4, <1>5, <1>6, <1>8, <1>9, <1>10

(* A run that is not truncated returns when the heap is empty.             *)
LEMMA RecordAgenda ==
  ASSUME IInv, Agenda, Record PROVE Agenda'
<1> USE DEF Record, At, Agenda
<1>1. HeapComplete' BY GrowingHeap
<1>2. Records' BY QuietRecords
<1>3. Stopped' BY DEF Stopped
<1>4. ArrivalsAhead' BY DEF ArrivalsAhead
<1>5. DeadlinesAhead' BY DEF DeadlinesAhead
<1>6. WakeUpsAhead' BY DEF WakeUpsAhead, NoLostWakeUp, Waiting, WakeUpAt
<1>7. \A r \in Reviewers : Settled(r)' => Settled(r) BY DEF Settled
<1>8. ServiceAhead'
  BY <1>7 DEF ServiceAhead, Assigned, OnDuty, NextStop, DutyEnd, ClippedDuty
<1>9. NothingForIdle'
  BY <1>7 DEF NothingForIdle, Count, OnDuty, ClippedDuty
<1>10. Closing' BY DEF Closing, Admitted
<1> QED BY <1>1, <1>2, <1>3, <1>4, <1>5, <1>6, <1>8, <1>9, <1>10

(* A wake-up of a closed proposal wakes nobody.                            *)
LEMMA SkipTerminalAgenda ==
  ASSUME IInv, Agenda, NEW p \in PRs, SkipTerminal(p) PROVE Agenda'
<1> USE DEF SkipTerminal, Settling, At, Agenda
<1>1. HeapComplete' BY GrowingHeap
<1>2. Records' BY QuietRecords
<1>3. Stopped' BY DEF Stopped
<1>4. ArrivalsAhead' BY DEF ArrivalsAhead
<1>5. DeadlinesAhead' BY DEF DeadlinesAhead
<1>6. WakeUpsAhead'
  <2>1. ~Waiting(p) BY DEF Waiting, IsTerminal, Terminal
  <2> QED BY <2>1 DEF WakeUpsAhead, NoLostWakeUp, Waiting, WakeUpAt
<1>7. ServiceAhead' BY DEF ServiceAhead, Settled, Assigned
<1>8. NothingForIdle' BY DEF NothingForIdle, Settled
<1>9. Closing' BY DEF Closing, Admitted
<1> QED BY <1>1, <1>2, <1>3, <1>4, <1>5, <1>6, <1>7, <1>8, <1>9

(* A truncated run is only asked what it has recorded.                     *)
LEMMA TruncateAgenda ==
  ASSUME IInv, Agenda, At("settle") \/ At("dispatch"),
         phase' = "record", todo' = {}, truncated' = TRUE,
         UNCHANGED <<now, previous, times, pr, assigned, used, active,
                     pending, boundary>>
  PROVE  Agenda'
<1> USE DEF At, Agenda
<1>0. now < Horizon /\ now # Horizon
  <2>1. now < Horizon BY DEF IInv, HeapAhead
  <2> QED BY <2>1, InstanceAssumption DEF IInv, TypeOK
<1>1. HeapComplete' BY GrowingHeap
<1>2. Records' BY QuietRecords
<1>3. Stopped' BY <1>0 DEF Stopped
<1>4. ArrivalsAhead' BY DEF ArrivalsAhead
<1>5. DeadlinesAhead' BY DEF DeadlinesAhead
<1>6. WakeUpsAhead' BY DEF WakeUpsAhead, NoLostWakeUp
<1>7. ServiceAhead' BY DEF ServiceAhead, Settled, Assigned
<1>8. NothingForIdle' BY DEF NothingForIdle, Settled
<1>9. Closing' BY <1>0 DEF Closing, Admitted
<1> QED BY <1>1, <1>2, <1>3, <1>4, <1>5, <1>6, <1>7, <1>8, <1>9

(* Whoever is passed over is off duty, or idle with nothing to review.     *)
LEMMA PassOverAgenda ==
  ASSUME IInv, Agenda, NEW r \in Reviewers, PassOver(r) PROVE Agenda'
<1> USE DEF Dispatching, At, Agenda
<1>0. /\ phase = "dispatch" /\ phase' = phase /\ todo' = todo \ {r}
      /\ ~OnDuty(r, now) \/ (assigned[r] = None /\ Candidates(r) = {})
      /\ UNCHANGED <<now, times, pr, assigned, used, pending, truncated>>
  BY DEF PassOver
<1>1. HeapComplete' BY <1>0, GrowingHeap
<1>2. Records' BY <1>0, QuietRecords
<1>3. Stopped' BY <1>0 DEF Stopped
<1>4. ArrivalsAhead' BY <1>0 DEF ArrivalsAhead
<1>5. DeadlinesAhead' BY <1>0 DEF DeadlinesAhead
<1>6. WakeUpsAhead'
  BY <1>0 DEF WakeUpsAhead, NoLostWakeUp, Waiting, WakeUpAt
<1>7. \A x \in Reviewers : Settled(x)' => Settled(x) \/ x = r
  BY <1>0 DEF Settled
<1>8. ServiceAhead'
  <2>1. r \in Assigned =>
          ~OnDuty(r, now) /\ used[assigned[r]] < Service[assigned[r]]
    BY <1>0 DEF Assigned, IInv, ServiceLeft
  <2> QED BY <1>0, <1>7, <2>1
          DEF ServiceAhead, Assigned, OnDuty, NextStop, DutyEnd, ClippedDuty
<1>9. NothingForIdle'
  <2>1. OnDuty(r, now) => \A p \in Count("queued_for_review") : pr[p].author = r
    BY <1>0 DEF Candidates, Count
  <2> QED BY <1>0, <1>7, <2>1 DEF NothingForIdle, Count, OnDuty, ClippedDuty
<1>10. Closing' BY <1>0 DEF Closing, Admitted
<1> QED BY <1>1, <1>2, <1>3, <1>4, <1>5, <1>6, <1>8, <1>9, <1>10

(* The steps of the finish loop that leave the records alone.              *)
LEMMA FinishQuietAgenda ==
  ASSUME IInv, Agenda, phase = "finish", phase' = phase,
         UNCHANGED <<now, previous, times, pr, used, active, pending, truncated>>
  PROVE  Agenda'
<1> USE DEF Agenda
<1>1. HeapComplete' BY GrowingHeap
<1>2. Records' BY QuietRecords
<1>3. Stopped' BY DEF Stopped
<1>4. ArrivalsAhead' BY DEF ArrivalsAhead
<1>5. DeadlinesAhead' BY DEF DeadlinesAhead
<1>6. WakeUpsAhead' BY DEF WakeUpsAhead, NoLostWakeUp, Waiting, WakeUpAt
<1>7. ServiceAhead' BY DEF ServiceAhead, Settled
<1>8. NothingForIdle' BY DEF NothingForIdle, Settled
<1>9. Closing' BY DEF Closing, Admitted
<1> QED BY <1>1, <1>2, <1>3, <1>4, <1>5, <1>6, <1>7, <1>8, <1>9

LEMMA ContinueReviewAgenda ==
  ASSUME IInv, Agenda, NEW r \in Reviewers, ContinueReview(r) PROVE Agenda'
<1> USE DEF Agenda
<1>0. /\ phase = "dispatch" /\ phase' = phase /\ todo' = todo \ {r}
      /\ OnDuty(r, now) /\ assigned[r] # None /\ times \subseteq times'
      /\ NextStop(r, assigned[r], used[assigned[r]]) \in times'
      /\ UNCHANGED <<now, pr, assigned, used, pending, truncated>>
  BY DEF ContinueReview, Dispatching, At
<1>1. HeapComplete' BY <1>0, GrowingHeap
<1>2. Records' BY <1>0, QuietRecords
<1>3. Stopped' BY <1>0 DEF Stopped
<1>4. ArrivalsAhead' BY <1>0 DEF ArrivalsAhead
<1>5. DeadlinesAhead' BY <1>0 DEF DeadlinesAhead
<1>6. WakeUpsAhead'
  BY <1>0 DEF WakeUpsAhead, NoLostWakeUp, Waiting, WakeUpAt
<1>7. \A x \in Reviewers : Settled(x)' => Settled(x) \/ x = r
  BY <1>0 DEF Settled
<1>8. ServiceAhead'
  <2>1. used[assigned[r]] < Service[assigned[r]]
    BY <1>0 DEF Assigned, IInv, ServiceLeft
  <2> QED BY <1>0, <1>7, <2>1
          DEF ServiceAhead, Assigned, OnDuty, NextStop, DutyEnd, ClippedDuty
<1>9. NothingForIdle'
  BY <1>0, <1>7 DEF NothingForIdle, Count, OnDuty, ClippedDuty
<1>10. Closing' BY <1>0 DEF Closing, Admitted
<1> QED BY <1>1, <1>2, <1>3, <1>4, <1>5, <1>6, <1>8, <1>9, <1>10

-----------------------------------------------------------------------------
(* An open proposal closed without a merge at this instant.                *)
Ended(p) ==
  /\ pr[p].state \in Live \ {"ready"}
  /\ Sane(pr'[p]) /\ SameProposal(pr[p], pr'[p])
  /\ pr'[p].state \in {"closed_without_merge", "unresolved"}
  /\ pr'[p].last_transition_at = now
  /\ pr'[p].queue_wait_seconds =
       IF pr[p].queue_entered_at = None THEN pr[p].queue_wait_seconds
       ELSE pr[p].queue_wait_seconds + now - pr[p].queue_entered_at
  /\ pr'[p].active_review_seconds = pr[p].active_review_seconds
  /\ pr'[p].review_visit_count = pr[p].review_visit_count
  /\ pr'[p].first_review_at = pr[p].first_review_at
  /\ pr'[p].first_review_completed_at = pr[p].first_review_completed_at
  /\ pr'[p].review_bypassed = pr[p].review_bypassed

(* What ABANDONED and HORIZON_REACHED do to an open proposal.              *)
LEMMA TerminateEnds ==
  ASSUME IInv, NEW p \in PRs, pr[p].state \in Live \ {"ready"},
         NEW state \in {"closed_without_merge", "unresolved"}, NEW reason,
         Accepted(pr[p], Terminate(pr[p], Live, TRUE, state, reason, now), now,
                  state),
         pr'[p] = Terminate(pr[p], Live, TRUE, state, reason, now)
  PROVE  Ended(p) /\ pr'[p].terminal_reason = reason /\ pr'[p].state = state
<1> DEFINE q == Terminate(pr[p], Live, TRUE, state, reason, now)
<1>1. pr[p] \in PullRequest /\ now \in Nat BY RecordFacts
<1>2. q.state # "raised" BY DEF Accepted
<1>3. q.terminal_reason = reason
  BY <1>1, <1>2 DEF Terminate, Fire, Raise, PullRequest
<1>4. /\ q.queue_wait_seconds =
           IF pr[p].queue_entered_at = None THEN pr[p].queue_wait_seconds
           ELSE pr[p].queue_wait_seconds + now - pr[p].queue_entered_at
      /\ q.active_review_seconds = pr[p].active_review_seconds
      /\ q.review_visit_count = pr[p].review_visit_count
      /\ q.first_review_at = pr[p].first_review_at
      /\ q.first_review_completed_at = pr[p].first_review_completed_at
      /\ q.review_bypassed = pr[p].review_bypassed
  BY <1>1, <1>2 DEF Terminate, Fire, Raise, PullRequest
<1> HIDE DEF q
<1>5. pr'[p] = q /\ Accepted(pr[p], q, now, state) BY DEF q
<1> QED BY <1>3, <1>4, <1>5 DEF Ended, Accepted

(* Ending proposals closes their accounts and leaves the queue order.      *)
LEMMA EndRecords ==
  ASSUME IInv, Records, \A x \in PRs : pr'[x] = pr[x] \/ Ended(x),
         used' = used, now' = now
  PROVE  Records'
<1>1. Earned'
  <2> DEFINE E(x) ==
        /\ pr'[x].review_bypassed => Bypass
        /\ pr'[x].state = "in_review" => pr'[x].review_visit_count >= 1
        /\ pr'[x].state \in {"approved_waiting_merge", "merged"}
             /\ ~pr'[x].review_bypassed =>
             pr'[x].review_visit_count >= 1 /\ used[x] = Service[x]
        /\ pr'[x].review_visit_count >= 1 =>
             Reviewable(x)' /\ ~TakesBypass(pr'[x])
        /\ pr'[x].state = "queued_for_review" => ~TakesBypass(pr'[x])
        /\ pr'[x].state = "ready" => pr'[x].review_visit_count = 0
  <2>1. ASSUME NEW x \in PRs, pr'[x] = pr[x] PROVE E(x)
    <3>1. Reviewable(x)' <=> Reviewable(x) BY <2>1 DEF Reviewable
    <3> QED BY <2>1, <3>1 DEF Records, Earned
  <2>2. ASSUME NEW x \in PRs, Ended(x) PROVE E(x)
    <3>1. /\ pr'[x].state \in {"closed_without_merge", "unresolved"}
          /\ pr'[x].review_visit_count = pr[x].review_visit_count
          /\ pr'[x].review_bypassed = pr[x].review_bypassed
          /\ pr'[x].author = pr[x].author /\ pr'[x].ready_at = pr[x].ready_at
          /\ pr'[x].bypass_eligible = pr[x].bypass_eligible
          /\ pr'[x].bypass_audited = pr[x].bypass_audited
      BY <2>2 DEF Ended, SameProposal
    <3>2. Reviewable(x)' <=> Reviewable(x) BY <3>1 DEF Reviewable
    <3>3. TakesBypass(pr'[x]) <=> TakesBypass(pr[x]) BY <3>1 DEF TakesBypass
    <3>4. pr'[x].review_bypassed => Bypass BY <3>1 DEF Records, Earned
    <3>5. pr'[x].review_visit_count >= 1 =>
            Reviewable(x)' /\ ~TakesBypass(pr'[x])
      BY <3>1, <3>2, <3>3 DEF Records, Earned
    <3> QED BY <3>1, <3>4, <3>5
  <2>3. \A x \in PRs : E(x) BY <2>1, <2>2
  <2> QED BY <2>3 DEF Earned, TakesBypass
<1>2. Accounts'
  <2> SUFFICES ASSUME NEW x \in PRs
               PROVE  /\ pr'[x].state = "ready" => Spent(x)' <= 0
                      /\ pr'[x].state = "queued_for_review" =>
                           Spent(x)' <= pr'[x].queue_entered_at - pr'[x].ready_at
                      /\ pr'[x].state = "in_review" =>
                           Spent(x)' <= now - pr'[x].ready_at
                      /\ pr'[x].state \notin
                           {"ready", "queued_for_review", "in_review"} =>
                           Spent(x)' <=
                             pr'[x].last_transition_at - pr'[x].ready_at
    BY DEF Accounts
  <2>1. CASE pr'[x] = pr[x]
    BY <2>1 DEF Records, Accounts, Spent
  <2>2. CASE Ended(x)
    <3>1. /\ pr'[x].state \in {"closed_without_merge", "unresolved"}
          /\ pr'[x].last_transition_at = now
          /\ pr'[x].ready_at = pr[x].ready_at
          /\ Spent(x)' = IF pr[x].queue_entered_at = None THEN Spent(x)
                         ELSE Spent(x) + now - pr[x].queue_entered_at
      <4>1. /\ pr[x].queue_wait_seconds \in Nat
            /\ pr[x].active_review_seconds \in Nat /\ now \in Nat
            /\ pr[x].queue_entered_at \in Nat \cup {None}
        BY RecordFacts
      <4> QED BY <2>2, <4>1 DEF Ended, SameProposal, Spent
    <3>2. /\ Spent(x) \in Nat /\ now \in Nat
          /\ pr[x].ready_at \in Nat /\ pr[x].last_transition_at \in Nat
          /\ pr[x].queue_entered_at \in Nat \cup {None}
          /\ pr[x].queue_entered_at # None <=> pr[x].state = "queued_for_review"
          /\ pr[x].last_transition_at <= now
      <4>1. pr[x].state # "ready" BY <2>2 DEF Ended
      <4> QED BY <4>1, RecordFacts DEF Spent
    <3>3. Spent(x)' <= now - pr[x].ready_at
      <4>1. CASE pr[x].state = "queued_for_review"
        <5>1. Spent(x) <= pr[x].queue_entered_at - pr[x].ready_at
          BY <4>1 DEF Records, Accounts
        <5> QED BY <3>1, <3>2, <4>1, <5>1
      <4>2. CASE pr[x].state = "in_review"
        <5>1. Spent(x) <= now - pr[x].ready_at
          BY <4>2 DEF Records, Accounts
        <5> QED BY <3>1, <3>2, <4>2, <5>1
      <4>3. CASE pr[x].state \notin {"queued_for_review", "in_review"}
        <5>1. Spent(x) <= pr[x].last_transition_at - pr[x].ready_at
          BY <2>2, <4>3 DEF Records, Accounts, Ended
        <5> QED BY <3>1, <3>2, <4>3, <5>1
      <4> QED BY <4>1, <4>2, <4>3
    <3> QED BY <3>1, <3>3
  <2> QED BY <2>1, <2>2
<1>3. QueueOrder'
  <2>1. \A x \in PRs : FirstVisitOver(x)' =>
          FirstVisitOver(x) /\ FirstEntry(x)' = FirstEntry(x)
                            /\ pr'[x] = pr[x]
    BY DEF FirstVisitOver, FirstEntry, Ended
  <2>2. \A x \in PRs :
          /\ pr'[x].review_visit_count = 0 <=> pr'[x].first_review_at = None
          /\ pr'[x].review_visit_count = 0 /\ ~IsTerminal(pr'[x]) =>
               pr'[x].queue_wait_seconds = 0
    BY DEF Records, QueueOrder, Ended, IsTerminal, Terminal
  <2>3. \A x \in PRs : pr'[x].state = "queued_for_review" => pr'[x] = pr[x]
    BY DEF Ended
  <2> QED BY <2>1, <2>2, <2>3 DEF Records, QueueOrder, FirstReviewsFifo
<1> QED BY <1>1, <1>2, <1>3 DEF Records

(* The deadlines that are met at this instant are the ones the loop was    *)
(* given.                                                                  *)
LEMMA AbandonEffect ==
  ASSUME IInv, Agenda, NEW p \in PRs, Abandon(p)
  PROVE  /\ phase = "abandon" /\ p \in todo /\ p \in Admitted
         /\ todo' = todo \ {p} /\ now < Horizon
         /\ UNCHANGED <<phase, now, times, used, pending, truncated>>
         /\ pr[p].state # "ready" /\ pr[p].abandonment_deadline = now
         /\ \A x \in PRs : x # p => pr'[x] = pr[x]
         /\ \/ pr'[p] = pr[p] /\ IsTerminal(pr[p])
            \/ /\ Ended(p) /\ pr'[p].terminal_reason = "abandoned"
               /\ pr'[p].state = "closed_without_merge"
<1>1. /\ phase = "abandon" /\ p \in todo /\ p \in Admitted
      /\ todo' = todo \ {p} /\ now < Horizon
      /\ pr' = [pr EXCEPT ![p] = IF IsTerminal(@) THEN @ ELSE Abandoned(@, now)]
      /\ UNCHANGED <<phase, now, times, used, pending, truncated>>
  BY DEF Abandon, At, IInv, LoopSound, HeapAhead
<1>2. /\ pr \in [PRs -> PullRequest] /\ pr[p].state # "ready"
      /\ pr[p].abandonment_deadline = now
  BY <1>1 DEF IInv, TypeOK, Admitted, Agenda, DeadlinesAhead
<1>3. \A x \in PRs : x # p => pr'[x] = pr[x] BY <1>1, <1>2
<1>4. \/ pr'[p] = pr[p] /\ IsTerminal(pr[p])
      \/ /\ Ended(p) /\ pr'[p].terminal_reason = "abandoned"
         /\ pr'[p].state = "closed_without_merge"
  <2>1. CASE IsTerminal(pr[p]) BY <1>1, <1>2, <2>1
  <2>2. CASE ~IsTerminal(pr[p])
    <3>1. /\ Sane(pr[p]) /\ pr[p] \in PullRequest /\ now \in Nat
          /\ now >= pr[p].last_transition_at
      BY <1>2, RecordFacts
    <3>2. pr[p].state \in Live \ {"ready"}
      BY <1>2, <2>2, <3>1 DEF Sane, PullRequest, IsTerminal
    <3>3. Accepted(pr[p], Abandoned(pr[p], now), now, "closed_without_merge")
      BY <3>1, <3>2, AbandonedSane
    <3>4. pr'[p] = Abandoned(pr[p], now) BY <1>1, <1>2, <2>2
    <3> QED BY <3>2, <3>3, <3>4, TerminateEnds DEF Abandoned
  <2> QED BY <2>1, <2>2
<1> QED BY <1>1, <1>2, <1>3, <1>4

LEMMA AbandonAgenda ==
  ASSUME IInv, Agenda, NEW p \in PRs, Abandon(p) PROVE Agenda'
<1>1. /\ phase = "abandon" /\ p \in todo /\ p \in Admitted
      /\ todo' = todo \ {p} /\ now < Horizon
      /\ UNCHANGED <<phase, now, times, used, pending, truncated>>
  BY AbandonEffect
<1>2. pr[p].state # "ready" /\ pr[p].abandonment_deadline = now
  BY AbandonEffect
<1>3. \A x \in PRs : x # p => pr'[x] = pr[x] BY AbandonEffect
<1>4. \/ pr'[p] = pr[p] /\ IsTerminal(pr[p])
      \/ /\ Ended(p) /\ pr'[p].terminal_reason = "abandoned"
         /\ pr'[p].state = "closed_without_merge"
  BY AbandonEffect
<1>5. Records'
  BY <1>1, <1>3, <1>4, EndRecords DEF Agenda
<1>6. /\ pr'[p].state # "ready" /\ IsTerminal(pr'[p])
      /\ pr'[p].abandonment_deadline = now
      /\ pr'[p].ready_at = pr[p].ready_at
  BY <1>2, <1>4 DEF Ended, SameProposal, IsTerminal, Terminal
<1>7. HeapComplete' BY <1>1, GrowingHeap DEF Agenda
<1>8. Stopped' BY <1>1 DEF Agenda, Stopped
<1>9. ArrivalsAhead' BY <1>1, <1>3, <1>6 DEF Agenda, ArrivalsAhead
<1>10. DeadlinesAhead'
  <2>1. \A x \in todo' : pr'[x].abandonment_deadline = now
    <3>1. \A x \in todo' : x \in PRs /\ x \in todo /\ x # p
      BY <1>1 DEF IInv, TypeOK
    <3> QED BY <1>1, <1>3, <3>1 DEF Agenda, DeadlinesAhead
  <2>2. ASSUME NEW x \in PRs
        PROVE  LET d == pr'[x].abandonment_deadline IN
               /\ pr'[x].state = "ready" => d = None
               /\ d # None =>
                    /\ pr'[x].terminal_reason = "abandoned" =>
                         pr'[x].last_transition_at = d
                    /\ pr'[x].state = "merged" => pr'[x].last_transition_at < d
                    /\ ~IsTerminal(pr'[x]) =>
                         /\ \/ now < d
                            \/ now = d /\ phase = "abandon" /\ x \in todo'
                         /\ now < d /\ d < Horizon => d \in times
    <3>1. CASE x # p
      <4>1. pr'[x] = pr[x] /\ (x \in todo' <=> x \in todo) BY <1>1, <1>3, <3>1
      <4>2. phase # "censor" BY <1>1
      <4> QED BY <4>1, <4>2 DEF Agenda, DeadlinesAhead
    <3>2. CASE x = p /\ pr'[p] = pr[p]
      BY <1>2, <1>6, <3>2 DEF Agenda, DeadlinesAhead
    <3>3. CASE x = p /\ Ended(p) /\ pr'[p].state = "closed_without_merge"
      BY <1>6, <3>3 DEF Ended
    <3> QED BY <1>4, <3>1, <3>2, <3>3
  <2> QED BY <1>1, <2>1, <2>2 DEF DeadlinesAhead
<1>11. WakeUpsAhead'
  <2>1. ~Waiting(p)' BY <1>6 DEF Waiting, IsTerminal, Terminal
  <2>2. \A x \in PRs : x # p => /\ Waiting(x)' = Waiting(x)
                                /\ WakeUpAt(x)' = WakeUpAt(x)
    BY <1>3 DEF Waiting, WakeUpAt
  <2> QED BY <1>1, <2>1, <2>2 DEF Agenda, WakeUpsAhead, NoLostWakeUp
<1>12. ServiceAhead' /\ NothingForIdle'
  BY <1>1 DEF Agenda, ServiceAhead, NothingForIdle, Settled
<1>13. Closing'
  <2> SUFFICES ASSUME NEW x \in PRs, pr'[x].state # "ready"
               PROVE  /\ pr'[x].ready_at < Horizon
                      /\ IF pr'[x].state = "unresolved"
                         THEN pr'[x].last_transition_at = Horizon
                         ELSE pr'[x].last_transition_at < Horizon
    BY <1>1 DEF Closing, Admitted
  <2>1. CASE pr'[x] = pr[x] BY <2>1 DEF Agenda, Closing, Admitted
  <2>2. CASE x = p /\ Ended(p) /\ pr'[p].state = "closed_without_merge"
    BY <1>1, <1>2, <1>6, <2>2 DEF Ended, Agenda, Closing, Admitted
  <2> QED BY <1>3, <1>4, <2>1, <2>2
<1> QED BY <1>5, <1>7, <1>8, <1>9, <1>10, <1>11, <1>12, <1>13 DEF Agenda

(* The censoring leaves nothing open.                                      *)
LEMMA CensorEffect ==
  ASSUME IInv, Agenda, Censor
  PROVE  /\ phase = "censor" /\ phase' = "record" /\ now = Horizon
         /\ UNCHANGED <<todo, now, times, used, pending, truncated>>
         /\ \A x \in PRs :
              \/ pr'[x] = pr[x] /\ (IsTerminal(pr[x]) \/ pr[x].state = "ready")
              \/ /\ Ended(x) /\ pr'[x].terminal_reason = "horizon"
                 /\ pr'[x].state = "unresolved"
<1>1. /\ phase = "censor" /\ phase' = "record" /\ now = Horizon
      /\ pr' = [x \in PRs |-> IF x \in Admitted /\ ~IsTerminal(pr[x])
                              THEN HorizonReached(pr[x], now) ELSE pr[x]]
      /\ UNCHANGED <<todo, now, times, used, pending, truncated>>
  BY DEF Censor, At, IInv, HeapAhead
<1>2. \A x \in PRs :
        \/ pr'[x] = pr[x] /\ (IsTerminal(pr[x]) \/ pr[x].state = "ready")
        \/ /\ Ended(x) /\ pr'[x].terminal_reason = "horizon"
           /\ pr'[x].state = "unresolved"
  <2> TAKE x \in PRs
  <2>1. CASE x \in Admitted /\ ~IsTerminal(pr[x])
    <3>1. pr[x].state # "ready" BY <2>1 DEF Admitted
    <3>2. /\ Sane(pr[x]) /\ pr[x] \in PullRequest /\ now \in Nat
          /\ now >= pr[x].last_transition_at
      BY <3>1, RecordFacts
    <3>3. pr[x].state \in Live \ {"ready"}
      BY <2>1, <3>1, <3>2 DEF Sane, PullRequest, IsTerminal
    <3>4. Accepted(pr[x], HorizonReached(pr[x], now), now, "unresolved")
      BY <3>2, <3>3, HorizonReachedSane
    <3>5. pr'[x] = HorizonReached(pr[x], now) BY <1>1, <2>1
    <3> QED BY <3>3, <3>4, <3>5, TerminateEnds DEF HorizonReached
  <2>2. CASE ~(x \in Admitted /\ ~IsTerminal(pr[x]))
    BY <1>1, <2>2 DEF Admitted
  <2> QED BY <2>1, <2>2
<1> QED BY <1>1, <1>2

LEMMA CensorAgenda ==
  ASSUME IInv, Agenda, Censor PROVE Agenda'
<1>1. /\ phase = "censor" /\ phase' = "record" /\ now = Horizon
      /\ UNCHANGED <<todo, now, times, used, pending, truncated>>
  BY CensorEffect
<1>2. \A x \in PRs :
        \/ pr'[x] = pr[x] /\ (IsTerminal(pr[x]) \/ pr[x].state = "ready")
        \/ /\ Ended(x) /\ pr'[x].terminal_reason = "horizon"
           /\ pr'[x].state = "unresolved"
  BY CensorEffect
<1>3. Records' BY <1>1, <1>2, EndRecords DEF Agenda
<1>4. HeapComplete' BY <1>1, GrowingHeap DEF Agenda
<1>5. ~truncated BY <1>1 DEF Agenda, Stopped
<1>6. Stopped' BY <1>1, <1>5 DEF Stopped
<1>7. ArrivalsAhead'
  <2>1. \A x \in PRs : pr'[x].state = "ready" => pr'[x] = pr[x]
    BY <1>2 DEF Ended
  <2> QED BY <1>1, <2>1 DEF Agenda, ArrivalsAhead
<1>8. DeadlinesAhead'
  <2>1. ASSUME NEW x \in PRs
        PROVE  LET d == pr'[x].abandonment_deadline IN
               /\ pr'[x].state = "ready" => d = None
               /\ d # None =>
                    /\ pr'[x].terminal_reason = "abandoned" =>
                         pr'[x].last_transition_at = d
                    /\ pr'[x].state = "merged" => pr'[x].last_transition_at < d
                    /\ IsTerminal(pr'[x])
    <3>1. CASE pr'[x] = pr[x] /\ (IsTerminal(pr[x]) \/ pr[x].state = "ready")
      BY <3>1 DEF Agenda, DeadlinesAhead
    <3>2. CASE /\ Ended(x) /\ pr'[x].terminal_reason = "horizon"
               /\ pr'[x].state = "unresolved"
      BY <3>2 DEF IsTerminal, Terminal
    <3> QED BY <1>2, <3>1, <3>2
  <2> QED BY <1>1, <2>1 DEF DeadlinesAhead
<1>9. WakeUpsAhead'
  <2>1. \A x \in PRs : ~Waiting(x)'
    BY <1>2 DEF Waiting, IsTerminal, Terminal
  <2>2. \A e \in pending : e[2] # now
    BY <1>1, InstanceAssumption DEF IInv, TypeOK
  <2> QED BY <1>1, <2>1, <2>2 DEF WakeUpsAhead, NoLostWakeUp
<1>10. ServiceAhead' /\ NothingForIdle'
  <2>1. ~(now < Horizon) BY <1>1, InstanceAssumption
  <2>2. \A r \in Reviewers : ~Settled(r)' BY <1>1, <2>1 DEF Settled
  <2> QED BY <1>1, <2>2 DEF Agenda, ServiceAhead, NothingForIdle, Assigned
<1>11. Closing'
  <2>1. ASSUME NEW x \in PRs, pr'[x].state # "ready"
        PROVE  /\ pr'[x].ready_at < Horizon /\ IsTerminal(pr'[x])
               /\ IF pr'[x].state = "unresolved"
                  THEN pr'[x].last_transition_at = Horizon
                  ELSE pr'[x].last_transition_at < Horizon
    <3>1. CASE pr'[x] = pr[x] /\ (IsTerminal(pr[x]) \/ pr[x].state = "ready")
      BY <2>1, <3>1 DEF Agenda, Closing, Admitted
    <3>2. CASE Ended(x) /\ pr'[x].state = "unresolved"
      BY <1>1, <3>2
         DEF Ended, SameProposal, Agenda, Closing, Admitted, IsTerminal, Terminal
    <3> QED BY <1>2, <3>1, <3>2
  <2> QED BY <1>1, <2>1 DEF Closing, Admitted
<1> QED BY <1>3, <1>4, <1>6, <1>7, <1>8, <1>9, <1>10, <1>11 DEF Agenda

-----------------------------------------------------------------------------
(* What an advance to the instant t does: the service of the interval is   *)
(* accounted to the reviews under way, and nothing else changes.           *)
LEMMA AdvanceEffect ==
  ASSUME IInv, Advance
  PROVE  /\ phase = "advance" /\ previous = now /\ now \in Nat
         /\ now < Horizon /\ now' \in times /\ now' \in Nat /\ now <= now'
         /\ now' <= Horizon
         /\ \A u \in times : now' <= u
         /\ times' = times \ {now'}
         /\ UNCHANGED <<assigned, pending, truncated>>
         /\ IF now' = Horizon THEN phase' = "censor" /\ todo' = {}
            ELSE /\ phase' = "abandon"
                 /\ todo' = {p \in Admitted : pr[p].abandonment_deadline = now'}
         /\ \A r \in Assigned :
              assigned[r] \in PRs /\ pr[assigned[r]].state = "in_review"
         /\ \A p \in PRs :
              /\ Sane(pr'[p]) /\ pr'[p].state = pr[p].state
              /\ SameProposal(pr[p], pr'[p])
              /\ pr'[p].last_transition_at = pr[p].last_transition_at
              /\ pr'[p].terminal_reason = pr[p].terminal_reason
              /\ pr'[p].review_bypassed = pr[p].review_bypassed
              /\ pr'[p].queue_entered_at = pr[p].queue_entered_at
              /\ pr'[p].queue_wait_seconds = pr[p].queue_wait_seconds
              /\ pr'[p].review_visit_count = pr[p].review_visit_count
              /\ pr'[p].first_review_at = pr[p].first_review_at
              /\ pr'[p].first_review_completed_at = pr[p].first_review_completed_at
              /\ IF p \in UnderService
                 THEN /\ pr[p].state = "in_review"
                      /\ pr'[p].active_review_seconds =
                           pr[p].active_review_seconds + (now' - now)
                      /\ used'[p] = used[p] + (now' - now)
                 ELSE pr'[p] = pr[p] /\ used'[p] = used[p]
<1>1. PICK t \in times :
        /\ \A u \in times : t <= u
        /\ now' = t
        /\ times' = times \ {t}
        /\ pr' = [p \in PRs |-> IF p \in UnderService
                                THEN ConsumeReviewService(pr[p], t - previous)
                                ELSE pr[p]]
        /\ used' = [p \in PRs |-> IF p \in UnderService
                                  THEN used[p] + (t - previous) ELSE used[p]]
        /\ IF t = Horizon
           THEN phase' = "censor" /\ todo' = {}
           ELSE /\ phase' = "abandon"
                /\ todo' = {p \in Admitted : pr[p].abandonment_deadline = t}
  BY DEF Advance
<1>2. /\ phase = "advance" /\ now < Horizon /\ previous = now
      /\ UNCHANGED <<previous, assigned, pending, truncated>>
  BY DEF Advance, At, IInv, HeapAhead
<1>3. /\ now \in Nat /\ t \in Nat /\ t <= Horizon /\ now <= t
      /\ t - now \in Nat
  <2>1. now \in Nat /\ t \in 0 .. Horizon
    BY InstanceAssumption DEF IInv, TypeOK
  <2>2. now < t \/ now = t BY <1>1 DEF IInv, HeapAhead
  <2> QED BY <2>1, <2>2, InstanceAssumption
<1>4. \A r \in Assigned : assigned[r] \in PRs /\ pr[assigned[r]].state = "in_review"
  <2> TAKE r \in Assigned
  <2>1. assigned[r] \in PRs BY DEF IInv, Assigned, TypeOK
  <2>2. now # Horizon BY <1>2, <1>3, InstanceAssumption
  <2> QED BY <1>2, <2>1, <2>2 DEF IInv, ReviewOwnership
<1>5. ASSUME NEW p \in PRs
      PROVE  /\ Sane(pr'[p]) /\ pr'[p].state = pr[p].state
             /\ SameProposal(pr[p], pr'[p])
             /\ pr'[p].last_transition_at = pr[p].last_transition_at
             /\ pr'[p].terminal_reason = pr[p].terminal_reason
             /\ pr'[p].review_bypassed = pr[p].review_bypassed
             /\ pr'[p].queue_entered_at = pr[p].queue_entered_at
             /\ pr'[p].queue_wait_seconds = pr[p].queue_wait_seconds
             /\ pr'[p].review_visit_count = pr[p].review_visit_count
             /\ pr'[p].first_review_at = pr[p].first_review_at
             /\ pr'[p].first_review_completed_at = pr[p].first_review_completed_at
             /\ IF p \in UnderService
                THEN /\ pr[p].state = "in_review"
                     /\ pr'[p].active_review_seconds =
                          pr[p].active_review_seconds + (now' - now)
                     /\ used'[p] = used[p] + (now' - now)
                ELSE pr'[p] = pr[p] /\ used'[p] = used[p]
  <2>1. Sane(pr[p]) /\ pr[p] \in PullRequest BY RecordFacts
  <2>2. CASE p \in UnderService
    <3>1. pr[p].state = "in_review"
      BY <1>4, <2>2 DEF UnderService, Working
    <3> DEFINE q == ConsumeReviewService(pr[p], t - now)
    <3>2. Accepted(pr[p], q, pr[p].last_transition_at, "in_review")
      BY <1>3, <2>1, <3>1, ConsumeSane
    <3>3. /\ q.active_review_seconds = pr[p].active_review_seconds + (t - now)
          /\ q.queue_wait_seconds = pr[p].queue_wait_seconds
          /\ q.review_visit_count = pr[p].review_visit_count
          /\ q.first_review_at = pr[p].first_review_at
          /\ q.first_review_completed_at = pr[p].first_review_completed_at
          /\ q.review_bypassed = pr[p].review_bypassed
          /\ q.queue_entered_at = pr[p].queue_entered_at
          /\ q.terminal_reason = pr[p].terminal_reason
      BY <1>3, <2>1, <3>1 DEF ConsumeReviewService, PullRequest
    <3>4. pr'[p] = q /\ used'[p] = used[p] + (t - now) BY <1>1, <1>2, <2>2
    <3> HIDE DEF q
    <3> QED BY <1>1, <2>2, <3>1, <3>2, <3>3, <3>4 DEF Accepted
  <2>3. CASE p \notin UnderService
    <3>1. pr'[p] = pr[p] /\ used'[p] = used[p] BY <1>1, <2>3
    <3> QED BY <2>1, <2>3, <3>1 DEF SameProposal
  <2> QED BY <2>2, <2>3
<1> QED BY <1>1, <1>2, <1>3, <1>4, <1>5

LEMMA AdvanceRecords ==
  ASSUME IInv, Records, Advance PROVE Records'
<1>1. /\ now \in Nat /\ now' \in Nat /\ now <= now'
      /\ \A p \in PRs :
           /\ pr'[p].state = pr[p].state /\ pr'[p].author = pr[p].author
           /\ pr'[p].ready_at = pr[p].ready_at
           /\ pr'[p].bypass_eligible = pr[p].bypass_eligible
           /\ pr'[p].bypass_audited = pr[p].bypass_audited
           /\ pr'[p].last_transition_at = pr[p].last_transition_at
           /\ pr'[p].queue_entered_at = pr[p].queue_entered_at
           /\ pr'[p].queue_wait_seconds = pr[p].queue_wait_seconds
           /\ pr'[p].review_visit_count = pr[p].review_visit_count
           /\ pr'[p].first_review_at = pr[p].first_review_at
           /\ IF p \in UnderService
              THEN /\ pr[p].state = "in_review"
                   /\ pr'[p].active_review_seconds =
                        pr[p].active_review_seconds + (now' - now)
              ELSE pr'[p] = pr[p] /\ used'[p] = used[p]
  BY AdvanceEffect DEF SameProposal
<1>2. \A p \in PRs : pr'[p].review_bypassed = pr[p].review_bypassed
  BY AdvanceEffect
<1>3. Earned'
  <2> DEFINE E(x) ==
        /\ pr'[x].review_bypassed => Bypass
        /\ pr'[x].state = "in_review" => pr'[x].review_visit_count >= 1
        /\ pr'[x].state \in {"approved_waiting_merge", "merged"}
             /\ ~pr'[x].review_bypassed =>
             pr'[x].review_visit_count >= 1 /\ used'[x] = Service[x]
        /\ pr'[x].review_visit_count >= 1 =>
             Reviewable(x)' /\ ~TakesBypass(pr'[x])
        /\ pr'[x].state = "queued_for_review" => ~TakesBypass(pr'[x])
        /\ pr'[x].state = "ready" => pr'[x].review_visit_count = 0
  <2>1. ASSUME NEW x \in PRs PROVE E(x)
    <3>1. Reviewable(x)' <=> Reviewable(x) BY <1>1 DEF Reviewable
    <3>2. TakesBypass(pr'[x]) <=> TakesBypass(pr[x]) BY <1>1 DEF TakesBypass
    <3>3. pr'[x].review_bypassed => Bypass BY <1>2 DEF Records, Earned
    <3>4. pr'[x].state \in {"approved_waiting_merge", "merged"}
             /\ ~pr'[x].review_bypassed =>
             pr'[x].review_visit_count >= 1 /\ used'[x] = Service[x]
      BY <1>1, <1>2 DEF Records, Earned
    <3>5. /\ pr'[x].review_visit_count >= 1 =>
               Reviewable(x)' /\ ~TakesBypass(pr'[x])
          /\ pr'[x].state = "queued_for_review" => ~TakesBypass(pr'[x])
      BY <1>1, <3>1, <3>2 DEF Records, Earned
    <3>6. /\ pr'[x].state = "in_review" => pr'[x].review_visit_count >= 1
          /\ pr'[x].state = "ready" => pr'[x].review_visit_count = 0
      BY <1>1 DEF Records, Earned
    <3> QED BY <3>3, <3>4, <3>5, <3>6
  <2> QED BY <2>1 DEF Earned, TakesBypass
<1>4. Accounts'
  <2> SUFFICES ASSUME NEW x \in PRs
               PROVE  /\ pr'[x].state = "ready" => Spent(x)' <= 0
                      /\ pr'[x].state = "queued_for_review" =>
                           Spent(x)' <= pr'[x].queue_entered_at - pr'[x].ready_at
                      /\ pr'[x].state = "in_review" =>
                           Spent(x)' <= now' - pr'[x].ready_at
                      /\ pr'[x].state \notin
                           {"ready", "queued_for_review", "in_review"} =>
                           Spent(x)' <=
                             pr'[x].last_transition_at - pr'[x].ready_at
    BY DEF Accounts
  <2>1. /\ pr[x].queue_wait_seconds \in Nat
        /\ pr[x].active_review_seconds \in Nat /\ pr[x].ready_at \in Nat
    BY RecordFacts
  <2>2. CASE x \in UnderService
    <3>1. Spent(x) <= now - pr[x].ready_at
      BY <1>1, <2>2 DEF Records, Accounts
    <3> QED BY <1>1, <2>1, <2>2, <3>1 DEF Spent
  <2>3. CASE x \notin UnderService
    <3>1. pr'[x] = pr[x] BY <1>1, <2>3
    <3>2. Spent(x)' = Spent(x) /\ Spent(x) \in Nat BY <2>1, <3>1 DEF Spent
    <3> QED BY <1>1, <2>1, <3>1, <3>2 DEF Records, Accounts
  <2> QED BY <2>2, <2>3
<1>5. QueueOrder'
  <2>1. \A x \in PRs : /\ FirstVisitOver(x)' = FirstVisitOver(x)
                       /\ FirstEntry(x)' = FirstEntry(x)
                       /\ IsTerminal(pr'[x]) = IsTerminal(pr[x])
    BY <1>1 DEF FirstVisitOver, FirstEntry, IsTerminal
  <2> QED BY <1>1, <2>1 DEF Records, QueueOrder, FirstReviewsFifo
<1> QED BY <1>3, <1>4, <1>5 DEF Records

(* Everything the agenda holds ahead of the clock is in the heap, so the   *)
(* next instant popped is at most the first of it.                         *)
LEMMA AdvanceAgenda ==
  ASSUME IInv, Agenda, Advance PROVE Agenda'
<1>1. /\ phase = "advance" /\ now \in Nat
      /\ now < Horizon /\ now' \in times /\ now' \in Nat /\ now <= now'
      /\ now' <= Horizon /\ Horizon \in Nat
      /\ \A u \in times : now' <= u
      /\ times' = times \ {now'}
      /\ UNCHANGED <<assigned, pending, truncated>>
      /\ IF now' = Horizon THEN phase' = "censor" /\ todo' = {}
         ELSE /\ phase' = "abandon"
              /\ todo' = {p \in Admitted : pr[p].abandonment_deadline = now'}
      /\ \A r \in Assigned :
           assigned[r] \in PRs /\ pr[assigned[r]].state = "in_review"
  BY AdvanceEffect, InstanceAssumption
<1>2. \A p \in PRs :
        /\ pr'[p].state = pr[p].state /\ pr'[p].ready_at = pr[p].ready_at
        /\ pr'[p].abandonment_deadline = pr[p].abandonment_deadline
        /\ pr'[p].last_transition_at = pr[p].last_transition_at
        /\ pr'[p].terminal_reason = pr[p].terminal_reason
        /\ IF p \in UnderService THEN used'[p] = used[p] + (now' - now)
           ELSE used'[p] = used[p]
  BY AdvanceEffect DEF SameProposal
<1>3. Records' BY AdvanceRecords DEF Agenda
<1>4. ~truncated BY <1>1 DEF Agenda, Stopped
<1>5. Stopped' BY <1>1, <1>4 DEF Stopped
<1>6. HeapComplete'
  <2>1. now' < Horizon => Horizon \in times'
    BY <1>1 DEF Agenda, HeapComplete
  <2>2. ASSUME NEW b \in Boundaries, now' < b PROVE b \in times'
    <3>1. b \in Nat BY BoundariesInRun, InstanceAssumption
    <3>2. now < b BY <1>1, <2>2, <3>1
    <3>3. b \in times BY <3>2 DEF Agenda, HeapComplete
    <3> QED BY <1>1, <2>2, <3>1, <3>3
  <2> QED BY <2>1, <2>2 DEF HeapComplete, Boundaries, ClippedDuty
<1>7. ArrivalsAhead'
  <2> SUFFICES ASSUME NEW p \in PRs, pr[p].state = "ready",
                      pr[p].ready_at < Horizon
               PROVE  \/ pr[p].ready_at \in times'
                      \/ phase' = "abandon" /\ pr[p].ready_at = now'
    BY <1>2 DEF ArrivalsAhead
  <2>1. pr[p].ready_at \in times BY <1>1 DEF Agenda, ArrivalsAhead
  <2>2. CASE pr[p].ready_at = now'
    <3>1. now' # Horizon BY <1>1, <2>2
    <3> QED BY <1>1, <2>2, <3>1
  <2>3. CASE pr[p].ready_at # now' BY <1>1, <2>1, <2>3
  <2> QED BY <2>2, <2>3
<1>8. DeadlinesAhead'
  <2>1. ASSUME NEW p \in PRs, pr[p].abandonment_deadline # None,
               ~IsTerminal(pr[p])
        PROVE  LET d == pr[p].abandonment_deadline IN
               /\ \/ now' < d
                  \/ now' = d /\ phase' = "censor"
                  \/ now' = d /\ phase' = "abandon" /\ p \in todo'
               /\ now' < d /\ d < Horizon => d \in times'
    <3> DEFINE d == pr[p].abandonment_deadline
    <3>1. pr[p].state # "ready" BY <2>1 DEF Agenda, DeadlinesAhead
    <3>2. /\ now < d /\ (d < Horizon => d \in times)
      BY <1>1, <2>1 DEF Agenda, DeadlinesAhead
    <3>3. d \in Nat
      <4>1. pr[p] \in PullRequest BY RecordFacts
      <4> QED BY <2>1, <4>1 DEF PullRequest, OptTime
    <3>4. now' <= d BY <1>1, <3>2, <3>3
    <3>5. CASE now' = d BY <1>1, <3>1, <3>5 DEF Admitted
    <3>6. CASE now' < d BY <1>1, <3>2, <3>3, <3>6
    <3> QED BY <1>1, <3>3, <3>4, <3>5, <3>6
  <2>2. \A p \in PRs : IsTerminal(pr'[p]) = IsTerminal(pr[p])
    BY <1>2 DEF IsTerminal
  <2>3. phase' = "abandon" =>
          \A p \in todo' : pr'[p].abandonment_deadline = now'
    BY <1>1, <1>2 DEF Admitted
  <2>4. ASSUME NEW p \in PRs
        PROVE  LET d == pr'[p].abandonment_deadline IN
               /\ pr'[p].state = "ready" => d = None
               /\ d # None =>
                    /\ pr'[p].terminal_reason = "abandoned" =>
                         pr'[p].last_transition_at = d
                    /\ pr'[p].state = "merged" => pr'[p].last_transition_at < d
    BY <1>2 DEF Agenda, DeadlinesAhead
  <2> QED BY <1>2, <2>1, <2>2, <2>3, <2>4 DEF DeadlinesAhead
<1>9. WakeUpsAhead'
  <2>1. ASSUME NEW p \in PRs, Waiting(p), ~(WakeUpAt(p) >= Horizon)
        PROVE  /\ <<p, WakeUpAt(p)>> \in pending
               /\ WakeUpAt(p) \in times' \cup {now'}
    <3>1. /\ <<p, WakeUpAt(p)>> \in pending
          /\ WakeUpAt(p) \in times \cup {now}
      BY <1>1, <1>4, <2>1 DEF Agenda, WakeUpsAhead, NoLostWakeUp
    <3>2. WakeUpAt(p) # now BY <1>1, <1>4, <3>1 DEF Agenda, WakeUpsAhead
    <3> QED BY <1>1, <3>1, <3>2
  <2>2. \A p \in PRs : /\ Waiting(p)' = Waiting(p)
                       /\ WakeUpAt(p)' = WakeUpAt(p)
    BY <1>2 DEF Waiting, WakeUpAt
  <2>3. phase' \in {"censor", "abandon"} BY <1>1
  <2> QED BY <1>1, <2>1, <2>2, <2>3 DEF WakeUpsAhead, NoLostWakeUp
<1>10. ServiceAhead'
  <2>1. \A r \in Reviewers : ~Settled(r)' BY <1>1 DEF Settled
  <2>2. ASSUME NEW p \in PRs PROVE used'[p] <= Service[p]
    <3>1. used[p] <= Service[p] BY DEF Agenda, ServiceAhead
    <3>2. CASE p \notin UnderService BY <1>2, <3>1, <3>2
    <3>3. CASE p \in UnderService
      <4>1. PICK r \in Assigned : OnDuty(r, now) /\ p = assigned[r]
        BY <3>3, AdvanceEffect DEF UnderService, Working
      <4>2. r \in Reviewers /\ Settled(r)
        BY <1>1, <1>4 DEF Settled, Assigned
      <4>3. NextStop(r, p, used[p]) \in times
        BY <4>1, <4>2 DEF Agenda, ServiceAhead
      <4>4. now' <= NextStop(r, p, used[p]) BY <1>1, <4>3
      <4>5. DutyEnd(r, now) \in Int
        BY <1>1, <4>1, <4>2, DutyEndBounds
      <4>6. used[p] \in Nat /\ Service[p] \in Nat
        BY PositiveService DEF IInv, TypeOK
      <4>7. NextStop(r, p, used[p]) <= now + (Service[p] - used[p])
        BY <1>1, <4>5, <4>6 DEF NextStop, Earlier
      <4>8. NextStop(r, p, used[p]) \in Int
        BY <1>1, <4>5, <4>6 DEF NextStop, Earlier
      <4>9. used'[p] = used[p] + (now' - now) BY <1>2, <3>3
      <4> QED BY <1>1, <4>4, <4>6, <4>7, <4>8, <4>9
    <3> QED BY <3>2, <3>3
  <2> QED BY <2>1, <2>2 DEF ServiceAhead, Assigned
<1>11. NothingForIdle'
  <2>1. \A r \in Reviewers : ~Settled(r)' BY <1>1 DEF Settled
  <2> QED BY <2>1 DEF NothingForIdle
<1>12. Closing'
  <2>1. phase' \notin {"record", "done"} BY <1>1
  <2> QED BY <1>2, <2>1 DEF Agenda, Closing, Admitted
<1> QED BY <1>3, <1>5, <1>6, <1>7, <1>8, <1>9, <1>10, <1>11, <1>12 DEF Agenda

-----------------------------------------------------------------------------
(* Every step of the engine, and every stutter, keeps the agenda.          *)
LEMMA NextAgenda == IInv /\ Agenda /\ [Next]_vars => Agenda'
<1> SUFFICES ASSUME IInv, Agenda, [Next]_vars PROVE Agenda' OBVIOUS
<1>1. CASE UNCHANGED vars
  <2> USE <1>1 DEF vars, Agenda
  <2>1. HeapComplete' BY GrowingHeap
  <2>2. Records' BY QuietRecords
  <2>3. Stopped' /\ ArrivalsAhead' /\ DeadlinesAhead' /\ Closing'
    BY DEF Stopped, ArrivalsAhead, DeadlinesAhead, Closing, Admitted
  <2>4. WakeUpsAhead' BY DEF WakeUpsAhead, NoLostWakeUp, Waiting, WakeUpAt
  <2>5. \A r \in Reviewers : Settled(r)' = Settled(r) BY DEF Settled
  <2>6. ServiceAhead'
    BY <2>5 DEF ServiceAhead, Assigned, OnDuty, NextStop, DutyEnd, ClippedDuty
  <2>7. NothingForIdle'
    BY <2>5 DEF NothingForIdle, Count, OnDuty, ClippedDuty
  <2> QED BY <2>1, <2>2, <2>3, <2>4, <2>6, <2>7
<1>2. CASE Advance BY <1>2, AdvanceAgenda
<1>3. CASE Censor BY <1>3, CensorAgenda
<1>4. CASE Record BY <1>4, RecordAgenda
<1>5. CASE AbandonmentsDone BY <1>5, AbandonmentsDoneAgenda
<1>6. CASE FinishesDone BY <1>6, FinishesDoneAgenda
<1>7. CASE NextBatch BY <1>7, NextBatchAgenda
<1>8. CASE BatchesDone BY <1>8, BatchesDoneAgenda
<1>9. CASE DispatchDone BY <1>9, DispatchDoneAgenda
<1>10. ASSUME NEW p \in PRs,
              \/ Abandon(p) \/ Admit(p) \/ SkipTerminal(p) \/ Merge(p)
              \/ SubmitRevision(p) \/ TruncateVerification(p)
              \/ FailVerification(p) \/ PassVerification(p)
       PROVE  Agenda'
  <2>1. CASE TruncateVerification(p)
    BY <2>1, TruncateAgenda DEF TruncateVerification, Settling
  <2> QED BY <1>10, <2>1, AbandonAgenda, AdmitAgenda, SkipTerminalAgenda,
             MergeAgenda, SubmitRevisionAgenda, FailVerificationAgenda,
             PassVerificationAgenda
<1>11. ASSUME NEW r \in Reviewers,
              \/ ReleaseReviewer(r) \/ CompleteReview(r) \/ KeepReviewing(r)
              \/ PassOver(r) \/ ContinueReview(r) \/ StartReview(r)
              \/ TruncateReview(r)
       PROVE  Agenda'
  <2>1. CASE TruncateReview(r)
    BY <2>1, TruncateAgenda DEF TruncateReview, Dispatching
  <2>2. CASE ReleaseReviewer(r)
    BY <2>2, FinishQuietAgenda DEF ReleaseReviewer, At
  <2>3. CASE KeepReviewing(r)
    BY <2>3, FinishQuietAgenda DEF KeepReviewing, At
  <2> QED BY <1>11, <2>1, <2>2, <2>3, CompleteReviewAgenda, PassOverAgenda,
             ContinueReviewAgenda, StartReviewAgenda
<1> QED BY <1>1, <1>2, <1>3, <1>4, <1>5, <1>6, <1>7, <1>8, <1>9, <1>10, <1>11
        DEF Next, Returned

(* The agenda is an invariant of the engine.                               *)
THEOREM AgendaKept == Spec => []Agenda
<1> QED BY Inductive, InitAgenda, NextAgenda, PTL DEF Spec

-----------------------------------------------------------------------------
(* The active review of p is a whole service for each of its visits but    *)
(* the last, which has its service as well once p has gone on.             *)
Serviced(p) ==
  LET n == pr[p].review_visit_count IN
  /\ pr[p].active_review_seconds =
       IF n = 0 THEN 0 ELSE (n - 1) * Service[p] + used[p]
  /\ n >= 1 /\ pr[p].state \notin {"in_review", "closed_without_merge", "unresolved"}
       => used[p] = Service[p]

Services == \A p \in PRs : Serviced(p)

LEMMA InitServices == ASSUME Init PROVE Services
<1>1. PICK author \in [PRs -> Authors], ready \in [PRs -> ReadyTimes],
           flags \in [PRs -> ProposalFlags] :
        pr = [p \in PRs |-> Fresh(author[p], ready[p], flags[p][1], flags[p][2])]
  BY DEF Init
<1>2. \A p \in PRs : /\ pr[p].review_visit_count = 0
                     /\ pr[p].active_review_seconds = 0
  BY <1>1 DEF Fresh
<1> QED BY <1>2 DEF Services, Serviced

(* An event that takes p on, whose visit has its service if it had one.    *)
LEMMA EventServices ==
  ASSUME Services, NEW p \in PRs, NEW state, Event(p, state),
         state # "in_review", used' = used,
         \/ pr[p].state \notin {"in_review", "closed_without_merge", "unresolved"}
         \/ used[p] = Service[p]
  PROVE  Services'
<1>1. /\ pr'[p].state = state
      /\ pr'[p].review_visit_count = pr[p].review_visit_count
      /\ pr'[p].active_review_seconds = pr[p].active_review_seconds
      /\ \A x \in PRs : x # p => pr'[x] = pr[x]
  BY DEF Event, Applied, SameAccounts
<1>2. ASSUME NEW x \in PRs PROVE Serviced(x)'
  <2>1. Serviced(x) BY DEF Services
  <2>2. CASE x # p BY <1>1, <2>1, <2>2 DEF Serviced
  <2>3. CASE x = p BY <1>1, <2>1, <2>3 DEF Serviced
  <2> QED BY <2>2, <2>3
<1> QED BY <1>2 DEF Services

(* Closing proposals leaves their service as it is.                        *)
LEMMA EndServices ==
  ASSUME Services, \A x \in PRs : pr'[x] = pr[x] \/ Ended(x), used' = used
  PROVE  Services'
<1>1. ASSUME NEW x \in PRs PROVE Serviced(x)'
  <2>1. Serviced(x) BY DEF Services
  <2>2. CASE pr'[x] = pr[x] BY <2>1, <2>2 DEF Serviced
  <2>3. CASE Ended(x) BY <2>1, <2>3 DEF Serviced, Ended
  <2> QED BY <2>2, <2>3
<1> QED BY <1>1 DEF Services

LEMMA StartReviewServices ==
  ASSUME IInv, Services, NEW r \in Reviewers, StartReview(r) PROVE Services'
<1>1. PICK p \in FirstCandidates(r) :
         /\ p \in PRs /\ pr[p].state = "queued_for_review"
         /\ Applied(p, "in_review")
         /\ pr'[p].active_review_seconds = pr[p].active_review_seconds
         /\ pr'[p].review_visit_count = pr[p].review_visit_count + 1
         /\ used' = [used EXCEPT ![p] = 0]
  BY StartReviewEffect
<1>2. /\ pr'[p].state = "in_review" /\ used'[p] = 0
      /\ \A x \in PRs : x # p => pr'[x] = pr[x] /\ used'[x] = used[x]
  BY <1>1 DEF Applied, IInv, TypeOK
<1>3. PICK n \in Nat : n = pr[p].review_visit_count BY <1>1, RecordFacts
<1>4. PICK s \in Nat : s = Service[p] BY <1>1, PositiveService
<1>5. pr[p].active_review_seconds = n * s
  <2>1. Serviced(p) BY <1>1 DEF Services
  <2>2. CASE n = 0
    <3>1. 0 * s = 0 BY <1>4
    <3> QED BY <1>3, <2>1, <2>2, <3>1 DEF Serviced
  <2>3. CASE n # 0
    <3>1. pr[p].active_review_seconds = (n - 1) * s + s
      BY <1>1, <1>3, <1>4, <2>1, <2>3 DEF Serviced
    <3>2. (n - 1) * s + s = n * s BY <1>3, <1>4
    <3> QED BY <3>1, <3>2
  <2> QED BY <2>2, <2>3
<1>6. Serviced(p)'
  <2> DEFINE m == pr'[p].review_visit_count
  <2>1. m = n + 1 /\ m # 0 /\ m - 1 = n BY <1>1, <1>3
  <2>2. n * s \in Nat BY <1>3, <1>4
  <2>3. n * s = (m - 1) * s + 0
    <3> HIDE DEF m
    <3>1. (m - 1) * s = n * s BY <2>1
    <3> QED BY <2>2, <3>1
  <2>4. pr'[p].active_review_seconds = (m - 1) * Service[p] + used'[p]
    BY <1>1, <1>2, <1>4, <1>5, <2>3
  <2> QED BY <1>2, <2>1, <2>4 DEF Serviced
<1>7. ASSUME NEW x \in PRs, x # p PROVE Serviced(x)'
  <2>1. Serviced(x) /\ pr'[x] = pr[x] /\ used'[x] = used[x]
    BY <1>2, <1>7 DEF Services
  <2> QED BY <2>1 DEF Serviced
<1> QED BY <1>6, <1>7 DEF Services

LEMMA AdvanceServices ==
  ASSUME IInv, Records, Services, Advance PROVE Services'
<1>1. ASSUME NEW p \in PRs PROVE Serviced(p)'
  <2>1. /\ pr'[p].state = pr[p].state
        /\ pr'[p].review_visit_count = pr[p].review_visit_count
        /\ IF p \in UnderService
           THEN /\ pr[p].state = "in_review"
                /\ pr'[p].active_review_seconds =
                     pr[p].active_review_seconds + (now' - now)
                /\ used'[p] = used[p] + (now' - now)
           ELSE pr'[p] = pr[p] /\ used'[p] = used[p]
        /\ now \in Nat /\ now' \in Nat
    BY AdvanceEffect
  <2>2. Serviced(p) BY DEF Services
  <2>3. CASE p \notin UnderService BY <2>1, <2>2, <2>3 DEF Serviced
  <2>4. CASE p \in UnderService
    <3>1. PICK n \in Nat : n = pr[p].review_visit_count BY RecordFacts
    <3>2. n >= 1 BY <2>1, <2>4, <3>1 DEF Records, Earned
    <3>3. used[p] \in Nat BY DEF IInv, TypeOK
    <3>4. PICK k \in Nat : k = (n - 1) * Service[p]
      BY <3>1, <3>2, PositiveService
    <3>5. pr[p].active_review_seconds = k + used[p]
      BY <2>2, <3>1, <3>2, <3>4 DEF Serviced
    <3>6. pr'[p].active_review_seconds = k + used'[p]
      BY <2>1, <2>4, <3>3, <3>4, <3>5
    <3> QED BY <2>1, <2>4, <3>1, <3>2, <3>4, <3>6 DEF Serviced
  <2> QED BY <2>3, <2>4
<1> QED BY <1>1 DEF Services

LEMMA NextServices == IInv /\ Agenda /\ Services /\ [Next]_vars => Services'
<1> SUFFICES ASSUME IInv, Agenda, Services, [Next]_vars PROVE Services' OBVIOUS
<1>1. ASSUME pr' = pr, used' = used PROVE Services'
  BY <1>1 DEF Services, Serviced
<1>2. CASE Advance BY <1>2, AdvanceServices DEF Agenda
<1>3. CASE Censor
  <2>1. used' = used /\ \A x \in PRs : pr'[x] = pr[x] \/ Ended(x)
    BY <1>3, CensorEffect
  <2> QED BY <2>1, EndServices
<1>4. ASSUME NEW p \in PRs, Abandon(p) PROVE Services'
  <2>1. used' = used /\ \A x \in PRs : pr'[x] = pr[x] \/ Ended(x)
    BY <1>4, AbandonEffect
  <2> QED BY <2>1, EndServices
<1>5. ASSUME NEW p \in PRs, Admit(p) PROVE Services'
  <2>1. Event(p, "verifying") /\ used' = used /\ pr[p].state = "ready"
    BY <1>5, AdmitEvent
  <2> QED BY <2>1, EventServices
<1>6. ASSUME NEW p \in PRs,
             Merge(p) \/ SubmitRevision(p) \/ FailVerification(p) \/ PassVerification(p)
      PROVE  Services'
  <2>1. PICK state \in {"merged", "verifying", "author_response",
                        "approved_waiting_merge", "queued_for_review"} :
          Event(p, state)
    BY <1>6, MergeEvent, SubmitRevisionEvent, FailVerificationEvent,
       PassVerificationEvent
  <2>2. pr[p].state \in {"approved_waiting_merge", "author_response", "verifying"}
    BY <1>6, MergeEvent, SubmitRevisionEvent, FailVerificationEvent,
       PassVerificationEvent
  <2>3. used' = used
    BY <1>6 DEF Merge, SubmitRevision, FailVerification, PassVerification
  <2> QED BY <2>1, <2>2, <2>3, EventServices
<1>7. ASSUME NEW r \in Reviewers, CompleteReview(r) PROVE Services'
  <2>1. PICK p \in PRs : p = assigned[r] /\ Served(p) /\ used' = used
    BY <1>7, CompleteReviewEvent
  <2>2. PICK state \in {"author_response", "approved_waiting_merge"} : Event(p, state)
    BY <1>7, <2>1, CompleteReviewEvent
  <2>3. used[p] = Service[p]
    <3>1. used[p] \in Nat /\ Service[p] \in Nat
      BY PositiveService DEF IInv, TypeOK
    <3>2. used[p] <= Service[p] BY DEF Agenda, ServiceAhead
    <3> QED BY <2>1, <3>1, <3>2 DEF Served
  <2> QED BY <2>1, <2>2, <2>3, EventServices
<1>8. ASSUME NEW r \in Reviewers, StartReview(r) PROVE Services'
  BY <1>8, StartReviewServices
<1>9. CASE \/ UNCHANGED vars \/ Record
           \/ AbandonmentsDone \/ FinishesDone \/ NextBatch \/ BatchesDone
           \/ DispatchDone
  BY <1>1, <1>9
     DEF vars, Record, AbandonmentsDone, FinishesDone, NextBatch, BatchesDone,
         DispatchDone
<1>10. ASSUME NEW p \in PRs, SkipTerminal(p) \/ TruncateVerification(p)
       PROVE  Services'
  BY <1>1, <1>10 DEF SkipTerminal, TruncateVerification
<1>11. ASSUME NEW r \in Reviewers,
              \/ ReleaseReviewer(r) \/ KeepReviewing(r) \/ PassOver(r)
              \/ ContinueReview(r) \/ TruncateReview(r)
       PROVE  Services'
  BY <1>1, <1>11
     DEF ReleaseReviewer, KeepReviewing, PassOver, ContinueReview, TruncateReview
<1> QED BY <1>2, <1>3, <1>4, <1>5, <1>6, <1>7, <1>8, <1>9, <1>10, <1>11
        DEF Next, Returned

-----------------------------------------------------------------------------
(* No wake-up is lost: whoever waits for a delay will be settled at the    *)
(* end of it, or stays waiting past the horizon.                           *)
THEOREM WakeUpsAreNotLost == Spec => []NoLostWakeUp
<1>1. Agenda => NoLostWakeUp BY DEF Agenda, WakeUpsAhead
<1> QED BY <1>1, AgendaKept, PTL

(* A proposal abandons exactly at its deadline, never merges at or past    *)
(* it, and is not open past it.                                            *)
THEOREM DeadlinesAreHonoured == Spec => []DeadlineHonoured
<1>1. Agenda => DeadlineHonoured
  BY DEF Agenda, DeadlinesAhead, DeadlineHonoured
<1> QED BY <1>1, AgendaKept, PTL

(* No visit is served longer than its service, and none that is complete   *)
(* is left standing once its instant is over.                              *)
THEOREM VisitsDoNotOvershoot == Spec => []NoOvershoot
<1>1. IInv /\ Agenda => NoOvershoot
  BY DEF IInv, TypeOK, Assigned, Agenda, ServiceAhead, Settled, NoOvershoot
<1> QED BY <1>1, Inductive, AgendaKept, PTL

(* No reviewer on duty is left idle while somebody else's proposal waits.  *)
THEOREM WorkIsConserved == Spec => []WorkConserving
<1>1. Agenda => WorkConserving
  BY DEF Agenda, NothingForIdle, Settled, WorkConserving
<1> QED BY <1>1, AgendaKept, PTL

(* First reviews start in the order of the queue.                          *)
THEOREM FirstReviewsInOrder == Spec => []FirstReviewsFifo
<1>1. Agenda => FirstReviewsFifo BY DEF Agenda, Records, QueueOrder
<1> QED BY <1>1, AgendaKept, PTL

(* Every merge is paid for: by a bypass the policy allowed, or by a visit  *)
(* that received its whole service.                                        *)
THEOREM MergesAreEarned == Spec => []MergeEarned
<1>1. ASSUME IInv, Agenda PROVE MergeEarned
  <2> SUFFICES ASSUME NEW p \in PRs, pr[p].state = "merged"
               PROVE  IF pr[p].review_bypassed
                      THEN Bypass /\ pr[p].bypass_eligible
                             /\ ~pr[p].bypass_audited
                      ELSE pr[p].review_visit_count >= 1
                             /\ used[p] = Service[p]
    BY DEF MergeEarned, Count
  <2>1. Contract(pr[p]) BY <1>1, RecordFacts DEF Sane
  <2>2. CASE pr[p].review_bypassed
    BY <1>1, <2>1, <2>2 DEF Contract, Agenda, Records, Earned
  <2>3. CASE ~pr[p].review_bypassed
    BY <1>1, <2>3 DEF Agenda, Records, Earned
  <2> QED BY <2>2, <2>3
<1> QED BY <1>1, Inductive, AgendaKept, PTL

(* Waiting in the queue and being reviewed never add up to more than the   *)
(* life of the proposal.                                                   *)
THEOREM TimeIsAccounted == Spec => []TimeAccounts
<1>1. ASSUME IInv, Agenda PROVE TimeAccounts
  <2> SUFFICES ASSUME NEW p \in PRs, pr[p].state # "ready"
               PROVE  Spent(p) <= (IF IsTerminal(pr[p])
                                   THEN pr[p].last_transition_at ELSE now)
                                  - pr[p].ready_at
    BY DEF TimeAccounts, Admitted, Spent
  <2>1. /\ Spent(p) \in Nat /\ now \in Nat /\ pr[p].ready_at \in Nat
        /\ pr[p].last_transition_at \in Nat
        /\ pr[p].last_transition_at <= now
        /\ pr[p].queue_entered_at \in Nat \cup {None}
        /\ pr[p].queue_entered_at # None <=> pr[p].state = "queued_for_review"
        /\ pr[p].state = "queued_for_review" =>
             pr[p].queue_entered_at <= pr[p].last_transition_at
    <3>1. Spent(p) \in Nat BY <1>1, RecordFacts DEF Spent
    <3> QED BY <1>1, <3>1, RecordFacts
  <2>2. CASE pr[p].state = "queued_for_review"
    <3>1. Spent(p) <= pr[p].queue_entered_at - pr[p].ready_at
      BY <1>1, <2>2 DEF Agenda, Records, Accounts
    <3> QED BY <2>1, <2>2, <3>1 DEF IsTerminal, Terminal
  <2>3. CASE pr[p].state = "in_review"
    BY <1>1, <2>3 DEF Agenda, Records, Accounts, IsTerminal, Terminal
  <2>4. CASE pr[p].state \notin {"queued_for_review", "in_review"}
    <3>1. Spent(p) <= pr[p].last_transition_at - pr[p].ready_at
      BY <1>1, <2>4 DEF Agenda, Records, Accounts
    <3> QED BY <2>1, <3>1
  <2> QED BY <2>2, <2>3, <2>4
<1> QED BY <1>1, Inductive, AgendaKept, PTL

(* A proposal reported without an eligible reviewer was never reviewed and *)
(* never merged.                                                           *)
THEOREM LimitationIsSound == Spec => []LimitationSound
<1>1. ASSUME IInv, Agenda PROVE LimitationSound
  <2> SUFFICES ASSUME NEW p \in PRs, ~TakesBypass(pr[p]), ~Reviewable(p)
               PROVE  pr[p].review_visit_count = 0 /\ pr[p].state # "merged"
    BY DEF LimitationSound, Admitted, NoEligibleReviewer, Reviewable
  <2>1. pr[p].review_visit_count = 0
    <3>1. ~(pr[p].review_visit_count >= 1)
      BY <1>1 DEF Agenda, Records, Earned
    <3>2. pr[p].review_visit_count \in Nat BY <1>1, RecordFacts
    <3> QED BY <3>1, <3>2
  <2>2. ~pr[p].review_bypassed
    <3>1. Contract(pr[p]) BY <1>1, RecordFacts DEF Sane
    <3> QED BY <1>1, <3>1
            DEF Contract, Agenda, Records, Earned, TakesBypass
  <2>3. pr[p].state # "merged"
    BY <1>1, <2>1, <2>2 DEF Agenda, Records, Earned
  <2> QED BY <2>1, <2>3
<1> QED BY <1>1, Inductive, AgendaKept, PTL

(* Where the heap is empty, nothing is left to admit or to close.          *)
LEMMA CompleteAtEnd == ASSUME IInv, Agenda PROVE CompleteResult
<1>1. ASSUME IInv, Agenda, phase = "done" PROVE CompleteResult
  <2>1. CASE truncated
    BY <1>1, <2>1 DEF Agenda, Stopped, CompleteResult
  <2>2. CASE ~truncated
    <3>1. times = {} BY <1>1, <2>2 DEF Agenda, Closing
    <3>2. now = Horizon
      <4>1. ~(now < Horizon) BY <1>1, <3>1 DEF Agenda, HeapComplete
      <4> QED BY <1>1, <4>1, InstanceAssumption DEF IInv, TypeOK
    <3>3. \A p \in Admitted : pr[p].ready_at < Horizon /\ IsTerminal(pr[p])
      BY <1>1, <3>2 DEF Agenda, Closing
    <3>4. \A p \in PRs : pr[p].ready_at < Horizon => p \in Admitted
      BY <1>1, <3>1 DEF Agenda, ArrivalsAhead, Admitted
    <3>5. Admitted = {p \in PRs : pr[p].ready_at < Horizon}
      BY <3>3, <3>4 DEF Admitted
    <3>6. \A p \in Admitted :
            pr[p].last_transition_at = Horizon <=> pr[p].state = "unresolved"
      <4> SUFFICES ASSUME NEW p \in Admitted
                   PROVE  pr[p].last_transition_at = Horizon
                            <=> pr[p].state = "unresolved"
        OBVIOUS
      <4>1. IF pr[p].state = "unresolved"
            THEN pr[p].last_transition_at = Horizon
            ELSE pr[p].last_transition_at < Horizon
        BY <1>1 DEF Agenda, Closing
      <4> QED BY <4>1, InstanceAssumption
    <3> QED BY <2>2, <3>2, <3>3, <3>5, <3>6 DEF CompleteResult
  <2> QED BY <2>1, <2>2
<1> QED BY <1>1 DEF CompleteResult

(* A run that is not truncated returns at the horizon, with every proposal *)
(* that became ready before it admitted and closed.                        *)
THEOREM ResultsAreComplete == Spec => []CompleteResult
<1>1. IInv /\ Agenda => CompleteResult BY CompleteAtEnd
<1> QED BY <1>1, Inductive, AgendaKept, PTL

-----------------------------------------------------------------------------
(* The instants of an interval.                                            *)
LEMMA IntervalSize ==
  ASSUME NEW a \in Nat, NEW b \in Nat, a <= b
  PROVE  /\ Cardinality(a .. b - 1) = b - a
         /\ \A u \in a .. b - 1 : u \in Nat /\ a <= u /\ u < b
<1> DEFINE k == b - 1
<1>1. k \in Int /\ a \in Int /\ k - a + 1 = b - a OBVIOUS
<1>2. a > k => b - a = 0 OBVIOUS
<1> HIDE DEF k
<1>3. Cardinality(a .. k) = IF a > k THEN 0 ELSE k - a + 1
  BY <1>1, FS_Interval
<1>4. Cardinality(a .. k) = b - a BY <1>1, <1>2, <1>3
<1> QED BY <1>4 DEF k

(* The duty of r does not change between two instants of the heap.         *)
LEMMA DutyHolds ==
  ASSUME IInv, Agenda, Advance, NEW r \in Reviewers,
         NEW u \in Nat, now <= u, u < now'
  PROVE  OnDuty(r, u) <=> OnDuty(r, now)
<1>1. now \in Nat /\ now' \in Nat BY AdvanceEffect
<1>2. \A d \in ClippedDuty(r) : d[1] \in Nat /\ d[2] \in Nat
                                /\ d[1] \in Boundaries /\ d[2] \in Boundaries
  <2> TAKE d \in ClippedDuty(r)
  <2>1. d[1] \in Boundaries /\ d[2] \in Boundaries BY DEF Boundaries
  <2>2. \A b \in Boundaries : b \in Nat
    BY BoundariesInRun, InstanceAssumption
  <2> QED BY <2>1, <2>2
<1>3. \A b \in Boundaries : now < b => now' <= b
  BY AdvanceEffect DEF Agenda, HeapComplete
<1>5. ASSUME NEW d \in ClippedDuty(r)
      PROVE  d[1] <= u /\ u < d[2] <=> d[1] <= now /\ now < d[2]
  <2>1. /\ d[1] \in Nat /\ d[2] \in Nat
        /\ now < d[1] => now' <= d[1]
        /\ now < d[2] => now' <= d[2]
    BY <1>2, <1>3
  <2> QED BY <1>1, <2>1
<1> QED BY <1>5 DEF OnDuty

(* What an advance accounts to the reviewers.                              *)
ServiceOfStep ==
  phase = "advance" =>
    \A r \in Reviewers :
      active'[r] - active[r] =
        IF assigned[r] = None THEN 0
        ELSE Cardinality({t \in previous .. now' - 1 : OnDuty(r, t)})

LEMMA AdvanceAccounts ==
  ASSUME IInv, Agenda, Advance PROVE ServiceOfStep
<1>1. /\ previous = now /\ now \in Nat /\ now' \in Nat /\ now <= now'
  BY AdvanceEffect
<1>2. SUFFICES ASSUME NEW r \in Reviewers
               PROVE  active'[r] - active[r] =
                        IF assigned[r] = None THEN 0
                        ELSE Cardinality({t \in now .. now' - 1 : OnDuty(r, t)})
  BY <1>1 DEF ServiceOfStep
<1>3. /\ active[r] \in Nat
      /\ active'[r] = IF r \in Working THEN active[r] + (now' - now)
                      ELSE active[r]
  BY <1>1 DEF Advance, IInv, TypeOK
<1> DEFINE S == {t \in now .. now' - 1 : OnDuty(r, t)}
           n == Cardinality(S)
<1>4. \A u \in now .. now' - 1 : OnDuty(r, u) <=> OnDuty(r, now)
  BY <1>1, IntervalSize, DutyHolds
<1>5. OnDuty(r, now) => n = now' - now
  <2>1. ASSUME OnDuty(r, now) PROVE S = now .. now' - 1 BY <1>4, <2>1
  <2> QED BY <1>1, <2>1, IntervalSize
<1>6. ~OnDuty(r, now) => n = 0
  <2>1. ASSUME ~OnDuty(r, now) PROVE S = {} BY <1>4, <2>1
  <2> QED BY <2>1, FS_EmptySet
<1>7. r \in Working <=> assigned[r] # None /\ OnDuty(r, now)
  BY <1>1 DEF Working, Assigned
<1> HIDE DEF n
<1>8. active'[r] - active[r] = IF assigned[r] = None THEN 0 ELSE n
  BY <1>1, <1>3, <1>5, <1>6, <1>7
<1> QED BY <1>8 DEF n

(* The seconds accounted to an occupied reviewer over an interval are      *)
(* exactly the seconds of it spent on duty.                                *)
THEOREM ServiceFollowsDuty == Spec => ServiceWithinDuty
<1>1. ASSUME IInv, Agenda, [Next]_vars PROVE ServiceOfStep
  <2>1. CASE UNCHANGED vars
    <3> SUFFICES ASSUME phase = "advance", NEW r \in Reviewers
                 PROVE  active'[r] - active[r] =
                          IF assigned[r] = None THEN 0
                          ELSE Cardinality({t \in previous .. now' - 1 :
                                              OnDuty(r, t)})
      BY DEF ServiceOfStep
    <3>1. previous = now /\ now' = now /\ active' = active /\ now \in Nat
          /\ active[r] \in Nat
      BY <1>1, <2>1, RecordFacts, InstanceAssumption
         DEF vars, IInv, HeapAhead, TypeOK
    <3>2. {t \in previous .. now' - 1 : OnDuty(r, t)} = {} BY <3>1
    <3> QED BY <3>1, <3>2, FS_EmptySet
  <2>2. CASE Advance BY <1>1, <2>2, AdvanceAccounts
  <2>3. phase = "advance" => Advance \/ UNCHANGED vars
    BY <1>1 DEF Next, Censor, Record, Returned, AbandonmentsDone, FinishesDone,
       NextBatch, BatchesDone, DispatchDone, Abandon, Admit, SkipTerminal,
       Merge, SubmitRevision, TruncateVerification, FailVerification,
       PassVerification, Verifies, ReleaseReviewer, CompleteReview,
       KeepReviewing, PassOver, ContinueReview, StartReview, TruncateReview,
       Settling, Dispatching, At
  <2> QED BY <2>1, <2>2, <2>3 DEF ServiceOfStep
<1>2. ServiceWithinDuty <=> [][ServiceOfStep]_vars
  BY DEF ServiceWithinDuty, ServiceOfStep
<1> QED BY <1>1, <1>2, Inductive, AgendaKept, PTL DEF Spec

-----------------------------------------------------------------------------
(* The meter.                                                              *)
MeterType ==
  [queue_area : [Levels -> Nat], queue_peak : [Levels -> Nat],
   service : [Levels -> Nat], changes : [Levels -> Nat],
   first_completed : [PRs -> Nat \cup {None}]]

MeterTyped ==
  /\ meter \in MeterType
  /\ \A l \in Levels : meter.queue_peak[l] > 0 <=> meter.queue_area[l] > 0

(* The proposals that were open when the window started.                   *)
CarriedIn(p) ==
  /\ pr[p].ready_at < WindowStart
  /\ IsTerminal(pr[p]) => pr[p].last_transition_at >= WindowStart

Opened == open = IF now < WindowStart THEN {} ELSE {p \in Admitted : CarriedIn(p)}

(* The meter and the record agree on the first completed review, which     *)
(* took its service.                                                       *)
Completions ==
  \A p \in PRs :
    /\ meter.first_completed[p] = pr[p].first_review_completed_at
    /\ pr[p].state = "in_review" => used[p] <= now - pr[p].first_review_at
    /\ pr[p].first_review_completed_at # None =>
         pr[p].first_review_completed_at >= pr[p].first_review_at + Service[p]
    /\ /\ pr[p].first_review_at # None
       /\ pr[p].state \notin {"in_review", "closed_without_merge", "unresolved"}
       => pr[p].first_review_completed_at # None

(* p waited in the queue at t, or has been waiting there since.            *)
WaitedAt(p, t) ==
  \/ \E w \in waits : w[1] = p /\ w[2] <= t /\ t < w[3]
  \/ /\ pr[p].state = "queued_for_review"
     /\ pr[p].queue_entered_at <= t /\ t < now

QueueSeconds(l) ==
  {e \in PRs \X WindowSeconds : AtLevel(l, e[1]) /\ WaitedAt(e[1], e[2])}

DutySoFar ==
  {e \in Reviewers \X WindowSeconds : e[2] < now /\ OnDuty(e[1], e[2])}

Integrals ==
  /\ \A w \in waits : w[3] \in Nat /\ w[3] <= now
  /\ \A l \in Levels : meter.queue_area[l] = Cardinality(QueueSeconds(l))
  /\ meter.service["all_work"] <= Cardinality(DutySoFar)
  /\ meter.service["all_work"] <= Cardinality(Given)

Reported ==
  Measured => /\ phase = "done" /\ ~truncated
              /\ metrics = [l \in Levels |-> MetricDictionary(l)]

(* The visits to the queue that p has left are over, one after the other,  *)
(* and accounted; one under way began with the last transition.            *)
Accounted(p) ==
  /\ \A w \in waits : w[1] = p =>
       w[2] \in Nat /\ w[3] \in Nat /\ w[3] <= pr[p].last_transition_at
  /\ pr[p].state = "queued_for_review" =>
       pr[p].queue_entered_at = pr[p].last_transition_at
  /\ pr[p].queue_wait_seconds = Cardinality(QueueVisits(p))

Waits == \A p \in PRs : Accounted(p)

MeterInv == MeterTyped /\ Opened /\ Completions /\ Integrals /\ Waits /\ Reported

-----------------------------------------------------------------------------
(* What a step at one instant may do to a proposal, as far as the meter    *)
(* can tell.                                                               *)
Moves(p) ==
  \/ pr'[p] = pr[p]
  \/ /\ ~IsTerminal(pr[p]) /\ Sane(pr'[p]) /\ pr'[p].state # "ready"
     /\ pr'[p].last_transition_at = now
     /\ pr'[p].ready_at = pr[p].ready_at
     /\ pr[p].state = "ready" => pr[p].ready_at = now
     /\ pr'[p].state = "queued_for_review" =>
          /\ pr[p].state # "queued_for_review"
          /\ pr'[p].queue_entered_at = now
     /\ pr'[p].queue_wait_seconds =
          IF pr[p].state = "queued_for_review"
          THEN pr[p].queue_wait_seconds + now - pr[p].queue_entered_at
          ELSE pr[p].queue_wait_seconds

(* The reviews of p are as they were.                                      *)
KeepsReviews(p) ==
  /\ pr'[p].first_review_at = pr[p].first_review_at
  /\ pr'[p].first_review_completed_at = pr[p].first_review_completed_at

(* No state of p asks for a completed review, or the previous one did.     *)
KeepsCompletion(p) ==
  \/ pr'[p] = pr[p] /\ used'[p] = used[p]
  \/ /\ KeepsReviews(p) /\ pr'[p].state # "in_review"
     /\ \/ pr'[p].state \in {"closed_without_merge", "unresolved"}
        \/ pr[p].state \in {"verifying", "author_response",
                            "approved_waiting_merge"}
        \/ pr[p].first_review_at = None

LEMMA EventMoves ==
  ASSUME NEW p \in PRs, NEW state, Event(p, state), state # "ready",
         ~IsTerminal(pr[p]), pr[p].state = "ready" => pr[p].ready_at = now,
         pr[p].state # "queued_for_review",
         state = "queued_for_review" => pr'[p].queue_entered_at = now
  PROVE  \A x \in PRs : Moves(x)
BY DEF Event, Applied, SameAccounts, Moves

(* The events of the settle loop.                                          *)
LEMMA SettleMoves ==
  ASSUME IInv, NEW p \in PRs,
         Merge(p) \/ SubmitRevision(p) \/ FailVerification(p) \/ PassVerification(p)
  PROVE  /\ \A x \in PRs : Moves(x) /\ KeepsCompletion(x)
         /\ UNCHANGED <<now, used>>
<1>1. pr[p] \in PullRequest /\ pr \in [PRs -> PullRequest]
  BY RecordFacts DEF IInv, TypeOK
<1>2. CASE Merge(p)
  <2>1. /\ SettleStep(p) /\ Event(p, "merged")
        /\ pr[p].state = "approved_waiting_merge"
    BY <1>2, MergeEvent
  <2>2. pr'[p].first_review_completed_at = pr[p].first_review_completed_at
    <3>1. pr'[p] = MergeCompleted(pr[p], now) BY <1>1, <1>2 DEF Merge
    <3> QED BY <1>1, <3>1
            DEF MergeCompleted, Terminate, Fire, Raise, PullRequest
  <2>3. \A x \in PRs : KeepsCompletion(x)
    BY <2>1, <2>2
       DEF KeepsCompletion, KeepsReviews, Event, Applied, SameAccounts, SettleStep
  <2>4. \A x \in PRs : Moves(x)
    BY <2>1, EventMoves DEF IsTerminal, Terminal
  <2> QED BY <2>1, <2>3, <2>4 DEF SettleStep
<1>3. CASE SubmitRevision(p)
  <2>1. /\ SettleStep(p) /\ Event(p, "verifying")
        /\ pr[p].state = "author_response"
    BY <1>3, SubmitRevisionEvent
  <2>2. pr'[p].first_review_completed_at = pr[p].first_review_completed_at
    <3>1. pr'[p] = RevisionSubmitted(pr[p], now) BY <1>1, <1>3 DEF SubmitRevision
    <3> QED BY <1>1, <3>1 DEF RevisionSubmitted, Fire, Raise, PullRequest
  <2>3. \A x \in PRs : KeepsCompletion(x)
    BY <2>1, <2>2
       DEF KeepsCompletion, KeepsReviews, Event, Applied, SameAccounts, SettleStep
  <2>4. \A x \in PRs : Moves(x)
    BY <2>1, EventMoves DEF IsTerminal, Terminal
  <2> QED BY <2>1, <2>3, <2>4 DEF SettleStep
<1>4. CASE FailVerification(p)
  <2>1. /\ SettleStep(p) /\ Event(p, "author_response")
        /\ pr[p].state = "verifying"
    BY <1>4, FailVerificationEvent
  <2>2. pr'[p].first_review_completed_at = pr[p].first_review_completed_at
    <3>1. pr'[p] = VerificationFailed(pr[p], now)
      BY <1>1, <1>4 DEF FailVerification
    <3> QED BY <1>1, <3>1 DEF VerificationFailed, Fire, Raise, PullRequest
  <2>3. \A x \in PRs : KeepsCompletion(x)
    BY <2>1, <2>2
       DEF KeepsCompletion, KeepsReviews, Event, Applied, SameAccounts, SettleStep
  <2>4. \A x \in PRs : Moves(x)
    BY <2>1, EventMoves DEF IsTerminal, Terminal
  <2> QED BY <2>1, <2>3, <2>4 DEF SettleStep
<1>5. CASE PassVerification(p)
  <2>1. /\ SettleStep(p) /\ pr[p].state = "verifying"
        /\ \/ Event(p, "approved_waiting_merge")
           \/ Event(p, "queued_for_review") /\ pr'[p].queue_entered_at = now
    BY <1>5, PassVerificationEvent
  <2>2. pr'[p].first_review_completed_at = pr[p].first_review_completed_at
    <3> DEFINE q == VerificationPassed(pr[p], now)
    <3>1. pr'[p] \in {q, ReviewBypassed(q, now)}
      BY <1>1, <1>5 DEF PassVerification
    <3>2. q.first_review_completed_at = pr[p].first_review_completed_at
      BY <1>1 DEF VerificationPassed, Fire, Raise, PullRequest
    <3>3. ReviewBypassed(q, now).first_review_completed_at
            = q.first_review_completed_at
      BY <1>1 DEF VerificationPassed, ReviewBypassed, Fire, Raise, PullRequest
    <3> HIDE DEF q
    <3> QED BY <3>1, <3>2, <3>3
  <2>3. \A x \in PRs : KeepsCompletion(x)
    BY <2>1, <2>2
       DEF KeepsCompletion, KeepsReviews, Event, Applied, SameAccounts, SettleStep
  <2>4. \A x \in PRs : Moves(x)
    BY <2>1, EventMoves DEF IsTerminal, Terminal
  <2> QED BY <2>1, <2>3, <2>4 DEF SettleStep
<1> QED BY <1>2, <1>3, <1>4, <1>5

LEMMA AdmitMoves ==
  ASSUME IInv, Agenda, NEW p \in PRs, Admit(p)
  PROVE  /\ \A x \in PRs : Moves(x) /\ KeepsCompletion(x)
         /\ UNCHANGED <<now, used>>
<1>1. /\ Event(p, "verifying") /\ UNCHANGED <<now, used>>
      /\ pr[p].state = "ready" /\ pr[p].ready_at = now
      /\ pr'[p].first_review_completed_at = pr[p].first_review_completed_at
  BY AdmitEvent
<1>2. pr[p].first_review_at = None
  BY <1>1 DEF Agenda, Records, Earned, QueueOrder
<1>3. \A x \in PRs : KeepsCompletion(x)
  BY <1>1, <1>2 DEF KeepsCompletion, KeepsReviews, Event, Applied, SameAccounts
<1>4. \A x \in PRs : Moves(x)
  BY <1>1, EventMoves DEF IsTerminal, Terminal
<1> QED BY <1>1, <1>3, <1>4

LEMMA EndMoves ==
  ASSUME IInv, NEW x \in PRs, pr'[x] = pr[x] \/ Ended(x), used' = used
  PROVE  Moves(x) /\ KeepsCompletion(x)
<1>1. CASE pr'[x] = pr[x] BY <1>1 DEF Moves, KeepsCompletion
<1>2. CASE Ended(x)
  <2>1. /\ ~IsTerminal(pr[x]) /\ pr[x].state # "ready"
        /\ Sane(pr'[x]) /\ pr'[x].last_transition_at = now
        /\ pr'[x].ready_at = pr[x].ready_at
        /\ pr'[x].state \in {"closed_without_merge", "unresolved"}
        /\ KeepsReviews(x)
    BY <1>2 DEF Ended, IsTerminal, Live, Terminal, SameProposal, KeepsReviews
  <2>2. pr'[x].queue_wait_seconds =
          IF pr[x].state = "queued_for_review"
          THEN pr[x].queue_wait_seconds + now - pr[x].queue_entered_at
          ELSE pr[x].queue_wait_seconds
    BY <1>2, RecordFacts DEF Ended
  <2> QED BY <2>1, <2>2 DEF Moves, KeepsCompletion
<1> QED BY <1>1, <1>2

LEMMA StartReviewMoves ==
  ASSUME IInv, NEW r \in Reviewers, StartReview(r)
  PROVE  /\ \A x \in PRs : Moves(x)
         /\ now' = now
         /\ \E p \in PRs :
              /\ pr'[p].first_review_at =
                   IF pr[p].first_review_at = None THEN now ELSE pr[p].first_review_at
              /\ pr'[p].first_review_completed_at = pr[p].first_review_completed_at
              /\ pr'[p].state = "in_review" /\ used'[p] = 0
              /\ \A x \in PRs : x # p => pr'[x] = pr[x] /\ used'[x] = used[x]
<1>1. PICK p \in FirstCandidates(r) :
         /\ p \in PRs /\ pr[p].state = "queued_for_review"
         /\ Applied(p, "in_review")
         /\ pr'[p].queue_wait_seconds =
              pr[p].queue_wait_seconds + now - pr[p].queue_entered_at
         /\ pr'[p].first_review_at =
              IF pr[p].first_review_at = None THEN now
              ELSE pr[p].first_review_at
         /\ used' = [used EXCEPT ![p] = 0]
         /\ pr' = [pr EXCEPT ![p] = ReviewStarted(@, now)]
  <2>1. PICK p \in FirstCandidates(r) :
         /\ p \in PRs /\ pr[p].state = "queued_for_review"
         /\ Applied(p, "in_review")
         /\ pr'[p].queue_wait_seconds =
              pr[p].queue_wait_seconds + now - pr[p].queue_entered_at
         /\ pr'[p].first_review_at =
              IF pr[p].first_review_at = None THEN now
              ELSE pr[p].first_review_at
         /\ used' = [used EXCEPT ![p] = 0]
    BY StartReviewEffect
  <2>2. PICK q \in FirstCandidates(r) : pr' = [pr EXCEPT ![q] = ReviewStarted(@, now)]
    BY DEF StartReview
  <2>3. q = p
    <3>1. \A x \in PRs : x # q => pr'[x] = pr[x]
      BY <2>2 DEF IInv, TypeOK
    <3>2. pr'[p] # pr[p] BY <2>1 DEF Applied
    <3> QED BY <2>1, <3>1, <3>2
  <2> QED BY <2>1, <2>2, <2>3
<1>2. pr'[p].first_review_completed_at = pr[p].first_review_completed_at
  <2>1. pr'[p] = ReviewStarted(pr[p], now) BY <1>1 DEF IInv, TypeOK
  <2>2. pr[p] \in PullRequest BY <1>1, RecordFacts
  <2> QED BY <2>1, <2>2 DEF ReviewStarted, Fire, Raise, PullRequest
<1>3. used'[p] = 0 /\ \A x \in PRs : x # p => used'[x] = used[x]
  BY <1>1 DEF IInv, TypeOK
<1>4. \A x \in PRs : Moves(x)
  BY <1>1 DEF Moves, Applied, IsTerminal, Terminal
<1>5. now' = now BY DEF StartReview
<1> QED BY <1>1, <1>2, <1>3, <1>4, <1>5 DEF Applied

LEMMA CompleteReviewMoves ==
  ASSUME IInv, NEW r \in Reviewers, CompleteReview(r)
  PROVE  LET p == assigned[r] IN
         /\ p \in PRs /\ pr[p].state = "in_review" /\ Served(p)
         /\ \A x \in PRs : Moves(x)
         /\ UNCHANGED <<now, used>>
         /\ pr'[p].state \in {"author_response", "approved_waiting_merge"}
         /\ pr'[p].first_review_at = pr[p].first_review_at
         /\ pr'[p].first_review_completed_at =
              IF pr[p].first_review_completed_at = None THEN now
              ELSE pr[p].first_review_completed_at
         /\ \A x \in PRs : x # p => pr'[x] = pr[x]
<1> DEFINE p == assigned[r]
<1>1. /\ p \in PRs /\ pr[p].state = "in_review" /\ Served(p)
      /\ UNCHANGED <<now, used>>
  BY CompleteReviewEvent
<1>2. PICK state \in {"author_response", "approved_waiting_merge"} : Event(p, state)
  BY CompleteReviewEvent
<1>3. pr'[p] \in {ChangesRequested(pr[p], now), ReviewApproved(pr[p], now)}
  BY <1>1 DEF CompleteReview, IInv, TypeOK
<1> HIDE DEF p
<1>4. pr[p] \in PullRequest BY <1>1, RecordFacts
<1>5. pr'[p].state = state /\ pr'[p].first_review_at = pr[p].first_review_at
      /\ \A x \in PRs : x # p => pr'[x] = pr[x]
  BY <1>2 DEF Event, Applied, SameAccounts
<1>6. pr'[p].first_review_completed_at =
        IF pr[p].first_review_completed_at = None THEN now
        ELSE pr[p].first_review_completed_at
  BY <1>3, <1>4, <1>5
     DEF ChangesRequested, ReviewApproved, Fire, Raise, PullRequest
<1>7. \A x \in PRs : Moves(x)
  BY <1>1, <1>2, EventMoves DEF IsTerminal, Terminal
<1> QED BY <1>1, <1>5, <1>6, <1>7 DEF p

-----------------------------------------------------------------------------
(* The seconds of finitely many things within the window are finitely many. *)
LEMMA FiniteSeconds ==
  ASSUME NEW S, IsFiniteSet(S), NEW T \in SUBSET (S \X WindowSeconds)
  PROVE  IsFiniteSet(T) /\ Cardinality(T) \in Nat
<1>1. IsFiniteSet(WindowSeconds)
  <2> DEFINE h == Horizon - 1
  <2>1. WindowStart \in Int /\ h \in Int
    BY WindowAssumption, InstanceAssumption
  <2> HIDE DEF h
  <2>2. IsFiniteSet(WindowStart .. h) BY <2>1, FS_Interval
  <2> QED BY <2>2 DEF WindowSeconds, h
<1>2. IsFiniteSet(S \X WindowSeconds) BY <1>1, FS_Product
<1>3. IsFiniteSet(T) BY <1>2, FS_Subset
<1> QED BY <1>3, FS_CardinalityType

(* So are the seconds given by the reviewers.                              *)
LEMMA FiniteGiven ==
  ASSUME NEW a, \A r \in Reviewers : a[r] \in Nat
  PROVE  LET G == UNION {{r} \X (1 .. a[r]) : r \in Reviewers} IN
         IsFiniteSet(G) /\ Cardinality(G) \in Nat
<1> DEFINE G(r) == {r} \X (1 .. a[r])
           F == {G(r) : r \in Reviewers}
<1>1. IsFiniteSet(F)
  <2> DEFINE f == [r \in Reviewers |-> G(r)]
  <2>1. f \in Surjection(Reviewers, F) BY DEF Surjection
  <2> HIDE DEF f, F
  <2> QED BY <2>1, PopulationAssumption, FS_Surjection
<1>2. ASSUME NEW r \in Reviewers PROVE IsFiniteSet(G(r))
  <2>1. a[r] \in Int OBVIOUS
  <2>2. IsFiniteSet(1 .. a[r]) BY <2>1, FS_Interval
  <2>3. IsFiniteSet({r}) BY FS_Singleton
  <2> QED BY <2>2, <2>3, FS_Product
<1>3. \A T \in F : IsFiniteSet(T) BY <1>2
<1>4. IsFiniteSet(UNION F)
  <2> HIDE DEF F
  <2> QED BY <1>1, <1>3, FS_UNION
<1> QED BY <1>4, FS_CardinalityType

(* Apart, sets add up.                                                     *)
LEMMA DisjointSum ==
  ASSUME NEW S, NEW T, IsFiniteSet(S), IsFiniteSet(T), S \cap T = {}
  PROVE  IsFiniteSet(S \cup T)
         /\ Cardinality(S \cup T) = Cardinality(S) + Cardinality(T)
<1>1. Cardinality(S \cap T) = 0 BY FS_EmptySet
<1>2. Cardinality(S) \in Nat /\ Cardinality(T) \in Nat BY FS_CardinalityType
<1>3. /\ IsFiniteSet(S \cup T)
      /\ Cardinality(S \cup T) = Cardinality(S) + Cardinality(T) - 0
  BY <1>1, FS_Union
<1> DEFINE a == Cardinality(S)
           b == Cardinality(T)
<1> HIDE DEF a, b
<1>4. a \in Nat /\ b \in Nat BY <1>2 DEF a, b
<1>5. a + b - 0 = a + b BY <1>4
<1> QED BY <1>3, <1>5 DEF a, b

(* A step at one instant leaves the work carried into the window and the   *)
(* seconds waited as they were: who leaves the queue leaves its wait.      *)
LEMMA MovesKeepOpened ==
  ASSUME IInv, Opened, \A x \in PRs : Moves(x), now' = now, Witness
  PROVE  Opened'
<1>1. now \in Nat /\ WindowStart \in Nat
  BY WindowAssumption, InstanceAssumption DEF IInv, TypeOK
<1>2. open' = open BY <1>1 DEF Witness
<1>3. ASSUME NEW x \in PRs, now >= WindowStart
      PROVE  pr'[x].state # "ready" /\ CarriedIn(x)' <=>
               pr[x].state # "ready" /\ CarriedIn(x)
  <2>1. CASE pr'[x] = pr[x] BY <2>1 DEF CarriedIn
  <2>2. CASE pr'[x] # pr[x]
    <3>1. /\ ~IsTerminal(pr[x]) /\ pr'[x].state # "ready"
          /\ pr'[x].last_transition_at = now
          /\ pr'[x].ready_at = pr[x].ready_at
          /\ pr[x].state = "ready" => pr[x].ready_at = now
      BY <2>2 DEF Moves
    <3> QED BY <1>1, <1>3, <3>1 DEF CarriedIn
  <2> QED BY <2>1, <2>2
<1>4. now >= WindowStart =>
        {x \in Admitted : CarriedIn(x)}' = {x \in Admitted : CarriedIn(x)}
  BY <1>3 DEF Admitted
<1> QED BY <1>1, <1>2, <1>4 DEF Opened

LEMMA MovesKeepSeconds ==
  ASSUME IInv, NEW l \in Levels,
         \A x \in PRs : Moves(x), now' = now, Witness
  PROVE  QueueSeconds(l)' = QueueSeconds(l)
<1> DEFINE Left == {q \in Count("queued_for_review") :
                      pr'[q].state # "queued_for_review"}
<1>1. waits' = waits \cup {<<q, pr[q].queue_entered_at, now>> : q \in Left}
  BY DEF Witness
<1>2. now \in Nat BY InstanceAssumption DEF IInv, TypeOK
<1>3. ASSUME NEW p \in PRs, NEW t \in WindowSeconds
      PROVE  WaitedAt(p, t)' <=> WaitedAt(p, t)
  <2> DEFINE Was == \E w \in waits : w[1] = p /\ w[2] <= t /\ t < w[3]
             Is == pr[p].queue_entered_at <= t /\ t < now
  <2>1. p \in Left <=> /\ pr[p].state = "queued_for_review"
                       /\ pr'[p].state # "queued_for_review"
    BY DEF Count
  <2>2. (\E w \in waits' : w[1] = p /\ w[2] <= t /\ t < w[3])
          <=> Was \/ (p \in Left /\ Is)
    <3> DEFINE Covers(w) == w[1] = p /\ w[2] <= t /\ t < w[3]
               Wait(q) == <<q, pr[q].queue_entered_at, now>>
    <3>1. \A w \in waits' : w \in waits \/ \E q \in Left : w = Wait(q)
      BY <1>1
    <3>2. \A q \in Left : Covers(Wait(q)) <=> q = p /\ Is OBVIOUS
    <3>3. p \in Left => Wait(p) \in waits' BY <1>1
    <3>4. waits \subseteq waits' BY <1>1
    <3>5. ASSUME NEW w \in waits', Covers(w) PROVE Was \/ (p \in Left /\ Is)
      <4>1. CASE w \in waits BY <3>5, <4>1
      <4>2. CASE \E q \in Left : w = Wait(q)
        <5> HIDE DEF Wait, Covers, Is, Left
        <5> QED BY <3>2, <3>5, <4>2
      <4> QED BY <3>1, <4>1, <4>2
    <3>6. ASSUME p \in Left, Is PROVE \E w \in waits' : Covers(w)
      <4> HIDE DEF Wait, Covers, Is, Left
      <4> QED BY <3>2, <3>3, <3>6
    <3>7. Was => \E w \in waits' : Covers(w) BY <3>4
    <3> HIDE DEF Was, Is, Left
    <3> QED BY <3>5, <3>6, <3>7
  <2>3. WaitedAt(p, t)' <=>
          \/ Was \/ (p \in Left /\ Is)
          \/ /\ pr'[p].state = "queued_for_review"
             /\ pr'[p].queue_entered_at <= t /\ t < now
    BY <2>2 DEF WaitedAt
  <2>4. WaitedAt(p, t) <=> Was \/ (pr[p].state = "queued_for_review" /\ Is)
    BY DEF WaitedAt
  <2>5. t \in Int BY DEF WindowSeconds
  <2> HIDE DEF Was, Left
  <2>6. CASE pr'[p] = pr[p] BY <2>1, <2>3, <2>4, <2>6
  <2>7. CASE pr'[p] # pr[p]
    <3>1. pr'[p].state = "queued_for_review" =>
            /\ pr[p].state # "queued_for_review"
            /\ pr'[p].queue_entered_at = now
      BY <2>7 DEF Moves
    <3> QED BY <1>2, <2>1, <2>3, <2>4, <2>5, <3>1
  <2> QED BY <2>6, <2>7
<1>4. \A p \in PRs : AtLevel(l, p)' <=> AtLevel(l, p)
  BY DEF Moves, AtLevel
<1> QED BY <1>3, <1>4 DEF QueueSeconds

(* So the integrals stand while the clock does.                            *)
LEMMA MovesKeepIntegrals ==
  ASSUME IInv, Integrals, \A x \in PRs : Moves(x), now' = now, Witness,
         active' = active,
         meter'.queue_area = meter.queue_area, meter'.service = meter.service
  PROVE  Integrals'
<1>1. \A l \in Levels : QueueSeconds(l)' = QueueSeconds(l)
  BY MovesKeepSeconds
<1>2. DutySoFar' = DutySoFar /\ Given' = Given
  BY DEF DutySoFar, Given, OnDuty, ClippedDuty
<1>3. \A w \in waits' : w[3] \in Nat /\ w[3] <= now'
  <2>1. now \in Nat BY InstanceAssumption DEF IInv, TypeOK
  <2>2. \A w \in waits' : w \in waits \/ w[3] = now BY DEF Witness
  <2> QED BY <2>1, <2>2 DEF Integrals
<1> QED BY <1>1, <1>2, <1>3 DEF Integrals

(* Who leaves the queue has its wait accounted, once.                      *)
LEMMA MovesKeepWaits ==
  ASSUME IInv, Waits, \A x \in PRs : Moves(x), now' = now, Witness
  PROVE  Waits'
<1> DEFINE Left == {q \in Count("queued_for_review") :
                      pr'[q].state # "queued_for_review"}
<1>1. waits' = waits \cup {<<q, pr[q].queue_entered_at, now>> : q \in Left}
  BY DEF Witness
<1>2. now \in Nat /\ now <= Horizon /\ Horizon \in Nat
  BY InstanceAssumption DEF IInv, TypeOK
<1>3. ASSUME NEW p \in PRs PROVE Accounted(p)'
  <2> DEFINE Mine(w) == w[1] = p
             e == pr[p].queue_entered_at
             Span == {t \in 0 .. Horizon - 1 : e <= t /\ t < now}
             Wait(q) == <<q, pr[q].queue_entered_at, now>>
  <2>1. Accounted(p) BY DEF Waits
  <2>2. p \in Left <=> /\ pr[p].state = "queued_for_review"
                       /\ pr'[p].state # "queued_for_review"
    BY DEF Count
  <2>3. \A w \in waits' : w \in waits \/ \E q \in Left : w = Wait(q) BY <1>1
  <2>4. \A q \in Left : Mine(Wait(q)) => q = p OBVIOUS
  <2>5. p \in Left => Wait(p) \in waits' BY <1>1
  <2>6. waits \subseteq waits' BY <1>1
  <2>7. CASE p \notin Left
    <3>1. \A w \in waits' : Mine(w) => w \in waits
      <4> HIDE DEF Left, Wait, Mine
      <4> QED BY <2>3, <2>4, <2>7
    <3>2. QueueVisits(p)' = QueueVisits(p)
      BY <2>6, <3>1 DEF QueueVisits
    <3>3. CASE pr'[p] = pr[p]
      BY <2>1, <3>1, <3>2, <3>3 DEF Accounted
    <3>4. CASE pr'[p] # pr[p]
      <4> HIDE DEF Left
      <4>1. /\ pr'[p].last_transition_at = now
            /\ pr'[p].state = "queued_for_review" =>
                 /\ pr[p].state # "queued_for_review"
                 /\ pr'[p].queue_entered_at = now
            /\ pr[p].state # "queued_for_review" =>
                 pr'[p].queue_wait_seconds = pr[p].queue_wait_seconds
            /\ pr[p].state = "ready" => pr[p].ready_at = now
        BY <3>4 DEF Moves
      <4>2. pr[p].state # "queued_for_review" BY <2>2, <2>7, <4>1
      <4>3. pr[p].last_transition_at \in Nat /\ pr[p].last_transition_at <= now
        BY <1>2, <4>1, RecordFacts
      <4>4. \A w \in waits' : w[1] = p =>
              w[2] \in Nat /\ w[3] \in Nat /\ w[3] <= now
        BY <1>2, <2>1, <3>1, <4>3 DEF Accounted
      <4> QED BY <2>1, <3>2, <4>1, <4>2, <4>4 DEF Accounted
    <3> QED BY <3>3, <3>4
  <2>8. CASE p \in Left
    <3>1. /\ pr[p].state = "queued_for_review"
          /\ pr'[p].state # "queued_for_review"
      BY <2>2, <2>8
    <3>2. /\ pr'[p].last_transition_at = now
          /\ pr'[p].queue_wait_seconds = pr[p].queue_wait_seconds + now - e
      BY <3>1 DEF Moves
    <3>3. /\ e \in Nat /\ e = pr[p].last_transition_at /\ e <= now
          /\ pr[p].queue_wait_seconds \in Nat
      BY <2>1, <3>1, RecordFacts DEF Accounted
    <3>4. \A w \in waits' : w[1] = p => w \in waits \/ w = Wait(p)
      <4>1. ASSUME NEW w \in waits', Mine(w) PROVE w \in waits \/ w = Wait(p)
        <5> HIDE DEF Left, Wait, Mine
        <5> QED BY <2>3, <2>4, <4>1
      <4> QED BY <4>1
    <3>5. Wait(p)[1] = p /\ Wait(p)[2] = e /\ Wait(p)[3] = now OBVIOUS
    <3>6. QueueVisits(p)' = QueueVisits(p) \cup Span
      <4> HIDE DEF Left, Wait, e
      <4> QED BY <2>5, <2>6, <2>8, <3>4, <3>5 DEF QueueVisits
    <3>7. QueueVisits(p) \cap Span = {}
      <4>1. \A w \in waits : w[1] = p => w[3] \in Nat /\ w[3] <= e
        BY <2>1, <3>3 DEF Accounted
      <4> HIDE DEF e
      <4> QED BY <3>3, <4>1 DEF QueueVisits
    <3>8. IsFiniteSet(QueueVisits(p))
      <4> DEFINE h == Horizon - 1
      <4>1. h \in Int BY <1>2
      <4> HIDE DEF h
      <4>2. IsFiniteSet(0 .. h) BY <4>1, FS_Interval
      <4>3. QueueVisits(p) \subseteq 0 .. h BY DEF QueueVisits, h
      <4> QED BY <4>2, <4>3, FS_Subset
    <3>9. IsFiniteSet(Span) /\ Cardinality(Span) = now - e
      <4>1. Span = e .. now - 1
        <5> HIDE DEF e
        <5> QED BY <1>2, <3>3
      <4>2. Cardinality(e .. now - 1) = now - e
        <5> HIDE DEF e
        <5> QED BY <1>2, <3>3, IntervalSize
      <4>3. IsFiniteSet(e .. now - 1)
        <5> DEFINE k == now - 1
        <5>1. k \in Int /\ e \in Int BY <1>2, <3>3
        <5> HIDE DEF k, e
        <5> QED BY <5>1, FS_Interval DEF k
      <4> QED BY <4>1, <4>2, <4>3
    <3>10. Cardinality(QueueVisits(p)') = Cardinality(QueueVisits(p)) + (now - e)
      <4> HIDE DEF Span, e
      <4> QED BY <3>6, <3>7, <3>8, <3>9, DisjointSum
    <3>11. pr'[p].queue_wait_seconds = Cardinality(QueueVisits(p)')
      <4>1. pr[p].queue_wait_seconds = Cardinality(QueueVisits(p))
        BY <2>1 DEF Accounted
      <4> HIDE DEF Span, e
      <4> QED BY <1>2, <3>2, <3>3, <3>10, <4>1
    <3>12. \A w \in waits' : w[1] = p =>
             w[2] \in Nat /\ w[3] \in Nat /\ w[3] <= now
      <4>1. \A w \in waits : w[1] = p =>
              w[2] \in Nat /\ w[3] \in Nat /\ w[3] <= e
        BY <2>1, <3>3 DEF Accounted
      <4> HIDE DEF Wait, e
      <4> QED BY <1>2, <3>3, <3>4, <3>5, <4>1
    <3> QED BY <3>1, <3>2, <3>11, <3>12 DEF Accounted
  <2> QED BY <2>7, <2>8
<1> QED BY <1>3 DEF Waits

-----------------------------------------------------------------------------
(* The reviews of a record.                                                *)
LEMMA ReviewFacts ==
  ASSUME IInv, NEW p \in PRs
  PROVE  /\ now \in Nat /\ used[p] \in Nat /\ Service[p] \in Nat
         /\ pr[p].first_review_at \in Nat \cup {None}
         /\ pr[p].first_review_completed_at \in Nat \cup {None}
         /\ pr[p].first_review_completed_at # None =>
              /\ pr[p].first_review_at # None
              /\ pr[p].first_review_completed_at <= pr[p].last_transition_at
         /\ pr[p].state = "in_review" =>
              pr[p].first_review_at # None /\ pr[p].first_review_at <= now
         /\ pr[p].state # "ready" /\ pr[p].first_review_at # None =>
              pr[p].first_review_at <= now
         /\ pr[p].last_transition_at \in Nat
<1>1. /\ Sane(pr[p]) /\ now \in Nat /\ pr[p].last_transition_at \in Nat
      /\ pr[p].first_review_at \in Nat \cup {None}
      /\ pr[p].first_review_at # None =>
           pr[p].first_review_at <= pr[p].last_transition_at
      /\ pr[p].state # "ready" => pr[p].last_transition_at <= now
  BY RecordFacts
<1>2. used[p] \in Nat /\ Service[p] \in Nat
  BY PositiveService DEF IInv, TypeOK
<1>3. pr[p].first_review_completed_at \in Nat \cup {None}
  BY <1>1 DEF Sane, PullRequest, OptTime
<1>4. /\ pr[p].first_review_completed_at # None =>
           /\ pr[p].first_review_at # None
           /\ pr[p].first_review_completed_at
                \in pr[p].first_review_at .. pr[p].last_transition_at
      /\ pr[p].state = "in_review" => pr[p].first_review_at # None
  BY <1>1 DEF Sane, Contract, Chronology
<1> QED BY <1>1, <1>2, <1>3, <1>4

(* Completions, of one proposal.                                           *)
Completion(p) ==
  /\ meter.first_completed[p] = pr[p].first_review_completed_at
  /\ pr[p].state = "in_review" => used[p] <= now - pr[p].first_review_at
  /\ pr[p].first_review_completed_at # None =>
       pr[p].first_review_completed_at >= pr[p].first_review_at + Service[p]
  /\ /\ pr[p].first_review_at # None
     /\ pr[p].state \notin {"in_review", "closed_without_merge", "unresolved"}
     => pr[p].first_review_completed_at # None

LEMMA EachCompletion == Completions <=> \A p \in PRs : Completion(p)
BY DEF Completions, Completion

(* The steps that complete no visit and start none.                        *)
LEMMA KeptCompletion ==
  ASSUME NEW p \in PRs, Completion(p), KeepsCompletion(p), now' = now,
         meter'.first_completed = meter.first_completed
  PROVE  Completion(p)'
<1>1. CASE pr'[p] = pr[p] /\ used'[p] = used[p]
  BY <1>1 DEF Completion
<1>2. CASE /\ KeepsReviews(p) /\ pr'[p].state # "in_review"
           /\ \/ pr'[p].state \in {"closed_without_merge", "unresolved"}
              \/ pr[p].state \in {"verifying", "author_response",
                                  "approved_waiting_merge"}
              \/ pr[p].first_review_at = None
  BY <1>2 DEF Completion, KeepsReviews
<1> QED BY <1>1, <1>2 DEF KeepsCompletion

LEMMA StartReviewCompletions ==
  ASSUME IInv, Completions, NEW r \in Reviewers, StartReview(r), meter' = meter
  PROVE  Completions'
<1>1. PICK p \in PRs :
         /\ pr'[p].first_review_at =
              IF pr[p].first_review_at = None THEN now ELSE pr[p].first_review_at
         /\ pr'[p].first_review_completed_at = pr[p].first_review_completed_at
         /\ pr'[p].state = "in_review" /\ used'[p] = 0
         /\ \A x \in PRs : x # p => pr'[x] = pr[x] /\ used'[x] = used[x]
  BY StartReviewMoves
<1>2. now' = now BY StartReviewMoves
<1>3. \A x \in PRs : Completion(x) BY EachCompletion
<1>4. ASSUME NEW x \in PRs, x # p PROVE Completion(x)'
  BY <1>1, <1>2, <1>3, <1>4 DEF Completion
<1>5. Completion(p)'
  <2>1. /\ now \in Nat /\ pr[p].first_review_at \in Nat \cup {None}
        /\ pr[p].first_review_completed_at # None => pr[p].first_review_at # None
    BY ReviewFacts
  <2>2. pr[p].first_review_at # None => pr[p].first_review_at <= now
    <3>1. pr[p].state # "ready"
      <4>1. \A y \in PRs : Moves(y) BY StartReviewMoves
      <4>2. CASE pr'[p] = pr[p] BY <1>1, <4>2
      <4>3. CASE pr'[p] # pr[p]
        <5>1. PICK q \in FirstCandidates(r) :
                q \in PRs /\ pr[q].state = "queued_for_review"
                /\ Applied(q, "in_review")
          BY StartReviewEffect
        <5>2. q = p BY <4>3, <5>1 DEF Applied
        <5> QED BY <5>1, <5>2
      <4> QED BY <4>2, <4>3
    <3> QED BY <3>1, ReviewFacts
  <2> QED BY <1>1, <1>2, <1>3, <2>1, <2>2 DEF Completion
<1>6. \A x \in PRs : Completion(x)' BY <1>4, <1>5
<1> QED BY <1>6 DEF Completions, Completion

LEMMA CompleteReviewCompletions ==
  ASSUME IInv, Completions, MeterTyped, NEW r \in Reviewers, CompleteReview(r),
         MeterCompletedReview(assigned[r])
  PROVE  /\ Completions' /\ MeterTyped'
         /\ meter'.queue_area = meter.queue_area
         /\ meter'.service = meter.service
<1>1. PICK p \in PRs :
      /\ p = assigned[r] /\ pr[p].state = "in_review" /\ Served(p)
      /\ UNCHANGED <<now, used>>
      /\ pr'[p].state \in {"author_response", "approved_waiting_merge"}
      /\ pr'[p].first_review_at = pr[p].first_review_at
      /\ pr'[p].first_review_completed_at =
           IF pr[p].first_review_completed_at = None THEN now
           ELSE pr[p].first_review_completed_at
      /\ \A x \in PRs : x # p => pr'[x] = pr[x]
  BY CompleteReviewMoves
<1>2. PICK changes \in [Levels -> Nat] :
        meter' = [meter EXCEPT
          !.first_completed[p] = IF @ = None THEN now ELSE @,
          !.changes = changes]
  <2> DEFINE more(l) == IF /\ pr'[p].state = "author_response"
                           /\ now >= WindowStart /\ AtLevel(l, p)
                        THEN 1 ELSE 0
  <2>1. \A l \in Levels : meter.changes[l] \in Nat BY DEF MeterTyped, MeterType
  <2>2. [l \in Levels |-> meter.changes[l] + more(l)] \in [Levels -> Nat]
    BY <2>1
  <2>3. meter' = [meter EXCEPT
          !.first_completed[p] = IF @ = None THEN now ELSE @,
          !.changes = [l \in Levels |-> meter.changes[l] + more(l)]]
    BY <1>1 DEF MeterCompletedReview
  <2> QED BY <2>2, <2>3
<1>3. /\ meter'.first_completed =
           [meter.first_completed EXCEPT ![p] = IF @ = None THEN now ELSE @]
      /\ meter'.queue_area = meter.queue_area
      /\ meter'.queue_peak = meter.queue_peak
      /\ meter'.service = meter.service
  BY <1>2 DEF MeterTyped, MeterType
<1>4. meter.first_completed \in [PRs -> Nat \cup {None}]
  BY DEF MeterTyped, MeterType
<1>5. /\ now \in Nat /\ used[p] \in Nat /\ Service[p] \in Nat
      /\ pr[p].first_review_at \in Nat
      /\ pr[p].first_review_completed_at \in Nat \cup {None}
  BY <1>1, ReviewFacts
<1>6. \A x \in PRs : Completion(x) BY EachCompletion
<1>7. ASSUME NEW x \in PRs, x # p PROVE Completion(x)'
  <2>1. meter'.first_completed[x] = meter.first_completed[x]
    BY <1>3, <1>4, <1>7
  <2>2. pr'[x] = pr[x] /\ used'[x] = used[x] BY <1>1, <1>7
  <2> QED BY <1>1, <1>6, <2>1, <2>2 DEF Completion
<1>8. Completion(p)'
  <2>1. meter'.first_completed[p] = pr'[p].first_review_completed_at
    BY <1>1, <1>3, <1>4, <1>6 DEF Completion
  <2>2. used[p] <= now - pr[p].first_review_at BY <1>1, <1>6 DEF Completion
  <2>3. used[p] >= Service[p] BY <1>1 DEF Served
  <2>4. now # None BY <1>5 DEF None
  <2>5. pr[p].first_review_completed_at # None =>
          pr[p].first_review_completed_at >= pr[p].first_review_at + Service[p]
    BY <1>6 DEF Completion
  <2>6. now >= pr[p].first_review_at + Service[p] BY <1>5, <2>2, <2>3
  <2>7. /\ pr'[p].first_review_completed_at # None
        /\ pr'[p].first_review_completed_at >= pr'[p].first_review_at + Service[p]
    BY <1>1, <2>4, <2>5, <2>6
  <2>8. pr'[p].state # "in_review" BY <1>1
  <2> QED BY <2>1, <2>7, <2>8 DEF Completion
<1>9. \A x \in PRs : Completion(x)' BY <1>7, <1>8
<1>10. Completions' BY <1>9 DEF Completions, Completion
<1>11. meter'.first_completed \in [PRs -> Nat \cup {None}]
  BY <1>3, <1>4, <1>5
<1>12. meter' \in MeterType
  BY <1>2, <1>3, <1>11 DEF MeterTyped, MeterType
<1>13. MeterTyped' BY <1>3, <1>12 DEF MeterTyped, MeterType
<1> QED BY <1>3, <1>10, <1>13

LEMMA AdvanceCompletions ==
  ASSUME IInv, Completions, Advance,
         meter'.first_completed = meter.first_completed
  PROVE  Completions'
<1>1. /\ now \in Nat /\ now' \in Nat /\ now <= now'
      /\ \A p \in PRs :
           /\ pr'[p].state = pr[p].state
           /\ pr'[p].first_review_at = pr[p].first_review_at
           /\ pr'[p].first_review_completed_at = pr[p].first_review_completed_at
           /\ \/ used'[p] = used[p] + (now' - now)
              \/ used'[p] = used[p]
  BY AdvanceEffect
<1>2. ASSUME NEW p \in PRs PROVE Completion(p)'
  <2>1. Completion(p) BY EachCompletion
  <2>2. /\ used[p] \in Nat
        /\ pr[p].state = "in_review" => pr[p].first_review_at \in Nat
    BY ReviewFacts
  <2> QED BY <1>1, <2>1, <2>2 DEF Completion
<1> QED BY <1>2 DEF Completions, Completion

-----------------------------------------------------------------------------
LEMMA InitMeter == ASSUME MeasuredInit PROVE MeterInv
<1>1. Init /\ IInv BY InitIInv DEF MeasuredInit
<1>2. /\ now = 0 /\ waits = {} /\ open = {} /\ metrics = NoMetrics
      /\ WindowStart \in Nat
  BY WindowAssumption DEF MeasuredInit, Init
<1>3. \A p \in PRs : /\ pr[p].state = "ready"
                     /\ pr[p].first_review_at = None
                     /\ pr[p].first_review_completed_at = None
  <2>1. PICK author \in [PRs -> Authors], ready \in [PRs -> ReadyTimes],
             flags \in [PRs -> ProposalFlags] :
          pr = [p \in PRs |-> Fresh(author[p], ready[p], flags[p][1], flags[p][2])]
    BY <1>1 DEF Init
  <2> QED BY <2>1 DEF Fresh
<1>4. /\ meter.first_completed = [p \in PRs |-> None]
      /\ meter.queue_area = [l \in Levels |-> 0]
      /\ meter.queue_peak = [l \in Levels |-> 0]
      /\ meter.service = [l \in Levels |-> 0]
  BY DEF MeasuredInit
<1>5. MeterTyped
  <2>1. meter \in MeterType
    BY DEF MeasuredInit, MeterType
  <2> QED BY <1>4, <2>1 DEF MeterTyped, MeterType
<1>6. Opened BY <1>2, <1>3 DEF Opened, Admitted
<1>7. Completions BY <1>3, <1>4 DEF Completions
<1>8. Integrals
  <2>1. \A l \in Levels : QueueSeconds(l) = {}
    BY <1>2, <1>3 DEF QueueSeconds, WaitedAt
  <2>2. \A l \in Levels : meter.queue_area[l] = Cardinality(QueueSeconds(l))
    BY <1>4, <2>1, FS_EmptySet
  <2>3. Cardinality(DutySoFar) \in Nat
    <3>1. DutySoFar \in SUBSET (Reviewers \X WindowSeconds) BY DEF DutySoFar
    <3> QED BY <3>1, PopulationAssumption, FiniteSeconds
  <2>4. Cardinality(Given) \in Nat
    <3>1. \A r \in Reviewers : active[r] \in Nat BY <1>1 DEF IInv, TypeOK
    <3> QED BY <3>1, FiniteGiven DEF Given
  <2>5. meter.service["all_work"] = 0 BY <1>4 DEF Levels
  <2> QED BY <1>2, <2>2, <2>3, <2>4, <2>5 DEF Integrals
<1>9. Reported BY <1>2 DEF Reported, Measured
<1>10. Waits
  <2>1. \A p \in PRs : pr[p].queue_wait_seconds = 0
    <3>1. PICK author \in [PRs -> Authors], ready \in [PRs -> ReadyTimes],
               flags \in [PRs -> ProposalFlags] :
            pr = [p \in PRs |-> Fresh(author[p], ready[p], flags[p][1], flags[p][2])]
      BY <1>1 DEF Init
    <3> QED BY <3>1 DEF Fresh
  <2>2. \A p \in PRs : QueueVisits(p) = {} BY <1>2 DEF QueueVisits
  <2>3. \A p \in PRs : Cardinality(QueueVisits(p)) = 0 BY <2>2, FS_EmptySet
  <2> QED BY <1>2, <1>3, <2>1, <2>3 DEF Waits, Accounted
<1> QED BY <1>5, <1>6, <1>7, <1>8, <1>9, <1>10 DEF MeterInv

-----------------------------------------------------------------------------
LEMMA Product ==
  ASSUME NEW m \in Nat, NEW n \in Nat, NEW d \in Nat, m <= n
  PROVE  m * d \in Nat /\ m * d <= n * d /\ (m * d > 0 <=> m > 0 /\ d > 0)
<1>1. m * d \in Nat /\ (n - m) * d \in Nat OBVIOUS
<1>2. n * d = m * d + (n - m) * d OBVIOUS
<1>3. m > 0 /\ d > 0 => m * d > 0 OBVIOUS
<1>4. m = 0 \/ d = 0 => m * d = 0 OBVIOUS
<1> QED BY <1>1, <1>2, <1>3, <1>4

(* The part of an interval that lies in the window has Clip seconds.       *)
LEMMA WindowPart ==
  ASSUME NEW m \in Nat, NEW n \in Nat, m <= n, n <= Horizon,
         NEW S, S = {t \in WindowSeconds : m <= t /\ t < n}
  PROVE  /\ IsFiniteSet(S)
         /\ Clip(m, n) \in Nat /\ Clip(m, n) <= n - m
         /\ Cardinality(S) = Clip(m, n)
         /\ \A t \in S : t \in Nat /\ m <= t /\ t < n
<1>1. Horizon \in Nat /\ WindowStart \in Nat
  BY InstanceAssumption, WindowAssumption
<1>2. PICK a \in Nat : /\ a = Later(m, WindowStart)
                      /\ a >= m /\ a >= WindowStart
                      /\ (a = m \/ a = WindowStart)
  BY <1>1 DEF Later
<1>3. Clip(m, n) = IF a <= n THEN n - a ELSE 0
  <2>1. Earlier(n, Horizon) = n BY <1>1 DEF Earlier
  <2>2. Clip(m, n) = Later(0, n - a) BY <1>2, <2>1 DEF Clip
  <2>3. CASE a <= n
    <3>1. n - a \in Nat BY <1>2, <2>3
    <3> QED BY <2>2, <2>3, <3>1 DEF Later
  <2>4. CASE ~(a <= n)
    <3>1. n - a \in Int /\ ~(0 <= n - a) BY <1>2, <2>4
    <3> QED BY <2>2, <2>4, <3>1 DEF Later
  <2> QED BY <2>3, <2>4
<1>4. S \subseteq Int /\ \A t \in Int : t \in S <=> a <= t /\ t < n
  <2> DEFINE h == Horizon - 1
  <2>1. h \in Int /\ \A t \in Int : t <= h <=> t < Horizon BY <1>1
  <2> HIDE DEF h
  <2>2. \A t : t \in WindowSeconds <=> t \in Int /\ WindowStart <= t /\ t <= h
    BY <1>1, <2>1 DEF WindowSeconds, h
  <2>3. ASSUME NEW t \in Int PROVE t \in S <=> a <= t /\ t < n
    BY <1>1, <1>2, <2>1, <2>2
  <2>4. S \subseteq Int BY <2>2
  <2> QED BY <2>3, <2>4
<1>5. \A t \in S : t \in Nat /\ m <= t /\ t < n BY <1>4
<1>6. CASE a <= n
  <2> DEFINE b == n - 1
  <2>1. a \in Int /\ b \in Int /\ (a > b => n - a = 0) /\ b - a + 1 = n - a
    BY <1>2, <1>6
  <2>2. \A t \in Int : t <= b <=> t < n OBVIOUS
  <2> HIDE DEF b
  <2>3. S = a .. b
    <3>1. \A t : t \in a .. b <=> t \in Int /\ a <= t /\ t <= b BY <2>1
    <3> QED BY <1>4, <2>2, <3>1
  <2>4. /\ IsFiniteSet(a .. b)
        /\ Cardinality(a .. b) = IF a > b THEN 0 ELSE b - a + 1
    BY <2>1, FS_Interval
  <2>5. Cardinality(S) = n - a BY <2>1, <2>3, <2>4
  <2>6. n - a \in Nat /\ n - a <= n - m BY <1>2, <1>6
  <2> QED BY <1>3, <1>5, <1>6, <2>3, <2>4, <2>5, <2>6
<1>7. CASE ~(a <= n)
  <2>1. S = {} BY <1>2, <1>4, <1>7
  <2>2. IsFiniteSet(S) /\ Cardinality(S) = 0 BY <2>1, FS_EmptySet
  <2>3. Clip(m, n) = 0 /\ 0 <= n - m BY <1>3, <1>7
  <2> QED BY <1>5, <2>2, <2>3
<1> QED BY <1>6, <1>7

(* The seconds of the window from now to the next instant.                 *)
StepSeconds == {t \in WindowSeconds : now <= t /\ t < now'}

LEMMA StepSize ==
  ASSUME IInv, Advance
  PROVE  /\ IsFiniteSet(StepSeconds)
         /\ Clip(previous, now') \in Nat
         /\ Cardinality(StepSeconds) = Clip(previous, now')
         /\ Clip(previous, now') <= now' - now
         /\ \A t \in StepSeconds :
              t \in Nat /\ now <= t /\ t < now' /\ t \in WindowSeconds
<1>1. /\ previous = now /\ now \in Nat /\ now' \in Nat /\ now <= now'
      /\ now' <= Horizon
  BY AdvanceEffect
<1>2. \A t \in StepSeconds : t \in WindowSeconds BY DEF StepSeconds
<1> QED BY <1>1, <1>2, WindowPart DEF StepSeconds

(* What waits in the queue waits for the interval.                         *)
LEMMA AdvanceSeconds ==
  ASSUME IInv, Integrals, Advance, waits' = waits, NEW l \in Levels
  PROVE  LET Q == {p \in Count("queued_for_review") : AtLevel(l, p)} IN
         /\ IsFiniteSet(Q) /\ Cardinality(Q) \in Nat
         /\ Cardinality(QueueSeconds(l)) \in Nat
         /\ Cardinality(QueueSeconds(l)') =
              Cardinality(QueueSeconds(l)) + Cardinality(Q) * Cardinality(StepSeconds)
<1> DEFINE Q == {p \in Count("queued_for_review") : AtLevel(l, p)}
<1>1. /\ now \in Nat /\ now' \in Nat /\ now <= now'
      /\ \A p \in PRs : pr'[p].state = pr[p].state
                        /\ pr'[p].ready_at = pr[p].ready_at
                        /\ pr'[p].queue_entered_at = pr[p].queue_entered_at
  BY AdvanceEffect DEF SameProposal
<1>2. \A p \in PRs : pr[p].state = "queued_for_review" =>
        pr[p].queue_entered_at \in Nat /\ pr[p].queue_entered_at <= now
  <2> SUFFICES ASSUME NEW p \in PRs, pr[p].state = "queued_for_review"
               PROVE  pr[p].queue_entered_at \in Nat /\ pr[p].queue_entered_at <= now
    OBVIOUS
  <2>1. /\ pr[p].queue_entered_at \in Nat \cup {None}
        /\ pr[p].queue_entered_at # None
        /\ pr[p].queue_entered_at <= pr[p].last_transition_at
        /\ pr[p].last_transition_at <= now /\ pr[p].last_transition_at \in Nat
    BY RecordFacts
  <2> QED BY <1>1, <2>1
<1>3. \A t \in WindowSeconds : t \in Int BY DEF WindowSeconds
<1>4. ASSUME NEW p \in PRs, NEW t \in WindowSeconds
      PROVE  AtLevel(l, p)' /\ WaitedAt(p, t)' <=>
               \/ AtLevel(l, p) /\ WaitedAt(p, t)
               \/ p \in Q /\ t \in StepSeconds
  <2>1. AtLevel(l, p)' <=> AtLevel(l, p) BY <1>1 DEF AtLevel
  <2>2. p \in Q <=> pr[p].state = "queued_for_review" /\ AtLevel(l, p)
    BY DEF Count
  <2>3. t \in StepSeconds <=> now <= t /\ t < now' BY DEF StepSeconds
  <2> DEFINE Was == \E w \in waits : w[1] = p /\ w[2] <= t /\ t < w[3]
  <2>4. WaitedAt(p, t)' <=>
          \/ Was
          \/ /\ pr[p].state = "queued_for_review"
             /\ pr[p].queue_entered_at <= t /\ t < now'
    BY <1>1 DEF WaitedAt
  <2>5. WaitedAt(p, t) <=>
          \/ Was
          \/ /\ pr[p].state = "queued_for_review"
             /\ pr[p].queue_entered_at <= t /\ t < now
    BY DEF WaitedAt
  <2> HIDE DEF Was, Q
  <2> QED BY <1>1, <1>2, <1>3, <2>1, <2>2, <2>3, <2>4, <2>5
<1>5. QueueSeconds(l)' = QueueSeconds(l) \cup (Q \X StepSeconds)
  <2>1. Q \X StepSeconds \subseteq PRs \X WindowSeconds
    BY DEF Count, StepSeconds
  <2>2. \A e \in PRs \X WindowSeconds :
          e \in Q \X StepSeconds <=> e[1] \in Q /\ e[2] \in StepSeconds
    OBVIOUS
  <2>3. \A e \in PRs \X WindowSeconds :
          e \in QueueSeconds(l)' <=> e \in QueueSeconds(l) \/ e \in Q \X StepSeconds
    <3> HIDE DEF Q
    <3> QED BY <1>4, <2>2 DEF QueueSeconds
  <2>4. /\ QueueSeconds(l)' \subseteq PRs \X WindowSeconds
        /\ QueueSeconds(l) \subseteq PRs \X WindowSeconds
    BY DEF QueueSeconds
  <2> HIDE DEF Q
  <2> QED BY <2>1, <2>3, <2>4
<1>6. QueueSeconds(l) \cap (Q \X StepSeconds) = {}
  <2> SUFFICES ASSUME NEW e \in QueueSeconds(l), e \in Q \X StepSeconds
               PROVE  FALSE
    OBVIOUS
  <2>1. now <= e[2] /\ e[2] \in WindowSeconds BY DEF StepSeconds
  <2>2. WaitedAt(e[1], e[2]) BY DEF QueueSeconds
  <2>3. \A w \in waits : w[3] \in Nat /\ w[3] <= now BY DEF Integrals
  <2>4. e[2] < now
    <3>1. CASE \E w \in waits : w[1] = e[1] /\ w[2] <= e[2] /\ e[2] < w[3]
      <4>1. PICK w \in waits : e[2] < w[3] BY <3>1
      <4> QED BY <1>1, <1>3, <2>1, <2>3, <4>1
    <3>2. CASE e[2] < now BY <3>2
    <3>3. \/ \E w \in waits : w[1] = e[1] /\ w[2] <= e[2] /\ e[2] < w[3]
          \/ e[2] < now
      BY <2>2 DEF WaitedAt
    <3> QED BY <3>1, <3>2, <3>3
  <2> QED BY <1>1, <1>3, <2>1, <2>4
<1>7. IsFiniteSet(Q) /\ Cardinality(Q) \in Nat
  <2>1. Q \in SUBSET PRs BY DEF Count
  <2> HIDE DEF Q
  <2> QED BY <2>1, PopulationAssumption, FS_Subset, FS_CardinalityType
<1>8. IsFiniteSet(QueueSeconds(l)) /\ Cardinality(QueueSeconds(l)) \in Nat
  <2>1. QueueSeconds(l) \in SUBSET (PRs \X WindowSeconds) BY DEF QueueSeconds
  <2> QED BY <2>1, PopulationAssumption, FiniteSeconds
<1>9. /\ IsFiniteSet(Q \X StepSeconds)
      /\ Cardinality(Q \X StepSeconds) = Cardinality(Q) * Cardinality(StepSeconds)
  <2> HIDE DEF Q
  <2> QED BY <1>7, StepSize, FS_Product
<1> HIDE DEF Q
<1>10. Cardinality(QueueSeconds(l)') =
         Cardinality(QueueSeconds(l)) + Cardinality(Q \X StepSeconds)
  <2> DEFINE S == QueueSeconds(l)
             T == Q \X StepSeconds
  <2>1. S \cap T = {} BY <1>6
  <2>2. IsFiniteSet(S) /\ IsFiniteSet(T) BY <1>8, <1>9
  <2>3. QueueSeconds(l)' = S \cup T BY <1>5
  <2> HIDE DEF S, T
  <2>4. Cardinality(S \cup T) = Cardinality(S) + Cardinality(T)
    BY <2>1, <2>2, DisjointSum
  <2> QED BY <2>3, <2>4 DEF S, T
<1> QED BY <1>7, <1>8, <1>9, <1>10 DEF Q

(* The reviewers who work are on duty throughout the interval.             *)
LEMMA AdvanceDuty ==
  ASSUME IInv, Agenda, Advance
  PROVE  /\ IsFiniteSet(Working) /\ Cardinality(Working) \in Nat
         /\ IsFiniteSet(UnderService) /\ Cardinality(UnderService) \in Nat
         /\ Cardinality(UnderService) <= Cardinality(Working)
         /\ Cardinality(DutySoFar) \in Nat /\ Cardinality(DutySoFar') \in Nat
         /\ Cardinality(DutySoFar) + Cardinality(Working) * Cardinality(StepSeconds)
              <= Cardinality(DutySoFar')
<1>1. previous = now /\ now \in Nat /\ now' \in Nat /\ now <= now'
  BY AdvanceEffect
<1>2. IsFiniteSet(Working)
  <2>1. Working \in SUBSET Reviewers BY DEF Working, Assigned
  <2> QED BY <2>1, PopulationAssumption, FS_Subset
<1>3. IsFiniteSet(UnderService) /\ Cardinality(UnderService) <= Cardinality(Working)
  <2> DEFINE f == [r \in Working |-> assigned[r]]
  <2>1. f \in Surjection(Working, UnderService) BY DEF Surjection, UnderService
  <2> HIDE DEF f
  <2> QED BY <1>2, <2>1, FS_Surjection
<1>4. /\ DutySoFar \in SUBSET (Reviewers \X WindowSeconds)
      /\ DutySoFar' \in SUBSET (Reviewers \X WindowSeconds)
  BY DEF DutySoFar
<1>5. /\ IsFiniteSet(DutySoFar) /\ IsFiniteSet(DutySoFar')
      /\ Cardinality(DutySoFar) \in Nat /\ Cardinality(DutySoFar') \in Nat
  BY <1>4, PopulationAssumption, FiniteSeconds
<1> DEFINE G == Working \X StepSeconds
<1>6. IsFiniteSet(G) /\ Cardinality(G) = Cardinality(Working) * Cardinality(StepSeconds)
  BY <1>2, StepSize, FS_Product
<1>7. ASSUME NEW e \in G
      PROVE  /\ e \in Reviewers \X WindowSeconds
             /\ now <= e[2] /\ e[2] < now' /\ OnDuty(e[1], e[2])
  <2>1. /\ e[1] \in Reviewers /\ OnDuty(e[1], now)
        /\ e[2] \in StepSeconds
    BY <1>1 DEF Working, Assigned
  <2>2. e[2] \in Nat /\ now <= e[2] /\ e[2] < now' /\ e[2] \in WindowSeconds
    BY <2>1, StepSize
  <2>3. OnDuty(e[1], e[2]) BY <2>1, <2>2, DutyHolds
  <2> QED BY <2>1, <2>2, <2>3
<1>8. DutySoFar \cap G = {}
  <2> SUFFICES ASSUME NEW e \in DutySoFar, e \in G PROVE FALSE OBVIOUS
  <2>1. e[2] < now /\ now <= e[2] /\ e[2] \in Int
    BY <1>7 DEF DutySoFar, WindowSeconds
  <2> QED BY <1>1, <2>1
<1>9. DutySoFar \cup G \in SUBSET DutySoFar'
  <2>1. ASSUME NEW e \in DutySoFar PROVE e \in DutySoFar'
    <3>1. e[2] < now' BY <1>1 DEF DutySoFar, WindowSeconds
    <3> QED BY <3>1 DEF DutySoFar, OnDuty, ClippedDuty
  <2>2. ASSUME NEW e \in G PROVE e \in DutySoFar'
    <3> HIDE DEF G
    <3> QED BY <1>7, <2>2 DEF DutySoFar, OnDuty, ClippedDuty
  <2> QED BY <2>1, <2>2
<1> HIDE DEF G
<1> DEFINE B == DutySoFar
<1>10. Cardinality(B \cup G) = Cardinality(B) + Cardinality(G)
  <2>1. B \cap G = {} /\ IsFiniteSet(B) BY <1>5, <1>8
  <2> HIDE DEF B
  <2> QED BY <1>6, <2>1, DisjointSum
<1>11. Cardinality(DutySoFar \cup G) <= Cardinality(DutySoFar')
  <2> DEFINE C == DutySoFar'
             D == DutySoFar \cup G
  <2>1. IsFiniteSet(C) /\ D \in SUBSET C BY <1>5, <1>9
  <2> HIDE DEF C, D
  <2>2. Cardinality(D) <= Cardinality(C) BY <2>1, FS_Subset
  <2> QED BY <2>2 DEF C, D
<1>12. Cardinality(Working) \in Nat /\ Cardinality(UnderService) \in Nat
  BY <1>2, <1>3, FS_CardinalityType
<1> QED BY <1>2, <1>3, <1>5, <1>6, <1>10, <1>11, <1>12

(* They give at least the seconds of the window that pass.                 *)
LEMMA AdvanceGiven ==
  ASSUME IInv, IInv', Advance
  PROVE  /\ Cardinality(Given) \in Nat /\ Cardinality(Given') \in Nat
         /\ Cardinality(Given) + Cardinality(Working) * Cardinality(StepSeconds)
              <= Cardinality(Given')
<1>1. /\ previous = now /\ now \in Nat /\ now' \in Nat /\ now <= now'
      /\ \A t \in StepSeconds : t \in Nat /\ now <= t /\ t < now'
  BY AdvanceEffect, StepSize
<1>2. \A r \in Reviewers :
        /\ active[r] \in Nat
        /\ active'[r] = IF r \in Working THEN active[r] + (now' - now) ELSE active[r]
  BY <1>1 DEF Advance, IInv, TypeOK
<1>3. /\ \A e : e \in Given <=> \E r \in Reviewers : e \in {r} \X (1 .. active[r])
      /\ \A e : e \in Given' <=> \E r \in Reviewers : e \in {r} \X (1 .. active'[r])
  BY DEF Given
<1>4. Given \subseteq Given'
  <2> SUFFICES ASSUME NEW r \in Reviewers, NEW e \in {r} \X (1 .. active[r])
               PROVE  e \in {r} \X (1 .. active'[r])
    BY <1>3
  <2>1. e[2] \in Int /\ 1 <= e[2] /\ e[2] <= active[r] BY <1>2
  <2>2. active'[r] \in Int /\ e[2] <= active'[r] BY <1>1, <1>2, <2>1
  <2> QED BY <2>1, <2>2
<1> DEFINE G == Working \X StepSeconds
           N == Given' \ Given
           f == [e \in G |-> <<e[1], active[e[1]] + 1 + (e[2] - now)>>]
<1>5. ASSUME NEW e \in G
      PROVE  /\ e[1] \in Working /\ e[1] \in Reviewers /\ active[e[1]] \in Nat
             /\ e[2] \in Nat /\ now <= e[2] /\ e[2] < now'
             /\ f[e] = <<e[1], active[e[1]] + 1 + (e[2] - now)>>
  <2>1. e[1] \in Working /\ e[2] \in StepSeconds OBVIOUS
  <2>2. e[1] \in Reviewers BY <2>1 DEF Working, Assigned
  <2> QED BY <1>1, <1>2, <2>1, <2>2
<1>6. ASSUME NEW e \in G PROVE f[e] \in N
  <2> DEFINE r == e[1]
             k == active[r] + 1 + (e[2] - now)
  <2>1. /\ r \in Working /\ r \in Reviewers /\ f[e] = <<r, k>> /\ k \in Int
        /\ active[r] < k /\ k <= active[r] + (now' - now) /\ 1 <= k
    BY <1>1, <1>5
  <2>2. k \in 1 .. active'[r] BY <1>1, <1>2, <2>1
  <2>3. k \notin 1 .. active[r] BY <1>2, <2>1
  <2> HIDE DEF k, r, f
  <2>4. <<r, k>> \in Given' BY <1>3, <2>1, <2>2
  <2>5. <<r, k>> \notin Given BY <1>3, <2>1, <2>3
  <2> QED BY <2>1, <2>4, <2>5
<1>7. \A d, e \in G : f[d] = f[e] => d = e
  <2> SUFFICES ASSUME NEW d \in G, NEW e \in G, f[d] = f[e] PROVE d = e
    OBVIOUS
  <2>1. d[1] = e[1] BY <1>5
  <2>2. active[d[1]] + 1 + (d[2] - now) = active[d[1]] + 1 + (e[2] - now)
    BY <1>5, <2>1
  <2>3. d[2] = e[2]
    <3> DEFINE c == active[d[1]]
               x == d[2]
               y == e[2]
    <3>1. c \in Nat /\ x \in Nat /\ y \in Nat BY <1>5
    <3> HIDE DEF c, x, y
    <3>2. c + 1 + (x - now) = c + 1 + (y - now) BY <2>2 DEF c, x, y
    <3>3. x = y BY <1>1, <3>1, <3>2
    <3> QED BY <3>3 DEF x, y
  <2> QED BY <2>1, <2>3
<1>8. f \in Injection(G, N)
  <2>1. f \in [G -> N] BY <1>6
  <2> HIDE DEF f, G, N
  <2> QED BY <1>7, <2>1 DEF Injection, IsInjective
<1>9. /\ IsFiniteSet(Given) /\ IsFiniteSet(Given')
      /\ Cardinality(Given) \in Nat /\ Cardinality(Given') \in Nat
  <2>1. \A r \in Reviewers : active[r] \in Nat /\ active'[r] \in Nat
    BY DEF IInv, TypeOK
  <2>2. IsFiniteSet(Given) /\ Cardinality(Given) \in Nat
    BY <2>1, FiniteGiven DEF Given
  <2>3. IsFiniteSet(Given') /\ Cardinality(Given') \in Nat
    BY <2>1, FiniteGiven DEF Given
  <2> QED BY <2>2, <2>3
<1>10. Cardinality(N) = Cardinality(Given') - Cardinality(Given) /\ IsFiniteSet(N)
  <2> DEFINE S == Given'
             T == Given
  <2>1. IsFiniteSet(S) /\ S \cap T = T BY <1>4, <1>9
  <2> HIDE DEF S, T
  <2>2. /\ Cardinality(S \ T) = Cardinality(S) - Cardinality(T)
        /\ IsFiniteSet(S \ T)
    BY <2>1, FS_Difference
  <2> QED BY <2>2 DEF S, T
<1>11. Cardinality(G) <= Cardinality(N)
  <2> HIDE DEF f, G, N
  <2> QED BY <1>8, <1>10, FS_Injection
<1>12. Cardinality(G) = Cardinality(Working) * Cardinality(StepSeconds)
       /\ Cardinality(G) \in Nat
  <2>1. Working \in SUBSET Reviewers BY DEF Working, Assigned
  <2>2. IsFiniteSet(Working) BY <2>1, PopulationAssumption, FS_Subset
  <2> QED BY <2>2, StepSize, FS_Product, FS_CardinalityType
<1> HIDE DEF G, N
<1> QED BY <1>9, <1>10, <1>11, <1>12

-----------------------------------------------------------------------------
QueuedAt(l) == Cardinality({p \in Count("queued_for_review") : AtLevel(l, p)})

ServedAt(l) == Cardinality({p \in UnderService : AtLevel(l, p)})

(* What an interval of d seconds of the window adds to the meter.          *)
LEMMA MeterMoves ==
  ASSUME IInv, Agenda, Integrals, MeterTyped, Advance, MeterAdvance
  PROVE  LET d == Clip(previous, now') IN
         /\ d \in Nat /\ meter' \in MeterType
         /\ meter'.first_completed = meter.first_completed
         /\ \A l \in Levels :
              /\ QueuedAt(l) \in Nat /\ ServedAt(l) \in Nat
              /\ meter'.queue_area[l] = meter.queue_area[l] + QueuedAt(l) * d
              /\ meter'.service[l] = meter.service[l] + ServedAt(l) * d
              /\ meter'.queue_peak[l] =
                   IF d = 0 THEN meter.queue_peak[l]
                   ELSE Later(meter.queue_peak[l], QueuedAt(l))
<1>1. PICK d \in Nat : d = Clip(previous, now') BY StepSize
<1>2. meter \in MeterType BY DEF MeterTyped, MeterType
<1>3. ASSUME NEW l \in Levels PROVE QueuedAt(l) \in Nat /\ ServedAt(l) \in Nat
  <2>1. Count("queued_for_review") \in SUBSET PRs BY DEF Count
  <2>2. IsFiniteSet(PRs) /\ IsFiniteSet(UnderService)
    BY PopulationAssumption, AdvanceDuty
  <2> DEFINE Q == {p \in Count("queued_for_review") : AtLevel(l, p)}
             U == {p \in UnderService : AtLevel(l, p)}
  <2>3. Q \in SUBSET PRs /\ U \in SUBSET UnderService BY <2>1
  <2> HIDE DEF Q, U
  <2>4. Cardinality(Q) \in Nat /\ Cardinality(U) \in Nat
    BY <2>2, <2>3, FS_Subset, FS_CardinalityType
  <2> QED BY <2>4 DEF QueuedAt, ServedAt, Q, U
<1>4. meter' = IF d = 0 THEN meter ELSE
        [meter EXCEPT
          !.queue_area = [l \in Levels |-> meter.queue_area[l] + QueuedAt(l) * d],
          !.queue_peak = [l \in Levels |-> Later(meter.queue_peak[l], QueuedAt(l))],
          !.service = [l \in Levels |-> meter.service[l] + ServedAt(l) * d]]
  BY <1>1 DEF MeterAdvance, QueuedAt, ServedAt
<1>5. \A l \in Levels : /\ meter.queue_area[l] \in Nat
                        /\ meter.queue_peak[l] \in Nat
                        /\ meter.service[l] \in Nat
  BY <1>2 DEF MeterType
<1>6. CASE d = 0
  <2>1. meter' = meter BY <1>4, <1>6
  <2>2. \A n \in Nat : n * d = 0 BY <1>6
  <2> QED BY <1>1, <1>2, <1>3, <1>5, <1>6, <2>1, <2>2
<1>7. CASE d # 0
  <2> DEFINE area == [l \in Levels |-> meter.queue_area[l] + QueuedAt(l) * d]
             peak == [l \in Levels |-> Later(meter.queue_peak[l], QueuedAt(l))]
             service == [l \in Levels |-> meter.service[l] + ServedAt(l) * d]
  <2>1. /\ area \in [Levels -> Nat] /\ peak \in [Levels -> Nat]
        /\ service \in [Levels -> Nat]
    <3>1. \A l \in Levels : QueuedAt(l) * d \in Nat /\ ServedAt(l) * d \in Nat
      BY <1>3
    <3>2. area \in [Levels -> Nat] BY <1>5, <3>1
    <3>3. service \in [Levels -> Nat] BY <1>5, <3>1
    <3>4. peak \in [Levels -> Nat] BY <1>3, <1>5 DEF Later
    <3> QED BY <3>2, <3>3, <3>4
  <2>2. meter' = [meter EXCEPT !.queue_area = area, !.queue_peak = peak,
                               !.service = service]
    BY <1>4, <1>7
  <2>3. /\ \A l \in Levels :
             /\ area[l] = meter.queue_area[l] + QueuedAt(l) * d
             /\ peak[l] = Later(meter.queue_peak[l], QueuedAt(l))
             /\ service[l] = meter.service[l] + ServedAt(l) * d
    OBVIOUS
  <2> HIDE DEF area, peak, service
  <2>4. /\ meter' \in MeterType
        /\ meter'.first_completed = meter.first_completed
        /\ meter'.queue_area = area /\ meter'.queue_peak = peak
        /\ meter'.service = service
    BY <1>2, <2>1, <2>2 DEF MeterType
  <2> QED BY <1>1, <1>3, <1>7, <2>3, <2>4
<1> QED BY <1>6, <1>7

LEMMA AdvanceOpened ==
  ASSUME IInv, Opened, Advance, Witness PROVE Opened'
<1>1. /\ now \in Nat /\ now' \in Nat /\ now <= now' /\ WindowStart \in Nat
      /\ \A p \in PRs : /\ pr'[p].state = pr[p].state
                        /\ pr'[p].ready_at = pr[p].ready_at
                        /\ pr'[p].last_transition_at = pr[p].last_transition_at
  BY AdvanceEffect, WindowAssumption DEF SameProposal
<1>2. Admitted' = Admitted BY <1>1 DEF Admitted
<1>3. \A p \in PRs : CarriedIn(p)' <=> CarriedIn(p)
  BY <1>1 DEF CarriedIn, IsTerminal
<1>4. CASE now' < WindowStart
  <2>1. now < WindowStart BY <1>1, <1>4
  <2>2. open' = open BY <1>1, <1>4 DEF Witness
  <2> QED BY <1>4, <2>1, <2>2 DEF Opened
<1>5. CASE now >= WindowStart
  <2>1. now' >= WindowStart BY <1>1, <1>5
  <2>2. open' = open BY <1>1, <1>5 DEF Witness
  <2>3. {p \in Admitted : CarriedIn(p)}' = {p \in Admitted : CarriedIn(p)}
    BY <1>2, <1>3 DEF Admitted
  <2> QED BY <1>1, <1>5, <2>1, <2>2, <2>3 DEF Opened
<1>6. CASE now < WindowStart /\ now' >= WindowStart
  <2>1. open' = {p \in Admitted : ~IsTerminal(pr[p])} BY <1>6 DEF Witness
  <2>2. ASSUME NEW p \in Admitted PROVE CarriedIn(p)' <=> ~IsTerminal(pr[p])
    <3>1. /\ pr[p].last_transition_at \in Nat /\ pr[p].ready_at \in Nat
          /\ pr[p].ready_at <= pr[p].last_transition_at
          /\ pr[p].last_transition_at <= now
      BY RecordFacts DEF Admitted
    <3> QED BY <1>1, <1>3, <1>6, <3>1 DEF CarriedIn, Admitted
  <2>3. {p \in Admitted : CarriedIn(p)}' = {p \in Admitted : ~IsTerminal(pr[p])}
    BY <1>2, <2>2
  <2> QED BY <1>1, <1>6, <2>1, <2>3 DEF Opened
<1> QED BY <1>1, <1>4, <1>5, <1>6

LEMMA AdvanceMeter ==
  ASSUME IInv, IInv', Agenda, MeterInv, Advance, MeterAdvance,
         metrics' = metrics, Witness
  PROVE  MeterInv'
<1> USE DEF MeterInv
<1>1. PICK d \in Nat : /\ d = Clip(previous, now')
                       /\ d = Cardinality(StepSeconds)
  BY StepSize
<1>2. /\ meter' \in MeterType
      /\ meter'.first_completed = meter.first_completed
      /\ \A l \in Levels :
           /\ QueuedAt(l) \in Nat /\ ServedAt(l) \in Nat
           /\ meter'.queue_area[l] = meter.queue_area[l] + QueuedAt(l) * d
           /\ meter'.service[l] = meter.service[l] + ServedAt(l) * d
           /\ meter'.queue_peak[l] =
                IF d = 0 THEN meter.queue_peak[l]
                ELSE Later(meter.queue_peak[l], QueuedAt(l))
  BY <1>1, MeterMoves
<1>3. \A l \in Levels : /\ meter.queue_area[l] \in Nat
                        /\ meter.queue_peak[l] \in Nat
                        /\ meter.service[l] \in Nat
                        /\ meter.queue_peak[l] > 0 <=> meter.queue_area[l] > 0
  BY DEF MeterTyped, MeterType
<1>4. MeterTyped'
  <2>1. ASSUME NEW l \in Levels
        PROVE  meter'.queue_peak[l] > 0 <=> meter'.queue_area[l] > 0
    <3> DEFINE n == QueuedAt(l)
               k == n * d
    <3>1. n \in Nat /\ k \in Nat /\ (k > 0 <=> n > 0 /\ d > 0)
      BY <1>2, Product
    <3>2. /\ meter'.queue_area[l] = meter.queue_area[l] + k
          /\ meter'.queue_peak[l] = IF d = 0 THEN meter.queue_peak[l]
                                    ELSE Later(meter.queue_peak[l], n)
      BY <1>2
    <3> HIDE DEF k, n
    <3>3. CASE d = 0 BY <1>3, <3>1, <3>2, <3>3
    <3>4. CASE d # 0
      <4>1. meter'.queue_peak[l] = Later(meter.queue_peak[l], n) /\ d > 0
        BY <3>2, <3>4
      <4> QED BY <1>3, <3>1, <3>2, <4>1 DEF Later
    <3> QED BY <3>3, <3>4
  <2> QED BY <1>2, <2>1 DEF MeterTyped, MeterType
<1>5. waits' = waits
  <2>1. \A p \in PRs : pr'[p].state = pr[p].state BY AdvanceEffect
  <2>2. {q \in Count("queued_for_review") : pr'[q].state # "queued_for_review"} = {}
    BY <2>1 DEF Count
  <2> QED BY <2>2 DEF Witness
<1>6. \A l \in Levels : meter'.queue_area[l] = Cardinality(QueueSeconds(l)')
  BY <1>1, <1>2, <1>5, AdvanceSeconds DEF Integrals, QueuedAt
<1>7. /\ meter'.service["all_work"] <= Cardinality(DutySoFar')
      /\ meter'.service["all_work"] <= Cardinality(Given')
  <2> DEFINE a == "all_work"
             u == Cardinality(UnderService)
             w == Cardinality(Working)
             x == Cardinality(DutySoFar)
             y == Cardinality(DutySoFar')
             g == Cardinality(Given)
             h == Cardinality(Given')
             s == meter.service["all_work"]
  <2>1. ServedAt(a) = u
    <3>1. {p \in UnderService : AtLevel(a, p)} = UnderService BY DEF AtLevel
    <3> QED BY <3>1 DEF ServedAt
  <2>2. u \in Nat /\ w \in Nat /\ u <= w /\ x \in Nat /\ y \in Nat /\ x + w * d <= y
    BY <1>1, AdvanceDuty
  <2>3. g \in Nat /\ h \in Nat /\ g + w * d <= h BY <1>1, AdvanceGiven
  <2>4. meter'.service["all_work"] = s + u * d /\ s \in Nat
    BY <1>2, <1>3, <2>1 DEF Levels
  <2>5. s <= x /\ s <= g BY DEF Integrals
  <2> HIDE DEF u, w, x, y, g, h, s
  <2> DEFINE k == u * d
             m == w * d
  <2>6. k \in Nat /\ m \in Nat /\ k <= m BY <2>2, Product
  <2>7. x + m <= y /\ g + m <= h /\ meter'.service["all_work"] = s + k
    BY <2>2, <2>3, <2>4
  <2> HIDE DEF k, m
  <2>8. /\ meter'.service["all_work"] <= y
        /\ meter'.service["all_work"] <= h
    BY <2>2, <2>3, <2>4, <2>5, <2>6, <2>7
  <2> QED BY <2>8 DEF y, h
<1>8. \A w \in waits' : w[3] \in Nat /\ w[3] <= now'
  BY <1>5, AdvanceEffect DEF Integrals
<1>9. Integrals' BY <1>6, <1>7, <1>8 DEF Integrals
<1>10. Opened' /\ Completions' BY <1>2, AdvanceOpened, AdvanceCompletions
<1>12. Waits'
  <2>1. ASSUME NEW p \in PRs PROVE Accounted(p)'
    <3>1. /\ pr'[p].state = pr[p].state
          /\ pr'[p].last_transition_at = pr[p].last_transition_at
          /\ pr'[p].queue_entered_at = pr[p].queue_entered_at
          /\ pr'[p].queue_wait_seconds = pr[p].queue_wait_seconds
      BY AdvanceEffect
    <3>2. QueueVisits(p)' = QueueVisits(p) BY <1>5 DEF QueueVisits
    <3> QED BY <1>5, <3>1, <3>2 DEF Waits, Accounted
  <2> QED BY <2>1 DEF Waits
<1>11. Reported'
  <2>1. ~Measured BY AdvanceEffect DEF Reported
  <2> QED BY <2>1 DEF Reported, Measured
<1> QED BY <1>4, <1>9, <1>10, <1>11, <1>12

-----------------------------------------------------------------------------
(* The steps while the clock stands and the result is not yet returned.    *)
LEMMA StandingMeter ==
  ASSUME IInv, MeterInv, Witness, \A x \in PRs : Moves(x),
         UNCHANGED <<now, active, metrics>>, phase # "done",
         Completions', MeterTyped',
         meter'.queue_area = meter.queue_area, meter'.service = meter.service
  PROVE  MeterInv'
<1>1. Opened' BY MovesKeepOpened DEF MeterInv
<1>2. Integrals' BY MovesKeepIntegrals DEF MeterInv
<1>3. Reported' BY DEF MeterInv, Reported, Measured
<1>4. Waits' BY MovesKeepWaits DEF MeterInv
<1> QED BY <1>1, <1>2, <1>3, <1>4 DEF MeterInv

(* ... that leave the meter alone.                                         *)
LEMMA KeptMeter ==
  ASSUME IInv, MeterInv, Witness, \A x \in PRs : Moves(x) /\ KeepsCompletion(x),
         UNCHANGED <<now, active, meter, metrics>>, phase # "done"
  PROVE  MeterInv'
<1>1. \A x \in PRs : Completion(x) BY EachCompletion DEF MeterInv
<1>2. \A x \in PRs : Completion(x)' BY <1>1, KeptCompletion
<1>3. Completions' BY <1>2 DEF Completions, Completion
<1>4. MeterTyped' BY DEF MeterInv, MeterTyped, MeterType
<1> QED BY <1>3, <1>4, StandingMeter

LEMMA SameDictionary ==
  ASSUME UNCHANGED <<pr, meter>>, NEW l \in Levels
  PROVE  MetricDictionary(l)' = MetricDictionary(l)
<1>1. \A p \in PRs : AtLevel(l, p)' = AtLevel(l, p) BY DEF AtLevel
<1>2. Selected(l)' = Selected(l)
  BY <1>1 DEF Selected, Admitted, TerminalAt
<1>3. \A state : Count(state)' = Count(state) BY DEF Count
<1>4. MergedIn(l)' = MergedIn(l) /\ AbandonedIn(l)' = AbandonedIn(l)
  BY <1>2, <1>3 DEF MergedIn, AbandonedIn, InWindow, TerminalAt
<1>5. Eligible(l)' = Eligible(l) BY <1>2 DEF Eligible
<1>6. Reviewed(l)' = Reviewed(l) BY <1>5 DEF Reviewed
<1> QED BY <1>2, <1>3, <1>4, <1>5, <1>6 DEF MetricDictionary, TerminalAt

(* ... that leave the records and the service alone as well.               *)
LEMMA QuietMeter ==
  ASSUME IInv, MeterInv, Witness, UNCHANGED <<now, active, pr, used, meter>>,
         Reported'
  PROVE  MeterInv'
<1>1. \A x \in PRs : Moves(x) BY DEF Moves
<1>2. Opened' BY <1>1, MovesKeepOpened DEF MeterInv
<1>3. Integrals' BY <1>1, MovesKeepIntegrals DEF MeterInv
<1>4. Completions' BY DEF MeterInv, Completions
<1>5. MeterTyped' BY DEF MeterInv, MeterTyped, MeterType
<1>6. Waits' BY <1>1, MovesKeepWaits DEF MeterInv
<1> QED BY <1>2, <1>3, <1>4, <1>5, <1>6 DEF MeterInv

LEMMA RecordMeter ==
  ASSUME IInv, MeterInv, Witness, Record, MeterFinish, UNCHANGED meter
  PROVE  MeterInv'
<1>1. phase = "record" /\ UNCHANGED <<now, active, pr, used, truncated>>
  BY DEF Record, At
<1>2. metrics = NoMetrics BY <1>1 DEF MeterInv, Reported, Measured
<1>3. NoMetrics' = NoMetrics BY DEF NoMetrics
<1>4. Reported'
  <2>1. CASE phase' = "done" /\ ~truncated
    <3>1. metrics' = [l \in Levels |-> MetricDictionary(l)]
      BY <2>1 DEF MeterFinish
    <3>2. \A l \in Levels : MetricDictionary(l)' = MetricDictionary(l)
      BY <1>1, SameDictionary
    <3> QED BY <1>1, <2>1, <3>1, <3>2 DEF Reported
  <2>2. CASE ~(phase' = "done" /\ ~truncated)
    BY <1>2, <1>3, <2>2 DEF MeterFinish, Reported, Measured
  <2> QED BY <2>1, <2>2
<1> QED BY <1>1, <1>4, QuietMeter

(* The steps of the loop, and the stuttering after it.                     *)
LEMMA LoopMeter ==
  ASSUME IInv, MeterInv, Witness, UNCHANGED <<now, active, pr, used, meter, metrics>>,
         phase # "done" \/ UNCHANGED vars
  PROVE  MeterInv'
<1>1. NoMetrics' = NoMetrics BY DEF NoMetrics
<1>2. Reported'
  <2>1. CASE ~Measured BY <1>1, <2>1 DEF Reported, Measured
  <2>2. CASE Measured
    <3>1. /\ phase = "done" /\ ~truncated
          /\ metrics = [l \in Levels |-> MetricDictionary(l)]
      BY <2>2 DEF MeterInv, Reported
    <3>2. phase' = phase /\ truncated' = truncated BY <3>1 DEF vars
    <3>3. \A l \in Levels : MetricDictionary(l)' = MetricDictionary(l)
      BY SameDictionary
    <3> QED BY <3>1, <3>2, <3>3 DEF Reported
  <2> QED BY <2>1, <2>2
<1> QED BY <1>2, QuietMeter

LEMMA UnmeteredMeter ==
  ASSUME IInv, Agenda, MeterInv, Witness, Unmetered, UNCHANGED <<meter, metrics>>
  PROVE  MeterInv'
<1>1. CASE Censor
  <2>1. /\ UNCHANGED <<now, used>> /\ phase = "censor"
        /\ \A x \in PRs : pr'[x] = pr[x] \/ Ended(x)
    BY <1>1, CensorEffect
  <2>2. active' = active BY <1>1 DEF Censor
  <2> QED BY <2>1, <2>2, EndMoves, KeptMeter
<1>2. CASE Returned \/ AbandonmentsDone \/ FinishesDone \/ NextBatch
           \/ BatchesDone \/ DispatchDone
  BY <1>2, LoopMeter
     DEF Returned, AbandonmentsDone, FinishesDone, NextBatch, BatchesDone,
         DispatchDone, At, vars
<1>3. ASSUME NEW p \in PRs, Abandon(p) PROVE MeterInv'
  <2>1. /\ UNCHANGED <<now, used>> /\ phase = "abandon"
        /\ \A x \in PRs : pr'[x] = pr[x] \/ Ended(x)
    BY <1>3, AbandonEffect
  <2>2. active' = active BY <1>3 DEF Abandon
  <2> QED BY <2>1, <2>2, EndMoves, KeptMeter
<1>4. ASSUME NEW p \in PRs, Admit(p) PROVE MeterInv'
  <2>1. active' = active /\ phase # "done" BY <1>4 DEF Admit, At
  <2> QED BY <1>4, <2>1, AdmitMoves, KeptMeter
<1>5. ASSUME NEW p \in PRs, SkipTerminal(p) \/ TruncateVerification(p)
      PROVE  MeterInv'
  BY <1>5, LoopMeter DEF SkipTerminal, TruncateVerification, Settling, At
<1>6. ASSUME NEW p \in PRs,
             Merge(p) \/ SubmitRevision(p) \/ FailVerification(p) \/ PassVerification(p)
      PROVE  MeterInv'
  <2>1. active' = active /\ phase # "done"
    BY <1>6 DEF Merge, SubmitRevision, FailVerification, PassVerification,
       Verifies, Settling, At
  <2> QED BY <1>6, <2>1, SettleMoves, KeptMeter
<1>7. ASSUME NEW r \in Reviewers,
             \/ ReleaseReviewer(r) \/ KeepReviewing(r) \/ PassOver(r)
             \/ ContinueReview(r) \/ TruncateReview(r)
      PROVE  MeterInv'
  BY <1>7, LoopMeter
     DEF ReleaseReviewer, KeepReviewing, PassOver, ContinueReview,
         TruncateReview, Dispatching, At
<1>8. ASSUME NEW r \in Reviewers, StartReview(r) PROVE MeterInv'
  <2>1. active' = active /\ phase # "done"
    BY <1>8 DEF StartReview, Dispatching, At
  <2>2. Completions' BY <1>8, StartReviewCompletions DEF MeterInv
  <2>3. MeterTyped' BY DEF MeterInv, MeterTyped, MeterType
  <2> QED BY <1>8, <2>1, <2>2, <2>3, StartReviewMoves, StandingMeter
<1> QED BY <1>1, <1>2, <1>3, <1>4, <1>5, <1>6, <1>7, <1>8 DEF Unmetered

LEMMA CompleteReviewMeter ==
  ASSUME IInv, MeterInv, Witness, NEW r \in Reviewers, CompleteReview(r),
         MeterCompletedReview(assigned[r]), UNCHANGED metrics
  PROVE  MeterInv'
<1>1. UNCHANGED <<now, active>> /\ phase # "done"
  BY DEF CompleteReview, At
<1>2. /\ Completions' /\ MeterTyped'
      /\ meter'.queue_area = meter.queue_area
      /\ meter'.service = meter.service
  BY CompleteReviewCompletions DEF MeterInv
<1>3. \A x \in PRs : Moves(x) BY CompleteReviewMoves
<1> QED BY <1>1, <1>2, <1>3, StandingMeter

-----------------------------------------------------------------------------
(* The meter looks on: a measured step is a step of the engine.            *)
LEMMA MeasuredSteps == MeasuredNext => Next
BY DEF MeasuredNext, Unmetered, Next

LEMMA NextMeter ==
  IInv /\ IInv' /\ Agenda /\ MeterInv /\ [MeasuredNext]_measuredVars => MeterInv'
<1> SUFFICES ASSUME IInv, IInv', Agenda, MeterInv, [MeasuredNext]_measuredVars
             PROVE  MeterInv'
  OBVIOUS
<1>1. CASE UNCHANGED measuredVars
  <2>1. /\ UNCHANGED vars /\ UNCHANGED <<now, active, pr, used>>
        /\ UNCHANGED <<meter, metrics, waits, open>>
    BY <1>1 DEF measuredVars, vars
  <2>2. Witness
    <3>1. {q \in Count("queued_for_review") : pr'[q].state # "queued_for_review"} = {}
      BY <2>1 DEF Count
    <3>2. now \in Nat /\ WindowStart \in Nat
      BY InstanceAssumption, WindowAssumption DEF IInv, TypeOK
    <3>3. ~(now < WindowStart /\ now' >= WindowStart) BY <2>1, <3>2
    <3> QED BY <2>1, <3>1, <3>3 DEF Witness
  <2> QED BY <2>1, <2>2, LoopMeter
<1>2. CASE Advance /\ MeterAdvance /\ UNCHANGED metrics /\ Witness
  BY <1>2, AdvanceMeter
<1>3. CASE /\ \E r \in Reviewers : CompleteReview(r) /\ MeterCompletedReview(assigned[r])
           /\ UNCHANGED metrics /\ Witness
  BY <1>3, CompleteReviewMeter
<1>4. CASE Record /\ MeterFinish /\ UNCHANGED meter /\ Witness
  BY <1>4, RecordMeter
<1>5. CASE Unmetered /\ UNCHANGED <<meter, metrics>> /\ Witness
  BY <1>5, UnmeteredMeter
<1> QED BY <1>1, <1>2, <1>3, <1>4, <1>5 DEF MeasuredNext

(* What MeterInv says of the records when the result is returned.          *)
LEMMA MeasuredEnd ==
  ASSUME IInv, Agenda, MeterInv, Measured
  PROVE  /\ metrics = [l \in Levels |-> MetricDictionary(l)]
         /\ now = Horizon /\ Horizon \in Nat /\ WindowStart \in Nat
         /\ WindowStart < Horizon
         /\ open = {p \in Admitted : CarriedIn(p)}
         /\ \A p \in Admitted :
              /\ p \in PRs
              /\ pr[p].state \in {"merged", "closed_without_merge", "unresolved"}
              /\ pr[p].ready_at \in Nat /\ pr[p].last_transition_at \in Nat
              /\ pr[p].last_transition_at <= Horizon
              /\ pr[p].last_transition_at = Horizon <=> pr[p].state = "unresolved"
<1>1. /\ phase = "done" /\ ~truncated
      /\ metrics = [l \in Levels |-> MetricDictionary(l)]
  BY DEF MeterInv, Reported
<1>2. /\ now = Horizon
      /\ \A p \in Admitted : IsTerminal(pr[p])
      /\ \A p \in Admitted :
           pr[p].last_transition_at = Horizon <=> pr[p].state = "unresolved"
  BY <1>1, CompleteAtEnd DEF CompleteResult
<1>3. Horizon \in Nat /\ WindowStart \in Nat /\ WindowStart < Horizon
  BY InstanceAssumption, WindowAssumption
<1>4. open = {p \in Admitted : CarriedIn(p)}
  BY <1>2, <1>3 DEF MeterInv, Opened
<1>5. ASSUME NEW p \in Admitted
      PROVE  /\ p \in PRs
             /\ pr[p].state \in {"merged", "closed_without_merge", "unresolved"}
             /\ pr[p].ready_at \in Nat /\ pr[p].last_transition_at \in Nat
             /\ pr[p].last_transition_at <= Horizon
  <2>1. p \in PRs /\ pr[p].state # "ready" BY DEF Admitted
  <2>2. pr[p].state \in {"merged", "closed_without_merge", "unresolved"}
    BY <1>2 DEF IsTerminal, Terminal
  <2> QED BY <1>2, <2>1, <2>2, RecordFacts
<1> QED BY <1>1, <1>2, <1>3, <1>4, <1>5

(* The populations of a level are finite.                                  *)
LEMMA FinitePopulation ==
  ASSUME NEW S \in SUBSET PRs
  PROVE  IsFiniteSet(S) /\ Cardinality(S) \in Nat
BY PopulationAssumption, FS_Subset, FS_CardinalityType

LEMMA FlowAtEnd ==
  ASSUME IInv, Agenda, MeterInv PROVE FlowConserved
<1> SUFFICES ASSUME Measured, NEW l \in Levels
             PROVE
      /\ metrics[l].wip_start = IF l = "all_work" THEN Cardinality(open) ELSE 0
      /\ metrics[l].wip_end = Cardinality(StillOpen(l))
      /\ metrics[l].wip_end = metrics[l].wip_start + metrics[l].arrivals
                                - metrics[l].merges - metrics[l].abandonments
      /\ metrics[l].unreviewed_merges
           <= Cardinality({p \in Count("merged") : pr[p].review_bypassed})
  BY DEF FlowConserved
<1> DEFINE Sel == Selected(l)
           Carried == {p \in Selected(l) : pr[p].ready_at < WindowStart}
           Arrived == {p \in Selected(l) : pr[p].ready_at >= WindowStart}
           M == MergedIn(l)
           A == AbandonedIn(l)
           S == StillOpen(l)
           U == {p \in MergedIn(l) : pr[p].first_review_at = None}
           B == {p \in Count("merged") : pr[p].review_bypassed}
<1>1. /\ metrics[l].wip_start = Cardinality(Carried)
      /\ metrics[l].arrivals = Cardinality(Arrived)
      /\ metrics[l].merges = Cardinality(M)
      /\ metrics[l].abandonments = Cardinality(A)
      /\ metrics[l].wip_end = Cardinality(Sel) - Cardinality(M) - Cardinality(A)
      /\ metrics[l].unreviewed_merges = Cardinality(U)
  <2>1. metrics[l] = MetricDictionary(l) BY MeasuredEnd
  <2> QED BY <2>1 DEF MetricDictionary
<1>2. /\ Horizon \in Nat /\ WindowStart \in Nat /\ WindowStart < Horizon
      /\ open = {p \in Admitted : CarriedIn(p)}
      /\ \A p \in Admitted :
           /\ p \in PRs
           /\ pr[p].state \in {"merged", "closed_without_merge", "unresolved"}
           /\ pr[p].ready_at \in Nat /\ pr[p].last_transition_at \in Nat
           /\ pr[p].last_transition_at <= Horizon
           /\ pr[p].last_transition_at = Horizon <=> pr[p].state = "unresolved"
  BY MeasuredEnd
<1>3. ASSUME NEW p \in Admitted
      PROVE  /\ p \in Sel <=>
                  AtLevel(l, p) /\ pr[p].last_transition_at >= WindowStart
             /\ p \in Carried <=> p \in Sel /\ pr[p].ready_at < WindowStart
             /\ p \in Arrived <=> p \in Sel /\ ~(pr[p].ready_at < WindowStart)
             /\ p \in M <=> p \in Sel /\ pr[p].state = "merged"
             /\ p \in A <=> p \in Sel /\ pr[p].state = "closed_without_merge"
             /\ p \in S <=> p \in Sel /\ pr[p].state = "unresolved"
  <2>1. /\ p \in PRs
        /\ pr[p].ready_at \in Nat /\ pr[p].last_transition_at \in Nat
        /\ pr[p].last_transition_at <= Horizon
        /\ pr[p].last_transition_at = Horizon <=> pr[p].state = "unresolved"
    BY <1>2
  <2>2. p \in Sel <=>
          AtLevel(l, p) /\ (pr[p].state = "unresolved"
                            \/ pr[p].last_transition_at >= WindowStart)
    BY DEF Selected, TerminalAt
  <2>3. p \in Sel <=> AtLevel(l, p) /\ pr[p].last_transition_at >= WindowStart
    BY <1>2, <2>1, <2>2
  <2>4. /\ p \in M <=> p \in Sel /\ pr[p].state = "merged" /\ InWindow(p)
        /\ p \in A <=> p \in Sel /\ pr[p].state = "closed_without_merge" /\ InWindow(p)
        /\ p \in S <=> AtLevel(l, p) /\ pr[p].state = "unresolved"
    BY <2>1 DEF MergedIn, AbandonedIn, StillOpen, Count
  <2>5. p \in Sel /\ pr[p].state # "unresolved" => InWindow(p)
    BY <1>2, <2>1, <2>3 DEF InWindow, TerminalAt
  <2>6. /\ p \in Carried <=> p \in Sel /\ pr[p].ready_at < WindowStart
        /\ p \in Arrived <=> p \in Sel /\ ~(pr[p].ready_at < WindowStart)
    BY <1>2, <2>1
  <2> HIDE DEF Sel, Carried, Arrived, M, A, S
  <2> QED BY <1>2, <2>1, <2>2, <2>3, <2>4, <2>5, <2>6
<1>4. /\ Sel \subseteq Admitted /\ M \subseteq Admitted /\ A \subseteq Admitted
      /\ S \subseteq Admitted /\ Carried \subseteq Admitted
      /\ Arrived \subseteq Admitted /\ Admitted \subseteq PRs
      /\ U \subseteq PRs /\ B \subseteq PRs
  BY DEF Selected, MergedIn, AbandonedIn, StillOpen, Admitted, Count
<1>5. Cardinality(Carried) = IF l = "all_work" THEN Cardinality(open) ELSE 0
  <2>1. CASE l = "all_work"
    <3>1. \A p \in Admitted : p \in Carried <=> CarriedIn(p)
      <4> SUFFICES ASSUME NEW p \in Admitted PROVE p \in Carried <=> CarriedIn(p)
        OBVIOUS
      <4>1. AtLevel(l, p) BY <2>1 DEF AtLevel
      <4>2. IsTerminal(pr[p]) BY <1>2 DEF IsTerminal, Terminal
      <4> HIDE DEF Carried, Sel
      <4> QED BY <1>3, <4>1, <4>2 DEF CarriedIn
    <3>2. Carried = open
      <4> HIDE DEF Carried
      <4> QED BY <1>2, <1>4, <3>1
    <3> QED BY <2>1, <3>2
  <2>2. CASE l # "all_work"
    <3>1. Carried = {}
      <4> SUFFICES ASSUME NEW p \in Carried PROVE FALSE OBVIOUS
      <4>1. /\ p \in Admitted /\ pr[p].ready_at >= WindowStart
            /\ pr[p].ready_at < WindowStart
        BY <2>2 DEF Selected, AtLevel
      <4> QED BY <1>2, <4>1
    <3> QED BY <2>2, <3>1, FS_EmptySet
  <2> QED BY <2>1, <2>2
<1>6. \A p \in U : p \in B
  <2> SUFFICES ASSUME NEW p \in U PROVE p \in B OBVIOUS
  <2>1. p \in PRs /\ pr[p].state = "merged" /\ pr[p].first_review_at = None
    BY DEF MergedIn, Count
  <2>2. /\ pr[p].review_visit_count = 0
        /\ ~pr[p].review_bypassed => pr[p].review_visit_count >= 1
    BY <2>1 DEF Agenda, Records, Earned, QueueOrder
  <2>3. pr[p].review_bypassed BY <2>2
  <2> QED BY <2>1, <2>3 DEF Count
<1> HIDE DEF Sel, Carried, Arrived, M, A, S, U, B
<1>7. /\ IsFiniteSet(Sel) /\ IsFiniteSet(Carried) /\ IsFiniteSet(Arrived)
      /\ IsFiniteSet(M) /\ IsFiniteSet(A) /\ IsFiniteSet(S)
      /\ IsFiniteSet(U) /\ IsFiniteSet(B)
      /\ Cardinality(Sel) \in Nat /\ Cardinality(Carried) \in Nat
      /\ Cardinality(Arrived) \in Nat
      /\ Cardinality(M) \in Nat /\ Cardinality(A) \in Nat /\ Cardinality(S) \in Nat
  BY <1>4, FinitePopulation
<1>8. Cardinality(Sel) = Cardinality(Carried) + Cardinality(Arrived)
  <2>1. Sel = Carried \cup Arrived /\ Carried \cap Arrived = {}
    BY <1>3, <1>4
  <2> QED BY <1>7, <2>1, DisjointSum
<1>9. Cardinality(Sel) = Cardinality(M) + Cardinality(A) + Cardinality(S)
  <2>1. Sel = (M \cup A) \cup S /\ M \cap A = {} /\ (M \cup A) \cap S = {}
    BY <1>2, <1>3, <1>4
  <2>2. IsFiniteSet(M \cup A)
        /\ Cardinality(M \cup A) = Cardinality(M) + Cardinality(A)
    BY <1>7, <2>1, DisjointSum
  <2> QED BY <1>7, <2>1, <2>2, DisjointSum
<1>10. Cardinality(U) <= Cardinality(B)
  <2>1. U \in SUBSET B BY <1>6
  <2> QED BY <1>7, <2>1, FS_Subset
<1>11. /\ Cardinality(Sel) - Cardinality(M) - Cardinality(A) = Cardinality(S)
       /\ Cardinality(Sel) - Cardinality(M) - Cardinality(A)
            = Cardinality(Carried) + Cardinality(Arrived)
                - Cardinality(M) - Cardinality(A)
  BY <1>7, <1>8, <1>9
<1> QED BY <1>1, <1>5, <1>10, <1>11 DEF S, B

LEMMA IntegralsAtEnd ==
  ASSUME IInv, Agenda, MeterInv PROVE IntegralsTrue
<1> SUFFICES ASSUME Measured
             PROVE
      /\ \A l \in Levels :
           /\ meter.queue_area[l] = Waited(l)
           /\ meter.queue_peak[l] > 0 <=> meter.queue_area[l] > 0
           /\ metrics[l].reviewed >= metrics[l].merged - metrics[l].unreviewed_merges
      /\ meter.service["all_work"] <= DutyInWindow
      /\ meter.service["all_work"] <= Cardinality(Given)
      /\ \A p \in PRs : meter.first_completed[p] # None =>
           /\ pr[p].first_review_at # None
           /\ meter.first_completed[p] >= pr[p].first_review_at + Service[p]
  BY DEF IntegralsTrue
<1>1. /\ metrics = [l \in Levels |-> MetricDictionary(l)]
      /\ now = Horizon /\ Horizon \in Nat /\ WindowStart \in Nat
      /\ WindowStart < Horizon
      /\ \A p \in Admitted :
           /\ p \in PRs
           /\ pr[p].state \in {"merged", "closed_without_merge", "unresolved"}
           /\ pr[p].ready_at \in Nat /\ pr[p].last_transition_at \in Nat
           /\ pr[p].last_transition_at <= Horizon
           /\ pr[p].last_transition_at = Horizon <=> pr[p].state = "unresolved"
  BY MeasuredEnd
<1>2. \A t \in WindowSeconds : t < Horizon
  <2> DEFINE h == Horizon - 1
  <2>1. h \in Int /\ \A t \in Int : t <= h => t < Horizon BY <1>1
  <2> HIDE DEF h
  <2>2. \A t \in WindowSeconds : t \in Int /\ t <= h
    BY <1>1, <2>1 DEF WindowSeconds, h
  <2> QED BY <2>1, <2>2
<1>3. ASSUME NEW l \in Levels PROVE meter.queue_area[l] = Waited(l)
  <2>1. \A p \in PRs : pr[p].state # "queued_for_review" BY <1>1 DEF Admitted
  <2>2. QueueSeconds(l) =
          {e \in PRs \X WindowSeconds :
             /\ AtLevel(l, e[1])
             /\ \E w \in waits : w[1] = e[1] /\ w[2] <= e[2] /\ e[2] < w[3]}
    BY <2>1 DEF QueueSeconds, WaitedAt
  <2> QED BY <2>2 DEF Waited, MeterInv, Integrals
<1>4. DutyInWindow = Cardinality(DutySoFar)
  <2>1. DutySoFar = {e \in Reviewers \X WindowSeconds : OnDuty(e[1], e[2])}
    BY <1>1, <1>2 DEF DutySoFar
  <2> QED BY <2>1 DEF DutyInWindow
<1>5. ASSUME NEW p \in PRs, meter.first_completed[p] # None
      PROVE  /\ pr[p].first_review_at # None
             /\ meter.first_completed[p] >= pr[p].first_review_at + Service[p]
  BY <1>5, ReviewFacts DEF MeterInv, Completions
<1>6. ASSUME NEW l \in Levels
      PROVE  metrics[l].reviewed >= metrics[l].merged - metrics[l].unreviewed_merges
  <2> DEFINE R == Reviewed(l)
             E == {p \in Eligible(l) \cap Count("merged") :
                     TerminalAt(p) <= pr[p].ready_at + FixedHorizon}
             U == {p \in MergedIn(l) : pr[p].first_review_at = None}
  <2>1. /\ metrics[l].reviewed = Cardinality(R)
        /\ metrics[l].merged = Cardinality(E)
        /\ metrics[l].unreviewed_merges = Cardinality(U)
    <3>1. metrics[l] = MetricDictionary(l) BY <1>1
    <3> QED BY <3>1 DEF MetricDictionary
  <2>2. R \in SUBSET PRs /\ E \in SUBSET PRs /\ U \in SUBSET PRs
    BY DEF Reviewed, Eligible, Selected, MergedIn, Admitted, Count
  <2>3. ASSUME NEW p \in E PROVE p \in R \cup U
    <3>1. /\ p \in Eligible(l) /\ p \in Selected(l) /\ p \in Admitted
          /\ p \in Count("merged") /\ p \in PRs /\ pr[p].state = "merged"
          /\ pr[p].last_transition_at <= pr[p].ready_at + FixedHorizon
      BY DEF Eligible, Selected, Count, TerminalAt, Admitted
    <3>2. CASE pr[p].first_review_at = None
      <4>1. pr[p].last_transition_at >= WindowStart
        BY <3>1 DEF Selected, TerminalAt
      <4>2. pr[p].last_transition_at < Horizon BY <1>1, <3>1
      <4>3. p \in MergedIn(l) BY <3>1, <4>1, <4>2 DEF MergedIn, InWindow, TerminalAt
      <4> QED BY <3>2, <4>3
    <3>3. CASE pr[p].first_review_at # None
      <4>1. /\ meter.first_completed[p] = pr[p].first_review_completed_at
            /\ pr[p].first_review_completed_at # None
        BY <3>1, <3>3 DEF MeterInv, Completions
      <4>2. /\ pr[p].first_review_completed_at \in Nat
            /\ pr[p].first_review_completed_at <= pr[p].last_transition_at
            /\ pr[p].last_transition_at \in Nat
        BY <3>1, <4>1, ReviewFacts
      <4>3. pr[p].ready_at \in Nat /\ FixedHorizon \in Nat
        BY <1>1, <3>1, WindowAssumption
      <4>4. pr[p].first_review_completed_at <= pr[p].ready_at + FixedHorizon
        BY <3>1, <4>2, <4>3
      <4> QED BY <3>1, <4>1, <4>4 DEF Reviewed
    <3> QED BY <3>2, <3>3
  <2> HIDE DEF R, E, U
  <2>4. /\ IsFiniteSet(R) /\ IsFiniteSet(E) /\ IsFiniteSet(U)
        /\ Cardinality(R) \in Nat /\ Cardinality(E) \in Nat /\ Cardinality(U) \in Nat
    BY <2>2, FinitePopulation
  <2>5. Cardinality(E) <= Cardinality(R \cup U) /\ IsFiniteSet(R \cup U)
    <3>1. E \in SUBSET (R \cup U) BY <2>3
    <3>2. IsFiniteSet(R \cup U) BY <2>4, FS_Union
    <3> QED BY <3>1, <3>2, FS_Subset
  <2>6. Cardinality(R \cup U) = Cardinality(R) + Cardinality(U) - Cardinality(R \cap U)
    BY <2>4, FS_Union
  <2>7. Cardinality(R \cap U) \in Nat
    <3>1. R \cap U \in SUBSET PRs BY <2>2
    <3> QED BY <3>1, FinitePopulation
  <2> DEFINE a == Cardinality(R \cup U)
             b == Cardinality(R \cap U)
             x == Cardinality(R)
             y == Cardinality(E)
             z == Cardinality(U)
  <2>8. y <= a /\ a = x + z - b /\ b \in Nat /\ x \in Nat /\ y \in Nat /\ z \in Nat
    BY <2>4, <2>5, <2>6, <2>7
  <2>9. metrics[l].reviewed = x /\ metrics[l].merged = y
        /\ metrics[l].unreviewed_merges = z
    BY <2>1
  <2> HIDE DEF a, b, x, y, z
  <2>10. x >= y - z BY <2>8
  <2> QED BY <2>9, <2>10
<1> QED BY <1>3, <1>4, <1>5, <1>6 DEF MeterInv, MeterTyped, MeterType, Integrals

-----------------------------------------------------------------------------
(* The meter only looks on: a metered run is a run of the engine, and what *)
(* is proved of the engine holds of it.                                    *)
THEOREM MeteredRunsAreRuns == MeasuredSpec => Init /\ [][Next]_vars
<1>1. MeasuredInit => Init BY DEF MeasuredInit
<1>2. [MeasuredNext]_measuredVars => [Next]_vars
  BY MeasuredSteps DEF measuredVars
<1> QED BY <1>1, <1>2, PTL DEF MeasuredSpec

(* What the meter knows is true of every metered run.                      *)
THEOREM MeterInductive == MeasuredSpec => [](IInv /\ Agenda /\ MeterInv)
<1>1. MeasuredInit => IInv /\ Agenda /\ MeterInv
  BY InitIInv, InitAgenda, InitMeter DEF MeasuredInit
<1>2. [MeasuredNext]_measuredVars => [Next]_vars
  BY MeasuredSteps DEF measuredVars
<1>3. IInv /\ Agenda /\ MeterInv /\ [MeasuredNext]_measuredVars
        => (IInv /\ Agenda /\ MeterInv)'
  BY <1>2, NextIInv, NextAgenda, NextMeter
<1> QED BY <1>1, <1>3, PTL DEF MeasuredSpec

(* Flow is conserved over the window, for any population, roster and       *)
(* window: what was open at its start and what arrived in it are merged,   *)
(* abandoned or open at its end.                                           *)
THEOREM FlowIsConserved == MeasuredSpec => []FlowConserved
<1>1. IInv /\ Agenda /\ MeterInv => FlowConserved BY FlowAtEnd
<1> QED BY <1>1, MeterInductive, PTL

(* The integrals the metrics divide are the seconds of the run: those      *)
(* waited in the queue, and no more service than duty allows.              *)
THEOREM IntegralsAreTrue == MeasuredSpec => []IntegralsTrue
<1>1. IInv /\ Agenda /\ MeterInv => IntegralsTrue BY IntegralsAtEnd
<1> QED BY <1>1, MeterInductive, PTL

(* The time a proposal waited and was reviewed is accounted to the second, *)
(* for any proposals, team, duty and delays: no visit to the queue is      *)
(* counted twice or left open, and no service is lost.                     *)
THEOREM AccountsAreExact == MeasuredSpec => []AccountsExact
<1>1. MeasuredInit => Init BY DEF MeasuredInit
<1>2. [MeasuredNext]_measuredVars => [Next]_vars
  BY MeasuredSteps DEF measuredVars
<1>3. MeasuredInit => Services BY <1>1, InitServices
<1>4. IInv /\ Agenda /\ MeterInv /\ Services /\ [MeasuredNext]_measuredVars
        => Services'
  BY <1>2, NextServices
<1>5. MeterInv /\ Services => AccountsExact
  BY DEF MeterInv, Waits, Accounted, Services, Serviced, AccountsExact, Admitted
<1> QED BY <1>3, <1>4, <1>5, MeterInductive, PTL DEF MeasuredSpec
=============================================================================
