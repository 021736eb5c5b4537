----------------------------- MODULE CollectProofs -----------------------------
(***************************************************************************)
(* CollectWorkflow implements DatasetStore and stores only whole or marked *)
(* extractions, for any number of calls and any failures, interruptions    *)
(* and kills, and any pull requests, workspaces and identities.            *)
(***************************************************************************)
EXTENDS CollectWorkflow, TLAPS

Ids == 1 .. MaxCalls

Saving == {"begin", "delete", "manifest", "rows", "statuses", "commit"}

Locals == {"resume", "workspace", "id", "identity", "marker", "pulls", "statuses",
           "discard"}

Fields == {"identity", "key", "saved", "pulls", "statuses"}

(* An extraction on its way into the database, or in it.                   *)
Identified(e) == e.identity = p.identity /\ e.key = p.workspace

Typed ==
  /\ calls \in 0 .. MaxCalls
  /\ phase \in {"idle", "key", "secret", "connect", "migrate", "leave", "close"}
                 \cup Inside
  /\ db.file \in {"absent", "blank", "ready"}

(* The extraction in the database, if there is one.                        *)
Sane ==
  db.file = "ready" =>
    /\ db.key \in Workspaces
    /\ DOMAIN db.stored \subseteq Ids
    /\ \A i, j \in DOMAIN db.stored : i = j
    /\ \A i \in DOMAIN db.stored : /\ db.stored[i].identity \in Identities
                                   /\ db.stored[i].key = db.key
                                   /\ Whole(db.stored[i])

(* A call that reached the store works for its workspace and, once it has  *)
(* identified the extraction, for that extraction alone.                   *)
Bound ==
  /\ phase # "idle" =>
       DOMAIN p = Locals /\ p.workspace \in Workspaces /\ calls \in Ids
  /\ phase \in {"key", "secret", "connect", "migrate", "identify"} => p.pulls = {}
  /\ phase = "migrate" => db.file # "absent"
  /\ phase \in Inside => db.file = "ready" /\ db.key = p.workspace
  /\ phase \in Inside \ {"identify"} =>
       /\ p.id \in Ids /\ p.identity \in Identities
       /\ \A i \in DOMAIN db.stored : i = p.id /\ Identified(db.stored[i])
  /\ phase \in {"pulls", "children", "export"} => p.id \in DOMAIN db.stored
  /\ phase = "children" => ~p.marker
  /\ phase \in Saving =>
       IF p.marker THEN DOMAIN db.stored = {} /\ ~Sound(p.statuses)
                   ELSE p.id \in DOMAIN db.stored
  /\ phase = "close" /\ p.discard => DOMAIN Stored = {}

(* What was collected is whole before it is saved.                         *)
Gathered ==
  /\ phase \in Saving => Whole(p)
  /\ phase = "children" =>
       /\ HasStatus(p.statuses, "pull_requests", 0)
       /\ \A s \in p.statuses : s[2] \in p.pulls \cup {0}
       /\ \A pr \in Visited, kind \in ChildKinds : HasStatus(p.statuses, kind, pr)

(* What the open transaction has written so far.                           *)
Written ==
  /\ phase = "delete" => DOMAIN tx = DOMAIN db.stored
  /\ phase = "manifest" => DOMAIN tx = {}
  /\ phase \in {"rows", "statuses", "commit"} =>
       DOMAIN tx = {p.id} /\ DOMAIN tx[p.id] = Fields /\ Identified(tx[p.id])
  /\ phase \in {"statuses", "commit"} => tx[p.id].pulls = p.pulls
  /\ phase = "commit" => tx[p.id].statuses = p.statuses

DInv == Typed /\ Sane /\ Bound /\ Gathered /\ Written

-----------------------------------------------------------------------------
(* Nothing but the phase, the exit code and the flag of the finally block  *)
(* changes on the way out of a call.                                       *)
LEMMA WayOut ==
  ASSUME DInv, phase # "idle", UNCHANGED <<db, calls>>,
         \/ phase' = "idle"
         \/ phase' = "leave" /\ UNCHANGED p
  PROVE  DInv'
<1>1. Typed' BY DEF DInv, Typed
<1>2. Sane' BY DEF DInv, Sane, Whole, HasStatus, Ids
<1>3. Bound' BY DEF DInv, Bound, Inside, Saving
<1>4. Gathered' /\ Written' BY DEF Gathered, Written, Saving
<1> QED BY <1>1, <1>2, <1>3, <1>4 DEF DInv

(* Nothing is stored and no call runs at first.                             *)
LEMMA InitDInv == Init => DInv
<1> SUFFICES ASSUME Init PROVE DInv OBVIOUS
<1>1. phase = "idle" /\ db.file = "absent" /\ calls = 0
  BY DEF Init, NoFile
<1> QED
  BY <1>1, CollectAssumption
     DEF DInv, Typed, Sane, Bound, Gathered, Written, Inside, Saving

(* Before the store is open.                                               *)
LEMMA BeforeStore ==
  ASSUME DInv,
         \/ \E resume \in BOOLEAN, w \in Workspaces : Call(resume, w)
         \/ OpenWorkspace \/ WriteKey \/ Connect \/ Migrate
  PROVE  DInv'
<1>1. ASSUME NEW resume \in BOOLEAN, NEW w \in Workspaces, Call(resume, w)
      PROVE  DInv'
  <2>1. /\ calls' \in Ids /\ UNCHANGED db
        /\ \/ phase' = "idle"
           \/ phase' = "key" /\ p' = Fresh(resume, w)
    BY <1>1, CollectAssumption DEF Call, Exit, GoOnWith, DInv, Typed, Ids
  <2>2. phase' = "key" => DOMAIN p' = Locals /\ p'.workspace = w /\ p'.pulls = {}
    BY <2>1 DEF Fresh, Locals
  <2>3. Typed' BY <2>1 DEF DInv, Typed, Ids
  <2>4. Sane' BY <2>1 DEF DInv, Sane, Whole, HasStatus, Ids
  <2>5. Bound' BY <1>1, <2>1, <2>2 DEF Bound, Inside, Saving
  <2>6. Gathered' /\ Written' BY <2>1 DEF Gathered, Written, Saving
  <2> QED BY <2>3, <2>4, <2>5, <2>6 DEF DInv
<1>2. ASSUME OpenWorkspace \/ WriteKey PROVE DInv'
  <2>1. /\ phase \in {"key", "secret"} /\ UNCHANGED <<db, calls>>
        /\ \/ phase' = "idle"
           \/ phase' \in {"secret", "connect"} /\ UNCHANGED p
    <3>1. CASE WriteKey BY <3>1 DEF WriteKey, GoOn
    <3>2. CASE OpenWorkspace
      <4>1. phase = "key" /\ UNCHANGED <<db, calls>> BY <3>2 DEF OpenWorkspace
      <4>2. \/ GoOn("connect") \/ Exit("invalid") \/ GoOn("secret")
        BY <3>2 DEF OpenWorkspace
      <4> QED BY <4>1, <4>2 DEF GoOn, Exit
    <3> QED BY <1>2, <3>1, <3>2
  <2>2. CASE phase' = "idle" BY <2>1, <2>2, WayOut
  <2>3. CASE phase' \in {"secret", "connect"} /\ UNCHANGED p
    <3>1. Typed' BY <2>1, <2>3 DEF DInv, Typed
    <3>2. Sane' BY <2>1 DEF DInv, Sane, Whole, HasStatus, Ids
    <3>3. Bound' BY <2>1, <2>3 DEF DInv, Bound, Inside, Saving
    <3>4. Gathered' /\ Written' BY <2>3 DEF Gathered, Written, Saving
    <3> QED BY <3>1, <3>2, <3>3, <3>4 DEF DInv
  <2> QED BY <2>1, <2>2, <2>3
<1>3. ASSUME Connect PROVE DInv'
  <2>1. phase = "connect" /\ UNCHANGED calls BY <1>3 DEF Connect
  <2>2. CASE \E c \in {"invalid", "source"} : Exit(c) /\ UNCHANGED db
    BY <2>1, <2>2, WayOut DEF Exit
  <2>3. CASE GoOn("migrate") /\ db' = IF db.file = "absent" THEN Blank ELSE db
    <3>1. /\ phase' = "migrate" /\ p' = p /\ db'.file # "absent"
          /\ db' = db \/ db'.file = "blank"
      BY <2>3 DEF GoOn, Blank
    <3>2. Typed' BY <2>1, <3>1 DEF DInv, Typed
    <3>3. Sane' BY <3>1 DEF DInv, Sane, Whole, HasStatus, Ids
    <3>4. Bound' BY <2>1, <3>1 DEF DInv, Bound, Inside, Saving
    <3>5. Gathered' /\ Written' BY <3>1 DEF Gathered, Written, Saving
    <3> QED BY <3>2, <3>3, <3>4, <3>5 DEF DInv
  <2> QED BY <1>3, <2>2, <2>3 DEF Connect
<1>4. ASSUME Migrate PROVE DInv'
  <2>1. phase = "migrate" /\ UNCHANGED calls /\ p.workspace \in Workspaces
    BY <1>4 DEF Migrate, DInv, Bound
  <2>2. CASE ~Opens BY <1>4, <2>1, <2>2, WayOut DEF Migrate, Exit
  <2>3. CASE Opens /\ db.file = "blank"
    <3>1. /\ phase' = "identify" /\ p' = p /\ db'.file = "ready"
          /\ db'.key = p.workspace /\ DOMAIN db'.stored = {}
      BY <1>4, <2>3 DEF Migrate, GoOn, Ready, Empty
    <3>2. Typed' BY <2>1, <3>1 DEF DInv, Typed, Inside
    <3>3. Sane' BY <2>1, <3>1 DEF Sane
    <3>4. Bound' BY <2>1, <3>1 DEF DInv, Bound, Inside, Saving
    <3>5. Gathered' /\ Written' BY <3>1 DEF Gathered, Written, Saving
    <3> QED BY <3>2, <3>3, <3>4, <3>5 DEF DInv
  <2>4. CASE Opens /\ db.file # "blank"
    <3>1. phase' = "identify" /\ p' = p /\ db' = db /\ db.key = p.workspace
      BY <1>4, <2>4 DEF Migrate, GoOn, Opens
    <3>2. db.file = "ready" BY <2>1, <2>4 DEF DInv, Typed, Bound
    <3>3. Typed' BY <2>1, <3>1 DEF DInv, Typed, Inside
    <3>4. Sane' BY <3>1 DEF DInv, Sane, Whole, HasStatus, Ids
    <3>5. Bound' BY <2>1, <3>1, <3>2 DEF DInv, Bound, Inside, Saving
    <3>6. Gathered' /\ Written' BY <3>1 DEF Gathered, Written, Saving
    <3> QED BY <3>3, <3>4, <3>5, <3>6 DEF DInv
  <2> QED BY <2>2, <2>3, <2>4
<1> QED BY <1>1, <1>2, <1>3, <1>4

-----------------------------------------------------------------------------
(* The marker of a fresh extraction is whole as it is, and incomplete.     *)
LEMMA MarkerIsWhole ==
  ASSUME NEW e, e.statuses = MarkerStatuses, e.pulls = {}
  PROVE  Whole(e) /\ ~Sound(e.statuses)
<1>1. e.statuses = {<<"pull_requests", 0, "partial">>} BY DEF MarkerStatuses
<1> QED BY <1>1 DEF Whole, HasStatus, Sound

(* Finding out which extraction the call is about.                         *)
LEMMA Identifying ==
  ASSUME DInv, Unidentified \/ Begin \/ Resume
  PROVE  DInv'
<1>1. /\ phase = "identify" /\ UNCHANGED <<db, calls>> /\ db.file = "ready"
      /\ db.key = p.workspace /\ p.workspace \in Workspaces /\ calls \in Ids
      /\ DOMAIN p = Locals /\ p.pulls = {}
  BY DEF Unidentified, Begin, Resume, DInv, Bound, Inside
<1>2. CASE phase' = "leave" /\ UNCHANGED p BY <1>1, <1>2, WayOut
<1>3. Sane' BY <1>1 DEF DInv, Sane, Whole, HasStatus, Ids
<1>4. ASSUME NEW identity \in Identities, DOMAIN Stored = {},
             GoOnWith("begin", [p EXCEPT !.id = calls, !.identity = identity,
                                         !.marker = TRUE, !.statuses = MarkerStatuses])
      PROVE  DInv'
  <2>1. phase' = "begin" BY <1>4 DEF GoOnWith
  <2>2. /\ DOMAIN p' = Locals /\ p'.id = calls /\ p'.identity = identity /\ p'.marker
        /\ p'.statuses = MarkerStatuses /\ p'.workspace = p.workspace
        /\ p'.pulls = {}
    BY <1>1, <1>4 DEF GoOnWith, Locals
  <2>3. DOMAIN db.stored = {} BY <1>1, <1>4 DEF Stored
  <2>4. Whole(p') /\ ~Sound(p'.statuses) BY <2>2, MarkerIsWhole
  <2>5. Typed' BY <1>1, <2>1 DEF DInv, Typed, Inside
  <2>6. Bound' BY <1>1, <1>4, <2>1, <2>2, <2>3, <2>4 DEF Bound, Inside, Saving, Sound
  <2>7. Gathered' BY <2>1, <2>4 DEF Gathered, Saving, Whole
  <2>8. Written' BY <2>1 DEF Written
  <2> QED BY <1>3, <2>5, <2>6, <2>7, <2>8 DEF DInv
<1>5. ASSUME NEW identity \in Identities, NEW i \in DOMAIN Stored,
             Resumable(i, identity),
             GoOnWith("pulls", [p EXCEPT !.id = i, !.identity = identity])
      PROVE  DInv'
  <2>1. phase' = "pulls" BY <1>5 DEF GoOnWith
  <2>2. /\ DOMAIN p' = Locals /\ p'.id = i /\ p'.identity = identity
        /\ p'.workspace = p.workspace
    BY <1>1, <1>5 DEF GoOnWith, Locals
  <2>3. DOMAIN db.stored = {i} /\ db.stored[i].identity = identity /\ i \in Ids
        /\ db.stored[i].key = p.workspace
    BY <1>1, <1>5 DEF Stored, Resumable, DInv, Sane
  <2>4. Typed' BY <1>1, <2>1 DEF DInv, Typed, Inside
  <2>5. Bound'
    BY <1>1, <1>5, <2>1, <2>2, <2>3 DEF Bound, Inside, Saving, Identified
  <2>6. Gathered' /\ Written' BY <2>1 DEF Gathered, Written, Saving
  <2> QED BY <1>3, <2>4, <2>5, <2>6 DEF DInv
<1> QED
  BY <1>2, <1>4, <1>5 DEF Unidentified, Begin, Resume, Leave

-----------------------------------------------------------------------------
(* Reading the repository.                                                 *)
LEMMA Reading ==
  ASSUME DInv, CollectPulls \/ CollectChildren \/ Collected
  PROVE  DInv'
<1>1. /\ phase \in {"pulls", "children"} /\ UNCHANGED <<db, calls>>
      /\ DOMAIN p = Locals /\ db.file = "ready" /\ db.key = p.workspace
      /\ p.workspace \in Workspaces /\ calls \in Ids /\ p.id \in Ids
      /\ p.identity \in Identities /\ p.id \in DOMAIN db.stored
      /\ \A i \in DOMAIN db.stored : i = p.id /\ Identified(db.stored[i])
  BY DEF CollectPulls, CollectChildren, Collected, DInv, Bound, Inside
<1>2. Sane' BY <1>1 DEF DInv, Sane, Whole, HasStatus, Ids
<1>3. ASSUME phase' \in {"children", "begin"}, DOMAIN p' = Locals,
             p'.id = p.id, p'.identity = p.identity, p'.workspace = p.workspace,
             ~p'.marker, phase' = "begin" => Whole(p'), Gathered'
      PROVE  DInv'
  <2>1. Typed' BY <1>1, <1>3 DEF DInv, Typed, Inside
  <2>2. Bound' BY <1>1, <1>3 DEF Bound, Inside, Saving, Identified
  <2>3. Written' BY <1>3 DEF Written
  <2> QED BY <1>2, <1>3, <2>1, <2>2, <2>3 DEF DInv
<1>4. CASE CollectPulls
  <2>1. PICK found \in SUBSET Pulls, status \in {"complete", "partial", "unavailable"} :
          GoOnWith("children",
                   [p EXCEPT !.pulls = found, !.marker = FALSE,
                             !.statuses = {<<"pull_requests", 0, status>>}])
    BY <1>4 DEF CollectPulls, BatchStatus
  <2>2. /\ DOMAIN p' = Locals /\ p'.pulls = found /\ ~p'.marker
        /\ p'.statuses = {<<"pull_requests", 0, status>>}
        /\ p'.workspace = p.workspace /\ p'.id = p.id /\ p'.identity = p.identity
    BY <1>1, <2>1 DEF GoOnWith, Locals
  <2>3. phase' = "children" BY <2>1 DEF GoOnWith
  <2>4. Gathered'
    <3>1. Visited' = {}
      BY <2>2 DEF Visited, HasStatus
    <3> QED BY <2>2, <2>3, <3>1 DEF Gathered, Saving, HasStatus
  <2> QED BY <1>3, <2>2, <2>3, <2>4
<1>5. CASE CollectChildren
  <2>1. PICK pr \in p.pulls \ Visited, reviews, events \in Outcomes :
          GoOnWith("children",
                   [p EXCEPT !.statuses = @ \cup
                      {<<"reviews", pr, reviews>>, <<"lifecycle_events", pr, events>>,
                       <<"derived_features", pr, "complete">>,
                       <<"ci_observations", pr, "not_requested">>}])
    BY <1>5 DEF CollectChildren
  <2> DEFINE new == {<<"reviews", pr, reviews>>, <<"lifecycle_events", pr, events>>,
                     <<"derived_features", pr, "complete">>,
                     <<"ci_observations", pr, "not_requested">>}
  <2>2. /\ DOMAIN p' = Locals /\ p'.pulls = p.pulls
        /\ p'.statuses = p.statuses \cup new
        /\ p'.workspace = p.workspace /\ p'.id = p.id /\ p'.identity = p.identity
        /\ p'.marker = p.marker
    BY <1>1, <2>1 DEF GoOnWith, Locals
  <2>3. phase' = "children" /\ phase = "children" /\ ~p.marker
    BY <1>5, <2>1 DEF GoOnWith, CollectChildren, DInv, Bound
  <2>4. /\ \A kind \in ChildKinds : HasStatus(new, kind, pr)
        /\ \A s \in new : s[2] = pr
    <3> DEFINE a == <<"reviews", pr, reviews>>
               b == <<"lifecycle_events", pr, events>>
               c == <<"derived_features", pr, "complete">>
               d == <<"ci_observations", pr, "not_requested">>
    <3>1. /\ a[1] = "reviews" /\ b[1] = "lifecycle_events"
          /\ c[1] = "derived_features" /\ d[1] = "ci_observations"
          /\ a[2] = pr /\ b[2] = pr /\ c[2] = pr /\ d[2] = pr
      OBVIOUS
    <3>2. new = {a, b, c, d} OBVIOUS
    <3> HIDE DEF a, b, c, d, new
    <3> QED BY <3>1, <3>2 DEF ChildKinds, HasStatus
  <2> HIDE DEF new
  <2>5. Gathered'
    <3>1. /\ HasStatus(p.statuses, "pull_requests", 0)
          /\ \A s \in p.statuses : s[2] \in p.pulls \cup {0}
          /\ \A q \in Visited, kind \in ChildKinds : HasStatus(p.statuses, kind, q)
      BY <2>3 DEF DInv, Gathered
    <3>2. HasStatus(p'.statuses, "pull_requests", 0)
      BY <2>2, <3>1 DEF HasStatus
    <3>3. \A s \in p'.statuses : s[2] \in p'.pulls \cup {0}
      BY <2>1, <2>2, <2>4, <3>1
    <3>4. ASSUME NEW q \in Visited', NEW kind \in ChildKinds
          PROVE  HasStatus(p'.statuses, kind, q)
      <4>1. CASE q = pr BY <2>2, <2>4, <4>1 DEF HasStatus
      <4>2. CASE q # pr
        <5>1. q \in Visited BY <2>2, <2>4, <4>2 DEF Visited, HasStatus
        <5> QED BY <2>2, <3>1, <5>1 DEF HasStatus
      <4> QED BY <4>1, <4>2
    <3> QED BY <2>3, <3>2, <3>3, <3>4 DEF Gathered, Saving
  <2> QED BY <1>3, <2>2, <2>3, <2>5
<1>6. CASE Collected
  <2>1. phase = "children" /\ phase' = "begin" /\ p' = p /\ Visited = p.pulls
    BY <1>6 DEF Collected, GoOn
  <2>2. Whole(p) /\ ~p.marker BY <2>1 DEF DInv, Bound, Gathered, Whole
  <2>3. Whole(p') BY <2>1, <2>2 DEF Whole, HasStatus
  <2>4. Gathered' BY <2>1, <2>2 DEF Gathered, Saving, Whole, HasStatus
  <2> QED BY <1>1, <1>3, <2>1, <2>2, <2>3, <2>4
<1> QED
  BY <1>4, <1>5, <1>6

-----------------------------------------------------------------------------
(* A statement of the transaction leaves the database and the call alone.  *)
LEMMA Statement ==
  ASSUME DInv, phase \in Saving, phase' \in Saving, UNCHANGED <<db, calls, p>>,
         Written'
  PROVE  DInv'
<1>1. Typed' BY DEF DInv, Typed, Saving, Inside
<1>2. Sane' BY DEF DInv, Sane, Whole, HasStatus, Ids
<1>3. Bound'
  BY DEF DInv, Bound, Inside, Saving, Identified, Sound
<1>4. Gathered' BY DEF DInv, Gathered, Saving, Whole, HasStatus
<1> QED BY <1>1, <1>2, <1>3, <1>4 DEF DInv

(* The statements of save change the transaction only, as Written says.     *)
LEMMA Saves ==
  ASSUME DInv,
         BeginImmediate \/ DeleteExtraction \/ InsertManifest \/ InsertRows
           \/ InsertStatuses
  PROVE  DInv'
<1>1. phase \in Saving /\ UNCHANGED <<db, calls>> /\ db.file = "ready"
      /\ \A i \in DOMAIN db.stored : i = p.id
  BY DEF BeginImmediate, DeleteExtraction, InsertManifest, InsertRows,
         InsertStatuses, Saving, DInv, Bound, Inside
<1>2. CASE BeginImmediate
  <2>1. phase' = "delete" /\ p' = p /\ tx' = db.stored
    BY <1>1, <1>2 DEF BeginImmediate, GoOn, Stored
  <2>2. Written' BY <1>1, <2>1 DEF Written
  <2> QED BY <1>1, <2>1, <2>2, Statement DEF Saving
<1>3. CASE DeleteExtraction
  <2>1. phase = "delete" /\ phase' = "manifest" /\ p' = p /\ tx' = Without(tx, p.id)
    BY <1>3 DEF DeleteExtraction, GoOn
  <2>2. DOMAIN tx' = {} BY <1>1, <2>1 DEF Without, DInv, Written
  <2>3. Written' BY <2>1, <2>2 DEF Written
  <2> QED BY <1>1, <2>1, <2>3, Statement DEF Saving
<1>4. CASE InsertManifest
  <2> DEFINE e == [identity |-> p.identity, key |-> p.workspace, saved |-> calls,
                   pulls |-> {}, statuses |-> {}]
  <2>1. phase = "manifest" /\ phase' = "rows" /\ p' = p /\ tx' = With(tx, p.id, e)
    BY <1>4 DEF InsertManifest, GoOn
  <2>2. DOMAIN tx' = {p.id} /\ tx'[p.id] = e
    BY <2>1 DEF With, DInv, Written
  <2>3. Written' BY <2>1, <2>2 DEF Written, Identified, Fields
  <2> QED BY <1>1, <2>1, <2>3, Statement DEF Saving
<1>5. CASE InsertRows
  <2>1. phase = "rows" /\ phase' = "statuses" /\ p' = p
        /\ tx' = [tx EXCEPT ![p.id].pulls = p.pulls]
    BY <1>5 DEF InsertRows, GoOn
  <2>2. DOMAIN tx = {p.id} /\ DOMAIN tx[p.id] = Fields /\ Identified(tx[p.id])
    BY <2>1 DEF DInv, Written
  <2>3. DOMAIN tx' = {p.id} /\ tx'[p.id] = [tx[p.id] EXCEPT !.pulls = p.pulls]
    BY <2>1, <2>2
  <2>4. DOMAIN tx'[p.id] = Fields /\ tx'[p.id].pulls = p.pulls
        /\ tx'[p.id].identity = p.identity /\ tx'[p.id].key = p.workspace
    BY <2>2, <2>3 DEF Fields, Identified
  <2>5. Written' BY <2>1, <2>3, <2>4 DEF Written, Identified
  <2> QED BY <1>1, <2>1, <2>5, Statement DEF Saving
<1>6. CASE InsertStatuses
  <2>1. phase = "statuses" /\ DOMAIN tx = {p.id} /\ DOMAIN tx[p.id] = Fields
        /\ Identified(tx[p.id]) /\ tx[p.id].pulls = p.pulls
    BY <1>6 DEF InsertStatuses, DInv, Written
  <2>2. CASE Leave("invalid")
    BY <1>1, <2>1, <2>2, WayOut DEF Leave
  <2>3. CASE GoOn("commit") /\ tx' = [tx EXCEPT ![p.id].statuses = p.statuses]
    <3>1. phase' = "commit" /\ p' = p BY <2>3 DEF GoOn
    <3>2. DOMAIN tx' = {p.id}
          /\ tx'[p.id] = [tx[p.id] EXCEPT !.statuses = p.statuses]
      BY <2>1, <2>3
    <3>3. DOMAIN tx'[p.id] = Fields /\ tx'[p.id].pulls = p.pulls
          /\ tx'[p.id].statuses = p.statuses
          /\ tx'[p.id].identity = p.identity /\ tx'[p.id].key = p.workspace
      BY <2>1, <3>2 DEF Fields, Identified
    <3>4. Written' BY <3>1, <3>2, <3>3 DEF Written, Identified
    <3> QED BY <1>1, <3>1, <3>4, Statement DEF Saving
  <2> QED BY <1>6, <2>2, <2>3 DEF InsertStatuses
<1> QED BY <1>2, <1>3, <1>4, <1>5, <1>6

(* The commit makes the extraction of this call the one in the database.   *)
LEMMA CommitStores ==
  ASSUME DInv, Commit
  PROVE  /\ db.file = "ready" /\ db'.file = "ready" /\ db'.key = db.key
         /\ DOMAIN db'.stored = {p.id} /\ Identified(db'.stored[p.id])
         /\ db'.stored[p.id].pulls = p.pulls
         /\ db'.stored[p.id].statuses = p.statuses
         /\ p' = p /\ calls' = calls /\ phase = "commit"
         /\ phase' = IF p.marker THEN "pulls" ELSE "export"
<1>1. phase = "commit" /\ db' = Ready(db.key, tx) /\ db.file = "ready"
  BY DEF Commit, DInv, Bound, Inside
<1>2. db'.file = "ready" /\ db'.key = db.key /\ db'.stored = tx
  BY <1>1 DEF Ready
<1> QED BY <1>1, <1>2 DEF Commit, GoOn, DInv, Written

(* With the commit the invariant carries over from the transaction.         *)
LEMMA Commits == ASSUME DInv, Commit PROVE DInv'
<1>1. /\ db.file = "ready" /\ db'.file = "ready" /\ db'.key = db.key
      /\ DOMAIN db'.stored = {p.id} /\ Identified(db'.stored[p.id])
      /\ db'.stored[p.id].pulls = p.pulls
      /\ db'.stored[p.id].statuses = p.statuses
      /\ p' = p /\ calls' = calls /\ phase = "commit"
      /\ phase' \in {"pulls", "export"}
  BY CommitStores
<1>2. /\ DOMAIN p = Locals /\ p.workspace \in Workspaces /\ calls \in Ids
      /\ db.key = p.workspace /\ p.id \in Ids /\ p.identity \in Identities
      /\ Whole(p)
  BY <1>1 DEF DInv, Bound, Inside, Gathered, Saving
<1>3. Whole(db'.stored[p.id]) BY <1>1, <1>2 DEF Whole, HasStatus
<1>4. Typed' BY <1>1 DEF DInv, Typed, Inside
<1>5. Sane' BY <1>1, <1>2, <1>3 DEF Sane, Identified, Whole, HasStatus, Ids
<1>6. Bound' BY <1>1, <1>2 DEF Bound, Inside, Saving, Identified
<1>7. Gathered' /\ Written' BY <1>1 DEF Gathered, Written, Saving
<1> QED BY <1>4, <1>5, <1>6, <1>7 DEF DInv

(* The end of a call.                                                      *)
LEMMA Ends ==
  ASSUME DInv, Export \/ Finally \/ Close PROVE DInv'
<1>1. CASE Export
  BY <1>1, WayOut DEF Export, Leave
<1>2. CASE Finally
  <2>1. /\ phase = "leave" /\ phase' = "close" /\ UNCHANGED <<db, calls>>
        /\ p' = [p EXCEPT !.discard = DiscardEmpty]
        /\ DOMAIN p = Locals /\ p.workspace \in Workspaces /\ calls \in Ids
    BY <1>2 DEF Finally, GoOnWith, DInv, Bound
  <2>2. DOMAIN p' = Locals /\ p'.workspace = p.workspace /\ p'.discard = DiscardEmpty
    BY <2>1 DEF Locals
  <2>3. Typed' BY <2>1 DEF DInv, Typed
  <2>4. Sane' BY <2>1 DEF DInv, Sane, Whole, HasStatus, Ids
  <2>5. Bound'
    <3>1. p'.discard => DOMAIN Stored' = {} BY <2>1, <2>2 DEF DiscardEmpty, Stored
    <3> QED BY <2>1, <2>2, <3>1 DEF Bound, Inside, Saving
  <2>6. Gathered' /\ Written' BY <2>1 DEF Gathered, Written, Saving
  <2> QED BY <2>3, <2>4, <2>5, <2>6 DEF DInv
<1>3. CASE Close
  <2>1. phase = "close" /\ phase' = "idle" /\ UNCHANGED calls
        /\ db' = IF p.discard THEN NoFile ELSE db
    BY <1>3 DEF Close, Exit
  <2>2. CASE ~p.discard BY <2>1, <2>2, WayOut
  <2>3. CASE p.discard
    <3>1. db'.file = "absent" BY <2>1, <2>3 DEF NoFile
    <3> QED
      BY <2>1, <3>1
         DEF DInv, Typed, Sane, Bound, Gathered, Written, Inside, Saving
  <2> QED BY <2>2, <2>3
<1> QED BY <1>1, <1>2, <1>3

(* A failure, an interruption or a kill drops the transaction, no more.     *)
LEMMA Faults ==
  ASSUME DInv, StorageFails \/ Interrupt \/ Kill PROVE DInv'
<1> USE DEF Leave, Exit, Inside
<1>1. CASE StorageFails
  <2>1. phase # "idle" /\ UNCHANGED <<db, calls>> BY <1>1 DEF StorageFails
  <2>2. phase' = "idle" \/ (phase' = "leave" /\ UNCHANGED p)
    BY <1>1 DEF StorageFails
  <2> QED BY <2>1, <2>2, WayOut
<1>2. CASE Interrupt
  <2>1. phase # "idle" /\ UNCHANGED <<db, calls>> BY <1>2 DEF Interrupt
  <2>2. phase' = "idle" \/ (phase' = "leave" /\ UNCHANGED p)
    BY <1>2 DEF Interrupt
  <2> QED BY <2>1, <2>2, WayOut
<1>3. CASE Kill
  BY <1>3, WayOut DEF Kill
<1> QED BY <1>1, <1>2, <1>3

(* Every step preserves the invariant.                                      *)
LEMMA NextDInv == DInv /\ [Next]_vars => DInv'
<1> SUFFICES ASSUME DInv, [Next]_vars PROVE DInv' OBVIOUS
<1>1. CASE UNCHANGED vars
  <2>1. UNCHANGED <<db, tx, p, phase, calls>> BY <1>1 DEF vars
  <2>2. Typed' BY <2>1 DEF DInv, Typed
  <2>3. Sane' BY <2>1 DEF DInv, Sane, Whole, HasStatus, Ids
  <2>4. Bound' BY <2>1 DEF DInv, Bound, Stored, Identified, Sound
  <2>5. Gathered' BY <2>1 DEF DInv, Gathered, Whole, HasStatus, Visited
  <2>6. Written' BY <2>1 DEF DInv, Written, Identified
  <2> QED BY <2>2, <2>3, <2>4, <2>5, <2>6 DEF DInv
<1> QED
  BY <1>1, BeforeStore, Identifying, Reading, Saves, Commits, Ends, Faults DEF Next

(* The inductive invariant holds of every reachable state.                 *)
THEOREM CollectInvariant == Spec => []DInv
BY InitDInv, NextDInv, PTL DEF Spec

(* The database only ever holds one extraction, whole or marked.           *)
THEOREM StoredIsWhole == Spec => []WholeOrMarked
<1>1. DInv => WholeOrMarked
  BY DEF DInv, Typed, Sane, WholeOrMarked, Stored, Empty
<1> QED BY <1>1, CollectInvariant, PTL

-----------------------------------------------------------------------------
(* What a row of the abstract store is.                                    *)
LEMMA KeptIs ==
  ASSUME NEW i, db.file = "ready", DOMAIN db.stored = {i}
  PROVE  Kept = {[id |-> i, identity |-> db.stored[i].identity,
                  key |-> db.stored[i].key,
                  incomplete |-> ~Sound(db.stored[i].statuses)]}
BY DEF Kept, Stored

(* An empty database is an empty abstract store.                            *)
LEMMA KeptIsEmpty == ASSUME DOMAIN Stored = {} PROVE Kept = {}
BY DEF Kept

(* Every step is a step of the abstract store, or leaves it alone.         *)
LEMMA StepKept ==
  ASSUME DInv, [Next]_vars PROVE [Dataset!Next]_Kept
<1>1. CASE UNCHANGED db
  BY <1>1 DEF Kept, Stored
<1>2. CASE Connect
  <2>1. CASE db.file # "absent" BY <1>1, <1>2, <2>1 DEF Connect
  <2>2. CASE db.file = "absent"
    <3>1. DOMAIN Stored = {} BY <2>2 DEF Stored, Empty
    <3>2. db' = db \/ db' = Blank BY <1>2 DEF Connect
    <3>3. DOMAIN Stored' = {}
      BY <3>1, <3>2 DEF Stored, Empty, Blank
    <3>4. Kept = {} BY <3>1, KeptIsEmpty
    <3>5. Kept' = {} BY <3>3 DEF Kept
    <3> QED BY <3>4, <3>5
  <2> QED BY <2>1, <2>2
<1>3. CASE Migrate
  <2>1. CASE db.file # "blank" BY <1>1, <1>3, <2>1 DEF Migrate
  <2>2. CASE db.file = "blank"
    <3>1. DOMAIN Stored = {} BY <2>2 DEF Stored, Empty
    <3>2. db' = db \/ db' = Ready(p.workspace, Empty) BY <1>3 DEF Migrate
    <3>3. DOMAIN Stored' = {}
      BY <3>1, <3>2 DEF Stored, Empty, Ready
    <3>4. Kept = {} BY <3>1, KeptIsEmpty
    <3>5. Kept' = {} BY <3>3 DEF Kept
    <3> QED BY <3>4, <3>5
  <2> QED BY <2>1, <2>2
<1>4. CASE Close
  <2>1. CASE ~p.discard BY <1>1, <1>4, <2>1 DEF Close
  <2>2. CASE p.discard
    <3>1. DOMAIN Stored = {} BY <1>4, <2>2 DEF Close, DInv, Bound
    <3>2. DOMAIN Stored' = {} BY <1>4, <2>2 DEF Close, NoFile, Stored, Empty
    <3>3. Kept = {} BY <3>1, KeptIsEmpty
    <3>4. Kept' = {} BY <3>2 DEF Kept
    <3> QED BY <3>3, <3>4
  <2> QED BY <2>1, <2>2
<1>5. CASE Commit
  <2>1. /\ db.file = "ready" /\ db'.file = "ready" /\ db'.key = db.key
        /\ DOMAIN db'.stored = {p.id} /\ Identified(db'.stored[p.id])
        /\ db'.stored[p.id].statuses = p.statuses /\ phase = "commit"
    BY <1>5, CommitStores
  <2>2. /\ p.id \in Ids /\ p.identity \in Identities /\ p.workspace \in Workspaces
        /\ \A i \in DOMAIN db.stored : i = p.id /\ Identified(db.stored[i])
    BY <2>1 DEF DInv, Bound, Inside
  <2> DEFINE row(b) == [id |-> p.id, identity |-> p.identity, key |-> p.workspace,
                        incomplete |-> b]
             was == ~Sound(db.stored[p.id].statuses)
             is == ~Sound(p.statuses)
  <2>3. was \in BOOLEAN /\ is \in BOOLEAN OBVIOUS
  <2>4. Kept' = {row(is)}
    BY <2>1 DEF Kept, Stored, Identified, Sound
  <2>5. CASE p.marker
    <3>1. DOMAIN Stored = {} /\ is
      BY <2>1, <2>5 DEF DInv, Bound, Saving, Stored
    <3>2. Kept = {} BY <3>1, KeptIsEmpty
    <3> HIDE DEF is, was
    <3>3. row(is) \in Dataset!Extraction /\ row(is).incomplete
      BY <2>2, <2>3, <3>1 DEF Dataset!Extraction, Ids
    <3> HIDE DEF row
    <3> QED BY <2>4, <3>2, <3>3 DEF Dataset!Next, Dataset!Mark
  <2>6. CASE ~p.marker
    <3>1. DOMAIN db.stored = {p.id}
      BY <2>1, <2>2, <2>6 DEF DInv, Bound, Saving
    <3>2. Kept = {row(was)} BY <2>1, <2>2, <3>1, KeptIs DEF Identified
    <3> HIDE DEF is, was
    <3>3. row(is) = [row(was) EXCEPT !.incomplete = is] OBVIOUS
    <3> HIDE DEF row
    <3> QED BY <2>3, <2>4, <3>2, <3>3 DEF Dataset!Next, Dataset!Reconcile
  <2> QED BY <2>5, <2>6
<1>6. UNCHANGED db \/ Connect \/ Migrate \/ Close \/ Commit
  <2>1. CASE UNCHANGED vars BY <2>1 DEF vars
  <2>2. CASE \E resume \in BOOLEAN, w \in Workspaces : Call(resume, w)
    BY <2>2 DEF Call
  <2> QED
    BY <2>1, <2>2
       DEF Next, OpenWorkspace, WriteKey, Unidentified, Begin, Resume, CollectPulls,
           CollectChildren, Collected, BeginImmediate, DeleteExtraction,
           InsertManifest, InsertRows, InsertStatuses, Export, Finally,
           StorageFails, Interrupt, Kill
<1> QED BY <1>1, <1>2, <1>3, <1>4, <1>5, <1>6

(* The workflow implements the abstract store.                             *)
THEOREM PromiseOfDataset == Spec => KeepsPromise
<1>1. Init => Dataset!Init
  BY DEF Init, Dataset!Init, Kept, Stored, NoFile, Empty
<1>2. DInv /\ [Next]_vars => [Dataset!Next]_Kept BY StepKept
<1> QED
  BY <1>1, <1>2, CollectInvariant, PTL DEF Spec, KeepsPromise, Dataset!Spec

-----------------------------------------------------------------------------
(* What the exit code of a call will rest on: which call saved what is     *)
(* stored, and that a status it saved is one of the four.                  *)
Statuses == {"complete", "partial", "unavailable", "not_requested"}

Listed(statuses) == \A s \in statuses : s[3] \in Statuses

NotYet == \A i \in DOMAIN Stored : Stored[i].saved # calls

SavedNow(complete) ==
  \E i \in DOMAIN Stored :
    Stored[i].saved = calls /\ (Sound(Stored[i].statuses) <=> complete)

Attributed ==
  /\ \A i \in DOMAIN Stored :
       Stored[i].saved \in 0 .. calls /\ Listed(Stored[i].statuses)
  /\ phase \in {"key", "secret", "connect", "migrate", "identify"} => NotYet
  /\ phase \in Saving \cup {"children"} => Listed(p.statuses)
  /\ phase \in {"rows", "statuses", "commit"} => tx[p.id].saved = calls
  /\ phase = "export" => Stored[p.id].saved = calls

(* From the first exit of its with block on, a call knows its code.        *)
Coded ==
  phase \in {"leave", "close", "idle"} /\ calls > 0 =>
    /\ code = "complete" => SavedNow(TRUE)
    /\ code = "incomplete" => SavedNow(FALSE)
    /\ code = "source" => NotYet

-----------------------------------------------------------------------------
(* While nothing has gone wrong, the directory is as a call may leave it.  *)
Restable == db.file = "absent" \/ (DOMAIN Stored # {} /\ keys[db.key] = "keyed")

Unharmed ==
  /\ \A w \in Workspaces : keys[w] = "torn" => phase = "secret" /\ p.workspace = w
  /\ phase \in {"idle", "key", "secret", "connect"} => Restable
  /\ phase \in {"key", "secret", "connect"} => (p.resume <=> db.file # "absent")
  /\ phase \notin {"idle", "key", "secret"} => keys[p.workspace] = "keyed"
  /\ phase = "migrate" => Restable \/ (db.file = "blank" /\ ~p.resume)
  /\ phase \in Inside \cup {"leave", "close"} =>
       db.file = "ready" /\ db.key = p.workspace
  /\ phase \in Inside \cup {"leave"} /\ DOMAIN Stored = {} => ~p.resume
  /\ phase = "close" /\ DOMAIN Stored = {} => p.discard

Keyed ==
  /\ keys \in [Workspaces -> {"absent", "torn", "keyed"}] /\ faults \in Nat
  /\ faults = 0 => Unharmed

-----------------------------------------------------------------------------
(* On the way out of a call, if its code is true of what is stored.        *)
LEMMA TrueWayOut ==
  ASSUME Attributed, UNCHANGED <<db, calls>>,
         phase' \in {"idle", "leave", "close"},
         code' = "complete" => SavedNow(TRUE),
         code' = "incomplete" => SavedNow(FALSE),
         code' = "source" => NotYet
  PROVE  Attributed' /\ Coded'
<1>1. Stored' = Stored BY DEF Stored
<1>2. Attributed' BY <1>1 DEF Attributed, Listed, Inside, Saving
<1>3. (SavedNow(TRUE) => SavedNow(TRUE)') /\ (SavedNow(FALSE) => SavedNow(FALSE)')
      /\ (NotYet => NotYet')
  BY <1>1 DEF SavedNow, NotYet, Sound
<1>4. Coded' BY <1>3 DEF Coded
<1> QED BY <1>2, <1>4

(* Further in the call, over the same database.                            *)
LEMMA Further ==
  ASSUME Attributed, UNCHANGED <<db, calls>>,
         phase' \notin {"idle", "leave", "close", "export"},
         phase' \in {"key", "secret", "connect", "migrate", "identify"} => NotYet,
         phase' \in Saving \cup {"children"} =>
           \A s \in p'.statuses : s[3] \in Statuses,
         phase' \in {"rows", "statuses", "commit"} => tx'[p'.id].saved = calls
  PROVE  Attributed' /\ Coded'
<1>1. Stored' = Stored BY DEF Stored
<1>2. NotYet => NotYet' BY <1>1 DEF NotYet
<1>3. Attributed' BY <1>1, <1>2 DEF Attributed, Listed
<1> QED BY <1>3 DEF Coded

(* A database that is empty after the step attributes nothing.             *)
LEMMA NothingStored ==
  ASSUME DOMAIN Stored' = {},
         phase' \in {"migrate", "identify"}
         \/ (phase' = "idle" /\ code' \notin {"complete", "incomplete"})
  PROVE  Attributed' /\ Coded'
BY DEF Attributed, Coded, NotYet, Saving

LEMMA CallAttributed ==
  ASSUME DInv, Attributed, NEW resume \in BOOLEAN, NEW w \in Workspaces,
         Call(resume, w)
  PROVE  Attributed' /\ Coded'
<1>1. /\ calls \in Nat /\ calls' = calls + 1 /\ Stored' = Stored
      /\ phase' = "key" \/ (phase' = "idle" /\ code' = "invalid")
  BY CollectAssumption DEF Call, GoOnWith, Exit, DInv, Typed, Stored
<1>2. \A i \in DOMAIN Stored :
        Stored[i].saved \in 0 .. calls' /\ Stored[i].saved # calls'
  BY <1>1 DEF Attributed
<1>3. Attributed' BY <1>1, <1>2 DEF Attributed, NotYet, Saving, Listed
<1>4. Coded' BY <1>1 DEF Coded
<1> QED BY <1>3, <1>4

LEMMA BeforeStoreAttributed ==
  ASSUME DInv, Attributed, OpenWorkspace \/ WriteKey \/ Connect \/ Migrate
  PROVE  Attributed' /\ Coded'
<1>1. phase \in {"key", "secret", "connect", "migrate"} /\ NotYet /\ UNCHANGED calls
  BY DEF OpenWorkspace, WriteKey, Connect, Migrate, Attributed
<1>2. CASE /\ UNCHANGED db
           /\ \/ phase' \in {"secret", "connect", "migrate", "identify"}
              \/ phase' = "idle" /\ code' \in {"invalid", "source"}
  <2>1. CASE phase' = "idle" /\ code' \in {"invalid", "source"}
    BY <1>1, <1>2, <2>1, TrueWayOut
  <2>2. CASE phase' \in {"secret", "connect", "migrate", "identify"}
    BY <1>1, <1>2, <2>2, Further DEF Saving
  <2> QED BY <1>2, <2>1, <2>2
<1>3. CASE OpenWorkspace \/ WriteKey
  BY <1>2, <1>3 DEF OpenWorkspace, WriteKey, GoOn, Exit
<1>4. CASE Connect
  <2>1. CASE UNCHANGED db BY <1>2, <1>4, <2>1 DEF Connect, GoOn, Exit
  <2>2. CASE ~UNCHANGED db
    <3>1. phase' = "migrate" /\ db' = Blank BY <1>4, <2>2 DEF Connect, GoOn
    <3>2. DOMAIN Stored' = {} BY <3>1 DEF Stored, Blank, Empty
    <3> QED BY <3>1, <3>2, NothingStored
  <2> QED BY <2>1, <2>2
<1>5. CASE Migrate
  <2>1. CASE UNCHANGED db BY <1>2, <1>5, <2>1 DEF Migrate, GoOn, Exit
  <2>2. CASE ~UNCHANGED db
    <3>1. phase' = "identify" /\ db' = Ready(p.workspace, Empty)
      BY <1>5, <2>2 DEF Migrate, GoOn
    <3>2. DOMAIN Stored' = {} BY <3>1 DEF Stored, Ready, Empty
    <3> QED BY <3>1, <3>2, NothingStored
  <2> QED BY <2>1, <2>2
<1> QED BY <1>3, <1>4, <1>5

LEMMA IdentifyingAttributed ==
  ASSUME DInv, Attributed, Unidentified \/ Begin \/ Resume
  PROVE  Attributed' /\ Coded'
<1>1. /\ phase = "identify" /\ UNCHANGED <<db, calls>> /\ NotYet
      /\ DOMAIN p = Locals
  BY DEF Unidentified, Begin, Resume, Attributed, DInv, Bound
<1>2. CASE phase' = "leave" /\ code' \in {"source", "invalid"}
  BY <1>1, <1>2, TrueWayOut
<1>3. CASE phase' = "pulls" BY <1>1, <1>3, Further DEF Saving
<1>4. CASE Begin /\ phase' # "leave"
  <2>1. phase' = "begin" /\ p'.statuses = MarkerStatuses
    BY <1>1, <1>4 DEF Begin, Leave, GoOnWith, Locals
  <2>2. \A s \in p'.statuses : s[3] \in Statuses
    BY <2>1 DEF MarkerStatuses, Statuses
  <2> QED BY <1>1, <2>1, <2>2, Further
<1>5. CASE Begin /\ phase' = "leave"
  BY <1>1, <1>5, TrueWayOut DEF Begin, Leave, GoOnWith
<1> QED
  BY <1>2, <1>3, <1>4, <1>5 DEF Unidentified, Resume, Leave, GoOnWith

LEMMA ReadingAttributed ==
  ASSUME DInv, Attributed, CollectPulls \/ CollectChildren \/ Collected
  PROVE  Attributed' /\ Coded'
<1>1. UNCHANGED <<db, calls>> /\ DOMAIN p = Locals
  BY DEF CollectPulls, CollectChildren, Collected, DInv, Bound
<1>2. ASSUME phase' \in {"children", "begin"},
             \A s \in p'.statuses : s[3] \in Statuses
      PROVE  Attributed' /\ Coded'
  BY <1>1, <1>2, Further
<1>3. CASE CollectPulls
  <2>1. PICK found \in SUBSET Pulls, status \in {"complete", "partial", "unavailable"} :
          GoOnWith("children",
                   [p EXCEPT !.pulls = found, !.marker = FALSE,
                             !.statuses = {<<"pull_requests", 0, status>>}])
    BY <1>3 DEF CollectPulls, BatchStatus
  <2>2. p'.statuses = {<<"pull_requests", 0, status>>} /\ phase' = "children"
    BY <1>1, <2>1 DEF GoOnWith, Locals
  <2>3. \A s \in p'.statuses : s[3] \in Statuses BY <2>2 DEF Statuses
  <2> QED BY <1>2, <2>2, <2>3
<1>4. CASE CollectChildren
  <2>1. PICK pr \in p.pulls, reviews, events \in Outcomes :
          GoOnWith("children",
                   [p EXCEPT !.statuses = @ \cup
                      {<<"reviews", pr, reviews>>, <<"lifecycle_events", pr, events>>,
                       <<"derived_features", pr, "complete">>,
                       <<"ci_observations", pr, "not_requested">>}])
    BY <1>4 DEF CollectChildren
  <2> DEFINE new == {<<"reviews", pr, reviews>>, <<"lifecycle_events", pr, events>>,
                     <<"derived_features", pr, "complete">>,
                     <<"ci_observations", pr, "not_requested">>}
  <2>2. p'.statuses = p.statuses \cup new /\ phase' = "children"
    BY <1>1, <2>1 DEF GoOnWith, Locals
  <2>3. reviews \in Statuses /\ events \in Statuses /\ "complete" \in Statuses
        /\ "not_requested" \in Statuses
    BY CollectAssumption DEF Statuses
  <2>4. \A s \in new : s[3] \in Statuses BY <2>3
  <2>5. \A s \in p.statuses : s[3] \in Statuses
    BY <1>4 DEF CollectChildren, Attributed, Listed
  <2> HIDE DEF new
  <2> QED BY <1>2, <2>2, <2>4, <2>5
<1>5. CASE Collected
  <2>1. phase = "children" /\ phase' = "begin" /\ p' = p
    BY <1>5 DEF Collected, GoOn
  <2> QED BY <1>2, <2>1 DEF Attributed, Listed
<1> QED BY <1>3, <1>4, <1>5

LEMMA SavesAttributed ==
  ASSUME DInv, Attributed,
         BeginImmediate \/ DeleteExtraction \/ InsertManifest \/ InsertRows
           \/ InsertStatuses
  PROVE  Attributed' /\ Coded'
<1>1. /\ phase \in Saving /\ UNCHANGED <<db, calls>>
      /\ \A s \in p.statuses : s[3] \in Statuses
  BY DEF BeginImmediate, DeleteExtraction, InsertManifest, InsertRows,
         InsertStatuses, Saving, Attributed, Listed
<1>2. ASSUME phase' \in Saving, p' = p,
             phase' \in {"rows", "statuses", "commit"} => tx'[p.id].saved = calls
      PROVE  Attributed' /\ Coded'
  <2>1. phase' \notin {"idle", "leave", "close", "export", "key", "secret", "connect",
                       "migrate", "identify"}
    BY <1>2 DEF Saving
  <2> QED BY <1>1, <1>2, <2>1, Further
<1>3. CASE BeginImmediate \/ DeleteExtraction
  BY <1>2, <1>3 DEF BeginImmediate, DeleteExtraction, GoOn, Saving
<1>4. CASE InsertManifest
  <2> DEFINE e == [identity |-> p.identity, key |-> p.workspace, saved |-> calls,
                   pulls |-> {}, statuses |-> {}]
  <2>1. phase' = "rows" /\ p' = p /\ tx' = With(tx, p.id, e)
    BY <1>4 DEF InsertManifest, GoOn
  <2>2. tx'[p.id].saved = calls BY <2>1 DEF With
  <2> QED BY <1>2, <2>1, <2>2 DEF Saving
<1>5. CASE InsertRows
  <2>1. phase = "rows" /\ phase' = "statuses" /\ p' = p
        /\ tx' = [tx EXCEPT ![p.id].pulls = p.pulls]
    BY <1>5 DEF InsertRows, GoOn
  <2>2. DOMAIN tx = {p.id} /\ DOMAIN tx[p.id] = Fields /\ tx[p.id].saved = calls
    BY <2>1 DEF DInv, Written, Attributed
  <2>3. tx'[p.id].saved = calls BY <2>1, <2>2 DEF Fields
  <2> QED BY <1>2, <2>1, <2>3 DEF Saving
<1>6. CASE InsertStatuses
  <2>1. phase = "statuses" /\ DOMAIN tx = {p.id} /\ DOMAIN tx[p.id] = Fields
        /\ tx[p.id].saved = calls
    BY <1>6 DEF InsertStatuses, DInv, Written, Attributed
  <2>2. CASE Leave("invalid") BY <1>1, <2>2, TrueWayOut DEF Leave
  <2>3. CASE GoOn("commit") /\ tx' = [tx EXCEPT ![p.id].statuses = p.statuses]
    <3>1. phase' = "commit" /\ p' = p /\ tx'[p.id].saved = calls
      BY <2>1, <2>3 DEF GoOn, Fields
    <3> QED BY <1>2, <3>1 DEF Saving
  <2> QED BY <1>6, <2>2, <2>3 DEF InsertStatuses
<1> QED BY <1>3, <1>4, <1>5, <1>6

LEMMA CommitAttributed == DInv /\ Attributed /\ Commit => Attributed' /\ Coded'
<1> SUFFICES ASSUME DInv, Attributed, Commit PROVE Attributed' /\ Coded' OBVIOUS
<1>1. /\ DOMAIN db'.stored = {p.id} /\ db'.file = "ready"
      /\ db'.stored[p.id].statuses = p.statuses
      /\ p' = p /\ calls' = calls /\ phase = "commit"
      /\ phase' \in {"pulls", "export"}
  BY CommitStores
<1>2. /\ db'.stored[p.id].saved = calls /\ calls \in 0 .. calls
      /\ Listed(p.statuses)
  BY <1>1, CollectAssumption DEF Commit, Ready, Attributed, Saving, DInv, Typed
<1>3. Stored' = db'.stored BY <1>1 DEF Stored
<1>4. Attributed' BY <1>1, <1>2, <1>3 DEF Attributed, Listed, Saving
<1> QED BY <1>1, <1>4 DEF Coded

LEMMA EndsAttributed ==
  ASSUME DInv, Attributed, Coded, Export \/ Finally \/ Close
  PROVE  Attributed' /\ Coded'
<1>1. CASE Export
  <2>1. phase = "export" /\ phase' = "leave" /\ UNCHANGED <<db, calls>>
        /\ p.id \in DOMAIN Stored
        /\ code' = IF Incomplete(Stored[p.id].statuses) THEN "incomplete" ELSE "complete"
    BY <1>1 DEF Export, Leave, DInv, Bound, Inside, Stored
  <2>2. Stored[p.id].saved = calls /\ Listed(Stored[p.id].statuses)
    BY <2>1 DEF Attributed
  <2>3. Sound(Stored[p.id].statuses) <=> ~Incomplete(Stored[p.id].statuses)
    BY <2>2 DEF Listed, Statuses, Sound, Incomplete
  <2>4. /\ code' = "complete" => SavedNow(TRUE)
        /\ code' = "incomplete" => SavedNow(FALSE)
        /\ code' # "source"
    BY <2>1, <2>2, <2>3 DEF SavedNow
  <2> QED BY <2>1, <2>4, TrueWayOut
<1>2. CASE Finally
  <2>1. phase = "leave" /\ phase' = "close" /\ UNCHANGED <<db, calls, code>>
        /\ calls > 0
    BY <1>2 DEF Finally, GoOnWith, DInv, Bound, Ids
  <2> QED BY <2>1, TrueWayOut DEF Coded
<1>3. CASE Close
  <2>1. phase = "close" /\ phase' = "idle" /\ UNCHANGED <<calls, code>> /\ calls > 0
        /\ db' = IF p.discard THEN NoFile ELSE db
    BY <1>3 DEF Close, Exit, DInv, Bound, Ids
  <2>2. CASE ~p.discard BY <2>1, <2>2, TrueWayOut DEF Coded
  <2>3. CASE p.discard
    <3>1. DOMAIN Stored = {} BY <2>1, <2>3 DEF DInv, Bound
    <3>2. DOMAIN Stored' = {} BY <2>1, <2>3 DEF Stored, NoFile, Empty
    <3>3. code \notin {"complete", "incomplete"} /\ NotYet
      BY <2>1, <3>1 DEF Coded, SavedNow, NotYet
    <3> QED BY <2>1, <3>2, <3>3, NothingStored
  <2> QED BY <2>2, <2>3
<1> QED BY <1>1, <1>2, <1>3

LEMMA FaultsAttributed ==
  ASSUME DInv, Attributed, StorageFails \/ Interrupt \/ Kill
  PROVE  Attributed' /\ Coded'
<1>1. UNCHANGED <<db, calls>> /\ phase' \in {"idle", "leave"}
  BY DEF StorageFails, Interrupt, Kill, Leave, Exit
<1>2. CASE code' \in {"invalid", "interrupted", "killed"}
  BY <1>1, <1>2, TrueWayOut
<1>3. CASE phase = "close" /\ p.discard /\ code' = "source"
  <2>1. NotYet BY <1>3 DEF DInv, Bound, NotYet
  <2> QED BY <1>1, <1>3, <2>1, TrueWayOut
<1> QED BY <1>2, <1>3 DEF StorageFails, Interrupt, Kill, Leave, Exit

LEMMA NextAttributed ==
  ASSUME DInv, Attributed, Coded, [Next]_vars PROVE Attributed' /\ Coded'
<1>1. CASE UNCHANGED vars
  <2>1. UNCHANGED <<tx, p, phase, calls, code>> /\ Stored' = Stored
    BY <1>1 DEF vars, Stored
  <2> QED BY <2>1 DEF Attributed, Coded, NotYet, SavedNow, Listed, Sound
<1>2. CASE \E resume \in BOOLEAN, w \in Workspaces : Call(resume, w)
  BY <1>2, CallAttributed
<1> QED
  BY <1>1, <1>2, BeforeStoreAttributed, IdentifyingAttributed, ReadingAttributed,
     SavesAttributed, CommitAttributed, EndsAttributed, FaultsAttributed DEF Next

(* The exit code tells what this call left in the dataset, however the     *)
(* call ended (collect of cli.py, collect_cohort of cohort.py).            *)
THEOREM ExitIsHonest == Spec => []ExitHonest
<1>1. Init => Attributed /\ Coded
  BY DEF Init, Attributed, Coded, NoFile, Stored, Empty, Saving
<1>2. DInv /\ Attributed /\ Coded /\ [Next]_vars => Attributed' /\ Coded'
  BY NextAttributed
<1>3. Coded => ExitHonest
  BY DEF Coded, SavedNow, NotYet, ExitHonest
<1> QED BY <1>1, <1>2, <1>3, CollectInvariant, PTL DEF Spec

-----------------------------------------------------------------------------
(* A call hands on what it was given: the key of its workspace and, with   *)
(* nothing stored, a database that is its own to discard.                  *)
LEMMA UnharmedOut ==
  ASSUME DInv, Unharmed, phase \in Inside, UNCHANGED <<db, keys>>,
         phase' \in Inside \cup {"leave"},
         p'.workspace = p.workspace, p'.resume = p.resume
  PROVE  Unharmed'
<1>1. Stored' = Stored BY DEF Stored
<1> QED BY <1>1 DEF Unharmed, Inside

LEMMA NextUnharmed ==
  ASSUME DInv, Unharmed, keys \in [Workspaces -> {"absent", "torn", "keyed"}],
         Next, ~StorageFails, ~Interrupt, ~Kill
  PROVE  Unharmed'
<1>1. phase # "idle" => DOMAIN p = Locals /\ p.workspace \in Workspaces
  BY DEF DInv, Bound
<1>2. ASSUME NEW resume \in BOOLEAN, NEW w \in Workspaces, Call(resume, w)
      PROVE  Unharmed'
  <2>1. phase = "idle" /\ UNCHANGED <<keys, db>> /\ Stored' = Stored
    BY <1>2 DEF Call, Stored
  <2>2. CASE phase' = "idle"
    BY <2>1, <2>2 DEF Unharmed, Restable, Inside
  <2>3. CASE phase' = "key"
    <3>1. (p'.resume <=> db.file # "absent") BY <1>2, <2>3 DEF Call, GoOnWith, Exit, Fresh
    <3> QED BY <2>1, <2>3, <3>1 DEF Unharmed, Restable, Inside
  <2> QED BY <1>2, <2>2, <2>3 DEF Call, GoOnWith, Exit
<1>3. CASE OpenWorkspace
  <2>1. phase = "key" /\ UNCHANGED db /\ Stored' = Stored
        /\ (db.file # "absent" => db.file = "ready" /\ db.key \in Workspaces)
    BY <1>3 DEF OpenWorkspace, Stored, Unharmed, Restable, Empty, DInv, Sane
  <2>2. CASE phase' \in {"connect", "idle"} /\ UNCHANGED keys
    <3>1. phase' = "connect" => keys[p.workspace] = "keyed" /\ p' = p
      BY <1>3, <2>2 DEF OpenWorkspace, GoOn, Exit
    <3> QED BY <2>1, <2>2, <3>1 DEF Unharmed, Restable, Inside
  <2>3. CASE phase' = "secret" /\ keys' = [keys EXCEPT ![p.workspace] = "torn"]
    <3>1. keys[p.workspace] = "absent" /\ p' = p
      BY <1>3, <2>3 DEF OpenWorkspace, GoOn, Exit
    <3>2. \A w \in Workspaces :
            IF w = p.workspace THEN keys'[w] = "torn" ELSE keys'[w] = keys[w]
      BY <1>1, <2>1, <2>3
    <3>3. Restable'
      BY <2>1, <3>1, <3>2 DEF Unharmed, Restable
    <3> QED BY <1>1, <2>1, <2>3, <3>1, <3>2, <3>3 DEF Unharmed, Inside
  <2> QED BY <1>3, <2>2, <2>3 DEF OpenWorkspace, GoOn, Exit
<1>4. CASE WriteKey
  <2>1. phase = "secret" /\ phase' = "connect" /\ UNCHANGED <<db, p>>
        /\ Stored' = Stored /\ keys' = [keys EXCEPT ![p.workspace] = "keyed"]
        /\ (db.file # "absent" => db.file = "ready" /\ db.key \in Workspaces)
    BY <1>4 DEF WriteKey, GoOn, Stored, Unharmed, Restable, Empty, DInv, Sane
  <2>2. \A w \in Workspaces :
          IF w = p.workspace THEN keys'[w] = "keyed" ELSE keys'[w] = keys[w]
    BY <1>1, <2>1
  <2>3. Restable' BY <2>1, <2>2 DEF Unharmed, Restable
  <2> QED BY <1>1, <2>1, <2>2, <2>3 DEF Unharmed, Inside
<1>5. CASE Connect
  <2>1. phase = "connect" /\ UNCHANGED keys BY <1>5 DEF Connect
  <2>2. CASE phase' = "idle" /\ UNCHANGED db
    <3>1. Stored' = Stored BY <2>2 DEF Stored
    <3> QED BY <2>1, <2>2, <3>1 DEF Unharmed, Restable, Inside
  <2>3. CASE phase' = "migrate" /\ p' = p
             /\ db' = IF db.file = "absent" THEN Blank ELSE db
    <3>1. CASE db.file = "absent"
      <4>1. db'.file = "blank" /\ ~p.resume BY <2>1, <2>3, <3>1 DEF Blank, Unharmed
      <4> QED BY <2>1, <2>3, <4>1 DEF Unharmed, Inside
    <3>2. CASE db.file # "absent"
      <4>1. Stored' = Stored /\ db' = db BY <2>3, <3>2 DEF Stored
      <4> QED BY <2>1, <2>3, <4>1 DEF Unharmed, Restable, Inside
    <3> QED BY <3>1, <3>2
  <2> QED BY <1>5, <2>2, <2>3 DEF Connect, GoOn, Exit
<1>6. CASE Migrate
  <2>1. phase = "migrate" /\ UNCHANGED keys /\ db.file # "absent"
    BY <1>6 DEF Migrate, DInv, Bound
  <2>2. CASE ~Opens
    <3>1. phase' = "idle" /\ db' = db /\ Stored' = Stored
      BY <1>6, <2>2 DEF Migrate, Exit, Stored
    <3>2. Restable BY <2>1, <2>2 DEF Opens, Unharmed
    <3> QED BY <2>1, <3>1, <3>2 DEF Unharmed, Restable, Inside
  <2>3. CASE Opens /\ db.file = "blank"
    <3>1. phase' = "identify" /\ p' = p /\ ~p.resume /\ db'.file = "ready"
          /\ db'.key = p.workspace
      BY <1>6, <2>3 DEF Migrate, GoOn, Opens, Ready
    <3> QED BY <2>1, <3>1 DEF Unharmed, Inside
  <2>4. CASE Opens /\ db.file # "blank"
    <3>1. phase' = "identify" /\ p' = p /\ db' = db /\ db.key = p.workspace
          /\ Stored' = Stored
      BY <1>6, <2>4 DEF Migrate, GoOn, Opens, Stored
    <3>2. DOMAIN Stored # {} /\ db.file = "ready"
      BY <2>1, <2>4 DEF Unharmed, Restable, Stored, Empty
    <3> QED BY <2>1, <3>1, <3>2 DEF Unharmed, Inside
  <2> QED BY <2>2, <2>3, <2>4
<1>7. CASE \/ Unidentified \/ Begin \/ Resume
           \/ CollectPulls \/ CollectChildren \/ Collected
           \/ BeginImmediate \/ DeleteExtraction \/ InsertManifest
           \/ InsertRows \/ InsertStatuses \/ Export
  <2>1. phase \in Inside /\ UNCHANGED <<db, keys>>
    BY <1>7 DEF Unidentified, Begin, Resume, CollectPulls, CollectChildren, Collected,
       BeginImmediate, DeleteExtraction, InsertManifest, InsertRows, InsertStatuses,
       Export, Inside
  <2>2. DOMAIN p = Locals BY <1>1, <2>1 DEF Inside
  <2>3. CASE Begin \/ Resume \/ CollectPulls \/ CollectChildren
    <3>1. phase' \in Inside \cup {"leave"}
      BY <2>3 DEF Begin, Resume, CollectPulls, CollectChildren, GoOnWith, Leave, Inside
    <3>2. p'.workspace = p.workspace /\ p'.resume = p.resume
      BY <2>2, <2>3 DEF Begin, Resume, CollectPulls, CollectChildren, GoOnWith, Leave,
         Locals
    <3> QED BY <2>1, <3>1, <3>2, UnharmedOut
  <2>4. CASE ~(Begin \/ Resume \/ CollectPulls \/ CollectChildren)
    <3>1. p' = p /\ phase' \in Inside \cup {"leave"}
      BY <1>7, <2>4 DEF Unidentified, Collected, BeginImmediate, DeleteExtraction,
         InsertManifest, InsertRows, InsertStatuses, Export, GoOn, Leave, Inside
    <3> QED BY <2>1, <3>1, UnharmedOut
  <2> QED BY <2>3, <2>4
<1>8. CASE Commit
  <2>1. /\ DOMAIN db'.stored = {p.id} /\ db'.file = "ready" /\ db'.key = db.key
        /\ p' = p /\ phase = "commit" /\ phase' \in {"pulls", "export"}
    BY <1>8, CommitStores
  <2>2. DOMAIN Stored' # {} BY <2>1 DEF Stored
  <2> QED BY <1>8, <2>1, <2>2 DEF Commit, Unharmed, Inside
<1>9. CASE Finally
  <2>1. /\ phase = "leave" /\ phase' = "close" /\ UNCHANGED <<db, keys>>
        /\ p' = [p EXCEPT !.discard = DiscardEmpty] /\ Stored' = Stored
    BY <1>9 DEF Finally, GoOnWith, Stored
  <2>2. p'.workspace = p.workspace /\ p'.discard = DiscardEmpty
    BY <1>1, <2>1 DEF Locals
  <2>3. DOMAIN Stored = {} => DiscardEmpty BY <2>1 DEF DiscardEmpty, Unharmed
  <2> QED BY <2>1, <2>2, <2>3 DEF Unharmed, Inside
<1>10. CASE Close
  <2>1. phase = "close" /\ phase' = "idle" /\ UNCHANGED keys
        /\ db' = IF p.discard THEN NoFile ELSE db
    BY <1>10 DEF Close, Exit
  <2>2. Restable'
    <3>1. CASE p.discard BY <2>1, <3>1 DEF Restable, NoFile
    <3>2. CASE ~p.discard
      <4>1. Stored' = Stored /\ db' = db BY <2>1, <3>2 DEF Stored
      <4> QED BY <2>1, <3>2, <4>1 DEF Restable, Unharmed
    <3> QED BY <3>1, <3>2
  <2> QED BY <2>1, <2>2 DEF Unharmed, Inside
<1> QED
  BY <1>2, <1>3, <1>4, <1>5, <1>6, <1>7, <1>8, <1>9, <1>10 DEF Next

LEMMA NextKeyed == DInv /\ Keyed /\ [Next]_vars => Keyed'
<1> SUFFICES ASSUME DInv, Keyed, [Next]_vars PROVE Keyed' OBVIOUS
<1>1. keys' \in [Workspaces -> {"absent", "torn", "keyed"}]
  BY DEF Keyed, Next, vars, Call, OpenWorkspace, WriteKey, Connect, Migrate,
     Unidentified, Begin, Resume, CollectPulls, CollectChildren, Collected,
     BeginImmediate, DeleteExtraction, InsertManifest, InsertRows, InsertStatuses,
     Commit, Export, Finally, Close, StorageFails, Interrupt, Kill
<1>2. faults \in Nat /\ keys \in [Workspaces -> {"absent", "torn", "keyed"}]
  BY DEF Keyed
<1>3. CASE StorageFails \/ Interrupt \/ Kill
  <2>1. faults' = faults + 1
    BY <1>3 DEF StorageFails, Interrupt, Kill, Fault
  <2> QED BY <1>1, <1>2, <2>1 DEF Keyed
<1>4. CASE Next /\ ~StorageFails /\ ~Interrupt /\ ~Kill
  <2>1. faults' = faults
    BY <1>4 DEF Next, Call, OpenWorkspace, WriteKey, Connect, Migrate,
       Unidentified, Begin, Resume, CollectPulls, CollectChildren, Collected,
       BeginImmediate, DeleteExtraction, InsertManifest, InsertRows, InsertStatuses,
       Commit, Export, Finally, Close
  <2>2. faults = 0 => Unharmed' BY <1>2, <1>4, NextUnharmed DEF Keyed
  <2> QED BY <1>1, <1>2, <2>1, <2>2 DEF Keyed
<1>5. CASE UNCHANGED vars
  <2>1. UNCHANGED <<keys, db, p, phase, faults>> /\ Stored' = Stored
    BY <1>5 DEF vars, Stored
  <2> QED BY <1>2, <2>1 DEF Keyed, Unharmed, Restable
<1> QED BY <1>3, <1>4, <1>5

(* A directory that nothing went wrong with can be used again, whatever    *)
(* the calls before found and refused (the finally block of                *)
(* collect of cli.py, create of store.py).                                 *)
THEOREM RetryIsPossible == Spec => []Retryable
<1>1. Init => Keyed
  BY DEF Init, Keyed, Unharmed, Restable, NoFile, Inside
<1>2. Keyed => Retryable
  <2> SUFFICES ASSUME Keyed, phase = "idle", faults = 0 PROVE Usable
    BY DEF Retryable
  <2>1. Unharmed BY DEF Keyed
  <2>2. Restable /\ \A w \in Workspaces : keys[w] # "torn" BY <2>1 DEF Unharmed
  <2> QED BY <2>2, CollectAssumption DEF Restable, Usable
<1>3. DInv /\ Keyed /\ [Next]_vars => Keyed' BY NextKeyed
<1> QED BY <1>1, <1>2, <1>3, CollectInvariant, PTL DEF Spec
=============================================================================
