----------------------------- MODULE CollectWorkflow -----------------------------
(***************************************************************************)
(* The collect command over one dataset directory: the checks of cli.py,   *)
(* the workspace key and the SQLite store of store.py and the two saves of *)
(* cohort.py, call after call, each of which may fail, be interrupted or   *)
(* be killed at any statement.  One collector runs at a time, as           *)
(* docs/cohort-collection.md:16 requires.  SQLite's part is external: a    *)
(* transaction is lost as a whole until COMMIT and kept as a whole after.  *)
(***************************************************************************)
EXTENDS Naturals

CONSTANTS
  Pulls,       \* pull requests of the repository
  Workspaces,  \* private key directories, each with a key of its own
  Outcomes,    \* statuses that the collection of one endpoint may have
  Identities,  \* repository, interval and API version of an extraction
  MaxCalls,    \* bound on the calls
  MaxFaults    \* bound on failures of storage, interruptions and kills

ASSUME CollectAssumption ==
  /\ MaxCalls \in Nat /\ MaxFaults \in Nat /\ 0 \notin Pulls /\ Workspaces # {}
  /\ Outcomes \subseteq {"complete", "partial", "unavailable"}

VARIABLES
  keys,    \* of each workspace: "absent", "torn" (no key yet) or "keyed"
  db,      \* dataset.sqlite as committed
  tx,      \* extractions as the open transaction sees them, or NoTransaction
  p,       \* the locals of the call
  phase,   \* the next thing the call does, "idle" between calls
  code,    \* exit code of the latest call
  calls,   \* calls so far
  faults   \* failures, interruptions and kills so far

vars == <<keys, db, tx, p, phase, code, calls, faults>>

None == [none |-> TRUE]

Empty == [i \in {} |-> None]

NoTransaction == [open |-> FALSE]

NoFile == [file |-> "absent"]
Blank == [file |-> "blank"]
Ready(key, stored) == [file |-> "ready", key |-> key, stored |-> stored]

Stored == IF db.file = "ready" THEN db.stored ELSE Empty

Without(f, i) == [j \in DOMAIN f \ {i} |-> f[j]]

With(f, i, e) == [j \in DOMAIN f \cup {i} |-> IF j = i THEN e ELSE f[j]]

Fresh(resume, workspace) ==
  [resume |-> resume, workspace |-> workspace, id |-> 0, identity |-> None,
   marker |-> FALSE, pulls |-> {}, statuses |-> {}, discard |-> FALSE]

Init ==
  /\ keys = [w \in Workspaces |-> "absent"]
  /\ db = NoFile /\ tx = NoTransaction
  /\ p = None
  /\ phase = "idle" /\ code = "none" /\ calls = 0 /\ faults = 0

-----------------------------------------------------------------------------
(* The call ends with an exit code, and its locals with it.                *)
Exit(c) == phase' = "idle" /\ code' = c /\ p' = None

(* The end of the store's with block, by an exception or not: on to the    *)
(* finally block.                                                          *)
Leave(c) == phase' = "leave" /\ code' = c /\ UNCHANGED p

GoOn(next) == phase' = next /\ UNCHANGED <<code, p>>

GoOnWith(next, q) == phase' = next /\ p' = q /\ UNCHANGED code

(* collect is called: a fresh one needs an empty directory, a resumed one  *)
(* a database; input may be invalid besides.                               *)
Call(resume, w) ==
  /\ phase = "idle" /\ calls < MaxCalls
  /\ calls' = calls + 1
  /\ \/ /\ (db.file # "absent") = resume
        /\ GoOnWith("key", Fresh(resume, w))
     \/ Exit("invalid")
  /\ UNCHANGED <<keys, db, tx, faults>>

(* An existing workspace is opened, if its key is there; another created,  *)
(* if its parent is there.                                                 *)
OpenWorkspace ==
  /\ phase = "key"
  /\ \/ keys[p.workspace] = "keyed" /\ GoOn("connect") /\ UNCHANGED keys
     \/ keys[p.workspace] # "keyed" /\ Exit("invalid") /\ UNCHANGED keys
     \/ /\ keys[p.workspace] = "absent"
        /\ keys' = [keys EXCEPT ![p.workspace] = "torn"]
        /\ GoOn("secret")
  /\ UNCHANGED <<db, tx, calls, faults>>

WriteKey ==
  /\ phase = "secret"
  /\ keys' = [keys EXCEPT ![p.workspace] = "keyed"]
  /\ GoOn("connect")
  /\ UNCHANGED <<db, tx, calls, faults>>

(* Connecting creates an empty file, unless the transport was refused or   *)
(* the directory cannot be made.                                           *)
Connect ==
  /\ phase = "connect"
  /\ \/ \E c \in {"invalid", "source"} : Exit(c) /\ UNCHANGED db
     \/ /\ GoOn("migrate")
        /\ db' = IF db.file = "absent" THEN Blank ELSE db
  /\ UNCHANGED <<keys, tx, calls, faults>>

(* A store without a schema only serves a fresh collection, one with a     *)
(* schema only the workspace that made it.                                 *)
Opens == IF db.file = "blank" THEN ~p.resume ELSE db.key = p.workspace

(* The transaction that creates or checks the schema.                      *)
Migrate ==
  /\ phase = "migrate"
  /\ IF Opens
     THEN /\ db' = IF db.file = "blank" THEN Ready(p.workspace, Empty) ELSE db
          /\ GoOn("identify")
     ELSE Exit("invalid") /\ UNCHANGED db
  /\ UNCHANGED <<keys, tx, calls, faults>>

-----------------------------------------------------------------------------
MarkerStatuses == {<<"pull_requests", 0, "partial">>}

(* The repository does not answer, or the call or its answer is invalid.   *)
Unidentified ==
  /\ phase = "identify"
  /\ Leave("source") \/ Leave("invalid")
  /\ UNCHANGED <<keys, db, tx, calls, faults>>

(* A fresh extraction is marked as interrupted before anything is read.    *)
Begin ==
  /\ phase = "identify" /\ ~p.resume
  /\ IF DOMAIN Stored # {}
     THEN Leave("invalid")
     ELSE \E identity \in Identities :
            GoOnWith("begin", [p EXCEPT !.id = calls, !.identity = identity,
                                        !.marker = TRUE, !.statuses = MarkerStatuses])
  /\ UNCHANGED <<keys, db, tx, calls, faults>>

Resumable(i, identity) == DOMAIN Stored = {i} /\ Stored[i].identity = identity

(* A resumed one must be of the same repository, interval and version.     *)
Resume ==
  /\ phase = "identify" /\ p.resume
  /\ \E identity \in Identities :
       \/ /\ ~\E i \in DOMAIN Stored : Resumable(i, identity)
          /\ Leave("invalid")
       \/ \E i \in DOMAIN Stored :
            /\ Resumable(i, identity)
            /\ GoOnWith("pulls", [p EXCEPT !.id = i, !.identity = identity])
  /\ UNCHANGED <<keys, db, tx, calls, faults>>

-----------------------------------------------------------------------------
(* _batch: a batch is complete if every collection was and no record was   *)
(* malformed or contradictory, unavailable if there was nothing at all.    *)
BatchStatus(results, empty, flawed) ==
  IF empty /\ results = {"unavailable"} THEN "unavailable"
  ELSE IF flawed \/ results # {"complete"} THEN "partial"
  ELSE "complete"

(* Pull requests of all states, and those open now.                        *)
CollectPulls ==
  /\ phase = "pulls"
  /\ \E all, open \in Outcomes, found \in SUBSET Pulls, flawed \in BOOLEAN :
       /\ {all, open} = {"unavailable"} => found = {} /\ ~flawed
       /\ LET status == BatchStatus({all, open}, found = {}, flawed)
          IN  GoOnWith("children",
                       [p EXCEPT !.pulls = found, !.marker = FALSE,
                                 !.statuses = {<<"pull_requests", 0, status>>}])
  /\ UNCHANGED <<keys, db, tx, calls, faults>>

ChildKinds == {"reviews", "lifecycle_events", "derived_features", "ci_observations"}

HasStatus(statuses, kind, pr) == \E s \in statuses : s[1] = kind /\ s[2] = pr

Visited == {pr \in p.pulls : HasStatus(p.statuses, "reviews", pr)}

(* Reviews and events of one pull request, and what is derived of them.    *)
CollectChildren ==
  /\ phase = "children"
  /\ \E pr \in p.pulls \ Visited, reviews, events \in Outcomes :
       GoOnWith("children",
                [p EXCEPT !.statuses = @ \cup
                   {<<"reviews", pr, reviews>>, <<"lifecycle_events", pr, events>>,
                    <<"derived_features", pr, "complete">>,
                    <<"ci_observations", pr, "not_requested">>}])
  /\ UNCHANGED <<keys, db, tx, calls, faults>>

Collected ==
  /\ phase = "children" /\ Visited = p.pulls
  /\ GoOn("begin")
  /\ UNCHANGED <<keys, db, tx, calls, faults>>

-----------------------------------------------------------------------------
(* ProjectedStore.save, statement by statement.                            *)
BeginImmediate ==
  /\ phase = "begin"
  /\ tx' = Stored
  /\ GoOn("delete")
  /\ UNCHANGED <<keys, db, calls, faults>>

DeleteExtraction ==
  /\ phase = "delete"
  /\ tx' = Without(tx, p.id)
  /\ GoOn("manifest")
  /\ UNCHANGED <<keys, db, calls, faults>>

(* Mutant: the manifest is written outside the transaction.                *)
InsertManifestAtOnce ==
  LET e == [identity |-> p.identity, key |-> p.workspace, saved |-> calls,
            pulls |-> {}, statuses |-> {}]
  IN /\ phase = "manifest"
     /\ tx' = With(tx, p.id, e)
     /\ db' = Ready(db.key, tx')
     /\ GoOn("rows")
     /\ UNCHANGED <<keys, calls, faults>>

InsertManifest ==
  /\ phase = "manifest"
  /\ tx' = With(tx, p.id, [identity |-> p.identity, key |-> p.workspace,
                           saved |-> calls, pulls |-> {}, statuses |-> {}])
  /\ GoOn("rows")
  /\ UNCHANGED <<keys, db, calls, faults>>

InsertRows ==
  /\ phase = "rows"
  /\ tx' = [tx EXCEPT ![p.id].pulls = p.pulls]
  /\ GoOn("statuses")
  /\ UNCHANGED <<keys, db, calls, faults>>

(* A status row needs the row of its pull request.                         *)
InsertStatuses ==
  /\ phase = "statuses"
  /\ IF \A s \in p.statuses : s[2] = 0 \/ s[2] \in tx[p.id].pulls
     THEN tx' = [tx EXCEPT ![p.id].statuses = p.statuses] /\ GoOn("commit")
     ELSE tx' = NoTransaction /\ Leave("invalid")
  /\ UNCHANGED <<keys, db, calls, faults>>

Commit ==
  /\ phase = "commit"
  /\ db' = Ready(db.key, tx)
  /\ tx' = NoTransaction
  /\ GoOn(IF p.marker THEN "pulls" ELSE "export")
  /\ UNCHANGED <<keys, calls, faults>>

-----------------------------------------------------------------------------
(* Mutant: what was unavailable counts as complete.                        *)
PartialOnly(statuses) == \E s \in statuses : s[3] = "partial"

Incomplete(statuses) == \E s \in statuses : s[3] \in {"partial", "unavailable"}

(* The statuses just saved decide the exit code.                           *)
Export ==
  /\ phase = "export"
  /\ Leave(IF Incomplete(Stored[p.id].statuses) THEN "incomplete" ELSE "complete")
  /\ UNCHANGED <<keys, db, tx, calls, faults>>

(* Mutant: a database that this call created is discarded on any failure.  *)
DiscardCreated == ~p.resume /\ code # "complete"

(* Mutant: only a failing source discards it.                              *)
DiscardForSource == ~p.resume /\ DOMAIN Stored = {} /\ code = "source"

DiscardEmpty == ~p.resume /\ DOMAIN Stored = {}

(* The finally block looks whether the database is worth keeping.          *)
Finally ==
  /\ phase = "leave"
  /\ GoOnWith("close", [p EXCEPT !.discard = DiscardEmpty])
  /\ UNCHANGED <<keys, db, tx, calls, faults>>

Close ==
  /\ phase = "close"
  /\ db' = IF p.discard THEN NoFile ELSE db
  /\ Exit(code)
  /\ UNCHANGED <<keys, tx, calls, faults>>

-----------------------------------------------------------------------------
Inside == {"identify", "pulls", "children", "begin", "delete", "manifest", "rows",
           "statuses", "commit", "export"}

Fault == faults < MaxFaults /\ faults' = faults + 1

(* An operation on the store or the file system fails: a statement, the    *)
(* key file, the connection, the look in the finally block, the unlink.    *)
StorageFails ==
  /\ Fault
  /\ \/ phase \in Inside \ {"pulls", "children"} /\ Leave("invalid")
     \/ phase \in {"key", "secret", "connect", "migrate"} /\ Exit("invalid")
     \/ phase = "leave" /\ Exit("invalid")
     \/ phase = "close" /\ p.discard /\ Exit("source")
  /\ tx' = NoTransaction
  /\ UNCHANGED <<keys, db, calls>>

(* A KeyboardInterrupt runs the same rollback and finally block.           *)
Interrupt ==
  /\ Fault
  /\ \/ phase \in Inside /\ Leave("interrupted")
     \/ phase \notin Inside \cup {"idle"} /\ Exit("interrupted")
  /\ tx' = NoTransaction
  /\ UNCHANGED <<keys, db, calls>>

(* The process dies: nothing runs any more, SQLite forgets the transaction.*)
Kill ==
  /\ Fault
  /\ phase # "idle" /\ Exit("killed")
  /\ tx' = NoTransaction
  /\ UNCHANGED <<keys, db, calls>>

Next ==
  \/ \E resume \in BOOLEAN, w \in Workspaces : Call(resume, w)
  \/ OpenWorkspace \/ WriteKey \/ Connect \/ Migrate
  \/ Unidentified \/ Begin \/ Resume \/ CollectPulls \/ CollectChildren \/ Collected
  \/ BeginImmediate \/ DeleteExtraction \/ InsertManifest \/ InsertRows
  \/ InsertStatuses \/ Commit \/ Export \/ Finally \/ Close
  \/ StorageFails \/ Interrupt \/ Kill

Spec == Init /\ [][Next]_vars

-----------------------------------------------------------------------------
Sound(statuses) == \A s \in statuses : s[3] \in {"complete", "not_requested"}

Kept == {[id |-> i, identity |-> Stored[i].identity, key |-> Stored[i].key,
           incomplete |-> ~Sound(Stored[i].statuses)] : i \in DOMAIN Stored}

Dataset == INSTANCE DatasetStore WITH Ids <- 1 .. MaxCalls, kept <- Kept

(* Whatever fails, the directory keeps its promise: the one extraction is  *)
(* marked incomplete from its first commit, never lost, and only replaced  *)
(* under its own identity and with the pseudonyms of its own workspace.    *)
KeepsPromise == Dataset!Spec

(* What is stored is one extraction, marked incomplete or whole: every     *)
(* pull request it holds has a status for each kind of child, and no other *)
(* pull request has any.                                                   *)
Whole(e) ==
  /\ HasStatus(e.statuses, "pull_requests", 0)
  /\ \A s \in e.statuses : s[2] \in e.pulls \cup {0}
  /\ \A pr \in e.pulls, kind \in ChildKinds : HasStatus(e.statuses, kind, pr)

WholeOrMarked ==
  /\ \A i, j \in DOMAIN Stored : i = j
  /\ \A i \in DOMAIN Stored : Whole(Stored[i])

(* The exit code is the truth about the dataset: after "complete" and      *)
(* "incomplete" it holds what this very call saved, and that is so; after  *)
(* a call that failed for the source before it marked anything, what it    *)
(* held before.                                                            *)
ExitHonest ==
  phase = "idle" /\ calls > 0 =>
    /\ code \in {"complete", "incomplete"} =>
         \E i \in DOMAIN Stored : /\ Stored[i].saved = calls
                                  /\ Sound(Stored[i].statuses) <=> code = "complete"
    /\ code = "source" => \A i \in DOMAIN Stored : Stored[i].saved # calls

(* The directory can be used again: it is empty for a fresh call, with a   *)
(* workspace to be had, or holds an extraction for a workspace to resume.  *)
Usable ==
  \/ db.file = "absent" /\ \E w \in Workspaces : keys[w] # "torn"
  \/ DOMAIN Stored # {} /\ keys[db.key] = "keyed"

(* No call makes the directory unusable of itself: that takes a failure of *)
(* storage, an interruption or a kill.                                     *)
Retryable == phase = "idle" /\ faults = 0 => Usable

(* "An interrupted operation leaves either valid partial data marked       *)
(* incomplete or the previous complete artifact" (specs/v0.1.0.md:243).    *)
Recoverable == phase = "idle" /\ code \in {"interrupted", "killed"} => Usable
=============================================================================
