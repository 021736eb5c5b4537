------------------------------ MODULE Publication ------------------------------
(***************************************************************************)
(* How artifacts reach the output directory: write_experiment and          *)
(* rewrite_report_in_bundle of artifacts.py, and the writers that fill an  *)
(* empty directory (write_inspection, write_calibration, write_validation, *)
(* export_schemas, all of one shape).                                      *)
(*                                                                         *)
(* A call builds a bundle under a temporary name, moves what is in its way *)
(* aside, renames, and cleans up in a finally block.  Between any two      *)
(* steps the process may be killed, a file operation may fail (OSError),   *)
(* or the call may be interrupted by an exception that is not an OSError.  *)
(* Calls follow each other over the same directory: one writer at a time.  *)
(***************************************************************************)
EXTENDS Integers

CONSTANTS
  Writers,        \* which of "experiment", "rewrite", "fresh" are called
  MaxWrites,      \* bound on the calls
  MaxFailures,    \* writer -> bound on the OSErrors met by one call
  Interruptible   \* the writers whose calls may be interrupted

ASSUME WritersAssumption ==
  /\ Writers \subseteq {"experiment", "rewrite", "fresh"}
  /\ MaxWrites \in Nat /\ MaxFailures \in [Writers -> Nat]
  /\ Interruptible \subseteq Writers

(* What a directory holds; a complete bundle is a number from 1.           *)
NoDir   == -2
Partial == -1
Empty   == 0

VARIABLES
  step,      \* where the call stands
  writer,    \* the writer of the latest call
  dir,       \* contents of out, stage and backup, the names of the call
  left,      \* latest complete bundle set aside by earlier calls, or 0
  writes,    \* calls started; the bundle of a call is numbered after it
  failures,  \* OSErrors met by the call
  raising,   \* whether an exception is being propagated
  stopped,   \* whether the call was interrupted
  before     \* contents of out when the call started

publicationVars ==
  <<step, writer, dir, left, writes, failures, raising, stopped, before>>

Over == {"idle", "returned", "raised", "killed"}

New == writes + 1

Bundles == 1 .. MaxWrites + 1

Later(a, b) == IF a >= b THEN a ELSE b

(* The latest complete bundle that is, or has been, under the published    *)
(* name and is still on disk; 0 if there is none.                          *)
Latest == Later(left, Later(dir.out, dir.backup))

-----------------------------------------------------------------------------
(* Bundle 1 stands for anything the directory held before.                 *)
PublicationInit ==
  /\ step = "idle" /\ writer \in Writers
  /\ before \in {NoDir, Empty, 1}
  /\ dir = [out |-> before, stage |-> NoDir, backup |-> NoDir]
  /\ left = 0 /\ writes = 0 /\ failures = 0
  /\ raising = FALSE /\ stopped = FALSE

(* The checks on the destination: nothing there, or explicit overwrite; a  *)
(* report is rewritten inside a bundle, which already holds one.           *)
Accepts(w, overwrite) ==
  IF w = "rewrite" THEN dir.out >= 1 /\ overwrite
  ELSE dir.out \in {NoDir, Empty} \/ (w = "experiment" /\ overwrite)

(* A call that passes the checks makes a temporary directory of its own;   *)
(* what earlier calls left behind stays where it is.                       *)
Start ==
  /\ step \in Over /\ writes < MaxWrites
  /\ \E w \in Writers, overwrite \in BOOLEAN :
       Accepts(w, overwrite) /\ writer' = w
  /\ step' = "build"
  /\ dir' = [dir EXCEPT !.stage = Empty, !.backup = NoDir]
  /\ left' = Later(left, dir.backup)
  /\ writes' = writes + 1
  /\ failures' = 0 /\ raising' = FALSE /\ stopped' = FALSE
  /\ before' = dir.out

(* The bundle is written file by file, its manifest last.                  *)
Build ==
  /\ step = "build"
  /\ IF dir.stage = Empty
     THEN dir' = [dir EXCEPT !.stage = Partial] /\ UNCHANGED step
     ELSE dir' = [dir EXCEPT !.stage = New] /\ step' = "aside"
  /\ UNCHANGED <<writer, left, writes, failures, raising, stopped, before>>

(* Clear the name: the old directory is renamed, or removed by a writer    *)
(* that only accepts an empty one.                                         *)
MoveAside ==
  /\ step = "aside"
  /\ dir' = IF writer = "fresh" THEN [dir EXCEPT !.out = NoDir]
            ELSE [dir EXCEPT !.out = NoDir, !.backup = dir.out]
  /\ step' = "publish"
  /\ UNCHANGED <<writer, left, writes, failures, raising, stopped, before>>

Publish ==
  /\ step = "publish"
  /\ dir' = [dir EXCEPT !.out = dir.stage, !.stage = NoDir]
  /\ step' = "leave"
  /\ UNCHANGED <<writer, left, writes, failures, raising, stopped, before>>

(* The rename fails: only an OSError reaches the handler that restores.    *)
PublishFails ==
  /\ step = "publish" /\ failures < MaxFailures[writer]
  /\ step' = IF writer = "fresh" THEN "leave" ELSE "restore"
  /\ failures' = failures + 1 /\ raising' = TRUE
  /\ UNCHANGED <<writer, dir, left, writes, stopped, before>>

(* Mutant: the handler lets the error through without renaming back.       *)
RestoreNothing ==
  /\ step = "restore"
  /\ step' = "leave"
  /\ UNCHANGED <<writer, dir, left, writes, failures, raising, stopped, before>>

Restore ==
  /\ step = "restore"
  /\ dir' = IF dir.backup = NoDir THEN dir
            ELSE [dir EXCEPT !.out = dir.backup, !.backup = NoDir]
  /\ step' = "leave"
  /\ UNCHANGED <<writer, left, writes, failures, raising, stopped, before>>

-----------------------------------------------------------------------------
(* What the finally block removes: a rewrite keeps the directory it moved  *)
(* aside inside its temporary directory, the others next to it.            *)
(* Mutant: everybody does as a rewrite.                                    *)
SweptWithBackup == {"stage", "backup"}

Swept == IF writer = "rewrite" THEN {"stage", "backup"} ELSE {"stage"}

(* Enter the finally block, on return or with an exception.                *)
Leave ==
  /\ step = "leave"
  /\ step' = "sweep"
  /\ UNCHANGED <<writer, dir, left, writes, failures, raising, stopped, before>>

Removing ==
  CASE step = "sweep" -> {n \in Swept : dir[n] # NoDir}
    [] step = "tidy"  -> {"backup"}
    [] OTHER           -> {}

(* rmtree is not atomic: a bundle on its way out is partial.               *)
Tear ==
  /\ \E n \in Removing :
       dir[n] \in Bundles /\ dir' = [dir EXCEPT ![n] = Partial]
  /\ UNCHANGED <<step, writer, left, writes, failures, raising, stopped, before>>

Sweep ==
  /\ step = "sweep"
  /\ dir' = [n \in DOMAIN dir |-> IF n \in Swept THEN NoDir ELSE dir[n]]
  /\ step' = IF raising THEN "raised"
              ELSE IF writer = "experiment" /\ dir.backup # NoDir THEN "tidy"
              ELSE "returned"
  /\ UNCHANGED <<writer, left, writes, failures, raising, stopped, before>>

(* A call that succeeded removes the directory it moved aside.             *)
Tidy ==
  /\ step = "tidy"
  /\ dir' = [dir EXCEPT !.backup = NoDir]
  /\ step' = "returned"
  /\ UNCHANGED <<writer, left, writes, failures, raising, stopped, before>>

-----------------------------------------------------------------------------
(* A file operation fails: in the try block the finally block runs next,   *)
(* in a removal the call ends.                                             *)
Fail ==
  /\ failures < MaxFailures[writer]
  /\ \/ /\ \/ step = "build"
           \/ step = "aside" /\ dir.out # NoDir
           \/ step = "restore" /\ dir.backup # NoDir
        /\ step' = "leave"
     \/ Removing # {} /\ step' = "raised"
  /\ failures' = failures + 1 /\ raising' = TRUE
  /\ UNCHANGED <<writer, dir, left, writes, stopped, before>>

(* An exception that no handler catches, such as KeyboardInterrupt.        *)
Interrupt ==
  /\ writer \in Interruptible /\ ~stopped
  /\ \/ step \in {"build", "aside", "publish", "restore", "leave"} /\ step' = "leave"
     \/ step \in {"sweep", "tidy"} /\ step' = "raised"
  /\ raising' = TRUE /\ stopped' = TRUE
  /\ UNCHANGED <<writer, dir, left, writes, failures, before>>

(* The process dies; no handler and no finally block runs.                 *)
Kill ==
  /\ step \notin Over
  /\ step' = "killed"
  /\ UNCHANGED <<writer, dir, left, writes, failures, raising, stopped, before>>

PublicationNext ==
  \/ Start \/ Build \/ MoveAside \/ Publish \/ PublishFails \/ Restore
  \/ Leave \/ Tear \/ Sweep \/ Tidy \/ Fail \/ Interrupt \/ Kill

PublicationSpec == PublicationInit /\ [][PublicationNext]_publicationVars

-----------------------------------------------------------------------------
(* The promise of publication, as the abstract specification states it: a  *)
(* reader of the published name finds the latest complete bundle or        *)
(* nothing, never a partial one, and the latest complete bundle is on disk *)
(* until a newer one is published.                                         *)
Shown == IF dir.out \in {NoDir, Empty} THEN 0 ELSE dir.out

Promise == INSTANCE BundleStore WITH kept <- Latest, shown <- Shown

KeepsPromise == Promise!Spec

(* One failed file operation leaves the name as the call found it, unless  *)
(* the new bundle was already published; a writer into an empty directory  *)
(* may have removed that directory.                                        *)
FailureRestores ==
  step = "raised" /\ failures = 1 /\ ~stopped =>
    \/ dir.out \in {before, New}
    \/ writer = "fresh" /\ dir.out = NoDir

(* A call that returns has published its bundle and leaves no other        *)
(* directory of its own behind, whatever it replaced.                      *)
ReturnsClean ==
  step = "returned" =>
    dir = [out |-> New, stage |-> NoDir, backup |-> NoDir]

(* The bundle a call found under the published name is on disk until the   *)
(* call has published its own: what an interrupted operation is said to    *)
(* leave, "either valid partial data marked incomplete or the previous     *)
(* complete artifact" (specs/v0.1.0.md:243-244).                           *)
PreviousKept == before >= 1 => Latest >= before
=============================================================================
