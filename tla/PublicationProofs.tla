--------------------------- MODULE PublicationProofs ---------------------------
(***************************************************************************)
(* Publication implements BundleStore, for any number of calls and of      *)
(* failures, as long as a rewrite is not interrupted and meets at most one *)
(* failed file operation.  What a call leaves that returns, or that raises *)
(* for one failure, holds of every writer without that condition.          *)
(***************************************************************************)
EXTENDS Publication, TLAPS

(* The faults a rewrite survives; the other writers survive any.           *)
MildRewrites ==
  "rewrite" \in Writers =>
    "rewrite" \notin Interruptible /\ MaxFailures["rewrite"] <= 1

Contents == {NoDir, Partial, Empty} \cup Bundles

Shape ==
  /\ step \in Over \cup {"build", "aside", "publish", "restore", "leave",
                           "sweep", "tidy"}
  /\ writer \in Writers
  /\ dir \in [{"out", "stage", "backup"} -> Contents]
  /\ left \in 0 .. MaxWrites + 1
  /\ writes \in 0 .. MaxWrites
  /\ failures \in Nat /\ raising \in BOOLEAN
  /\ before \in Contents

(* The published bundle is the latest, and every bundle set aside is older *)
(* than the one a call is building.                                        *)
LatestShown ==
  /\ dir.out # Partial
  /\ dir.out \in Bundles => dir.out = Latest
  /\ Latest <= New
  /\ step \in {"build", "aside", "publish", "restore"} => Latest < New

(* Where the old directory is while a call runs.                           *)
Whereabouts ==
  /\ step \in {"build", "aside"} => dir.backup = NoDir
  /\ step = "aside" \/ step = "publish" => dir.stage = New
  /\ step \in {"publish", "restore"} =>
       /\ dir.out = NoDir /\ dir.backup # Partial
       /\ dir.backup \in Bundles => dir.backup = Latest
  /\ step \in {"build", "aside"} /\ writer = "fresh" => dir.out \notin Bundles
  /\ step = "restore" => failures >= 1 /\ raising
  /\ step = "tidy" => dir.out = New
  /\ step \in {"leave", "sweep"} /\ ~raising => dir.out = New
  /\ step \in {"leave", "sweep"} /\ writer = "rewrite" /\ dir.backup # NoDir =>
       dir.out = New

PInv == Shape /\ LatestShown /\ Whereabouts

-----------------------------------------------------------------------------
(* The vocabulary of every leaf below: what a directory holds, as integers.*)
USE WritersAssumption
    DEF Contents, Bundles, Over, New, Latest, Later, NoDir, Partial, Empty

(* An initial state satisfies the invariant.                               *)
LEMMA InitPInv == PublicationInit => PInv
<1> SUFFICES ASSUME PublicationInit PROVE PInv
  OBVIOUS
<1>1. Shape
  <2>1. raising \in BOOLEAN
    BY DEF PublicationInit
  <2>2. dir \in [{"out", "stage", "backup"} -> Contents]
    BY DEF PublicationInit
  <2> QED
    BY <2>1, <2>2 DEF PublicationInit, Shape
<1>2. LatestShown
  BY DEF PublicationInit, PInv, Shape, LatestShown, Whereabouts
<1>3. Whereabouts
  BY DEF PublicationInit, PInv, Shape, LatestShown, Whereabouts
<1> QED BY <1>1, <1>2, <1>3 DEF PInv

(* The next call starts on directories of the known kinds.                 *)
LEMMA StartShape == Shape /\ Start => Shape'
<1> SUFFICES ASSUME Shape, Start PROVE Shape'
  OBVIOUS
<1>1. writes' \in 0 .. MaxWrites /\ writer' \in Writers
  BY DEF Start, Shape
<1>2. dir' \in [{"out", "stage", "backup"} -> Contents]
  BY DEF Start, Shape
<1>3. left' \in 0 .. MaxWrites + 1
  <2>1. dir.backup \in Contents /\ left \in 0 .. MaxWrites + 1
    BY DEF Shape
  <2>2. left' = Later(left, dir.backup)
    BY DEF Start
  <2> QED
    BY <2>1, <2>2
<1>4. step' = "build" /\ failures' = 0
  BY DEF Start
<1>5. raising' \in BOOLEAN /\ before' \in Contents
  BY DEF Start, Shape
<1> QED BY <1>1, <1>2, <1>3, <1>4, <1>5 DEF Shape

LEMMA StartPInv == PInv /\ Start => PInv'
<1> SUFFICES ASSUME PInv, Start PROVE PInv'
  OBVIOUS
<1>1. Shape'
  BY StartShape DEF PInv
<1>2. LatestShown'
  BY DEF Start, Accepts, PInv, Shape, LatestShown, Whereabouts
<1>3. Whereabouts'
  BY DEF Start, Accepts, PInv, Shape, LatestShown, Whereabouts
<1> QED BY <1>1, <1>2, <1>3 DEF PInv

LEMMA BuildPInv == PInv /\ Build => PInv'
BY DEF Build, PInv, Shape, LatestShown, Whereabouts

LEMMA MoveAsidePInv == PInv /\ MoveAside => PInv'
<1> SUFFICES ASSUME PInv, MoveAside PROVE PInv'
  OBVIOUS
<1>1. Shape'
  BY DEF MoveAside, PInv, Shape, LatestShown, Whereabouts
<1>2. LatestShown'
  BY DEF MoveAside, PInv, Shape, LatestShown, Whereabouts
<1>3. Whereabouts'
  BY DEF MoveAside, PInv, Shape, LatestShown, Whereabouts
<1> QED BY <1>1, <1>2, <1>3 DEF PInv

LEMMA PublishPInv == PInv /\ Publish => PInv'
<1> SUFFICES ASSUME PInv, Publish PROVE PInv'
  OBVIOUS
<1>1. Shape'
  BY DEF Publish, PInv, Shape, LatestShown, Whereabouts
<1>2. LatestShown'
  BY DEF Publish, PInv, Shape, LatestShown, Whereabouts
<1>3. Whereabouts'
  BY DEF Publish, PInv, Shape, LatestShown, Whereabouts
<1> QED BY <1>1, <1>2, <1>3 DEF PInv

LEMMA PublishFailsPInv == PInv /\ PublishFails => PInv'
BY DEF PublishFails, PInv, Shape, LatestShown, Whereabouts

LEMMA RestorePInv == PInv /\ Restore => PInv'
<1> SUFFICES ASSUME PInv, Restore PROVE PInv'
  OBVIOUS
<1>1. Shape'
  BY DEF Restore, PInv, Shape, LatestShown, Whereabouts
<1>2. LatestShown'
  BY DEF Restore, PInv, Shape, LatestShown, Whereabouts
<1>3. Whereabouts'
  <2>1. step = "restore" /\ step' = "leave" /\ raising' = raising
    BY DEF Restore
  <2>2. raising
    BY <2>1, Zenon DEF PInv, Whereabouts
  <2>3. raising'
    BY <2>1, <2>2
  <2>4. dir'.backup = NoDir
    BY DEF Restore, PInv, Shape
  <2> QED BY <2>1, <2>3, <2>4 DEF Whereabouts
<1> QED BY <1>1, <1>2, <1>3 DEF PInv

LEMMA LeavePInv == PInv /\ Leave => PInv'
BY DEF Leave, PInv, Shape, LatestShown, Whereabouts

LEMMA TearPInv == PInv /\ Tear => PInv'
BY DEF Tear, Removing, Swept, PInv, Shape, LatestShown, Whereabouts

LEMMA SweepPInv == PInv /\ Sweep => PInv'
BY DEF Sweep, Swept, PInv, Shape, LatestShown, Whereabouts

LEMMA TidyPInv == PInv /\ Tidy => PInv'
BY DEF Tidy, PInv, Shape, LatestShown, Whereabouts

LEMMA FailPInv == MildRewrites /\ PInv /\ Fail => PInv'
BY DEF Fail, MildRewrites, Removing, Swept, PInv, Shape, LatestShown, Whereabouts

LEMMA InterruptPInv == MildRewrites /\ PInv /\ Interrupt => PInv'
BY DEF Interrupt, MildRewrites, PInv, Shape, LatestShown, Whereabouts

LEMMA KillPInv == PInv /\ Kill => PInv'
BY DEF Kill, PInv, Shape, LatestShown, Whereabouts

LEMMA NextPInv ==
  ASSUME MildRewrites, PInv, [PublicationNext]_publicationVars
  PROVE  PInv'
<1>1. CASE UNCHANGED publicationVars
  BY <1>1 DEF publicationVars, PInv, Shape, LatestShown, Whereabouts
<1>2. CASE PublicationNext
  BY <1>2, StartPInv, BuildPInv, MoveAsidePInv, PublishPInv, PublishFailsPInv,
     RestorePInv, LeavePInv, TearPInv, SweepPInv, TidyPInv, FailPInv,
     InterruptPInv, KillPInv DEF PublicationNext
<1> QED BY <1>1, <1>2

-----------------------------------------------------------------------------
(* A step that leaves the published name and the bundles set aside alone   *)
(* is a stutter.                                                           *)
LEMMA QuietSteps ==
  ASSUME PInv,
         Build \/ PublishFails \/ Leave \/ Fail \/ Interrupt \/ Kill
           \/ UNCHANGED publicationVars
  PROVE  Latest' = Latest /\ Shown' = Shown
<1>1. left' = left /\ dir'.out = dir.out /\ dir'.backup = dir.backup
  BY DEF Build, PublishFails, Leave, Fail, Interrupt, Kill, publicationVars, PInv, Shape
<1> QED BY <1>1 DEF Shown

LEMMA StartQuiet ==
  ASSUME PInv, Start
  PROVE  Latest' = Latest /\ Shown' = Shown
<1>1. /\ left' = Later(left, dir.backup)
      /\ dir'.out = dir.out /\ dir'.backup = NoDir
  BY DEF Start, PInv, Shape
<1> QED
  BY <1>1 DEF Shown, PInv, Shape

(* Moving the old directory aside hides it.                                *)
LEMMA MoveAsideHides ==
  ASSUME PInv, MoveAside
  PROVE  Latest' = Latest /\ Shown' = 0
BY DEF MoveAside, Shown, PInv, Shape, Whereabouts

LEMMA PublishPublishes ==
  ASSUME PInv, Publish
  PROVE  Latest' = New /\ Shown' = New /\ Latest < New
BY DEF Publish, Shown, PInv, Shape, Whereabouts, LatestShown

(* Renaming the old directory back shows the bundle that is kept.          *)
LEMMA RestoreRestores ==
  ASSUME PInv, Restore
  PROVE  Latest' = Latest /\ Shown' \in {0, Latest}
BY DEF Restore, Shown, PInv, Shape, Whereabouts, LatestShown

(* Removing what was set aside changes nothing: the new bundle is in place.*)
LEMMA RemovalsQuiet ==
  ASSUME PInv, Tear \/ Sweep \/ Tidy
  PROVE  Latest' = Latest /\ Shown' = Shown
<1>1. /\ left' = left /\ dir'.out = dir.out
      /\ dir'.backup \in {dir.backup, NoDir, Partial}
  BY DEF Tear, Sweep, Tidy, Removing, Swept, PInv, Shape
<1>2. dir'.backup # dir.backup => dir.out = New
  BY DEF Tear, Sweep, Tidy, Removing, Swept, PInv, Shape, Whereabouts
<1> QED
  BY <1>1, <1>2 DEF Shown, PInv, Shape, LatestShown

-----------------------------------------------------------------------------
(* The invariant holds in every reachable state.                           *)
THEOREM LatestKept ==
  ASSUME MildRewrites
  PROVE  PublicationSpec => []PInv
<1>1. PInv /\ [PublicationNext]_publicationVars => PInv'
  BY NextPInv
<1> QED BY InitPInv, <1>1, PTL DEF PublicationSpec

(* Publication keeps the promise of BundleStore: readers find the latest   *)
(* complete bundle or nothing, and it is never given up before a newer one *)
(* is published.                                                           *)
THEOREM PromiseKept ==
  ASSUME MildRewrites
  PROVE  PublicationSpec => KeepsPromise
<1>1. PublicationInit => Promise!Init
  BY DEF PublicationInit, Promise!Init, Shown
<1>2. PInv /\ [PublicationNext]_publicationVars => [Promise!Next]_<<Latest, Shown>>
  BY QuietSteps, StartQuiet, MoveAsideHides, PublishPublishes, RestoreRestores,
     RemovalsQuiet
     DEF PublicationNext, Promise!Next, Promise!Publish, Promise!Hide, Promise!Restore
<1> QED
  BY <1>1, <1>2, LatestKept, PTL DEF PublicationSpec, KeepsPromise, Promise!Spec

(* Whatever a call of such a writer meets, the bundle it found under the   *)
(* published name is on disk until its own is published.                   *)
THEOREM PreviousIsKept ==
  ASSUME MildRewrites
  PROVE  PublicationSpec => []PreviousKept
<1>1. PublicationInit => PreviousKept
  BY DEF PublicationInit, PreviousKept
<1>2. ASSUME PInv, PreviousKept, [PublicationNext]_publicationVars
      PROVE  PreviousKept'
  <2>1. Latest \in Int /\ before \in Int
    BY <1>2 DEF PInv, Shape
  <2>2. CASE Start
    <3>1. Latest' = Latest /\ before' = dir.out /\ dir.out \in Contents
      BY <1>2, <2>2, StartQuiet DEF Start, PInv, Shape
    <3> QED
      BY <1>2, <3>1 DEF PreviousKept, PInv, LatestShown
  <2>3. CASE ~Start
    <3>1. before' = before
      BY <1>2, <2>3 DEF PublicationNext, publicationVars, Build, MoveAside, Publish, PublishFails,
         Restore, Leave, Tear, Sweep, Tidy, Fail, Interrupt, Kill
    <3>2. Latest' = Latest \/ (Latest' = New /\ Latest < New)
      BY <1>2, <2>3, QuietSteps, MoveAsideHides, PublishPublishes,
         RestoreRestores, RemovalsQuiet DEF PublicationNext
    <3>3. Latest' \in Int /\ Latest' >= Latest
      BY <2>1, <1>2, <3>2 DEF PInv, Shape
    <3> QED
      BY <1>2, <2>1, <3>1, <3>3 DEF PreviousKept
  <2> QED BY <2>2, <2>3
<1> QED
  BY <1>1, <1>2, LatestKept, PTL DEF PublicationSpec

-----------------------------------------------------------------------------
(* What follows holds of every writer, whatever faults it meets: it speaks *)
(* of calls that return, and of calls that raise for one fault.            *)

(* A call that is not raising has published, or has yet to; and it knows   *)
(* what is left for it to remove.                                          *)
Orderly ==
  /\ step \in {"aside", "publish"} => dir.stage = New
  /\ step \in {"leave", "sweep"} /\ ~raising => dir.out = New
  /\ step = "restore" => raising
  /\ step = "tidy" => dir.out = New /\ dir.stage = NoDir
  /\ writer = "fresh" /\ step \notin Over => dir.backup = NoDir
  /\ ReturnsClean

(* What the name holds once the call is past its renames.                  *)
Settled == dir.out \in {before, New} \/ (writer = "fresh" /\ dir.out = NoDir)

(* The course of a call that has met at most one failed operation.         *)
OneFault ==
  failures <= 1 /\ ~stopped =>
    /\ step \in {"build", "aside", "publish"} => failures = 0
    /\ step \in {"build", "aside"} => dir.out = before
    /\ step = "publish" =>
         dir.out = NoDir /\ (writer # "fresh" => dir.backup = before)
    /\ step = "restore" =>
         failures = 1 /\ dir.out = NoDir /\ dir.backup = before
    /\ step \in {"leave", "sweep", "tidy"} /\ failures = 0 => dir.out = New
    /\ step \in {"leave", "sweep", "tidy", "raised"} => Settled

Course == Shape /\ Orderly /\ OneFault

LEMMA InitCourse == PublicationInit => Course
<1> SUFFICES ASSUME PublicationInit PROVE Course OBVIOUS
<1>1. Shape BY InitPInv DEF PInv
<1>2. Orderly /\ OneFault
  BY DEF PublicationInit, Orderly, OneFault, Settled, ReturnsClean
<1> QED BY <1>1, <1>2 DEF Course

LEMMA StartCourse == Course /\ Start => Course'
<1> SUFFICES ASSUME Course, Start PROVE Course' OBVIOUS
<1>1. Shape' BY StartShape DEF Course
<1>2. Orderly' BY DEF Start, Accepts, Course, Shape, Orderly, ReturnsClean
<1>3. OneFault' BY DEF Start, Accepts, Course, Shape, Orderly, OneFault, Settled
<1> QED BY <1>1, <1>2, <1>3 DEF Course

LEMMA BuildCourse == Course /\ Build => Course'
<1> SUFFICES ASSUME Course, Build PROVE Course' OBVIOUS
<1>1. Shape' BY DEF Build, Course, Shape, Orderly
<1>2. Orderly' BY DEF Build, Course, Shape, Orderly, ReturnsClean
<1>3. OneFault' BY DEF Build, Course, Shape, Orderly, OneFault, Settled
<1> QED BY <1>1, <1>2, <1>3 DEF Course

LEMMA MoveAsideCourse == Course /\ MoveAside => Course'
<1> SUFFICES ASSUME Course, MoveAside PROVE Course' OBVIOUS
<1>1. Shape' BY DEF MoveAside, Course, Shape, Orderly
<1>2. Orderly' BY DEF MoveAside, Course, Shape, Orderly, ReturnsClean
<1>3. OneFault' BY DEF MoveAside, Course, Shape, Orderly, OneFault, Settled
<1> QED BY <1>1, <1>2, <1>3 DEF Course

LEMMA PublishCourse == Course /\ Publish => Course'
<1> SUFFICES ASSUME Course, Publish PROVE Course' OBVIOUS
<1>1. Shape' BY DEF Publish, Course, Shape, Orderly
<1>2. Orderly' BY DEF Publish, Course, Shape, Orderly, ReturnsClean
<1>3. OneFault' BY DEF Publish, Course, Shape, Orderly, OneFault, Settled
<1> QED BY <1>1, <1>2, <1>3 DEF Course

LEMMA PublishFailsCourse == Course /\ PublishFails => Course'
<1> SUFFICES ASSUME Course, PublishFails PROVE Course' OBVIOUS
<1>1. Shape' BY DEF PublishFails, Course, Shape, Orderly
<1>2. Orderly' BY DEF PublishFails, Course, Shape, Orderly, ReturnsClean
<1>3. OneFault' BY DEF PublishFails, Course, Shape, Orderly, OneFault, Settled
<1> QED BY <1>1, <1>2, <1>3 DEF Course

LEMMA RestoreCourse == Course /\ Restore => Course'
<1> SUFFICES ASSUME Course, Restore PROVE Course' OBVIOUS
<1>1. Shape' BY DEF Restore, Course, Shape, Orderly
<1>2. Orderly' BY DEF Restore, Course, Shape, Orderly, ReturnsClean
<1>3. OneFault' BY DEF Restore, Course, Shape, Orderly, OneFault, Settled
<1> QED BY <1>1, <1>2, <1>3 DEF Course

LEMMA LeaveCourse == Course /\ Leave => Course'
<1> SUFFICES ASSUME Course, Leave PROVE Course' OBVIOUS
<1>1. Shape' BY DEF Leave, Course, Shape, Orderly
<1>2. Orderly' BY DEF Leave, Course, Shape, Orderly, ReturnsClean
<1>3. OneFault' BY DEF Leave, Course, Shape, Orderly, OneFault, Settled
<1> QED BY <1>1, <1>2, <1>3 DEF Course

LEMMA TearCourse == Course /\ Tear => Course'
<1> SUFFICES ASSUME Course, Tear PROVE Course' OBVIOUS
<1>1. Shape' BY DEF Tear, Removing, Swept, Course, Shape, Orderly
<1>2. Orderly' BY DEF Tear, Removing, Swept, Course, Shape, Orderly, ReturnsClean
<1>3. OneFault' BY DEF Tear, Removing, Swept, Course, Shape, Orderly, OneFault, Settled
<1> QED BY <1>1, <1>2, <1>3 DEF Course

LEMMA SweepCourse == Course /\ Sweep => Course'
<1> SUFFICES ASSUME Course, Sweep PROVE Course' OBVIOUS
<1>1. Shape' BY DEF Sweep, Swept, Course, Shape, Orderly
<1>2. Orderly' BY DEF Sweep, Swept, Course, Shape, Orderly, ReturnsClean
<1>3. OneFault' BY DEF Sweep, Swept, Course, Shape, Orderly, OneFault, Settled
<1> QED BY <1>1, <1>2, <1>3 DEF Course

LEMMA TidyCourse == Course /\ Tidy => Course'
<1> SUFFICES ASSUME Course, Tidy PROVE Course' OBVIOUS
<1>1. Shape' BY DEF Tidy, Course, Shape, Orderly
<1>2. Orderly' BY DEF Tidy, Course, Shape, Orderly, ReturnsClean
<1>3. OneFault' BY DEF Tidy, Course, Shape, Orderly, OneFault, Settled
<1> QED BY <1>1, <1>2, <1>3 DEF Course

LEMMA FailCourse == Course /\ Fail => Course'
<1> SUFFICES ASSUME Course, Fail PROVE Course' OBVIOUS
<1>1. Shape' BY DEF Fail, Removing, Swept, Course, Shape, Orderly
<1>2. Orderly' BY DEF Fail, Removing, Swept, Course, Shape, Orderly, ReturnsClean
<1>3. OneFault' BY DEF Fail, Removing, Swept, Course, Shape, Orderly, OneFault, Settled
<1> QED BY <1>1, <1>2, <1>3 DEF Course

LEMMA InterruptCourse == Course /\ Interrupt => Course'
<1> SUFFICES ASSUME Course, Interrupt PROVE Course' OBVIOUS
<1>1. Shape' BY DEF Interrupt, Course, Shape, Orderly
<1>2. Orderly' BY DEF Interrupt, Course, Shape, Orderly, ReturnsClean
<1>3. OneFault' BY DEF Interrupt, Course, Shape, Orderly, OneFault, Settled
<1> QED BY <1>1, <1>2, <1>3 DEF Course

LEMMA KillCourse == Course /\ Kill => Course'
<1> SUFFICES ASSUME Course, Kill PROVE Course' OBVIOUS
<1>1. Shape' BY DEF Kill, Course, Shape, Orderly
<1>2. Orderly' BY DEF Kill, Course, Shape, Orderly, ReturnsClean
<1>3. OneFault' BY DEF Kill, Course, Shape, Orderly, OneFault, Settled
<1> QED BY <1>1, <1>2, <1>3 DEF Course

LEMMA NextCourse == Course /\ [PublicationNext]_publicationVars => Course'
<1> SUFFICES ASSUME Course, [PublicationNext]_publicationVars PROVE Course' OBVIOUS
<1>1. CASE UNCHANGED publicationVars
  BY <1>1 DEF publicationVars, Course, Shape, Orderly, OneFault, Settled, ReturnsClean
<1>2. CASE PublicationNext
  BY <1>2, StartCourse, BuildCourse, MoveAsideCourse, PublishCourse,
     PublishFailsCourse, RestoreCourse, LeaveCourse, TearCourse,
     SweepCourse, TidyCourse, FailCourse, InterruptCourse, KillCourse DEF PublicationNext
<1> QED BY <1>1, <1>2

(* Every call, of any writer, runs its course as described.                *)
THEOREM CourseKept == PublicationSpec => []Course
BY InitCourse, NextCourse, PTL DEF PublicationSpec

(* A call that raises for one failed file operation leaves the name as it  *)
(* found it, or with its own bundle; a writer that accepts only an empty   *)
(* directory may have removed it (write_experiment and                     *)
(* rewrite_report_in_bundle of artifacts.py, write_inspection of           *)
(* inspection.py).                                                         *)
THEOREM FailuresRestore == PublicationSpec => []FailureRestores
<1>1. Course => FailureRestores
  BY DEF Course, Shape, OneFault, Settled, FailureRestores
<1> QED BY <1>1, CourseKept, PTL

(* A call that returns has published its bundle and left nothing else of   *)
(* its own behind, whatever it met on the way.                             *)
THEOREM ReturnsAreClean == PublicationSpec => []ReturnsClean
<1>1. Course => ReturnsClean BY DEF Course, Orderly
<1> QED BY <1>1, CourseKept, PTL
=============================================================================
