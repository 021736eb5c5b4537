-------------------------------- MODULE Schedule --------------------------------
(***************************************************************************)
(* What a simulation is given to run on: the bounds of its span, the duty  *)
(* of a reviewer and the proposals that arrive, made from a local calendar *)
(* and weekly templates in a zone that changes its offset once             *)
(* (simulation/calendars.py, capacity.py, arrivals.py).  Instants are      *)
(* elapsed time; a reading is what the wall clock shows.  The offset       *)
(* changes by one unit, so the wall clock never goes back over a midnight  *)
(* that it had passed.                                                     *)
(***************************************************************************)
EXTENDS Integers, SequencesExt, FiniteSetsExt

CONSTANTS
  Day,           \* units of a local day
  WeekDays,      \* days of a week
  Transitions,   \* instants at which the offset may change
  Starts,        \* readings at which an observation may start
  MaxDays,       \* bound on the days of horizon and of warm-up
  Templates,     \* training weeks: readings within the week, in order
  MaxAdded,      \* bound on the arrivals added to a week
  MaxWindows,    \* bound on the windows of a calendar
  MaxAbsences,   \* bound on the absences of a reviewer
  AbsenceTimes   \* instants or readings that may bound an absence

ASSUME ScheduleAssumption ==
  /\ Day \in Nat \ {0} /\ WeekDays \in Nat \ {0} /\ MaxDays \in Nat \ {0}
  /\ Transitions \subseteq Int /\ Starts \subseteq Int /\ AbsenceTimes \subseteq Int
  /\ Templates \subseteq Seq(0 .. Day * WeekDays - 1) /\ MaxAdded \in Nat
  /\ MaxWindows \in Nat /\ MaxAbsences \in Nat

VARIABLES
  zone,      \* when the offset changes, and by how much
  span,      \* warm-up and observation, Unbounded before
  reviewer,  \* calendar, absences and duty of a reviewer, Unresolved before
  demand     \* sampled weeks and proposals, Unresolved before

scheduleVars == <<zone, span, reviewer, demand>>

Week == Day * WeekDays

Unbounded == <<>>

Unresolved == [none |-> TRUE]

Raised == [raised |-> TRUE]

Zones == [at : Transitions, shift : {-1, 0, 1}]

ScheduleInit(z) ==
  zone = z /\ span = Unbounded /\ reviewer = Unresolved /\ demand = Unresolved

(* The reading of the wall clock at an instant.                            *)
Local(t) == t + (IF t >= zone.at THEN zone.shift ELSE 0)

(* The instants a reading may mean: with the offset before the change, and *)
(* with the one after it.                                                  *)
Interpretations(local) == {local, local - zone.shift}

Candidates(local) == {t \in Interpretations(local) : Local(t) = local}

(* _local_to_utc: neither skipped nor repeated.                            *)
Strict(local) == Cardinality(Candidates(local)) = 1

ToUTC(local) == CHOOSE t \in Candidates(local) : TRUE

(* The instants of both folds: they differ where the reading is not strict. *)
Folds(local) == IF Strict(local) THEN Candidates(local) ELSE Interpretations(local)

(* materialize_run_bounds, then the span of ExperimentRun.                 *)
Bound(start, horizon, warmup) ==
  LET end == start + horizon * Day
      first == start - warmup * Day IN
  /\ span = Unbounded
  /\ Strict(start) /\ Strict(end) /\ Strict(first)
  /\ span' = <<ToUTC(first), ToUTC(end)>>
  /\ UNCHANGED <<zone, reviewer, demand>>

-----------------------------------------------------------------------------
(* Mutant: a shift of the evening before is forgotten.                     *)
DaysOfSpan == Local(span[1]) \div Day .. Local(span[2]) \div Day

(* The local days of the span, and the one before for its overnight shifts. *)
Days == Local(span[1]) \div Day - 1 .. Local(span[2]) \div Day

Windows ==
  {w \in [weekday : 0 .. WeekDays - 1, start : 0 .. Day - 1, end : 0 .. Day - 1] :
     w.start # w.end}

Calendars == UNION {kSubset(count, Windows) : count \in 0 .. MaxWindows}

Overnight(w) == w.end < w.start

(* The shifts of a calendar that may overlap the span.                     *)
Shifts(windows) ==
  {s \in UNION {{[start |-> d * Day + w.start,
                  end |-> (IF Overnight(w) THEN d + 1 ELSE d) * Day + w.end] :
                   d \in {e \in Days : e % WeekDays = w.weekday}} : w \in windows} :
     Min(Folds(s.start)) < span[2] /\ Max(Folds(s.end)) > span[1]}

Clipped(shift) == <<Max({span[1], ToUTC(shift.start)}), Min({span[2], ToUTC(shift.end)})>>

(* The intervals that are left of the shifts in the span.                  *)
Proper(shifts) == {i \in {Clipped(s) : s \in shifts} : i[1] < i[2]}

Before(i, j) == i[1] < j[1] \/ (i[1] = j[1] /\ i[2] < j[2])

(* By start; among those with one start the order does not matter.         *)
Sorted(intervals) ==
  [n \in 1 .. Cardinality(intervals) |->
     CHOOSE i \in intervals : Cardinality({j \in intervals : Before(j, i)}) = n - 1]

(* An interval that overlaps or touches the last one becomes one with it.  *)
Joined(seq, i) ==
  IF seq # <<>> /\ i[1] <= Last(seq)[2]
  THEN [seq EXCEPT ![Len(seq)] = <<@[1], Max({@[2], i[2]})>>]
  ELSE Append(seq, i)

Merged(intervals) ==
  LET merged[n \in 0 .. Len(intervals)] ==
        IF n = 0 THEN <<>> ELSE Joined(merged[n - 1], intervals[n]) IN
  merged[Len(intervals)]

(* A boundary with an offset of its own is an instant, else a reading.     *)
Boundaries == [naive : BOOLEAN, at : AbsenceTimes]

Valid(boundary) == boundary.naive => Strict(boundary.at)

Instant(boundary) == IF boundary.naive THEN ToUTC(boundary.at) ELSE boundary.at

ValidAbsence(a) ==
  Valid(a.start) /\ Valid(a.end) /\ Instant(a.start) < Instant(a.end)

Absences == [start : Boundaries, end : Boundaries]

AbsenceLists == UNION {[1 .. count -> Absences] : count \in 0 .. MaxAbsences}

(* What an absence leaves of an interval joins what it left so far.        *)
Remaining(seq, i, from, until) ==
  IF until <= i[1] \/ from >= i[2] THEN Append(seq, i)
  ELSE LET early == IF i[1] < from THEN Append(seq, <<i[1], from>>) ELSE seq IN
       IF until < i[2] THEN Append(early, <<until, i[2]>>) ELSE early

Without(intervals, absence) ==
  LET left[n \in 0 .. Len(intervals)] ==
        IF n = 0 THEN <<>>
        ELSE Remaining(left[n - 1], intervals[n], Instant(absence.start), Instant(absence.end)) IN
  left[Len(intervals)]

Present(intervals, absences) ==
  LET present[n \in 0 .. Len(absences)] ==
        IF n = 0 THEN intervals ELSE Without(present[n - 1], absences[n]) IN
  present[Len(absences)]

(* materialize_reviewers for one reviewer: the windows of the calendar its *)
(* name resolves to, whose absences the reviewer's own follow.             *)
Materialize(windows, absences) ==
  LET shifts == Shifts(windows) IN
  /\ span # Unbounded /\ reviewer = Unresolved
  /\ reviewer' =
       IF \/ \E n \in DOMAIN absences : ~ValidAbsence(absences[n])
          \/ \E s \in shifts : ~Strict(s.start) \/ ~Strict(s.end)
       THEN Raised
       ELSE [windows |-> windows, absences |-> absences,
             duty |-> Present(Merged(Sorted(Proper(shifts))), absences)]
  /\ UNCHANGED <<zone, span, demand>>

-----------------------------------------------------------------------------
(* The weeks the span meets.                                               *)
Weeks == Local(span[1]) \div Week .. (Local(span[2]) - 1) \div Week

Pool == UNION {{t[n] : n \in DOMAIN t} : t \in Templates}

(* What is drawn for a week: one of the templates, and how many arrivals   *)
(* of the pool are added to it, and which.                                 *)
Draws ==
  [baseline : Templates,
   added : UNION {[1 .. count -> Pool] : count \in 0 .. MaxAdded}]

Reading(week, offset) == week * Week + offset

Arrivals(draws) ==
  UNION {{[id |-> <<kind, week, n>>, local |-> Reading(week, draws[week][kind][n])] :
            n \in DOMAIN draws[week][kind]} :
         kind \in {"baseline", "added"}, week \in DOMAIN draws}

(* generate_proposals: every arrival of a sampled week must be strict, in  *)
(* the span or not.  A replacement changes the origin and nothing else.    *)
Generate(draws) ==
  LET arrivals == Arrivals(draws) IN
  /\ span # Unbounded /\ demand = Unresolved
  /\ demand' =
       IF \E a \in arrivals : ~Strict(a.local) THEN Raised
       ELSE [draws |-> draws,
             proposals |->
               {[id |-> a.id, ready_at |-> ToUTC(a.local) - span[1]] :
                  a \in {b \in arrivals : ToUTC(b.local) >= span[1] /\ ToUTC(b.local) < span[2]}}]
  /\ UNCHANGED <<zone, span, reviewer>>

(* Duty and demand do not depend on each other: one of them is looked at.  *)
ScheduleNext ==
  \/ \E start \in Starts, horizon \in 1 .. MaxDays, warmup \in 0 .. MaxDays :
       Bound(start, horizon, warmup)
  \/ /\ demand = Unresolved
     /\ \E windows \in Calendars, absences \in AbsenceLists : Materialize(windows, absences)
  \/ /\ reviewer = Unresolved /\ span # Unbounded
     /\ \E draws \in [Weeks -> Draws] : Generate(draws)

ScheduleSpec == (\E z \in Zones : ScheduleInit(z)) /\ [][ScheduleNext]_scheduleVars

-----------------------------------------------------------------------------
Instants == span[1] .. span[2] - 1

(* The wall clock shows a time of the window.                              *)
InWindow(w, local) ==
  LET today == (local \div Day) % WeekDays = w.weekday
      yesterday == (local \div Day - 1) % WeekDays = w.weekday
      time == local % Day IN
  IF Overnight(w)
  THEN (today /\ time >= w.start) \/ (yesterday /\ time < w.end)
  ELSE today /\ time \in w.start .. w.end - 1

(* An instant is not before a boundary.                                    *)
Reached(boundary, t) == (IF boundary.naive THEN Local(t) ELSE t) >= boundary.at

Away(absence, t) == Reached(absence.start, t) /\ ~Reached(absence.end, t)

DutyTrue ==
  LET duty == reviewer.duty
      covers(n, t) == duty[n][1] <= t /\ t < duty[n][2] IN
  /\ \A n \in DOMAIN duty :
       /\ span[1] <= duty[n][1] /\ duty[n][1] < duty[n][2] /\ duty[n][2] <= span[2]
       /\ n > 1 => duty[n - 1][2] < duty[n][1]
  /\ \A t \in Instants :
       (\E n \in DOMAIN duty : covers(n, t))
         <=> /\ \E w \in reviewer.windows : InWindow(w, Local(t))
             /\ \A n \in DOMAIN reviewer.absences : ~Away(reviewer.absences[n], t)

DemandTrue ==
  \A t \in Instants :
    LET week == Local(t) \div Week IN
    /\ week \in DOMAIN demand.draws
    /\ {p.id : p \in {q \in demand.proposals : q.ready_at = t - span[1]}}
         = UNION {{<<kind, week, n>> :
                     n \in {m \in DOMAIN demand.draws[week][kind] :
                              Reading(week, demand.draws[week][kind][m]) = Local(t)}} :
                  kind \in {"baseline", "added"}}

(***************************************************************************)
(* What is materialised is what the wall clock says at every instant of    *)
(* the span, with a change of the offset before, in or after it: a         *)
(* reviewer is on duty exactly while the clock shows a time of a window    *)
(* and no absence holds, in separate intervals of the span, as FifoEngine  *)
(* assumes of its duty; and a proposal becomes ready exactly when the      *)
(* clock shows an arrival of the week that was drawn, none lost or doubled *)
(* where the span cuts a week (calendars.py:148-202, arrivals.py:119-154). *)
(***************************************************************************)
ScheduleTrue ==
  /\ "duty" \in DOMAIN reviewer => DutyTrue
  /\ "proposals" \in DOMAIN demand => DemandTrue
=============================================================================
