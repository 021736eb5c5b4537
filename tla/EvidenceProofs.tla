----------------------------- MODULE EvidenceProofs -----------------------------
(***************************************************************************)
(* Proofs about Evidence for any bounds on time, events, reviews, lags and *)
(* replications: what the features of a collection certify happened, what  *)
(* calibration calls informed was, a verdict rests on replications that    *)
(* ran to their end, a summary counts what its simulations came to, and    *)
(* duty and demand are what the wall clock says.                           *)
(***************************************************************************)
EXTENDS Evidence, FiniteSetTheorems, TLAPS

-----------------------------------------------------------------------------
(* Sets of natural numbers have a least element, so that the first of      *)
(* several rows is what it is said to be.                                  *)
Below == {ss \in Nat \X Nat : ss[1] < ss[2]}

LEMMA LeastExists ==
  ASSUME NEW S, S \subseteq Nat, S # {}
  PROVE  \E x \in S : \A y \in S : x <= y
<1>1. IsWellFoundedOn(Below, Nat)
  BY NatLessThanWellFounded DEF OpToRel, Below
<1> HIDE DEF Below
<1>2. PICK x \in S : \A y \in S : <<y, x>> \notin Below BY <1>1, WFMin
<1>3. \A y \in S : ~(y < x) BY <1>2 DEF Below
<1> QED BY <1>3

LEMMA FirstIs ==
  ASSUME NEW is, is \subseteq Nat, is # {}
  PROVE  First(is) \in is /\ \A j \in is : First(is) <= j
BY LeastExists DEF First

LEMMA FirstExtends ==
  ASSUME NEW n \in Nat, NEW S, S \subseteq 1 .. n, S # {},
         NEW T, S \subseteq T, T \subseteq S \cup {n + 1}
  PROVE  First(T) = First(S)
<1>0. n + 1 \in Nat /\ 1 .. n \subseteq Nat OBVIOUS
<1>1. S \subseteq Nat /\ T \subseteq Nat /\ T # {} BY <1>0
<1>2. PICK a : a = First(S) /\ a \in S /\ \A j \in S : a <= j
  BY <1>1, FirstIs
<1>3. PICK b : b = First(T) /\ b \in T /\ \A j \in T : b <= j
  BY <1>1, FirstIs
<1>4. a \in 1 .. n /\ b <= a /\ b \in Nat BY <1>2, <1>3
<1>5. b \in S BY <1>3, <1>4
<1> QED BY <1>2, <1>3, <1>4, <1>5

LEMMA SomeFinite ==
  ASSUME NEW n \in Nat, NEW S, S \subseteq 1 .. n
  PROVE  IsFiniteSet(S) /\ Cardinality(S) \in Nat
<1>1. IsFiniteSet(1 .. n) BY FS_Interval
<1>2. IsFiniteSet(S) BY <1>1, FS_Subset
<1> QED BY <1>2, FS_CardinalityType

LEMMA AtMostOne ==
  ASSUME NEW n \in Nat, NEW S, S \subseteq 1 .. n, ~(Cardinality(S) > 1)
  PROVE  \A i, j \in S : i = j
<1>1. IsFiniteSet(S) /\ Cardinality(S) \in Nat BY SomeFinite
<1>2. Cardinality(S) = 0 \/ Cardinality(S) = 1 BY <1>1
<1>3. CASE Cardinality(S) = 0 BY <1>1, <1>3, FS_EmptySet
<1>4. CASE Cardinality(S) = 1
  <2>1. \E x : S = {x} BY <1>1, <1>4, FS_Singleton
  <2> QED BY <2>1
<1> QED BY <1>2, <1>3, <1>4

-----------------------------------------------------------------------------
(* Cohort and Features: the types of GitHub's side and of what is          *)
(* collected.                                                              *)
States == {"APPROVED", "CHANGES_REQUESTED", "COMMENTED", "DISMISSED"}

Pulls == [updated_at : Nat, draft : BOOLEAN, open : BOOLEAN, merged_at : Nat \cup {Never}]

Events == [event : EventNames, at : Nat]

Reviews == [human : BOOLEAN, state : States, at : Nat]

Batches(Rows) == [rows : Seq(Rows), complete : BOOLEAN]

(* GitHub's side: what happened is ordered in time, and a pull request     *)
(* that was merged stays merged.                                           *)
Source ==
  /\ clock \in Nat /\ pull \in Pulls /\ events \in Seq(Events) /\ reviews \in Seq(Reviews)
  /\ pull.updated_at <= clock
  /\ \A i \in DOMAIN events : events[i].at <= pull.updated_at
  /\ \A i, j \in DOMAIN events : i <= j => events[i].at <= events[j].at
  /\ \A i \in DOMAIN reviews : reviews[i].at <= clock
  /\ \A i, j \in DOMAIN reviews : i <= j => reviews[i].at <= reviews[j].at
  /\ pull.merged_at # Never => ~pull.open /\ pull.merged_at <= clock

(* What a snapshot of the pull request that may be as old as some instant  *)
(* says of it.                                                             *)
RowTrue(row, since) ==
  /\ row \in Pulls
  /\ Untouched(row) => FirstReady = CreatedAt
  /\ row.merged_at # Never => row.merged_at = pull.merged_at
  /\ row.merged_at = Never /\ pull.merged_at # Never => pull.merged_at >= since

Rowed == {"reviews", "events", "collected", "built", "calibrated"}

Reviewed == Rowed \ {"reviews"}

Gathered == Reviewed \ {"events"}

Steps == {"all", "open", "refused"} \cup Rowed

(* The kept row is the newest of those read, the only one if it is clear.  *)
Newest(batch) ==
  /\ batch.row \in batch.read /\ batch.clear \in BOOLEAN
  /\ \A q \in batch.read : q.updated_at <= batch.row.updated_at
  /\ batch.clear =>
       \A q \in batch.read : q.updated_at = batch.row.updated_at => q = batch.row

Listing ==
  step = "open" =>
    /\ listed = [row |-> listed.row, clear |-> listed.clear, read |-> listed.read,
                 at |-> listed.at]
    /\ listed.at \in Nat /\ listed.at <= clock /\ clock <= listed.at + MaxLag
    /\ \A row \in listed.read : RowTrue(row, listed.at)
    /\ Newest(listed)

Snapshot ==
  step \in Rowed =>
    /\ data.observed_at \in Nat /\ data.observed_at <= clock
    /\ RowTrue(data.row, data.observed_at - MaxLag)

(* A fetched review was submitted as it is; it may since be dismissed.  A  *)
(* complete collection lacks only what came after its page.                *)
ReviewsTrue ==
  step \in Reviewed =>
    /\ data.reviews \in Batches(Reviews)
    /\ data.reviews_observed_at \in Nat
    /\ data.observed_at <= data.reviews_observed_at
    /\ data.reviews_observed_at - MaxLag <= clock
    /\ Len(data.reviews.rows) <= Len(reviews)
    /\ \A i \in DOMAIN data.reviews.rows :
         LET row == data.reviews.rows[i] IN
         /\ row.human = reviews[i].human /\ row.at = reviews[i].at
         /\ \/ row.state = reviews[i].state
            \/ reviews[i].state = "DISMISSED" /\ row.state # "COMMENTED"
    /\ data.reviews.complete =>
         \A i \in DOMAIN reviews :
           i > Len(data.reviews.rows) =>
             reviews[i].at >= data.reviews_observed_at - MaxLag

(* The lifecycle is read last, and nothing happens afterwards.             *)
LifecycleTrue ==
  step \in Gathered =>
    /\ data.lifecycle \in Batches(Events)
    /\ data.lifecycle.complete => data.lifecycle.rows = events
    /\ data.events_at \in Nat /\ data.reviews_observed_at <= data.events_at
    /\ \A i \in DOMAIN data.lifecycle.rows :
         data.lifecycle.rows[i].at <= data.events_at
    /\ data.policy \in Policies
    /\ data.feature = Attribution(data.row, data.lifecycle, data.policy)

Built ==
  step \in {"built", "calibrated"} =>
    /\ data.complete
    /\ features.cutoff \in Cutoffs /\ features.horizon \in Horizons
    /\ features.weeks = CompleteWeeks(features.cutoff)
    /\ features.row = Row(features.cutoff, features.horizon)

Calibrated ==
  step = "calibrated" /\ model.evidence_status = "empirically_informed" =>
    EvidenceFlags = {}

FInv ==
  /\ Source /\ step \in Steps
  /\ data = [row |-> data.row, observed_at |-> data.observed_at,
             complete |-> data.complete, reviews |-> data.reviews,
             reviews_observed_at |-> data.reviews_observed_at,
             lifecycle |-> data.lifecycle, events_at |-> data.events_at,
             policy |-> data.policy, feature |-> data.feature]
  /\ Listing /\ Snapshot /\ ReviewsTrue /\ LifecycleTrue
  /\ Built /\ Calibrated

-----------------------------------------------------------------------------
(* The first instant of readiness, from the first change of draft.         *)
LEMMA TogglesAreRows ==
  ASSUME events \in Seq(Events)
  PROVE  Toggles \subseteq DOMAIN events /\ Toggles \subseteq Nat
BY DEF Toggles, Named

LEMMA SnapshotReady ==
  ASSUME Source PROVE Untouched(pull) => FirstReady = CreatedAt
<1> SUFFICES ASSUME Untouched(pull) PROVE FirstReady = CreatedAt OBVIOUS
<1>1. ~pull.draft /\ pull.updated_at = 0 BY DEF Untouched, CreatedAt
<1>2. CASE Toggles = {} BY <1>1, <1>2 DEF FirstReady, BornDraft
<1>3. CASE Toggles # {}
  <2>1. First(Toggles) \in DOMAIN events
    BY <1>3, TogglesAreRows, FirstIs DEF Source
  <2>2. \A i \in DOMAIN events : events[i] \in Events /\ events[i].at <= 0
    BY <1>1 DEF Source
  <2>3. \A i \in DOMAIN events : events[i].at = 0 BY <2>2 DEF Events
  <2> QED BY <1>3, <2>1, <2>3 DEF FirstReady, FirstAt, CreatedAt
<1> QED BY <1>2, <1>3

(* Once a pull request was ready, it keeps its first readiness.            *)
LEMMA ReadinessStays ==
  ASSUME Source, NEW event \in EventNames, Happen(event), FirstReady = CreatedAt
  PROVE  FirstReady' = CreatedAt
<1> DEFINE e == [event |-> event, at |-> clock]
<1>1. events' = Append(events, e) /\ Legal(event) BY DEF Happen
<1>2. /\ events \in Seq(Events) /\ e \in Events /\ events' \in Seq(Events)
      /\ Len(events) \in Nat
      /\ DOMAIN events = 1 .. Len(events)
      /\ DOMAIN events' = 1 .. Len(events) + 1
      /\ events'[Len(events) + 1] = e
      /\ \A i \in DOMAIN events : events'[i] = events[i]
  BY <1>1 DEF Source, Events
<1> DEFINE T == Toggles
           U == Toggles'
<1>3. /\ T \subseteq U /\ U \subseteq T \cup {Len(events) + 1}
      /\ T \subseteq 1 .. Len(events)
      /\ T \subseteq Nat /\ U \subseteq Nat
  BY <1>2 DEF Toggles, Named
<1>4. First(Toggles)' = First(U) BY DEF First
<1>5. CASE T # {}
  <2>1. First(U) = First(T) BY <1>2, <1>3, <1>5, FirstExtends
  <2>2. First(T) \in DOMAIN events BY <1>2, <1>3, <1>5, FirstIs
  <2>3. events'[First(U)] = events[First(T)] BY <1>2, <2>1, <2>2
  <2>4. BornDraft' = BornDraft
    BY <1>3, <1>4, <1>5, <2>3 DEF BornDraft
  <2>5. FirstAt(events, Toggles)' = FirstAt(events, Toggles)
    BY <1>4, <2>3 DEF FirstAt
  <2> QED BY <1>3, <1>5, <2>4, <2>5 DEF FirstReady
<1>6. CASE T = {}
  <2>1. ~pull.draft
    BY <1>6 DEF FirstReady, BornDraft, CreatedAt, Never, Source
  <2>2. event # "ready_for_review" BY <1>1, <2>1 DEF Legal
  <2>3. CASE U = {}
    <3>1. pull'.draft = (pull.draft \/ event = "converted_to_draft")
      BY <2>2 DEF Happen
    <3>2. event # "converted_to_draft"
      BY <1>2, <2>3 DEF Toggles, Named
    <3> QED BY <2>1, <2>3, <3>1, <3>2 DEF FirstReady, BornDraft
  <2>4. CASE U # {}
    <3>1. First(U) = Len(events) + 1 BY <1>3, <1>6, <2>4, FirstIs
    <3>2. events'[First(U)].event # "ready_for_review" BY <1>2, <2>2, <3>1
    <3> QED BY <1>4, <2>4, <3>2 DEF FirstReady, BornDraft
  <2> QED BY <2>3, <2>4
<1> QED BY <1>5, <1>6

-----------------------------------------------------------------------------
(* While it is collected, the pull request lives on: what was read stays   *)
(* true of it.                                                             *)
LEMMA SourceStep ==
  ASSUME FInv, step \in {"all", "open", "reviews", "events"},
         UNCHANGED <<step, listed, data, features, model>>,
         Source', clock <= clock',
         clock' = clock \/ (step = "open" => clock' <= listed.at + MaxLag),
         FirstReady = CreatedAt => FirstReady' = CreatedAt,
         \/ pull'.merged_at = pull.merged_at
         \/ pull.merged_at = Never /\ pull'.merged_at >= clock,
         Len(reviews) <= Len(reviews'),
         \A i \in DOMAIN reviews :
           /\ reviews'[i].human = reviews[i].human
           /\ reviews'[i].at = reviews[i].at
           /\ \/ reviews'[i].state = reviews[i].state
              \/ /\ reviews'[i].state = "DISMISSED"
                 /\ reviews[i].state \in {"APPROVED", "CHANGES_REQUESTED"},
         \A i \in DOMAIN reviews' : i > Len(reviews) => reviews'[i].at >= clock
  PROVE  FInv'
<1>1. /\ clock \in Nat /\ clock' \in Nat /\ MaxLag \in Nat
      /\ pull.merged_at \in Nat \cup {Never} /\ pull'.merged_at \in Nat \cup {Never}
      /\ Len(reviews) \in Nat /\ DOMAIN reviews = 1 .. Len(reviews)
      /\ Len(reviews') \in Nat /\ DOMAIN reviews' = 1 .. Len(reviews')
  BY CohortAssumption DEF FInv, Source, Pulls
<1>2. ASSUME NEW row, NEW since \in Int, since <= clock, RowTrue(row, since)
      PROVE  RowTrue(row, since)'
  BY <1>1, <1>2 DEF RowTrue, Untouched
<1>3. Listing'
  <2> SUFFICES ASSUME step = "open" PROVE Listing'
    BY DEF Listing
  <2>1. Listing /\ listed.at \in Nat /\ listed.at <= clock BY DEF FInv, Listing
  <2>2. PICK since : since = listed.at OBVIOUS
  <2>3. \A row \in listed.read : RowTrue(row, since)
    BY <2>1, <2>2 DEF Listing
  <2>4. ASSUME NEW row \in listed.read PROVE RowTrue(row, since)'
    BY <1>1, <1>2, <2>1, <2>2, <2>3
  <2>5. \A row \in listed'.read : RowTrue(row, listed.at)'
    BY <2>2, <2>4
  <2>6. listed.at <= clock' /\ clock' <= listed.at + MaxLag
    BY <1>1, <2>1 DEF Listing
  <2>7. Newest(listed)' BY <2>1 DEF Listing, Newest
  <2> QED BY <2>1, <2>5, <2>6, <2>7 DEF Listing
<1>4. Snapshot'
  <2> SUFFICES ASSUME step \in Rowed
               PROVE  /\ data.observed_at \in Nat
                      /\ data.observed_at <= clock'
                      /\ RowTrue(data.row, data.observed_at - MaxLag)'
    BY DEF Snapshot
  <2>1. /\ data.observed_at \in Nat /\ data.observed_at <= clock
        /\ RowTrue(data.row, data.observed_at - MaxLag)
    BY DEF FInv, Snapshot
  <2>2. PICK row, since : row = data.row /\ since = data.observed_at - MaxLag
    OBVIOUS
  <2>3. RowTrue(row, since)' BY <1>1, <1>2, <2>1, <2>2
  <2>4. RowTrue(data.row, data.observed_at - MaxLag)' BY <2>2, <2>3
  <2> QED BY <1>1, <2>1, <2>4
<1>5. ReviewsTrue'
  <2> SUFFICES ASSUME step \in Reviewed
               PROVE  ReviewsTrue'
    BY DEF ReviewsTrue
  <2>1. PICK rows, complete, o :
          /\ rows = data.reviews.rows /\ complete = data.reviews.complete
          /\ o = data.reviews_observed_at
    OBVIOUS
  <2>2. /\ data.reviews \in Batches(Reviews) /\ o \in Nat
        /\ data.observed_at <= o /\ o - MaxLag <= clock
        /\ rows \in Seq(Reviews) /\ Len(rows) \in Nat /\ Len(rows) <= Len(reviews)
        /\ DOMAIN rows = 1 .. Len(rows)
    BY <2>1 DEF FInv, ReviewsTrue, Batches
  <2>3. \A i \in DOMAIN rows :
          /\ rows[i].human = reviews[i].human /\ rows[i].at = reviews[i].at
          /\ \/ rows[i].state = reviews[i].state
             \/ reviews[i].state = "DISMISSED" /\ rows[i].state # "COMMENTED"
    BY <2>1 DEF FInv, ReviewsTrue
  <2>4. \A i \in DOMAIN rows :
          /\ rows[i].human = reviews'[i].human /\ rows[i].at = reviews'[i].at
          /\ \/ rows[i].state = reviews'[i].state
             \/ reviews'[i].state = "DISMISSED" /\ rows[i].state # "COMMENTED"
    BY <1>1, <2>2, <2>3
  <2>5. complete => \A i \in DOMAIN reviews' :
                      i > Len(rows) => reviews'[i].at >= o - MaxLag
    <3> SUFFICES ASSUME complete, NEW i \in DOMAIN reviews', i > Len(rows)
                 PROVE  reviews'[i].at >= o - MaxLag
      OBVIOUS
    <3>1. reviews'[i].at \in Nat
      <4>1. reviews' \in Seq(Reviews) BY DEF Source
      <4>2. reviews'[i] \in Reviews BY <4>1
      <4> QED BY <4>2 DEF Reviews
    <3>2. CASE i <= Len(reviews)
      <4>1. i \in DOMAIN reviews BY <1>1, <3>2
      <4>2. reviews[i].at >= o - MaxLag
        BY <2>1, <4>1 DEF FInv, ReviewsTrue
      <4> QED BY <4>1, <4>2
    <3>3. CASE ~(i <= Len(reviews))
      <4>1. reviews'[i].at >= clock BY <1>1, <3>3
      <4> QED BY <1>1, <2>2, <3>1, <4>1
    <3> QED BY <3>2, <3>3
  <2> QED
    BY <1>1, <2>1, <2>2, <2>4, <2>5 DEF ReviewsTrue, FInv
<1>6. LifecycleTrue' /\ Built' /\ Calibrated'
  BY DEF LifecycleTrue, Built, Calibrated, Gathered, Reviewed, Rowed
<1> QED BY <1>3, <1>4, <1>5, <1>6 DEF FInv

LEMMA TickStep ==
  ASSUME FInv, step \in {"all", "open", "reviews", "events"}, Tick,
         UNCHANGED <<features, model>>
  PROVE  FInv'
<1>1. /\ clock' = clock + 1 /\ pull' = pull /\ events' = events /\ reviews' = reviews
      /\ UNCHANGED <<step, listed, data, features, model>>
  BY DEF Tick
<1>2. Source
  BY DEF FInv
<1>3. Source'
  <2>1. clock \in Nat /\ pull.updated_at \in Nat
        /\ pull.merged_at \in Nat \cup {Never}
    BY <1>2 DEF Source, Pulls
  <2>2. \A i \in DOMAIN reviews : reviews[i].at \in Nat
    <3>1. \A i \in DOMAIN reviews : reviews[i] \in Reviews BY <1>2 DEF Source
    <3> QED BY <3>1 DEF Reviews
  <2> QED BY <1>1, <1>2, <2>1, <2>2 DEF Source
<1>4. FirstReady' = FirstReady BY <1>1 DEF FirstReady, BornDraft, Toggles
<1>5. clock <= clock' /\ (step = "open" => clock' <= listed.at + MaxLag)
  <2>1. clock \in Nat /\ MaxLag \in Nat BY <1>2, CohortAssumption DEF Source
  <2>2. step = "open" => clock < listed.at + MaxLag /\ listed.at \in Nat
    BY DEF Tick, FInv, Listing
  <2> QED BY <1>1, <2>1, <2>2
<1>6. Len(reviews) <= Len(reviews')
      /\ \A i \in DOMAIN reviews' : ~(i > Len(reviews))
  BY <1>1, <1>2 DEF Source
<1> QED BY <1>1, <1>3, <1>4, <1>5, <1>6, SourceStep

LEMMA HappenStep ==
  ASSUME FInv, step \in {"all", "open", "reviews", "events"},
         NEW event \in EventNames, Happen(event), UNCHANGED <<features, model>>
  PROVE  FInv'
<1> DEFINE e == [event |-> event, at |-> clock]
<1>1. /\ events' = Append(events, e) /\ Legal(event)
      /\ pull' = [updated_at |-> clock,
                  draft |-> event # "ready_for_review"
                              /\ (pull.draft \/ event = "converted_to_draft"),
                  open |-> event = "reopened"
                             \/ (pull.open /\ event \notin {"closed", "merged"}),
                  merged_at |-> IF event = "merged" THEN clock ELSE pull.merged_at]
      /\ UNCHANGED <<clock, reviews, step, listed, data, features, model>>
  BY DEF Happen
<1>2. Source BY DEF FInv
<1>3. /\ clock \in Nat /\ pull.updated_at \in Nat /\ pull.updated_at <= clock
      /\ pull.draft \in BOOLEAN /\ pull.open \in BOOLEAN
      /\ pull.merged_at \in Nat \cup {Never}
      /\ pull.merged_at # Never => ~pull.open /\ pull.merged_at <= clock
  BY <1>2 DEF Source, Pulls
<1>4. /\ pull' \in Pulls /\ pull'.updated_at = clock
      /\ pull'.merged_at # Never => ~pull'.open /\ pull'.merged_at <= clock
      /\ \/ pull'.merged_at = pull.merged_at
         \/ pull.merged_at = Never /\ pull'.merged_at >= clock
  BY <1>1, <1>3 DEF Pulls, Legal, EventNames, Never
<1>5. Source'
  <2>1. /\ events \in Seq(Events) /\ e \in Events /\ events' \in Seq(Events)
        /\ Len(events) \in Nat /\ DOMAIN events = 1 .. Len(events)
        /\ DOMAIN events' = 1 .. Len(events) + 1
        /\ events'[Len(events) + 1] = e
        /\ \A i \in DOMAIN events : events'[i] = events[i]
    BY <1>1, <1>2, <1>3 DEF Source, Events
  <2>2. \A i \in DOMAIN events : events[i].at \in Nat /\ events[i].at <= clock
    <3>1. \A i \in DOMAIN events : events[i] \in Events /\ events[i].at <= pull.updated_at
      BY <1>2 DEF Source
    <3>2. \A i \in DOMAIN events : events[i].at \in Nat BY <3>1 DEF Events
    <3> QED BY <1>3, <3>1, <3>2
  <2>3. \A i \in DOMAIN events' : events'[i].at <= clock
    BY <1>3, <2>1, <2>2
  <2>4. \A i, j \in DOMAIN events : i <= j => events[i].at <= events[j].at
    BY <1>2 DEF Source
  <2>5. \A i, j \in DOMAIN events' : i <= j => events'[i].at <= events'[j].at
    BY <1>3, <2>1, <2>2, <2>4
  <2> QED BY <1>1, <1>2, <1>4, <2>1, <2>3, <2>5 DEF Source
<1>6. FirstReady = CreatedAt => FirstReady' = CreatedAt
  BY <1>2, ReadinessStays
<1>7. clock <= clock' BY <1>1, <1>3
<1>8. Len(reviews) <= Len(reviews')
      /\ \A i \in DOMAIN reviews' : ~(i > Len(reviews))
  BY <1>1, <1>2 DEF Source
<1> QED BY <1>1, <1>4, <1>5, <1>6, <1>7, <1>8, SourceStep

LEMMA SubmitStep ==
  ASSUME FInv, step \in {"all", "open", "reviews", "events"},
         NEW human \in BOOLEAN, NEW state \in ReviewStates, Submit(human, state),
         UNCHANGED <<features, model>>
  PROVE  FInv'
<1> DEFINE e == [human |-> human, state |-> state, at |-> clock]
<1>1. /\ reviews' = Append(reviews, e)
      /\ pull' = [pull EXCEPT !.updated_at = clock]
      /\ UNCHANGED <<clock, events, step, listed, data, features, model>>
  BY DEF Submit
<1>2. Source BY DEF FInv
<1>3. /\ clock \in Nat /\ pull \in Pulls /\ pull.updated_at \in Nat
      /\ pull.updated_at <= clock /\ pull.merged_at \in Nat \cup {Never}
      /\ pull.merged_at # Never => ~pull.open /\ pull.merged_at <= clock
  BY <1>2 DEF Source, Pulls
<1>4. /\ pull' \in Pulls /\ pull'.updated_at = clock
      /\ pull'.draft = pull.draft
      /\ pull'.open = pull.open /\ pull'.merged_at = pull.merged_at
  BY <1>1, <1>3 DEF Pulls
<1>5. /\ e \in Reviews /\ reviews' \in Seq(Reviews)
      /\ Len(reviews) \in Nat /\ DOMAIN reviews = 1 .. Len(reviews)
      /\ Len(reviews') = Len(reviews) + 1
      /\ DOMAIN reviews' = 1 .. Len(reviews) + 1
      /\ reviews'[Len(reviews) + 1] = e
      /\ \A i \in DOMAIN reviews : reviews'[i] = reviews[i]
  BY <1>1, <1>2, <1>3, CohortAssumption DEF Source, Reviews, States
<1>6. \A i \in DOMAIN reviews : reviews[i].at \in Nat /\ reviews[i].at <= clock
  <2>1. \A i \in DOMAIN reviews : reviews[i] \in Reviews /\ reviews[i].at <= clock
    BY <1>2 DEF Source
  <2> QED BY <2>1 DEF Reviews
<1>7. Source'
  <2>1. \A i \in DOMAIN reviews' : reviews'[i].at <= clock BY <1>3, <1>5, <1>6
  <2>2. \A i, j \in DOMAIN reviews : i <= j => reviews[i].at <= reviews[j].at
    BY <1>2 DEF Source
  <2>3. \A i, j \in DOMAIN reviews' : i <= j => reviews'[i].at <= reviews'[j].at
    BY <1>3, <1>5, <1>6, <2>2
  <2>4. \A i \in DOMAIN events : events[i].at <= clock
    <3>1. \A i \in DOMAIN events : events[i] \in Events /\ events[i].at <= pull.updated_at
      BY <1>2 DEF Source
    <3>2. \A i \in DOMAIN events : events[i].at \in Nat BY <3>1 DEF Events
    <3> QED BY <1>3, <3>1, <3>2
  <2> QED BY <1>1, <1>2, <1>3, <1>4, <1>5, <2>1, <2>3, <2>4 DEF Source
<1>8. FirstReady' = FirstReady
  BY <1>1, <1>4 DEF FirstReady, BornDraft, Toggles
<1>9. \A i \in DOMAIN reviews' : i > Len(reviews) => reviews'[i].at >= clock
  BY <1>3, <1>5
<1>10. clock <= clock' /\ Len(reviews) <= Len(reviews') BY <1>1, <1>3, <1>5
<1> QED BY <1>1, <1>4, <1>5, <1>7, <1>8, <1>9, <1>10, SourceStep

LEMMA DismissStep ==
  ASSUME FInv, step \in {"all", "open", "reviews", "events"},
         NEW k \in DOMAIN reviews, Dismiss(k), UNCHANGED <<features, model>>
  PROVE  FInv'
<1>1. /\ reviews[k].state \in {"APPROVED", "CHANGES_REQUESTED"}
      /\ reviews' = [reviews EXCEPT ![k].state = "DISMISSED"]
      /\ pull' = [pull EXCEPT !.updated_at = clock]
      /\ UNCHANGED <<clock, events, step, listed, data, features, model>>
  BY DEF Dismiss
<1>2. Source BY DEF FInv
<1>3. /\ clock \in Nat /\ pull \in Pulls /\ pull.updated_at \in Nat
      /\ pull.updated_at <= clock /\ pull.merged_at \in Nat \cup {Never}
      /\ pull.merged_at # Never => ~pull.open /\ pull.merged_at <= clock
  BY <1>2 DEF Source, Pulls
<1>4. /\ pull' \in Pulls /\ pull'.updated_at = clock
      /\ pull'.draft = pull.draft
      /\ pull'.open = pull.open /\ pull'.merged_at = pull.merged_at
  BY <1>1, <1>3 DEF Pulls
<1>5. /\ reviews \in Seq(Reviews) /\ reviews[k] \in Reviews
      /\ Len(reviews) \in Nat /\ DOMAIN reviews = 1 .. Len(reviews)
  BY <1>2 DEF Source
<1>6. /\ DOMAIN reviews' = DOMAIN reviews
      /\ \A i \in DOMAIN reviews : i # k => reviews'[i] = reviews[i]
      /\ reviews'[k] = [reviews[k] EXCEPT !.state = "DISMISSED"]
  BY <1>1, <1>5
<1>7. /\ reviews'[k] \in Reviews /\ reviews'[k].human = reviews[k].human
      /\ reviews'[k].at = reviews[k].at /\ reviews'[k].state = "DISMISSED"
  BY <1>5, <1>6 DEF Reviews, States
<1>8. reviews' \in Seq(Reviews) /\ Len(reviews') = Len(reviews)
  <2>1. reviews' \in [1 .. Len(reviews) -> Reviews]
    <3>1. \A i \in DOMAIN reviews : reviews'[i] \in Reviews
      BY <1>5, <1>6, <1>7
    <3> QED BY <1>1, <1>5, <1>6, <3>1
  <2> QED BY <1>5, <2>1
<1>9. \A i \in DOMAIN reviews :
        /\ reviews'[i].human = reviews[i].human /\ reviews'[i].at = reviews[i].at
        /\ \/ reviews'[i].state = reviews[i].state
           \/ /\ reviews'[i].state = "DISMISSED"
              /\ reviews[i].state \in {"APPROVED", "CHANGES_REQUESTED"}
  BY <1>1, <1>6, <1>7
<1>10. Source'
  <2>1. \A i \in DOMAIN events : events[i].at <= clock
    <3>1. \A i \in DOMAIN events : events[i] \in Events /\ events[i].at <= pull.updated_at
      BY <1>2 DEF Source
    <3>2. \A i \in DOMAIN events : events[i].at \in Nat BY <3>1 DEF Events
    <3> QED BY <1>3, <3>1, <3>2
  <2> QED BY <1>1, <1>2, <1>3, <1>4, <1>6, <1>8, <1>9, <2>1 DEF Source
<1>11. FirstReady' = FirstReady
  BY <1>1, <1>4 DEF FirstReady, BornDraft, Toggles
<1>12. /\ clock <= clock' /\ Len(reviews) <= Len(reviews')
       /\ \A i \in DOMAIN reviews' : ~(i > Len(reviews))
  BY <1>1, <1>3, <1>5, <1>6, <1>8
<1> QED BY <1>1, <1>4, <1>9, <1>10, <1>11, <1>12, SourceStep

-----------------------------------------------------------------------------
(* What the collection reads is what is there.                             *)
LEMMA ListAllStep ==
  ASSUME FInv, ListAll, UNCHANGED <<features, model>> PROVE FInv'
<1>1. /\ step = "all" /\ step' = "open"
      /\ listed' = [row |-> pull, clear |-> TRUE, read |-> {pull}, at |-> clock]
      /\ UNCHANGED <<clock, pull, events, reviews, data, features, model>>
  BY DEF ListAll, sourceVars
<1>2. /\ Source /\ clock \in Nat /\ pull \in Pulls /\ pull.updated_at \in Nat
      /\ MaxLag \in Nat
  BY CohortAssumption DEF FInv, Source, Pulls
<1>3. Source' BY <1>1, <1>2 DEF Source
<1>4. FirstReady' = FirstReady BY <1>1 DEF FirstReady, BornDraft, Toggles
<1>5. RowTrue(pull, clock)
  BY <1>2, SnapshotReady DEF RowTrue
<1>6. Listing'
  <2>1. RowTrue(pull, clock)' BY <1>1, <1>4, <1>5 DEF RowTrue, Untouched
  <2>2. \A row \in listed'.read : RowTrue(row, listed.at)' BY <1>1, <2>1
  <2>3. Newest(listed)' BY <1>1, <1>2 DEF Newest
  <2> QED BY <1>1, <1>2, <2>2, <2>3 DEF Listing
<1> QED
  BY <1>1, <1>3, <1>6
     DEF FInv, Snapshot, ReviewsTrue, LifecycleTrue, Built, Calibrated,
         Gathered, Reviewed, Rowed, Steps

(* One more row, whenever it was listed, and the kept one is the newest.   *)
LEMMA KeptNewest ==
  ASSUME NEW batch, NEW row, NEW next \in Kept(batch, row), Newest(batch),
         batch = [row |-> batch.row, clear |-> batch.clear, read |-> batch.read,
                  at |-> batch.at],
         \A q \in batch.read \cup {row} : q.updated_at \in Nat
  PROVE  /\ Newest(next) /\ next.at = batch.at /\ next.read = batch.read \cup {row}
         /\ next = [row |-> next.row, clear |-> next.clear, read |-> next.read,
                    at |-> next.at]
<1>1. PICK r \in LatestOf({batch.row, row}) :
        next = [batch EXCEPT !.row = r,
                             !.clear = batch.clear /\ ~Conflict({batch.row, row}),
                             !.read = batch.read \cup {row}]
  BY DEF Kept
<1>2. PICK c : c = (batch.clear /\ ~Conflict({batch.row, row})) OBVIOUS
<1>3. /\ next.row = r /\ next.clear = c /\ next.at = batch.at
      /\ next.read = batch.read \cup {row}
      /\ next = [row |-> next.row, clear |-> next.clear, read |-> next.read,
                 at |-> next.at]
  BY <1>1, <1>2
<1>4. /\ batch.row \in batch.read /\ batch.clear \in BOOLEAN
      /\ \A q \in batch.read : q.updated_at <= batch.row.updated_at
      /\ batch.clear =>
           \A q \in batch.read : q.updated_at = batch.row.updated_at => q = batch.row
  BY DEF Newest
<1>5. /\ r = batch.row \/ r = row
      /\ batch.row.updated_at <= r.updated_at /\ row.updated_at <= r.updated_at
  BY DEF LatestOf
<1>6. c => batch.row = row \/ batch.row.updated_at # row.updated_at
  BY <1>2 DEF Conflict
<1>7. \A q \in batch.read \cup {row} : q.updated_at <= r.updated_at
  BY <1>4, <1>5
<1>8. c => \A q \in batch.read \cup {row} : q.updated_at = r.updated_at => q = r
  BY <1>2, <1>4, <1>5, <1>6
<1>9. c \in BOOLEAN BY <1>2, <1>4
<1>10. r \in batch.read \cup {row} BY <1>4, <1>5
<1>11. Newest(next) BY <1>3, <1>7, <1>8, <1>9, <1>10 DEF Newest
<1> QED BY <1>3, <1>11

LEMMA ListOpenStep ==
  ASSUME FInv, ListOpen, UNCHANGED <<features, model>> PROVE FInv'
<1>1. /\ step = "open" /\ step' = "open"
      /\ UNCHANGED <<clock, pull, events, reviews, data, features, model>>
  BY DEF ListOpen, sourceVars
<1>2. PICK row \in listed.read \cup {pull} : listed' \in Kept(listed, row)
  BY DEF ListOpen
<1>3. /\ Source /\ clock \in Nat /\ Listing
      /\ listed.at \in Nat /\ listed.at <= clock /\ clock <= listed.at + MaxLag
      /\ pull.merged_at \in Nat \cup {Never}
  BY <1>1 DEF FInv, Source, Listing, Pulls
<1>4. RowTrue(pull, listed.at) BY <1>3, SnapshotReady DEF RowTrue, Source
<1>5. \A q \in listed.read \cup {row} : RowTrue(q, listed.at)
  BY <1>1, <1>2, <1>3, <1>4 DEF Listing
<1>6. \A q \in listed.read \cup {row} : q.updated_at \in Nat
  BY <1>5 DEF RowTrue, Pulls
<1>7. /\ Newest(listed') /\ listed'.at = listed.at
      /\ listed'.read = listed.read \cup {row}
      /\ listed' = [row |-> listed'.row, clear |-> listed'.clear,
                    read |-> listed'.read, at |-> listed'.at]
  <2>1. Newest(listed) BY <1>1, <1>3 DEF Listing
  <2>2. PICK b, n : b = listed /\ n = listed' OBVIOUS
  <2>3. /\ Newest(n) /\ n.at = b.at /\ n.read = b.read \cup {row}
        /\ n = [row |-> n.row, clear |-> n.clear, read |-> n.read, at |-> n.at]
    BY <1>1, <1>2, <1>3, <1>6, <2>1, <2>2, KeptNewest DEF Listing
  <2> QED BY <2>2, <2>3
<1>8. FirstReady' = FirstReady BY <1>1 DEF FirstReady, BornDraft, Toggles
<1>9. Source' BY <1>1, <1>3 DEF Source
<1>10. Listing'
  <2>1. PICK since : since = listed.at OBVIOUS
  <2>2. \A q \in listed'.read : RowTrue(q, since)'
    BY <1>1, <1>5, <1>7, <1>8, <2>1 DEF RowTrue, Untouched
  <2>3. \A q \in listed'.read : RowTrue(q, listed.at)' BY <1>7, <2>1, <2>2
  <2>4. Newest(listed)' BY <1>7 DEF Newest
  <2> QED BY <1>1, <1>3, <1>7, <2>3, <2>4 DEF Listing
<1> QED
  BY <1>1, <1>9, <1>10
     DEF FInv, Snapshot, ReviewsTrue, LifecycleTrue, Built, Calibrated,
         Gathered, Reviewed, Rowed, Steps

LEMMA ReconcileStep ==
  ASSUME FInv, Reconcile, UNCHANGED <<features, model>> PROVE FInv'
<1>1. /\ step = "open" /\ step' = "reviews"
      /\ UNCHANGED <<clock, pull, events, reviews, features, model>>
  BY DEF Reconcile, sourceVars
<1>2. PICK c : data' = [data EXCEPT !.row = listed.row, !.observed_at = clock,
                                    !.complete = c]
  BY DEF Reconcile
<1>3. /\ Source /\ clock \in Nat /\ MaxLag \in Nat /\ pull.merged_at \in Nat \cup {Never}
      /\ listed.at \in Nat /\ clock <= listed.at + MaxLag
      /\ RowTrue(listed.row, listed.at)
  BY <1>1, CohortAssumption DEF FInv, Source, Listing, Newest, Pulls
<1>4. /\ data'.row = listed.row /\ data'.observed_at = clock
      /\ data' = [row |-> data'.row, observed_at |-> data'.observed_at,
                  complete |-> data'.complete, reviews |-> data'.reviews,
                  reviews_observed_at |-> data'.reviews_observed_at,
                  lifecycle |-> data'.lifecycle, events_at |-> data'.events_at,
                  policy |-> data'.policy, feature |-> data'.feature]
  BY <1>2 DEF FInv
<1>5. FirstReady' = FirstReady BY <1>1 DEF FirstReady, BornDraft, Toggles
<1>6. Source' BY <1>1, <1>3 DEF Source
<1>7. Snapshot'
  <2>1. PICK row, since : row = listed.row /\ since = clock - MaxLag OBVIOUS
  <2>2. RowTrue(row, since)
    <3>1. row.merged_at = Never /\ pull.merged_at # Never =>
            pull.merged_at >= listed.at /\ pull.merged_at \in Nat
      BY <1>3, <2>1 DEF RowTrue, Never
    <3>2. row.merged_at = Never /\ pull.merged_at # Never => pull.merged_at >= since
      BY <1>3, <2>1, <3>1
    <3> QED BY <1>3, <2>1, <3>2 DEF RowTrue
  <2>3. RowTrue(row, since)' BY <1>1, <1>5, <2>2 DEF RowTrue, Untouched
  <2>4. RowTrue(data.row, data.observed_at - MaxLag)' BY <1>1, <1>4, <2>1, <2>3
  <2> QED BY <1>1, <1>3, <1>4, <2>4 DEF Snapshot
<1> QED
  BY <1>1, <1>4, <1>6, <1>7
     DEF FInv, Listing, ReviewsTrue, LifecycleTrue, Built, Calibrated,
         Gathered, Reviewed, Rowed, Steps

(* A collection holds all the rows, or the first of them.                  *)
LEMMA FetchedRows ==
  ASSUME NEW Rows, NEW rows \in Seq(Rows), NEW batch \in Fetched(rows)
  PROVE  /\ batch \in Batches(Rows)
         /\ batch.complete => batch.rows = rows
         /\ Len(batch.rows) <= Len(rows)
         /\ \A i \in DOMAIN batch.rows : i \in DOMAIN rows /\ batch.rows[i] = rows[i]
<1>1. Len(rows) \in Nat /\ DOMAIN rows = 1 .. Len(rows) OBVIOUS
<1>2. CASE batch = [rows |-> rows, complete |-> TRUE]
  BY <1>1, <1>2 DEF Batches
<1>3. ASSUME NEW n \in 0 .. Len(rows),
             batch = [rows |-> SubSeq(rows, 1, n), complete |-> FALSE]
      PROVE  /\ batch \in Batches(Rows)
             /\ batch.complete => batch.rows = rows
             /\ Len(batch.rows) <= Len(rows)
             /\ \A i \in DOMAIN batch.rows : i \in DOMAIN rows /\ batch.rows[i] = rows[i]
  <2>1. /\ SubSeq(rows, 1, n) \in Seq(Rows)
        /\ Len(SubSeq(rows, 1, n)) = n
        /\ DOMAIN SubSeq(rows, 1, n) = 1 .. n
        /\ \A i \in 1 .. n : SubSeq(rows, 1, n)[i] = rows[i]
    BY <1>1
  <2> QED BY <1>1, <1>3, <2>1 DEF Batches
<1> QED BY <1>2, <1>3 DEF Fetched

LEMMA FetchReviewsStep ==
  ASSUME FInv, FetchReviews, UNCHANGED <<features, model>> PROVE FInv'
<1>1. /\ step = "reviews" /\ step' = "events"
      /\ UNCHANGED <<clock, pull, events, reviews, listed, features, model>>
  BY DEF FetchReviews, sourceVars
<1>2. PICK batch \in Fetched(reviews), observed \in Stamps(clock) :
        data' = [data EXCEPT !.reviews = batch, !.reviews_observed_at = observed]
  BY DEF FetchReviews
<1>3. /\ Source /\ clock \in Nat /\ reviews \in Seq(Reviews) /\ MaxLag \in Nat
      /\ data.observed_at \in Nat /\ data.observed_at <= clock
      /\ RowTrue(data.row, data.observed_at - MaxLag)
  BY <1>1, CohortAssumption DEF FInv, Source, Snapshot, Rowed
<1>4. observed \in Nat /\ clock <= observed /\ observed - MaxLag <= clock
  BY <1>3 DEF Stamps
<1>5. /\ data'.row = data.row /\ data'.observed_at = data.observed_at
      /\ data'.reviews = batch /\ data'.reviews_observed_at = observed
      /\ data' = [row |-> data'.row, observed_at |-> data'.observed_at,
                  complete |-> data'.complete, reviews |-> data'.reviews,
                  reviews_observed_at |-> data'.reviews_observed_at,
                  lifecycle |-> data'.lifecycle, events_at |-> data'.events_at,
                  policy |-> data'.policy, feature |-> data'.feature]
  BY <1>2 DEF FInv
<1>6. Source' BY <1>1, <1>3 DEF Source
<1>7. Snapshot'
  <2>1. PICK row, since : row = data.row /\ since = data.observed_at - MaxLag OBVIOUS
  <2>2. RowTrue(row, since) BY <1>3, <2>1
  <2>3. RowTrue(row, since)'
    BY <1>1, <2>2 DEF RowTrue, Untouched, FirstReady, BornDraft, Toggles
  <2>4. RowTrue(data.row, data.observed_at - MaxLag)' BY <1>5, <2>1, <2>3
  <2> QED BY <1>1, <1>3, <1>5, <2>4 DEF Snapshot
<1>8. ReviewsTrue'
  <2>1. /\ batch \in Batches(Reviews) /\ Len(batch.rows) <= Len(reviews)
        /\ batch.complete => batch.rows = reviews
        /\ \A i \in DOMAIN batch.rows : i \in DOMAIN reviews /\ batch.rows[i] = reviews[i]
    BY <1>3, FetchedRows
  <2>2. batch.complete => \A i \in DOMAIN reviews : ~(i > Len(batch.rows))
    BY <1>3, <2>1
  <2> QED BY <1>1, <1>3, <1>4, <1>5, <2>1, <2>2 DEF ReviewsTrue
<1> QED
  BY <1>1, <1>5, <1>6, <1>7, <1>8
     DEF FInv, Listing, LifecycleTrue, Built, Calibrated, Gathered, Reviewed,
         Rowed, Steps

LEMMA FetchEventsStep ==
  ASSUME FInv, FetchEvents, UNCHANGED <<features, model>> PROVE FInv'
<1>1. /\ step = "events" /\ step' = "collected" /\ clock >= data.reviews_observed_at
      /\ UNCHANGED <<clock, pull, events, reviews, listed, features, model>>
  BY DEF FetchEvents, sourceVars
<1>2. PICK batch \in Fetched(events), policy \in Policies :
        data' = [data EXCEPT !.lifecycle = batch, !.events_at = clock, !.policy = policy,
                             !.feature = Attribution(data.row, batch, policy)]
  BY DEF FetchEvents
<1>3. /\ Source /\ clock \in Nat /\ events \in Seq(Events)
      /\ Snapshot /\ ReviewsTrue
  BY DEF FInv, Source
<1>4. /\ data'.row = data.row /\ data'.observed_at = data.observed_at
      /\ data'.reviews = data.reviews
      /\ data'.reviews_observed_at = data.reviews_observed_at
      /\ data'.lifecycle = batch /\ data'.events_at = clock /\ data'.policy = policy
      /\ data'.feature = Attribution(data.row, batch, policy)
      /\ data' = [row |-> data'.row, observed_at |-> data'.observed_at,
                  complete |-> data'.complete, reviews |-> data'.reviews,
                  reviews_observed_at |-> data'.reviews_observed_at,
                  lifecycle |-> data'.lifecycle, events_at |-> data'.events_at,
                  policy |-> data'.policy, feature |-> data'.feature]
  BY <1>2 DEF FInv
<1>5. Source' BY <1>1, <1>3 DEF Source
<1>6. Snapshot'
  <2>1. PICK row, since : row = data.row /\ since = data.observed_at - MaxLag OBVIOUS
  <2>2. RowTrue(row, since) BY <1>1, <1>3, <2>1 DEF Snapshot, Rowed
  <2>3. RowTrue(row, since)'
    BY <1>1, <2>2 DEF RowTrue, Untouched, FirstReady, BornDraft, Toggles
  <2>4. RowTrue(data.row, data.observed_at - MaxLag)' BY <1>4, <2>1, <2>3
  <2> QED BY <1>1, <1>3, <1>4, <2>4 DEF Snapshot, Rowed
<1>7. ReviewsTrue'
  BY <1>1, <1>3, <1>4 DEF ReviewsTrue, Reviewed, Rowed
<1>8. LifecycleTrue'
  <2>1. /\ batch \in Batches(Events)
        /\ batch.complete => batch.rows = events
        /\ \A i \in DOMAIN batch.rows : i \in DOMAIN events /\ batch.rows[i] = events[i]
    BY <1>3, FetchedRows
  <2>2. \A i \in DOMAIN events : events[i].at <= clock
    <3>1. /\ clock \in Nat /\ pull.updated_at \in Nat /\ pull.updated_at <= clock
          /\ \A i \in DOMAIN events : events[i] \in Events /\ events[i].at <= pull.updated_at
      BY <1>3 DEF Source, Pulls
    <3>2. \A i \in DOMAIN events : events[i].at \in Nat BY <3>1 DEF Events
    <3> QED BY <3>1, <3>2
  <2>3. Attribution(data.row, data.lifecycle, data.policy)' = Attribution(data.row, batch, policy)
    BY <1>4 DEF Attribution, ReadinessBasis, FitEligible
  <2>4. \A i \in DOMAIN batch.rows : batch.rows[i].at <= clock BY <2>1, <2>2
  <2>5. clock \in Nat /\ data.reviews_observed_at <= clock
    BY <1>1, <1>3 DEF Source, ReviewsTrue, Reviewed, Rowed
  <2>6. data'.feature = Attribution(data.row, data.lifecycle, data.policy)'
    BY <1>4, <2>3
  <2>7. events' = events BY <1>1
  <2>8. /\ data'.lifecycle \in Batches(Events)
        /\ data'.lifecycle.complete => data'.lifecycle.rows = events'
    <3>1. data'.lifecycle = batch BY <1>4
    <3> QED BY ONLY <2>1, <2>7, <3>1
  <2>9. data'.events_at \in Nat /\ data'.reviews_observed_at <= data'.events_at
    BY <1>4, <2>5
  <2>10. \A i \in DOMAIN data'.lifecycle.rows :
           data'.lifecycle.rows[i].at <= data'.events_at
    BY <1>4, <2>4
  <2>11. data'.policy \in Policies BY <1>4
  <2> QED BY ONLY <2>6, <2>8, <2>9, <2>10, <2>11 DEF LifecycleTrue
<1> QED
  BY <1>1, <1>4, <1>5, <1>6, <1>7, <1>8
     DEF FInv, Listing, Built, Calibrated, Rowed, Steps

(* A row is made of what is collected only.                                *)
LEMMA RowSame ==
  ASSUME data' = data, NEW cutoff, NEW horizon
  PROVE  Row(cutoff, horizon)' = Row(cutoff, horizon)
<1>1. \A name : KnownRows(name, cutoff)' = KnownRows(name, cutoff)
  BY DEF KnownRows
<1>2. Readiness(cutoff)' = Readiness(cutoff)
  BY <1>1 DEF Readiness
<1>3. \A ready : Substantive(ready, cutoff)' = Substantive(ready, cutoff)
  BY DEF Substantive
<1>4. \A end : Mature(end, cutoff)' = Mature(end, cutoff) BY DEF Mature
<1> QED BY <1>2, <1>3, <1>4 DEF Row

(* What is built and calibrated of it leaves it alone.                     *)
LEMMA BuildStep ==
  ASSUME FInv, NEW cutoff \in Cutoffs, NEW horizon \in Horizons,
         Build(cutoff, horizon)
  PROVE  FInv'
<1>1. /\ step = "collected" /\ step' \in {"built", "refused"}
      /\ step' = "built" =>
           data.complete /\ features' = [cutoff |-> cutoff, horizon |-> horizon,
                                         weeks |-> CompleteWeeks(cutoff),
                                         row |-> Row(cutoff, horizon)]
      /\ UNCHANGED <<clock, pull, events, reviews, listed, data, model>>
  BY DEF Build, sourceVars
<1>2. FirstReady' = FirstReady BY <1>1 DEF FirstReady, BornDraft, Toggles
<1>3. Source' /\ Listing' BY <1>1 DEF FInv, Source, Listing
<1>4. Snapshot'
  BY <1>1, <1>2 DEF FInv, Snapshot, RowTrue, Untouched, Rowed
<1>5. ReviewsTrue' /\ LifecycleTrue'
  BY <1>1 DEF FInv, ReviewsTrue, LifecycleTrue, Attribution, ReadinessBasis,
     FitEligible, Gathered, Reviewed, Rowed
<1>6. Built'
  <2>1. Row(cutoff, horizon)' = Row(cutoff, horizon) BY <1>1, RowSame
  <2>2. CompleteWeeks(cutoff)' = CompleteWeeks(cutoff) BY DEF CompleteWeeks
  <2> SUFFICES ASSUME step' = "built" PROVE Built'
    BY <1>1 DEF Built
  <2>3. /\ features'.cutoff = cutoff /\ features'.horizon = horizon
        /\ features'.weeks = CompleteWeeks(cutoff)
        /\ features'.row = Row(cutoff, horizon)
    BY <1>1
  <2>4. Row(features.cutoff, features.horizon)' = Row(cutoff, horizon)
    BY <2>1, <2>3
  <2>5. CompleteWeeks(features.cutoff)' = CompleteWeeks(cutoff)
    BY <2>3 DEF CompleteWeeks
  <2> QED BY <1>1, <2>3, <2>4, <2>5 DEF Built
<1> QED
  BY <1>1, <1>3, <1>4, <1>5, <1>6 DEF FInv, Calibrated, Rowed, Steps

LEMMA CalibrateStep == ASSUME FInv, Calibrate PROVE FInv'
<1>1. /\ step = "built" /\ step' \in {"calibrated", "refused"}
      /\ UNCHANGED <<clock, pull, events, reviews, listed, data, features>>
  BY DEF Calibrate, sourceVars
<1>2. FirstReady' = FirstReady BY <1>1 DEF FirstReady, BornDraft, Toggles
<1>3. Source' /\ Listing' BY <1>1 DEF FInv, Source, Listing
<1>4. Snapshot'
  BY <1>1, <1>2 DEF FInv, Snapshot, RowTrue, Untouched, Rowed
<1>5. ReviewsTrue' /\ LifecycleTrue'
  BY <1>1 DEF FInv, ReviewsTrue, LifecycleTrue, Attribution, ReadinessBasis,
     FitEligible, Gathered, Reviewed, Rowed
<1>6. Built'
  <2>1. PICK c, h : c = features.cutoff /\ h = features.horizon OBVIOUS
  <2>2. Row(c, h)' = Row(c, h) BY <1>1, RowSame
  <2>3. Row(features.cutoff, features.horizon)' = Row(c, h) BY <1>1, <2>1, <2>2
  <2> QED BY <1>1, <2>1, <2>3 DEF FInv, Built, CompleteWeeks
<1>7. Calibrated'
  <2>1. EvidenceFlags' = EvidenceFlags BY <1>1 DEF EvidenceFlags, Decided
  <2> SUFFICES ASSUME step' = "calibrated",
                      model'.evidence_status = "empirically_informed"
               PROVE  EvidenceFlags = {}
    BY <2>1 DEF Calibrated
  <2>2. model' = [flags |-> EvidenceFlags,
                  evidence_status |-> IF EvidenceFlags = {} THEN "empirically_informed"
                                      ELSE "exploratory_only"]
    BY DEF Calibrate
  <2> QED BY <2>2
<1> QED
  BY <1>1, <1>3, <1>4, <1>5, <1>6, <1>7 DEF FInv, Rowed, Steps

-----------------------------------------------------------------------------
LEMMA InitFInv == FeaturesInit => FInv
<1> SUFFICES ASSUME FeaturesInit PROVE FInv OBVIOUS
<1>1. /\ clock = 0 /\ events = <<>> /\ reviews = <<>> /\ step = "all"
      /\ data = Uncollected
  BY DEF FeaturesInit, CohortInit, CreatedAt
<1>2. PICK draft \in BOOLEAN :
        pull = [updated_at |-> 0, draft |-> draft, open |-> TRUE, merged_at |-> Never]
  BY DEF FeaturesInit, CohortInit, CreatedAt
<1>3. events \in Seq(Events) /\ reviews \in Seq(Reviews)
      /\ DOMAIN events = {} /\ DOMAIN reviews = {}
  BY <1>1
<1>4. Source BY <1>1, <1>2, <1>3 DEF Source, Pulls
<1> QED
  BY <1>1, <1>4 DEF FInv, Uncollected, Listing, Snapshot, ReviewsTrue,
     LifecycleTrue, Built, Calibrated, Gathered, Reviewed, Rowed, Steps

LEMMA StutterFInv ==
  ASSUME FInv, UNCHANGED featuresVars PROVE FInv'
<1>1. UNCHANGED <<clock, pull, events, reviews, listed, data, step, features, model>>
  BY DEF featuresVars, cohortVars, sourceVars
<1>2. FirstReady' = FirstReady BY <1>1 DEF FirstReady, BornDraft, Toggles
<1>3. Source' /\ Listing' BY <1>1, <1>2 DEF FInv, Source, Listing, RowTrue, Untouched
<1>4. Snapshot'
  BY <1>1, <1>2 DEF FInv, Snapshot, RowTrue, Untouched
<1>5. ReviewsTrue' /\ LifecycleTrue'
  BY <1>1 DEF FInv, ReviewsTrue, LifecycleTrue, Attribution, ReadinessBasis,
     FitEligible
<1>6. Built'
  <2>1. PICK c, h : c = features.cutoff /\ h = features.horizon OBVIOUS
  <2>2. Row(c, h)' = Row(c, h) BY <1>1, RowSame
  <2>3. Row(features.cutoff, features.horizon)' = Row(c, h) BY <1>1, <2>1, <2>2
  <2> QED BY <1>1, <2>1, <2>3 DEF FInv, Built, CompleteWeeks
<1>7. Calibrated' BY <1>1 DEF FInv, Calibrated, EvidenceFlags, Decided
<1> QED BY <1>1, <1>3, <1>4, <1>5, <1>6, <1>7 DEF FInv

LEMMA NextFInv == ASSUME FInv, [FeaturesNext]_featuresVars PROVE FInv'
<1>1. CASE UNCHANGED featuresVars BY <1>1, StutterFInv
<1>2. CASE CohortNext /\ UNCHANGED <<features, model>>
  <2>1. CASE step \in {"all", "open", "reviews", "events"} /\ SourceNext
    BY <1>2, <2>1, TickStep, HappenStep, SubmitStep, DismissStep DEF SourceNext
  <2>2. CASE ListAll BY <1>2, <2>2, ListAllStep
  <2>3. CASE ListOpen BY <1>2, <2>3, ListOpenStep
  <2>4. CASE Reconcile BY <1>2, <2>4, ReconcileStep
  <2>5. CASE FetchReviews BY <1>2, <2>5, FetchReviewsStep
  <2>6. CASE FetchEvents BY <1>2, <2>6, FetchEventsStep
  <2> QED BY <1>2, <2>1, <2>2, <2>3, <2>4, <2>5, <2>6 DEF CohortNext
<1>3. ASSUME NEW cutoff \in Cutoffs, NEW horizon \in Horizons, Build(cutoff, horizon)
      PROVE  FInv'
  BY <1>3, BuildStep
<1>4. CASE Calibrate BY <1>4, CalibrateStep
<1> QED BY <1>1, <1>2, <1>3, <1>4 DEF FeaturesNext

-----------------------------------------------------------------------------
(* The features follow from the invariant.                                 *)
LEMMA Basics ==
  ASSUME FInv, step \in {"built", "calibrated"}
  PROVE  /\ Source /\ Snapshot /\ ReviewsTrue /\ LifecycleTrue /\ Built
         /\ step \in Rowed /\ step \in Reviewed /\ step \in Gathered
BY DEF FInv, Rowed, Reviewed, Gathered

(* A row that is used rests on a readiness.                                *)
LEMMA UsedRow ==
  ASSUME FInv, step \in {"built", "calibrated"},
         NEW c, c = features.cutoff, NEW h, h = features.horizon
  PROVE  /\ features.row.used <=>
              data.observed_at <= c /\ Readiness(c) \in 0 .. c
         /\ features.row.used => features.row.ready_at = Readiness(c)
<1>1. features.row = Row(c, h) BY Basics DEF Built
<1>2. c \in Nat BY Basics, FeaturesAssumption DEF Built
<1>3. data.observed_at \in Nat BY Basics DEF Snapshot
<1>4. PICK r : r = Readiness(c) OBVIOUS
<1>5. CASE data.observed_at > c \/ r \notin 0 .. c
  <2>1. features.row = [used |-> FALSE] BY <1>1, <1>4, <1>5 DEF Row
  <2> QED BY <1>2, <1>3, <1>4, <1>5, <2>1
<1>6. CASE ~(data.observed_at > c \/ r \notin 0 .. c)
  <2>1. features.row.used /\ features.row.ready_at = r
    BY <1>1, <1>4, <1>6 DEF Row
  <2> QED BY <1>2, <1>3, <1>4, <1>6, <2>1
<1> QED BY <1>5, <1>6

LEMMA KnownReadiness ==
  ASSUME FInv, step \in {"built", "calibrated"}, NEW c, Readiness(c) # Never,
         NEW ready, ready = KnownRows("ready_for_review", c)
  PROVE  /\ data.lifecycle.complete /\ data.lifecycle.rows = events
         /\ ~(Cardinality(ready) > 1)
         /\ ready # {} => KnownRows("converted_to_draft", c) = {}
         /\ ready # {} => Readiness(c) = FirstAt(events, ready)
         /\ ready = {} => /\ Readiness(c) = CreatedAt
                          /\ Untouched(data.row) \/ data.policy = "created_at_proxy"
<1>1. /\ data.lifecycle.complete
      /\ ~(Cardinality(ready) > 1)
      /\ ready # {} => KnownRows("converted_to_draft", c) = {}
      /\ ready # {} => Readiness(c) = FirstAt(data.lifecycle.rows, ready)
      /\ ready = {} => /\ Readiness(c) = CreatedAt
                       /\ Untouched(data.row) \/ data.policy = "created_at_proxy"
  BY DEF Readiness
<1>2. data.lifecycle.rows = events BY <1>1, Basics DEF LifecycleTrue
<1> QED BY <1>1, <1>2

(* One change of draft that is known is the first of all.                  *)
LEMMA FirstToggle ==
  ASSUME Source, NEW c \in Nat, NEW ready,
         ready = {i \in Named(events, "ready_for_review") : events[i].at <= c},
         ready # {}, ~(Cardinality(ready) > 1),
         \A i \in Named(events, "converted_to_draft") : ~(events[i].at <= c)
  PROVE  FirstReady = FirstAt(events, ready)
<1>1. /\ events \in Seq(Events) /\ Len(events) \in Nat
      /\ DOMAIN events = 1 .. Len(events)
      /\ \A i \in DOMAIN events : events[i] \in Events
      /\ \A i, j \in DOMAIN events : i <= j => events[i].at <= events[j].at
  BY DEF Source
<1>2. \A i \in DOMAIN events : events[i].at \in Nat BY <1>1 DEF Events
<1>3. ready \subseteq 1 .. Len(events) /\ ready \subseteq Nat /\ ready \subseteq Toggles
  BY <1>1 DEF Named, Toggles
<1>4. PICK k : k = First(ready) /\ k \in ready BY <1>3, FirstIs
<1>5. Toggles \subseteq DOMAIN events /\ Toggles \subseteq Nat BY <1>1, TogglesAreRows
<1>6. PICK t : t = First(Toggles) /\ t \in Toggles /\ \A j \in Toggles : t <= j
  BY <1>3, <1>4, <1>5, FirstIs
<1>7. t <= k /\ events[t].at <= events[k].at /\ events[k].at <= c
  BY <1>1, <1>3, <1>4, <1>5, <1>6
<1>8. events[t].at <= c BY <1>2, <1>3, <1>4, <1>5, <1>6, <1>7
<1>9. t \in ready BY <1>6, <1>8 DEF Toggles
<1>10. t = k BY <1>1, <1>3, <1>4, <1>9, AtMostOne
<1>11. events[t].event = "ready_for_review" BY <1>9 DEF Named
<1> QED
  BY <1>4, <1>6, <1>10, <1>11 DEF FirstReady, BornDraft, FirstAt

(* Under the strict policy the readiness is the first.                     *)
LEMMA StrictReadiness ==
  ASSUME FInv, step \in {"built", "calibrated"}, NEW c \in Nat, Readiness(c) # Never,
         data.policy = "strict"
  PROVE  Readiness(c) = FirstReady
<1>1. PICK ready : ready = KnownRows("ready_for_review", c) OBVIOUS
<1>2. CASE ready = {}
  <2>1. Readiness(c) = CreatedAt /\ Untouched(data.row)
    BY <1>1, <1>2, KnownReadiness
  <2> QED BY <2>1, Basics DEF Snapshot, RowTrue
<1>3. CASE ready # {}
  <2>1. /\ data.lifecycle.rows = events /\ ~(Cardinality(ready) > 1)
        /\ KnownRows("converted_to_draft", c) = {}
        /\ Readiness(c) = FirstAt(events, ready)
    BY <1>1, <1>3, KnownReadiness
  <2>2. ready = {i \in Named(events, "ready_for_review") : events[i].at <= c}
    BY <1>1, <2>1 DEF KnownRows
  <2>3. \A i \in Named(events, "converted_to_draft") : ~(events[i].at <= c)
    BY <2>1 DEF KnownRows
  <2> QED BY <1>3, <2>1, <2>2, <2>3, Basics, FirstToggle
<1> QED BY <1>2, <1>3

(* A cutoff that covers the collection knows what attribution knew.        *)
LEMMA CoveringCutoff ==
  ASSUME FInv, step = "built", data.events_at <= features.cutoff
  PROVE  /\ features.row.used <=> data.feature.fit_eligible
         /\ features.row.used => features.row.ready_at = data.feature.ready_at
<1>1. PICK c, h : c = features.cutoff /\ h = features.horizon OBVIOUS
<1>2. PICK batch, row, policy :
        batch = data.lifecycle /\ row = data.row /\ policy = data.policy
  OBVIOUS
<1>3. PICK n : n = data.events_at OBVIOUS
<1>4. /\ c \in Nat /\ n \in Nat /\ n <= c
      /\ data.observed_at \in Nat /\ data.observed_at <= n
      /\ batch \in Batches(Events) /\ policy \in Policies
      /\ \A i \in DOMAIN batch.rows : batch.rows[i].at <= n
      /\ data.feature = Attribution(row, batch, policy)
  <2>1. c \in Nat BY <1>1, Basics, FeaturesAssumption DEF Built
  <2>2. data.observed_at \in Nat BY Basics DEF Snapshot
  <2>3. data.reviews_observed_at \in Nat
        /\ data.observed_at <= data.reviews_observed_at
    BY Basics DEF ReviewsTrue
  <2>4. /\ n \in Nat /\ data.reviews_observed_at <= n
        /\ batch \in Batches(Events) /\ policy \in Policies
        /\ \A i \in DOMAIN batch.rows : batch.rows[i].at <= n
        /\ data.feature = Attribution(row, batch, policy)
    BY <1>2, <1>3, Basics DEF LifecycleTrue
  <2> QED BY <1>1, <1>2, <1>3, <2>1, <2>2, <2>3, <2>4
<1>5. /\ batch.rows \in Seq(Events) /\ batch.complete \in BOOLEAN
      /\ \A i \in DOMAIN batch.rows : batch.rows[i].at \in Nat
  <2>1. batch.rows \in Seq(Events) /\ batch.complete \in BOOLEAN BY <1>4 DEF Batches
  <2>2. \A i \in DOMAIN batch.rows : batch.rows[i] \in Events BY <2>1
  <2> QED BY <2>1, <2>2 DEF Events
<1>6. \A name : KnownRows(name, c) = Named(batch.rows, name)
  <2>1. \A i \in DOMAIN batch.rows : batch.rows[i].at <= c BY <1>4, <1>5
  <2> QED BY <1>2, <2>1 DEF KnownRows, Named
<1>7. PICK again, ready, converted :
        /\ again = Named(batch.rows, "reopened")
        /\ ready = Named(batch.rows, "ready_for_review")
        /\ converted = Named(batch.rows, "converted_to_draft")
  OBVIOUS
<1>8. /\ IsFiniteSet(ready) /\ Cardinality(ready) \in Nat
      /\ ready # {} => First(ready) \in DOMAIN batch.rows
  <2>1. /\ Len(batch.rows) \in Nat /\ ready \subseteq 1 .. Len(batch.rows)
        /\ ready \subseteq Nat /\ DOMAIN batch.rows = 1 .. Len(batch.rows)
    BY <1>5, <1>7 DEF Named
  <2> QED BY <2>1, SomeFinite, FirstIs
<1>9. Readiness(c) =
        IF \/ ~batch.complete \/ again # {} \/ Cardinality(ready) > 1
           \/ ready # {} /\ converted # {}
        THEN Never
        ELSE IF ready # {} THEN FirstAt(batch.rows, ready)
        ELSE IF Untouched(row) \/ policy = "created_at_proxy" THEN CreatedAt
        ELSE Never
  BY <1>2, <1>6, <1>7 DEF Readiness
<1>10. /\ data.feature.fit_eligible <=>
            /\ again = {} /\ Cardinality(ready) <= 1
            /\ ready = {} \/ converted = {}
            /\ batch.complete
            /\ ready # {} \/ Untouched(row) \/ policy = "created_at_proxy"
       /\ data.feature.ready_at =
            IF ready # {} THEN FirstAt(batch.rows, ready)
            ELSE IF Untouched(row) \/ policy = "created_at_proxy" THEN CreatedAt
            ELSE Never
  BY <1>4, <1>7 DEF Attribution, ReadinessBasis, FitEligible
<1>11. ready # {} => FirstAt(batch.rows, ready) \in 0 .. c
  <2>1. \A i \in DOMAIN batch.rows : batch.rows[i].at \in 0 .. c BY <1>4, <1>5
  <2> QED BY <1>8, <2>1 DEF FirstAt
<1>12. CreatedAt \in 0 .. c /\ Never \notin 0 .. c BY <1>4 DEF CreatedAt, Never
<1>13. Readiness(c) \in 0 .. c <=> data.feature.fit_eligible
  BY <1>8, <1>9, <1>10, <1>11, <1>12
<1>14. Readiness(c) \in 0 .. c => Readiness(c) = data.feature.ready_at
  BY <1>8, <1>9, <1>10, <1>12
<1> QED BY <1>1, <1>4, <1>13, <1>14, UsedRow

LEMMA FInvReadiness == ASSUME FInv PROVE ReadinessTrue
<1> SUFFICES ASSUME step = "built" PROVE ReadinessTrue BY DEF ReadinessTrue
<1>1. ASSUME features.row.used, data.policy = "strict"
      PROVE  features.row.ready_at = FirstReady
  <2>1. PICK c, h : c = features.cutoff /\ h = features.horizon OBVIOUS
  <2>2. c \in Nat BY <2>1, Basics, FeaturesAssumption DEF Built
  <2>3. Readiness(c) # Never /\ features.row.ready_at = Readiness(c)
    BY <1>1, <2>1, <2>2, UsedRow DEF Never
  <2> QED BY <1>1, <2>2, <2>3, StrictReadiness
<1> QED BY <1>1, CoveringCutoff DEF ReadinessTrue

(* A decided row, and what it says.                                        *)
LEMMA DecidedRow ==
  ASSUME FInv, step \in {"built", "calibrated"},
         features.row.used, features.row.eligible,
         NEW c, c = features.cutoff, NEW h, h = features.horizon,
         NEW r, r = features.row.ready_at, NEW is, is = Substantive(r, c)
  PROVE  /\ r \in 0 .. c /\ h \in Nat /\ c \in Nat /\ r = Readiness(c)
         /\ Mature(r + h, c)
         /\ features.row.reviewed <=>
              is # {} /\ FirstAt(data.reviews.rows, is) # Never
                /\ FirstAt(data.reviews.rows, is) <= r + h
         /\ features.row.merged <=>
              data.row.merged_at \in r .. c /\ data.row.merged_at # Never
                /\ data.row.merged_at <= r + h
<1>1. features.row = Row(c, h) /\ c \in Nat /\ h \in Nat
  BY Basics, FeaturesAssumption DEF Built
<1>2. r = Readiness(c) /\ r \in 0 .. c /\ data.observed_at <= c BY UsedRow
<1>3. data.observed_at \in Nat BY Basics DEF Snapshot
<1>4. ~(data.observed_at > c \/ r \notin 0 .. c) BY <1>1, <1>2, <1>3
<1>5. PICK mature : mature = Mature(r + h, c) OBVIOUS
<1>6. PICK first : first = IF is = {} THEN Never ELSE FirstAt(data.reviews.rows, is)
  OBVIOUS
<1>7. PICK merged :
        merged = IF data.row.merged_at \in r .. c THEN data.row.merged_at ELSE Never
  OBVIOUS
<1>8. features.row =
        [used |-> TRUE, ready_at |-> r, first_at |-> first, merged_at |-> merged,
         eligible |-> mature,
         reviewed |-> mature /\ first # Never /\ first <= r + h,
         merged |-> mature /\ merged # Never /\ merged <= r + h]
  BY <1>1, <1>2, <1>4, <1>5, <1>6, <1>7 DEF Row
<1>9. /\ features.row.eligible = mature
      /\ features.row.reviewed = (mature /\ first # Never /\ first <= r + h)
      /\ features.row.merged = (mature /\ merged # Never /\ merged <= r + h)
  BY <1>8
<1>10. mature BY <1>9
<1>11. /\ features.row.reviewed <=> first # Never /\ first <= r + h
       /\ features.row.merged <=> merged # Never /\ merged <= r + h
  BY <1>9, <1>10
<1> QED BY <1>1, <1>2, <1>5, <1>6, <1>7, <1>10, <1>11

(* The rows that were collected, against the reviews.                      *)
LEMMA CollectedRows ==
  ASSUME FInv, step \in {"built", "calibrated"}, NEW rows, rows = data.reviews.rows
  PROVE  /\ reviews \in Seq(Reviews) /\ rows \in Seq(Reviews)
         /\ Len(rows) \in Nat /\ Len(reviews) \in Nat /\ Len(rows) <= Len(reviews)
         /\ DOMAIN rows = 1 .. Len(rows) /\ DOMAIN reviews = 1 .. Len(reviews)
         /\ \A i \in DOMAIN rows :
              /\ i \in DOMAIN reviews /\ i \in Nat
              /\ rows[i].at \in Nat
              /\ rows[i].human = reviews[i].human /\ rows[i].at = reviews[i].at
              /\ \/ rows[i].state = reviews[i].state
                 \/ reviews[i].state = "DISMISSED" /\ rows[i].state # "COMMENTED"
         /\ \A i, j \in DOMAIN rows : i <= j => rows[i].at <= rows[j].at
         /\ \A i \in DOMAIN reviews : reviews[i].at \in Nat
<1>1. /\ reviews \in Seq(Reviews) /\ rows \in Seq(Reviews)
      /\ Len(rows) <= Len(reviews)
      /\ \A i \in DOMAIN rows :
           /\ rows[i].human = reviews[i].human /\ rows[i].at = reviews[i].at
           /\ \/ rows[i].state = reviews[i].state
              \/ reviews[i].state = "DISMISSED" /\ rows[i].state # "COMMENTED"
      /\ \A i, j \in DOMAIN reviews : i <= j => reviews[i].at <= reviews[j].at
  BY Basics DEF ReviewsTrue, Batches, Source
<1>2. /\ Len(rows) \in Nat /\ Len(reviews) \in Nat
      /\ DOMAIN rows = 1 .. Len(rows) /\ DOMAIN reviews = 1 .. Len(reviews)
      /\ \A i \in DOMAIN reviews : reviews[i] \in Reviews
  BY <1>1
<1>3. \A i \in DOMAIN reviews : reviews[i].at \in Nat BY <1>2 DEF Reviews
<1>4. \A i \in DOMAIN rows : i \in DOMAIN reviews /\ i \in Nat BY <1>1, <1>2
<1> QED BY <1>1, <1>2, <1>3, <1>4

(* A review that counts was submitted by a declared human.                 *)
LEMMA ReviewedIsDecided ==
  ASSUME FInv, step \in {"built", "calibrated"},
         features.row.used, features.row.eligible, features.row.reviewed
  PROVE  DecidedBetween(features.row.ready_at, features.row.ready_at + features.horizon)
<1>1. PICK c, h, r, is :
        /\ c = features.cutoff /\ h = features.horizon /\ r = features.row.ready_at
        /\ is = Substantive(r, c)
  OBVIOUS
<1>2. PICK rows : rows = data.reviews.rows OBVIOUS
<1>3. /\ r \in 0 .. c /\ h \in Nat /\ c \in Nat
      /\ is # {} /\ FirstAt(rows, is) <= r + h
  BY <1>1, <1>2, DecidedRow
<1>4. is \subseteq DOMAIN rows /\ is \subseteq Nat
  BY <1>1, <1>2, CollectedRows DEF Substantive
<1>5. PICK i : i = First(is) /\ i \in is BY <1>3, <1>4, FirstIs
<1>6. /\ rows[i].human /\ rows[i].state \in {"APPROVED", "CHANGES_REQUESTED"}
      /\ rows[i].at >= r /\ rows[i].at <= r + h
  BY <1>1, <1>2, <1>3, <1>5 DEF Substantive, FirstAt
<1>7. /\ i \in DOMAIN reviews /\ reviews[i].human /\ reviews[i].state # "COMMENTED"
      /\ reviews[i].at >= r /\ reviews[i].at <= r + h /\ reviews[i].at \in Nat
  BY <1>2, <1>4, <1>5, <1>6, CollectedRows
<1>8. reviews[i].at \in r .. r + h BY <1>3, <1>7
<1> QED BY <1>1, <1>7, <1>8 DEF DecidedBetween

(* A decision that stood when the reviews were read was not overlooked.    *)
LEMMA NothingOverlooked ==
  ASSUME FInv, step \in {"built", "calibrated"},
         features.row.used, features.row.eligible, ~features.row.reviewed
  PROVE  ~StandingBetween(features.row.ready_at,
            (features.row.ready_at + features.horizon) - 1 - MaxLag)
<1>1. PICK c, h, r, is :
        /\ c = features.cutoff /\ h = features.horizon /\ r = features.row.ready_at
        /\ is = Substantive(r, c)
  OBVIOUS
<1>2. PICK rows : rows = data.reviews.rows OBVIOUS
<1>3. /\ r \in 0 .. c /\ h \in Nat /\ c \in Nat /\ Mature(r + h, c)
      /\ ~(is # {} /\ FirstAt(rows, is) # Never /\ FirstAt(rows, is) <= r + h)
  BY <1>1, <1>2, DecidedRow
<1>4. PICK o : o = data.reviews_observed_at OBVIOUS
<1>5. /\ r + h <= c /\ data.reviews.complete /\ o \in r + h .. c /\ o \in Nat
      /\ MaxLag \in Nat
  BY <1>3, <1>4, Basics, CohortAssumption DEF Mature, ReviewsTrue
<1> SUFFICES ASSUME NEW i \in DOMAIN reviews, reviews[i].human,
                    reviews[i].state # "COMMENTED", ~Withdrawn(i),
                    reviews[i].at \in r .. (r + h) - 1 - MaxLag
             PROVE  FALSE
  BY <1>1 DEF StandingBetween
<1>6. i \in DOMAIN rows
  <2>1. i > Len(rows) => reviews[i].at >= o - MaxLag
    BY <1>2, <1>4, <1>5, Basics DEF ReviewsTrue
  <2>2. reviews[i].at \in Nat /\ reviews[i].at < o - MaxLag
    BY <1>3, <1>5, <1>2, CollectedRows
  <2>3. ~(i > Len(rows)) BY <1>3, <1>5, <2>1, <2>2
  <2> QED BY <1>2, <2>3, CollectedRows
<1>7. /\ rows[i].human /\ rows[i].state \in {"APPROVED", "CHANGES_REQUESTED"}
      /\ rows[i].at = reviews[i].at /\ rows[i].at \in Nat
      /\ rows[i].at >= r /\ rows[i].at <= c /\ rows[i].at <= r + h
  <2>1. /\ rows[i].human = reviews[i].human /\ rows[i].at = reviews[i].at
        /\ rows[i].at \in Nat
        /\ \/ rows[i].state = reviews[i].state
           \/ rows[i].state # "COMMENTED"
    BY <1>2, <1>6, CollectedRows
  <2>2. rows[i].state # "DISMISSED" BY <1>2, <1>6 DEF Withdrawn
  <2>3. rows[i] \in Reviews BY <1>2, <1>6, CollectedRows
  <2>4. rows[i].state \in {"APPROVED", "CHANGES_REQUESTED"}
    BY <2>1, <2>2, <2>3 DEF Reviews, States
  <2> QED BY <1>3, <1>5, <2>1, <2>4
<1>8. i \in is
  BY <1>1, <1>2, <1>4, <1>5, <1>6, <1>7 DEF Substantive
<1>9. is \subseteq DOMAIN rows /\ is \subseteq Nat
  BY <1>1, <1>2, CollectedRows DEF Substantive
<1>10. PICK k : k = First(is) /\ k \in is /\ k <= i BY <1>8, <1>9, FirstIs
<1>11. rows[k].at <= rows[i].at /\ rows[k].at \in Nat
  BY <1>2, <1>6, <1>9, <1>10, CollectedRows
<1>12. FirstAt(rows, is) # Never /\ FirstAt(rows, is) <= r + h
  BY <1>3, <1>7, <1>10, <1>11 DEF FirstAt, Never
<1> QED BY <1>3, <1>8, <1>12

(* A merge within the horizon is the one that happened.                    *)
LEMMA MergesTrue ==
  ASSUME FInv, step \in {"built", "calibrated"},
         features.row.used, features.row.eligible
  PROVE  /\ features.row.merged =>
              pull.merged_at \in features.row.ready_at
                                   .. features.row.ready_at + features.horizon
         /\ ~features.row.merged =>
              pull.merged_at \notin features.row.ready_at
                  .. (features.row.ready_at + features.horizon) - 1 - MaxLag
<1>1. PICK c, h, r, is :
        /\ c = features.cutoff /\ h = features.horizon /\ r = features.row.ready_at
        /\ is = Substantive(r, c)
  OBVIOUS
<1>2. PICK m, p, o :
        m = data.row.merged_at /\ p = pull.merged_at /\ o = data.observed_at
  OBVIOUS
<1>3. /\ r \in 0 .. c /\ h \in Nat /\ c \in Nat /\ Mature(r + h, c)
      /\ features.row.merged <=> m \in r .. c /\ m # Never /\ m <= r + h
  BY <1>1, <1>2, DecidedRow
<1>4. /\ o \in Nat /\ o >= r + h /\ r + h <= c /\ MaxLag \in Nat
      /\ m \in Nat \cup {Never} /\ p \in Nat \cup {Never}
      /\ m # Never => m = p
      /\ m = Never /\ p # Never => p >= o - MaxLag
  <2>1. o >= r + h /\ r + h <= c BY <1>2, <1>3 DEF Mature
  <2>2. /\ m # Never => m = p
        /\ m = Never /\ p # Never => p >= o - MaxLag
        /\ m \in Nat \cup {Never} /\ o \in Nat
    BY <1>2, Basics DEF Snapshot, RowTrue, Pulls
  <2>3. p \in Nat \cup {Never} BY <1>2, Basics DEF Source, Pulls
  <2> QED BY <2>1, <2>2, <2>3, CohortAssumption
<1>5. features.row.merged => p \in r .. r + h BY <1>3, <1>4
<1>6. ~features.row.merged => p \notin r .. (r + h) - 1 - MaxLag
  <2> SUFFICES ASSUME p \in r .. (r + h) - 1 - MaxLag
               PROVE  m \in r .. c /\ m # Never /\ m <= r + h
    BY <1>3
  <2>1. p \in Nat /\ p < r + h - MaxLag /\ p # Never BY <1>3, <1>4 DEF Never
  <2>2. m # Never BY <1>3, <1>4, <2>1
  <2> QED BY <1>3, <1>4, <2>1, <2>2
<1> QED BY <1>1, <1>2, <1>5, <1>6

LEMMA FInvOutcomes == ASSUME FInv PROVE OutcomesTrueWithinLag
<1> SUFFICES ASSUME step = "built", features.row.used, features.row.eligible
             PROVE  OutcomesTrue(MaxLag)
  BY DEF OutcomesTrueWithinLag, OutcomesTrue
<1> DEFINE ready == features.row.ready_at
           end == ready + features.horizon
           inside == end - 1 - MaxLag
<1>1. features.row.reviewed => DecidedBetween(ready, end) BY ReviewedIsDecided
<1>2. ~features.row.reviewed => ~StandingBetween(ready, inside)
  BY NothingOverlooked
<1>3. /\ features.row.merged => pull.merged_at \in ready .. end
      /\ ~features.row.merged => pull.merged_at \notin ready .. inside
  BY MergesTrue
<1> QED BY <1>1, <1>2, <1>3, Zenon DEF OutcomesTrue

(* Complete weeks are as long as they are.                                 *)
LEMMA WeeksAreLong ==
  ASSUME NEW n \in Nat, NEW length \in Nat \ {0}, NEW weeks \in Nat,
         n \div length >= weeks
  PROVE  n >= weeks * length
<1>1. PICK q : q = n \div length OBVIOUS
<1>2. q \in Nat /\ length * q <= n BY <1>1
<1>3. weeks * length <= q * length BY <1>1, <1>2
<1> QED BY <1>2, <1>3

LEMMA FInvEvidence == ASSUME FInv PROVE EvidenceEarned
<1> SUFFICES ASSUME step = "calibrated", model.evidence_status = "empirically_informed"
             PROVE  EvidenceEarned
  BY DEF EvidenceEarned
<1>1. EvidenceFlags = {} BY DEF FInv, Calibrated
<1>2. /\ features.row.used /\ features.row.eligible /\ features.row.reviewed
      /\ features.weeks >= MinWeeks
      /\ data.complete /\ data.reviews.complete /\ data.lifecycle.complete
  BY <1>1 DEF EvidenceFlags, Decided
<1>3. PICK c, h : c = features.cutoff /\ h = features.horizon OBVIOUS
<1>4. c \in Nat /\ features.weeks = CompleteWeeks(c)
  BY <1>3, Basics, FeaturesAssumption DEF Built
<1>5. Least(AnalysisEnd, c) >= MinWeeks * WeekLength
  <2>1. Least(AnalysisEnd, c) \in Nat BY <1>4, FeaturesAssumption DEF Least
  <2>2. Least(AnalysisEnd, c) \div WeekLength >= MinWeeks
    BY <1>2, <1>4 DEF CompleteWeeks
  <2> HIDE DEF Least
  <2> QED BY <2>1, <2>2, WeeksAreLong, FeaturesAssumption
<1>6. ASSUME data.policy = "strict" PROVE FirstReady # Never
  <2>1. Readiness(c) \in 0 .. c BY <1>2, <1>3, UsedRow
  <2>2. Readiness(c) # Never BY <1>4, <2>1 DEF Never
  <2> QED BY <1>4, <1>6, <2>2, StrictReadiness
<1>7. DecidedBetween(features.row.ready_at, features.row.ready_at + features.horizon)
  BY <1>2, ReviewedIsDecided
<1> QED BY <1>2, <1>3, <1>5, <1>6, <1>7 DEF EvidenceEarned

-----------------------------------------------------------------------------
(* Validation: the sample of a rank is one of the samples.  The samples of *)
(* a replay are shares and reviews of at most some value.                  *)
AtMost(s, v) == {i \in DOMAIN s : s[i] <= v}

Under(s, v) == {i \in DOMAIN s : s[i] < v}

LEMMA Counts ==
  ASSUME NEW D, IsFiniteSet(D), NEW top \in Nat, NEW s \in [D -> 0 .. top]
  PROVE  /\ Cardinality(D) \in Nat
         /\ \A v : /\ IsFiniteSet(AtMost(s, v)) /\ Cardinality(AtMost(s, v)) \in Nat
                   /\ IsFiniteSet(Under(s, v)) /\ Cardinality(Under(s, v)) \in Nat
         /\ \A T \in SUBSET D : \A U \in SUBSET T :
              /\ IsFiniteSet(T) /\ IsFiniteSet(U)
              /\ Cardinality(T) \in Nat /\ Cardinality(U) \in Nat
              /\ Cardinality(U) <= Cardinality(T)
<1>1. \A T \in SUBSET D : IsFiniteSet(T) /\ Cardinality(T) \in Nat
  BY FS_Subset, FS_CardinalityType
<1>2. \A v : AtMost(s, v) \in SUBSET D /\ Under(s, v) \in SUBSET D
  BY DEF AtMost, Under
<1>3. ASSUME NEW T \in SUBSET D, NEW U \in SUBSET T
      PROVE  /\ IsFiniteSet(T) /\ IsFiniteSet(U)
             /\ Cardinality(T) \in Nat /\ Cardinality(U) \in Nat
             /\ Cardinality(U) <= Cardinality(T)
  <2>1. U \in SUBSET D /\ IsFiniteSet(T) BY <1>1
  <2> QED BY <1>1, <2>1, FS_Subset
<1>4. Cardinality(D) \in Nat BY FS_CardinalityType
<1> QED BY <1>1, <1>2, <1>3, <1>4

LEMMA RankedIs ==
  ASSUME NEW D, IsFiniteSet(D), NEW top \in Nat, NEW s \in [D -> 0 .. top],
         NEW k \in 1 .. Cardinality(D), NEW v, v = Ranked(s, k)
  PROVE  /\ v \in 0 .. top
         /\ Cardinality(Under(s, v)) < k
         /\ Cardinality(AtMost(s, v)) >= k
<1> DEFINE W == {w \in Nat : Cardinality(AtMost(s, w)) >= k}
<1>1. Cardinality(D) \in Nat /\ k \in Nat /\ k >= 1 /\ k <= Cardinality(D)
  BY Counts
<1>2. top \in W
  <2>1. AtMost(s, top) = D BY DEF AtMost
  <2> QED BY <1>1, <2>1
<1>3. PICK w \in W : \A u \in W : w <= u BY <1>2, LeastExists
<1>4. w \in Nat /\ Cardinality(AtMost(s, w)) >= k OBVIOUS
<1>5. Cardinality(Under(s, w)) < k
  <2>1. CASE w = 0
    <3>1. Under(s, w) = {} BY <2>1 DEF Under
    <3> QED BY <1>1, <3>1, FS_EmptySet
  <2>2. CASE w # 0
    <3>1. w - 1 \in Nat /\ w - 1 \notin W BY <1>3, <1>4, <2>2
    <3>2. Under(s, w) = AtMost(s, w - 1) BY <1>4 DEF Under, AtMost
    <3> QED BY <1>1, <3>1, <3>2, Counts
  <2> QED BY <2>1, <2>2
<1>6. w \in {s[i] : i \in DOMAIN s}
  <2> SUFFICES ASSUME \A i \in DOMAIN s : s[i] # w PROVE FALSE OBVIOUS
  <2>1. Under(s, w) = AtMost(s, w) BY <1>4 DEF Under, AtMost
  <2> QED BY <1>1, <1>4, <1>5, <2>1, Counts
<1>7. /\ v \in {s[i] : i \in DOMAIN s}
      /\ Cardinality(Under(s, v)) < k /\ Cardinality(AtMost(s, v)) >= k
  BY <1>4, <1>5, <1>6 DEF Ranked, Under, AtMost
<1> QED BY <1>7

(* The median has half of the samples on either side.                      *)
LEMMA MedianIs ==
  ASSUME NEW D, IsFiniteSet(D), D # {}, NEW top \in Nat, NEW s \in [D -> 0 .. top]
  PROVE  /\ Median(s) \in 0 .. top
         /\ \A low, high \in Int :
              low <= Median(s) /\ Median(s) <= high =>
                /\ 2 * Cardinality({i \in D : s[i] <= high}) >= Cardinality(D)
                /\ 2 * Cardinality({i \in D : s[i] >= low}) >= Cardinality(D)
<1>1. PICK n, j, k : n = Cardinality(D) /\ j = (n + 1) \div 2 /\ k = n \div 2 + 1
  OBVIOUS
<1>2. n \in Nat /\ n # 0 BY <1>1, Counts, FS_EmptySet
<1>3. /\ j \in 1 .. n /\ k \in 1 .. n /\ j <= k
      /\ 2 * j >= n /\ 2 * (n - k + 1) >= n
  <2>1. j \in Nat /\ 2 * j <= n + 1 /\ n <= 2 * j BY <1>1, <1>2
  <2>2. k \in Nat /\ k >= 1 /\ 2 * (k - 1) <= n /\ n <= 2 * (k - 1) + 1
    BY <1>1, <1>2
  <2> QED BY <1>2, <2>1, <2>2
<1>4. PICK a, b : a = Ranked(s, j) /\ b = Ranked(s, k) OBVIOUS
<1>5. /\ a \in 0 .. top /\ b \in 0 .. top
      /\ Cardinality(Under(s, a)) < j /\ Cardinality(AtMost(s, a)) >= j
      /\ Cardinality(Under(s, b)) < k /\ Cardinality(AtMost(s, b)) >= k
  BY <1>1, <1>3, <1>4, RankedIs
<1>6. Median(s) = (a + b) \div 2
  BY <1>1, <1>2, <1>4 DEF Median
<1>7. a <= b
  <2> SUFFICES ASSUME b < a PROVE FALSE BY <1>5
  <2>1. AtMost(s, b) \subseteq Under(s, a) /\ Under(s, a) \subseteq D
    BY <1>5 DEF AtMost, Under
  <2>2. /\ Cardinality(AtMost(s, b)) <= Cardinality(Under(s, a))
        /\ Cardinality(AtMost(s, b)) \in Nat /\ Cardinality(Under(s, a)) \in Nat
    BY <2>1, Counts
  <2> QED BY <1>3, <1>5, <2>2
<1>8. Median(s) \in 0 .. top /\ a <= Median(s) /\ Median(s) <= b
  BY <1>5, <1>6, <1>7
<1>9. ASSUME NEW high \in Int, Median(s) <= high
      PROVE  2 * Cardinality({i \in D : s[i] <= high}) >= n
  <2> DEFINE T == {i \in D : s[i] <= high}
  <2>1. AtMost(s, a) \subseteq T /\ T \subseteq D
    BY <1>5, <1>8, <1>9 DEF AtMost
  <2>2. /\ Cardinality(AtMost(s, a)) <= Cardinality(T)
        /\ Cardinality(AtMost(s, a)) \in Nat /\ Cardinality(T) \in Nat
    BY <2>1, Counts
  <2> QED BY <1>2, <1>3, <1>5, <2>2
<1>10. ASSUME NEW low \in Int, low <= Median(s)
       PROVE  2 * Cardinality({i \in D : s[i] >= low}) >= n
  <2> DEFINE T == {i \in D : s[i] >= low}
             U == Under(s, b)
  <2>1. D = T \cup U /\ T \subseteq D /\ U \subseteq D
    BY <1>5, <1>8, <1>10 DEF Under
  <2>2. /\ IsFiniteSet(T) /\ IsFiniteSet(U)
        /\ Cardinality(T) \in Nat /\ Cardinality(U) \in Nat
        /\ Cardinality(T \cap U) \in Nat
    BY <2>1, Counts
  <2>3. n = Cardinality(T) + Cardinality(U) - Cardinality(T \cap U)
    BY <1>1, <2>1, <2>2, FS_Union
  <2> QED BY <1>2, <1>3, <1>5, <2>2, <2>3
<1> QED BY <1>1, <1>8, <1>9, <1>10

-----------------------------------------------------------------------------
(* A replication that ran to its end has a share, and a result is the      *)
(* verdict on the replications, or the refusal to replay.                  *)
Replayed ==
  {[truncated |-> TRUE]}
    \cup [truncated : {FALSE}, share : {0, 2}, first : {Undefined, 0, 2}]

Verdict ==
  [status |-> IF Flags # {} THEN "insufficient_evidence"
              ELSE IF \A m \in Gates : Gate(m) = "passed" THEN "pass" ELSE "fail",
   protocol |-> IF request.in_sample THEN "in_sample_diagnostic" ELSE "held_out",
   gates |-> [m \in Gates |-> Gate(m)],
   backlog_supported |-> Gate("backlog") = "passed"]

VInv ==
  /\ request \in Requests
  /\ replayed \in Seq(Replayed)
  /\ result # Unknown =>
       \/ result = [status |-> "raised"]
       \/ SplitOk /\ result = Verdict
  /\ carried # Unknown =>
       result # Unknown /\ carried.status \in {"raised", result.status}

LEMMA VerdictSame ==
  ASSUME UNCHANGED <<request, replayed>> PROVE Verdict' = Verdict /\ SplitOk' = SplitOk
<1>1. Complete' = Complete /\ WithReview' = WithReview BY DEF Complete, WithReview
<1>2. Flags' = Flags BY <1>1 DEF Flags
<1>3. Simulated' = Simulated BY <1>1 DEF Simulated
<1>4. Observed' = Observed BY DEF Observed
<1>5. \A m : Gate(m)' = Gate(m) BY <1>2, <1>3, <1>4 DEF Gate
<1> QED BY <1>2, <1>5 DEF Verdict, SplitOk

LEMMA InitVInv ==
  ASSUME NEW r \in Requests, ValidationInit(r) PROVE VInv
BY DEF ValidationInit, VInv

LEMMA ReplicationsTyped == VInv => Replications \subseteq Replayed
<1> SUFFICES ASSUME VInv, NEW r \in Replications PROVE r \in Replayed OBVIOUS
<1>1. request.cohort \in {0, 1} BY DEF VInv, Requests
<1>2. 2 * request.cohort \in {0, 2} BY <1>1
<1> QED BY <1>2 DEF Replications, Replayed

LEMMA NextVInv == ASSUME VInv, [ValidationNext]_validationVars PROVE VInv'
<1>1. CASE Refuse
  <2>1. /\ result' = [status |-> "raised"] /\ UNCHANGED <<request, replayed, carried>>
        /\ result = Unknown
    BY <1>1 DEF Refuse
  <2>2. carried = Unknown BY <2>1 DEF VInv
  <2> QED BY <2>1, <2>2 DEF VInv
<1>2. ASSUME NEW replication \in Replications, Replay(replication) PROVE VInv'
  <2>1. /\ result = Unknown /\ replayed' = Append(replayed, replication)
        /\ UNCHANGED <<request, result, carried>>
    BY <1>2 DEF Replay
  <2>2. replication \in Replayed BY ReplicationsTyped
  <2>3. replayed' \in Seq(Replayed) BY <2>1, <2>2 DEF VInv
  <2> QED BY <2>1, <2>3 DEF VInv
<1>3. CASE Validate
  <2>1. /\ SplitOk /\ result = Unknown /\ result' = Verdict
        /\ UNCHANGED <<request, replayed, carried>>
    BY <1>3 DEF Validate, Verdict
  <2>2. carried = Unknown BY <2>1 DEF VInv
  <2>3. Verdict' = Verdict /\ SplitOk' = SplitOk BY <2>1, VerdictSame
  <2> QED BY <2>1, <2>2, <2>3 DEF VInv
<1>4. ASSUME NEW same_dataset \in BOOLEAN, NEW same_version \in BOOLEAN,
             Report(same_dataset, same_version)
      PROVE  VInv'
  <2>1. /\ result # Unknown /\ UNCHANGED <<request, replayed, result>>
        /\ carried'.status \in {"raised", result.status}
    BY <1>4 DEF Report
  <2>2. Verdict' = Verdict /\ SplitOk' = SplitOk BY <2>1, VerdictSame
  <2> QED BY <2>1, <2>2 DEF VInv
<1>5. CASE UNCHANGED validationVars
  <2>1. UNCHANGED <<request, replayed, result, carried>> BY <1>5 DEF validationVars
  <2>2. Verdict' = Verdict /\ SplitOk' = SplitOk BY <2>1, VerdictSame
  <2> QED BY <2>1, <2>2 DEF VInv
<1> QED BY <1>1, <1>2, <1>3, <1>4, <1>5 DEF ValidationNext

(* Without a flag there are enough replications, and they can be compared. *)
LEMMA Unflagged ==
  ASSUME VInv, Flags = {}
  PROVE  /\ IsFiniteSet(Complete) /\ IsFiniteSet(WithReview)
         /\ Cardinality(Complete) >= MinReplications
         /\ Cardinality(WithReview) >= MinReplications
         /\ Complete # {} /\ WithReview # {} /\ WithReview \subseteq Complete
         /\ request.mature >= MinMature /\ request.mature # 0
         /\ request.first # Undefined /\ request.cohort # 0
<1>1. /\ replayed \in Seq(Replayed) /\ Len(replayed) \in Nat
      /\ Complete \subseteq 1 .. Len(replayed)
      /\ WithReview \subseteq Complete
  BY DEF VInv, Complete, WithReview
<1>2. IsFiniteSet(Complete) /\ IsFiniteSet(WithReview)
      /\ Cardinality(Complete) \in Nat /\ Cardinality(WithReview) \in Nat
  BY <1>1, SomeFinite
<1>3. request.mature \in {0, MinMature} BY DEF VInv, Requests
<1>4. /\ ~(request.mature < MinMature)
      /\ ~(Cardinality(Complete) < MinReplications)
      /\ request.first # Undefined
      /\ ~(Complete # {} /\ WithReview = {})
      /\ Complete # {} => WithReview # {} /\ ~(Cardinality(WithReview) < MinReplications)
      /\ ~(request.cohort = 0 /\ Complete # {})
  BY DEF Flags
<1>5. Complete # {} BY <1>2, <1>4, FS_EmptySet, ValidationAssumption
<1> QED BY <1>1, <1>2, <1>3, <1>4, <1>5, ValidationAssumption

(* What is compared is a median of the replications.                       *)
LEMMA Samples ==
  ASSUME VInv, NEW i \in Complete
  PROVE  /\ replayed[i].share \in {0, 2} /\ replayed[i].first \in {Undefined, 0, 2}
         /\ i \in WithReview => replayed[i].first \in {0, 2}
<1>1. replayed \in Seq(Replayed) /\ i \in DOMAIN replayed /\ ~replayed[i].truncated
  BY DEF VInv, Complete
<1>2. replayed[i] \in Replayed BY <1>1
<1>3. replayed[i] \in [truncated : {FALSE}, share : {0, 2}, first : {Undefined, 0, 2}]
  <2>1. PICK r : r = replayed[i] OBVIOUS
  <2>2. r # [truncated |-> TRUE] BY <1>1, <2>1
  <2> QED BY <1>2, <2>1, <2>2 DEF Replayed
<1> QED BY <1>3 DEF WithReview

LEMMA MediansEarned ==
  ASSUME VInv, Flags = {},
         NEW m \in {"share", "first"}
  PROVE  /\ Simulated[m] \in 0 .. 2
         /\ \A low, high \in Int :
              low <= Simulated[m] /\ Simulated[m] <= high => Straddles(m, low, high)
<1>1. CASE m = "share"
  <2> DEFINE s == [i \in Complete |-> replayed[i].share]
  <2>1. s \in [Complete -> 0 .. 2] BY Samples
  <2>2. Simulated[m] = Median(s) BY <1>1, Unflagged DEF Simulated
  <2>3. Usual(m) = Complete
    BY <1>1, Samples DEF Usual, Complete, Undefined
  <2> HIDE DEF s
  <2>4. /\ Median(s) \in 0 .. 2
        /\ \A low, high \in Int :
             low <= Median(s) /\ Median(s) <= high =>
               /\ 2 * Cardinality({i \in Complete : s[i] <= high}) >= Cardinality(Complete)
               /\ 2 * Cardinality({i \in Complete : s[i] >= low}) >= Cardinality(Complete)
    BY <2>1, Unflagged, MedianIs
  <2>5. \A i \in Complete : s[i] = replayed[i][m] BY <1>1 DEF s
  <2>6. \A v : /\ {i \in Complete : s[i] <= v} = {i \in Complete : replayed[i][m] <= v}
               /\ {i \in Complete : s[i] >= v} = {i \in Complete : replayed[i][m] >= v}
    BY <2>5
  <2> QED BY <2>2, <2>3, <2>4, <2>6 DEF Straddles
<1>2. CASE m = "first"
  <2> DEFINE s == [i \in WithReview |-> replayed[i].first]
  <2>1. s \in [WithReview -> 0 .. 2] BY Samples, Unflagged
  <2>2. Simulated[m] = Median(s) BY <1>2 DEF Simulated
  <2>3. Usual(m) = WithReview BY <1>2 DEF Usual, Complete, WithReview
  <2> HIDE DEF s
  <2>4. /\ Median(s) \in 0 .. 2
        /\ \A low, high \in Int :
             low <= Median(s) /\ Median(s) <= high =>
               /\ 2 * Cardinality({i \in WithReview : s[i] <= high}) >= Cardinality(WithReview)
               /\ 2 * Cardinality({i \in WithReview : s[i] >= low}) >= Cardinality(WithReview)
    BY <2>1, Unflagged, MedianIs
  <2>5. \A i \in WithReview : s[i] = replayed[i][m] BY <1>2 DEF s
  <2>6. \A v : /\ {i \in WithReview : s[i] <= v} = {i \in WithReview : replayed[i][m] <= v}
               /\ {i \in WithReview : s[i] >= v} = {i \in WithReview : replayed[i][m] >= v}
    BY <2>5
  <2> QED BY <2>2, <2>3, <2>4, <2>6 DEF Straddles
<1> QED BY <1>1, <1>2

LEMMA BacklogKnown ==
  ASSUME VInv, Flags = {} PROVE Simulated["backlog"] \in 0 .. 2
<1>1. [i \in Complete |-> 0] \in [Complete -> 0 .. 2] OBVIOUS
<1>2. Median([i \in Complete |-> 0]) \in 0 .. 2 BY <1>1, Unflagged, MedianIs
<1> QED BY <1>2 DEF Simulated

LEMMA GatesEvaluated ==
  ASSUME VInv, Flags = {}, NEW m \in Gates
  PROVE  /\ Gate(m) \in {"passed", "failed"}
         /\ Gate(m) = "passed" <=> Near(Observed[m], Simulated[m])
         /\ Observed[m] \in Int /\ Simulated[m] \in Int
         /\ m # "backlog" => Observed[m] = request[m]
<1>1. /\ request.share \in {0, 2} /\ request.backlog \in {0, 2}
      /\ request.first \in {Undefined, 0, 2}
  BY DEF VInv, Requests
<1>2. /\ Observed[m] \in {0, 2}
      /\ m # "backlog" => Observed[m] = request[m]
  BY <1>1, Unflagged DEF Observed, Gates
<1>3. Simulated[m] \in 0 .. 2 BY MediansEarned, BacklogKnown DEF Gates
<1>4. Observed[m] # Undefined /\ Simulated[m] # Undefined BY <1>2, <1>3 DEF Undefined
<1> QED BY <1>2, <1>3, <1>4 DEF Gate

LEMMA VInvVerdict == ASSUME VInv PROVE VerdictEarned
<1>1. carried # Unknown => carried.status \in {"raised", result.status} BY DEF VInv
<1>2. ASSUME result # Unknown, result.status \in {"pass", "fail"}
      PROVE  Flags = {} /\ SplitOk /\ result = Verdict
  BY <1>2 DEF VInv, Verdict
<1>3. ASSUME result # Unknown, result.status \in {"pass", "fail"}
      PROVE  /\ Cardinality(Usual("first")) >= MinReplications
             /\ Cardinality(Usual("share")) >= MinReplications
             /\ request.mature >= MinMature
             /\ request.overlap => result.protocol = "in_sample_diagnostic"
             /\ \A m \in Gates : result.gates[m] # "not_evaluated"
             /\ result.status = "fail" <=> \E m \in Gates : result.gates[m] = "failed"
  <2>1. Flags = {} /\ SplitOk /\ result = Verdict BY <1>2, <1>3
  <2>2. Usual("first") = WithReview BY DEF Usual, Complete, WithReview
  <2>3. Usual("share") = Complete BY Samples DEF Usual, Complete, Undefined
  <2>4. request.overlap => request.in_sample BY <2>1 DEF SplitOk
  <2>5. result.protocol = IF request.in_sample THEN "in_sample_diagnostic" ELSE "held_out"
    BY <2>1 DEF Verdict
  <2>6. \A m \in Gates : result.gates[m] = Gate(m) BY <2>1 DEF Verdict
  <2>7. result.status = IF \A m \in Gates : Gate(m) = "passed" THEN "pass" ELSE "fail"
    BY <2>1 DEF Verdict
  <2>8. \A m \in Gates : Gate(m) \in {"passed", "failed"} BY <2>1, GatesEvaluated
  <2> QED BY <2>1, <2>2, <2>3, <2>4, <2>5, <2>6, <2>7, <2>8, Unflagged
<1>4. ASSUME result # Unknown, result.status = "pass", NEW m \in {"share", "first"}
      PROVE  Straddles(m, request[m] - Tolerance, request[m] + Tolerance)
  <2>1. Flags = {} /\ result = Verdict BY <1>2, <1>4
  <2>2. m \in Gates /\ m # "backlog" BY DEF Gates
  <2>3. Gate(m) = "passed" BY <1>4, <2>1, <2>2 DEF Verdict
  <2>4. PICK a, b : a = Observed[m] /\ b = Simulated[m] OBVIOUS
  <2>5. Near(a, b) /\ a \in Int /\ b \in Int /\ a = request[m]
    BY <2>1, <2>2, <2>3, <2>4, GatesEvaluated
  <2>6. /\ a - Tolerance \in Int /\ a + Tolerance \in Int
        /\ a - Tolerance <= b /\ b <= a + Tolerance
    BY <2>5, ValidationAssumption DEF Near
  <2> QED BY <2>1, <2>4, <2>5, <2>6, MediansEarned
<1> QED BY <1>1, <1>3, <1>4 DEF VerdictEarned

-----------------------------------------------------------------------------
(* Experiment: the runs by number.                                         *)
LEMMA DivParts ==
  ASSUME NEW n \in Int, NEW w \in Nat \ {0}
  PROVE  n \div w \in Int /\ n % w \in 0 .. w - 1 /\ n = (n \div w) * w + (n % w)
OBVIOUS

LEMMA DivIs ==
  ASSUME NEW w \in Nat \ {0}, NEW q \in Int, NEW r \in 0 .. w - 1
  PROVE  (q * w + r) \div w = q /\ (q * w + r) % w = r
OBVIOUS

LEMMA DivOf ==
  ASSUME NEW n \in Nat, NEW w \in Nat \ {0}
  PROVE  n \div w \in Nat /\ n % w \in 0 .. w - 1 /\ n = (n \div w) * w + (n % w)
<1>1. PICK q, r : q = n \div w /\ r = n % w OBVIOUS
<1>2. q \in Int /\ r \in 0 .. w - 1 /\ n = q * w + r BY <1>1, DivParts
<1>3. ASSUME q < 0 PROVE FALSE
  <2>1. q * w <= (0 - 1) * w BY <1>2, <1>3
  <2> QED BY <1>2, <2>1
<1> QED BY <1>1, <1>2, <1>3

LEMMA Multiples ==
  ASSUME NEW w \in Nat \ {0}, NEW p \in Nat, NEW q \in Nat, NEW r \in 0 .. w - 1
  PROVE  /\ p * w \in Nat /\ q * w \in Nat
         /\ p < q <=> p * w + r < q * w
<1>1. p * w \in Nat /\ q * w \in Nat OBVIOUS
<1>2. ASSUME p < q PROVE p * w + r < q * w
  <2>1. PICK d \in Nat : q = p + 1 + d BY <1>2
  <2>2. q * w = p * w + w + d * w /\ d * w \in Nat BY <2>1
  <2> QED BY <1>1, <2>2
<1>3. ASSUME q <= p PROVE q * w <= p * w
  <2>1. PICK d \in Nat : p = q + d BY <1>3
  <2>2. p * w = q * w + d * w /\ d * w \in Nat BY <2>1
  <2> QED BY <1>1, <2>2
<1> QED BY <1>1, <1>2, <1>3

Shaped ==
  experiment \in [assumptions : Nat \ {0}, scenarios : Nat, replications : Nat \ {0}]

Position(a, r, s) == (a * experiment.replications + r) * Width + s + 1

LEMMA RunIs ==
  ASSUME Shaped, NEW a \in Nat, NEW r \in 0 .. experiment.replications - 1,
         NEW s \in 0 .. experiment.scenarios
  PROVE  /\ Position(a, r, s) \in Nat \ {0}
         /\ RunAt(Position(a, r, s)) = [assumption |-> a, replication |-> r, scenario |-> s]
<1>1. PICK R, w : R = experiment.replications /\ w = Width OBVIOUS
<1>2. R \in Nat \ {0} /\ w \in Nat \ {0} /\ s \in 0 .. w - 1 /\ r \in 0 .. R - 1
  BY <1>1 DEF Shaped, Width
<1>3. PICK p : p = a * R + r OBVIOUS
<1>4. a * R \in Nat BY <1>2
<1>5. p \in Nat BY <1>2, <1>3, <1>4
<1>6. p * w \in Nat BY <1>2, <1>5
<1>7. PICK n : n = p * w + s + 1 OBVIOUS
<1>8. n \in Nat \ {0} /\ n - 1 = p * w + s BY <1>2, <1>6, <1>7
<1>9. (n - 1) \div w = p /\ (n - 1) % w = s BY <1>2, <1>5, <1>8, DivIs
<1>10. p \div R = a /\ p % R = r BY <1>2, <1>3, DivIs
<1>11. n = Position(a, r, s) BY <1>1, <1>3, <1>7 DEF Position
<1> QED BY <1>1, <1>8, <1>9, <1>10, <1>11 DEF RunAt

LEMMA RunParts ==
  ASSUME Shaped, NEW n \in Nat \ {0}
  PROVE  /\ RunAt(n) \in [assumption : Nat, replication : 0 .. experiment.replications - 1,
                          scenario : 0 .. experiment.scenarios]
         /\ n = Position(RunAt(n).assumption, RunAt(n).replication, RunAt(n).scenario)
<1>1. PICK R, w : R = experiment.replications /\ w = Width OBVIOUS
<1>2. R \in Nat \ {0} /\ w \in Nat \ {0} /\ w - 1 = experiment.scenarios
  BY <1>1 DEF Shaped, Width
<1>3. PICK p, s : p = (n - 1) \div w /\ s = (n - 1) % w OBVIOUS
<1>4. n - 1 \in Nat OBVIOUS
<1>5. p \in Nat /\ s \in 0 .. w - 1 /\ n - 1 = p * w + s
  <2>1. /\ (n - 1) \div w \in Nat /\ (n - 1) % w \in 0 .. w - 1
        /\ n - 1 = ((n - 1) \div w) * w + ((n - 1) % w)
    BY <1>2, <1>4, DivOf
  <2> QED BY ONLY <1>3, <2>1
<1>6. PICK a, r : a = p \div R /\ r = p % R OBVIOUS
<1>7. a \in Nat /\ r \in 0 .. R - 1 /\ p = a * R + r
  <2>1. p \div R \in Nat /\ p % R \in 0 .. R - 1 /\ p = (p \div R) * R + (p % R)
    BY <1>2, <1>5, DivOf
  <2> QED BY ONLY <1>6, <2>1
<1>8. RunAt(n) = [assumption |-> a, replication |-> r, scenario |-> s]
  BY <1>1, <1>3, <1>6 DEF RunAt
<1>9. p * w \in Nat BY <1>2, <1>5
<1>10. n = p * w + s + 1 BY <1>2, <1>5, <1>9
<1> QED BY <1>1, <1>2, <1>5, <1>7, <1>8, <1>10 DEF Position

LEMMA RunsBound ==
  ASSUME Shaped, NEW n \in Nat \ {0}
  PROVE  Runs \in Nat /\ (n <= Runs <=> RunAt(n).assumption < experiment.assumptions)
<1>1. PICK A, R, w : A = experiment.assumptions /\ R = experiment.replications /\ w = Width
  OBVIOUS
<1>2. R \in Nat \ {0} /\ w \in Nat \ {0} /\ A \in Nat \ {0} /\ w - 1 = experiment.scenarios
  BY <1>1 DEF Shaped, Width
<1>3. PICK a, r, s : a = RunAt(n).assumption /\ r = RunAt(n).replication
                       /\ s = RunAt(n).scenario OBVIOUS
<1>4. a \in Nat /\ r \in 0 .. R - 1 /\ s \in 0 .. w - 1 /\ n = (a * R + r) * w + s + 1
  BY <1>1, <1>2, <1>3, RunParts DEF Position
<1>5. PICK p, q : p = a * R + r /\ q = A * R OBVIOUS
<1>6. p \in Nat /\ q \in Nat /\ (a < A <=> p < q)
  <2>1. a * R \in Nat BY <1>2, <1>4
  <2> QED BY <1>2, <1>4, <1>5, <2>1, Multiples
<1>7. p * w \in Nat /\ q * w \in Nat /\ (p < q <=> p * w + s < q * w)
  BY <1>2, <1>4, <1>6, Multiples
<1>8. Runs = q * w BY <1>1, <1>5 DEF Runs
<1>9. n = p * w + s + 1 BY <1>4, <1>5
<1> QED BY <1>1, <1>2, <1>3, <1>4, <1>6, <1>7, <1>8, <1>9

LEMMA OneRun ==
  ASSUME Shaped, NEW m \in Nat \ {0}, NEW n \in Nat \ {0}, RunAt(m) = RunAt(n)
  PROVE  m = n
BY RunParts

LEMMA Block ==
  ASSUME Shaped, NEW n \in Nat \ {0}, NEW k \in 0 .. experiment.scenarios
  PROVE  /\ BaselineOf(n) \in 1 .. n
         /\ n = BaselineOf(n) + RunAt(n).scenario
         /\ RunAt(BaselineOf(n) + k) =
              [assumption |-> RunAt(n).assumption, replication |-> RunAt(n).replication,
               scenario |-> k]
         /\ BaselineOf(BaselineOf(n) + k) = BaselineOf(n)
         /\ n <= Runs => BaselineOf(n) + k <= Runs
<1>1. PICK a, r, s : a = RunAt(n).assumption /\ r = RunAt(n).replication
                       /\ s = RunAt(n).scenario OBVIOUS
<1>2. /\ a \in Nat /\ r \in 0 .. experiment.replications - 1
      /\ s \in 0 .. experiment.scenarios /\ n = Position(a, r, s)
  BY <1>1, RunParts
<1>3. experiment.scenarios \in Nat BY DEF Shaped
<1>4. PICK b : b = (a * experiment.replications + r) * Width + 0 + 1 OBVIOUS
<1>5. b = Position(a, r, 0) BY <1>4 DEF Position
<1>6. b \in Nat \ {0} BY <1>2, <1>3, <1>5, RunIs
<1>7. (a * experiment.replications + r) * Width \in Int
  BY <1>2 DEF Shaped, Width
<1>8. n = b + s /\ Position(a, r, k) = b + k BY <1>2, <1>4, <1>7 DEF Position
<1>9. BaselineOf(n) = b BY <1>1, <1>2, <1>6, <1>8 DEF BaselineOf
<1>10. RunAt(b + k) = [assumption |-> a, replication |-> r, scenario |-> k]
  BY <1>2, <1>8, RunIs
<1>11. BaselineOf(b + k) = b BY <1>6, <1>10 DEF BaselineOf
<1>12. n <= Runs => b + k <= Runs
  <2>1. b + k \in Nat \ {0} BY <1>6
  <2> QED BY <1>1, <1>10, <2>1, RunsBound
<1> QED BY <1>1, <1>2, <1>6, <1>8, <1>9, <1>10, <1>11, <1>12

LEMMA BlockStart ==
  ASSUME Shaped, NEW n \in Nat \ {0}, NEW b, b = BaselineOf(n)
  PROVE  /\ b \in 1 .. n /\ b \in Nat \ {0} /\ n = b + RunAt(n).scenario
         /\ RunAt(b) = [assumption |-> RunAt(n).assumption, replication |-> RunAt(n).replication,
                        scenario |-> 0]
<1>1. 0 \in 0 .. experiment.scenarios BY DEF Shaped
<1>2. b \in 1 .. n /\ n = b + RunAt(n).scenario
  <2>1. BaselineOf(n) \in 1 .. n /\ n = BaselineOf(n) + RunAt(n).scenario BY <1>1, Block
  <2> QED BY <2>1
<1>3. RunAt(BaselineOf(n) + 0) = [assumption |-> RunAt(n).assumption,
                                 replication |-> RunAt(n).replication, scenario |-> 0]
  BY <1>1, Block
<1>4. b + 0 = b BY <1>2
<1> QED BY <1>2, <1>3, <1>4

LEMMA BlockRest ==
  ASSUME Shaped, NEW n \in Nat \ {0}, NEW b, b = BaselineOf(n), NEW k \in b .. b + experiment.scenarios
  PROVE  /\ BaselineOf(k) = b
         /\ RunAt(k) = [assumption |-> RunAt(n).assumption, replication |-> RunAt(n).replication,
                        scenario |-> k - b]
         /\ n <= Runs => k <= Runs
<1>1. b \in Nat \ {0} BY BlockStart
<1>2. PICK i : i = k - b /\ i \in 0 .. experiment.scenarios /\ k = BaselineOf(n) + i
  BY <1>1 DEF Shaped
<1>3. /\ RunAt(BaselineOf(n) + i) =
           [assumption |-> RunAt(n).assumption, replication |-> RunAt(n).replication,
            scenario |-> i]
      /\ BaselineOf(BaselineOf(n) + i) = BaselineOf(n)
      /\ n <= Runs => BaselineOf(n) + i <= Runs
  BY <1>2, Block
<1> QED BY <1>2, <1>3

-----------------------------------------------------------------------------
(* A sequence that has each sample as often as a set of runs came to it,   *)
(* in whatever order.                                                      *)
Alike(seq, runs, came) ==
  \A T : Cardinality({i \in DOMAIN seq : seq[i] \in T}) = Cardinality({n \in runs : came[n] \in T})

LEMMA AlikeEmpty == ASSUME NEW came PROVE Alike(<<>>, {}, came)
BY DEF Alike

LEMMA AlikeSame ==
  ASSUME NEW seq, NEW runs, NEW came, NEW now, Alike(seq, runs, came),
         \A n \in runs : now[n] = came[n]
  PROVE  Alike(seq, runs, now)
<1>1. ASSUME NEW T PROVE {n \in runs : came[n] \in T} = {n \in runs : now[n] \in T}
  OBVIOUS
<1> QED BY <1>1 DEF Alike

LEMMA AlikeAppend ==
  ASSUME NEW X, NEW seq \in Seq(X), NEW x \in X, NEW runs, IsFiniteSet(runs), NEW n, n \notin runs,
         NEW came, Alike(seq, runs, came), came[n] = x
  PROVE  Alike(Append(seq, x), runs \cup {n}, came)
<1> SUFFICES ASSUME NEW T
             PROVE  Cardinality({i \in DOMAIN Append(seq, x) : Append(seq, x)[i] \in T})
                      = Cardinality({m \in runs \cup {n} : came[m] \in T})
  BY DEF Alike
<1>1. PICK P, Q : /\ P = {i \in DOMAIN seq : seq[i] \in T}
                  /\ Q = {m \in runs : came[m] \in T} OBVIOUS
<1>2. Cardinality(P) = Cardinality(Q) BY <1>1 DEF Alike
<1>3. Len(seq) \in Nat /\ DOMAIN seq = 1 .. Len(seq) OBVIOUS
<1>4. PICK k : k = Len(seq) + 1 /\ k \notin P /\ k \in Nat BY <1>1, <1>3
<1>5. IsFiniteSet(P) /\ IsFiniteSet(Q)
  <2>1. IsFiniteSet(1 .. Len(seq)) BY <1>3, FS_Interval
  <2> QED BY <1>1, <1>3, <2>1, FS_Subset
<1>6. CASE x \in T
  <2>1. {i \in DOMAIN Append(seq, x) : Append(seq, x)[i] \in T} = P \cup {k}
    BY <1>1, <1>3, <1>4, <1>6
  <2>2. {m \in runs \cup {n} : came[m] \in T} = Q \cup {n} BY <1>1, <1>6
  <2>3. n \notin Q BY <1>1
  <2>4. Cardinality(P \cup {k}) = Cardinality(P) + 1 BY <1>4, <1>5, FS_AddElement
  <2>5. Cardinality(Q \cup {n}) = Cardinality(Q) + 1 BY <1>5, <2>3, FS_AddElement
  <2> QED BY <1>2, <2>1, <2>2, <2>4, <2>5
<1>7. CASE x \notin T
  <2>1. {i \in DOMAIN Append(seq, x) : Append(seq, x)[i] \in T} = P
    BY <1>1, <1>3, <1>4, <1>7
  <2>2. {m \in runs \cup {n} : came[m] \in T} = Q BY <1>1, <1>7
  <2> QED BY <1>2, <2>1, <2>2
<1> QED BY <1>6, <1>7

LEMMA AlikeLength ==
  ASSUME NEW X, NEW seq \in Seq(X), NEW runs, NEW came, Alike(seq, runs, came),
         \A n \in runs : came[n] \in X
  PROVE  Len(seq) = Cardinality(runs)
<1>1. {i \in DOMAIN seq : seq[i] \in X} = 1 .. Len(seq) OBVIOUS
<1>2. {n \in runs : came[n] \in X} = runs OBVIOUS
<1>3. Len(seq) \in Nat OBVIOUS
<1>4. Cardinality(1 .. Len(seq)) = Len(seq) BY <1>3, FS_Interval
<1> QED BY <1>1, <1>2, <1>4 DEF Alike

(* A table that files every run of a set under its key.                    *)
Files(table, runs, keys, came, X) ==
  /\ DOMAIN table = {keys[n] : n \in runs}
  /\ \A key \in DOMAIN table :
       /\ table[key] \in Seq(X)
       /\ Alike(table[key], {n \in runs : keys[n] = key}, came)

LEMMA FilesSame ==
  ASSUME NEW table, NEW runs, NEW keys, NEW came, NEW now, NEW X,
         Files(table, runs, keys, came, X), \A n \in runs : now[n] = came[n]
  PROVE  Files(table, runs, keys, now, X)
<1>1. ASSUME NEW key \in DOMAIN table
      PROVE  Alike(table[key], {n \in runs : keys[n] = key}, now)
  <2>1. Alike(table[key], {n \in runs : keys[n] = key}, came) BY <1>1 DEF Files
  <2> QED BY <2>1, AlikeSame
<1> QED BY <1>1 DEF Files

LEMMA Filed ==
  ASSUME NEW table, NEW runs, IsFiniteSet(runs), NEW keys, NEW came, NEW X,
         Files(table, runs, keys, came, X), NEW n, n \notin runs, NEW x \in X, came[n] = x,
         NEW key, keys[n] = key
  PROVE  Files(With(table, key, Append(Entry(table, key, <<>>), x)), runs \cup {n}, keys, came, X)
<1>1. PICK old, new : /\ old = Entry(table, key, <<>>)
                      /\ new = With(table, key, Append(old, x)) OBVIOUS
<1>2. /\ DOMAIN new = DOMAIN table \cup {key} /\ new[key] = Append(old, x)
      /\ \A k \in DOMAIN table : k # key => new[k] = table[k]
  BY <1>1 DEF With
<1>3. old \in Seq(X) /\ Alike(old, {m \in runs : keys[m] = key}, came)
  <2>1. CASE key \in DOMAIN table BY <1>1, <2>1 DEF Entry, Files
  <2>2. CASE key \notin DOMAIN table
    <3>1. {m \in runs : keys[m] = key} = {} BY <2>2 DEF Files
    <3>2. old = <<>> BY <1>1, <2>2 DEF Entry
    <3>3. old \in Seq(X) BY <3>2
    <3>4. Alike(old, {}, came) BY <3>2, AlikeEmpty
    <3> QED BY <3>1, <3>3, <3>4
  <2> QED BY <2>1, <2>2
<1>4. Append(old, x) \in Seq(X) BY <1>3
<1>5. Alike(new[key], {m \in runs \cup {n} : keys[m] = key}, came)
  <2>1. {m \in runs \cup {n} : keys[m] = key} = {m \in runs : keys[m] = key} \cup {n} OBVIOUS
  <2>2. PICK own : own = {m \in runs : keys[m] = key} OBVIOUS
  <2>3. IsFiniteSet(own) /\ n \notin own BY <2>2, FS_Subset
  <2>4. Alike(old, own, came) BY <1>3, <2>2
  <2>5. Alike(Append(old, x), own \cup {n}, came) BY <1>3, <2>3, <2>4, AlikeAppend
  <2> QED BY <1>2, <2>1, <2>2, <2>5
<1>6. ASSUME NEW k \in DOMAIN table, k # key
      PROVE  Alike(new[k], {m \in runs \cup {n} : keys[m] = k}, came) /\ new[k] \in Seq(X)
  <2>1. {m \in runs \cup {n} : keys[m] = k} = {m \in runs : keys[m] = k} BY <1>6
  <2> QED BY <1>2, <1>6, <2>1 DEF Files
<1>7. DOMAIN new = {keys[m] : m \in runs \cup {n}} BY <1>2 DEF Files
<1> QED BY <1>1, <1>2, <1>4, <1>5, <1>6, <1>7 DEF Files

-----------------------------------------------------------------------------
Key(n) == <<RunAt(n).assumption, RunAt(n).scenario>>

Keys == [n \in Nat |-> Key(n)]

(* The runs whose row the stream has yielded, and the runs that are        *)
(* sampled: a baseline is once one of its scenarios is.                    *)
Streamed == {n \in DOMAIN log : experiment.scenarios = 0 \/ RunAt(n).scenario > 0}

Sampled ==
  {n \in DOMAIN log : RunAt(n).scenario > 0 \/ \E m \in Streamed : BaselineOf(m) = n}

Compared == [n \in DOMAIN log |-> [base |-> log[BaselineOf(n)], with |-> log[n]]]

Pairings == [base : Outcomes, with : Outcomes]

RowOf(n) == <<RunAt(n).assumption + 1, RunAt(n).replication + 1>>

Counted(key) ==
  [valid |-> Cardinality(Usable(Of(key))), truncated |-> Cardinality(Of(key) \ Usable(Of(key)))]

Tallied == summaries = [key \in {Key(n) : n \in DOMAIN log} |-> Counted(key)]

LastRow ==
  \/ Streamed = {} /\ previous = NoRow
  \/ \E n \in Streamed : previous = RowOf(n) /\ \A m \in Streamed : m <= n

XInv ==
  /\ Shaped /\ log \in Seq(Outcomes) /\ Len(log) <= Runs
  /\ Tallied
  /\ Files(values, Sampled, Keys, log, Outcomes)
  /\ Files(deltas, Streamed, Keys, Compared, Pairings)
  /\ LastRow
  /\ SummaryFaithful

LEMMA SameRuns ==
  ASSUME experiment' = experiment
  PROVE  /\ \A n : /\ RunAt(n)' = RunAt(n) /\ Key(n)' = Key(n) /\ RowOf(n)' = RowOf(n)
                   /\ BaselineOf(n)' = BaselineOf(n)
         /\ Keys' = Keys /\ Runs' = Runs /\ Shaped' = Shaped
<1>1. \A n : RunAt(n)' = RunAt(n) BY DEF RunAt, Width
<1>2. \A n : Key(n)' = Key(n) BY <1>1 DEF Key
<1>3. Keys' = Keys BY <1>2 DEF Keys
<1>4. \A n : RowOf(n)' = RowOf(n) BY <1>1 DEF RowOf
<1>5. \A n : BaselineOf(n)' = BaselineOf(n) BY <1>1 DEF BaselineOf
<1>6. Runs' = Runs BY DEF Runs, Width
<1>7. Shaped' = Shaped BY DEF Shaped
<1> QED BY <1>1, <1>2, <1>3, <1>4, <1>5, <1>6, <1>7

LEMMA Logged ==
  ASSUME XInv
  PROVE  /\ Len(log) \in Nat /\ DOMAIN log = 1 .. Len(log) /\ IsFiniteSet(DOMAIN log)
         /\ \A n \in DOMAIN log : n \in Nat \ {0} /\ n <= Runs /\ log[n] \in Outcomes
<1>1. log \in Seq(Outcomes) /\ Len(log) <= Runs BY DEF XInv
<1>2. Len(log) \in Nat /\ DOMAIN log = 1 .. Len(log) BY <1>1
<1>3. IsFiniteSet(1 .. Len(log)) BY <1>2, FS_Interval
<1>4. Runs \in Nat
  <2>1. Shaped /\ 1 \in Nat \ {0} BY DEF XInv
  <2> QED BY <2>1, RunsBound
<1> QED BY <1>1, <1>2, <1>3, <1>4

LEMMA Advance ==
  ASSUME XInv, NEW outcome \in Outcomes, Simulation(outcome), NEW N, N = Len(log) + 1
  PROVE  /\ N \in Nat \ {0} /\ N <= Runs /\ N \notin DOMAIN log
         /\ \A n \in DOMAIN log : n < N
         /\ log' \in Seq(Outcomes) /\ Len(log') = N
         /\ DOMAIN log' = DOMAIN log \cup {N} /\ log'[N] = outcome
         /\ \A n \in DOMAIN log : log'[n] = log[n]
         /\ experiment' = experiment /\ Shaped
         /\ DOMAIN log = 1 .. N - 1 /\ \A n \in DOMAIN log : n \in Nat \ {0}
<1>1. /\ Len(log) \in Nat /\ DOMAIN log = 1 .. Len(log) /\ Runs \in Nat /\ Shaped
      /\ log \in Seq(Outcomes)
  <2>1. Shaped /\ 1 \in Nat \ {0} BY DEF XInv
  <2> QED BY <2>1, Logged, RunsBound DEF XInv
<1>2. log' = Append(log, outcome) /\ Len(log) < Runs /\ experiment' = experiment
  BY DEF Simulation
<1> QED BY <1>1, <1>2

(* Who comes with a simulation.                                            *)
LEMMA OfNext ==
  ASSUME XInv, NEW outcome \in Outcomes, Simulation(outcome), NEW N, N = Len(log) + 1, NEW key
  PROVE  /\ key = Key(N) => Of(key)' = Of(key) \cup {N}
         /\ key # Key(N) /\ (\E n \in Nat : key = Key(n)) => Of(key)' = Of(key)
         /\ Of(key) \subseteq DOMAIN log
<1>1. /\ DOMAIN log' = DOMAIN log \cup {N} /\ \A n : RunAt(n)' = RunAt(n)
  BY Advance, SameRuns
<1>2. Of(key)' = {n \in DOMAIN log \cup {N} :
                    RunAt(n).assumption = key[1] /\ RunAt(n).scenario = key[2]}
  BY <1>1 DEF Of
<1>3. key = Key(N) => RunAt(N).assumption = key[1] /\ RunAt(N).scenario = key[2]
  BY DEF Key
<1>4. key # Key(N) /\ (\E n \in Nat : key = Key(n))
        => ~(RunAt(N).assumption = key[1] /\ RunAt(N).scenario = key[2])
  BY DEF Key
<1> QED BY <1>2, <1>3, <1>4 DEF Of

LEMMA TalliedStep ==
  ASSUME XInv, NEW outcome \in Outcomes, Simulation(outcome)
  PROVE  Tallied'
<1>1. PICK N : N = Len(log) + 1 OBVIOUS
<1>2. PICK own : own = Key(N) OBVIOUS
<1>3. /\ N \in Nat \ {0} /\ N \notin DOMAIN log /\ log'[N] = outcome
      /\ DOMAIN log' = DOMAIN log \cup {N} /\ \A n \in DOMAIN log : log'[n] = log[n]
      /\ \A n \in DOMAIN log : n \in Nat /\ IsFiniteSet(DOMAIN log)
  BY <1>1, Advance, Logged
<1>4. \A n : Key(n)' = Key(n) BY <1>1, Advance, SameRuns
<1>5. summaries' = With(summaries, own,
                        LET old == Entry(summaries, own, [valid |-> 0, truncated |-> 0]) IN
                        IF outcome.truncated THEN [old EXCEPT !.truncated = @ + 1]
                        ELSE [old EXCEPT !.valid = @ + 1])
  BY <1>1, <1>2 DEF Simulation, Record, Key
<1>6. DOMAIN summaries = {Key(n) : n \in DOMAIN log} BY DEF XInv, Tallied
<1>7. PICK u, t : u = Usable(Of(own)) /\ t = Of(own) \ Usable(Of(own)) OBVIOUS
<1>8. /\ u \subseteq DOMAIN log /\ t \subseteq DOMAIN log /\ N \notin u /\ N \notin t
      /\ IsFiniteSet(u) /\ IsFiniteSet(t)
      /\ Cardinality(u) \in Nat /\ Cardinality(t) \in Nat
  <2>1. u \subseteq DOMAIN log /\ t \subseteq DOMAIN log BY <1>7 DEF Usable, Of
  <2>2. IsFiniteSet(DOMAIN log) BY Logged
  <2>3. IsFiniteSet(u) /\ IsFiniteSet(t) BY <2>1, <2>2, FS_Subset
  <2> QED BY <1>3, <2>1, <2>3, FS_CardinalityType
<1>9. PICK old : /\ old = Entry(summaries, own, [valid |-> 0, truncated |-> 0])
                 /\ old = [valid |-> Cardinality(u), truncated |-> Cardinality(t)]
  <2>1. CASE own \in DOMAIN summaries
    <3>1. Entry(summaries, own, [valid |-> 0, truncated |-> 0]) = Counted(own)
      BY <2>1 DEF Entry, XInv, Tallied
    <3> QED BY <1>7, <3>1 DEF Counted
  <2>2. CASE own \notin DOMAIN summaries
    <3>1. Of(own) = {}
      <4>1. ASSUME NEW n \in Of(own) PROVE Key(n) = own BY <1>2, <4>1 DEF Of, Key
      <4> QED BY <1>6, <2>2, <4>1 DEF Of
    <3>2. u = {} /\ t = {} BY <1>7, <3>1 DEF Usable
    <3>3. Cardinality(u) = 0 /\ Cardinality(t) = 0 BY <3>2, FS_EmptySet
    <3> QED BY <2>2, <3>3 DEF Entry
  <2> QED BY <2>1, <2>2
<1>10. /\ Usable(Of(own))' = IF outcome.truncated THEN u ELSE u \cup {N}
       /\ (Of(own) \ Usable(Of(own)))' = IF outcome.truncated THEN t \cup {N} ELSE t
  <2>1. Of(own)' = Of(own) \cup {N} /\ Of(own) \subseteq DOMAIN log
    BY <1>1, <1>2, OfNext
  <2>2. Usable(Of(own))' = {n \in Of(own) \cup {N} : ~log'[n].truncated}
    BY <2>1 DEF Usable
  <2>3. u = {n \in Of(own) : ~log[n].truncated} BY <1>7 DEF Usable
  <2>4. Usable(Of(own))' = IF outcome.truncated THEN u ELSE u \cup {N}
    BY <1>3, <2>1, <2>2, <2>3
  <2>5. (Of(own) \ Usable(Of(own)))' = (Of(own) \cup {N}) \ Usable(Of(own))' BY <2>1
  <2>6. PICK o : o = Of(own) /\ t = o \ u /\ u \subseteq o /\ N \notin o
    BY <1>3, <1>7, <2>1 DEF Usable
  <2>7. (o \cup {N}) \ (IF outcome.truncated THEN u ELSE u \cup {N})
          = IF outcome.truncated THEN t \cup {N} ELSE t
    BY ONLY <2>6
  <2> QED BY <2>4, <2>5, <2>6, <2>7
<1>11. Counted(own)' = IF outcome.truncated THEN [old EXCEPT !.truncated = @ + 1]
                       ELSE [old EXCEPT !.valid = @ + 1]
  <2>1. Cardinality(u \cup {N}) = Cardinality(u) + 1 BY <1>8, FS_AddElement
  <2>2. Cardinality(t \cup {N}) = Cardinality(t) + 1 BY <1>8, FS_AddElement
  <2>3. Counted(own)' = [valid |-> Cardinality(Usable(Of(own))'),
                         truncated |-> Cardinality((Of(own) \ Usable(Of(own)))')]
    BY DEF Counted
  <2>4. CASE outcome.truncated BY <1>9, <1>10, <2>2, <2>3, <2>4
  <2>5. CASE ~outcome.truncated BY <1>9, <1>10, <2>1, <2>3, <2>5
  <2> QED BY <2>4, <2>5
<1>12. ASSUME NEW key \in DOMAIN summaries, key # own
       PROVE  Counted(key)' = summaries[key]
  <2>1. \E n \in Nat : key = Key(n) BY <1>3, <1>6
  <2>2. Of(key)' = Of(key) /\ Of(key) \subseteq DOMAIN log
    BY <1>1, <1>2, <1>12, <2>1, OfNext
  <2>3. Usable(Of(key))' = Usable(Of(key)) BY <1>3, <2>2 DEF Usable
  <2>4. Counted(key)' = Counted(key) BY <2>2, <2>3 DEF Counted
  <2> QED BY <1>12, <2>4 DEF XInv, Tallied
<1>13. {Key(n) : n \in DOMAIN log}' = DOMAIN summaries \cup {own}
  BY <1>2, <1>3, <1>4, <1>6
<1>14. \A key \in DOMAIN summaries \cup {own} : summaries'[key] = Counted(key)'
  BY <1>5, <1>9, <1>11, <1>12 DEF With
<1>15. /\ DOMAIN summaries' = DOMAIN summaries \cup {own}
       /\ summaries' = [key \in DOMAIN summaries' |-> summaries'[key]]
  BY <1>5 DEF With
<1> QED BY <1>13, <1>14, <1>15 DEF Tallied

(* A row of the stream, and whether its baseline was sampled before.       *)
LEMMA StreamedNext ==
  ASSUME XInv, NEW outcome \in Outcomes, Simulation(outcome), NEW N, N = Len(log) + 1
  PROVE  /\ Streamed' = IF experiment.scenarios = 0 \/ RunAt(N).scenario > 0
                        THEN Streamed \cup {N} ELSE Streamed
         /\ Streamed \subseteq DOMAIN log /\ N \notin Streamed /\ IsFiniteSet(Streamed)
<1>1. /\ DOMAIN log' = DOMAIN log \cup {N} /\ experiment' = experiment
      /\ \A n : RunAt(n)' = RunAt(n)
  BY Advance, SameRuns
<1>2. Streamed' = {n \in DOMAIN log \cup {N} :
                     experiment.scenarios = 0 \/ RunAt(n).scenario > 0}
  BY <1>1 DEF Streamed
<1>3. Streamed \subseteq DOMAIN log BY DEF Streamed
<1>4. N \notin DOMAIN log /\ IsFiniteSet(DOMAIN log) BY Advance, Logged
<1> QED BY <1>2, <1>3, <1>4, FS_Subset DEF Streamed

LEMMA SampledNext ==
  ASSUME XInv, NEW outcome \in Outcomes, Simulation(outcome), NEW N, N = Len(log) + 1,
         NEW B, B = BaselineOf(N)
  PROVE  /\ Sampled' = Sampled \cup (IF RunAt(N).scenario > 0 THEN {N} ELSE {})
                         \cup (IF experiment.scenarios = 0 \/ RunAt(N).scenario > 0 THEN {B} ELSE {})
         /\ Sampled \subseteq DOMAIN log /\ N \notin Sampled /\ IsFiniteSet(Sampled)
<1>1. /\ DOMAIN log' = DOMAIN log \cup {N}
      /\ \A n : RunAt(n)' = RunAt(n) /\ BaselineOf(n)' = BaselineOf(n)
      /\ N \in Nat \ {0} /\ N \notin DOMAIN log
  BY Advance, SameRuns
<1>3. Streamed' = IF experiment.scenarios = 0 \/ RunAt(N).scenario > 0
                  THEN Streamed \cup {N} ELSE Streamed
  BY StreamedNext
<1>4. Sampled' = {n \in DOMAIN log \cup {N} :
                    RunAt(n).scenario > 0 \/ \E m \in Streamed' : BaselineOf(m) = n}
  BY <1>1 DEF Sampled
<1>5. B \in DOMAIN log \cup {N}
  <2>2. B \in 1 .. N BY <1>1, BlockStart DEF XInv
  <2>3. DOMAIN log = 1 .. Len(log) /\ Len(log) \in Nat BY Logged
  <2> QED BY <2>2, <2>3
<1>6. \A m \in Streamed : BaselineOf(m) # N
  <2> SUFFICES ASSUME NEW m \in Streamed PROVE BaselineOf(m) # N OBVIOUS
  <2>1. m \in DOMAIN log /\ m \in Nat \ {0} /\ m < N BY Advance, Logged DEF Streamed
  <2>3. BaselineOf(m) \in 1 .. m BY <2>1, BlockStart DEF XInv
  <2> QED BY <1>1, <2>1, <2>3
<1>7. Sampled \subseteq DOMAIN log BY DEF Sampled
<1>8. IsFiniteSet(Sampled) BY <1>7, Logged, FS_Subset
<1>9. CASE experiment.scenarios = 0 \/ RunAt(N).scenario > 0
  <2>1. Streamed' = Streamed \cup {N} BY <1>3, <1>9
  <2> QED BY <1>1, <1>4, <1>5, <1>6, <1>7, <1>8, <1>9, <2>1 DEF Sampled
<1>10. CASE ~(experiment.scenarios = 0 \/ RunAt(N).scenario > 0)
  <2>1. Streamed' = Streamed BY <1>3, <1>10
  <2> QED BY <1>1, <1>4, <1>6, <1>7, <1>8, <1>10, <2>1 DEF Sampled
<1> QED BY <1>9, <1>10

LEMMA SameBaseline ==
  ASSUME Shaped, NEW m \in Nat \ {0}, NEW n \in Nat \ {0}
  PROVE  RowOf(m) = RowOf(n) <=> BaselineOf(m) = BaselineOf(n)
<1>1. 0 \in 0 .. experiment.scenarios BY DEF Shaped
<1>2. PICK b, c : b = BaselineOf(m) /\ c = BaselineOf(n) OBVIOUS
<1>3. /\ b \in Nat \ {0} /\ RunAt(b) = [assumption |-> RunAt(m).assumption,
                                     replication |-> RunAt(m).replication, scenario |-> 0]
  BY <1>2, BlockStart
<1>4. /\ c \in Nat \ {0} /\ RunAt(c) = [assumption |-> RunAt(n).assumption,
                                     replication |-> RunAt(n).replication, scenario |-> 0]
  BY <1>2, BlockStart
<1>5. /\ RunAt(m).assumption \in Nat /\ RunAt(n).assumption \in Nat
      /\ RunAt(m).replication \in Nat /\ RunAt(n).replication \in Nat
  BY RunParts DEF Shaped
<1>6. RowOf(m) = RowOf(n) <=> RunAt(b) = RunAt(c)
  BY <1>3, <1>4, <1>5 DEF RowOf
<1>7. RunAt(b) = RunAt(c) => b = c BY <1>3, <1>4, OneRun
<1> QED BY <1>2, <1>6, <1>7

LEMMA NewIs ==
  ASSUME XInv, NEW N, N = Len(log) + 1, NEW B, B = BaselineOf(N),
         experiment.scenarios = 0 \/ RunAt(N).scenario > 0
  PROVE  NewBaseline(RowOf(N)) <=> B \notin Sampled
<1>1. /\ Len(log) \in Nat /\ DOMAIN log = 1 .. Len(log)
      /\ Shaped /\ 0 \in 0 .. experiment.scenarios /\ N \in Nat \ {0}
  <2>1. Len(log) \in Nat /\ DOMAIN log = 1 .. Len(log) BY Logged
  <2> QED BY <2>1 DEF XInv, Shaped
<1>2. B \in 1 .. N /\ N = B + RunAt(N).scenario BY <1>1, BlockStart
<1>3. RunAt(B).scenario = 0 /\ B \in Nat BY <1>1, BlockStart
<1>4. B \in Sampled <=> \E m \in Streamed : BaselineOf(m) = B
  <2>1. ASSUME NEW m \in Streamed, BaselineOf(m) = B PROVE B \in DOMAIN log
    <3>1. m \in 1 .. Len(log) BY <1>1, <2>1 DEF Streamed
    <3>2. m \in Nat \ {0} BY <1>1, <3>1
    <3>3. B \in 1 .. m BY <1>1, <2>1, <3>2, BlockStart
    <3> QED BY <1>1, <3>1, <3>3
  <2> QED BY <1>3, <2>1 DEF Sampled
<1>5. ASSUME NEW m \in Streamed, BaselineOf(m) = B PROVE previous = RowOf(N)
  <2>1. PICK n \in Streamed : previous = RowOf(n) /\ \A k \in Streamed : k <= n
    BY <1>5 DEF XInv, LastRow
  <2>2. m <= n /\ m \in 1 .. Len(log) /\ n \in 1 .. Len(log)
    BY <1>1, <1>5, <2>1 DEF Streamed
  <2>3. B \in 1 .. m BY <1>1, <1>5, <2>2, BlockStart
  <2>4. RunAt(N).scenario \in 0 .. experiment.scenarios /\ experiment.scenarios \in Nat
    BY <1>1, RunParts DEF Shaped
  <2>5. n \in B .. B + experiment.scenarios BY <1>1, <1>2, <2>2, <2>3, <2>4
  <2>6. BaselineOf(n) = B BY <1>1, <2>5, BlockRest
  <2>7. RowOf(n) = RowOf(N) BY <1>1, <2>2, <2>6, SameBaseline
  <2> QED BY <2>1, <2>7
<1>6. ASSUME previous = RowOf(N) PROVE \E m \in Streamed : BaselineOf(m) = B
  <2>1. previous # NoRow
    <3>1. RunAt(N).assumption \in Nat BY <1>1, RunParts
    <3> QED BY <1>6, <3>1 DEF RowOf, NoRow
  <2>2. PICK n \in Streamed : previous = RowOf(n) BY <2>1 DEF XInv, LastRow
  <2>3. n \in Nat \ {0} BY <1>1, <2>2 DEF Streamed
  <2> QED BY <1>1, <1>6, <2>2, <2>3, SameBaseline
<1> QED BY <1>4, <1>5, <1>6 DEF NewBaseline

(* The consumer's half of a simulation in terms of its number.             *)
Taking(n, outcome) ==
  IF RunAt(n).scenario = 0 THEN values
  ELSE With(values, Key(n), Append(Entry(values, Key(n), <<>>), outcome))

LEMMA ConsumedIs ==
  ASSUME XInv, NEW outcome \in Outcomes, Simulation(outcome), NEW N, N = Len(log) + 1,
         NEW B, B = BaselineOf(N), experiment.scenarios = 0 \/ RunAt(N).scenario > 0
  PROVE  /\ deltas' = With(deltas, Key(N), Append(Entry(deltas, Key(N), <<>>),
                                                  [base |-> log'[B], with |-> outcome]))
         /\ NewBaseline(RowOf(N))
              => values' = With(Taking(N, outcome), Key(B),
                                Append(Entry(Taking(N, outcome), Key(B), <<>>), log'[B]))
         /\ ~NewBaseline(RowOf(N)) => values' = Taking(N, outcome)
         /\ previous' = RowOf(N)
<1>1. /\ N \in Nat \ {0} /\ Shaped /\ log'[N] = outcome
      /\ \A n \in DOMAIN log : log'[n] = log[n]
      /\ DOMAIN log = 1 .. N - 1
  BY Advance
<1>2. B \in 1 .. N /\ N = B + RunAt(N).scenario /\ RunAt(B).scenario = 0
      /\ RunAt(B).assumption = RunAt(N).assumption
  BY <1>1, BlockStart
<1>3. log'[B] = IF RunAt(N).scenario = 0 THEN outcome ELSE log[N - RunAt(N).scenario]
  <2>1. RunAt(N).scenario \in Nat BY <1>1, RunParts DEF Shaped
  <2>2. CASE RunAt(N).scenario = 0
    <3>1. B = N BY <1>1, <1>2, <2>2
    <3> QED BY <1>1, <2>2, <3>1
  <2>3. CASE RunAt(N).scenario # 0
    <3>1. B \in DOMAIN log /\ B = N - RunAt(N).scenario BY <1>1, <1>2, <2>1, <2>3
    <3> QED BY <1>1, <2>3, <3>1
  <2> QED BY <2>2, <2>3
<1>4. ~(RunAt(N).scenario = 0 /\ experiment.scenarios > 0)
  <2>1. Shaped /\ RunAt(N).scenario \in Nat BY <1>1, RunParts DEF Shaped
  <2> QED BY <2>1 DEF Shaped
<1>5. Key(N) = <<RunAt(N).assumption, RunAt(N).scenario>> /\ Key(B) = <<RunAt(N).assumption, 0>>
  BY <1>2 DEF Key
<1>6. PICK base : base = IF RunAt(Len(log) + 1).scenario = 0 THEN outcome
                         ELSE log[Len(log) + 1 - RunAt(Len(log) + 1).scenario]
  OBVIOUS
<1>7. base = log'[B]
  <2>1. Len(log) + 1 = N OBVIOUS
  <2>2. PICK s : s = RunAt(N).scenario OBVIOUS
  <2>3. log'[B] = IF s = 0 THEN outcome ELSE log[N - s] BY <1>3, <2>2
  <2>4. base = IF s = 0 THEN outcome ELSE log[N - s]
    <3>1. Len(log) \in Nat /\ s \in Int
      <4>1. Shaped /\ N \in Nat \ {0} /\ Len(log) \in Nat BY <1>1, Logged
      <4> QED BY <2>2, <4>1, RunParts DEF Shaped
    <3>2. Len(log) + 1 - s = N - s BY <2>1, <3>1
    <3>3. base = IF s = 0 THEN outcome ELSE log[Len(log) + 1 - s] BY <1>6, <2>1, <2>2
    <3> QED BY ONLY <3>2, <3>3
  <2> QED BY ONLY <2>3, <2>4
<1>8. PICK pair, row, first :
        /\ pair = <<RunAt(Len(log) + 1).assumption, RunAt(Len(log) + 1).scenario>>
        /\ row = <<RunAt(Len(log) + 1).assumption + 1, RunAt(Len(log) + 1).replication + 1>>
        /\ first = <<RunAt(Len(log) + 1).assumption, 0>>
  OBVIOUS
<1>9. pair = Key(N) /\ row = RowOf(N) /\ first = Key(B) BY <1>5, <1>8 DEF RowOf
<1>10. PICK taken : taken = IF RunAt(Len(log) + 1).scenario = 0 THEN values
                           ELSE With(values, pair, Append(Entry(values, pair, <<>>), outcome))
  OBVIOUS
<1>11. taken = Taking(N, outcome) BY <1>9, <1>10 DEF Taking
<1>12. ~(RunAt(Len(log) + 1).scenario = 0 /\ experiment.scenarios > 0) BY <1>4
<1>13. deltas' = With(deltas, pair, Append(Entry(deltas, pair, <<>>), [base |-> base, with |-> outcome]))
  BY <1>6, <1>8, <1>12 DEF Simulation, Consume
<1>14. /\ values' = IF NewBaseline(row)
                    THEN With(taken, first, Append(Entry(taken, first, <<>>), base))
                    ELSE taken
       /\ previous' = row
  BY <1>6, <1>8, <1>10, <1>12 DEF Simulation, Consume
<1> QED BY ONLY <1>7, <1>9, <1>11, <1>13, <1>14

LEMMA ValuesStep ==
  ASSUME XInv, NEW outcome \in Outcomes, Simulation(outcome)
  PROVE  Files(values, Sampled, Keys, log, Outcomes)'
<1>1. PICK N, B : N = Len(log) + 1 /\ B = BaselineOf(N) OBVIOUS
<1>2. /\ N \in Nat \ {0} /\ Shaped /\ log'[N] = outcome
      /\ \A n \in DOMAIN log : log'[n] = log[n]
      /\ DOMAIN log = 1 .. N - 1
  BY <1>1, Advance
<1>3. B \in 1 .. N /\ N = B + RunAt(N).scenario /\ RunAt(B).scenario = 0
  BY <1>1, <1>2, BlockStart
<1>4. RunAt(N).scenario \in Nat /\ experiment.scenarios \in Nat
  BY <1>2, RunParts DEF Shaped
<1>5. PICK ks, came : ks = Keys /\ came = log' OBVIOUS
<1>6. /\ Sampled' = Sampled \cup (IF RunAt(N).scenario > 0 THEN {N} ELSE {})
                      \cup (IF experiment.scenarios = 0 \/ RunAt(N).scenario > 0 THEN {B} ELSE {})
      /\ Sampled \subseteq DOMAIN log /\ N \notin Sampled /\ IsFiniteSet(Sampled)
  BY <1>1, SampledNext
<1>7. Keys' = ks /\ ks[N] = Key(N) /\ ks[B] = Key(B)
  <2>1. experiment' = experiment BY <1>1, Advance
  <2> QED BY <1>2, <1>3, <1>5, <2>1, SameRuns DEF Keys
<1>8. Files(values, Sampled, ks, came, Outcomes)
  <2>1. Files(values, Sampled, Keys, log, Outcomes) BY DEF XInv
  <2>2. \A n \in Sampled : came[n] = log[n] BY <1>2, <1>5, <1>6
  <2> QED BY <1>5, <2>1, <2>2, FilesSame
<1>9. SUFFICES Files(values', Sampled', ks, came, Outcomes)
  <2>1. Files(values', Sampled', ks, came, Outcomes) => Files(values', Sampled', Keys', log', Outcomes)
    BY <1>5, <1>7
  <2>2. Files(values', Sampled', Keys', log', Outcomes) <=> Files(values, Sampled, Keys, log, Outcomes)'
    OBVIOUS
  <2> QED BY <1>9, <2>1, <2>2
<1>10. CASE ~(experiment.scenarios = 0 \/ RunAt(N).scenario > 0)
  <2>1. RunAt(N).scenario = 0 /\ experiment.scenarios > 0 BY <1>4, <1>10
  <2>2. values' = values BY <1>1, <2>1 DEF Simulation
  <2>3. Sampled' = Sampled BY <1>6, <1>10
  <2> QED BY <1>8, <2>2, <2>3
<1>11. CASE experiment.scenarios = 0 \/ RunAt(N).scenario > 0
  <2>1. PICK taken, S : /\ taken = Taking(N, outcome)
                        /\ S = Sampled \cup (IF RunAt(N).scenario > 0 THEN {N} ELSE {})
    OBVIOUS
  <2>2. /\ values' = IF NewBaseline(RowOf(N))
                     THEN With(taken, Key(B), Append(Entry(taken, Key(B), <<>>), log'[B]))
                     ELSE taken
    <3>1. /\ NewBaseline(RowOf(N))
               => values' = With(Taking(N, outcome), Key(B),
                                 Append(Entry(Taking(N, outcome), Key(B), <<>>), log'[B]))
          /\ ~NewBaseline(RowOf(N)) => values' = Taking(N, outcome)
      BY <1>1, <1>11, ConsumedIs
    <3> QED BY ONLY <2>1, <3>1
  <2>3. Files(taken, S, ks, came, Outcomes) /\ IsFiniteSet(S)
    <3>1. CASE RunAt(N).scenario = 0
      <4>1. taken = values /\ S = Sampled BY <2>1, <3>1 DEF Taking
      <4> QED BY <1>6, <1>8, <4>1
    <3>2. CASE RunAt(N).scenario > 0
      <4>1. /\ taken = With(values, Key(N), Append(Entry(values, Key(N), <<>>), outcome))
            /\ S = Sampled \cup {N}
        BY <2>1, <3>2 DEF Taking
      <4>2. came[N] = outcome BY <1>2, <1>5
      <4>3. Files(With(values, Key(N), Append(Entry(values, Key(N), <<>>), outcome)),
                  Sampled \cup {N}, ks, came, Outcomes)
        BY <1>6, <1>7, <1>8, <4>2, Filed
      <4>4. IsFiniteSet(Sampled \cup {N}) BY <1>6, FS_AddElement
      <4> QED BY <4>1, <4>3, <4>4
    <3> QED BY <1>4, <3>1, <3>2
  <2>4. Sampled' = S \cup {B} BY <1>6, <1>11, <2>1
  <2>5. B \in S <=> B \in Sampled BY <1>2, <1>3, <1>6, <2>1
  <2>6. NewBaseline(RowOf(N)) <=> B \notin Sampled BY <1>1, <1>11, NewIs
  <2>7. CASE B \in Sampled
    <3>1. Sampled' = S BY <2>4, <2>5, <2>7
    <3>2. values' = taken BY <2>2, <2>6, <2>7
    <3> QED BY <2>3, <3>1, <3>2
  <2>8. CASE B \notin Sampled
    <3>1. values' = With(taken, Key(B), Append(Entry(taken, Key(B), <<>>), log'[B]))
      BY <2>2, <2>6, <2>8
    <3>2. came[B] = log'[B] /\ came[B] \in Outcomes
      <4>1. B \in 1 .. Len(log') /\ log' \in Seq(Outcomes) BY <1>1, <1>3, Advance
      <4> QED BY <1>5, <4>1
    <3>3. Files(With(taken, Key(B), Append(Entry(taken, Key(B), <<>>), came[B])),
                S \cup {B}, ks, came, Outcomes)
      BY <1>7, <2>3, <2>5, <2>8, <3>2, Filed
    <3> QED BY <2>4, <3>1, <3>2, <3>3
  <2> QED BY <2>7, <2>8
<1> QED BY <1>10, <1>11

LEMMA DeltasStep ==
  ASSUME XInv, NEW outcome \in Outcomes, Simulation(outcome)
  PROVE  Files(deltas, Streamed, Keys, Compared, Pairings)'
<1>1. PICK N, B : N = Len(log) + 1 /\ B = BaselineOf(N) OBVIOUS
<1>2. /\ N \in Nat \ {0} /\ Shaped /\ log'[N] = outcome
      /\ \A n \in DOMAIN log : log'[n] = log[n] /\ n \in Nat \ {0}
      /\ DOMAIN log = 1 .. N - 1 /\ DOMAIN log' = DOMAIN log \cup {N}
      /\ experiment' = experiment /\ Len(log') = N /\ log' \in Seq(Outcomes)
  BY <1>1, Advance
<1>3. B \in 1 .. N BY <1>1, <1>2, BlockStart
<1>4. RunAt(N).scenario \in Nat /\ experiment.scenarios \in Nat
  BY <1>2, RunParts DEF Shaped
<1>5. PICK ks, came : ks = Keys /\ came = Compared' OBVIOUS
<1>6. /\ Streamed' = IF experiment.scenarios = 0 \/ RunAt(N).scenario > 0
                     THEN Streamed \cup {N} ELSE Streamed
      /\ Streamed \subseteq DOMAIN log /\ N \notin Streamed /\ IsFiniteSet(Streamed)
  BY <1>1, StreamedNext
<1>7. Keys' = ks /\ ks[N] = Key(N) BY <1>2, <1>5, SameRuns DEF Keys
<1>8. /\ \A n \in DOMAIN log : came[n] = Compared[n]
      /\ came[N] = [base |-> log'[B], with |-> outcome]
  <2>1. \A n : BaselineOf(n)' = BaselineOf(n) BY <1>2, SameRuns
  <2>2. came = [n \in DOMAIN log' |-> [base |-> log'[BaselineOf(n)], with |-> log'[n]]]
    BY <1>5, <2>1 DEF Compared
  <2>3. ASSUME NEW n \in DOMAIN log PROVE BaselineOf(n) \in DOMAIN log
    <3>1. n \in Nat \ {0} /\ n \in 1 .. N - 1 BY <1>2
    <3>2. BaselineOf(n) \in 1 .. n BY <1>2, <3>1, BlockStart
    <3> QED BY <1>2, <3>1, <3>2
  <2> QED BY <1>1, <1>2, <2>2, <2>3 DEF Compared
<1>9. Files(deltas, Streamed, ks, came, Pairings)
  <2>1. Files(deltas, Streamed, Keys, Compared, Pairings) BY DEF XInv
  <2> QED BY <1>5, <1>6, <1>8, <2>1, FilesSame
<1>10. SUFFICES Files(deltas', Streamed', ks, came, Pairings)
  <2>1. Files(deltas', Streamed', ks, came, Pairings) => Files(deltas', Streamed', Keys', Compared', Pairings)
    BY <1>5, <1>7
  <2>2. Files(deltas', Streamed', Keys', Compared', Pairings)
          <=> Files(deltas, Streamed, Keys, Compared, Pairings)'
    OBVIOUS
  <2> QED BY <1>10, <2>1, <2>2
<1>11. CASE ~(experiment.scenarios = 0 \/ RunAt(N).scenario > 0)
  <2>1. RunAt(N).scenario = 0 /\ experiment.scenarios > 0 BY <1>4, <1>11
  <2>2. deltas' = deltas BY <1>1, <2>1 DEF Simulation
  <2> QED BY <1>6, <1>9, <1>11, <2>2
<1>12. CASE experiment.scenarios = 0 \/ RunAt(N).scenario > 0
  <2>1. deltas' = With(deltas, Key(N), Append(Entry(deltas, Key(N), <<>>), came[N]))
    BY <1>1, <1>8, <1>12, ConsumedIs
  <2>2. came[N] \in Pairings BY <1>2, <1>3, <1>8 DEF Pairings
  <2>3. Files(With(deltas, Key(N), Append(Entry(deltas, Key(N), <<>>), came[N])),
              Streamed \cup {N}, ks, came, Pairings)
    BY <1>6, <1>7, <1>9, <2>2, Filed
  <2> QED BY <1>6, <1>12, <2>1, <2>3
<1> QED BY <1>11, <1>12

LEMMA LastRowStep ==
  ASSUME XInv, NEW outcome \in Outcomes, Simulation(outcome)
  PROVE  LastRow'
<1>1. PICK N : N = Len(log) + 1 OBVIOUS
<1>2. /\ N \in Nat \ {0} /\ \A n \in DOMAIN log : n < N /\ n \in Nat
      /\ experiment' = experiment
  BY <1>1, Advance, Logged
<1>3. \A n : RowOf(n)' = RowOf(n) BY <1>2, SameRuns
<1>4. /\ Streamed' = IF experiment.scenarios = 0 \/ RunAt(N).scenario > 0
                     THEN Streamed \cup {N} ELSE Streamed
      /\ Streamed \subseteq DOMAIN log
  BY <1>1, StreamedNext
<1>5. CASE experiment.scenarios = 0 \/ RunAt(N).scenario > 0
  <2>1. previous' = RowOf(N) BY <1>1, <1>5, ConsumedIs
  <2>2. \A m \in Streamed \cup {N} : m <= N BY <1>2, <1>4
  <2> QED BY <1>3, <1>4, <1>5, <2>1, <2>2 DEF LastRow
<1>6. CASE ~(experiment.scenarios = 0 \/ RunAt(N).scenario > 0)
  <2>1. Shaped BY DEF XInv
  <2>2. RunAt(N).scenario \in Nat /\ experiment.scenarios \in Nat
    BY <1>2, <2>1, RunParts DEF Shaped
  <2>3. RunAt(N).scenario = 0 /\ experiment.scenarios > 0 BY <1>6, <2>2
  <2>4. previous' = previous BY <1>1, <2>3 DEF Simulation
  <2>5. LastRow BY DEF XInv
  <2> QED BY <1>3, <1>4, <1>6, <2>4, <2>5 DEF LastRow
<1> QED BY <1>5, <1>6

-----------------------------------------------------------------------------
(* The summary of a completed stream.                                      *)
LEMMA AllSampled == ASSUME XInv, Len(log) = Runs PROVE Sampled = DOMAIN log
<1> SUFFICES ASSUME NEW n \in DOMAIN log PROVE n \in Sampled BY DEF Sampled
<1>1. n \in Nat \ {0} /\ n <= Runs /\ Shaped /\ Runs \in Nat /\ DOMAIN log = 1 .. Runs
  BY Logged DEF XInv
<1>2. PICK b : b = BaselineOf(n) OBVIOUS
<1>3. RunAt(n).scenario \in Nat /\ experiment.scenarios \in Nat
  BY <1>1, RunParts DEF Shaped
<1>4. CASE RunAt(n).scenario > 0 BY <1>4 DEF Sampled
<1>5. CASE RunAt(n).scenario = 0
  <2>1. b = n BY <1>1, <1>2, <1>5, BlockStart
  <2>2. CASE experiment.scenarios = 0
    <3>1. n \in Streamed BY <2>2 DEF Streamed
    <3> QED BY <1>2, <2>1, <3>1 DEF Sampled
  <2>3. CASE experiment.scenarios > 0
    <3>1. PICK k : k = b + 1 /\ k \in b .. b + experiment.scenarios /\ k \in Nat \ {0}
      BY <1>1, <1>3, <2>1, <2>3
    <3>2. BaselineOf(k) = b /\ RunAt(k).scenario = k - b /\ k <= Runs
      BY <1>1, <1>2, <3>1, BlockRest
    <3>3. RunAt(k).scenario > 0 /\ k \in DOMAIN log BY <1>1, <2>1, <3>1, <3>2
    <3>4. k \in Streamed BY <3>3 DEF Streamed
    <3> QED BY <2>1, <3>2, <3>4 DEF Sampled
  <2> QED BY <1>3, <2>2, <2>3
<1> QED BY <1>3, <1>4, <1>5

LEMMA OwnRuns ==
  ASSUME XInv, NEW m \in DOMAIN log, NEW key, key = Key(m), NEW ns \in SUBSET DOMAIN log
  PROVE  {n \in ns : Keys[n] = key} = Of(key) \cap ns
BY Logged DEF Of, Key, Keys

LEMMA OfCount ==
  ASSUME XInv, Len(log) = Runs, NEW m \in DOMAIN log, NEW key, key = Key(m)
  PROVE  Cardinality(Of(key)) = experiment.replications
<1>1. m \in Nat \ {0} /\ m <= Runs /\ Shaped /\ Runs \in Nat /\ DOMAIN log = 1 .. Runs
  BY Logged DEF XInv
<1>2. PICK a, s, R : /\ a = RunAt(m).assumption /\ s = RunAt(m).scenario
                     /\ R = experiment.replications
  OBVIOUS
<1>3. /\ a \in Nat /\ s \in 0 .. experiment.scenarios /\ R \in Nat \ {0}
      /\ a < experiment.assumptions
  BY <1>1, <1>2, RunParts, RunsBound DEF Shaped
<1>4. Of(key) = {n \in DOMAIN log : RunAt(n).assumption = a /\ RunAt(n).scenario = s}
  BY <1>2 DEF Of, Key
<1>5. PICK f : f = [r \in 0 .. R - 1 |-> Position(a, r, s)] OBVIOUS
<1>6. ASSUME NEW r \in 0 .. R - 1
      PROVE  /\ f[r] \in Of(key)
             /\ RunAt(f[r]).replication = r
  <2>1. PICK n : n = f[r] /\ n = Position(a, r, s) BY <1>5
  <2>2. /\ n \in Nat \ {0}
        /\ RunAt(n) = [assumption |-> a, replication |-> r, scenario |-> s]
    BY <1>1, <1>2, <1>3, <2>1, RunIs
  <2>3. n <= Runs BY <1>1, <1>3, <2>2, RunsBound
  <2> QED BY <1>1, <1>4, <2>1, <2>2, <2>3
<1>7. ASSUME NEW n \in Of(key) PROVE \E r \in 0 .. R - 1 : f[r] = n
  <2>1. n \in Nat \ {0} /\ RunAt(n).assumption = a /\ RunAt(n).scenario = s
    BY <1>1, <1>4
  <2>2. RunAt(n).replication \in 0 .. R - 1 /\ n = Position(a, RunAt(n).replication, s)
    BY <1>1, <1>2, <2>1, RunParts
  <2> QED BY <1>5, <2>2
<1>8. f \in Bijection(0 .. R - 1, Of(key))
  BY <1>5, <1>6, <1>7 DEF Bijection, Injection, Surjection, IsInjective
<1>9. IsFiniteSet(0 .. R - 1) /\ Cardinality(0 .. R - 1) = R
  <2>1. 0 \in Int /\ R - 1 \in Int /\ ~(0 > R - 1) /\ (R - 1) - 0 + 1 = R BY <1>3
  <2> QED BY <2>1, FS_Interval
<1> QED BY <1>2, <1>8, <1>9, FS_Bijection DEF ExistsBijection

(* What is sampled under a key is what its runs came to.                   *)
LEMMA RowsTrue ==
  ASSUME XInv, Len(log) = Runs, NEW key \in DOMAIN values
  PROVE  /\ \E m \in DOMAIN log : key = Key(m)
         /\ SummaryRows[key].merges.total = experiment.replications
         /\ SummaryRows[key].latency.total = experiment.replications
         /\ SummaryRows[key].merges.defined = Cardinality(Usable(Of(key)))
         /\ SummaryRows[key].latency.defined
              = Cardinality({n \in Usable(Of(key)) : log[n].latency})
<1>1. Files(values, DOMAIN log, Keys, log, Outcomes) BY AllSampled DEF XInv
<1>2. PICK m \in DOMAIN log : key = Key(m)
  <2>1. \A n \in DOMAIN log : n \in Nat BY Logged
  <2> QED BY <1>1, <2>1 DEF Files, Keys
<1>3. PICK seq, own : seq = values[key] /\ own = Of(key) OBVIOUS
<1>4. own \subseteq DOMAIN log /\ {n \in DOMAIN log : Keys[n] = key} = own
  <2>1. own \subseteq DOMAIN log BY <1>3 DEF Of
  <2>2. {n \in DOMAIN log : Keys[n] = key} = Of(key) \cap DOMAIN log BY <1>2, OwnRuns
  <2> QED BY <1>3, <2>1, <2>2
<1>5. seq \in Seq(Outcomes) /\ Alike(seq, own, log) BY <1>1, <1>3, <1>4 DEF Files
<1>6. \A n \in own : log[n] \in Outcomes BY <1>4, Logged
<1>7. Len(seq) = experiment.replications
  BY <1>2, <1>3, <1>5, <1>6, AlikeLength, OfCount
<1>8. \A i \in DOMAIN seq : seq[i] \in Outcomes BY <1>5
<1>9. Cardinality({i \in DOMAIN seq : ~seq[i].truncated}) = Cardinality(Usable(own))
  <2>1. PICK T : T = {o \in Outcomes : ~o.truncated} OBVIOUS
  <2>2. {i \in DOMAIN seq : seq[i] \in T} = {i \in DOMAIN seq : ~seq[i].truncated}
    BY <1>8, <2>1
  <2>3. {n \in own : log[n] \in T} = Usable(own) BY <1>6, <2>1 DEF Usable
  <2> QED BY <1>5, <2>2, <2>3 DEF Alike
<1>10. Cardinality({i \in DOMAIN seq : ~seq[i].truncated /\ seq[i].latency})
        = Cardinality({n \in Usable(own) : log[n].latency})
  <2>1. PICK T : T = {o \in Outcomes : ~o.truncated /\ o.latency} OBVIOUS
  <2>2. {i \in DOMAIN seq : seq[i] \in T}
          = {i \in DOMAIN seq : ~seq[i].truncated /\ seq[i].latency}
    BY <1>8, <2>1
  <2>3. {n \in own : log[n] \in T} = {n \in Usable(own) : log[n].latency}
    BY <1>6, <2>1 DEF Usable
  <2> QED BY <1>5, <2>2, <2>3 DEF Alike
<1>11. SummaryRows[key] =
         [merges |-> [total |-> Len(seq), defined |-> Cardinality({i \in DOMAIN seq : ~seq[i].truncated})],
          latency |-> [total |-> Len(seq),
                       defined |-> Cardinality({i \in DOMAIN seq : ~seq[i].truncated /\ seq[i].latency})]]
  BY <1>3 DEF SummaryRows, Stats, Positions
<1> QED BY <1>2, <1>3, <1>7, <1>9, <1>10, <1>11

LEMMA ComparisonsTrue ==
  ASSUME XInv, Len(log) = Runs, NEW key \in DOMAIN deltas
  PROVE  LET pair == Comparisons[key] IN
         /\ \E m \in Streamed : key = Key(m)
         /\ pair.absolute.total = experiment.replications
         /\ pair.relative.total = experiment.replications
         /\ pair.absolute.defined = Cardinality(Pairs(key))
         /\ pair.trials = Cardinality(Pairs(key))
         /\ pair.relative.defined = Cardinality({n \in Pairs(key) : log[BaselineOf(n)].merges > 0})
         /\ pair.successes
              = Cardinality({n \in Pairs(key) : log[n].merges > log[BaselineOf(n)].merges})
<1>1. Files(deltas, Streamed, Keys, Compared, Pairings) BY DEF XInv
<1>2. PICK m \in Streamed : key = Key(m)
  <2>1. \A n \in Streamed : n \in Nat BY Logged DEF Streamed
  <2> QED BY <1>1, <2>1 DEF Files, Keys
<1>3. PICK seq, own, came : seq = deltas[key] /\ own = Of(key) /\ came = Compared OBVIOUS
<1>4. m \in DOMAIN log /\ Streamed \subseteq DOMAIN log BY DEF Streamed
<1>5. own \subseteq DOMAIN log /\ {n \in Streamed : Keys[n] = key} = own
  <2>1. own \subseteq DOMAIN log BY <1>3 DEF Of
  <2>2. {n \in Streamed : Keys[n] = key} = Of(key) \cap Streamed BY <1>2, <1>4, OwnRuns
  <2>3. ASSUME NEW n \in own PROVE n \in Streamed
    <3>1. n \in DOMAIN log /\ RunAt(n).scenario = RunAt(m).scenario
      BY <1>2, <1>3, <2>3 DEF Of, Key
    <3> QED BY <3>1 DEF Streamed
  <2> QED BY <1>3, <2>1, <2>2, <2>3
<1>6. seq \in Seq(Pairings) /\ Alike(seq, own, came) BY <1>1, <1>3, <1>5 DEF Files
<1>7. \A n \in own : /\ came[n] = [base |-> log[BaselineOf(n)], with |-> log[n]]
                     /\ came[n] \in Pairings
  <2> SUFFICES ASSUME NEW n \in own
               PROVE  /\ came[n] = [base |-> log[BaselineOf(n)], with |-> log[n]]
                      /\ came[n] \in Pairings
    OBVIOUS
  <2>1. n \in DOMAIN log /\ n \in Nat \ {0} /\ log[n] \in Outcomes /\ Shaped
    BY <1>5, Logged DEF XInv
  <2>2. BaselineOf(n) \in 1 .. n BY <2>1, BlockStart
  <2>3. BaselineOf(n) \in DOMAIN log BY <2>1, <2>2, Logged
  <2>4. log[BaselineOf(n)] \in Outcomes BY <2>3, Logged
  <2> QED BY <1>3, <2>1, <2>4 DEF Compared, Pairings
<1>8. Len(seq) = experiment.replications
  <2>1. Len(seq) = Cardinality(own) BY <1>6, <1>7, AlikeLength
  <2> QED BY <1>2, <1>3, <1>4, <2>1, OfCount
<1>9. \A i \in DOMAIN seq : seq[i] \in Pairings BY <1>6
<1>10. Pairs(key) = {n \in own : ~log[n].truncated /\ ~log[BaselineOf(n)].truncated}
  BY <1>3 DEF Pairs, Usable
<1>15. \A n \in own : /\ came[n].base = log[BaselineOf(n)] /\ came[n].with = log[n]
                      /\ came[n] \in Pairings
  <2> SUFFICES ASSUME NEW n \in own
               PROVE  /\ came[n].base = log[BaselineOf(n)] /\ came[n].with = log[n]
                      /\ came[n] \in Pairings
    OBVIOUS
  <2>1. PICK b, w, c : b = log[BaselineOf(n)] /\ w = log[n] /\ c = came[n] OBVIOUS
  <2>2. c = [base |-> b, with |-> w] /\ c \in Pairings BY <1>7, <2>1
  <2>3. c.base = b /\ c.with = w BY ONLY <2>2
  <2> QED BY <2>1, <2>2, <2>3
<1>16. Pairs(key) \subseteq own /\ \A n \in own : Whole(came[n]) <=> n \in Pairs(key)
  <2>1. \A n \in own : n \in Pairs(key) <=> ~log[n].truncated /\ ~log[BaselineOf(n)].truncated
    BY ONLY <1>10
  <2>2. ASSUME NEW n \in own PROVE Whole(came[n]) <=> n \in Pairs(key)
    <3>1. came[n].base.truncated = log[BaselineOf(n)].truncated
          /\ came[n].with.truncated = log[n].truncated
      BY ONLY <1>15, <2>2
    <3>2. n \in Pairs(key) <=> ~log[n].truncated /\ ~log[BaselineOf(n)].truncated
      BY ONLY <2>1, <2>2
    <3> QED BY ONLY <3>1, <3>2 DEF Whole
  <2> QED BY <1>10, <2>2
<1>11. Cardinality(Positions(seq, Whole)) = Cardinality(Pairs(key))
  <2>1. PICK T : T = {p \in Pairings : Whole(p)} OBVIOUS
  <2>2. {i \in DOMAIN seq : seq[i] \in T} = Positions(seq, Whole)
    BY <1>9, <2>1 DEF Positions
  <2>3. {n \in own : came[n] \in T} = Pairs(key)
    BY ONLY <1>15, <1>16, <2>1
  <2> QED BY <1>6, <2>2, <2>3 DEF Alike
<1>12. Cardinality({i \in DOMAIN seq : Whole(seq[i]) /\ seq[i].base.merges > 0})
        = Cardinality({n \in Pairs(key) : log[BaselineOf(n)].merges > 0})
  <2>1. PICK T : T = {p \in Pairings : Whole(p) /\ p.base.merges > 0} OBVIOUS
  <2>2. {i \in DOMAIN seq : seq[i] \in T}
          = {i \in DOMAIN seq : Whole(seq[i]) /\ seq[i].base.merges > 0}
    BY <1>9, <2>1
  <2>3. {n \in own : came[n] \in T} = {n \in Pairs(key) : log[BaselineOf(n)].merges > 0}
    BY ONLY <1>15, <1>16, <2>1
  <2> QED BY <1>6, <2>2, <2>3 DEF Alike
<1>13. Cardinality({i \in DOMAIN seq : Whole(seq[i]) /\ seq[i].with.merges > seq[i].base.merges})
        = Cardinality({n \in Pairs(key) : log[n].merges > log[BaselineOf(n)].merges})
  <2>1. PICK T : T = {p \in Pairings : Whole(p) /\ p.with.merges > p.base.merges} OBVIOUS
  <2>2. {i \in DOMAIN seq : seq[i] \in T}
          = {i \in DOMAIN seq : Whole(seq[i]) /\ seq[i].with.merges > seq[i].base.merges}
    BY <1>9, <2>1
  <2>3. {n \in own : came[n] \in T}
          = {n \in Pairs(key) : log[n].merges > log[BaselineOf(n)].merges}
    BY ONLY <1>15, <1>16, <2>1
  <2> QED BY <1>6, <2>2, <2>3 DEF Alike
<1>14. Comparisons[key] =
         [absolute |-> [total |-> Len(seq), defined |-> Cardinality(Positions(seq, Whole))],
          relative |-> [total |-> Len(seq),
                        defined |-> Cardinality({i \in DOMAIN seq : Whole(seq[i]) /\ seq[i].base.merges > 0})],
          trials |-> Cardinality(Positions(seq, Whole)),
          successes |-> Cardinality({i \in DOMAIN seq :
                           Whole(seq[i]) /\ seq[i].with.merges > seq[i].base.merges})]
  BY <1>3 DEF Comparisons, Stats, Positions
<1> QED BY <1>2, <1>8, <1>11, <1>12, <1>13, <1>14

(* A pair that is defined has a usable baseline of its own.                *)
LEMMA PairsWithin ==
  ASSUME XInv, NEW key, key[2] \in Nat
  PROVE  /\ Cardinality(Pairs(key)) <= Cardinality(Usable(Of(key)))
         /\ Cardinality(Pairs(key)) <= Cardinality(Usable(Of(<<key[1], 0>>)))
         /\ IsFiniteSet(Pairs(key))
<1>1. /\ Pairs(key) \subseteq Usable(Of(key)) /\ Usable(Of(key)) \subseteq DOMAIN log
      /\ Usable(Of(<<key[1], 0>>)) \subseteq DOMAIN log
  BY DEF Pairs, Usable, Of
<1>2. IsFiniteSet(DOMAIN log) BY Logged
<1>3. IsFiniteSet(Usable(Of(key))) /\ IsFiniteSet(Usable(Of(<<key[1], 0>>)))
  BY <1>1, <1>2, FS_Subset
<1>4. PICK P, U : P = Pairs(key) /\ U = Usable(Of(<<key[1], 0>>)) OBVIOUS
<1>5. PICK f : f = [n \in P |-> BaselineOf(n)] OBVIOUS
<1>6. ASSUME NEW n \in P PROVE f[n] \in U /\ n = f[n] + key[2] /\ f[n] \in Nat
  <2>1. /\ n \in DOMAIN log /\ n \in Nat \ {0} /\ Shaped /\ DOMAIN log = 1 .. Len(log)
        /\ RunAt(n).assumption = key[1] /\ RunAt(n).scenario = key[2]
        /\ ~log[BaselineOf(n)].truncated
    BY <1>4, Logged DEF XInv, Pairs, Usable, Of
  <2>2. PICK b : b = BaselineOf(n) OBVIOUS
  <2>3. b \in 1 .. n /\ n = b + key[2] /\ RunAt(b).assumption = key[1] /\ RunAt(b).scenario = 0
    BY <2>1, <2>2, BlockStart
  <2>4. b \in DOMAIN log BY <2>1, <2>3, Logged
  <2>5. <<key[1], 0>>[1] = key[1] /\ <<key[1], 0>>[2] = 0 OBVIOUS
  <2> QED BY <1>4, <1>5, <2>1, <2>2, <2>3, <2>4, <2>5 DEF Usable, Of
<1>7. f \in Injection(P, U)
  <2>1. f \in [P -> U] BY <1>5, <1>6
  <2>2. \A m, n \in P : f[m] = f[n] => m = n
    <3> SUFFICES ASSUME NEW m \in P, NEW n \in P, f[m] = f[n] PROVE m = n OBVIOUS
    <3>1. m = f[m] + key[2] /\ n = f[n] + key[2] BY <1>6
    <3> QED BY <3>1
  <2> QED BY <1>5, <2>1, <2>2 DEF Injection, IsInjective
<1>8. Cardinality(P) <= Cardinality(U) BY <1>3, <1>4, <1>7, FS_Injection
<1> QED BY <1>1, <1>3, <1>4, <1>8, FS_Subset

LEMMA SummariesTrue ==
  ASSUME XInv, NEW m \in DOMAIN log, NEW key, key = Key(m)
  PROVE  /\ key \in DOMAIN summaries
         /\ summaries[key].valid = Cardinality(Usable(Of(key)))
         /\ summaries[key].truncated = Cardinality(Of(key) \ Usable(Of(key)))
         /\ summaries[key].valid + summaries[key].truncated = Cardinality(Of(key))
         /\ summaries[key].truncated \in Nat
         /\ summaries[key].truncated > 0 <=> \E n \in Of(key) : log[n].truncated
<1>1. key \in DOMAIN summaries /\ summaries[key] = Counted(key) BY DEF XInv, Tallied
<1>2. PICK o, u, t : /\ o = Of(key) /\ u = Usable(Of(key)) /\ t = o \ u OBVIOUS
<1>3. o \subseteq DOMAIN log /\ u \subseteq o /\ u \cup t = o /\ u \cap t = {}
  BY <1>2 DEF Of, Usable
<1>4. IsFiniteSet(o) /\ IsFiniteSet(u) /\ IsFiniteSet(t)
  <2>1. IsFiniteSet(DOMAIN log) BY Logged
  <2>2. IsFiniteSet(o) BY <1>3, <2>1, FS_Subset
  <2> QED BY <1>3, <2>2, FS_Subset
<1>5. Cardinality(o) = Cardinality(u) + Cardinality(t)
  <2>1. Cardinality(u \cup t) = Cardinality(u) + Cardinality(t) - Cardinality(u \cap t)
    BY <1>4, FS_Union
  <2>2. Cardinality(u \cap t) = 0 BY <1>3, FS_EmptySet
  <2>3. Cardinality(u) \in Nat /\ Cardinality(t) \in Nat BY <1>4, FS_CardinalityType
  <2> QED BY <1>3, <2>1, <2>2, <2>3
<1>6. Cardinality(t) \in Nat /\ (Cardinality(t) = 0 <=> t = {})
  BY <1>4, FS_CardinalityType, FS_EmptySet
<1>7. t # {} <=> \E n \in o : log[n].truncated BY <1>2 DEF Usable
<1> QED BY <1>1, <1>2, <1>5, <1>6, <1>7 DEF Counted

Faithful(s) ==
  /\ "raised" \notin DOMAIN s
  /\ s.incomplete <=> \E n \in DOMAIN log : log[n].truncated
  /\ DOMAIN s.rows = {<<RunAt(n).assumption, RunAt(n).scenario>> : n \in DOMAIN log}
  /\ \A key \in DOMAIN s.rows :
       /\ s.rows[key].merges.total = experiment.replications
       /\ s.rows[key].merges.defined = Cardinality(Usable(Of(key)))
       /\ s.rows[key].latency.defined = Cardinality({n \in Usable(Of(key)) : log[n].latency})
  /\ \A key \in DOMAIN s.comparisons :
       LET pair == s.comparisons[key] IN
       /\ pair.trials = Cardinality(Pairs(key))
       /\ pair.relative.defined = Cardinality({n \in Pairs(key) : log[BaselineOf(n)].merges > 0})
       /\ pair.successes = Cardinality({n \in Pairs(key) : log[n].merges > log[BaselineOf(n)].merges})

LEMMA FaithfulIs == SummaryFaithful <=> (summary # Unpublished => Faithful(summary))
BY DEF SummaryFaithful, Faithful

LEMMA FaithfulStays ==
  ASSUME experiment' = experiment, log' = log, NEW s, Faithful(s)
  PROVE  Faithful(s)'
<1>1. /\ \A n : RunAt(n)' = RunAt(n) /\ BaselineOf(n)' = BaselineOf(n) BY SameRuns
<1>2. \A key : Of(key)' = Of(key) BY <1>1 DEF Of
<1>3. \A key : Usable(Of(key))' = Usable(Of(key)) BY <1>2 DEF Usable
<1>4. \A key : Pairs(key)' = Pairs(key) BY <1>1, <1>3 DEF Pairs
<1>5. \A key : {n \in Usable(Of(key)) : log[n].latency}'
                = {n \in Usable(Of(key)) : log[n].latency}
  BY <1>3
<1>6. \A key : {n \in Pairs(key) : log[BaselineOf(n)].merges > 0}'
                = {n \in Pairs(key) : log[BaselineOf(n)].merges > 0}
  BY <1>1, <1>4
<1>7. \A key : {n \in Pairs(key) : log[n].merges > log[BaselineOf(n)].merges}'
                = {n \in Pairs(key) : log[n].merges > log[BaselineOf(n)].merges}
  BY <1>1, <1>4
<1>8. {<<RunAt(n).assumption, RunAt(n).scenario>> : n \in DOMAIN log}'
        = {<<RunAt(n).assumption, RunAt(n).scenario>> : n \in DOMAIN log}
  BY <1>1
<1> QED BY <1>3, <1>4, <1>5, <1>6, <1>7, <1>8 DEF Faithful

LEMMA AllKeys == ASSUME XInv, Len(log) = Runs PROVE DOMAIN values = {Key(n) : n \in DOMAIN log}
<1>1. Files(values, DOMAIN log, Keys, log, Outcomes) BY AllSampled DEF XInv
<1>2. \A n \in DOMAIN log : Keys[n] = Key(n) BY Logged DEF Keys
<1> QED BY <1>1, <1>2 DEF Files

LEMMA ContractKept == ASSUME XInv, Len(log) = Runs PROVE Contract(SummaryRows, Comparisons)
<1>1. /\ DOMAIN summaries = {Key(n) : n \in DOMAIN log}
      /\ DOMAIN SummaryRows = DOMAIN values /\ DOMAIN Comparisons = DOMAIN deltas
  BY DEF XInv, Tallied, SummaryRows, Comparisons
<1>2. ASSUME NEW key \in DOMAIN summaries
      PROVE  summaries[key].valid + summaries[key].truncated = experiment.replications
  BY <1>1, <1>2, SummariesTrue, OfCount
<1>3. ASSUME NEW key \in DOMAIN values, NEW stats \in {SummaryRows[key].merges, SummaryRows[key].latency}
      PROVE  /\ key \in DOMAIN summaries
             /\ stats.total = experiment.replications /\ stats.defined <= summaries[key].valid
  <2>1. PICK m \in DOMAIN log : key = Key(m) BY <1>3, RowsTrue
  <2>2. key \in DOMAIN summaries /\ summaries[key].valid = Cardinality(Usable(Of(key)))
    BY <2>1, SummariesTrue
  <2>3. PICK u : u = Usable(Of(key)) /\ IsFiniteSet(u)
    <3>1. Usable(Of(key)) \subseteq DOMAIN log BY DEF Usable, Of
    <3> QED BY <3>1, Logged, FS_Subset
  <2>4. Cardinality({n \in u : log[n].latency}) <= Cardinality(u) BY <2>3, FS_Subset
  <2>5. Cardinality(u) \in Nat BY <2>3, FS_CardinalityType
  <2> QED BY <1>3, <2>2, <2>3, <2>4, <2>5, RowsTrue
<1>4. ASSUME NEW key \in DOMAIN deltas,
             NEW stats \in {Comparisons[key].absolute, Comparisons[key].relative},
             NEW side \in {key, <<key[1], 0>>}
      PROVE  /\ stats.total = experiment.replications
             /\ side \in DOMAIN summaries /\ stats.defined <= summaries[side].valid
  <2>1. PICK m \in Streamed : key = Key(m) BY <1>4, ComparisonsTrue
  <2>2. m \in DOMAIN log /\ m \in Nat \ {0} /\ Shaped /\ DOMAIN log = 1 .. Len(log)
    BY <2>1, Logged DEF XInv, Streamed
  <2>3. PICK b : b = BaselineOf(m) OBVIOUS
  <2>4. b \in 1 .. m /\ RunAt(b).assumption = RunAt(m).assumption /\ RunAt(b).scenario = 0
    BY <2>2, <2>3, BlockStart
  <2>5. b \in DOMAIN log BY <2>2, <2>4, Logged
  <2>6. <<key[1], 0>> = Key(b) /\ key[2] \in Nat
    BY <2>1, <2>2, <2>4, RunParts DEF Key, Shaped
  <2>7. side \in DOMAIN summaries /\ summaries[side].valid = Cardinality(Usable(Of(side)))
    <3>1. CASE side = key BY <2>1, <2>2, <3>1, SummariesTrue
    <3>2. CASE side = <<key[1], 0>> BY <2>5, <2>6, <3>2, SummariesTrue
    <3> QED BY <1>4, <3>1, <3>2
  <2>8. Cardinality(Pairs(key)) <= Cardinality(Usable(Of(side))) /\ IsFiniteSet(Pairs(key))
    BY <1>4, <2>6, PairsWithin
  <2>9. PICK p, u : p = Pairs(key) /\ u = Usable(Of(side)) /\ IsFiniteSet(u)
    <3>1. Usable(Of(side)) \subseteq DOMAIN log BY DEF Usable, Of
    <3> QED BY <3>1, Logged, FS_Subset
  <2>10. Cardinality({n \in p : log[BaselineOf(n)].merges > 0}) <= Cardinality(p)
         /\ Cardinality({n \in p : log[BaselineOf(n)].merges > 0}) \in Nat
    BY <2>8, <2>9, FS_Subset, FS_CardinalityType
  <2>11. Cardinality(p) \in Nat /\ Cardinality(u) \in Nat BY <2>8, <2>9, FS_CardinalityType
  <2>12. PICK pair : pair = Comparisons[key] OBVIOUS
  <2>13. /\ pair.absolute.total = experiment.replications /\ pair.absolute.defined = Cardinality(p)
         /\ pair.relative.total = experiment.replications
         /\ pair.relative.defined = Cardinality({n \in p : log[BaselineOf(n)].merges > 0})
    BY <1>4, <2>9, <2>12, ComparisonsTrue
  <2>14. stats = pair.absolute \/ stats = pair.relative BY <1>4, <2>12
  <2>15. stats.total = experiment.replications /\ stats.defined <= Cardinality(p)
         /\ stats.defined \in Nat
    BY <2>10, <2>11, <2>13, <2>14
  <2> QED BY <2>7, <2>8, <2>9, <2>11, <2>15
<1> QED BY <1>1, <1>2, <1>3, <1>4 DEF Contract

LEMMA SummariseStep == ASSUME XInv, Summarise PROVE SummaryFaithful'
<1>1. /\ Len(log) = Runs /\ experiment' = experiment /\ log' = log BY DEF Summarise
<1>2. summary' = [rows |-> SummaryRows, comparisons |-> Comparisons,
                  incomplete |-> ComparisonIncomplete]
  BY <1>1, ContractKept DEF Summarise
<1>3. PICK s : s = summary' OBVIOUS
<1>4. /\ DOMAIN s = {"rows", "comparisons", "incomplete"} /\ s.rows = SummaryRows
      /\ s.comparisons = Comparisons /\ s.incomplete = ComparisonIncomplete
  BY <1>2, <1>3
<1>5. DOMAIN s.rows = {<<RunAt(n).assumption, RunAt(n).scenario>> : n \in DOMAIN log}
  BY <1>1, <1>4, AllKeys DEF SummaryRows, Key
<1>6. ComparisonIncomplete <=> \E n \in DOMAIN log : log[n].truncated
  <2>1. DOMAIN summaries = {Key(n) : n \in DOMAIN log} BY DEF XInv, Tallied
  <2>2. ASSUME NEW m \in DOMAIN log
        PROVE  summaries[Key(m)].truncated > 0 <=> \E n \in Of(Key(m)) : log[n].truncated
    BY SummariesTrue
  <2>3. \A m \in DOMAIN log : m \in Of(Key(m)) /\ Of(Key(m)) \subseteq DOMAIN log
    BY DEF Of, Key
  <2> QED BY <2>1, <2>2, <2>3 DEF ComparisonIncomplete
<1>7. ASSUME NEW key \in DOMAIN s.rows
      PROVE  /\ s.rows[key].merges.total = experiment.replications
             /\ s.rows[key].merges.defined = Cardinality(Usable(Of(key)))
             /\ s.rows[key].latency.defined = Cardinality({n \in Usable(Of(key)) : log[n].latency})
  <2>1. key \in DOMAIN values BY <1>4, <1>7 DEF SummaryRows
  <2> QED BY <1>1, <1>4, <2>1, RowsTrue
<1>8. ASSUME NEW key \in DOMAIN s.comparisons
      PROVE  LET pair == s.comparisons[key] IN
             /\ pair.trials = Cardinality(Pairs(key))
             /\ pair.relative.defined = Cardinality({n \in Pairs(key) : log[BaselineOf(n)].merges > 0})
             /\ pair.successes = Cardinality({n \in Pairs(key) : log[n].merges > log[BaselineOf(n)].merges})
  <2>1. key \in DOMAIN deltas BY <1>4, <1>8 DEF Comparisons
  <2> QED BY <1>1, <1>4, <2>1, ComparisonsTrue
<1>9. Faithful(s) BY <1>4, <1>5, <1>6, <1>7, <1>8 DEF Faithful
<1>10. Faithful(s)' BY <1>1, <1>9, FaithfulStays
<1> QED BY <1>3, <1>10 DEF SummaryFaithful, Faithful

LEMMA InitXInv == ASSUME NEW e \in Shapes, ExperimentInit(e) PROVE XInv
<1>1. Shaped BY DEF ExperimentInit, Shapes, Shaped
<1>2. /\ log = <<>> /\ summaries = <<>> /\ values = <<>> /\ deltas = <<>>
      /\ previous = NoRow /\ summary = Unpublished
  BY DEF ExperimentInit
<1>3. DOMAIN log = {} /\ log \in Seq(Outcomes) /\ Len(log) = 0 BY <1>2
<1>4. Runs \in Nat
  <2>1. 1 \in Nat \ {0} OBVIOUS
  <2> QED BY <1>1, <2>1, RunsBound
<1>5. Streamed = {} /\ Sampled = {} BY <1>3 DEF Streamed, Sampled
<1>6. Tallied
  <2>1. {Key(n) : n \in DOMAIN log} = {} BY <1>3
  <2>2. summaries = [key \in {} |-> Counted(key)] BY <1>2
  <2> QED BY <2>1, <2>2 DEF Tallied
<1>7. Files(values, Sampled, Keys, log, Outcomes) /\ Files(deltas, Streamed, Keys, Compared, Pairings)
  BY <1>2, <1>5 DEF Files
<1>8. LastRow BY <1>2, <1>5 DEF LastRow
<1>9. SummaryFaithful BY <1>2 DEF SummaryFaithful
<1> QED BY <1>1, <1>3, <1>4, <1>6, <1>7, <1>8, <1>9 DEF XInv

LEMMA StutterXInv ==
  ASSUME XInv, UNCHANGED <<experiment, log, summaries, values, deltas, previous>>, SummaryFaithful'
  PROVE  XInv'
<1>1. /\ \A n : RunAt(n)' = RunAt(n) /\ Key(n)' = Key(n) /\ RowOf(n)' = RowOf(n)
                /\ BaselineOf(n)' = BaselineOf(n)
      /\ Keys' = Keys /\ Runs' = Runs /\ Shaped' = Shaped
  BY SameRuns
<1>2. Streamed' = Streamed BY <1>1 DEF Streamed
<1>3. Sampled' = Sampled BY <1>1, <1>2 DEF Sampled
<1>4. Compared' = Compared BY <1>1 DEF Compared
<1>5. \A key : Of(key)' = Of(key) BY <1>1 DEF Of
<1>6. \A key : Usable(Of(key))' = Usable(Of(key)) BY <1>5 DEF Usable
<1>7. \A key : Counted(key)' = Counted(key) BY <1>5, <1>6 DEF Counted
<1>8. Tallied' BY <1>1, <1>7 DEF XInv, Tallied
<1>9. LastRow' BY <1>1, <1>2 DEF XInv, LastRow
<1>10. Files(values, Sampled, Keys, log, Outcomes)'
  <2>1. Files(values', Sampled', Keys', log', Outcomes) BY <1>1, <1>3 DEF XInv
  <2> QED BY <2>1
<1>11. Files(deltas, Streamed, Keys, Compared, Pairings)'
  <2>1. Files(deltas', Streamed', Keys', Compared', Pairings) BY <1>1, <1>2, <1>4 DEF XInv
  <2> QED BY <2>1
<1> QED BY <1>1, <1>8, <1>9, <1>10, <1>11 DEF XInv

LEMMA NextXInv == ASSUME XInv, [ExperimentNext]_experimentVars PROVE XInv'
<1>1. ASSUME NEW outcome \in Outcomes, Simulation(outcome) PROVE XInv'
  <2>1. PICK N : N = Len(log) + 1 OBVIOUS
  <2>2. /\ log' \in Seq(Outcomes) /\ Len(log') = N /\ N <= Runs /\ experiment' = experiment
        /\ Shaped
    BY <1>1, <2>1, Advance
  <2>3. Shaped' /\ Runs' = Runs BY <2>2, SameRuns
  <2>4. SummaryFaithful' BY <1>1 DEF Simulation, SummaryFaithful
  <2>5. Tallied' BY <1>1, TalliedStep
  <2>6. LastRow' BY <1>1, LastRowStep
  <2>7. Files(values, Sampled, Keys, log, Outcomes)' BY <1>1, ValuesStep
  <2>8. Files(deltas, Streamed, Keys, Compared, Pairings)' BY <1>1, DeltasStep
  <2>9. (log \in Seq(Outcomes))' /\ (Len(log) <= Runs)' BY <2>2, <2>3
  <2> QED BY <2>3, <2>4, <2>5, <2>6, <2>7, <2>8, <2>9 DEF XInv
<1>2. ASSUME Summarise PROVE XInv'
  BY <1>2, SummariseStep, StutterXInv DEF Summarise
<1>3. ASSUME UNCHANGED experimentVars PROVE XInv'
  <2>1. UNCHANGED <<experiment, log, summaries, values, deltas, previous, summary>>
    BY <1>3 DEF experimentVars
  <2>2. SummaryFaithful'
    <3>1. PICK s : s = summary OBVIOUS
    <3>2. summary # Unpublished => Faithful(s) BY <3>1, FaithfulIs DEF XInv
    <3>3. Faithful(s) => Faithful(s)' BY <2>1, FaithfulStays
    <3>4. summary' = s BY <2>1, <3>1
    <3> QED BY <2>1, <3>2, <3>3, <3>4 DEF SummaryFaithful, Faithful
  <2> QED BY <2>1, <2>2, StutterXInv
<1> QED BY <1>1, <1>2, <1>3 DEF ExperimentNext

-----------------------------------------------------------------------------
(* Schedule: the wall clock.                                               *)
LEMMA ZoneIs ==
  ASSUME zone \in Zones
  PROVE  zone.at \in Int /\ zone.shift \in {-1, 0, 1}
BY ScheduleAssumption DEF Zones

LEMMA LocalIs ==
  ASSUME zone \in Zones, NEW t \in Int
  PROVE  /\ Local(t) \in Int
         /\ t >= zone.at => Local(t) = t + zone.shift
         /\ t < zone.at => Local(t) = t
BY ZoneIs DEF Local

LEMMA CandidateIs ==
  ASSUME zone \in Zones, NEW r \in Int, NEW t \in Int
  PROVE  t \in Candidates(r) <=> Local(t) = r
BY ZoneIs, LocalIs DEF Candidates, Interpretations

(* A strict reading is the time of one instant.                            *)
LEMMA StrictIs ==
  ASSUME zone \in Zones, NEW r \in Int, Strict(r)
  PROVE  /\ ToUTC(r) \in Int /\ Local(ToUTC(r)) = r
         /\ Candidates(r) = {ToUTC(r)}
         /\ \A t \in Int : Local(t) = r => t = ToUTC(r)
<1>1. Candidates(r) \subseteq {r, r - zone.shift}
  BY DEF Candidates, Interpretations
<1>2. IsFiniteSet({r} \cup {r - zone.shift})
  BY FS_Singleton, FS_AddElement
<1>3. IsFiniteSet(Candidates(r)) BY <1>1, <1>2, FS_Subset
<1>4. PICK u : Candidates(r) = {u} BY <1>3, FS_Singleton DEF Strict
<1>5. ToUTC(r) = u BY <1>4 DEF ToUTC
<1>6. u \in Int BY <1>1, <1>4, ZoneIs
<1> QED BY <1>4, <1>5, <1>6, CandidateIs

(* The clock reaches a strict reading when its instant comes.              *)
LEMMA Clock ==
  ASSUME zone \in Zones, NEW r \in Int, Strict(r), NEW t \in Int
  PROVE  Local(t) >= r <=> t >= ToUTC(r)
<1>1. PICK u : u = ToUTC(r) OBVIOUS
<1>2. u \in Int /\ Local(u) = r /\ \A v \in Int : Local(v) = r => v = u
  BY <1>1, StrictIs
<1>3. PICK a, s : a = zone.at /\ s = zone.shift OBVIOUS
<1>4. a \in Int /\ s \in {-1, 0, 1} BY <1>3, ZoneIs
<1>5. \A v \in Int : /\ v >= a => Local(v) = v + s
                     /\ v < a => Local(v) = v
  BY <1>3, LocalIs
<1>6. Local(a) = a + s /\ Local(a - 1) = a - 1 BY <1>4, <1>5
<1>7. (s = -1 => r # a - 1)
  BY <1>2, <1>4, <1>6
<1>8. Local(t) >= r <=> t >= u BY <1>2, <1>4, <1>5, <1>7
<1> QED BY <1>1, <1>8

LEMMA ClockForward ==
  ASSUME zone \in Zones, NEW t \in Int, NEW v \in Int, t <= v
  PROVE  Local(t) <= Local(v)
BY ZoneIs, LocalIs

LEMMA MinMax ==
  ASSUME NEW a \in Int, NEW b \in Int
  PROVE  /\ Min({a, b}) \in {a, b} /\ Min({a, b}) <= a /\ Min({a, b}) <= b
         /\ Max({a, b}) \in {a, b} /\ Max({a, b}) >= a /\ Max({a, b}) >= b
<1>1. (\A y \in {a, b} : a <= y) \/ (\A y \in {a, b} : b <= y) OBVIOUS
<1>2. (\A y \in {a, b} : a >= y) \/ (\A y \in {a, b} : b >= y) OBVIOUS
<1> QED BY <1>1, <1>2 DEF Min, Max

LEMMA FoldsTyped ==
  ASSUME zone \in Zones, NEW r \in Int
  PROVE  Min(Folds(r)) \in Int /\ Max(Folds(r)) \in Int
<1>1. \E a, b \in Int : Folds(r) = {a, b}
  <2>1. CASE Strict(r)
    <3>1. ToUTC(r) \in Int /\ Folds(r) = {ToUTC(r), ToUTC(r)} BY <2>1, StrictIs DEF Folds
    <3> QED BY <3>1
  <2>2. CASE ~Strict(r)
    <3>1. r - zone.shift \in Int /\ Folds(r) = {r, r - zone.shift}
      BY <2>2, ZoneIs DEF Folds, Interpretations
    <3> QED BY <3>1
  <2> QED BY <2>1, <2>2
<1> QED BY <1>1, MinMax

(* Whatever a boundary means, it is not past before the clock reaches it.  *)
LEMMA FoldsBound ==
  ASSUME zone \in Zones, NEW r \in Int, NEW t \in Int
  PROVE  /\ Local(t) >= r => Min(Folds(r)) <= t
         /\ Local(t) < r => Max(Folds(r)) > t
<1>1. CASE Strict(r)
  <2>1. PICK u : u = ToUTC(r) OBVIOUS
  <2>2. u \in Int /\ Folds(r) = {u, u} BY <1>1, <2>1, StrictIs DEF Folds
  <2>3. Min({u, u}) = u /\ Max({u, u}) = u BY <2>2, MinMax
  <2>4. Local(t) >= r <=> t >= u BY <1>1, <2>1, Clock
  <2>5. Local(t) \in Int BY LocalIs
  <2> QED BY <2>2, <2>3, <2>4, <2>5
<1>2. CASE ~Strict(r)
  <2>1. PICK a : a = r - zone.shift OBVIOUS
  <2>2. a \in Int /\ Folds(r) = {r, a} BY <1>2, <2>1, ZoneIs DEF Folds, Interpretations
  <2>3. PICK min, max : min = Min({r, a}) /\ max = Max({r, a}) OBVIOUS
  <2>4. min \in Int /\ max \in Int /\ min <= r /\ min <= a /\ max >= r /\ max >= a
    BY <2>2, <2>3, MinMax
  <2>5. Local(t) \in Int /\ (Local(t) = t \/ Local(t) = t + zone.shift) BY ZoneIs, LocalIs
  <2>6. (Local(t) >= r => (t >= r \/ t >= a)) /\ (Local(t) < r => (t < r \/ t < a))
    <3>1. PICK k, s : k = Local(t) /\ s = zone.shift OBVIOUS
    <3>2. k \in Int /\ s \in Int /\ (k = t \/ k = t + s) /\ a = r - s
      BY <2>1, <2>5, <3>1, ZoneIs
    <3>3. (k >= r => (t >= r \/ t >= a)) /\ (k < r => (t < r \/ t < a)) BY <3>2
    <3> QED BY <3>1, <3>3
  <2> QED BY <2>2, <2>3, <2>4, <2>6
<1> QED BY <1>1, <1>2

-----------------------------------------------------------------------------
(* Schedule: windows and shifts.                                           *)
ShiftOf(d, w) ==
  [start |-> d * Day + w.start,
   end |-> (IF Overnight(w) THEN d + 1 ELSE d) * Day + w.end]

LEMMA BlockOf ==
  ASSUME NEW w \in Nat \ {0}, NEW q \in Int, NEW r \in 0 .. w - 1,
         NEW d \in Int, NEW x \in 0 .. w - 1
  PROVE  d * w + x <= q * w + r <=> d < q \/ (d = q /\ x <= r)
<1>1. d * w \in Int /\ q * w \in Int OBVIOUS
<1>2. ASSUME d < q PROVE d * w + w <= q * w
  <2>1. PICK k \in Nat : q = d + 1 + k BY <1>2
  <2>2. q * w = d * w + w + k * w /\ k * w \in Nat BY <2>1
  <2> QED BY <1>1, <2>2
<1>3. ASSUME q < d PROVE q * w + w <= d * w
  <2>1. PICK k \in Nat : d = q + 1 + k BY <1>3
  <2>2. d * w = q * w + w + k * w /\ k * w \in Nat BY <2>1
  <2> QED BY <1>1, <2>2
<1> QED BY <1>1, <1>2, <1>3

LEMMA DivForward ==
  ASSUME NEW w \in Nat \ {0}, NEW a \in Int, NEW b \in Int, a <= b
  PROVE  a \div w \in Int /\ b \div w \in Int /\ a \div w <= b \div w
<1>1. PICK p, x : p = a \div w /\ x = a % w OBVIOUS
<1>2. PICK q, y : q = b \div w /\ y = b % w OBVIOUS
<1>3. p \in Int /\ x \in 0 .. w - 1 /\ a = p * w + x BY <1>1, DivParts
<1>4. q \in Int /\ y \in 0 .. w - 1 /\ b = q * w + y BY <1>2, DivParts
<1>5. p < q \/ (p = q /\ x <= y) BY <1>3, <1>4, BlockOf
<1> QED BY <1>1, <1>2, <1>3, <1>4, <1>5

LEMMA DayOf ==
  ASSUME NEW q \in Int, NEW r \in 0 .. Day - 1, NEW d \in Int, NEW x \in 0 .. Day - 1
  PROVE  d * Day + x <= q * Day + r <=> d < q \/ (d = q /\ x <= r)
<1>1. Day \in Nat \ {0} BY ScheduleAssumption
<1> QED BY <1>1, BlockOf

(* A shift shows the clock times of its day, or of the day after.          *)
LEMMA ShiftDay ==
  ASSUME NEW w \in Windows, NEW l \in Int, NEW d \in Int,
         ShiftOf(d, w).start <= l, l < ShiftOf(d, w).end
  PROVE  d \in {l \div Day - 1, l \div Day}
<1>1. Day \in Nat \ {0} /\ w.start \in 0 .. Day - 1 /\ w.end \in 0 .. Day - 1
  BY ScheduleAssumption DEF Windows
<1>2. PICK q, r : q = l \div Day /\ r = l % Day OBVIOUS
<1>3. q \in Int /\ r \in 0 .. Day - 1 /\ l = q * Day + r BY <1>1, <1>2, DivParts
<1>4. PICK a, b : a = w.start /\ b = w.end OBVIOUS
<1>5. d * Day + a <= l <=> d < q \/ (d = q /\ a <= r) BY <1>1, <1>3, <1>4, DayOf
<1>6. d * Day + b <= l <=> d < q \/ (d = q /\ b <= r) BY <1>1, <1>3, <1>4, DayOf
<1>7. (d + 1) * Day + b <= l <=> d + 1 < q \/ (d + 1 = q /\ b <= r)
  BY <1>1, <1>3, <1>4, DayOf
<1>8. d * Day + a <= l /\ (l < d * Day + b \/ l < (d + 1) * Day + b)
  BY <1>4 DEF ShiftOf
<1>9. d * Day + b \in Int /\ (d + 1) * Day + b \in Int BY <1>1, <1>4
<1>10. d <= q /\ d + 1 >= q BY <1>1, <1>3, <1>4, <1>5, <1>6, <1>7, <1>8, <1>9
<1> QED BY <1>2, <1>3, <1>10

(* The clock shows a time of a window during its shifts.                   *)
LEMMA WindowIs ==
  ASSUME NEW w \in Windows, NEW l \in Int
  PROVE  InWindow(w, l) <=>
           \E d \in {l \div Day - 1, l \div Day} :
             /\ d % WeekDays = w.weekday
             /\ ShiftOf(d, w).start <= l /\ l < ShiftOf(d, w).end
<1>1. Day \in Nat \ {0} /\ w.start \in 0 .. Day - 1 /\ w.end \in 0 .. Day - 1
      /\ w.start # w.end
  BY ScheduleAssumption DEF Windows
<1>2. PICK q, r : q = l \div Day /\ r = l % Day OBVIOUS
<1>3. q \in Int /\ r \in 0 .. Day - 1 /\ l = q * Day + r
  <2>1. /\ l \div Day \in Int /\ l % Day \in 0 .. Day - 1
        /\ l = (l \div Day) * Day + (l % Day)
    BY <1>1, DivParts
  <2> QED BY ONLY <1>2, <2>1
<1>4. PICK a, b, e : a = w.start /\ b = w.end /\ e = (IF Overnight(w) THEN 1 ELSE 0) OBVIOUS
<1>5. \A d \in Int :
        /\ ShiftOf(d, w).start = d * Day + a
        /\ Overnight(w) => ShiftOf(d, w).end = (d + 1) * Day + b
        /\ ~Overnight(w) => ShiftOf(d, w).end = d * Day + b
  BY <1>4 DEF ShiftOf
<1>6. \A d \in Int : d * Day + a <= l <=> d < q \/ (d = q /\ a <= r)
  BY <1>1, <1>3, <1>4, DayOf
<1>7. \A d \in Int : d * Day + b <= l <=> d < q \/ (d = q /\ b <= r)
  BY <1>1, <1>3, <1>4, DayOf
<1>8. \A d \in Int : d * Day + b \in Int BY <1>1, <1>4
<1>9. \A d \in Int : l < d * Day + b <=> d > q \/ (d = q /\ r < b)
  BY <1>1, <1>3, <1>4, <1>7, <1>8
<1>12. q \in Int /\ r \in Int /\ a \in Int /\ b \in Int BY <1>1, <1>3, <1>4
<1>10. CASE Overnight(w)
  <2>1. b < a BY <1>4, <1>10 DEF Overnight
  <2>2. InWindow(w, l) <=> ((q % WeekDays = w.weekday /\ r >= a)
                              \/ ((q - 1) % WeekDays = w.weekday /\ r < b))
    BY <1>2, <1>4, <1>10 DEF InWindow
  <2>3. (ShiftOf(q, w).start <= l <=> a <= r) /\ l < ShiftOf(q, w).end
    <3>1. ShiftOf(q, w).start <= l <=> a <= r BY <1>5, <1>6, <1>12
    <3>2. q + 1 \in Int /\ q + 1 > q BY <1>12
    <3>3. ShiftOf(q, w).end = (q + 1) * Day + b BY <1>5, <1>10, <1>12
    <3>4. l < (q + 1) * Day + b BY <1>9, <3>2
    <3> QED BY <3>1, <3>3, <3>4
  <2>4. ShiftOf(q - 1, w).start <= l /\ (l < ShiftOf(q - 1, w).end <=> r < b)
    <3>1. q - 1 \in Int /\ q - 1 < q /\ q - 1 + 1 = q BY <1>3
    <3>2. ShiftOf(q - 1, w).start <= l BY <1>5, <1>6, <3>1
    <3>3. ShiftOf(q - 1, w).end = q * Day + b BY <1>5, <1>10, <3>1
    <3>4. l < q * Day + b <=> r < b BY <1>1, <1>3, <1>4, <1>9
    <3> QED BY <3>2, <3>3, <3>4
  <2> QED BY <1>2, <1>12, <2>2, <2>3, <2>4
<1>11. CASE ~Overnight(w)
  <2>1. InWindow(w, l) <=> (q % WeekDays = w.weekday /\ a <= r /\ r < b)
    BY <1>2, <1>4, <1>11, <1>12 DEF InWindow
  <2>2. ShiftOf(q, w).start <= l <=> a <= r BY <1>5, <1>6, <1>12
  <2>3. l < ShiftOf(q, w).end <=> r < b
    <3>1. ShiftOf(q, w).end = q * Day + b BY <1>5, <1>11, <1>12
    <3>2. l < q * Day + b <=> r < b BY <1>9, <1>12
    <3> QED BY <3>1, <3>2
  <2>4. ~(l < ShiftOf(q - 1, w).end)
    <3>1. q - 1 \in Int /\ q - 1 < q BY <1>12
    <3>2. ShiftOf(q - 1, w).end = (q - 1) * Day + b BY <1>5, <1>11, <3>1
    <3>3. ~(l < (q - 1) * Day + b) BY <1>9, <1>12, <3>1
    <3> QED BY <3>2, <3>3
  <2> QED BY <1>2, <1>12, <2>1, <2>2, <2>3, <2>4
<1> QED BY <1>10, <1>11

-----------------------------------------------------------------------------
(* Schedule: what the shifts leave in the span.                            *)
Spanned ==
  \E first, end \in Int :
    /\ Strict(first) /\ Strict(end) /\ first <= end
    /\ span = <<ToUTC(first), ToUTC(end)>>

Covers(i, t) == i[1] <= t /\ t < i[2]

Intervals == {i \in Int \X Int : i[1] < i[2]}

LEMMA SpanIs ==
  ASSUME zone \in Zones, Spanned
  PROVE  /\ span[1] \in Int /\ span[2] \in Int /\ span[1] <= span[2]
         /\ Local(span[1]) \in Int /\ Local(span[2]) \in Int
         /\ \A t \in Int : t >= span[1] => Local(t) >= Local(span[1])
         /\ \A t \in Int : t < span[2] => Local(t) < Local(span[2])
<1>1. PICK first \in Int, end \in Int :
        /\ Strict(first) /\ Strict(end) /\ first <= end
        /\ span = <<ToUTC(first), ToUTC(end)>>
  BY DEF Spanned
<1>2. PICK a, b : a = ToUTC(first) /\ b = ToUTC(end) OBVIOUS
<1>3. a \in Int /\ b \in Int /\ Local(a) = first /\ Local(b) = end
  BY <1>1, <1>2, StrictIs
<1>4. \A t \in Int : (Local(t) >= first <=> t >= a) /\ (Local(t) >= end <=> t >= b)
  BY <1>1, <1>2, Clock
<1>5. \A t \in Int : Local(t) \in Int BY LocalIs
<1>6. span[1] = a /\ span[2] = b BY <1>1, <1>2
<1>7. a <= b BY <1>1, <1>3, <1>4
<1> QED BY <1>3, <1>4, <1>5, <1>6, <1>7

LEMMA ShiftIs ==
  ASSUME NEW windows, NEW s
  PROVE  s \in Shifts(windows) <=>
           /\ \E w \in windows, d \in Days : d % WeekDays = w.weekday /\ s = ShiftOf(d, w)
           /\ Min(Folds(s.start)) < span[2] /\ Max(Folds(s.end)) > span[1]
BY DEF Shifts, ShiftOf

LEMMA ShiftTyped ==
  ASSUME zone \in Zones, Spanned, NEW d \in Int, NEW w \in Windows
  PROVE  ShiftOf(d, w).start \in Int /\ ShiftOf(d, w).end \in Int
<1>1. Day \in Nat \ {0} /\ w.start \in Int /\ w.end \in Int
  BY ScheduleAssumption DEF Windows
<1> QED BY <1>1 DEF ShiftOf

LEMMA DaysAre ==
  ASSUME zone \in Zones, Spanned, NEW t \in Instants
  PROVE  /\ Days \subseteq Int /\ t \in Int
         /\ Local(t) \div Day - 1 \in Days /\ Local(t) \div Day \in Days
<1>1. Day \in Nat \ {0} BY ScheduleAssumption
<1>2. /\ span[1] \in Int /\ span[2] \in Int
      /\ Local(span[1]) \in Int /\ Local(span[2]) \in Int
  BY SpanIs
<1>3. t \in Int /\ t >= span[1] /\ t < span[2] BY <1>2 DEF Instants
<1>4. /\ Local(t) \in Int /\ Local(t) >= Local(span[1]) /\ Local(t) < Local(span[2])
  BY <1>3, SpanIs, LocalIs
<1>5. PICK a, l, b : a = Local(span[1]) /\ l = Local(t) /\ b = Local(span[2]) OBVIOUS
<1>6. a \in Int /\ l \in Int /\ b \in Int /\ a <= l /\ l < b BY <1>2, <1>4, <1>5
<1>7. /\ a \div Day \in Int /\ l \div Day \in Int /\ b \div Day \in Int
      /\ a \div Day <= l \div Day /\ l \div Day <= b \div Day
  BY <1>1, <1>6, DivForward
<1> QED BY <1>3, <1>5, <1>7 DEF Days

LEMMA ShiftsCover ==
  ASSUME zone \in Zones, Spanned, NEW windows, windows \subseteq Windows,
         \A s \in Shifts(windows) : Strict(s.start) /\ Strict(s.end),
         NEW t \in Instants
  PROVE  (\E w \in windows : InWindow(w, Local(t))) <=>
           \E s \in Shifts(windows) : ToUTC(s.start) <= t /\ t < ToUTC(s.end)
<1>1. t \in Int /\ Local(t) \in Int BY DaysAre, LocalIs
<1>2. span[1] \in Int /\ span[2] \in Int /\ span[1] <= t /\ t < span[2]
  BY <1>1, SpanIs DEF Instants
<1>3. ASSUME NEW w \in windows, InWindow(w, Local(t))
      PROVE  \E s \in Shifts(windows) : ToUTC(s.start) <= t /\ t < ToUTC(s.end)
  <2>1. PICK d \in {Local(t) \div Day - 1, Local(t) \div Day} :
          /\ d % WeekDays = w.weekday
          /\ ShiftOf(d, w).start <= Local(t) /\ Local(t) < ShiftOf(d, w).end
    BY <1>1, <1>3, WindowIs
  <2>2. d \in Days /\ d \in Int BY DaysAre
  <2>3. PICK s : s = ShiftOf(d, w) OBVIOUS
  <2>4. s.start \in Int /\ s.end \in Int BY <2>2, <2>3, ShiftTyped
  <2>5. Min(Folds(s.start)) <= t /\ Max(Folds(s.end)) > t
    BY <1>1, <2>1, <2>3, <2>4, FoldsBound
  <2>6. Min(Folds(s.start)) \in Int /\ Max(Folds(s.end)) \in Int
    BY <2>4, FoldsTyped
  <2>7. s \in Shifts(windows)
    BY <1>1, <1>2, <2>1, <2>2, <2>3, <2>5, <2>6, ShiftIs
  <2>8. Local(t) >= s.start <=> t >= ToUTC(s.start)
    BY <1>1, <2>4, <2>7, Clock
  <2>9. Local(t) >= s.end <=> t >= ToUTC(s.end)
    BY <1>1, <2>4, <2>7, Clock
  <2>10. ToUTC(s.start) \in Int /\ ToUTC(s.end) \in Int BY <2>4, <2>7, StrictIs
  <2> QED BY <1>1, <2>1, <2>3, <2>4, <2>7, <2>8, <2>9, <2>10
<1>4. ASSUME NEW s \in Shifts(windows), ToUTC(s.start) <= t, t < ToUTC(s.end)
      PROVE  \E w \in windows : InWindow(w, Local(t))
  <2>1. PICK w \in windows, d \in Days : d % WeekDays = w.weekday /\ s = ShiftOf(d, w)
    BY ShiftIs
  <2>2. d \in Int BY DaysAre
  <2>3. s.start \in Int /\ s.end \in Int BY <2>1, <2>2, ShiftTyped
  <2>4. ToUTC(s.start) \in Int /\ ToUTC(s.end) \in Int BY <2>3, StrictIs
  <2>5. Local(t) >= s.start <=> t >= ToUTC(s.start) BY <1>1, <2>3, Clock
  <2>6. Local(t) >= s.end <=> t >= ToUTC(s.end) BY <1>1, <2>3, Clock
  <2>7. s.start <= Local(t) /\ Local(t) < s.end
    BY <1>1, <1>4, <2>3, <2>4, <2>5, <2>6
  <2>8. d \in {Local(t) \div Day - 1, Local(t) \div Day}
    BY <1>1, <2>1, <2>2, <2>7, ShiftDay
  <2> QED BY <1>1, <2>1, <2>7, <2>8, WindowIs
<1> QED BY <1>3, <1>4

(* They are finitely many, in the span, and cover what the clock shows.    *)
LEMMA ProperIs ==
  ASSUME zone \in Zones, Spanned, NEW windows, windows \subseteq Windows,
         \A s \in Shifts(windows) : Strict(s.start) /\ Strict(s.end),
         NEW S, S = Proper(Shifts(windows))
  PROVE  /\ S \subseteq Intervals /\ IsFiniteSet(S)
         /\ \A t \in Int :
              (\E i \in S : Covers(i, t)) <=>
                t \in Instants /\ \E w \in windows : InWindow(w, Local(t))
<1>1. PICK a, b : a = span[1] /\ b = span[2] OBVIOUS
<1>2. a \in Int /\ b \in Int BY <1>1, SpanIs
<1>3. ASSUME NEW s \in Shifts(windows)
      PROVE  ToUTC(s.start) \in Int /\ ToUTC(s.end) \in Int
  <2>1. PICK w \in windows, d \in Days : s = ShiftOf(d, w) BY ShiftIs
  <2>2. d \in Int BY SpanIs, ScheduleAssumption DEF Days
  <2> QED BY <2>1, <2>2, ShiftTyped, StrictIs
<1>4. ASSUME NEW s \in Shifts(windows)
      PROVE  /\ Clipped(s) \in Int \X Int
             /\ Clipped(s)[1] \in {a, ToUTC(s.start)}
             /\ Clipped(s)[1] >= a /\ Clipped(s)[1] >= ToUTC(s.start)
             /\ Clipped(s)[2] \in {b, ToUTC(s.end)}
             /\ Clipped(s)[2] <= b /\ Clipped(s)[2] <= ToUTC(s.end)
  <2>1. PICK u, v : u = ToUTC(s.start) /\ v = ToUTC(s.end) OBVIOUS
  <2>2. u \in Int /\ v \in Int BY <1>3, <2>1
  <2>3. Clipped(s) = <<Max({a, u}), Min({b, v})>> BY <1>1, <2>1 DEF Clipped
  <2>4. /\ Max({a, u}) \in {a, u} /\ Max({a, u}) >= a /\ Max({a, u}) >= u
        /\ Min({b, v}) \in {b, v} /\ Min({b, v}) <= b /\ Min({b, v}) <= v
    BY <1>2, <2>2, MinMax
  <2> QED BY <1>2, <2>1, <2>2, <2>3, <2>4
<1>5. \A i : i \in S <=> \E s \in Shifts(windows) : i = Clipped(s) /\ i[1] < i[2]
  BY DEF Proper
<1>6. S \subseteq Intervals BY <1>4, <1>5 DEF Intervals
<1>7. IsFiniteSet(S)
  <2>1. \A i \in S : i \in (a .. b) \X (a .. b) BY <1>2, <1>4, <1>5
  <2>2. IsFiniteSet(a .. b) BY <1>2, FS_Interval
  <2>3. IsFiniteSet((a .. b) \X (a .. b)) BY <2>2, FS_Product
  <2> QED BY <2>1, <2>3, FS_Subset
<1>8. ASSUME NEW t \in Int
      PROVE  (\E i \in S : Covers(i, t)) <=>
               t \in Instants /\ \E s \in Shifts(windows) : ToUTC(s.start) <= t /\ t < ToUTC(s.end)
  <2>1. t \in Instants <=> a <= t /\ t < b BY <1>1, <1>2 DEF Instants
  <2>2. ASSUME NEW i \in S, Covers(i, t)
        PROVE  t \in Instants /\ \E s \in Shifts(windows) : ToUTC(s.start) <= t /\ t < ToUTC(s.end)
    <3>1. PICK s \in Shifts(windows) : i = Clipped(s) BY <1>5
    <3>2. PICK u, v : u = ToUTC(s.start) /\ v = ToUTC(s.end) OBVIOUS
    <3>3. u \in Int /\ v \in Int BY <1>3, <3>2
    <3>4. /\ i[1] \in Int /\ i[2] \in Int /\ i[1] >= a /\ i[1] >= u /\ i[2] <= b /\ i[2] <= v
      BY <1>2, <1>4, <3>1, <3>2, <3>3
    <3>5. i[1] <= t /\ t < i[2] BY <2>2 DEF Covers
    <3>6. a <= t /\ t < b /\ u <= t /\ t < v BY <1>2, <3>3, <3>4, <3>5
    <3> QED BY <2>1, <3>2, <3>6
  <2>3. ASSUME t \in Instants, NEW s \in Shifts(windows), ToUTC(s.start) <= t, t < ToUTC(s.end)
        PROVE  \E i \in S : Covers(i, t)
    <3>1. PICK i : i = Clipped(s) OBVIOUS
    <3>2. PICK u, v : u = ToUTC(s.start) /\ v = ToUTC(s.end) OBVIOUS
    <3>3. u \in Int /\ v \in Int BY <1>3, <3>2
    <3>4. i[1] \in {a, u} /\ i[2] \in {b, v} BY <1>4, <3>1, <3>2
    <3>5. i[1] <= t /\ t < i[2] BY <1>2, <2>1, <2>3, <3>2, <3>3, <3>4
    <3>6. i[1] < i[2] BY <1>2, <3>3, <3>4, <3>5
    <3> QED BY <1>5, <3>1, <3>5, <3>6 DEF Covers
  <2> QED BY <2>2, <2>3
<1>9. ASSUME NEW t \in Instants
      PROVE  (\E w \in windows : InWindow(w, Local(t))) <=>
               \E s \in Shifts(windows) : ToUTC(s.start) <= t /\ t < ToUTC(s.end)
  BY ShiftsCover
<1> QED BY <1>6, <1>7, <1>8, <1>9

-----------------------------------------------------------------------------
(* Schedule: intervals in order.                                           *)
Earlier(S, i) == {j \in S : Before(j, i)}

LEMMA BeforeIs ==
  ASSUME NEW i \in Intervals, NEW j \in Intervals
  PROVE  /\ ~Before(i, i)
         /\ i # j => Before(i, j) \/ Before(j, i)
         /\ ~(Before(i, j) /\ Before(j, i))
         /\ \A k \in Intervals : Before(k, i) /\ Before(i, j) => Before(k, j)
BY DEF Intervals, Before

LEMMA EarlierCount ==
  ASSUME NEW S, S \subseteq Intervals, IsFiniteSet(S), NEW i \in S
  PROVE  /\ Cardinality(Earlier(S, i)) \in 0 .. Cardinality(S) - 1
         /\ \A j \in S : Before(i, j) =>
              Cardinality(Earlier(S, i)) < Cardinality(Earlier(S, j))
<1>1. IsFiniteSet(S \ {i}) /\ Cardinality(S \ {i}) = Cardinality(S) - 1
  BY FS_RemoveElement
<1>2. Earlier(S, i) \subseteq S \ {i} BY BeforeIs DEF Earlier
<1>3. /\ IsFiniteSet(Earlier(S, i)) /\ Cardinality(Earlier(S, i)) \in Nat
      /\ Cardinality(Earlier(S, i)) <= Cardinality(S) - 1
  BY <1>1, <1>2, FS_Subset, FS_CardinalityType
<1>4. ASSUME NEW j \in S, Before(i, j)
      PROVE  Cardinality(Earlier(S, i)) < Cardinality(Earlier(S, j))
  <2>1. Earlier(S, i) \subseteq Earlier(S, j) /\ i \in Earlier(S, j) /\ i \notin Earlier(S, i)
    BY <1>4, BeforeIs DEF Earlier
  <2>2. IsFiniteSet(Earlier(S, j)) /\ Cardinality(Earlier(S, j)) \in Nat
    BY FS_Subset, FS_CardinalityType DEF Earlier
  <2>3. Cardinality(Earlier(S, i)) <= Cardinality(Earlier(S, j))
    BY <2>1, <2>2, FS_Subset
  <2>4. Cardinality(Earlier(S, i)) # Cardinality(Earlier(S, j))
    BY <2>1, <2>2, FS_Subset
  <2> QED BY <1>3, <2>2, <2>3, <2>4
<1>5. Cardinality(S) \in Nat BY FS_CardinalityType
<1> QED BY <1>3, <1>4, <1>5

LEMMA SortedIs ==
  ASSUME NEW S, S \subseteq Intervals, IsFiniteSet(S), NEW seq, seq = Sorted(S)
  PROVE  /\ seq \in Seq(Intervals)
         /\ \A i : i \in S <=> \E n \in DOMAIN seq : seq[n] = i
         /\ \A m, n \in DOMAIN seq : m < n => seq[m][1] <= seq[n][1]
<1>1. PICK N : N = Cardinality(S) OBVIOUS
<1>2. N \in Nat BY <1>1, FS_CardinalityType
<1>3. PICK rank : rank = [i \in S |-> Cardinality(Earlier(S, i))] OBVIOUS
<1>4. rank \in [S -> 0 .. N - 1] BY <1>1, <1>3, EarlierCount
<1>5. \A i, j \in S : Before(i, j) => rank[i] < rank[j] BY <1>3, EarlierCount
<1>6. \A i, j \in S : i # j => rank[i] # rank[j]
  BY <1>4, <1>5, BeforeIs
<1>7. rank \in Injection(S, 0 .. N - 1)
  BY <1>4, <1>6 DEF Injection, IsInjective
<1>8. IsFiniteSet(0 .. N - 1) /\ Cardinality(0 .. N - 1) = N
  BY <1>2, FS_Interval
<1>9. rank \in Surjection(S, 0 .. N - 1) BY <1>1, <1>7, <1>8, FS_Injection
<1>10. \A k \in 0 .. N - 1 : \E i \in S : rank[i] = k BY <1>9 DEF Surjection
<1>11. /\ DOMAIN seq = 1 .. N
       /\ \A n \in 1 .. N : seq[n] = CHOOSE i \in S : rank[i] = n - 1
  BY <1>1, <1>3 DEF Sorted, Earlier
<1>12. \A n \in 1 .. N : seq[n] \in S /\ rank[seq[n]] = n - 1
  <2> SUFFICES ASSUME NEW n \in 1 .. N PROVE seq[n] \in S /\ rank[seq[n]] = n - 1
    OBVIOUS
  <2>1. \E i \in S : rank[i] = n - 1 BY <1>2, <1>10
  <2> QED BY <1>11, <2>1
<1>13. seq \in Seq(Intervals)
  <2>1. seq = [n \in 1 .. N |-> seq[n]] BY <1>11 DEF Sorted
  <2>2. seq \in [1 .. N -> Intervals] BY <1>12, <2>1
  <2> QED BY <1>2, <2>2
<1>14. \A i \in S : \E n \in 1 .. N : seq[n] = i
  <2> SUFFICES ASSUME NEW i \in S PROVE \E n \in 1 .. N : seq[n] = i
    OBVIOUS
  <2>1. rank[i] + 1 \in 1 .. N BY <1>2, <1>4
  <2>2. rank[seq[rank[i] + 1]] = rank[i] BY <1>2, <1>4, <1>12, <2>1
  <2> QED BY <1>6, <1>12, <2>1, <2>2
<1>15. ASSUME NEW m \in 1 .. N, NEW n \in 1 .. N, m < n PROVE seq[m][1] <= seq[n][1]
  <2>1. ~(rank[seq[n]] < rank[seq[m]]) BY <1>2, <1>12, <1>15
  <2>2. ~Before(seq[n], seq[m]) BY <1>5, <1>12, <2>1
  <2>3. seq[m] \in Intervals /\ seq[n] \in Intervals BY <1>12
  <2> QED BY <2>2, <2>3 DEF Before, Intervals
<1> QED BY <1>11, <1>12, <1>13, <1>14, <1>15

-----------------------------------------------------------------------------
(* Schedule: separate intervals, and what they cover.                      *)
Neat(seq) ==
  /\ seq \in Seq(Intervals)
  /\ \A n \in DOMAIN seq : n > 1 => seq[n - 1][2] < seq[n][1]

Covered(seq) == {t \in Int : \E n \in DOMAIN seq : Covers(seq[n], t)}

Cover(i) == {t \in Int : Covers(i, t)}

LEMMA AppendIs ==
  ASSUME NEW seq \in Seq(Intervals), NEW i \in Intervals
  PROVE  /\ Append(seq, i) \in Seq(Intervals) /\ Append(seq, i) # <<>>
         /\ Last(Append(seq, i)) = i
         /\ Covered(Append(seq, i)) = Covered(seq) \cup Cover(i)
<1>1. PICK app : app = Append(seq, i) OBVIOUS
<1>2. /\ app \in Seq(Intervals) /\ Len(app) = Len(seq) + 1 /\ app[Len(seq) + 1] = i
      /\ \A n \in DOMAIN seq : app[n] = seq[n]
  BY <1>1
<1>3. DOMAIN seq = 1 .. Len(seq) /\ DOMAIN app = 1 .. Len(seq) + 1 /\ Len(seq) \in Nat
  BY <1>2
<1>4. \A t \in Int : (\E n \in DOMAIN app : Covers(app[n], t)) <=>
                       (\E n \in DOMAIN seq : Covers(seq[n], t)) \/ Covers(i, t)
  <2> SUFFICES ASSUME NEW t \in Int
               PROVE  (\E n \in DOMAIN app : Covers(app[n], t)) <=>
                        (\E n \in DOMAIN seq : Covers(seq[n], t)) \/ Covers(i, t)
    OBVIOUS
  <2>1. ASSUME NEW n \in DOMAIN app, Covers(app[n], t)
        PROVE  (\E m \in DOMAIN seq : Covers(seq[m], t)) \/ Covers(i, t)
    <3>1. n \in DOMAIN seq \/ n = Len(seq) + 1 BY <1>3
    <3> QED BY <1>2, <2>1, <3>1
  <2>2. Len(seq) + 1 \in DOMAIN app /\ DOMAIN seq \subseteq DOMAIN app BY <1>3
  <2> QED BY <1>2, <2>1, <2>2
<1>5. Covered(app) = Covered(seq) \cup Cover(i) BY <1>4 DEF Covered, Cover
<1>6. Last(app) = i BY <1>2 DEF Last
<1>7. app # <<>> BY <1>2, <1>3
<1> QED BY <1>1, <1>2, <1>5, <1>6, <1>7

LEMMA AppendNeat ==
  ASSUME NEW seq, Neat(seq), NEW i \in Intervals,
         \A n \in DOMAIN seq : seq[n][2] < i[1]
  PROVE  Neat(Append(seq, i))
<1>1. seq \in Seq(Intervals) BY DEF Neat
<1>2. PICK app : app = Append(seq, i) OBVIOUS
<1>3. /\ app \in Seq(Intervals) /\ Len(app) = Len(seq) + 1 /\ app[Len(seq) + 1] = i
      /\ \A n \in DOMAIN seq : app[n] = seq[n]
  BY <1>1, <1>2
<1>4. DOMAIN seq = 1 .. Len(seq) /\ DOMAIN app = 1 .. Len(seq) + 1 /\ Len(seq) \in Nat
  BY <1>1, <1>3
<1>5. ASSUME NEW n \in DOMAIN app, n > 1 PROVE app[n - 1][2] < app[n][1]
  <2>1. n - 1 \in DOMAIN seq BY <1>4, <1>5
  <2>2. CASE n \in DOMAIN seq
    <3>1. seq[n - 1][2] < seq[n][1] BY <1>5, <2>2 DEF Neat
    <3> QED BY <1>3, <2>1, <2>2, <3>1
  <2>3. CASE n = Len(seq) + 1
    <3>1. seq[n - 1][2] < i[1] BY <2>1
    <3> QED BY <1>3, <2>1, <2>3, <3>1
  <2> QED BY <1>4, <2>2, <2>3
<1> QED BY <1>2, <1>3, <1>5 DEF Neat

(* Of separate intervals the last one is the latest.                       *)
LEMMA LastIsLatest ==
  ASSUME NEW seq, Neat(seq), NEW n \in DOMAIN seq
  PROVE  seq # <<>> /\ Last(seq) \in Intervals /\ seq[n][2] <= Last(seq)[2]
<1>1. /\ seq \in Seq(Intervals) /\ DOMAIN seq = 1 .. Len(seq) /\ Len(seq) \in Nat
      /\ \A k \in DOMAIN seq : seq[k] \in Intervals
  BY DEF Neat
<1>2. \A k \in DOMAIN seq : seq[k][1] \in Int /\ seq[k][2] \in Int /\ seq[k][1] < seq[k][2]
  BY <1>1 DEF Intervals
<1>3. \A k \in DOMAIN seq : k > 1 => seq[k - 1][2] < seq[k][1] BY DEF Neat
<1> DEFINE Behind == {d \in Nat : d < Len(seq) /\ seq[Len(seq) - d][2] > Last(seq)[2]}
<1>4. Behind = {}
  <2> SUFFICES ASSUME Behind # {} PROVE FALSE OBVIOUS
  <2>1. PICK d \in Behind : \A e \in Behind : d <= e BY LeastExists
  <2>2. d \in Nat /\ d < Len(seq) /\ seq[Len(seq) - d][2] > Last(seq)[2] BY <2>1
  <2>3. Len(seq) \in DOMAIN seq BY <1>1, <2>2
  <2>4. d # 0 BY <1>1, <1>2, <2>2, <2>3 DEF Last
  <2>5. PICK k : k = Len(seq) - (d - 1) OBVIOUS
  <2>6. k \in DOMAIN seq /\ k - 1 = Len(seq) - d /\ k - 1 \in DOMAIN seq /\ k > 1
    BY <1>1, <2>2, <2>4, <2>5
  <2>7. seq[k - 1][2] < seq[k][1] BY <1>3, <2>6
  <2>8. seq[k][2] > Last(seq)[2] BY <1>2, <2>2, <2>3, <2>6, <2>7 DEF Last
  <2>9. d - 1 \in Behind BY <1>1, <2>2, <2>4, <2>5, <2>8
  <2> QED BY <2>1, <2>2, <2>9
<1>5. Len(seq) - n \in Nat /\ Len(seq) - n < Len(seq) /\ Len(seq) - (Len(seq) - n) = n
  BY <1>1
<1>6. ~(seq[n][2] > Last(seq)[2]) BY <1>4, <1>5
<1>7. Len(seq) \in DOMAIN seq /\ seq # <<>> BY <1>1
<1> QED BY <1>1, <1>2, <1>6, <1>7 DEF Last

(* An interval that starts no earlier than the last one is joined to them. *)
LEMMA JoinedIs ==
  ASSUME NEW seq, Neat(seq), NEW i \in Intervals,
         seq # <<>> => Last(seq)[1] <= i[1],
         NEW res, res = Joined(seq, i)
  PROVE  /\ Neat(res) /\ res # <<>> /\ Last(res)[1] <= i[1]
         /\ Covered(res) = Covered(seq) \cup Cover(i)
<1>1. /\ seq \in Seq(Intervals) /\ DOMAIN seq = 1 .. Len(seq) /\ Len(seq) \in Nat
      /\ \A n \in DOMAIN seq : seq[n] \in Intervals
  BY DEF Neat
<1>2. i[1] \in Int /\ i[2] \in Int /\ i[1] < i[2] BY DEF Intervals
<1>3. CASE ~(seq # <<>> /\ i[1] <= Last(seq)[2])
  <2>1. res = Append(seq, i) BY <1>3 DEF Joined
  <2>2. ASSUME NEW n \in DOMAIN seq PROVE seq[n][2] < i[1]
    <3>1. seq # <<>> /\ Last(seq) \in Intervals /\ seq[n][2] <= Last(seq)[2]
      BY LastIsLatest
    <3>2. seq[n] \in Intervals BY <1>1
    <3> QED BY <1>2, <1>3, <3>1, <3>2 DEF Intervals
  <2> QED BY <1>1, <1>2, <2>1, <2>2, AppendIs, AppendNeat
<1>4. CASE seq # <<>> /\ i[1] <= Last(seq)[2]
  <2>1. PICK N, last : N = Len(seq) /\ last = Last(seq) OBVIOUS
  <2>2. N \in Nat /\ N >= 1 /\ N \in DOMAIN seq /\ last = seq[N] /\ last \in Intervals
    BY <1>1, <1>4, <2>1 DEF Last
  <2>3. PICK both : both = <<last[1], Max({last[2], i[2]})>> OBVIOUS
  <2>4. last[1] \in Int /\ last[2] \in Int /\ last[1] < last[2] BY <2>2 DEF Intervals
  <2>5. PICK max : max = Max({last[2], i[2]}) OBVIOUS
  <2>6. max \in {last[2], i[2]} /\ max >= last[2] /\ max >= i[2]
    BY <1>2, <2>4, <2>5, MinMax
  <2>7. both = <<last[1], max>> BY <2>3, <2>5
  <2>8. both \in Intervals BY <1>2, <2>4, <2>6, <2>7 DEF Intervals
  <2>9. res = [seq EXCEPT ![N] = both] BY <1>4, <2>1, <2>2, <2>3 DEF Joined
  <2>10. /\ res \in Seq(Intervals) /\ DOMAIN res = DOMAIN seq /\ Len(res) = N
         /\ res[N] = both /\ \A n \in DOMAIN seq : n # N => res[n] = seq[n]
    BY <1>1, <2>1, <2>2, <2>8, <2>9
  <2>11. Neat(res)
    <3>1. ASSUME NEW n \in DOMAIN res, n > 1 PROVE res[n - 1][2] < res[n][1]
      <4>1. n - 1 \in DOMAIN seq /\ n - 1 # N BY <1>1, <2>1, <2>10, <3>1
      <4>2. seq[n - 1][2] < seq[n][1] BY <2>10, <3>1 DEF Neat
      <4>3. res[n - 1] = seq[n - 1] BY <2>10, <4>1
      <4>4. res[n][1] = seq[n][1] BY <2>2, <2>7, <2>10
      <4> QED BY <4>2, <4>3, <4>4
    <3> QED BY <2>10, <3>1 DEF Neat
  <2>12. res # <<>> /\ Last(res)[1] <= i[1]
    <3>1. Last(res) = both BY <2>10 DEF Last
    <3>2. last[1] <= i[1] BY <1>4, <2>1
    <3> QED BY <2>2, <2>7, <2>10, <3>1, <3>2
  <2>13. ASSUME NEW t \in Int
         PROVE  Covers(both, t) <=> Covers(last, t) \/ Covers(i, t)
    <3>1. last[1] <= i[1] /\ i[1] <= last[2] BY <1>4, <2>1
    <3>2. both[1] = last[1] /\ both[2] = max BY <2>7
    <3> QED BY <1>2, <2>4, <2>6, <3>1, <3>2 DEF Covers
  <2>14. ASSUME NEW t \in Int
         PROVE  (\E n \in DOMAIN res : Covers(res[n], t)) <=>
                  (\E n \in DOMAIN seq : Covers(seq[n], t)) \/ Covers(i, t)
    BY <2>2, <2>10, <2>13
  <2>15. Covered(res) = Covered(seq) \cup Cover(i)
    BY <2>14 DEF Covered, Cover
  <2> QED BY <2>11, <2>12, <2>15
<1> QED BY <1>3, <1>4

-----------------------------------------------------------------------------
Recursion(f, V, base, N, op) ==
  /\ f \in [0 .. N -> V] /\ f[0] = base
  /\ \A n \in 1 .. N : f[n] = op[<<f[n - 1], n>>]

(* A recursion over the elements of a sequence has its function.           *)
LEMMA RecursionExists ==
  ASSUME NEW V, NEW base \in V, NEW N \in Nat, NEW op \in [V \X (1 .. N) -> V]
  PROVE  \E f : Recursion(f, V, base, N, op)
<1> DEFINE Exists(k) ==
      \E f \in [0 .. k -> V] :
        f[0] = base /\ \A n \in 1 .. k : f[n] = op[<<f[n - 1], n>>]
<1>1. Exists(0)
  <2>1. PICK f : f = [n \in 0 .. 0 |-> base] OBVIOUS
  <2>2. f \in [0 .. 0 -> V] /\ f[0] = base /\ 1 .. 0 = {} BY <2>1
  <2> QED BY <2>2
<1>2. ASSUME NEW k \in Nat, k < N, Exists(k) PROVE Exists(k + 1)
  <2>1. PICK g \in [0 .. k -> V] :
          g[0] = base /\ \A n \in 1 .. k : g[n] = op[<<g[n - 1], n>>]
    BY <1>2
  <2>2. PICK f : f = [n \in 0 .. k + 1 |-> IF n = k + 1 THEN op[<<g[k], n>>] ELSE g[n]]
    OBVIOUS
  <2>3. k + 1 \in 1 .. N /\ g[k] \in V BY <1>2, <2>1
  <2>4. op[<<g[k], k + 1>>] \in V BY <2>3
  <2>5. \A n \in 0 .. k : f[n] = g[n] BY <1>2, <2>2
  <2>6. f[k + 1] = op[<<g[k], k + 1>>] BY <1>2, <2>2
  <2>7. f \in [0 .. k + 1 -> V] BY <1>2, <2>1, <2>2, <2>4
  <2>8. ASSUME NEW n \in 1 .. k + 1 PROVE f[n] = op[<<f[n - 1], n>>]
    <3>1. n - 1 \in 0 .. k /\ f[n - 1] = g[n - 1] BY <1>2, <2>5
    <3>2. CASE n = k + 1
      <4>1. n - 1 = k BY <1>2, <3>2
      <4> QED BY <2>6, <3>1, <3>2, <4>1
    <3>3. CASE n \in 1 .. k BY <2>1, <2>5, <3>1, <3>3
    <3> QED BY <1>2, <3>2, <3>3
  <2>9. f[0] = base BY <1>2, <2>1, <2>5
  <2> QED BY <2>7, <2>8, <2>9
<1> HIDE DEF Exists
<1>3. {k \in Nat : k <= N /\ ~Exists(k)} = {}
  <2> SUFFICES ASSUME {k \in Nat : k <= N /\ ~Exists(k)} # {} PROVE FALSE OBVIOUS
  <2>1. PICK k \in {x \in Nat : x <= N /\ ~Exists(x)} :
          \A m \in {x \in Nat : x <= N /\ ~Exists(x)} : k <= m
    BY LeastExists
  <2>2. k \in Nat /\ k <= N /\ ~Exists(k) /\ k # 0 BY <1>1, <2>1
  <2>3. k - 1 \in Nat /\ k - 1 < N /\ k - 1 + 1 = k BY <2>2
  <2>4. Exists(k - 1) BY <2>1, <2>3
  <2> QED BY <1>2, <2>2, <2>3, <2>4
<1>4. Exists(N) BY <1>3
<1> QED BY <1>4 DEF Exists, Recursion

LEMMA JoinedTyped ==
  ASSUME NEW seq \in Seq(Intervals), NEW i \in Intervals
  PROVE  Joined(seq, i) \in Seq(Intervals)
<1>1. i[1] \in Int /\ i[2] \in Int /\ i[1] < i[2] BY DEF Intervals
<1>2. CASE seq # <<>> /\ i[1] <= Last(seq)[2]
  <2>1. Len(seq) \in DOMAIN seq BY <1>2
  <2>2. PICK last : last = Last(seq) OBVIOUS
  <2>3. last = seq[Len(seq)] /\ last \in Intervals BY <2>1, <2>2 DEF Last
  <2>4. last[1] \in Int /\ last[2] \in Int /\ last[1] < last[2] BY <2>3 DEF Intervals
  <2>5. PICK max : max = Max({last[2], i[2]}) OBVIOUS
  <2>6. max \in Int /\ max >= last[2] BY <1>1, <2>4, <2>5, MinMax
  <2>7. <<last[1], max>> \in Intervals BY <2>4, <2>6 DEF Intervals
  <2>8. Joined(seq, i) = [seq EXCEPT ![Len(seq)] = <<last[1], max>>]
    BY <1>2, <2>1, <2>3, <2>5 DEF Joined
  <2> QED BY <2>1, <2>7, <2>8
<1>3. CASE ~(seq # <<>> /\ i[1] <= Last(seq)[2])
  BY <1>3 DEF Joined
<1> QED BY <1>2, <1>3

LEMMA MergedIs ==
  ASSUME NEW seq \in Seq(Intervals),
         \A m, n \in DOMAIN seq : m < n => seq[m][1] <= seq[n][1],
         NEW res, res = Merged(seq)
  PROVE  Neat(res) /\ Covered(res) = Covered(seq)
<1>1. PICK N : N = Len(seq) OBVIOUS
<1>2. N \in Nat /\ DOMAIN seq = 1 .. N BY <1>1
<1>3. \A n \in 1 .. N : seq[n] \in Intervals BY <1>2
<1>4. \E f : f = [n \in 0 .. N |-> IF n = 0 THEN <<>> ELSE Joined(f[n - 1], seq[n])]
  <2>1. PICK V, none, op :
          /\ V = Seq(Intervals) /\ none = <<>>
          /\ op = [vn \in Seq(Intervals) \X (1 .. N) |-> Joined(vn[1], seq[vn[2]])]
    OBVIOUS
  <2>2. none \in V /\ op \in [V \X (1 .. N) -> V] BY <1>3, <2>1, JoinedTyped
  <2>3. PICK f : Recursion(f, V, none, N, op) BY <1>2, <2>2, RecursionExists
  <2>4. f \in [0 .. N -> Seq(Intervals)] /\ f[0] = <<>> BY <2>1, <2>3 DEF Recursion
  <2>5. ASSUME NEW n \in 1 .. N PROVE f[n] = Joined(f[n - 1], seq[n])
    <3>1. n - 1 \in 0 .. N BY <1>2
    <3>2. <<f[n - 1], n>> \in Seq(Intervals) \X (1 .. N) BY <2>4, <3>1
    <3> QED BY <2>1, <2>3, <3>2 DEF Recursion
  <2>6. f = [n \in 0 .. N |-> IF n = 0 THEN <<>> ELSE Joined(f[n - 1], seq[n])]
    BY <1>2, <2>4, <2>5
  <2> QED BY <2>6
<1>5. PICK f : f = (CHOOSE g : g = [n \in 0 .. N |->
                      IF n = 0 THEN <<>> ELSE Joined(g[n - 1], seq[n])])
  OBVIOUS
<1>6. f = [n \in 0 .. N |-> IF n = 0 THEN <<>> ELSE Joined(f[n - 1], seq[n])]
  BY <1>5, <1>4
<1>7. res = f[N] BY <1>1, <1>5 DEF Merged
<1>8. f[0] = <<>> /\ \A n \in 1 .. N : f[n] = Joined(f[n - 1], seq[n])
  <2>1. 0 \in 0 .. N /\ \A n \in 1 .. N : n \in 0 .. N /\ n # 0 BY <1>2
  <2> QED BY ONLY <1>6, <2>1
<1>9. \A n \in 1 .. N : seq[n][1] \in Int BY <1>3 DEF Intervals
<1> DEFINE Good(n) ==
      /\ Neat(f[n]) /\ (f[n] # <<>> => n > 0 /\ Last(f[n])[1] <= seq[n][1])
      /\ Covered(f[n]) = {t \in Int : \E m \in 1 .. n : Covers(seq[m], t)}
<1>10. Good(0) BY <1>8 DEF Neat, Covered
<1>11. ASSUME NEW n \in 1 .. N, Good(n - 1) PROVE Good(n)
  <2>1. PICK p, i, r : p = f[n - 1] /\ i = seq[n] /\ r = f[n] OBVIOUS
  <2>2. Neat(p) /\ i \in Intervals /\ r = Joined(p, i) BY <1>8, <1>3, <1>11, <2>1
  <2>3. p # <<>> => Last(p)[1] <= i[1]
    <3> SUFFICES ASSUME p # <<>> PROVE Last(p)[1] <= i[1] OBVIOUS
    <3>1. n - 1 > 0 /\ Last(p)[1] <= seq[n - 1][1] BY <1>11, <2>1
    <3>2. n - 1 \in 1 .. N BY <1>2, <3>1
    <3>3. seq[n - 1][1] <= i[1] BY <1>2, <2>1, <3>2
    <3>4. Len(p) \in DOMAIN p BY <2>2 DEF Neat
    <3>5. Last(p) \in Intervals BY <2>2, <3>4, LastIsLatest
    <3> QED BY <1>9, <2>1, <3>1, <3>2, <3>3, <3>5 DEF Intervals
  <2>4. /\ Neat(r) /\ r # <<>> /\ Last(r)[1] <= i[1]
        /\ Covered(r) = Covered(p) \cup Cover(i)
    BY <2>2, <2>3, JoinedIs
  <2>5. 1 .. n = 1 .. n - 1 \cup {n} BY <1>2
  <2>6. Covered(r) = {t \in Int : \E m \in 1 .. n : Covers(seq[m], t)}
    <3>1. Covered(p) = {t \in Int : \E m \in 1 .. n - 1 : Covers(seq[m], t)}
      BY <1>11, <2>1
    <3>2. \A t \in Int : (\E m \in 1 .. n : Covers(seq[m], t)) <=>
                           (\E m \in 1 .. n - 1 : Covers(seq[m], t)) \/ Covers(i, t)
      BY <2>1, <2>5
    <3> QED BY <2>4, <3>1, <3>2 DEF Cover
  <2> QED BY <2>1, <2>4, <2>6
<1> HIDE DEF Good
<1>12. {n \in Nat : n <= N /\ ~Good(n)} = {}
  <2> SUFFICES ASSUME {n \in Nat : n <= N /\ ~Good(n)} # {} PROVE FALSE OBVIOUS
  <2>1. PICK k \in {n \in Nat : n <= N /\ ~Good(n)} :
          \A m \in {n \in Nat : n <= N /\ ~Good(n)} : k <= m
    BY LeastExists
  <2>2. k \in Nat /\ k <= N /\ ~Good(k) /\ k # 0 BY <1>10, <2>1
  <2>3. k \in 1 .. N /\ k - 1 \in Nat /\ k - 1 <= N BY <1>2, <2>2
  <2>4. Good(k - 1) BY <2>1, <2>3
  <2> QED BY <1>11, <2>2, <2>3, <2>4
<1>13. Good(N) BY <1>2, <1>12
<1>14. Covered(f[N]) = {t \in Int : \E m \in 1 .. N : Covers(seq[m], t)}
  BY <1>13 DEF Good
<1> QED BY <1>2, <1>7, <1>13, <1>14 DEF Good, Covered

-----------------------------------------------------------------------------
(* Schedule: absences.                                                     *)
LEMMA RemainingTyped ==
  ASSUME NEW seq \in Seq(Intervals), NEW i \in Intervals, NEW from \in Int, NEW until \in Int
  PROVE  Remaining(seq, i, from, until) \in Seq(Intervals)
<1>1. i[1] \in Int /\ i[2] \in Int BY DEF Intervals
<1>2. i[1] < from => <<i[1], from>> \in Intervals BY <1>1 DEF Intervals
<1>3. until < i[2] => <<until, i[2]>> \in Intervals BY <1>1 DEF Intervals
<1>4. PICK early : early = (IF i[1] < from THEN Append(seq, <<i[1], from>>) ELSE seq) OBVIOUS
<1>5. early \in Seq(Intervals) BY <1>2, <1>4
<1>6. until < i[2] => Append(early, <<until, i[2]>>) \in Seq(Intervals) BY <1>3, <1>5
<1> QED BY <1>4, <1>5, <1>6 DEF Remaining

LEMMA AppendLast ==
  ASSUME NEW seq, Neat(seq), NEW i \in Intervals,
         \A n \in DOMAIN seq : seq[n][2] < i[1],
         NEW res, res = Append(seq, i)
  PROVE  /\ Neat(res) /\ Covered(res) = Covered(seq) \cup Cover(i)
         /\ \A n \in DOMAIN res : res[n][2] <= i[2]
<1>1. seq \in Seq(Intervals) BY DEF Neat
<1>2. Neat(res) BY AppendNeat
<1>3. Covered(res) = Covered(seq) \cup Cover(i) /\ Last(res) = i BY <1>1, AppendIs
<1>4. \A n \in DOMAIN res : res[n][2] <= i[2] BY <1>2, <1>3, LastIsLatest
<1> QED BY <1>2, <1>3, <1>4

LEMMA RemainingIs ==
  ASSUME NEW seq, Neat(seq), NEW i \in Intervals,
         \A n \in DOMAIN seq : seq[n][2] < i[1],
         NEW from \in Int, NEW until \in Int, from < until,
         NEW res, res = Remaining(seq, i, from, until)
  PROVE  /\ Neat(res) /\ \A n \in DOMAIN res : res[n][2] <= i[2]
         /\ Covered(res) = Covered(seq) \cup (Cover(i) \ Cover(<<from, until>>))
<1>1. i[1] \in Int /\ i[2] \in Int /\ i[1] < i[2] BY DEF Intervals
<1>2. /\ seq \in Seq(Intervals) /\ \A n \in DOMAIN seq : seq[n] \in Intervals
  BY DEF Neat
<1>3. \A n \in DOMAIN seq : seq[n][2] \in Int BY <1>2 DEF Intervals
<1>4. \A x, y, t \in Int : t \in Cover(<<x, y>>) <=> x <= t /\ t < y
  BY DEF Cover, Covers
<1>5. \A t : t \in Cover(i) <=> t \in Int /\ i[1] <= t /\ t < i[2]
  BY DEF Cover, Covers
<1>6. \A x, y : Cover(<<x, y>>) \subseteq Int BY DEF Cover
<1>7. CASE until <= i[1] \/ from >= i[2]
  <2>1. res = Append(seq, i) BY <1>7 DEF Remaining
  <2>2. Cover(i) \ Cover(<<from, until>>) = Cover(i)
    BY <1>1, <1>4, <1>5, <1>7
  <2> QED BY <2>1, <2>2, AppendLast
<1>8. CASE ~(until <= i[1] \/ from >= i[2])
  <2>1. PICK early : early = (IF i[1] < from THEN Append(seq, <<i[1], from>>) ELSE seq)
    OBVIOUS
  <2>2. PICK gone : gone = Cover(<<from, until>>) OBVIOUS
  <2>3. res = (IF until < i[2] THEN Append(early, <<until, i[2]>>) ELSE early)
    BY <1>8, <2>1 DEF Remaining
  <2>4. /\ Neat(early) /\ \A n \in DOMAIN early : early[n][2] < until /\ early[n][2] <= i[2]
        /\ Covered(early) = Covered(seq) \cup {t \in Cover(i) : t < from}
    <3>1. CASE i[1] < from
      <4>1. PICK p : p = <<i[1], from>> OBVIOUS
      <4>2. p \in Intervals /\ p[1] = i[1] /\ p[2] = from BY <1>1, <3>1, <4>1 DEF Intervals
      <4>3. /\ Neat(early) /\ Covered(early) = Covered(seq) \cup Cover(p)
            /\ \A n \in DOMAIN early : early[n][2] <= p[2]
        BY <2>1, <3>1, <4>1, <4>2, AppendLast
      <4>4. Cover(p) = {t \in Cover(i) : t < from}
        BY <1>1, <1>4, <1>5, <1>6, <1>8, <4>1
      <4>5. \A n \in DOMAIN early : early[n][2] \in Int
        BY <4>3 DEF Neat, Intervals
      <4> QED BY <1>1, <1>8, <4>2, <4>3, <4>4, <4>5
    <3>2. CASE ~(i[1] < from)
      <4>1. early = seq BY <2>1, <3>2
      <4>2. {t \in Cover(i) : t < from} = {} BY <1>1, <1>5, <3>2
      <4> QED BY <1>1, <1>3, <1>8, <4>1, <4>2
    <3> QED BY <3>1, <3>2
  <2>5. CASE until < i[2]
    <3>1. PICK p : p = <<until, i[2]>> OBVIOUS
    <3>2. p \in Intervals /\ p[1] = until /\ p[2] = i[2] BY <1>1, <2>5, <3>1 DEF Intervals
    <3>3. res = Append(early, p) BY <2>3, <2>5, <3>1
    <3>4. /\ Neat(res) /\ Covered(res) = Covered(early) \cup Cover(p)
          /\ \A n \in DOMAIN res : res[n][2] <= p[2]
      BY <2>4, <3>2, <3>3, AppendLast
    <3>5. Cover(i) \ gone = {t \in Cover(i) : t < from} \cup Cover(p)
      BY <1>1, <1>4, <1>5, <1>6, <1>8, <2>2, <3>1
    <3> QED BY <2>2, <2>4, <3>2, <3>4, <3>5
  <2>6. CASE ~(until < i[2])
    <3>1. res = early BY <2>3, <2>6
    <3>2. Cover(i) \ gone = {t \in Cover(i) : t < from}
      BY <1>1, <1>4, <1>5, <1>6, <1>8, <2>2, <2>6
    <3> QED BY <2>2, <2>4, <3>1, <3>2
  <2> QED BY <2>5, <2>6
<1> QED BY <1>7, <1>8

(* What is left is what no absence takes, in separate intervals.           *)
LEMMA WithoutIs ==
  ASSUME NEW seq, Neat(seq), NEW absence,
         NEW from \in Int, from = Instant(absence.start),
         NEW until \in Int, until = Instant(absence.end), from < until,
         NEW res, res = Without(seq, absence)
  PROVE  Neat(res) /\ Covered(res) = Covered(seq) \ Cover(<<from, until>>)
<1>1. PICK N : N = Len(seq) OBVIOUS
<1>2. N \in Nat /\ DOMAIN seq = 1 .. N BY <1>1 DEF Neat
<1>3. \A n \in 1 .. N : seq[n] \in Intervals BY <1>2 DEF Neat
<1>4. \E f : f = [n \in 0 .. N |->
                    IF n = 0 THEN <<>> ELSE Remaining(f[n - 1], seq[n], from, until)]
  <2>1. PICK V, none, op :
          /\ V = Seq(Intervals) /\ none = <<>>
          /\ op = [vn \in Seq(Intervals) \X (1 .. N) |->
                       Remaining(vn[1], seq[vn[2]], from, until)]
    OBVIOUS
  <2>2. none \in V /\ op \in [V \X (1 .. N) -> V] BY <1>3, <2>1, RemainingTyped
  <2>3. PICK f : Recursion(f, V, none, N, op) BY <1>2, <2>2, RecursionExists
  <2>4. f \in [0 .. N -> Seq(Intervals)] /\ f[0] = <<>> BY <2>1, <2>3 DEF Recursion
  <2>5. ASSUME NEW n \in 1 .. N PROVE f[n] = Remaining(f[n - 1], seq[n], from, until)
    <3>1. n - 1 \in 0 .. N BY <1>2
    <3>2. <<f[n - 1], n>> \in Seq(Intervals) \X (1 .. N) BY <2>4, <3>1
    <3> QED BY <2>1, <2>3, <3>2 DEF Recursion
  <2>6. f = [n \in 0 .. N |-> IF n = 0 THEN <<>> ELSE Remaining(f[n - 1], seq[n], from, until)]
    BY <1>2, <2>4, <2>5
  <2> QED BY <2>6
<1>5. PICK f : f = (CHOOSE g : g = [n \in 0 .. N |->
                      IF n = 0 THEN <<>> ELSE Remaining(g[n - 1], seq[n], from, until)])
  OBVIOUS
<1>6. f = [n \in 0 .. N |-> IF n = 0 THEN <<>> ELSE Remaining(f[n - 1], seq[n], from, until)]
  BY <1>4, <1>5
<1>7. res = f[N] BY <1>1, <1>5 DEF Without
<1>8. f[0] = <<>> /\ \A n \in 1 .. N : f[n] = Remaining(f[n - 1], seq[n], from, until)
  <2>1. 0 \in 0 .. N /\ \A n \in 1 .. N : n \in 0 .. N /\ n # 0 BY <1>2
  <2> QED BY ONLY <1>6, <2>1
<1>9. PICK gone : gone = Cover(<<from, until>>) OBVIOUS
<1> DEFINE Good(n) ==
      /\ Neat(f[n]) /\ \A k \in DOMAIN f[n] : n > 0 /\ f[n][k][2] <= seq[n][2]
      /\ Covered(f[n]) = {t \in Int : \E m \in 1 .. n : Covers(seq[m], t)} \ gone
<1>10. Good(0) BY <1>8 DEF Neat, Covered
<1>11. ASSUME NEW n \in 1 .. N, Good(n - 1) PROVE Good(n)
  <2>1. PICK p, i, r : p = f[n - 1] /\ i = seq[n] /\ r = f[n] OBVIOUS
  <2>2. Neat(p) /\ i \in Intervals /\ r = Remaining(p, i, from, until)
    BY <1>3, <1>8, <1>11, <2>1
  <2>3. ASSUME NEW k \in DOMAIN p PROVE p[k][2] < i[1]
    <3>1. n - 1 > 0 /\ p[k][2] <= seq[n - 1][2] BY <1>11, <2>1
    <3>2. n - 1 \in 1 .. N /\ n > 1 BY <1>2, <3>1
    <3>3. seq[n - 1][2] < i[1] BY <1>2, <2>1, <3>2 DEF Neat
    <3>4. p[k] \in Intervals BY <2>2 DEF Neat
    <3>5. seq[n - 1] \in Intervals BY <1>3, <3>2
    <3> QED BY <2>2, <3>1, <3>3, <3>4, <3>5 DEF Intervals
  <2>4. /\ Neat(r) /\ \A k \in DOMAIN r : r[k][2] <= i[2]
        /\ Covered(r) = Covered(p) \cup (Cover(i) \ gone)
    BY <1>9, <2>2, <2>3, RemainingIs
  <2>5. 1 .. n = 1 .. n - 1 \cup {n} BY <1>2
  <2>6. Covered(r) = {t \in Int : \E m \in 1 .. n : Covers(seq[m], t)} \ gone
    <3>1. Covered(p) = {t \in Int : \E m \in 1 .. n - 1 : Covers(seq[m], t)} \ gone
      BY <1>11, <2>1
    <3>2. \A t \in Int : (\E m \in 1 .. n : Covers(seq[m], t)) <=>
                           (\E m \in 1 .. n - 1 : Covers(seq[m], t)) \/ Covers(i, t)
      BY <2>1, <2>5
    <3> QED BY <2>4, <3>1, <3>2 DEF Cover
  <2> QED BY <1>2, <2>1, <2>4, <2>6
<1> HIDE DEF Good
<1>12. {n \in Nat : n <= N /\ ~Good(n)} = {}
  <2> SUFFICES ASSUME {n \in Nat : n <= N /\ ~Good(n)} # {} PROVE FALSE OBVIOUS
  <2>1. PICK k \in {n \in Nat : n <= N /\ ~Good(n)} :
          \A m \in {n \in Nat : n <= N /\ ~Good(n)} : k <= m
    BY LeastExists
  <2>2. k \in Nat /\ k <= N /\ ~Good(k) /\ k # 0 BY <1>10, <2>1
  <2>3. k \in 1 .. N /\ k - 1 \in Nat /\ k - 1 <= N BY <1>2, <2>2
  <2>4. Good(k - 1) BY <2>1, <2>3
  <2> QED BY <1>11, <2>2, <2>3, <2>4
<1>13. Good(N) BY <1>2, <1>12
<1>14. Covered(f[N]) = {t \in Int : \E m \in 1 .. N : Covers(seq[m], t)} \ gone
  BY <1>13 DEF Good
<1>15. Covered(seq) = {t \in Int : \E m \in 1 .. N : Covers(seq[m], t)}
  BY <1>2 DEF Covered
<1> QED BY <1>7, <1>9, <1>13, <1>14, <1>15 DEF Good

(* Absences are taken away one after the other.                            *)
Taken(absences) ==
  {t \in Int : \E n \in DOMAIN absences :
     Instant(absences[n].start) <= t /\ t < Instant(absences[n].end)}

LEMMA PresentIs ==
  ASSUME NEW seq, Neat(seq), NEW absences, NEW N \in Nat, N = Len(absences),
         DOMAIN absences = 1 .. N,
         \A n \in 1 .. N : /\ Instant(absences[n].start) \in Int
                           /\ Instant(absences[n].end) \in Int
                           /\ Instant(absences[n].start) < Instant(absences[n].end),
         NEW res, res = Present(seq, absences)
  PROVE  Neat(res) /\ Covered(res) = Covered(seq) \ Taken(absences)
<1> DEFINE Neats == {s \in Seq(Intervals) : Neat(s)}
           Gone(n) == Cover(<<Instant(absences[n].start), Instant(absences[n].end)>>)
<1>1. ASSUME NEW s, Neat(s), NEW n \in 1 .. N
      PROVE  /\ Neat(Without(s, absences[n]))
             /\ Covered(Without(s, absences[n])) = Covered(s) \ Gone(n)
  <2>1. PICK a, from, until, r :
          /\ a = absences[n] /\ from = Instant(a.start) /\ until = Instant(a.end)
          /\ r = Without(s, a)
    OBVIOUS
  <2>2. from \in Int /\ until \in Int /\ from < until BY <2>1
  <2>3. Neat(r) /\ Covered(r) = Covered(s) \ Cover(<<from, until>>)
    BY <1>1, <2>1, <2>2, WithoutIs
  <2> QED BY <2>1, <2>3
<1>2. \A s : Neat(s) <=> s \in Neats BY DEF Neat
<1> HIDE DEF Neats
<1>3. \E f : f = [n \in 0 .. N |-> IF n = 0 THEN seq ELSE Without(f[n - 1], absences[n])]
  <2>1. PICK op : op = [vn \in Neats \X (1 .. N) |-> Without(vn[1], absences[vn[2]])]
    OBVIOUS
  <2>2. seq \in Neats /\ op \in [Neats \X (1 .. N) -> Neats] BY <1>1, <1>2, <2>1
  <2>3. PICK f : Recursion(f, Neats, seq, N, op) BY <2>2, RecursionExists
  <2>4. ASSUME NEW n \in 1 .. N PROVE f[n] = Without(f[n - 1], absences[n])
    <3>1. n - 1 \in 0 .. N OBVIOUS
    <3>2. <<f[n - 1], n>> \in Neats \X (1 .. N) BY <2>3, <3>1 DEF Recursion
    <3> QED BY <2>1, <2>3, <3>2 DEF Recursion
  <2>5. f = [n \in 0 .. N |-> IF n = 0 THEN seq ELSE Without(f[n - 1], absences[n])]
    BY <2>3, <2>4 DEF Recursion
  <2> QED BY <2>5
<1>4. PICK f : f = (CHOOSE g : g = [n \in 0 .. N |->
                      IF n = 0 THEN seq ELSE Without(g[n - 1], absences[n])])
  OBVIOUS
<1>5. f = [n \in 0 .. N |-> IF n = 0 THEN seq ELSE Without(f[n - 1], absences[n])]
  BY <1>3, <1>4
<1>6. res = f[N] BY <1>4 DEF Present
<1>7. f[0] = seq /\ \A n \in 1 .. N : f[n] = Without(f[n - 1], absences[n])
  <2>1. 0 \in 0 .. N /\ \A n \in 1 .. N : n \in 0 .. N /\ n # 0 OBVIOUS
  <2> QED BY ONLY <1>5, <2>1
<1> DEFINE Good(n) ==
      /\ Neat(f[n])
      /\ Covered(f[n]) = {t \in Covered(seq) : \A m \in 1 .. n : t \notin Gone(m)}
<1>8. Good(0) BY <1>7
<1>9. ASSUME NEW n \in 1 .. N, Good(n - 1) PROVE Good(n)
  <2>1. Neat(f[n - 1]) /\ f[n] = Without(f[n - 1], absences[n]) BY <1>7, <1>9
  <2>2. Neat(f[n]) /\ Covered(f[n]) = Covered(f[n - 1]) \ Gone(n) BY <1>1, <2>1
  <2>3. 1 .. n = 1 .. n - 1 \cup {n} OBVIOUS
  <2> QED BY <1>9, <2>2, <2>3
<1> HIDE DEF Good
<1>10. {n \in Nat : n <= N /\ ~Good(n)} = {}
  <2> SUFFICES ASSUME {n \in Nat : n <= N /\ ~Good(n)} # {} PROVE FALSE OBVIOUS
  <2>1. PICK k \in {n \in Nat : n <= N /\ ~Good(n)} :
          \A m \in {n \in Nat : n <= N /\ ~Good(n)} : k <= m
    BY LeastExists
  <2>2. k \in Nat /\ k <= N /\ ~Good(k) /\ k # 0 BY <1>8, <2>1
  <2>3. k \in 1 .. N /\ k - 1 \in Nat /\ k - 1 <= N BY <2>2
  <2>4. Good(k - 1) BY <2>1, <2>3
  <2> QED BY <1>9, <2>2, <2>3, <2>4
<1>11. Good(N) BY <1>10
<1>12. \A n \in 1 .. N, t \in Int :
         t \in Gone(n) <=> Instant(absences[n].start) <= t /\ t < Instant(absences[n].end)
  BY DEF Cover, Covers
<1> HIDE DEF Gone
<1>13. Neat(f[N]) /\ Covered(f[N]) = {t \in Covered(seq) : \A m \in 1 .. N : t \notin Gone(m)}
  BY <1>11 DEF Good
<1>14. Covered(seq) \subseteq Int BY DEF Covered
<1>15. \A t \in Int : t \in Taken(absences) <=> \E m \in 1 .. N : t \in Gone(m)
  BY <1>12 DEF Taken
<1> QED BY <1>6, <1>13, <1>14, <1>15

LEMMA AbsenceIs ==
  ASSUME zone \in Zones, NEW absence \in Absences, ValidAbsence(absence)
  PROVE  /\ Instant(absence.start) \in Int /\ Instant(absence.end) \in Int
         /\ Instant(absence.start) < Instant(absence.end)
         /\ \A t \in Int : Away(absence, t) <=>
              Instant(absence.start) <= t /\ t < Instant(absence.end)
<1>1. ASSUME NEW boundary \in Boundaries, Valid(boundary)
      PROVE  /\ Instant(boundary) \in Int
             /\ \A t \in Int : Reached(boundary, t) <=> Instant(boundary) <= t
  <2>1. boundary.at \in Int /\ boundary.naive \in BOOLEAN
    BY ScheduleAssumption DEF Boundaries
  <2>2. CASE boundary.naive
    <3>1. Strict(boundary.at) BY <1>1, <2>2 DEF Valid
    <3>2. ToUTC(boundary.at) \in Int BY <2>1, <3>1, StrictIs
    <3>3. \A t \in Int : Local(t) >= boundary.at <=> t >= ToUTC(boundary.at)
      BY <2>1, <3>1, Clock
    <3> QED BY <2>2, <3>2, <3>3 DEF Instant, Reached
  <2>3. CASE ~boundary.naive
    BY <2>1, <2>3 DEF Instant, Reached
  <2> QED BY <2>1, <2>2, <2>3
<1>2. absence.start \in Boundaries /\ absence.end \in Boundaries BY DEF Absences
<1>3. /\ Valid(absence.start) /\ Valid(absence.end)
      /\ Instant(absence.start) < Instant(absence.end)
  BY DEF ValidAbsence
<1>4. /\ Instant(absence.start) \in Int /\ Instant(absence.end) \in Int
      /\ \A t \in Int : Reached(absence.start, t) <=> Instant(absence.start) <= t
      /\ \A t \in Int : Reached(absence.end, t) <=> Instant(absence.end) <= t
  BY <1>1, <1>2, <1>3
<1> QED BY <1>3, <1>4 DEF Away

-----------------------------------------------------------------------------
(* Schedule: duty and demand.                                              *)
LEMMA DutyIs ==
  ASSUME zone \in Zones, Spanned,
         NEW windows, windows \subseteq Windows, NEW absences \in AbsenceLists,
         \A n \in DOMAIN absences : ValidAbsence(absences[n]),
         \A s \in Shifts(windows) : Strict(s.start) /\ Strict(s.end),
         NEW duty, duty = Present(Merged(Sorted(Proper(Shifts(windows)))), absences)
  PROVE  /\ Neat(duty)
         /\ \A t \in Int : t \in Covered(duty) <=>
              /\ t \in Instants
              /\ \E w \in windows : InWindow(w, Local(t))
              /\ \A n \in DOMAIN absences : ~Away(absences[n], t)
<1>1. PICK S, seq, merged :
        S = Proper(Shifts(windows)) /\ seq = Sorted(S) /\ merged = Merged(seq)
  OBVIOUS
<1>2. /\ S \subseteq Intervals /\ IsFiniteSet(S)
      /\ \A t \in Int : (\E i \in S : Covers(i, t)) <=>
                          t \in Instants /\ \E w \in windows : InWindow(w, Local(t))
  BY <1>1, ProperIs
<1>3. /\ seq \in Seq(Intervals)
      /\ \A i : i \in S <=> \E n \in DOMAIN seq : seq[n] = i
      /\ \A m, n \in DOMAIN seq : m < n => seq[m][1] <= seq[n][1]
  BY <1>1, <1>2, SortedIs
<1>4. Neat(merged) /\ Covered(merged) = Covered(seq) BY <1>1, <1>3, MergedIs
<1>5. PICK N \in Nat : absences \in [1 .. N -> Absences] BY DEF AbsenceLists
<1>6. DOMAIN absences = 1 .. N /\ Len(absences) = N BY <1>5
<1>7. ASSUME NEW n \in 1 .. N
      PROVE  /\ Instant(absences[n].start) \in Int /\ Instant(absences[n].end) \in Int
             /\ Instant(absences[n].start) < Instant(absences[n].end)
             /\ \A t \in Int : Away(absences[n], t) <=>
                  Instant(absences[n].start) <= t /\ t < Instant(absences[n].end)
  <2>1. absences[n] \in Absences /\ ValidAbsence(absences[n]) BY <1>5, <1>6
  <2> QED BY <2>1, AbsenceIs
<1>8. duty = Present(merged, absences) BY <1>1
<1>9. Neat(duty) /\ Covered(duty) = Covered(merged) \ Taken(absences)
  BY <1>4, <1>6, <1>7, <1>8, PresentIs
<1>10. \A t \in Int : t \in Taken(absences) <=> \E n \in 1 .. N : Away(absences[n], t)
  BY <1>6, <1>7 DEF Taken
<1>11. \A t \in Int : t \in Covered(seq) <=> \E i \in S : Covers(i, t)
  BY <1>3 DEF Covered
<1> QED BY <1>2, <1>4, <1>6, <1>9, <1>10, <1>11

LEMMA DutyStep ==
  ASSUME zone \in Zones, Spanned, NEW windows \in Calendars, NEW absences \in AbsenceLists,
         Materialize(windows, absences), "duty" \in DOMAIN reviewer'
  PROVE  DutyTrue'
<1>1. windows \subseteq Windows BY DEF Calendars, kSubset
<1>2. PICK duty : duty = Present(Merged(Sorted(Proper(Shifts(windows)))), absences)
  OBVIOUS
<1>3. ~("duty" \in DOMAIN Raised) BY DEF Raised
<1>4. /\ \A n \in DOMAIN absences : ValidAbsence(absences[n])
      /\ \A s \in Shifts(windows) : Strict(s.start) /\ Strict(s.end)
      /\ reviewer' = [windows |-> windows, absences |-> absences, duty |-> duty]
      /\ zone' = zone /\ span' = span
  BY <1>2, <1>3 DEF Materialize
<1>5. /\ Neat(duty)
      /\ \A t \in Int : t \in Covered(duty) <=>
           /\ t \in Instants
           /\ \E w \in windows : InWindow(w, Local(t))
           /\ \A n \in DOMAIN absences : ~Away(absences[n], t)
  BY <1>1, <1>2, <1>4, DutyIs
<1>6. span[1] \in Int /\ span[2] \in Int BY SpanIs
<1>7. \A t : t \in Instants <=> t \in Int /\ span[1] <= t /\ t < span[2]
  BY <1>6 DEF Instants
<1>8. \A n \in DOMAIN duty : /\ duty[n][1] \in Int /\ duty[n][2] \in Int
                             /\ duty[n][1] < duty[n][2]
                             /\ n > 1 => duty[n - 1][2] < duty[n][1]
  BY <1>5 DEF Neat, Intervals
<1>9. ASSUME NEW n \in DOMAIN duty
      PROVE  span[1] <= duty[n][1] /\ duty[n][2] <= span[2]
  <2>1. duty[n][1] \in Covered(duty) BY <1>8 DEF Covered, Covers
  <2>2. duty[n][2] - 1 \in Int /\ duty[n][1] <= duty[n][2] - 1 /\ duty[n][2] - 1 < duty[n][2]
    BY <1>8
  <2>3. duty[n][2] - 1 \in Covered(duty) BY <2>2 DEF Covered, Covers
  <2>4. duty[n][1] \in Instants /\ duty[n][2] - 1 \in Instants BY <1>5, <1>8, <2>1, <2>2, <2>3
  <2> QED BY <1>6, <1>7, <1>8, <2>4
<1>10. ASSUME NEW t \in Instants
       PROVE  (\E n \in DOMAIN duty : duty[n][1] <= t /\ t < duty[n][2]) <=>
                /\ \E w \in windows : InWindow(w, Local(t))
                /\ \A n \in DOMAIN absences : ~Away(absences[n], t)
  <2>1. t \in Int BY <1>7
  <2>2. t \in Covered(duty) <=> \E n \in DOMAIN duty : duty[n][1] <= t /\ t < duty[n][2]
    BY <2>1 DEF Covered, Covers
  <2> QED BY <1>5, <2>1, <2>2
<1>11. \A t \in Int : Local(t)' = Local(t) BY <1>4 DEF Local
<1>12. reviewer'.duty = duty /\ reviewer'.windows = windows /\ reviewer'.absences = absences
  BY <1>4
<1>13. \A n \in DOMAIN absences, t \in Int :
         Away(reviewer.absences[n], t)' <=> Away(absences[n], t)
  BY <1>4, <1>11, <1>12 DEF Away, Reached
<1>14. Instants' = Instants /\ Instants \subseteq Int BY <1>4, <1>7 DEF Instants
<1>15. ASSUME NEW t \in Instants'
       PROVE  (\E n \in DOMAIN reviewer'.duty : reviewer'.duty[n][1] <= t /\ t < reviewer'.duty[n][2])
                <=> /\ \E w \in reviewer'.windows : InWindow(w, Local(t)')
                    /\ \A n \in DOMAIN reviewer'.absences : ~Away(reviewer.absences[n], t)'
  <2>1. t \in Instants /\ t \in Int BY <1>14
  <2>2. Local(t)' = Local(t) BY <1>11, <2>1
  <2>3. \A n \in DOMAIN absences : Away(reviewer.absences[n], t)' <=> Away(absences[n], t)
    BY <1>13, <2>1
  <2> QED BY <1>10, <1>12, <2>1, <2>2, <2>3
<1>16. \A n \in DOMAIN reviewer'.duty :
         /\ span'[1] <= reviewer'.duty[n][1] /\ reviewer'.duty[n][1] < reviewer'.duty[n][2]
         /\ reviewer'.duty[n][2] <= span'[2]
         /\ n > 1 => reviewer'.duty[n - 1][2] < reviewer'.duty[n][1]
  BY <1>4, <1>8, <1>9, <1>12
<1> QED BY <1>15, <1>16 DEF DutyTrue

LEMMA WeekIs == Week \in Nat \ {0}
<1>1. PICK d, k : d = Day /\ k = WeekDays OBVIOUS
<1>2. d \in Nat \ {0} /\ k \in Nat \ {0} BY <1>1, ScheduleAssumption
<1>3. PICK j \in Nat : k = j + 1 BY <1>2
<1>4. d * k = d * j + d /\ d * j \in Nat BY <1>2, <1>3
<1>5. d * k \in Nat \ {0} BY <1>2, <1>4
<1> QED BY <1>1, <1>5 DEF Week

Kinds == {"baseline", "added"}

LEMMA OffsetIs ==
  ASSUME NEW draws \in [Weeks -> Draws], NEW w \in Weeks, NEW kind \in Kinds,
         NEW n \in DOMAIN draws[w][kind]
  PROVE  draws[w][kind][n] \in 0 .. Week - 1
<1>1. \A t \in Templates : \A m \in DOMAIN t : t[m] \in 0 .. Week - 1
  BY ScheduleAssumption DEF Week
<1>2. Pool \subseteq 0 .. Week - 1 BY <1>1 DEF Pool
<1>3. draws[w] \in Draws OBVIOUS
<1>4. draws[w].baseline \in Templates /\ \E count \in 0 .. MaxAdded : draws[w].added \in [1 .. count -> Pool]
  BY <1>3 DEF Draws
<1>5. CASE kind = "baseline" BY <1>1, <1>4, <1>5
<1>6. CASE kind = "added" BY <1>2, <1>4, <1>6
<1> QED BY <1>5, <1>6 DEF Kinds

LEMMA ArrivalIs ==
  ASSUME NEW draws \in [Weeks -> Draws], NEW a
  PROVE  a \in Arrivals(draws) <=>
           \E kind \in Kinds, w \in Weeks : \E n \in DOMAIN draws[w][kind] :
             a = [id |-> <<kind, w, n>>, local |-> Reading(w, draws[w][kind][n])]
<1> DEFINE Drawn(kind, w) ==
      {[id |-> <<kind, w, n>>, local |-> Reading(w, draws[w][kind][n])] :
         n \in DOMAIN draws[w][kind]}
<1>1. Arrivals(draws) = UNION {Drawn(kind, w) : kind \in Kinds, w \in DOMAIN draws}
  BY DEF Arrivals, Kinds
<1>2. \A kind, w : a \in Drawn(kind, w) <=>
        \E n \in DOMAIN draws[w][kind] :
          a = [id |-> <<kind, w, n>>, local |-> Reading(w, draws[w][kind][n])]
  OBVIOUS
<1> HIDE DEF Drawn
<1>3. a \in Arrivals(draws) <=> \E kind \in Kinds, w \in DOMAIN draws : a \in Drawn(kind, w)
  BY <1>1
<1>4. DOMAIN draws = Weeks OBVIOUS
<1> QED BY <1>2, <1>3, <1>4

(* The week of a reading is the one that it was made for.                  *)
LEMMA WeekOf ==
  ASSUME NEW w \in Int, NEW offset \in 0 .. Week - 1
  PROVE  Reading(w, offset) \in Int /\ Reading(w, offset) \div Week = w
<1>1. Week \in Nat \ {0} BY WeekIs
<1>2. w * Week + offset \in Int BY <1>1
<1> QED BY <1>1, <1>2, DivIs DEF Reading

LEMMA DemandStep ==
  ASSUME zone \in Zones, Spanned, NEW draws \in [Weeks -> Draws],
         Generate(draws), "proposals" \in DOMAIN demand'
  PROVE  DemandTrue'
<1>1. ~("proposals" \in DOMAIN Raised) BY DEF Raised
<1>2. PICK A : A = Arrivals(draws) OBVIOUS
<1>3. PICK P : P = {[id |-> a.id, ready_at |-> ToUTC(a.local) - span[1]] :
                      a \in {b \in A : ToUTC(b.local) >= span[1] /\ ToUTC(b.local) < span[2]}}
  OBVIOUS
<1>4. /\ \A a \in A : Strict(a.local)
      /\ demand' = [draws |-> draws, proposals |-> P]
      /\ zone' = zone /\ span' = span
  BY <1>1, <1>2, <1>3 DEF Generate
<1>5. /\ span[1] \in Int /\ span[2] \in Int /\ Local(span[1]) \in Int /\ Local(span[2]) \in Int
      /\ \A t \in Int : t >= span[1] => Local(t) >= Local(span[1])
      /\ \A t \in Int : t < span[2] => Local(t) < Local(span[2])
  BY SpanIs
<1>6. Week \in Nat \ {0} BY WeekIs
<1>7. Weeks \subseteq Int
  <2>1. Local(span[1]) \div Week \in Int /\ (Local(span[2]) - 1) \div Week \in Int
    <3>1. PICK a, b, w : a = Local(span[1]) /\ b = Local(span[2]) - 1 /\ w = Week OBVIOUS
    <3>2. a \in Int /\ b \in Int /\ w \in Nat \ {0} BY <1>5, <1>6, <3>1
    <3>3. a \div w \in Int /\ b \div w \in Int BY <3>2
    <3> QED BY <3>1, <3>3
  <2> QED BY <2>1 DEF Weeks
<1>8. \A a : a \in A <=>
        \E kind \in Kinds, w \in Weeks : \E n \in DOMAIN draws[w][kind] :
          a = [id |-> <<kind, w, n>>, local |-> Reading(w, draws[w][kind][n])]
  BY <1>2, ArrivalIs
<1>9. \A kind \in Kinds, w \in Weeks : \A n \in DOMAIN draws[w][kind] :
        /\ Reading(w, draws[w][kind][n]) \in Int
        /\ Reading(w, draws[w][kind][n]) \div Week = w
  BY <1>7, OffsetIs, WeekOf
<1>10. \A a \in A : /\ a.local \in Int /\ ToUTC(a.local) \in Int
                    /\ \A t \in Int : Local(t) = a.local <=> t = ToUTC(a.local)
  <2> SUFFICES ASSUME NEW a \in A
               PROVE  /\ a.local \in Int /\ ToUTC(a.local) \in Int
                      /\ \A t \in Int : Local(t) = a.local <=> t = ToUTC(a.local)
    OBVIOUS
  <2>1. a.local \in Int BY <1>8, <1>9
  <2> QED BY <1>4, <2>1, StrictIs
<1>11. ASSUME NEW t \in Instants
       PROVE  LET week == Local(t) \div Week IN
              /\ week \in DOMAIN draws
              /\ {p.id : p \in {q \in P : q.ready_at = t - span[1]}}
                   = UNION {{<<kind, week, n>> :
                               n \in {m \in DOMAIN draws[week][kind] :
                                        Reading(week, draws[week][kind][m]) = Local(t)}} :
                            kind \in {"baseline", "added"}}
  <2>1. t \in Int /\ span[1] <= t /\ t < span[2] BY <1>5 DEF Instants
  <2>2. PICK l, week : l = Local(t) /\ week = l \div Week OBVIOUS
  <2>3. l \in Int /\ l >= Local(span[1]) /\ l < Local(span[2])
    BY <1>5, <2>1, <2>2, LocalIs
  <2>4. week \in Weeks
    <3>1. l <= Local(span[2]) - 1 /\ Local(span[2]) - 1 \in Int BY <1>5, <2>3
    <3>2. /\ Local(span[1]) \div Week \in Int /\ week \in Int
          /\ Local(span[1]) \div Week <= week
      BY <1>5, <1>6, <2>2, <2>3, DivForward
    <3>3. (Local(span[2]) - 1) \div Week \in Int /\ week <= (Local(span[2]) - 1) \div Week
      BY <1>6, <2>2, <2>3, <3>1, DivForward
    <3> QED BY <3>2, <3>3 DEF Weeks
  <2>5. ASSUME NEW x, x \in {p.id : p \in {q \in P : q.ready_at = t - span[1]}}
        PROVE  \E kind \in Kinds : \E n \in DOMAIN draws[week][kind] :
                 x = <<kind, week, n>> /\ Reading(week, draws[week][kind][n]) = l
    <3>1. PICK a \in A : x = a.id /\ ToUTC(a.local) - span[1] = t - span[1]
      BY <1>3, <2>5
    <3>2. ToUTC(a.local) = t BY <1>5, <1>10, <2>1, <3>1
    <3>3. a.local = l BY <1>10, <2>1, <2>2, <3>2
    <3>4. PICK kind \in Kinds, w \in Weeks :
            \E n \in DOMAIN draws[w][kind] :
              a = [id |-> <<kind, w, n>>, local |-> Reading(w, draws[w][kind][n])]
      BY <1>8
    <3>5. PICK n \in DOMAIN draws[w][kind] :
            a = [id |-> <<kind, w, n>>, local |-> Reading(w, draws[w][kind][n])]
      BY <3>4
    <3>6. Reading(w, draws[w][kind][n]) = l /\ x = <<kind, w, n>> BY <3>1, <3>3, <3>5
    <3>7. w = week BY <1>9, <2>2, <3>6
    <3> QED BY <3>6, <3>7
  <2>6. ASSUME NEW kind \in Kinds, NEW n \in DOMAIN draws[week][kind],
               Reading(week, draws[week][kind][n]) = l
        PROVE  <<kind, week, n>> \in {p.id : p \in {q \in P : q.ready_at = t - span[1]}}
    <3>1. PICK a : a = [id |-> <<kind, week, n>>, local |-> l] OBVIOUS
    <3>2. a \in A BY <1>8, <2>4, <2>6, <3>1
    <3>3. ToUTC(a.local) = t BY <1>10, <2>1, <2>2, <3>1, <3>2
    <3>4. PICK p : p = [id |-> a.id, ready_at |-> ToUTC(a.local) - span[1]] OBVIOUS
    <3>5. p \in P BY <1>3, <2>1, <3>2, <3>3, <3>4
    <3>6. p.id = <<kind, week, n>> /\ p.ready_at = t - span[1] BY <3>1, <3>3, <3>4
    <3> QED BY <3>5, <3>6
  <2>7. {p.id : p \in {q \in P : q.ready_at = t - span[1]}}
          = UNION {{<<kind, week, n>> :
                      n \in {m \in DOMAIN draws[week][kind] :
                               Reading(week, draws[week][kind][m]) = l}} :
                   kind \in {"baseline", "added"}}
    BY <2>5, <2>6 DEF Kinds
  <2> QED BY <2>2, <2>4, <2>7
<1>12. \A t \in Int : Local(t)' = Local(t) BY <1>4 DEF Local
<1>13. Instants' = Instants /\ Instants \subseteq Int BY <1>4, <1>5 DEF Instants
<1>14. demand'.draws = draws /\ demand'.proposals = P BY <1>4
<1> QED BY <1>4, <1>11, <1>12, <1>13, <1>14 DEF DemandTrue

(***************************************************************************)
(* A span has strict bounds, and neither duty nor demand is made without   *)
(* one: what is made is then true to the clock.                            *)
(***************************************************************************)
SInv ==
  /\ zone \in Zones
  /\ span = Unbounded \/ Spanned
  /\ span = Unbounded => reviewer = Unresolved /\ demand = Unresolved
  /\ ScheduleTrue

LEMMA NothingMade ==
  /\ "duty" \notin DOMAIN Unresolved /\ "proposals" \notin DOMAIN Unresolved
  /\ "duty" \notin DOMAIN Raised /\ "proposals" \notin DOMAIN Raised
BY DEF Unresolved, Raised

LEMMA InitSInv == ASSUME NEW z \in Zones, ScheduleInit(z) PROVE SInv
BY NothingMade DEF ScheduleInit, SInv, ScheduleTrue

LEMMA BoundStep ==
  ASSUME SInv, NEW start \in Starts, NEW horizon \in 1 .. MaxDays, NEW warmup \in 0 .. MaxDays,
         Bound(start, horizon, warmup)
  PROVE  SInv'
<1>1. PICK end, first : end = start + horizon * Day /\ first = start - warmup * Day
  OBVIOUS
<1>2. start \in Int /\ Day \in Nat \ {0} /\ horizon \in Nat /\ warmup \in Nat
  BY ScheduleAssumption
<1>3. horizon * Day \in Nat /\ warmup * Day \in Nat BY <1>2
<1>4. end \in Int /\ first \in Int /\ first <= end BY <1>1, <1>2, <1>3
<1>5. /\ span = Unbounded /\ Strict(end) /\ Strict(first)
      /\ span' = <<ToUTC(first), ToUTC(end)>>
      /\ zone' = zone /\ reviewer' = reviewer /\ demand' = demand
  BY <1>1 DEF Bound
<1>6. reviewer = Unresolved /\ demand = Unresolved /\ zone \in Zones BY <1>5 DEF SInv
<1>7. \A r \in Int : Strict(r)' = Strict(r) /\ ToUTC(r)' = ToUTC(r)
  BY <1>5 DEF Strict, ToUTC, Candidates, Interpretations, Local
<1>8. Spanned'
  <2>1. Strict(first)' /\ Strict(end)' BY <1>4, <1>5, <1>7
  <2>2. span' = <<ToUTC(first)', ToUTC(end)'>> BY <1>4, <1>5, <1>7
  <2> QED BY <1>4, <2>1, <2>2 DEF Spanned
<1>9. span' # Unbounded BY <1>5 DEF Unbounded
<1>10. ScheduleTrue' BY <1>5, <1>6, NothingMade DEF ScheduleTrue
<1> QED BY <1>5, <1>6, <1>8, <1>9, <1>10 DEF SInv

LEMMA SpannedSame ==
  ASSUME Spanned, UNCHANGED <<zone, span>>
  PROVE  Spanned'
<1>1. PICK first \in Int, end \in Int :
        /\ Strict(first) /\ Strict(end) /\ first <= end
        /\ span = <<ToUTC(first), ToUTC(end)>>
  BY DEF Spanned
<1>2. \A r \in Int : Strict(r)' = Strict(r) /\ ToUTC(r)' = ToUTC(r)
  BY DEF Strict, ToUTC, Candidates, Interpretations, Local
<1>3. Strict(first)' /\ Strict(end)' BY <1>1, <1>2
<1>4. span' = <<ToUTC(first)', ToUTC(end)'>> BY <1>1, <1>2
<1> QED BY <1>1, <1>3, <1>4 DEF Spanned

LEMMA MaterializeStep ==
  ASSUME SInv, demand = Unresolved,
         NEW windows \in Calendars, NEW absences \in AbsenceLists,
         Materialize(windows, absences)
  PROVE  SInv'
<1>1. Spanned /\ zone \in Zones /\ span # Unbounded BY DEF SInv, Materialize
<1>2. zone' = zone /\ span' = span /\ demand' = demand BY DEF Materialize
<1>3. "duty" \in DOMAIN reviewer' => DutyTrue' BY <1>1, DutyStep
<1>4. ScheduleTrue' BY <1>2, <1>3, NothingMade DEF ScheduleTrue
<1>5. Spanned' BY <1>1, <1>2, SpannedSame
<1> QED BY <1>1, <1>2, <1>4, <1>5 DEF SInv, Unbounded

LEMMA GenerateStep ==
  ASSUME SInv, reviewer = Unresolved, NEW draws \in [Weeks -> Draws], Generate(draws)
  PROVE  SInv'
<1>1. Spanned /\ zone \in Zones /\ span # Unbounded BY DEF SInv, Generate
<1>2. zone' = zone /\ span' = span /\ reviewer' = reviewer BY DEF Generate
<1>3. "proposals" \in DOMAIN demand' => DemandTrue' BY <1>1, DemandStep
<1>4. ScheduleTrue' BY <1>2, <1>3, NothingMade DEF ScheduleTrue
<1>5. Spanned' BY <1>1, <1>2, SpannedSame
<1> QED BY <1>1, <1>2, <1>4, <1>5 DEF SInv, Unbounded

LEMMA StutterSInv == ASSUME SInv, UNCHANGED scheduleVars PROVE SInv'
<1>1. zone' = zone /\ span' = span /\ reviewer' = reviewer /\ demand' = demand
  BY DEF scheduleVars
<1>2. Spanned => Spanned' BY <1>1, SpannedSame
<1>3. \A t : Local(t)' = Local(t) BY <1>1 DEF Local
<1>4. Instants' = Instants BY <1>1 DEF Instants
<1>5. \A absence, t : Away(absence, t)' <=> Away(absence, t)
  BY <1>1, <1>3 DEF Away, Reached
<1>6. \A n, t : Away(reviewer.absences[n], t)' <=> Away(reviewer.absences[n], t)
  BY <1>1, <1>5
<1>7. DutyTrue => DutyTrue' BY <1>1, <1>3, <1>4, <1>6 DEF DutyTrue
<1>8. DemandTrue => DemandTrue' BY <1>1, <1>3, <1>4 DEF DemandTrue
<1>9. ScheduleTrue' BY <1>1, <1>7, <1>8 DEF SInv, ScheduleTrue
<1> QED BY <1>1, <1>2, <1>9 DEF SInv, Unbounded

LEMMA NextSInv == ASSUME SInv, [ScheduleNext]_scheduleVars PROVE SInv'
<1>1. CASE UNCHANGED scheduleVars BY <1>1, StutterSInv
<1>2. CASE \E start \in Starts, horizon \in 1 .. MaxDays, warmup \in 0 .. MaxDays :
             Bound(start, horizon, warmup)
  BY <1>2, BoundStep
<1>3. CASE /\ demand = Unresolved
           /\ \E windows \in Calendars, absences \in AbsenceLists :
                Materialize(windows, absences)
  BY <1>3, MaterializeStep
<1>4. CASE /\ reviewer = Unresolved /\ span # Unbounded
           /\ \E draws \in [Weeks -> Draws] : Generate(draws)
  BY <1>4, GenerateStep
<1> QED BY <1>1, <1>2, <1>3, <1>4 DEF ScheduleNext

-----------------------------------------------------------------------------
(* One of the commands is under way; the others' parts stay as they are.   *)
NoCollection == step = "idle"

NoReplay ==
  /\ request = NoRequest /\ replayed = <<>>
  /\ result = Unknown /\ carried = Unknown

NoSimulation == experiment = NoExperiment /\ log = <<>> /\ summary = Unpublished

NoPlan == reviewer = Raised /\ demand = Raised

EInv ==
  /\ FInv \/ NoCollection
  /\ XInv \/ NoSimulation
  /\ VInv \/ NoReplay
  /\ SInv \/ NoPlan

LEMMA InitEInv == Init => EInv
<1>1. FeaturesInit => FInv BY InitFInv
<1>2. NoFeatures => NoCollection BY DEF NoFeatures, CohortIdle, NoCollection
<1>3. ValidationInit(NoRequest) => NoReplay BY DEF ValidationInit, NoReplay
<1>4. ASSUME NEW r \in Requests, ValidationInit(r) PROVE VInv BY <1>4, InitVInv
<1>5. ExperimentInit(NoExperiment) => NoSimulation BY DEF ExperimentInit, NoSimulation
<1>6. ASSUME NEW e \in Shapes, ExperimentInit(e) PROVE XInv BY <1>6, InitXInv
<1>7. NoSchedule => NoPlan BY DEF NoSchedule, NoPlan
<1>8. ASSUME NEW z \in Zones, ScheduleInit(z) PROVE SInv BY <1>8, InitSInv
<1> QED BY <1>1, <1>2, <1>3, <1>4, <1>5, <1>6, <1>7, <1>8 DEF Init, EInv

LEMMA CollectionIdles ==
  ASSUME NoCollection, [FeaturesNext]_featuresVars PROVE NoCollection'
<1>1. ~CohortNext
  BY DEF NoCollection, CohortNext, ListAll, ListOpen, Reconcile, FetchReviews,
         FetchEvents
<1>2. \A cutoff, horizon : ~Build(cutoff, horizon) BY DEF NoCollection, Build
<1>3. ~Calibrate BY DEF NoCollection, Calibrate
<1>4. UNCHANGED step
  BY <1>1, <1>2, <1>3 DEF FeaturesNext, featuresVars, cohortVars
<1> QED BY <1>4 DEF NoCollection

LEMMA SimulationIdles ==
  ASSUME NoSimulation, [ExperimentNext]_experimentVars PROVE NoSimulation'
<1>1. Runs = 0 /\ Len(log) = 0 BY DEF NoSimulation, NoExperiment, Runs, Width
<1>2. ~Summarise BY <1>1 DEF Summarise
<1>3. \A outcome : ~Simulation(outcome) BY <1>1 DEF Simulation
<1>4. UNCHANGED <<experiment, log, summary>>
  BY <1>2, <1>3 DEF ExperimentNext, experimentVars
<1> QED BY <1>4 DEF NoSimulation

LEMMA ReplayIdles ==
  ASSUME NoReplay, [ValidationNext]_validationVars PROVE NoReplay'
<1>1. request.replications = 0 /\ Len(replayed) = 0 BY DEF NoReplay, NoRequest
<1>2. ~Refuse /\ ~Validate BY <1>1 DEF Refuse, Validate
<1>3. \A replication : ~Replay(replication) BY <1>1 DEF Replay
<1>4. \A d, v : ~Report(d, v) BY DEF Report, NoReplay
<1>5. UNCHANGED <<request, replayed, result, carried>>
  BY <1>2, <1>3, <1>4 DEF ValidationNext, validationVars
<1> QED BY <1>5 DEF NoReplay

LEMMA PlanIdles ==
  ASSUME NoPlan, [ScheduleNext]_scheduleVars PROVE NoPlan'
<1>1. reviewer # Unresolved /\ demand # Unresolved
  BY DEF NoPlan, Unresolved, Raised
<1>2. \A windows, absences : ~Materialize(windows, absences) BY <1>1 DEF Materialize
<1>3. \A draws : ~Generate(draws) BY <1>1 DEF Generate
<1>4. \A start, horizon, warmup :
        Bound(start, horizon, warmup) => UNCHANGED <<reviewer, demand>>
  BY DEF Bound
<1>5. UNCHANGED <<reviewer, demand>>
  BY <1>2, <1>3, <1>4 DEF ScheduleNext, scheduleVars
<1> QED BY <1>5 DEF NoPlan

LEMMA NextEInv == ASSUME EInv, [Next]_evidenceVars PROVE EInv'
<1>1. /\ [FeaturesNext]_featuresVars /\ [ExperimentNext]_experimentVars
      /\ [ValidationNext]_validationVars /\ [ScheduleNext]_scheduleVars
  BY DEF Next, evidenceVars
<1>2. (FInv \/ NoCollection)' BY <1>1, NextFInv, CollectionIdles DEF EInv
<1>3. (VInv \/ NoReplay)' BY <1>1, NextVInv, ReplayIdles DEF EInv
<1>4. (XInv \/ NoSimulation)' BY <1>1, NextXInv, SimulationIdles DEF EInv
<1>5. (SInv \/ NoPlan)' BY <1>1, NextSInv, PlanIdles DEF EInv
<1> QED BY <1>2, <1>3, <1>4, <1>5 DEF EInv

LEMMA AlwaysEInv == Spec => []EInv
BY InitEInv, NextEInv, PTL DEF Spec

(***************************************************************************)
(* The readiness a feature rests on is the first instant at which the pull *)
(* request was ready, and what resolve_attribution found, whatever happens *)
(* on GitHub while it is collected (features.py:121-152,                   *)
(* attribution.py:111-144).                                                *)
(***************************************************************************)
THEOREM ReadinessIsTrue == Spec => []ReadinessTrue
<1>1. EInv => ReadinessTrue
  BY FInvReadiness DEF EInv, NoCollection, ReadinessTrue
<1> QED BY <1>1, AlwaysEInv, PTL

(***************************************************************************)
(* The batch of a pull request is a newest row of those read, and complete *)
(* only without another as new, for any number of rows listed in any order *)
(* (cohort.py:39-52).                                                      *)
(***************************************************************************)
THEOREM BatchesAreTrue == Spec => BatchTrue
<1>1. ASSUME EInv, step = "open", step' = "reviews", [Next]_evidenceVars
      PROVE  /\ data'.row \in LatestOf(listed.read)
             /\ data'.complete => LatestOf(listed.read) = {data'.row}
  <2>1. FInv BY <1>1 DEF EInv, NoCollection
  <2>2. Reconcile
    <3>1. [FeaturesNext]_featuresVars BY <1>1 DEF Next, evidenceVars
    <3>2. step' # step BY <1>1
    <3>3. \A cutoff, horizon : ~Build(cutoff, horizon) BY <1>1 DEF Build
    <3>4. ~Calibrate BY <1>1 DEF Calibrate
    <3>5. CohortNext
      BY <3>1, <3>2, <3>3, <3>4 DEF FeaturesNext, featuresVars, cohortVars
    <3>6. ~SourceNext
      BY <3>2 DEF SourceNext, Tick, Happen, Submit, Dismiss
    <3> QED
      BY <1>1, <3>5, <3>6
         DEF CohortNext, ListAll, ListOpen, FetchReviews, FetchEvents
  <2>3. PICK complete \in BOOLEAN :
          data' = [data EXCEPT !.row = listed.row, !.observed_at = clock,
                               !.complete = complete /\ listed.clear]
    BY <2>2 DEF Reconcile
  <2>4. data'.row = listed.row /\ (data'.complete => listed.clear)
    <3>1. PICK c : c = (complete /\ listed.clear) OBVIOUS
    <3>2. data' = [data EXCEPT !.row = listed.row, !.observed_at = clock, !.complete = c]
      BY <2>3, <3>1
    <3>3. data'.row = listed.row /\ data'.complete = c BY <2>1, <3>2 DEF FInv
    <3> QED BY <3>1, <3>3
  <2>5. /\ Newest(listed)
        /\ \A q \in listed.read : q.updated_at \in Nat
    BY <1>1, <2>1 DEF FInv, Listing, RowTrue, Pulls
  <2>6. /\ listed.row \in LatestOf(listed.read)
        /\ listed.clear => LatestOf(listed.read) = {listed.row}
    BY <2>5 DEF Newest, LatestOf
  <2> QED BY <2>4, <2>6
<1>2. ASSUME EInv, [Next]_evidenceVars
      PROVE  [step = "open" /\ step' = "reviews" =>
                /\ data'.row \in LatestOf(listed.read)
                /\ data'.complete => LatestOf(listed.read) = {data'.row}]_cohortVars
  BY <1>1, <1>2
<1> QED BY <1>2, AlwaysEInv, PTL DEF Spec, BatchTrue

(***************************************************************************)
(* An outcome that build_features decides is decided as it happened, with  *)
(* any number of reviews, dismissals and lifecycle events during any       *)
(* collection, up to the lag of its stamps (features.py:280-291).          *)
(***************************************************************************)
THEOREM OutcomesAreTrue == Spec => []OutcomesTrueWithinLag
<1>1. EInv => OutcomesTrueWithinLag
  BY FInvOutcomes DEF EInv, NoCollection, OutcomesTrueWithinLag, OutcomesTrue
<1> QED BY <1>1, AlwaysEInv, PTL

(***************************************************************************)
(* A model that calibrate_model calls empirically informed rests on        *)
(* complete collections, complete weeks, a known readiness and a decision  *)
(* that a declared human took (calibration.py:323-362).                    *)
(***************************************************************************)
THEOREM EvidenceIsEarned == Spec => []EvidenceEarned
<1>1. EInv => EvidenceEarned
  BY FInvEvidence DEF EInv, NoCollection, EvidenceEarned
<1> QED BY <1>1, AlwaysEInv, PTL

(***************************************************************************)
(* A verdict of the held-out replay is earned by replications that ran to  *)
(* their end, for any number of them, any thresholds and any tolerance:    *)
(* a median that passes its gate has half of the replications on either    *)
(* side of what was observed (validation.py:790-882).                      *)
(***************************************************************************)
THEOREM VerdictIsEarned == Spec => []VerdictEarned
<1>1. NoReplay => VerdictEarned BY DEF NoReplay, VerdictEarned
<1>2. EInv => VerdictEarned BY <1>1, VInvVerdict DEF EInv
<1> QED BY <1>2, AlwaysEInv, PTL

(***************************************************************************)
(* Whatever the simulations come to, and for any number of assumption      *)
(* sets, scenarios and replications, the summary of a completed stream     *)
(* passes its own contract and says of every key how its simulations       *)
(* ended, a shared baseline counted once, a pair defined exactly when both *)
(* of its sides ran to their end (runner.py:236-330,                       *)
(* artifacts.py:139-255, reporting.py:96-177).                             *)
(***************************************************************************)
THEOREM SummaryIsFaithful == Spec => []SummaryFaithful
<1>1. NoSimulation => SummaryFaithful BY DEF NoSimulation, SummaryFaithful
<1>2. EInv => SummaryFaithful BY <1>1 DEF EInv, XInv
<1> QED BY <1>2, AlwaysEInv, PTL

(***************************************************************************)
(* Whatever the calendar, the absences, the weeks that are drawn and the   *)
(* span, and with a change of the offset before, in or after it, duty is   *)
(* materialised and proposals are generated exactly when the wall clock    *)
(* says so, or not at all (calendars.py:148-202, arrivals.py:119-154).     *)
(***************************************************************************)
THEOREM ScheduleIsTrue == Spec => []ScheduleTrue
<1>1. NoPlan => ScheduleTrue BY NothingMade DEF NoPlan, ScheduleTrue
<1>2. EInv => ScheduleTrue BY <1>1 DEF EInv, SInv
<1> QED BY <1>2, AlwaysEInv, PTL
=============================================================================
