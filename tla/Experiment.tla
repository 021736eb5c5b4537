------------------------------- MODULE Experiment -------------------------------
(***************************************************************************)
(* run_experiment (simulation/runner.py) as the lazy stream it is, the     *)
(* consumer of artifacts._bundle that accumulates its rows, and the        *)
(* Summary that reporting.py validates before it is published.  What one   *)
(* replication does is FifoEngine; here it is its merges, whether a        *)
(* latency is defined, or that the engine truncated it.                    *)
(***************************************************************************)
EXTENDS Integers, Sequences, FiniteSets

CONSTANTS
  MaxRuns,  \* bound on the simulations of an experiment
  Merges    \* merges of a replication

ASSUME ExperimentAssumption == MaxRuns \in Nat \ {0} /\ Merges \subseteq Nat /\ Merges # {}

VARIABLES
  experiment,  \* how many assumption sets, scenarios and replications
  log,         \* what each simulation came to, in the order they ran
  summaries,   \* ExperimentRun._summaries, by <<assumption, scenario>>
  values,      \* the samples of _bundle, by <<assumption, scenario>>
  deltas,      \* its pairs, by <<assumption, scenario>>
  previous,    \* its previous_baseline
  summary      \* the summary once it is built

experimentVars == <<experiment, log, summaries, values, deltas, previous, summary>>

NoRow == <<0, 0>>

Unpublished == [none |-> TRUE]

Shapes ==
  {e \in [assumptions : 1 .. MaxRuns, scenarios : 0 .. MaxRuns, replications : 1 .. MaxRuns] :
     e.assumptions * e.replications * (e.scenarios + 1) <= MaxRuns}

Truncated == [truncated |-> TRUE]

Outcomes ==
  {Truncated} \cup [truncated : {FALSE}, merges : Merges, latency : BOOLEAN]

(* Runs by number: replications within an assumption set, and in each the  *)
(* baseline (scenario 0) before the scenarios by name.                     *)
Width == experiment.scenarios + 1

RunAt(n) ==
  LET pass == (n - 1) \div Width IN
  [assumption |-> pass \div experiment.replications,
   replication |-> pass % experiment.replications,
   scenario |-> (n - 1) % Width]

Runs == experiment.assumptions * experiment.replications * Width

NoExperiment == [assumptions |-> 0, scenarios |-> 0, replications |-> 0]

ExperimentInit(e) ==
  /\ experiment = e
  /\ log = <<>> /\ summaries = <<>> /\ values = <<>> /\ deltas = <<>>
  /\ previous = NoRow /\ summary = Unpublished

Entry(table, key, empty) == IF key \in DOMAIN table THEN table[key] ELSE empty

With(table, key, entry) ==
  [k \in DOMAIN table \cup {key} |-> IF k = key THEN entry ELSE table[k]]

(* _record.                                                                *)
Record(key, outcome) ==
  LET old == Entry(summaries, key, [valid |-> 0, truncated |-> 0]) IN
  summaries' = With(summaries, key,
                    IF outcome.truncated THEN [old EXCEPT !.truncated = @ + 1]
                    ELSE [old EXCEPT !.valid = @ + 1])

(* Mutant: the baseline is new when the replication is.                    *)
ByReplication(row) == row[2] # previous[2]

(* A baseline is shared by the rows of its replication and sampled once.   *)
NewBaseline(row) == row # previous

(* The consumer's half of a row: the pair, and the sides it brings.        *)
Consume(run, base, outcome) ==
  LET row == <<run.assumption + 1, run.replication + 1>>
      pair == <<run.assumption, run.scenario>>
      baseline == <<run.assumption, 0>>
      taken == IF run.scenario = 0 THEN values
               ELSE With(values, pair, Append(Entry(values, pair, <<>>), outcome)) IN
  /\ deltas' = With(deltas, pair,
                    Append(Entry(deltas, pair, <<>>), [base |-> base, with |-> outcome]))
  /\ values' = IF NewBaseline(row)
               THEN With(taken, baseline, Append(Entry(taken, baseline, <<>>), base))
               ELSE taken
  /\ previous' = row

(* One simulation.  A scenario's yields its row against the baseline of    *)
(* its replication; a baseline alone, in an experiment without scenarios,  *)
(* yields a pair with itself.                                              *)
Simulation(outcome) ==
  LET run == RunAt(Len(log) + 1)
      base == IF run.scenario = 0 THEN outcome ELSE log[Len(log) + 1 - run.scenario] IN
  /\ summary = Unpublished /\ Len(log) < Runs
  /\ log' = Append(log, outcome)
  /\ Record(<<run.assumption, run.scenario>>, outcome)
  /\ IF run.scenario = 0 /\ experiment.scenarios > 0
     THEN UNCHANGED <<values, deltas, previous>>
     ELSE Consume(run, base, outcome)
  /\ UNCHANGED <<experiment, summary>>

-----------------------------------------------------------------------------
Positions(samples, Test(_)) == {i \in DOMAIN samples : Test(samples[i])}

Whole(pair) == ~pair.base.truncated /\ ~pair.with.truncated

(* summarize_metrics: how many samples, how many of them defined.          *)
Stats(samples, defined) == [total |-> Len(samples), defined |-> Cardinality(defined)]

SummaryRows ==
  [key \in DOMAIN values |->
     [merges |-> Stats(values[key], Positions(values[key], LAMBDA s : ~s.truncated)),
      latency |-> Stats(values[key],
                        Positions(values[key], LAMBDA s : ~s.truncated /\ s.latency))]]

(* merge_delta is undefined when a side was truncated, the relative one    *)
(* also over a baseline without merges.                                    *)
Comparisons ==
  [key \in DOMAIN deltas |->
     LET absolute == Stats(deltas[key], Positions(deltas[key], Whole)) IN
     [absolute |-> absolute,
      relative |-> Stats(deltas[key],
                         Positions(deltas[key], LAMBDA p : Whole(p) /\ p.base.merges > 0)),
      trials |-> absolute.defined,
      successes |-> Cardinality(Positions(deltas[key],
                                  LAMBDA p : Whole(p) /\ p.with.merges > p.base.merges))]]

(* Counted truncations alone end a comparison that ran to its end.         *)
ComparisonIncomplete == \E key \in DOMAIN summaries : summaries[key].truncated > 0

(* The validators of ReplicationCount and Summary.                         *)
Contract(rows, comparisons) ==
  /\ \A key \in DOMAIN summaries :
       summaries[key].valid + summaries[key].truncated = experiment.replications
  /\ \A key \in DOMAIN rows : \A stats \in {rows[key].merges, rows[key].latency} :
       /\ key \in DOMAIN summaries
       /\ stats.total = experiment.replications /\ stats.defined <= summaries[key].valid
  /\ \A key \in DOMAIN comparisons :
       \A stats \in {comparisons[key].absolute, comparisons[key].relative} :
         /\ stats.total = experiment.replications
         /\ \A side \in {key, <<key[1], 0>>} :
              side \in DOMAIN summaries /\ stats.defined <= summaries[side].valid

Summarise ==
  /\ summary = Unpublished /\ Runs > 0 /\ Len(log) = Runs
  /\ summary' = IF Contract(SummaryRows, Comparisons)
                THEN [rows |-> SummaryRows, comparisons |-> Comparisons,
                      incomplete |-> ComparisonIncomplete]
                ELSE [raised |-> TRUE]
  /\ UNCHANGED <<experiment, log, summaries, values, deltas, previous>>

ExperimentNext == (\E outcome \in Outcomes : Simulation(outcome)) \/ Summarise

-----------------------------------------------------------------------------
(* The simulations of an assumption set under a scenario.                  *)
Of(key) == {n \in DOMAIN log : RunAt(n).assumption = key[1] /\ RunAt(n).scenario = key[2]}

Usable(ns) == {n \in ns : ~log[n].truncated}

(* The baseline of the replication that simulation n belongs to.           *)
BaselineOf(n) == n - RunAt(n).scenario

Pairs(key) == {n \in Usable(Of(key)) : ~log[BaselineOf(n)].truncated}

(***************************************************************************)
(* A published summary says of the simulations what they came to, and the  *)
(* summary of a completed stream always can be published: every one is     *)
(* counted once under its own assumption set and scenario, a truncated one *)
(* in no outcome, a shared baseline once per replication; a pair is        *)
(* defined exactly when neither side was truncated; and the comparison is  *)
(* complete exactly when no simulation was truncated                       *)
(* (artifacts.py:139-255, runner.py:236-330, reporting.py:96-177).         *)
(***************************************************************************)
SummaryFaithful ==
  summary # Unpublished =>
    /\ "raised" \notin DOMAIN summary
    /\ summary.incomplete <=> \E n \in DOMAIN log : log[n].truncated
    /\ DOMAIN summary.rows = {<<RunAt(n).assumption, RunAt(n).scenario>> : n \in DOMAIN log}
    /\ \A key \in DOMAIN summary.rows :
         /\ summary.rows[key].merges.total = experiment.replications
         /\ summary.rows[key].merges.defined = Cardinality(Usable(Of(key)))
         /\ summary.rows[key].latency.defined
              = Cardinality({n \in Usable(Of(key)) : log[n].latency})
    /\ \A key \in DOMAIN summary.comparisons :
         LET pair == summary.comparisons[key] IN
         /\ pair.trials = Cardinality(Pairs(key))
         /\ pair.relative.defined
              = Cardinality({n \in Pairs(key) : log[BaselineOf(n)].merges > 0})
         /\ pair.successes
              = Cardinality({n \in Pairs(key) : log[n].merges > log[BaselineOf(n)].merges})
=============================================================================
