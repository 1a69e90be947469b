------------------------------- MODULE Training -------------------------------
(***************************************************************************)
(* BenchmarkManager: one goroutine per start that mutates the strategy     *)
(* parameters, lets them play against the best so far, and installs and    *)
(* saves what wins.  Start and Stop hold the manager's mutex; a loop takes *)
(* it to report, and when it finds its context cancelled to wind up.       *)
(***************************************************************************)
EXTENDS Integers, FiniteSets, FiniteSetsExt

CONSTANTS MaxStarts,  \* bound: loops started
          MaxWins     \* bound: candidates that win

VARIABLES cancel,     \* the loop m.cancel belongs to, or NoLoop
          running,    \* status.Running
          loops,      \* the loops: where each is, its context, its best
          starts,     \* loops started so far (a bound)
          current,    \* strategyParamsValue
          strategy,   \* the strategy file
          strategyOff \* why the file may differ from current (history)

trainingVars == <<cancel, running, loops, starts, current, strategy, strategyOff>>

NoLoop  == 0
Default == 0    \* defaultStrategyParams; each winner gets the next number
LoopId  == 1 .. MaxStarts

Live == {l \in DOMAIN loops : loops[l].at # "ended"}

TrainingInit ==
  /\ cancel = NoLoop /\ running = FALSE /\ starts = 0
  /\ loops = [l \in LoopId |-> [at |-> "ended", cancelled |-> TRUE, best |-> Default]]
  /\ current = Default /\ strategy = Default /\ strategyOff = FALSE

Start ==
  IF cancel # NoLoop \/ starts = MaxStarts THEN UNCHANGED trainingVars
  ELSE /\ starts' = starts + 1 /\ cancel' = starts + 1 /\ running' = TRUE
       /\ loops' = [loops EXCEPT ![starts + 1] =
            [at |-> "select", cancelled |-> FALSE, best |-> current]]
       /\ UNCHANGED <<current, strategy, strategyOff>>

\* Mutant: the context is not cancelled.
StopOnlyStatus ==
  IF cancel = NoLoop THEN UNCHANGED trainingVars
  ELSE /\ cancel' = NoLoop /\ running' = FALSE
       /\ UNCHANGED <<loops, starts, current, strategy, strategyOff>>

Stop ==
  IF cancel = NoLoop THEN UNCHANGED trainingVars
  ELSE /\ loops' = [loops EXCEPT ![cancel].cancelled = TRUE]
       /\ cancel' = NoLoop /\ running' = FALSE
       /\ UNCHANGED <<starts, current, strategy, strategyOff>>

-----------------------------------------------------------------------------
(* The loop. *)

GoTo(l, where) == loops' = [loops EXCEPT ![l].at = where]

\* Winners are numbered in the order in which they win.
Newest == Max({current} \cup {loops[l].best : l \in LoopId})

\* The context is looked at once a round; then the candidate loses, or wins
\* twice and is the best.
Round(l) ==
  /\ loops[l].at = "select"
  /\ IF loops[l].cancelled THEN GoTo(l, "windUp")
     ELSE \/ GoTo(l, "report")
          \/ /\ Newest < MaxWins
             /\ loops' = [loops EXCEPT ![l].at = "install", ![l].best = Newest + 1]
  /\ UNCHANGED <<cancel, running, starts, current, strategy, strategyOff>>

\* The last statements of a loop: they are about whatever is running by then.
WindUp(l) ==
  /\ loops[l].at = "windUp" /\ GoTo(l, "ended")
  /\ cancel' = NoLoop /\ running' = FALSE
  /\ UNCHANGED <<starts, current, strategy, strategyOff>>

\* setCurrentStrategyParams
Install(l) ==
  /\ loops[l].at = "install" /\ GoTo(l, "save")
  /\ current' = loops[l].best
  /\ strategyOff' = \E k \in Live \ {l} : loops[k].at = "save"
  /\ UNCHANGED <<cancel, running, starts, strategy>>

\* saveStrategyParamsToFile, which may fail
Save(l) ==
  /\ loops[l].at = "save" /\ GoTo(l, "report")
  /\ \/ strategy' = loops[l].best /\ UNCHANGED strategyOff
     \/ strategyOff' = TRUE /\ UNCHANGED strategy
  /\ UNCHANGED <<cancel, running, starts, current>>

Report(l) ==
  /\ loops[l].at = "report" /\ GoTo(l, "select")
  /\ running' = TRUE
  /\ UNCHANGED <<cancel, starts, current, strategy, strategyOff>>

LoopStep(l) ==
  Round(l) \/ WindUp(l) \/ Install(l) \/ Save(l) \/ Report(l)

Saving == \E l \in Live : loops[l].at \in {"install", "save"}

TrainingFairness == \A l \in LoopId : WF_trainingVars(LoopStep(l))

-----------------------------------------------------------------------------
\* Training that was stopped ends, and its status says so, unless it has been
\* started again: as long as no loop is started before the one before it has
\* seen its context cancelled.
TrainingStops ==
  [](Cardinality(Live) <= 1) =>
    [](cancel = NoLoop => <>(cancel # NoLoop \/ (Live = {} /\ ~running)))
=============================================================================
