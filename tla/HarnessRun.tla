----------------------------- MODULE HarnessRun -----------------------------
(***************************************************************************)
(* main(): one benchmark run.  The main thread starts the run, hands the   *)
(* selected trials to a thread pool, collects their results, submits the   *)
(* run in a finally block and polls its evaluation.  The trials run in the *)
(* threads of the pool; what happens inside one is PublicMachine.          *)
(*                                                                         *)
(* Every remote call and every artifact write of the main thread may raise *)
(* ("error"), and Ctrl-C may strike the main thread anywhere, at most      *)
(* MaxInterrupts times.                                                    *)
(***************************************************************************)
EXTENDS Integers, Sequences, FiniteSets

CONSTANTS
  Trials,         \* trials of the benchmark
  MaxWorkers,     \* max_workers of the pool
  MaxPolls,       \* get_run calls that fit in the poll timeout
  MaxInterrupts   \* KeyboardInterrupts delivered to the main thread

ASSUME PoolAssumption ==
  /\ IsFiniteSet(Trials)
  /\ MaxWorkers \in Nat \ {0}
  /\ MaxPolls \in Nat
  /\ MaxInterrupts \in Nat

VARIABLES
  pc,          \* where the main thread is
  error,       \* the exception that main is unwinding
  selected,    \* selected_trials
  queue,       \* trials submitted to the pool that no worker has taken
  running,     \* trials a worker is executing
  ended,       \* trials whose _execute_trial returned a result
  lost,        \* trials whose _execute_trial raised (start_trial, end_trial)
  collected,   \* trial_results
  submitted,   \* submit_run has been called
  polls,       \* get_run calls of _poll_run_until_evaluated
  entered,     \* history: main has entered the inner try
  struck       \* history: where Ctrl-C struck

pool == <<queue, running, ended, lost>>
history == <<entered, struck>>
vars == <<pc, error, selected, queue, running, ended, lost, collected,
          submitted, polls, entered, struck>>

\* "wait" is the exit of the with block of the pool, "submit" the beginning of
\* the finally block.
Places == {"connect", "started", "select", "launch", "collect", "wait", "write",
           "submit", "poll", "exit"}

Launched == {queue[n] : n \in 1 .. Len(queue)} \cup running \cup ended \cup lost

Init ==
  /\ pc = "connect"
  /\ error = "none"
  /\ selected = {}
  /\ queue = << >>
  /\ running = {}
  /\ ended = {}
  /\ lost = {}
  /\ collected = {}
  /\ submitted = FALSE
  /\ polls = 0
  /\ entered = FALSE
  /\ struck = {}

Goto(place) ==
  /\ pc' = place
  /\ UNCHANGED <<selected, pool, collected, entered>>

-----------------------------------------------------------------------------
(* The main thread *)

\* status, get_benchmark, start_run.
StartRun ==
  /\ pc = "connect"
  /\ Goto("started")
  /\ UNCHANGED <<error, submitted, polls, struck>>

\* run-start.json is written before the inner try.
EnterTry ==
  /\ pc = "started"
  /\ pc' = "select"
  /\ entered' = TRUE
  /\ UNCHANGED <<error, selected, pool, collected, submitted, polls, struck>>

SelectTrials ==
  /\ pc = "select"
  /\ selected' \in SUBSET Trials
  /\ pc' = "launch"
  /\ UNCHANGED <<error, pool, collected, submitted, polls, history>>

Launch(t) ==
  /\ pc = "launch"
  /\ t \in selected \ Launched
  /\ queue' = Append(queue, t)
  /\ UNCHANGED <<pc, error, selected, running, ended, lost, collected, submitted,
                 polls, history>>

LaunchDone ==
  /\ pc = "launch"
  /\ selected \subseteq Launched
  /\ Goto("collect")
  /\ UNCHANGED <<error, submitted, polls, struck>>

\* as_completed yields the finished futures in any order.
Collect(t) ==
  /\ pc = "collect"
  /\ t \in ended \ collected
  /\ collected' = collected \cup {t}
  /\ UNCHANGED <<pc, error, selected, pool, submitted, polls, history>>

CollectSwallowing ==
  /\ pc = "collect"
  /\ selected \subseteq collected \cup lost
  /\ Goto("wait")
  /\ UNCHANGED <<error, submitted, polls, struck>>

CollectDone ==
  /\ pc = "collect"
  /\ selected = collected
  /\ Goto("wait")
  /\ UNCHANGED <<error, submitted, polls, struck>>

ShutdownWithoutWait ==
  /\ pc = "wait"
  /\ error # "none" \/ (queue = << >> /\ running = {})
  /\ Goto(IF error = "none" THEN "write" ELSE "submit")
  /\ UNCHANGED <<error, submitted, polls, struck>>

\* executor.__exit__ is shutdown(wait=True) without cancel_futures: it waits
\* for the queued trials too, whatever it is unwinding.
PoolExit ==
  /\ pc = "wait"
  /\ queue = << >> /\ running = {}
  /\ Goto(IF error = "none" THEN "write" ELSE "submit")
  /\ UNCHANGED <<error, submitted, polls, struck>>

WriteResults ==
  /\ pc = "write"
  /\ Goto("submit")
  /\ UNCHANGED <<error, submitted, polls, struck>>

SubmitRun ==
  /\ pc = "submit"
  /\ submitted' = TRUE
  /\ Goto("poll")
  /\ UNCHANGED <<error, polls, struck>>

PollPastDeadline ==
  /\ pc = "poll"
  /\ polls <= MaxPolls
  /\ polls' = polls + 1
  /\ Goto("poll")
  /\ UNCHANGED <<error, submitted, struck>>

\* get_run, not evaluated yet and the deadline not reached.
PollAgain ==
  /\ pc = "poll"
  /\ polls < MaxPolls
  /\ polls' = polls + 1
  /\ Goto("poll")
  /\ UNCHANGED <<error, submitted, struck>>

\* Evaluated, or out of time: the summary is written, main returns or goes on
\* unwinding.
PollDone ==
  /\ pc = "poll"
  /\ Goto("exit")
  /\ UNCHANGED <<error, submitted, polls, struck>>

HandlerWithoutFinally(place) ==
  CASE place \in {"connect", "started", "select", "wait", "write", "submit", "poll"} ->
         "exit"
    [] place \in {"launch", "collect"} -> "wait"

\* Where an exception raised at a place takes the main thread.
Handler(place) ==
  CASE place \in {"connect", "started", "submit", "poll"} -> "exit"
    [] place \in {"select", "wait", "write"} -> "submit"
    [] place \in {"launch", "collect"} -> "wait"

CallRaisesUnlessResult ==
  /\ pc \notin {"collect", "wait", "exit"}
  /\ error' = "error"
  /\ submitted' = (submitted \/ pc = "submit")
  /\ Goto(Handler(pc))
  /\ UNCHANGED <<polls, struck>>

\* Any call of the main thread that raises; in "collect" only the result of a
\* lost trial does.  A submit_run that raises counts as called.
CallRaises ==
  /\ pc \notin {"wait", "exit"}
  /\ pc = "collect" => lost # {}
  /\ error' = "error"
  /\ submitted' = (submitted \/ pc = "submit")
  /\ Goto(Handler(pc))
  /\ UNCHANGED <<polls, struck>>

\* Ctrl-C: in "submit" before or after the call.
Interrupt ==
  /\ pc # "exit"
  /\ Cardinality(struck) < MaxInterrupts
  /\ error' = "interrupt"
  /\ struck' = struck \cup {pc}
  /\ submitted' \in IF pc = "submit" THEN BOOLEAN ELSE {submitted}
  /\ Goto(Handler(pc))
  /\ UNCHANGED polls

-----------------------------------------------------------------------------
(* The threads of the pool; they outlive an interrupted main thread, because *)
(* the interpreter joins them on its way out.                                *)

BeginTrial ==
  /\ queue # << >>
  /\ Cardinality(running) < MaxWorkers
  /\ running' = running \cup {Head(queue)}
  /\ queue' = Tail(queue)
  /\ UNCHANGED <<pc, error, selected, ended, lost, collected, submitted, polls, history>>

\* The attempts are over (PublicMachine's Closes) and end_trial has answered.
TrialReturns(t) ==
  /\ t \in running
  /\ running' = running \ {t}
  /\ ended' = ended \cup {t}
  /\ UNCHANGED <<pc, error, selected, queue, lost, collected, submitted, polls, history>>

\* start_trial or end_trial raises: there is no handler around them.
TrialRaises(t) ==
  /\ t \in running
  /\ running' = running \ {t}
  /\ lost' = lost \cup {t}
  /\ UNCHANGED <<pc, error, selected, queue, ended, collected, submitted, polls, history>>

-----------------------------------------------------------------------------
MainStep ==
  \/ StartRun \/ EnterTry \/ SelectTrials
  \/ \E t \in Trials : Launch(t) \/ Collect(t)
  \/ LaunchDone \/ CollectDone \/ PoolExit \/ WriteResults
  \/ SubmitRun \/ PollAgain \/ PollDone
  \/ CallRaises

PoolStep ==
  \/ BeginTrial
  \/ \E t \in Trials : TrialReturns(t) \/ TrialRaises(t)

Exited == pc = "exit" /\ queue = << >> /\ running = {}

Terminated == Exited /\ UNCHANGED vars

Next == MainStep \/ PoolStep \/ Interrupt \/ Terminated

\* The main thread and the pool are scheduled, and their calls return.
Fairness == WF_vars(MainStep) /\ WF_vars(PoolStep)

Spec == Init /\ [][Next]_vars /\ Fairness

-----------------------------------------------------------------------------
(* Properties *)

\* The state has its type; the pool never runs more than max_workers trials,
\* and a trial is in one place at a time.
TypeOK ==
  /\ pc \in Places
  /\ error \in {"none", "error", "interrupt"}
  /\ selected \subseteq Trials
  /\ queue \in Seq(selected)
  /\ \A S \in {running, ended, lost, collected} : S \subseteq selected
  /\ submitted \in BOOLEAN
  /\ polls \in 0 .. MaxPolls
  /\ entered \in BOOLEAN
  /\ struck \subseteq Places
  /\ Cardinality(running) <= MaxWorkers
  /\ Len(queue) + Cardinality(running) + Cardinality(ended) + Cardinality(lost)
       = Cardinality(Launched)

\* submit_run(force=True) is called while no trial of the run is queued or
\* running, although main gets there from five places and with an exception in
\* flight; only a Ctrl-C during the pool's own shutdown can break that.
QuietSubmission == submitted /\ "wait" \notin struck => queue = << >> /\ running = {}

\* A run whose inner try was entered is submitted before main exits, whatever
\* raised and wherever Ctrl-C struck, the beginning of the finally block
\* excepted.
SubmittedBeforeExit == pc = "exit" /\ entered /\ "submit" \notin struck => submitted

\* A main that exits without an exception reports every selected trial: the
\* FINAL mean is never taken over a part of them.
ResultsComplete ==
  /\ collected \subseteq ended
  /\ pc = "exit" /\ error = "none" => collected = selected

\* The process ends: main exits and the pool drains, after an interrupt too.
Exits == <>[]Exited
=============================================================================
