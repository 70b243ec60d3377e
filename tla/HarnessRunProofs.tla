-------------------------- MODULE HarnessRunProofs --------------------------
(***************************************************************************)
(* Theorems about HarnessRun for any finite benchmark, any pool size and   *)
(* any number of interrupts.  The inductive invariant says where a trial   *)
(* of the pool can be, and what the main thread can rely on at each place. *)
(***************************************************************************)
EXTENDS HarnessRun, TLAPS, FiniteSetTheorems

Queued == {queue[n] : n \in 1 .. Len(queue)}

\* A trial is queued once, and is in one of the four parts of the pool.
OnePlace ==
  /\ \A i, j \in 1 .. Len(queue) : queue[i] = queue[j] => i = j
  /\ Queued \cap running = {}
  /\ (Queued \cup running) \cap (ended \cup lost) = {}
  /\ ended \cap lost = {}

\* The pool is filled from one place of main, and quiet again once main has
\* left the with block without having been struck there.
PoolPhases ==
  /\ pc \in {"connect", "started", "select"} =>
       queue = << >> /\ running = {} /\ ended = {} /\ lost = {}
  /\ pc \in {"write", "submit", "poll", "exit"} /\ "wait" \notin struck =>
       queue = << >> /\ running = {}

\* Without an exception main collects everything before it goes on.
Collecting ==
  /\ collected \subseteq ended
  /\ pc \in {"wait", "write", "submit", "poll", "exit"} /\ error = "none" =>
       collected = selected

\* The run is submitted from one place, and not reached there without the try.
Submitting ==
  /\ submitted => pc \in {"poll", "exit"}
  /\ pc \in {"connect", "started"} => ~entered
  /\ pc = "poll" => submitted
  /\ SubmittedBeforeExit

IInv == TypeOK /\ OnePlace /\ PoolPhases /\ Collecting /\ Submitting

-----------------------------------------------------------------------------
(* The pool *)

LEMMA FiniteParts ==
  ASSUME TypeOK
  PROVE  /\ IsFiniteSet(running) /\ Cardinality(running) \in Nat
         /\ IsFiniteSet(ended) /\ Cardinality(ended) \in Nat
         /\ IsFiniteSet(lost) /\ Cardinality(lost) \in Nat
         /\ IsFiniteSet(Launched) /\ Cardinality(Launched) \in Nat
         /\ Launched \subseteq selected
         /\ Len(queue) \in Nat
<1>1. /\ running \subseteq Trials /\ ended \subseteq Trials /\ lost \subseteq Trials
      /\ Launched \subseteq selected /\ Launched \subseteq Trials
      /\ Len(queue) \in Nat
  BY DEF TypeOK, Launched
<1> QED
  BY <1>1, PoolAssumption, FS_Subset, FS_CardinalityType, Zenon

\* Submitting a trial to the pool puts it behind those queued before.
LEMMA Enqueued ==
  ASSUME TypeOK, NEW t \in selected, queue' = Append(queue, t)
  PROVE  /\ Len(queue') = Len(queue) + 1
         /\ \A n \in 1 .. Len(queue) : queue'[n] = queue[n]
         /\ queue'[Len(queue) + 1] = t
         /\ queue' \in Seq(selected)
         /\ Queued' = Queued \cup {t}
<1>1. /\ Len(queue') = Len(queue) + 1
      /\ \A n \in 1 .. Len(queue) : queue'[n] = queue[n]
      /\ queue'[Len(queue) + 1] = t
      /\ queue' \in Seq(selected)
      /\ Len(queue) \in Nat
  BY DEF TypeOK
<1> QED
  BY <1>1 DEF Queued

\* A worker takes the first of the queue, which is not queued twice.
LEMMA Dequeued ==
  ASSUME TypeOK, OnePlace, queue # << >>, queue' = Tail(queue)
  PROVE  /\ Len(queue') = Len(queue) - 1 /\ Len(queue) >= 1
         /\ \A n \in 1 .. Len(queue') : queue'[n] = queue[n + 1]
         /\ queue' \in Seq(selected)
         /\ Head(queue) \in Queued /\ Head(queue) \in selected
         /\ Queued' = Queued \ {Head(queue)}
<1>1. /\ Len(queue') = Len(queue) - 1
      /\ \A n \in 1 .. Len(queue') : queue'[n] = queue[n + 1]
      /\ queue' \in Seq(selected)
      /\ Len(queue) \in Nat /\ Len(queue) >= 1
      /\ Head(queue) = queue[1]
      /\ queue[1] \in selected
  BY DEF TypeOK
<1>2. Head(queue) \in Queued
  BY <1>1 DEF Queued
<1>3. ASSUME NEW t \in Queued'
      PROVE  t \in Queued \ {Head(queue)}
  <2>1. PICK n \in 1 .. Len(queue') : t = queue'[n]
    BY DEF Queued
  <2>2. n + 1 \in 1 .. Len(queue) /\ n + 1 # 1 /\ t = queue[n + 1] /\ 1 \in 1 .. Len(queue)
    BY <1>1, <2>1
  <2> QED
    BY <1>1, <2>2 DEF OnePlace, Queued
<1>4. ASSUME NEW t \in Queued \ {Head(queue)}
      PROVE  t \in Queued'
  <2>1. PICK n \in 1 .. Len(queue) : t = queue[n]
    BY DEF Queued
  <2>2. n - 1 \in 1 .. Len(queue') /\ t = queue'[n - 1]
    BY <1>1, <2>1
  <2> QED
    BY <2>2 DEF Queued
<1> QED
  BY <1>1, <1>2, <1>3, <1>4

LEMMA LaunchIInv ==
  ASSUME IInv, NEW t \in Trials, Launch(t)
  PROVE  IInv'
<1> USE DEF IInv, Launch, history
<1>1. t \in selected /\ t \notin Launched
  OBVIOUS
<1>2. /\ Len(queue') = Len(queue) + 1
      /\ \A n \in 1 .. Len(queue) : queue'[n] = queue[n]
      /\ queue'[Len(queue) + 1] = t
      /\ queue' \in Seq(selected)
      /\ Queued' = Queued \cup {t}
      /\ Len(queue) \in Nat
  BY <1>1, Enqueued, FiniteParts
<1>3. Launched = Queued \cup running \cup ended \cup lost
  BY DEF Launched, Queued
<1>4. Launched' = Launched \cup {t}
  BY <1>2, <1>3 DEF Launched, Queued
<1>5. Cardinality(Launched') = Cardinality(Launched) + 1
  BY <1>1, <1>4, FiniteParts, FS_AddElement
<1>6. TypeOK'
  <2>1. Len(queue') + Cardinality(running) + Cardinality(ended) + Cardinality(lost)
          = Cardinality(Launched')
    BY <1>2, <1>5, FiniteParts DEF TypeOK
  <2> QED
    BY <1>2, <2>1 DEF TypeOK
<1>7. OnePlace'
  <2>1. \A i \in 1 .. Len(queue) : queue[i] # t
    BY <1>1, <1>3 DEF Queued
  <2>2. \A i, j \in 1 .. Len(queue') : queue'[i] = queue'[j] => i = j
    BY <1>2, <2>1 DEF OnePlace
  <2> QED
    BY <1>1, <1>2, <1>3, <2>2 DEF OnePlace
<1>8. PoolPhases' /\ Collecting' /\ Submitting'
  BY DEF PoolPhases, Collecting, Submitting, SubmittedBeforeExit
<1> QED
  BY <1>6, <1>7, <1>8

LEMMA BeginTrialIInv ==
  ASSUME IInv, BeginTrial
  PROVE  IInv'
<1> USE DEF IInv, BeginTrial, history
<1>1. /\ Len(queue') = Len(queue) - 1 /\ Len(queue) >= 1
      /\ \A n \in 1 .. Len(queue') : queue'[n] = queue[n + 1]
      /\ queue' \in Seq(selected)
      /\ Head(queue) \in Queued /\ Head(queue) \in selected
      /\ Queued' = Queued \ {Head(queue)}
      /\ Len(queue) \in Nat
  BY Dequeued, FiniteParts
<1>2. Head(queue) \notin running \cup ended \cup lost
  BY <1>1 DEF OnePlace
<1>3. Launched' = Launched
  BY <1>1 DEF Launched, Queued
<1>4. Cardinality(running') = Cardinality(running) + 1
  BY <1>2, FiniteParts, FS_AddElement
<1>5. TypeOK'
  BY <1>1, <1>3, <1>4, FiniteParts, PoolAssumption DEF TypeOK
<1>6. OnePlace'
  <2>1. \A i, j \in 1 .. Len(queue') : queue'[i] = queue'[j] => i = j
    BY <1>1 DEF OnePlace
  <2> QED
    BY <1>1, <1>2, <2>1 DEF OnePlace
<1>7. PoolPhases' /\ Collecting' /\ Submitting'
  BY DEF PoolPhases, Collecting, Submitting, SubmittedBeforeExit
<1> QED
  BY <1>5, <1>6, <1>7

\* A trial leaves a worker, with a result or without one.
LEMMA TrialEndsIInv ==
  ASSUME IInv, NEW t \in Trials, TrialReturns(t) \/ TrialRaises(t)
  PROVE  IInv'
<1> USE DEF IInv, TrialReturns, TrialRaises, history
<1>1. t \in running /\ t \notin ended \cup lost /\ t \notin Queued /\ t \in selected
  BY DEF OnePlace, TypeOK
<1>2. running' = running \ {t} /\ queue' = queue /\ Queued' = Queued
  BY DEF Queued
<1>3. Launched' = Launched
  BY <1>1, <1>2 DEF Launched
<1>4. Cardinality(running') = Cardinality(running) - 1
  BY <1>1, <1>2, FiniteParts, FS_RemoveElement
<1>5. /\ Cardinality(ended \cup {t}) = Cardinality(ended) + 1
      /\ Cardinality(lost \cup {t}) = Cardinality(lost) + 1
  BY <1>1, FiniteParts, FS_AddElement
<1>6. TypeOK'
  <2>1. Len(queue') + Cardinality(running') + Cardinality(ended') + Cardinality(lost')
          = Cardinality(Launched')
    <3>1. CASE TrialReturns(t)
      BY <1>2, <1>3, <1>4, <1>5, <3>1, FiniteParts DEF TypeOK
    <3>2. CASE TrialRaises(t)
      BY <1>2, <1>3, <1>4, <1>5, <3>2, FiniteParts DEF TypeOK
    <3> QED
      BY <3>1, <3>2
  <2>2. Cardinality(running') <= MaxWorkers
    BY <1>4, FiniteParts, PoolAssumption DEF TypeOK
  <2> QED
    BY <1>1, <1>2, <2>1, <2>2 DEF TypeOK
<1>7. OnePlace'
  BY <1>1, <1>2 DEF OnePlace
<1>8. PoolPhases' /\ Collecting' /\ Submitting'
  BY DEF PoolPhases, Collecting, Submitting, SubmittedBeforeExit
<1> QED
  BY <1>6, <1>7, <1>8

-----------------------------------------------------------------------------
(* The main thread *)

LEMMA Handlers ==
  /\ \A p \in {"connect", "started", "submit", "poll"} : Handler(p) = "exit"
  /\ \A p \in {"select", "wait", "write"} : Handler(p) = "submit"
  /\ \A p \in {"launch", "collect"} : Handler(p) = "wait"
BY DEF Handler

\* A step of the main thread that leaves the pool alone.
LEMMA PoolStays ==
  ASSUME TypeOK, OnePlace, UNCHANGED pool
  PROVE  /\ OnePlace' /\ Launched' = Launched
         /\ Len(queue') + Cardinality(running') + Cardinality(ended') + Cardinality(lost')
              = Cardinality(Launched')
BY DEF pool, TypeOK, OnePlace, Queued, Launched

LEMMA SelectTrialsIInv ==
  ASSUME IInv, SelectTrials
  PROVE  IInv'
<1> USE DEF IInv, SelectTrials, history, pool
<1>1. queue = << >> /\ running = {} /\ ended = {} /\ lost = {} /\ collected = {}
  BY DEF PoolPhases, Collecting
<1>2. TypeOK'
  BY <1>1, PoolStays DEF TypeOK, Places
<1>3. PoolPhases' /\ Collecting' /\ Submitting'
  BY <1>1 DEF PoolPhases, Collecting, Submitting, SubmittedBeforeExit
<1> QED
  BY <1>2, <1>3, PoolStays

LEMMA CollectIInv ==
  ASSUME IInv, NEW t \in Trials, Collect(t)
  PROVE  IInv'
<1> USE DEF IInv, Collect, history, pool
<1>1. TypeOK'
  BY PoolStays DEF TypeOK
<1>2. PoolPhases' /\ Collecting' /\ Submitting'
  BY DEF PoolPhases, Collecting, Submitting, SubmittedBeforeExit
<1> QED
  BY <1>1, <1>2, PoolStays

\* The steps of main along its normal course.
LEMMA CourseIInv ==
  ASSUME IInv,
         \/ StartRun \/ EnterTry \/ LaunchDone \/ CollectDone \/ PoolExit \/ WriteResults
         \/ SubmitRun \/ PollAgain \/ PollDone
  PROVE  IInv'
<1> USE DEF IInv, Goto, pool, StartRun, EnterTry, LaunchDone, CollectDone, PoolExit,
            WriteResults, SubmitRun, PollAgain, PollDone
<1>1. UNCHANGED pool /\ selected' = selected /\ collected' = collected
  OBVIOUS
<1>2. TypeOK'
  <2>1. pc' \in Places /\ error' = error /\ struck' = struck /\ entered' \in BOOLEAN
    BY DEF TypeOK, Places
  <2>2. submitted' \in BOOLEAN /\ polls' \in 0 .. MaxPolls
    <3>1. CASE SubmitRun
      BY <3>1 DEF TypeOK
    <3>2. CASE PollAgain
      BY <3>2, PoolAssumption DEF TypeOK
    <3>3. CASE UNCHANGED <<submitted, polls>>
      BY <3>3 DEF TypeOK
    <3> QED
      BY <3>1, <3>2, <3>3
  <2> QED
    BY <1>1, <2>1, <2>2, PoolStays DEF TypeOK
<1>3. PoolPhases'
  BY DEF PoolPhases
<1>4. Collecting'
  BY DEF Collecting
<1>5. Submitting'
  BY DEF Submitting, SubmittedBeforeExit
<1> QED
  BY <1>1, <1>2, <1>3, <1>4, <1>5, PoolStays

\* An exception takes main to its handler, with the pool as it is.
LEMMA RaiseIInv ==
  ASSUME IInv, CallRaises \/ Interrupt
  PROVE  IInv'
<1> USE DEF IInv, Goto, pool, CallRaises, Interrupt
<1>1. /\ UNCHANGED pool /\ selected' = selected /\ collected' = collected
      /\ pc' = Handler(pc) /\ entered' = entered /\ error' \in {"error", "interrupt"}
      /\ pc \in Places \ {"exit"} /\ polls' = polls
      /\ submitted' \in BOOLEAN
      /\ struck' = struck \/ struck' = struck \cup {pc}
  BY DEF TypeOK
<1>2. pc' \in Places
  BY <1>1, Handlers DEF Places
<1>3. TypeOK'
  BY <1>1, <1>2, PoolStays DEF TypeOK
<1>4. PoolPhases'
  BY <1>1, Handlers DEF PoolPhases, Places
<1>5. Collecting'
  BY <1>1, Handlers DEF Collecting, Places
<1>6. Submitting'
  <2>1. CASE CallRaises
    <3>1. /\ submitted' <=> submitted \/ pc = "submit"
          /\ struck' = struck
      BY <2>1 DEF TypeOK
    <3> QED
      BY <1>1, <3>1, Handlers DEF Submitting, SubmittedBeforeExit, Places
  <2>2. CASE Interrupt
    BY <1>1, <2>2, Handlers DEF Submitting, SubmittedBeforeExit, Places
  <2> QED
    BY <2>1, <2>2
<1> QED
  BY <1>1, <1>3, <1>4, <1>5, <1>6, PoolStays

-----------------------------------------------------------------------------
(* The theorems *)

LEMMA InitIInv ==
  ASSUME Init
  PROVE  IInv
<1>1. Launched = {} /\ Queued = {}
  BY DEF Init, Launched, Queued
<1>2. TypeOK
  <2>1. Cardinality({}) = 0
    BY FS_EmptySet
  <2>2. Len(queue) = 0 /\ queue \in Seq(selected)
    BY DEF Init
  <2>3. Cardinality(running) = 0 /\ Cardinality(ended) = 0 /\ Cardinality(lost) = 0
        /\ Cardinality(Launched) = 0
    BY <1>1, <2>1 DEF Init
  <2>4. Len(queue) + Cardinality(running) + Cardinality(ended) + Cardinality(lost)
          = Cardinality(Launched)
    BY <2>2, <2>3
  <2>5. /\ pc \in Places /\ error = "none" /\ selected \subseteq Trials
        /\ \A S \in {running, ended, lost, collected} : S \subseteq selected
        /\ struck \subseteq Places
    BY DEF Init, Places
  <2>7. polls \in 0 .. MaxPolls
    BY PoolAssumption DEF Init
  <2>8. submitted \in BOOLEAN /\ entered \in BOOLEAN
    BY DEF Init
  <2>6. Cardinality(running) <= MaxWorkers
    BY <2>3, PoolAssumption
  <2> QED
    BY <2>2, <2>4, <2>5, <2>6, <2>7, <2>8 DEF TypeOK
<1> QED
  BY <1>1, <1>2 DEF Init, IInv, OnePlace, PoolPhases, Collecting, Submitting,
                    SubmittedBeforeExit

LEMMA NextIInv ==
  ASSUME IInv, [Next]_vars
  PROVE  IInv'
<1>1. CASE UNCHANGED vars
  <2>1. UNCHANGED pool
    BY <1>1 DEF vars, pool
  <2> QED
    BY <1>1, <2>1, PoolStays
       DEF vars, IInv, TypeOK, PoolPhases, Collecting, Submitting, SubmittedBeforeExit
<1>2. CASE MainStep
  BY <1>2, SelectTrialsIInv, LaunchIInv, CollectIInv, CourseIInv, RaiseIInv DEF MainStep
<1>3. CASE PoolStep
  BY <1>3, BeginTrialIInv, TrialEndsIInv DEF PoolStep
<1>4. CASE Interrupt
  BY <1>4, RaiseIInv
<1> QED
  BY <1>1, <1>2, <1>3, <1>4 DEF Next, Terminated

LEMMA Invariance == Spec => []IInv
<1>1. Init => IInv
  BY InitIInv
<1>2. IInv /\ [Next]_vars => IInv'
  BY NextIInv
<1> QED
  BY <1>1, <1>2, PTL DEF Spec

\* The pool never runs more than max_workers trials and no trial is in two of
\* its parts at once, for any finite benchmark.
THEOREM PoolCorrect == Spec => [](TypeOK /\ OnePlace)
<1>1. IInv => TypeOK /\ OnePlace
  BY DEF IInv
<1> QED
  BY <1>1, Invariance, PTL

\* submit_run is called over a quiet pool, unless Ctrl-C struck the pool's own
\* shutdown.
THEOREM SubmissionIsQuiet == Spec => []QuietSubmission
<1>1. IInv => QuietSubmission
  BY DEF IInv, QuietSubmission, PoolPhases, Submitting
<1> QED
  BY <1>1, Invariance, PTL

\* No exception and no Ctrl-C keeps an entered run from being submitted, the
\* one at the beginning of the finally block excepted.
THEOREM EnteredRunsAreSubmitted == Spec => []SubmittedBeforeExit
<1>1. IInv => SubmittedBeforeExit
  BY DEF IInv, Submitting
<1> QED
  BY <1>1, Invariance, PTL

\* A run that ends without an exception reports every trial it selected.
THEOREM CleanRunsAreComplete == Spec => []ResultsComplete
<1>1. IInv => ResultsComplete
  BY DEF IInv, ResultsComplete, Collecting
<1> QED
  BY <1>1, Invariance, PTL
=============================================================================
