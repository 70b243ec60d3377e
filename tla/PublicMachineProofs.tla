------------------------ MODULE PublicMachineProofs ------------------------
(***************************************************************************)
(* Theorems about PublicMachine for every number of inbox items, attempts, *)
(* files and every budget.  The inductive invariant IInv adds to the       *)
(* properties what the state of an attempt looks like at each pc.          *)
(***************************************************************************)
EXTENDS PublicMachine, TLAPS

\* Between StartAttempt and the end of the attempt.
Running == Programme \ {"idle", "answered", "closed"}

Executing == {"load", "execute", "verdict", "reenter", "ingest"}
OnItem == {"verdict", "reenter", "ingest", "clear"}

\* No attempt is running, or run_agent has not planned yet.
FreshLocals ==
  pc \in {"idle", "start", "answered", "closed"} =>
    /\ item = RequestItem
    /\ command = NoCommand
    /\ visible = {}
    /\ focus = NoUnit

\* Nothing has been decided or touched before the step has executed.
NothingDecided ==
  pc \in {"idle", "start", "plan", "answered", "closed"} \cup Executing =>
    /\ decision = NoDecision
    /\ touched = {}

Decided ==
  /\ pc \in {"clear", "finalize", "answer"} => decision # NoDecision
  /\ decision # NoDecision => decision.kind # "none"
  /\ pc = "clear" => decision.kind = "done" /\ touched \subseteq {focus}

\* A continuation is bound to the item it came from and carries a command the
\* inbox may emit, stamped if execution needs the stamp.
ContinuationBound ==
  /\ item.origin = "request" => item = RequestItem
  /\ item.origin = "continuation" =>
       /\ item.ref \in Items
       /\ focus = item.ref
       /\ item.command.kind \in InboxIntents
       /\ item.command.kind \in Mutations => item.command.authz # "none"
       /\ pc \in {"plan", "load", "execute", "finalize", "answer"}
  /\ pc = "plan" /\ item.origin = "request" => focus = NoUnit

\* The command of the plan belongs to the unit the attempt is bound to.
CommandBound ==
  pc \in {"load", "execute"} =>
    /\ command.kind \in Kinds
    /\ command.kind \in Mutations => command.authz # "none"
    /\ command.kind \in InboxKinds => item.origin = "request" /\ focus = NoUnit
    /\ command.kind \notin InboxKinds => focus = item.ref

PipelineBound ==
  pc \in OnItem => item.origin = "request" /\ focus \in Items

\* The unit an attempt is bound to has passed the preflight.
FocusSafe ==
  /\ focus \notin injected
  /\ task = "injected" =>
       /\ pc \in {"idle", "start", "plan", "answer", "answered", "closed"}
       /\ item.origin = "request"
       /\ focus = NoUnit
       /\ touched = {}
       /\ pc = "answer" => decision.kind = "blocked"

AnswersCounted ==
  /\ Len(answers) <= attempt
  /\ pc \in Running => Len(answers) < attempt
  /\ pc = "answered" => answers # << >>
  /\ pc = "closed" /\ answers = << >> => attempt = MaxAttempts

IInv ==
  /\ TypeOK
  /\ FreshLocals
  /\ NothingDecided
  /\ Decided
  /\ ContinuationBound
  /\ CommandBound
  /\ PipelineBound
  /\ FocusSafe
  /\ BudgetOK
  /\ AnswersCounted
  /\ OneUnitPerAttempt
  /\ InjectedUntouched

\* The constants that name parts of the state, expanded everywhere below.
USE DEF Programme, Running, Executing, OnItem, Ask, NoUnit, Items, Units,
        fixed, workspace, locals

-----------------------------------------------------------------------------
(* The budget *)

LEMMA RequestBudget ==
  /\ RequestItem \in WorkItems
  /\ RequestItem.budget.current_depth = 0
  /\ OnChain(RequestItem.budget, MaxDepth, MaxSteps)
BY SizesAreNatural
   DEF RequestItem, WorkItems, InitialBudget, Budget, OnChain, NoCommand, Commands

LEMMA ChildBudgetOnChain ==
  ASSUME NEW b \in Budget, OnChain(b, MaxDepth, MaxSteps), ~Exhausted(b)
  PROVE  /\ ChildBudget(b) \in Budget
         /\ OnChain(ChildBudget(b), MaxDepth, MaxSteps)
         /\ ChildBudget(b).current_depth = b.current_depth + 1
<1>1. b.remaining_steps > 0
  BY DEF Budget, Exhausted
<1>2. Descend(b) = [b EXCEPT !.current_depth = b.current_depth + 1]
  BY DEF Descend
<1>3. /\ Descend(b) \in Budget
      /\ Descend(b).max_depth = b.max_depth
      /\ Descend(b).max_steps = b.max_steps
      /\ Descend(b).current_depth = b.current_depth + 1
      /\ Descend(b).remaining_steps = b.remaining_steps
  BY <1>2 DEF Budget
<1>4. ChildBudget(b) = [Descend(b) EXCEPT !.remaining_steps = b.remaining_steps - 1]
  BY <1>1, <1>3 DEF ChildBudget, Consume, Budget
<1> QED
  BY <1>1, <1>3, <1>4, SizesAreNatural DEF Budget, OnChain, Exhausted

LEMMA StampedCommands ==
  /\ \A k \in Kinds : StampRequest(k) \in Commands /\ StampRequest(k).kind = k
  /\ \A k \in Kinds : StampWorkflow(k) \in Commands /\ StampWorkflow(k).kind = k
  /\ \A k \in Mutations : StampRequest(k).authz # "none"
  /\ \A k \in InboxIntents \cap Mutations : StampWorkflow(k).authz # "none"
BY DEF StampRequest, StampWorkflow, Commands, Kinds, Mutations, InboxKinds,
       AuthzRequired, WorkflowStamped, InboxIntents

-----------------------------------------------------------------------------
(* Steps that several actions share *)

\* An attempt ends: its locals are dropped, and an answer was delivered or not.
LEMMA EndOfAttempt ==
  ASSUME IInv, pc \in Running, DropLocals,
         pc' \in {"idle", "answered"},
         UNCHANGED <<attempt, fixed, inbox, effect, interpreted>>,
         \/ UNCHANGED answers /\ pc' = "idle"
         \/ pc = "answer" /\ Deliver
  PROVE  IInv'
<1> USE DEF DropLocals
<1>1. answers' \in Seq(OutcomeNames) /\ Len(answers') <= attempt
      /\ (pc' = "answered" => answers' # << >>)
      /\ (task = "injected" =>
            \A n \in 1 .. Len(answers') : answers'[n] = "OUTCOME_DENIED_SECURITY")
  <2>1. CASE UNCHANGED answers /\ pc' = "idle"
    BY <2>1 DEF IInv, TypeOK, AnswersCounted, InjectedUntouched
  <2>2. CASE pc = "answer" /\ Deliver
    <3>1. OutcomeName(decision.kind) \in OutcomeNames
      BY <2>2 DEF IInv, TypeOK, Decided, Decisions, NoDecision, OutcomeName, OutcomeNames
    <3>2. task = "injected" => OutcomeName(decision.kind) = "OUTCOME_DENIED_SECURITY"
      BY <2>2 DEF IInv, FocusSafe, OutcomeName
    <3>3. answers \in Seq(OutcomeNames) /\ Len(answers) < attempt /\ attempt \in Nat
      BY SizesAreNatural DEF IInv, TypeOK, AnswersCounted
    <3> QED
      BY <2>2, <3>1, <3>2, <3>3 DEF Deliver, IInv, InjectedUntouched
  <2> QED
    BY <2>1, <2>2
<1>2. TypeOK'
  BY <1>1, RequestBudget
     DEF IInv, TypeOK, NoCommand, Commands, NoDecision, Decisions
<1>3. BudgetOK'
  BY RequestBudget DEF BudgetOK, RequestItem
<1>4. AnswersCounted'
  BY <1>1 DEF IInv, AnswersCounted
<1>5. InjectedUntouched'
  BY <1>1 DEF IInv, InjectedUntouched
<1>6. FocusSafe'
  BY DEF IInv, TypeOK, FocusSafe, RequestItem
<1>7. (FreshLocals /\ NothingDecided /\ Decided /\ OneUnitPerAttempt)'
  BY DEF FreshLocals, NothingDecided, Decided, OneUnitPerAttempt, NoDecision
<1>8. (ContinuationBound /\ CommandBound /\ PipelineBound)'
  BY DEF ContinuationBound, CommandBound, PipelineBound, RequestItem
<1> QED
  BY <1>2, <1>3, <1>4, <1>5, <1>6, <1>7, <1>8 DEF IInv

LEMMA RaiseStep == IInv /\ pc \in Running /\ Raise => IInv'
BY EndOfAttempt DEF Raise

\* A step of the machine is decided, having written for its own unit only.
LEMMA ConcludeStep ==
  ASSUME IInv, pc \in Executing,
         NEW d \in Decisions, d.kind # "none",
         NEW next \in {"finalize", "clear"},
         next = "clear" => d.kind = "done" /\ pc \in OnItem,
         Conclude(d, next),
         effect' \in [Units -> Nat],
         \A u \in Units \ {focus} : effect'[u] = effect[u],
         touched' \subseteq {focus} \cap Units,
         UNCHANGED <<inbox, answers, focus, interpreted>>
  PROVE  IInv'
<1> USE DEF Conclude
<1>1. TypeOK'
  BY DEF IInv, TypeOK
<1>2. d # NoDecision
  BY DEF NoDecision
<1>3. InjectedUntouched' /\ FocusSafe'
  BY DEF IInv, TypeOK, InjectedUntouched, FocusSafe
<1>4. (FreshLocals /\ NothingDecided /\ Decided /\ OneUnitPerAttempt)'
  BY <1>2 DEF FreshLocals, NothingDecided, Decided, OneUnitPerAttempt
<1>5. ContinuationBound'
  BY DEF IInv, ContinuationBound, PipelineBound
<1>6. (CommandBound /\ PipelineBound /\ BudgetOK /\ AnswersCounted)'
  BY DEF IInv, CommandBound, PipelineBound, BudgetOK, AnswersCounted
<1> QED
  BY <1>1, <1>3, <1>4, <1>5, <1>6 DEF IInv

\* The same, without a write.
LEMMA ConcludeQuietly ==
  ASSUME IInv, pc \in Executing,
         NEW d \in Decisions, d.kind # "none",
         NEW next \in {"finalize", "clear"},
         next = "clear" => d.kind = "done" /\ pc \in OnItem,
         Conclude(d, next),
         UNCHANGED <<workspace, focus, touched, interpreted>>
  PROVE  IInv'
<1>1. touched' \subseteq {focus} \cap Units /\ effect' \in [Units -> Nat]
      /\ \A u \in Units \ {focus} : effect'[u] = effect[u]
  BY DEF IInv, TypeOK, OneUnitPerAttempt
<1> QED
  BY <1>1, ConcludeStep

\* The unit the attempt is bound to leaves the inbox, or does not.
LEMMA DeleteStep ==
  ASSUME IInv,
         \/ pc = "clear" /\ pc' = "finalize"
         \/ pc = "finalize" /\ pc' = "answer",
         \/ focus \in Items /\ Deleted(focus)
         \/ UNCHANGED <<inbox, touched>>,
         UNCHANGED <<attempt, fixed, effect, answers, item, command, visible,
                     decision, focus, interpreted>>
  PROVE  IInv'
<1>1. inbox' \subseteq Items /\ injected \subseteq inbox'
      /\ touched' \subseteq {focus} \cap Units
  <2>1. /\ inbox \subseteq Items /\ injected \subseteq inbox /\ focus \notin injected
        /\ touched \subseteq Units /\ touched \subseteq {focus}
    BY DEF IInv, TypeOK, InjectedUntouched, FocusSafe, OneUnitPerAttempt
  <2>2. \/ focus \in Items /\ inbox' = inbox \ {focus} /\ touched' = touched \cup {focus}
        \/ inbox' = inbox /\ touched' = touched
    BY DEF Deleted
  <2>3. CASE focus \in Items /\ inbox' = inbox \ {focus} /\ touched' = touched \cup {focus}
    <3>1. focus \in Units
      BY <2>3, SizesAreNatural
    <3> QED
      BY <2>1, <2>3, <3>1
  <2>4. CASE inbox' = inbox /\ touched' = touched
    BY <2>1, <2>4
  <2> QED
    BY <2>2, <2>3, <2>4
<1>2. TypeOK'
  BY <1>1 DEF IInv, TypeOK
<1>3. InjectedUntouched' /\ FocusSafe'
  BY <1>1 DEF IInv, InjectedUntouched, FocusSafe
<1>4. (FreshLocals /\ NothingDecided /\ Decided /\ OneUnitPerAttempt)'
  BY <1>1 DEF IInv, FreshLocals, NothingDecided, Decided, OneUnitPerAttempt
<1>5. (ContinuationBound /\ CommandBound /\ PipelineBound)'
  BY DEF IInv, ContinuationBound, CommandBound, PipelineBound
<1>6. (BudgetOK /\ AnswersCounted)'
  BY DEF IInv, BudgetOK, AnswersCounted
<1> QED
  BY <1>2, <1>3, <1>4, <1>5, <1>6 DEF IInv

-----------------------------------------------------------------------------
(* The steps that only move the machine forward *)

LEMMA StartAttemptStep == IInv /\ StartAttempt => IInv'
<1> SUFFICES ASSUME IInv, StartAttempt PROVE IInv'
  OBVIOUS
<1> USE DEF StartAttempt
<1>1. TypeOK' /\ AnswersCounted'
  BY SizesAreNatural DEF IInv, TypeOK, AnswersCounted
<1>2. (FreshLocals /\ NothingDecided /\ Decided /\ OneUnitPerAttempt)'
  BY DEF IInv, FreshLocals, NothingDecided, Decided, OneUnitPerAttempt
<1>3. (ContinuationBound /\ CommandBound /\ PipelineBound)'
  BY DEF IInv, ContinuationBound, CommandBound, PipelineBound, FreshLocals, RequestItem
<1>4. (FocusSafe /\ BudgetOK /\ InjectedUntouched)'
  BY DEF IInv, FocusSafe, BudgetOK, InjectedUntouched
<1> QED
  BY <1>1, <1>2, <1>3, <1>4 DEF IInv

LEMMA AcceptRequestStep == IInv /\ AcceptRequest => IInv'
<1> SUFFICES ASSUME IInv, AcceptRequest PROVE IInv'
  OBVIOUS
<1> USE DEF AcceptRequest
<1>1. TypeOK' /\ AnswersCounted'
  BY DEF IInv, TypeOK, AnswersCounted
<1>2. (FreshLocals /\ NothingDecided /\ Decided /\ OneUnitPerAttempt)'
  BY DEF IInv, FreshLocals, NothingDecided, Decided, OneUnitPerAttempt
<1>3. (ContinuationBound /\ CommandBound /\ PipelineBound)'
  BY DEF IInv, ContinuationBound, CommandBound, PipelineBound, FreshLocals, RequestItem
<1>4. (FocusSafe /\ BudgetOK /\ InjectedUntouched)'
  BY DEF IInv, FocusSafe, BudgetOK, InjectedUntouched
<1> QED
  BY <1>1, <1>2, <1>3, <1>4 DEF IInv

LEMMA EndTrialStep == IInv /\ EndTrial => IInv'
<1> SUFFICES ASSUME IInv, EndTrial PROVE IInv'
  OBVIOUS
<1> USE DEF EndTrial
<1>1. TypeOK' /\ AnswersCounted'
  BY DEF IInv, TypeOK, AnswersCounted
<1>2. (FreshLocals /\ NothingDecided /\ Decided /\ OneUnitPerAttempt)'
  BY DEF IInv, FreshLocals, NothingDecided, Decided, OneUnitPerAttempt
<1>3. (ContinuationBound /\ CommandBound /\ PipelineBound)'
  BY DEF IInv, ContinuationBound, CommandBound, PipelineBound, FreshLocals, RequestItem
<1>4. (FocusSafe /\ BudgetOK /\ InjectedUntouched)'
  BY DEF IInv, FocusSafe, BudgetOK, InjectedUntouched
<1> QED
  BY <1>1, <1>2, <1>3, <1>4 DEF IInv

\* STEP 3 of run_agent.
LEMMA PlanStep == IInv /\ Plan => IInv'
<1> SUFFICES ASSUME IInv, Plan PROVE IInv'
  OBVIOUS
<1>0. pc = "plan"
  BY DEF Plan, RefuseInjectedTask, RouteToDecision, RouteToCommand, PlanContinuation
<1>1. CASE \/ RefuseInjectedTask
           \/ RouteToDecision
  <2>1. PICK d \in {Decide("blocked"), Decide("clarify"), Decide("unsupported")} :
          /\ Immediate(d)
          /\ item.origin = "request"
          /\ \/ task = "injected" /\ d = Decide("blocked") /\ interpreted' = interpreted
             \/ task # "injected" /\ interpreted' = interpreted \cup {0}
    BY <1>1 DEF RefuseInjectedTask, RouteToDecision
  <2>2. d \in Decisions /\ d.kind # "none" /\ d # NoDecision
    BY DEF Decide, Decisions, NoDecision
  <2> USE DEF Immediate
  <2>3. 0 \in Units /\ 0 \notin Items
    BY SizesAreNatural
  <2>4. TypeOK' /\ AnswersCounted'
    BY <1>0, <2>1, <2>2, <2>3 DEF IInv, TypeOK, AnswersCounted
  <2>5. (FreshLocals /\ NothingDecided /\ Decided /\ OneUnitPerAttempt)'
    BY <1>0, <2>1, <2>2 DEF IInv, FreshLocals, NothingDecided, Decided, OneUnitPerAttempt
  <2>6. (ContinuationBound /\ CommandBound /\ PipelineBound)'
    BY <1>0, <2>1 DEF IInv, ContinuationBound, CommandBound, PipelineBound
  <2>7. InjectedUntouched'
    BY <1>0, <2>1, <2>3 DEF IInv, TypeOK, InjectedUntouched
  <2>8. (FocusSafe /\ BudgetOK)'
    BY <1>0, <2>1 DEF IInv, FocusSafe, BudgetOK, Decide
  <2> QED
    BY <2>4, <2>5, <2>6, <2>7, <2>8 DEF IInv
<1>2. CASE RouteToCommand
  <2> USE DEF RouteToCommand
  <2>1. PICK k \in Kinds :
          /\ command' = StampRequest(k)
          /\ focus' = IF k \in InboxKinds THEN NoUnit ELSE Ask
    BY <1>2
  <2>2. 0 \in Units /\ 0 \notin Items /\ item.origin = "request" /\ task # "injected"
        /\ item.ref = 0 /\ item = RequestItem /\ focus = NoUnit
    BY <1>2, SizesAreNatural DEF IInv, ContinuationBound, RequestItem
  <2>3. TypeOK' /\ AnswersCounted'
    BY <1>0, <1>2, <2>1, <2>2, StampedCommands DEF IInv, TypeOK, AnswersCounted
  <2>4. (FreshLocals /\ NothingDecided /\ Decided /\ OneUnitPerAttempt)'
    BY <1>0, <1>2 DEF IInv, FreshLocals, NothingDecided, Decided, OneUnitPerAttempt
  <2>5. CommandBound'
    BY <1>2, <2>1, <2>2, StampedCommands DEF CommandBound
  <2>6. (ContinuationBound /\ PipelineBound)'
    BY <1>2, <2>2 DEF ContinuationBound, PipelineBound, RequestItem
  <2>7. (InjectedUntouched /\ FocusSafe /\ BudgetOK)'
    BY <1>0, <1>2, <2>1, <2>2 DEF IInv, TypeOK, InjectedUntouched, FocusSafe, BudgetOK
  <2> QED
    BY <2>3, <2>4, <2>5, <2>6, <2>7 DEF IInv
<1>3. CASE PlanContinuation
  <2> USE DEF PlanContinuation
  <2>1. item.command \in Commands /\ item.command.kind \in InboxIntents
    BY <1>3 DEF IInv, TypeOK, WorkItems, ContinuationBound
  <2>2. TypeOK' /\ AnswersCounted'
    BY <1>0, <1>3, <2>1 DEF IInv, TypeOK, AnswersCounted
  <2>3. (FreshLocals /\ NothingDecided /\ Decided /\ OneUnitPerAttempt)'
    BY <1>0, <1>3 DEF IInv, FreshLocals, NothingDecided, Decided, OneUnitPerAttempt
  <2>4. (ContinuationBound /\ CommandBound /\ PipelineBound)'
    BY <1>0, <1>3, <2>1
       DEF IInv, ContinuationBound, CommandBound, PipelineBound, InboxIntents,
           InboxKinds, Kinds, Mutations
  <2>5. (InjectedUntouched /\ FocusSafe /\ BudgetOK)'
    BY <1>0, <1>3 DEF IInv, InjectedUntouched, FocusSafe, BudgetOK
  <2> QED
    BY <2>2, <2>3, <2>4, <2>5 DEF IInv
<1> QED
  BY <1>1, <1>2, <1>3 DEF Plan

LEMMA LoadContextStep == IInv /\ LoadContext => IInv'
<1> SUFFICES ASSUME IInv, LoadContext PROVE IInv'
  OBVIOUS
<1> USE DEF LoadContext
<1>1. visible' \subseteq Items
  BY DEF IInv, TypeOK
<1>2. TypeOK' /\ AnswersCounted'
  BY <1>1 DEF IInv, TypeOK, AnswersCounted
<1>3. (FreshLocals /\ NothingDecided /\ Decided /\ OneUnitPerAttempt)'
  BY DEF IInv, FreshLocals, NothingDecided, Decided, OneUnitPerAttempt
<1>4. (ContinuationBound /\ CommandBound /\ PipelineBound)'
  BY DEF IInv, ContinuationBound, CommandBound, PipelineBound
<1>5. (FocusSafe /\ BudgetOK /\ InjectedUntouched)'
  BY DEF IInv, FocusSafe, BudgetOK, InjectedUntouched
<1> QED
  BY <1>2, <1>3, <1>4, <1>5 DEF IInv

-----------------------------------------------------------------------------
(* The steps that execute *)

\* The decisions a step may end with.
LEMMA DecisionKinds ==
  /\ \A k \in {"clarify", "blocked", "unsupported"} :
       Decide(k) \in Decisions /\ Decide(k).kind # "none"
  /\ \A r \in {"resolved", "succeeded"} :
       Done(r) \in Decisions /\ Done(r).kind = "done"
BY DEF Decide, Done, Decisions

\* Writing n files for the bound unit touches no other.
LEMMA WriteForFocus ==
  ASSUME IInv, focus \in Units, NEW n \in Nat, Written(focus, n)
  PROVE  /\ effect' \in [Units -> Nat]
         /\ \A u \in Units \ {focus} : effect'[u] = effect[u]
         /\ touched' \subseteq {focus} \cap Units
BY DEF IInv, TypeOK, OneUnitPerAttempt, Written

LEMMA ExecuteReadStep == IInv /\ ExecuteRead => IInv'
BY ConcludeQuietly, DecisionKinds DEF ExecuteRead

LEMMA ExecuteMutationStep == IInv /\ ExecuteMutation => IInv'
<1> SUFFICES ASSUME IInv, ExecuteMutation PROVE IInv'
  OBVIOUS
<1> USE DEF ExecuteMutation
<1>1. PICK r \in MutationResults(command) :
        Written(focus, r.writes) /\ Conclude(r.decision, "finalize")
  OBVIOUS
<1>2. r.decision \in Decisions /\ r.decision.kind # "none" /\ r.writes \in Nat
  BY DecisionKinds, SizesAreNatural DEF MutationResults
<1>3. focus \in Units
  BY DEF IInv, TypeOK, CommandBound, Mutations, InboxKinds, WorkItems
<1> QED
  BY <1>1, <1>2, <1>3, WriteForFocus, ConcludeStep

\* The ends of the inbox pipeline that write nothing.
LEMMA QuietInboxStep ==
  IInv /\ (\/ InboxEmpty \/ InboxFilename \/ InboxRefuseInjected
           \/ VerdictDenies \/ VerdictClears \/ ReenterDenied \/ IngestUnplanned)
    => IInv'
<1>1. IInv /\ InboxEmpty => IInv'
  BY ConcludeQuietly, DecisionKinds DEF InboxEmpty, InboxStep
<1>2. IInv /\ InboxFilename => IInv'
  BY ConcludeQuietly, DecisionKinds DEF InboxFilename, InboxStep
<1>3. IInv /\ InboxRefuseInjected => IInv'
  BY ConcludeQuietly, DecisionKinds DEF InboxRefuseInjected, InboxStep
<1>4. IInv /\ VerdictDenies => IInv'
  BY ConcludeQuietly, DecisionKinds DEF VerdictDenies
<1>5. IInv /\ VerdictClears => IInv'
  BY ConcludeQuietly, DecisionKinds DEF VerdictClears
<1>6. IInv /\ ReenterDenied => IInv'
  BY ConcludeQuietly, DecisionKinds DEF ReenterDenied
<1>7. IInv /\ IngestUnplanned => IInv'
  BY ConcludeQuietly, DecisionKinds DEF IngestUnplanned
<1> QED
  BY <1>1, <1>2, <1>3, <1>4, <1>5, <1>6, <1>7

LEMMA InboxClassifyStep == IInv /\ InboxClassify => IInv'
<1> SUFFICES ASSUME IInv, InboxClassify PROVE IInv'
  OBVIOUS
<1> USE DEF InboxClassify, InboxStep
<1>1. PICK i \in Oldest(visible) \ injected :
        focus' = i /\ interpreted' = interpreted \cup {i}
  OBVIOUS
<1>2. i \in Items /\ i \in Units /\ i # NoUnit
  BY SizesAreNatural DEF IInv, TypeOK, Oldest
<1>3. item.origin = "request" /\ task # "injected"
  BY DEF IInv, CommandBound, FocusSafe, InboxKinds
<1>4. TypeOK' /\ AnswersCounted'
  BY <1>1, <1>2 DEF IInv, TypeOK, AnswersCounted
<1>5. (FreshLocals /\ NothingDecided /\ Decided /\ OneUnitPerAttempt)'
  BY DEF IInv, FreshLocals, NothingDecided, Decided, OneUnitPerAttempt
<1>6. (ContinuationBound /\ CommandBound /\ PipelineBound)'
  BY <1>1, <1>2, <1>3
     DEF IInv, ContinuationBound, CommandBound, PipelineBound, RequestItem
<1>7. (InjectedUntouched /\ FocusSafe /\ BudgetOK)'
  BY <1>1, <1>2, <1>3 DEF IInv, InjectedUntouched, FocusSafe, BudgetOK
<1> QED
  BY <1>4, <1>5, <1>6, <1>7 DEF IInv

LEMMA VerdictContinuesStep == IInv /\ VerdictContinues => IInv'
<1> SUFFICES ASSUME IInv, VerdictContinues PROVE IInv'
  OBVIOUS
<1> USE DEF VerdictContinues, Conclude
<1>1. pc = "verdict" /\ pc' \in {"reenter", "ingest"} /\ decision' = decision
  BY DEF IInv, NothingDecided
<1>2. TypeOK' /\ AnswersCounted'
  BY <1>1 DEF IInv, TypeOK, AnswersCounted
<1>3. (FreshLocals /\ NothingDecided /\ Decided /\ OneUnitPerAttempt)'
  BY <1>1 DEF IInv, FreshLocals, NothingDecided, Decided, OneUnitPerAttempt
<1>4. (ContinuationBound /\ CommandBound /\ PipelineBound)'
  BY <1>1 DEF IInv, ContinuationBound, CommandBound, PipelineBound
<1>5. (InjectedUntouched /\ FocusSafe /\ BudgetOK)'
  BY <1>1 DEF IInv, InjectedUntouched, FocusSafe, BudgetOK
<1> QED
  BY <1>2, <1>3, <1>4, <1>5 DEF IInv

\* A child work item, unless its budget raises.
LEMMA ReenterTypedStep == IInv /\ ReenterTyped => IInv'
<1> SUFFICES ASSUME IInv, ReenterTyped PROVE IInv'
  OBVIOUS
<1> USE DEF ReenterTyped
<1>1. PICK k \in InboxIntents : EmitContinue(k)
  OBVIOUS
<1>2. CASE Exhausted(ChildBudget(item.budget))
  BY <1>1, <1>2, RaiseStep DEF EmitContinue
<1>3. CASE ~Exhausted(ChildBudget(item.budget))
  <2> DEFINE child == ContinuationItem(item, StampWorkflow(k), focus)
  <2>1. /\ item' = child
        /\ pc' = "plan"
        /\ command' = NoCommand
        /\ visible' = {}
        /\ UNCHANGED <<attempt, fixed, workspace, decision, focus, touched, interpreted>>
    BY <1>1, <1>3 DEF EmitContinue
  <2>2. item.budget \in Budget /\ item.depth \in Nat /\ OnChain(item.budget, MaxDepth, MaxSteps)
        /\ item.depth = item.budget.current_depth /\ ~Exhausted(item.budget)
    BY DEF IInv, TypeOK, WorkItems, BudgetOK
  <2>3. /\ ChildBudget(item.budget) \in Budget
        /\ OnChain(ChildBudget(item.budget), MaxDepth, MaxSteps)
        /\ ChildBudget(item.budget).current_depth = item.depth + 1
    BY <2>2, ChildBudgetOnChain
  <2>4. focus \in Items /\ focus \in Units /\ task # "injected"
    BY SizesAreNatural DEF IInv, PipelineBound, FocusSafe
  <2>5. k \in Kinds /\ StampWorkflow(k) \in Commands /\ StampWorkflow(k).kind = k
        /\ (k \in Mutations => StampWorkflow(k).authz # "none")
    <3>1. k \in Kinds
      BY DEF InboxIntents, Kinds, Mutations
    <3> QED
      BY <3>1, StampedCommands
  <2>6. /\ child.origin = "continuation"
        /\ child.depth = item.depth + 1
        /\ child.budget = ChildBudget(item.budget)
        /\ child.command = StampWorkflow(k)
        /\ child.ref = focus
        /\ child \in WorkItems
    BY <2>2, <2>3, <2>4, <2>5 DEF ContinuationItem, WorkItems
  <2> HIDE DEF child
  <2>7. TypeOK' /\ AnswersCounted'
    BY <2>1, <2>6 DEF IInv, TypeOK, AnswersCounted, NoCommand, Commands
  <2>8. (FreshLocals /\ NothingDecided /\ Decided /\ OneUnitPerAttempt)'
    BY <2>1 DEF IInv, FreshLocals, NothingDecided, Decided, OneUnitPerAttempt
  <2>9. (ContinuationBound /\ CommandBound /\ PipelineBound)'
    BY <2>1, <2>4, <2>5, <2>6 DEF ContinuationBound, CommandBound, PipelineBound
  <2>10. BudgetOK'
    BY <2>1, <2>3, <2>6, <1>3 DEF BudgetOK
  <2>11. (InjectedUntouched /\ FocusSafe)'
    BY <2>1, <2>4 DEF IInv, InjectedUntouched, FocusSafe
  <2> QED
    BY <2>7, <2>8, <2>9, <2>10, <2>11 DEF IInv
<1> QED
  BY <1>2, <1>3

LEMMA IngestStep == IInv /\ (IngestWriteRaises \/ IngestDone) => IInv'
<1> SUFFICES ASSUME IInv, IngestWriteRaises \/ IngestDone PROVE IInv'
  OBVIOUS
<1>1. focus \in Units
  BY SizesAreNatural DEF IInv, PipelineBound, IngestWriteRaises, IngestDone
<1>2. CASE IngestWriteRaises
  <2>1. PICK n \in Nat : Written(focus, n)
    BY <1>2, SizesAreNatural DEF IngestWriteRaises
  <2> QED
    BY <1>1, <1>2, <2>1, WriteForFocus, ConcludeStep, DecisionKinds DEF IngestWriteRaises
<1>3. CASE IngestDone
  <2>1. PICK n \in Nat : Written(focus, n)
    BY <1>3, SizesAreNatural DEF IngestDone
  <2> QED
    BY <1>1, <1>3, <2>1, WriteForFocus, ConcludeStep, DecisionKinds DEF IngestDone
<1> QED
  BY <1>2, <1>3

LEMMA DeletionSteps == IInv /\ (ClearProcessedItem \/ ConsumeEvidence) => IInv'
<1>1. IInv /\ ClearProcessedItem => IInv'
  BY DeleteStep DEF ClearProcessedItem, IInv, PipelineBound
<1>2. IInv /\ ConsumeEvidence => IInv'
  <2> SUFFICES ASSUME IInv, ConsumeEvidence PROVE IInv'
    OBVIOUS
  <2>1. item.ref # Ask => item.ref \in Items /\ focus = item.ref
    BY DEF IInv, TypeOK, WorkItems, ContinuationBound, RequestItem
  <2> QED
    BY <2>1, DeleteStep DEF ConsumeEvidence
<1> QED
  BY <1>1, <1>2

-----------------------------------------------------------------------------
(* The theorems *)

LEMMA InitIInv == Init => IInv
<1> SUFFICES ASSUME Init PROVE IInv
  OBVIOUS
<1> USE DEF Init
<1>1. TypeOK
  BY RequestBudget, SizesAreNatural
     DEF TypeOK, NoCommand, Commands, NoDecision, Decisions
<1>2. BudgetOK
  BY RequestBudget DEF BudgetOK, RequestItem
<1>3. InjectedUntouched /\ FocusSafe /\ AnswersCounted /\ OneUnitPerAttempt
  BY SizesAreNatural
     DEF InjectedUntouched, FocusSafe, AnswersCounted, OneUnitPerAttempt, RequestItem
<1>4. FreshLocals /\ NothingDecided /\ Decided
  BY DEF FreshLocals, NothingDecided, Decided, NoDecision
<1>5. ContinuationBound /\ CommandBound /\ PipelineBound
  BY DEF ContinuationBound, CommandBound, PipelineBound, RequestItem
<1> QED
  BY <1>1, <1>2, <1>3, <1>4, <1>5 DEF IInv

LEMMA NextIInv == IInv /\ [Next]_vars => IInv'
<1> SUFFICES ASSUME IInv, [Next]_vars PROVE IInv'
  OBVIOUS
<1>1. CASE StartAttempt
  BY <1>1, StartAttemptStep
<1>2. CASE AcceptRequest \/ LoadContext
  BY <1>2, AcceptRequestStep, LoadContextStep
<1>3. CASE SetupRaises \/ StepRaises
  BY <1>3, RaiseStep DEF SetupRaises, StepRaises
<1>4. CASE Plan
  BY <1>4, PlanStep
<1>5. CASE ExecuteRead \/ ExecuteMutation
  BY <1>5, ExecuteReadStep, ExecuteMutationStep
<1>6. CASE InboxPipeline
  BY <1>6, QuietInboxStep, InboxClassifyStep, VerdictContinuesStep, ReenterTypedStep,
     IngestStep, DeletionSteps DEF InboxPipeline
<1>7. CASE ConsumeEvidence
  BY <1>7, DeletionSteps
<1>8. CASE AnswerAccepted \/ AnswerRaises
  <2>1. pc = "answer" /\ pc \in Running /\ DropLocals /\ pc' \in {"idle", "answered"}
        /\ UNCHANGED <<attempt, fixed, inbox, effect, interpreted>>
        /\ \/ UNCHANGED answers /\ pc' = "idle"
           \/ pc = "answer" /\ Deliver
    BY <1>8 DEF AnswerAccepted, AnswerRaises
  <2> QED
    BY <2>1, EndOfAttempt
<1>9. CASE EndTrial
  BY <1>9, EndTrialStep
<1>10. CASE Closed \/ UNCHANGED vars
  <2>1. UNCHANGED vars
    BY <1>10 DEF Closed
  <2> USE <2>1 DEF vars
  <2>2. TypeOK' /\ AnswersCounted' /\ InjectedUntouched'
    BY DEF IInv, TypeOK, AnswersCounted, InjectedUntouched
  <2>3. (FreshLocals /\ NothingDecided /\ Decided /\ OneUnitPerAttempt)'
    BY DEF IInv, FreshLocals, NothingDecided, Decided, OneUnitPerAttempt
  <2>4. (ContinuationBound /\ CommandBound /\ PipelineBound)'
    BY DEF IInv, ContinuationBound, CommandBound, PipelineBound
  <2>5. (FocusSafe /\ BudgetOK)'
    BY DEF IInv, FocusSafe, BudgetOK
  <2> QED
    BY <2>2, <2>3, <2>4, <2>5 DEF IInv
<1> QED
  BY <1>1, <1>2, <1>3, <1>4, <1>5, <1>6, <1>7, <1>8, <1>9, <1>10 DEF Next, RunAgent

\* IInv holds throughout every trial.
THEOREM Invariance == Spec => []IInv
BY InitIInv, NextIInv, PTL DEF Spec

\* TypeOK: the state of the trial has its type, whatever the sizes.
THEOREM TypeCorrect == Spec => []TypeOK
BY Invariance, PTL DEF IInv

\* What the injection preflight refuses is never read by a language model,
\* never written for and never deleted.
THEOREM PreflightHolds == Spec => []InjectedUntouched
BY Invariance, PTL DEF IInv

\* An attempt writes for and deletes the one unit of work it is bound to.
THEOREM OneUnit == Spec => []OneUnitPerAttempt
BY Invariance, PTL DEF IInv

\* A work item that runs has budget left and carries its own depth.
THEOREM BudgetHolds == Spec => []BudgetOK
BY Invariance, PTL DEF IInv

\* No mutation comes to execution without an authorization stamp.
THEOREM MutationsStamped == Spec => []PlannedMutationsStamped
<1>1. IInv => PlannedMutationsStamped
  BY DEF IInv, CommandBound, PlannedMutationsStamped
<1> QED
  BY <1>1, Invariance, PTL

\* One answer per attempt at most, and none only when all attempts failed.
THEOREM AnswersHold == Spec => []AnswersAccounted
<1>1. IInv => AnswersAccounted
  BY DEF IInv, AnswersCounted, AnswersAccounted
<1> QED
  BY <1>1, Invariance, PTL

\* Only the item whose own work stands decided done leaves the inbox.
THEOREM ConsumptionFollowsWork == Spec => ConsumedOnlyWhenDone
<1> DEFINE OwnWork == \A i \in inbox \ inbox' : decision.kind = "done" /\ focus = i
<1>1. IInv /\ [Next]_vars => [OwnWork]_vars
  <2> SUFFICES ASSUME IInv, [Next]_vars, NEW i \in inbox \ inbox'
               PROVE  decision.kind = "done" /\ focus = i
    OBVIOUS
  <2>1. CASE ClearProcessedItem
    BY <2>1 DEF ClearProcessedItem, Deleted, IInv, Decided
  <2>2. CASE ConsumeEvidence
    <3>1. decision.kind = "done" /\ item.ref # Ask /\ i = item.ref
      BY <2>2 DEF ConsumeEvidence, Deleted
    <3> QED
      BY <3>1 DEF IInv, TypeOK, WorkItems, ContinuationBound, RequestItem
  <2>3. CASE ~ClearProcessedItem /\ ~ConsumeEvidence
    <3>1. inbox' = inbox
      BY <2>3
         DEF Next, vars, Closed, StartAttempt, EndTrial, RunAgent, AcceptRequest,
             SetupRaises, StepRaises, Raise, DropLocals, Plan, RefuseInjectedTask,
             RouteToDecision, RouteToCommand, PlanContinuation, Immediate, LoadContext,
             ExecuteRead, ExecuteMutation, InboxPipeline, InboxEmpty, InboxFilename,
             InboxRefuseInjected, InboxClassify, VerdictDenies, VerdictClears,
             VerdictContinues, ReenterDenied, ReenterTyped, EmitContinue,
             IngestUnplanned, IngestWriteRaises, IngestDone, AnswerAccepted, AnswerRaises
    <3> QED
      BY <3>1
  <2> QED
    BY <2>1, <2>2, <2>3
<1> QED
  BY <1>1, Invariance, PTL DEF Spec, ConsumedOnlyWhenDone

-----------------------------------------------------------------------------
(***************************************************************************)
(* PublicMachine implements TrialContract, for every value of the          *)
(* constants.  Each step of the trial is a step of the contract under the  *)
(* mapping of PublicMachine (Phase) or leaves the contract's state alone.  *)
(***************************************************************************)

\* What the refinement needs beyond IInv: the item an attempt may yet be bound
\* to, or is bound to and has not decided, is still in the inbox.
Present ==
  /\ pc = "execute" => visible \subseteq inbox
  /\ focus \in Items /\ decision = NoDecision => focus \in inbox

PInv == IInv /\ Present

\* What the contract knows as unsafe.
Unsafe == injected \cup (IF task = "injected" THEN {Ask} ELSE {})

-----------------------------------------------------------------------------
(* The mapping *)

\* The phase of the contract in terms of the trial's state.
LEMMA PhaseNow ==
  /\ pc = "idle" => Phase = "ready"
  /\ pc \in {"answered", "closed"} => Phase = pc
  /\ pc \in Running /\ (focus = NoUnit \/ decision = NoDecision) => Phase = "open"
  /\ pc \in Running /\ focus # NoUnit /\ decision # NoDecision =>
       Phase = IF decision.kind # "done" THEN "denied"
               ELSE IF focus \in Items \ inbox THEN "dropped" ELSE "settled"
BY DEF Phase, WorkDone

\* The same, in the next state.
LEMMA PhaseNext ==
  /\ pc' = "idle" => Phase' = "ready"
  /\ pc' \in {"answered", "closed"} => Phase' = pc'
  /\ pc' \in Running /\ (focus' = NoUnit \/ decision' = NoDecision) => Phase' = "open"
  /\ pc' \in Running /\ focus' # NoUnit /\ decision' # NoDecision =>
       Phase' = IF decision'.kind # "done" THEN "denied"
                ELSE IF focus' \in Items \ inbox' THEN "dropped" ELSE "settled"
BY DEF Phase, WorkDone

\* An attempt that runs is in a running phase.
LEMMA PhaseRunning == pc \in Running => Phase \in Contract!Running
BY PhaseNow DEF Contract!Running

-----------------------------------------------------------------------------
(* Steps that several actions share *)

\* A step that the contract does not see.
LEMMA Unseen ==
  ASSUME UNCHANGED <<attempt, fixed, inbox, effect, answers, focus>>, Phase' = Phase
  PROVE  UNCHANGED Contract!cvars
BY DEF Contract!cvars

\* The execution of the bound unit, with n of its writes in the workspace.
LEMMA Works ==
  ASSUME PInv, pc \in Executing, focus \in Units,
         decision' \in Decisions, decision'.kind # "none",
         pc' \in {"finalize", "clear"},
         NEW n \in 0 .. MaxFiles,
         effect' = [effect EXCEPT ![focus] = @ + n],
         UNCHANGED <<attempt, fixed, inbox, answers, focus>>
  PROVE  Contract!Next
<1>1. decision = NoDecision /\ decision' # NoDecision /\ focus # NoUnit
  BY SizesAreNatural DEF PInv, IInv, NothingDecided, NoDecision
<1>2. focus \in Items => focus \in inbox
  BY <1>1 DEF PInv, Present
<1>3. Phase = "open"
  BY <1>1, PhaseNow
<1>4. Phase' = IF decision'.kind = "done" THEN "settled" ELSE "denied"
  BY <1>1, <1>2, PhaseNext
<1>5. Contract!Work(n, decision'.kind = "done")
  BY <1>1, <1>3, <1>4 DEF Contract!Work, Contract!NoUnit
<1> QED
  BY <1>5 DEF Contract!Next

\* The same without a write.
LEMMA WorksQuietly ==
  ASSUME PInv, pc \in Executing, focus \in Units,
         NEW d \in Decisions, d.kind # "none",
         NEW next \in {"finalize", "clear"}, Conclude(d, next),
         UNCHANGED <<workspace, focus>>
  PROVE  Contract!Next
<1>1. effect' = [effect EXCEPT ![focus] = @ + 0] /\ 0 \in 0 .. MaxFiles
  BY SizesAreNatural DEF PInv, IInv, TypeOK
<1> QED
  BY <1>1, Works DEF Conclude

\* A decision before the attempt is bound to a unit.
LEMMA UnboundDecision ==
  ASSUME PInv, pc \in Running, focus = NoUnit, pc' \in Running,
         UNCHANGED <<attempt, fixed, workspace, focus>>
  PROVE  UNCHANGED Contract!cvars
BY PhaseNow, PhaseNext, Unseen

\* The bound unit, decided done, leaves the inbox or does not.
LEMMA Drops ==
  ASSUME PInv, pc \in {"clear", "finalize"}, pc' \in {"finalize", "answer"},
         \/ focus \in Items /\ decision.kind = "done" /\ Deleted(focus)
         \/ UNCHANGED <<inbox, touched>>,
         UNCHANGED <<attempt, fixed, effect, answers, decision, focus>>
  PROVE  Contract!Next \/ UNCHANGED Contract!cvars
<1>1. decision # NoDecision
  BY DEF PInv, IInv, Decided
<1>2. CASE inbox' = inbox
  BY <1>1, <1>2, PhaseNow, PhaseNext, Unseen
<1>3. CASE focus \in inbox /\ focus \in Items /\ decision.kind = "done"
           /\ inbox' = inbox \ {focus}
  <2>1. focus # NoUnit
    BY <1>3
  <2>2. Phase = "settled" /\ Phase' = "dropped"
    BY <1>1, <1>3, <2>1, PhaseNow, PhaseNext
  <2>3. Contract!Drop
    BY <1>3, <2>2 DEF Contract!Drop
  <2> QED
    BY <2>3 DEF Contract!Next
<1> QED
  BY <1>2, <1>3 DEF Deleted

\* An attempt that raises before its answer.
LEMMA Aborts ==
  ASSUME pc \in Running, Raise
  PROVE  Contract!Next
<1>1. Phase' = "ready"
  BY PhaseNext DEF Raise
<1>2. Contract!Abort
  BY <1>1, PhaseRunning DEF Contract!Abort, Contract!NoUnit, Raise, DropLocals
<1> QED
  BY <1>2 DEF Contract!Next

-----------------------------------------------------------------------------
(* The steps of a trial *)

\* RouteToCommand binds the attempt to the request, or to nothing yet.
LEMMA PlanImplements == PInv /\ Plan => Contract!Next \/ UNCHANGED Contract!cvars
<1> SUFFICES ASSUME PInv, Plan PROVE Contract!Next \/ UNCHANGED Contract!cvars
  OBVIOUS
<1>0. pc = "plan" /\ decision = NoDecision
      /\ (item.origin = "request" => focus = NoUnit)
  BY DEF Plan, RefuseInjectedTask, RouteToDecision, RouteToCommand, PlanContinuation,
         PInv, IInv, NothingDecided, ContinuationBound
<1>1. CASE RefuseInjectedTask \/ RouteToDecision
  BY <1>0, <1>1, UnboundDecision DEF RefuseInjectedTask, RouteToDecision, Immediate
<1>2. CASE RouteToCommand
  <2>1. Phase = "open" /\ Phase' = "open" /\ focus = NoUnit
    BY <1>0, <1>2, PhaseNow, PhaseNext DEF RouteToCommand
  <2>2. CASE focus' = NoUnit
    BY <1>2, <2>1, <2>2, Unseen DEF RouteToCommand
  <2>3. CASE focus' = Ask
    <3>1. Ask \notin Unsafe /\ Ask \in Units
      BY <1>2, SizesAreNatural DEF Unsafe, RouteToCommand, PInv, IInv, TypeOK
    <3>2. Contract!Bind(Ask)
      BY <1>2, <2>1, <2>3, <3>1
         DEF RouteToCommand, Unsafe, Contract!Bind, Contract!NoUnit, Contract!Ask
    <3> QED
      BY <3>1, <3>2 DEF Contract!Next, Contract!Units
  <2> QED
    BY <1>2, <2>2, <2>3 DEF RouteToCommand
<1>3. CASE PlanContinuation
  BY <1>0, <1>3, PhaseNow, PhaseNext, Unseen DEF PlanContinuation
<1> QED
  BY <1>1, <1>2, <1>3 DEF Plan

\* A step of the machine works on the unit the command belongs to.
LEMMA ExecutionImplements ==
  PInv /\ (ExecuteRead \/ ExecuteMutation) => Contract!Next
<1> SUFFICES ASSUME PInv, ExecuteRead \/ ExecuteMutation PROVE Contract!Next
  OBVIOUS
<1>1. focus \in Units
  BY DEF PInv, IInv, TypeOK, CommandBound, WorkItems, Mutations, InboxKinds,
         ExecuteRead, ExecuteMutation
<1>2. CASE ExecuteRead
  BY <1>1, <1>2, WorksQuietly, DecisionKinds DEF ExecuteRead
<1>3. CASE ExecuteMutation
  <2>1. PICK r \in MutationResults(command) :
          Written(focus, r.writes) /\ Conclude(r.decision, "finalize")
    BY <1>3 DEF ExecuteMutation
  <2>2. r.decision \in Decisions /\ r.decision.kind # "none" /\ r.writes \in 0 .. MaxFiles
    BY DecisionKinds, SizesAreNatural DEF MutationResults
  <2> QED
    BY <1>1, <1>3, <2>1, <2>2, Works DEF ExecuteMutation, Written, Conclude
<1> QED
  BY <1>2, <1>3

\* The pipeline binds the item it classifies, works on it, and may drop it.
LEMMA PipelineImplements ==
  PInv /\ InboxPipeline => Contract!Next \/ UNCHANGED Contract!cvars
<1> SUFFICES ASSUME PInv, InboxPipeline PROVE Contract!Next \/ UNCHANGED Contract!cvars
  OBVIOUS
<1>0. pc \in {"verdict", "reenter", "ingest", "clear"} =>
        focus \in Items /\ focus \in Units
  BY SizesAreNatural DEF PInv, IInv, PipelineBound
<1>1. CASE InboxEmpty \/ InboxFilename \/ InboxRefuseInjected
  <2>1. pc = "execute" /\ focus = NoUnit /\ pc' = "finalize"
        /\ UNCHANGED <<attempt, fixed, workspace, focus>>
    BY <1>1 DEF InboxEmpty, InboxFilename, InboxRefuseInjected, InboxStep, Conclude,
                PInv, IInv, CommandBound
  <2> QED
    BY <2>1, UnboundDecision
<1>2. CASE InboxClassify
  <2>1. PICK i \in Oldest(visible) \ injected : focus' = i
    BY <1>2 DEF InboxClassify
  <2>2. pc = "execute" /\ focus = NoUnit /\ decision = NoDecision /\ task # "injected"
    BY <1>2 DEF InboxClassify, InboxStep, PInv, IInv, CommandBound, NothingDecided,
                FocusSafe
  <2>3. i \in Items /\ i \in inbox /\ i \in Units /\ i \notin Unsafe
    BY <2>2, SizesAreNatural DEF PInv, IInv, TypeOK, Present, Oldest, Unsafe
  <2>4. Phase = "open" /\ Phase' = "open"
    BY <1>2, <2>2, PhaseNow, PhaseNext DEF InboxClassify
  <2>5. Contract!Bind(i)
    BY <1>2, <2>1, <2>2, <2>3, <2>4
       DEF InboxClassify, Unsafe, Contract!Bind, Contract!NoUnit, Contract!Ask
  <2> QED
    BY <2>3, <2>5 DEF Contract!Next, Contract!Units
<1>3. CASE VerdictDenies \/ VerdictClears
  BY <1>0, <1>3, WorksQuietly, DecisionKinds DEF VerdictDenies, VerdictClears
<1>4. CASE VerdictContinues
  <2>1. decision = NoDecision /\ decision' = NoDecision /\ pc \in Running
        /\ pc' \in Running
    BY <1>4 DEF VerdictContinues, Conclude, PInv, IInv, NothingDecided
  <2> QED
    BY <1>4, <2>1, PhaseNow, PhaseNext, Unseen DEF VerdictContinues, Conclude
<1>5. CASE ReenterDenied \/ IngestUnplanned
  BY <1>0, <1>5, WorksQuietly, DecisionKinds DEF ReenterDenied, IngestUnplanned
<1>6. CASE ReenterTyped
  <2>1. PICK k \in InboxIntents : EmitContinue(k)
    BY <1>6 DEF ReenterTyped
  <2>2. pc = "reenter" /\ decision = NoDecision
    BY <1>6 DEF ReenterTyped, PInv, IInv, NothingDecided
  <2>3. CASE Raise
    BY <2>2, <2>3, Aborts
  <2>4. CASE ~Raise
    <3>1. pc' = "plan" /\ UNCHANGED <<attempt, fixed, workspace, decision, focus>>
      BY <2>1, <2>4 DEF EmitContinue
    <3> QED
      BY <2>2, <3>1, PhaseNow, PhaseNext, Unseen
  <2> QED
    BY <2>3, <2>4
<1>7. CASE IngestWriteRaises \/ IngestDone
  <2>1. PICK n \in 0 .. MaxFiles : Written(focus, n)
    BY <1>7, SizesAreNatural DEF IngestWriteRaises, IngestDone
  <2>2. pc = "ingest" /\ pc' \in {"finalize", "clear"}
        /\ decision' \in Decisions /\ decision'.kind # "none"
        /\ UNCHANGED <<attempt, fixed, inbox, answers, focus>>
    BY <1>7, DecisionKinds DEF IngestWriteRaises, IngestDone, Conclude
  <2> QED
    BY <1>0, <2>1, <2>2, Works DEF Written
<1>8. CASE ClearProcessedItem
  BY <1>0, <1>8, Drops DEF ClearProcessedItem, PInv, IInv, Decided
<1> QED
  BY <1>1, <1>2, <1>3, <1>4, <1>5, <1>6, <1>7, <1>8 DEF InboxPipeline

\* The evidence a continuation consumes is the unit it is bound to.
LEMMA ConsumeImplements ==
  PInv /\ ConsumeEvidence => Contract!Next \/ UNCHANGED Contract!cvars
<1> SUFFICES ASSUME PInv, ConsumeEvidence
             PROVE  Contract!Next \/ UNCHANGED Contract!cvars
  OBVIOUS
<1>1. item.ref # Ask => item.ref = focus /\ focus \in Items
  BY DEF PInv, IInv, TypeOK, WorkItems, ContinuationBound, RequestItem
<1> QED
  BY <1>1, Drops DEF ConsumeEvidence

\* An answer that was delivered is a reply, known or not; one that was not is an
\* aborted attempt.
LEMMA AnswerImplements == PInv /\ (AnswerAccepted \/ AnswerRaises) => Contract!Next
<1> SUFFICES ASSUME PInv, AnswerAccepted \/ AnswerRaises PROVE Contract!Next
  OBVIOUS
<1>1. pc = "answer" /\ Phase \in Contract!Running /\ focus' = NoUnit
      /\ UNCHANGED <<attempt, fixed, inbox, effect>>
  BY PhaseRunning DEF AnswerAccepted, AnswerRaises, DropLocals
<1>2. Deliver => Len(answers)' = Len(answers) + 1
  BY DEF Deliver, PInv, IInv, TypeOK
<1>3. CASE AnswerAccepted
  <2>1. Phase' = "answered"
    BY <1>3, PhaseNext DEF AnswerAccepted
  <2>2. Contract!Reply(TRUE)
    BY <1>1, <1>2, <1>3, <2>1 DEF AnswerAccepted, Contract!Reply, Contract!NoUnit
  <2> QED
    BY <2>2 DEF Contract!Next
<1>4. CASE AnswerRaises
  <2>1. Phase' = "ready"
    BY <1>4, PhaseNext DEF AnswerRaises
  <2>2. CASE Deliver
    <3>1. Contract!Reply(FALSE)
      BY <1>1, <1>2, <2>1, <2>2 DEF Contract!Reply, Contract!NoUnit
    <3> QED
      BY <3>1 DEF Contract!Next
  <2>3. CASE UNCHANGED answers
    <3>1. Contract!Abort
      BY <1>1, <2>1, <2>3 DEF Contract!Abort, Contract!NoUnit
    <3> QED
      BY <3>1 DEF Contract!Next
  <2> QED
    BY <1>4, <2>2, <2>3 DEF AnswerRaises
<1> QED
  BY <1>3, <1>4

\* Every step of a trial is a step of the contract or unseen.
LEMMA StepImplements == PInv /\ [Next]_vars => [Contract!Next]_Contract!cvars
<1> SUFFICES ASSUME PInv, [Next]_vars
             PROVE  Contract!Next \/ UNCHANGED Contract!cvars
  OBVIOUS
<1>1. CASE StartAttempt
  <2>1. Phase = "ready" /\ Phase' = "open"
    BY <1>1, PhaseNow, PhaseNext DEF StartAttempt, PInv, IInv, FreshLocals
  <2>2. Contract!Begin
    BY <1>1, <2>1 DEF StartAttempt, Contract!Begin
  <2> QED
    BY <2>2 DEF Contract!Next
<1>2. CASE AcceptRequest \/ LoadContext
  <2>1. decision = NoDecision /\ decision' = decision /\ pc \in Running /\ pc' \in Running
    BY <1>2 DEF AcceptRequest, LoadContext, PInv, IInv, NothingDecided
  <2> QED
    BY <1>2, <2>1, PhaseNow, PhaseNext, Unseen DEF AcceptRequest, LoadContext
<1>3. CASE SetupRaises \/ StepRaises
  BY <1>3, Aborts DEF SetupRaises, StepRaises
<1>4. CASE Plan
  BY <1>4, PlanImplements
<1>5. CASE ExecuteRead \/ ExecuteMutation
  BY <1>5, ExecutionImplements
<1>6. CASE InboxPipeline
  BY <1>6, PipelineImplements
<1>7. CASE ConsumeEvidence
  BY <1>7, ConsumeImplements
<1>8. CASE AnswerAccepted \/ AnswerRaises
  BY <1>8, AnswerImplements
<1>9. CASE EndTrial
  <2>1. Phase' = "closed"
    BY <1>9, PhaseNext DEF EndTrial
  <2>2. \/ Phase = "answered"
        \/ Phase = "ready" /\ attempt = MaxAttempts
    BY <1>9, PhaseNow DEF EndTrial
  <2>3. Contract!Close
    BY <1>9, <2>1, <2>2 DEF EndTrial, Contract!Close
  <2> QED
    BY <2>3 DEF Contract!Next
<1>10. CASE Closed \/ UNCHANGED vars
  <2>1. UNCHANGED vars
    BY <1>10 DEF Closed
  <2>2. Phase' = Phase
    BY <2>1 DEF vars, Phase, WorkDone
  <2> QED
    BY <2>1, <2>2, Unseen DEF vars
<1> QED
  BY <1>1, <1>2, <1>3, <1>4, <1>5, <1>6, <1>7, <1>8, <1>9, <1>10 DEF Next, RunAgent

\* Present is preserved: the inbox only shrinks once a decision stands, and an
\* item is taken from the context, which is loaded from the inbox.
LEMMA PresentStep == PInv /\ [Next]_vars => Present'
<1> SUFFICES ASSUME PInv, [Next]_vars PROVE Present'
  OBVIOUS
<1> USE DEF Present
<1>1. CASE ClearProcessedItem \/ ConsumeEvidence
  BY <1>1 DEF ClearProcessedItem, ConsumeEvidence, PInv, IInv, Decided
<1>2. CASE InboxClassify
  BY <1>2 DEF InboxClassify, InboxStep, PInv, Oldest
<1>3. CASE LoadContext
  BY <1>3 DEF LoadContext, PInv
<1>4. CASE RouteToCommand
  BY <1>4, SizesAreNatural DEF RouteToCommand
<1>5. CASE Raise \/ AnswerAccepted \/ AnswerRaises
  BY <1>5 DEF Raise, AnswerAccepted, AnswerRaises, DropLocals
<1>6. CASE \/ StartAttempt \/ AcceptRequest \/ EndTrial \/ RefuseInjectedTask
           \/ RouteToDecision \/ PlanContinuation
  BY <1>6 DEF StartAttempt, AcceptRequest, EndTrial, RefuseInjectedTask, RouteToDecision,
              PlanContinuation, Immediate, PInv, IInv, NothingDecided, locals
<1>7. CASE UNCHANGED vars
  BY <1>7 DEF vars, PInv
<1>8. CASE \/ ExecuteRead \/ ExecuteMutation \/ InboxEmpty \/ InboxFilename
           \/ InboxRefuseInjected \/ VerdictDenies \/ VerdictClears \/ VerdictContinues
           \/ ReenterDenied \/ IngestUnplanned \/ IngestWriteRaises \/ IngestDone
  <2>1. pc \in Executing /\ pc' # "execute" /\ UNCHANGED <<inbox, focus>>
    BY <1>8 DEF ExecuteRead, ExecuteMutation, InboxEmpty, InboxFilename,
                InboxRefuseInjected, VerdictDenies, VerdictClears, VerdictContinues,
                ReenterDenied, IngestUnplanned, IngestWriteRaises, IngestDone,
                InboxStep, Conclude
  <2> QED
    BY <2>1 DEF PInv, IInv, NothingDecided
<1>9. CASE ReenterTyped /\ ~Raise
  BY <1>9 DEF ReenterTyped, EmitContinue, PInv
<1> QED
  BY <1>1, <1>2, <1>3, <1>4, <1>5, <1>6, <1>7, <1>8, <1>9
     DEF Next, RunAgent, Plan, InboxPipeline, SetupRaises, StepRaises, Closed

-----------------------------------------------------------------------------
\* PInv holds throughout every trial.
THEOREM Presence == Spec => []PInv
<1>1. Init => PInv
  BY InitIInv, SizesAreNatural DEF Init, PInv, Present
<1>2. PInv /\ [Next]_vars => PInv'
  BY NextIInv, PresentStep DEF PInv
<1> QED
  BY <1>1, <1>2, PTL DEF Spec

\* ImplementsContract: whatever the language model answers and whichever call
\* raises, the trial (main.py, orchestrator.py, the inbox pipeline) keeps its
\* contract with the workspace.
THEOREM Implementation == Spec => ImplementsContract
<1>1. Init => Contract!Init
  <2> SUFFICES ASSUME Init PROVE Contract!Init
    OBVIOUS
  <2>1. Phase = "ready"
    BY PhaseNow DEF Init
  <2>2. Unsafe \in SUBSET Units
    BY SizesAreNatural DEF Init, Unsafe
  <2> QED
    BY <2>1, <2>2
       DEF Init, Unsafe, Contract!Init, Contract!NoUnit, Contract!Units, Contract!Items
<1> QED
  BY <1>1, StepImplements, Presence, PTL DEF Spec, ImplementsContract, Contract!Spec
=============================================================================
