--------------------------- MODULE PublicMachine ---------------------------
(***************************************************************************)
(* One benchmark trial: main.py's attempt loop around run_agent, the       *)
(* Request -> WorkItem -> Plan -> Decision loop of orchestrator.py, the    *)
(* dispatch of execution_engine.py and the inbox pipeline.                 *)
(*                                                                         *)
(* The workspace lives in a remote virtual machine and outlives an         *)
(* attempt: inbox, effect and answers are its state, everything else is a  *)
(* local of run_agent and is lost when an attempt raises.  What the        *)
(* language model returns is any value its schema admits.  A remote write, *)
(* delete or answer that raises may have taken effect or not.              *)
(***************************************************************************)
EXTENDS ContinuationBudget, Sequences, FiniteSets

CONSTANTS
  NItems,       \* inbox items at the start, numbered in received_at order
  MaxAttempts,  \* PAC1_TRIAL_RETRY
  MaxDepth,     \* DEFAULT_CONTINUATION_MAX_DEPTH
  MaxSteps,     \* DEFAULT_CONTINUATION_MAX_STEPS
  MaxFiles      \* files one mutation or ingest step touches at most

ASSUME SizesAreNatural ==
  /\ NItems \in Nat
  /\ MaxAttempts \in Nat
  /\ MaxDepth \in Nat
  /\ MaxSteps \in Nat \ {0}
  /\ MaxFiles \in Nat \ {0}

VARIABLES
  attempt,      \* attempts started
  pc,           \* where the attempt is
  task,         \* what the instruction of the trial is like
  injected,     \* inbox items whose body trips the injection preflight
  inbox,        \* inbox items present in the workspace
  effect,       \* writes that reached the workspace, per unit of work
  answers,      \* outcomes delivered to the harness by vm.answer
  item,         \* current_work_item
  command,      \* the atomic command of the current plan
  visible,      \* inbox items of the loaded context
  decision,     \* the decision of the executed step
  focus,        \* history: the unit of work the attempt is bound to
  touched,      \* history: units this attempt wrote for or deleted
  interpreted   \* history: units whose text a language model has read

workspace == <<inbox, effect, answers>>
fixed == <<task, injected>>
locals == <<item, command, visible, decision, focus, touched>>
vars == <<attempt, pc, task, injected, inbox, effect, answers, item, command,
          visible, decision, focus, touched, interpreted>>

-----------------------------------------------------------------------------
(* Units of work, commands, decisions *)

Ask == 0
NoUnit == -1
Items == 1 .. NItems
Units == 0 .. NItems

\* Typed commands by what execution distinguishes.  "read" stands for every
\* lookup and query; "inbox" and "inbox_name" are InboxProcessNextCommand
\* without and with filename_only.
Mutations == {"finance", "outbox", "queue", "project"}
InboxKinds == {"inbox", "inbox_name"}
Kinds == {"read"} \cup Mutations \cup InboxKinds

\* StepPolicyClass.AUTHZ_REQUIRED in the step registry.
AuthzRequired == Mutations \cup InboxKinds

\* INBOX_TYPED_CONTINUATION_INTENTS: no inbox re-entry, no project mutation.
InboxIntentsWithInbox == {"read", "finance", "outbox", "queue", "inbox"}
InboxIntents == {"read", "finance", "outbox", "queue"}

\* The command types the inbox workflow stamps.
WorkflowStampedWithoutQueue == {"finance", "outbox"}
WorkflowStamped == {"finance", "outbox", "queue"}

NoCommand == [kind |-> "none", authz |-> "none"]
Commands == [kind : Kinds \cup {"none"}, authz : {"none", "user", "workflow"}]

StampRequest(k) ==
  [kind |-> k, authz |-> IF k \in AuthzRequired THEN "user" ELSE "none"]

StampWorkflow(k) ==
  [kind |-> k, authz |-> IF k \in WorkflowStamped THEN "workflow" ELSE "none"]

\* A decision with the family of its reason_code: the suffix decides how
\* classify_task_outcome types a done decision.
NoDecision == [kind |-> "none", reason |-> "none"]
Decide(k) == [kind |-> k, reason |-> "denied"]
Done(reason) == [kind |-> "done", reason |-> reason]

Decisions ==
  [kind : {"none", "done", "clarify", "blocked", "unsupported"},
   reason : {"none", "denied", "resolved", "succeeded"}]

OutcomeName(k) ==
  CASE k = "done" -> "OUTCOME_OK"
    [] k = "blocked" -> "OUTCOME_DENIED_SECURITY"
    [] k = "clarify" -> "OUTCOME_NONE_CLARIFICATION"
    [] k = "unsupported" -> "OUTCOME_NONE_UNSUPPORTED"

OutcomeNames == {"OUTCOME_OK", "OUTCOME_DENIED_SECURITY",
                 "OUTCOME_NONE_CLARIFICATION", "OUTCOME_NONE_UNSUPPORTED"}

\* classify_task_outcome: only a reason that ends in "_completed" is a
\* completed mutation, and no reason code the runtime emits does.
OutcomeKind(d) ==
  CASE d.kind = "clarify" -> "clarification_requested"
    [] d.kind = "blocked" -> "security_violation"
    [] d.kind = "unsupported" -> "unsupported"
    [] d.kind = "done" /\ d.reason = "completed" -> "mutation_completed"
    [] d.kind = "done" /\ d.reason = "succeeded" -> "factual_answer"
    [] d.kind = "done" /\ d.reason = "resolved" -> "query_answered"

ReadOnlyOutcomes == {"factual_answer", "query_answered", "report_generated"}
DenialOutcomes == {"clarification_requested", "unsupported", "security_violation"}

\* A request carries no budget; every consumer puts the default in its place.
RequestItem ==
  [origin |-> "request", depth |-> 0, budget |-> InitialBudget(MaxDepth, MaxSteps),
   command |-> NoCommand, ref |-> Ask]

ContinuationItemKeepingBudget(parent, cmd, ref) ==
  [origin |-> "continuation", depth |-> parent.depth + 1,
   budget |-> parent.budget, command |-> cmd, ref |-> ref]

ContinuationItem(parent, cmd, ref) ==
  [origin |-> "continuation", depth |-> parent.depth + 1,
   budget |-> ChildBudget(parent.budget), command |-> cmd, ref |-> ref]

WorkItems ==
  [origin : {"request", "continuation"}, depth : Nat, budget : Budget,
   command : Commands, ref : Units]

\* _pick_next_item: the item with the least received_at, if there is one.
Oldest(S) == {i \in S : \A j \in S : i <= j}

-----------------------------------------------------------------------------
Init ==
  /\ attempt = 0
  /\ pc = "idle"
  /\ task \in {"clean", "injected", "blank"}
  /\ injected \in SUBSET Items
  /\ inbox = Items
  /\ effect = [u \in Units |-> 0]
  /\ answers = << >>
  /\ item = RequestItem
  /\ command = NoCommand
  /\ visible = {}
  /\ decision = NoDecision
  /\ focus = NoUnit
  /\ touched = {}
  /\ interpreted = {}

\* run_agent's locals are gone: the attempt returned or raised.
DropLocals ==
  /\ item' = RequestItem
  /\ command' = NoCommand
  /\ visible' = {}
  /\ decision' = NoDecision
  /\ focus' = NoUnit
  /\ touched' = {}

\* An exception nobody catches below _execute_trial: the loop goes on to the
\* next attempt, if there is one, on the workspace as it now is.
Raise ==
  /\ pc' = "idle"
  /\ DropLocals
  /\ UNCHANGED <<attempt, fixed, workspace, interpreted>>

-----------------------------------------------------------------------------
(* The attempt loop *)

StartOneAttemptTooMany ==
  /\ pc = "idle"
  /\ attempt <= MaxAttempts
  /\ attempt' = attempt + 1
  /\ pc' = "start"
  /\ UNCHANGED <<fixed, workspace, locals, interpreted>>

StartUncounted ==
  /\ pc = "idle"
  /\ attempt < MaxAttempts
  /\ pc' = "start"
  /\ UNCHANGED <<attempt, fixed, workspace, locals, interpreted>>

StartAttempt ==
  /\ pc = "idle"
  /\ attempt < MaxAttempts
  /\ attempt' = attempt + 1
  /\ pc' = "start"
  /\ UNCHANGED <<fixed, workspace, locals, interpreted>>

\* Client, gateway, Request, WorkItem, policies.  A blank goal is a
\* WorkItemContractError.
AcceptRequest ==
  /\ pc = "start"
  /\ task # "blank"
  /\ pc' = "plan"
  /\ UNCHANGED <<attempt, fixed, workspace, locals, interpreted>>

SetupRaises ==
  /\ pc = "start"
  /\ Raise

EndTrialAfterFirstFailure ==
  /\ pc \in {"answered", "idle"}
  /\ attempt > 0
  /\ pc' = "closed"
  /\ UNCHANGED <<attempt, fixed, workspace, locals, interpreted>>

EndTrial ==
  /\ \/ pc = "answered"
     \/ pc = "idle" /\ attempt = MaxAttempts
  /\ pc' = "closed"
  /\ UNCHANGED <<attempt, fixed, workspace, locals, interpreted>>

-----------------------------------------------------------------------------
(* STEP 3: a work item becomes a plan *)

\* An immediate decision goes straight to the answer.
Immediate(d) ==
  /\ decision' = d
  /\ pc' = "answer"
  /\ UNCHANGED <<attempt, fixed, workspace, item, command, visible, focus, touched>>

\* The injection preflight runs before the first call to the language model.
RefuseInjectedTask ==
  /\ pc = "plan"
  /\ item.origin = "request"
  /\ task = "injected"
  /\ Immediate(Decide("blocked"))
  /\ UNCHANGED interpreted

\* No supported intent, or no typed payload.
RouteToDecision ==
  /\ pc = "plan"
  /\ item.origin = "request"
  /\ task # "injected"
  /\ interpreted' = interpreted \cup {Ask}
  /\ \E k \in {"clarify", "unsupported"} : Immediate(Decide(k))

RouteToCommand ==
  /\ pc = "plan"
  /\ item.origin = "request"
  /\ task # "injected"
  /\ interpreted' = interpreted \cup {Ask}
  /\ \E k \in Kinds :
       /\ command' = StampRequest(k)
       /\ focus' = IF k \in InboxKinds THEN NoUnit ELSE Ask
  /\ pc' = "load"
  /\ UNCHANGED <<attempt, fixed, workspace, item, visible, decision, touched>>

PlanContinuation ==
  /\ pc = "plan"
  /\ item.origin = "continuation"
  /\ command' = item.command
  /\ pc' = "load"
  /\ UNCHANGED <<attempt, fixed, workspace, item, visible, decision, focus, touched,
                 interpreted>>

-----------------------------------------------------------------------------
(* STEP 4: load the context, execute the command *)

\* A document that cannot be listed or read is left out of the context.
LoadContext ==
  /\ pc = "load"
  /\ \E readable \in SUBSET inbox :
       visible' = IF command.kind \in InboxKinds THEN readable ELSE {}
  /\ pc' = "execute"
  /\ UNCHANGED <<attempt, fixed, workspace, item, command, decision, focus, touched,
                 interpreted>>

\* vm.context, or anything else in the step that has no handler of its own.
\* The gateway itself never raises: a provider error is a result.
StepRaises ==
  /\ pc \in {"load", "execute", "verdict", "reenter", "ingest"}
  /\ Raise

Conclude(d, next) ==
  /\ decision' = d
  /\ pc' = next
  /\ UNCHANGED <<attempt, fixed, item, command, visible>>

ExecuteRead ==
  /\ pc = "execute"
  /\ command.kind = "read"
  /\ \E d \in {Done("succeeded"), Decide("clarify"), Decide("blocked"),
               Decide("unsupported")} : Conclude(d, "finalize")
  /\ UNCHANGED <<workspace, focus, touched, interpreted>>

\* Without a stamp the mutation is refused.  With one, the handlers resolve it
\* to a status; only a resolved mutation writes, and a write that raises is
\* swallowed, so that a done decision may or may not have an effect.
MutationResults(cmd) ==
  IF cmd.authz = "none" THEN {[decision |-> Decide("blocked"), writes |-> 0]}
  ELSE    {[decision |-> Decide(k), writes |-> 0] :
             k \in {"clarify", "blocked", "unsupported"}}
     \cup {[decision |-> Done("resolved"), writes |-> n] : n \in 0 .. MaxFiles}

Written(u, n) ==
  /\ effect' = [effect EXCEPT ![u] = @ + n]
  /\ touched' = IF n > 0 THEN touched \cup {u} ELSE touched

ExecuteMutation ==
  /\ pc = "execute"
  /\ command.kind \in Mutations
  /\ \E r \in MutationResults(command) :
       /\ Written(focus, r.writes)
       /\ Conclude(r.decision, "finalize")
  /\ UNCHANGED <<inbox, answers, focus, interpreted>>

-----------------------------------------------------------------------------
(* The inbox pipeline *)

InboxStep == pc = "execute" /\ command.kind \in InboxKinds

InboxEmpty ==
  /\ InboxStep
  /\ visible = {}
  /\ Conclude(Decide("clarify"), "finalize")
  /\ UNCHANGED <<workspace, focus, touched, interpreted>>

InboxFilename ==
  /\ InboxStep
  /\ visible # {}
  /\ command.kind = "inbox_name"
  /\ Conclude(Done("resolved"), "finalize")
  /\ UNCHANGED <<workspace, focus, touched, interpreted>>

InboxRefuseInjected ==
  /\ InboxStep
  /\ command.kind = "inbox"
  /\ Oldest(visible) \cap injected # {}
  /\ Conclude(Decide("blocked"), "finalize")
  /\ UNCHANGED <<workspace, focus, touched, interpreted>>

ClassifyBeforePreflight ==
  /\ InboxStep
  /\ command.kind = "inbox"
  /\ \E i \in Oldest(visible) :
       /\ focus' = i
       /\ interpreted' = interpreted \cup {i}
  /\ pc' = "verdict"
  /\ UNCHANGED <<attempt, fixed, workspace, item, command, visible, decision, touched>>

\* The classifier reads the body of the oldest item.  An empty body is not
\* read; it ends like a verdict that asks for clarification.
InboxClassify ==
  /\ InboxStep
  /\ command.kind = "inbox"
  /\ \E i \in Oldest(visible) \ injected :
       /\ focus' = i
       /\ interpreted' = interpreted \cup {i}
  /\ pc' = "verdict"
  /\ UNCHANGED <<attempt, fixed, workspace, item, command, visible, decision, touched>>

\* A refusal of the classifier or of the policy on top of it, or no verdict.
VerdictDenies ==
  /\ pc = "verdict"
  /\ \E k \in {"clarify", "blocked"} : Conclude(Decide(k), "finalize")
  /\ UNCHANGED <<workspace, focus, touched, interpreted>>

\* "no actionable step; cleared from queue".
VerdictClears ==
  /\ pc = "verdict"
  /\ Conclude(Done("resolved"), "clear")
  /\ UNCHANGED <<workspace, focus, touched, interpreted>>

VerdictContinues ==
  /\ pc = "verdict"
  /\ \E next \in {"reenter", "ingest"} : Conclude(NoDecision, next)
  /\ UNCHANGED <<workspace, focus, touched, interpreted>>

\* Without decide_continue's check that the child is ready.
EmitUnchecked(k) ==
  /\ item' = ContinuationItem(item, StampWorkflow(k), focus)
  /\ pc' = "plan"
  /\ command' = NoCommand
  /\ visible' = {}
  /\ UNCHANGED <<attempt, fixed, workspace, decision, focus, touched, interpreted>>

\* emit_typed_command_continue: a child that would be exhausted is a
\* DecisionContractError, which nobody catches; otherwise the child becomes
\* the current work item and the machine plans again.
EmitContinue(k) ==
  IF Exhausted(ChildBudget(item.budget))
  THEN Raise
  ELSE /\ item' = ContinuationItem(item, StampWorkflow(k), focus)
       /\ pc' = "plan"
       /\ command' = NoCommand
       /\ visible' = {}
       /\ UNCHANGED <<attempt, fixed, workspace, decision, focus, touched, interpreted>>

ReenterDenied ==
  /\ pc = "reenter"
  /\ \E k \in IF Exhausted(item.budget) THEN {"blocked"}
              ELSE {"clarify", "unsupported", "blocked"} :
       Conclude(Decide(k), "finalize")
  /\ UNCHANGED <<workspace, focus, touched, interpreted>>

\* A typed intent, a routed sub-task, an invoice e-mail or a payment.
ReenterTyped ==
  /\ pc = "reenter"
  /\ ~Exhausted(item.budget)
  /\ \E k \in InboxIntents : EmitContinue(k)

\* No plan for the documents: nothing has been written yet.
IngestUnplanned ==
  /\ pc = "ingest"
  /\ \E k \in IF Exhausted(item.budget) THEN {"blocked"} ELSE {"clarify"} :
       Conclude(Decide(k), "finalize")
  /\ UNCHANGED <<workspace, focus, touched, interpreted>>

\* The planned files are written one by one; the first write that raises ends
\* the step as blocked, whatever has been written.
IngestWriteRaises ==
  /\ pc = "ingest"
  /\ ~Exhausted(item.budget)
  /\ \E n \in 0 .. MaxFiles : Written(focus, n)
  /\ Conclude(Decide("blocked"), "finalize")
  /\ UNCHANGED <<inbox, answers, focus, interpreted>>

IngestDone ==
  /\ pc = "ingest"
  /\ ~Exhausted(item.budget)
  /\ \E n \in 1 .. MaxFiles : Written(focus, n)
  /\ Conclude(Done("resolved"), "clear")
  /\ UNCHANGED <<inbox, answers, focus, interpreted>>

\* A delete that raises is swallowed; the item may be gone or not.
Deleted(i) ==
  \/ /\ inbox' = inbox \ {i}
     /\ touched' = touched \cup {i}
  \/ UNCHANGED <<inbox, touched>>

\* The pipeline deletes the item whose work it decided done.
ClearProcessedItem ==
  /\ pc = "clear"
  /\ Deleted(focus)
  /\ pc' = "finalize"
  /\ UNCHANGED <<attempt, fixed, effect, answers, item, command, visible, decision,
                 focus, interpreted>>

-----------------------------------------------------------------------------
(* STEP 6-7: terminal decisions *)

ConsumeOldest ==
  /\ pc = "finalize"
  /\ IF decision.kind = "done" /\ item.ref # Ask /\ inbox # {}
     THEN \E i \in Oldest(inbox) : Deleted(i)
     ELSE UNCHANGED <<inbox, touched>>
  /\ pc' = "answer"
  /\ UNCHANGED <<attempt, fixed, effect, answers, item, command, visible, decision,
                 focus, interpreted>>

ConsumeWhateverDecided ==
  /\ pc = "finalize"
  /\ IF item.ref # Ask
     THEN Deleted(item.ref)
     ELSE UNCHANGED <<inbox, touched>>
  /\ pc' = "answer"
  /\ UNCHANGED <<attempt, fixed, effect, answers, item, command, visible, decision,
                 focus, interpreted>>

\* A done continuation consumes the inbox item it came from.
ConsumeEvidence ==
  /\ pc = "finalize"
  /\ IF decision.kind = "done" /\ item.ref # Ask
     THEN Deleted(item.ref)
     ELSE UNCHANGED <<inbox, touched>>
  /\ pc' = "answer"
  /\ UNCHANGED <<attempt, fixed, effect, answers, item, command, visible, decision,
                 focus, interpreted>>

Deliver == answers' = Append(answers, OutcomeName(decision.kind))

AnswerAccepted ==
  /\ pc = "answer"
  /\ Deliver
  /\ pc' = "answered"
  /\ DropLocals
  /\ UNCHANGED <<attempt, fixed, inbox, effect, interpreted>>

\* vm.answer raises: delivered or not, the attempt counts as failed.
AnswerRaises ==
  /\ pc = "answer"
  /\ Deliver \/ UNCHANGED answers
  /\ pc' = "idle"
  /\ DropLocals
  /\ UNCHANGED <<attempt, fixed, inbox, effect, interpreted>>

-----------------------------------------------------------------------------
Plan == RefuseInjectedTask \/ RouteToDecision \/ RouteToCommand \/ PlanContinuation

InboxPipeline ==
  \/ InboxEmpty \/ InboxFilename \/ InboxRefuseInjected
  \/ InboxClassify \/ VerdictDenies \/ VerdictClears \/ VerdictContinues
  \/ ReenterDenied \/ ReenterTyped
  \/ IngestUnplanned \/ IngestWriteRaises \/ IngestDone
  \/ ClearProcessedItem

RunAgent ==
  \/ AcceptRequest \/ SetupRaises
  \/ Plan
  \/ LoadContext \/ StepRaises
  \/ ExecuteRead \/ ExecuteMutation \/ InboxPipeline
  \/ ConsumeEvidence \/ AnswerAccepted \/ AnswerRaises

Closed == pc = "closed" /\ UNCHANGED vars

Next == StartAttempt \/ RunAgent \/ EndTrial \/ Closed

\* Every remote call has a client-side timeout: it returns or raises.
Fairness == WF_vars(StartAttempt \/ RunAgent \/ EndTrial)

Spec == Init /\ [][Next]_vars /\ Fairness

-----------------------------------------------------------------------------
(* Properties *)

Programme == {"idle", "start", "plan", "load", "execute", "verdict", "reenter",
              "ingest", "clear", "finalize", "answer", "answered", "closed"}

\* The state has its type: the loop of main.py never makes more attempts than
\* PAC1_TRIAL_RETRY, and the locals of run_agent stay within their classes.
TypeOK ==
  /\ attempt \in 0 .. MaxAttempts
  /\ pc \in Programme
  /\ task \in {"clean", "injected", "blank"}
  /\ injected \subseteq Items
  /\ inbox \subseteq Items
  /\ effect \in [Units -> Nat]
  /\ answers \in Seq(OutcomeNames)
  /\ item \in WorkItems
  /\ command \in Commands
  /\ visible \subseteq Items
  /\ decision \in Decisions
  /\ focus \in Units \cup {NoUnit}
  /\ touched \subseteq Units
  /\ interpreted \subseteq Units

\* The preflight of request_planning.py and of inbox_workflow.py runs before
\* the first call to the language model, in every attempt: an inbox item it
\* refuses is never read by a model, never written for and never deleted, and
\* a trial whose instruction it refuses touches nothing and answers nothing
\* but a denial.
InjectedUntouched ==
  /\ injected \subseteq inbox
  /\ injected \cap interpreted = {}
  /\ \A i \in injected : effect[i] = 0
  /\ task = "injected" =>
       /\ inbox = Items
       /\ interpreted = {}
       /\ \A u \in Units : effect[u] = 0
       /\ \A n \in 1 .. Len(answers) : answers[n] = "OUTCOME_DENIED_SECURITY"

\* An attempt writes for, and deletes, one unit of work only: the request, or
\* the inbox item the pipeline picked, though the item travels as a path
\* through a continuation and is deleted two steps later (request_planning.py,
\* consume_inbox_evidence_if_needed).
OneUnitPerAttempt == touched \subseteq {focus}

\* An item leaves the inbox only while its own work stands decided done.
ConsumedOnlyWhenDone ==
  [][\A i \in inbox \ inbox' : decision.kind = "done" /\ focus = i]_vars

\* continuation_work_item: whatever the chain, a work item that runs has budget
\* left and carries the budget of its own depth, so that the chain ends.
BudgetOK ==
  /\ OnChain(item.budget, MaxDepth, MaxSteps)
  /\ item.depth = item.budget.current_depth
  /\ item.origin = "continuation" => ~Exhausted(item.budget)

\* Every mutation that comes to execution carries an authorization stamp: the
\* intents the inbox may emit (typed_reentry.py) stay within the command types
\* the inbox workflow stamps (inbox_command_enrichment.py), and the request
\* stamps what the step registry declares.
PlannedMutationsStamped ==
  pc = "execute" /\ command.kind \in Mutations => command.authz # "none"

\* At most one answer is delivered per attempt, and the harness closes a trial
\* without one only when every attempt has been used up.
AnswersAccounted ==
  /\ Len(answers) <= attempt
  /\ pc = "closed" /\ answers = << >> => attempt = MaxAttempts

\* The trial ends: every raise spends an attempt and every chain of
\* continuations runs out of budget.
Closes == <>(pc = "closed")

-----------------------------------------------------------------------------
(* The trial implements its contract *)

WorkDone == decision.kind = "done"

Phase ==
  IF pc = "idle" THEN "ready"
  ELSE IF pc \in {"answered", "closed"} THEN pc
  ELSE IF focus = NoUnit \/ decision = NoDecision THEN "open"
  ELSE IF ~WorkDone THEN "denied"
  ELSE IF focus \in Items \ inbox THEN "dropped"
  ELSE "settled"

Contract == INSTANCE TrialContract WITH
  MaxWrites <- MaxFiles,
  phase <- Phase,
  unit <- focus,
  unsafe <- injected \cup (IF task = "injected" THEN {Ask} ELSE {}),
  replies <- Len(answers)

\* TrialContract: one unit of work per attempt, done before it is dropped.
ImplementsContract == Contract!Spec

-----------------------------------------------------------------------------
(* What domain/process/outcome_contract.py states of every decision *)

\* "Read-only outcomes must not have emitted side effects."
ReadOnlyOutcomesEmitNothing ==
  pc = "answer" /\ OutcomeKind(decision) \in ReadOnlyOutcomes => touched = {}

\* "Denial outcomes (clarification / unsupported / security) must not have
\* emitted side effects either."
DenialsEmitNothing ==
  pc = "answer" /\ OutcomeKind(decision) \in DenialOutcomes => touched = {}
=============================================================================
