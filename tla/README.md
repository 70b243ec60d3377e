# A TLA+ model of pac1-py-domain-fit

The program is a benchmark agent. `main.py` starts a run on a remote harness and
executes its trials in a thread pool; a trial gives one instruction to
`run_agent`, which interprets it with a language model, decides and executes one
typed step on a remote workspace, and delivers one public answer. The language
model interprets, deterministic code decides. This directory models that code
in TLA+, checks the models with TLC and proves safety theorems with TLAPS.
Paths below are relative to `src/`.

## 1. Inventory

| Part | State it keeps | Operations | What is hard | What makes it correct |
| --- | --- | --- | --- | --- |
| Benchmark run, `main.py:286-408` | the run, the futures, `trial_results`, the pending exception | start the run, launch, collect, shut the pool down, submit, poll | remote calls and artifact writes that raise in every phase, Ctrl-C, a lost trial | the run is submitted once, not under running trials; a clean exit reports every trial; the process ends |
| Trial, `main.py:192-228` | attempts | start, up to `PAC1_TRIAL_RETRY` runs of the agent, end | a retry finds the workspace its predecessor left | one answer per attempt at most; the trial closes |
| Stdio capture, `thread_stdio.py` | one proxy per stream, a target stack per thread ident | install, push, pop, print | two trials install together; thread idents are reused | a print reaches the buffer of its own trial |
| Orchestrator, `runtime/orchestration` | current work item, plan, decision | preflight, plan, load the context, execute, continue, consume evidence, answer | a work item that comes back through a continuation; evidence deleted two components after the decision | injected text never reaches the model; only done work is consumed |
| Process objects, `domain/process` | immutable | budgets, work items, decisions, stamps | preconditions that raise | the chain of continuations ends |
| Authorization, `runtime/authorization`, `runtime/workflows/inbox_command_enrichment.py`, `task_routing/step_registry.py` | none | stamp | three tables that must agree | an executed mutation is stamped |
| Execution and mutations, `runtime/execution`, `application/mutations` | none | read, mutate, inbox | a write that raises is swallowed; a plan is made on records loaded earlier | what an attempt touches belongs to its unit of work; a mutation touches what its command names |
| Write-back, `runtime/io/mutation_persistence.py`, `formats` | the workspace | render, read-merge-write, batches, deletions, attachments | lost updates, half-done batches, calls that land late, fields a parser does not keep | what a write does not name survives it |
| Queue states, `domain/process/queue_state.py`, `application/mutations/queue_markdown.py` | markers in files | target, stamp, read | a batch that is half stamped; a target known by its name only | a batch is in order and on its targets |
| Finance records, `domain/finance`, `application/mutations/finance_*.py`, `loaders/finance.py` | finance files | create, update, bulk delete, settle, ingest | three descriptions of one total; numbers that are counted; the settlement gate | a written record can be loaded and updated again; evidence is complete |
| Inbox pipeline, `application/workflows`, `runtime/workflows`, `application/executors` | none | pick, preflight, classify, policy, re-enter, plan a workflow, ingest, clear | one of several steps fails; the choice is made on a loaded copy | the item picked is the item worked on and the item deleted; what it sets off is its sender's to ask for |
| Context, `runtime/context`, `runtime/io/vm_tools.py`, `loaders` | read cache | walk, list, read, build records, assemble | unreadable or truncated parts are left out silently; one file read for several kinds | without a failure nothing is missing; one file is one version |
| Gateway, `task_routing/openai_gateway.py`, `llm_port.py`, `record_selector.py` | none | attempt, retry, parse, select | rate limits, attempts shared by all errors, a reply that names what was not shown | a question ends; a caller keeps a valid reply or none |
| Lookups, `application/queries`, `application/resolvers`, `application/executors`, `domain` | none | resolve a record, read its value, cite it | look-alikes: shared titles, aliases, ids, file names, addresses | no guess; totals of one party; every answer is grounded |
| Trust tables, typed plans, deletion-safety objects | | | | no caller in the runtime, see section 7 |

The parts interact through calls: `main` starts trial threads; a trial calls
`run_agent`; the orchestrator calls planning, context, execution and I/O in
turn. They share three things: the remote workspace (across attempts), `sys.stdout`
(across threads) and the run on the harness. `PROJECT.json` lists every part with
its status, and the hazards with their lines.

## 2. Modules

| Module | Models | Used by |
| --- | --- | --- |
| `ContinuationBudget` | `domain/process/continuation.py`, as operators | `PublicMachine` |
| `PublicMachine` | one trial: attempt loop, orchestrator, dispatch, inbox pipeline, answer | `MCPublicMachine`, `PublicMachineProofs` |
| `TrialContract` | abstract: what a trial promises its workspace | refined by `PublicMachine` |
| `HarnessRun` | `main()`: main thread and pool | `MCHarnessRun` |
| `ThreadStdio` | `thread_stdio.py` | `MCThreadStdio` |
| `FinanceAggregate` | the finance record, its aggregate, the payment gate and the identity match, as operators | `FinanceLedger` |
| `FinanceLedger` | the finance files under mutations, ingest and late calls | `MCFinanceLedger` |
| `ContextNeeds` | which kinds of records a command needs, as operators | `ContextLoading`, `WorkspaceMutations` |
| `QueueMarkers` | markers and the targets of a batch, as operators | `WorkspaceMutations` |
| `WorkspaceMutations` | queue batches, outbox drafts, project deletions | `MCWorkspaceMutations` |
| `ContextLoading` | the walk, the reads and the policies of a context | `MCContextLoading` |
| `LanguageModel` | attempts, errors and selections of a question, as operators | `RecordLookup` |
| `RecordLookup`, `FinanceLookup`, `InboxItem` | what a lookup or an inbox item does until its next question to the model, as functions of the replies so far | one extends the other; `StepResolution` |
| `StepResolution` | a step with its questions, retries and answer | `MCStepResolution` |
| `RecordBuilding` | `loaders/`: documents to loaded records, as operators | `MCStepResolution` |
| `Selection` | the list comprehensions and sorted listings of the code, as a recursive function | `QueueMarkers`, `ContextLoading`, `LanguageModel` |
| `PublicMachineProofs` | theorems about `PublicMachine`, and that it implements `TrialContract` | |
| `InductionLemmas` | induction over numbers and sequences; what `Selection` returns | the four below |
| `FinanceLedgerProofs`, `ContextLoadingProofs`, `WorkspaceMutationsProofs`, `StepResolutionProofs` | theorems about the module they are named for | |
| `HarnessRunProofs`, `ThreadStdioProofs` | theorems about the module they are named for | |

### PublicMachine

`inbox`, `effect` and `answers` are the state of the remote workspace and of the
harness; they survive an attempt. `item`, `command`, `visible` and `decision` are
locals of `run_agent`; `DropLocals` resets them whenever an attempt returns or
raises. `pc` walks through the attempt in the order of the code:

    idle -> start -> plan -> load -> execute -> finalize -> answer -> answered -> closed
                      ^                 |
                      |                 +-> verdict -> clear -----> finalize
                      |                       |-> ingest -> clear
                      +------- continuation --+-> reenter

`focus`, `touched` and `interpreted` are history variables. They record the unit
of work an attempt is bound to (the request, or one inbox item), what it wrote
for or deleted, and whose text a model has read. They appear in no guard of the
code's own decisions except as the path that the pipeline carries (`evidence_ref`).

Abstractions. A command is reduced to what execution distinguishes. An
interpretation by the language model is any value its schema admits. A remote
write, delete or answer that raises may or may not have taken effect. A mutation
writes between 0 and `MaxFiles` files, because failed writes are swallowed. The
instruction is clean, injected (the preflight fires) or blank. Inbox items are
numbered by `received_at`; the loaded context is any subset of those present,
because an unreadable document is left out. An item with an empty body ends in
`VerdictDenies`, counted as interpreted although no model reads it.

`FollowUpSend` and `FollowUpReschedule` are registered steps that neither
the request planner nor the inbox can emit. Typed plans are not emitted
by the planner at this commit. `execute_inbox_typed_intent` and its siblings
(executed without a current work item) are unreachable from `run_agent`. None of
these is modelled.

### TrialContract

Per attempt: `Begin`, `Bind` at most one unit that is not unsafe, `Work` on it
once, `Drop` it only when the work was decided done, `Reply` or `Abort`. The
refinement mapping (`Phase` in `PublicMachine`) derives the phase from `pc`,
`focus`, `decision` and `inbox`.

### HarnessRun

`pc` is the position of the main thread, `error` the exception it unwinds;
`queue`, `running`, `ended` and `lost` are the pool. `Handler` maps the place
of an exception to where `with`, `finally` and `except` take it. `CallRaises` is
any remote call or artifact write that raises; `Interrupt` is Ctrl-C. The pool's
threads go on after the main thread has left, because the interpreter joins them.
A worker's trial is one step from `running` to `ended` or `lost`: what it does
inside is `PublicMachine`, whose `Closes` justifies the fairness of `PoolStep`.
A further Ctrl-C during the interpreter's own join is not modelled.

### ThreadStdio

One stream (`sys.stdout`); `sys.stderr` runs the same code on its own proxy.
Steps of a thread are one access to `sys.stdout`, one body under the proxy's lock,
or one operation on the install lock, so all the interleavings of the source are
there. A print reads `sys.stdout` first and asks the proxy for the target later.

### FinanceAggregate, FinanceLedger

A mutation is three steps: `Begin` loads the records (any subset of the files, an
unreadable one is left out), a plan action resolves the command as the handler
does, and the writes are made one by one. `PlanCreate`, `PlanUpdate`,
`PlanDelete` and `PlanIngest` end in an answer or in a list of remote calls. A
call that raises may have failed, be applied at once, or stay in `late` and land
during a later mutation. Rendering and parsing are functions between a record
and a document (`Rendered`, `Parsed`), with the roundings of both, because three
of the properties are about what a record is when it comes back. Amounts count in
quarters of a cent: an even count is exact (half a cent is the smallest the code
rounds), an odd one a sum of doubles that misses its decimal value. The code adds
doubles and compares them exactly, so which lists of items miss matters: they are
the constant `Drifting`, given to TLC as IEEE 754 adds them, and any set of lists
in the proofs. Quantities count in halves. A bulk deletion that names a type has no
candidates, because the type is compared with the text of an enum member
(`DeleteCandidates`). The record
keeps what the aggregate validates: total, items, state, evidence; notes and
further sections are present or not. A path is type, number and alias: created
files share their day and amount.

`read` and `settled` are history: whether the file about to be replaced could be
read, and whether no late call has landed since the records were loaded.

### QueueMarkers, ContextNeeds, WorkspaceMutations

The three mutations beside the finance ones on one workspace. The frontmatter
of a file is its fields by shape (flat, nested, from a table) and whether it is
valid YAML, since the fallback parser flattens what is nested. A merge is a read
step (`held`) and a write step, with late calls between them. Drafts are named by
the second of their context time; time counts in halves of a second so that two
drafts can share one. A draft keeps the files its request names and those of the
records it describes, which the attachment resolver looks for in a context without
finance records. A deletion finds the project by path, or takes the first one of the
candidate's title, project name or alias. `batches` and `sent` are history variables.

### ContextLoading

The walk is breadth-first over a queue of directories, with the depth and
file limits, three tries per listing and one per read. `assemble_workspace_runtime_resources`
reads kind by kind (`Reading`), through the cache, while one write of an earlier
attempt may change a file's version. The policies of the lanes are read last.
`failed` records whether any call of this load raised.

### LanguageModel, RecordLookup, FinanceLookup, InboxItem, StepResolution

The code between two questions to the model is deterministic, so a lookup is
written as a function of the command `q`, the loaded records `w` and the replies
already given: it returns the next question with the records shown, or the
answer (`Turn`). `StepResolution` is the state machine around it: `RunOn` evaluates
the code up to its next question, `AttemptFails`, `AttemptReplies` and `GiveUp`
are the gateway, and a reply is anything its schema admits, indices outside the
list included. An answer records which records the request was taken to mean
(`chosen`), which the value is of (`about`) and which are cited (`refs`).

`RecordLookup` has the queries for accounts, contacts, captures, entities,
messages, projects and queue states; `FinanceLookup` the finance questions
with their anchors, totals, the re-extraction and the fallback; `InboxItem` the
classification with its contract, the policy and the plans for an invoice
e-mail, a payment and a document ingest. An ingest plans all of its documents or none and
rewrites any note that can be read and has its fields (`derivable`), whether a record was loaded
from it or not; that the planned writes are then made one by one belongs to `PublicMachine`
(run `denials`) and `FinanceLedger`. Texts are values; case, spacing and the
wording of clarifications are left out.

### RecordBuilding

The loaders, as functions from documents (front matter and bullets, each a
sequence of values per field) to the records the lookups see: names, aliases,
relationships and links of entities, the entities a project is linked to,
messages, captures, accounts and contacts, ages and birthdays. The workspaces of
`MCStepResolution` are given as documents and built by it.

## 3. Runs

| Run | Bounds | Shows |
| --- | --- | --- |
| `trial` | 2 items, 2 attempts, budget (2, 2), 2 files | all invariants of the trial, that items leave the inbox only while done, the refinement of `TrialContract`, and that the trial closes |
| `trial_tight_budget` | budget (1, 1), 1 file | the branch of `emit_typed_command_continue` that raises; the default budget never takes it |
| `read_only_outcomes` | as `trial` | a divergence, see section 6 |
| `denials` | as `trial` | a divergence, see section 6 |
| `harness_run` | 3 trials, 2 workers, 1 poll, 2 interrupts | the protocol of the run |
| `thread_stdio` | 2 workers, 2 captures each | isolation of the output of trials |
| `finance_ledger` | a bill and an invoice of one alias, one item name, 2 mutations, 3 items per record at 35 cents | what creations, updates, deletions and ingests may do to the records, with failed reads and late writes |
| `finance_reload` | as `finance_ledger` | a divergence, see section 6 |
| `workspace_mutations` | 2 documents of one name, 1 unknown target, 3 projects, 3 points of time, 2 mutations | batches, drafts and deletions keep to their targets |
| `context_loading` | 6 directories, 8 files, depth 1, 5 files | completeness, one version per file, the end of the load |
| `root_policy` | as `context_loading` | a divergence, see section 6 |
| `step_resolution` | 3 workspaces, every kind of lookup and of inbox verdict, 2 attempts, 2 records shown per question | no guess, one party per total, grounded answers, what a sender may set off, no question twice, the end of the step |

Why the bounds are enough. Two items separate "the oldest" from "the one picked"
and one unit from another; two attempts (the default of `PAC1_TRIAL_RETRY`) are
what a retry needs; (2, 2) is the code's own default budget, and (1, 1) the
one with which no continuation could ever run. Two files make a partial ingest.
Three trials on two workers give one queued trial while one runs and one is lost;
two interrupts let the second strike the wait the first one caused. Two captures
per worker reuse a thread ident. The safety properties of all machines are also
proved for every value of these constants (section 4).

Two mutations in `finance_ledger` and `workspace_mutations` let a call that was
given up on land between the load and the write of the next mutation, or between
the two halves of a merge. The one amount of `finance_ledger` is one its item does not
give. Its items are half a unit or a whole one at 35 cents, up to three of them: their totals
are whole cents, end in half a cent, or miss the whole cents in doubles (3 x .35 is
1.0499999999999998). The documents of
`workspace_mutations` share a name across directories; of its projects (`p1` named alpha, `p10`
titled beta with alias b, `q` named quay with alias b and without a readme) two share an alias
and two have roots of which one is a text prefix of the other. The workspace of `context_loading` has a
file below the depth limit, and as many files in reach as the limit admits,
or one fewer. The workspaces of `step_resolution` hold every look-alike the
resolvers have to tell apart: entities that share an alias, an id or an address,
projects of one title, one contact or two, records of one file name in two
directories, a record without a total, a readable note that is no loaded record; two records shown and a list of more than two
give the limit of a question; a reply that selects names two at most, enough to repeat one. Two attempts (the code
makes at least three) are one retry and one last error.

Fairness. `PublicMachine`: weak fairness of the trial's own steps together; the
code is sequential and each remote call has a client-side timeout, so it returns
or raises. `HarnessRun`: weak fairness of the main thread and of the pool; Ctrl-C
is not fair. `ThreadStdio`: weak fairness of each worker's steps and of taking the
lock; strong fairness of ending a capture, because a trial prints finitely often.
The main thread's prints are not fair. `ContextLoading`: weak fairness of the load's steps, for the
reason given for the trial. `StepResolution`: weak fairness of the deterministic code
(stated as its effect on `question`, which it always has) and of the three gateway
actions together; every call of the client returns or raises. The mutation modules
state safety only.

Deadlock is checked in every run; each terminal state has an explicit
stuttering action.

Each property has a mutant in `PROJECT.json`: a changed definition that a
plausible slip in the code would produce and under which TLC finds the property
violated. The mutated operators stand before the ones they replace.

## 4. Proofs

### The trial

`PublicMachineProofs` proves, for every number of items, attempts and files
and for every budget with at least one step:

| Theorem | Property |
| --- | --- |
| `TypeCorrect` | `TypeOK` |
| `PreflightHolds` | `InjectedUntouched` |
| `OneUnit` | `OneUnitPerAttempt` |
| `BudgetHolds` | `BudgetOK` |
| `MutationsStamped` | `PlannedMutationsStamped` |
| `AnswersHold` | `AnswersAccounted` |
| `ConsumptionFollowsWork` | `ConsumedOnlyWhenDone` |

`PublicMachineProofs` also proves `Implementation`: every trial satisfies
`ImplementsContract`. Each step of the trial is shown to be one step of the
contract, or to leave its state alone; `PhaseNow` and `PhaseNext` are the mapping,
`Works`, `Drops`, `Aborts` and `UnboundDecision` the steps that several actions
share. It needs one more invariant, `Present`: the item an attempt may be bound to,
or is bound to and has not decided, is still in the inbox.

The only assumption is `SizesAreNatural`. None of the properties but `TypeOK` is
inductive: each speaks of the end of an attempt, and the steps that lead there
have to be related to it. `IInv` adds, per `pc`, what the locals look like:
`FreshLocals` and `NothingDecided` (nothing is left over from the last attempt and
nothing was touched before execution), `ContinuationBound` and `CommandBound` (a
continuation carries a stamped command the inbox may emit and stays bound to its
item), `PipelineBound`, `FocusSafe` (a unit that was bound has passed the
preflight) and `AnswersCounted`. The proof has a lemma per action or
group of like actions; `NextIInv` puts them together.

### The other machines

| Module, assumption | Theorem | Property |
| --- | --- | --- |
| `ThreadStdioProofs`, `RoundsAssumption` | `TypeCorrect` | `TypeOK` |
| | `PrintsLandInOwnBuffer` | `OwnBuffer` |
| | `StacksAreBalanced` | `StacksMatch` |
| `HarnessRunProofs`, `PoolAssumption` | `PoolCorrect` | `TypeOK` |
| | `SubmissionIsQuiet` | `QuietSubmission` |
| | `EnteredRunsAreSubmitted` | `SubmittedBeforeExit` |
| | `CleanRunsAreComplete` | `ResultsComplete` |
| `FinanceLedgerProofs`, `LedgerAssumption` | `LedgerTypes` | `TypeOK` (proved here; no run repeats it) |
| | `EvidenceIsComplete` | `EvidenceComplete` |
| | `UpdatesReload` | `UpdatedRecordsReload` |
| | `UpdatesChangeNamedFields` | `NamedFieldsOnly` |
| | `UpdatesKeepSections` | `SectionsSurvive` |
| | `MeantIsTheCeiling` | `DeletionCeiling` |
| | `CountedNumbersAreFresh` | `CountedNumberFresh` |
| `ContextLoadingProofs`, `LoadingAssumption` | `RecordsOfAFileAgree` | `OneVersion` |
| | `NothingIsMissing` | `CompleteUnlessFailed` |
| `WorkspaceMutationsProofs`, `MutationAssumption` | `BatchesAreOrdered` | `BatchOrdered` |
| | `DraftsStay` | `DraftsKept` |
| | `MergesChangeTheMarkerOnly` | `MergesKeepFields` |
| | `OnlyTargetsAreStamped` | `TargetsOnly` |
| | `DeletionsStayBelowTheRoot` | `DeletionBelowRoot` |
| `StepResolutionProofs`, `StepAssumption` | `TranscriptHolds` | (its `IInv`) |
| | `StepGuessesNothing` | `NoGuess` |
| | `StepTotalsOneParty` | `PartyTotals` |
| | `StepIsGrounded` | `Grounded` |
| | `StepObeysSender` | `OnlyWhatSenderMay` |
| | `StepAsksOnce` | `QuestionsAreNew` |

Each module has one inductive invariant `IInv`, which TLC checked on the bounds of the
run before it was proved; a lemma per action or group of actions shows that it is kept.
The assumptions are what the constants mean: finite pools, natural bounds, document
lists without repetition, a tree whose files lie in its directories. `StepAssumption` adds
what the loaders, the planner and the schemas give: listings are finite sequences, no two finance records are
read from one file, a record's dates are days (numbers), a verdict's paths are a list, a command is of one of the kinds the dispatch knows, an intent has one of the actions
of the finance schema and a verdict one of the decisions of the classifier's.
* `ThreadStdio`: the install lock is held exactly in the places between `Enter` and
  `Unlock`, at most one proxy comes into being, and what a thread has read of
  `sys.stdout` stays true under the lock or the proxy (`OneInstaller`, `ProxyFound`).
  Without these a second proxy could wrap the first and `OwnBuffer` would not be kept by a print.
* `HarnessRun`: a trial is in one part of the pool (`OnePlace`), the pool is empty
  before and, unless struck while it waits, after the `with` block (`PoolPhases`), and
  what was collected where (`Collecting`, `Submitting`). `Cardinality` of the parts is a
  lemma of its own.
* `FinanceLedger`: every file, loaded record and call still to be made or landing late
  has complete evidence and a total in whole cents (`AllSound`), the context is the
  workspace while nothing landed (`ContextFresh`), and the call in hand is what its
  command may write (`InHand`). The properties about a write then follow from the call
  in hand. That the aggregate accepts what an update composed is proved for items whose
  sum, added as doubles, is a number of whole cents: a written total can say neither half a cent nor
  a sum that misses, and then the aggregate refuses the record. The premise of
  `UpdatedRecordsReload` says so, and nothing is assumed of `Drifting`.
* `ContextLoading`: what the walk has reached and at which depth (`Walked`), and that
  every document in reach is listed, then awaited, then loaded (`Pending`). `Versions`
  separates what is read through the cache from the JSON entries of a directory, which are read once
  and past it. `OneVersion` needs only `Versions`.
* `WorkspaceMutations`: the markers a document has or may still get, from the batch in hand
  or from a lost call, are ordered like the documents (`StampsOrdered`) and of a
  time that was stamped (`StampsKnown`): a late call puts back a marker of an earlier batch,
  so an invariant about the stored markers alone is not kept. A held file is the
  stored one until something lands (`HeldIsCurrent`); what is left to do is what was asked (`AsAsked`).
* `StepResolution`: `Transcript` says that each reply answers a question that was asked and is
  nothing or what its schema admits, and that the open question has no reply; `AnswerIsTurn` that
  an answer is what the code says of the replies. None of the five properties is inductive,
  because what an answer says depends on which questions came before it: `ChainAsked` (the same list is
  shown with every question of a chain, in the chain's order, so that an index of a reply is an index into
  the records), `QueueAsked` and `RoundsAsked` (once the intent was extracted again, the first round of a finance
  question has found nothing and its replies no longer change, `FirstRoundLocal`) supply that.
  The rest is a lemma per lookup and workflow: from the replies so far it asks a new
  question, clarifies, or gives an answer that is meant and cited (`SoundTurn`, `QueueTurn`),
  backed by records and of one party (`FinanceTurn`), or the sender's to ask for (`InboxTurn`).
  `FirstShares` and `FoundAgain` say what a record found again by a key has to do with the one
  picked; `OrderedLists` and `RangeOf` what sorting and selecting keep, `RanksTaken` and `DatedMembers` that
  a list sorted by date has the members it had (each rank is taken once), and `ReadAs` and `RequestedPaths`
  which record an ingest of a path reads.

Induction over data. `InductionLemmas` states it without a predicate as a parameter:
what is proved of a recursive function is the set of the numbers it holds of
(`LeastNumber`, `UpToBound`), and a recursive definition has a value because a sequence of steps can
be folded (`RecursionExists`). The total of line items and the
order of what `Kept` selects are proved with it; for that reason `Kept` is a recursive function of the
project's and not `SelectSeq` of the standard module.

Only model-checked:

* `Closes`, `Exits`, `AllCaptured`, `LoadEnds` and `StepEnds`: liveness under fairness and
  `ENABLED` are beyond the provers.
* The sums themselves, the values of `amount` in `FinanceLookup`: no property of `StepResolution` speaks of
  a number, only of the records it is of.
* The properties of section 6, which do not hold.

## 5. Plan

Done: the trial with its contract, proofs and refinement proof, the benchmark run,
the stdio capture, the mutations and their write-back, the context, the gateway
with lookups and inbox workflows, the loaders; a theorem for every safety property
of the passing runs.

Left: the values of finance answers against a reference definition; the assumptions
`StepAssumption` makes about listings, as lemmas about `RecordBuilding`; consequences of
`TrialContract` alone, such as the bound on replies.

## 6. Where the code and its words differ

* `read_only_outcomes`: `outcome_contract.py:144` says that read-only outcomes must
  not have emitted side effects. `classify_task_outcome` types a done decision as a
  completed mutation only if its reason ends in `_completed`; the handlers emit
  reasons ending in `_resolved`, so a mutation that wrote is `query_answered`.
* `denials`: `outcome_contract.py:146` says the same of denials. An ingest whose
  second write raises is answered as blocked with its first file written.

* `finance_reload`: `README.MD:144` lists among the aggregate's invariants that the total is the
  sum of the line items. A creation does not go through the aggregate, so an
  explicit amount is stored as it is and every later update of that record is refused.
  `UpdatedRecordsReload` shows that updates themselves make such a record only if the
  items sum to half a cent or their doubles miss the sum.
* `root_policy`: `domain/workspace.py:290` says that the repository root's `AGENTS.MD` is always
  included. The walk starts from the root's directories, so that file is never found.

The gate that states the first two, `gate_side_effects_against_outcome`, has no caller in
the runtime.

Seen while modelling, without a run of its own; the models have the code's behaviour
and the properties are stated around it:

* `resolve_contact_lookup_query` raises `UnboundLocalError` when it is asked for the contact directly
  and the workspace has exactly one (`contact_lookup.py:106`; `Grounded` allows this case alone).
* `_line_items_total` adds doubles and nothing rounds the sum, while a total is written with two
  decimals and kept as cents; `_validate` compares the two exactly (`aggregate.py:259`). Three items of .35
  add up to 1.0499999999999998, are written with a total of 1.05 and refused by the next update, against
  the same line of the README (`ItemsTotal`, and the premise of `UpdatedRecordsReload`).
* `prompts.py:382-395` says that a request that describes a finance document leaves the attachments empty
  and fills its identity, for the attachment resolver to choose the record. The context of a draft holds cast
  and contacts only (`context_needs.py:51`), so the resolver chooses among no records and the draft goes out
  without the file (`Attachments`).
* A bulk deletion that names a record type matches nothing: `finance_bulk_delete.py:102-107` compares
  `str()` of an enum member, `recordtype.invoice`, with `invoice`.
* A document ingest reads the paths it is given from the workspace, whether or not a record was
  loaded from them (`inbox_execution.py:258`), and rewrites any note whose fields can be derived;
  `OnlyWhatSenderMay` asks that such a note is requested by its path and has its fields.
* A value is read from the first loaded record that shares a slug or title with the
  one the resolver chose (`NoGuess` allows a shared key); a deletion finds its project by
  title, project name or alias (`DeletionBelowRoot` excludes an earlier project that shares one).
* The finance fallback's references are not compared with the loaded records
  (`Grounded` leaves out answers the model gave itself).
* A blocked invoice or payment plan has no command, and the test for a missing command comes
  first (`workflow_step_execution.py:62`): it is reported as a clarification.
* A subset reply that repeats an index keeps the record twice; an invoice may be attached twice.
* Entities are linked to records by relationship and kind as well, so a record whose
  related entity is `friend` links to every friend; `OnlyWhatSenderMay` asks only that the
  sender's entity be linked.

## 7. Not modelled

* Without a caller in the runtime at this commit: `plan_typed` and the guards and bindings of
  typed plans (the planner emits atomic plans); `transition_decision` and its table;
  `domain/outbox/draft_policy.py`, `write_planning.py`, `is_duplicate_outbound`; the trust, transport,
  delegation and send-authority tables of `domain/inbox` and `domain/security`; the registries;
  `MultiFileTransaction`, `WipeRequest`, `DeletionAudit`, `gate_side_effects_against_outcome`;
  the follow-up intents, which neither the planner nor the inbox can emit.
* Unreachable for commands that validate: the mutation fallback that asks a model to
  plan again, and the loaders' second parse of a front matter that is already cut off.
* Data without state: argument and environment parsing, prompts and their registry, the
  extraction of the first command from the task, rendering of answers and artifacts,
  telemetry, the words for relative dates (a lookup gets its day), injection patterns
  (an item is injected or not), the generated protocol clients in `bitgn`.
* Text below the level of fields: case and spacing, the parsing of bullets, item
  names with a `|`, tables before the first heading, frontmatter keys an update
  does not carry over because they are not finance metadata.
* Time spent: back-off and timeouts have an outcome, no duration.

## 8. Running

    tlc -workers 2 -config MCPublicMachine.cfg MCPublicMachine
    tlc -workers 2 -config MCHarnessRun.cfg MCHarnessRun
    tlc -workers 2 -config MCThreadStdio.cfg MCThreadStdio
    tlc -workers 2 -config MCFinanceLedger.cfg MCFinanceLedger
    tlc -workers 2 -config MCWorkspaceMutations.cfg MCWorkspaceMutations
    tlc -workers 2 -config MCContextLoading.cfg MCContextLoading
    tlc -workers 2 -config MCStepResolution.cfg MCStepResolution
    tlapm PublicMachineProofs.tla
    tlapm ThreadStdioProofs.tla
    tlapm HarnessRunProofs.tla
    tlapm InductionLemmas.tla
    tlapm FinanceLedgerProofs.tla
    tlapm ContextLoadingProofs.tla
    tlapm WorkspaceMutationsProofs.tla
    tlapm StepResolutionProofs.tla
