------------------------- MODULE WorkspaceMutations -------------------------
(* The three mutations beside the finance ones, on one workspace: a batch of *)
(* queue markers, an outbox draft, the deletion of a project                 *)
(* (runtime/execution/mutation_execution.py with application/mutations/      *)
(* queue_markdown.py, outbox_draft.py, project_delete.py) and their writes   *)
(* (runtime/io/mutation_persistence.py).                                     *)
(*                                                                           *)
(* A marker is merged into a file's frontmatter: the file is read, parsed,   *)
(* and written as a whole.  A remote call that raises may have failed, or be *)
(* applied at once or later; none of these writers reports it.  Time counts  *)
(* in halves of a second.                                                    *)
EXTENDS QueueMarkers, ContextNeeds, Functions

CONSTANTS Notes,       \* the documents that may be queued, in path order
          FinanceDirs, \* directories below the finance root
          Unknown,     \* targets that name no document by its path
          Projects,    \* the loaded projects, in loading order
          TextPrefix,  \* pairs of roots one of which is a text prefix of the other
          MaxTime,     \* last context time, in halves of a second
          MaxSteps     \* mutations of the trial

ASSUME MutationAssumption ==
    /\ Notes \in Seq([dir : STRING, name : STRING])
    /\ IsInjective(Notes) /\ NoPath \notin Range(Notes)
    /\ MaxTime \in Nat /\ MaxSteps \in Nat
    /\ Projects \in Seq([root : STRING, title : STRING, name : STRING, alias : STRING,
                         readme : BOOLEAN])
    /\ \A j, k \in DOMAIN Projects : Projects[j].root = Projects[k].root => j = k

VARIABLES notes,   \* queued documents: [path -> file]
          drafts,  \* the outbox: [name -> draft]
          docs,    \* documents of projects: a set of [root, name]
          late,    \* remote calls the client gave up on and that may still land
          time,    \* the time the context was loaded with
          states,  \* markers of the loaded context: [path -> marker]
          refs,    \* documents of the loaded context, in path order
          cmd, todo, pc, steps,
          held,    \* the file a merge has read and is going to write
          \* history
          settled, \* nothing landed late since that read
          batches, \* the times of the batches stamped so far
          sent     \* times of the drafts whose write was acknowledged

vars == <<notes, drafts, docs, late, time, states, refs, cmd, todo, pc, steps,
          held, settled, batches, sent>>
context == <<time, states, refs>>

Dirs == {Notes[k].dir : k \in DOMAIN Notes}
NoFile == [flat |-> FALSE, nested |-> FALSE, valid |-> FALSE, table |-> 0, front |-> 0,
           marker |-> NoMarker]
NoCommand == [action |-> "none"]

----------------------------------------------------------------------------
(* Merging frontmatter *)

\* MUTANT of ParsedFields: only the keys of the update survive the parse
ParsedNothing(f) == [f EXCEPT !.flat = FALSE, !.nested = FALSE, !.valid = TRUE]

\* parse_frontmatter_with_mode: frontmatter that is not valid YAML is parsed
\* line by line, which flattens what is nested
ParsedFields(f) == [f EXCEPT !.nested = @ /\ f.valid, !.valid = TRUE]

\* lift_finance_metadata: below the finance root the table's values win
Canonical(p, f) == IF p.dir \in FinanceDirs /\ f.table # 0 THEN f.table ELSE f.front

Merge(p, f, marker) ==
    [ParsedFields(f) EXCEPT !.front = Canonical(p, f), !.marker = marker]

----------------------------------------------------------------------------
(* Outbox drafts *)

Second(t) == t \div 2
\* MUTANT of DraftName: the file name leaves out the seconds
DraftNameByMinute(t) == t \div 120
\* eml_<created_at to the second>
DraftName(t) == Second(t)

\* _resolve_iso_timestamp: what the request says if it parses, or the context's
\* time; -1 stands for a text that does not parse and for none
DraftTime(created, now) == IF created >= 0 THEN created ELSE now

\* resolve_outbox_attachments: the files asked for, with the unique record the
\* request describes; the model picks some only for a workflow, and only when
\* there are none.  Both need finance records in the context of a draft.
Attachments(c) ==
    LET records == "finance" \in NeededKinds("outbox_draft")
        known == c.asked \union (IF records THEN c.matched ELSE {})
    IN IF known = {} /\ records /\ c.kind = "workflow_policy" THEN SUBSET {"picked"}
       ELSE {known}

----------------------------------------------------------------------------
(* Project deletion *)

\* two projects share what one of them may be called
SharesName(p, q) ==
    \/ p.title = q.title /\ q.title # NoText
    \/ p.name = q.name /\ q.name # NoText
    \/ p.alias = q.alias /\ q.alias # NoText

\* the first loaded project that has the candidate's path or shares a name
TypedProject(candidate) ==
    LET alike == {k \in DOMAIN Projects : \/ Projects[k].root = Projects[candidate].root
                                          \/ SharesName(Projects[k], Projects[candidate])}
    IN CHOOSE k \in alike : \A j \in alike : k <= j

\* MUTANT of Below: paths compared as texts, without the separator
BelowByText(root, d) == d.root = root \/ <<root, d.root>> \in TextPrefix
Below(root, d) == d.root = root

\* collect_project_paths: the loaded documents below the root, the root last
ProjectPaths(root, loaded) ==
    Append(SetToSeq({d \in loaded : Below(root, d)}), [root |-> root, name |-> NoText])

\* a directory is deleted with everything in it, or not at all unless empty
Deletions(p, D) ==
    IF p.name # NoText THEN {D \ {p}}
    ELSE {{d \in D : d.root # p.root}, D}

----------------------------------------------------------------------------
(* The state machine *)

\* one document may have left the queue, or never have been in it, and its
\* frontmatter may not be valid; the others are pending
InitialFile(k, state, valid) ==
    [flat |-> TRUE, nested |-> TRUE, valid |-> valid, front |-> 1,
     table |-> IF Notes[k].dir \in FinanceDirs THEN 2 ELSE 0,
     marker |-> IF state = NoText THEN NoMarker
                ELSE [InitialMarker("nora_mcp", 0, k) EXCEPT !.state = state]]

Init ==
    /\ \E state \in {NoText, "migrated"}, odd \in DOMAIN Notes :
         notes = [p \in Range(Notes) |->
                    LET k == CHOOSE j \in DOMAIN Notes : Notes[j] = p
                    IN IF k = odd THEN InitialFile(k, state, FALSE)
                       ELSE InitialFile(k, "pending", TRUE)]
    /\ drafts = <<>> /\ late = {} /\ time = 0
    /\ docs = {[root |-> Projects[k].root, name |-> n] : k \in DOMAIN Projects, n \in {NoText, "plan"}}
    /\ states = <<>> /\ refs = <<>> /\ cmd = NoCommand /\ todo = <<>> /\ pc = "idle"
    /\ steps = 0 /\ held = NoFile /\ settled = TRUE /\ batches = <<>> /\ sent = {}

\* a step names the files its walk found and parses those it can read; the time
\* of the context does not go back
LoadContext ==
    /\ pc = "idle" /\ steps < MaxSteps
    /\ \E W \in SUBSET DOMAIN notes : \E P \in SUBSET W, t \in time..MaxTime :
         /\ refs' = InPathOrder(W, Notes)
         /\ states' = [p \in {q \in P : Queued(notes[q].marker)} |-> notes[p].marker]
         /\ time' = t
    /\ pc' = "plan" /\ steps' = steps + 1
    /\ UNCHANGED <<notes, drafts, docs, late, cmd, todo, held, settled, batches, sent>>

\* the context is the step's: the next one loads its own
Finish ==
    /\ cmd' = NoCommand /\ todo' = <<>> /\ pc' = "idle" /\ held' = NoFile /\ settled' = TRUE
    /\ states' = <<>> /\ refs' = <<>>

Clarify ==
    /\ Finish
    /\ UNCHANGED <<notes, drafts, docs, late, time, steps, batches, sent>>

Begin(c, calls, next) ==
    /\ cmd' = c /\ todo' = calls /\ pc' = next
    /\ UNCHANGED <<notes, drafts, docs, late, steps, held, settled, sent>>
    /\ UNCHANGED context

QueuedRefs == InPathOrder(DOMAIN states, Notes)

\* MUTANT of Batch: the position is not counted up
BatchUnordered(paths, workflow) ==
    [k \in DOMAIN paths |-> [path |-> paths[k], marker |-> InitialMarker(workflow, time, 1)]]
\* the markers a batch stamps, whatever the files carry already
Batch(paths, workflow) ==
    [k \in DOMAIN paths |-> [path |-> paths[k], marker |-> InitialMarker(workflow, time, k)]]

PlanQueue ==
    /\ pc = "plan"
    /\ \E targets \in SUBSET (Range(Notes) \union Unknown), assistant \in {NoText, "other"} :
         LET hits == ResolvedTargets(targets, QueuedRefs, refs)
             paths == InPathOrder(hits, Notes)
         IN IF hits = {} THEN Clarify
            ELSE /\ Begin([action |-> "queue", targets |-> targets],
                          Batch(paths, EffectiveWorkflow(assistant, NoText)), "read")
                 /\ batches' = Append(batches, time)

PlanDraft ==
    /\ pc = "plan"
    /\ \E complete \in BOOLEAN, created \in {-1} \union (0..MaxTime),
          asked \in {{}, {"asked"}}, matched \in {{}, {"matched"}},
          kind \in {"user_request", "workflow_policy"} :
         LET c == [action |-> "draft", asked |-> asked, matched |-> matched, kind |-> kind]
             at == DraftTime(created, time)
         IN IF ~complete THEN Clarify
            ELSE \E files \in Attachments(c) :
                   /\ Begin(c, <<[name |-> DraftName(at), files |-> files, at |-> at]>>,
                            "write")
                   /\ UNCHANGED batches

\* the resolver answers with one record, found by its text or by the model
PlanDeletion ==
    /\ pc = "plan"
    /\ \E candidate \in DOMAIN Projects \union {0}, loaded \in SUBSET docs :
         IF candidate = 0 \/ ~Projects[TypedProject(candidate)].readme THEN Clarify
         ELSE LET root == Projects[TypedProject(candidate)].root IN
              /\ Begin([action |-> "delete", candidate |-> candidate],
                       ProjectPaths(root, {d \in loaded : d.name # NoText}), "write")
              /\ UNCHANGED batches

\* the end of one remote call, or of the last one
Proceed(next) ==
    IF Len(todo) = 1 THEN Finish
    ELSE /\ todo' = Tail(todo) /\ pc' = next /\ held' = NoFile /\ settled' = TRUE
         /\ UNCHANGED <<cmd, states, refs>>

ReadNote ==
    /\ pc = "read"
    /\ UNCHANGED <<notes, drafts, docs, late, time, steps, batches, sent>>
    /\ \/ /\ held' = notes[Head(todo).path] /\ pc' = "write" /\ settled' = TRUE
          /\ UNCHANGED <<cmd, todo, states, refs>>
       \/ Proceed("read")

Written(f, p) == Merge(p, f, Head(todo).marker)

WriteNote ==
    /\ pc = "write" /\ cmd.action = "queue"
    /\ LET p == Head(todo).path
           new == [notes EXCEPT ![p] = Written(held, p)]
           call == [op |-> "note", path |-> p, file |-> Written(held, p)]
       IN \/ notes' = new /\ UNCHANGED late
          \/ notes' \in {notes, new} /\ UNCHANGED late
          \/ late' = late \union {call} /\ UNCHANGED notes
    /\ Proceed("read")
    /\ UNCHANGED <<drafts, docs, time, steps, batches, sent>>

\* the outbox with a draft, in the place of one of its name
Filed(d) ==
    [n \in DOMAIN drafts \union {d.name} |->
        IF n = d.name THEN [at |-> d.at, files |-> d.files] ELSE drafts[n]]

WriteDraft ==
    /\ pc = "write" /\ cmd.action = "draft"
    /\ LET d == Head(todo)
           new == Filed(d)
       IN \/ drafts' = new /\ sent' = sent \union {d.at} /\ UNCHANGED late
          \/ drafts' \in {drafts, new} /\ UNCHANGED <<late, sent>>
          \/ late' = late \union {[op |-> "draft", draft |-> d]} /\ UNCHANGED <<drafts, sent>>
    /\ Finish
    /\ UNCHANGED <<notes, docs, time, steps, batches>>

DeletePath ==
    /\ pc = "write" /\ cmd.action = "delete"
    /\ \/ docs' \in Deletions(Head(todo), docs) /\ UNCHANGED late
       \/ UNCHANGED <<docs, late>>
       \/ late' = late \union {[op |-> "delete", path |-> Head(todo)]} /\ UNCHANGED docs
    /\ Proceed("write")
    /\ UNCHANGED <<notes, drafts, time, steps, batches, sent>>

Lands(c) ==
    /\ notes' = IF c.op = "note" THEN [notes EXCEPT ![c.path] = c.file] ELSE notes
    /\ drafts' = IF c.op # "draft" THEN drafts
                 ELSE Filed(c.draft)
    /\ IF c.op = "delete" THEN docs' \in Deletions(c.path, docs) ELSE UNCHANGED docs

LateCallLands ==
    /\ \E c \in late : Lands(c) /\ late' = late \ {c}
    /\ settled' = (pc # "write")
    /\ UNCHANGED <<cmd, todo, pc, steps, held, batches, sent>> /\ UNCHANGED context

Ended == pc = "idle" /\ steps = MaxSteps /\ late = {} /\ UNCHANGED vars

Next == \/ LoadContext \/ PlanQueue \/ PlanDraft \/ PlanDeletion
        \/ ReadNote \/ WriteNote \/ WriteDraft \/ DeletePath \/ LateCallLands \/ Ended

Spec == Init /\ [][Next]_vars
----------------------------------------------------------------------------
(* Properties *)

\* vm_queue_stamp_markers: the files of one batch are numbered in the order of
\* their paths, whichever of them could not be stamped and whenever a lost call
\* lands, unless two batches were stamped at the same context time.
Stamped(t) == {k \in DOMAIN Notes : Queued(notes[Notes[k]].marker)
                                    /\ notes[Notes[k]].marker.batch = t}
BatchOrdered ==
    \A b \in DOMAIN batches :
        (\A c \in DOMAIN batches : batches[c] = batches[b] => c = b) /\ batches[b] # 0 =>
            \A k, l \in Stamped(batches[b]) :
                k < l => notes[Notes[k]].marker.order < notes[Notes[l]].marker.order

\* vm_merge_frontmatter writes a whole file: no field but the marker's changes,
\* unless the frontmatter was not valid YAML or a lost call landed between the
\* read and the write.
MergesKeepFields ==
    [][\A p \in DOMAIN notes : notes'[p] # notes[p] /\ late' = late /\ settled =>
         /\ notes'[p].flat = notes[p].flat /\ notes'[p].table = notes[p].table
         /\ notes[p].valid => notes'[p].nested = notes[p].nested
         /\ notes'[p].front \in {notes[p].front, notes[p].table}]_vars

\* queue_markdown.py, _match_target: a document is stamped because a target is
\* its path, or has its name and is the path of no loaded document.
TargetsOnly ==
    [][\A p \in DOMAIN notes : notes'[p] # notes[p] /\ late' = late =>
         /\ cmd.action = "queue"
         /\ \E t \in cmd.targets :
              t = p \/ (t.name = p.name /\ \A k \in DOMAIN refs : refs[k] # t)]_vars

\* outbox_draft.py, the path of a draft: a draft whose write was acknowledged is
\* replaced by drafts of its own second only.
DraftsKept ==
    \A t \in sent : \E n \in DOMAIN drafts : Second(drafts[n].at) = Second(t)

\* project_delete.py and collect_project_paths: a deletion removes documents of
\* the project the resolver answered with and no other's, unless a project
\* loaded before it has its title, its project name or its alias.
DeletionBelowRoot ==
    [][docs' # docs /\ late' = late
        /\ (\A k \in 1..(cmd.candidate - 1) : ~SharesName(Projects[k], Projects[cmd.candidate]))
       => \A d \in docs \ docs' : d.root = Projects[cmd.candidate].root]_vars
=============================================================================
