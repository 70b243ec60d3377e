---------------------------- MODULE QueueMarkers ----------------------------
(* Queued documents: the marker a file carries in its frontmatter            *)
(* (domain/process/queue_state.py) and the files a queue request names       *)
(* (application/mutations/queue_markdown.py).                                *)
(*                                                                           *)
(* A path is [dir, name]; a bare name is a path in the root, which has no    *)
(* name.  Paths are ordered by a constant sequence, the order of their       *)
(* lower-case texts.                                                         *)
EXTENDS Integers, Selection, SequencesExt, FiniteSets

NoText == ""
NoMarker == [workflow |-> NoText, batch |-> 0, order |-> 0, state |-> NoText]
InitialMarker(workflow, batch, order) ==
    [workflow |-> workflow, batch |-> batch, order |-> order, state |-> "pending"]

\* from_marker_payload: a file without workflow, state and target is not queued
Queued(marker) == marker.workflow # NoText \/ marker.state # NoText

\* vm_queue_stamp_markers: the workflow an assistant stands for
Assistants == {"nora", "nora_mcp"}
EffectiveWorkflow(target, workflow) ==
    IF workflow # NoText THEN workflow
    ELSE IF target \in Assistants \union {NoText} THEN "nora_mcp" ELSE "other_migration"

----------------------------------------------------------------------------
NoPath == [dir |-> NoText, name |-> NoText]
Namesakes(target, known) == Kept(known, {p \in Range(known) : p.name = target.name})

\* MUTANT of MatchTarget: the first file of that name, wherever it is
MatchByName(target, states, refs) ==
    LET same == Namesakes(target, states \o refs) IN
    IF same = <<>> THEN NoPath ELSE Head(same)

\* a loaded path as it is given, or the first queued, then the first loaded,
\* file of the same name
MatchTarget(target, states, refs) ==
    LET known == states \o refs
        same == Namesakes(target, known)
    IN IF \E k \in DOMAIN known : known[k] = target THEN target
       ELSE IF same = <<>> THEN NoPath ELSE Head(same)

\* the paths a request resolves to; the targets that match nothing are dropped
ResolvedTargets(targets, states, refs) ==
    {MatchTarget(t, states, refs) : t \in targets} \ {NoPath}

\* the paths in order, as a batch stamps them
InPathOrder(paths, order) == Kept(order, paths)
=============================================================================
