--------------------------- MODULE ContextLoading ---------------------------
(* The context of a step: the walk over the remote workspace (runtime/io/    *)
(* vm_tools.py), the documents of each kind the command needs, read through  *)
(* a cache, and the policies of the lanes (runtime/context/*.py, domain/     *)
(* workspace.py).                                                            *)
(*                                                                           *)
(* A path is the sequence of its names, <<>> the root.  A listing is tried   *)
(* three times, a read once; what still fails is left out and the context    *)
(* does not say so.  While a context is loaded, a write of an earlier        *)
(* attempt may land.                                                         *)
EXTENDS ContextNeeds, Selection, SequencesExt, FiniteSets

CONSTANTS Dirs,       \* directories of the workspace below the root
          Files,      \* files of the workspace
          NameOrder,  \* all their names, in the order of a listing
          RoleOf,     \* role of a root directory by its name: [name -> role]
          Markdown,   \* names of markdown files; the others hold JSON
          Indexes,    \* names that hold instructions, no record: AGENTS.MD
          Intents,    \* intents of the commands a context is loaded for
          MaxDepth, MaxFiles   \* limits of the walk

ASSUME LoadingAssumption ==
    /\ NameOrder \in Seq(STRING) /\ IsInjective(NameOrder)
    /\ Dirs \union Files \subseteq Seq(Range(NameOrder))
    /\ \A p \in Dirs \union Files : p # <<>> /\ (Len(p) > 1 => Front(p) \in Dirs)
    /\ Dirs \intersect Files = {}
    /\ MaxDepth \in Nat /\ MaxFiles \in Nat \ {0}

VARIABLES present,  \* the files there are
          ver,      \* their versions: [file -> 0..1]
          intent, pc,
          tries,    \* failed attempts of the listing under way
          top,      \* names the root lists
          queue, seen, found,   \* the walk
          todo,     \* the documents still to read, by kind
          cache,    \* documents read so far: [path -> version]
          loaded,   \* records of the context: a set of [kind, path, ver]
          policies, \* directories whose AGENTS.MD is in the policies
          \* history
          failed    \* a call of this load failed for good

vars == <<present, ver, intent, pc, tries, top, queue, seen, found, todo, cache,
          loaded, policies, failed>>
workspace == <<present, ver, intent>>
walk == <<top, queue, seen, found>>
context == <<todo, cache, loaded, policies>>

Attempts == 3
Base(p) == p[Len(p)]
Rank(p) == CHOOSE k \in DOMAIN NameOrder : NameOrder[k] = Base(p)

\* the entries of a directory among some paths, in the order list_entries sorts them
Listed(d, S) ==
    LET names == Kept(NameOrder, {n \in Range(NameOrder) : Append(d, n) \in S})
    IN [k \in DOMAIN names |-> Append(d, names[k])]
Entries(d) == Listed(d, Dirs \union present)
SubDirs(d) == Listed(d, Dirs)
Plain(d) == Listed(d, present)

----------------------------------------------------------------------------
(* domain/workspace.py *)

\* the roots the layout was resolved from: the directories the root lists
Roots == {<<p[1]>> : p \in {q \in top : q \in Dirs}}
\* semantic_role: the role of the longest root a path is below; a knowledge root
\* holds a capture root
Role(p) ==
    IF <<p[1]>> \notin Roots THEN "none"
    ELSE IF RoleOf[p[1]] = "knowledge" /\ Len(p) > 1 /\ p[2] = "capture" THEN "capture"
    ELSE RoleOf[p[1]]
RoleRoots(role) == {r \in Roots : RoleOf[r[1]] = role}
    \union (IF role = "capture" THEN {Append(r, "capture") : r \in {k \in Roots : RoleOf[k[1]] = "knowledge"}}
            ELSE {})

----------------------------------------------------------------------------
(* runtime/context/context_persistence.py: the documents a kind is made of *)

Notes(s) == {p \in Range(s) : Base(p) \in Markdown}
DocsOf(kind, s) == Kept(s,
    CASE kind = "project" -> {p \in Notes(s) : Base(p) = "README" /\ Role(p) = "projects"}
      [] kind \in {"cast", "inbox"} -> {p \in Notes(s) : Base(p) \notin Indexes /\ Role(p) = kind}
      [] kind \in {"finance", "capture"} -> {p \in Notes(s) : Role(p) = kind}
      [] kind \in {"messages", "queue"} -> Notes(s)
      [] OTHER -> {})

\* accounts and contacts are read from the file and the directory of that name
JsonName(kind) == IF kind = "accounts" THEN "accounts.json" ELSE "contacts.json"
JsonSources(kind) == Kept(<<<<JsonName(kind)>>, <<kind>>>>, top)

\* a project refers to its cast; messages and queue states come from one reading
Wanted(kind) ==
    LET needs == NeededKinds(intent) IN
    CASE kind = "cast" -> needs \intersect {"cast", "project"} # {}
      [] kind = "queue" -> needs \intersect {"messages", "queue"} # {}
      [] OTHER -> kind \in needs
Sources(kind) ==
    LET paths == IF kind \in {"accounts", "contacts"} THEN JsonSources(kind) ELSE DocsOf(kind, found)
    IN IF Wanted(kind) THEN [k \in DOMAIN paths |-> [kind |-> kind, path |-> paths[k]]] ELSE <<>>
\* assemble_workspace_runtime_resources, kind by kind
Reading == Sources("cast") \o Sources("project") \o Sources("finance") \o Sources("accounts")
    \o Sources("contacts") \o Sources("queue") \o Sources("inbox") \o Sources("capture")

----------------------------------------------------------------------------
(* runtime/context/workspace_policy_loader.py *)

LaneRoles == {"inbox", "cast", "knowledge", "work", "finance", "outbox", "memory",
              "system", "process", "capture", "projects"}
\* the AGENTS.MD the loader looks for among the files of the walk: those of the
\* lanes' roots and the one of the repository (two workflow notes are left out)
PolicyFiles(s) == {p \in Range(s) : Base(p) = "AGENTS" /\
    (Len(p) = 1 \/ \E role \in LaneRoles : Front(p) \in RoleRoots(role))}
\* of the readable ones, a role takes the first of its roots
PolicyOf(p, readable) == Len(p) = 1 \/ \E role \in LaneRoles :
    /\ Front(p) \in RoleRoots(role)
    /\ \A q \in readable : Front(q) \in RoleRoots(role) => Rank(Front(p)) <= Rank(Front(q))

----------------------------------------------------------------------------
Init ==
    /\ present \in {Files} \union {Files \ {f} : f \in Files}
    /\ ver = [f \in Files |-> 0] /\ intent \in Intents
    /\ pc = "top" /\ tries = 0 /\ top = {} /\ queue = <<>> /\ seen = {} /\ found = <<>>
    /\ todo = <<>> /\ cache = <<>> /\ loaded = {} /\ policies = {} /\ failed = FALSE

\* MUTANT of TryFails: the count starts again after every second failure
TryFailsUncounted == tries' = 1 - tries
TryFails == tries' = tries + 1
GivesUp == tries = Attempts - 1

\* scan_workspace; without any directory the walk starts from the root
StartWalk(entries) ==
    LET dirs == Kept(entries, Dirs) IN
    /\ top' = Range(entries)
    /\ queue' = IF dirs = <<>> THEN <<[dir |-> <<>>, depth |-> 0]>>
                ELSE [k \in DOMAIN dirs |-> [dir |-> dirs[k], depth |-> 0]]
    /\ tries' = 0 /\ pc' = "walk"

ListTop ==
    /\ pc = "top"
    /\ \/ StartWalk(Entries(<<>>)) /\ UNCHANGED failed
       \/ GivesUp /\ StartWalk(<<>>) /\ failed' = TRUE
       \/ ~GivesUp /\ TryFails /\ UNCHANGED <<top, queue, pc, failed>>
    /\ UNCHANGED <<seen, found>> /\ UNCHANGED workspace /\ UNCHANGED context

\* MUTANT of Descends: a directory at the limit is not walked
DescendsShort(depth) == depth + 1 < MaxDepth
Descends(depth) == depth < MaxDepth

Walking == pc = "walk" /\ queue # <<>> /\ Len(found) < MaxFiles
Here == Head(queue)

ListDir ==
    /\ Walking /\ Here.dir \notin seen
    /\ \/ LET files == Plain(Here.dir)
              subs == SubDirs(Here.dir)
              room == MaxFiles - Len(found)
          IN /\ found' = found \o SubSeq(files, 1, IF Len(files) < room THEN Len(files) ELSE room)
             /\ queue' = Tail(queue) \o
                    (IF Descends(Here.depth)
                     THEN [k \in DOMAIN subs |-> [dir |-> subs[k], depth |-> Here.depth + 1]]
                     ELSE <<>>)
             /\ seen' = seen \union {Here.dir} /\ tries' = 0 /\ UNCHANGED failed
       \/ /\ GivesUp /\ queue' = Tail(queue) /\ seen' = seen \union {Here.dir}
          /\ tries' = 0 /\ failed' = TRUE /\ UNCHANGED found
       \/ ~GivesUp /\ TryFails /\ UNCHANGED <<queue, seen, found, failed>>
    /\ UNCHANGED <<top, pc>> /\ UNCHANGED workspace /\ UNCHANGED context

\* read_context_payload raises through the whole load
EndWalk ==
    /\ pc = "walk" /\ ~Walking
    /\ \/ pc' = "read" /\ todo' = Reading /\ UNCHANGED failed
       \/ pc' = "raised" /\ failed' = TRUE /\ UNCHANGED todo
    /\ UNCHANGED <<tries, cache, loaded, policies>> /\ UNCHANGED walk /\ UNCHANGED workspace

Record(item, v) == [kind |-> item.kind, path |-> item.path, ver |-> v]

\* MUTANT of Cached: every kind reads its documents itself
NotCached(p) == FALSE
Cached(p) == p \in DOMAIN cache

\* ContextDocumentReader.read: what was read once is not read again, what
\* failed is
ReadDoc ==
    /\ pc = "read" /\ todo # <<>> /\ Head(todo).path \notin Dirs
    /\ todo' = Tail(todo)
    /\ LET item == Head(todo) p == item.path IN
       \/ Cached(p) /\ loaded' = loaded \union {Record(item, cache[p])} /\ UNCHANGED <<cache, failed>>
       \/ /\ ~Cached(p)
          /\ loaded' = loaded \union {Record(item, ver[p])}
          /\ cache' = [q \in DOMAIN cache \union {p} |-> IF q = p THEN ver[p] ELSE cache[q]]
          /\ UNCHANGED failed
       \/ ~Cached(p) /\ failed' = TRUE /\ UNCHANGED <<cache, loaded>>
    /\ UNCHANGED <<pc, tries, policies>> /\ UNCHANGED walk /\ UNCHANGED workspace

\* load_json_records: the entries of a directory that could be listed and read
ReadDirectory ==
    /\ pc = "read" /\ todo # <<>> /\ Head(todo).path \in Dirs
    /\ todo' = Tail(todo)
    /\ LET item == Head(todo)
           files == {p \in Range(Plain(item.path)) : Base(p) \notin Markdown}
       IN \E R \in SUBSET files :
            /\ loaded' = loaded \union {Record([item EXCEPT !.path = p], ver[p]) : p \in R}
            /\ failed' = (failed \/ R # files)
    /\ UNCHANGED <<pc, tries, cache, policies>> /\ UNCHANGED walk /\ UNCHANGED workspace

LoadPolicies ==
    /\ pc = "read" /\ todo = <<>>
    /\ \E R \in SUBSET PolicyFiles(found) :
         /\ policies' = {Front(p) : p \in {q \in R : PolicyOf(q, R)}}
         /\ failed' = (failed \/ R # PolicyFiles(found))
    /\ pc' = "done"
    /\ UNCHANGED <<tries, todo, cache, loaded>> /\ UNCHANGED walk /\ UNCHANGED workspace

\* a call of an earlier attempt is applied late
LateWriteLands ==
    /\ pc \notin {"done", "raised"} /\ \A f \in Files : ver[f] = 0
    /\ \E f \in present : ver' = [ver EXCEPT ![f] = 1]
    /\ UNCHANGED <<present, intent, pc, tries, failed>> /\ UNCHANGED walk /\ UNCHANGED context

Ended == pc \in {"done", "raised"} /\ UNCHANGED vars

Step == ListTop \/ ListDir \/ EndWalk \/ ReadDoc \/ ReadDirectory \/ LoadPolicies
Next == Step \/ LateWriteLands \/ Ended

\* the loading thread runs on, and no remote call blocks for ever
Spec == Init /\ [][Next]_vars /\ WF_vars(Step)
----------------------------------------------------------------------------
(* Properties *)

\* A context that lacks a record of a kind it was to hold met a failure or a
\* limit: when every call of the load returned, it holds all documents above the
\* depth the walk reaches (vm_tools.py, walk_files; context_persistence.py).
InReach(p) == Len(p) - 2 <= MaxDepth
Within(kind) == {p \in present : Role(p) = kind /\ Base(p) \in Markdown \ Indexes /\ InReach(p)}
CompleteUnlessFailed ==
    pc = "done" /\ ~failed /\ Len(found) < MaxFiles =>
        /\ \A kind \in NeededKinds(intent) \intersect {"cast", "finance", "inbox", "capture"} :
             \A p \in Within(kind) : \E r \in loaded : r.kind = kind /\ r.path = p
        /\ \A kind \in NeededKinds(intent) \intersect {"accounts", "contacts"} :
             \A p \in present :
                p = <<JsonName(kind)>> \/ (Front(p) = <<kind>> /\ Base(p) \notin Markdown) =>
                \E r \in loaded : r.kind = kind /\ r.path = p

\* The records of a context that come from one file agree, although kinds read
\* it one after the other while a write lands (context_reader.py, read).
OneVersion == \A r, s \in loaded : r.path = s.path => r.ver = s.ver

\* The load ends, however many listings fail (vm_tools.py, list_entries).
LoadEnds == <>(pc \in {"done", "raised"})

\* domain/workspace.py, WorkspacePolicies: the policy of the repository root is
\* among the policies, when it is there and nothing failed.
RootPolicyLoaded ==
    pc = "done" /\ ~failed /\ <<"AGENTS">> \in present => <<>> \in policies
=============================================================================
