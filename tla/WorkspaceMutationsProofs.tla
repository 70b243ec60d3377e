---------------------- MODULE WorkspaceMutationsProofs ----------------------
(***************************************************************************)
(* Theorems about WorkspaceMutations for any documents, projects, times and  *)
(* number of mutations, whichever remote calls fail or land late.            *)
(***************************************************************************)
EXTENDS WorkspaceMutations, InductionLemmas, FiniteSetTheorems

Paths == Range(Notes)
Workflows == {NoText, "nora_mcp", "other_migration"}
Markers == [workflow : Workflows, batch : Nat, order : Nat, state : {NoText, "pending", "migrated"}]
NoteFiles == [flat : BOOLEAN, nested : BOOLEAN, valid : BOOLEAN, table : Nat, front : Nat,
              marker : Markers]
ProjectDocs == [root : STRING, name : {NoText, "plan"}]
Stampings == [path : Paths, marker : Markers]

-----------------------------------------------------------------------------
(* The inductive invariant *)

\* Every step of a mutation has its command and something left to do.
Types ==
    /\ notes \in [Paths -> NoteFiles] /\ held \in NoteFiles
    /\ docs \subseteq ProjectDocs /\ IsFiniteSet(docs)
    /\ time \in Nat /\ batches \in Seq(Nat)
    /\ refs \in Seq(Paths) /\ DOMAIN states \subseteq Paths
    /\ pc \in {"idle", "plan", "read", "write"}
    /\ pc \in {"idle", "plan"} => cmd.action = "none"
    /\ pc = "read" => cmd.action = "queue"
    /\ pc = "write" => cmd.action \in {"queue", "draft", "delete"}
    /\ cmd.action # "none" => todo # <<>>
    /\ cmd.action = "queue" => todo \in Seq(Stampings)
    /\ cmd.action = "draft" => Len(todo) = 1
    /\ cmd.action = "delete" => todo \in Seq(ProjectDocs)
    /\ \A c \in late : c.op = "note" => c.path \in Paths /\ c.file \in NoteFiles

\* The file a merge holds is the one in the workspace, while nothing landed.
HeldIsCurrent ==
    pc = "write" /\ cmd.action = "queue" /\ settled => held = notes[Head(todo).path]

\* The markers a document has, or may still get from this mutation or a lost call.
Stamps(p) ==
    {notes[p].marker}
    \union {todo[k].marker : k \in {j \in DOMAIN todo : cmd.action = "queue" /\ todo[j].path = p}}
    \union {c.file.marker : c \in {d \in late : d.op = "note" /\ d.path = p}}
Single(t) == \A b, c \in DOMAIN batches : batches[b] = t /\ batches[c] = t => b = c
StampsKnown ==
    \A p \in Paths : \A m \in Stamps(p) : m.batch # 0 => \E b \in DOMAIN batches : batches[b] = m.batch
StampsOrdered ==
    \A j, k \in DOMAIN Notes : j < k =>
        \A m \in Stamps(Notes[j]), n \in Stamps(Notes[k]) :
            m.batch = n.batch /\ m.batch # 0 /\ Single(m.batch) => m.order < n.order

\* A draft is named for its second.
DraftRight(d) == d.name = Second(d.at)
DraftsRight ==
    /\ \A n \in DOMAIN drafts : n = Second(drafts[n].at)
    /\ cmd.action = "draft" => DraftRight(todo[1])
    /\ \A c \in late : c.op = "draft" => DraftRight(c.draft)

\* What is left to do is what the command asked for.
AsAsked ==
    /\ cmd.action = "queue" => \A k \in DOMAIN todo : \E t \in cmd.targets :
         t = todo[k].path \/ (t.name = todo[k].path.name /\ \A j \in DOMAIN refs : refs[j] # t)
    /\ cmd.action = "delete" =>
         /\ cmd.candidate \in DOMAIN Projects
         /\ \A k \in DOMAIN todo : todo[k].root = Projects[TypedProject(cmd.candidate)].root

IInv == /\ Types /\ HeldIsCurrent /\ StampsKnown /\ StampsOrdered /\ DraftsRight /\ DraftsKept
        /\ AsAsked

-----------------------------------------------------------------------------
(* Texts, markers and files *)

LEMMA MarkerTypes ==
  /\ NoMarker \in Markers /\ NoFile \in NoteFiles
  /\ \A workflow \in Workflows, batch \in Nat, order \in Nat :
       InitialMarker(workflow, batch, order) \in Markers
<1>1. NoMarker \in Markers
  BY DEF NoMarker, Markers, Workflows
<1>2. NoFile \in NoteFiles
  BY <1>1 DEF NoFile, NoteFiles
<1>3. ASSUME NEW workflow \in Workflows, NEW batch \in Nat, NEW order \in Nat
      PROVE  InitialMarker(workflow, batch, order) \in Markers
  BY DEF InitialMarker, Markers
<1> QED
  BY <1>1, <1>2, <1>3

\* A batch, in the order of the paths: its stampings, their places and orders.
LEMMA BatchInOrder ==
  ASSUME NEW paths \in SUBSET Paths, NEW workflow \in Workflows, time \in Nat
  PROVE  LET b == Batch(InPathOrder(paths, Notes), workflow) IN
         /\ b \in Seq(Stampings)
         /\ paths # {} => b # <<>>
         /\ \A i \in DOMAIN b : b[i].path \in paths /\ b[i].marker.batch = time
         /\ \A i, l \in DOMAIN b, j, k \in DOMAIN Notes :
              b[i].path = Notes[j] /\ b[l].path = Notes[k] /\ j < k =>
                b[i].marker.order < b[l].marker.order
<1> DEFINE r == Kept(Notes, paths)
           b == Batch(r, workflow)
           Placed(at) ==
             /\ at \in [1 .. Len(r) -> 1 .. Len(Notes)]
             /\ \A j \in 1 .. Len(r) : r[j] = Notes[at[j]] /\ Notes[at[j]] \in paths
             /\ \A i, j \in 1 .. Len(r) : i < j => at[i] < at[j]
             /\ \A k \in 1 .. Len(Notes) : Notes[k] \in paths => \E j \in 1 .. Len(r) : at[j] = k
<1>1. Notes \in Seq(Paths) /\ DOMAIN Notes = 1 .. Len(Notes) /\ Len(Notes) \in Nat
      /\ \A j, k \in DOMAIN Notes : Notes[j] = Notes[k] => j = k
  BY MutationAssumption DEF Paths, Range, IsInjective
<1>2. r \in Seq(Paths) /\ \E at : Placed(at)
  <2>1. Notes \in Seq(Paths)
    BY <1>1
  <2> QED
    BY <2>1, KeptInOrder
<1>3. PICK at : Placed(at)
  BY <1>2
<1>4. b = [i \in DOMAIN r |-> [path |-> r[i], marker |-> InitialMarker(workflow, time, i)]]
  BY DEF Batch
<1> HIDE DEF r, b
<1>5. DOMAIN r = 1 .. Len(r) /\ Len(r) \in Nat /\ \A i \in 1 .. Len(r) : r[i] \in Paths /\ i \in Nat
  BY <1>2
<1>6. /\ DOMAIN b = 1 .. Len(r)
      /\ \A i \in 1 .. Len(r) : b[i] = [path |-> r[i], marker |-> InitialMarker(workflow, time, i)]
  BY <1>4, <1>5
<1>7. b \in Seq(Stampings)
  <2>1. \A i \in 1 .. Len(r) : InitialMarker(workflow, time, i) \in Markers
    BY <1>5, MarkerTypes
  <2>2. \A i \in 1 .. Len(r) : [path |-> r[i], marker |-> InitialMarker(workflow, time, i)] \in Stampings
    <3> HIDE DEF Markers
    <3> QED
      BY <1>5, <2>1 DEF Stampings
  <2> HIDE DEF Stampings
  <2> QED
    BY <1>4, <1>5, <2>2
<1>8. ASSUME paths # {} PROVE b # <<>>
  <2>1. PICK p \in paths : TRUE
    BY <1>8
  <2>2. PICK k \in 1 .. Len(Notes) : Notes[k] = p
    BY <1>1, <2>1 DEF Paths, Range
  <2>3. \E j \in 1 .. Len(r) : TRUE
    BY <1>3, <2>1, <2>2
  <2>4. DOMAIN b # {}
    BY <1>6, <2>3
  <2> QED
    BY <2>4
<1>9. \A i \in 1 .. Len(r) : /\ b[i].path = r[i] /\ b[i].marker.batch = time
                            /\ b[i].marker.order = i
  BY <1>6 DEF InitialMarker
<1>10. ASSUME NEW i \in DOMAIN b, NEW l \in DOMAIN b, NEW j \in DOMAIN Notes, NEW k \in DOMAIN Notes,
              b[i].path = Notes[j], b[l].path = Notes[k], j < k
       PROVE  b[i].marker.order < b[l].marker.order
  <2>1. i \in 1 .. Len(r) /\ l \in 1 .. Len(r)
    BY <1>6, <1>10
  <2>2. at[i] = j /\ at[l] = k
    BY <1>1, <1>3, <1>9, <1>10, <2>1
  <2>3. i < l
    <3>1. ~ (l < i) /\ i # l
      BY <1>1, <1>3, <1>10, <2>1, <2>2
    <3> QED
      BY <1>5, <2>1, <3>1
  <2> QED
    BY <1>9, <2>1, <2>3
<1>11. \A i \in DOMAIN b : b[i].path \in paths /\ b[i].marker.batch = time
  BY <1>3, <1>6, <1>9
<1> QED
  BY <1>7, <1>8, <1>10, <1>11 DEF InPathOrder, b, r

\* A target stands for the document at its path, or for a namesake when it is
\* the path of no document of the context.
LEMMA TargetMatch ==
  ASSUME NEW s \in Seq(Paths), NEW t \in Seq(Paths), NEW target
  PROVE  LET m == MatchTarget(target, s, t) IN
         m # NoPath => /\ m \in Paths
                       /\ m = target \/ (target.name = m.name /\ \A k \in DOMAIN t : t[k] # target)
<1> DEFINE known == s \o t
           S == {p \in Range(known) : p.name = target.name}
           same == Kept(known, S)
           m == MatchTarget(target, s, t)
<1>1. /\ known \in Seq(Paths) /\ DOMAIN known = 1 .. Len(s) + Len(t)
      /\ Len(s) \in Nat /\ Len(t) \in Nat /\ DOMAIN t = 1 .. Len(t)
      /\ \A k \in 1 .. Len(t) : known[Len(s) + k] = t[k]
  BY ConcatProperties
<1>2. ASSUME \A k \in DOMAIN known : known[k] # target, NEW k \in DOMAIN t PROVE t[k] # target
  <2>1. Len(s) + k \in DOMAIN known /\ known[Len(s) + k] = t[k]
    BY <1>1
  <2> QED
    BY <1>2, <2>1
<1>3. m = IF \E k \in DOMAIN known : known[k] = target THEN target
          ELSE IF same = <<>> THEN NoPath ELSE Head(same)
  BY DEF MatchTarget, Namesakes
<1> HIDE DEF known, S
<1>4. same \in Seq(Paths) /\ \A j \in 1 .. Len(same) : same[j] \in S
  BY <1>1, KeptMembers
<1> HIDE DEF same, m
<1>5. same # <<>> => Head(same) \in Paths /\ Head(same).name = target.name
  <2>1. same # <<>> => 1 \in 1 .. Len(same) /\ Head(same) = same[1]
    BY <1>4
  <2> QED
    BY <1>4, <2>1 DEF S
<1>6. CASE \E k \in DOMAIN known : known[k] = target
  <2>1. target \in Paths
    BY <1>1, <1>6
  <2> QED
    BY <1>3, <1>6, <2>1 DEF m
<1>7. CASE ~ \E k \in DOMAIN known : known[k] = target
  BY <1>2, <1>3, <1>5, <1>7 DEF m
<1> QED
  BY <1>6, <1>7

LEMMA ProjectRoots ==
  DOMAIN Projects = 1 .. Len(Projects) /\ \A k \in 1 .. Len(Projects) : Projects[k].root \in STRING
<1> DEFINE R == [root : STRING, title : STRING, name : STRING, alias : STRING, readme : BOOLEAN]
<1>1. Projects \in Seq(R) /\ \A r \in R : r.root \in STRING
  BY MutationAssumption
<1> HIDE DEF R
<1> QED
  BY <1>1

\* The project a deletion is of: the first that is like the candidate, which is
\* the candidate unless one before it shares a name with it.
LEMMA FirstAlike ==
  ASSUME NEW candidate \in DOMAIN Projects
  PROVE  /\ TypedProject(candidate) \in 1 .. Len(Projects)
         /\ (\A k \in 1..(candidate - 1) : ~SharesName(Projects[k], Projects[candidate])) =>
              Projects[TypedProject(candidate)].root = Projects[candidate].root
<1> DEFINE alike == {k \in DOMAIN Projects : \/ Projects[k].root = Projects[candidate].root
                                             \/ SharesName(Projects[k], Projects[candidate])}
           first == TypedProject(candidate)
<1>1. DOMAIN Projects = 1 .. Len(Projects) /\ Len(Projects) \in Nat
      /\ \A j, k \in DOMAIN Projects : Projects[j].root = Projects[k].root => j = k
  BY MutationAssumption
<1>2. candidate \in alike /\ alike \in SUBSET Nat
  BY <1>1
<1>3. first = CHOOSE k \in alike : \A j \in alike : k <= j
  BY DEF TypedProject
<1> HIDE DEF alike
<1>4. \E k \in alike : \A j \in alike : k <= j
  BY <1>2, LeastNumber
<1>5. first \in alike /\ \A j \in alike : first <= j
  BY <1>3, <1>4
<1> HIDE DEF first
<1>6. first \in 1 .. Len(Projects)
  BY <1>1, <1>5 DEF alike
<1>7. ASSUME \A k \in 1..(candidate - 1) : ~SharesName(Projects[k], Projects[candidate])
      PROVE  Projects[first].root = Projects[candidate].root
  <2>1. CASE Projects[first].root = Projects[candidate].root
    BY <2>1
  <2>2. CASE SharesName(Projects[first], Projects[candidate])
    <3>1. first <= candidate /\ ~ (first \in 1 .. candidate - 1)
      BY <1>2, <1>5, <1>7, <2>2
    <3>2. first = candidate
      BY <1>1, <1>6, <3>1
    <3> QED
      BY <3>2
  <2> QED
    BY <1>5, <2>1, <2>2 DEF alike
<1> QED
  BY <1>6, <1>7 DEF first

LEMMA QueuedPaths ==
  ASSUME NEW S \in SUBSET Paths
  PROVE  InPathOrder(S, Notes) \in Seq(Paths)
<1>1. Notes \in Seq(Paths)
  BY MutationAssumption DEF Paths, Range
<1> QED
  BY <1>1, KeptMembers DEF InPathOrder

\* The paths of a deletion are documents below the root, and the root.
LEMMA PathsBelow ==
  ASSUME NEW loaded \in SUBSET ProjectDocs, IsFiniteSet(loaded), NEW root \in STRING
  PROVE  LET r == ProjectPaths(root, loaded) IN
         r \in Seq(ProjectDocs) /\ r # <<>> /\ \A k \in DOMAIN r : r[k].root = root
<1> DEFINE D == {d \in loaded : d.root = root}
           n == Cardinality(D)
           s == SetToSeq(D)
           last == [root |-> root, name |-> NoText]
<1>1. IsFiniteSet(D)
  BY FS_Subset
<1>2. n \in Nat /\ ExistsBijection(1 .. n, D)
  <2> HIDE DEF D
  <2> QED
    BY <1>1, FS_CardinalityType
<1>3. PICK f \in [1 .. n -> D] : \A j, k \in 1 .. n : f[j] = f[k] => j = k
  BY <1>2 DEF ExistsBijection, Bijection, Injection, IsInjective
<1>4. s \in [1 .. n -> D]
  <2> HIDE DEF D
  <2>1. s = CHOOSE g \in [1 .. n -> D] : IsInjective(g)
    BY DEF SetToSeq
  <2>2. IsInjective(f)
    BY <1>3 DEF IsInjective
  <2> HIDE DEF n, s
  <2> QED
    BY <1>3, <2>1, <2>2
<1>5. s \in Seq(D) /\ Len(s) = n
  BY <1>2, <1>4
<1>6. last \in ProjectDocs /\ last.root = root
  BY DEF ProjectDocs
<1>7. ProjectPaths(root, loaded) = Append(s, last)
  BY DEF ProjectPaths, Below
<1> HIDE DEF s, n, last, ProjectDocs
<1>8. D \subseteq ProjectDocs /\ \A d \in D : d.root = root
  OBVIOUS
<1> HIDE DEF D
<1>9. /\ Append(s, last) \in Seq(ProjectDocs) /\ Append(s, last) # <<>>
      /\ DOMAIN Append(s, last) = 1 .. n + 1
      /\ \A k \in 1 .. n : Append(s, last)[k] = s[k]
      /\ Append(s, last)[n + 1] = last
  <2>1. s \in Seq(ProjectDocs)
    BY <1>5, <1>8
  <2> QED
    BY <1>2, <1>5, <1>6, <2>1
<1>10. \A k \in 1 .. n + 1 : k \in 1 .. n \/ k = n + 1
  BY <1>2
<1>11. \A k \in 1 .. n + 1 : Append(s, last)[k].root = root
  BY <1>4, <1>6, <1>8, <1>9, <1>10
<1> QED
  BY <1>7, <1>9, <1>11

-----------------------------------------------------------------------------
(* The steps *)

LEMMA InitInvariant == Init => IInv
<1> SUFFICES ASSUME Init PROVE IInv
  OBVIOUS
<1>1. /\ drafts = <<>> /\ late = {} /\ time = 0 /\ states = <<>> /\ refs = <<>>
      /\ cmd.action = "none" /\ todo = <<>> /\ pc = "idle" /\ held = NoFile /\ batches = <<>> /\ sent = {}
  BY DEF Init, NoCommand
<1>2. ASSUME NEW k \in DOMAIN Notes, NEW state \in {NoText, "pending", "migrated"}, NEW valid \in BOOLEAN
      PROVE  InitialFile(k, state, valid) \in NoteFiles /\ InitialFile(k, state, valid).marker.batch = 0
  <2>1. k \in Nat
    BY MutationAssumption
  <2> DEFINE m == InitialMarker("nora_mcp", 0, k)
             marker == IF state = NoText THEN NoMarker ELSE [m EXCEPT !.state = state]
  <2>2. m \in Markers /\ m.batch = 0
    BY <2>1, MarkerTypes DEF Workflows, InitialMarker
  <2>3. marker \in Markers /\ marker.batch = 0
    <3> HIDE DEF m
    <3> QED
      BY <2>2, MarkerTypes DEF Markers, NoMarker
  <2>4. InitialFile(k, state, valid) =
          [flat |-> TRUE, nested |-> TRUE, valid |-> valid, front |-> 1,
           table |-> IF Notes[k].dir \in FinanceDirs THEN 2 ELSE 0, marker |-> marker]
    BY DEF InitialFile
  <2> HIDE DEF marker
  <2>5. InitialFile(k, state, valid).marker = marker
    BY <2>4
  <2>6. InitialFile(k, state, valid) \in NoteFiles
    <3> HIDE DEF Markers
    <3> QED
      BY <2>3, <2>4 DEF NoteFiles
  <2> QED
    BY <2>3, <2>5, <2>6
<1>3. notes \in [Paths -> NoteFiles] /\ \A p \in Paths : notes[p].marker.batch = 0
  <2>1. PICK state \in {NoText, "migrated"}, odd \in DOMAIN Notes :
          notes = [p \in Range(Notes) |->
                     LET k == CHOOSE j \in DOMAIN Notes : Notes[j] = p
                     IN IF k = odd THEN InitialFile(k, state, FALSE)
                        ELSE InitialFile(k, "pending", TRUE)]
    BY DEF Init
  <2> DEFINE place(p) == CHOOSE j \in DOMAIN Notes : Notes[j] = p
             file(p) == IF place(p) = odd THEN InitialFile(place(p), state, FALSE)
                        ELSE InitialFile(place(p), "pending", TRUE)
  <2>2. notes = [p \in Paths |-> file(p)]
    BY <2>1 DEF Paths
  <2>3. \A p \in Paths : place(p) \in DOMAIN Notes
    BY DEF Paths, Range
  <2> HIDE DEF place
  <2>4. \A p \in Paths : file(p) \in NoteFiles /\ file(p).marker.batch = 0
    BY <1>2, <2>3
  <2> HIDE DEF file
  <2> QED
    BY <2>2, <2>4
<1>4. docs \subseteq ProjectDocs /\ IsFiniteSet(docs)
  <2> DEFINE N == {NoText, "plan"}
             P == 1 .. Len(Projects)
             f == [x \in P \X N |-> [root |-> Projects[x[1]].root, name |-> x[2]]]
  <2>1. docs = {[root |-> Projects[k].root, name |-> n] : k \in P, n \in N}
    BY MutationAssumption DEF Init
  <2>2. \A k \in P : Projects[k].root \in STRING
    BY ProjectRoots
  <2>3. docs \subseteq ProjectDocs
    BY <2>1, <2>2 DEF ProjectDocs
  <2>4. IsFiniteSet(P) /\ IsFiniteSet(N)
    <3>1. IsFiniteSet(P)
      BY FS_Interval, MutationAssumption
    <3>2. IsFiniteSet({NoText}) /\ N = {NoText} \union {"plan"}
      BY FS_Singleton
    <3> QED
      BY <3>1, <3>2, FS_AddElement
  <2>5. f \in Surjection(P \X N, docs)
    <3> HIDE DEF P, N
    <3>1. f \in [P \X N -> docs]
      BY <2>1
    <3>2. ASSUME NEW d \in docs PROVE \E x \in P \X N : f[x] = d
      <4>1. PICK k \in P, n \in N : d = [root |-> Projects[k].root, name |-> n]
        BY <2>1
      <4>2. <<k, n>> \in P \X N /\ f[<<k, n>>] = d
        BY <4>1
      <4> QED
        BY <4>2
    <3> QED
      BY <3>1, <3>2 DEF Surjection
  <2> HIDE DEF P, N, f
  <2>6. IsFiniteSet(P \X N)
    BY <2>4, FS_Product
  <2> QED
    BY <2>3, <2>5, <2>6, FS_Surjection
<1>5. Types
  BY <1>1, <1>3, <1>4, MarkerTypes DEF Types
<1>6. HeldIsCurrent /\ DraftsRight /\ DraftsKept /\ AsAsked
  BY <1>1 DEF HeldIsCurrent, DraftsRight, DraftsKept, AsAsked
<1>7. \A p \in Paths : \A m \in Stamps(p) : m.batch = 0
  BY <1>1, <1>3 DEF Stamps
<1>8. StampsKnown
  BY <1>7 DEF StampsKnown
<1>9. StampsOrdered
  BY <1>7 DEF StampsOrdered, Paths, Range
<1> QED
  BY <1>5, <1>6, <1>8, <1>9 DEF IInv

\* No step but the planning of a batch makes a marker that was not there.
LEMMA StampsStay ==
  ASSUME IInv, UNCHANGED batches, \A p \in Paths : Stamps(p)' \subseteq Stamps(p)
  PROVE  StampsKnown' /\ StampsOrdered'
<1>1. StampsKnown'
  BY DEF IInv, StampsKnown
<1>2. \A k \in DOMAIN Notes : Stamps(Notes[k])' \subseteq Stamps(Notes[k])
  BY DEF Paths, Range
<1>3. StampsOrdered'
  BY <1>2 DEF IInv, StampsOrdered, Single
<1> QED
  BY <1>1, <1>3

LEMMA LoadContextStep == ASSUME IInv, LoadContext PROVE IInv'
<1>1. UNCHANGED <<notes, drafts, docs, late, cmd, todo, held, batches, sent>>
      /\ pc = "idle" /\ pc' = "plan" /\ cmd.action = "none"
  BY DEF LoadContext, IInv, Types
<1>2. PICK W \in SUBSET DOMAIN notes : \E P \in SUBSET W, t \in time..MaxTime :
        /\ refs' = InPathOrder(W, Notes)
        /\ states' = [p \in {q \in P : Queued(notes[q].marker)} |-> notes[p].marker]
        /\ time' = t
  BY DEF LoadContext
<1>3. W \subseteq Paths
  BY DEF IInv, Types
<1>4. refs' \in Seq(Paths) /\ DOMAIN states' \subseteq Paths /\ time' \in Nat
  <2>1. InPathOrder(W, Notes) \in Seq(Paths)
    BY <1>3, QueuedPaths
  <2>2. time' \in Nat
    BY <1>2, MutationAssumption DEF IInv, Types
  <2> QED
    BY <1>2, <1>3, <2>1, <2>2
<1>5. Types'
  BY <1>1, <1>4 DEF IInv, Types
<1>6. StampsKnown' /\ StampsOrdered'
  BY <1>1, StampsStay DEF Stamps
<1>7. HeldIsCurrent' /\ DraftsRight' /\ DraftsKept' /\ AsAsked'
  BY <1>1 DEF IInv, HeldIsCurrent, DraftsRight, DraftsKept, AsAsked
<1> QED
  BY <1>5, <1>6, <1>7 DEF IInv

\* A step that ends the mutation, whatever it has done to the workspace.
LEMMA Ends ==
  ASSUME IInv, Finish, UNCHANGED <<time, batches>>,
         notes' \in [Paths -> NoteFiles], docs' \subseteq docs,
         \A c \in late' : c.op = "note" => c.path \in Paths /\ c.file \in NoteFiles,
         \A c \in late' : c.op = "draft" => DraftRight(c.draft),
         \A n \in DOMAIN drafts' : n = Second(drafts'[n].at),
         DraftsKept',
         \A p \in Paths : notes'[p].marker \in Stamps(p)
            /\ \A c \in late' : c.op = "note" /\ c.path = p => c.file.marker \in Stamps(p)
  PROVE  IInv'
<1>1. /\ cmd'.action = "none" /\ todo' = <<>> /\ pc' = "idle" /\ held' = NoFile
      /\ states' = <<>> /\ refs' = <<>>
  BY DEF Finish, NoCommand
<1>2. docs' \subseteq ProjectDocs /\ IsFiniteSet(docs')
  BY FS_Subset DEF IInv, Types
<1>3. Types'
  BY <1>1, <1>2, MarkerTypes DEF IInv, Types
<1>4. \A p \in Paths : Stamps(p)' \subseteq Stamps(p)
  <2>1. ASSUME NEW p \in Paths, NEW m \in Stamps(p)' PROVE m \in Stamps(p)
    <3>1. m = notes'[p].marker \/ \E c \in late' : c.op = "note" /\ c.path = p /\ m = c.file.marker
      BY <1>1, <2>1 DEF Stamps
    <3> QED
      BY <3>1
  <2> QED
    BY <2>1
<1>5. StampsKnown' /\ StampsOrdered'
  BY <1>4, StampsStay
<1>6. HeldIsCurrent' /\ DraftsRight' /\ AsAsked'
  BY <1>1 DEF HeldIsCurrent, DraftsRight, AsAsked
<1> QED
  BY <1>3, <1>5, <1>6 DEF IInv

LEMMA ClarifyStep == ASSUME IInv, Clarify PROVE IInv'
<1>1. Finish /\ UNCHANGED <<notes, drafts, docs, late, time, batches, sent>>
  BY DEF Clarify
<1>2. \A p \in Paths : notes'[p].marker \in Stamps(p)
        /\ \A c \in late' : c.op = "note" /\ c.path = p => c.file.marker \in Stamps(p)
  BY <1>1 DEF Stamps
<1>3. /\ notes' \in [Paths -> NoteFiles] /\ docs' \subseteq docs
      /\ \A c \in late' : c.op = "note" => c.path \in Paths /\ c.file \in NoteFiles
      /\ \A c \in late' : c.op = "draft" => DraftRight(c.draft)
      /\ \A n \in DOMAIN drafts' : n = Second(drafts'[n].at)
      /\ DraftsKept'
  BY <1>1 DEF IInv, Types, DraftsRight, DraftsKept
<1> QED
  BY <1>1, <1>2, <1>3, Ends

\* A batch is planned: its time is new, or several batches share it and nothing
\* is promised of their order.
LEMMA PlanQueueStep == ASSUME IInv, PlanQueue PROVE IInv'
<1>1. PICK targets \in SUBSET (Range(Notes) \union Unknown), assistant \in {NoText, "other"} :
        LET hits == ResolvedTargets(targets, QueuedRefs, refs)
            paths == InPathOrder(hits, Notes)
        IN IF hits = {} THEN Clarify
           ELSE /\ Begin([action |-> "queue", targets |-> targets],
                         Batch(paths, EffectiveWorkflow(assistant, NoText)), "read")
                /\ batches' = Append(batches, time)
  BY DEF PlanQueue
<1> DEFINE hits == ResolvedTargets(targets, QueuedRefs, refs)
           workflow == EffectiveWorkflow(assistant, NoText)
           b == Batch(InPathOrder(hits, Notes), workflow)
<1>2. CASE hits = {}
  BY <1>1, <1>2, ClarifyStep
<1>3. CASE hits # {}
  <2>1. /\ cmd' = [action |-> "queue", targets |-> targets] /\ todo' = b /\ pc' = "read"
        /\ UNCHANGED <<notes, drafts, docs, late, held, sent, time, states, refs>>
        /\ batches' = Append(batches, time) /\ cmd.action = "none"
    BY <1>1, <1>3 DEF Begin, context, PlanQueue, IInv, Types
  <2>2. workflow \in Workflows
    BY DEF EffectiveWorkflow, Workflows
  <2>3. ASSUME NEW p \in hits
        PROVE  /\ p \in Paths
               /\ \E t \in targets :
                    t = p \/ (t.name = p.name /\ \A j \in DOMAIN refs : refs[j] # t)
    <3>1. QueuedRefs \in Seq(Paths) /\ refs \in Seq(Paths)
      BY QueuedPaths DEF QueuedRefs, IInv, Types
    <3>2. PICK t \in targets : p = MatchTarget(t, QueuedRefs, refs) /\ p # NoPath
      BY DEF ResolvedTargets
    <3> QED
      BY <3>1, <3>2, TargetMatch
  <2>4. /\ b \in Seq(Stampings) /\ b # <<>>
        /\ \A i \in DOMAIN b : b[i].path \in hits /\ b[i].marker.batch = time
        /\ \A i, l \in DOMAIN b, j, k \in DOMAIN Notes :
             b[i].path = Notes[j] /\ b[l].path = Notes[k] /\ j < k =>
               b[i].marker.order < b[l].marker.order
    <3>1. hits \in SUBSET Paths /\ time \in Nat
      BY <2>3 DEF IInv, Types
    <3> HIDE DEF hits, workflow
    <3> QED
      BY <1>3, <2>2, <3>1, BatchInOrder
  <2> HIDE DEF b, hits
  <2>5. /\ batches' \in Seq(Nat) /\ DOMAIN batches' = 1 .. Len(batches) + 1
        /\ DOMAIN batches = 1 .. Len(batches) /\ Len(batches) \in Nat
        /\ \A j \in DOMAIN batches : batches'[j] = batches[j]
        /\ batches'[Len(batches) + 1] = time
    BY <2>1 DEF IInv, Types
  <2>6. Types'
    <3>1. cmd'.action = "queue"
      BY <2>1
    <3> QED
      BY <2>1, <2>4, <2>5, <3>1 DEF IInv, Types
  <2>7. \A p \in Paths : \A m \in Stamps(p)' :
          m \in Stamps(p) \/ \E i \in DOMAIN b : b[i].path = p /\ m = b[i].marker
    <3>1. ASSUME NEW p \in Paths, NEW m \in Stamps(p)'
          PROVE  m \in Stamps(p) \/ \E i \in DOMAIN b : b[i].path = p /\ m = b[i].marker
      <4>1. \/ m = notes[p].marker
            \/ \E i \in DOMAIN b : b[i].path = p /\ m = b[i].marker
            \/ \E c \in late : c.op = "note" /\ c.path = p /\ m = c.file.marker
        BY <2>1, <3>1 DEF Stamps
      <4> QED
        BY <4>1 DEF Stamps
    <3> QED
      BY <3>1
  <2>8. StampsKnown'
    <3>1. ASSUME NEW p \in Paths, NEW m \in Stamps(p)', m.batch # 0
          PROVE  \E j \in DOMAIN batches' : batches'[j] = m.batch
      <4>1. CASE m \in Stamps(p)
        <5>1. \E j \in DOMAIN batches : batches[j] = m.batch
          BY <3>1, <4>1 DEF IInv, StampsKnown
        <5> QED
          BY <2>5, <5>1
      <4>2. CASE m \notin Stamps(p)
        BY <2>4, <2>5, <2>7, <3>1, <4>2
      <4> QED
        BY <4>1, <4>2
    <3> QED
      BY <3>1 DEF StampsKnown
  <2>9. StampsOrdered'
    <3>1. ASSUME NEW j \in DOMAIN Notes, NEW k \in DOMAIN Notes, j < k,
                 NEW m \in Stamps(Notes[j])', NEW n \in Stamps(Notes[k])',
                 m.batch = n.batch, m.batch # 0, Single(m.batch)'
          PROVE  m.order < n.order
      <4>1. Notes[j] \in Paths /\ Notes[k] \in Paths
        BY DEF Paths, Range
      <4>2. \A x \in DOMAIN batches', y \in DOMAIN batches' :
              batches'[x] = m.batch /\ batches'[y] = m.batch => x = y
        BY <3>1 DEF Single
      <4>3. m.batch = time => \A x \in DOMAIN batches : batches[x] # time
        <5>1. Len(batches) + 1 \in DOMAIN batches' /\ \A x \in DOMAIN batches : x # Len(batches) + 1 /\ x \in DOMAIN batches'
          BY <2>5
        <5> QED
          BY <2>5, <4>2, <5>1
      <4>4. CASE m \in Stamps(Notes[j]) /\ n \in Stamps(Notes[k])
        <5>1. Single(m.batch)
          BY <2>5, <4>2 DEF Single
        <5> QED
          BY <3>1, <4>4, <5>1 DEF IInv, StampsOrdered
      <4>5. CASE m \notin Stamps(Notes[j]) /\ n \notin Stamps(Notes[k])
        BY <2>4, <2>7, <3>1, <4>1, <4>5
      <4>6. CASE m \in Stamps(Notes[j]) /\ n \notin Stamps(Notes[k])
        <5>1. m.batch = time
          BY <2>4, <2>7, <3>1, <4>1, <4>6
        <5>2. \E x \in DOMAIN batches : batches[x] = m.batch
          BY <3>1, <4>1, <4>6 DEF IInv, StampsKnown
        <5> QED
          BY <4>3, <5>1, <5>2
      <4>7. CASE m \notin Stamps(Notes[j]) /\ n \in Stamps(Notes[k])
        <5>1. m.batch = time
          BY <2>4, <2>7, <3>1, <4>1, <4>7
        <5>2. \E x \in DOMAIN batches : batches[x] = n.batch
          BY <3>1, <4>1, <4>7 DEF IInv, StampsKnown
        <5> QED
          BY <3>1, <4>3, <5>1, <5>2
      <4> QED
        BY <4>4, <4>5, <4>6, <4>7
    <3> QED
      BY <3>1 DEF StampsOrdered
  <2>10. HeldIsCurrent' /\ DraftsRight' /\ DraftsKept'
    <3>1. cmd'.action = "queue" /\ pc' # "write"
      BY <2>1
    <3> QED
      BY <2>1, <3>1 DEF IInv, HeldIsCurrent, DraftsRight, DraftsKept
  <2>11. AsAsked'
    <3>1. cmd'.action = "queue" /\ cmd'.targets = targets
      BY <2>1
    <3> QED
      BY <2>1, <2>3, <2>4, <3>1 DEF AsAsked
  <2> QED
    BY <2>6, <2>8, <2>9, <2>10, <2>11 DEF IInv
<1> QED
  BY <1>2, <1>3

\* A draft is planned, whatever it carries.
LEMMA PlanDraftStep == ASSUME IInv, PlanDraft PROVE IInv'
<1>1. CASE Clarify
  BY <1>1, ClarifyStep
<1>2. CASE \E created \in {-1} \union (0..MaxTime),
             asked \in {{}, {"asked"}}, matched \in {{}, {"matched"}},
             kind \in {"user_request", "workflow_policy"} :
           LET c == [action |-> "draft", asked |-> asked, matched |-> matched, kind |-> kind]
               at == DraftTime(created, time)
           IN \E files \in Attachments(c) :
                /\ Begin(c, <<[name |-> DraftName(at), files |-> files, at |-> at]>>,
                         "write")
                /\ UNCHANGED batches
  <2>1. PICK created \in {-1} \union (0..MaxTime),
             asked \in {{}, {"asked"}}, matched \in {{}, {"matched"}},
             kind \in {"user_request", "workflow_policy"} :
           LET c == [action |-> "draft", asked |-> asked, matched |-> matched, kind |-> kind]
               at == DraftTime(created, time)
           IN \E files \in Attachments(c) :
                /\ Begin(c, <<[name |-> DraftName(at), files |-> files, at |-> at]>>,
                         "write")
                /\ UNCHANGED batches
    BY <1>2
  <2> DEFINE c == [action |-> "draft", asked |-> asked, matched |-> matched, kind |-> kind]
             at == DraftTime(created, time)
             draft(files) == [name |-> DraftName(at), files |-> files, at |-> at]
  <2>2. PICK files \in Attachments(c) : Begin(c, <<draft(files)>>, "write") /\ UNCHANGED batches
    BY <2>1
  <2>3. /\ cmd' = c /\ todo' = <<draft(files)>> /\ pc' = "write" /\ cmd.action = "none"
        /\ UNCHANGED <<notes, drafts, docs, late, held, settled, sent, time, states, refs, batches>>
    BY <2>2 DEF Begin, context, PlanDraft, IInv, Types
  <2>4. cmd'.action = "draft" /\ Len(todo') = 1 /\ todo' # <<>> /\ DraftRight(todo'[1])
    BY <2>3 DEF DraftRight, DraftName
  <2>5. Types'
    BY <2>3, <2>4 DEF IInv, Types
  <2>6. StampsKnown' /\ StampsOrdered'
    BY <2>3, <2>4, StampsStay DEF Stamps
  <2>7. HeldIsCurrent' /\ DraftsRight' /\ DraftsKept' /\ AsAsked'
    BY <2>3, <2>4 DEF IInv, HeldIsCurrent, DraftsRight, DraftsKept, AsAsked
  <2> QED
    BY <2>5, <2>6, <2>7 DEF IInv
<1> QED
  <2>1. PICK complete \in BOOLEAN, created \in {-1} \union (0..MaxTime),
             asked \in {{}, {"asked"}}, matched \in {{}, {"matched"}},
             kind \in {"user_request", "workflow_policy"} :
          LET c == [action |-> "draft", asked |-> asked, matched |-> matched, kind |-> kind]
              at == DraftTime(created, time)
          IN IF ~complete THEN Clarify
             ELSE \E files \in Attachments(c) :
                    /\ Begin(c, <<[name |-> DraftName(at), files |-> files, at |-> at]>>, "write")
                    /\ UNCHANGED batches
    BY DEF PlanDraft
  <2>2. CASE ~complete
    BY <1>1, <2>1, <2>2
  <2>3. CASE complete
    BY <1>2, <2>1, <2>3, Zenon
  <2> QED
    BY <2>2, <2>3

LEMMA PlanDeletionStep == ASSUME IInv, PlanDeletion PROVE IInv'
<1>1. CASE Clarify
  BY <1>1, ClarifyStep
<1>2. CASE \E candidate \in DOMAIN Projects, loaded \in SUBSET docs :
             /\ Begin([action |-> "delete", candidate |-> candidate],
                      ProjectPaths(Projects[TypedProject(candidate)].root,
                                   {d \in loaded : d.name # NoText}), "write")
             /\ UNCHANGED batches
  <2>1. PICK candidate \in DOMAIN Projects, loaded \in SUBSET docs :
             /\ Begin([action |-> "delete", candidate |-> candidate],
                      ProjectPaths(Projects[TypedProject(candidate)].root,
                                   {d \in loaded : d.name # NoText}), "write")
             /\ UNCHANGED batches
    BY <1>2
  <2> DEFINE root == Projects[TypedProject(candidate)].root
             L == {d \in loaded : d.name # NoText}
             r == ProjectPaths(root, L)
  <2>2. root \in STRING
    BY FirstAlike, ProjectRoots
  <2>3. L \in SUBSET ProjectDocs /\ IsFiniteSet(L)
    BY FS_Subset DEF IInv, Types
  <2>4. r \in Seq(ProjectDocs) /\ r # <<>> /\ \A k \in DOMAIN r : r[k].root = root
    <3> HIDE DEF root, L
    <3> QED
      BY <2>2, <2>3, PathsBelow
  <2>5. /\ cmd' = [action |-> "delete", candidate |-> candidate] /\ todo' = r /\ pc' = "write"
        /\ UNCHANGED <<notes, drafts, docs, late, held, settled, sent, time, states, refs, batches>>
        /\ cmd.action = "none"
    BY <2>1 DEF Begin, context, PlanDeletion, IInv, Types
  <2>6. cmd'.action = "delete" /\ cmd'.candidate = candidate
    BY <2>5
  <2> HIDE DEF r
  <2>7. Types'
    BY <2>4, <2>5, <2>6 DEF IInv, Types
  <2>8. StampsKnown' /\ StampsOrdered'
    BY <2>5, <2>6, StampsStay DEF Stamps
  <2>9. HeldIsCurrent' /\ DraftsRight' /\ DraftsKept'
    BY <2>5, <2>6 DEF IInv, HeldIsCurrent, DraftsRight, DraftsKept
  <2>10. AsAsked'
    BY <2>4, <2>5, <2>6 DEF AsAsked
  <2> QED
    BY <2>7, <2>8, <2>9, <2>10 DEF IInv
<1> QED
  <2>1. PICK candidate \in DOMAIN Projects \union {0}, loaded \in SUBSET docs :
          IF candidate = 0 \/ ~Projects[TypedProject(candidate)].readme THEN Clarify
          ELSE /\ Begin([action |-> "delete", candidate |-> candidate],
                        ProjectPaths(Projects[TypedProject(candidate)].root,
                                     {d \in loaded : d.name # NoText}), "write")
               /\ UNCHANGED batches
    BY DEF PlanDeletion
  <2> QED
    BY <1>1, <1>2, <2>1

\* The end of one remote call of a batch or a deletion.
LEMMA Proceeds ==
  ASSUME IInv, NEW next \in {"read", "write"}, Proceed(next),
         \/ cmd.action = "queue" /\ next = "read"
         \/ cmd.action = "delete" /\ next = "write",
         UNCHANGED <<drafts, time, batches, sent>>,
         notes' \in [Paths -> NoteFiles], docs' \subseteq docs,
         \A c \in late' : c.op = "note" => c.path \in Paths /\ c.file \in NoteFiles,
         \A c \in late' : c.op = "draft" => DraftRight(c.draft),
         \A p \in Paths : notes'[p].marker \in Stamps(p)
            /\ \A c \in late' : c.op = "note" /\ c.path = p => c.file.marker \in Stamps(p)
  PROVE  IInv'
<1>1. /\ \A n \in DOMAIN drafts' : n = Second(drafts'[n].at)
      /\ DraftsKept'
  BY DEF IInv, DraftsRight, DraftsKept
<1>2. CASE Len(todo) = 1
  BY <1>1, <1>2, Ends DEF Proceed
<1>3. CASE Len(todo) # 1
  <2>1. /\ todo' = Tail(todo) /\ pc' = next /\ held' = NoFile /\ UNCHANGED <<cmd, states, refs>>
    BY <1>3 DEF Proceed
  <2>2. /\ todo # <<>>
        /\ cmd.action = "queue" => todo \in Seq(Stampings)
        /\ cmd.action = "delete" => todo \in Seq(ProjectDocs)
    BY DEF IInv, Types
  <2>3. /\ todo' # <<>>
        /\ cmd.action = "queue" => todo' \in Seq(Stampings)
        /\ cmd.action = "delete" => todo' \in Seq(ProjectDocs)
        /\ \A k \in DOMAIN todo' : k + 1 \in DOMAIN todo /\ todo'[k] = todo[k + 1]
    <3>1. ASSUME NEW X, todo \in Seq(X)
          PROVE  /\ todo' # <<>> /\ todo' \in Seq(X)
                 /\ \A k \in DOMAIN todo' : k + 1 \in DOMAIN todo /\ todo'[k] = todo[k + 1]
      <4>1. /\ Tail(todo) \in Seq(X)
            /\ \A k \in DOMAIN Tail(todo) : k + 1 \in DOMAIN todo /\ Tail(todo)[k] = todo[k + 1]
        BY <2>2, <3>1, Remaining
      <4>2. Tail(todo) # <<>>
        <5>1. Len(Tail(todo)) = Len(todo) - 1 /\ Len(todo) \in Nat
          BY <2>2, <3>1
        <5>2. Len(Tail(todo)) # 0
          BY <1>3, <5>1
        <5>3. Len(<< >>) = 0
          OBVIOUS
        <5> QED
          BY <5>2, <5>3, Zenon
      <4> QED
        BY <2>1, <4>1, <4>2
    <3> QED
      BY <2>2, <3>1
  <2>4. docs' \subseteq ProjectDocs /\ IsFiniteSet(docs')
    BY FS_Subset DEF IInv, Types
  <2>5. Types'
    BY <2>1, <2>3, <2>4, MarkerTypes DEF IInv, Types
  <2>6. \A p \in Paths : Stamps(p)' \subseteq Stamps(p)
    <3>1. ASSUME NEW p \in Paths, NEW m \in Stamps(p)' PROVE m \in Stamps(p)
      <4>1. \/ m = notes'[p].marker
            \/ cmd.action = "queue" /\ \E k \in DOMAIN todo' : todo'[k].path = p /\ m = todo'[k].marker
            \/ \E c \in late' : c.op = "note" /\ c.path = p /\ m = c.file.marker
        BY <2>1, <3>1 DEF Stamps
      <4>2. (cmd.action = "queue" /\ \E k \in DOMAIN todo' : todo'[k].path = p /\ m = todo'[k].marker)
              => m \in Stamps(p)
        BY <2>3 DEF Stamps
      <4> QED
        BY <4>1, <4>2
    <3> QED
      BY <3>1
  <2>7. StampsKnown' /\ StampsOrdered'
    BY <2>6, StampsStay
  <2>8. HeldIsCurrent' /\ DraftsRight'
    BY <1>1, <2>1 DEF HeldIsCurrent, DraftsRight
  <2>9. AsAsked'
    BY <2>1, <2>3 DEF IInv, AsAsked
  <2> QED
    BY <1>1, <2>5, <2>7, <2>8, <2>9 DEF IInv
<1> QED
  BY <1>2, <1>3

\* The first of the stampings to do, and its document.
LEMMA HeadOfBatch ==
  ASSUME IInv, cmd.action = "queue"
  PROVE  /\ 1 \in DOMAIN todo /\ Head(todo) = todo[1] /\ todo[1] \in Stampings
         /\ todo[1].path \in Paths /\ todo[1].marker \in Markers
         /\ todo[1].marker \in Stamps(todo[1].path)
<1>1. todo \in Seq(Stampings) /\ todo # <<>>
  BY DEF IInv, Types
<1>2. 1 \in DOMAIN todo /\ Head(todo) = todo[1] /\ todo[1] \in Stampings
  BY <1>1
<1>3. todo[1].path \in Paths /\ todo[1].marker \in Markers
  <2> HIDE DEF Paths, Markers
  <2> QED
    BY <1>2 DEF Stampings
<1> QED
  BY <1>2, <1>3 DEF Stamps

LEMMA ReadNoteStep == ASSUME IInv, ReadNote PROVE IInv'
<1>1. /\ UNCHANGED <<notes, drafts, docs, late, time, steps, batches, sent>>
      /\ pc = "read" /\ cmd.action = "queue"
  BY DEF ReadNote, IInv, Types
<1>2. \A p \in Paths : notes'[p].marker \in Stamps(p)
        /\ \A c \in late' : c.op = "note" /\ c.path = p => c.file.marker \in Stamps(p)
  BY <1>1 DEF Stamps
<1>3. CASE Proceed("read")
  <2>1. /\ notes' \in [Paths -> NoteFiles] /\ docs' \subseteq docs
        /\ \A c \in late' : c.op = "note" => c.path \in Paths /\ c.file \in NoteFiles
        /\ \A c \in late' : c.op = "draft" => DraftRight(c.draft)
    BY <1>1 DEF IInv, Types, DraftsRight
  <2> QED
    BY <1>1, <1>2, <1>3, <2>1, Proceeds
<1>4. CASE /\ held' = notes[Head(todo).path] /\ pc' = "write" /\ settled' = TRUE
           /\ UNCHANGED <<cmd, todo, states, refs>>
  <2>1. held' \in NoteFiles
    BY <1>1, <1>4, HeadOfBatch DEF IInv, Types
  <2>2. Types' /\ HeldIsCurrent'
    BY <1>1, <1>4, <2>1 DEF IInv, Types, HeldIsCurrent
  <2>3. StampsKnown' /\ StampsOrdered'
    BY <1>1, <1>4, StampsStay DEF Stamps
  <2>4. DraftsRight' /\ DraftsKept' /\ AsAsked'
    BY <1>1, <1>4 DEF IInv, DraftsRight, DraftsKept, AsAsked
  <2> QED
    BY <2>2, <2>3, <2>4 DEF IInv
<1> QED
  BY <1>3, <1>4 DEF ReadNote

\* What parsing changes of a file.
LEMMA ParseFields ==
  ASSUME NEW f, NEW x, NEW y,
         f = [flat |-> f.flat, nested |-> f.nested, valid |-> f.valid, table |-> f.table,
              front |-> f.front, marker |-> f.marker]
  PROVE  [f EXCEPT !.nested = x, !.valid = y] =
           [flat |-> f.flat, nested |-> x, valid |-> y, table |-> f.table,
            front |-> f.front, marker |-> f.marker]
<1> DEFINE once == [f EXCEPT !.nested = x]
<1>1. once = [flat |-> f.flat, nested |-> x, valid |-> f.valid, table |-> f.table,
              front |-> f.front, marker |-> f.marker]
  OBVIOUS
<1>2. [f EXCEPT !.nested = x, !.valid = y] = [once EXCEPT !.valid = y]
  BY Zenon
<1> HIDE DEF once
<1>3. [once EXCEPT !.valid = y] =
        [flat |-> f.flat, nested |-> x, valid |-> y, table |-> f.table,
         front |-> f.front, marker |-> f.marker]
  BY <1>1
<1> QED
  BY <1>2, <1>3, Zenon

\* What a merge writes: the held file with the marker of the batch.
LEMMA WrittenFile ==
  ASSUME NEW f \in NoteFiles, NEW p, NEW m \in Markers
  PROVE  LET w == Merge(p, f, m) IN
         /\ w \in NoteFiles /\ w.marker = m
         /\ w.flat = f.flat /\ w.table = f.table
         /\ f.valid => w.nested = f.nested
         /\ w.front \in {f.front, f.table}
<1>1. Canonical(p, f) \in Nat /\ Canonical(p, f) \in {f.front, f.table}
  BY DEF Canonical, NoteFiles
<1> DEFINE nested == f.nested /\ f.valid
           w == [flat |-> f.flat, nested |-> nested, valid |-> TRUE, table |-> f.table,
                 front |-> Canonical(p, f), marker |-> m]
<1>2. nested \in BOOLEAN
  OBVIOUS
<1>3. Merge(p, f, m) = w
  <2> DEFINE yes == TRUE
             parsed == [f EXCEPT !.nested = nested, !.valid = yes]
             front == Canonical(p, f)
  <2>1. Merge(p, f, m) = [parsed EXCEPT !.front = front, !.marker = m]
    BY Zenon DEF Merge, ParsedFields
  <2>2. f = [flat |-> f.flat, nested |-> f.nested, valid |-> f.valid, table |-> f.table,
             front |-> f.front, marker |-> f.marker]
    BY DEF NoteFiles
  <2> HIDE DEF nested, yes, front
  <2>3. parsed = [flat |-> f.flat, nested |-> nested, valid |-> yes, table |-> f.table,
                  front |-> f.front, marker |-> f.marker]
    BY <2>2, ParseFields, Zenon
  <2> HIDE DEF parsed
  <2> DEFINE once == [parsed EXCEPT !.front = front]
  <2>4. [parsed EXCEPT !.front = front, !.marker = m] = [once EXCEPT !.marker = m]
    BY Zenon
  <2>5. once = [flat |-> f.flat, nested |-> nested, valid |-> yes, table |-> f.table,
                front |-> front, marker |-> f.marker]
    BY <2>3
  <2> HIDE DEF once
  <2>6. [once EXCEPT !.marker = m] =
          [flat |-> f.flat, nested |-> nested, valid |-> yes, table |-> f.table,
           front |-> front, marker |-> m]
    BY <2>5
  <2> QED
    BY <2>1, <2>4, <2>6, Zenon DEF front, yes
<1>4. f.valid => nested = f.nested
  <2>1. f.nested \in BOOLEAN /\ f.valid \in BOOLEAN
    <3> HIDE DEF Markers
    <3> QED
      BY DEF NoteFiles
  <2> QED
    BY <2>1
<1> HIDE DEF nested
<1>5. w \in NoteFiles
  <2> HIDE DEF Markers
  <2> QED
    BY <1>1, <1>2 DEF NoteFiles
<1>6. /\ w.marker = m /\ w.flat = f.flat /\ w.table = f.table
      /\ w.nested = nested /\ w.front = Canonical(p, f)
  OBVIOUS
<1> HIDE DEF w
<1> QED
  BY <1>1, <1>3, <1>4, <1>5, <1>6

LEMMA WriteNoteStep == ASSUME IInv, WriteNote PROVE IInv'
<1> DEFINE p == Head(todo).path
           w == Written(held, p)
           new == [notes EXCEPT ![p] = w]
<1>1. /\ pc = "write" /\ cmd.action = "queue" /\ Proceed("read")
      /\ UNCHANGED <<drafts, docs, time, steps, batches, sent>>
  BY DEF WriteNote
<1>2. /\ notes' \in {notes, new}
      /\ late' = late \/ late' = late \union {[op |-> "note", path |-> p, file |-> w]}
  BY DEF WriteNote
<1>3. p \in Paths /\ Head(todo).marker \in Markers /\ Head(todo).marker \in Stamps(p)
      /\ notes \in [Paths -> NoteFiles] /\ held \in NoteFiles
  BY <1>1, HeadOfBatch DEF IInv, Types
<1>4. w \in NoteFiles /\ w.marker \in Stamps(p)
  BY <1>3, WrittenFile DEF Written
<1> HIDE DEF p, w
<1>5. notes' \in [Paths -> NoteFiles]
  BY <1>2, <1>3, <1>4
<1>6. \A q \in Paths : notes'[q] = notes[q] \/ (q = p /\ notes'[q] = w)
  BY <1>2, <1>3
<1>7. \A c \in late' : c \in late \/ (c.op = "note" /\ c.path = p /\ c.file = w)
  BY <1>2
<1>8. /\ \A c \in late' : c.op = "note" => c.path \in Paths /\ c.file \in NoteFiles
      /\ \A c \in late' : c.op = "draft" => DraftRight(c.draft)
  BY <1>3, <1>4, <1>7 DEF IInv, Types, DraftsRight
<1>9. ASSUME NEW q \in Paths
      PROVE  /\ notes'[q].marker \in Stamps(q)
             /\ \A c \in late' : c.op = "note" /\ c.path = q => c.file.marker \in Stamps(q)
  <2>1. notes[q].marker \in Stamps(q)
        /\ \A c \in late : c.op = "note" /\ c.path = q => c.file.marker \in Stamps(q)
    BY DEF Stamps
  <2> QED
    BY <1>4, <1>6, <1>7, <2>1
<1> QED
  BY <1>1, <1>5, <1>8, <1>9, Proceeds

LEMMA DeletionsRemove ==
  ASSUME NEW D, NEW p, NEW E \in Deletions(p, D)
  PROVE  E \subseteq D /\ \A d \in D \ E : d = p \/ d.root = p.root
BY DEF Deletions

LEMMA DeletePathStep == ASSUME IInv, DeletePath PROVE IInv'
<1>1. /\ pc = "write" /\ cmd.action = "delete" /\ Proceed("write")
      /\ UNCHANGED <<notes, drafts, time, steps, batches, sent>>
      /\ docs' = docs \/ docs' \in Deletions(Head(todo), docs)
      /\ late' = late \/ late' = late \union {[op |-> "delete", path |-> Head(todo)]}
  BY DEF DeletePath
<1>2. docs' \subseteq docs
  BY <1>1, DeletionsRemove
<1>3. \A c \in late' : c \in late \/ c.op = "delete"
  BY <1>1
<1>4. /\ \A c \in late' : c.op = "note" => c.path \in Paths /\ c.file \in NoteFiles
      /\ \A c \in late' : c.op = "draft" => DraftRight(c.draft)
      /\ notes' \in [Paths -> NoteFiles]
  BY <1>1, <1>3 DEF IInv, Types, DraftsRight
<1>5. \A p \in Paths : notes'[p].marker \in Stamps(p)
        /\ \A c \in late' : c.op = "note" /\ c.path = p => c.file.marker \in Stamps(p)
  BY <1>1, <1>3 DEF Stamps
<1> QED
  BY <1>1, <1>2, <1>4, <1>5, Proceeds

\* A draft is put in the outbox, over one of the same second.
LEMMA DraftPut ==
  ASSUME IInv, NEW d, DraftRight(d), sent' \subseteq sent \union {d.at},
         drafts' = Filed(d)
  PROVE  /\ \A n \in DOMAIN drafts' : n = Second(drafts'[n].at)
         /\ DraftsKept'
<1> DEFINE rec == [at |-> d.at, files |-> d.files]
<1>1. rec.at = d.at
  OBVIOUS
<1> HIDE DEF rec
<1>2. /\ DOMAIN drafts' = {d.name} \union DOMAIN drafts
      /\ drafts'[d.name] = rec
      /\ \A n \in DOMAIN drafts : n # d.name => drafts'[n] = drafts[n]
  BY DEF Filed, rec
<1>3. \A n \in DOMAIN drafts' : n = Second(drafts'[n].at)
  BY <1>1, <1>2 DEF IInv, DraftsRight, DraftRight
<1>4. DraftsKept'
  <2>1. ASSUME NEW t \in sent' PROVE \E n \in DOMAIN drafts' : Second(drafts'[n].at) = Second(t)
    <3>1. CASE t = d.at
      BY <1>1, <1>2, <3>1
    <3>2. CASE t \in sent
      <4>1. PICK n \in DOMAIN drafts : Second(drafts[n].at) = Second(t)
        BY <3>2 DEF IInv, DraftsKept
      <4>2. n = Second(t)
        BY <4>1 DEF IInv, DraftsRight
      <4>3. n \in DOMAIN drafts'
        BY <1>2, <4>1
      <4> QED
        BY <1>3, <4>2, <4>3
    <3> QED
      BY <2>1, <3>1, <3>2
  <2> QED
    BY <2>1 DEF DraftsKept
<1> QED
  BY <1>3, <1>4

LEMMA WriteDraftStep == ASSUME IInv, WriteDraft PROVE IInv'
<1> DEFINE d == Head(todo)
           new == Filed(d)
<1>1. /\ cmd.action = "draft" /\ Finish /\ UNCHANGED <<notes, docs, time, steps, batches>>
      /\ \/ drafts' = new /\ sent' = sent \union {d.at}
         \/ drafts' \in {drafts, new} /\ UNCHANGED sent
      /\ late' = late \/ late' = late \union {[op |-> "draft", draft |-> d]}
  BY DEF WriteDraft
<1>2. DraftRight(d)
  <2>1. Len(todo) = 1 /\ DraftRight(todo[1])
    BY <1>1 DEF IInv, Types, DraftsRight
  <2>2. d = todo[1]
    BY <2>1
  <2> QED
    BY <2>1, <2>2
<1> HIDE DEF d
<1>3. /\ \A n \in DOMAIN drafts' : n = Second(drafts'[n].at)
      /\ DraftsKept'
  <2>1. CASE drafts' = new /\ sent' \subseteq sent \union {d.at}
    BY <1>2, <2>1, DraftPut
  <2>2. CASE UNCHANGED <<drafts, sent>>
    BY <2>2 DEF IInv, DraftsRight, DraftsKept
  <2> QED
    BY <1>1, <2>1, <2>2
<1>4. \A c \in late' : c \in late \/ (c.op = "draft" /\ c.draft = d)
  BY <1>1
<1>5. /\ \A c \in late' : c.op = "note" => c.path \in Paths /\ c.file \in NoteFiles
      /\ \A c \in late' : c.op = "draft" => DraftRight(c.draft)
      /\ notes' \in [Paths -> NoteFiles] /\ docs' \subseteq docs
  BY <1>1, <1>2, <1>4 DEF IInv, Types, DraftsRight
<1>6. \A p \in Paths : notes'[p].marker \in Stamps(p)
        /\ \A c \in late' : c.op = "note" /\ c.path = p => c.file.marker \in Stamps(p)
  BY <1>1, <1>4 DEF Stamps
<1> QED
  BY <1>1, <1>3, <1>5, <1>6, Ends

LEMMA LateCallStep == ASSUME IInv, LateCallLands PROVE IInv'
<1>1. PICK c \in late : Lands(c) /\ late' = late \ {c}
  BY DEF LateCallLands
<1>2. /\ settled' = (pc # "write")
      /\ UNCHANGED <<cmd, todo, pc, steps, held, batches, sent, time, states, refs>>
  BY DEF LateCallLands, context
<1>3. /\ notes' \in [Paths -> NoteFiles]
      /\ \A p \in Paths : notes'[p] = notes[p] \/ (c.op = "note" /\ c.path = p /\ notes'[p] = c.file)
  <2>1. notes \in [Paths -> NoteFiles] /\ (c.op = "note" => c.path \in Paths /\ c.file \in NoteFiles)
    BY DEF IInv, Types
  <2> QED
    BY <1>1, <2>1 DEF Lands
<1>4. docs' \subseteq ProjectDocs /\ IsFiniteSet(docs')
  <2>1. docs' \subseteq docs
    BY <1>1, DeletionsRemove DEF Lands
  <2> QED
    BY <2>1, FS_Subset DEF IInv, Types
<1>5. /\ \A n \in DOMAIN drafts' : n = Second(drafts'[n].at)
      /\ DraftsKept'
  <2>1. CASE c.op = "draft"
    <3>1. DraftRight(c.draft)
      BY <2>1 DEF IInv, DraftsRight
    <3> QED
      BY <1>1, <1>2, <2>1, <3>1, DraftPut DEF Lands
  <2>2. CASE c.op # "draft"
    BY <1>1, <1>2, <2>2 DEF Lands, IInv, DraftsRight, DraftsKept
  <2> QED
    BY <2>1, <2>2
<1>6. Types'
  BY <1>1, <1>2, <1>3, <1>4 DEF IInv, Types
<1>7. \A p \in Paths : Stamps(p)' \subseteq Stamps(p)
  <2>1. ASSUME NEW p \in Paths, NEW m \in Stamps(p)' PROVE m \in Stamps(p)
    <3>1. \/ m = notes'[p].marker
          \/ cmd.action = "queue" /\ \E k \in DOMAIN todo : todo[k].path = p /\ m = todo[k].marker
          \/ \E e \in late : e.op = "note" /\ e.path = p /\ m = e.file.marker
      BY <1>1, <1>2, <2>1 DEF Stamps
    <3>2. notes'[p].marker \in Stamps(p)
      BY <1>3 DEF Stamps
    <3> QED
      BY <3>1, <3>2 DEF Stamps
  <2> QED
    BY <2>1
<1>8. StampsKnown' /\ StampsOrdered'
  BY <1>2, <1>7, StampsStay
<1>9. HeldIsCurrent'
  <2>1. pc' = "write" => ~ settled'
    BY <1>2
  <2> QED
    BY <2>1 DEF HeldIsCurrent
<1>10. DraftsRight' /\ AsAsked'
  BY <1>1, <1>2, <1>5 DEF IInv, DraftsRight, AsAsked
<1> QED
  BY <1>5, <1>6, <1>8, <1>9, <1>10 DEF IInv

LEMMA NextInvariant == IInv /\ [Next]_vars => IInv'
<1> SUFFICES ASSUME IInv, [Next]_vars PROVE IInv'
  OBVIOUS
<1>1. CASE LoadContext
  BY <1>1, LoadContextStep
<1>2. CASE PlanQueue
  BY <1>2, PlanQueueStep
<1>3. CASE PlanDraft
  BY <1>3, PlanDraftStep
<1>4. CASE PlanDeletion
  BY <1>4, PlanDeletionStep
<1>5. CASE ReadNote
  BY <1>5, ReadNoteStep
<1>6. CASE WriteNote
  BY <1>6, WriteNoteStep
<1>7. CASE WriteDraft
  BY <1>7, WriteDraftStep
<1>8. CASE DeletePath
  BY <1>8, DeletePathStep
<1>9. CASE LateCallLands
  BY <1>9, LateCallStep
<1>10. CASE UNCHANGED vars
  <2>1. UNCHANGED <<notes, drafts, docs, late, time, states, refs, cmd, todo, pc, steps,
                    held, settled, batches, sent>>
    BY <1>10 DEF vars
  <2>2. Types' /\ HeldIsCurrent' /\ DraftsRight' /\ DraftsKept' /\ AsAsked'
    BY <2>1 DEF IInv, Types, HeldIsCurrent, DraftsRight, DraftsKept, AsAsked
  <2>3. StampsKnown' /\ StampsOrdered'
    BY <2>1, StampsStay DEF Stamps
  <2> QED
    BY <2>2, <2>3 DEF IInv
<1> QED
  BY <1>1, <1>2, <1>3, <1>4, <1>5, <1>6, <1>7, <1>8, <1>9, <1>10 DEF Next, Ended

LEMMA Invariance == Spec => []IInv
<1> QED
  BY InitInvariant, NextInvariant, PTL DEF Spec

-----------------------------------------------------------------------------
(* The theorems *)

\* The files of one batch are numbered in the order of their paths, whichever of
\* them could not be stamped and whenever a lost call lands.
THEOREM BatchesAreOrdered == Spec => []BatchOrdered
<1>1. ASSUME IInv PROVE BatchOrdered
  <2>1. ASSUME NEW b \in DOMAIN batches,
               \A c \in DOMAIN batches : batches[c] = batches[b] => c = b, batches[b] # 0,
               NEW k \in Stamped(batches[b]), NEW l \in Stamped(batches[b]), k < l
        PROVE  notes[Notes[k]].marker.order < notes[Notes[l]].marker.order
    <3>1. /\ k \in DOMAIN Notes /\ notes[Notes[k]].marker.batch = batches[b]
          /\ l \in DOMAIN Notes /\ notes[Notes[l]].marker.batch = batches[b]
      BY DEF Stamped
    <3>2. /\ notes[Notes[k]].marker \in Stamps(Notes[k])
          /\ notes[Notes[l]].marker \in Stamps(Notes[l])
      BY DEF Stamps
    <3>3. Single(batches[b])
      BY <2>1 DEF Single
    <3> QED
      BY <1>1, <2>1, <3>1, <3>2, <3>3 DEF IInv, StampsOrdered
  <2> QED
    BY <2>1 DEF BatchOrdered
<1> QED
  BY <1>1, Invariance, PTL

\* A draft whose write was acknowledged stays, or one of its own second replaces it.
THEOREM DraftsStay == Spec => []DraftsKept
<1>1. IInv => DraftsKept
  BY DEF IInv
<1> QED
  BY <1>1, Invariance, PTL

\* A document changed by a write that was not late: the write of a merge, of the
\* document in hand.
LEMMA ChangedByMerge ==
  ASSUME IInv, [Next]_vars, NEW p \in DOMAIN notes, notes'[p] # notes[p], late' = late
  PROVE  /\ pc = "write" /\ cmd.action = "queue" /\ p = Head(todo).path
         /\ notes'[p] = Merge(p, held, Head(todo).marker)
<1>1. WriteNote
  <2>1. UNCHANGED notes \/ WriteNote \/ LateCallLands
    BY DEF Next, LoadContext, PlanQueue, PlanDraft, PlanDeletion, Clarify, Begin, ReadNote,
           WriteDraft, DeletePath, Ended, vars
  <2>2. ~LateCallLands
    BY DEF LateCallLands
  <2> QED
    BY <2>1, <2>2
<1> DEFINE q == Head(todo).path
           w == Written(held, q)
<1>2. pc = "write" /\ cmd.action = "queue" /\ notes' \in {notes, [notes EXCEPT ![q] = w]}
  BY <1>1 DEF WriteNote
<1> HIDE DEF w, q
<1>3. p = q /\ notes'[p] = w
  BY <1>2
<1> QED
  BY <1>2, <1>3 DEF Written, w, q

\* A merge changes no field but the marker's, unless the frontmatter was not
\* valid YAML or a lost call landed between its read and its write.
THEOREM MergesChangeTheMarkerOnly == Spec => MergesKeepFields
<1>1. ASSUME IInv, [Next]_vars, NEW p \in DOMAIN notes,
             notes'[p] # notes[p] /\ late' = late /\ settled
      PROVE  /\ notes'[p].flat = notes[p].flat /\ notes'[p].table = notes[p].table
             /\ notes[p].valid => notes'[p].nested = notes[p].nested
             /\ notes'[p].front \in {notes[p].front, notes[p].table}
  <2>1. /\ pc = "write" /\ cmd.action = "queue" /\ p = Head(todo).path
        /\ notes'[p] = Merge(p, held, Head(todo).marker)
    BY <1>1, ChangedByMerge
  <2>2. held = notes[p] /\ held \in NoteFiles
    BY <1>1, <2>1 DEF IInv, HeldIsCurrent, Types
  <2>3. Head(todo).marker \in Markers
    BY <1>1, <2>1, HeadOfBatch
  <2> QED
    BY <2>1, <2>2, <2>3, WrittenFile
<1>2. ASSUME IInv, [Next]_vars
      PROVE  \A p \in DOMAIN notes : notes'[p] # notes[p] /\ late' = late /\ settled =>
               /\ notes'[p].flat = notes[p].flat /\ notes'[p].table = notes[p].table
               /\ notes[p].valid => notes'[p].nested = notes[p].nested
               /\ notes'[p].front \in {notes[p].front, notes[p].table}
  BY <1>1, <1>2
<1> QED
  BY <1>2, Invariance, PTL DEF Spec, MergesKeepFields

\* A document is stamped because a target is its path, or has its name and is
\* the path of no loaded document.
THEOREM OnlyTargetsAreStamped == Spec => TargetsOnly
<1>1. ASSUME IInv, [Next]_vars, NEW p \in DOMAIN notes, notes'[p] # notes[p] /\ late' = late
      PROVE  /\ cmd.action = "queue"
             /\ \E t \in cmd.targets :
                  t = p \/ (t.name = p.name /\ \A k \in DOMAIN refs : refs[k] # t)
  <2>1. cmd.action = "queue" /\ p = Head(todo).path
    BY <1>1, ChangedByMerge
  <2>2. 1 \in DOMAIN todo /\ p = todo[1].path
    BY <1>1, <2>1, HeadOfBatch
  <2> QED
    BY <1>1, <2>1, <2>2 DEF IInv, AsAsked
<1>2. ASSUME IInv, [Next]_vars
      PROVE  \A p \in DOMAIN notes : notes'[p] # notes[p] /\ late' = late =>
               /\ cmd.action = "queue"
               /\ \E t \in cmd.targets :
                    t = p \/ (t.name = p.name /\ \A k \in DOMAIN refs : refs[k] # t)
  BY <1>1, <1>2
<1> QED
  BY <1>2, Invariance, PTL DEF Spec, TargetsOnly

\* A deletion removes documents of the project it was resolved to, unless a
\* project loaded before it has its title, its project name or its alias.
THEOREM DeletionsStayBelowTheRoot == Spec => DeletionBelowRoot
<1>1. ASSUME IInv, [Next]_vars,
             docs' # docs /\ late' = late
               /\ (\A k \in 1..(cmd.candidate - 1) :
                     ~SharesName(Projects[k], Projects[cmd.candidate]))
      PROVE  \A d \in docs \ docs' : d.root = Projects[cmd.candidate].root
  <2>1. DeletePath
    <3>1. UNCHANGED docs \/ DeletePath \/ LateCallLands
      BY <1>1 DEF Next, LoadContext, PlanQueue, PlanDraft, PlanDeletion, Clarify, Begin, ReadNote,
                  WriteNote, WriteDraft, Ended, vars
    <3>2. ~LateCallLands
      BY <1>1 DEF LateCallLands
    <3> QED
      BY <1>1, <3>1, <3>2
  <2>2. cmd.action = "delete" /\ docs' \in Deletions(Head(todo), docs)
    BY <1>1, <2>1 DEF DeletePath
  <2>3. Head(todo) = todo[1] /\ 1 \in DOMAIN todo
    BY <1>1, <2>2 DEF IInv, Types
  <2>4. todo[1].root = Projects[cmd.candidate].root
    BY <1>1, <2>2, <2>3, FirstAlike DEF IInv, AsAsked
  <2> QED
    BY <2>2, <2>3, <2>4, DeletionsRemove
<1> QED
  BY <1>1, Invariance, PTL DEF Spec, DeletionBelowRoot
=============================================================================
