------------------------ MODULE ContextLoadingProofs ------------------------
(***************************************************************************)
(* Theorems about ContextLoading for any workspace, any limits of the walk   *)
(* and any intent: a file has one version in a context, and a context that   *)
(* met neither a failure nor the limit of files lacks no record in reach.    *)
(***************************************************************************)
EXTENDS ContextLoading, InductionLemmas

Names == Range(NameOrder)
Paths == Dirs \union Files

-----------------------------------------------------------------------------
(* Paths and listings *)

LEMMA PathParts ==
  ASSUME NEW p \in Paths
  PROVE  /\ p \in Seq(Names) /\ Len(p) \in Nat /\ Len(p) >= 1
         /\ Front(p) \in Seq(Names) /\ Len(Front(p)) = Len(p) - 1
         /\ Base(p) \in Names /\ p = Append(Front(p), Base(p))
         /\ Len(p) > 1 => Front(p) \in Dirs
         /\ Len(p) = 1 => Front(p) = <<>> /\ p = <<p[1]>>
         /\ \A k \in 1 .. Len(p) - 1 : Front(p)[k] = p[k]
<1>1. p \in Seq(Names) /\ p # <<>> /\ (Len(p) > 1 => Front(p) \in Dirs)
  BY LoadingAssumption DEF Names, Paths
<1>2. Len(p) \in Nat /\ Len(p) >= 1
  BY <1>1
<1>3. /\ Front(p) \in Seq(Names) /\ Len(Front(p)) = Len(p) - 1
      /\ \A k \in 1 .. Len(p) - 1 : Front(p)[k] = p[k]
  <2> DEFINE n == Len(p) - 1
  <2>1. n \in Nat /\ \A i \in 1 .. n : p[i] \in Names
    BY <1>1, <1>2
  <2>2. Front(p) = SubSeq(p, 1, n)
    BY DEF Front
  <2> HIDE DEF n
  <2>3. /\ SubSeq(p, 1, n) \in Seq(Names)
        /\ Len(SubSeq(p, 1, n)) = n
        /\ \A k \in 1 .. n : SubSeq(p, 1, n)[k] = p[k]
    BY <2>1, SubSeqProperties
  <2> QED
    BY <2>2, <2>3 DEF n
<1>4. Base(p) \in Names
  BY <1>1, <1>2 DEF Base
<1>5. p = Append(Front(p), Base(p))
  BY <1>1, <1>2, <1>3, <1>4 DEF Base
<1>6. Len(p) = 1 => Front(p) = <<>> /\ p = <<p[1]>>
  BY <1>1, <1>2, <1>3
<1> QED
  BY <1>1, <1>2, <1>3, <1>4, <1>5, <1>6

LEMMA AppendedName ==
  ASSUME NEW d \in Seq(Names), NEW n \in Names
  PROVE  Front(Append(d, n)) = d /\ Base(Append(d, n)) = n
<1>1. /\ Append(d, n) \in Seq(Names) /\ Len(Append(d, n)) = Len(d) + 1 /\ Len(d) \in Nat
      /\ \A k \in 1 .. Len(d) : Append(d, n)[k] = d[k]
      /\ Append(d, n)[Len(d) + 1] = n
  OBVIOUS
<1>2. /\ Front(Append(d, n)) \in Seq(Names) /\ Len(Front(Append(d, n))) = Len(d)
      /\ \A k \in 1 .. Len(d) : Front(Append(d, n))[k] = d[k]
  BY <1>1, SubSeqProperties DEF Front
<1>3. Front(Append(d, n)) = d
  BY <1>2
<1> QED
  BY <1>1, <1>3 DEF Base

LEMMA RootIsNoPath == <<>> \notin Paths
BY LoadingAssumption DEF Paths

\* A listing names the paths of the directory and no other.
LEMMA ListedPaths ==
  ASSUME NEW d \in Seq(Names), NEW S \in SUBSET Paths
  PROVE  /\ Listed(d, S) \in Seq(S)
         /\ \A p : p \in Range(Listed(d, S)) <=> p \in S /\ Front(p) = d
<1> DEFINE H == {n \in Names : Append(d, n) \in S}
           names == Kept(NameOrder, H)
           L == Listed(d, S)
<1>1. NameOrder \in Seq(Names)
  BY LoadingAssumption DEF Names, Range
<1>2. L = [k \in DOMAIN names |-> Append(d, names[k])]
  BY DEF Listed, Names
<1>3. /\ names \in Seq(Names)
      /\ \A j \in 1 .. Len(names) : names[j] \in H
      /\ \A k \in 1 .. Len(NameOrder) :
           NameOrder[k] \in H => \E j \in 1 .. Len(names) : names[j] = NameOrder[k]
  <2> HIDE DEF H
  <2> QED
    BY <1>1, KeptMembers
<1> HIDE DEF names, L
<1>4. /\ DOMAIN names = 1 .. Len(names) /\ Len(names) \in Nat
      /\ \A j \in 1 .. Len(names) : names[j] \in Names /\ Append(d, names[j]) \in S
  BY <1>3
<1>5. L \in Seq(S)
  BY <1>2, <1>4
<1>6. ASSUME NEW p \in Range(L) PROVE p \in S /\ Front(p) = d
  <2>1. PICK k \in 1 .. Len(names) : p = Append(d, names[k])
    BY <1>2, <1>4 DEF Range
  <2> QED
    BY <1>4, <2>1, AppendedName
<1>7. ASSUME NEW p \in S, Front(p) = d PROVE p \in Range(L)
  <2>1. Base(p) \in Names /\ p = Append(d, Base(p))
    BY <1>7, PathParts
  <2>2. PICK k \in 1 .. Len(NameOrder) : NameOrder[k] = Base(p)
    BY <1>1, <2>1 DEF Names, Range
  <2>3. PICK j \in 1 .. Len(names) : names[j] = Base(p)
    BY <1>3, <2>1, <2>2
  <2> QED
    BY <1>2, <1>4, <2>1, <2>3 DEF Range
<1> QED
  BY <1>5, <1>6, <1>7 DEF L

-----------------------------------------------------------------------------
(* The inductive invariant *)

DocKinds == {"cast", "project", "finance", "queue", "inbox", "capture"}
JsonKinds == {"accounts", "contacts"}
TodoItems == [kind : DocKinds \union JsonKinds, path : Dirs \union present]

Types ==
    /\ present \subseteq Files
    /\ pc \in {"top", "walk", "read", "done", "raised"}
    /\ top \subseteq Dirs \union present /\ \A p \in top : Front(p) = <<>>
    /\ queue \in Seq([dir : Dirs \union {<<>>}, depth : Nat])
    /\ found \in Seq(present)
    /\ todo \in Seq(TodoItems)
    /\ \A p \in DOMAIN cache : p \in present
    /\ \A r \in loaded : r.path \in present

\* What has not begun has left no trace, and what ended leaves nothing to do.
Phases ==
    /\ pc \in {"top", "walk"} => todo = <<>> /\ loaded = {} /\ DOMAIN cache = {}
    /\ pc = "top" => seen = {}
    /\ pc = "done" => todo = <<>>

\* The entries of a directory are read past the cache; no document is one.
ByDirectory(p) == Base(p) \notin Markdown /\ Front(p) \in Dirs

\* A document is read once and kept, a directory is read once and no more.
Once(s) == \A j, k \in DOMAIN s : s[j].path = s[k].path /\ s[j].path \in Dirs => j = k
Versions ==
    /\ \A k \in DOMAIN todo : todo[k].path \in Dirs \/ ~ ByDirectory(todo[k].path)
    /\ Once(todo)
    /\ \A p \in DOMAIN cache : ~ ByDirectory(p)
    /\ \A r \in loaded : ~ ByDirectory(r.path) => r.path \in DOMAIN cache /\ r.ver = cache[r.path]
    /\ \A r \in loaded : ByDirectory(r.path) =>
         /\ \A k \in DOMAIN todo : todo[k].path # Front(r.path)
         /\ \A s \in loaded : r.path = s.path => r.ver = s.ver

\* What the walk has reached, and how deep it is there.
Reached(d) == d \in seen \/ \E k \in DOMAIN queue : queue[k].dir = d
TopListed == pc # "top" /\ ~failed => \A p \in Dirs \union present : Len(p) = 1 => p \in top
Walked ==
    pc = "walk" /\ ~failed =>
        /\ \A d \in Dirs : Len(d) = 1 => Reached(d)
        /\ \A d \in seen : \A e \in Dirs :
             Front(e) = d /\ Len(e) >= 2 /\ Len(e) - 1 <= MaxDepth => Reached(e)
        /\ \A d \in seen : \A p \in present :
             Front(p) = d => p \in Range(found) \/ Len(found) >= MaxFiles
        /\ \A k \in DOMAIN queue :
             IF queue[k].dir = <<>> THEN \A d \in Dirs : Len(d) # 1
             ELSE queue[k].depth = Len(queue[k].dir) - 1

\* A record the context is to hold is still to be read or is there.
Awaited(kind, p) == \E k \in DOMAIN todo : todo[k] = [kind |-> kind, path |-> p]
Held(kind, p) == \E r \in loaded : r.kind = kind /\ r.path = p
Pending ==
    pc \in {"read", "done"} /\ ~failed /\ Len(found) < MaxFiles =>
        /\ \A kind \in NeededKinds(intent) \intersect {"cast", "finance", "inbox", "capture"} :
             \A p \in Within(kind) : Awaited(kind, p) \/ Held(kind, p)
        /\ \A kind \in NeededKinds(intent) \intersect {"accounts", "contacts"} :
             \A p \in present :
               /\ p = <<JsonName(kind)>> => Awaited(kind, p) \/ Held(kind, p)
               /\ Front(p) = <<kind>> /\ Base(p) \notin Markdown =>
                    Awaited(kind, <<kind>>) \/ Held(kind, p)

IInv == Types /\ Phases /\ Versions /\ TopListed /\ Walked /\ Pending

-----------------------------------------------------------------------------
(* What a load is going to read *)

LEMMA JoinedItems ==
  ASSUME NEW X, NEW s \in Seq(X), NEW t \in Seq(X)
  PROVE  s \o t \in Seq(X) /\ Range(s \o t) = Range(s) \union Range(t)
<1>1. /\ s \o t \in Seq(X) /\ Len(s \o t) = Len(s) + Len(t) /\ Len(s) \in Nat /\ Len(t) \in Nat
      /\ \A k \in 1 .. Len(s) : (s \o t)[k] = s[k]
      /\ \A k \in 1 .. Len(t) : (s \o t)[Len(s) + k] = t[k]
  BY ConcatProperties
<1>2. \A k \in 1 .. Len(s) + Len(t) : k \in 1 .. Len(s) \/ k - Len(s) \in 1 .. Len(t)
  BY <1>1
<1>3. ASSUME NEW x \in Range(s \o t) PROVE x \in Range(s) \union Range(t)
  <2>1. PICK k \in 1 .. Len(s) + Len(t) : x = (s \o t)[k]
    BY <1>1 DEF Range
  <2>2. CASE k \in 1 .. Len(s)
    BY <1>1, <2>1, <2>2 DEF Range
  <2>3. CASE k - Len(s) \in 1 .. Len(t)
    <3>1. x = t[k - Len(s)]
      BY <1>1, <2>1, <2>3
    <3> QED
      BY <2>3, <3>1 DEF Range
  <2> QED
    BY <1>2, <2>2, <2>3
<1>4. ASSUME NEW x \in Range(s) \union Range(t) PROVE x \in Range(s \o t)
  <2>1. CASE x \in Range(s)
    <3>1. PICK k \in 1 .. Len(s) : x = s[k]
      BY <2>1 DEF Range
    <3>2. k \in 1 .. Len(s \o t) /\ x = (s \o t)[k]
      BY <1>1, <3>1
    <3> QED
      BY <1>1, <3>2 DEF Range
  <2>2. CASE x \in Range(t)
    <3>1. PICK k \in 1 .. Len(t) : x = t[k]
      BY <2>2 DEF Range
    <3>2. Len(s) + k \in 1 .. Len(s \o t) /\ x = (s \o t)[Len(s) + k]
      BY <1>1, <3>1
    <3> QED
      BY <1>1, <3>2 DEF Range
  <2> QED
    BY <2>1, <2>2
<1> QED
  BY <1>1, <1>3, <1>4

\* Two readings one after the other read no directory twice, if they have none
\* in common.
LEMMA JoinedOnce ==
  ASSUME NEW X, NEW s \in Seq(X), NEW t \in Seq(X), Once(s), Once(t),
         \A x \in Range(s), y \in Range(t) : x.path = y.path => x.path \notin Dirs
  PROVE  Once(s \o t)
<1>1. /\ Len(s \o t) = Len(s) + Len(t) /\ Len(s) \in Nat /\ Len(t) \in Nat
      /\ DOMAIN (s \o t) = 1 .. Len(s) + Len(t)
      /\ \A k \in 1 .. Len(s) : (s \o t)[k] = s[k]
      /\ \A k \in 1 .. Len(t) : (s \o t)[Len(s) + k] = t[k]
  BY ConcatProperties
<1> DEFINE q == s \o t
           First(k) == k \in 1 .. Len(s) /\ q[k] = s[k] /\ q[k] \in Range(s)
           Second(k) == k - Len(s) \in 1 .. Len(t) /\ q[k] = t[k - Len(s)] /\ q[k] \in Range(t)
<1>2. ASSUME NEW k \in 1 .. Len(s) + Len(t) PROVE First(k) \/ Second(k)
  <2>1. CASE k <= Len(s)
    BY <1>1, <2>1 DEF Range
  <2>2. CASE ~ (k <= Len(s))
    <3>1. k - Len(s) \in 1 .. Len(t) /\ k = Len(s) + (k - Len(s))
      BY <1>1, <2>2
    <3>2. q[k] = t[k - Len(s)]
      BY <1>1, <3>1
    <3> QED
      BY <3>1, <3>2 DEF Range
  <2> QED
    BY <2>1, <2>2
<1> HIDE DEF q
<1>3. ASSUME NEW j \in 1 .. Len(s) + Len(t), NEW k \in 1 .. Len(s) + Len(t),
             q[j].path = q[k].path, q[j].path \in Dirs
      PROVE  j = k
  <2>1. CASE First(j) /\ First(k)
    BY <1>3, <2>1 DEF Once
  <2>2. CASE Second(j) /\ Second(k)
    <3>1. j - Len(s) = k - Len(s)
      BY <1>3, <2>2 DEF Once
    <3> QED
      BY <1>1, <3>1
  <2>3. ~ (First(j) /\ Second(k)) /\ ~ (Second(j) /\ First(k))
    BY <1>3
  <2> QED
    BY <1>2, <2>1, <2>2, <2>3
<1> QED
  BY <1>1, <1>3 DEF Once, q

\* Documents are markdown files the walk found; none is an entry read by its
\* directory.
LEMMA DocumentSources ==
  ASSUME Types, NEW kind \in DocKinds
  PROVE  /\ Sources(kind) \in Seq(TodoItems)
         /\ \A x \in Range(Sources(kind)) : x.path \notin Dirs /\ ~ ByDirectory(x.path)
         /\ Once(Sources(kind))
         /\ Wanted(kind) /\ kind \in {"cast", "finance", "inbox", "capture"} =>
              \A p \in Range(found) : Base(p) \in Markdown \ Indexes /\ Role(p) = kind =>
                [kind |-> kind, path |-> p] \in Range(Sources(kind))
<1> DEFINE H == CASE kind = "project" -> {p \in Notes(found) : Base(p) = "README" /\ Role(p) = "projects"}
                  [] kind \in {"cast", "inbox"} ->
                       {p \in Notes(found) : Base(p) \notin Indexes /\ Role(p) = kind}
                  [] kind \in {"finance", "capture"} -> {p \in Notes(found) : Role(p) = kind}
                  [] kind \in {"messages", "queue"} -> Notes(found)
                  [] OTHER -> {}
           docs == Kept(found, H)
           S == Sources(kind)
<1>1. S = IF Wanted(kind) THEN [k \in DOMAIN docs |-> [kind |-> kind, path |-> docs[k]]] ELSE <<>>
  BY DEF Sources, DocsOf, DocKinds
<1>2. H \subseteq Notes(found)
  BY DEF DocKinds
<1>3. kind \in {"cast", "finance", "inbox", "capture"} =>
        \A p \in Range(found) : Base(p) \in Markdown \ Indexes /\ Role(p) = kind => p \in H
  BY DEF Notes
<1> HIDE DEF H, S
<1>4. /\ docs \in Seq(present)
      /\ \A j \in 1 .. Len(docs) : docs[j] \in H
      /\ \A k \in 1 .. Len(found) : found[k] \in H => \E j \in 1 .. Len(docs) : docs[j] = found[k]
      /\ found \in Seq(present)
  BY KeptMembers DEF Types
<1> HIDE DEF docs
<1>5. /\ DOMAIN docs = 1 .. Len(docs) /\ Len(docs) \in Nat
      /\ \A j \in 1 .. Len(docs) : /\ docs[j] \in present /\ Base(docs[j]) \in Markdown
                                   /\ docs[j] \notin Dirs
  BY <1>2, <1>4, LoadingAssumption DEF Notes, Types
<1>6. \A j \in 1 .. Len(docs) : [kind |-> kind, path |-> docs[j]] \in TodoItems
  BY <1>5 DEF TodoItems
<1>7. S \in Seq(TodoItems)
  <2> HIDE DEF TodoItems
  <2>1. CASE Wanted(kind)
    BY <1>1, <1>5, <1>6, <2>1
  <2>2. CASE ~ Wanted(kind)
    BY <1>1, <2>2
  <2> QED
    BY <2>1, <2>2
<1>8. \A k \in DOMAIN S : S[k].path \notin Dirs /\ ~ ByDirectory(S[k].path)
  BY <1>1, <1>5 DEF ByDirectory
<1>9. Wanted(kind) => \A j \in 1 .. Len(docs) : [kind |-> kind, path |-> docs[j]] \in Range(S)
  BY <1>1, <1>5 DEF Range
<1>10. \A p \in Range(found) : p \in H => \E j \in 1 .. Len(docs) : docs[j] = p
  BY <1>4 DEF Range
<1> QED
  BY <1>3, <1>7, <1>8, <1>9, <1>10 DEF S, Range, Once

\* Accounts and contacts are read from at most one file and one directory.
LEMMA JsonItems ==
  ASSUME Types, NEW kind \in JsonKinds
  PROVE  /\ Sources(kind) \in Seq(TodoItems)
         /\ \A x \in Range(Sources(kind)) : x.path \in {<<JsonName(kind)>>, <<kind>>}
                                            /\ ~ ByDirectory(x.path)
         /\ Once(Sources(kind))
         /\ Wanted(kind) => \A p \in {<<JsonName(kind)>>, <<kind>>} :
              p \in top => [kind |-> kind, path |-> p] \in Range(Sources(kind))
<1> DEFINE pair == <<<<JsonName(kind)>>, <<kind>>>>
           docs == Kept(pair, top)
           S == Sources(kind)
           X == {<<JsonName(kind)>>, <<kind>>}
<1>1. S = IF Wanted(kind) THEN [k \in DOMAIN docs |-> [kind |-> kind, path |-> docs[k]]] ELSE <<>>
  BY DEF Sources, JsonSources, JsonKinds
<1>2. /\ pair \in Seq(X) /\ Len(pair) = 2
      /\ pair[1] = <<JsonName(kind)>> /\ pair[2] = <<kind>>
  OBVIOUS
<1>3. JsonName(kind) # kind
  BY DEF JsonName, JsonKinds
<1>4. pair[1] # pair[2]
  BY <1>2, <1>3
<1> HIDE DEF pair, S, X
<1> DEFINE Placed(r, at) ==
             /\ at \in [1 .. Len(r) -> 1 .. Len(pair)]
             /\ \A j \in 1 .. Len(r) : r[j] = pair[at[j]] /\ pair[at[j]] \in top
             /\ \A i, j \in 1 .. Len(r) : i < j => at[i] < at[j]
             /\ \A k \in 1 .. Len(pair) : pair[k] \in top => \E j \in 1 .. Len(r) : at[j] = k
<1>5. docs \in Seq(X) /\ \E at : Placed(docs, at)
  <2>1. pair \in Seq(X)
    BY <1>2
  <2> QED
    BY <2>1, KeptInOrder
<1>6. PICK at : Placed(docs, at)
  BY <1>5
<1> HIDE DEF docs
<1>7. /\ DOMAIN docs = 1 .. Len(docs) /\ Len(docs) \in Nat
      /\ \A j \in 1 .. Len(docs) : docs[j] \in X /\ docs[j] \in top
  BY <1>5, <1>6
<1>8. \A p \in X : Len(p) = 1 /\ Front(p) = <<>>
  <2>1. ASSUME NEW n PROVE Len(<<n>>) = 1 /\ Front(<<n>>) = <<>>
    <3>1. Len(<<n>>) = 1 /\ <<n>> \in Seq({n})
      OBVIOUS
    <3> QED
      BY <3>1, SubSeqEmpty DEF Front
  <2> QED
    BY <2>1 DEF X
<1>9. \A p \in X : ~ ByDirectory(p)
  BY <1>8, RootIsNoPath DEF ByDirectory, Paths
<1>10. \A j \in 1 .. Len(docs) : [kind |-> kind, path |-> docs[j]] \in TodoItems
  BY <1>7 DEF TodoItems, Types
<1>11. S \in Seq(TodoItems)
  <2> HIDE DEF TodoItems
  <2>1. CASE Wanted(kind)
    BY <1>1, <1>7, <1>10, <2>1
  <2>2. CASE ~ Wanted(kind)
    BY <1>1, <2>2
  <2> QED
    BY <2>1, <2>2
<1>12. \A k \in DOMAIN S : S[k].path \in X /\ ~ ByDirectory(S[k].path)
  BY <1>1, <1>7, <1>9
<1>13. Once(S)
  <2>1. \A i, j \in 1 .. Len(docs) : docs[i] = docs[j] => i = j
    <3>1. ASSUME NEW i \in 1 .. Len(docs), NEW j \in 1 .. Len(docs), i < j
          PROVE  docs[i] # docs[j]
      <4>1. at[i] = 1 /\ at[j] = 2
        BY <1>2, <1>6, <3>1
      <4> QED
        BY <1>4, <1>6, <4>1
    <3> QED
      BY <1>7, <3>1
  <2>2. CASE Wanted(kind)
    <3>1. DOMAIN S = 1 .. Len(docs) /\ \A k \in 1 .. Len(docs) : S[k].path = docs[k]
      BY <1>1, <1>7, <2>2
    <3> QED
      BY <2>1, <3>1 DEF Once
  <2>3. CASE ~ Wanted(kind)
    BY <1>1, <2>3 DEF Once
  <2> QED
    BY <2>2, <2>3
<1>14. Wanted(kind) => \A p \in X : p \in top => [kind |-> kind, path |-> p] \in Range(S)
  <2> SUFFICES ASSUME Wanted(kind), NEW p \in X, p \in top
               PROVE  [kind |-> kind, path |-> p] \in Range(S)
    OBVIOUS
  <2>1. \E k \in 1 .. Len(pair) : pair[k] = p
    BY <1>2 DEF X
  <2>2. PICK j \in 1 .. Len(docs) : docs[j] = p
    BY <1>6, <2>1
  <2>3. j \in DOMAIN S /\ S[j] = [kind |-> kind, path |-> p]
    BY <1>1, <1>7, <2>2
  <2> QED
    BY <2>3 DEF Range
<1> QED
  BY <1>11, <1>12, <1>13, <1>14 DEF S, X, Range

\* What is read is of the kinds of the context, and reads no directory twice.
LEMMA ReadingItems ==
  ASSUME Types
  PROVE  /\ Reading \in Seq(TodoItems) /\ Once(Reading)
         /\ \A x \in Range(Reading) : x.path \in Dirs \/ ~ ByDirectory(x.path)
         /\ \A kind \in DocKinds \union JsonKinds : Range(Sources(kind)) \subseteq Range(Reading)
<1> DEFINE cast == Sources("cast")
           project == Sources("project")
           finance == Sources("finance")
           accounts == Sources("accounts")
           contacts == Sources("contacts")
           queued == Sources("queue")
           inbox == Sources("inbox")
           capture == Sources("capture")
           Good(s) == s \in Seq(TodoItems) /\ Once(s)
                      /\ \A x \in Range(s) : x.path \in Dirs \/ ~ ByDirectory(x.path)
           NoDirs(s) == \A x \in Range(s) : x.path \notin Dirs
<1>1. \A kind \in DocKinds : Good(Sources(kind)) /\ NoDirs(Sources(kind))
  BY DocumentSources
<1>2. /\ Good(cast) /\ NoDirs(cast) /\ Good(project) /\ NoDirs(project)
      /\ Good(finance) /\ NoDirs(finance) /\ Good(queued) /\ NoDirs(queued)
      /\ Good(inbox) /\ NoDirs(inbox) /\ Good(capture) /\ NoDirs(capture)
  <2> HIDE DEF Good, NoDirs
  <2> QED
    BY <1>1 DEF DocKinds
<1>3. /\ Good(accounts) /\ \A x \in Range(accounts) : x.path \in {<<"accounts.json">>, <<"accounts">>}
      /\ Good(contacts) /\ \A x \in Range(contacts) : x.path \in {<<"contacts.json">>, <<"contacts">>}
  <2>1. JsonName("accounts") = "accounts.json" /\ JsonName("contacts") = "contacts.json"
    BY DEF JsonName
  <2>2. "accounts" \in JsonKinds /\ "contacts" \in JsonKinds
    BY DEF JsonKinds
  <2> QED
    BY <2>1, <2>2, JsonItems
<1>4. \A x \in Range(accounts), y \in Range(contacts) : x.path # y.path
  <2>1. \A a \in {<<"accounts.json">>, <<"accounts">>}, b \in {<<"contacts.json">>, <<"contacts">>} : a # b
    <3>1. \A a, b : <<a>> = <<b>> => a = b
      OBVIOUS
    <3> QED
      BY <3>1
  <2> QED
    BY <1>3, <2>1
<1>5. ASSUME NEW s, NEW t, Good(s), Good(t),
             \A x \in Range(s), y \in Range(t) : x.path = y.path => x.path \notin Dirs
      PROVE  Good(s \o t) /\ Range(s \o t) = Range(s) \union Range(t)
  <2>1. Range(s \o t) = Range(s) \union Range(t) /\ s \o t \in Seq(TodoItems)
    BY <1>5, JoinedItems
  <2>2. Once(s \o t)
    BY <1>5, JoinedOnce
  <2> QED
    BY <1>5, <2>1, <2>2
<1> DEFINE r2 == cast \o project
           r3 == r2 \o finance
           r4 == r3 \o accounts
           r5 == r4 \o contacts
           r6 == r5 \o queued
           r7 == r6 \o inbox
           r8 == r7 \o capture
<1>6. Reading = r8
  BY DEF Reading
<1> HIDE DEF cast, project, finance, accounts, contacts, queued, inbox, capture, Good
<1>7. Good(r2) /\ Range(r2) = Range(cast) \union Range(project) /\ NoDirs(r2)
  BY <1>2, <1>5
<1> HIDE DEF r2
<1>8. Good(r3) /\ Range(r3) = Range(r2) \union Range(finance) /\ NoDirs(r3)
  BY <1>2, <1>5, <1>7
<1> HIDE DEF r3
<1>9. Good(r4) /\ Range(r4) = Range(r3) \union Range(accounts)
  BY <1>3, <1>5, <1>8
<1> HIDE DEF r4
<1>10. Good(r5) /\ Range(r5) = Range(r4) \union Range(contacts)
  <2>1. \A x \in Range(r4), y \in Range(contacts) : x.path = y.path => x.path \notin Dirs
    BY <1>4, <1>8, <1>9
  <2> QED
    BY <1>3, <1>5, <1>9, <2>1
<1> HIDE DEF r5
<1>11. Good(r6) /\ Range(r6) = Range(r5) \union Range(queued)
  BY <1>2, <1>5, <1>10
<1> HIDE DEF r6
<1>12. Good(r7) /\ Range(r7) = Range(r6) \union Range(inbox)
  BY <1>2, <1>5, <1>11
<1> HIDE DEF r7
<1>13. Good(r8) /\ Range(r8) = Range(r7) \union Range(capture)
  BY <1>2, <1>5, <1>12
<1> HIDE DEF r8
<1>14. \A s \in {cast, project, finance, accounts, contacts, queued, inbox, capture} :
         Range(s) \subseteq Range(r8)
  BY <1>7, <1>8, <1>9, <1>10, <1>11, <1>12, <1>13
<1>15. ASSUME NEW kind \in DocKinds \union JsonKinds
       PROVE  Sources(kind) \in {cast, project, finance, accounts, contacts, queued, inbox, capture}
  BY DEF DocKinds, JsonKinds, cast, project, finance, accounts, contacts, queued, inbox, capture
<1> QED
  BY <1>6, <1>13, <1>14, <1>15 DEF Good

-----------------------------------------------------------------------------
(* The steps *)

LEMMA InitInvariant == Init => IInv
<1> SUFFICES ASSUME Init PROVE IInv
  OBVIOUS
<1>1. Types
  BY DEF Init, Types
<1>2. Phases /\ TopListed /\ Walked /\ Pending
  BY DEF Init, Phases, TopListed, Walked, Pending
<1>3. Versions
  BY DEF Init, Versions, Once
<1> QED
  BY <1>1, <1>2, <1>3 DEF IInv

\* What StartWalk makes of the listing of the root, or of none.
LEMMA WalkStarts ==
  ASSUME IInv, NEW entries \in Seq(Dirs \union present), StartWalk(entries),
         \A p \in Range(entries) : Front(p) = <<>>
  PROVE  /\ top' = Range(entries) /\ top' \subseteq Dirs \union present
         /\ queue' \in Seq([dir : Dirs \union {<<>>}, depth : Nat])
         /\ \A d \in Range(entries) : d \in Dirs => \E k \in DOMAIN queue' : queue'[k].dir = d
         /\ \A k \in DOMAIN queue' :
              IF queue'[k].dir = <<>> THEN \A d \in Range(entries) : d \notin Dirs
              ELSE queue'[k].depth = Len(queue'[k].dir) - 1
<1> DEFINE dirs == Kept(entries, Dirs)
<1>1. /\ top' = Range(entries)
      /\ queue' = IF dirs = <<>> THEN <<[dir |-> <<>>, depth |-> 0]>>
                  ELSE [k \in DOMAIN dirs |-> [dir |-> dirs[k], depth |-> 0]]
  BY DEF StartWalk
<1>2. /\ dirs \in Seq(Dirs \union present)
      /\ \A j \in 1 .. Len(dirs) : dirs[j] \in Dirs /\ \E k \in 1 .. Len(entries) : entries[k] = dirs[j]
      /\ \A k \in 1 .. Len(entries) :
           entries[k] \in Dirs => \E j \in 1 .. Len(dirs) : dirs[j] = entries[k]
  BY KeptMembers
<1> HIDE DEF dirs
<1>3. DOMAIN dirs = 1 .. Len(dirs) /\ Len(dirs) \in Nat /\ DOMAIN entries = 1 .. Len(entries)
  BY <1>2
<1>4. top' \subseteq Dirs \union present
  BY <1>1, <1>3 DEF Range
<1>5. \A d \in Range(entries) : d \in Dirs => \E j \in 1 .. Len(dirs) : dirs[j] = d
  BY <1>2, <1>3 DEF Range
<1>6. \A j \in 1 .. Len(dirs) : dirs[j] \in Dirs /\ dirs[j] # <<>> /\ Len(dirs[j]) = 1
  <2>1. SUFFICES ASSUME NEW j \in 1 .. Len(dirs)
                 PROVE  dirs[j] \in Dirs /\ dirs[j] # <<>> /\ Len(dirs[j]) = 1
    OBVIOUS
  <2>2. dirs[j] \in Dirs /\ dirs[j] \in Range(entries)
    BY <1>2, <1>3 DEF Range
  <2>3. Front(dirs[j]) = <<>> /\ dirs[j] \in Paths
    BY <2>2 DEF Paths
  <2>4. Len(dirs[j]) \in Nat /\ Len(Front(dirs[j])) = Len(dirs[j]) - 1
    BY <2>3, PathParts
  <2> QED
    BY <2>2, <2>3, <2>4, RootIsNoPath
<1>7. CASE dirs = <<>>
  <2>1. \A d \in Range(entries) : d \notin Dirs
    BY <1>5, <1>7
  <2>2. /\ queue' \in Seq([dir : Dirs \union {<<>>}, depth : Nat])
        /\ DOMAIN queue' = 1 .. 1 /\ queue'[1].dir = <<>>
    BY <1>1, <1>7
  <2> QED
    BY <1>1, <1>4, <2>1, <2>2
<1>8. CASE dirs # <<>>
  <2>1. DOMAIN queue' = 1 .. Len(dirs)
        /\ \A k \in 1 .. Len(dirs) : queue'[k] = [dir |-> dirs[k], depth |-> 0]
    BY <1>1, <1>3, <1>8
  <2>2. queue' \in Seq([dir : Dirs \union {<<>>}, depth : Nat])
    BY <1>1, <1>3, <1>6, <1>8
  <2>3. \A k \in DOMAIN queue' : queue'[k].dir = dirs[k] /\ queue'[k].depth = 0
    BY <2>1
  <2>4. \A d \in Range(entries) : d \in Dirs => \E k \in DOMAIN queue' : queue'[k].dir = d
    BY <1>5, <2>1, <2>3
  <2>5. \A k \in DOMAIN queue' : queue'[k].dir # <<>> /\ queue'[k].depth = Len(queue'[k].dir) - 1
    <3>1. SUFFICES ASSUME NEW k \in 1 .. Len(dirs)
                   PROVE  queue'[k].dir # <<>> /\ queue'[k].depth = Len(queue'[k].dir) - 1
      BY <2>1
    <3>2. queue'[k].dir = dirs[k] /\ queue'[k].depth = 0
      BY <2>1, <2>3
    <3>3. dirs[k] # <<>> /\ Len(dirs[k]) = 1
      BY <1>6
    <3>4. Len(queue'[k].dir) = 1
      BY <3>2, <3>3, Zenon
    <3> QED
      BY <3>2, <3>3, <3>4
  <2> QED
    BY <1>1, <1>4, <2>2, <2>4, <2>5
<1> QED
  BY <1>7, <1>8

LEMMA ListTopStep == ASSUME IInv, ListTop PROVE IInv'
<1> USE DEF workspace, context
<1>1. CASE ~GivesUp /\ TryFails /\ UNCHANGED <<top, queue, pc, failed>>
  <2>1. UNCHANGED <<present, intent, pc, top, queue, seen, found, todo, cache, loaded, failed>>
    BY <1>1 DEF ListTop
  <2> QED
    BY <2>1 DEF IInv, Types, TodoItems, Phases, Versions, Once, TopListed, Walked, Reached, Pending,
                Awaited, Held, Within, Role, Roots
<1>2. CASE \E entries \in {Entries(<<>>), <<>>} :
             StartWalk(entries) /\ (entries = Entries(<<>>) \/ failed')
  <2>1. PICK entries \in {Entries(<<>>), <<>>} :
          StartWalk(entries) /\ (entries = Entries(<<>>) \/ failed')
    BY <1>2
  <2>2. /\ Entries(<<>>) \in Seq(Dirs \union present)
        /\ \A p : p \in Range(Entries(<<>>)) <=> p \in Dirs \union present /\ Front(p) = <<>>
    <3>1. <<>> \in Seq(Names) /\ Dirs \union present \in SUBSET Paths
      BY DEF IInv, Types, Paths
    <3> QED
      BY <3>1, ListedPaths DEF Entries
  <2>3. entries \in Seq(Dirs \union present) /\ \A p \in Range(entries) : Front(p) = <<>>
    <3>1. <<>> \in Seq(Dirs \union present) /\ Range(<<>>) = {}
      BY DEF Range
    <3> QED
      BY <2>1, <2>2, <3>1
  <2>4. /\ UNCHANGED <<present, intent, seen, found, todo, cache, loaded>>
        /\ pc = "top" /\ pc' = "walk" /\ seen = {} /\ todo = <<>>
    BY <2>1 DEF ListTop, StartWalk, IInv, Phases
  <2>5. /\ top' = Range(entries) /\ top' \subseteq Dirs \union present
        /\ queue' \in Seq([dir : Dirs \union {<<>>}, depth : Nat])
        /\ \A d \in Range(entries) : d \in Dirs => \E k \in DOMAIN queue' : queue'[k].dir = d
        /\ \A k \in DOMAIN queue' :
             IF queue'[k].dir = <<>> THEN \A d \in Range(entries) : d \notin Dirs
             ELSE queue'[k].depth = Len(queue'[k].dir) - 1
    BY <2>1, <2>3, WalkStarts
  <2>6. Types' /\ Phases'
    BY <2>3, <2>4, <2>5 DEF IInv, Types, TodoItems, Phases
  <2>7. Versions' /\ Pending'
    BY <2>4 DEF IInv, Versions, Once, Pending
  <2>8. ~failed' => \A p \in Dirs \union present : Len(p) = 1 => p \in Range(entries)
    <3>1. \A p \in Dirs \union present : Len(p) = 1 => Front(p) = <<>>
      BY PathParts DEF IInv, Types, Paths
    <3> QED
      BY <2>1, <2>2, <3>1
  <2>9. TopListed'
    BY <2>4, <2>5, <2>8 DEF TopListed
  <2>10. Walked'
    <3>1. \A d \in Dirs : d \in Range(entries) => Len(d) = 1
      <4>1. SUFFICES ASSUME NEW d \in Dirs, d \in Range(entries) PROVE Len(d) = 1
        OBVIOUS
      <4>2. Len(d) \in Nat /\ Len(Front(d)) = Len(d) - 1 /\ Front(d) = <<>>
        BY <2>3, <4>1, PathParts DEF Paths
      <4> QED
        BY <4>2
    <3> QED
      BY <2>4, <2>5, <2>8 DEF Walked, Reached
  <2> QED
    BY <2>6, <2>7, <2>9, <2>10 DEF IInv
<1> QED
  BY <1>1, <1>2 DEF ListTop

\* A directory is listed: its files are found, or as many as there is room for,
\* and its directories are reached, unless it is at the limit.
LEMMA DirectoryListed ==
  ASSUME IInv, Walking,
         found' = found \o SubSeq(Plain(Here.dir), 1,
             IF Len(Plain(Here.dir)) < MaxFiles - Len(found) THEN Len(Plain(Here.dir))
             ELSE MaxFiles - Len(found))
  PROVE  /\ found' \in Seq(present) /\ Range(found) \subseteq Range(found')
         /\ Len(found') \in Nat /\ Len(found) \in Nat /\ Len(found') >= Len(found)
         /\ \A p \in present : Front(p) = Here.dir => p \in Range(found') \/ Len(found') >= MaxFiles
<1> DEFINE files == Plain(Here.dir)
           room == MaxFiles - Len(found)
           n == IF Len(files) < room THEN Len(files) ELSE room
           more == SubSeq(files, 1, n)
<1>1. Here.dir \in Seq(Names)
  <2> DEFINE Q == [dir : Dirs \union {<<>>}, depth : Nat]
  <2>1. queue \in Seq(Q) /\ queue # <<>>
    BY DEF IInv, Types, Walking
  <2>2. Here \in Q
    <3> HIDE DEF Q
    <3> QED
      BY <2>1, Remaining DEF Here
  <2>3. Here.dir \in Dirs \union {<<>>}
    BY <2>2
  <2>4. <<>> \in Seq(Names) /\ Dirs \subseteq Seq(Names)
    BY LoadingAssumption DEF Names
  <2> QED
    BY <2>3, <2>4
<1>2. files \in Seq(present) /\ \A p : p \in Range(files) <=> p \in present /\ Front(p) = Here.dir
  <2>1. present \in SUBSET Paths
    BY DEF IInv, Types, Paths
  <2> QED
    BY <1>1, <2>1, ListedPaths DEF Plain
<1>3. found \in Seq(present) /\ Len(found) \in Nat /\ Len(found) < MaxFiles /\ MaxFiles \in Nat
  BY LoadingAssumption DEF IInv, Types, Walking
<1> HIDE DEF files
<1>4. Len(files) \in Nat /\ room \in Nat
  BY <1>2, <1>3
<1>5. n \in 0 .. Len(files) /\ n <= room /\ (n = Len(files) \/ n = room)
  BY <1>4
<1>6. found' = found \o more
  BY DEF files
<1> HIDE DEF n
<1>7. /\ more \in Seq(present) /\ Len(more) = n
      /\ \A k \in 1 .. n : more[k] = files[k]
  <2>1. /\ n \in Nat /\ \A i \in 1 .. n : files[i] \in present
    BY <1>2, <1>4, <1>5
  <2>2. 1 \in Nat /\ \A i \in 1 .. n : files[i] \in present
    BY <2>1
  <2>3. /\ SubSeq(files, 1, n) \in Seq(present) /\ Len(SubSeq(files, 1, n)) = n
        /\ \A k \in 1 .. n : SubSeq(files, 1, n)[k] = files[k]
    BY <2>1, SubSeqProperties
  <2> QED
    BY <2>3
<1> HIDE DEF more
<1>8. /\ found' \in Seq(present) /\ Range(found') = Range(found) \union Range(more)
  <2>1. found \o more \in Seq(present) /\ Range(found \o more) = Range(found) \union Range(more)
    BY <1>3, <1>7, JoinedItems
  <2> QED
    BY <1>6, <2>1
<1>9. Len(found') = Len(found) + n
  BY <1>3, <1>6, <1>7
<1>10. ASSUME NEW p \in present, Front(p) = Here.dir
       PROVE  p \in Range(found') \/ Len(found') >= MaxFiles
  <2>1. CASE n = Len(files)
    <3>1. PICK k \in 1 .. Len(files) : p = files[k]
      BY <1>2, <1>10 DEF Range
    <3>2. k \in DOMAIN more /\ p = more[k]
      BY <1>7, <2>1, <3>1
    <3> QED
      BY <1>8, <3>2 DEF Range
  <2>2. CASE n = room
    BY <1>3, <1>9, <2>2
  <2> QED
    BY <1>5, <2>1, <2>2
<1> QED
  BY <1>3, <1>4, <1>5, <1>8, <1>9, <1>10

LEMMA DirectoriesQueued ==
  ASSUME IInv, Walking,
         queue' = Tail(queue) \o
             (IF Descends(Here.depth)
              THEN [k \in DOMAIN SubDirs(Here.dir) |->
                      [dir |-> SubDirs(Here.dir)[k], depth |-> Here.depth + 1]]
              ELSE <<>>)
  PROVE  /\ queue' \in Seq([dir : Dirs \union {<<>>}, depth : Nat])
         /\ \A x \in Range(queue) : x = Here \/ x \in Range(queue')
         /\ \A x \in Range(queue') : x \in Range(queue) \/ (x.dir \in Dirs /\ Front(x.dir) = Here.dir
                                                          /\ x.depth = Here.depth + 1)
         /\ Descends(Here.depth) => \A e \in Dirs : Front(e) = Here.dir =>
              \E x \in Range(queue') : x.dir = e
<1> DEFINE Q == [dir : Dirs \union {<<>>}, depth : Nat]
           subs == SubDirs(Here.dir)
           below == [k \in DOMAIN subs |-> [dir |-> subs[k], depth |-> Here.depth + 1]]
           more == IF Descends(Here.depth) THEN below ELSE <<>>
<1>1. /\ queue \in Seq(Q) /\ Here \in Q /\ Tail(queue) \in Seq(Q)
      /\ \A x \in Range(queue) : x = Here \/ x \in Range(Tail(queue))
      /\ \A x \in Range(Tail(queue)) : x \in Range(queue)
  <2>1. queue \in Seq(Q) /\ queue # <<>>
    BY DEF IInv, Types, Walking
  <2> HIDE DEF Q
  <2>2. /\ Head(queue) \in Q /\ Tail(queue) \in Seq(Q)
        /\ 1 \in DOMAIN queue /\ queue[1] = Head(queue)
        /\ \A k \in DOMAIN queue : k = 1 \/ (k - 1 \in DOMAIN Tail(queue)
                                               /\ Tail(queue)[k - 1] = queue[k])
        /\ \A k \in DOMAIN Tail(queue) : k + 1 \in DOMAIN queue /\ Tail(queue)[k] = queue[k + 1]
    BY <2>1, Remaining
  <2>3. ASSUME NEW x \in Range(queue) PROVE x = Head(queue) \/ x \in Range(Tail(queue))
    <3>1. PICK k \in DOMAIN queue : x = queue[k]
      BY DEF Range
    <3>2. CASE k = 1
      BY <2>2, <3>1, <3>2
    <3>3. CASE k # 1
      <4>1. k - 1 \in DOMAIN Tail(queue) /\ Tail(queue)[k - 1] = x
        BY <2>2, <3>1, <3>3
      <4> QED
        BY <4>1 DEF Range
    <3> QED
      BY <3>2, <3>3
  <2>4. \A x \in Range(Tail(queue)) : x \in Range(queue)
    BY <2>2 DEF Range
  <2> QED
    BY <2>1, <2>2, <2>3, <2>4 DEF Here
<1>2. subs \in Seq(Dirs) /\ \A p : p \in Range(subs) <=> p \in Dirs /\ Front(p) = Here.dir
  <2>1. Here.dir \in Dirs \union {<<>>}
    BY <1>1
  <2>2. Here.dir \in Seq(Names) /\ Dirs \in SUBSET Paths
    <3>1. <<>> \in Seq(Names) /\ Dirs \subseteq Seq(Names) /\ Dirs \subseteq Paths
      BY LoadingAssumption DEF Names, Paths
    <3> QED
      BY <2>1, <3>1
  <2> QED
    BY <2>2, ListedPaths DEF SubDirs
<1> HIDE DEF subs
<1>3. /\ below \in Seq(Q)
      /\ \A x \in Range(below) : x.dir \in Range(subs) /\ x.depth = Here.depth + 1
      /\ \A e \in Range(subs) : \E x \in Range(below) : x.dir = e
  <2>1. DOMAIN subs = 1 .. Len(subs) /\ Len(subs) \in Nat
        /\ \A k \in 1 .. Len(subs) : subs[k] \in Dirs
    BY <1>2
  <2>2. \A k \in 1 .. Len(subs) : [dir |-> subs[k], depth |-> Here.depth + 1] \in Q
    BY <1>1, <2>1
  <2>3. below \in Seq(Q)
    <3> HIDE DEF Q
    <3> QED
      BY <2>1, <2>2
  <2>4. DOMAIN below = 1 .. Len(subs)
        /\ \A k \in 1 .. Len(subs) : below[k].dir = subs[k] /\ below[k].depth = Here.depth + 1
    BY <2>1
  <2> HIDE DEF below
  <2>5. \A x \in Range(below) : x.dir \in Range(subs) /\ x.depth = Here.depth + 1
    BY <2>1, <2>4 DEF Range
  <2>6. \A e \in Range(subs) : \E x \in Range(below) : x.dir = e
    BY <2>1, <2>4 DEF Range
  <2> QED
    BY <2>3, <2>5, <2>6
<1>4. queue' = Tail(queue) \o more
  BY DEF subs
<1> HIDE DEF below, Q
<1>5. more \in Seq(Q) /\ \A x \in Range(more) : x \in Range(below)
  BY <1>3 DEF Range
<1> HIDE DEF more
<1>6. queue' \in Seq(Q) /\ Range(queue') = Range(Tail(queue)) \union Range(more)
  <2>1. Tail(queue) \o more \in Seq(Q)
        /\ Range(Tail(queue) \o more) = Range(Tail(queue)) \union Range(more)
    <3>1. Tail(queue) \in Seq(Q) /\ more \in Seq(Q)
      BY <1>1, <1>5
    <3> QED
      BY <3>1, JoinedItems, Zenon
  <2> QED
    BY <1>4, <2>1
<1>7. \A x \in Range(queue') : x \in Range(queue) \/ (x.dir \in Dirs /\ Front(x.dir) = Here.dir
                                                    /\ x.depth = Here.depth + 1)
  <2>1. \A x \in Range(more) : x.dir \in Range(subs) /\ x.depth = Here.depth + 1
    BY <1>3, <1>5
  <2>2. SUFFICES ASSUME NEW x \in Range(queue')
                 PROVE  x \in Range(queue) \/ (x.dir \in Dirs /\ Front(x.dir) = Here.dir
                                               /\ x.depth = Here.depth + 1)
    OBVIOUS
  <2>3. CASE x \in Range(Tail(queue))
    <3>1. x \in Range(queue)
      BY <1>1, <2>3, Zenon
    <3> QED
      BY <3>1
  <2>4. CASE x \in Range(more)
    BY <1>2, <2>1, <2>4
  <2> QED
    BY <1>6, <2>3, <2>4
<1>8. ASSUME Descends(Here.depth), NEW e \in Dirs, Front(e) = Here.dir
      PROVE  \E x \in Range(queue') : x.dir = e
  <2>1. PICK x \in Range(below) : x.dir = e
    BY <1>2, <1>3, <1>8
  <2> QED
    BY <1>6, <1>8, <2>1 DEF more
<1> QED
  BY <1>1, <1>6, <1>7, <1>8 DEF Q

LEMMA ListDirStep == ASSUME IInv, ListDir PROVE IInv'
<1> USE DEF workspace, context
<1> DEFINE Q == [dir : Dirs \union {<<>>}, depth : Nat]
<1>1. /\ UNCHANGED <<present, intent, pc, top, todo, cache, loaded>>
      /\ Walking /\ pc = "walk" /\ queue # <<>>
  BY DEF ListDir, Walking
<1>2. /\ queue \in Seq(Q) /\ Here \in Q /\ Tail(queue) \in Seq(Q)
      /\ Here = queue[1] /\ 1 \in DOMAIN queue
  <2>1. queue \in Seq(Q)
    BY DEF IInv, Types
  <2> HIDE DEF Q
  <2> QED
    BY <1>1, <2>1, Remaining DEF Here
<1>3. Versions' /\ Pending'
  BY <1>1 DEF IInv, Versions, Once, Pending
<1>4. ASSUME queue' \in Seq(Q), found' \in Seq(present) PROVE Types' /\ Phases'
  BY <1>1, <1>4 DEF IInv, Types, TodoItems, Phases
<1>5. CASE ~GivesUp /\ TryFails /\ UNCHANGED <<queue, seen, found, failed>>
  BY <1>1, <1>5 DEF IInv, Types, TodoItems, Phases, Versions, Once, TopListed, Walked, Reached, Pending
<1>6. CASE failed' /\ UNCHANGED found /\ queue' = Tail(queue)
  <2>1. TopListed' /\ Walked'
    BY <1>6 DEF TopListed, Walked
  <2>2. found' \in Seq(present)
    BY <1>6 DEF IInv, Types
  <2> QED
    BY <1>2, <1>3, <1>4, <1>6, <2>1, <2>2 DEF IInv
<1>7. CASE /\ found' = found \o SubSeq(Plain(Here.dir), 1,
                 IF Len(Plain(Here.dir)) < MaxFiles - Len(found) THEN Len(Plain(Here.dir))
                 ELSE MaxFiles - Len(found))
           /\ queue' = Tail(queue) \o
                 (IF Descends(Here.depth)
                  THEN [k \in DOMAIN SubDirs(Here.dir) |->
                          [dir |-> SubDirs(Here.dir)[k], depth |-> Here.depth + 1]]
                  ELSE <<>>)
           /\ seen' = seen \union {Here.dir} /\ UNCHANGED failed
  <2>1. /\ found' \in Seq(present) /\ Range(found) \subseteq Range(found')
        /\ Len(found') \in Nat /\ Len(found) \in Nat /\ Len(found') >= Len(found)
        /\ \A p \in present : Front(p) = Here.dir => p \in Range(found') \/ Len(found') >= MaxFiles
    BY <1>1, <1>7, DirectoryListed
  <2>2. /\ queue' \in Seq(Q)
        /\ \A x \in Range(queue) : x = Here \/ x \in Range(queue')
        /\ \A x \in Range(queue') : x \in Range(queue) \/ (x.dir \in Dirs /\ Front(x.dir) = Here.dir
                                                          /\ x.depth = Here.depth + 1)
        /\ Descends(Here.depth) => \A e \in Dirs : Front(e) = Here.dir =>
             \E x \in Range(queue') : x.dir = e
    BY <1>1, <1>7, DirectoriesQueued
  <2>3. Types' /\ Phases' /\ TopListed'
    BY <1>1, <1>4, <1>7, <2>1, <2>2 DEF IInv, TopListed
  <2>4. SUFFICES ASSUME ~failed PROVE Walked'
    BY <1>3, <1>7, <2>3 DEF IInv, Walked
  <2>5. /\ \A d \in Dirs : Len(d) = 1 => Reached(d)
        /\ \A d \in seen : \A e \in Dirs :
             Front(e) = d /\ Len(e) >= 2 /\ Len(e) - 1 <= MaxDepth => Reached(e)
        /\ \A d \in seen : \A p \in present :
             Front(p) = d => p \in Range(found) \/ Len(found) >= MaxFiles
        /\ \A x \in Range(queue) :
             IF x.dir = <<>> THEN \A d \in Dirs : Len(d) # 1
             ELSE x.depth = Len(x.dir) - 1
    BY <1>1, <2>4 DEF IInv, Walked, Range
  <2>6. \A d : Reached(d) <=> d \in seen \/ \E x \in Range(queue) : x.dir = d
    BY DEF Reached, Range
  <2>7. \A d : Reached(d)' <=> d \in seen' \/ \E x \in Range(queue') : x.dir = d
    BY DEF Reached, Range
  <2>8. \A d : Reached(d) => Reached(d)'
    BY <1>7, <2>2, <2>6, <2>7
  <2>9. IF Here.dir = <<>> THEN \A d \in Dirs : Len(d) # 1
        ELSE Here.dir \in Dirs /\ Here.depth \in Nat /\ Here.depth = Len(Here.dir) - 1
    <3>1. Here \in Range(queue)
      BY <1>2 DEF Range
    <3> QED
      BY <1>2, <2>5, <3>1
  <2>10. \A e \in Dirs : Len(e) \in Nat /\ Len(e) >= 1 /\ Len(Front(e)) = Len(e) - 1 /\ e # <<>>
    BY PathParts, RootIsNoPath DEF Paths
  <2>11. ASSUME NEW e \in Dirs, Front(e) = Here.dir, Len(e) >= 2, Len(e) - 1 <= MaxDepth
         PROVE  Reached(e)'
    <3>1. Here.dir # <<>>
      <4>1. Len(Here.dir) # 0
        BY <2>10, <2>11
      <4> QED
        BY <4>1
    <3>2. Here.depth = Len(e) - 2
      BY <2>9, <2>10, <2>11, <3>1
    <3>3. Descends(Here.depth)
      BY <2>10, <2>11, <3>2, LoadingAssumption DEF Descends
    <3> QED
      BY <2>2, <2>7, <2>11, <3>3
  <2>12. ASSUME NEW x \in Range(queue')
         PROVE  IF x.dir = <<>> THEN \A d \in Dirs : Len(d) # 1 ELSE x.depth = Len(x.dir) - 1
    <3>1. CASE x \in Range(queue)
      BY <2>5, <3>1
    <3>2. CASE x.dir \in Dirs /\ Front(x.dir) = Here.dir /\ x.depth = Here.depth + 1
      <4>1. Len(x.dir) \in Nat /\ Len(Here.dir) = Len(x.dir) - 1 /\ x.dir # <<>>
        BY <2>10, <3>2
      <4>2. CASE Here.dir = <<>>
        <5>1. Len(Here.dir) = 0
          BY <4>2
        <5> QED
          BY <2>9, <3>2, <4>1, <4>2, <5>1
      <4>3. CASE Here.dir # <<>>
        BY <2>9, <3>2, <4>1, <4>3
      <4> QED
        BY <4>2, <4>3
    <3> QED
      BY <2>2, <3>1, <3>2
  <2>13. \A d \in Dirs : Len(d) = 1 => Reached(d)'
    BY <2>5, <2>8
  <2>14. \A d \in seen' : \A e \in Dirs :
           Front(e) = d /\ Len(e) >= 2 /\ Len(e) - 1 <= MaxDepth => Reached(e)'
    BY <1>7, <2>5, <2>8, <2>11
  <2>15. \A d \in seen' : \A p \in present :
           Front(p) = d => p \in Range(found') \/ Len(found') >= MaxFiles
    BY <1>7, <2>1, <2>5, LoadingAssumption
  <2>16. \A k \in DOMAIN queue' :
           IF queue'[k].dir = <<>> THEN \A d \in Dirs : Len(d) # 1
           ELSE queue'[k].depth = Len(queue'[k].dir) - 1
    BY <2>12 DEF Range
  <2> QED
    BY <1>1, <2>13, <2>14, <2>15, <2>16 DEF Walked
<1> QED
  BY <1>5, <1>6, <1>7 DEF ListDir

\* When the queue is empty, every directory the walk may reach has been listed:
\* those of the first level were queued, the others by the one they lie in.
LEMMA AllListed ==
  ASSUME IInv, pc = "walk", ~failed, queue = <<>>
  PROVE  \A d \in Dirs : Len(d) - 1 <= MaxDepth => d \in seen
<1> DEFINE T == {n \in Nat : \A d \in Dirs : Len(d) = n + 1 => d \in seen}
<1>1. \A d : Reached(d) => d \in seen
  BY DEF Reached
<1>2. /\ \A d \in Dirs : Len(d) = 1 => d \in seen
      /\ \A d \in seen : \A e \in Dirs :
           Front(e) = d /\ Len(e) >= 2 /\ Len(e) - 1 <= MaxDepth => e \in seen
  BY <1>1 DEF IInv, Walked
<1>3. \A d \in Dirs : Len(d) \in Nat /\ Len(d) >= 1 /\ Len(Front(d)) = Len(d) - 1
                      /\ (Len(d) > 1 => Front(d) \in Dirs)
  BY PathParts DEF Paths
<1>4. 0 \in T
  BY <1>2
<1>5. ASSUME NEW k \in 1 .. MaxDepth, k - 1 \in T PROVE k \in T
  <2>1. SUFFICES ASSUME NEW d \in Dirs, Len(d) = k + 1 PROVE d \in seen
    OBVIOUS
  <2>2. Front(d) \in Dirs /\ Len(Front(d)) = (k - 1) + 1
    BY <1>3, <2>1
  <2>3. Front(d) \in seen
    BY <1>5, <2>2
  <2>4. Len(d) >= 2 /\ Len(d) - 1 <= MaxDepth
    BY <2>1, LoadingAssumption
  <2> QED
    BY <1>2, <2>3, <2>4
<1>6. \A k \in 0 .. MaxDepth : k \in T
  <2> HIDE DEF T
  <2> QED
    BY <1>4, <1>5, UpToBound, LoadingAssumption
<1>7. ASSUME NEW d \in Dirs, Len(d) - 1 <= MaxDepth PROVE d \in seen
  <2>1. Len(d) - 1 \in 0 .. MaxDepth /\ Len(d) = (Len(d) - 1) + 1
    BY <1>3, <1>7, LoadingAssumption
  <2>2. Len(d) - 1 \in T
    BY <1>6, <2>1
  <2> QED
    BY <2>1, <2>2
<1> QED
  BY <1>7

LEMMA EndWalkStep == ASSUME IInv, EndWalk PROVE IInv'
<1> USE DEF walk, workspace
<1>1. /\ UNCHANGED <<present, intent, top, queue, seen, found, cache, loaded>>
      /\ pc = "walk" /\ todo = <<>> /\ loaded = {} /\ DOMAIN cache = {}
  BY DEF EndWalk, IInv, Phases
<1>2. CASE pc' = "raised" /\ failed' = TRUE /\ UNCHANGED todo
  BY <1>1, <1>2 DEF IInv, Types, TodoItems, Phases, Versions, Once, TopListed, Walked, Pending
<1>3. CASE pc' = "read" /\ todo' = Reading /\ UNCHANGED failed
  <2>1. /\ Reading \in Seq(TodoItems) /\ Once(Reading)
        /\ \A x \in Range(Reading) : x.path \in Dirs \/ ~ ByDirectory(x.path)
        /\ \A kind \in DocKinds \union JsonKinds : Range(Sources(kind)) \subseteq Range(Reading)
    BY ReadingItems DEF IInv
  <2>2. Types' /\ Phases' /\ TopListed' /\ Walked'
    <3>1. todo' \in Seq(TodoItems)
      BY <1>3, <2>1
    <3>2. todo' \in Seq(TodoItems)'
      BY <1>1, <3>1 DEF TodoItems
    <3> HIDE DEF walk, workspace
    <3> QED
      BY <1>1, <1>3, <3>2 DEF IInv, Types, Phases, TopListed, Walked
  <2>3. Versions'
    <3>1. /\ \A k \in DOMAIN todo' : todo'[k].path \in Dirs \/ ~ ByDirectory(todo'[k].path)
          /\ Once(todo')
      BY <1>3, <2>1 DEF Range
    <3> QED
      BY <1>1, <3>1 DEF Versions, Once
  <2>4. SUFFICES ASSUME ~failed, Len(found) < MaxFiles PROVE Pending'
    BY <1>1, <1>3, <2>2, <2>3 DEF IInv, Pending
  <2>5. queue = <<>>
    BY <1>1, <2>4 DEF EndWalk, Walking
  <2>6. ASSUME NEW kind \in DocKinds \union JsonKinds, NEW p,
               [kind |-> kind, path |-> p] \in Range(Sources(kind))
        PROVE  Awaited(kind, p)'
    <3>1. PICK k \in DOMAIN todo' : todo'[k] = [kind |-> kind, path |-> p]
      BY <1>3, <2>1, <2>6 DEF Range
    <3> QED
      BY <3>1 DEF Awaited
  <2>7. /\ \A p \in Dirs \union present : Len(p) = 1 => p \in top
        /\ top \subseteq Dirs \union present /\ \A p \in top : Front(p) = <<>>
        /\ present \subseteq Files
    BY <1>1, <2>4 DEF IInv, TopListed, Types
  <2>8. ASSUME NEW kind \in NeededKinds(intent) \intersect {"cast", "finance", "inbox", "capture"},
               NEW p \in Within(kind)
        PROVE  Awaited(kind, p)'
    <3>1. p \in present /\ Role(p) = kind /\ Base(p) \in Markdown \ Indexes /\ Len(p) - 2 <= MaxDepth
      BY DEF Within, InReach
    <3>2. /\ Len(p) \in Nat /\ Len(p) >= 1 /\ Len(Front(p)) = Len(p) - 1
          /\ (Len(p) > 1 => Front(p) \in Dirs) /\ (Len(p) = 1 => p = <<p[1]>>)
      BY <2>7, <3>1, PathParts DEF Paths
    <3>3. Len(p) > 1
      <4>1. SUFFICES ASSUME Len(p) = 1 PROVE FALSE
        BY <3>2
      <4>2. p \in Roots
        <5>1. kind # "none"
          OBVIOUS
        <5> QED
          BY <3>1, <3>2, <4>1, <5>1 DEF Role
      <4>3. PICK q \in top : q \in Dirs /\ p = <<q[1]>>
        BY <4>2 DEF Roots
      <4>4. Front(q) = <<>> /\ Len(Front(q)) = Len(q) - 1 /\ Len(q) \in Nat
            /\ (Len(q) = 1 => q = <<q[1]>>)
        BY <2>7, <4>3, PathParts DEF Paths
      <4>5. Len(Front(q)) = 0
        BY <4>4
      <4>6. p = q
        BY <4>3, <4>4, <4>5
      <4> QED
        BY <2>7, <3>1, <4>3, <4>6, LoadingAssumption
    <3>4. Front(p) \in seen
      <4>1. Front(p) \in Dirs /\ Len(Front(p)) - 1 <= MaxDepth
        BY <3>1, <3>2, <3>3, LoadingAssumption
      <4> QED
        BY <1>1, <2>4, <2>5, <4>1, AllListed
    <3>5. p \in Range(found)
      <4>1. Len(found) \in Nat
        BY DEF IInv, Types
      <4> QED
        BY <1>1, <2>4, <3>1, <3>4, <4>1, LoadingAssumption DEF IInv, Walked
    <3>6. kind \in DocKinds /\ Wanted(kind)
      BY DEF DocKinds, Wanted
    <3>7. [kind |-> kind, path |-> p] \in Range(Sources(kind))
      BY <3>1, <3>5, <3>6, DocumentSources DEF IInv
    <3> QED
      BY <2>6, <3>6, <3>7
  <2>9. ASSUME NEW kind \in NeededKinds(intent) \intersect {"accounts", "contacts"}
        PROVE  \A p \in {<<JsonName(kind)>>, <<kind>>} : p \in top => Awaited(kind, p)'
    <3>1. kind \in JsonKinds /\ Wanted(kind)
      BY DEF JsonKinds, Wanted
    <3>2. \A p \in {<<JsonName(kind)>>, <<kind>>} :
            p \in top => [kind |-> kind, path |-> p] \in Range(Sources(kind))
      BY <3>1, JsonItems DEF IInv
    <3> QED
      BY <2>6, <3>1, <3>2
  <2>10. ASSUME NEW kind \in NeededKinds(intent) \intersect {"accounts", "contacts"},
                NEW p \in present
         PROVE  /\ p = <<JsonName(kind)>> => Awaited(kind, p)'
                /\ Front(p) = <<kind>> => Awaited(kind, <<kind>>)'
    <3>1. ASSUME p = <<JsonName(kind)>> PROVE p \in top
      <4>1. Len(p) = 1
        BY <3>1
      <4> QED
        BY <2>7, <4>1
    <3>2. ASSUME Front(p) = <<kind>> PROVE <<kind>> \in top
      <4>1. Len(Front(p)) = 1
        BY <3>2
      <4>2. Front(p) \in Dirs
        BY <2>7, <4>1, PathParts DEF Paths
      <4> QED
        BY <2>7, <3>2, <4>1, <4>2
    <3> QED
      BY <2>9, <3>1, <3>2
  <2> QED
    <3>1. \A kind : Within(kind)' = Within(kind)
      BY <1>1 DEF Within, Role, Roots
    <3> QED
      BY <1>1, <2>8, <2>10, <3>1 DEF Pending
<1> QED
  BY <1>2, <1>3 DEF EndWalk

\* What reading one item leaves of the items to read.
LEMMA ItemTaken ==
  ASSUME IInv, pc = "read", todo # <<>>, todo' = Tail(todo), UNCHANGED present
  PROVE  /\ Head(todo) \in TodoItems /\ todo' \in Seq(TodoItems)
         /\ \A k \in DOMAIN todo' : todo'[k].path \in Dirs \/ ~ ByDirectory(todo'[k].path)
         /\ Once(todo')
         /\ Head(todo).path \in Dirs \/ ~ ByDirectory(Head(todo).path)
         /\ Head(todo).path \in Dirs => \A k \in DOMAIN todo' : todo'[k].path # Head(todo).path
         /\ \A d : (\A k \in DOMAIN todo : todo[k].path # d) =>
              Head(todo).path # d /\ \A k \in DOMAIN todo' : todo'[k].path # d
         /\ \A kind, p : Awaited(kind, p) =>
              Awaited(kind, p)' \/ Head(todo) = [kind |-> kind, path |-> p]
<1>1. /\ Head(todo) \in TodoItems /\ Tail(todo) \in Seq(TodoItems)
      /\ 1 \in DOMAIN todo /\ todo[1] = Head(todo)
      /\ \A k \in DOMAIN todo : k = 1 \/ (k - 1 \in DOMAIN Tail(todo) /\ Tail(todo)[k - 1] = todo[k])
      /\ \A k \in DOMAIN Tail(todo) : k + 1 \in DOMAIN todo /\ k + 1 # 1 /\ Tail(todo)[k] = todo[k + 1]
  BY Remaining DEF IInv, Types
<1>2. \A k \in DOMAIN todo : todo[k].path \in Dirs \/ ~ ByDirectory(todo[k].path)
  BY DEF IInv, Versions
<1>3. \A k \in DOMAIN todo' : todo'[k].path \in Dirs \/ ~ ByDirectory(todo'[k].path)
  BY <1>1, <1>2
<1>4. \A j, k \in DOMAIN todo : todo[j].path = todo[k].path /\ todo[j].path \in Dirs => j = k
  BY DEF IInv, Versions, Once
<1>5. Once(todo')
  <2>1. ASSUME NEW j \in DOMAIN todo', NEW k \in DOMAIN todo',
               todo'[j].path = todo'[k].path, todo'[j].path \in Dirs
        PROVE  j = k
    <3>1. DOMAIN todo' = 1 .. Len(todo') /\ j \in Int /\ k \in Int
      BY <1>1
    <3>2. j + 1 = k + 1
      BY <1>1, <1>4, <2>1
    <3> QED
      BY <3>1, <3>2
  <2> QED
    BY <2>1 DEF Once
<1>6. Head(todo).path \in Dirs => \A k \in DOMAIN todo' : todo'[k].path # Head(todo).path
  <2>1. ASSUME NEW k \in DOMAIN todo', Head(todo).path \in Dirs, todo'[k].path = Head(todo).path
        PROVE  FALSE
    <3>1. k + 1 \in DOMAIN todo /\ k + 1 # 1 /\ todo[k + 1].path = todo[1].path
      BY <1>1, <2>1
    <3> QED
      BY <1>1, <1>4, <2>1, <3>1
  <2> QED
    BY <2>1
<1>7. \A d : (\A k \in DOMAIN todo : todo[k].path # d) =>
        Head(todo).path # d /\ \A k \in DOMAIN todo' : todo'[k].path # d
  BY <1>1
<1>8. ASSUME NEW kind, NEW p, Awaited(kind, p)
      PROVE  Awaited(kind, p)' \/ Head(todo) = [kind |-> kind, path |-> p]
  <2>1. PICK k \in DOMAIN todo : todo[k] = [kind |-> kind, path |-> p]
    BY <1>8 DEF Awaited
  <2>2. CASE k = 1
    BY <1>1, <2>1, <2>2
  <2>3. CASE k # 1
    BY <1>1, <2>1, <2>3 DEF Awaited
  <2> QED
    BY <2>2, <2>3
<1> QED
  BY <1>1, <1>2, <1>3, <1>5, <1>6, <1>7, <1>8

LEMMA ReadDocStep == ASSUME IInv, ReadDoc PROVE IInv'
<1> USE DEF walk, workspace
<1> DEFINE item == Head(todo)
           p == item.path
<1>1. /\ UNCHANGED <<present, intent, pc, top, queue, seen, found>>
      /\ pc = "read" /\ todo # <<>> /\ p \notin Dirs /\ todo' = Tail(todo)
  BY DEF ReadDoc
<1>2. /\ item \in TodoItems /\ todo' \in Seq(TodoItems) /\ ~ ByDirectory(p)
      /\ \A k \in DOMAIN todo' : todo'[k].path \in Dirs \/ ~ ByDirectory(todo'[k].path)
      /\ Once(todo')
      /\ \A d : (\A k \in DOMAIN todo : todo[k].path # d) => \A k \in DOMAIN todo' : todo'[k].path # d
      /\ \A kind, q : Awaited(kind, q) =>
           Awaited(kind, q)' \/ item = [kind |-> kind, path |-> q]
  BY <1>1, ItemTaken
<1>3. p \in present
  BY <1>1, <1>2 DEF TodoItems
<1>4. \/ UNCHANGED <<cache, loaded>> /\ failed'
      \/ \E v : /\ loaded' = loaded \union {Record(item, v)} /\ UNCHANGED failed
                /\ \/ p \in DOMAIN cache /\ v = cache[p] /\ UNCHANGED cache
                   \/ /\ p \notin DOMAIN cache
                      /\ cache' = [q \in DOMAIN cache \union {p} |-> IF q = p THEN v ELSE cache[q]]
  BY DEF ReadDoc, Cached
<1> HIDE DEF item
<1>5. /\ \A q \in DOMAIN cache' : q \in DOMAIN cache \/ q = p
      /\ \A q \in DOMAIN cache : q \in DOMAIN cache' /\ cache'[q] = cache[q]
      /\ \A r \in loaded' : r \in loaded \/ (r.path = p /\ p \in DOMAIN cache' /\ r.ver = cache'[p])
      /\ \A r \in loaded : r \in loaded'
      /\ ~failed' => ~failed /\ \E r \in loaded' : r.kind = item.kind /\ r.path = p
  <2>1. CASE UNCHANGED <<cache, loaded>> /\ failed'
    BY <2>1
  <2>2. CASE \E v : /\ loaded' = loaded \union {Record(item, v)} /\ UNCHANGED failed
                /\ \/ p \in DOMAIN cache /\ v = cache[p] /\ UNCHANGED cache
                   \/ /\ p \notin DOMAIN cache
                      /\ cache' = [q \in DOMAIN cache \union {p} |-> IF q = p THEN v ELSE cache[q]]
    <3>1. PICK v : /\ loaded' = loaded \union {Record(item, v)} /\ UNCHANGED failed
                   /\ \/ p \in DOMAIN cache /\ v = cache[p] /\ UNCHANGED cache
                      \/ /\ p \notin DOMAIN cache
                         /\ cache' = [q \in DOMAIN cache \union {p} |-> IF q = p THEN v ELSE cache[q]]
      BY <2>2
    <3>2. /\ Record(item, v).path = p /\ Record(item, v).kind = item.kind /\ Record(item, v).ver = v
      BY DEF Record
    <3>3. /\ p \in DOMAIN cache' /\ cache'[p] = v
          /\ \A q \in DOMAIN cache' : q \in DOMAIN cache \/ q = p
          /\ \A q \in DOMAIN cache : q \in DOMAIN cache' /\ cache'[q] = cache[q]
      BY <3>1
    <3>4. \E r \in loaded' : r.kind = item.kind /\ r.path = p
      BY <3>1, <3>2
    <3> QED
      BY <3>1, <3>2, <3>3, <3>4
  <2> QED
    BY <1>4, <2>1, <2>2
<1>6. Types' /\ Phases' /\ TopListed' /\ Walked'
  <2>1. todo' \in Seq(TodoItems)'
    BY <1>1, <1>2 DEF TodoItems
  <2>2. /\ \A q \in DOMAIN cache' : q \in present
        /\ \A r \in loaded' : r.path \in present
    BY <1>3, <1>5 DEF IInv, Types
  <2>3. ~failed' => ~failed
    BY <1>5
  <2> QED
    BY <1>1, <2>1, <2>2, <2>3 DEF IInv, Types, Phases, TopListed, Walked
<1>7. Versions'
  <2>1. \A q \in DOMAIN cache' : ~ ByDirectory(q)
    BY <1>2, <1>5 DEF IInv, Versions
  <2>2. \A r \in loaded' : ~ ByDirectory(r.path) => r.path \in DOMAIN cache' /\ r.ver = cache'[r.path]
    BY <1>5 DEF IInv, Versions
  <2>3. \A r \in loaded' : ByDirectory(r.path) => r \in loaded
    BY <1>2, <1>5
  <2>4. \A r \in loaded' : ByDirectory(r.path) =>
          /\ \A k \in DOMAIN todo' : todo'[k].path # Front(r.path)
          /\ \A s \in loaded' : r.path = s.path => r.ver = s.ver
    <3>1. ASSUME NEW r \in loaded', ByDirectory(r.path)
          PROVE  /\ \A k \in DOMAIN todo' : todo'[k].path # Front(r.path)
                 /\ \A s \in loaded' : r.path = s.path => r.ver = s.ver
      <4>1. r \in loaded /\ \A s \in loaded' : r.path = s.path => s \in loaded
        BY <2>3, <3>1
      <4> QED
        BY <1>2, <3>1, <4>1 DEF IInv, Versions
    <3> QED
      BY <3>1
  <2> QED
    BY <1>2, <2>1, <2>2, <2>4 DEF Versions, Once
<1>8. Pending'
  <2>1. SUFFICES ASSUME ~failed', Len(found) < MaxFiles PROVE Pending'
    BY <1>1 DEF Pending
  <2>2. ASSUME NEW kind, NEW q, Held(kind, q) PROVE Held(kind, q)'
    BY <1>5, <2>2 DEF Held
  <2>3. ASSUME NEW kind, NEW q, Awaited(kind, q) PROVE Awaited(kind, q)' \/ (q = p /\ Held(kind, q)')
    <3>1. CASE item = [kind |-> kind, path |-> q]
      <4>1. item.kind = kind /\ p = q
        BY <3>1
      <4> QED
        BY <1>5, <2>1, <4>1 DEF Held
    <3> QED
      BY <1>2, <2>3, <3>1
  <2>4. \A kind : Within(kind)' = Within(kind)
    BY <1>1 DEF Within, Role, Roots
  <2>5. ~failed /\ pc \in {"read", "done"}
    BY <1>1, <1>5, <2>1
  <2>6. \A kind \in NeededKinds(intent) \intersect {"cast", "finance", "inbox", "capture"} :
          \A q \in Within(kind) : Awaited(kind, q)' \/ Held(kind, q)'
    BY <2>1, <2>2, <2>3, <2>5 DEF IInv, Pending
  <2>7. ASSUME NEW kind \in NeededKinds(intent) \intersect {"accounts", "contacts"}, NEW q \in present
        PROVE  /\ q = <<JsonName(kind)>> => Awaited(kind, q)' \/ Held(kind, q)'
               /\ Front(q) = <<kind>> /\ Base(q) \notin Markdown =>
                    Awaited(kind, <<kind>>)' \/ Held(kind, q)'
    <3>1. /\ q = <<JsonName(kind)>> => Awaited(kind, q) \/ Held(kind, q)
          /\ Front(q) = <<kind>> /\ Base(q) \notin Markdown =>
               Awaited(kind, <<kind>>) \/ Held(kind, q)
      BY <2>1, <2>5 DEF IInv, Pending
    <3>2. Front(q) = <<kind>> => <<kind>> \in Dirs
      <4>1. q \in Paths
        BY DEF IInv, Types, Paths
      <4>2. Len(<<kind>>) = 1
        OBVIOUS
      <4> QED
        BY <4>1, <4>2, PathParts
    <3> QED
      BY <1>1, <2>2, <2>3, <3>1, <3>2
  <2> QED
    BY <1>1, <2>4, <2>6, <2>7 DEF Pending
<1> QED
  BY <1>6, <1>7, <1>8 DEF IInv

LEMMA ReadDirectoryStep == ASSUME IInv, ReadDirectory PROVE IInv'
<1> USE DEF walk, workspace
<1> DEFINE item == Head(todo)
           dir == item.path
           files == {p \in Range(Plain(dir)) : Base(p) \notin Markdown}
<1>1. /\ UNCHANGED <<present, ver, intent, pc, top, queue, seen, found, cache>>
      /\ pc = "read" /\ todo # <<>> /\ dir \in Dirs /\ todo' = Tail(todo)
  BY DEF ReadDirectory
<1>2. PICK R \in SUBSET files :
        /\ loaded' = loaded \union {Record([item EXCEPT !.path = p], ver[p]) : p \in R}
        /\ failed' = (failed \/ R # files)
  BY DEF ReadDirectory
<1>3. /\ item \in TodoItems /\ todo' \in Seq(TodoItems)
      /\ \A k \in DOMAIN todo' : todo'[k].path \in Dirs \/ ~ ByDirectory(todo'[k].path)
      /\ Once(todo')
      /\ \A k \in DOMAIN todo' : todo'[k].path # dir
      /\ \A d : (\A k \in DOMAIN todo : todo[k].path # d) =>
           dir # d /\ \A k \in DOMAIN todo' : todo'[k].path # d
      /\ \A kind, q : Awaited(kind, q) =>
           Awaited(kind, q)' \/ item = [kind |-> kind, path |-> q]
  BY <1>1, ItemTaken
<1>4. \A p : p \in files <=> p \in present /\ Front(p) = dir /\ Base(p) \notin Markdown
  <2>1. dir \in Seq(Names) /\ present \in SUBSET Paths
    BY <1>1, LoadingAssumption DEF Names, Paths, IInv, Types
  <2> QED
    BY <2>1, ListedPaths DEF Plain
<1> HIDE DEF files, item
<1>5. \A p : LET r == Record([item EXCEPT !.path = p], ver[p])
             IN r.kind = item.kind /\ r.path = p /\ r.ver = ver[p]
  BY <1>3 DEF Record, TodoItems
<1>6. /\ \A r \in loaded' : r \in loaded \/ (r.path \in files /\ r.ver = ver[r.path])
      /\ \A r \in loaded : r \in loaded'
      /\ ~failed' => ~failed /\ \A p \in files : \E r \in loaded' : r.kind = item.kind /\ r.path = p
  <2>1. ASSUME NEW r \in loaded', r \notin loaded PROVE r.path \in files /\ r.ver = ver[r.path]
    <3>1. PICK p \in R : r = Record([item EXCEPT !.path = p], ver[p])
      BY <1>2, <2>1
    <3> QED
      BY <1>2, <1>5, <3>1
  <2>2. ASSUME ~failed', NEW p \in files
        PROVE  \E r \in loaded' : r.kind = item.kind /\ r.path = p
    <3>1. Record([item EXCEPT !.path = p], ver[p]) \in loaded'
      BY <1>2, <2>2
    <3> QED
      BY <1>5, <3>1
  <2> QED
    BY <1>2, <2>1, <2>2
<1>7. Types' /\ Phases' /\ TopListed' /\ Walked'
  <2>1. todo' \in Seq(TodoItems)'
    BY <1>1, <1>3 DEF TodoItems
  <2>2. \A r \in loaded' : r.path \in present
    BY <1>4, <1>6 DEF IInv, Types
  <2>3. ~failed' => ~failed
    BY <1>6
  <2> QED
    BY <1>1, <2>1, <2>2, <2>3 DEF IInv, Types, Phases, TopListed, Walked
<1>8. Versions'
  <2>1. \A p \in files : ByDirectory(p) /\ Front(p) = dir
    BY <1>1, <1>4 DEF ByDirectory
  <2>2. \A r \in loaded : ByDirectory(r.path) => dir # Front(r.path)
    BY <1>3 DEF IInv, Versions
  <2>3. \A r \in loaded : r.path \notin files
    BY <2>1, <2>2
  <2>4. \A r \in loaded' : ~ ByDirectory(r.path) => r.path \in DOMAIN cache' /\ r.ver = cache'[r.path]
    BY <1>1, <1>6, <2>1 DEF IInv, Versions
  <2>5. ASSUME NEW r \in loaded', ByDirectory(r.path)
        PROVE  /\ \A k \in DOMAIN todo' : todo'[k].path # Front(r.path)
               /\ \A s \in loaded' : r.path = s.path => r.ver = s.ver
    <3>1. CASE r \in loaded
      <4>1. \A s \in loaded' : r.path = s.path => s \in loaded
        BY <1>6, <2>3, <3>1
      <4>2. \A s \in loaded' : r.path = s.path => r.ver = s.ver
        BY <2>5, <3>1, <4>1 DEF IInv, Versions
      <4>3. \A k \in DOMAIN todo' : todo'[k].path # Front(r.path)
        BY <1>3, <2>5, <3>1 DEF IInv, Versions
      <4> QED
        BY <4>2, <4>3
    <3>2. CASE r \notin loaded
      <4>1. r.path \in files /\ r.ver = ver[r.path]
        BY <1>6, <3>2
      <4>2. \A s \in loaded' : r.path = s.path => s.ver = ver[s.path]
        BY <1>6, <2>3, <4>1
      <4> QED
        BY <1>3, <2>1, <4>1, <4>2
    <3> QED
      BY <3>1, <3>2
  <2>6. \A q \in DOMAIN cache' : ~ ByDirectory(q)
    BY <1>1 DEF IInv, Versions
  <2> QED
    BY <1>3, <2>4, <2>5, <2>6 DEF Versions, Once
<1>9. Pending'
  <2>1. SUFFICES ASSUME ~failed', Len(found) < MaxFiles PROVE Pending'
    BY <1>1 DEF Pending
  <2>2. ASSUME NEW kind, NEW q, Held(kind, q) PROVE Held(kind, q)'
    BY <1>6, <2>2 DEF Held
  <2>3. ASSUME NEW kind, NEW q \in present, Awaited(kind, q) PROVE Awaited(kind, q)'
    <3>1. item # [kind |-> kind, path |-> q]
      <4>1. q \notin Dirs
        BY LoadingAssumption DEF IInv, Types
      <4> QED
        BY <1>1, <4>1
    <3> QED
      BY <1>3, <2>3, <3>1
  <2>4. ASSUME NEW kind, NEW q \in present, Awaited(kind, <<kind>>), Front(q) = <<kind>>,
               Base(q) \notin Markdown
        PROVE  Awaited(kind, <<kind>>)' \/ Held(kind, q)'
    <3>1. CASE item = [kind |-> kind, path |-> <<kind>>]
      <4>1. item.kind = kind /\ dir = <<kind>>
        BY <3>1
      <4>2. q \in files
        BY <1>4, <2>4, <4>1
      <4> QED
        BY <1>6, <2>1, <4>1, <4>2 DEF Held
    <3> QED
      BY <1>3, <2>4, <3>1
  <2>5. \A kind : Within(kind)' = Within(kind)
    BY <1>1 DEF Within, Role, Roots
  <2>6. ~failed /\ pc \in {"read", "done"}
    BY <1>1, <1>6, <2>1
  <2>7. \A kind \in NeededKinds(intent) \intersect {"cast", "finance", "inbox", "capture"} :
          \A q \in Within(kind) : Awaited(kind, q)' \/ Held(kind, q)'
    <3>1. \A kind : Within(kind) \subseteq present
      BY DEF Within
    <3> QED
      BY <2>1, <2>2, <2>3, <2>6, <3>1 DEF IInv, Pending
  <2>8. ASSUME NEW kind \in NeededKinds(intent) \intersect {"accounts", "contacts"}, NEW q \in present
        PROVE  /\ q = <<JsonName(kind)>> => Awaited(kind, q)' \/ Held(kind, q)'
               /\ Front(q) = <<kind>> /\ Base(q) \notin Markdown =>
                    Awaited(kind, <<kind>>)' \/ Held(kind, q)'
    <3>1. /\ q = <<JsonName(kind)>> => Awaited(kind, q) \/ Held(kind, q)
          /\ Front(q) = <<kind>> /\ Base(q) \notin Markdown =>
               Awaited(kind, <<kind>>) \/ Held(kind, q)
      BY <2>1, <2>6 DEF IInv, Pending
    <3> QED
      BY <2>2, <2>3, <2>4, <3>1
  <2> QED
    BY <1>1, <2>5, <2>7, <2>8 DEF Pending
<1> QED
  BY <1>7, <1>8, <1>9 DEF IInv

LEMMA LoadPoliciesStep == ASSUME IInv, LoadPolicies PROVE IInv'
<1>1. /\ UNCHANGED <<present, intent, top, queue, seen, found, todo, cache, loaded>>
      /\ pc = "read" /\ pc' = "done" /\ todo = <<>> /\ (~failed' => ~failed)
  BY DEF LoadPolicies, walk, workspace
<1>2. Types' /\ Phases' /\ Versions' /\ TopListed' /\ Walked'
  BY <1>1 DEF IInv, Types, TodoItems, Phases, Versions, Once, TopListed, Walked
<1>3. Pending'
  BY <1>1 DEF IInv, Pending, Awaited, Held, Within, Role, Roots
<1> QED
  BY <1>2, <1>3 DEF IInv

\* A late write changes the version of a file, and what has been read of it stays.
LEMMA Unaffected ==
  ASSUME IInv,
         UNCHANGED <<present, intent, pc, top, queue, seen, found, todo, cache, loaded, failed>>
  PROVE  IInv'
BY DEF IInv, Types, TodoItems, Phases, Versions, Once, TopListed, Walked, Reached, Pending,
       Awaited, Held, Within, Role, Roots

LEMMA NextInvariant == IInv /\ [Next]_vars => IInv'
<1> SUFFICES ASSUME IInv, [Next]_vars PROVE IInv'
  OBVIOUS
<1>1. CASE ListTop
  BY <1>1, ListTopStep
<1>2. CASE ListDir
  BY <1>2, ListDirStep
<1>3. CASE EndWalk
  BY <1>3, EndWalkStep
<1>4. CASE ReadDoc
  BY <1>4, ReadDocStep
<1>5. CASE ReadDirectory
  BY <1>5, ReadDirectoryStep
<1>6. CASE LoadPolicies
  BY <1>6, LoadPoliciesStep
<1>7. CASE LateWriteLands
  BY <1>7, Unaffected DEF LateWriteLands, walk, context
<1>8. CASE Ended \/ UNCHANGED vars
  BY <1>8, Unaffected DEF Ended, vars
<1> QED
  BY <1>1, <1>2, <1>3, <1>4, <1>5, <1>6, <1>7, <1>8 DEF Next, Step

LEMMA Invariance == Spec => []IInv
BY InitInvariant, NextInvariant, PTL DEF Spec

-----------------------------------------------------------------------------
(* Theorems *)

\* The records of a context that come from one file agree: every kind reads a
\* document through one cache, and no directory of JSON records is read twice
\* (context_reader.py, read; workspace_record_projection.py).
THEOREM RecordsOfAFileAgree == Spec => []OneVersion
<1>1. IInv => OneVersion
  <2>1. SUFFICES ASSUME IInv, NEW r \in loaded, NEW s \in loaded, r.path = s.path
                 PROVE  r.ver = s.ver
    BY DEF OneVersion
  <2>2. CASE ByDirectory(r.path)
    BY <2>1, <2>2 DEF IInv, Versions
  <2>3. CASE ~ ByDirectory(r.path)
    BY <2>1, <2>3 DEF IInv, Versions
  <2> QED
    BY <2>2, <2>3
<1> QED
  BY <1>1, Invariance, PTL

\* A load that ended without a failed call and below the limit of files holds
\* every record of the needed kinds the walk can reach (vm_tools.py, walk_files;
\* context_persistence.py).
THEOREM NothingIsMissing == Spec => []CompleteUnlessFailed
<1>1. IInv => CompleteUnlessFailed
  <2>1. SUFFICES ASSUME IInv, pc = "done", ~failed, Len(found) < MaxFiles
                 PROVE  /\ \A kind \in NeededKinds(intent) \intersect {"cast", "finance", "inbox", "capture"} :
                             \A p \in Within(kind) : Held(kind, p)
                        /\ \A kind \in NeededKinds(intent) \intersect {"accounts", "contacts"} :
                             \A p \in present :
                               p = <<JsonName(kind)>> \/ (Front(p) = <<kind>> /\ Base(p) \notin Markdown) =>
                                 Held(kind, p)
    BY DEF CompleteUnlessFailed, Held
  <2>2. \A kind, p : ~ Awaited(kind, p)
    BY <2>1 DEF IInv, Phases, Awaited
  <2> QED
    BY <2>1, <2>2 DEF IInv, Pending
<1> QED
  BY <1>1, Invariance, PTL
=============================================================================
