------------------------ MODULE StepResolutionProofs ------------------------
(***************************************************************************)
(* Theorems about StepResolution for all workspaces, commands, verdicts    *)
(* and limits.  What the model has said so far is the state of a step, so  *)
(* the inductive invariant speaks of the questions and replies; what an    *)
(* answer says is then a fact about the lookup that gave it, and each      *)
(* lookup has a lemma of its own.                                          *)
(***************************************************************************)
EXTENDS StepResolution, InductionLemmas, FiniteSetTheorems

-----------------------------------------------------------------------------
(* Sets of one, and the first record of a list *)

LEMMA TheOnly == \A x : The({x}) = x
BY DEF The

LEMMA LoneIsAll ==
  ASSUME NEW S
  PROVE  /\ \A x \in Lone(S) : x \in S /\ S = {x}
         /\ Lone(S) # {} => Lone(S) = S /\ The(S) \in S /\ S = {The(S)} /\ The(Lone(S)) = The(S)
         /\ Lone(S) \subseteq S
<1>1. \A x \in Lone(S) : x \in S /\ S = {x}
  BY DEF Lone
<1>2. ASSUME Lone(S) # {}
      PROVE  Lone(S) = S /\ The(S) \in S /\ S = {The(S)} /\ The(Lone(S)) = The(S)
  <2>1. PICK x : x \in Lone(S)
    BY <1>2
  <2>2. S = {x} /\ Lone(S) = {x}
    BY <1>1, <2>1
  <2>3. The({x}) = x
    BY TheOnly
  <2> QED
    BY <2>2, <2>3
<1> QED
  BY <1>1, <1>2

\* A list of records, as the workspaces hold them.
IsList(list) == list \in Seq(Range(list))

LEMMA ListFacts ==
  ASSUME NEW list, IsList(list)
  PROVE  /\ Len(list) \in Nat /\ DOMAIN list = 1 .. Len(list)
         /\ \A n \in DOMAIN list : list[n] \in Range(list)
         /\ \A r \in Range(list) : \E n \in DOMAIN list : list[n] = r
         /\ list = <<>> <=> Range(list) = {}
BY DEF IsList, Range

\* The first record that shares a key is a record of the list, and it is the one it was
\* looked up for or shares a key with it.
LEMMA FirstShares ==
  ASSUME NEW list, IsList(list), NEW r \in Range(list), NEW fields
  PROVE  /\ FirstSharing(list, r, fields) \in Range(list)
         /\ \/ FirstSharing(list, r, fields).path = r.path
            \/ r.keys \intersect FirstSharing(list, r, fields).keys # {}
<1> DEFINE Same(n) == \/ list[n].path = r.path
                      \/ Keys(list[n], fields) \intersect Keys(r, fields) # {}
           T == {n \in DOMAIN list : Same(n)}
<1>1. T \in SUBSET Nat /\ T # {}
  <2>1. PICK n \in DOMAIN list : list[n] = r
    BY ListFacts
  <2>2. n \in T
    BY <2>1
  <2> QED
    BY <2>2, ListFacts
<1>2. Min(T) \in T
  <2>1. \E n \in T : \A m \in T : n <= m
    BY <1>1, LeastNumber
  <2> HIDE DEF T
  <2> QED
    BY <2>1 DEF Min
<1>3. FirstSharing(list, r, fields) = list[Min(T)]
  BY DEF FirstSharing
<1>4. Same(Min(T)) /\ Min(T) \in DOMAIN list
  BY <1>2
<1> HIDE DEF T
<1> QED
  BY <1>3, <1>4, ListFacts DEF Keys

-----------------------------------------------------------------------------
(* What a reply picks *)

LEMMA ListedFacts ==
  ASSUME NEW list, IsList(list), NEW limit \in Nat
  PROVE  /\ DOMAIN Listed(list, limit) \subseteq DOMAIN list
         /\ \A n \in DOMAIN Listed(list, limit) : Listed(list, limit)[n] = list[n]
<1> DEFINE m == IF Len(list) < limit THEN Len(list) ELSE limit
<1>1. m \in 0 .. Len(list) /\ Len(list) \in Nat
  BY ListFacts
<1>2. /\ DOMAIN SubSeq(list, 1, m) = 1 .. m
      /\ \A n \in 1 .. m : SubSeq(list, 1, m)[n] = list[n]
  <2> HIDE DEF m
  <2> QED
    BY <1>1 DEF IsList
<1> QED
  BY <1>1, <1>2, ListFacts DEF Listed

LEMMA PickedFacts ==
  ASSUME NEW list, IsList(list), NEW reply, NEW accepted, Picked(list, reply, accepted) # {}
  PROVE  /\ reply.parsed /\ reply.index \in DOMAIN list
         /\ Picked(list, reply, accepted) = {list[reply.index]}
         /\ list[reply.index] \in Range(list)
<1>1. SingleLimit \in Nat
  BY ModelAssumption
<1> QED
  BY <1>1, ListedFacts, ListFacts DEF Picked

LEMMA PickedSomeFacts ==
  ASSUME NEW list, IsList(list), NEW reply, NEW accepted, reply.parsed => reply.indices \in Seq(Nat)
  PROVE  /\ PickedSome(list, reply, accepted) \in Seq(Range(list))
<1>1. SubsetLimit \in Nat
  BY ModelAssumption
<1> DEFINE listed == Listed(list, SubsetLimit)
           kept == Kept(reply.indices, DOMAIN listed)
<1>2. CASE ~(reply.parsed /\ reply.confidence \in accepted)
  BY <1>2 DEF PickedSome
<1>3. CASE reply.parsed /\ reply.confidence \in accepted
  <2>1. kept \in Seq(Nat) /\ \A j \in 1 .. Len(kept) : kept[j] \in DOMAIN listed
    BY <1>3, KeptMembers
  <2>2. PickedSome(list, reply, accepted) = [k \in DOMAIN kept |-> listed[kept[k]]]
    BY <1>3 DEF PickedSome
  <2>3. \A n \in DOMAIN listed : listed[n] \in Range(list)
    BY <1>1, ListedFacts, ListFacts
  <2> HIDE DEF listed, kept
  <2> QED
    BY <2>1, <2>2, <2>3
<1> QED
  BY <1>2, <1>3

-----------------------------------------------------------------------------
(* The transcript of a lookup *)

\* The questions of a lookup that picks one record: first one text, then the other.
BothStages == {"first", "second"}
ChainReplies == DOMAIN replies \in {{}, {"first"}, BothStages}
NextStage == IF DOMAIN replies = {} THEN "first" ELSE "second"

LEMMA StagesCounted ==
  ASSUME ChainReplies
  PROVE  \/ DOMAIN replies = {} /\ Cardinality(DOMAIN replies) = 0
         \/ DOMAIN replies = {"first"} /\ Cardinality(DOMAIN replies) = 1
         \/ DOMAIN replies = BothStages /\ Cardinality(DOMAIN replies) = 2
<1>1. Cardinality({}) = 0
  BY FS_EmptySet
<1>2. Cardinality({"first"}) = 1 /\ IsFiniteSet({"first"})
  BY FS_Singleton
<1>3. Cardinality({"first"} \union {"second"}) = 2
  BY <1>2, FS_AddElement
<1>4. {"first"} \union {"second"} = BothStages
  BY DEF BothStages
<1>5. CASE DOMAIN replies = {}
  BY <1>1, <1>5
<1>6. CASE DOMAIN replies = {"first"}
  BY <1>2, <1>6
<1>7. CASE DOMAIN replies = BothStages
  BY <1>3, <1>4, <1>7
<1> QED
  BY <1>5, <1>6, <1>7 DEF ChainReplies

LEMMA TextsAreTwo ==
  ASSUME NEW a, NEW b
  PROVE  Len(Texts(a, b)) \in 0 .. 2
<1> DEFINE s == IF a = b THEN <<a>> ELSE <<a, b>>
           S == {a, b} \ {""}
<1>1. s \in Seq({a, b}) /\ Len(s) \in 1 .. 2
  OBVIOUS
<1>2. Texts(a, b) = Kept(s, S)
  BY DEF Texts
<1> HIDE DEF s, S
<1>3. PICK at \in [1 .. Len(Kept(s, S)) -> 1 .. Len(s)] :
        \A i, j \in 1 .. Len(Kept(s, S)) : i < j => at[i] < at[j]
  BY <1>1, KeptInOrder
<1>4. Len(Kept(s, S)) \in Nat
  BY <1>1, KeptInOrder
<1>5. ASSUME Len(Kept(s, S)) > 2
      PROVE  FALSE
  <2>1. 1 \in 1 .. Len(Kept(s, S)) /\ 2 \in 1 .. Len(Kept(s, S)) /\ 3 \in 1 .. Len(Kept(s, S))
    BY <1>4, <1>5
  <2>2. at[1] < at[2] /\ at[2] < at[3]
    BY <1>3, <2>1
  <2>3. at[1] \in 1 .. Len(s) /\ at[2] \in 1 .. Len(s) /\ at[3] \in 1 .. Len(s)
    BY <2>1
  <2>4. \A l \in 1 .. 2 : \A i, j, k \in 1 .. l : ~(i < j /\ j < k)
    OBVIOUS
  <2> QED
    BY <1>1, <2>2, <2>3, <2>4
<1>6. Len(Kept(s, S)) \in 0 .. 2
  <2> DEFINE l == Len(Kept(s, S))
  <2>1. l \in Nat /\ ~(l > 2)
    BY <1>4, <1>5
  <2> HIDE DEF l
  <2>2. l \in 0 .. 2
    BY <2>1
  <2> QED
    BY <2>2 DEF l
<1> QED
  BY <1>2, <1>6

\* A reply picked the record at this path from the list.
PickedFrom(list, path) ==
  \E s \in DOMAIN replies : /\ s \in BothStages /\ replies[s].parsed /\ replies[s].index \in DOMAIN list
                            /\ list[replies[s].index].path = path

\* A question to be asked next, or a request to clarify.
OpenEnd(turn, list) ==
  \/ turn = Clarify
  \/ DOMAIN replies # BothStages /\ \E text : turn = Ask(NextStage, list, text)

LEMMA ChainFacts ==
  ASSUME ChainReplies, NEW list, IsList(list), NEW texts, Len(texts) \in 0 .. 2, NEW accepted
  PROVE  /\ OpenEnd(Chain(list, texts, accepted, replies).otherwise, list)
         /\ Chain(list, texts, accepted, replies).hit # {} =>
              \E r \in Range(list) : /\ Chain(list, texts, accepted, replies).hit = {r}
                                     /\ PickedFrom(list, r.path)
<1> DEFINE n == Cardinality(DOMAIN replies)
           hit == IF n = 0 THEN {} ELSE Picked(list, replies[Stages[n]], accepted)
           otherwise == IF list # <<>> /\ n < Len(texts) THEN Ask(Stages[n + 1], list, texts[n + 1]) ELSE Clarify
<1>1. Chain(list, texts, accepted, replies) = [hit |-> hit, otherwise |-> otherwise]
  BY DEF Chain
<1>2. \/ n = 0 /\ DOMAIN replies = {}
      \/ n = 1 /\ DOMAIN replies = {"first"}
      \/ n = 2 /\ DOMAIN replies = BothStages
  BY StagesCounted
<1>3. Stages[1] = "first" /\ Stages[2] = "second"
  BY DEF Stages
<1> HIDE DEF n
<1>4. n < Len(texts) => Stages[n + 1] = NextStage /\ DOMAIN replies # BothStages
  <2>1. {} # BothStages /\ {"first"} # BothStages /\ {"first"} # {}
    BY DEF BothStages
  <2>2. CASE n = 0
    BY <1>2, <1>3, <2>1, <2>2 DEF NextStage
  <2>3. CASE n = 1
    BY <1>2, <1>3, <2>1, <2>3 DEF NextStage
  <2>4. CASE n = 2
    BY <2>4
  <2> QED
    BY <1>2, <2>2, <2>3, <2>4
<1>5. OpenEnd(otherwise, list)
  BY <1>4 DEF OpenEnd
<1>6. ASSUME hit # {}
      PROVE  \E r \in Range(list) : hit = {r} /\ PickedFrom(list, r.path)
  <2>1. Stages[n] \in DOMAIN replies /\ Stages[n] \in BothStages /\ hit = Picked(list, replies[Stages[n]], accepted)
    BY <1>2, <1>3, <1>6 DEF BothStages
  <2> DEFINE reply == replies[Stages[n]]
  <2>2. reply.parsed /\ reply.index \in DOMAIN list /\ hit = {list[reply.index]} /\ list[reply.index] \in Range(list)
    <3> HIDE DEF reply
    <3> QED
      BY <1>6, <2>1, PickedFacts DEF reply
  <2>3. PickedFrom(list, list[reply.index].path)
    BY <2>1, <2>2 DEF PickedFrom
  <2> HIDE DEF hit
  <2> QED
    BY <2>2, <2>3
<1> HIDE DEF hit, otherwise
<1> QED
  BY <1>1, <1>5, <1>6

-----------------------------------------------------------------------------
(* What each lookup says of the records *)

LEMMA ListsHold ==
  ASSUME workspace \in DOMAIN Workspaces
  PROVE  /\ IsList(w.cast) /\ IsList(w.projects) /\ IsList(w.accounts) /\ IsList(w.contacts)
         /\ IsList(w.messages) /\ IsList(w.captures) /\ IsList(w.queue) /\ IsList(w.records)
         /\ \A r, s \in DOMAIN w.records : w.records[r].path = w.records[s].path => r = s
         /\ \A r \in DOMAIN w.records : w.records[r].date \in Int
<1>1. /\ \A n \in 1 .. 8 : Listings(w)[n] \in Seq(Range(Listings(w)[n]))
      /\ \A r, s \in DOMAIN w.records : w.records[r].path = w.records[s].path => r = s
      /\ \A r \in DOMAIN w.records : w.records[r].date \in Int
  BY StepAssumption DEF WorkspacesAssumption, w
<1>2. /\ Listings(w)[1] = w.cast /\ Listings(w)[2] = w.projects /\ Listings(w)[3] = w.accounts
      /\ Listings(w)[4] = w.contacts /\ Listings(w)[5] = w.messages /\ Listings(w)[6] = w.captures
      /\ Listings(w)[7] = w.queue /\ Listings(w)[8] = w.records
  BY DEF Listings
<1>3. 1 \in 1 .. 8 /\ 2 \in 1 .. 8 /\ 3 \in 1 .. 8 /\ 4 \in 1 .. 8 /\ 5 \in 1 .. 8 /\ 6 \in 1 .. 8 /\ 7 \in 1 .. 8 /\ 8 \in 1 .. 8
  OBVIOUS
<1> HIDE DEF w
<1> QED
  BY <1>1, <1>2, <1>3 DEF IsList

\* A record the command means, as NoGuess says it, with the replies read off the list.
MeantBy(list, c) ==
  \/ PickedFrom(list, c)
  \/ c \in Paths(Lone(Candidates))
  \/ \E f \in Paths(Lone(Fitting)) : f = c \/ SharesKey(f, c)
  \/ q.kind = "contact_lookup" /\ q.role # "direct"

MeansOne(list, chosen, about) ==
  ~Collective => /\ \A c \in chosen : MeantBy(list, c)
                 /\ \A a \in about : \E c \in chosen : a = c \/ SharesKey(a, c)

Cites(about, refs) ==
  /\ refs # {} /\ refs \subseteq Loaded
  /\ \/ \A a \in about : \E c \in refs : a = c \/ SharesKey(a, c)
     \/ q.kind \in {"account_lookup", "contact_lookup"}

\* A turn of a lookup: a question about the list, a clarification, or an answer that is
\* meant and cited.
SoundTurn(turn, list) ==
  \/ OpenEnd(turn, list)
  \/ turn = Raised /\ q.kind = "contact_lookup" /\ Len(w.contacts) = 1
  \/ \E chosen, about, refs : /\ turn = Answer("done", chosen, about, refs)
                              /\ MeansOne(list, chosen, about) /\ Cites(about, refs)

LEMMA Clarified == \A list : SoundTurn(Clarify, list)
BY DEF SoundTurn, OpenEnd

LEMMA AnswerSound ==
  ASSUME NEW list, NEW chosen, NEW about, NEW refs, MeansOne(list, chosen, about), Cites(about, refs)
  PROVE  SoundTurn(Answer("done", chosen, about, refs), list)
BY Zenon DEF SoundTurn

\* An answer that may lack its value.
LEMMA ValueSound ==
  ASSUME NEW list, NEW r, NEW has, NEW refs, MeansOne(list, {r.path}, {r.path}), Cites({r.path}, refs)
  PROVE  SoundTurn(Of(r, has, refs), list)
<1>1. Of(r, has, refs) = Clarify \/ Of(r, has, refs) = Answer("done", {r.path}, {r.path}, refs)
  BY DEF Of
<1> QED
  BY <1>1, Clarified, AnswerSound

LEMMA PathOfMember ==
  ASSUME NEW S, NEW r \in S
  PROVE  r.path \in Paths(S)
BY DEF Paths

\* The entity a lookup goes on with: the model picked it, or it shares a key with the only
\* one the words fit.
EntityMeant(e) ==
  \/ PickedFrom(w.cast, e.path)
  \/ \E f \in Lone({g \in Range(w.cast) : q.text \in g.terms}) : f.path = e.path \/ f.keys \intersect e.keys # {}

LEMMA EntityChainFacts ==
  ASSUME ChainReplies, IsList(w.cast), NEW texts, Len(texts) \in 0 .. 2
  PROVE  /\ OpenEnd(EntityChain(q, w, texts, replies).otherwise, w.cast)
         /\ EntityChain(q, w, texts, replies).hit # {} =>
              \E e \in Range(w.cast) : EntityChain(q, w, texts, replies).hit = {e} /\ EntityMeant(e)
<1> DEFINE named == Lone({g \in Range(w.cast) : q.text \in g.terms})
           exact == IF q.text = "" THEN {} ELSE ExactEntity(w, q.text)
           chain == Chain(w.cast, texts, AnyConfidence, replies)
<1>1. EntityChain(q, w, texts, replies) = IF exact # {} THEN [hit |-> exact, otherwise |-> Clarify] ELSE chain
  BY DEF EntityChain
<1>2. ASSUME exact # {}
      PROVE  \E e \in Range(w.cast) : exact = {e} /\ EntityMeant(e)
  <2>1. exact = {FirstSharing(w.cast, f, {"slug", "id"}) : f \in named}
    BY <1>2 DEF ExactEntity
  <2>2. PICK f : f \in named
    BY <1>2, <2>1
  <2>3. f \in Range(w.cast) /\ named = {f}
    BY <2>2 DEF Lone
  <2> DEFINE e == FirstSharing(w.cast, f, {"slug", "id"})
  <2>4. e \in Range(w.cast) /\ (e.path = f.path \/ f.keys \intersect e.keys # {})
    BY <2>3, FirstShares
  <2>5. exact = {e}
    BY <2>1, <2>3
  <2>6. EntityMeant(e)
    <3> HIDE DEF e
    <3> QED
      BY <2>2, <2>4 DEF EntityMeant
  <2> QED
    BY <2>4, <2>5, <2>6
<1>3. /\ OpenEnd(chain.otherwise, w.cast)
      /\ chain.hit # {} => \E e \in Range(w.cast) : chain.hit = {e} /\ PickedFrom(w.cast, e.path)
  BY ChainFacts
<1>4. OpenEnd(Clarify, w.cast)
  BY DEF OpenEnd
<1> HIDE DEF exact, chain
<1> QED
  BY <1>1, <1>2, <1>3, <1>4 DEF EntityMeant

EntityKinds == \/ q.kind \in {"entity_query", "message_query"}
               \/ q.kind = "project_query" /\ q.variant = "involvement"

LEMMA EntityIsMeant ==
  ASSUME EntityKinds, NEW e \in Range(w.cast), EntityMeant(e)
  PROVE  MeantBy(w.cast, e.path)
<1>1. Candidates = Range(w.cast)
  BY DEF EntityKinds, Candidates
<1>2. Fitting = {g \in Range(w.cast) : q.text \in g.terms}
  BY <1>1 DEF EntityKinds, Fitting
<1>3. ASSUME NEW f \in Lone(Fitting), f.path = e.path \/ f.keys \intersect e.keys # {}
      PROVE  f.path \in Paths(Lone(Fitting)) /\ (f.path = e.path \/ SharesKey(f.path, e.path))
  <2>1. f \in Range(w.cast)
    BY <1>2 DEF Lone
  <2> QED
    BY <1>1, <1>3, <2>1, PathOfMember DEF SharesKey
<1> QED
  BY <1>2, <1>3 DEF EntityMeant, MeantBy

LEMMA LoadedHolds ==
  ASSUME q.kind # "finance_lookup"
  PROVE  /\ CrmRefs \subseteq Loaded
         /\ Paths(Range(w.cast)) \subseteq Loaded /\ Paths(Range(w.projects)) \subseteq Loaded
         /\ Paths(Range(w.messages)) \subseteq Loaded /\ Paths(Range(w.captures)) \subseteq Loaded
         /\ Paths(Range(w.queue)) \subseteq Loaded
<1>1. Loaded = CrmRefs \union UNION {Paths(Range(list)) : list \in {w.cast, w.projects, w.messages, w.captures, w.queue}}
  BY DEF Loaded
<1> QED
  BY <1>1

LEMMA PathsOfPart ==
  ASSUME NEW S, NEW T, S \subseteq T
  PROVE  Paths(S) \subseteq Paths(T) /\ (S # {} => Paths(S) # {})
BY DEF Paths

\* A lookup that goes on with the record a chain ends in.
LEMMA EntityContinues ==
  ASSUME EntityKinds, ChainReplies, IsList(w.cast), NEW texts, Len(texts) \in 0 .. 2,
         NEW goOn, \A e \in Range(w.cast) : MeantBy(w.cast, e.path) => SoundTurn(goOn[e], w.cast)
  PROVE  SoundTurn(IF EntityChain(q, w, texts, replies).hit # {}
                   THEN goOn[The(EntityChain(q, w, texts, replies).hit)]
                   ELSE EntityChain(q, w, texts, replies).otherwise, w.cast)
<1> DEFINE chain == EntityChain(q, w, texts, replies)
<1>1. OpenEnd(chain.otherwise, w.cast)
  BY EntityChainFacts
<1>2. chain.hit # {} => \E e \in Range(w.cast) : chain.hit = {e} /\ EntityMeant(e)
  BY EntityChainFacts
<1> HIDE DEF chain
<1>3. ASSUME chain.hit # {}
      PROVE  SoundTurn(goOn[The(chain.hit)], w.cast)
  <2>1. PICK e \in Range(w.cast) : chain.hit = {e} /\ EntityMeant(e)
    BY <1>2, <1>3
  <2>2. The(chain.hit) = e
    BY <2>1, TheOnly
  <2> QED
    BY <2>1, <2>2, EntityIsMeant
<1>4. SoundTurn(chain.otherwise, w.cast)
  BY <1>1 DEF SoundTurn
<1> QED
  BY <1>3, <1>4 DEF chain

LEMMA EntityQuerySound ==
  ASSUME q.kind = "entity_query", ChainReplies, IsList(w.cast)
  PROVE  SoundTurn(EntityQuery(q, w, replies), w.cast)
<1> DEFINE Property(e) == Of(e, q.property \in e.has, {e.path})
           next == Upcoming(w, q.people)
           texts == Texts(TaskText, q.text)
           chain == EntityChain(q, w, texts, replies)
<1>1. CASE w.cast = <<>>
  BY <1>1, Clarified DEF EntityQuery
<1>2. CASE w.cast # <<>> /\ q.variant = "aggregate"
  <2>1. next \subseteq Range(w.cast)
    BY DEF Upcoming
  <2>2. CASE next = {}
    BY <1>2, <2>2, Clarified DEF EntityQuery
  <2>3. CASE next # {}
    <3>1. EntityQuery(q, w, replies) = Answer("done", Paths(next), Paths(next), Paths(next))
      BY <1>2, <2>3 DEF EntityQuery
    <3> HIDE DEF next
    <3>2. Cites(Paths(next), Paths(next))
      BY <2>1, <2>3, LoadedHolds, PathsOfPart DEF Cites
    <3>3. MeansOne(w.cast, Paths(next), Paths(next))
      BY <1>2 DEF MeansOne, Collective
    <3> QED
      BY <3>1, <3>2, <3>3, AnswerSound
  <2> QED
    BY <2>2, <2>3
<1>3. ASSUME NEW e \in Range(w.cast), q.self \/ MeantBy(w.cast, e.path)
      PROVE  SoundTurn(Property(e), w.cast)
  <2>1. MeansOne(w.cast, {e.path}, {e.path})
    BY <1>3 DEF MeansOne, Collective
  <2>2. Cites({e.path}, {e.path})
    BY LoadedHolds, PathOfMember DEF Cites
  <2> QED
    BY <2>1, <2>2, ValueSound
<1>4. CASE w.cast # <<>> /\ q.variant # "aggregate" /\ q.self /\ SelfEntity(w) # {}
  <2>1. The(SelfEntity(w)) \in Range(w.cast)
    BY <1>4 DEF The, SelfEntity, Lone
  <2>2. EntityQuery(q, w, replies) = Property(The(SelfEntity(w)))
    BY <1>4 DEF EntityQuery
  <2> HIDE DEF Property
  <2> QED
    BY <1>3, <1>4, <2>1, <2>2
<1>5. CASE w.cast # <<>> /\ q.variant # "aggregate" /\ ~(q.self /\ SelfEntity(w) # {})
  <2> DEFINE goOn == [e \in Range(w.cast) |-> Property(e)]
  <2>1. EntityQuery(q, w, replies) = IF chain.hit # {} THEN Property(The(chain.hit)) ELSE chain.otherwise
    BY <1>5 DEF EntityQuery, Continue
  <2>2. EntityKinds /\ Len(texts) \in 0 .. 2
    BY TextsAreTwo DEF EntityKinds
  <2>3. chain.hit # {} => The(chain.hit) \in Range(w.cast)
    <3> HIDE DEF texts
    <3> QED
      BY <2>2, EntityChainFacts, TheOnly
  <2> HIDE DEF Property
  <2>4. \A e \in Range(w.cast) : MeantBy(w.cast, e.path) => SoundTurn(goOn[e], w.cast)
    BY <1>3
  <2> HIDE DEF goOn, texts
  <2>5. SoundTurn(IF chain.hit # {} THEN goOn[The(chain.hit)] ELSE chain.otherwise, w.cast)
    BY <2>2, <2>4, EntityContinues
  <2>6. chain.hit # {} => goOn[The(chain.hit)] = Property(The(chain.hit))
    BY <2>3 DEF goOn
  <2> QED
    BY <2>1, <2>5, <2>6
<1> QED
  BY <1>1, <1>2, <1>4, <1>5

\* What is found again under the keys of a candidate is a candidate, and shares a key.
LEMMA FoundAgain ==
  ASSUME NEW list, IsList(list), Candidates = Range(list), NEW e \in Range(list), NEW fields
  PROVE  LET of == FirstSharing(list, e, fields)
         IN of \in Range(list) /\ (of.path = e.path \/ SharesKey(of.path, e.path))
<1> DEFINE of == FirstSharing(list, e, fields)
<1>1. of \in Range(list) /\ (of.path = e.path \/ e.keys \intersect of.keys # {})
  BY FirstShares
<1> HIDE DEF of
<1>2. of.path = e.path \/ SharesKey(of.path, e.path)
  BY <1>1 DEF SharesKey
<1> QED
  BY <1>1, <1>2 DEF of

LEMMA MessageQuerySound ==
  ASSUME q.kind = "message_query", ChainReplies, IsList(w.cast)
  PROVE  SoundTurn(MessageQuery(q, w, replies), w.cast)
<1> DEFINE Of_(e) == FirstSharing(w.cast, e, {"slug", "id"})
           Latest_(e) == LastMessage(w, Of_(e))
           refs == Paths(Range(w.cast))
           Message(e) == IF Latest_(e) = {} THEN Clarify
                         ELSE IF q.property \notin The(Latest_(e)).has THEN Clarify
                         ELSE Answer("done", {e.path}, {Of_(e).path}, refs \union {The(Latest_(e)).path})
           texts == Texts(q.text, TaskText)
           chain == EntityChain(q, w, texts, replies)
<1>1. CASE w.cast = <<>>
  BY <1>1, Clarified DEF MessageQuery
<1>2. CASE w.cast # <<>>
  <2>1. EntityKinds /\ Len(texts) \in 0 .. 2
    BY TextsAreTwo DEF EntityKinds
  <2>2. Candidates = Range(w.cast)
    BY DEF Candidates
  <2>3. ASSUME NEW e \in Range(w.cast), MeantBy(w.cast, e.path)
        PROVE  SoundTurn(Message(e), w.cast)
    <3>1. Of_(e) \in Range(w.cast) /\ (Of_(e).path = e.path \/ SharesKey(Of_(e).path, e.path))
      BY <2>2, FoundAgain
    <3> DEFINE of == Of_(e)
               last == Latest_(e)
    <3>2. last # {} => The(last) \in Range(w.messages)
      BY DEF LastMessage, The
    <3> HIDE DEF of, last
    <3>3. of \in Range(w.cast) /\ (of.path = e.path \/ SharesKey(of.path, e.path))
      BY <3>1 DEF of
    <3>4. MeansOne(w.cast, {e.path}, {of.path})
      BY <2>3, <3>3 DEF MeansOne
    <3>5. ASSUME last # {}
          PROVE  Cites({of.path}, refs \union {The(last).path})
      <4>1. The(last).path \in Paths(Range(w.messages)) /\ of.path \in refs
        BY <3>2, <3>3, <3>5, PathOfMember
      <4> QED
        BY <4>1, LoadedHolds DEF Cites
    <3>6. CASE Message(e) = Clarify
      BY <3>6, Clarified
    <3>7. CASE Message(e) # Clarify
      <4>1. last # {} /\ Message(e) = Answer("done", {e.path}, {of.path}, refs \union {The(last).path})
        BY <3>7 DEF of, last
      <4> HIDE DEF Message, refs
      <4> QED
        BY <4>1, <3>4, <3>5, AnswerSound
    <3> QED
      BY <3>6, <3>7
  <2> DEFINE goOn == [e \in Range(w.cast) |-> Message(e)]
  <2>4. MessageQuery(q, w, replies) = IF chain.hit # {} THEN Message(The(chain.hit)) ELSE chain.otherwise
    BY <1>2 DEF MessageQuery, Continue
  <2>5. chain.hit # {} => The(chain.hit) \in Range(w.cast)
    <3> HIDE DEF texts
    <3> QED
      BY <2>1, EntityChainFacts, TheOnly
  <2> HIDE DEF Message
  <2>6. \A e \in Range(w.cast) : MeantBy(w.cast, e.path) => SoundTurn(goOn[e], w.cast)
    BY <2>3
  <2> HIDE DEF goOn, texts
  <2>7. SoundTurn(IF chain.hit # {} THEN goOn[The(chain.hit)] ELSE chain.otherwise, w.cast)
    BY <2>1, <2>6, EntityContinues
  <2>8. chain.hit # {} => goOn[The(chain.hit)] = Message(The(chain.hit))
    BY <2>5 DEF goOn
  <2> QED
    BY <2>4, <2>7, <2>8
<1> QED
  BY <1>1, <1>2

LEMMA InvolvementSound ==
  ASSUME q.kind = "project_query", q.variant = "involvement", ChainReplies, IsList(w.cast)
  PROVE  SoundTurn(Involvement(q, w, replies), w.cast)
<1> DEFINE Of_(e) == FirstSharing(w.cast, e, {"slug", "id", "title"})
           Found_(e) == Involving(w, Of_(e), q.status)
           Projects(e) == IF Of_(e).involvement = {} \/ (Found_(e) = {} /\ q.render # "count") THEN Clarify
                          ELSE Answer("done", {e.path}, {Of_(e).path}, {e.path} \union Paths(Found_(e)))
           texts == Texts(TaskText, q.text)
           chain == EntityChain(q, w, texts, replies)
<1>1. CASE w.cast = <<>> \/ w.projects = <<>>
  BY <1>1, Clarified DEF Involvement
<1>2. CASE ~(w.cast = <<>> \/ w.projects = <<>>)
  <2>1. EntityKinds /\ Len(texts) \in 0 .. 2
    BY TextsAreTwo DEF EntityKinds
  <2>2. Candidates = Range(w.cast)
    BY DEF Candidates
  <2>3. ASSUME NEW e \in Range(w.cast), MeantBy(w.cast, e.path)
        PROVE  SoundTurn(Projects(e), w.cast)
    <3>1. Of_(e) \in Range(w.cast) /\ (Of_(e).path = e.path \/ SharesKey(Of_(e).path, e.path))
      BY <2>2, FoundAgain
    <3> DEFINE of == Of_(e)
               found == Found_(e)
               refs == {e.path} \union Paths(found)
    <3>2. found \subseteq Range(w.projects)
      BY DEF Involving
    <3> HIDE DEF of, found
    <3>3. of.path = e.path \/ SharesKey(of.path, e.path)
      BY <3>1 DEF of
    <3>4. MeansOne(w.cast, {e.path}, {of.path})
      BY <2>3, <3>3 DEF MeansOne
    <3>5. Cites({of.path}, refs)
      <4>1. refs \subseteq Loaded
        BY <3>2, LoadedHolds, PathsOfPart, PathOfMember
      <4>2. e.path \in refs
        OBVIOUS
      <4> HIDE DEF refs
      <4> QED
        BY <4>1, <4>2, <3>3 DEF Cites
    <3>6. CASE Projects(e) = Clarify
      BY <3>6, Clarified
    <3>7. CASE Projects(e) # Clarify
      <4>1. Projects(e) = Answer("done", {e.path}, {of.path}, refs)
        BY <3>7 DEF of, found
      <4> HIDE DEF Projects, refs
      <4> QED
        BY <4>1, <3>4, <3>5, AnswerSound
    <3> QED
      BY <3>6, <3>7
  <2> DEFINE goOn == [e \in Range(w.cast) |-> Projects(e)]
  <2>4. Involvement(q, w, replies) = IF chain.hit # {} THEN Projects(The(chain.hit)) ELSE chain.otherwise
    BY <1>2 DEF Involvement, Continue
  <2>5. chain.hit # {} => The(chain.hit) \in Range(w.cast)
    <3> HIDE DEF texts
    <3> QED
      BY <2>1, EntityChainFacts, TheOnly
  <2> HIDE DEF Projects
  <2>6. \A e \in Range(w.cast) : MeantBy(w.cast, e.path) => SoundTurn(goOn[e], w.cast)
    BY <2>3
  <2> HIDE DEF goOn, texts
  <2>7. SoundTurn(IF chain.hit # {} THEN goOn[The(chain.hit)] ELSE chain.otherwise, w.cast)
    BY <2>1, <2>6, EntityContinues
  <2>8. chain.hit # {} => goOn[The(chain.hit)] = Projects(The(chain.hit))
    BY <2>5 DEF goOn
  <2> QED
    BY <2>4, <2>7, <2>8
<1> QED
  BY <1>1, <1>2

\* A lookup that goes on with the record a question was answered with.
LEMMA ChainContinues ==
  ASSUME ChainReplies, NEW list, IsList(list), NEW texts, Len(texts) \in 0 .. 2, NEW accepted,
         NEW goOn, \A r \in Range(list) : PickedFrom(list, r.path) => SoundTurn(goOn[r], list)
  PROVE  LET chain == Chain(list, texts, accepted, replies)
         IN /\ SoundTurn(IF chain.hit # {} THEN goOn[The(chain.hit)] ELSE chain.otherwise, list)
            /\ chain.hit # {} => The(chain.hit) \in Range(list)
<1> DEFINE chain == Chain(list, texts, accepted, replies)
<1>1. OpenEnd(chain.otherwise, list)
  BY ChainFacts
<1>2. chain.hit # {} => \E r \in Range(list) : chain.hit = {r} /\ PickedFrom(list, r.path)
  BY ChainFacts
<1> HIDE DEF chain
<1>3. ASSUME chain.hit # {}
      PROVE  The(chain.hit) \in Range(list) /\ SoundTurn(goOn[The(chain.hit)], list)
  <2>1. PICK r \in Range(list) : chain.hit = {r} /\ PickedFrom(list, r.path)
    BY <1>2, <1>3
  <2>2. The(chain.hit) = r
    BY <2>1, TheOnly
  <2> QED
    BY <2>1, <2>2
<1>4. SoundTurn(chain.otherwise, list)
  BY <1>1 DEF SoundTurn
<1> QED
  BY <1>3, <1>4 DEF chain

LEMMA NamedAreProjects ==
  ASSUME NEW text
  PROVE  NamedProjects(w, text) \subseteq Range(w.projects)
BY DEF NamedProjects, Tier

LEMMA EarliestIsNamed ==
  ASSUME IsList(w.projects), NEW named, Earliest(w, named) # {}
  PROVE  The(Earliest(w, named)) \in Range(w.projects)
<1> DEFINE T == {n \in DOMAIN w.projects : /\ w.projects[n] \in named
                                           /\ \A p \in named : w.projects[n].start <= p.start}
<1>1. T # {} /\ Earliest(w, named) = {w.projects[Min(T)]}
  BY DEF Earliest
<1>2. T \in SUBSET Nat
  BY ListFacts
<1>3. T \subseteq DOMAIN w.projects
  OBVIOUS
<1> HIDE DEF T
<1>4. \E n \in T : \A m \in T : n <= m
  BY <1>1, <1>2, LeastNumber
<1>5. Min(T) \in T
  BY <1>4 DEF Min
<1>6. w.projects[Min(T)] \in Range(w.projects)
  BY <1>3, <1>5, ListFacts
<1> QED
  BY <1>1, <1>6, TheOnly

LEMMA ProjectPropertySound ==
  ASSUME q.kind = "project_query", q.variant = "scalar", ChainReplies, IsList(w.projects)
  PROVE  SoundTurn(ProjectProperty(q, w, replies), w.projects)
<1> DEFINE Of_(p) == FirstSharing(w.projects, p, {"title", "name", "alias"})
           Known(p) == IF q.property = "start_date" THEN Of_(p).start # 0 ELSE q.property \in Of_(p).has
           Documents(p) == IF q.property = "start_date" THEN Paths(Range(w.projects)) ELSE {Of_(p).path}
           Value(p) == IF Known(p) THEN Answer("done", {p.path}, {Of_(p).path}, Documents(p)) ELSE Clarify
           named == NamedProjects(w, q.text)
           first == IF q.property = "start_date" THEN Earliest(w, named) ELSE {}
           exact == ExactProject(w, q.text)
           texts == Texts(TaskText, q.text)
           chain == Chain(w.projects, texts, AnyConfidence, replies)
<1>1. Candidates = Range(w.projects)
  BY DEF Candidates
<1>2. Fitting = named
  BY DEF Fitting
<1>3. q.property = "start_date" => Collective
  BY DEF Collective
<1>4. ASSUME NEW p \in Range(w.projects), q.property = "start_date" \/ MeantBy(w.projects, p.path)
      PROVE  SoundTurn(Value(p), w.projects)
  <2> DEFINE of == Of_(p)
             documents == Documents(p)
  <2>1. of \in Range(w.projects) /\ (of.path = p.path \/ SharesKey(of.path, p.path))
    BY <1>1, FoundAgain
  <2>2. of.path \in Paths(Range(w.projects))
    <3> HIDE DEF of
    <3> QED
      BY <2>1, PathOfMember
  <2>3. documents \subseteq Paths(Range(w.projects)) /\ of.path \in documents
    <3>1. documents = IF q.property = "start_date" THEN Paths(Range(w.projects)) ELSE {of.path}
      OBVIOUS
    <3> HIDE DEF of, documents
    <3> QED
      BY <2>2, <3>1
  <2>4. Value(p) = Clarify \/ Value(p) = Answer("done", {p.path}, {of.path}, documents)
    OBVIOUS
  <2> HIDE DEF of, documents, Value
  <2>5. MeansOne(w.projects, {p.path}, {of.path})
    BY <1>3, <1>4, <2>1 DEF MeansOne
  <2>6. Cites({of.path}, documents)
    BY <2>3, LoadedHolds DEF Cites
  <2> QED
    BY <2>4, <2>5, <2>6, Clarified, AnswerSound
<1>5. CASE w.projects = <<>> \/ q.text = ""
  BY <1>5, Clarified DEF ProjectProperty
<1>6. CASE ~(w.projects = <<>> \/ q.text = "") /\ q.property = "start_date" /\ Agreed(named)
  <2>1. ProjectProperty(q, w, replies) = Answer("done", Paths(named), Paths(named), Paths(named))
    BY <1>6 DEF ProjectProperty
  <2>2. named # {}
    <3> HIDE DEF named
    <3>1. Cardinality(named) > 1
      BY <1>6 DEF Agreed
    <3> QED
      BY <3>1, FS_EmptySet
  <2>3. named \subseteq Range(w.projects)
    BY NamedAreProjects
  <2> HIDE DEF named
  <2>4. Cites(Paths(named), Paths(named))
    BY <2>2, <2>3, LoadedHolds, PathsOfPart DEF Cites
  <2>5. MeansOne(w.projects, Paths(named), Paths(named))
    BY <1>3, <1>6 DEF MeansOne
  <2> QED
    BY <2>1, <2>4, <2>5, AnswerSound
<1>7. CASE ~(w.projects = <<>> \/ q.text = "") /\ ~(q.property = "start_date" /\ Agreed(named)) /\ first # {}
  <2>1. ProjectProperty(q, w, replies) = Value(The(first))
    BY <1>7 DEF ProjectProperty
  <2>2. q.property = "start_date" /\ The(first) \in Range(w.projects)
    <3> HIDE DEF named
    <3> QED
      BY <1>7, EarliestIsNamed
  <2> HIDE DEF Value, first
  <2> QED
    BY <1>4, <2>1, <2>2
<1>8. CASE /\ ~(w.projects = <<>> \/ q.text = "") /\ ~(q.property = "start_date" /\ Agreed(named))
           /\ first = {} /\ exact # {}
  <2>1. ProjectProperty(q, w, replies) = Value(The(exact))
    BY <1>8 DEF ProjectProperty
  <2>2. exact = {FirstSharing(w.projects, p, {"alias", "title"}) : p \in Lone(named)}
    BY DEF ExactProject
  <2>3. PICK p : p \in Lone(named)
    BY <1>8, <2>2
  <2>4. Lone(named) = {p} /\ p \in named
    BY <2>3 DEF Lone
  <2>5. p \in Range(w.projects)
    BY <2>4, NamedAreProjects
  <2> DEFINE found == FirstSharing(w.projects, p, {"alias", "title"})
  <2>6. The(exact) = found
    <3>1. exact = {found}
      BY <2>2, <2>4
    <3> QED
      BY <3>1, TheOnly
  <2>7. found \in Range(w.projects) /\ (p.path = found.path \/ p.keys \intersect found.keys # {})
    BY <2>5, FirstShares
  <2> HIDE DEF found
  <2>8. MeantBy(w.projects, found.path)
    <3>1. p.path \in Paths(Lone(Fitting))
      BY <1>2, <2>3, PathOfMember
    <3>2. p.path = found.path \/ SharesKey(p.path, found.path)
      BY <1>1, <2>5, <2>7 DEF SharesKey
    <3> QED
      BY <3>1, <3>2 DEF MeantBy
  <2> HIDE DEF Value, exact
  <2> QED
    BY <1>4, <2>1, <2>6, <2>7, <2>8
<1>9. CASE /\ ~(w.projects = <<>> \/ q.text = "") /\ ~(q.property = "start_date" /\ Agreed(named))
           /\ first = {} /\ exact = {}
  <2> DEFINE goOn == [p \in Range(w.projects) |-> Value(p)]
  <2>1. ProjectProperty(q, w, replies) = IF chain.hit # {} THEN Value(The(chain.hit)) ELSE chain.otherwise
    BY <1>9 DEF ProjectProperty, Continue
  <2>2. Len(texts) \in 0 .. 2
    BY TextsAreTwo
  <2>3. \A p \in Range(w.projects) : PickedFrom(w.projects, p.path) => MeantBy(w.projects, p.path)
    BY DEF MeantBy
  <2> HIDE DEF Value
  <2>4. \A p \in Range(w.projects) : PickedFrom(w.projects, p.path) => SoundTurn(goOn[p], w.projects)
    BY <1>4, <2>3
  <2> HIDE DEF goOn, texts
  <2>5. /\ SoundTurn(IF chain.hit # {} THEN goOn[The(chain.hit)] ELSE chain.otherwise, w.projects)
        /\ chain.hit # {} => The(chain.hit) \in Range(w.projects)
    BY <2>2, <2>4, ChainContinues
  <2> HIDE DEF chain
  <2>6. chain.hit # {} => goOn[The(chain.hit)] = Value(The(chain.hit))
    BY <2>5 DEF goOn
  <2> QED
    BY <2>1, <2>5, <2>6
<1> QED
  BY <1>5, <1>6, <1>7, <1>8, <1>9

\* The row the words of a query name, or the only row there is.
LEMMA RowIsMeant ==
  ASSUME NEW list, IsList(list), Candidates = Range(list), Fitting = ExactRow(list, q.text)
  PROVE  /\ RowOf(list, q.text) # {} => The(RowOf(list, q.text)) \in Range(list)
                                        /\ MeantBy(list, The(RowOf(list, q.text)).path)
         /\ Lone(ExactRow(list, q.text)) # {} =>
              /\ The(Lone(ExactRow(list, q.text))) \in Range(list)
              /\ MeantBy(list, The(Lone(ExactRow(list, q.text))).path)
<1> DEFINE rows == ExactRow(list, q.text)
<1>1. ASSUME Lone(rows) # {}
      PROVE  The(Lone(rows)) \in Range(list) /\ MeantBy(list, The(Lone(rows)).path)
  <2>1. PICK r : r \in Lone(rows)
    BY <1>1
  <2>2. Lone(rows) = {r} /\ r \in rows
    <3> HIDE DEF rows
    <3> QED
      BY <2>1 DEF Lone
  <2>3. r \in Range(list)
    BY <2>2 DEF ExactRow
  <2> HIDE DEF rows
  <2>4. The(Lone(rows)) = r
    BY <2>2, TheOnly
  <2>5. r.path \in Paths(Lone(Fitting))
    BY <2>1, PathOfMember DEF rows
  <2> QED
    BY <2>3, <2>4, <2>5 DEF MeantBy
<1>2. ASSUME Len(list) = 1
      PROVE  The(Range(list)) \in Range(list) /\ MeantBy(list, The(Range(list)).path)
  <2>1. DOMAIN list = {1}
    BY <1>2, ListFacts
  <2>2. Range(list) = {list[1]}
    BY <2>1 DEF Range
  <2>3. list[1] \in Lone(Candidates)
    BY <2>2 DEF Lone
  <2>4. list[1].path \in Paths(Lone(Candidates))
    BY <2>3, PathOfMember
  <2>5. The(Range(list)) = list[1]
    BY <2>2, TheOnly
  <2> QED
    BY <2>2, <2>4, <2>5 DEF MeantBy
<1>3. RowOf(list, q.text) = IF Len(list) = 1 THEN Range(list) ELSE Lone(rows)
  BY DEF RowOf
<1> HIDE DEF rows
<1> QED
  BY <1>1, <1>2, <1>3 DEF rows

LEMMA AccountLookupSound ==
  ASSUME q.kind = "account_lookup", ChainReplies, IsList(w.accounts)
  PROVE  SoundTurn(AccountLookup(q, w, replies), w.accounts)
<1> DEFINE Field(a) == Of(a, q.property \in a.has, {"/accounts.json"})
           row == IF q.text = "" THEN {} ELSE RowOf(w.accounts, q.text)
           texts == Texts(q.text, q.text)
           chain == Chain(w.accounts, texts, Confident, replies)
           goOn == [a \in Range(w.accounts) |-> Field(a)]
<1>1. Candidates = Range(w.accounts)
  BY DEF Candidates
<1>2. Fitting = ExactRow(w.accounts, q.text)
  BY <1>1 DEF Fitting, ExactRow
<1>3. ASSUME NEW a \in Range(w.accounts), MeantBy(w.accounts, a.path)
      PROVE  SoundTurn(Field(a), w.accounts)
  <2>1. MeansOne(w.accounts, {a.path}, {a.path})
    BY <1>3 DEF MeansOne
  <2>2. Cites({a.path}, {"/accounts.json"})
    BY LoadedHolds DEF Cites, CrmRefs
  <2> QED
    BY <2>1, <2>2, ValueSound
<1>4. CASE row # {} /\ q.property \in The(row).has
  <2>1. AccountLookup(q, w, replies) = Field(The(row))
    BY <1>4 DEF AccountLookup
  <2>2. The(row) \in Range(w.accounts) /\ MeantBy(w.accounts, The(row).path)
    BY <1>1, <1>2, <1>4, RowIsMeant
  <2> HIDE DEF Field, row
  <2> QED
    BY <1>3, <2>1, <2>2
<1>5. CASE ~(row # {} /\ q.property \in The(row).has)
  <2>1. AccountLookup(q, w, replies) = IF chain.hit # {} THEN Field(The(chain.hit)) ELSE chain.otherwise
    BY <1>5 DEF AccountLookup, Continue
  <2>2. Len(texts) \in 0 .. 2
    BY TextsAreTwo
  <2> HIDE DEF Field
  <2>3. \A a \in Range(w.accounts) : PickedFrom(w.accounts, a.path) => SoundTurn(goOn[a], w.accounts)
    BY <1>3 DEF MeantBy
  <2> HIDE DEF goOn, texts
  <2>4. /\ SoundTurn(IF chain.hit # {} THEN goOn[The(chain.hit)] ELSE chain.otherwise, w.accounts)
        /\ chain.hit # {} => The(chain.hit) \in Range(w.accounts)
    BY <2>2, <2>3, ChainContinues
  <2> HIDE DEF chain
  <2>5. chain.hit # {} => goOn[The(chain.hit)] = Field(The(chain.hit))
    BY <2>4 DEF goOn
  <2> QED
    BY <2>1, <2>4, <2>5
<1> QED
  BY <1>4, <1>5

\* The list a lookup of a contact shows to the model.
ContactList == IF q.role = "direct" THEN w.contacts ELSE w.accounts

LEMMA ContactLookupSound ==
  ASSUME q.kind = "contact_lookup", ChainReplies, IsList(w.accounts), IsList(w.contacts)
  PROVE  SoundTurn(ContactLookup(q, w, replies), ContactList)
<1> DEFINE Field(c) == Of(c, q.property \in c.has, CrmRefs)
           texts == Texts(q.text, q.text)
<1>1. Candidates = Range(w.contacts)
  BY DEF Candidates
<1>2. Fitting = ExactRow(w.contacts, q.text)
  BY <1>1 DEF Fitting, ExactRow
<1>3. ASSUME NEW c, MeantBy(ContactList, c.path)
      PROVE  SoundTurn(Field(c), ContactList)
  <2>1. MeansOne(ContactList, {c.path}, {c.path})
    BY <1>3 DEF MeansOne
  <2>2. Cites({c.path}, CrmRefs)
    BY LoadedHolds DEF Cites, CrmRefs
  <2> QED
    BY <2>1, <2>2, ValueSound
<1>4. Len(texts) \in 0 .. 2
  BY TextsAreTwo
<1>5. CASE q.role = "direct"
  <2> DEFINE contact == Lone(ExactRow(w.contacts, q.text))
             chain == Chain(w.contacts, texts, Confident, replies)
             goOn == [c \in Range(w.contacts) |-> Field(c)]
  <2>1. ContactList = w.contacts
    BY <1>5 DEF ContactList
  <2>2. CASE q.text # "" /\ Len(w.contacts) = 1
    <3>1. ContactLookup(q, w, replies) = Raised
      BY <1>5, <2>2 DEF ContactLookup
    <3> QED
      BY <2>2, <3>1 DEF SoundTurn
  <2>3. CASE ~(q.text # "" /\ Len(w.contacts) = 1) /\ contact # {} /\ q.property \in The(contact).has
    <3>1. ContactLookup(q, w, replies) = Field(The(contact))
      BY <1>5, <2>3 DEF ContactLookup
    <3>2. MeantBy(w.contacts, The(contact).path)
      BY <1>1, <1>2, <2>3, RowIsMeant
    <3> HIDE DEF Field, contact
    <3> QED
      BY <1>3, <2>1, <3>1, <3>2
  <2>4. CASE ~(q.text # "" /\ Len(w.contacts) = 1) /\ ~(contact # {} /\ q.property \in The(contact).has)
    <3>1. ContactLookup(q, w, replies) = IF chain.hit # {} THEN Field(The(chain.hit)) ELSE chain.otherwise
      BY <1>5, <2>4 DEF ContactLookup, Continue
    <3> HIDE DEF Field
    <3>2. \A c \in Range(w.contacts) : PickedFrom(w.contacts, c.path) => SoundTurn(goOn[c], w.contacts)
      BY <1>3, <2>1 DEF MeantBy
    <3> HIDE DEF goOn, texts
    <3>3. /\ SoundTurn(IF chain.hit # {} THEN goOn[The(chain.hit)] ELSE chain.otherwise, w.contacts)
          /\ chain.hit # {} => The(chain.hit) \in Range(w.contacts)
      BY <1>4, <3>2, ChainContinues
    <3> HIDE DEF chain
    <3>4. chain.hit # {} => goOn[The(chain.hit)] = Field(The(chain.hit))
      BY <3>3 DEF goOn
    <3> QED
      BY <2>1, <3>1, <3>3, <3>4
  <2> QED
    BY <2>2, <2>3, <2>4
<1>6. CASE q.role # "direct"
  <2> DEFINE OfAccount(a) == IF InRole(w, a, q.role) = {} THEN Clarify ELSE Field(The(InRole(w, a, q.role)))
             Typed(a) == FirstSharing(w.accounts, a, {"id", "legal", "display"})
             Alike(a) == {b \in Range(w.accounts) : b.path = a.path \/ b.keys \intersect a.keys # {}}
             Again(a) == IF Lone(Alike(a)) # {} /\ w.contacts # <<>> THEN OfAccount(The(Alike(a))) ELSE Clarify
             account == RowOf(w.accounts, q.text)
             found == IF q.text = "" \/ account = {} \/ w.contacts = <<>> THEN Clarify
                      ELSE OfAccount(Typed(The(account)))
             chain == Chain(w.accounts, texts, Confident, replies)
             goOn == [a \in Range(w.accounts) |-> Again(a)]
  <2>1. ContactList = w.accounts
    BY <1>6 DEF ContactList
  <2>2. \A c : MeantBy(ContactList, c)
    BY <1>6 DEF MeantBy
  <2>3. ASSUME NEW a PROVE SoundTurn(OfAccount(a), w.accounts)
    <3> HIDE DEF Field
    <3> QED
      BY <1>3, <2>1, <2>2, Clarified
  <2> HIDE DEF OfAccount
  <2>4. ASSUME NEW a PROVE SoundTurn(Again(a), w.accounts)
    <3> HIDE DEF Alike
    <3> QED
      BY <2>3, Clarified
  <2>5. SoundTurn(found, w.accounts)
    <3> HIDE DEF account, Typed
    <3> QED
      BY <2>3, Clarified
  <2>6. ContactLookup(q, w, replies) =
          IF found.status = "done" THEN found
          ELSE IF chain.hit # {} THEN Again(The(chain.hit)) ELSE chain.otherwise
    BY <1>6 DEF ContactLookup, Continue, OfAccount
  <2> HIDE DEF Again, found
  <2>7. \A a \in Range(w.accounts) : PickedFrom(w.accounts, a.path) => SoundTurn(goOn[a], w.accounts)
    BY <2>4
  <2> HIDE DEF goOn, texts
  <2>8. /\ SoundTurn(IF chain.hit # {} THEN goOn[The(chain.hit)] ELSE chain.otherwise, w.accounts)
        /\ chain.hit # {} => The(chain.hit) \in Range(w.accounts)
    BY <1>4, <2>7, ChainContinues
  <2> HIDE DEF chain
  <2>9. chain.hit # {} => goOn[The(chain.hit)] = Again(The(chain.hit))
    BY <2>8 DEF goOn
  <2> QED
    BY <2>1, <2>5, <2>6, <2>8, <2>9
<1> QED
  BY <1>5, <1>6

LEMMA CaptureLookupSound ==
  ASSUME q.kind = "capture_lookup"
  PROVE  SoundTurn(CaptureLookup(q, w), w.captures)
<1> DEFINE noted == {c \in Range(w.captures) : c.day = q.day}
<1>1. CaptureLookup(q, w) = IF Lone(noted) = {} THEN Clarify ELSE Of(The(noted), TRUE, Paths(noted))
  BY DEF CaptureLookup
<1>2. Fitting = noted
  BY DEF Fitting, Candidates
<1>3. noted \subseteq Range(w.captures)
  OBVIOUS
<1> HIDE DEF noted
<1>4. ASSUME Lone(noted) # {}
      PROVE  SoundTurn(Of(The(noted), TRUE, Paths(noted)), w.captures)
  <2> DEFINE c == The(noted)
  <2>1. c \in Lone(noted) /\ c \in noted
    BY <1>4, LoneIsAll
  <2> HIDE DEF c
  <2>2. c.path \in Paths(Lone(Fitting)) /\ c.path \in Paths(noted)
    BY <1>2, <2>1, PathOfMember
  <2>3. MeansOne(w.captures, {c.path}, {c.path})
    BY <2>2 DEF MeansOne, MeantBy
  <2>4. Cites({c.path}, Paths(noted))
    BY <1>3, <2>2, LoadedHolds, PathsOfPart DEF Cites
  <2>5. SoundTurn(Of(c, TRUE, Paths(noted)), w.captures)
    BY <2>3, <2>4, ValueSound
  <2> QED
    BY <2>5 DEF c
<1> QED
  BY <1>1, <1>4, Clarified

QueueReplies == DOMAIN replies \in {{}, {"some"}}

\* A turn of the lookup of the queue, which lists what it found.
QueueTurn(turn) ==
  \/ turn = Clarify
  \/ DOMAIN replies = {} /\ \E text : turn = Ask("some", w.queue, text)
  \/ \E refs : turn = Answer("done", refs, refs, refs) /\ Cites(refs, refs)

LEMMA QueueLookupSound ==
  ASSUME q.kind = "queue_state_lookup", QueueReplies, IsList(w.queue),
         \A s \in DOMAIN replies : replies[s].parsed => replies[s].indices \in Seq(Nat)
  PROVE  QueueTurn(QueueLookup(q, w, replies))
<1> DEFINE found == {e \in Range(w.queue) : q.text \in e.terms}
           some == PickedSome(w.queue, replies["some"], Confident)
           picked == IF DOMAIN replies = {} THEN {} ELSE Range(some)
<1>1. found \subseteq Range(w.queue)
  OBVIOUS
<1>2. picked \subseteq Range(w.queue)
  <2>1. CASE DOMAIN replies = {}
    BY <2>1
  <2>2. CASE DOMAIN replies # {}
    <3>1. "some" \in DOMAIN replies
      BY <2>2 DEF QueueReplies
    <3>2. replies["some"].parsed => replies["some"].indices \in Seq(Nat)
      BY <3>1
    <3>3. some \in Seq(Range(w.queue))
      BY <3>2, PickedSomeFacts
    <3> HIDE DEF some
    <3>4. Range(some) \subseteq Range(w.queue)
      BY <3>3 DEF Range
    <3> QED
      BY <2>2, <3>4
  <2> QED
    BY <2>1, <2>2
<1>3. ASSUME NEW S \in SUBSET Range(w.queue), S # {}
      PROVE  QueueTurn(Answer("done", Paths(S), Paths(S), Paths(S)))
  <2>1. Cites(Paths(S), Paths(S))
    BY <1>3, LoadedHolds, PathsOfPart DEF Cites
  <2> QED
    BY <2>1 DEF QueueTurn
<1>4. QueueTurn(Clarify)
  BY DEF QueueTurn
<1>5. CASE w.queue = <<>> \/ q.text = ""
  BY <1>4, <1>5 DEF QueueLookup
<1>6. CASE ~(w.queue = <<>> \/ q.text = "") /\ found # {}
  <2>1. QueueLookup(q, w, replies) = Answer("done", Paths(found), Paths(found), Paths(found))
    BY <1>6 DEF QueueLookup
  <2> HIDE DEF found
  <2> QED
    BY <1>1, <1>3, <1>6, <2>1
<1>7. CASE ~(w.queue = <<>> \/ q.text = "") /\ found = {} /\ DOMAIN replies = {}
  <2>1. QueueLookup(q, w, replies) = Ask("some", w.queue, q.text)
    BY <1>7 DEF QueueLookup
  <2> QED
    BY <1>7, <2>1 DEF QueueTurn
<1>8. CASE ~(w.queue = <<>> \/ q.text = "") /\ found = {} /\ DOMAIN replies # {}
  <2>1. QueueLookup(q, w, replies) =
          IF picked = {} THEN Clarify ELSE Answer("done", Paths(picked), Paths(picked), Paths(picked))
    BY <1>8 DEF QueueLookup
  <2> HIDE DEF picked
  <2> QED
    BY <1>2, <1>3, <1>4, <2>1
<1> QED
  BY <1>5, <1>6, <1>7, <1>8

-----------------------------------------------------------------------------
(* What a query of the finance records finds *)

\* The records an amount is of are records of the list, and cited with it.
Backed(records, found) ==
  /\ found.of # {} /\ found.of \subseteq Range(records)
  /\ Paths(found.of) \subseteq found.refs /\ found.refs \subseteq Paths(Range(records))

LEMMA FoundBacked ==
  ASSUME NEW records, NEW amount, NEW S \in SUBSET Range(records), NEW T \in SUBSET Range(records), S # {}
  PROVE  \A found \in Found(amount, S, Paths(S \union T)) : Backed(records, found) /\ found.of = S
<1>1. Paths(S) \subseteq Paths(S \union T) /\ Paths(S \union T) \subseteq Paths(Range(records))
  BY DEF Paths
<1> QED
  BY <1>1 DEF Found, Backed

LEMMA SingleBacked ==
  ASSUME NEW records, NEW amount, NEW S \in SUBSET Range(records)
  PROVE  \A found \in Single(S, amount) : Backed(records, found)
<1>1. CASE S = {}
  BY <1>1 DEF Single
<1>2. CASE S # {}
  <2>1. Single(S, amount) = Found(amount, S, Paths(S \union {}))
    BY <1>2 DEF Single
  <2>2. \A found \in Found(amount, S, Paths(S \union {})) : Backed(records, found) /\ found.of = S
    BY <1>2, FoundBacked
  <2> QED
    BY <2>1, <2>2
<1> QED
  BY <1>1, <1>2

\* The records an item was found on.
LEMMA ValuedOn ==
  ASSUME NEW S, NEW name, NEW measure, NEW date
  PROVE  /\ \A m \in Valued(S, name, measure) : m[1] \in S
         /\ BestMatch(Valued(S, name, measure), date) \subseteq Valued(S, name, measure)
<1>1. \A m \in Valued(S, name, measure) : m[1] \in S
  BY DEF Valued
<1>2. ASSUME NEW M PROVE BestMatch(M, date) \subseteq M
  BY DEF BestMatch
<1> QED
  BY <1>1, <1>2

LEMMA NearestIn ==
  ASSUME NEW S, NEW date
  PROVE  Nearest(S, date) \subseteq S /\ NearestDay(S, date) \subseteq S
BY DEF Nearest, NearestDay

LEMMA InferredIn ==
  ASSUME NEW R, NEW i
  PROVE  Infer(R, i) \subseteq R
<1> DEFINE having == {r \in R : HasItem(r, i.item)}
           OnDay == {r \in having : i.date # Absent /\ r.date = i.date}
           Among(base) == IF Lone(PartiesOf(Scored(base, i))) # {} THEN Scored(base, i)
                          ELSE IF Lone(PartiesOf(base)) # {} THEN base ELSE {}
<1>1. Infer(R, i) = UNION {Among(IF dated # {} THEN dated ELSE having) : dated \in {OnDay}}
  BY DEF Infer
<1>2. \A base : Scored(base, i) \subseteq base
  BY DEF Scored
<1>3. \A base : Among(base) \subseteq base
  BY <1>2
<1>4. having \subseteq R /\ OnDay \subseteq R
  OBVIOUS
<1> HIDE DEF Among, having, OnDay
<1> QED
  BY <1>1, <1>3, <1>4

\* An anchor is one record of the list.
LEMMA AnchorIsOne ==
  ASSUME NEW records, IsList(records), NEW i
  PROVE  /\ AnchorFor(records, i) \subseteq Range(records)
         /\ AnchorFor(records, i) # {} => \E r : AnchorFor(records, i) = {r}
<1> DEFINE R == Range(records)
           named == {n \in DOMAIN records : i.path # <<>> /\ records[n].path[2] = i.path[2]}
           fitting == {r \in R : /\ Fits(r, i) /\ i.range # <<>> => Within(r, i.range)
                                 /\ i.date \in {Absent, r.date}}
           relaxed == {r \in R : Fits(r, i) /\ r.date # Absent}
           latest == {r \in relaxed : \A p \in relaxed : p.date <= r.date}
           One(S) == S \subseteq R /\ (S # {} => \E r : S = {r})
<1>1. /\ named # {} => Anchor(records, i) = {records[Min(named)]}
      /\ named = {} => Anchor(records, i) \in {Lone(latest), Lone(fitting)}
  BY DEF Anchor
<1>2. fitting \subseteq R /\ latest \subseteq R /\ named \subseteq DOMAIN records
  OBVIOUS
<1> HIDE DEF named, fitting, relaxed, latest
<1>3. ASSUME NEW S, S \subseteq R
      PROVE  One(Lone(S))
  BY <1>3 DEF Lone
<1>4. ASSUME named # {}
      PROVE  One({records[Min(named)]})
  <2>1. named \in SUBSET Nat
    BY <1>2, ListFacts
  <2>2. \E n \in named : \A m \in named : n <= m
    BY <1>4, <2>1, LeastNumber
  <2>3. Min(named) \in named
    BY <2>2 DEF Min
  <2>4. records[Min(named)] \in R
    BY <1>2, <2>3, ListFacts
  <2> QED
    BY <2>4
<1>5. One({})
  OBVIOUS
<1> HIDE DEF One
<1>6. One(Anchor(records, i))
  BY <1>1, <1>2, <1>3, <1>4
<1>7. One(AnchorFor(records, i))
  BY <1>5, <1>6 DEF AnchorFor
<1> QED
  BY <1>7 DEF One

\* The first of some matches of an item.
LEMMA MatchBacked ==
  ASSUME NEW records, NEW M, M # {}, \A m \in M : m[1] \in Range(records)
  PROVE  \A found \in Single({The(M)[1]}, The(M)[2]) : Backed(records, found)
<1> DEFINE m == The(M)
<1>1. m \in M
  BY DEF The
<1> HIDE DEF m
<1>2. {m[1]} \in SUBSET Range(records)
  BY <1>1
<1> QED
  BY <1>2, SingleBacked DEF m

LEMMA LineItemTotalBacked ==
  ASSUME NEW records, IsList(records), NEW i
  PROVE  \A found \in LineItemTotal(records, i) : Backed(records, found)
<1> DEFINE R == Range(records)
           Named == OneParty({r \in R : r.cp = i.cp /\ OfType(r, i.type) /\ HasItem(r, i.item)})
           Like(S) == {r \in R : /\ OfType(r, i.type) /\ HasItem(r, i.item)
                                 /\ \E a \in S : r.cp = a.cp /\ r.type = a.type}
           Match(S) == BestMatch(Valued(S, i.item, "amount"), i.date)
           First(near, inferred, matching) ==
             LET M == IF near # {} THEN near ELSE IF inferred # {} THEN inferred ELSE matching
             IN IF M = {} THEN {} ELSE Single({The(M)[1]}, The(M)[2])
           Near(matching) == IF i.date = Absent \/ NearestDay(matching, i.date) = {} THEN matching
                             ELSE NearestDay(matching, i.date)
           OfItem(inferred) == IF Like(inferred) = {} THEN {}
                               ELSE UNION {First(M, Match(inferred), M) : M \in {Match(Like(inferred))}}
           OfNamed(named) == UNION {First(Match(Near(named)), {}, M) : M \in {Match(named)}}
           OfAnchor(anchor) == IF anchor # {} THEN UNION {First(M, {}, M) : M \in {Match(anchor)}}
                               ELSE IF i.cp # "" THEN UNION {OfNamed(named) : named \in {Named}}
                               ELSE UNION {OfItem(inferred) : inferred \in {Infer(R, i)}}
           Ours(M) == \A m \in M : m[1] \in R
           Right(F) == \A found \in F : Backed(records, found)
<1>1. LineItemTotal(records, i) =
        IF i.item = "" THEN {} ELSE UNION {OfAnchor(anchor) : anchor \in {AnchorFor(records, i)}}
  BY DEF LineItemTotal
<1>2. ASSUME NEW near, NEW inferred, NEW matching, Ours(near), Ours(inferred), Ours(matching)
      PROVE  Right(First(near, inferred, matching))
  <2> DEFINE M == IF near # {} THEN near ELSE IF inferred # {} THEN inferred ELSE matching
  <2>1. Ours(M)
    BY <1>2
  <2>2. First(near, inferred, matching) = IF M = {} THEN {} ELSE Single({The(M)[1]}, The(M)[2])
    OBVIOUS
  <2> HIDE DEF M, First
  <2> QED
    BY <2>1, <2>2, MatchBacked
<1>3. ASSUME NEW S, S \subseteq R
      PROVE  Ours(Match(S))
  BY <1>3, ValuedOn
<1>4. ASSUME NEW S PROVE Like(S) \subseteq R
  OBVIOUS
<1>5. Named \subseteq R
  BY DEF OneParty
<1>6. ASSUME NEW S, S \subseteq R PROVE Near(S) \subseteq R
  BY <1>6, NearestIn
<1>7. Infer(R, i) \subseteq R
  BY InferredIn
<1>8. Ours({})
  OBVIOUS
<1>9. AnchorFor(records, i) \subseteq R
  BY AnchorIsOne
<1> HIDE DEF Match, First, Named, Like, Near, Ours, Right
<1>10. Right({})
  BY DEF Right
<1>11. ASSUME NEW x, NEW F, F = {x}, Right(x) PROVE Right(UNION F)
  <2>1. UNION F = x
    BY <1>11
  <2> QED
    BY <1>11, <2>1
<1>12. ASSUME NEW inferred, inferred \subseteq R
       PROVE  Right(OfItem(inferred))
  <2>1. Right(First(Match(Like(inferred)), Match(inferred), Match(Like(inferred))))
    BY <1>2, <1>3, <1>4, <1>12
  <2>2. Right(UNION {First(M, Match(inferred), M) : M \in {Match(Like(inferred))}})
    BY <1>11, <2>1
  <2> QED
    BY <1>10, <2>2
<1>13. ASSUME NEW named, named \subseteq R
       PROVE  Right(OfNamed(named))
  <2>1. Right(First(Match(Near(named)), {}, Match(named)))
    BY <1>2, <1>3, <1>6, <1>8, <1>13
  <2> QED
    BY <1>11, <2>1
<1>14. ASSUME NEW anchor, anchor \subseteq R
       PROVE  Right(OfAnchor(anchor))
  <2> HIDE DEF OfItem, OfNamed
  <2>1. Right(First(Match(anchor), {}, Match(anchor)))
    BY <1>2, <1>3, <1>8, <1>14
  <2>2. Right(UNION {First(M, {}, M) : M \in {Match(anchor)}})
    BY <1>11, <2>1
  <2>3. Right(UNION {OfNamed(named) : named \in {Named}})
    BY <1>5, <1>11, <1>13
  <2>4. Right(UNION {OfItem(inferred) : inferred \in {Infer(R, i)}})
    BY <1>7, <1>11, <1>12
  <2> QED
    BY <2>2, <2>3, <2>4
<1> HIDE DEF OfAnchor
<1>15. Right(UNION {OfAnchor(anchor) : anchor \in {AnchorFor(records, i)}})
  BY <1>9, <1>11, <1>14
<1>16. Right(LineItemTotal(records, i))
  BY <1>1, <1>10, <1>15
<1> QED
  BY <1>16 DEF Right

\* A counterparty's total is over one party: every record with a total that has the
\* counterparty and the type of one of them is in it, and no other.
OneOfParty(records, S) ==
  \E party \in PartiesOf(Range(records)) :
    S = {r \in Range(records) : Totalled(r) /\ r.cp = party.cp /\ r.type = party.type}

LEMMA InferredParty ==
  ASSUME NEW R, NEW i, Infer(R, i) # {}
  PROVE  \E party : PartiesOf(Infer(R, i)) = {party}
<1> DEFINE having == {r \in R : HasItem(r, i.item)}
           OnDay == {r \in having : i.date # Absent /\ r.date = i.date}
           Among(base) == IF Lone(PartiesOf(Scored(base, i))) # {} THEN Scored(base, i)
                          ELSE IF Lone(PartiesOf(base)) # {} THEN base ELSE {}
<1>1. Infer(R, i) = UNION {Among(IF dated # {} THEN dated ELSE having) : dated \in {OnDay}}
  BY DEF Infer
<1>2. ASSUME NEW S, Lone(PartiesOf(S)) # {}
      PROVE  \E party : PartiesOf(S) = {party}
  BY <1>2 DEF Lone
<1>3. ASSUME NEW base, Among(base) # {}
      PROVE  \E party : PartiesOf(Among(base)) = {party}
  BY <1>2, <1>3
<1> HIDE DEF Among, having, OnDay
<1>4. PICK base : Infer(R, i) = Among(base)
  BY <1>1
<1> QED
  BY <1>3, <1>4

LEMMA PartyOfAll ==
  ASSUME NEW S, NEW party, PartiesOf(S) = {party}
  PROVE  \A r \in S : r.cp = party.cp /\ r.type = party.type
<1> TAKE r \in S
<1>1. [cp |-> r.cp, type |-> r.type] \in PartiesOf(S)
  BY DEF PartiesOf
<1>2. [cp |-> r.cp, type |-> r.type] = party
  BY <1>1
<1> QED
  BY <1>2

LEMMA CounterpartyTotalBacked ==
  ASSUME NEW records, IsList(records), NEW i
  PROVE  \A found \in CounterpartyTotal(records, i) : Backed(records, found) /\ OneOfParty(records, found.of)
<1> DEFINE R == Range(records)
           OfParty(S) == {r \in R : Totalled(r) /\ \E a \in S : r.cp = a.cp /\ r.type = a.type}
           N == {r \in R : r.cp = i.cp /\ OfType(r, i.type) /\ Totalled(r)}
           Named == OneParty(N)
           Total(S) == MapThenSumSet(LAMBDA r : r.total, S)
           Sum(matching, inferred) ==
             IF matching = {} THEN {}
             ELSE Found(Total(matching), matching, Paths(matching \union inferred))
           Inferred(inferred) == Sum({r \in OfParty(inferred) : OfType(r, i.type)}, inferred)
           Anchored_(anchor) == IF anchor # {} THEN Sum(OfParty(anchor), {})
                                ELSE IF i.cp # "" THEN Sum(Named, {})
                                ELSE IF i.item = "" THEN {}
                                ELSE UNION {Inferred(inferred) : inferred \in {Infer(R, i)}}
           Right(F) == \A found \in F : Backed(records, found) /\ OneOfParty(records, found.of)
<1>1. CounterpartyTotal(records, i) = UNION {Anchored_(anchor) : anchor \in {AnchorFor(records, i)}}
  BY Zenon DEF CounterpartyTotal
<1> HIDE DEF Total
<1>2. ASSUME NEW matching \in SUBSET R, NEW inferred \in SUBSET R,
             matching # {} => OneOfParty(records, matching)
      PROVE  Right(Sum(matching, inferred))
  <2>1. CASE matching = {}
    BY <2>1
  <2>2. CASE matching # {}
    <3>1. \A found \in Found(Total(matching), matching, Paths(matching \union inferred)) :
            Backed(records, found) /\ found.of = matching
      BY <2>2, FoundBacked
    <3> QED
      BY <1>2, <2>2, <3>1
  <2> QED
    BY <2>1, <2>2
<1>3. ASSUME NEW a \in R
      PROVE  OneOfParty(records, OfParty({a}))
  <2>1. [cp |-> a.cp, type |-> a.type] \in PartiesOf(R)
    BY DEF PartiesOf
  <2>2. OfParty({a}) = {r \in R : Totalled(r) /\ r.cp = a.cp /\ r.type = a.type}
    OBVIOUS
  <2> HIDE DEF OfParty
  <2> QED
    BY <2>1, <2>2 DEF OneOfParty
<1>4. ASSUME Named # {}
      PROVE  OneOfParty(records, Named)
  <2>1. Named = N /\ Lone(PartiesOf(N)) # {}
    BY <1>4 DEF OneParty
  <2>2. PICK party : PartiesOf(N) = {party}
    BY <2>1 DEF Lone
  <2>3. \A r \in N : r.cp = party.cp /\ r.type = party.type
    BY <2>2, PartyOfAll
  <2>4. PICK n \in N : n.cp = party.cp /\ n.type = party.type
    BY <1>4, <2>1, <2>3
  <2>5. party \in PartiesOf(R)
    <3>1. PartiesOf(N) \subseteq PartiesOf(R)
      BY DEF PartiesOf
    <3> QED
      BY <2>2, <3>1
  <2>6. N = {r \in R : Totalled(r) /\ r.cp = party.cp /\ r.type = party.type}
    BY <2>3, <2>4 DEF OfType
  <2> HIDE DEF N, Named
  <2> QED
    BY <2>1, <2>5, <2>6 DEF OneOfParty
<1>5. ASSUME NEW inferred, inferred = Infer(R, i)
      PROVE  Right(Inferred(inferred))
  <2> DEFINE matching == {r \in OfParty(inferred) : OfType(r, i.type)}
  <2>1. inferred \subseteq R
    BY <1>5, InferredIn
  <2>2. ASSUME matching # {}
        PROVE  OneOfParty(records, matching)
    <3>1. inferred # {}
      BY <2>2
    <3>2. PICK party : PartiesOf(inferred) = {party}
      BY <1>5, <3>1, InferredParty
    <3>3. \A r \in inferred : r.cp = party.cp /\ r.type = party.type
      BY <3>2, PartyOfAll
    <3>4. party \in PartiesOf(R)
      <4>1. PartiesOf(inferred) \subseteq PartiesOf(R)
        BY <2>1 DEF PartiesOf
      <4> QED
        BY <3>2, <4>1
    <3>5. OfParty(inferred) = {r \in R : Totalled(r) /\ r.cp = party.cp /\ r.type = party.type}
      BY <3>1, <3>3
    <3>6. matching = {r \in R : Totalled(r) /\ r.cp = party.cp /\ r.type = party.type}
      <4>1. PICK m \in matching : m.type = party.type /\ OfType(m, i.type)
        BY <2>2, <3>5
      <4> QED
        BY <3>5, <4>1 DEF OfType
    <3> HIDE DEF matching
    <3> QED
      BY <3>4, <3>6 DEF OneOfParty
  <2>3. matching \in SUBSET R
    OBVIOUS
  <2>4. Inferred(inferred) = Sum(matching, inferred)
    OBVIOUS
  <2> HIDE DEF matching, Sum, Right, Inferred
  <2> QED
    BY <1>2, <2>1, <2>2, <2>3, <2>4
<1>6. ASSUME NEW anchor, anchor = AnchorFor(records, i)
      PROVE  Right(Anchored_(anchor))
  <2>1. anchor \subseteq R /\ (anchor # {} => \E r : anchor = {r})
    BY <1>6, AnchorIsOne
  <2>2. OfParty(anchor) \in SUBSET R /\ Named \in SUBSET R
    BY DEF OneParty
  <2>3. anchor # {} => OneOfParty(records, OfParty(anchor))
    <3> HIDE DEF OfParty
    <3> QED
      BY <1>3, <2>1
  <2>4. Right({})
    OBVIOUS
  <2> HIDE DEF Sum, Right, OfParty, Named, Inferred
  <2>5. anchor # {} => Right(Sum(OfParty(anchor), {}))
    BY <1>2, <2>2, <2>3
  <2>6. Right(Sum(Named, {}))
    BY <1>2, <1>4, <2>2
  <2>7. UNION {Inferred(inferred) : inferred \in {Infer(R, i)}} = Inferred(Infer(R, i))
    OBVIOUS
  <2>8. Right(Inferred(Infer(R, i)))
    BY <1>5
  <2> QED
    BY <2>4, <2>5, <2>6, <2>7, <2>8
<1> HIDE DEF Anchored_, Right
<1>7. CounterpartyTotal(records, i) = Anchored_(AnchorFor(records, i))
  BY <1>1
<1>8. Right(CounterpartyTotal(records, i))
  BY <1>6, <1>7
<1> QED
  BY <1>8 DEF Right

LEMMA ServiceTotalBacked ==
  ASSUME NEW records, NEW i
  PROVE  \A found \in ServiceTotal(Range(records), i) : Backed(records, found)
<1> DEFINE R == Range(records)
           Amount(item) == IF item.line # Absent THEN item.line ELSE item.unit
           Sold(r) == {n \in DOMAIN r.items : r.items[n].name = i.item /\ Amount(r.items[n]) # Absent}
           matching == {r \in R : r.type = "invoice" /\ r.date >= i.since /\ Sold(r) # {}}
           Revenue(r) == MapThenSumSet(LAMBDA n : Amount(r.items[n]), Sold(r))
           total == MapThenSumSet(Revenue, matching)
<1>1. ServiceTotal(R, i) = IF i.item = "" \/ i.since = Absent \/ matching = {} THEN {}
                           ELSE Found(total, matching, Paths(matching))
  BY Zenon DEF ServiceTotal
<1>2. matching \in SUBSET R
  OBVIOUS
<1> HIDE DEF total, matching
<1>3. matching # {} => \A found \in Found(total, matching, Paths(matching \union {})) : Backed(records, found)
  BY <1>2, FoundBacked
<1>4. matching \union {} = matching
  OBVIOUS
<1> QED
  BY <1>1, <1>3, <1>4

LEMMA ItemValueBacked ==
  ASSUME NEW records, NEW i
  PROVE  \A found \in ItemValue(Range(records), i) : Backed(records, found)
<1> DEFINE R == Range(records)
           S == {r \in R : /\ OfType(r, IF i.type = "any" THEN "bill" ELSE i.type)
                           /\ r.cp = i.cp /\ Within(r, i.range) /\ HasItem(r, i.item)}
           measure == IF i.action = "line_item_quantity" THEN "quantity" ELSE "price"
           Latest(M) == {m \in M : \A n \in M : n[1].date < m[1].date \/ (n[1].date = m[1].date /\ n[2] <= m[2])}
           Match(M) == IF BestMatch(M, i.date) # {} THEN BestMatch(M, i.date) ELSE Latest(M)
           Only(match) == IF match = {} THEN {} ELSE Single({The(match)[1]}, The(match)[2])
           V == Valued(S, i.item, measure)
<1>1. ItemValue(R, i) = UNION {Only(Match(M)) : M \in {V}}
  BY DEF ItemValue
<1>2. \A m \in V : m[1] \in R
  <2>1. S \subseteq R
    OBVIOUS
  <2> HIDE DEF S
  <2> QED
    BY <2>1, ValuedOn
<1>3. Match(V) \subseteq V
  <2>1. Latest(V) \subseteq V
    OBVIOUS
  <2>2. BestMatch(V, i.date) \subseteq V
    BY ValuedOn
  <2> HIDE DEF V, Latest
  <2> QED
    BY <2>1, <2>2
<1> HIDE DEF Match, V
<1>4. ItemValue(R, i) = Only(Match(V))
  BY <1>1
<1>5. \A m \in Match(V) : m[1] \in R
  BY <1>2, <1>3
<1> QED
  BY <1>4, <1>5, MatchBacked

LEMMA QueryBacked ==
  ASSUME NEW records, IsList(records), NEW i, i.action \in FinanceActions
  PROVE  \A found \in Query(records, i) :
            /\ Backed(records, found)
            /\ i.action = "counterparty_total" => OneOfParty(records, found.of)
<1> DEFINE R == Range(records)
           period == ByPeriod(R, i)
           one == IF ByIdentity(R, i) # {} THEN ByIdentity(R, i) ELSE period
           Right(F) == \A found \in F : Backed(records, found)
<1>1. period \in SUBSET R /\ ByIdentity(R, i) \in SUBSET R /\ one \in SUBSET R
  <2>1. period \in SUBSET R
    BY DEF ByPeriod, InPeriod, Lone
  <2>2. ByIdentity(R, i) \in SUBSET R
    BY DEF ByIdentity, Lone
  <2> QED
    BY <2>1, <2>2
<1>2. ASSUME NEW S \in SUBSET R, NEW amount
      PROVE  Right(Single(S, amount))
  BY <1>2, SingleBacked
<1>3. Right({})
  OBVIOUS
<1>4. CASE i.action = "counterparty_total"
  BY <1>4, CounterpartyTotalBacked DEF Query
<1>5. ASSUME i.action # "counterparty_total", Right(Query(records, i))
      PROVE  \A found \in Query(records, i) :
               Backed(records, found) /\ (i.action = "counterparty_total" => OneOfParty(records, found.of))
  BY <1>5
<1>6. CASE i.action = "line_item_total"
  <2>1. Query(records, i) = LineItemTotal(records, i)
    BY <1>6 DEF Query
  <2> QED
    BY <1>5, <1>6, <2>1, LineItemTotalBacked
<1>7. CASE i.action = "service_line_total"
  <2>1. Query(records, i) = ServiceTotal(R, i)
    BY <1>7 DEF Query
  <2> QED
    BY <1>5, <1>7, <2>1, ServiceTotalBacked
<1>8. CASE i.action = "record_date"
  <2>1. Query(records, i) = IF period = {} THEN {} ELSE Single(period, The(period).date)
    BY <1>8 DEF Query
  <2> HIDE DEF period, Right
  <2> QED
    BY <1>1, <1>2, <1>3, <1>5, <1>8, <2>1
<1>9. CASE i.action = "line_item_count"
  <2>1. Query(records, i) = IF period = {} THEN {} ELSE Single(period, Len(The(period).items))
    BY <1>9 DEF Query
  <2> HIDE DEF period, Right
  <2> QED
    BY <1>1, <1>2, <1>3, <1>5, <1>9, <2>1
<1>10. CASE i.action = "record_total"
  <2>1. Query(records, i) = IF one = {} THEN {}
                            ELSE IF Totalled(The(one)) THEN Single(one, The(one).total) ELSE {}
    BY <1>10 DEF Query
  <2> HIDE DEF one, Right
  <2> QED
    BY <1>1, <1>2, <1>3, <1>5, <1>10, <2>1
<1>11. CASE i.action = "settlement_status"
  <2>1. Query(records, i) = Single(ByIdentity(R, i), 0)
    BY <1>11 DEF Query
  <2> HIDE DEF Right
  <2> QED
    BY <1>1, <1>2, <1>5, <1>11, <2>1
<1>12. CASE i.action = "settlement_reference"
  <2> DEFINE S == {r \in ByIdentity(R, i) : r.settled}
  <2>1. Query(records, i) = Single(S, 0)
    BY <1>12 DEF Query
  <2>2. S \in SUBSET R
    BY <1>1
  <2> HIDE DEF Right, S
  <2> QED
    BY <1>2, <1>5, <1>12, <2>1, <2>2
<1>13. CASE i.action \in {"line_item_price", "line_item_quantity"}
  <2>1. Query(records, i) = IF i.item = "" \/ i.range = <<>> \/ i.cp = "" THEN {} ELSE ItemValue(R, i)
    BY <1>13 DEF Query
  <2> QED
    BY <1>3, <1>5, <1>13, <2>1, ItemValueBacked
<1> QED
  BY <1>4, <1>6, <1>7, <1>8, <1>9, <1>10, <1>11, <1>12, <1>13 DEF FinanceActions

-----------------------------------------------------------------------------
(* The rounds of a finance question *)

\* What the caller kept of each reply is nothing, or one of those the schema allows.
TypedReplies == \A s \in DOMAIN replies : replies[s] = NoReply \/ replies[s] \in RepliesTo(s, asked[s])

\* A reply that was kept is one the schema of its question allows.
LEMMA ReplyKinds ==
  ASSUME TypedReplies, NEW s \in DOMAIN replies, replies[s].parsed
  PROVE  /\ s \in {"switch 1", "switch 2"} =>
              replies[s] \in [parsed : {TRUE}, action : {"line_item_price", "line_item_total"}]
         /\ s = "reextract" => replies[s] \in [parsed : {TRUE}, intent : Reintents]
         /\ s \in {"classify", "classify again"} => replies[s] \in Verdicts /\ Contract(replies[s])
         /\ s \in SubsetStages => replies[s] \in Subsets(Len(asked[s]))
<1>1. replies[s] # NoReply
  BY DEF NoReply
<1>2. replies[s] \in RepliesTo(s, asked[s])
  BY <1>1 DEF TypedReplies
<1>3. ASSUME s \in {"switch 1", "switch 2"}
      PROVE  replies[s] \in [parsed : {TRUE}, action : {"line_item_price", "line_item_total"}]
  BY <1>2, <1>3 DEF RepliesTo, SubsetStages
<1>4. ASSUME s = "reextract"
      PROVE  replies[s] \in [parsed : {TRUE}, intent : Reintents]
  BY <1>2, <1>4 DEF RepliesTo, SubsetStages
<1>5. ASSUME s \in {"classify", "classify again"}
      PROVE  replies[s] \in Verdicts /\ Contract(replies[s])
  BY <1>2, <1>5 DEF RepliesTo, SubsetStages
<1>6. ASSUME s \in SubsetStages
      PROVE  replies[s] \in Subsets(Len(asked[s]))
  BY <1>2, <1>6 DEF RepliesTo, SubsetStages
<1> QED
  BY <1>3, <1>4, <1>5, <1>6

\* A round asks one of its two questions, or finds what an amount of its intent is of.
RoundTurn(turn, intent, switch, anchor) ==
  \/ turn = Ask(switch, <<>>, TaskText) /\ switch \notin DOMAIN replies
  \/ \E shown : turn = Ask(anchor, shown, TaskText) /\ anchor \notin DOMAIN replies
  \/ \E path, found : /\ turn = [turn |-> "queried", anchor |-> path, found |-> found]
                      /\ \A f \in found :
                            /\ Backed(w.records, f)
                            /\ intent.action = "counterparty_total" => OneOfParty(w.records, f.of)

LEMMA EnrichedKeeps ==
  ASSUME NEW i, IsIntent(i), NEW anchor, NEW records
  PROVE  Enriched(i, anchor, records).action = i.action
BY DEF Enriched, IsIntent

LEMMA SettledIntent ==
  ASSUME NEW i, IsIntent(i), NEW stage \in {"switch 1", "switch 2"}, TypedReplies, NEW records,
         Switchable(records, i) => stage \in DOMAIN replies
  PROVE  LET settled == Settled(i, Switchable(records, i), stage, replies)
         IN IsIntent(settled) /\ (i.action = "counterparty_total" => settled = i)
<1>1. CASE ~(Switchable(records, i) /\ replies[stage].parsed)
  BY <1>1 DEF Settled
<1>2. CASE Switchable(records, i) /\ replies[stage].parsed
  <2>1. i.action # "counterparty_total"
    BY <1>2 DEF Switchable
  <2>2. replies[stage] \in [parsed : {TRUE}, action : {"line_item_price", "line_item_total"}]
    BY <1>2, ReplyKinds
  <2>3. Settled(i, Switchable(records, i), stage, replies) = [i EXCEPT !.action = replies[stage].action]
    BY <1>2 DEF Settled
  <2>4. IsIntent([i EXCEPT !.action = replies[stage].action])
    BY <2>2 DEF IsIntent, FinanceActions
  <2> QED
    BY <2>1, <2>3, <2>4
<1> QED
  BY <1>1, <1>2

LEMMA RoundFacts ==
  ASSUME NEW intent, IsIntent(intent), IsList(w.records), NEW known,
         NEW switch \in {"switch 1", "switch 2"}, NEW anchor, TypedReplies
  PROVE  RoundTurn(Round(q, w.records, intent, known, <<switch, anchor>>, replies), intent, switch, anchor)
<1> DEFINE records == w.records
           i == Settled(intent, Switchable(records, intent), switch, replies)
           named == NamedInTask(q, records)
           candidates == AnchorCandidates(records, i)
           turn == Anchored(records, i, known, named, candidates, anchor, replies)
           round == Round(q, records, intent, known, <<switch, anchor>>, replies)
           Good(t) == RoundTurn(t, intent, switch, anchor)
<1>1. CASE Switchable(records, intent) /\ switch \notin DOMAIN replies
  <2>1. round = Ask(switch, <<>>, TaskText)
    BY <1>1 DEF Round
  <2> QED
    BY <1>1, <2>1 DEF RoundTurn
<1>2. CASE ~(Switchable(records, intent) /\ switch \notin DOMAIN replies)
  <2>1. IsIntent(i) /\ (intent.action = "counterparty_total" => i = intent)
    BY <1>2, SettledIntent
  <2>2. round = turn
    <3>1. round = The({Anchored(records, j, known, named, AnchorCandidates(records, j), anchor, replies) : j \in {i}})
      BY <1>2 DEF Round
    <3> HIDE DEF i, named
    <3>2. {Anchored(records, j, known, named, AnchorCandidates(records, j), anchor, replies) : j \in {i}} = {turn}
      OBVIOUS
    <3> QED
      BY <3>1, <3>2, TheOnly
  <2>3. ASSUME NEW path
        PROVE  Good(Queried(records, i, path))
    <3> DEFINE enriched == Enriched(i, path, records)
    <3>1. enriched.action = i.action /\ i.action \in FinanceActions
      BY <2>1, EnrichedKeeps DEF IsIntent
    <3>2. Queried(records, i, path) = [turn |-> "queried", anchor |-> path, found |-> Query(records, enriched)]
      <4>1. UNION {Query(records, e) : e \in {enriched}} = Query(records, enriched)
        OBVIOUS
      <4> QED
        BY <4>1 DEF Queried
    <3> HIDE DEF enriched
    <3>3. \A f \in Query(records, enriched) :
            Backed(records, f) /\ (enriched.action = "counterparty_total" => OneOfParty(records, f.of))
      BY <3>1, QueryBacked
    <3>4. intent.action = "counterparty_total" => enriched.action = "counterparty_total"
      BY <2>1, <3>1
    <3> HIDE DEF i
    <3> QED
      BY <3>2, <3>3, <3>4 DEF RoundTurn
  <2>4. \/ \E path : turn = Queried(records, i, path)
        \/ turn = Ask(anchor, candidates, TaskText) /\ anchor \notin DOMAIN replies
    <3> HIDE DEF i, named, candidates
    <3> QED
      BY DEF Anchored
  <2>5. CASE turn = Ask(anchor, candidates, TaskText) /\ anchor \notin DOMAIN replies
    <3> HIDE DEF turn, round, candidates
    <3>1. Good(round)
      BY <2>2, <2>5 DEF RoundTurn
    <3> QED
      BY <3>1 DEF round
  <2>6. CASE \E path : turn = Queried(records, i, path)
    <3> HIDE DEF turn, round, i, Good
    <3>1. Good(round)
      BY <2>2, <2>3, <2>6
    <3> QED
      BY <3>1 DEF Good, round
  <2> QED
    BY <2>4, <2>5, <2>6
<1> QED
  BY <1>1, <1>2

FirstRound == Round(q, w.records, q.intent, q.intent.path, <<"switch 1", "anchor 1">>, replies)
FoundNothing == FirstRound.turn # "ask" /\ FirstRound.found = {}
Intended == IF "reextract" \in DOMAIN replies /\ replies["reextract"].parsed
            THEN replies["reextract"].intent ELSE q.intent

FinanceTurn(turn) ==
  \/ turn = Clarify
  \/ "fallback" \in DOMAIN replies /\ (turn = Blocked \/ \E refs : turn = Answer("done", {}, {}, refs))
  \/ \E stage \in StageNames \ DOMAIN replies : \E shown :
        /\ turn = Ask(stage, shown, TaskText)
        /\ stage \in {"switch 1", "anchor 1"} => FirstRound.turn = "ask"
        /\ stage = "reextract" => FoundNothing
  \/ \E found : /\ turn = Resolved(found) /\ Backed(w.records, found)
                /\ Intended.action = "counterparty_total" => OneOfParty(w.records, found.of)

LEMMA LastResortTurn == FinanceTurn(LastResort(w.records, replies))
<1>1. FinanceTurn(Clarify)
  BY DEF FinanceTurn
<1>2. CASE w.records = <<>>
  BY <1>1, <1>2 DEF LastResort
<1>3. CASE w.records # <<>> /\ "fallback" \notin DOMAIN replies
  <2>1. LastResort(w.records, replies) = Ask("fallback", Listed(w.records, FallbackLimit), TaskText)
    BY <1>3 DEF LastResort
  <2>2. "fallback" \in StageNames \ DOMAIN replies
    BY <1>3 DEF StageNames
  <2> QED
    BY <2>1, <2>2 DEF FinanceTurn
<1>4. CASE w.records # <<>> /\ "fallback" \in DOMAIN replies
  <2> DEFINE reply == replies["fallback"]
  <2>1. LastResort(w.records, replies) = Fallback(w.records, reply)
    BY <1>4 DEF LastResort
  <2> HIDE DEF reply
  <2>2. Fallback(w.records, reply) \in {Clarify, Blocked, Answer("done", {}, {}, reply.refs)}
    BY DEF Fallback
  <2> QED
    BY <1>1, <1>4, <2>1, <2>2 DEF FinanceTurn
<1> QED
  BY <1>2, <1>3, <1>4

LEMMA RoundEnds ==
  ASSUME NEW turn, NEW intent, NEW switch, NEW anchor, RoundTurn(turn, intent, switch, anchor)
  PROVE  /\ turn.turn = "ask" => \E shown :
                                   \/ turn = Ask(switch, shown, TaskText) /\ switch \notin DOMAIN replies
                                   \/ turn = Ask(anchor, shown, TaskText) /\ anchor \notin DOMAIN replies
         /\ turn.turn # "ask" => \A f \in turn.found :
                                   /\ Backed(w.records, f)
                                   /\ intent.action = "counterparty_total" => OneOfParty(w.records, f.of)
<1>1. CASE turn = Ask(switch, <<>>, TaskText) /\ switch \notin DOMAIN replies
  <2>1. turn.turn = "ask"
    BY <1>1 DEF Ask
  <2> QED
    BY <1>1, <2>1
<1>2. CASE \E shown : turn = Ask(anchor, shown, TaskText) /\ anchor \notin DOMAIN replies
  <2>1. turn.turn = "ask"
    BY <1>2 DEF Ask
  <2> QED
    BY <1>2, <2>1
<1>3. CASE \E path, found : /\ turn = [turn |-> "queried", anchor |-> path, found |-> found]
                           /\ \A f \in found :
                                 /\ Backed(w.records, f)
                                 /\ intent.action = "counterparty_total" => OneOfParty(w.records, f.of)
  <2>1. PICK path, found : /\ turn = [turn |-> "queried", anchor |-> path, found |-> found]
                           /\ \A f \in found :
                                 /\ Backed(w.records, f)
                                 /\ intent.action = "counterparty_total" => OneOfParty(w.records, f.of)
    BY <1>3
  <2>2. turn.turn = "queried" /\ turn.found = found
    BY <2>1
  <2> QED
    BY <2>1, <2>2
<1> QED
  BY <1>1, <1>2, <1>3 DEF RoundTurn

LEMMA FinanceStepFacts ==
  ASSUME IsIntent(q.intent), \A i \in Reintents : IsIntent(i), IsList(w.records), TypedReplies,
         "reextract" \in DOMAIN replies => FoundNothing
  PROVE  FinanceTurn(FinanceStep(q, w.records, replies))
<1> DEFINE records == w.records
           turn == FinanceStep(q, records, replies)
           intent == replies["reextract"].intent
           second == Round(q, records, intent, FirstRound.anchor, <<"switch 2", "anchor 2">>, replies)
<1> SUFFICES FinanceTurn(turn)
  OBVIOUS
<1>1. turn = AfterFirst(q, records, FirstRound, replies)
  <2>1. turn = The({AfterFirst(q, records, first, replies) : first \in {FirstRound}})
    BY DEF FinanceStep, FirstRound
  <2>2. {AfterFirst(q, records, first, replies) : first \in {FirstRound}} = {AfterFirst(q, records, FirstRound, replies)}
    OBVIOUS
  <2> QED
    BY <2>1, <2>2, TheOnly
<1> HIDE DEF turn
<1>2. RoundTurn(FirstRound, q.intent, "switch 1", "anchor 1")
  BY RoundFacts DEF FirstRound
<1>3. \A stage \in {"switch 1", "anchor 1", "switch 2", "anchor 2", "reextract"} : stage \in StageNames
  BY DEF StageNames, PickStages
<1>4. CASE FirstRound.turn = "ask"
  <2>1. turn = FirstRound
    BY <1>1, <1>4 DEF AfterFirst
  <2>2. PICK shown : \/ FirstRound = Ask("switch 1", shown, TaskText) /\ "switch 1" \notin DOMAIN replies
                     \/ FirstRound = Ask("anchor 1", shown, TaskText) /\ "anchor 1" \notin DOMAIN replies
    BY <1>2, <1>4, RoundEnds
  <2> QED
    BY <1>3, <1>4, <2>1, <2>2 DEF FinanceTurn
<1>5. CASE FirstRound.turn # "ask" /\ FirstRound.found # {}
  <2>1. turn = Resolved(The(FirstRound.found))
    BY <1>1, <1>5 DEF AfterFirst
  <2> DEFINE found == The(FirstRound.found)
  <2>2. found \in FirstRound.found
    BY <1>5 DEF The
  <2> HIDE DEF found
  <2>3. Backed(w.records, found) /\ (q.intent.action = "counterparty_total" => OneOfParty(w.records, found.of))
    BY <1>2, <1>5, <2>2, RoundEnds
  <2>4. Intended = q.intent
    BY <1>5 DEF Intended, FoundNothing
  <2> QED
    BY <2>1, <2>3, <2>4 DEF FinanceTurn, found
<1>6. CASE FoundNothing /\ "reextract" \notin DOMAIN replies
  <2>1. turn = Ask("reextract", <<>>, TaskText)
    BY <1>1, <1>6 DEF AfterFirst, FoundNothing
  <2> QED
    BY <1>3, <1>6, <2>1 DEF FinanceTurn
<1>7. CASE FoundNothing /\ "reextract" \in DOMAIN replies /\ ~replies["reextract"].parsed
  <2>1. turn = LastResort(records, replies)
    BY <1>1, <1>7 DEF AfterFirst, FoundNothing
  <2> QED
    BY <2>1, LastResortTurn
<1>8. CASE FoundNothing /\ "reextract" \in DOMAIN replies /\ replies["reextract"].parsed
  <2>1. IsIntent(intent)
    BY <1>8, ReplyKinds
  <2>2. RoundTurn(second, intent, "switch 2", "anchor 2")
    BY <2>1, RoundFacts
  <2>3. turn = AfterSecond(records, second, replies)
    <3>1. turn = The({AfterSecond(records, s, replies) : s \in {second}})
      BY <1>1, <1>8 DEF AfterFirst, FoundNothing
    <3> HIDE DEF second
    <3>2. {AfterSecond(records, s, replies) : s \in {second}} = {AfterSecond(records, second, replies)}
      OBVIOUS
    <3> QED
      BY <3>1, <3>2, TheOnly
  <2> HIDE DEF second
  <2>4. CASE second.turn = "ask"
    <3>1. turn = second
      BY <2>3, <2>4 DEF AfterSecond
    <3>2. PICK shown : \/ second = Ask("switch 2", shown, TaskText) /\ "switch 2" \notin DOMAIN replies
                       \/ second = Ask("anchor 2", shown, TaskText) /\ "anchor 2" \notin DOMAIN replies
      BY <2>2, <2>4, RoundEnds
    <3> QED
      BY <1>3, <3>1, <3>2 DEF FinanceTurn
  <2>5. CASE second.turn # "ask" /\ second.found # {}
    <3>1. turn = Resolved(The(second.found))
      BY <2>3, <2>5 DEF AfterSecond
    <3> DEFINE found == The(second.found)
    <3>2. found \in second.found
      BY <2>5 DEF The
    <3> HIDE DEF found
    <3>3. Backed(w.records, found) /\ (intent.action = "counterparty_total" => OneOfParty(w.records, found.of))
      BY <2>2, <2>5, <3>2, RoundEnds
    <3>4. Intended = intent
      BY <1>8 DEF Intended
    <3> QED
      BY <3>1, <3>3, <3>4 DEF FinanceTurn, found
  <2>6. CASE second.turn # "ask" /\ second.found = {}
    <3>1. turn = LastResort(records, replies)
      BY <2>3, <2>6 DEF AfterSecond
    <3> QED
      BY <3>1, LastResortTurn
  <2> QED
    BY <2>4, <2>5, <2>6
<1> QED
  BY <1>4, <1>5, <1>6, <1>7, <1>8 DEF FoundNothing

\* What the first round says depends on the replies to its own two questions alone.
LEMMA FirstRoundLocal ==
  ASSUME UNCHANGED <<q, workspace>>,
         \A s \in {"switch 1", "anchor 1"} : /\ s \in DOMAIN replies' <=> s \in DOMAIN replies
                                             /\ s \in DOMAIN replies' => replies'[s] = replies[s]
  PROVE  FirstRound' = FirstRound
<1> DEFINE records == w.records
           intent == q.intent
           known == q.intent.path
           switches == Switchable(records, intent)
           named == NamedInTask(q, records)
           Settle(h) == Settled(intent, switches, "switch 1", h)
           On(i, h) == Anchored(records, i, known, named, AnchorCandidates(records, i), "anchor 1", h)
           First(h) == IF switches /\ "switch 1" \notin DOMAIN h
                       THEN Ask("switch 1", <<>>, TaskText)
                       ELSE The({On(i, h) : i \in {Settle(h)}})
<1>1. FirstRound = First(replies) /\ FirstRound' = First(replies')
  <2>1. w' = w
    BY DEF w
  <2>2. FirstRound' = Round(q, w.records, q.intent, q.intent.path, <<"switch 1", "anchor 1">>, replies')
    BY <2>1 DEF FirstRound
  <2> QED
    BY <2>2 DEF FirstRound, Round
<1>2. "switch 1" \in DOMAIN replies' <=> "switch 1" \in DOMAIN replies
  OBVIOUS
<1>3. switches /\ "switch 1" \in DOMAIN replies => Settle(replies') = Settle(replies)
  <2> HIDE DEF switches, intent
  <2> QED
    BY DEF Settled
<1>4. ASSUME NEW i
      PROVE  On(i, replies') = On(i, replies)
  <2> DEFINE candidates == AnchorCandidates(records, i)
             PickedIn(h) == IF "anchor 1" \in DOMAIN h THEN Picked(candidates, h["anchor 1"], Confident) ELSE {}
  <2>1. PickedIn(replies') = PickedIn(replies)
    <3> HIDE DEF candidates
    <3> QED
      OBVIOUS
  <2>2. "anchor 1" \in DOMAIN replies' <=> "anchor 1" \in DOMAIN replies
    OBVIOUS
  <2> HIDE DEF candidates, named, known, records
  <2>3. \A h : Anchored(records, i, known, named, candidates, "anchor 1", h) =
          CASE known # <<>> -> Queried(records, i, known)
            [] known = <<>> /\ named # {} -> Queried(records, i, The(named).path)
            [] known = <<>> /\ named = {} /\ candidates # <<>> /\ "anchor 1" \notin DOMAIN h ->
                  Ask("anchor 1", candidates, TaskText)
            [] OTHER -> Queried(records, i, IF PickedIn(h) # {} THEN The(PickedIn(h)).path ELSE <<>>)
    BY DEF Anchored
  <2> HIDE DEF PickedIn
  <2> QED
    BY <2>1, <2>2, <2>3 DEF candidates
<1> HIDE DEF switches, On, Settle
<1>5. ~switches => Settle(replies') = Settle(replies)
  <2>1. \A h : ~switches => Settle(h) = intent
    <3> HIDE DEF intent
    <3> QED
      BY DEF Settle, Settled
  <2> QED
    BY <2>1
<1>6. First(replies') = First(replies)
  <2>1. CASE switches /\ "switch 1" \notin DOMAIN replies
    BY <1>2, <2>1
  <2>2. CASE ~(switches /\ "switch 1" \notin DOMAIN replies)
    <3> DEFINE settled == Settle(replies)
    <3>1. Settle(replies') = settled
      BY <1>3, <1>5, <2>2
    <3>2. {On(i, replies') : i \in {settled}} = {On(i, replies) : i \in {settled}}
      <4> HIDE DEF settled
      <4> QED
        BY <1>4
    <3> HIDE DEF settled
    <3> QED
      BY <1>2, <2>2, <3>1, <3>2 DEF settled
  <2> QED
    BY <2>1, <2>2
<1> HIDE DEF First
<1> QED
  BY <1>1, <1>6

-----------------------------------------------------------------------------
(* The plans for an inbox item *)

\* A list made place by place.
LEMMA Lists ==
  ASSUME NEW n \in Nat, NEW f, DOMAIN f = 1 .. n, f = [k \in 1 .. n |-> f[k]]
  PROVE  f \in Seq(Range(f)) /\ Len(f) = n
<1>1. \A k \in 1 .. n : f[k] \in Range(f)
  BY DEF Range
<1>2. f \in [1 .. n -> Range(f)]
  BY <1>1
<1> QED
  BY <1>2

LEMMA RangeOf ==
  ASSUME NEW X, NEW s \in Seq(X)
  PROVE  Range(s) \subseteq X /\ s \in Seq(Range(s)) /\ (s # <<>> => Len(s) > 0)
BY DEF Range

\* What is kept of a list whose records differ has the record of a set of one just once.
LEMMA KeptOnce ==
  ASSUME NEW X, NEW s \in Seq(X), \A a, b \in 1 .. Len(s) : s[a] = s[b] => a = b, NEW S
  PROVE  /\ Kept(s, S) \in Seq(X)
         /\ \A a, b \in 1 .. Len(Kept(s, S)) : Kept(s, S)[a] = Kept(s, S)[b] => a = b
         /\ \A r : S = {r} => Len(Kept(s, S)) <= 1
<1> DEFINE k == Kept(s, S)
<1>1. k \in Seq(X)
  BY KeptInOrder
<1>2. PICK at \in [1 .. Len(k) -> 1 .. Len(s)] :
        /\ \A j \in 1 .. Len(k) : k[j] = s[at[j]] /\ s[at[j]] \in S
        /\ \A i, j \in 1 .. Len(k) : i < j => at[i] < at[j]
  BY KeptInOrder
<1> HIDE DEF k
<1>3. ASSUME NEW a \in 1 .. Len(k), NEW b \in 1 .. Len(k), k[a] = k[b], a < b
      PROVE  FALSE
  <2>1. s[at[a]] = s[at[b]] /\ at[a] \in 1 .. Len(s) /\ at[b] \in 1 .. Len(s)
    BY <1>2, <1>3
  <2>2. at[a] = at[b]
    BY <2>1
  <2>3. at[a] < at[b]
    BY <1>2, <1>3
  <2> QED
    BY <2>1, <2>2, <2>3
<1>4. \A a, b \in 1 .. Len(k) : k[a] = k[b] => a = b
  <2>1. \A a, b \in 1 .. Len(k) : a < b \/ b < a \/ a = b
    BY <1>1
  <2> QED
    BY <1>3, <2>1
<1>5. ASSUME NEW r, S = {r}, ~(Len(k) <= 1)
      PROVE  FALSE
  <2>1. 1 \in 1 .. Len(k) /\ 2 \in 1 .. Len(k)
    BY <1>1, <1>5
  <2>2. k[1] \in S /\ k[2] \in S
    BY <1>2, <2>1
  <2>3. k[1] = k[2]
    BY <1>5, <2>2
  <2> QED
    BY <1>4, <2>1, <2>3
<1> QED
  BY <1>1, <1>4, <1>5 DEF k

LEMMA InvoicesDiffer ==
  ASSUME IsList(w.records), \A r, s \in DOMAIN w.records : w.records[r].path = w.records[s].path => r = s
  PROVE  /\ Invoices(w) \in Seq(Range(w.records))
         /\ \A a, b \in 1 .. Len(Invoices(w)) : Invoices(w)[a] = Invoices(w)[b] => a = b
<1>1. w.records \in Seq(Range(w.records)) /\ DOMAIN w.records = 1 .. Len(w.records)
  BY ListFacts DEF IsList
<1>2. \A a, b \in 1 .. Len(w.records) : w.records[a] = w.records[b] => a = b
  BY <1>1
<1> DEFINE S == {r \in Range(w.records) : r.type = "invoice"}
<1>3. Invoices(w) = Kept(w.records, S)
  BY DEF Invoices
<1> HIDE DEF S
<1> QED
  BY <1>1, <1>2, <1>3, KeptOnce

\* Where places are ordered by a number and then by themselves, each rank is taken.
LEMMA RanksTaken ==
  ASSUME NEW n \in Nat, NEW day \in [1 .. n -> Int], NEW k \in 1 .. n
  PROVE  \E j \in 1 .. n :
           Cardinality({i \in 1 .. n : day[i] < day[j] \/ (~(day[j] < day[i]) /\ i < j)}) = k - 1
<1> DEFINE N == 1 .. n
           Before(j) == {i \in N : day[i] < day[j] \/ (~(day[j] < day[i]) /\ i < j)}
           rank == [j \in N |-> Cardinality(Before(j))]
<1>1. IsFiniteSet(N) /\ Cardinality(N) = n /\ IsFiniteSet(0 .. n - 1) /\ Cardinality(0 .. n - 1) = n
  BY FS_Interval
<1>2. ASSUME NEW j \in N
      PROVE  IsFiniteSet(Before(j)) /\ Cardinality(Before(j)) \in 0 .. n - 1
  <2>1. Before(j) \in SUBSET N /\ j \notin Before(j)
    OBVIOUS
  <2> HIDE DEF Before, N
  <2>2. IsFiniteSet(Before(j)) /\ Cardinality(Before(j)) <= n /\ Cardinality(Before(j)) # n
    BY <1>1, <1>2, <2>1, FS_Subset
  <2>3. Cardinality(Before(j)) \in Nat
    BY <2>2, FS_CardinalityType
  <2> QED
    BY <2>2, <2>3
<1>3. ASSUME NEW i \in N, NEW j \in N, i \in Before(j)
      PROVE  Cardinality(Before(i)) # Cardinality(Before(j))
  <2>1. Before(i) \in SUBSET Before(j) /\ i \notin Before(i)
    BY <1>3
  <2> HIDE DEF Before
  <2> QED
    BY <1>2, <1>3, <2>1, FS_Subset
<1>4. \A i, j \in N : i # j => i \in Before(j) \/ j \in Before(i)
  OBVIOUS
<1>5. rank \in Injection(N, 0 .. n - 1)
  <2> HIDE DEF Before, N
  <2> QED
    BY <1>2, <1>3, <1>4 DEF Injection, IsInjective
<1>6. rank \in Surjection(N, 0 .. n - 1)
  <2> HIDE DEF rank, N
  <2> QED
    BY <1>1, <1>5, FS_Injection
<1>7. k - 1 \in 0 .. n - 1
  OBVIOUS
<1>8. \E j \in N : rank[j] = k - 1
  <2> HIDE DEF rank, N
  <2> QED
    BY <1>6, <1>7 DEF Surjection
<1> QED
  BY <1>8

\* What is ordered by date is what it was made of.
LEMMA DatedMembers ==
  ASSUME IsList(w.records), \A r \in DOMAIN w.records : w.records[r].date \in Int, NEW S
  PROVE  Range(ByDate(w.records, S)) \subseteq S \intersect Range(w.records)
<1> DEFINE kept == Kept(w.records, S)
           n == Len(kept)
           day == [j \in 1 .. n |-> kept[j].date]
           Dated(i, j) == Earlier(kept[i], kept[j]) \/ (~Earlier(kept[j], kept[i]) /\ i < j)
           Is(j, k) == Cardinality({i \in 1 .. n : Dated(i, j)}) = k - 1
<1>1. /\ w.records \in Seq(Range(w.records)) /\ DOMAIN w.records = 1 .. Len(w.records)
      /\ kept \in Seq(Range(w.records))
      /\ \A j \in 1 .. n : kept[j] \in S /\ \E k \in 1 .. Len(w.records) : w.records[k] = kept[j]
  <2>1. w.records \in Seq(Range(w.records)) /\ DOMAIN w.records = 1 .. Len(w.records)
    BY ListFacts DEF IsList
  <2> QED
    BY <2>1, KeptMembers
<1> HIDE DEF kept
<1>2. n \in Nat /\ \A j \in 1 .. n : kept[j] \in S \intersect Range(w.records) /\ kept[j].date \in Int
  <2>1. n \in Nat
    BY <1>1
  <2>2. ASSUME NEW j \in 1 .. n
        PROVE  kept[j] \in S \intersect Range(w.records) /\ kept[j].date \in Int
    <3>1. PICK k \in DOMAIN w.records : w.records[k] = kept[j]
      BY <1>1
    <3>2. w.records[k] \in Range(w.records)
      BY DEF Range
    <3> QED
      BY <1>1, <3>1, <3>2
  <2> QED
    BY <2>1, <2>2
<1>3. ByDate(w.records, S) = [k \in 1 .. n |-> kept[CHOOSE j \in 1 .. n : Is(j, k)]]
  BY Zenon DEF ByDate, Sorted, kept
<1> HIDE DEF n
<1>4. ASSUME NEW k \in 1 .. n
      PROVE  \E j \in 1 .. n : Is(j, k)
  <2>1. day \in [1 .. n -> Int]
    BY <1>2
  <2>2. \A i, j \in 1 .. n : Dated(i, j) <=> day[i] < day[j] \/ (~(day[j] < day[i]) /\ i < j)
    BY DEF Earlier
  <2> HIDE DEF day, Dated
  <2>3. \A j \in 1 .. n : {i \in 1 .. n : Dated(i, j)}
                          = {i \in 1 .. n : day[i] < day[j] \/ (~(day[j] < day[i]) /\ i < j)}
    BY <2>2
  <2>4. PICK j \in 1 .. n :
           Cardinality({i \in 1 .. n : day[i] < day[j] \/ (~(day[j] < day[i]) /\ i < j)}) = k - 1
    BY <1>2, <2>1, RanksTaken
  <2> QED
    BY <2>3, <2>4
<1> HIDE DEF Is
<1>5. \A k \in 1 .. n : (CHOOSE j \in 1 .. n : Is(j, k)) \in 1 .. n
  BY <1>4
<1> QED
  BY <1>2, <1>3, <1>5 DEF Range

\* What is ordered is as long as what it was made of.
LEMMA OrderedLists ==
  ASSUME IsList(w.records), NEW S, NEW picked, picked \in Seq(Range(picked))
  PROVE  /\ ByDate(w.records, S) \in Seq(Range(ByDate(w.records, S)))
         /\ Len(ByDate(w.records, S)) = Len(Kept(w.records, S))
         /\ Ordered(w.records, picked) \in Seq(Range(Ordered(w.records, picked)))
<1>1. Kept(w.records, S) \in Seq(Range(w.records))
  BY KeptMembers DEF IsList
<1> DEFINE n == Len(Kept(w.records, S))
           m == Len(picked)
<1>2. n \in Nat /\ m \in Nat
  BY <1>1
<1> DEFINE kept == Kept(w.records, S)
           Before(r, s) == \E a, b \in DOMAIN w.records :
             /\ w.records[a] = r /\ w.records[b] = s
             /\ \/ Earlier(r, s)
                \/ r.date = s.date /\ a < b
           Dated(i, j) == Earlier(kept[i], kept[j]) \/ (~Earlier(kept[j], kept[i]) /\ i < j)
           Placed(i, j) == Before(picked[i], picked[j]) \/ (~Before(picked[j], picked[i]) /\ i < j)
           AtDate(k) == kept[CHOOSE j \in 1 .. n : Cardinality({i \in 1 .. n : Dated(i, j)}) = k - 1]
           AtPlace(k) == picked[CHOOSE j \in 1 .. m : Cardinality({i \in 1 .. m : Placed(i, j)}) = k - 1]
<1>3. ByDate(w.records, S) = [k \in 1 .. n |-> AtDate(k)]
  BY Zenon DEF ByDate, Sorted
<1>4. Ordered(w.records, picked) = [k \in 1 .. m |-> AtPlace(k)]
  BY Zenon DEF Ordered, Sorted
<1> HIDE DEF AtDate, AtPlace, n, m
<1>5. /\ DOMAIN ByDate(w.records, S) = 1 .. n
      /\ ByDate(w.records, S) = [k \in 1 .. n |-> ByDate(w.records, S)[k]]
  BY <1>3
<1>6. /\ DOMAIN Ordered(w.records, picked) = 1 .. m
      /\ Ordered(w.records, picked) = [k \in 1 .. m |-> Ordered(w.records, picked)[k]]
  BY <1>4
<1>7. Len(ByDate(w.records, S)) = n /\ ByDate(w.records, S) \in Seq(Range(ByDate(w.records, S)))
  BY <1>2, <1>5, Lists
<1>8. Ordered(w.records, picked) \in Seq(Range(Ordered(w.records, picked)))
  BY <1>2, <1>6, Lists
<1> QED
  BY <1>7, <1>8 DEF n

\* The indices of a selection.
LEMMA IndicesOfReply ==
  ASSUME TypedReplies, NEW s \in DOMAIN replies, s \in SubsetStages, replies[s].parsed
  PROVE  replies[s].indices \in Seq(Nat)
<1> DEFINE n == Len(asked[s])
<1>1. replies[s] \in Subsets(n)
  BY ReplyKinds
<1> HIDE DEF n
<1>2. ASSUME NEW k \in 0 .. MostSelected, NEW f \in [1 .. k -> 1 .. n + 1]
      PROVE  f \in Seq(Nat)
  <2>1. \A j \in 1 .. k : f[j] \in Nat
    OBVIOUS
  <2>2. f \in [1 .. k -> Nat] /\ k \in Nat
    BY <2>1, StepAssumption
  <2> QED
    BY <2>2
<1>3. CASE replies[s] \in [parsed : {TRUE}, confidence : {"high"}, indices : UNION {[1 .. k -> 1 .. n + 1] : k \in 0 .. MostSelected}]
  <2>1. replies[s].indices \in UNION {[1 .. k -> 1 .. n + 1] : k \in 0 .. MostSelected}
    BY <1>3
  <2>2. PICK k \in 0 .. MostSelected : replies[s].indices \in [1 .. k -> 1 .. n + 1]
    BY <2>1
  <2> QED
    BY <1>2, <2>2
<1>4. CASE replies[s] \in [parsed : {TRUE}, confidence : {"low"}, indices : {<<1>>}]
  <2>1. replies[s].indices = <<1>>
    BY <1>4
  <2> QED
    BY <2>1
<1> QED
  BY <1>1, <1>3, <1>4 DEF Subsets

LEMMA SelectionOf ==
  ASSUME TypedReplies, NEW s \in SubsetStages, s \in DOMAIN replies, NEW list, IsList(list), NEW accepted
  PROVE  PickedSome(list, replies[s], accepted) \in Seq(Range(list))
BY IndicesOfReply, PickedSomeFacts

\* A workspace whose records are listed, are different records, and have days.
RecordsDiffer ==
  /\ IsList(w.records) /\ \A r, s \in DOMAIN w.records : w.records[r].path = w.records[s].path => r = s
  /\ \A r \in DOMAIN w.records : w.records[r].date \in Int

Asks(turn) == \E stage \in StageNames \ DOMAIN replies : \E shown, text : turn = Ask(stage, shown, text)

\* What the sender may have attached to an answer.
MayAttach(attachments) ==
  /\ attachments # <<>>
  /\ SelfAddressed(q.item) \/ \E e \in Range(w.cast) :
        /\ e.email = q.item.sender /\ Len(attachments) = 1
        /\ e.person \/ \A f \in Range(w.cast) : f.email = e.email => f = e
        /\ LinkedTo(attachments[1], e)

DraftTurn(turn) ==
  \/ turn = Clarify \/ Asks(turn)
  \/ \E attachments : turn = Draft(w, q.item, q.item.sender, attachments) /\ MayAttach(attachments)

LEMMA SenderIsOne ==
  ASSUME CanonicalSender(w, q.item) # {}
  PROVE  LET e == The(CanonicalSender(w, q.item))
         IN /\ e \in Range(w.cast) /\ e.email = q.item.sender
            /\ e.person \/ \A f \in Range(w.cast) : f.email = e.email => f = e
<1> DEFINE mail == {e \in Range(w.cast) : q.item.sender # "" /\ e.email = q.item.sender}
           people == {e \in mail : e.person}
           sender == CanonicalSender(w, q.item)
<1>1. sender = IF Lone(mail) # {} THEN mail ELSE Lone(people)
  BY DEF CanonicalSender
<1>2. CASE Lone(mail) # {}
  <2>1. PICK e : e \in Lone(mail)
    BY <1>2
  <2>2. mail = {e}
    <3> HIDE DEF mail
    <3> QED
      BY <2>1 DEF Lone
  <2>3. The(sender) = e
    BY <1>1, <1>2, <2>2, TheOnly
  <2>4. e \in Range(w.cast) /\ e.email = q.item.sender /\ q.item.sender # ""
    BY <2>2
  <2>5. \A f \in Range(w.cast) : f.email = e.email => f = e
    BY <2>2, <2>4
  <2> HIDE DEF mail, sender
  <2> QED
    BY <2>3, <2>4, <2>5 DEF sender
<1>3. CASE Lone(mail) = {}
  <2>1. PICK e : e \in Lone(people)
    BY <1>1, <1>3
  <2>2. Lone(people) = {e} /\ e \in people
    <3> HIDE DEF people
    <3> QED
      BY <2>1 DEF Lone
  <2>3. The(sender) = e
    BY <1>1, <1>3, <2>2, TheOnly
  <2>4. e \in Range(w.cast) /\ e.email = q.item.sender /\ e.person
    BY <2>2
  <2> HIDE DEF people, sender
  <2> QED
    BY <2>3, <2>4 DEF sender
<1> QED
  BY <1>2, <1>3

LEMMA MatchesAreRecords ==
  ASSUME IsList(w.records), NEW request
  PROVE  ResendMatches(w, request) \subseteq Range(Invoices(w)) /\ Range(Invoices(w)) \subseteq Range(w.records)
<1>1. ResendMatches(w, request) \subseteq Range(Invoices(w))
  BY DEF ResendMatches
<1>2. Invoices(w) \in Seq(Range(w.records))
  BY KeptMembers DEF Invoices, IsList
<1> QED
  BY <1>1, <1>2, RangeOf

LEMMA OneOfSome ==
  ASSUME NEW X, NEW s \in Seq(X), Len(s) > 0
  PROVE  /\ Len(SubSeq(s, 1, 1)) = 1
         /\ Len(SubSeq(s, Len(s), Len(s))) = 1
OBVIOUS

LEMMA KeptSome ==
  ASSUME IsList(w.records), NEW S \in SUBSET Range(w.records), S # {}
  PROVE  Kept(w.records, S) \in Seq(Range(w.records)) /\ Len(Kept(w.records, S)) > 0
<1> DEFINE k == Kept(w.records, S)
<1>1. k \in Seq(Range(w.records)) /\ \A n \in 1 .. Len(w.records) : w.records[n] \in S => \E j \in 1 .. Len(k) : k[j] = w.records[n]
  BY KeptMembers DEF IsList
<1>2. PICK n \in DOMAIN w.records : w.records[n] \in S
  BY ListFacts
<1>3. n \in 1 .. Len(w.records)
  BY <1>2, ListFacts
<1> HIDE DEF k
<1>4. PICK j \in 1 .. Len(k) : TRUE
  BY <1>1, <1>2, <1>3
<1>5. Len(k) > 0
  BY <1>1, <1>4
<1> QED
  BY <1>1, <1>5 DEF k

LEMMA ResendSound ==
  ASSUME RecordsDiffer, TypedReplies, NEW request
  PROVE  DraftTurn(Resend(w, q.item, request, replies))
<1> DEFINE item == q.item
           sender == CanonicalSender(w, item)
           matches == ResendMatches(w, request)
           some == Hinted(matches, request.hint)
           hinted == IF some # {} THEN some ELSE matches
           shown == Kept(Invoices(w), hinted)
           asks == matches # {} /\ request.hint # "" /\ Lone(some) = {}
           picked == IF "hint" \in DOMAIN replies THEN PickedSome(shown, replies["hint"], AnyConfidence) ELSE <<>>
           ordered == ByDate(w.records, matches)
           selected == IF asks THEN (IF Len(picked) = 1 THEN picked ELSE <<>>)
                       ELSE IF request.hint # "" THEN shown
                       ELSE IF request.mode = "dated" THEN SubSeq(Kept(w.records, matches), 1, 1)
                       ELSE SubSeq(ordered, Len(ordered), Len(ordered))
           turn == Resend(w, item, request, replies)
<1> SUFFICES DraftTurn(turn)
  OBVIOUS
<1>1. turn = IF sender = {} /\ ~SelfAddressed(item) THEN RefusedPlan
             ELSE IF asks /\ "hint" \notin DOMAIN replies THEN Ask("hint", shown, request.hint)
             ELSE IF selected = <<>> \/ matches = {} THEN Clarify
             ELSE IF ~Authorized(item, sender, selected[1]) THEN RefusedPlan
             ELSE Draft(w, item, item.sender, selected)
  BY DEF Resend
<1>2. matches \subseteq Range(w.records)
  BY MatchesAreRecords DEF RecordsDiffer
<1>3. ASSUME matches # {}, selected # <<>>
      PROVE  Len(selected) = 1
  <2>1. CASE asks
    BY <1>3, <2>1
  <2>2. CASE ~asks /\ request.hint # ""
    <3>1. Lone(some) # {}
      BY <1>3, <2>2
    <3>2. PICK r : some = {r}
      <4> HIDE DEF some
      <4> QED
        BY <3>1 DEF Lone
    <3>3. hinted = {r}
      BY <3>2
    <3>4. /\ Invoices(w) \in Seq(Range(w.records))
          /\ \A a, b \in 1 .. Len(Invoices(w)) : Invoices(w)[a] = Invoices(w)[b] => a = b
      BY InvoicesDiffer DEF RecordsDiffer
    <3> HIDE DEF hinted
    <3>5. shown \in Seq(Range(w.records)) /\ Len(shown) <= 1
      BY <3>3, <3>4, KeptOnce
    <3>6. selected = shown
      BY <2>2
    <3> HIDE DEF shown, selected
    <3>7. shown # <<>>
      BY <1>3, <3>6
    <3>8. Len(shown) > 0 /\ Len(shown) \in Nat
      BY <3>5, <3>7, RangeOf
    <3> QED
      BY <3>5, <3>6, <3>8
  <2>3. CASE ~asks /\ request.hint = "" /\ request.mode = "dated"
    <3>1. Kept(w.records, matches) \in Seq(Range(w.records)) /\ Len(Kept(w.records, matches)) > 0
      BY <1>2, <1>3, KeptSome DEF RecordsDiffer
    <3>2. Len(SubSeq(Kept(w.records, matches), 1, 1)) = 1
      BY <3>1, OneOfSome
    <3> QED
      BY <2>3, <3>2
  <2>4. CASE ~asks /\ request.hint = "" /\ request.mode # "dated"
    <3>1. Len(Kept(w.records, matches)) > 0
      BY <1>2, <1>3, KeptSome DEF RecordsDiffer
    <3>2. <<>> \in Seq(Range(<<>>))
      OBVIOUS
    <3>3. ordered \in Seq(Range(ordered)) /\ Len(ordered) = Len(Kept(w.records, matches))
      BY <3>2, OrderedLists DEF RecordsDiffer
    <3>4. Len(SubSeq(ordered, Len(ordered), Len(ordered))) = 1
      <4> HIDE DEF ordered, matches
      <4> QED
        BY <3>1, <3>3, OneOfSome
    <3> QED
      BY <2>4, <3>4
  <2> QED
    BY <2>1, <2>2, <2>3, <2>4
<1> HIDE DEF matches, shown, asks, picked, selected, turn, item, sender
<1>4. CASE turn = Clarify
  BY <1>4 DEF DraftTurn
<1>5. CASE turn = Ask("hint", shown, request.hint) /\ "hint" \notin DOMAIN replies
  <2>1. "hint" \in StageNames
    BY DEF StageNames, SubsetStages
  <2> QED
    BY <1>5, <2>1 DEF DraftTurn, Asks
<1>6. CASE /\ ~(sender = {} /\ ~SelfAddressed(item)) /\ ~(selected = <<>> \/ matches = {})
           /\ Authorized(item, sender, selected[1]) /\ turn = Draft(w, item, item.sender, selected)
  <2>1. MayAttach(selected)
    <3>1. CASE SelfAddressed(item)
      BY <1>6, <3>1 DEF MayAttach, item
    <3>2. CASE ~SelfAddressed(item)
      <4> DEFINE e == The(sender)
      <4>1. /\ e \in Range(w.cast) /\ e.email = q.item.sender
            /\ e.person \/ \A f \in Range(w.cast) : f.email = e.email => f = e
        BY <1>6, <3>2, SenderIsOne DEF sender, item
      <4>2. LinkedTo(selected[1], e)
        BY <1>6, <3>2 DEF Authorized
      <4>3. Len(selected) = 1 /\ selected # <<>>
        BY <1>3, <1>6
      <4> HIDE DEF e
      <4> QED
        BY <4>1, <4>2, <4>3 DEF MayAttach
    <3> QED
      BY <3>1, <3>2
  <2> QED
    BY <1>6, <2>1 DEF DraftTurn, item
<1> QED
  BY <1>1, <1>4, <1>5, <1>6 DEF RefusedPlan

\* A search for an entity asks a question it has no reply to, or ends.
LEMMA EntityAsks ==
  ASSUME NEW request, Entity(w, request, replies).turn = "ask"
  PROVE  Asks(Entity(w, request, replies))
<1> DEFINE linked == LinkedEntities(w)
           every == <<<<"entity 1", linked>>, <<"entity 2", w.cast>>, <<"entity 3", linked>>, <<"entity 4", w.cast>>>>
           S == {s \in Range(every) : s[2] # <<>>}
           questions == Kept(every, S)
           Hit(n) == UNION {Reresolved(questions[n][2], e) : e \in Picked(questions[n][2], replies[questions[n][1]], AnyConfidence)}
           asked_ == {n \in DOMAIN questions : questions[n][1] \in DOMAIN replies}
           open == DOMAIN questions \ asked_
           hits == {n \in asked_ : Hit(n) # {}}
           exact == IF Identity(w.cast, request.text) # {} THEN Identity(w.cast, request.text)
                    ELSE Identity(linked, request.text)
           Of_(S_) == [turn |-> "found", entity |-> S_]
<1>1. Entity(w, request, replies) =
        IF exact # {} THEN Of_(exact)
        ELSE IF hits # {} THEN Of_(Hit(Min(hits)))
        ELSE IF asked_ # DOMAIN questions
        THEN Ask(questions[Min(open)][1], questions[Min(open)][2], request.text)
        ELSE Of_({})
  BY DEF Entity
<1>2. \A s \in Range(every) : s[1] \in PickStages
  <2>1. DOMAIN every = 1 .. 4
    OBVIOUS
  <2>2. /\ every[1][1] = "entity 1" /\ every[2][1] = "entity 2"
        /\ every[3][1] = "entity 3" /\ every[4][1] = "entity 4"
    OBVIOUS
  <2> HIDE DEF every
  <2> TAKE s \in Range(every)
  <2>3. PICK k \in 1 .. 4 : s = every[k]
    BY <2>1 DEF Range
  <2>4. k = 1 \/ k = 2 \/ k = 3 \/ k = 4
    OBVIOUS
  <2> QED
    BY <2>2, <2>3, <2>4 DEF PickStages
<1>3. /\ questions \in Seq(Range(every))
      /\ \A n \in DOMAIN questions : questions[n][1] \in PickStages
  <2>1. every \in Seq(Range(every))
    <3>1. every \in Seq({every[1], every[2], every[3], every[4]}) /\ DOMAIN every = 1 .. 4
      OBVIOUS
    <3> HIDE DEF every
    <3> QED
      BY <3>1, RangeOf
  <2> HIDE DEF every, S
  <2>2. questions \in Seq(Range(every))
    BY <2>1, KeptMembers
  <2> QED
    BY <1>2, <2>2
<1>4. open \subseteq DOMAIN questions /\ asked_ \subseteq DOMAIN questions
  OBVIOUS
<1>5. \A n \in open : questions[n][1] \notin DOMAIN replies
  OBVIOUS
<1>6. asked_ # DOMAIN questions => open # {}
  OBVIOUS
<1> HIDE DEF open, questions, exact, hits, asked_, Hit, every
<1>7. \A S_ : Of_(S_).turn = "found"
  OBVIOUS
<1> HIDE DEF Of_
<1>8. asked_ # DOMAIN questions /\ Entity(w, request, replies) = Ask(questions[Min(open)][1], questions[Min(open)][2], request.text)
  BY <1>1, <1>7
<1>9. Min(open) \in open
  <2>1. open \in SUBSET Nat /\ open # {}
    BY <1>3, <1>4, <1>6, <1>8
  <2>2. \E n \in open : \A m \in open : n <= m
    BY <2>1, LeastNumber
  <2> QED
    BY <2>2 DEF Min
<1>10. questions[Min(open)][1] \in StageNames \ DOMAIN replies
  BY <1>3, <1>4, <1>5, <1>9 DEF StageNames
<1> QED
  BY <1>8, <1>10 DEF Asks

LEMMA SliceSound ==
  ASSUME NEW X, NEW s \in Seq(X), NEW request, request.count \in Nat
  PROVE  Slice(s, request) \in Seq(X) /\ (Slice(s, request) # <<>> => Reverse(Slice(s, request)) # <<>>)
<1> DEFINE n == IF Len(s) < request.count THEN Len(s) ELSE request.count
           slice == Slice(s, request)
<1>1. n \in Nat /\ n <= Len(s) /\ Len(s) \in Nat
  OBVIOUS
<1>2. slice = IF request.mode = "latest" THEN SubSeq(s, Len(s) - n + 1, Len(s)) ELSE SubSeq(s, 1, n)
  BY DEF Slice
<1> HIDE DEF n, slice
<1>3. SubSeq(s, 1, n) \in Seq(X)
  BY <1>1
<1>4. SubSeq(s, Len(s) - n + 1, Len(s)) \in Seq(X)
  <2>1. Len(s) - n + 1 \in 1 .. Len(s) + 1
    BY <1>1
  <2> QED
    BY <1>1, <2>1
<1>5. slice \in Seq(X)
  BY <1>2, <1>3, <1>4
<1>6. ASSUME slice # <<>>
      PROVE  Reverse(slice) # <<>>
  <2>1. Len(slice) > 0
    BY <1>5, <1>6, RangeOf
  <2>2. DOMAIN Reverse(slice) = 1 .. Len(slice)
    BY DEF Reverse
  <2>3. 1 \in DOMAIN Reverse(slice)
    BY <1>5, <2>1, <2>2
  <2> QED
    BY <2>3
<1> QED
  BY <1>5, <1>6 DEF slice

LEMMA BundleSound ==
  ASSUME RecordsDiffer, TypedReplies, NEW request, request.count \in Nat
  PROVE  DraftTurn(Bundle(w, q.item, request, replies))
<1> DEFINE item == q.item
           entity == Entity(w, request, replies)
           linked == {r \in Range(Invoices(w)) : entity.entity # {} /\ LinkedTo(r, The(entity.entity))}
           some == PickedSome(Invoices(w), replies["records"], AnyConfidence)
           chosen == IF linked # {} THEN ByDate(w.records, linked)
                     ELSE IF "records" \in DOMAIN replies THEN Ordered(w.records, some) ELSE <<>>
           slice == Slice(chosen, request)
           attached == IF request.order = "chronological" THEN slice ELSE Reverse(slice)
           turn == Bundle(w, item, request, replies)
<1> SUFFICES DraftTurn(turn)
  OBVIOUS
<1>1. turn = IF ~SelfAddressed(item) THEN RefusedPlan
             ELSE IF entity.turn = "ask" THEN entity
             ELSE IF linked = {} /\ "records" \notin DOMAIN replies THEN Ask("records", Invoices(w), request.text)
             ELSE IF slice = <<>> THEN Clarify
             ELSE Draft(w, item, item.sender, attached)
  BY DEF Bundle
<1>2. ASSUME ~(linked = {} /\ "records" \notin DOMAIN replies)
      PROVE  \E X : chosen \in Seq(X)
  <2>1. CASE linked # {}
    <3>1. <<>> \in Seq(Range(<<>>))
      OBVIOUS
    <3>2. ByDate(w.records, linked) \in Seq(Range(ByDate(w.records, linked)))
      BY <3>1, OrderedLists DEF RecordsDiffer
    <3> HIDE DEF linked
    <3>3. chosen = ByDate(w.records, linked)
      BY <2>1
    <3> QED
      BY <3>2, <3>3
  <2>2. CASE linked = {}
    <3>1. "records" \in DOMAIN replies /\ "records" \in SubsetStages
      BY <1>2, <2>2 DEF SubsetStages
    <3>2. Invoices(w) \in Seq(Range(w.records))
      BY InvoicesDiffer DEF RecordsDiffer
    <3>3. IsList(Invoices(w))
      BY <3>2, RangeOf DEF IsList
    <3>4. some \in Seq(Range(Invoices(w)))
      BY <3>1, <3>3, SelectionOf
    <3> HIDE DEF linked, some
    <3>5. some \in Seq(Range(some))
      BY <3>4, RangeOf
    <3>6. Ordered(w.records, some) \in Seq(Range(Ordered(w.records, some)))
      BY <3>5, OrderedLists DEF RecordsDiffer
    <3>7. chosen = Ordered(w.records, some)
      BY <2>2, <3>1
    <3> QED
      BY <3>6, <3>7
  <2> QED
    BY <2>1, <2>2
<1> HIDE DEF linked, chosen, entity, turn, item
<1>3. CASE turn = Clarify
  BY <1>3 DEF DraftTurn
<1>4. CASE entity.turn = "ask" /\ turn = entity
  BY <1>4, EntityAsks DEF DraftTurn, entity
<1>5. CASE turn = Ask("records", Invoices(w), request.text) /\ "records" \notin DOMAIN replies
  <2>1. "records" \in StageNames
    BY DEF StageNames, SubsetStages
  <2> QED
    BY <1>5, <2>1 DEF DraftTurn, Asks
<1>6. CASE /\ SelfAddressed(item) /\ ~(linked = {} /\ "records" \notin DOMAIN replies)
           /\ slice # <<>> /\ turn = Draft(w, item, item.sender, attached)
  <2>1. Reverse(slice) # <<>>
    BY <1>2, <1>6, SliceSound
  <2> HIDE DEF slice
  <2>2. attached # <<>>
    BY <1>6, <2>1
  <2> HIDE DEF attached
  <2>3. MayAttach(attached)
    BY <1>6, <2>2 DEF MayAttach, item
  <2> QED
    BY <1>6, <2>3 DEF DraftTurn, item
<1> QED
  BY <1>1, <1>3, <1>4, <1>5, <1>6 DEF RefusedPlan

LEMMA InvoiceEmailSound ==
  ASSUME RecordsDiffer, TypedReplies, NEW request, request.kind \in {"resend", "bundle"}, request.count \in Nat
  PROVE  DraftTurn(InvoiceEmail(w, q.item, request, replies))
<1>1. CASE Invoices(w) = <<>>
  BY <1>1 DEF InvoiceEmail, DraftTurn
<1>2. CASE Invoices(w) # <<>> /\ request.kind = "resend"
  <2>1. InvoiceEmail(w, q.item, request, replies) = Resend(w, q.item, request, replies)
    BY <1>2 DEF InvoiceEmail
  <2> QED
    BY <2>1, ResendSound
<1>3. CASE Invoices(w) # <<>> /\ request.kind = "bundle"
  <2>1. InvoiceEmail(w, q.item, request, replies) = Bundle(w, q.item, request, replies)
    BY <1>3 DEF InvoiceEmail
  <2> QED
    BY <2>1, BundleSound
<1> QED
  BY <1>1, <1>2, <1>3

\* The payment of a record no other record has all the marks of.
PaymentTurn(turn, asks) ==
  \/ turn = Clarify
  \/ \E record : /\ turn = [turn |-> "answer", status |-> "payment", record |-> record]
                 /\ asks.evidence /\ record \in Range(w.records)
                 /\ \A r \in Range(w.records) \ {record} :
                      \/ asks.type \notin {"any", r.type} \/ asks.cp \notin {"", r.cp} \/ asks.ref \notin {"", r.ref}
                      \/ asks.date \notin {Absent, r.date} \/ asks.amount \notin {Absent, r.total}

LEMMA PaymentSound ==
  ASSUME NEW request
  PROVE  PaymentTurn(Payment(w, request), request)
<1> DEFINE fitting == {r \in Range(w.records) : /\ OfType(r, request.type) /\ request.cp \in {"", r.cp}
                                                /\ request.ref \in {"", r.ref} /\ request.date \in {Absent, r.date}
                                                /\ request.amount \in {Absent, r.total}}
<1>1. Payment(w, request) = IF Lone(fitting) = {} \/ ~request.evidence THEN Clarify
                            ELSE [turn |-> "answer", status |-> "payment", record |-> The(fitting)]
  BY DEF Payment
<1>2. CASE Lone(fitting) = {} \/ ~request.evidence
  BY <1>1, <1>2 DEF PaymentTurn
<1>3. CASE ~(Lone(fitting) = {} \/ ~request.evidence)
  <2> DEFINE record == The(fitting)
  <2>1. fitting = {record} /\ record \in fitting
    <3> HIDE DEF fitting
    <3> QED
      BY <1>3, LoneIsAll
  <2> HIDE DEF record
  <2>2. record \in Range(w.records)
    BY <2>1
  <2>3. \A r \in Range(w.records) \ {record} : r \notin fitting
    <3> HIDE DEF fitting
    <3> QED
      BY <2>1
  <2>4. \A r \in Range(w.records) \ {record} :
          \/ request.type \notin {"any", r.type} \/ request.cp \notin {"", r.cp} \/ request.ref \notin {"", r.ref}
          \/ request.date \notin {Absent, r.date} \/ request.amount \notin {Absent, r.total}
    BY <2>3 DEF OfType
  <2>5. Payment(w, request) = [turn |-> "answer", status |-> "payment", record |-> record]
    BY <1>1, <1>3 DEF record
  <2> HIDE DEF fitting
  <2> QED
    BY <1>3, <2>2, <2>4, <2>5 DEF PaymentTurn
<1> QED
  BY <1>2, <1>3

\* The documents written could be read, and are those the request may mean.
WriteTurn(turn, asks) ==
  \/ turn = Clarify \/ Asks(turn)
  \/ \E targets : /\ turn = [turn |-> "answer", status |-> "writes", targets |-> targets]
                  /\ Range(targets) \subseteq w.derivable
                  /\ MayBeWritten(asks, targets)

\* The domain of a sequence, and its length.
LEMMA Indices ==
  ASSUME NEW X, NEW s \in Seq(X)
  PROVE  DOMAIN s = 1 .. Len(s) /\ Len(s) \in Nat
<1> QED
  OBVIOUS

LEMMA IngestSound ==
  ASSUME NEW paths, NEW asks, MayBeWritten(asks, [n \in DOMAIN paths |-> Readable(w, paths[n])])
  PROVE  WriteTurn(Ingest(w, paths), asks)
<1> DEFINE targets == [n \in DOMAIN paths |-> Readable(w, paths[n])]
<1>1. Ingest(w, paths) = IF Range(targets) \subseteq w.derivable
                         THEN [turn |-> "answer", status |-> "writes", targets |-> targets] ELSE Clarify
  BY DEF Ingest
<1>2. MayBeWritten(asks, targets)
  OBVIOUS
<1> HIDE DEF targets
<1>3. CASE Range(targets) \subseteq w.derivable
  BY <1>1, <1>2, <1>3 DEF WriteTurn
<1>4. CASE ~(Range(targets) \subseteq w.derivable)
  BY <1>1, <1>4 DEF WriteTurn
<1> QED
  BY <1>3, <1>4

\* A path is read as itself, or as that of a record that shares a name with it.
LEMMA ReadAs ==
  ASSUME NEW p
  PROVE  /\ p \in Paths(Range(w.records)) => Readable(w, p) = p
         /\ \/ Readable(w, p) = p
            \/ /\ Readable(w, p) \in Paths(Range(w.records))
               /\ NameVariants(p[2]) \intersect NameVariants(Readable(w, p)[2]) # {}
<1> DEFINE loaded == Paths(Range(w.records))
           alike == {n \in loaded : NameVariants(p[2]) \intersect NameVariants(n[2]) # {}}
<1>1. Readable(w, p) = IF p \notin loaded /\ Cardinality(alike) = 1 THEN The(alike) ELSE p
  BY DEF Readable
<1>2. ASSUME Cardinality(alike) = 1
      PROVE  The(alike) \in alike
  <2> HIDE DEF alike
  <2>1. alike # {}
    BY <1>2, FS_EmptySet
  <2> QED
    BY <2>1 DEF The
<1> HIDE DEF loaded
<1> QED
  BY <1>1, <1>2 DEF loaded

\* What is left of a list of records for the family asked for is of that list.
LEMMA FamilyOf ==
  ASSUME TypedReplies, NEW list, IsList(list), NEW request
  PROVE  Family(list, request, replies) \in Seq(Range(list))
<1> DEFINE F == {r \in Range(list) : r.ref = request.family}
           some == PickedSome(list, replies["family"], AnyConfidence)
           family == Family(list, request, replies)
<1>1. family = IF request.family = "" THEN list
               ELSE IF Kept(list, F) # <<>> \/ "family" \notin DOMAIN replies THEN Kept(list, F)
               ELSE some
  BY DEF Family
<1>2. Kept(list, F) \in Seq(Range(list))
  <2> HIDE DEF F
  <2> QED
    BY KeptMembers DEF IsList
<1>3. "family" \in DOMAIN replies => some \in Seq(Range(list))
  <2>1. "family" \in SubsetStages
    BY DEF SubsetStages
  <2> QED
    BY <2>1, SelectionOf
<1> HIDE DEF F, some, family
<1>4. family \in Seq(Range(list))
  BY <1>1, <1>2, <1>3 DEF IsList
<1> QED
  BY <1>4 DEF family

LEMMA PathsFinite ==
  ASSUME NEW s, NEW X, s \in Seq(X)
  PROVE  IsFiniteSet(Paths(Range(s)))
<1> DEFINE S == Paths(Range(s))
           f == [k \in 1 .. Len(s) |-> s[k].path]
<1>1. Len(s) \in Nat /\ DOMAIN s = 1 .. Len(s)
  OBVIOUS
<1>2. \A k \in 1 .. Len(s) : s[k].path \in S
  BY <1>1 DEF Paths, Range
<1>3. \A p \in S : \E k \in 1 .. Len(s) : p = s[k].path
  BY <1>1 DEF Paths, Range
<1> HIDE DEF S
<1>4. f \in Surjection(1 .. Len(s), S)
  BY <1>2, <1>3 DEF Surjection
<1>5. ExistsSurjection(1 .. Len(s), S)
  BY <1>4 DEF ExistsSurjection
<1>6. IsFiniteSet(S)
  BY <1>1, <1>5, FS_NatSurjection
<1> QED
  BY <1>6 DEF S

LEMMA SetInOrder ==
  ASSUME NEW S, IsFiniteSet(S)
  PROVE  SetToSeq(S) \in Seq(S) /\ Len(SetToSeq(S)) = Cardinality(S)
<1> DEFINE n == Cardinality(S)
<1>1. n \in Nat /\ ExistsBijection(1 .. n, S)
  BY FS_CardinalityType
<1>2. PICK f : f \in [1 .. n -> S] /\ IsInjective(f)
  BY <1>1 DEF ExistsBijection, Bijection, Injection
<1>3. SetToSeq(S) \in [1 .. n -> S]
  BY <1>2, Zenon DEF SetToSeq
<1> HIDE DEF n
<1>4. SetToSeq(S) \in Seq(S) /\ Len(SetToSeq(S)) = n
  BY <1>1, <1>3
<1> QED
  BY <1>4 DEF n

LEMMA Few ==
  ASSUME NEW size \in Nat, NEW limit \in Nat \ {0}, size = 1 \/ ~(size > limit)
  PROVE  size <= limit
<1> QED
  OBVIOUS

LEMMA NamedDocumentsSound ==
  ASSUME IsList(w.records), TypedReplies, NEW request, IsList(request.paths), request.paths # <<>>
  PROVE  WriteTurn(NamedDocuments(w, request, replies), request)
<1> DEFINE records == [n \in DOMAIN w.records |-> w.records[n].path]
           known == Kept(request.paths, Range(records))
           shown == [n \in DOMAIN known |-> The({r \in Range(w.records) : r.path = known[n]})]
           kin == Family(shown, request, replies)
           family == Paths(Range(kin))
           narrowed == IF request.family = "" \/ family = {} THEN request.paths ELSE SetToSeq(family)
           turn == NamedDocuments(w, request, replies)
<1>1. turn = IF AsksFamily(shown, request, replies) THEN Ask("family", shown, request.family)
             ELSE IF Colliding(w, request.paths) THEN Clarify ELSE Ingest(w, narrowed)
  BY DEF NamedDocuments
<1>2. known \in Seq(Range(request.paths)) /\ \A n \in 1 .. Len(known) : known[n] \in Range(records)
  <2> HIDE DEF records
  <2> QED
    BY KeptMembers DEF IsList
<1>3. \A p \in Range(records) : \E r \in Range(w.records) : r.path = p
  BY DEF Range
<1> HIDE DEF records, known
<1>4. DOMAIN known = 1 .. Len(known) /\ Len(known) \in Nat
  BY <1>2, Indices
<1>5. \A n \in DOMAIN shown : shown[n].path \in Range(request.paths)
  <2> SUFFICES ASSUME NEW n \in DOMAIN known
               PROVE  The({r \in Range(w.records) : r.path = known[n]}).path \in Range(request.paths)
    OBVIOUS
  <2>1. \E r \in Range(w.records) : r.path = known[n]
    BY <1>2, <1>3, <1>4
  <2>2. The({r \in Range(w.records) : r.path = known[n]}).path = known[n]
    BY <2>1 DEF The
  <2>3. known[n] \in Range(request.paths)
    BY <1>2, <1>4
  <2> QED
    BY <2>2, <2>3
<1>6. IsList(shown)
  <2>1. DOMAIN shown = 1 .. Len(known) /\ shown = [n \in 1 .. Len(known) |-> shown[n]]
    BY <1>4
  <2> HIDE DEF shown
  <2> QED
    BY <1>4, <2>1, Lists DEF IsList
<1> HIDE DEF shown, turn
<1>7. kin \in Seq(Range(shown))
  BY <1>6, FamilyOf
<1> HIDE DEF kin
<1>8. family \subseteq Range(request.paths) /\ IsFiniteSet(family)
  <2>1. Range(kin) \subseteq Range(shown)
    BY <1>7, RangeOf
  <2>2. \A r \in Range(shown) : r.path \in Range(request.paths)
    BY <1>5 DEF Range
  <2>3. IsFiniteSet(family)
    BY <1>7, PathsFinite
  <2> QED
    BY <2>1, <2>2, <2>3 DEF Paths
<1> HIDE DEF family
<1>9. narrowed \in Seq(Range(request.paths))
  <2>1. SetToSeq(family) \in Seq(family)
    BY <1>8, SetInOrder
  <2>2. SetToSeq(family) \in Seq(Range(request.paths))
    BY <1>8, <2>1
  <2> QED
    BY <2>2 DEF IsList
<1> HIDE DEF narrowed
<1>10. \A n \in DOMAIN narrowed : NamedBy(request, Readable(w, narrowed[n]))
  <2> SUFFICES ASSUME NEW n \in DOMAIN narrowed
               PROVE  NamedBy(request, Readable(w, narrowed[n]))
    OBVIOUS
  <2> DEFINE p == narrowed[n]
  <2>1. p \in Range(request.paths)
    BY <1>9
  <2> HIDE DEF p
  <2> QED
    BY <2>1, ReadAs DEF NamedBy, p
<1>11. MayBeWritten(request, [n \in DOMAIN narrowed |-> Readable(w, narrowed[n])])
  <2> DEFINE targets == [n \in DOMAIN narrowed |-> Readable(w, narrowed[n])]
  <2>1. \A target \in Range(targets) : NamedBy(request, target)
    BY <1>10 DEF Range
  <2> HIDE DEF targets
  <2> QED
    BY <2>1 DEF MayBeWritten, targets
<1>12. CASE AsksFamily(shown, request, replies) /\ turn = Ask("family", shown, request.family)
  <2>1. "family" \in StageNames \ DOMAIN replies
    BY <1>12 DEF AsksFamily, StageNames, SubsetStages
  <2> QED
    BY <1>12, <2>1 DEF WriteTurn, Asks, turn
<1>13. CASE turn = Clarify
  BY <1>13 DEF WriteTurn, turn
<1>14. CASE turn = Ingest(w, narrowed)
  BY <1>11, <1>14, IngestSound DEF turn
<1> QED
  BY <1>1, <1>12, <1>13, <1>14

\* Who a request for the documents of somebody may mean is of the cast.
LEMMA OfTheCast ==
  ASSUME NEW text, NEW picked
  PROVE  /\ Identity(w.cast, text) \subseteq Range(w.cast)
         /\ UNION {Reresolved(w.cast, e) : e \in picked} \subseteq Range(w.cast)
<1>1. \A t : Identity(w.cast, t) \subseteq Range(w.cast)
  <2> SUFFICES ASSUME NEW t
               PROVE  Identity(w.cast, t) \subseteq Range(w.cast)
    OBVIOUS
  <2> DEFINE named == {e \in Range(w.cast) : t \in e.terms}
  <2>1. Identity(w.cast, t) = Lone(named) /\ named \subseteq Range(w.cast)
    BY DEF Identity
  <2> HIDE DEF named
  <2> QED
    BY <2>1, LoneIsAll
<1>2. ASSUME NEW e
      PROVE  Reresolved(w.cast, e) \subseteq Range(w.cast)
  <2> DEFINE By(field) == IF Keys(e, {field}) = {} THEN {} ELSE Identity(w.cast, The(Keys(e, {field}))[2])
             fields == Kept(<<"slug", "id", "title">>, {g \in {"slug", "id", "title"} : By(g) # {}})
  <2>1. Reresolved(w.cast, e) = IF fields = <<>> THEN {} ELSE By(fields[1])
    BY DEF Reresolved
  <2>2. \A field : By(field) \subseteq Range(w.cast)
    BY <1>1
  <2> HIDE DEF By, fields
  <2> QED
    BY <2>1, <2>2
<1> QED
  BY <1>1, <1>2

LEMMA EntityDocumentsSound ==
  ASSUME IsList(w.records), \A r \in DOMAIN w.records : w.records[r].date \in Int, TypedReplies,
         NEW request, request.paths = <<>>
  PROVE  WriteTurn(EntityDocuments(w, request, replies), request)
<1> DEFINE picked == IF "entity 1" \in DOMAIN replies THEN Picked(w.cast, replies["entity 1"], AnyConfidence) ELSE {}
           exact == Identity(w.cast, request.text)
           entity == IF exact # {} THEN exact ELSE UNION {Reresolved(w.cast, e) : e \in picked}
           S == {r \in Range(w.records) : entity # {} /\ LinkedTo(r, The(entity)) /\ OfType(r, request.type)}
           linked == ByDate(w.records, S)
           family == Family(linked, request, replies)
           matched == Paths(Range(family))
           turn == EntityDocuments(w, request, replies)
<1> SUFFICES WriteTurn(turn, request)
  OBVIOUS
<1>1. turn = IF exact = {} /\ w.cast # <<>> /\ "entity 1" \notin DOMAIN replies
             THEN Ask("entity 1", w.cast, request.text)
             ELSE IF AsksFamily(linked, request, replies) THEN Ask("family", linked, request.family)
             ELSE IF matched = {} \/ TooMany(request, matched) THEN Clarify
             ELSE Ingest(w, SetToSeq(matched))
  BY DEF EntityDocuments
<1>2. entity \subseteq Range(w.cast)
  <2> HIDE DEF picked
  <2> QED
    BY OfTheCast
<1> HIDE DEF exact, entity, turn
<1>3. \A r \in S : r \in Range(w.records) /\ \E e \in Range(w.cast) : e = The(entity)
                   /\ LinkedTo(r, The(entity)) /\ OfType(r, request.type)
  BY <1>2 DEF The
<1> HIDE DEF S
<1>4. IsList(linked) /\ Range(linked) \subseteq S
  <2>1. <<>> \in Seq(Range(<<>>))
    OBVIOUS
  <2> QED
    BY <2>1, OrderedLists, DatedMembers DEF IsList
<1> HIDE DEF linked
<1>5. family \in Seq(Range(linked))
  BY <1>4, FamilyOf
<1> HIDE DEF family
<1>6. IsFiniteSet(matched) /\ \A p \in matched : \E r \in S : r.path = p
  <2>1. Range(family) \subseteq S
    BY <1>4, <1>5, RangeOf
  <2>2. IsFiniteSet(matched)
    BY <1>5, PathsFinite
  <2> QED
    BY <2>1, <2>2 DEF Paths
<1> HIDE DEF matched
<1>7. SetToSeq(matched) \in Seq(matched) /\ Len(SetToSeq(matched)) = Cardinality(matched)
  BY <1>6, SetInOrder
<1>8. CASE turn = Clarify
  BY <1>8 DEF WriteTurn
<1>9. CASE turn = Ask("entity 1", w.cast, request.text) /\ "entity 1" \notin DOMAIN replies
  <2>1. "entity 1" \in StageNames \ DOMAIN replies
    BY <1>9 DEF StageNames, PickStages
  <2> QED
    BY <1>9, <2>1 DEF WriteTurn, Asks
<1>10. CASE turn = Ask("family", linked, request.family) /\ AsksFamily(linked, request, replies)
  <2>1. "family" \in StageNames \ DOMAIN replies
    BY <1>10 DEF AsksFamily, StageNames, SubsetStages
  <2> QED
    BY <1>10, <2>1 DEF WriteTurn, Asks
<1>11. CASE turn = Ingest(w, SetToSeq(matched)) /\ matched # {} /\ ~TooMany(request, matched)
  <2> DEFINE paths == SetToSeq(matched)
             targets == [n \in DOMAIN paths |-> Readable(w, paths[n])]
             e == The(entity)
  <2>1. request.family # "" \/ Cardinality(matched) <= IngestLimit
    <3>1. IngestLimit \in Nat \ {0} /\ Cardinality(matched) \in Nat
      BY <1>6, StepAssumption, FS_CardinalityType
    <3>2. \/ request.family = "" /\ ~(Cardinality(matched) > IngestLimit)
          \/ request.family # ""
          \/ Cardinality(matched) = 1
      BY <1>11 DEF TooMany
    <3> QED
      BY <3>1, <3>2, Few
  <2>2. paths \in Seq(matched) /\ Len(paths) = Cardinality(matched)
    BY <1>7
  <2> HIDE DEF paths
  <2>3. DOMAIN paths = 1 .. Len(paths) /\ Len(paths) \in Nat
    BY <2>2, Indices
  <2>4. \A n \in DOMAIN paths : paths[n] \in matched
    BY <2>2
  <2>5. e \in Range(w.cast) /\ \A p \in matched : LinkedRecord(request, e, p) /\ p \in Paths(Range(w.records))
    <3>1. PICK p \in matched : TRUE
      BY <1>11
    <3>2. e \in Range(w.cast)
      BY <1>3, <1>6, <3>1
    <3> QED
      BY <1>3, <1>6, <3>2 DEF LinkedRecord, Paths
  <2> HIDE DEF e
  <2>6. \A target \in Range(targets) : LinkedRecord(request, e, target)
    <3>1. \A n \in DOMAIN paths : Readable(w, paths[n]) = paths[n]
      BY <2>4, <2>5, ReadAs
    <3> QED
      BY <2>4, <2>5, <3>1 DEF Range
  <2>7. Len(targets) = Cardinality(matched)
    <3>1. DOMAIN targets = 1 .. Len(paths) /\ targets = [n \in 1 .. Len(paths) |-> targets[n]]
      BY <2>3
    <3> HIDE DEF targets
    <3> QED
      BY <2>2, <2>3, <3>1, Lists
  <2>8. MayBeWritten(request, targets)
    <3> HIDE DEF targets
    <3> QED
      BY <2>1, <2>5, <2>6, <2>7 DEF MayBeWritten
  <2>9. WriteTurn(Ingest(w, paths), request)
    BY <2>8, IngestSound
  <2> QED
    BY <1>11, <2>9 DEF paths
<1> QED
  BY <1>1, <1>8, <1>9, <1>10, <1>11

LEMMA DocumentIngestSound ==
  ASSUME IsList(w.records), \A r \in DOMAIN w.records : w.records[r].date \in Int, TypedReplies,
         NEW request, IsList(request.paths)
  PROVE  WriteTurn(DocumentIngest(w, request, replies), request)
<1>1. CASE ~IngestContract(request)
  BY <1>1 DEF DocumentIngest, WriteTurn
<1>2. CASE IngestContract(request) /\ request.paths # <<>>
  <2>1. DocumentIngest(w, request, replies) = NamedDocuments(w, request, replies)
    BY <1>2 DEF DocumentIngest
  <2> QED
    BY <1>2, <2>1, NamedDocumentsSound
<1>3. CASE IngestContract(request) /\ request.paths = <<>>
  <2>1. DocumentIngest(w, request, replies) = EntityDocuments(w, request, replies)
    BY <1>3 DEF DocumentIngest
  <2> QED
    BY <1>3, <2>1, EntityDocumentsSound
<1> QED
  BY <1>1, <1>2, <1>3

\* A turn of the inbox: what it sets off is the sender's to ask for.
InboxTurn(turn) ==
  \/ turn \in {Clarify, Blocked, Answer("task", {}, {}, {}), Answer("cleared", {}, {}, {})} \/ Asks(turn)
  \/ /\ ~q.item.injected
     /\ \/ DraftTurn(turn)
        \/ \E verdict \in GivenVerdicts : PaymentTurn(turn, verdict.request)
        \/ \E verdict \in GivenVerdicts : verdict.decision = "ingest" /\ WriteTurn(turn, IngestRequest(verdict.request))

\* The paths a verdict names are a list, as the workflow takes them too.
LEMMA RequestedPaths ==
  ASSUME NEW verdict \in Verdicts
  PROVE  IsList(IngestRequest(verdict.request).paths)
<1> DEFINE named == verdict.request.paths
           ofNotes == {p \in Range(named) : p[2][2] # ""}
<1>1. named \in Seq(Range(named))
  BY StepAssumption DEF VerdictsAssumption
<1>2. IngestRequest(verdict.request).paths = Kept(named, ofNotes)
  BY StepAssumption DEF IngestRequest, VerdictsAssumption
<1> HIDE DEF named, ofNotes
<1> QED
  BY <1>1, <1>2, KeptMembers, RangeOf DEF IsList

LEMMA VerdictSound ==
  ASSUME RecordsDiffer, TypedReplies, ~q.item.injected,
         NEW verdict \in GivenVerdicts, verdict \in Verdicts, Contract(verdict)
  PROVE  InboxTurn(Verdict(w, q.item, verdict, replies))
<1> DEFINE turn == Verdict(w, q.item, verdict, replies)
<1>1. verdict.decision \in Decisions /\ verdict.request.count \in Nat
      /\ verdict.request.kind \in {"resend", "bundle", "none"}
  BY StepAssumption DEF VerdictsAssumption
<1>2. CASE turn \in {Clarify, Blocked, Answer("task", {}, {}, {}), Answer("cleared", {}, {}, {})}
  BY <1>2 DEF InboxTurn
<1>3. CASE verdict.decision = "invoice_email" /\ ~PolicyRefuses(w, q.item, verdict)
  <2>1. turn = InvoiceEmail(w, q.item, verdict.request, replies)
    BY <1>3 DEF Verdict, Mixed
  <2>2. verdict.request.kind \in {"resend", "bundle"}
    <3>1. InvoiceContract(verdict.request)
      BY <1>3 DEF Contract, Requests
    <3> QED
      BY <1>1, <3>1 DEF InvoiceContract
  <2>3. DraftTurn(turn)
    BY <1>1, <2>1, <2>2, InvoiceEmailSound
  <2> QED
    BY <2>3 DEF InboxTurn
<1>4. CASE verdict.decision = "payment"
  <2>1. turn = Payment(w, verdict.request)
    BY <1>4 DEF Verdict, Mixed, PolicyRefuses
  <2>2. PaymentTurn(turn, verdict.request)
    BY <2>1, PaymentSound
  <2> QED
    BY <2>2 DEF InboxTurn
<1>5. CASE verdict.decision = "ingest"
  <2>1. turn = DocumentIngest(w, IngestRequest(verdict.request), replies)
    BY <1>5 DEF Verdict, Mixed, PolicyRefuses
  <2>2. IsList(IngestRequest(verdict.request).paths)
    BY RequestedPaths
  <2>3. WriteTurn(turn, IngestRequest(verdict.request))
    BY <2>1, <2>2, DocumentIngestSound DEF RecordsDiffer
  <2> QED
    BY <1>5, <2>3 DEF InboxTurn
<1>6. CASE /\ verdict.decision \notin {"payment", "ingest"}
           /\ ~(verdict.decision = "invoice_email" /\ ~PolicyRefuses(w, q.item, verdict))
  <2>1. turn \in {Clarify, Blocked, Answer("task", {}, {}, {}), Answer("cleared", {}, {}, {})}
    BY <1>1, <1>6 DEF Verdict, Decisions, Requests, Mixed
  <2> QED
    BY <1>2, <2>1
<1> QED
  BY <1>3, <1>4, <1>5, <1>6

LEMMA InboxStepSound ==
  ASSUME RecordsDiffer, TypedReplies
  PROVE  InboxTurn(InboxStep(q, w, replies))
<1> DEFINE given == {s \in {"classify", "classify again"} \intersect DOMAIN replies : replies[s].parsed}
           turn == InboxStep(q, w, replies)
<1> SUFFICES InboxTurn(turn)
  OBVIOUS
<1>1. turn = IF ~q.item.body THEN Clarify
             ELSE IF q.item.injected THEN Blocked
             ELSE IF given # {} THEN Verdict(w, q.item, replies[The(given)], replies)
             ELSE IF "classify" \notin DOMAIN replies THEN Ask("classify", <<>>, "body")
             ELSE IF "classify again" \notin DOMAIN replies THEN Ask("classify again", <<>>, "body")
             ELSE Clarify
  BY DEF InboxStep
<1>2. given # {} => The(given) \in given
  BY DEF The
<1> DEFINE s == The(given)
<1>3. ASSUME given # {}
      PROVE  replies[s] \in GivenVerdicts /\ replies[s] \in Verdicts /\ Contract(replies[s])
  <2>1. s \in {"classify", "classify again"} /\ s \in DOMAIN replies /\ replies[s].parsed
    <3> HIDE DEF s
    <3> QED
      BY <1>2, <1>3 DEF s
  <2> HIDE DEF s
  <2> QED
    BY <2>1, ReplyKinds DEF GivenVerdicts
<1>4. "classify" \in StageNames /\ "classify again" \in StageNames
  BY DEF StageNames
<1> HIDE DEF given, turn
<1>5. CASE turn \in {Clarify, Blocked}
  BY <1>5 DEF InboxTurn
<1>6. CASE ~q.item.injected /\ given # {} /\ turn = Verdict(w, q.item, replies[s], replies)
  <2> HIDE DEF s
  <2> QED
    BY <1>3, <1>6, VerdictSound
<1>7. CASE turn = Ask("classify", <<>>, "body") /\ "classify" \notin DOMAIN replies
  BY <1>4, <1>7 DEF InboxTurn, Asks
<1>8. CASE turn = Ask("classify again", <<>>, "body") /\ "classify again" \notin DOMAIN replies
  BY <1>4, <1>8 DEF InboxTurn, Asks
<1> QED
  BY <1>1, <1>5, <1>6, <1>7, <1>8

-----------------------------------------------------------------------------
(* The inductive invariant: the transcript of a step *)

ChainKinds == {"account_lookup", "contact_lookup", "capture_lookup", "project_query", "entity_query", "message_query"}
Asking == question \notin {Running, Ended}

\* The records a lookup that picks one record shows the model.
LookupList ==
  CASE q.kind \in {"entity_query", "message_query"} -> w.cast
    [] q.kind = "project_query" -> IF q.variant = "involvement" THEN w.cast ELSE w.projects
    [] q.kind = "account_lookup" -> w.accounts
    [] q.kind = "contact_lookup" -> ContactList
    [] q.kind = "capture_lookup" -> w.captures
    [] OTHER -> <<>>

\* What was asked and said: a reply answers a question that was asked, the open question
\* has none, and what was kept of a reply is nothing or what its schema allows.
Transcript ==
  /\ q \in Commands /\ workspace \in DOMAIN Workspaces
  /\ DOMAIN replies \subseteq DOMAIN asked /\ DOMAIN asked \subseteq StageNames
  /\ Asking => question \in DOMAIN asked \ DOMAIN replies
  /\ TypedReplies

\* The answer of an ended step is what the code says of the transcript; no other has one.
AnswerIsTurn == IF question = Ended THEN answer = Turn /\ answer.turn # "ask" ELSE answer = None

\* A lookup shows the same list with each of its questions, in the order of the chain.
ChainAsked ==
  q.kind \in ChainKinds =>
    /\ ChainReplies /\ (Asking => question = NextStage /\ DOMAIN replies # BothStages)
    /\ \A s \in DOMAIN asked : asked[s] = [n \in DOMAIN LookupList |-> LookupList[n].path]

\* The queue is selected from once.
QueueAsked == q.kind = "queue_state_lookup" => QueueReplies /\ (Asking => question = "some" /\ DOMAIN replies = {})

\* The intent of a finance question is extracted again only once its first round is over
\* and found nothing; that round is not taken up again.
RoundsAsked ==
  q.kind = "finance_lookup" /\ "reextract" \in DOMAIN asked =>
    FoundNothing /\ question \notin {"switch 1", "anchor 1"}

IInv == Transcript /\ AnswerIsTurn /\ ChainAsked /\ QueueAsked /\ RoundsAsked

-----------------------------------------------------------------------------
(* What the turn of every reachable transcript is *)

LEMMA WorkspaceHolds ==
  ASSUME Transcript
  PROVE  /\ IsList(w.cast) /\ IsList(w.projects) /\ IsList(w.accounts) /\ IsList(w.contacts)
         /\ IsList(w.messages) /\ IsList(w.captures) /\ IsList(w.queue) /\ RecordsDiffer
BY ListsHold DEF Transcript, RecordsDiffer

LEMMA CommandKinds ==
  ASSUME Transcript
  PROVE  /\ q.kind \in ChainKinds \union {"queue_state_lookup", "finance_lookup", "inbox"}
         /\ q.kind = "project_query" => q.variant \in {"scalar", "involvement"}
         /\ q.kind = "finance_lookup" => IsIntent(q.intent)
BY StepAssumption DEF Transcript, CommandsAssumption, ChainKinds

LEMMA LookupSound ==
  ASSUME Transcript, ChainAsked, q.kind \in ChainKinds
  PROVE  SoundTurn(Turn, LookupList)
<1>1. ChainReplies
  BY DEF ChainAsked
<1>2. Turn = Lookup(q, w, replies)
  BY DEF Turn, ChainKinds
<1>3. CASE q.kind = "account_lookup"
  <2>1. Turn = AccountLookup(q, w, replies) /\ LookupList = w.accounts
    BY <1>2, <1>3 DEF Lookup, LookupList
  <2> QED
    BY <1>1, <1>3, <2>1, WorkspaceHolds, AccountLookupSound
<1>4. CASE q.kind = "contact_lookup"
  <2>1. Turn = ContactLookup(q, w, replies) /\ LookupList = ContactList
    BY <1>2, <1>4 DEF Lookup, LookupList
  <2> QED
    BY <1>1, <1>4, <2>1, WorkspaceHolds, ContactLookupSound
<1>5. CASE q.kind = "capture_lookup"
  <2>1. Turn = CaptureLookup(q, w) /\ LookupList = w.captures
    BY <1>2, <1>5 DEF Lookup, LookupList
  <2> QED
    BY <1>1, <1>5, <2>1, WorkspaceHolds, CaptureLookupSound
<1>6. CASE q.kind = "project_query" /\ q.variant = "involvement"
  <2>1. Turn = Involvement(q, w, replies) /\ LookupList = w.cast
    BY <1>2, <1>6 DEF Lookup, LookupList
  <2> QED
    BY <1>1, <1>6, <2>1, WorkspaceHolds, InvolvementSound
<1>7. CASE q.kind = "project_query" /\ q.variant # "involvement"
  <2>1. Turn = ProjectProperty(q, w, replies) /\ LookupList = w.projects
    BY <1>2, <1>7 DEF Lookup, LookupList
  <2>2. q.variant = "scalar"
    BY <1>7, CommandKinds
  <2> QED
    BY <1>1, <1>7, <2>1, <2>2, WorkspaceHolds, ProjectPropertySound
<1>8. CASE q.kind = "entity_query"
  <2>1. Turn = EntityQuery(q, w, replies) /\ LookupList = w.cast
    BY <1>2, <1>8 DEF Lookup, LookupList
  <2> QED
    BY <1>1, <1>8, <2>1, WorkspaceHolds, EntityQuerySound
<1>9. CASE q.kind = "message_query"
  <2>1. Turn = MessageQuery(q, w, replies) /\ LookupList = w.cast
    BY <1>2, <1>9 DEF Lookup, LookupList
  <2> QED
    BY <1>1, <1>9, <2>1, WorkspaceHolds, MessageQuerySound
<1> QED
  BY <1>3, <1>4, <1>5, <1>6, <1>7, <1>8, <1>9 DEF ChainKinds

LEMMA QueueSound ==
  ASSUME Transcript, QueueAsked, q.kind = "queue_state_lookup"
  PROVE  QueueTurn(Turn)
<1>1. Turn = QueueLookup(q, w, replies)
  BY DEF Turn, Lookup
<1>2. ASSUME NEW s \in DOMAIN replies, replies[s].parsed
      PROVE  replies[s].indices \in Seq(Nat)
  <2>1. s \in SubsetStages
    BY <1>2 DEF QueueAsked, QueueReplies, SubsetStages
  <2> QED
    BY <1>2, <2>1, IndicesOfReply DEF Transcript
<1> QED
  BY <1>1, <1>2, WorkspaceHolds, QueueLookupSound DEF QueueAsked

LEMMA FinanceSound ==
  ASSUME Transcript, RoundsAsked, q.kind = "finance_lookup"
  PROVE  FinanceTurn(Turn)
<1>1. Turn = FinanceStep(q, w.records, replies)
  BY DEF Turn
<1>2. \A i \in Reintents : IsIntent(i)
  BY StepAssumption DEF CommandsAssumption
<1>3. "reextract" \in DOMAIN replies => FoundNothing
  BY DEF Transcript, RoundsAsked
<1>4. IsIntent(q.intent) /\ IsList(w.records) /\ TypedReplies
  BY CommandKinds, WorkspaceHolds DEF Transcript, RecordsDiffer
<1> QED
  BY <1>1, <1>2, <1>3, <1>4, FinanceStepFacts

LEMMA InboxSound ==
  ASSUME Transcript, q.kind = "inbox"
  PROVE  InboxTurn(Turn)
<1>1. Turn = InboxStep(q, w, replies)
  BY DEF Turn
<1> QED
  BY <1>1, WorkspaceHolds, InboxStepSound DEF Transcript

\* A turn that asks, asks a question that has no reply yet, and the next one of its kind.
LEMMA AskedNext ==
  ASSUME IInv, Turn.turn = "ask"
  PROVE  /\ Turn.stage \in StageNames \ DOMAIN replies
         /\ q.kind \in ChainKinds =>
              Turn.stage = NextStage /\ DOMAIN replies # BothStages /\ Turn.shown = LookupList
         /\ q.kind = "queue_state_lookup" => Turn.stage = "some" /\ DOMAIN replies = {}
         /\ q.kind = "finance_lookup" => /\ Turn.stage \in {"switch 1", "anchor 1"} => FirstRound.turn = "ask"
                                         /\ Turn.stage = "reextract" => FoundNothing
<1> DEFINE turn == Turn
<1>1. \A stage, shown, text : /\ Ask(stage, shown, text).turn = "ask" /\ Ask(stage, shown, text).stage = stage
                              /\ Ask(stage, shown, text).shown = shown
  BY DEF Ask
<1>2. \A st, chosen, about, refs : Answer(st, chosen, about, refs).turn = "answer"
  BY DEF Answer
<1>3. Clarify.turn = "answer" /\ Raised.turn = "answer" /\ Blocked.turn = "answer"
  BY <1>2 DEF Clarify, Raised, Blocked
<1>4. \A found : Resolved(found).turn = "answer"
  BY <1>2 DEF Resolved
<1> HIDE DEF turn
<1>5. CASE q.kind \in ChainKinds
  <2>1. SoundTurn(turn, LookupList) /\ ChainReplies
    BY <1>5, LookupSound DEF IInv, ChainAsked, turn
  <2>2. OpenEnd(turn, LookupList)
    BY <1>2, <1>3, <2>1 DEF SoundTurn, turn
  <2>3. turn.stage = NextStage /\ DOMAIN replies # BothStages /\ turn.shown = LookupList
    BY <1>1, <1>3, <2>2 DEF OpenEnd, turn
  <2>4. NextStage \in StageNames \ DOMAIN replies
    <3>1. {"first", "second"} \subseteq StageNames
      BY DEF StageNames, PickStages
    <3> QED
      BY <2>1, <2>3, <3>1 DEF ChainReplies, NextStage, BothStages
  <2> QED
    BY <1>5, <2>3, <2>4 DEF turn, ChainKinds
<1>6. CASE q.kind = "queue_state_lookup"
  <2>1. QueueTurn(turn)
    BY <1>6, QueueSound DEF IInv, turn
  <2>2. turn.stage = "some" /\ DOMAIN replies = {}
    BY <1>1, <1>2, <1>3, <2>1 DEF QueueTurn, turn
  <2> QED
    BY <1>6, <2>2 DEF turn, ChainKinds, StageNames, SubsetStages
<1>7. CASE q.kind = "finance_lookup"
  <2>1. FinanceTurn(turn)
    BY <1>7, FinanceSound DEF IInv, turn
  <2>2. \E stage \in StageNames \ DOMAIN replies : \E shown :
           /\ turn = Ask(stage, shown, TaskText)
           /\ stage \in {"switch 1", "anchor 1"} => FirstRound.turn = "ask"
           /\ stage = "reextract" => FoundNothing
    BY <1>2, <1>3, <1>4, <2>1 DEF FinanceTurn, turn
  <2>3. PICK stage \in StageNames \ DOMAIN replies :
           \E shown : /\ turn = Ask(stage, shown, TaskText)
                      /\ stage \in {"switch 1", "anchor 1"} => FirstRound.turn = "ask"
                      /\ stage = "reextract" => FoundNothing
    BY <2>2
  <2>4. turn.stage = stage
    <3>1. PICK shown : turn = Ask(stage, shown, TaskText)
      BY <2>3
    <3>2. Ask(stage, shown, TaskText).stage = stage
      BY <1>1
    <3> QED
      BY <3>1, <3>2
  <2>5. /\ turn.stage \in StageNames \ DOMAIN replies
        /\ turn.stage \in {"switch 1", "anchor 1"} => FirstRound.turn = "ask"
        /\ turn.stage = "reextract" => FoundNothing
    BY <2>3, <2>4
  <2> QED
    BY <1>7, <2>5 DEF turn, ChainKinds
<1>8. CASE q.kind = "inbox"
  <2>1. InboxTurn(turn)
    BY <1>8, InboxSound DEF IInv, turn
  <2>2. Asks(turn)
    <3>1. \A to, attachments : Draft(w, q.item, to, attachments).turn = "answer"
      BY DEF Draft
    <3>2. turn \notin {Clarify, Blocked, Answer("task", {}, {}, {}), Answer("cleared", {}, {}, {})}
      BY <1>2, <1>3 DEF turn
    <3>3. DraftTurn(turn) => Asks(turn)
      BY <1>3, <3>1 DEF DraftTurn, turn
    <3>4. ASSUME NEW asks
          PROVE  (PaymentTurn(turn, asks) \/ WriteTurn(turn, asks)) => Asks(turn)
      <4>1. \A record : [turn |-> "answer", status |-> "payment", record |-> record].turn = "answer"
        OBVIOUS
      <4>2. \A targets : [turn |-> "answer", status |-> "writes", targets |-> targets].turn = "answer"
        OBVIOUS
      <4>3. turn # Clarify /\ turn.turn # "answer"
        BY <1>3 DEF turn
      <4> QED
        BY <4>1, <4>2, <4>3 DEF PaymentTurn, WriteTurn
    <3> QED
      BY <2>1, <3>2, <3>3, <3>4 DEF InboxTurn
  <2> QED
    BY <1>1, <1>8, <2>2 DEF Asks, turn, ChainKinds
<1> QED
  BY <1>5, <1>6, <1>7, <1>8, CommandKinds DEF IInv

LEMMA WithFacts ==
  ASSUME NEW f, NEW key, NEW value
  PROVE  /\ DOMAIN With(f, key, value) = DOMAIN f \union {key}
         /\ \A k \in DOMAIN f : With(f, key, value)[k] = f[k]
         /\ key \notin DOMAIN f => With(f, key, value)[key] = value
BY DEF With

\* What the code says depends on the command, the workspace and the replies alone.
LEMMA SameTurn ==
  ASSUME UNCHANGED <<q, workspace, replies>>
  PROVE  Turn' = Turn /\ FirstRound' = FirstRound /\ FoundNothing' = FoundNothing
<1>1. w' = w
  BY DEF w
<1>2. Turn' = Turn
  BY <1>1 DEF Turn
<1>3. FirstRound' = FirstRound
  BY <1>1 DEF FirstRound
<1> QED
  BY <1>2, <1>3 DEF FoundNothing

LEMMA SameList ==
  ASSUME UNCHANGED <<q, workspace>>
  PROVE  LookupList' = LookupList
<1>1. w' = w
  BY DEF w
<1> QED
  BY <1>1 DEF LookupList, ContactList

-----------------------------------------------------------------------------
(* The invariant holds at the start and is kept by every step *)

LEMMA NamesOfQuestions == Running \notin StageNames /\ Ended \notin StageNames /\ Running # Ended
BY DEF Running, Ended, StageNames, PickStages, SubsetStages

LEMMA InitHolds ==
  ASSUME Init
  PROVE  IInv
<1>1. DOMAIN asked = {} /\ DOMAIN replies = {} /\ question = Running /\ answer = None
  BY DEF Init
<1>2. Transcript
  BY <1>1 DEF Init, Transcript, Asking, TypedReplies
<1>3. AnswerIsTurn
  BY <1>1, NamesOfQuestions DEF AnswerIsTurn
<1>4. ChainAsked /\ QueueAsked /\ RoundsAsked
  BY <1>1 DEF ChainAsked, ChainReplies, QueueAsked, QueueReplies, RoundsAsked, Asking
<1> QED
  BY <1>2, <1>3, <1>4 DEF IInv

\* The code asks its next question.
LEMMA AskKeeps ==
  ASSUME IInv, question = Running, Turn.turn = "ask", UNCHANGED <<q, workspace, replies, answer>>,
         question' = Turn.stage,
         asked' = With(asked, Turn.stage, [n \in DOMAIN Turn.shown |-> Turn.shown[n].path])
  PROVE  IInv'
<1> DEFINE stage == Turn.stage
           paths == [n \in DOMAIN Turn.shown |-> Turn.shown[n].path]
<1>1. stage \in StageNames \ DOMAIN replies
  BY AskedNext
<1>2. /\ DOMAIN asked' = DOMAIN asked \union {stage}
      /\ \A s \in DOMAIN asked : asked'[s] = asked[s]
      /\ stage \notin DOMAIN asked => asked'[stage] = paths
  <2>1. asked' = With(asked, stage, paths)
    OBVIOUS
  <2> HIDE DEF stage, paths
  <2>2. /\ DOMAIN With(asked, stage, paths) = DOMAIN asked \union {stage}
        /\ \A s \in DOMAIN asked : With(asked, stage, paths)[s] = asked[s]
        /\ stage \notin DOMAIN asked => With(asked, stage, paths)[stage] = paths
    BY WithFacts
  <2> QED
    BY <2>1, <2>2
<1>3. question' = stage /\ Asking' /\ question' # Ended
  BY <1>1, NamesOfQuestions DEF Asking
<1>4. Transcript'
  <2> HIDE DEF stage
  <2>1. TypedReplies'
    BY <1>2 DEF IInv, Transcript, TypedReplies
  <2>2. question' \in DOMAIN asked' \ DOMAIN replies'
    BY <1>1, <1>2, <1>3
  <2>3. DOMAIN replies' \subseteq DOMAIN asked' /\ DOMAIN asked' \subseteq StageNames
    BY <1>1, <1>2 DEF IInv, Transcript
  <2> QED
    BY <2>1, <2>2, <2>3 DEF IInv, Transcript
<1>5. AnswerIsTurn'
  BY <1>3, NamesOfQuestions DEF IInv, AnswerIsTurn
<1>6. ChainAsked'
  <2>1. SUFFICES ASSUME q.kind \in ChainKinds
                 PROVE  /\ ChainReplies' /\ question' = NextStage' /\ DOMAIN replies' # BothStages
                        /\ \A s \in DOMAIN asked' : asked'[s] = [n \in DOMAIN LookupList' |-> LookupList'[n].path]
    BY DEF ChainAsked
  <2>2. stage = NextStage /\ DOMAIN replies # BothStages /\ Turn.shown = LookupList
    BY <2>1, AskedNext
  <2>3. NextStage' = NextStage /\ LookupList' = LookupList
    BY SameList DEF NextStage
  <2>4. paths = [n \in DOMAIN LookupList |-> LookupList[n].path]
    BY <2>2
  <2> HIDE DEF stage, paths
  <2>5. ASSUME NEW s \in DOMAIN asked'
        PROVE  asked'[s] = [n \in DOMAIN LookupList |-> LookupList[n].path]
    BY <1>2, <2>1, <2>4 DEF IInv, ChainAsked
  <2> QED
    BY <1>3, <2>1, <2>2, <2>3, <2>5 DEF IInv, ChainAsked, ChainReplies
<1>7. QueueAsked'
  <2> HIDE DEF stage
  <2> QED
    BY <1>3, AskedNext DEF IInv, QueueAsked, QueueReplies, stage
<1>8. RoundsAsked'
  <2>1. SUFFICES ASSUME q.kind = "finance_lookup", "reextract" \in DOMAIN asked'
                 PROVE  FoundNothing /\ stage \notin {"switch 1", "anchor 1"}
    BY <1>3, SameTurn DEF RoundsAsked
  <2>2. /\ stage \in {"switch 1", "anchor 1"} => FirstRound.turn = "ask"
        /\ stage = "reextract" => FoundNothing
    BY <2>1, AskedNext
  <2> HIDE DEF stage
  <2>3. "reextract" \in DOMAIN asked => FoundNothing
    BY <2>1 DEF IInv, RoundsAsked
  <2> QED
    BY <1>2, <2>1, <2>2, <2>3 DEF FoundNothing
<1> QED
  BY <1>4, <1>5, <1>6, <1>7, <1>8 DEF IInv

\* The code comes to its answer.
LEMMA AnswerKeeps ==
  ASSUME IInv, question = Running, Turn.turn # "ask", UNCHANGED <<q, workspace, replies, asked>>,
         question' = Ended, answer' = Turn
  PROVE  IInv'
<1>1. ~Asking' /\ question' \notin {"switch 1", "anchor 1"}
  BY DEF Asking, Ended
<1>2. Transcript'
  BY <1>1 DEF IInv, Transcript, TypedReplies
<1>3. AnswerIsTurn'
  BY SameTurn DEF AnswerIsTurn
<1>4. ChainAsked'
  BY <1>1, SameList DEF IInv, ChainAsked, ChainReplies
<1>5. QueueAsked'
  BY <1>1 DEF IInv, QueueAsked, QueueReplies
<1>6. RoundsAsked'
  BY <1>1, SameTurn DEF IInv, RoundsAsked
<1> QED
  BY <1>2, <1>3, <1>4, <1>5, <1>6 DEF IInv

LEMMA RunOnKeeps ==
  ASSUME IInv, RunOn
  PROVE  IInv'
<1>1. CASE Turn.turn = "ask"
  BY <1>1, AskKeeps DEF RunOn
<1>2. CASE Turn.turn # "ask"
  BY <1>2, AnswerKeeps DEF RunOn
<1> QED
  BY <1>1, <1>2

\* The open question is settled: the caller keeps a reply its schema allows, or nothing.
LEMMA ReplyKeeps ==
  ASSUME IInv, Asking, NEW reply, reply = NoReply \/ reply \in RepliesTo(question, asked[question]), Reply(reply)
  PROVE  IInv'
<1>1. /\ UNCHANGED <<q, workspace, asked, answer>>
      /\ question' = Running
      /\ DOMAIN replies' = DOMAIN replies \union {question}
      /\ \A s \in DOMAIN replies : replies'[s] = replies[s]
      /\ replies'[question] = reply
  <2>1. question \notin DOMAIN replies
    BY DEF IInv, Transcript
  <2>2. replies' = With(replies, question, reply)
    BY DEF Reply
  <2>3. /\ DOMAIN replies' = DOMAIN replies \union {question}
        /\ \A s \in DOMAIN replies : replies'[s] = replies[s]
        /\ replies'[question] = reply
    <3>1. /\ DOMAIN With(replies, question, reply) = DOMAIN replies \union {question}
          /\ \A s \in DOMAIN replies : With(replies, question, reply)[s] = replies[s]
          /\ question \notin DOMAIN replies => With(replies, question, reply)[question] = reply
      BY WithFacts
    <3> QED
      BY <2>1, <2>2, <3>1
  <2> QED
    BY <2>3 DEF Reply
<1>2. ~Asking' /\ question' # Ended /\ question' \notin {"switch 1", "anchor 1"} /\ question # Ended
  BY <1>1, NamesOfQuestions DEF Asking, Running
<1>3. Transcript'
  <2>1. TypedReplies'
    BY <1>1 DEF IInv, Transcript, TypedReplies
  <2> QED
    BY <1>1, <1>2, <2>1 DEF IInv, Transcript
<1>4. AnswerIsTurn'
  BY <1>1, <1>2 DEF IInv, AnswerIsTurn
<1>5. ChainAsked'
  <2>1. ASSUME q.kind \in ChainKinds
        PROVE  ChainReplies'
    <3>1. ChainReplies /\ question = NextStage /\ DOMAIN replies # BothStages
      BY <2>1 DEF IInv, ChainAsked
    <3> QED
      BY <1>1, <3>1 DEF ChainReplies, NextStage, BothStages
  <2> QED
    BY <1>1, <1>2, <2>1, SameList DEF IInv, ChainAsked
<1>6. QueueAsked'
  BY <1>1, <1>2 DEF IInv, QueueAsked, QueueReplies
<1>7. RoundsAsked'
  <2>1. SUFFICES ASSUME q.kind = "finance_lookup", "reextract" \in DOMAIN asked
                 PROVE  FoundNothing'
    BY <1>1, <1>2 DEF RoundsAsked
  <2>2. FoundNothing /\ question \notin {"switch 1", "anchor 1"}
    BY <2>1 DEF IInv, RoundsAsked
  <2>3. FirstRound' = FirstRound
    <3>1. \A s \in {"switch 1", "anchor 1"} : /\ s \in DOMAIN replies' <=> s \in DOMAIN replies
                                              /\ s \in DOMAIN replies' => replies'[s] = replies[s]
      BY <1>1, <2>2
    <3> QED
      BY <1>1, <3>1, FirstRoundLocal
  <2> QED
    BY <2>2, <2>3 DEF FoundNothing
<1> QED
  BY <1>3, <1>4, <1>5, <1>6, <1>7 DEF IInv

LEMMA NextKeeps ==
  ASSUME IInv, [Next]_vars
  PROVE  IInv'
<1>1. ASSUME UNCHANGED <<q, workspace, asked, replies, question, answer>>
      PROVE  IInv'
  <2>1. Transcript'
    BY <1>1 DEF IInv, Transcript, TypedReplies, Asking
  <2>2. AnswerIsTurn'
    BY <1>1, SameTurn DEF IInv, AnswerIsTurn
  <2>3. ChainAsked'
    BY <1>1, SameList DEF IInv, ChainAsked, ChainReplies, NextStage, Asking
  <2>4. QueueAsked'
    BY <1>1 DEF IInv, QueueAsked, QueueReplies, Asking
  <2>5. RoundsAsked'
    BY <1>1, SameTurn DEF IInv, RoundsAsked
  <2> QED
    BY <2>1, <2>2, <2>3, <2>4, <2>5 DEF IInv
<1>2. CASE RunOn
  BY <1>2, RunOnKeeps
<1>3. CASE AttemptFails
  BY <1>1, <1>3 DEF AttemptFails
<1>4. CASE AttemptReplies
  <2>1. Asking
    BY <1>4 DEF AttemptReplies, Asking
  <2>2. PICK valid \in BOOLEAN, reply \in RepliesTo(question, asked[question]) :
           Reply(ValidReply(StatusOfText(valid), reply))
    BY <1>4 DEF AttemptReplies
  <2>3. ValidReply(StatusOfText(valid), reply) \in {NoReply, reply}
    BY DEF ValidReply
  <2> QED
    BY <2>1, <2>2, <2>3, ReplyKeeps
<1>5. CASE GiveUp
  <2>1. ValidReply(status, NoReply) = NoReply
    BY DEF ValidReply
  <2> QED
    BY <1>5, <2>1, ReplyKeeps DEF GiveUp, Asking
<1>6. CASE Done \/ UNCHANGED vars
  BY <1>1, <1>6 DEF Done, vars
<1> QED
  BY <1>2, <1>3, <1>4, <1>5, <1>6 DEF Next

\* Whatever the model replies, the transcript of a step is in order: every reply answers a
\* question the code asked, no question is open that has one, each lookup goes through its
\* chain of questions over one list, the second round of a finance question begins where
\* the first found nothing, and the answer is what the code says of all of it
\* (execute_non_finance_read_step, execute_finance_lookup_step, the inbox executors).
THEOREM TranscriptHolds == Spec => []IInv
<1>1. Init => IInv
  BY InitHolds
<1>2. IInv /\ [Next]_vars => IInv'
  BY NextKeeps
<1> QED
  BY <1>1, <1>2, PTL DEF Spec

-----------------------------------------------------------------------------
(* What an answer says *)

LEMMA Statuses ==
  /\ Clarify.status = "clarify" /\ Blocked.status = "blocked" /\ Raised.status = "raised"
  /\ \A found : Resolved(found).status = "done"
  /\ \A st, chosen, about, refs : /\ Answer(st, chosen, about, refs).status = st
                                  /\ Answer(st, chosen, about, refs).chosen = chosen
                                  /\ Answer(st, chosen, about, refs).about = about
                                  /\ Answer(st, chosen, about, refs).refs = refs
  /\ None.status = "none"
BY DEF Clarify, Blocked, Raised, Resolved, Answer, None

LEMMA Actions ==
  /\ \A to, attachments : LET draft == Draft(w, q.item, to, attachments)
                          IN draft.status = "draft" /\ draft.to = to /\ draft.attachments = attachments
  /\ \A record : [turn |-> "answer", status |-> "payment", record |-> record].status = "payment"
  /\ \A targets : [turn |-> "answer", status |-> "writes", targets |-> targets].status = "writes"
BY DEF Draft

\* A step that has an answer has ended, and the answer is what the code says.
LEMMA AnswerOf ==
  ASSUME IInv, answer # None
  PROVE  answer = Turn /\ answer.turn # "ask" /\ \A stage, shown, text : answer # Ask(stage, shown, text)
<1>1. answer = Turn /\ answer.turn # "ask"
  BY DEF IInv, AnswerIsTurn
<1>2. \A stage, shown, text : Ask(stage, shown, text).turn = "ask"
  BY DEF Ask
<1> QED
  BY <1>1, <1>2

\* A lookup that picks one record clarifies, raises where there is no account to ask, or
\* gives an answer that is meant and cited.
LEMMA LookupAnswer ==
  ASSUME IInv, answer # None, q.kind \in ChainKinds
  PROVE  \/ answer = Clarify
         \/ answer = Raised /\ q.kind = "contact_lookup" /\ Len(w.contacts) = 1
         \/ \E chosen, about, refs : /\ answer = Answer("done", chosen, about, refs)
                                     /\ MeansOne(LookupList, chosen, about) /\ Cites(about, refs)
<1>1. SoundTurn(answer, LookupList)
  BY AnswerOf, LookupSound DEF IInv
<1>2. OpenEnd(answer, LookupList) => answer = Clarify
  BY AnswerOf DEF OpenEnd
<1> QED
  BY <1>1, <1>2 DEF SoundTurn

LEMMA QueueAnswer ==
  ASSUME IInv, answer # None, q.kind = "queue_state_lookup"
  PROVE  \/ answer = Clarify
         \/ \E refs : answer = Answer("done", refs, refs, refs) /\ Cites(refs, refs)
<1>1. QueueTurn(answer)
  BY AnswerOf, QueueSound DEF IInv
<1> QED
  BY <1>1, AnswerOf DEF QueueTurn

LEMMA FinanceAnswer ==
  ASSUME IInv, answer # None, q.kind = "finance_lookup"
  PROVE  \/ answer \in {Clarify, Blocked}
         \/ FellBack
         \/ \E found : /\ answer = Resolved(found) /\ Backed(w.records, found)
                       /\ Intended.action = "counterparty_total" => OneOfParty(w.records, found.of)
<1>1. FinanceTurn(answer)
  BY AnswerOf, FinanceSound DEF IInv
<1>2. ~ \E stage \in StageNames \ DOMAIN replies : \E shown : answer = Ask(stage, shown, TaskText)
  BY AnswerOf
<1> QED
  BY <1>1, <1>2 DEF FinanceTurn, FellBack

LEMMA FinanceStatus ==
  ASSUME IInv, answer # None, q.kind = "finance_lookup"
  PROVE  answer.status \in {"clarify", "blocked", "done"}
<1>1. FinanceTurn(answer)
  BY AnswerOf, FinanceSound DEF IInv
<1>2. ~ \E stage \in StageNames \ DOMAIN replies : \E shown : answer = Ask(stage, shown, TaskText)
  BY AnswerOf
<1>3. \/ answer = Clarify \/ answer = Blocked
      \/ \E refs : answer = Answer("done", {}, {}, refs)
      \/ \E found : answer = Resolved(found)
  BY <1>1, <1>2 DEF FinanceTurn
<1> QED
  BY <1>3, Statuses

LEMMA InboxAnswer ==
  ASSUME IInv, answer # None, q.kind = "inbox"
  PROVE  \/ answer \in {Clarify, Blocked, Answer("task", {}, {}, {}), Answer("cleared", {}, {}, {})}
         \/ /\ ~q.item.injected
            /\ \/ \E attachments : answer = Draft(w, q.item, q.item.sender, attachments) /\ MayAttach(attachments)
               \/ \E verdict \in GivenVerdicts : answer # Clarify /\ PaymentTurn(answer, verdict.request)
               \/ \E verdict \in GivenVerdicts : /\ verdict.decision = "ingest" /\ answer # Clarify /\ ~Asks(answer)
                                                 /\ WriteTurn(answer, IngestRequest(verdict.request))
<1>1. InboxTurn(answer)
  BY AnswerOf, InboxSound DEF IInv
<1>2. ~Asks(answer)
  BY AnswerOf DEF Asks
<1> QED
  BY <1>1, <1>2 DEF InboxTurn, DraftTurn

LEMMA PaymentStatus ==
  ASSUME NEW asks, PaymentTurn(answer, asks), answer # Clarify
  PROVE  answer.status = "payment"
<1>1. PICK record : answer = [turn |-> "answer", status |-> "payment", record |-> record]
  BY DEF PaymentTurn
<1> QED
  BY <1>1

LEMMA WriteStatus ==
  ASSUME NEW asks, WriteTurn(answer, asks), answer # Clarify, ~Asks(answer)
  PROVE  answer.status = "writes"
<1>1. PICK targets : answer = [turn |-> "answer", status |-> "writes", targets |-> targets]
  BY DEF WriteTurn
<1> QED
  BY <1>1

LEMMA InboxStatus ==
  ASSUME IInv, answer # None, q.kind = "inbox"
  PROVE  answer.status \in {"clarify", "blocked", "task", "cleared", "draft", "payment", "writes"}
BY InboxAnswer, PaymentStatus, WriteStatus, Statuses, Actions

\* A lookup sets nothing off.
LEMMA OnlyInboxActs ==
  ASSUME IInv, answer # None, answer.status \in {"draft", "payment", "writes"}
  PROVE  q.kind = "inbox"
<1>1. q.kind \notin ChainKinds
  BY LookupAnswer, Statuses
<1>2. q.kind # "queue_state_lookup"
  BY QueueAnswer, Statuses
<1>3. q.kind # "finance_lookup"
  BY FinanceStatus
<1> QED
  BY <1>1, <1>2, <1>3, CommandKinds DEF IInv

\* A path picked from the list a lookup shows is one a reply picked from those it was shown.
LEMMA PickedIsShown ==
  ASSUME IInv, q.kind \in ChainKinds, NEW c, PickedFrom(LookupList, c)
  PROVE  c \in PickedPaths
<1>1. PICK s \in DOMAIN replies : /\ s \in BothStages /\ replies[s].parsed /\ replies[s].index \in DOMAIN LookupList
                                  /\ LookupList[replies[s].index].path = c
  BY DEF PickedFrom
<1>2. asked[s] = [n \in DOMAIN LookupList |-> LookupList[n].path]
  BY DEF IInv, ChainAsked, Transcript
<1>3. s \in PickStages /\ s \notin SubsetStages
  BY <1>1 DEF BothStages, PickStages, SubsetStages
<1> DEFINE Of_(t) == LET reply == replies[t] IN
             CASE ~reply.parsed \/ t \notin PickStages \union SubsetStages -> {}
               [] reply.parsed /\ t \in SubsetStages ->
                    IF reply.confidence = "low" THEN {}
                    ELSE {asked[t][n] : n \in Range(reply.indices) \intersect DOMAIN asked[t]}
               [] reply.parsed /\ t \in PickStages -> IF reply.index \in DOMAIN asked[t] THEN {asked[t][reply.index]} ELSE {}
<1>4. replies[s].index \in DOMAIN asked[s] /\ asked[s][replies[s].index] = c
  BY <1>1, <1>2
<1>5. c \in Of_(s)
  BY <1>1, <1>3, <1>4
<1>6. PickedPaths = UNION {Of_(t) : t \in DOMAIN replies}
  BY DEF PickedPaths
<1> HIDE DEF Of_
<1> QED
  BY <1>5, <1>6

-----------------------------------------------------------------------------
(* The invariants of the run *)

LEMMA NoGuessHolds ==
  ASSUME IInv
  PROVE  NoGuess
<1> DEFINE Meant(c) == \/ c \in PickedPaths \union Paths(Lone(Candidates))
                       \/ \E f \in Paths(Lone(Fitting)) : f = c \/ SharesKey(f, c)
                       \/ q.kind = "contact_lookup" /\ q.role # "direct"
<1>1. SUFFICES ASSUME Answered, q.kind # "finance_lookup", ~Collective
               PROVE  /\ \A c \in answer.chosen : Meant(c)
                      /\ \A a \in answer.about : \E c \in answer.chosen : a = c \/ SharesKey(a, c)
  BY DEF NoGuess
<1>2. answer # None /\ answer.status = "done"
  BY <1>1 DEF Answered, Concluded
<1>3. q.kind \in ChainKinds
  <2>1. q.kind # "queue_state_lookup"
    BY <1>1 DEF Collective
  <2>2. q.kind # "inbox"
    BY <1>2, InboxStatus
  <2> QED
    BY <1>1, <2>1, <2>2, CommandKinds DEF IInv
<1>4. PICK chosen, about, refs : answer = Answer("done", chosen, about, refs) /\ MeansOne(LookupList, chosen, about)
  BY <1>2, <1>3, LookupAnswer, Statuses
<1>5. answer.chosen = chosen /\ answer.about = about
  BY <1>4, Statuses
<1>6. /\ \A c \in chosen : MeantBy(LookupList, c)
      /\ \A a \in about : \E c \in chosen : a = c \/ SharesKey(a, c)
  BY <1>1, <1>4 DEF MeansOne
<1>7. ASSUME NEW c, MeantBy(LookupList, c)
      PROVE  Meant(c)
  BY <1>3, <1>7, PickedIsShown DEF MeantBy
<1> HIDE DEF Meant
<1> QED
  BY <1>5, <1>6, <1>7

LEMMA PartyTotalsHold ==
  ASSUME IInv
  PROVE  PartyTotals
<1> DEFINE summed == {r \in Candidates : r.path \in answer.about}
<1>1. SUFFICES ASSUME Answered, q.kind = "finance_lookup", Intended.action = "counterparty_total"
               PROVE  \E party \in PartiesOf(Candidates) :
                        summed = {r \in Candidates : Totalled(r) /\ r.cp = party.cp /\ r.type = party.type}
  BY DEF PartyTotals, Intended
<1>2. answer # None /\ answer.status = "done" /\ ~FellBack
  BY <1>1 DEF Answered, Concluded
<1>3. PICK found : /\ answer = Resolved(found) /\ Backed(w.records, found)
                   /\ OneOfParty(w.records, found.of)
  BY <1>1, <1>2, FinanceAnswer, Statuses
<1>4. Candidates = Range(w.records)
  BY <1>1 DEF Candidates
<1>5. answer.about = Paths(found.of)
  BY <1>3, Statuses DEF Resolved
<1>6. \A r, s \in Range(w.records) : r.path = s.path => r = s
  BY WorkspaceHolds DEF IInv, RecordsDiffer, Range
<1> DEFINE of == found.of
<1>7. of \subseteq Candidates /\ answer.about = Paths(of) /\ OneOfParty(w.records, of)
  BY <1>3, <1>4, <1>5 DEF Backed
<1> HIDE DEF of
<1>8. summed = of
  BY <1>4, <1>6, <1>7 DEF Paths
<1> HIDE DEF summed
<1> QED
  BY <1>4, <1>7, <1>8 DEF OneOfParty

LEMMA GroundedHolds ==
  ASSUME IInv
  PROVE  Grounded
<1>1. ASSUME Answered
      PROVE  Cites(answer.about, answer.refs)
  <2>1. answer # None /\ answer.status = "done" /\ ~FellBack
    BY <1>1 DEF Answered, Concluded
  <2>2. CASE q.kind \in ChainKinds
    BY <2>1, <2>2, LookupAnswer, Statuses
  <2>3. CASE q.kind = "queue_state_lookup"
    BY <2>1, <2>3, QueueAnswer, Statuses
  <2>4. CASE q.kind = "finance_lookup"
    <3>1. PICK found : answer = Resolved(found) /\ Backed(w.records, found)
      BY <2>1, <2>4, FinanceAnswer, Statuses
    <3>2. answer.about = Paths(found.of) /\ answer.refs = found.refs
      BY <3>1, Statuses DEF Resolved
    <3>3. Loaded = Paths(Range(w.records))
      BY <2>4 DEF Loaded, Candidates
    <3>4. Paths(found.of) # {}
      BY <3>1 DEF Backed, Paths
    <3> QED
      BY <3>1, <3>2, <3>3, <3>4 DEF Backed, Cites
  <2>5. CASE q.kind = "inbox"
    BY <2>1, <2>5, InboxStatus
  <2> QED
    BY <2>2, <2>3, <2>4, <2>5, CommandKinds DEF IInv
<1>2. ASSUME Concluded("raised")
      PROVE  q.kind = "contact_lookup" /\ Len(w.contacts) = 1
  <2>1. answer # None /\ answer.status = "raised"
    BY <1>2 DEF Concluded
  <2>2. CASE q.kind \in ChainKinds
    BY <2>1, <2>2, LookupAnswer, Statuses
  <2>3. q.kind # "queue_state_lookup"
    BY <2>1, QueueAnswer, Statuses
  <2>4. q.kind # "inbox"
    BY <2>1, InboxStatus
  <2>5. q.kind # "finance_lookup"
    BY <2>1, FinanceStatus
  <2> QED
    BY <2>2, <2>3, <2>4, <2>5, CommandKinds DEF IInv
<1> QED
  BY <1>1, <1>2 DEF Grounded, Cites

LEMMA DraftsHold ==
  ASSUME IInv, Concluded("draft")
  PROVE  /\ answer.to = q.item.sender /\ answer.attachments # <<>>
         /\ SelfAddressed(q.item) \/ \E e \in Range(w.cast) :
               /\ e.email = q.item.sender /\ Len(answer.attachments) = 1
               /\ e.person \/ \A f \in Range(w.cast) : f.email = e.email => f = e
               /\ LinkedTo(answer.attachments[1], e)
<1>1. answer # None /\ answer.status = "draft" /\ q.kind = "inbox"
  BY OnlyInboxActs DEF Concluded
<1>2. PICK attachments : answer = Draft(w, q.item, q.item.sender, attachments) /\ MayAttach(attachments)
  <2>1. \A asks : PaymentTurn(answer, asks) /\ answer # Clarify => answer.status = "payment"
    BY PaymentStatus
  <2>2. \A asks : WriteTurn(answer, asks) /\ answer # Clarify /\ ~Asks(answer) => answer.status = "writes"
    BY WriteStatus
  <2> QED
    BY <1>1, <2>1, <2>2, InboxAnswer, Statuses
<1>3. answer.to = q.item.sender /\ answer.attachments = attachments
  BY <1>2, Actions
<1> QED
  BY <1>2, <1>3 DEF MayAttach

LEMMA PaymentsHold ==
  ASSUME IInv, Concluded("payment")
  PROVE  \E verdict \in GivenVerdicts :
            /\ verdict.request.evidence
            /\ answer.record \in Range(w.records)
            /\ \A r \in Range(w.records) \ {answer.record} :
                  LET asks == verdict.request
                  IN \/ asks.type \notin {"any", r.type} \/ asks.cp \notin {"", r.cp} \/ asks.ref \notin {"", r.ref}
                     \/ asks.date \notin {Absent, r.date} \/ asks.amount \notin {Absent, r.total}
<1>1. answer # None /\ answer.status = "payment" /\ q.kind = "inbox"
  BY OnlyInboxActs DEF Concluded
<1>2. PICK verdict \in GivenVerdicts : answer # Clarify /\ PaymentTurn(answer, verdict.request)
  <2>1. \A asks : WriteTurn(answer, asks) /\ answer # Clarify /\ ~Asks(answer) => answer.status = "writes"
    BY WriteStatus
  <2> QED
    BY <1>1, <2>1, InboxAnswer, Statuses, Actions
<1> DEFINE asks == verdict.request
<1>3. PICK record : /\ answer = [turn |-> "answer", status |-> "payment", record |-> record]
                    /\ asks.evidence /\ record \in Range(w.records)
                    /\ \A r \in Range(w.records) \ {record} :
                          \/ asks.type \notin {"any", r.type} \/ asks.cp \notin {"", r.cp} \/ asks.ref \notin {"", r.ref}
                          \/ asks.date \notin {Absent, r.date} \/ asks.amount \notin {Absent, r.total}
  BY <1>2 DEF PaymentTurn
<1>4. answer.record = record
  BY <1>3
<1> QED
  BY <1>3, <1>4

LEMMA WritesHold ==
  ASSUME IInv, Concluded("writes")
  PROVE  /\ Range(answer.targets) \subseteq w.derivable
         /\ \E verdict \in GivenVerdicts :
               /\ verdict.decision = "ingest"
               /\ MayBeWritten(IngestRequest(verdict.request), answer.targets)
<1>1. answer # None /\ answer.status = "writes" /\ q.kind = "inbox"
  BY OnlyInboxActs DEF Concluded
<1>2. PICK verdict \in GivenVerdicts : /\ verdict.decision = "ingest" /\ answer # Clarify /\ ~Asks(answer)
                                       /\ WriteTurn(answer, IngestRequest(verdict.request))
  <2>1. \A asks : PaymentTurn(answer, asks) /\ answer # Clarify => answer.status = "payment"
    BY PaymentStatus
  <2> QED
    BY <1>1, <2>1, InboxAnswer, Statuses, Actions
<1> DEFINE asks == IngestRequest(verdict.request)
<1>3. PICK targets : /\ answer = [turn |-> "answer", status |-> "writes", targets |-> targets]
                     /\ Range(targets) \subseteq w.derivable
                     /\ MayBeWritten(asks, targets)
  BY <1>2 DEF WriteTurn
<1>4. answer.targets = targets
  BY <1>3
<1> QED
  BY <1>2, <1>3, <1>4

LEMMA SendersHold ==
  ASSUME IInv
  PROVE  OnlyWhatSenderMay
<1>1. answer.status \in {"draft", "payment", "writes"} => ~q.item.injected
  <2>1. SUFFICES ASSUME answer.status \in {"draft", "payment", "writes"}
                 PROVE  ~q.item.injected
    OBVIOUS
  <2>2. answer # None
    BY <2>1, Statuses
  <2> QED
    BY <2>1, <2>2, OnlyInboxActs, InboxAnswer, Statuses
<1> QED
  BY <1>1, DraftsHold, PaymentsHold, WritesHold DEF OnlyWhatSenderMay

LEMMA QuestionsHold ==
  ASSUME IInv
  PROVE  QuestionsAreNew
BY NamesOfQuestions DEF IInv, Transcript, Asking, QuestionsAreNew

-----------------------------------------------------------------------------
(* The theorems *)

\* No guess: a record a lookup takes the command to mean is the only one its words fit,
\* the only one there is, or one a reply picked from those it was shown, and the value is
\* of that record or of one that shares a key with it (task_routing/resolvers.py,
\* application/queries, record_selector.py) - for every workspace and every reply.
THEOREM StepGuessesNothing == Spec => []NoGuess
<1>1. IInv => NoGuess
  BY NoGuessHolds
<1> QED
  BY <1>1, TranscriptHolds, PTL

\* A counterparty's total is the total of all records of one party, whether the command,
\* an anchor the model picked or a line item named it, in the first round or the second
\* (application/queries/finance_lookup.py, finance_read_step.py).
THEOREM StepTotalsOneParty == Spec => []PartyTotals
<1>1. IInv => PartyTotals
  BY PartyTotalsHold
<1> QED
  BY <1>1, TranscriptHolds, PTL

\* What is answered is cited: an answer cites loaded records alone, among them the records
\* its value is of or ones that share a key with them, and a lookup raises only where the
\* contact asked for is the only one (the refs of query_read_step.py and finance_read_step.py).
THEOREM StepIsGrounded == Spec => []Grounded
<1>1. IInv => Grounded
  BY GroundedHolds
<1> QED
  BY <1>1, TranscriptHolds, PTL

\* What an inbox item sets off is its sender's to ask for, whatever the model makes of the
\* body: the mail goes back to the sender with what is linked to the one entity of that
\* address, the payment is of the one record with all the marks, and the documents are
\* rewritten all or not at all (inbox_policy.py, invoice_email.py, finance_payment.py,
\* finance_document_ingest.py).
THEOREM StepObeysSender == Spec => []OnlyWhatSenderMay
<1>1. IInv => OnlyWhatSenderMay
  BY SendersHold
<1> QED
  BY <1>1, TranscriptHolds, PTL

\* No question is asked twice: a stage that has a reply, or whose attempts were used up, is
\* not open again (the loops of record_selector.py and the executors).
THEOREM StepAsksOnce == Spec => []QuestionsAreNew
<1>1. IInv => QuestionsAreNew
  BY QuestionsHold
<1> QED
  BY <1>1, TranscriptHolds, PTL
=============================================================================
