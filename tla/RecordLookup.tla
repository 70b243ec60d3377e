----------------------------- MODULE RecordLookup -----------------------------
(* A lookup of a record that is no finance record: the queries of application/    *)
(* queries, the resolvers behind them and the executor that runs them             *)
(* (application/executors/query_read_step.py).                                    *)
(*                                                                                *)
(* A lookup is a function of the command q, the loaded records w and the replies  *)
(* the model has given so far: a question to the model, or an answer.  A record   *)
(* of w has a path, the terms that name it exactly, keys <<field, value>> by      *)
(* which other code finds it again, and has, the properties it has a value of;    *)
(* lists are in the order of the paths.  What a request to clarify says or cites  *)
(* is left out.                                                                   *)
EXTENDS LanguageModel, FiniteSetsExt, Functions

CONSTANT TaskText   \* the text of the task, which names no record exactly

Ask(stage, shown, text) == [turn |-> "ask", stage |-> stage, shown |-> shown, text |-> text]
\* chosen: the records the request was taken to mean; about: those the value is of
Answer(status, chosen, about, refs) ==
    [turn |-> "answer", status |-> status, chosen |-> chosen, about |-> about, refs |-> refs]
Clarify == Answer("clarify", {}, {}, {})
Raised == Answer("raised", {}, {}, {})
\* MUTANT of Of: the value is returned without its grounding
Uncited(r, has, refs) == IF has THEN Answer("done", {r.path}, {r.path}, {}) ELSE Clarify
Of(r, has, refs) == IF has THEN Answer("done", {r.path}, {r.path}, refs) ELSE Clarify

\* the member of a set that has just one
Lone(S) == {x \in S : S = {x}}
The(S) == CHOOSE r \in S : TRUE
Paths(S) == {r.path : r \in S}

Keys(r, fields) == {k \in r.keys : k[1] \in fields}
\* a loop over the records that returns the first one equal in any of the fields
FirstSharing(records, r, fields) ==
    records[Min({n \in DOMAIN records : \/ records[n].path = r.path
                                        \/ Keys(records[n], fields) \intersect Keys(r, fields) # {}})]

----------------------------------------------------------------------------
(* task_routing/resolvers.py and runtime/ports/resolver_sets.py *)

\* MUTANT of ExactEntity: the first of several entities the text names
FirstEntity(w, text) ==
    {FirstSharing(w.cast, e, {"slug", "id"}) : e \in {f \in Range(w.cast) : text \in f.terms}}
ExactEntity(w, text) ==
    LET named == Lone({e \in Range(w.cast) : text \in e.terms})
    IN {FirstSharing(w.cast, e, {"slug", "id"}) : e \in named}
SelfEntity(w) == Lone({e \in Range(w.cast) : e.relationship = "self"})

\* names and aliases of a project before its aliases of old, those before descriptions
Tier(w, text, tier) == {p \in Range(w.projects) : text \in p.terms[tier]}
NamedProjects(w, text) ==
    LET tiers == {t \in 1..3 : Tier(w, text, t) # {}}
    IN IF tiers = {} THEN {} ELSE Tier(w, text, Min(tiers))
ExactProject(w, text) ==
    {FirstSharing(w.projects, p, {"alias", "title"}) : p \in Lone(NamedProjects(w, text))}

\* ask the model, one text after the other, until it picks one of the records
Texts(first, second) == Kept(IF first = second THEN <<first>> ELSE <<first, second>>, {first, second} \ {""})
Stages == <<"first", "second">>
Chain(shown, texts, accepted, replies) ==
    LET asked == Cardinality(DOMAIN replies)
    IN [hit |-> IF asked = 0 THEN {} ELSE Picked(shown, replies[Stages[asked]], accepted),
        otherwise |-> IF shown # <<>> /\ asked < Len(texts)
                      THEN Ask(Stages[asked + 1], shown, texts[asked + 1])
                      ELSE Clarify]

\* resolve_entity_candidate and resolve_project_subject_candidate ask about the task
\* first, resolve_message_entity_candidate about the words of the command
EntityChain(q, w, texts, replies) ==
    LET exact == IF q.text = "" THEN {} ELSE ExactEntity(w, q.text)
    IN IF exact # {} THEN [hit |-> exact, otherwise |-> Clarify]
       ELSE Chain(w.cast, texts, AnyConfidence, replies)

\* a query goes on with the record it was resolved to
Continue(chain, Then(_)) == IF chain.hit # {} THEN Then(The(chain.hit)) ELSE chain.otherwise

----------------------------------------------------------------------------
(* application/queries: one operator per kind of command *)

\* the next birthday, of every entity that has it that day
Upcoming(w, people) ==
    LET ranked == {e \in Range(w.cast) : e.birthday > 0 /\ (people => e.person)}
    IN {e \in ranked : \A f \in ranked : e.birthday <= f.birthday}
EntityQuery(q, w, replies) ==
    LET Property(e) == Of(e, q.property \in e.has, {e.path}) IN
    IF w.cast = <<>> THEN Clarify
    ELSE IF q.variant = "aggregate"
    THEN LET next == Upcoming(w, q.people) IN
         IF next = {} THEN Clarify ELSE Answer("done", Paths(next), Paths(next), Paths(next))
    ELSE IF q.self /\ SelfEntity(w) # {} THEN Property(The(SelfEntity(w)))
    ELSE Continue(EntityChain(q, w, Texts(TaskText, q.text), replies), Property)

\* the latest message of the entity
LastMessage(w, e) ==
    LET sent == {m \in Range(w.messages) : m.author \intersect e.names # {}}
    IN {m \in sent : \A n \in sent : n.at <= m.at}
MessageQuery(q, w, replies) ==
    LET Message(e) ==
            LET of == FirstSharing(w.cast, e, {"slug", "id"})
                last == LastMessage(w, of)
                refs == Paths(Range(w.cast))
            IN IF last = {} THEN Clarify
               ELSE IF q.property \notin The(last).has THEN Clarify
               ELSE Answer("done", {e.path}, {of.path}, refs \union {The(last).path})
    IN IF w.cast = <<>> THEN Clarify
       ELSE Continue(EntityChain(q, w, Texts(q.text, TaskText), replies), Message)

\* the projects an entity is part of, of the status asked for
Involving(w, e, status) == {p \in Range(w.projects) : /\ p.with \intersect e.involvement # {}
                                                      /\ status \in {"any", p.status}}
Involvement(q, w, replies) ==
    LET Projects(e) ==
            LET of == FirstSharing(w.cast, e, {"slug", "id", "title"})
                found == Involving(w, of, q.status)
            IN IF of.involvement = {} \/ (found = {} /\ q.render # "count") THEN Clarify
               ELSE Answer("done", {e.path}, {of.path}, {e.path} \union Paths(found))
    IN IF w.cast = <<>> \/ w.projects = <<>> THEN Clarify
       ELSE Continue(EntityChain(q, w, Texts(TaskText, q.text), replies), Projects)

\* a start date all projects of the name agree on; else that of the earliest, where a
\* project without a date (0) counts as the earliest
Agreed(named) == /\ Cardinality(named) > 1
                 /\ \A p, r \in named : p.start = r.start /\ p.start # 0
Earliest(w, named) ==
    LET first == {n \in DOMAIN w.projects : /\ w.projects[n] \in named
                                            /\ \A p \in named : w.projects[n].start <= p.start}
    IN IF first = {} THEN {} ELSE {w.projects[Min(first)]}
ProjectProperty(q, w, replies) ==
    LET Value(p) ==
            LET of == FirstSharing(w.projects, p, {"title", "name", "alias"})
                known == IF q.property = "start_date" THEN of.start # 0 ELSE q.property \in of.has
                documents == IF q.property = "start_date" THEN Paths(Range(w.projects)) ELSE {of.path}
            IN IF known THEN Answer("done", {p.path}, {of.path}, documents) ELSE Clarify
        named == NamedProjects(w, q.text)
        first == IF q.property = "start_date" THEN Earliest(w, named) ELSE {}
        exact == ExactProject(w, q.text)
    IN IF w.projects = <<>> \/ q.text = "" THEN Clarify
       ELSE IF q.property = "start_date" /\ Agreed(named)
       THEN Answer("done", Paths(named), Paths(named), Paths(named))
       ELSE IF first # {} THEN Value(The(first))
       ELSE IF exact # {} THEN Value(The(exact))
       ELSE Continue(Chain(w.projects, Texts(TaskText, q.text), AnyConfidence, replies), Value)

----------------------------------------------------------------------------
\* resolve_records: the one row a term of the query names
ExactRow(rows, text) == {r \in Range(rows) : text \in r.terms}
\* the only row there is answers any query
RowOf(rows, text) == IF Len(rows) = 1 THEN Range(rows) ELSE Lone(ExactRow(rows, text))
CrmRefs == {"/accounts.json", "/contacts.json"}

AccountLookup(q, w, replies) ==
    LET Field(a) == Of(a, q.property \in a.has, {"/accounts.json"})
        row == IF q.text = "" THEN {} ELSE RowOf(w.accounts, q.text)
    IN IF row # {} /\ q.property \in The(row).has THEN Field(The(row))
       ELSE Continue(Chain(w.accounts, Texts(q.text, q.text), Confident, replies), Field)

\* the contact in a role of an account, found by its id; none unless it is unique
InRole(w, a, role) == Lone({c \in Range(w.contacts) : c.id = a[role]})
ContactLookup(q, w, replies) ==
    LET Field(c) == Of(c, q.property \in c.has, CrmRefs)
        OfAccount(a) == IF InRole(w, a, q.role) = {} THEN Clarify ELSE Field(The(InRole(w, a, q.role)))
        Typed(a) == FirstSharing(w.accounts, a, {"id", "legal", "display"})
        \* the accounts that share a key with the picked one: with two there is no
        \* resolver to choose, and the answer of the first attempt stands
        Again(a) == LET alike == {b \in Range(w.accounts) : b.path = a.path \/ b.keys \intersect a.keys # {}}
                    IN IF Lone(alike) # {} /\ w.contacts # <<>> THEN OfAccount(The(alike)) ELSE Clarify
        contact == Lone(ExactRow(w.contacts, q.text))
        account == RowOf(w.accounts, q.text)
    IN IF q.role = "direct"
       THEN IF q.text # "" /\ Len(w.contacts) = 1 THEN Raised
            ELSE IF contact # {} /\ q.property \in The(contact).has THEN Field(The(contact))
            ELSE Continue(Chain(w.contacts, Texts(q.text, q.text), Confident, replies), Field)
       ELSE LET found == IF q.text = "" \/ account = {} \/ w.contacts = <<>> THEN Clarify
                         ELSE OfAccount(Typed(The(account)))
            IN IF found.status = "done" THEN found
               ELSE Continue(Chain(w.accounts, Texts(q.text, q.text), Confident, replies), Again)

\* the note of a day; when there are several the user is asked, never the model
CaptureLookup(q, w) ==
    LET noted == {c \in Range(w.captures) : c.day = q.day} IN
    IF Lone(noted) = {} THEN Clarify ELSE Of(The(noted), TRUE, Paths(noted))

\* MUTANT of QueueLookup: a selection of nothing is asked for again
QueueLookupAgain(q, w, replies) ==
    LET found == {e \in Range(w.queue) : q.text \in e.terms}
        Listing(S) == Answer("done", Paths(S), Paths(S), Paths(S))
        picked == IF DOMAIN replies = {} THEN {} ELSE Range(PickedSome(w.queue, replies["some"], Confident))
    IN IF w.queue = <<>> \/ q.text = "" THEN Clarify
       ELSE IF found # {} THEN Listing(found)
       ELSE IF picked = {} THEN Ask("some", w.queue, q.text)
       ELSE Listing(picked)
\* every entry whose text holds the reference; without one the model selects some
QueueLookup(q, w, replies) ==
    LET found == {e \in Range(w.queue) : q.text \in e.terms}
        Listing(S) == Answer("done", Paths(S), Paths(S), Paths(S))
        picked == IF DOMAIN replies = {} THEN {} ELSE Range(PickedSome(w.queue, replies["some"], Confident))
    IN IF w.queue = <<>> \/ q.text = "" THEN Clarify
       ELSE IF found # {} THEN Listing(found)
       ELSE IF DOMAIN replies = {} THEN Ask("some", w.queue, q.text)
       ELSE IF picked = {} THEN Clarify ELSE Listing(picked)

\* execute_non_finance_read_step
Lookup(q, w, replies) ==
    CASE q.kind = "account_lookup" -> AccountLookup(q, w, replies)
      [] q.kind = "contact_lookup" -> ContactLookup(q, w, replies)
      [] q.kind = "capture_lookup" -> CaptureLookup(q, w)
      [] q.kind = "project_query" /\ q.variant = "involvement" -> Involvement(q, w, replies)
      [] q.kind = "project_query" /\ q.variant # "involvement" -> ProjectProperty(q, w, replies)
      [] q.kind = "entity_query" -> EntityQuery(q, w, replies)
      [] q.kind = "message_query" -> MessageQuery(q, w, replies)
      [] q.kind = "queue_state_lookup" -> QueueLookup(q, w, replies)
=============================================================================
