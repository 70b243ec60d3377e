------------------------------- MODULE InboxItem -------------------------------
(* What becomes of the oldest inbox item: the classification of its body         *)
(* (task_routing/inbox_classifier.py), the policy on the verdict (application/   *)
(* workflows/inbox_policy.py) and the plans of the three deterministic workflows *)
(* (application/executors/invoice_email.py, finance_payment.py,                  *)
(* finance_document_ingest.py).                                                  *)
(*                                                                               *)
(* Like a lookup it is a function of the item, the loaded records w and the      *)
(* replies so far.  w.records are finance records as in FinanceLookup, in the    *)
(* order of their paths; ref is also the related entity and what a hint or a     *)
(* family reference names.  The file name of a path is <<prefix, base>>, the     *)
(* prefix "" or "_" or one that ends in a double underscore.                     *)
EXTENDS FinanceLookup

CONSTANT IngestLimit   \* documents one item may have rewritten without naming a family

----------------------------------------------------------------------------
(* the sender *)

SelfAddressed(item) == item.sender # "" /\ item.to = {item.sender}
\* resolve_sender_canonical_entity: of several that share the address a person
CanonicalSender(w, item) ==
    LET mail == {e \in Range(w.cast) : item.sender # "" /\ e.email = item.sender}
    IN IF Lone(mail) # {} THEN mail ELSE Lone({e \in mail : e.person})
\* finance_record_matches_entity
LinkedTo(r, e) == r.ref # "" /\ r.ref \in e.links

----------------------------------------------------------------------------
(* the invoices of an e-mail *)

Invoices(w) == Kept(w.records, {r \in Range(w.records) : r.type = "invoice"})
\* by date, then by path
Earlier(r, s) == r.date < s.date
ByDate(records, S) == Sorted(Kept(records, S), Earlier)
\* the sequence picked, repetitions and all, in that order
Ordered(records, picked) ==
    LET Before(r, s) == \E a, b \in DOMAIN records :
            /\ records[a] = r /\ records[b] = s
            /\ \/ Earlier(r, s)
               \/ r.date = s.date /\ a < b
    IN Sorted(picked, Before)
Slice(ordered, request) ==
    LET n == IF Len(ordered) < request.count THEN Len(ordered) ELSE request.count
    IN IF request.mode = "latest" THEN SubSeq(ordered, Len(ordered) - n + 1, Len(ordered))
       ELSE SubSeq(ordered, 1, n)

\* a dated request with no invoice of that day is tried with day and month swapped
ResendMatches(w, request) ==
    LET OfDay(day) == {r \in Range(Invoices(w)) : r.cp = request.cp /\ (request.mode = "dated" => r.date = day)}
    IN IF OfDay(request.date) = {} /\ request.mode = "dated" /\ request.alternate # Absent
       THEN OfDay(request.alternate) ELSE OfDay(request.date)
Hinted(S, hint) == {r \in S : r.ref = hint}

\* select_outbox_channel_for_invoices: channels are paths here, their kind unknown
ChannelOf(w, item, S) ==
    LET naming == {c \in w.channels : \E r \in S : {r.cp, r.ref} \intersect c.terms # {}}
    IN CASE item.channel # "" -> {item.channel}
         [] item.channel = "" /\ Cardinality(w.channels) = 1 -> Paths(w.channels)
         [] OTHER -> Paths(Lone(naming))

Draft(w, item, to, attachments) ==
    [turn |-> "answer", status |-> "draft", to |-> to, attachments |-> attachments,
     channel |-> ChannelOf(w, item, Range(attachments))]
\* a refused plan carries no command, and one without is reported as a clarification
RefusedPlan == Clarify

\* the sender may have what is linked to the entity of that address, the user anything
\* MUTANT of Authorized: a sender known to the workspace may have any invoice
KnownSender(item, sender, r) == SelfAddressed(item) \/ sender # {}
Authorized(item, sender, r) == SelfAddressed(item) \/ LinkedTo(r, The(sender))
\* the record a resend is about, {} if none, once the model has been asked if need be
Resend(w, item, request, replies) ==
    LET sender == CanonicalSender(w, item)
        matches == ResendMatches(w, request)
        hinted == IF Hinted(matches, request.hint) # {} THEN Hinted(matches, request.hint) ELSE matches
        shown == Kept(Invoices(w), hinted)
        asks == matches # {} /\ request.hint # "" /\ Lone(Hinted(matches, request.hint)) = {}
        picked == IF "hint" \in DOMAIN replies THEN PickedSome(shown, replies["hint"], AnyConfidence) ELSE <<>>
        ordered == ByDate(w.records, matches)
        selected == IF asks THEN (IF Len(picked) = 1 THEN picked ELSE <<>>)
                    ELSE IF request.hint # "" THEN shown
                    ELSE IF request.mode = "dated" THEN SubSeq(Kept(w.records, matches), 1, 1)
                    ELSE SubSeq(ordered, Len(ordered), Len(ordered))
    IN IF sender = {} /\ ~SelfAddressed(item) THEN RefusedPlan
       ELSE IF asks /\ "hint" \notin DOMAIN replies THEN Ask("hint", shown, request.hint)
       ELSE IF selected = <<>> \/ matches = {} THEN Clarify
       ELSE IF ~Authorized(item, sender, selected[1]) THEN RefusedPlan
       ELSE Draft(w, item, item.sender, selected)

\* resolve_cast_identity: the only entity the text is a term of
Identity(entities, text) == Lone({e \in Range(entities) : text \in e.terms})
\* an entity the model picks is looked up again by its slug, its id, its title
Reresolved(entities, e) ==
    LET By(field) == IF Keys(e, {field}) = {} THEN {} ELSE Identity(entities, The(Keys(e, {field}))[2])
        fields == Kept(<<"slug", "id", "title">>, {f \in {"slug", "id", "title"} : By(f) # {}})
    IN IF fields = <<>> THEN {} ELSE By(fields[1])
\* the entities whose names an invoice has as its related entity
LinkedEntities(w) ==
    Kept(w.cast, {e \in Range(w.cast) : \E r \in Range(Invoices(w)) : r.ref \in e.canonical})

\* the model is asked about the linked entities, then all, first with the body of the
\* item and then without, until an entity is found
Entity(w, request, replies) ==
    LET linked == LinkedEntities(w)
        every == <<<<"entity 1", linked>>, <<"entity 2", w.cast>>, <<"entity 3", linked>>, <<"entity 4", w.cast>>>>
        questions == Kept(every, {s \in Range(every) : s[2] # <<>>})
        Hit(n) == LET picked == Picked(questions[n][2], replies[questions[n][1]], AnyConfidence)
                  IN UNION {Reresolved(questions[n][2], e) : e \in picked}
        asked == {n \in DOMAIN questions : questions[n][1] \in DOMAIN replies}
        hits == {n \in asked : Hit(n) # {}}
        exact == IF Identity(w.cast, request.text) # {} THEN Identity(w.cast, request.text)
                 ELSE Identity(linked, request.text)
    IN IF exact # {} THEN [turn |-> "found", entity |-> exact]
       ELSE IF hits # {} THEN [turn |-> "found", entity |-> Hit(Min(hits))]
       ELSE IF asked # DOMAIN questions
       THEN LET next == Min(DOMAIN questions \ asked) IN Ask(questions[next][1], questions[next][2], request.text)
       ELSE [turn |-> "found", entity |-> {}]

Bundle(w, item, request, replies) ==
    LET entity == Entity(w, request, replies)
        linked == {r \in Range(Invoices(w)) : entity.entity # {} /\ LinkedTo(r, The(entity.entity))}
        chosen == IF linked # {} THEN ByDate(w.records, linked)
                  ELSE IF "records" \in DOMAIN replies
                  THEN Ordered(w.records, PickedSome(Invoices(w), replies["records"], AnyConfidence)) ELSE <<>>
        slice == Slice(chosen, request)
    IN IF ~SelfAddressed(item) THEN RefusedPlan
       ELSE IF entity.turn = "ask" THEN entity
       ELSE IF linked = {} /\ "records" \notin DOMAIN replies THEN Ask("records", Invoices(w), request.text)
       ELSE IF slice = <<>> THEN Clarify
       ELSE Draft(w, item, item.sender, IF request.order = "chronological" THEN slice ELSE Reverse(slice))

InvoiceEmail(w, item, request, replies) ==
    CASE Invoices(w) = <<>> -> Clarify
      [] Invoices(w) # <<>> /\ request.kind = "resend" -> Resend(w, item, request, replies)
      [] Invoices(w) # <<>> /\ request.kind = "bundle" -> Bundle(w, item, request, replies)

----------------------------------------------------------------------------
(* a payment, the metadata of documents *)

\* the only record with all the marks of the request, and complete evidence
Payment(w, request) ==
    LET fitting == {r \in Range(w.records) : /\ OfType(r, request.type) /\ request.cp \in {"", r.cp}
                                             /\ request.ref \in {"", r.ref} /\ request.date \in {Absent, r.date}
                                             /\ request.amount \in {Absent, r.total}}
    IN IF Lone(fitting) = {} \/ ~request.evidence THEN Clarify
       ELSE [turn |-> "answer", status |-> "payment", record |-> The(fitting)]

\* the names a file name holds
NameVariants(name) == {name, <<"", name[2]>>}
Unprefixed(name) == IF name[1] = "_" THEN <<"", name[2]>> ELSE name
\* two of the paths named mean one record
Colliding(w, paths) ==
    LET Target(p) ==
            LET alike == {n \in DOMAIN w.records : Unprefixed(w.records[n].path[2]) = Unprefixed(p[2])}
            IN IF p \in Paths(Range(w.records)) \/ alike = {} THEN p ELSE w.records[Max(alike)].path
    IN Cardinality({Target(paths[n]) : n \in DOMAIN paths}) # Len(paths)
\* the file a path is read from: itself, or the only record that shares a name with it
Readable(w, p) ==
    LET alike == {q \in Paths(Range(w.records)) : NameVariants(p[2]) \intersect NameVariants(q[2]) # {}}
    IN IF p \notin Paths(Range(w.records)) /\ Cardinality(alike) = 1 THEN The(alike) ELSE p
\* nothing is planned unless every document, a loaded record or not, was read and has its fields
Ingest(w, paths) ==
    LET targets == [n \in DOMAIN paths |-> Readable(w, paths[n])]
    IN IF Range(targets) \subseteq w.derivable
       THEN [turn |-> "answer", status |-> "writes", targets |-> targets] ELSE Clarify

\* those of the family; if none is the model selects some, each kept once
Family(shown, request, replies) ==
    LET matched == Kept(shown, {r \in Range(shown) : r.ref = request.family})
    IN IF request.family = "" THEN shown
       ELSE IF matched # <<>> \/ "family" \notin DOMAIN replies THEN matched
       ELSE PickedSome(shown, replies["family"], AnyConfidence)
AsksFamily(shown, request, replies) ==
    request.family # "" /\ shown # <<>> /\ Family(shown, request, replies) = <<>> /\ "family" \notin DOMAIN replies

NamedDocuments(w, request, replies) ==
    LET records == [n \in DOMAIN w.records |-> w.records[n].path]
        known == Kept(request.paths, Range(records))
        shown == [n \in DOMAIN known |-> The({r \in Range(w.records) : r.path = known[n]})]
        family == Paths(Range(Family(shown, request, replies)))
        narrowed == IF request.family = "" \/ family = {} THEN request.paths
                    ELSE SetToSeq(family)
    IN IF AsksFamily(shown, request, replies) THEN Ask("family", shown, request.family)
       ELSE IF Colliding(w, request.paths) THEN Clarify
       ELSE Ingest(w, narrowed)

\* one document unless all are meant; without a family not many of them
TooMany(request, paths) ==
    IF request.scope = "all" THEN request.family = "" /\ Cardinality(paths) > IngestLimit
    ELSE Cardinality(paths) # 1
EntityDocuments(w, request, replies) ==
    LET picked == IF "entity 1" \in DOMAIN replies THEN Picked(w.cast, replies["entity 1"], AnyConfidence) ELSE {}
        entity == IF Identity(w.cast, request.text) # {} THEN Identity(w.cast, request.text)
                  ELSE UNION {Reresolved(w.cast, e) : e \in picked}
        linked == ByDate(w.records, {r \in Range(w.records) : /\ entity # {} /\ LinkedTo(r, The(entity))
                                                              /\ OfType(r, request.type)})
        matched == Paths(Range(Family(linked, request, replies)))
    IN IF Identity(w.cast, request.text) = {} /\ w.cast # <<>> /\ "entity 1" \notin DOMAIN replies
       THEN Ask("entity 1", w.cast, request.text)
       ELSE IF AsksFamily(linked, request, replies) THEN Ask("family", linked, request.family)
       ELSE IF matched = {} \/ TooMany(request, matched) THEN Clarify
       ELSE Ingest(w, SetToSeq(matched))

----------------------------------------------------------------------------
(* the verdict *)

\* what the schema takes for a request of each kind; a day is Absent
\* where there is none, and a path that names no Markdown file has no base
InvoiceContract(request) ==
    CASE request.kind = "resend" -> /\ request.mode \in {"dated", "latest"} /\ request.cp # ""
                                    /\ request.mode = "dated" => request.date # Absent
      [] request.kind = "bundle" -> request.count > 0 /\ request.text # ""
      [] request.kind = "none" -> FALSE
\* an amount or a type alone says nothing of a payment
PaymentContract(request) == request.cp # "" \/ request.ref # "" \/ request.date # Absent
IngestContract(request) == request.paths # <<>> \/ request.text # ""
\* a verdict carries the request of its decision and no other; a task and only a task
\* carries an intent or a text of its own
Requests == {"invoice_email", "payment", "ingest"}
Decisions == Requests \union {"task", "none", "clarify", "refuse_out_of_scope", "refuse_security"}
Contract(verdict) ==
    /\ verdict.carried = {verdict.decision} \intersect Requests
    /\ (verdict.intent # "" \/ verdict.text) <=> verdict.decision = "task"
    /\ CASE verdict.decision = "invoice_email" -> InvoiceContract(verdict.request)
         [] verdict.decision = "payment" -> PaymentContract(verdict.request)
         [] verdict.decision = "ingest" -> IngestContract(verdict.request)
         [] verdict.decision \notin Requests -> TRUE
\* the request as the workflow takes it: only the paths of Markdown files are kept
IngestRequest(request) == [request EXCEPT !.paths = Kept(@, {p \in Range(@) : p[2][2] # ""})]

\* the policy on a verdict, in front of its execution
PolicyRefuses(w, item, verdict) ==
    /\ verdict.decision = "invoice_email" /\ ~SelfAddressed(item)
    /\ verdict.request.kind = "bundle" \/ CanonicalSender(w, item) = {}
\* a project lookup that also deletes
Mixed(verdict) == verdict.decision = "task" /\ verdict.intent = "project_query" /\ verdict.deletes

DocumentIngest(w, request, replies) ==
    IF ~IngestContract(request) THEN Clarify
    ELSE IF request.paths # <<>> THEN NamedDocuments(w, request, replies) ELSE EntityDocuments(w, request, replies)
Verdict(w, item, verdict, replies) ==
    CASE Mixed(verdict) -> Clarify
      [] PolicyRefuses(w, item, verdict) \/ verdict.decision = "refuse_security" -> Blocked
      [] verdict.decision = "invoice_email" /\ ~PolicyRefuses(w, item, verdict) ->
            InvoiceEmail(w, item, verdict.request, replies)
      [] verdict.decision = "payment" -> Payment(w, verdict.request)
      [] verdict.decision = "ingest" -> DocumentIngest(w, IngestRequest(verdict.request), replies)
      [] verdict.decision = "task" /\ ~Mixed(verdict) -> Answer("task", {}, {}, {})
      [] verdict.decision = "none" -> Answer("cleared", {}, {}, {})
      [] verdict.decision \in {"clarify", "refuse_out_of_scope"} -> Clarify

\* the classifier is asked again, with more room, when its first reply is no verdict
InboxStep(q, w, replies) ==
    LET item == q.item
        given == {s \in {"classify", "classify again"} \intersect DOMAIN replies : replies[s].parsed}
    IN IF ~item.body THEN Clarify
       ELSE IF item.injected THEN Blocked
       ELSE IF given # {} THEN Verdict(w, item, replies[The(given)], replies)
       ELSE IF "classify" \notin DOMAIN replies THEN Ask("classify", <<>>, "body")
       ELSE IF "classify again" \notin DOMAIN replies THEN Ask("classify again", <<>>, "body")
       ELSE Clarify
=============================================================================
