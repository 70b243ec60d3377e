---------------------------- MODULE StepResolution ----------------------------
(* One step that needs an answer: a lookup of the request or the oldest item of  *)
(* the inbox.  The code runs on, deterministically, until it needs the model     *)
(* (RecordLookup, FinanceLookup, InboxItem say when); every question is then     *)
(* attempted until the gateway has a reply or gives up, and the code runs on     *)
(* with what the caller kept of it.  A structured provider parses the reply in   *)
(* each attempt, a text provider afterwards.                                     *)
EXTENDS InboxItem

CONSTANTS Workspaces,   \* the loaded records w of a few workspaces, by name
          Commands,     \* the commands q
          Verdicts,     \* what the model may write of an item
          Reintents,    \* what the model may make of a finance question
          ForeignRef,   \* a path no loaded record has
          MostSelected  \* records a reply that selects some names at most

\* a listing is in the order of the paths; no two finance records are read from one file
Listings(v) == <<v.cast, v.projects, v.accounts, v.contacts, v.messages, v.captures, v.queue, v.records>>
WorkspacesAssumption ==
    \A name \in DOMAIN Workspaces :
       LET v == Workspaces[name]
       IN /\ \A n \in 1..8 : Listings(v)[n] \in Seq(Range(Listings(v)[n]))
          /\ \A r, s \in DOMAIN v.records : v.records[r].path = v.records[s].path => r = s
          /\ \A r \in DOMAIN v.records : v.records[r].date \in Int

IsIntent(i) == "action" \in DOMAIN i /\ i.action \in FinanceActions
CommandsAssumption ==
    /\ \A c \in Commands :
          /\ c.kind \in {"account_lookup", "contact_lookup", "capture_lookup", "project_query", "entity_query",
                         "message_query", "queue_state_lookup", "finance_lookup", "inbox"}
          /\ c.kind = "project_query" => c.variant \in {"scalar", "involvement"}
          /\ c.kind = "finance_lookup" => IsIntent(c.intent)
    /\ \A i \in Reintents : IsIntent(i)

VerdictsAssumption ==
    \A v \in Verdicts : /\ v.parsed = TRUE /\ v.decision \in Decisions
                        /\ v.request.kind \in {"resend", "bundle", "none"} /\ v.request.count \in Nat
                        /\ v.request.paths \in Seq(Range(v.request.paths))

ASSUME StepAssumption ==
    /\ WorkspacesAssumption /\ CommandsAssumption /\ VerdictsAssumption
    /\ IngestLimit \in Nat \ {0} /\ MostSelected \in Nat

VARIABLES q, workspace, structured, asked, replies, question, attempts, status, answer
vars == <<q, workspace, structured, asked, replies, question, attempts, status, answer>>

None == [turn |-> "none", status |-> "none"]
\* question is where the step is: at a question to the model, or at one of these
Running == "running"
Ended == "ended"

\* one more entry of what was said so far; what was said stays
With(f, key, value) == [k \in DOMAIN f \union {key} |-> IF k \in DOMAIN f THEN f[k] ELSE value]

w == Workspaces[workspace]
Turn == CASE q.kind = "inbox" -> InboxStep(q, w, replies)
          [] q.kind = "finance_lookup" -> FinanceStep(q, w.records, replies)
          [] q.kind \notin {"inbox", "finance_lookup"} -> Lookup(q, w, replies)

\* what a reply may say of the n records shown: any of them, none (0), one that was not
\* shown, and this with any confidence
PickStages == {"first", "second", "anchor 1", "anchor 2", "entity 1", "entity 2", "entity 3", "entity 4"}
SubsetStages == {"some", "hint", "records", "family"}
Picks(n) == [parsed : {TRUE}, index : 0 .. n + 1, confidence : {"high"}]
            \union [parsed : {TRUE}, index : {1}, confidence : {"low"}]
Subsets(n) ==
    [parsed : {TRUE}, confidence : {"high"}, indices : UNION {[1 .. k -> 1 .. n + 1] : k \in 0 .. MostSelected}]
    \union [parsed : {TRUE}, confidence : {"low"}, indices : {<<1>>}]
StageNames == PickStages \union SubsetStages
              \union {"switch 1", "switch 2", "reextract", "fallback", "classify", "classify again"}
RepliesTo(stage, shown) ==
    CASE stage \in {"switch 1", "switch 2"} ->
            [parsed : {TRUE}, action : {"line_item_price", "line_item_total"}]
      [] stage = "reextract" -> [parsed : {TRUE}, intent : Reintents]
      [] stage = "fallback" ->
            [parsed : {TRUE}, decision : {"answer", "clarify", "refuse"}, text : BOOLEAN, refs : {{}, {ForeignRef}}]
      \* a verdict that breaks the contract fails the attempt
      [] stage \in {"classify", "classify again"} -> {v \in Verdicts : Contract(v)}
      [] stage \in SubsetStages -> Subsets(Len(shown))
      [] OTHER -> Picks(Len(shown))

Init ==
    /\ q \in Commands /\ workspace \in DOMAIN Workspaces /\ structured \in BOOLEAN
    /\ asked = [s \in {} |-> <<>>] /\ replies = [s \in {} |-> NoReply]
    /\ question = Running /\ attempts = 0 /\ status = "none" /\ answer = None

----------------------------------------------------------------------------
\* the code runs on to its next question or to its answer
RunOn ==
    /\ question = Running
    /\ \E turn \in {Turn} :
          IF turn.turn = "ask"
          THEN /\ question' = turn.stage
               /\ asked' = With(asked, turn.stage, [n \in DOMAIN turn.shown |-> turn.shown[n].path])
               /\ UNCHANGED answer
          ELSE answer' = turn /\ question' = Ended /\ UNCHANGED asked
    /\ UNCHANGED <<q, workspace, structured, replies, attempts, status>>

Reply(reply) ==
    /\ replies' = With(replies, question, reply)
    /\ question' = Running /\ attempts' = 0 /\ status' = "none"
    /\ UNCHANGED <<q, workspace, structured, asked, answer>>

\* MUTANT of AttemptFails: a rate limit starts the attempts anew
RateLimitRestarts ==
    /\ question \notin {Running, Ended} /\ attempts < MaxAttempts
    /\ \E error \in AttemptErrors(structured) :
          /\ status' = StatusOfError(error)
          /\ attempts' = IF error = "rate_limit" THEN 0 ELSE attempts + 1
    /\ UNCHANGED <<q, workspace, structured, asked, replies, question, answer>>
AttemptFails ==
    /\ question \notin {Running, Ended} /\ attempts < MaxAttempts
    /\ \E error \in AttemptErrors(structured) : status' = StatusOfError(error)
    /\ attempts' = attempts + 1
    /\ UNCHANGED <<q, workspace, structured, asked, replies, question, answer>>

AttemptReplies ==
    /\ question \notin {Running, Ended} /\ attempts < MaxAttempts
    /\ \E valid \in (IF structured THEN {TRUE} ELSE BOOLEAN) :
       \E reply \in RepliesTo(question, asked[question]) : Reply(ValidReply(StatusOfText(valid), reply))

\* after the last attempt the error of that attempt is raised
GiveUp ==
    /\ question \notin {Running, Ended} /\ attempts = MaxAttempts
    /\ Reply(ValidReply(status, NoReply))

Done == question = Ended /\ UNCHANGED vars

Next == RunOn \/ AttemptFails \/ AttemptReplies \/ GiveUp \/ Done
\* One thread runs the step, and every call of the client returns or raises.  RunOn is
\* enabled and moves question wherever question is Running: its fairness is stated by that.
Spec == /\ Init /\ [][Next]_vars
        /\ WF_question(question = Running /\ question' \in StageNames \union {Ended})
        /\ WF_vars(AttemptFails \/ AttemptReplies \/ GiveUp)

----------------------------------------------------------------------------
(* properties *)

Concluded(verdict) == answer # None /\ answer.status = verdict
FellBack == "fallback" \in DOMAIN replies
Answered == Concluded("done") /\ ~FellBack

\* the lists the records of an answer come from
Candidates ==
    CASE q.kind \in {"entity_query", "message_query"} -> Range(w.cast)
      [] q.kind = "project_query" -> Range(IF q.variant = "involvement" THEN w.cast ELSE w.projects)
      [] q.kind = "account_lookup" -> Range(w.accounts)
      [] q.kind = "contact_lookup" -> Range(w.contacts)
      [] q.kind = "queue_state_lookup" -> Range(w.queue)
      [] q.kind = "capture_lookup" -> Range(w.captures)
      [] q.kind = "finance_lookup" -> Range(w.records)
      [] OTHER -> {}
Loaded == IF q.kind = "finance_lookup" THEN Paths(Candidates)
          ELSE CrmRefs \union UNION {Paths(Range(list)) : list \in {w.cast, w.projects, w.messages, w.captures, w.queue}}
\* the paths of the records a reply with enough confidence picked from those shown
PickedPaths ==
    UNION {LET reply == replies[s] IN
           CASE ~reply.parsed \/ s \notin PickStages \union SubsetStages -> {}
             [] reply.parsed /\ s \in SubsetStages ->
                  IF reply.confidence = "low" THEN {}
                  ELSE {asked[s][n] : n \in Range(reply.indices) \intersect DOMAIN asked[s]}
             [] reply.parsed /\ s \in PickStages -> IF reply.index \in DOMAIN asked[s] THEN {asked[s][reply.index]} ELSE {}
           : s \in DOMAIN replies}
\* the records the words of the command fit
Fitting ==
    CASE q.kind = "project_query" /\ q.variant = "scalar" -> NamedProjects(w, q.text)
      [] q.kind = "capture_lookup" -> {c \in Candidates : c.day = q.day}
      [] OTHER -> {r \in Candidates : q.text \in r.terms}
SharesKey(a, c) == \E r, s \in Candidates : r.path = a /\ s.path = c /\ r.keys \intersect s.keys # {}
\* a command that asks for all records, for the earliest, or for the user's own
Collective ==
    \/ q.kind = "queue_state_lookup"
    \/ q.kind = "entity_query" /\ (q.self \/ q.variant = "aggregate")
    \/ q.kind = "project_query" /\ q.property = "start_date" /\ q.variant = "scalar"

\* No guess: a record a lookup takes the command to mean is the only one its words fit,
\* the only one there is, or one the model picked; and the value is that of the record
\* meant or of one that shares a slug, an id, a title or an alias with it.
NoGuess ==
    LET Meant(c) == \/ c \in PickedPaths \union Paths(Lone(Candidates))
                    \/ \E f \in Paths(Lone(Fitting)) : f = c \/ SharesKey(f, c)
                    \/ q.kind = "contact_lookup" /\ q.role # "direct"
    IN Answered /\ q.kind # "finance_lookup" /\ ~Collective =>
          /\ \A c \in answer.chosen : Meant(c)
          /\ \A a \in answer.about : \E c \in answer.chosen : a = c \/ SharesKey(a, c)

\* A total over a counterparty is a total of one party: every record that has a total and
\* the counterparty and the type of one of them is in it, whoever named the party - the
\* command, an anchor of the model's, a line item - and no other record is.
PartyTotals ==
    LET intent == IF "reextract" \in DOMAIN replies /\ replies["reextract"].parsed
                     THEN replies["reextract"].intent ELSE q.intent
        summed == {r \in Candidates : r.path \in answer.about}
    IN Answered /\ q.kind = "finance_lookup" /\ intent.action = "counterparty_total" =>
          \E party \in PartiesOf(Candidates) :
              summed = {r \in Candidates : Totalled(r) /\ r.cp = party.cp /\ r.type = party.type}

\* Every answer cites the records its value was taken from, or one that shares a key with
\* it, and nothing that was not
\* loaded, unless the model gave the answer itself; a lookup is answered or clarified, and
\* raises only where it is asked for the contact while there is exactly one.
Grounded ==
    /\ Answered => /\ answer.refs # {} /\ answer.refs \subseteq Loaded
                   /\ \/ \A a \in answer.about : \E c \in answer.refs : a = c \/ SharesKey(a, c)
                      \/ q.kind \in {"account_lookup", "contact_lookup"}
    /\ Concluded("raised") => q.kind = "contact_lookup" /\ Len(w.contacts) = 1

GivenVerdicts == {replies[s] : s \in {t \in {"classify", "classify again"} \intersect DOMAIN replies : replies[t].parsed}}

NamedBy(asks, target) ==
    \/ target \in Range(asks.paths)
    \/ /\ target \in Paths(Range(w.records))
       /\ \E p \in Range(asks.paths) : NameVariants(p[2]) \intersect NameVariants(target[2]) # {}
LinkedRecord(asks, e, target) ==
    \E r \in Range(w.records) : r.path = target /\ LinkedTo(r, e) /\ OfType(r, asks.type)
MayBeWritten(asks, targets) ==
    IF asks.paths # <<>> THEN \A target \in Range(targets) : NamedBy(asks, target)
    ELSE /\ \E e \in Range(w.cast) : \A target \in Range(targets) : LinkedRecord(asks, e, target)
         /\ asks.family # "" \/ Len(targets) <= IngestLimit

\* What an inbox item sets off is its sender's to ask for.  A draft goes back to the
\* sender, with one invoice linked to the entity of that address - the person, where it is
\* shared -, unless the user wrote the item; a payment is evidenced and no other
\* record has all the marks asked for; a document is written only when all of them were read and
\* have their fields, and is one the request names, or the only record that shares its
\* name, or else a record of the type asked for and linked to one entity of the cast, and
\* those are few unless they are of one family.
OnlyWhatSenderMay ==
    /\ answer.status \in {"draft", "payment", "writes"} => ~q.item.injected
    /\ Concluded("draft") =>
          /\ answer.to = q.item.sender /\ answer.attachments # <<>>
          /\ SelfAddressed(q.item) \/ \E e \in Range(w.cast) :
                /\ e.email = q.item.sender /\ Len(answer.attachments) = 1
                /\ e.person \/ \A f \in Range(w.cast) : f.email = e.email => f = e
                /\ LinkedTo(answer.attachments[1], e)
    /\ Concluded("payment") =>
          \E verdict \in GivenVerdicts :
              /\ verdict.request.evidence
              /\ answer.record \in Range(w.records)
              /\ \A r \in Range(w.records) \ {answer.record} :
                    LET asks == verdict.request
                    IN \/ asks.type \notin {"any", r.type} \/ asks.cp \notin {"", r.cp} \/ asks.ref \notin {"", r.ref}
                       \/ asks.date \notin {Absent, r.date} \/ asks.amount \notin {Absent, r.total}
    /\ Concluded("writes") =>
          /\ Range(answer.targets) \subseteq w.derivable
          /\ \E verdict \in GivenVerdicts :
                /\ verdict.decision = "ingest"
                /\ MayBeWritten(IngestRequest(verdict.request), answer.targets)

\* No question is asked twice: what the model has answered, or failed to answer, is settled.
QuestionsAreNew == question \notin DOMAIN replies

\* Whatever the provider does, a step ends: every question has a last attempt, and no
\* question is asked twice.
StepEnds == <>(question = Ended)
=============================================================================
