---------------------------- MODULE FinanceLedger ----------------------------
(* The finance records of a workspace under the mutations of one trial:      *)
(* runtime/execution/mutation_execution.py (handle_finance_mutation) with    *)
(* application/mutations/finance_*.py, the document ingest of the inbox, and *)
(* the write-back of runtime/io/mutation_persistence.py.                     *)
(*                                                                           *)
(* A mutation loads the records, plans, reads the file it is going to        *)
(* replace, and writes.  Remote calls raise: a call that raised may have     *)
(* failed, or be applied at once or later (the client gave up waiting).      *)
(* Created files share one day and one rounded amount, so that a path is     *)
(* the record's type, number and alias.  Amounts are counted in quarters of  *)
(* a cent, as in FinanceAggregate; a stored one is a whole number of cents.  *)
EXTENDS FinanceAggregate, FiniteSets

CONSTANTS Aliases,      \* aliases of records, non-empty strings
          ItemNames,    \* names of line items, non-empty strings
          Quantities,   \* quantities of line items, in halves of a unit
          Units,        \* unit prices, in cents
          Amounts,      \* amounts a request may name, in quarters of a cent
          MaxNumber,    \* largest explicit invoice number
          MaxSteps,     \* mutations of the trial
          MaxItems      \* line items of a record

ASSUME LedgerAssumption ==
    /\ Aliases # {} /\ NoText \notin Aliases /\ NoText \notin ItemNames
    /\ Quantities \subseteq Nat \ {0} /\ Units \subseteq Nat /\ Amounts \subseteq Nat
    /\ MaxNumber \in Nat /\ MaxSteps \in Nat /\ MaxItems \in Nat

VARIABLES disk,     \* the finance files: [path -> document]
          late,     \* remote calls the client gave up on and that may still land
          loaded,   \* the records of the context: [path -> record]
          command,  \* the mutation being executed
          todo,     \* the remote writes it still has to make
          reply,    \* status of its answer
          pc, steps,
          \* history
          read,     \* the file an update replaces was read
          settled   \* nothing landed late since the context was loaded

vars == <<disk, late, loaded, command, todo, reply, pc, steps, read, settled>>

Types == {"invoice", "bill"}
Paths == [type : Types, number : Nat, alias : Aliases]
Items == [name : ItemNames, qty : Quantities, unit : Units]
NoFront == [total |-> NoTotal, items |-> <<>>]
NoCommand == [action |-> "none"]

\* loaders/finance.py: the tables of the body win over the frontmatter
Parsed(d) == [d.rec EXCEPT
    !.items = IF @ # <<>> THEN @ ELSE d.front.items,
    !.total = IF @ # NoTotal THEN @ ELSE d.front.total]

\* what lift_finance_metadata copies from the body's tables
Lifted(rec) == [total |-> rec.total, items |-> rec.items]

\* an amount written with two decimals: half a cent goes either way, for the
\* double that stands for it may lie on either side
Down(t) == t - (t % 4)
Rounded(t) == IF t % 4 <= 1 THEN {Down(t)} ELSE {Down(t), Down(t) + 4}
\* an amount stored through Money: half a cent goes up where the double still
\* reads as half a cent
HalfUp(t) == IF t % 4 = 2 THEN {Down(t) + 4} ELSE Rounded(t)
\* what the author of a document wrote for it
Cents(t) == Down(t + 2)

\* MUTANT of Rendered: an update leaves the frontmatter it found
RenderedKeepingFrontmatter(rec, total, c, old) ==
    [rec |-> [rec EXCEPT !.total = total],
     notes |-> IF c.notes # NoText THEN c.notes ELSE old.notes,
     extras |-> old.extras,
     front |-> IF "front" \in DOMAIN old THEN old.front ELSE NoFront]

\* MUTANT of Rendered: a request without notes clears them
RenderedFromRequest(rec, total, c, old) ==
    LET body == [rec EXCEPT !.total = total] IN
    [rec |-> body, notes |-> c.notes, extras |-> old.extras, front |-> Lifted(body)]

\* the file an update renders; notes and sections come from the text it read
Rendered(rec, total, c, old) ==
    LET body == [rec EXCEPT !.total = total] IN
    [rec |-> body,
     notes |-> IF c.notes # NoText THEN c.notes ELSE old.notes,
     extras |-> old.extras,
     front |-> Lifted(body)]
\* what is left of a file that could not be read
Unread == [notes |-> NoText, extras |-> FALSE]

PathOf(rec) == [type |-> rec.type, number |-> rec.number, alias |-> rec.alias]
Put(f, p, d) == [q \in DOMAIN f \union {p} |-> IF q = p THEN d ELSE f[q]]
Drop(f, p) == [q \in DOMAIN f \ {p} |-> f[q]]
Apply(f, w) == IF w.op = "write" THEN Put(f, w.path, w.doc) ELSE Drop(f, w.path)

----------------------------------------------------------------------------
(* Creation *)

\* MUTANT of NextNumber: the count itself
NextNumberOffByOne(recs, alias) ==
    Cardinality({p \in DOMAIN recs : p.type = "invoice" /\ p.alias = alias})

\* invoices the loaded context counts under an alias, plus one
NextNumber(recs, alias) ==
    1 + Cardinality({p \in DOMAIN recs : p.type = "invoice" /\ p.alias = alias})

NumberOf(recs, c) ==
    IF c.action # "create_invoice" THEN 0
    ELSE IF c.number # 0 THEN c.number ELSE NextNumber(recs, c.alias)

\* an explicit amount wins over the line items, free items do not count
CreateAmount(c) ==
    IF c.amount # NoTotal THEN c.amount
    ELSE IF \A k \in DOMAIN c.items : c.items[k].unit = 0 THEN NoTotal
    ELSE ItemsTotal(c.items)

CreateRefusal(c) ==
    IF ~c.dated THEN "requires_date"
    ELSE IF CreateAmount(c) = NoTotal THEN "requires_amount"
    ELSE IF c.alias = NoText THEN "requires_alias"
    ELSE NoText

\* no aggregate checks the composed record, and no frontmatter is lifted
Created(recs, c, total) ==
    LET rec == [type |-> IF c.action = "create_invoice" THEN "invoice" ELSE "bill",
                number |-> NumberOf(recs, c), alias |-> c.alias,
                total |-> total, items |-> c.items,
                state |-> NoText, evidence |-> {}]
    IN [rec |-> rec, notes |-> c.notes, extras |-> FALSE, front |-> NoFront]

----------------------------------------------------------------------------
(* Bulk deletion *)

TextHit(rec, needle) ==
    rec.alias = needle \/ \E k \in DOMAIN rec.items : rec.items[k].name = needle

\* _type_matches compares the printed member of the enumeration of the record,
\* recordtype.invoice, with the value the command gives, invoice: equal only
\* where a command names no type
DeleteCandidates(recs, c) == IF c.type = "any" THEN DOMAIN recs ELSE {}
TextMatches(recs, c) == {p \in DeleteCandidates(recs, c) : TextHit(recs[p], c.needle)}

\* MUTANT of DeleteTargets: a selector, when there is one, decides alone
DeleteTargetsFromSelector(recs, c) ==
    IF c.selector THEN SUBSET DeleteCandidates(recs, c) ELSE {TextMatches(recs, c)}

\* the model is asked only when the text matches nothing
DeleteTargets(recs, c) ==
    IF TextMatches(recs, c) # {} THEN {TextMatches(recs, c)}
    ELSE IF c.selector THEN SUBSET DeleteCandidates(recs, c) ELSE {{}}

----------------------------------------------------------------------------
(* Document ingest *)

\* build_finance_frontmatter_updates derives nothing from an incomplete note
Ingestible(d) == d.rec.total # NoTotal /\ d.rec.items # <<>>
Ingested(d) == [d EXCEPT !.front = Lifted(d.rec)]

----------------------------------------------------------------------------
(* The state machine *)

\* a document of the workspace: a record without items, or with one whose
\* table stands in the body or only in the frontmatter
InitialDoc(type, number, alias, item, inFront) ==
    LET total == Cents(2 * ExactTotal(<<item>>))
        body == [type |-> type, number |-> number, alias |-> alias, state |-> NoText,
                 evidence |-> {}, total |-> total,
                 items |-> IF inFront THEN <<>> ELSE <<item>>]
    IN [rec |-> body, notes |-> "old", extras |-> TRUE,
        front |-> IF inFront THEN [total |-> total, items |-> <<item>>] ELSE NoFront]

Init ==
    /\ \E a \in Aliases, i, j \in Items, inFront \in BOOLEAN :
         LET bill == InitialDoc("bill", 0, a, i, inFront)
             invoice == InitialDoc("invoice", 1, a, j, FALSE)
         IN disk = Put(Put(<<>>, PathOf(bill.rec), bill), PathOf(invoice.rec), invoice)
    /\ late = {} /\ loaded = <<>> /\ command = NoCommand /\ todo = <<>>
    /\ reply = "none" /\ pc = "idle" /\ steps = 0 /\ read = TRUE /\ settled = TRUE

\* a step loads the records it can read
LoadRecords ==
    /\ pc = "idle" /\ steps < MaxSteps
    /\ \E P \in SUBSET DOMAIN disk : loaded' = [p \in P |-> Parsed(disk[p])]
    /\ pc' = "plan" /\ settled' = TRUE /\ reply' = "none" /\ steps' = steps + 1
    /\ UNCHANGED <<disk, late, command, todo, read>>

\* map_mutation_result: the status becomes the decision
Answer(c, status) ==
    /\ command' = NoCommand /\ reply' = status /\ pc' = "idle"
    /\ loaded' = <<>> /\ todo' = <<>> /\ read' = TRUE
    /\ UNCHANGED <<disk, late, steps, settled>>

Begin(c, writes) ==
    /\ command' = c /\ todo' = writes /\ pc' = "write"
    /\ UNCHANGED <<disk, late, loaded, reply, steps, read, settled>>

PlanCreate ==
    /\ pc = "plan"
    /\ \E action \in {"create_invoice", "create_bill"}, alias \in Aliases \union {NoText},
          amount \in Amounts \union {NoTotal}, items \in {<<>>} \union {<<i>> : i \in Items},
          number \in 0..MaxNumber, dated \in BOOLEAN :
         LET c == [action |-> action, alias |-> alias, amount |-> amount, items |-> items,
                   number |-> number, dated |-> dated, notes |-> "new"] IN
         IF CreateRefusal(c) # NoText THEN Answer(c, "clarify_missing")
         ELSE \E total \in HalfUp(CreateAmount(c)) :
              LET d == Created(loaded, c, total) IN
              Begin(c, <<[op |-> "write", path |-> PathOf(d.rec), doc |-> d]>>)

UpdateCommands ==
    [action : {"update", "add_line_item", "remove_line_item", "adjust_amount"} \union BankActions,
     amount : Amounts \union {NoTotal}, item : Items,
     evidence : SUBSET EvidenceParts, authorized : BOOLEAN, notes : {NoText, "new"}]

\* the fields an action does not read are not enumerated
Relevant(c) ==
    /\ c.amount # NoTotal => c.action \in {"update", "adjust_amount"}
    /\ c.action \notin {"add_line_item", "remove_line_item"} =>
         c.item = CHOOSE i \in Items : TRUE

\* the record an update names: by its path, or by criteria only one record meets
Targets == {{p} : p \in DOMAIN loaded} \union {{}}
    \union {UniqueMatch(loaded, crit) :
              crit \in [type : Types \union {"any"}, alias : Aliases \union {NoText}, number : 0..1]}

UpdateRefusal(c) ==
    IF ~c.authorized THEN "blocked"
    ELSE IF GateRefusal(c) = NoText THEN NoText
    ELSE IF GateAction(c) \in BankActions THEN "clarify_missing" ELSE "blocked"

\* the file is read before the gate is evaluated, and a failed read is no error
PlanUpdate ==
    /\ pc = "plan"
    /\ \E c \in UpdateCommands, target \in Targets, readable \in BOOLEAN :
         /\ Relevant(c)
         /\ IF ~c.authorized THEN Answer(c, "blocked")
            ELSE IF target = {} THEN Answer(c, "clarify_missing")
            ELSE \E p \in target :
                 LET outcome == Mutate(loaded[p], c)
                     old == IF readable /\ p \in DOMAIN disk THEN disk[p] ELSE Unread
                 IN IF UpdateRefusal(c) # NoText THEN Answer(c, UpdateRefusal(c))
                    ELSE IF outcome.status # "resolved" THEN Answer(c, outcome.status)
                    ELSE /\ Len(outcome.rec.items) <= MaxItems
                         /\ \E t \in Rounded(outcome.rec.total) :
                              todo' = <<[op |-> "write", path |-> p,
                                         doc |-> Rendered(outcome.rec, t, c, old)]>>
                         /\ command' = c /\ pc' = "write"
                         /\ read' = (readable /\ p \in DOMAIN disk)
                         /\ UNCHANGED <<disk, late, loaded, reply, steps, settled>>

PlanDelete ==
    /\ pc = "plan"
    /\ \E type \in Types \union {"any"}, needle \in Aliases \union ItemNames, selector \in BOOLEAN :
         LET c == [action |-> "bulk_delete", type |-> type, needle |-> needle,
                   selector |-> selector]
         IN \E victims \in DeleteTargets(loaded, c) :
              IF victims = {} THEN Answer(c, "resolved")
              ELSE Begin(c, [k \in 1..Cardinality(victims) |->
                              [op |-> "delete", path |-> SetToSeq(victims)[k]]])

\* every note is read, whether its record was loaded or not, and its
\* frontmatter derived, before the first write
PlanIngest ==
    /\ pc = "plan"
    /\ \E notes \in SUBSET (DOMAIN loaded \union DOMAIN disk), readable \in BOOLEAN :
         IF notes = {} \/ ~readable \/ \E p \in notes : p \notin DOMAIN disk \/ ~Ingestible(disk[p])
         THEN Answer([action |-> "ingest"], "clarify_missing")
         ELSE Begin([action |-> "ingest"],
                    [k \in 1..Cardinality(notes) |->
                      LET p == SetToSeq(notes)[k]
                      IN [op |-> "write", path |-> p, doc |-> Ingested(disk[p])]])

Finish(status) ==
    /\ command' = NoCommand /\ reply' = status /\ pc' = "idle" /\ loaded' = <<>>
    /\ todo' = <<>> /\ read' = TRUE

Proceed ==
    IF Len(todo) = 1 THEN Finish("resolved")
    ELSE todo' = Tail(todo) /\ UNCHANGED <<command, reply, pc, loaded, read>>

WriteSucceeds ==
    /\ pc = "write"
    /\ disk' = Apply(disk, Head(todo))
    /\ Proceed
    /\ UNCHANGED <<late, steps, settled>>

\* a call that raised is swallowed by a mutation and stops an ingest
WriteRaises ==
    /\ pc = "write"
    /\ late' \in {late, late \union {Head(todo)}}
    /\ IF command.action = "ingest" THEN Finish("blocked") ELSE Proceed
    /\ UNCHANGED <<disk, steps, settled>>

LateWriteLands ==
    /\ \E w \in late : disk' = Apply(disk, w) /\ late' = late \ {w}
    /\ settled' = FALSE
    /\ UNCHANGED <<loaded, command, todo, reply, pc, steps, read>>

Ended == pc = "idle" /\ steps = MaxSteps /\ late = {} /\ UNCHANGED vars

Next == \/ LoadRecords \/ PlanCreate \/ PlanUpdate \/ PlanDelete \/ PlanIngest
        \/ WriteSucceeds \/ WriteRaises \/ LateWriteLands \/ Ended

Spec == Init /\ [][Next]_vars
----------------------------------------------------------------------------
(* Properties *)

Records == [type : Types, number : Nat, alias : Aliases, total : Int,
            items : Seq(Items), state : {NoText, "settled"}, evidence : SUBSET EvidenceParts]
Documents == [rec : Records, notes : {NoText, "old", "new"}, extras : BOOLEAN,
              front : [total : Int, items : Seq(Items)]]
Writes == [op : {"write"}, path : Paths, doc : Documents] \union [op : {"delete"}, path : Paths]
Ledger(f, S) == DOMAIN f \subseteq Paths /\ \A p \in DOMAIN f : f[p] \in S

\* Every variable keeps its kind: files are documents, pending calls are writes
\* of documents or deletions.
TypeOK ==
    /\ Ledger(disk, Documents) /\ Ledger(loaded, Records)
    /\ late \subseteq Writes /\ todo \in Seq(Writes)
    /\ reply \in {"none", "resolved", "clarify_missing", "blocked"}
    /\ pc \in {"idle", "plan", "write"} /\ steps \in 0..MaxSteps
    /\ read \in BOOLEAN /\ settled \in BOOLEAN

\* The payment gate and the aggregate together (finance_update_bill.py,
\* _evaluate_payment_gate_for_update): no file ever carries a part of the
\* settlement evidence without the rest, or is settled without it, whichever
\* updates wrote it, however late.
CompleteEvidence(rec) ==
    /\ rec.evidence \in {{}, EvidenceParts}
    /\ rec.state = "settled" => rec.evidence = EvidenceParts
EvidenceComplete == \A p \in DOMAIN disk : CompleteEvidence(disk[p].rec)

WritesBy(actions) == pc = "write" /\ command.action \in actions /\ disk' # disk /\ late' = late
UpdateActions == {"update", "add_line_item", "remove_line_item", "adjust_amount"} \union BankActions

\* A record an update has written is accepted by the aggregate when it is
\* loaded again (aggregate.py, _validate: the total is the sum of the items):
\* an update makes a record that no later update can touch only if its items
\* add up to half a cent, which a written total cannot say, or if the doubles
\* they are added as miss the whole cents they add up to.
UpdatedRecordsReload ==
    [][WritesBy(UpdateActions) =>
        LET new == Parsed(disk'[Head(todo).path])
        IN ItemsTotal(new.items) % 4 = 0 => Refusal(new) = NoText]_vars

\* README.MD, the invariants of the finance aggregate: a record's total is the
\* sum of its line items, whichever mutation wrote it.
EveryWriteReloads ==
    [][WritesBy(UpdateActions \union {"create_invoice", "create_bill"})
        => Refusal(Parsed(disk'[Head(todo).path])) = NoText]_vars

\* An update changes the fields its action is about and no others, although it
\* replaces the whole file from a record loaded earlier (finance_update_bill.py,
\* _resolve_aggregate_write_plan), unless a call landed late in between.
NamedFieldsOnly ==
    [][WritesBy(UpdateActions) /\ settled =>
        LET p == Head(todo).path
            old == Parsed(disk[p])
            new == Parsed(disk'[p])
        IN /\ old.state # new.state => command.action \in BankActions
           /\ old.evidence # new.evidence => command.action \in BankActions \union {"update"}
           /\ old.items # new.items => command.action \in {"add_line_item", "remove_line_item"}
           /\ old.total # new.total =>
                command.action \in {"update", "adjust_amount", "add_line_item", "remove_line_item"}]_vars

\* The notes and the other sections of a file survive an update that could read
\* them and does not replace the notes (finance_markdown.py).
SectionsSurvive ==
    [][WritesBy(UpdateActions) /\ settled /\ read =>
        LET p == Head(todo).path
        IN /\ disk'[p].extras = disk[p].extras
           /\ command.notes = NoText => disk'[p].notes = disk[p].notes]_vars

\* finance_bulk_delete.py, comment of the fallback: what the text matches is the
\* ceiling of a bulk deletion whenever it matches anything.  The records a
\* command means, of its type and with its text, bound what it deletes as soon
\* as there is one, the answer of the selector included.
Meant(recs, c) == {p \in DOMAIN recs :
    c.type \in {"any", recs[p].type} /\ TextHit(recs[p], c.needle)}
DeletionCeiling ==
    [][WritesBy({"bulk_delete"}) /\ Meant(loaded, command) # {} =>
        DOMAIN disk \ DOMAIN disk' \subseteq Meant(loaded, command)]_vars

\* A counted invoice number (finance_create_record.py, _resolve_invoice_number)
\* names no stored file as long as the numbers of its alias have no gap, all
\* of them were loaded and nothing landed late: creating overwrites nothing.
Numbers(alias) == {p.number : p \in {q \in DOMAIN disk : q.type = "invoice" /\ q.alias = alias}}
Gapless(alias) == Numbers(alias) = 1..Cardinality(Numbers(alias))
CountedNumberFresh ==
    [][WritesBy({"create_invoice"}) /\ command.number = 0 /\ settled
        /\ Gapless(command.alias) /\ DOMAIN loaded = DOMAIN disk
       => Head(todo).path \notin DOMAIN disk]_vars
=============================================================================
