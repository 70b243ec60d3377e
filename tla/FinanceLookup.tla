----------------------------- MODULE FinanceLookup -----------------------------
(* A question about the finance records: application/executors/finance_read_step.py, *)
(* application/queries/finance_lookup.py and the selections of domain/finance.       *)
(*                                                                                   *)
(* Dates are day numbers and amounts cents, Absent where there is none.  A path is   *)
(* <<directory, file name>>.  The reference number, the alias, the project and the   *)
(* related entity of a record, each matched alike, are its one field ref.            *)
EXTENDS RecordLookup

CONSTANT FallbackLimit   \* records the last question to the model shows

Absent == -1
FinanceActions == {"counterparty_total", "line_item_total", "service_line_total", "record_date", "line_item_count",
                   "record_total", "settlement_status", "settlement_reference", "line_item_price", "line_item_quantity"}
Blocked == Answer("blocked", {}, {}, {})

----------------------------------------------------------------------------
(* domain/finance: which records a request may mean *)

\* the item of that name, if the record has one only
ItemOf(r, name) == Lone({n \in DOMAIN r.items : r.items[n].name = name})
HasItem(r, name) == ItemOf(r, name) # {}
OfType(r, type) == type \in {"any", r.type}
Within(r, range) == r.date # Absent /\ range[1] <= r.date /\ r.date <= range[2]
Totalled(r) == r.total # Absent

\* filter_records_by_identity and select_unique_record_by_identity
Identified(i) == i.cp # "" \/ i.ref # "" \/ i.date # Absent
ByIdentity(R, i) == IF ~Identified(i) THEN {} ELSE
    Lone({r \in R : /\ OfType(r, i.type) /\ i.cp \in {"", r.cp} /\ i.ref \in {"", r.ref}
                    /\ i.date \in {Absent, r.date}})
\* select_unique_record
InPeriod(R, i) == {r \in R : OfType(r, i.type) /\ r.cp = i.cp /\ Within(r, i.range)}
ByPeriod(R, i) == IF i.range = <<>> \/ i.cp = "" THEN {} ELSE Lone(InPeriod(R, i))

Distance(r, date) == IF r.date < date THEN date - r.date ELSE r.date - date
Nearest(S, date) ==
    LET dated == {r \in S : r.date # Absent}
    IN {r \in dated : \A q \in dated : Distance(r, date) <= Distance(q, date)}
\* of two days equally near the earlier one
NearestDay(S, date) == {r \in Nearest(S, date) : \A q \in Nearest(S, date) : r.date <= q.date}

\* select_anchor_record: a path reference is the first record whose path or whose file
\* name it holds; else the only record that fits, else, with the date dropped, the latest
Fits(r, i) == /\ i.item # "" => HasItem(r, i.item)
              /\ i.cp \in {"", r.cp} /\ i.ref \in {"", r.ref}
Anchor(records, i) ==
    LET R == Range(records)
        named == {n \in DOMAIN records : i.path # <<>> /\ records[n].path[2] = i.path[2]}
        fitting == {r \in R : /\ Fits(r, i) /\ i.range # <<>> => Within(r, i.range)
                              /\ i.date \in {Absent, r.date}}
        relaxed == {r \in R : Fits(r, i) /\ r.date # Absent}
    IN IF named # {} THEN {records[Min(named)]}
       ELSE IF fitting = {} /\ i.date # Absent
       THEN Lone({r \in relaxed : \A q \in relaxed : q.date <= r.date})
       ELSE Lone(fitting)
UsesAnchor(i) == i.path # <<>> \/ i.ref # ""

----------------------------------------------------------------------------
(* amounts *)

\* LineItem.value_for_fields: the quantity; the price, by division where it is absent
Quantity(item) == item.qty
Price(item) ==
    CASE item.unit # Absent -> item.unit
      [] item.unit = Absent /\ item.line # Absent /\ item.qty > 0 -> item.line \div item.qty
      [] OTHER -> item.line
\* what an item cost: where line and unit times quantity differ, the one equal to the
\* total of the record; a line equal to the unit price counts as a missing line
ItemAmount(r, item) ==
    LET derived == IF item.unit # Absent /\ item.qty # Absent THEN item.unit * item.qty ELSE Absent
        odd == derived # Absent /\ derived # item.line
    IN CASE item.line = Absent -> IF derived # Absent THEN derived ELSE item.unit
         [] item.line # Absent /\ odd /\ r.total = derived -> derived
         [] item.line # Absent /\ odd /\ r.total # item.line /\ item.qty > 1 /\ item.line = item.unit -> derived
         [] OTHER -> item.line

\* the matches <<record, amount>>: the only one, or by the date the only one of that day,
\* else the only nearest
Valued(S, name, measure) ==
    LET Item(r) == r.items[The(ItemOf(r, name))]
        Value(r) == CASE measure = "amount" -> ItemAmount(r, Item(r))
                      [] measure = "price" -> Price(Item(r))
                      [] measure = "quantity" -> Quantity(Item(r))
    IN {m \in {<<r, Value(r)>> : r \in {q \in S : HasItem(q, name)}} : m[2] # Absent}
BestMatch(M, date) ==
    LET records == {m[1] : m \in M}
        exact == {r \in records : r.date = date}
        best == CASE Cardinality(M) = 1 -> records
                  [] Cardinality(M) # 1 /\ date = Absent -> {}
                  [] Cardinality(M) # 1 /\ date # Absent /\ exact # {} -> Lone(exact)
                  [] OTHER -> Lone(Nearest(records, date))
    IN {m \in M : m[1] \in best}

\* numeric_match_score: the hints met by the numbers of an item, each hint once
Score(item, hints) ==
    LET values == <<item.qty, item.unit, item.line>>
        Count(s, v) == Cardinality({n \in DOMAIN s : s[n] = v})
        Met(v) == IF Count(values, v) < Count(hints, v) THEN Count(values, v) ELSE Count(hints, v)
    IN FoldSet(LAMBDA v, n : n + Met(v), 0, Range(hints))

----------------------------------------------------------------------------
(* the counterparty, type and records an item alone stands for *)

PartiesOf(S) == {[cp |-> r.cp, type |-> r.type] : r \in S}
Scored(base, i) ==
    LET score == [r \in base |-> Score(r.items[The(ItemOf(r, i.item))], i.hints)]
    IN IF i.hints = <<>> THEN {} ELSE {r \in base : score[r] > 0 /\ \A q \in base : score[q] <= score[r]}
Infer(R, i) ==
    LET having == {r \in R : HasItem(r, i.item)}
        OnDay == {r \in having : i.date # Absent /\ r.date = i.date}
        Among(base) == LET best == Scored(base, i)
                       IN IF Lone(PartiesOf(best)) # {} THEN best
                          ELSE IF Lone(PartiesOf(base)) # {} THEN base ELSE {}
    IN UNION {Among(IF dated # {} THEN dated ELSE having) : dated \in {OnDay}}

\* what a query returns: {} or one of these; refs are the paths it cites
Found(amount, of, refs) == {[amount |-> amount, of |-> of, refs |-> refs]}
Single(S, amount) == IF S = {} THEN {} ELSE Found(amount, S, Paths(S))

AnchorFor(records, i) == IF UsesAnchor(i) THEN Anchor(records, i) ELSE {}
\* the records of the counterparty named, if they are of one type
\* MUTANT of OneParty: bills and invoices of a counterparty are added up
AnyParty(named) == named
OneParty(named) == IF Lone(PartiesOf(named)) # {} THEN named ELSE {}

\* records without a total are left out of a total
CounterpartyTotal(records, i) ==
    LET R == Range(records)
        OfParty(S) == {r \in R : Totalled(r) /\ \E a \in S : r.cp = a.cp /\ r.type = a.type}
        Named == OneParty({r \in R : r.cp = i.cp /\ OfType(r, i.type) /\ Totalled(r)})
        Sum(matching, inferred) ==
            IF matching = {} THEN {}
            ELSE Found(MapThenSumSet(LAMBDA r : r.total, matching), matching, Paths(matching \union inferred))
        Inferred(inferred) == Sum({r \in OfParty(inferred) : OfType(r, i.type)}, inferred)
        Anchored(anchor) == IF anchor # {} THEN Sum(OfParty(anchor), {})
                            ELSE IF i.cp # "" THEN Sum(Named, {})
                            ELSE IF i.item = "" THEN {}
                            ELSE UNION {Inferred(inferred) : inferred \in {Infer(R, i)}}
    IN UNION {Anchored(anchor) : anchor \in {AnchorFor(records, i)}}

LineItemTotal(records, i) ==
    LET R == Range(records)
        Named == OneParty({r \in R : r.cp = i.cp /\ OfType(r, i.type) /\ HasItem(r, i.item)})
        Like(S) == {r \in R : /\ OfType(r, i.type) /\ HasItem(r, i.item)
                              /\ \E a \in S : r.cp = a.cp /\ r.type = a.type}
        Match(S) == BestMatch(Valued(S, i.item, "amount"), i.date)
        First(near, inferred, matching) ==
            LET M == IF near # {} THEN near ELSE IF inferred # {} THEN inferred ELSE matching
            IN IF M = {} THEN {} ELSE Single({The(M)[1]}, The(M)[2])
        Near(matching) == IF i.date = Absent \/ NearestDay(matching, i.date) = {} THEN matching
                          ELSE NearestDay(matching, i.date)
        OfItem(inferred) == IF Like(inferred) = {} THEN {}
                            ELSE UNION {First(M, Match(inferred), M) : M \in {Match(Like(inferred))}}
        OfNamed(named) == UNION {First(Match(Near(named)), {}, M) : M \in {Match(named)}}
        OfAnchor(anchor) == IF anchor # {} THEN UNION {First(M, {}, M) : M \in {Match(anchor)}}
                            ELSE IF i.cp # "" THEN UNION {OfNamed(named) : named \in {Named}}
                            ELSE UNION {OfItem(inferred) : inferred \in {Infer(R, i)}}
    IN IF i.item = "" THEN {} ELSE UNION {OfAnchor(anchor) : anchor \in {AnchorFor(records, i)}}

\* every item of the name on the invoices since a day
ServiceTotal(R, i) ==
    LET Amount(item) == IF item.line # Absent THEN item.line ELSE item.unit
        Sold(r) == {n \in DOMAIN r.items : r.items[n].name = i.item /\ Amount(r.items[n]) # Absent}
        matching == {r \in R : r.type = "invoice" /\ r.date >= i.since /\ Sold(r) # {}}
        Revenue(r) == MapThenSumSet(LAMBDA n : Amount(r.items[n]), Sold(r))
    IN IF i.item = "" \/ i.since = Absent \/ matching = {} THEN {}
       ELSE Found(MapThenSumSet(Revenue, matching), matching, Paths(matching))

\* the price or the quantity of an item: by the date, else of the latest record
ItemValue(R, i) ==
    LET S == {r \in R : /\ OfType(r, IF i.type = "any" THEN "bill" ELSE i.type)
                        /\ r.cp = i.cp /\ Within(r, i.range) /\ HasItem(r, i.item)}
        measure == IF i.action = "line_item_quantity" THEN "quantity" ELSE "price"
        Latest(M) == {m \in M : \A n \in M : n[1].date < m[1].date \/ (n[1].date = m[1].date /\ n[2] <= m[2])}
        Match(M) == IF BestMatch(M, i.date) # {} THEN BestMatch(M, i.date) ELSE Latest(M)
        Only(match) == IF match = {} THEN {} ELSE Single({The(match)[1]}, The(match)[2])
    IN UNION {Only(Match(M)) : M \in {Valued(S, i.item, measure)}}

\* resolve_finance_lookup_query
Query(records, i) ==
    LET R == Range(records)
        period == ByPeriod(R, i)
        one == IF ByIdentity(R, i) # {} THEN ByIdentity(R, i) ELSE period
    IN CASE i.action = "counterparty_total" -> CounterpartyTotal(records, i)
         [] i.action = "line_item_total" -> LineItemTotal(records, i)
         [] i.action = "service_line_total" -> ServiceTotal(R, i)
         [] i.action = "record_date" -> IF period = {} THEN {} ELSE Single(period, The(period).date)
         [] i.action = "line_item_count" -> IF period = {} THEN {} ELSE Single(period, Len(The(period).items))
         [] i.action = "record_total" -> IF one = {} THEN {}
               ELSE IF Totalled(The(one)) THEN Single(one, The(one).total) ELSE {}
         [] i.action = "settlement_status" -> Single(ByIdentity(R, i), 0)
         [] i.action = "settlement_reference" -> Single({r \in ByIdentity(R, i) : r.settled}, 0)
         [] i.action \in {"line_item_price", "line_item_quantity"} ->
               IF i.item = "" \/ i.range = <<>> \/ i.cp = "" THEN {} ELSE ItemValue(R, i)

----------------------------------------------------------------------------
(* execute_finance_lookup_step *)

\* the action of a price and of a total differ where a quantity makes them differ: the
\* model says which is meant
Switchable(records, i) ==
    LET S == {r \in Range(records) : OfType(r, i.type) /\ i.cp \in {"", r.cp} /\ HasItem(r, i.item)}
        near == IF i.date # Absent /\ Cardinality(S) > 1 THEN NearestDay(S, i.date) ELSE {}
    IN /\ i.action \in {"line_item_price", "line_item_total"} /\ i.item # ""
       /\ \E r \in (IF near # {} THEN near ELSE S) :
             LET item == r.items[The(ItemOf(r, i.item))]
             IN item.qty > 1 /\ item.unit # Absent /\ item.line # Absent /\ item.unit # item.line

\* the only record whose file name the task names
NamedInTask(q, records) == Lone({r \in Range(records) : r.path[2] = q.named})
\* the records a model picks an anchor from
AnchorCandidates(records, i) ==
    LET S == {r \in Range(records) : /\ OfType(r, i.type) /\ i.cp \in {"", r.cp}
                                     /\ i.item # "" => HasItem(r, i.item)}
        near == IF i.date # Absent /\ Cardinality(S) > 1 THEN Nearest(S, i.date) ELSE {}
        narrowed == IF near # {} THEN near ELSE S
    IN IF narrowed = {} THEN records ELSE Kept(records, narrowed)

\* what the anchor adds to the intent
Enriched(i, anchor, records) ==
    LET R == {r \in Range(records) : r.path = anchor}
        added == i.cp = "" \/ i.date = Absent \/ i.path = <<>>
    IN IF R = {} \/ ~added THEN i
       ELSE [i EXCEPT !.cp = IF @ = "" THEN The(R).cp ELSE @,
                      !.date = IF @ = Absent THEN The(R).date ELSE @,
                      !.path = IF @ = <<>> THEN anchor ELSE @,
                      !.type = IF @ = "any" THEN The(R).type ELSE @]

\* one round: settle the action, settle the anchor, query; stages names its questions.
\* Here and below {F(x) : x \in {e}} evaluates e once.
Queried(records, i, anchor) ==
    [turn |-> "queried", anchor |-> anchor,
     found |-> UNION {Query(records, enriched) : enriched \in {Enriched(i, anchor, records)}}]
Anchored(records, i, known, named, candidates, stage, replies) ==
    LET picked == IF stage \in DOMAIN replies THEN Picked(candidates, replies[stage], Confident) ELSE {}
    IN CASE known # <<>> -> Queried(records, i, known)
         [] known = <<>> /\ named # {} -> Queried(records, i, The(named).path)
         [] known = <<>> /\ named = {} /\ candidates # <<>> /\ stage \notin DOMAIN replies ->
               Ask(stage, candidates, TaskText)
         [] OTHER -> Queried(records, i, IF picked # {} THEN The(picked).path ELSE <<>>)
Settled(i, switch, stage, replies) ==
    IF switch /\ replies[stage].parsed THEN [i EXCEPT !.action = replies[stage].action] ELSE i
Round(q, records, intent, known, stages, replies) ==
    IF Switchable(records, intent) /\ stages[1] \notin DOMAIN replies
    THEN Ask(stages[1], <<>>, TaskText)
    ELSE The({Anchored(records, i, known, NamedInTask(q, records), AnchorCandidates(records, i), stages[2], replies) :
                 i \in {Settled(intent, Switchable(records, intent), stages[1], replies)}})

Resolved(found) == Answer("done", Paths(found.of), Paths(found.of), found.refs)
\* the last resort: the model answers itself, and cites what it likes
Fallback(records, reply) ==
    CASE ~reply.parsed -> Clarify
      [] reply.parsed /\ reply.decision = "refuse" -> Blocked
      [] reply.parsed /\ reply.decision = "answer" /\ reply.text -> Answer("done", {}, {}, reply.refs)
      [] OTHER -> Clarify

LastResort(records, replies) ==
    IF records = <<>> THEN Clarify
    ELSE IF "fallback" \notin DOMAIN replies THEN Ask("fallback", Listed(records, FallbackLimit), TaskText)
    ELSE Fallback(records, replies["fallback"])
AfterSecond(records, second, replies) ==
    IF second.turn = "ask" THEN second
    ELSE IF second.found # {} THEN Resolved(The(second.found)) ELSE LastResort(records, replies)
\* the intent is extracted again, the anchor kept
AfterFirst(q, records, first, replies) ==
    IF first.turn = "ask" THEN first
    ELSE IF first.found # {} THEN Resolved(The(first.found))
    ELSE IF "reextract" \notin DOMAIN replies THEN Ask("reextract", <<>>, TaskText)
    ELSE IF ~replies["reextract"].parsed THEN LastResort(records, replies)
    ELSE The({AfterSecond(records, second, replies) :
                 second \in {Round(q, records, replies["reextract"].intent, first.anchor,
                                   <<"switch 2", "anchor 2">>, replies)}})
FinanceStep(q, records, replies) ==
    The({AfterFirst(q, records, first, replies) :
            first \in {Round(q, records, q.intent, q.intent.path, <<"switch 1", "anchor 1">>, replies)}})
=============================================================================
