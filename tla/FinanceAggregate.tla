-------------------------- MODULE FinanceAggregate --------------------------
(* The finance record and its aggregate, as operators: domain/finance/       *)
(* aggregate.py with the payment gate of gates.py and the identity match of  *)
(* record_resolution.py.  An operation returns [status, reason, rec]; a      *)
(* refusal is the FinanceAggregateError of the code.                         *)
(*                                                                           *)
(* Quantities are counted in halves of a unit, prices in cents, totals in    *)
(* quarters of a cent.  An even count is an exact amount, half a cent being  *)
(* the smallest; an odd one is a sum of doubles that misses its decimal      *)
(* value, the exact sum of the items being one quarter below it.  Only       *)
(* whether two amounts are equal and where one is rounded to is ever asked,  *)
(* so that neither the size nor the side of a miss matters.  The three       *)
(* pieces of settlement evidence are kept as the set of those present.       *)
EXTENDS Integers, Sequences, SequencesExt

CONSTANT Drifting   \* the item lists whose sum of doubles misses its decimal value

NoTotal == -1
\* the empty text: no reason, no alias, no notes
NoText == ""
EvidenceParts == {"reference", "channel", "date"}
BankActions == {"mark_paid", "settle_payment"}

\* aggregate.py, _validated_line_item: an item without a quantity or a price
\* is kept out of the record
ItemRefusal(i) ==
    IF i.name = NoText THEN "line_item_missing"
    ELSE IF i.qty <= 0 THEN "quantity_invalid"
    ELSE IF i.unit < 0 THEN "unit_price_invalid"
    ELSE NoText

\* the decimal sum of the items, in halves of a cent
ExactTotal(items) ==
    LET sum[k \in 0..Len(items)] ==
          IF k = 0 THEN 0 ELSE sum[k - 1] + items[k].qty * items[k].unit
    IN sum[Len(items)]

\* _line_items_total: the items are added as doubles and nothing rounds the sum
ItemsTotal(items) == 2 * ExactTotal(items) + (IF items \in Drifting THEN 1 ELSE 0)

\* what FinanceRecordAggregate._validate raises, NoText when it accepts
Refusal(r) ==
    LET bad == {k \in DOMAIN r.items : ItemRefusal(r.items[k]) # NoText} IN
    IF bad # {} THEN ItemRefusal(r.items[CHOOSE k \in bad : \A l \in bad : k <= l])
    ELSE IF r.items # <<>> /\ r.total # ItemsTotal(r.items)
         THEN "total_conflicts_with_lines"
    ELSE IF "channel" \in r.evidence /\ "reference" \notin r.evidence
         THEN "settlement_evidence_missing"
    ELSE NoText

StatusOf(reason) ==
    IF reason \in {"total_conflicts_with_lines", "settlement_evidence_missing"}
    THEN "blocked" ELSE "clarify_missing"
Refused(r, reason) == [status |-> StatusOf(reason), reason |-> reason, rec |-> r]
Validated(r) == IF Refusal(r) = NoText
                THEN [status |-> "resolved", reason |-> NoText, rec |-> r]
                ELSE Refused(r, Refusal(r))

\* an operation on the outcome of an earlier one: an error ends the chain
Then(outcome, Op(_)) == IF outcome.status = "resolved" THEN Op(outcome.rec) ELSE outcome

AddLineItem(r, item) ==
    IF ItemRefusal(item) # NoText THEN Refused(r, ItemRefusal(item))
    ELSE LET items == Append(r.items, item) IN
         Validated([r EXCEPT !.items = items, !.total = ItemsTotal(items)])

RemoveLineItemAt(r, index) ==
    IF r.items = <<>> THEN Refused(r, "line_items_missing")
    ELSE IF index \notin DOMAIN r.items THEN Refused(r, "line_item_not_found")
    ELSE LET items == RemoveAt(r.items, index) IN
         Validated([r EXCEPT !.items = items, !.total = ItemsTotal(items)])

AdjustTotal(r, amount) ==
    IF amount = NoTotal THEN Refused(r, "amount_missing")
    ELSE IF amount < 0 THEN Refused(r, "amount_invalid")
    ELSE IF r.items # <<>> THEN Refused(r, "total_conflicts_with_lines")
    ELSE Validated([r EXCEPT !.total = amount])

\* MUTANT of AttachEvidence: a payment reference settles the record
AttachEvidenceAndSettle(r, evidence) ==
    IF "channel" \in evidence /\ "reference" \notin evidence
    THEN Refused(r, "settlement_evidence_missing")
    ELSE Validated([r EXCEPT !.evidence = @ \union evidence,
                             !.state = IF "reference" \in evidence THEN "settled" ELSE @])

\* what is not given keeps its recorded value
AttachEvidence(r, evidence) ==
    IF "channel" \in evidence /\ "reference" \notin evidence
    THEN Refused(r, "settlement_evidence_missing")
    ELSE Validated([r EXCEPT !.evidence = @ \union evidence])

MarkSettled(r, evidence) ==
    Then(AttachEvidence(r, evidence), LAMBDA s : Validated([s EXCEPT !.state = "settled"]))

\* the item a name stands for, 0 when it is not unique
IndexByName(r, name) ==
    LET hits == {k \in DOMAIN r.items : r.items[k].name = name} IN
    IF \E k \in hits : hits = {k} THEN CHOOSE k \in hits : TRUE ELSE 0

\* update_bill and update_invoice: amount first, then whatever evidence is given
UpdateRecord(r, c) ==
    LET withTotal == IF c.amount = NoTotal THEN Validated(r) ELSE AdjustTotal(r, c.amount)
    IN IF c.evidence = {} THEN withTotal
       ELSE Then(withTotal, LAMBDA s : AttachEvidence(s, c.evidence))

\* the branch a mutation's action takes through the aggregate
Mutate(r, c) ==
    IF Refusal(r) # NoText THEN Refused(r, Refusal(r))
    ELSE IF c.action = "update" THEN UpdateRecord(r, c)
    ELSE IF c.action = "add_line_item" THEN AddLineItem(r, c.item)
    ELSE IF c.action = "remove_line_item"
         THEN IF IndexByName(r, c.item.name) = 0 THEN Refused(r, "line_item_not_found")
              ELSE RemoveLineItemAt(r, IndexByName(r, c.item.name))
    ELSE IF c.action = "adjust_amount" THEN AdjustTotal(r, c.amount)
    ELSE MarkSettled(r, c.evidence)

\* an update that carries settlement details passes the gate of a settlement
GateAction(c) == IF c.action = "update" /\ c.evidence # {} THEN "settle_payment" ELSE c.action

\* MUTANT of GateRefusal: a settlement without its date passes
GateRefusalDateless(c) ==
    IF GateAction(c) \notin BankActions
    THEN IF "channel" \in c.evidence /\ "reference" \notin c.evidence
         THEN "settlement_evidence_missing" ELSE NoText
    ELSE IF ~c.authorized THEN "payment_authorization_missing"
    ELSE IF ~({"reference", "channel"} \subseteq c.evidence) THEN "settlement_evidence_missing"
    ELSE NoText

\* the decision of evaluate_payment_gate and of its caller, NoText when it approves
GateRefusal(c) ==
    IF GateAction(c) \notin BankActions
    THEN IF "channel" \in c.evidence /\ "reference" \notin c.evidence
         THEN "settlement_evidence_missing" ELSE NoText
    ELSE IF ~c.authorized THEN "payment_authorization_missing"
    ELSE IF c.evidence # EvidenceParts THEN "settlement_evidence_missing"
    ELSE NoText

\* a record matches when every given part of the criteria is its own;
\* criteria without any part match nothing
Matches(r, crit) ==
    /\ crit.alias # NoText \/ crit.number # 0
    /\ crit.type \in {"any", r.type}
    /\ crit.alias \in {NoText, r.alias}
    /\ crit.number \in {0, r.number}

\* the one path whose record matches, or none
UniqueMatch(recs, crit) == {p \in DOMAIN recs :
    /\ Matches(recs[p], crit)
    /\ \A q \in DOMAIN recs : Matches(recs[q], crit) => q = p}
=============================================================================
