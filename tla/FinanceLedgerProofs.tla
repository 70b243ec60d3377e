------------------------- MODULE FinanceLedgerProofs -------------------------
(***************************************************************************)
(* Theorems about FinanceLedger for any aliases, items, amounts and number  *)
(* of mutations.                                                           *)
(***************************************************************************)
EXTENDS FinanceLedger, InductionLemmas, FiniteSetTheorems

-----------------------------------------------------------------------------
(* The sum of the items *)

\* The sum of line items is a number, although ExactTotal is a recursion.
LEMMA ExactIsNumber ==
  ASSUME NEW items \in Seq(Items)
  PROVE  ExactTotal(items) \in Int
<1> DEFINE n == Len(items)
           v == [k \in 1 .. n |-> items[k].qty * items[k].unit]
           Step(f, k) == IF k = 0 THEN 0 ELSE f[k - 1] + items[k].qty * items[k].unit
           sum == CHOOSE f : f = [k \in 0 .. n |-> Step(f, k)]
<1>1. n \in Nat /\ \A k \in 1 .. n : items[k] \in Items
  OBVIOUS
<1>2. v \in [1 .. n -> Int]
  <2>1. \A q \in Quantities, u \in Units : q * u \in Int
    <3>1. \A q, u \in Int : q * u \in Int
      OBVIOUS
    <3>2. Quantities \subseteq Int /\ Units \subseteq Int
      BY LedgerAssumption
    <3> QED
      BY <3>1, <3>2, Zenon
  <2>2. \A k \in 1 .. n : items[k].qty \in Quantities /\ items[k].unit \in Units
    BY <1>1 DEF Items
  <2> QED
    BY <2>1, <2>2
<1> DEFINE step == [k \in 1 .. n |-> [x \in Int |-> x + v[k]]]
<1>3. PICK f : Computed(f, n, Int, 0, step)
  <2>1. step \in [1 .. n -> [Int -> Int]]
    BY <1>2
  <2>2. n \in Nat /\ 0 \in Int
    OBVIOUS
  <2> HIDE DEF n, step
  <2> QED
    BY <2>1, <2>2, RecursionExists
<1>4. f = [k \in 0 .. n |-> Step(f, k)]
  <2>1. f \in [0 .. n -> Int] /\ f[0] = 0 /\ \A k \in 1 .. n : f[k] = step[k][f[k - 1]]
    BY <1>3 DEF Computed
  <2>2. \A k \in 1 .. n : f[k] = f[k - 1] + v[k]
    <3>1. \A k \in 1 .. n, x \in Int : step[k][x] = x + v[k]
      OBVIOUS
    <3>2. \A k \in 1 .. n : f[k - 1] \in Int
      BY <1>1, <2>1
    <3> HIDE DEF step, v, n
    <3> QED
      BY <2>1, <3>1, <3>2
  <2> QED
    BY <1>1, <2>1, <2>2
<1>5. sum = [k \in 0 .. n |-> Step(sum, k)]
  BY <1>4, Zenon
<1> HIDE DEF sum
<1>6. /\ sum[0] = 0
      /\ \A k \in 1 .. n : sum[k] = sum[k - 1] + v[k]
  BY <1>1, <1>5
<1> DEFINE T == {k \in 0 .. n : sum[k] \in Int}
<1>7. 0 \in T /\ \A k \in 1 .. n : k - 1 \in T => k \in T
  <2> HIDE DEF v, n
  <2> QED
    BY <1>1, <1>2, <1>6
<1>8. sum[n] \in Int
  <2>1. n \in T
    <3> HIDE DEF T
    <3>1. \A k \in 0 .. n : k \in T
      BY <1>1, <1>7, UpToBound
    <3> QED
      BY <1>1, <3>1
  <2> QED
    BY <2>1
<1>9. ExactTotal(items) = sum[n]
  BY DEF ExactTotal, sum
<1> QED
  BY <1>8, <1>9

\* So is what the code adds up to, on target or not.
LEMMA TotalIsNumber ==
  ASSUME NEW items \in Seq(Items)
  PROVE  ItemsTotal(items) \in Int
<1>1. ExactTotal(items) \in Int
  BY ExactIsNumber
<1> QED
  BY <1>1 DEF ItemsTotal

-----------------------------------------------------------------------------
(* The aggregate *)

\* What a mutation may change of a record.
OnlyNamed(c, old, new) ==
    /\ old.state # new.state => c.action \in BankActions
    /\ old.evidence # new.evidence => c.action \in BankActions \union {"update"}
    /\ old.items # new.items => c.action \in {"add_line_item", "remove_line_item"}
    /\ old.total # new.total =>
         c.action \in {"update", "adjust_amount", "add_line_item", "remove_line_item"}

LEMMA RefusedIsNotResolved ==
  ASSUME NEW r, NEW reason
  PROVE  Refused(r, reason).status \in {"blocked", "clarify_missing"}
BY DEF Refused, StatusOf

LEMMA ResolvedIsValid ==
  ASSUME NEW r, Validated(r).status = "resolved"
  PROVE  Refusal(r) = NoText /\ Validated(r).rec = r
<1>1. CASE Refusal(r) = NoText
  BY <1>1 DEF Validated
<1>2. CASE Refusal(r) # NoText
  BY <1>2, RefusedIsNotResolved DEF Validated
<1> QED
  BY <1>1, <1>2

LEMMA AdjustedTotal ==
  ASSUME NEW r \in Records, NEW amount \in Amounts \union {NoTotal},
         AdjustTotal(r, amount).status = "resolved"
  PROVE  /\ AdjustTotal(r, amount).rec = [r EXCEPT !.total = amount]
         /\ AdjustTotal(r, amount).rec \in Records
         /\ Refusal(AdjustTotal(r, amount).rec) = NoText
<1> DEFINE s == [r EXCEPT !.total = amount]
<1>1. AdjustTotal(r, amount) = Validated(s)
  BY RefusedIsNotResolved DEF AdjustTotal
<1>2. s \in Records
  <2>1. amount \in Int
    BY LedgerAssumption DEF NoTotal
  <2> QED
    BY <2>1 DEF Records
<1> HIDE DEF s
<1>3. Refusal(s) = NoText /\ Validated(s).rec = s
  BY <1>1, ResolvedIsValid
<1> QED
  BY <1>1, <1>2, <1>3 DEF s

LEMMA AttachedEvidence ==
  ASSUME NEW r \in Records, NEW evidence \in SUBSET EvidenceParts,
         AttachEvidence(r, evidence).status = "resolved"
  PROVE  /\ AttachEvidence(r, evidence).rec
               = [r EXCEPT !.evidence = r.evidence \union evidence]
         /\ AttachEvidence(r, evidence).rec \in Records
         /\ Refusal(AttachEvidence(r, evidence).rec) = NoText
<1> DEFINE s == [r EXCEPT !.evidence = r.evidence \union evidence]
<1>1. AttachEvidence(r, evidence) = Validated(s)
  BY RefusedIsNotResolved DEF AttachEvidence
<1>2. s \in Records
  BY DEF Records
<1> HIDE DEF s
<1>3. Refusal(s) = NoText /\ Validated(s).rec = s
  BY <1>1, ResolvedIsValid
<1> QED
  BY <1>1, <1>2, <1>3 DEF s

\* Both operations on line items recompute the total.
LEMMA ReplacedItems ==
  ASSUME NEW r \in Records, NEW items \in Seq(Items),
         NEW o, o = Validated([r EXCEPT !.items = items, !.total = ItemsTotal(items)]),
         o.status = "resolved"
  PROVE  /\ o.rec = [r EXCEPT !.items = items, !.total = ItemsTotal(items)]
         /\ o.rec \in Records
         /\ Refusal(o.rec) = NoText
<1> DEFINE s == [r EXCEPT !.items = items, !.total = ItemsTotal(items)]
<1>1. s \in Records
  BY TotalIsNumber DEF Records
<1> HIDE DEF s
<1>2. Refusal(s) = NoText /\ Validated(s).rec = s
  BY ResolvedIsValid DEF s
<1> QED
  BY <1>1, <1>2 DEF s

LEMMA UpdatedRecord ==
  ASSUME NEW r \in Records, NEW c \in UpdateCommands,
         UpdateRecord(r, c).status = "resolved"
  PROVE  LET s == UpdateRecord(r, c).rec
         IN /\ s \in Records /\ Refusal(s) = NoText
            /\ s.evidence = r.evidence \union c.evidence
            /\ s.state = r.state /\ s.items = r.items
<1> DEFINE o == IF c.amount = NoTotal THEN Validated(r) ELSE AdjustTotal(r, c.amount)
<1>1. c.amount \in Amounts \union {NoTotal} /\ c.evidence \in SUBSET EvidenceParts
  BY DEF UpdateCommands
<1>2. ASSUME o.status = "resolved"
      PROVE  /\ o.rec \in Records /\ Refusal(o.rec) = NoText
             /\ o.rec.evidence = r.evidence /\ o.rec.state = r.state /\ o.rec.items = r.items
  <2>1. CASE c.amount = NoTotal
    BY <1>2, <2>1, ResolvedIsValid
  <2>2. CASE c.amount # NoTotal
    <3>1. /\ o.rec = [r EXCEPT !.total = c.amount]
          /\ o.rec \in Records /\ Refusal(o.rec) = NoText
      BY <1>1, <1>2, <2>2, AdjustedTotal
    <3> HIDE DEF o
    <3> QED
      BY <3>1 DEF Records
  <2> QED
    BY <2>1, <2>2
<1>3. UpdateRecord(r, c) = IF c.evidence = {} THEN o
                           ELSE IF o.status = "resolved" THEN AttachEvidence(o.rec, c.evidence)
                           ELSE o
  BY DEF UpdateRecord, Then
<1> HIDE DEF o
<1>4. CASE c.evidence = {}
  BY <1>2, <1>3, <1>4
<1>5. CASE c.evidence # {}
  <2>1. o.status = "resolved" /\ UpdateRecord(r, c) = AttachEvidence(o.rec, c.evidence)
    BY <1>3, <1>5
  <2> DEFINE s == AttachEvidence(o.rec, c.evidence).rec
  <2>2. /\ s = [o.rec EXCEPT !.evidence = o.rec.evidence \union c.evidence]
        /\ s \in Records /\ Refusal(s) = NoText
    BY <1>1, <1>2, <2>1, AttachedEvidence
  <2> HIDE DEF s
  <2>3. s.evidence = r.evidence \union c.evidence /\ s.state = r.state /\ s.items = r.items
    BY <1>2, <2>1, <2>2 DEF Records
  <2> QED
    BY <2>1, <2>2, <2>3 DEF s
<1> QED
  BY <1>4, <1>5

LEMMA SettledRecord ==
  ASSUME NEW r \in Records, NEW evidence \in SUBSET EvidenceParts,
         MarkSettled(r, evidence).status = "resolved"
  PROVE  LET s == MarkSettled(r, evidence).rec
         IN /\ s \in Records /\ Refusal(s) = NoText
            /\ s.evidence = r.evidence \union evidence
            /\ s.state = "settled" /\ s.items = r.items /\ s.total = r.total
<1> DEFINE o == AttachEvidence(r, evidence)
           t == [o.rec EXCEPT !.state = "settled"]
<1>1. MarkSettled(r, evidence) = IF o.status = "resolved" THEN Validated(t) ELSE o
  BY DEF MarkSettled, Then
<1>2. o.status = "resolved" /\ MarkSettled(r, evidence) = Validated(t)
  BY <1>1
<1>3. /\ o.rec = [r EXCEPT !.evidence = r.evidence \union evidence]
      /\ o.rec \in Records
  BY <1>2, AttachedEvidence
<1>4. /\ t \in Records
      /\ t.evidence = r.evidence \union evidence
      /\ t.state = "settled" /\ t.items = r.items /\ t.total = r.total
  <2> HIDE DEF o
  <2> QED
    BY <1>3 DEF Records
<1> HIDE DEF t
<1>5. Refusal(t) = NoText /\ Validated(t).rec = t
  BY <1>2, ResolvedIsValid
<1> QED
  BY <1>2, <1>4, <1>5

\* What the gate lets through carries all of the evidence or none of it.
LEMMA GatedEvidence ==
  ASSUME NEW c \in UpdateCommands, GateRefusal(c) = NoText
  PROVE  /\ c.action \in BankActions => c.evidence = EvidenceParts
         /\ c.action = "update" => c.evidence \in {{}, EvidenceParts}
<1>1. "payment_authorization_missing" # NoText /\ "settlement_evidence_missing" # NoText
  BY DEF NoText
<1> QED
  BY <1>1 DEF GateRefusal, GateAction, BankActions

LEMMA MutatedRecord ==
  ASSUME NEW r \in Records, CompleteEvidence(r),
         NEW c \in UpdateCommands, GateRefusal(c) = NoText,
         Mutate(r, c).status = "resolved"
  PROVE  LET s == Mutate(r, c).rec
         IN /\ s \in Records /\ Refusal(s) = NoText
            /\ CompleteEvidence(s)
            /\ OnlyNamed(c, r, s)
<1> DEFINE o == Mutate(r, c)
<1>0. /\ c.action \in {"update", "add_line_item", "remove_line_item", "adjust_amount",
                        "mark_paid", "settle_payment"}
      /\ c.item \in Items /\ c.amount \in Amounts \union {NoTotal}
      /\ c.evidence \in SUBSET EvidenceParts
      /\ r.items \in Seq(Items) /\ r.evidence \in SUBSET EvidenceParts
  BY DEF UpdateCommands, BankActions, Records
<1>1. Refusal(r) = NoText
  BY RefusedIsNotResolved DEF Mutate
<1>2. CASE c.action = "update"
  <2>1. o = UpdateRecord(r, c)
    BY <1>1, <1>2 DEF Mutate
  <2>2. /\ o.rec \in Records /\ Refusal(o.rec) = NoText
        /\ o.rec.evidence = r.evidence \union c.evidence
        /\ o.rec.state = r.state /\ o.rec.items = r.items
    BY <2>1, UpdatedRecord
  <2> HIDE DEF o
  <2>3. CompleteEvidence(o.rec)
    BY <1>0, <1>2, <2>2, GatedEvidence DEF CompleteEvidence
  <2>4. OnlyNamed(c, r, o.rec)
    BY <1>2, <2>2 DEF OnlyNamed
  <2> QED
    BY <2>2, <2>3, <2>4 DEF o
<1>3. CASE c.action = "add_line_item"
  <2> DEFINE items == Append(r.items, c.item)
  <2>1. o = Validated([r EXCEPT !.items = items, !.total = ItemsTotal(items)])
    BY <1>1, <1>3, RefusedIsNotResolved DEF Mutate, AddLineItem
  <2>2. items \in Seq(Items)
    BY <1>0
  <2> HIDE DEF items, o
  <2>3. /\ o.rec = [r EXCEPT !.items = items, !.total = ItemsTotal(items)]
        /\ o.rec \in Records /\ Refusal(o.rec) = NoText
    BY <2>1, <2>2, ReplacedItems DEF o
  <2>4. o.rec.evidence = r.evidence /\ o.rec.state = r.state
    BY <2>3 DEF Records
  <2> QED
    BY <1>3, <2>3, <2>4 DEF o, CompleteEvidence, OnlyNamed
<1>4. CASE c.action = "remove_line_item"
  <2> DEFINE n == IndexByName(r, c.item.name)
             items == RemoveAt(r.items, n)
  <2>1. o = RemoveLineItemAt(r, n)
    BY <1>1, <1>4, RefusedIsNotResolved DEF Mutate
  <2>2. /\ n \in DOMAIN r.items
        /\ o = Validated([r EXCEPT !.items = items, !.total = ItemsTotal(items)])
    BY <2>1, RefusedIsNotResolved DEF RemoveLineItemAt
  <2> HIDE DEF n
  <2>3. items \in Seq(Items)
    BY <1>0, <2>2 DEF RemoveAt
  <2> HIDE DEF items, o
  <2>4. /\ o.rec = [r EXCEPT !.items = items, !.total = ItemsTotal(items)]
        /\ o.rec \in Records /\ Refusal(o.rec) = NoText
    BY <2>2, <2>3, ReplacedItems DEF o
  <2>5. o.rec.evidence = r.evidence /\ o.rec.state = r.state
    BY <2>4 DEF Records
  <2> QED
    BY <1>4, <2>4, <2>5 DEF o, CompleteEvidence, OnlyNamed
<1>5. CASE c.action = "adjust_amount"
  <2>1. o = AdjustTotal(r, c.amount)
    BY <1>1, <1>5 DEF Mutate
  <2>2. /\ o.rec = [r EXCEPT !.total = c.amount]
        /\ o.rec \in Records /\ Refusal(o.rec) = NoText
    BY <1>0, <2>1, AdjustedTotal
  <2> HIDE DEF o
  <2>3. o.rec.evidence = r.evidence /\ o.rec.state = r.state /\ o.rec.items = r.items
    BY <2>2 DEF Records
  <2> QED
    BY <1>5, <2>2, <2>3 DEF o, CompleteEvidence, OnlyNamed
<1>6. CASE c.action \in BankActions
  <2>1. o = MarkSettled(r, c.evidence)
    BY <1>1, <1>6 DEF Mutate, BankActions
  <2>2. /\ o.rec \in Records /\ Refusal(o.rec) = NoText
        /\ o.rec.evidence = r.evidence \union c.evidence
        /\ o.rec.state = "settled" /\ o.rec.items = r.items /\ o.rec.total = r.total
    BY <1>0, <2>1, SettledRecord
  <2> HIDE DEF o
  <2>3. CompleteEvidence(o.rec)
    BY <1>0, <1>6, <2>2, GatedEvidence DEF CompleteEvidence
  <2> QED
    BY <1>6, <2>2, <2>3 DEF o, OnlyNamed
<1> QED
  BY <1>0, <1>2, <1>3, <1>4, <1>5, <1>6 DEF BankActions

-----------------------------------------------------------------------------
(* The inductive invariant *)

Calls == late \union {todo[k] : k \in 1 .. Len(todo)}

FiniteLedgers == IsFiniteSet(DOMAIN disk) /\ IsFiniteSet(DOMAIN loaded)

\* What is stored, loaded or still to be written, has passed the gate and has
\* its total in whole cents.
Sound(rec) == CompleteEvidence(rec) /\ rec.total % 4 = 0
AllSound ==
    /\ \A p \in DOMAIN disk : Sound(disk[p].rec)
    /\ \A p \in DOMAIN loaded : Sound(loaded[p])
    /\ \A w \in Calls : w.op = "write" => Sound(w.doc.rec)

\* The context is the workspace as long as nothing lands late.
ContextFresh ==
    pc = "plan" /\ settled =>
        \A p \in DOMAIN loaded : p \in DOMAIN disk /\ loaded[p] = Parsed(disk[p])

\* What the writes still to be made are, for each kind of mutation.
InHand ==
    /\ pc = "write" => Len(todo) >= 1
    /\ pc = "write" /\ command.action \in UpdateActions =>
         LET w == todo[1]
             new == Parsed(w.doc)
         IN /\ Len(todo) = 1 /\ w.op = "write"
            /\ ItemsTotal(new.items) % 4 = 0 => Refusal(new) = NoText
            /\ settled =>
                 /\ w.path \in DOMAIN disk
                 /\ OnlyNamed(command, Parsed(disk[w.path]), new)
                 /\ read => /\ w.doc.extras = disk[w.path].extras
                            /\ command.notes = NoText => w.doc.notes = disk[w.path].notes
    /\ pc = "write" /\ command.action = "bulk_delete" =>
         \A k \in 1 .. Len(todo) :
           /\ todo[k].op = "delete"
           /\ Meant(loaded, command) # {} => todo[k].path \in Meant(loaded, command)
    /\ pc = "write" /\ command.action = "create_invoice" /\ command.number = 0 =>
         /\ Len(todo) = 1
         /\ todo[1].path = [type |-> "invoice", number |-> NextNumber(loaded, command.alias),
                            alias |-> command.alias]

IInv == TypeOK /\ FiniteLedgers /\ AllSound /\ ContextFresh /\ InHand

-----------------------------------------------------------------------------
(* Documents and the ledger *)

\* A set is listed by as many of its members as it has.
LEMMA Listed ==
  ASSUME NEW S, IsFiniteSet(S)
  PROVE  /\ Cardinality(S) \in Nat
         /\ \A k \in 1 .. Cardinality(S) : SetToSeq(S)[k] \in S
         /\ S # {} => Cardinality(S) >= 1
<1>1. Cardinality(S) \in Nat /\ ExistsBijection(1 .. Cardinality(S), S)
  BY FS_CardinalityType
<1>2. \E f \in [1 .. Cardinality(S) -> S] : IsInjective(f)
  BY <1>1 DEF ExistsBijection, Bijection, Injection
<1>3. SetToSeq(S) \in [1 .. Cardinality(S) -> S]
  BY <1>2 DEF SetToSeq
<1>4. S # {} => Cardinality(S) >= 1
  BY <1>1, FS_EmptySet
<1> QED
  BY <1>1, <1>3, <1>4

LEMMA WriteParts ==
  ASSUME NEW w \in Writes
  PROVE  /\ w.op \in {"write", "delete"} /\ w.path \in Paths
         /\ w.op = "write" => w.doc \in Documents
BY DEF Writes

LEMMA AppliedWrite ==
  ASSUME NEW w \in Writes, FiniteLedgers, Ledger(disk, Documents),
         disk' = Apply(disk, w)
  PROVE  /\ Ledger(disk', Documents) /\ IsFiniteSet(DOMAIN disk')
         /\ DOMAIN disk \ DOMAIN disk' \subseteq {w.path}
         /\ w.op = "write" => w.path \in DOMAIN disk' /\ disk'[w.path] = w.doc
         /\ w.op = "write" => DOMAIN disk' = DOMAIN disk \union {w.path}
         /\ \A p \in DOMAIN disk' : p # w.path => p \in DOMAIN disk /\ disk'[p] = disk[p]
         /\ w.op = "delete" => w.path \notin DOMAIN disk'
<1>1. CASE w.op = "write"
  <2>1. disk' = Put(disk, w.path, w.doc)
    BY <1>1 DEF Apply
  <2>2. /\ DOMAIN disk' = DOMAIN disk \union {w.path}
        /\ \A p \in DOMAIN disk' : disk'[p] = IF p = w.path THEN w.doc ELSE disk[p]
    BY <2>1 DEF Put
  <2>3. IsFiniteSet(DOMAIN disk')
    BY <2>2, FS_AddElement DEF FiniteLedgers
  <2> QED
    BY <1>1, <2>2, <2>3, WriteParts DEF Ledger
<1>2. CASE w.op = "delete"
  <2>1. disk' = Drop(disk, w.path)
    BY <1>2 DEF Apply
  <2>2. /\ DOMAIN disk' = DOMAIN disk \ {w.path}
        /\ \A p \in DOMAIN disk' : disk'[p] = disk[p]
    BY <2>1 DEF Drop
  <2>3. IsFiniteSet(DOMAIN disk')
    BY <2>2, FS_RemoveElement DEF FiniteLedgers
  <2> QED
    BY <1>2, <2>2, <2>3, WriteParts DEF Ledger
<1> QED
  BY <1>1, <1>2, WriteParts

\* The tables of a sound body count, whatever the frontmatter says.
LEMMA ParsedDocument ==
  ASSUME NEW d \in Documents, Sound(d.rec)
  PROVE  Parsed(d) \in Records /\ Sound(Parsed(d))
<1> DEFINE items == IF d.rec.items # <<>> THEN d.rec.items ELSE d.front.items
           r == [d.rec EXCEPT !.items = items, !.total = d.rec.total]
<1>1. d.rec \in Records /\ items \in Seq(Items) /\ d.rec.total \in Int
  BY DEF Documents, Records
<1>2. d.rec.total # NoTotal
  BY <1>1 DEF Sound, NoTotal
<1>3. Parsed(d) = r
  BY <1>2 DEF Parsed
<1> HIDE DEF items
<1> QED
  BY <1>1, <1>3 DEF Records, Sound, CompleteEvidence

LEMMA RoundedTotal ==
  ASSUME NEW t \in Int
  PROVE  /\ \A u \in Rounded(t) : u \in Int /\ u % 4 = 0 /\ (t % 4 = 0 => u = t)
         /\ \A u \in HalfUp(t) : u \in Int /\ u % 4 = 0
         /\ Cents(t) \in Int /\ Cents(t) % 4 = 0
<1>1. \A u \in Int : /\ Down(u) \in Int /\ Down(u) % 4 = 0 /\ (Down(u) + 4) % 4 = 0
                     /\ u % 4 = 0 => Down(u) = u
  BY DEF Down
<1>2. /\ t % 4 = 0 => Rounded(t) = {Down(t)}
      /\ Rounded(t) \subseteq {Down(t), Down(t) + 4}
      /\ HalfUp(t) \subseteq {Down(t), Down(t) + 4}
  BY DEF Rounded, HalfUp
<1>3. Down(t) + 4 \in Int /\ t + 2 \in Int /\ Cents(t) = Down(t + 2)
  BY <1>1 DEF Cents
<1> QED
  BY <1>1, <1>2, <1>3

\* What an update renders is what it is loaded as.
LEMMA RenderedDocument ==
  ASSUME NEW rec \in Records, NEW total \in Int, NEW c,
         c.notes \in {NoText, "new"}, NEW old,
         old.notes \in {NoText, "old", "new"}, old.extras \in BOOLEAN
  PROVE  LET d == Rendered(rec, total, c, old)
         IN /\ d \in Documents
            /\ d.rec = [rec EXCEPT !.total = total]
            /\ Parsed(d) = [rec EXCEPT !.total = total]
            /\ d.extras = old.extras
            /\ c.notes = NoText => d.notes = old.notes
<1> DEFINE body == [rec EXCEPT !.total = total]
           d == Rendered(rec, total, c, old)
<1>1. /\ body \in Records /\ body.total = total /\ body.items = rec.items
      /\ body.items \in Seq(Items)
  BY DEF Records
<1> HIDE DEF body
<1>2. d = [rec |-> body, notes |-> IF c.notes # NoText THEN c.notes ELSE old.notes,
           extras |-> old.extras, front |-> [total |-> total, items |-> body.items]]
  BY <1>1 DEF Rendered, Lifted, body
<1>3. d \in Documents
  BY <1>1, <1>2 DEF Documents
<1>4. Parsed(d) = [body EXCEPT !.items = body.items, !.total = body.total]
  <2>1. d.rec = body /\ d.front.items = body.items /\ d.front.total = body.total
    BY <1>1, <1>2
  <2> HIDE DEF d
  <2> QED
    BY <2>1 DEF Parsed
<1>5. [body EXCEPT !.items = body.items, !.total = body.total] = body
  BY <1>1 DEF Records
<1>6. /\ d.rec = body /\ d.extras = old.extras
      /\ c.notes = NoText => d.notes = old.notes
  BY <1>2
<1> QED
  BY <1>3, <1>4, <1>5, <1>6 DEF body

\* A counted number is one, because only finitely many records are loaded.
LEMMA CountedNumber ==
  ASSUME NEW alias, IsFiniteSet(DOMAIN loaded)
  PROVE  NextNumber(loaded, alias) \in Nat
<1> DEFINE S == {p \in DOMAIN loaded : p.type = "invoice" /\ p.alias = alias}
<1>1. IsFiniteSet(S)
  <2>1. S \subseteq DOMAIN loaded
    OBVIOUS
  <2> QED
    BY <2>1, FS_Subset
<1>2. Cardinality(S) \in Nat
  BY <1>1, FS_CardinalityType
<1> QED
  BY <1>2 DEF NextNumber

CreateCommands ==
  [action : {"create_invoice", "create_bill"}, alias : Aliases \union {NoText},
   amount : Amounts \union {NoTotal}, items : {<<>>} \union {<<i>> : i \in Items},
   number : 0 .. MaxNumber, dated : BOOLEAN, notes : {"new"}]

LEMMA CreatedDocument ==
  ASSUME NEW c \in CreateCommands, CreateRefusal(c) = NoText,
         NEW total \in HalfUp(CreateAmount(c)), IsFiniteSet(DOMAIN loaded)
  PROVE  LET d == Created(loaded, c, total)
         IN /\ d \in Documents /\ Sound(d.rec) /\ PathOf(d.rec) \in Paths
            /\ c.action = "create_invoice" /\ c.number = 0 =>
                 PathOf(d.rec) = [type |-> "invoice", number |-> NextNumber(loaded, c.alias),
                                  alias |-> c.alias]
<1> DEFINE d == Created(loaded, c, total)
           type == IF c.action = "create_invoice" THEN "invoice" ELSE "bill"
<1>1. /\ c.alias \in Aliases \union {NoText} /\ c.items \in Seq(Items)
      /\ c.amount \in Int /\ c.number \in Nat /\ c.notes = "new"
      /\ c.action \in {"create_invoice", "create_bill"}
  <2>1. /\ c.alias \in Aliases \union {NoText} /\ c.notes = "new"
        /\ c.items \in {<<>>} \union {<<i>> : i \in Items}
        /\ c.amount \in Amounts \union {NoTotal} /\ c.number \in 0 .. MaxNumber
        /\ c.action \in {"create_invoice", "create_bill"}
    BY DEF CreateCommands
  <2>2. c.items \in Seq(Items)
    <3>1. <<>> \in Seq(Items) /\ \A i \in Items : <<i>> \in Seq(Items)
      OBVIOUS
    <3> QED
      BY <2>1, <3>1, Zenon
  <2>3. c.amount \in Int
    <3>1. Amounts \subseteq Int
      BY LedgerAssumption
    <3>2. NoTotal \in Int
      BY DEF NoTotal
    <3> QED
      BY <2>1, <3>1, <3>2, Zenon
  <2>4. c.number \in Nat
    BY <2>1, LedgerAssumption
  <2> QED
    BY <2>1, <2>2, <2>3, <2>4
<1>2. c.alias \in Aliases
  <2>1. "requires_alias" # NoText /\ "requires_date" # NoText /\ "requires_amount" # NoText
    BY DEF NoText
  <2> QED
    BY <1>1, <2>1 DEF CreateRefusal
<1>3. NumberOf(loaded, c) \in Nat
  BY <1>1, CountedNumber DEF NumberOf
<1>4. total \in Int /\ total % 4 = 0
  <2>1. CreateAmount(c) \in Int
    BY <1>1, TotalIsNumber DEF CreateAmount, NoTotal
  <2> QED
    BY <2>1, RoundedTotal
<1>5. d = [rec |-> [type |-> type, number |-> NumberOf(loaded, c), alias |-> c.alias,
                    total |-> total, items |-> c.items, state |-> NoText, evidence |-> {}],
           notes |-> c.notes, extras |-> FALSE, front |-> NoFront]
  BY DEF Created
<1>6. PathOf(d.rec) = [type |-> type, number |-> NumberOf(loaded, c), alias |-> c.alias]
  BY <1>5 DEF PathOf
<1>7. d.rec \in Records /\ Sound(d.rec)
  <2>1. NoText # "settled"
    BY DEF NoText
  <2> QED
    BY <1>1, <1>2, <1>3, <1>4, <1>5, <2>1
       DEF Records, Sound, CompleteEvidence, Types
<1>8. d \in Documents
  <2>1. d.front \in [total : Int, items : Seq(Items)]
    BY <1>5 DEF NoFront, NoTotal
  <2> HIDE DEF type
  <2> QED
    BY <1>1, <1>5, <1>7, <2>1 DEF Documents
<1>9. PathOf(d.rec) \in Paths
  BY <1>1, <1>2, <1>3, <1>6 DEF Paths, Types
<1>10. c.action = "create_invoice" /\ c.number = 0 =>
         PathOf(d.rec) = [type |-> "invoice", number |-> NextNumber(loaded, c.alias),
                          alias |-> c.alias]
  BY <1>6 DEF NumberOf
<1> QED
  BY <1>7, <1>8, <1>9, <1>10

\* An ingest leaves the record of the note as it is.
LEMMA IngestedDocument ==
  ASSUME NEW d \in Documents
  PROVE  Ingested(d) \in Documents /\ Ingested(d).rec = d.rec
BY DEF Ingested, Lifted, Documents, Records

-----------------------------------------------------------------------------
(* The steps *)

LEMMA InitIInv ==
  ASSUME Init
  PROVE  IInv
<1>1. PICK a \in Aliases, i \in Items, j \in Items, inFront \in BOOLEAN :
        LET bill == InitialDoc("bill", 0, a, i, inFront)
            invoice == InitialDoc("invoice", 1, a, j, FALSE)
        IN disk = Put(Put(<<>>, PathOf(bill.rec), bill), PathOf(invoice.rec), invoice)
  BY DEF Init
<1> DEFINE bill == InitialDoc("bill", 0, a, i, inFront)
           invoice == InitialDoc("invoice", 1, a, j, FALSE)
<1>2. ASSUME NEW type \in Types, NEW number \in Nat, NEW item \in Items, NEW front \in BOOLEAN
      PROVE  LET d == InitialDoc(type, number, a, item, front)
             IN d \in Documents /\ Sound(d.rec) /\ PathOf(d.rec) \in Paths
  <2> DEFINE d == InitialDoc(type, number, a, item, front)
             total == Cents(2 * ExactTotal(<<item>>))
             rec == [type |-> type, number |-> number, alias |-> a, state |-> NoText,
                     evidence |-> {}, total |-> total,
                     items |-> IF front THEN <<>> ELSE <<item>>]
  <2>1. total \in Int /\ total % 4 = 0
    <3>1. <<item>> \in Seq(Items)
      OBVIOUS
    <3>2. 2 * ExactTotal(<<item>>) \in Int
      <4>1. ExactTotal(<<item>>) \in Int
        BY <3>1, ExactIsNumber
      <4> QED
        BY <4>1
    <3> QED
      BY <3>2, RoundedTotal
  <2> HIDE DEF total
  <2>2. rec \in Records /\ Sound(rec) /\ PathOf(rec) \in Paths
    <3>1. NoText # "settled"
      BY DEF NoText
    <3> QED
      BY <2>1, <3>1 DEF Records, Sound, CompleteEvidence, PathOf, Paths
  <2>3. d = [rec |-> rec, notes |-> "old", extras |-> TRUE,
             front |-> IF front THEN [total |-> total, items |-> <<item>>] ELSE NoFront]
    BY DEF InitialDoc, total
  <2>4. d.front \in [total : Int, items : Seq(Items)]
    BY <2>1, <2>3 DEF NoFront, NoTotal
  <2> HIDE DEF rec
  <2> QED
    BY <2>2, <2>3, <2>4 DEF Documents
<1>3. /\ bill \in Documents /\ Sound(bill.rec) /\ PathOf(bill.rec) \in Paths
      /\ invoice \in Documents /\ Sound(invoice.rec) /\ PathOf(invoice.rec) \in Paths
  BY <1>2 DEF Types
<1> HIDE DEF bill, invoice
<1>4. /\ DOMAIN disk = {PathOf(bill.rec), PathOf(invoice.rec)}
      /\ \A p \in DOMAIN disk : disk[p] \in {bill, invoice}
  <2>1. disk = Put(Put(<<>>, PathOf(bill.rec), bill), PathOf(invoice.rec), invoice)
    BY <1>1 DEF bill, invoice
  <2> QED
    BY <2>1 DEF Put
<1>5. IsFiniteSet(DOMAIN disk) /\ IsFiniteSet({})
  <2> DEFINE p == PathOf(bill.rec)
             q == PathOf(invoice.rec)
  <2>1. DOMAIN disk = {p} \union {q}
    BY <1>4
  <2> HIDE DEF p, q
  <2>2. IsFiniteSet({p})
    BY FS_Singleton
  <2>3. IsFiniteSet({p} \union {q})
    BY <2>2, FS_AddElement
  <2> QED
    BY <2>1, <2>3, FS_EmptySet
<1>6. DOMAIN loaded = {} /\ Calls = {}
  BY DEF Init, Calls
<1>7. TypeOK
  <2>1. Ledger(disk, Documents) /\ Ledger(loaded, Records)
    BY <1>3, <1>4, <1>6 DEF Ledger
  <2>2. steps \in 0 .. MaxSteps
    BY LedgerAssumption DEF Init
  <2>3. late \subseteq Writes /\ todo \in Seq(Writes)
    BY DEF Init
  <2>4. reply \in {"none", "resolved", "clarify_missing", "blocked"}
    BY DEF Init
  <2>5. /\ pc \in {"idle", "plan", "write"}
        /\ read \in BOOLEAN /\ settled \in BOOLEAN
    BY DEF Init
  <2> QED
    BY <2>1, <2>2, <2>3, <2>4, <2>5 DEF TypeOK
<1>8. FiniteLedgers /\ AllSound
  BY <1>3, <1>4, <1>5, <1>6 DEF FiniteLedgers, AllSound
<1> QED
  BY <1>7, <1>8 DEF Init, IInv, ContextFresh, InHand

LEMMA LoadRecordsIInv ==
  ASSUME IInv, LoadRecords
  PROVE  IInv'
<1> USE DEF LoadRecords
<1>1. PICK P \in SUBSET DOMAIN disk : loaded' = [p \in P |-> Parsed(disk[p])]
  OBVIOUS
<1>2. DOMAIN loaded' = P /\ \A p \in P : loaded'[p] = Parsed(disk[p])
  BY <1>1
<1>3. \A p \in P : p \in Paths /\ Parsed(disk[p]) \in Records /\ Sound(Parsed(disk[p]))
  BY ParsedDocument DEF IInv, TypeOK, Ledger, AllSound
<1>4. TypeOK'
  <2>1. Ledger(loaded', Records)
    BY <1>2, <1>3 DEF Ledger
  <2>2. steps' \in 0 .. MaxSteps
    BY LedgerAssumption DEF IInv, TypeOK
  <2> QED
    BY <2>1, <2>2 DEF IInv, TypeOK
<1>5. FiniteLedgers'
  BY <1>2, FS_Subset DEF IInv, FiniteLedgers
<1>6. AllSound'
  BY <1>2, <1>3 DEF IInv, AllSound, Calls
<1>7. ContextFresh'
  BY <1>2 DEF ContextFresh
<1> QED
  BY <1>4, <1>5, <1>6, <1>7 DEF IInv, InHand

Statuses == {"none", "resolved", "clarify_missing", "blocked"}

LEMMA AnswerIInv ==
  ASSUME IInv, NEW c, NEW status \in Statuses, Answer(c, status)
  PROVE  IInv'
<1>1. DOMAIN loaded' = {} /\ todo' = <<>> /\ Len(todo') = 0
  BY DEF Answer
<1>2. TypeOK'
  <2>1. Ledger(loaded', Records) /\ todo' \in Seq(Writes)
    BY <1>1 DEF Ledger
  <2>2. reply' \in Statuses
    BY DEF Answer
  <2> QED
    BY <2>1, <2>2 DEF IInv, TypeOK, Answer, Statuses
<1>3. FiniteLedgers'
  BY <1>1, FS_EmptySet DEF IInv, FiniteLedgers, Answer
<1>4. AllSound'
  BY <1>1 DEF IInv, AllSound, Calls, Answer
<1> QED
  BY <1>2, <1>3, <1>4 DEF IInv, ContextFresh, InHand, Answer

\* A plan hands over writes of sound documents only.
LEMMA PlannedIInv ==
  ASSUME IInv, UNCHANGED <<disk, late, loaded, reply, steps, settled>>,
         pc' = "write", read' \in BOOLEAN, todo' \in Seq(Writes),
         \A k \in 1 .. Len(todo') : todo'[k].op = "write" => Sound(todo'[k].doc.rec),
         InHand'
  PROVE  IInv'
<1>1. TypeOK'
  BY DEF IInv, TypeOK
<1>2. FiniteLedgers'
  BY DEF IInv, FiniteLedgers
<1>3. AllSound'
  BY DEF IInv, AllSound, Calls
<1> QED
  BY <1>1, <1>2, <1>3 DEF IInv, ContextFresh

LEMMA PlanCreateIInv ==
  ASSUME IInv, PlanCreate
  PROVE  IInv'
<1>1. PICK action \in {"create_invoice", "create_bill"}, alias \in Aliases \union {NoText},
           amount \in Amounts \union {NoTotal}, items \in {<<>>} \union {<<i>> : i \in Items},
           number \in 0 .. MaxNumber, dated \in BOOLEAN :
        LET c == [action |-> action, alias |-> alias, amount |-> amount, items |-> items,
                  number |-> number, dated |-> dated, notes |-> "new"]
        IN IF CreateRefusal(c) # NoText THEN Answer(c, "clarify_missing")
           ELSE \E total \in HalfUp(CreateAmount(c)) :
                LET d == Created(loaded, c, total)
                IN Begin(c, <<[op |-> "write", path |-> PathOf(d.rec), doc |-> d]>>)
  BY DEF PlanCreate
<1> DEFINE c == [action |-> action, alias |-> alias, amount |-> amount, items |-> items,
                 number |-> number, dated |-> dated, notes |-> "new"]
           d(total) == Created(loaded, c, total)
           w(total) == [op |-> "write", path |-> PathOf(d(total).rec), doc |-> d(total)]
<1>2. c \in CreateCommands /\ c.action \in {"create_invoice", "create_bill"}
  BY DEF CreateCommands
<1>3. IF CreateRefusal(c) # NoText THEN Answer(c, "clarify_missing")
      ELSE \E total \in HalfUp(CreateAmount(c)) : Begin(c, <<w(total)>>)
  BY <1>1
<1> HIDE DEF c
<1>4. CASE CreateRefusal(c) # NoText
  BY <1>3, <1>4, AnswerIInv DEF Statuses
<1>5. CASE CreateRefusal(c) = NoText
  <2>1. PICK total \in HalfUp(CreateAmount(c)) : Begin(c, <<w(total)>>)
    BY <1>3, <1>5
  <2> DEFINE D == d(total)
             W == w(total)
  <2>2. /\ D \in Documents /\ Sound(D.rec) /\ PathOf(D.rec) \in Paths
        /\ c.action = "create_invoice" /\ c.number = 0 =>
             PathOf(D.rec) = [type |-> "invoice", number |-> NextNumber(loaded, c.alias),
                              alias |-> c.alias]
    BY <1>2, <1>5, CreatedDocument DEF IInv, FiniteLedgers
  <2>3. W = [op |-> "write", path |-> PathOf(D.rec), doc |-> D] /\ Begin(c, <<W>>)
    BY <2>1
  <2> HIDE DEF D, W
  <2>4. W \in Writes /\ W.op = "write" /\ W.doc = D /\ W.path = PathOf(D.rec)
    BY <2>2, <2>3 DEF Writes
  <2>5. todo' = <<W>> /\ Len(todo') = 1 /\ todo'[1] = W /\ todo' \in Seq(Writes)
    BY <2>3, <2>4 DEF Begin
  <2>6. InHand'
    BY <1>2, <2>2, <2>3, <2>4, <2>5 DEF Begin, InHand, UpdateActions, BankActions
  <2> QED
    BY <2>2, <2>3, <2>4, <2>5, <2>6, PlannedIInv DEF Begin, IInv, TypeOK
<1> QED
  BY <1>4, <1>5

LEMMA PlanDeleteIInv ==
  ASSUME IInv, PlanDelete
  PROVE  IInv'
<1>1. PICK type \in Types \union {"any"}, needle \in Aliases \union ItemNames,
           selector \in BOOLEAN :
        LET c == [action |-> "bulk_delete", type |-> type, needle |-> needle,
                  selector |-> selector]
        IN \E victims \in DeleteTargets(loaded, c) :
             IF victims = {} THEN Answer(c, "resolved")
             ELSE Begin(c, [k \in 1 .. Cardinality(victims) |->
                             [op |-> "delete", path |-> SetToSeq(victims)[k]]])
  BY DEF PlanDelete
<1> DEFINE c == [action |-> "bulk_delete", type |-> type, needle |-> needle,
                 selector |-> selector]
<1>2. PICK victims \in DeleteTargets(loaded, c) :
        IF victims = {} THEN Answer(c, "resolved")
        ELSE Begin(c, [k \in 1 .. Cardinality(victims) |->
                        [op |-> "delete", path |-> SetToSeq(victims)[k]]])
  BY <1>1
<1>3. c.action = "bulk_delete"
  OBVIOUS
<1> HIDE DEF c
<1>4. CASE victims = {}
  BY <1>2, <1>4, AnswerIInv DEF Statuses
<1>5. CASE victims # {}
  <2> DEFINE n == Cardinality(victims)
             W == [k \in 1 .. n |-> [op |-> "delete", path |-> SetToSeq(victims)[k]]]
  <2>1. victims \subseteq DOMAIN loaded
    BY DEF DeleteTargets, DeleteCandidates, TextMatches
  <2>2. IsFiniteSet(victims)
    BY <2>1, FS_Subset DEF IInv, FiniteLedgers
  <2>3. n \in Nat /\ n >= 1 /\ \A k \in 1 .. n : SetToSeq(victims)[k] \in victims
    BY <1>5, <2>2, Listed
  <2>4. \A k \in 1 .. n : SetToSeq(victims)[k] \in Paths
    BY <2>1, <2>3 DEF IInv, TypeOK, Ledger
  <2>5. Begin(c, W)
    BY <1>2, <1>5
  <2> HIDE DEF n
  <2>6. /\ Len(W) = n /\ W \in Seq(Writes)
        /\ \A k \in 1 .. n : W[k].op = "delete" /\ W[k].path \in victims
    BY <2>3, <2>4 DEF Writes
  <2>7. Meant(loaded, c) # {} => victims \subseteq Meant(loaded, c)
    <3>1. CASE c.type = "any"
      <4>1. TextMatches(loaded, c) = Meant(loaded, c)
        BY <3>1 DEF TextMatches, DeleteCandidates, Meant
      <4> QED
        BY <4>1 DEF DeleteTargets
    <3>2. CASE c.type # "any"
      BY <3>2 DEF DeleteTargets, DeleteCandidates, TextMatches
    <3> QED
      BY <3>1, <3>2
  <2> HIDE DEF W
  <2>8. InHand'
    BY <1>3, <2>3, <2>5, <2>6, <2>7 DEF Begin, InHand, UpdateActions, BankActions
  <2> QED
    BY <2>3, <2>5, <2>6, <2>8, PlannedIInv DEF Begin, IInv, TypeOK
<1> QED
  BY <1>4, <1>5

LEMMA PlanIngestIInv ==
  ASSUME IInv, PlanIngest
  PROVE  IInv'
<1> DEFINE c == [action |-> "ingest"]
           W(notes) == [k \in 1 .. Cardinality(notes) |->
                         LET p == SetToSeq(notes)[k]
                         IN [op |-> "write", path |-> p, doc |-> Ingested(disk[p])]]
<1>1. PICK notes \in SUBSET (DOMAIN loaded \union DOMAIN disk) :
        \/ Answer(c, "clarify_missing")
        \/ /\ notes # {} /\ notes \subseteq DOMAIN disk
           /\ Begin(c, W(notes))
  BY DEF PlanIngest
<1>2. c.action = "ingest"
  OBVIOUS
<1> HIDE DEF c
<1>3. CASE Answer(c, "clarify_missing")
  BY <1>3, AnswerIInv DEF Statuses
<1>4. CASE notes # {} /\ notes \subseteq DOMAIN disk /\ Begin(c, W(notes))
  <2> DEFINE n == Cardinality(notes)
             w == W(notes)
  <2>1. IsFiniteSet(notes)
    BY <1>4, FS_Subset DEF IInv, FiniteLedgers
  <2>2. n \in Nat /\ n >= 1 /\ \A k \in 1 .. n : SetToSeq(notes)[k] \in notes
    BY <1>4, <2>1, Listed
  <2>3. \A p \in notes : /\ p \in Paths /\ Ingested(disk[p]) \in Documents
                         /\ Sound(Ingested(disk[p]).rec)
    BY <1>4, IngestedDocument DEF IInv, TypeOK, Ledger, AllSound
  <2>4. /\ Len(w) = n /\ w = [k \in 1 .. n |-> w[k]]
        /\ \A k \in 1 .. n : w[k] = [op |-> "write", path |-> SetToSeq(notes)[k],
                                      doc |-> Ingested(disk[SetToSeq(notes)[k]])]
    BY <2>2
  <2> HIDE DEF n
  <2>5. \A k \in 1 .. n : w[k] \in Writes /\ Sound(w[k].doc.rec)
    BY <2>2, <2>3, <2>4 DEF Writes
  <2>6. w \in Seq(Writes)
    <3> HIDE DEF w
    <3> QED
      BY <2>2, <2>4, <2>5
  <2>7. Begin(c, w)
    BY <1>4
  <2> HIDE DEF w
  <2>8. InHand'
    BY <1>2, <2>2, <2>4, <2>7 DEF Begin, InHand, UpdateActions, BankActions
  <2> QED
    BY <2>4, <2>5, <2>6, <2>7, <2>8, PlannedIInv DEF Begin, IInv, TypeOK
<1> QED
  BY <1>1, <1>3, <1>4

LEMMA ValidatedStatus ==
  ASSUME NEW r
  PROVE  Validated(r).status \in Statuses
BY RefusedIsNotResolved DEF Validated, Statuses

LEMMA AttachedStatus ==
  ASSUME NEW r, NEW evidence
  PROVE  AttachEvidence(r, evidence).status \in Statuses
BY ValidatedStatus, RefusedIsNotResolved DEF AttachEvidence, Statuses

LEMMA AdjustedStatus ==
  ASSUME NEW r, NEW amount
  PROVE  AdjustTotal(r, amount).status \in Statuses
BY ValidatedStatus, RefusedIsNotResolved DEF AdjustTotal, Statuses

LEMMA MutatedStatus ==
  ASSUME NEW r, NEW c
  PROVE  Mutate(r, c).status \in Statuses
<1>1. \A reason : Refused(r, reason).status \in Statuses
  BY RefusedIsNotResolved DEF Statuses
<1>2. UpdateRecord(r, c).status \in Statuses
  BY ValidatedStatus, AttachedStatus, AdjustedStatus DEF UpdateRecord, Then
<1>3. AddLineItem(r, c.item).status \in Statuses
  BY <1>1, ValidatedStatus DEF AddLineItem
<1>4. RemoveLineItemAt(r, IndexByName(r, c.item.name)).status \in Statuses
  BY <1>1, ValidatedStatus DEF RemoveLineItemAt
<1>5. MarkSettled(r, c.evidence).status \in Statuses
  BY ValidatedStatus, AttachedStatus DEF MarkSettled, Then
<1> QED
  BY <1>1, <1>2, <1>3, <1>4, <1>5, AdjustedStatus DEF Mutate

\* Rounding the total of a valid record keeps it valid, if what the code adds its
\* items up to is a whole number of cents.
LEMMA RoundedRecord ==
  ASSUME NEW r \in Records, Refusal(r) = NoText, NEW t \in Rounded(r.total),
         ItemsTotal(r.items) % 4 = 0
  PROVE  Refusal([r EXCEPT !.total = t]) = NoText
<1> DEFINE s == [r EXCEPT !.total = t]
           Bad(items) == {k \in DOMAIN items : ItemRefusal(items[k]) # NoText}
           Why(items) == ItemRefusal(items[CHOOSE k \in Bad(items) : \A l \in Bad(items) : k <= l])
           Reason(u) ==
             IF Bad(u.items) # {} THEN Why(u.items)
             ELSE IF u.items # <<>> /\ u.total # ItemsTotal(u.items) THEN "total_conflicts_with_lines"
             ELSE IF "channel" \in u.evidence /\ "reference" \notin u.evidence
                  THEN "settlement_evidence_missing"
             ELSE NoText
<1> SUFFICES Refusal(s) = NoText
  OBVIOUS
<1>1. r.total \in Int /\ s.items = r.items /\ s.evidence = r.evidence /\ s.total = t
  BY DEF Records
<1> HIDE DEF s
<1>2. Refusal(s) = Reason(s) /\ Refusal(r) = Reason(r)
  BY DEF Refusal
<1>3. r.items # <<>> /\ r.total = ItemsTotal(r.items) => t = r.total
  BY <1>1, RoundedTotal
<1>4. "total_conflicts_with_lines" # NoText
  BY DEF NoText
<1> HIDE DEF Bad, Why
<1>5. CASE Bad(r.items) # {}
  BY <1>1, <1>2, <1>5
<1>6. CASE Bad(r.items) = {}
  <2>1. r.items = <<>> \/ r.total = ItemsTotal(r.items)
    BY <1>2, <1>4, <1>6
  <2>2. s.items = <<>> \/ s.total = ItemsTotal(s.items)
    BY <1>1, <1>3, <2>1
  <2> QED
    BY <1>1, <1>2, <1>4, <1>6, <2>1, <2>2
<1> QED
  BY <1>5, <1>6

LEMMA PlanUpdateIInv ==
  ASSUME IInv, PlanUpdate
  PROVE  IInv'
<1> DEFINE Old(p, readable) == IF readable /\ p \in DOMAIN disk THEN disk[p] ELSE Unread
           W(p, rec, t, c, readable) ==
             [op |-> "write", path |-> p, doc |-> Rendered(rec, t, c, Old(p, readable))]
<1>1. PICK c \in UpdateCommands :
        \/ \E status \in Statuses : Answer(c, status)
        \/ \E p \in DOMAIN loaded, readable \in BOOLEAN :
             LET s == Mutate(loaded[p], c)
             IN /\ GateRefusal(c) = NoText /\ s.status = "resolved"
                /\ \E t \in Rounded(s.rec.total) : todo' = <<W(p, s.rec, t, c, readable)>>
                /\ command' = c /\ pc' = "write" /\ read' = (readable /\ p \in DOMAIN disk)
                /\ UNCHANGED <<disk, late, loaded, reply, steps, settled>>
  <2>1. PICK c \in UpdateCommands, target \in Targets, readable \in BOOLEAN :
          IF ~c.authorized THEN Answer(c, "blocked")
          ELSE IF target = {} THEN Answer(c, "clarify_missing")
          ELSE \E p \in target :
               LET s == Mutate(loaded[p], c)
               IN IF UpdateRefusal(c) # NoText THEN Answer(c, UpdateRefusal(c))
                  ELSE IF s.status # "resolved" THEN Answer(c, s.status)
                  ELSE /\ \E t \in Rounded(s.rec.total) : todo' = <<W(p, s.rec, t, c, readable)>>
                       /\ command' = c /\ pc' = "write" /\ read' = (readable /\ p \in DOMAIN disk)
                       /\ UNCHANGED <<disk, late, loaded, reply, steps, settled>>
    BY DEF PlanUpdate
  <2>2. UpdateRefusal(c) \in {NoText, "blocked", "clarify_missing"}
    BY DEF UpdateRefusal
  <2>3. UpdateRefusal(c) = NoText => GateRefusal(c) = NoText
    BY DEF UpdateRefusal, NoText
  <2>4. target \subseteq DOMAIN loaded
    BY DEF Targets, UniqueMatch
  <2> HIDE DEF W
  <2>5. CASE ~c.authorized \/ target = {}
    BY <2>1, <2>5 DEF Statuses
  <2>6. CASE c.authorized /\ target # {}
    <3>1. PICK p \in target :
            LET s == Mutate(loaded[p], c)
            IN IF UpdateRefusal(c) # NoText THEN Answer(c, UpdateRefusal(c))
               ELSE IF s.status # "resolved" THEN Answer(c, s.status)
               ELSE /\ \E t \in Rounded(s.rec.total) : todo' = <<W(p, s.rec, t, c, readable)>>
                    /\ command' = c /\ pc' = "write" /\ read' = (readable /\ p \in DOMAIN disk)
                    /\ UNCHANGED <<disk, late, loaded, reply, steps, settled>>
      BY <2>1, <2>6
    <3>2. CASE UpdateRefusal(c) # NoText
      BY <2>2, <3>1, <3>2 DEF Statuses
    <3>3. CASE UpdateRefusal(c) = NoText /\ Mutate(loaded[p], c).status # "resolved"
      BY <3>1, <3>3, MutatedStatus
    <3>4. CASE UpdateRefusal(c) = NoText /\ Mutate(loaded[p], c).status = "resolved"
      BY <2>3, <2>4, <3>1, <3>4
    <3> QED
      BY <3>2, <3>3, <3>4
  <2> QED
    BY <2>5, <2>6
<1>2. ASSUME NEW status \in Statuses, Answer(c, status)
      PROVE  IInv'
  BY <1>2, AnswerIInv
<1>3. ASSUME NEW p \in DOMAIN loaded, NEW readable \in BOOLEAN,
             GateRefusal(c) = NoText, Mutate(loaded[p], c).status = "resolved",
             NEW t \in Rounded(Mutate(loaded[p], c).rec.total),
             todo' = <<W(p, Mutate(loaded[p], c).rec, t, c, readable)>>,
             command' = c, pc' = "write", read' = (readable /\ p \in DOMAIN disk),
             UNCHANGED <<disk, late, loaded, reply, steps, settled>>
      PROVE  IInv'
  <2> DEFINE s == Mutate(loaded[p], c).rec
             u == [s EXCEPT !.total = t]
             old == Old(p, readable)
             d == Rendered(s, t, c, old)
             w == W(p, s, t, c, readable)
  <2>1. p \in Paths /\ loaded[p] \in Records /\ Sound(loaded[p])
    BY DEF IInv, TypeOK, Ledger, AllSound
  <2>2. s \in Records /\ Refusal(s) = NoText /\ CompleteEvidence(s) /\ OnlyNamed(c, loaded[p], s)
    BY <1>3, <2>1, MutatedRecord DEF Sound
  <2> HIDE DEF s
  <2>3. t \in Int /\ t % 4 = 0 /\ (s.total % 4 = 0 => t = s.total)
    BY <1>3, <2>2, RoundedTotal DEF s, Records
  <2>4. /\ u.total = t /\ u.items = s.items /\ u.state = s.state /\ u.evidence = s.evidence
        /\ u \in Records
    BY <2>2, <2>3 DEF Records
  <2>5. ItemsTotal(u.items) % 4 = 0 => Refusal(u) = NoText
    BY <1>3, <2>2, <2>4, RoundedRecord DEF s
  <2> HIDE DEF u
  <2>6. Sound(u) /\ OnlyNamed(c, loaded[p], u)
    BY <2>1, <2>2, <2>3, <2>4 DEF Sound, CompleteEvidence, OnlyNamed
  <2>7. old.notes \in {NoText, "old", "new"} /\ old.extras \in BOOLEAN
    BY DEF Unread, IInv, TypeOK, Ledger, Documents
  <2>8. c.notes \in {NoText, "new"} /\ c.action \in UpdateActions
    BY DEF UpdateCommands, UpdateActions
  <2> HIDE DEF Old
  <2>9. /\ d \in Documents /\ d.rec = u /\ Parsed(d) = u
        /\ d.extras = old.extras
        /\ c.notes = NoText => d.notes = old.notes
    BY <2>2, <2>3, <2>7, <2>8, RenderedDocument DEF u
  <2> HIDE DEF d
  <2>10. w = [op |-> "write", path |-> p, doc |-> d]
    BY DEF d
  <2>11. w \in Writes /\ w.op = "write" /\ w.path = p /\ w.doc = d
    BY <2>1, <2>9, <2>10 DEF Writes
  <2> HIDE DEF w
  <2>12. todo' = <<w>>
    BY <1>3 DEF w, s
  <2>13. todo' \in Seq(Writes) /\ Len(todo') = 1 /\ todo'[1] = w
    BY <2>11, <2>12
  <2>14. read' => old = disk[p]
    BY <1>3 DEF Old
  <2>15. settled => p \in DOMAIN disk /\ loaded[p] = Parsed(disk[p])
    BY DEF IInv, ContextFresh, PlanUpdate
  <2>16. InHand'
    <3>1. c.action # "bulk_delete" /\ c.action # "create_invoice"
      BY <2>8 DEF UpdateActions, BankActions
    <3> QED
      BY <1>3, <2>5, <2>6, <2>9, <2>11, <2>13, <2>14, <2>15, <3>1 DEF InHand
  <2> QED
    BY <1>3, <2>6, <2>9, <2>11, <2>13, <2>16, PlannedIInv
<1> QED
  BY <1>1, <1>2, <1>3

LEMMA HeadOfTodo ==
  ASSUME IInv, pc = "write"
  PROVE  /\ Head(todo) = todo[1] /\ todo[1] \in Writes /\ todo[1] \in Calls
         /\ Len(todo) \in Nat /\ Len(todo) >= 1
         /\ todo[1].op = "write" => Sound(todo[1].doc.rec)
<1>1. todo \in Seq(Writes) /\ Len(todo) >= 1
  BY DEF IInv, TypeOK, InHand
<1>2. Len(todo) \in Nat /\ Head(todo) = todo[1] /\ 1 \in 1 .. Len(todo) /\ todo[1] \in Writes
  BY <1>1
<1>3. todo[1] \in Calls
  BY <1>2 DEF Calls
<1> QED
  BY <1>1, <1>2, <1>3 DEF IInv, AllSound

\* Whatever became of the call, the mutation goes on to its next write or ends.
LEMMA GoneOnIInv ==
  ASSUME IInv, pc = "write",
         \/ Finish("resolved") \/ Finish("blocked")
         \/ /\ Len(todo) # 1 /\ todo' = Tail(todo)
            /\ UNCHANGED <<command, reply, pc, loaded, read>>,
         Ledger(disk', Documents), IsFiniteSet(DOMAIN disk'),
         \A p \in DOMAIN disk' : Sound(disk'[p].rec),
         late' \subseteq Calls, UNCHANGED <<steps, settled>>
  PROVE  IInv'
<1> DEFINE Moved == /\ Len(todo) # 1 /\ todo' = Tail(todo)
                    /\ UNCHANGED <<command, reply, pc, loaded, read>>
           Ending == Finish("resolved") \/ Finish("blocked")
<1>1. todo \in Seq(Writes) /\ Len(todo) \in Nat /\ Len(todo) >= 1 /\ late \subseteq Writes
  BY HeadOfTodo DEF IInv, TypeOK
<1>2. \A w \in Calls : w \in Writes /\ (w.op = "write" => Sound(w.doc.rec))
  BY <1>1 DEF Calls, IInv, AllSound
<1>3. CASE Moved
  <2>1. /\ Len(todo) >= 2 /\ todo' \in Seq(Writes) /\ Len(todo') = Len(todo) - 1
        /\ \A k \in 1 .. Len(todo') : todo'[k] = todo[k + 1] /\ k + 1 \in 1 .. Len(todo)
    <3>1. Len(todo) >= 2 /\ todo' = Tail(todo)
      <4>1. Len(todo) # 1 /\ todo' = Tail(todo)
        BY <1>3, Zenon
      <4>2. \A n \in Nat : n >= 1 /\ n # 1 => n >= 2
        OBVIOUS
      <4>3. Len(todo) >= 2
        BY <1>1, <4>1, <4>2, Zenon
      <4> QED
        BY <4>1, <4>3
    <3>2. /\ Tail(todo) \in Seq(Writes) /\ Len(Tail(todo)) = Len(todo) - 1
          /\ \A k \in 1 .. Len(todo) - 1 : Tail(todo)[k] = todo[k + 1]
      <4>1. todo # <<>>
        BY <3>1
      <4> QED
        BY <1>1, <4>1, HeadTailProperties
    <3> QED
      BY <1>1, <3>1, <3>2
  <2>2. \A k \in 1 .. Len(todo') : todo'[k] \in Calls
    BY <2>1 DEF Calls
  <2>3. TypeOK'
    BY <1>2, <1>3, <2>1 DEF IInv, TypeOK
  <2>4. FiniteLedgers'
    BY <1>3 DEF IInv, FiniteLedgers
  <2>5. AllSound'
    <3>1. Calls' \subseteq Calls
      BY <2>2 DEF Calls
    <3> QED
      BY <1>2, <1>3, <3>1 DEF IInv, AllSound
  <2>6. InHand'
    <3>1. /\ pc' = "write" /\ Len(todo') >= 1
          /\ command.action \notin UpdateActions
          /\ ~(command.action = "create_invoice" /\ command.number = 0)
      BY <1>3, <2>1 DEF IInv, InHand
    <3>2. command.action = "bulk_delete" =>
            \A k \in 1 .. Len(todo') :
              /\ todo'[k].op = "delete"
              /\ Meant(loaded, command) # {} => todo'[k].path \in Meant(loaded, command)
      BY <2>1 DEF IInv, InHand
    <3> QED
      BY <1>3, <3>1, <3>2 DEF InHand
  <2> QED
    BY <1>3, <2>3, <2>4, <2>5, <2>6 DEF IInv, ContextFresh
<1>4. CASE Ending
  <2>1. /\ command' = NoCommand /\ reply' \in Statuses /\ pc' = "idle" /\ loaded' = <<>>
        /\ todo' = <<>> /\ read' = TRUE
    BY <1>4 DEF Finish, Statuses
  <2>2. DOMAIN loaded' = {} /\ Len(todo') = 0 /\ todo' \in Seq(Writes)
    BY <2>1
  <2>3. TypeOK'
    <3>1. Ledger(loaded', Records) /\ late' \subseteq Writes
      BY <1>2, <2>2 DEF Ledger
    <3>2. /\ pc' \in {"idle", "plan", "write"} /\ steps' \in 0 .. MaxSteps
          /\ read' \in BOOLEAN /\ settled' \in BOOLEAN
      BY <2>1 DEF IInv, TypeOK
    <3> QED
      BY <2>1, <2>2, <3>1, <3>2 DEF TypeOK, Statuses
  <2>4. FiniteLedgers'
    BY <2>2, FS_EmptySet DEF FiniteLedgers
  <2>5. AllSound'
    BY <1>2, <2>2 DEF AllSound, Calls
  <2> QED
    BY <2>1, <2>3, <2>4, <2>5 DEF IInv, ContextFresh, InHand
<1> QED
  BY <1>3, <1>4

LEMMA WriteSucceedsIInv ==
  ASSUME IInv, WriteSucceeds
  PROVE  IInv'
<1>1. pc = "write" /\ disk' = Apply(disk, Head(todo)) /\ UNCHANGED <<late, steps, settled>>
  BY DEF WriteSucceeds
<1>2. \/ Finish("resolved")
      \/ /\ Len(todo) # 1 /\ todo' = Tail(todo)
         /\ UNCHANGED <<command, reply, pc, loaded, read>>
  BY DEF WriteSucceeds, Proceed
<1> DEFINE w == todo[1]
<1>3. Head(todo) = w /\ w \in Writes /\ (w.op = "write" => Sound(w.doc.rec))
  BY <1>1, HeadOfTodo
<1> HIDE DEF w
<1>4. /\ Ledger(disk', Documents) /\ IsFiniteSet(DOMAIN disk')
      /\ w.op = "write" => w.path \in DOMAIN disk' /\ disk'[w.path] = w.doc
      /\ \A p \in DOMAIN disk' : p # w.path => p \in DOMAIN disk /\ disk'[p] = disk[p]
      /\ w.op = "delete" => w.path \notin DOMAIN disk'
      /\ w.op \in {"write", "delete"}
  <2>1. FiniteLedgers /\ Ledger(disk, Documents)
    BY DEF IInv, TypeOK
  <2>2. disk' = Apply(disk, w)
    BY <1>1, <1>3
  <2> QED
    BY <1>3, <2>1, <2>2, AppliedWrite, WriteParts
<1>5. \A p \in DOMAIN disk' : Sound(disk'[p].rec)
  BY <1>3, <1>4 DEF IInv, AllSound
<1>6. late' \subseteq Calls
  BY <1>1 DEF Calls
<1> QED
  BY <1>1, <1>2, <1>4, <1>5, <1>6, GoneOnIInv

LEMMA WriteRaisesIInv ==
  ASSUME IInv, WriteRaises
  PROVE  IInv'
<1>1. /\ pc = "write" /\ UNCHANGED <<disk, steps, settled>>
      /\ late' \in {late, late \union {Head(todo)}}
  BY DEF WriteRaises
<1>2. \/ Finish("resolved") \/ Finish("blocked")
      \/ /\ Len(todo) # 1 /\ todo' = Tail(todo)
         /\ UNCHANGED <<command, reply, pc, loaded, read>>
  BY DEF WriteRaises, Proceed
<1>3. late' \subseteq Calls
  BY <1>1, HeadOfTodo DEF Calls
<1>4. /\ Ledger(disk', Documents) /\ IsFiniteSet(DOMAIN disk')
      /\ \A p \in DOMAIN disk' : Sound(disk'[p].rec)
  BY <1>1 DEF IInv, TypeOK, FiniteLedgers, AllSound
<1> QED
  BY <1>1, <1>2, <1>3, <1>4, GoneOnIInv

LEMMA LateWriteLandsIInv ==
  ASSUME IInv, LateWriteLands
  PROVE  IInv'
<1>1. PICK w \in late : disk' = Apply(disk, w) /\ late' = late \ {w}
  BY DEF LateWriteLands
<1>2. /\ w \in Writes /\ w \in Calls /\ settled' = FALSE
      /\ UNCHANGED <<loaded, command, todo, reply, pc, steps, read>>
  BY DEF LateWriteLands, IInv, TypeOK, Calls
<1>3. /\ Ledger(disk', Documents) /\ IsFiniteSet(DOMAIN disk')
      /\ w.op = "write" => w.path \in DOMAIN disk' /\ disk'[w.path] = w.doc
      /\ \A p \in DOMAIN disk' : p # w.path => p \in DOMAIN disk /\ disk'[p] = disk[p]
      /\ w.op = "delete" => w.path \notin DOMAIN disk'
      /\ w.op \in {"write", "delete"}
  <2>1. FiniteLedgers /\ Ledger(disk, Documents)
    BY DEF IInv, TypeOK
  <2> QED
    BY <1>1, <1>2, <2>1, AppliedWrite, WriteParts
<1>4. TypeOK'
  BY <1>1, <1>2, <1>3 DEF IInv, TypeOK
<1>5. FiniteLedgers'
  BY <1>2, <1>3 DEF IInv, FiniteLedgers
<1>6. AllSound'
  <2>1. \A p \in DOMAIN disk' : Sound(disk'[p].rec)
    BY <1>2, <1>3 DEF IInv, AllSound
  <2>2. Calls' \subseteq Calls
    BY <1>1, <1>2 DEF Calls
  <2> QED
    BY <1>2, <2>1, <2>2 DEF IInv, AllSound
<1>7. InHand'
  BY <1>2 DEF IInv, InHand
<1> QED
  BY <1>2, <1>4, <1>5, <1>6, <1>7 DEF IInv, ContextFresh

LEMMA NextIInv ==
  ASSUME IInv, [Next]_vars
  PROVE  IInv'
<1>1. CASE UNCHANGED vars \/ Ended
  <2>1. UNCHANGED vars
    BY <1>1 DEF Ended
  <2> QED
    BY <2>1 DEF vars, IInv, TypeOK, FiniteLedgers, AllSound, ContextFresh, InHand, Calls
<1> QED
  BY <1>1, LoadRecordsIInv, PlanCreateIInv, PlanUpdateIInv, PlanDeleteIInv, PlanIngestIInv,
     WriteSucceedsIInv, WriteRaisesIInv, LateWriteLandsIInv DEF Next

LEMMA Invariance == Spec => []IInv
<1>1. Init => IInv
  BY InitIInv
<1>2. IInv /\ [Next]_vars => IInv'
  BY NextIInv
<1> QED
  BY <1>1, <1>2, PTL DEF Spec

-----------------------------------------------------------------------------
(* Theorems *)

\* Every variable keeps its kind, however the calls of the mutations end.
THEOREM LedgerTypes == Spec => []TypeOK
<1>1. IInv => TypeOK
  BY DEF IInv
<1> QED
  BY <1>1, Invariance, PTL

\* The payment gate and the aggregate: no file ever carries a part of the
\* settlement evidence without the rest, or is settled without all of it.
THEOREM EvidenceIsComplete == Spec => []EvidenceComplete
<1>1. IInv => EvidenceComplete
  BY DEF IInv, AllSound, Sound, EvidenceComplete
<1> QED
  BY <1>1, Invariance, PTL

\* A file that changes while no late call lands is changed by the first of the
\* writes the mutation still had to make.
LEMMA ChangedByWrite ==
  ASSUME IInv, [Next]_vars, pc = "write", disk' # disk, late' = late
  PROVE  /\ disk' = Apply(disk, todo[1]) /\ todo[1] \in Writes /\ Head(todo) = todo[1]
         /\ Ledger(disk', Documents)
         /\ DOMAIN disk \ DOMAIN disk' \subseteq {todo[1].path}
         /\ todo[1].op = "write" => disk'[todo[1].path] = todo[1].doc
<1>1. WriteSucceeds
  <2>1. ~ UNCHANGED vars /\ ~ Ended /\ ~ WriteRaises
    BY DEF vars, Ended, WriteRaises
  <2>2. ~ LoadRecords /\ ~ PlanCreate /\ ~ PlanUpdate /\ ~ PlanDelete /\ ~ PlanIngest
    BY DEF LoadRecords, PlanCreate, PlanUpdate, PlanDelete, PlanIngest
  <2>3. ~ LateWriteLands
    BY DEF LateWriteLands
  <2> QED
    BY <2>1, <2>2, <2>3 DEF Next
<1>2. Head(todo) = todo[1] /\ todo[1] \in Writes
  BY HeadOfTodo
<1>3. disk' = Apply(disk, todo[1])
  BY <1>1, <1>2 DEF WriteSucceeds
<1>4. FiniteLedgers /\ Ledger(disk, Documents)
  BY DEF IInv, TypeOK
<1> QED
  BY <1>2, <1>3, <1>4, AppliedWrite

\* What an update wrote is accepted when it is loaded again, unless its items
\* add up to half a cent or as doubles miss the cents they add up to.
THEOREM UpdatesReload == Spec => UpdatedRecordsReload
<1>1. ASSUME IInv, [Next]_vars, WritesBy(UpdateActions)
      PROVE  LET new == Parsed(disk'[Head(todo).path])
             IN ItemsTotal(new.items) % 4 = 0 => Refusal(new) = NoText
  <2>1. /\ Head(todo) = todo[1]
        /\ todo[1].op = "write" => disk'[todo[1].path] = todo[1].doc
    BY <1>1, ChangedByWrite DEF WritesBy
  <2> QED
    BY <1>1, <2>1 DEF WritesBy, IInv, InHand
<1> QED
  BY <1>1, Invariance, PTL DEF Spec, UpdatedRecordsReload

\* An update changes the fields its action is about and no others, although it
\* replaces a whole file from what it loaded earlier.
THEOREM UpdatesChangeNamedFields == Spec => NamedFieldsOnly
<1> DEFINE Named ==
      LET p == Head(todo).path
          old == Parsed(disk[p])
          new == Parsed(disk'[p])
      IN /\ old.state # new.state => command.action \in BankActions
         /\ old.evidence # new.evidence => command.action \in BankActions \union {"update"}
         /\ old.items # new.items => command.action \in {"add_line_item", "remove_line_item"}
         /\ old.total # new.total =>
              command.action \in {"update", "adjust_amount", "add_line_item", "remove_line_item"}
<1>1. ASSUME IInv, [Next]_vars, WritesBy(UpdateActions) /\ settled
      PROVE  Named
  <2>1. /\ Head(todo) = todo[1]
        /\ todo[1].op = "write" => disk'[todo[1].path] = todo[1].doc
    BY <1>1, ChangedByWrite DEF WritesBy
  <2>2. /\ todo[1].op = "write"
        /\ OnlyNamed(command, Parsed(disk[todo[1].path]), Parsed(todo[1].doc))
    BY <1>1 DEF WritesBy, IInv, InHand
  <2> QED
    BY <2>1, <2>2 DEF OnlyNamed
<1> QED
  BY <1>1, Invariance, PTL DEF Spec, NamedFieldsOnly

\* Notes and other sections survive an update that could read its file.
THEOREM UpdatesKeepSections == Spec => SectionsSurvive
<1> DEFINE Survived ==
      LET p == Head(todo).path
      IN /\ disk'[p].extras = disk[p].extras
         /\ command.notes = NoText => disk'[p].notes = disk[p].notes
<1>1. ASSUME IInv, [Next]_vars, WritesBy(UpdateActions) /\ settled /\ read
      PROVE  Survived
  <2>1. /\ Head(todo) = todo[1]
        /\ todo[1].op = "write" => disk'[todo[1].path] = todo[1].doc
    BY <1>1, ChangedByWrite DEF WritesBy
  <2>2. LET w == todo[1]
        IN /\ w.op = "write" /\ w.doc.extras = disk[w.path].extras
           /\ command.notes = NoText => w.doc.notes = disk[w.path].notes
    BY <1>1 DEF WritesBy, IInv, InHand
  <2> QED
    BY <2>1, <2>2
<1> QED
  BY <1>1, Invariance, PTL DEF Spec, SectionsSurvive

\* The records a bulk deletion means, of its type and with its text, are its
\* ceiling as soon as there is one.
THEOREM MeantIsTheCeiling == Spec => DeletionCeiling
<1>1. ASSUME IInv, [Next]_vars,
             WritesBy({"bulk_delete"}) /\ Meant(loaded, command) # {}
      PROVE  DOMAIN disk \ DOMAIN disk' \subseteq Meant(loaded, command)
  <2>1. DOMAIN disk \ DOMAIN disk' \subseteq {todo[1].path}
    BY <1>1, ChangedByWrite DEF WritesBy
  <2>2. 1 \in 1 .. Len(todo)
    BY <1>1, HeadOfTodo DEF WritesBy
  <2>3. todo[1].path \in Meant(loaded, command)
    BY <1>1, <2>2 DEF WritesBy, IInv, InHand
  <2> QED
    BY <2>1, <2>3
<1> QED
  BY <1>1, Invariance, PTL DEF Spec, DeletionCeiling

\* A counted invoice number names no stored file, when the numbers of the alias
\* have no gap, all records were loaded and nothing landed late.
THEOREM CountedNumbersAreFresh == Spec => CountedNumberFresh
<1>1. ASSUME IInv, [Next]_vars,
             WritesBy({"create_invoice"}) /\ command.number = 0 /\ settled
               /\ Gapless(command.alias) /\ DOMAIN loaded = DOMAIN disk
      PROVE  Head(todo).path \notin DOMAIN disk
  <2> DEFINE a == command.alias
             S == {q \in DOMAIN disk : q.type = "invoice" /\ q.alias = a}
             N == Numbers(a)
             f == [q \in S |-> q.number]
             next == NextNumber(loaded, a)
  <2>1. IsFiniteSet(S)
    <3>1. S \subseteq DOMAIN disk
      OBVIOUS
    <3> QED
      BY <1>1, <3>1, FS_Subset DEF IInv, FiniteLedgers
  <2>2. f \in Surjection(S, N)
    BY DEF Surjection, Numbers
  <2>3. /\ IsFiniteSet(N) /\ Cardinality(N) <= Cardinality(S)
        /\ Cardinality(S) \in Nat /\ Cardinality(N) \in Nat
    BY <2>1, <2>2, FS_Surjection, FS_CardinalityType
  <2>4. next = 1 + Cardinality(S)
    BY <1>1 DEF NextNumber
  <2>5. N = 1 .. Cardinality(N)
    BY <1>1 DEF Gapless
  <2>6. next \notin N
    <3> HIDE DEF S, N, next
    <3> QED
      BY <2>3, <2>4, <2>5
  <2>7. /\ Head(todo) = todo[1]
        /\ todo[1].path = [type |-> "invoice", number |-> next, alias |-> a]
    BY <1>1, HeadOfTodo DEF WritesBy, IInv, InHand
  <2> HIDE DEF next
  <2>8. todo[1].path \in DOMAIN disk => next \in N
    BY <2>7 DEF Numbers
  <2> QED
    BY <2>6, <2>7, <2>8
<1> QED
  BY <1>1, Invariance, PTL DEF Spec, CountedNumberFresh
=============================================================================
