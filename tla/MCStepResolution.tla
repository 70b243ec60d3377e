--------------------------- MODULE MCStepResolution ---------------------------
(* A small workspace with the cases that are hard to tell apart: entities that share *)
(* an alias or an address, projects of one title, a lone contact, two records with   *)
(* one file name, items whose unit price and line total differ.                      *)
EXTENDS StepResolution, RecordBuilding

FieldNames == {"title", "name", "project_name", "entity_id", "alias", "alias_terms", "identity_terms",
               "relationship", "kind", "primary_contact_email", "birthday", "created_on", "milestones",
               "important_dates", "descriptor_aliases", "status", "lane", "goal", "next_step", "priority",
               "start_date", "started_on", "project_started_on", "owner_id", "linked_entities", "participants",
               "captured_on", "date"}
Filled(fields) == [f \in FieldNames |-> IF f \in DOMAIN fields THEN fields[f] ELSE <<>>]
Document(stem, matter, bullets) ==
    [path |-> stem, stem |-> stem, heading |-> <<>>, matter |-> Filled(matter), bullets |-> Filled(bullets),
     snapshot |-> 0]

None_ == [f \in {} |-> <<>>]
AnnDocument ==
    Document("ann", [entity_id |-> << <<"entity.e1", "e1">> >>, relationship |-> <<"self">>, birthday |-> <<19900303>>,
                     primary_contact_email |-> <<"ann@x">>, milestones |-> << <<"created_on", 20200101>> >>],
             [alias |-> <<"annie", "friend">>])
BobDocument ==
    Document("bob", [entity_id |-> << <<"entity.e1", "e1">> >>, relationship |-> <<"friend">>, birthday |-> <<19850303>>],
             [primary_contact_email |-> <<"bob@x">>, alias |-> <<"c1">>])
BoxDocument ==
    Document("box", [title |-> <<"bob inc">>, kind |-> <<"system">>, relationship |-> <<"vendor">>, birthday |-> <<20000101>>],
             [primary_contact_email |-> <<"bob@x">>])
Child(stem, relationship, birthday) ==
    Document(stem, [relationship |-> <<relationship>>],
             [important_dates |-> << <<"birthday", birthday>> >>, alias |-> <<"friend">>])
Household == <<Child("kit", "son", 20200229), Child("liv", "daughter", 20151231),
               Document("rex", [relationship |-> <<"dog">>, birthday |-> <<20200303>>], None_)>>

Projects ==
    <<Document("p1", [title |-> <<"red">>, status |-> <<"live">>, start_date |-> <<4>>, alias_terms |-> <<"older">>],
               [owner_id |-> << <<"entity.box", "box">> >>, started_on |-> <<20240104>>]),
      Document("p2", [title |-> <<"red">>, alias |-> <<"rose">>, status |-> <<"done">>],
               [linked_entities |-> << <<"bob", "">>, <<"nobody", "">> >>]),
      [Document("p3", [project_name |-> <<"old">>, alias_terms |-> <<"older">>, status |-> <<"live">>], [participants |-> << <<"friend", "">> >>])
       EXCEPT !.snapshot = 20240104]>>
Said(day, author, message, has) == [day |-> day, author |-> author, message |-> message, has |-> has]
Threads ==
    <<[path |-> "t1", sections |-> <<Said(20240101, {<<"name", "annie">>}, TRUE, {"body"}),
                                     Said(20240102, {<<"id", "ann">>}, TRUE, {}), Said(20240103, {}, TRUE, {"body"})>>],
      [path |-> "t2", sections |-> <<Said(0, {<<"id", "bob">>, <<"name", "?">>}, TRUE, {"body"})>>]>>
Noted(stem, day) == Document(stem, [date |-> <<day>>], None_)
Contact_(id, name, email) == [contact_id |-> id, full_name |-> name, email |-> email, title |-> "", account_id |-> "a9"]
Account_(path, id, legal) == [path |-> path, account_id |-> id, legal_name |-> legal, display_name |-> "corp",
                              primary_contact |-> "c1", account_manager |-> "c2"]

Item(name, qty, unit, line) == [name |-> name, qty |-> qty, unit |-> unit, line |-> line]
Record_(path, cp, type, date, total, ref, items) ==
    [path |-> path, cp |-> cp, type |-> type, date |-> date, total |-> total, ref |-> ref,
     settled |-> FALSE, items |-> items, keys |-> {}, terms |-> {}]
Records ==
    <<Record_(<<"bills", <<"", "a">>>>, "acme", "bill", 5, 30, "", <<Item("bolt", 2, 15, 30)>>),
      Record_(<<"bills", <<"x__", "b">>>>, "acme", "bill", 9, 20, "box", <<Item("bolt", 1, 20, 20)>>),
      Record_(<<"invoices", <<"", "a">>>>, "acme", "invoice", 7, 50, "bob", <<Item("nut", 1, 50, 50)>>),
      Record_(<<"invoices", <<"_", "b">>>>, "acme", "invoice", 8, Absent, "box", <<Item("nut", 1, Absent, Absent)>>)>>

\* the notes that can be read and have the fields of a document, one of them of no record
Derivable == {<<"bills", <<"x__", "b">>>>, <<"invoices", <<"", "a">>>>, <<"invoices", <<"_", "b">>>>,
              <<"other", <<"", "z">>>>}

World(cast, projects, contacts, records) ==
    [cast |-> [n \in DOMAIN cast |-> EntityRecord(cast[n])],
     projects |-> [n \in DOMAIN projects |-> ProjectRecord(projects[n], cast)],
     contacts |-> ContactRecords(contacts),
     accounts |-> AccountRecords(<<Account_("a1", "a1", "one"), Account_("a2", "", "two")>>),
     messages |-> MessageRecords(Threads),
     captures |-> CaptureRecords(<<Noted("n1", 1), Noted("n2", 2), Noted("n3", 2), Noted("n4", 0)>>),
     queue |-> <<[path |-> "q1", keys |-> {}, terms |-> {"t1"}], [path |-> "q2", keys |-> {}, terms |-> {"t1", "t2"}]>>,
     records |-> records, derivable |-> Derivable,
     channels |-> {[path |-> "email", terms |-> {"acme"}], [path |-> "chat", terms |-> {"chat"}]}]
Contacts == <<Contact_("c1", "cy", "cy@x"), Contact_("c2", "di", "")>>
Full == World(BuiltEntities(<<AnnDocument, BobDocument, BoxDocument>>), Projects, Contacts, Records)
Lean == World(BuiltEntities(<<AnnDocument>>), <<>>, SubSeq(Contacts, 1, 1), <<>>)
Home == [World(BuiltEntities(Household), <<>>, <<>>, <<>>) EXCEPT !.accounts = <<>>]

Command(kind, variant, text, property) ==
    [kind |-> kind, variant |-> variant, text |-> text, property |-> property, self |-> FALSE, people |-> FALSE,
     status |-> "any", render |-> "list", role |-> "direct", day |-> 1]
Lookups ==
    {Command("entity_query", "scalar", t, "email") : t \in {"ann", "friend", "younger one", "nobody"}}
    \union {[Command("entity_query", v, "nobody", "email") EXCEPT !.self = TRUE, !.people = b] :
              v \in {"scalar", "aggregate"}, b \in BOOLEAN}
    \union {Command("message_query", "scalar", t, "body") : t \in {"bob", "friend"}}
    \union {Command("project_query", "scalar", t, p) : t \in {"red", "rose", "old", "older", "pink"}, p \in {"status", "start_date"}}
    \union {[Command("project_query", "involvement", t, "") EXCEPT !.status = s, !.render = r] :
              t \in {"bob", "friend"}, s \in {"any", "done", "lost"}, r \in {"list", "count"}}
    \union {Command("account_lookup", "scalar", t, "account_id") : t \in {"one", "two", "corp"}}
    \union {[Command("contact_lookup", "scalar", t, "email") EXCEPT !.role = r] :
              t \in {"cy", "di", "one", "nobody"}, r \in {"direct", "primary_contact", "account_manager"}}
    \union {[Command("capture_lookup", "scalar", "", "") EXCEPT !.day = d] : d \in 1..3}
    \union {Command("queue_state_lookup", "scalar", t, "") : t \in {"t1", "t2", "t3"}}

Intent(action, type, cp, item, date) ==
    [action |-> action, type |-> type, cp |-> cp, item |-> item, date |-> date, range |-> <<>>, since |-> Absent,
     ref |-> "", path |-> <<>>, hints |-> <<>>]
Asked_(intent) == [kind |-> "finance_lookup", intent |-> intent, named |-> <<"", "none">>]
FinanceCommands ==
    {Asked_(Intent("counterparty_total", type, cp, item, Absent)) : type \in {"any", "bill"}, cp \in {"", "acme", "none"}, item \in {"", "bolt"}}
    \union {Asked_(Intent(a, "any", "acme", "bolt", d)) : a \in {"line_item_total", "line_item_price"}, d \in {6, 9}}
    \union {Asked_(Intent("line_item_total", t, "", "bolt", Absent)) : t \in {"any", "invoice"}}
    \union {Asked_([Intent(a, "any", "acme", i, Absent) EXCEPT !.range = <<7, 8>>, !.since = 5]) :
              a \in {"record_date", "record_total", "line_item_count", "line_item_quantity", "service_line_total"}, i \in {"", "nut"}}
    \union {Asked_([Intent(a, "any", "", "", Absent) EXCEPT !.ref = "bob"]) : a \in {"settlement_status", "settlement_reference"}}
    \union {[Asked_(Intent("counterparty_total", "any", "", "", Absent)) EXCEPT !.named = <<"x__", "b">>]}
    \union {Asked_([Intent("line_item_price", "invoice", "acme", "nut", 7) EXCEPT !.range = <<5, 9>>, !.hints = <<50>>])}
MCReintents == {Intent("counterparty_total", "bill", "acme", "", Absent), Intent("line_item_total", "any", "", "bolt", 5)}

Letter(sender, to, body, injected, channel) ==
    [kind |-> "inbox", item |-> [sender |-> sender, to |-> to, body |-> body, injected |-> injected, channel |-> channel]]
Letters == {Letter("me@x", {"me@x"}, TRUE, FALSE, ""), Letter("bob@x", {"me@x"}, TRUE, FALSE, "mail"),
            Letter("eve@x", {"me@x"}, TRUE, FALSE, ""), Letter("bob@x", {"me@x"}, TRUE, TRUE, ""),
            Letter("", {}, FALSE, FALSE, "")}

Request(kind, mode, hint, text) ==
    [kind |-> kind, mode |-> mode, cp |-> "acme", date |-> 1, alternate |-> 7, hint |-> hint, text |-> text, count |-> 1,
     order |-> "chronological", type |-> "any", ref |-> "", amount |-> Absent, evidence |-> FALSE,
     paths |-> <<>>, family |-> "", scope |-> "single"]
NoRequest == Request("none", "latest", "", "")
VerdictOf(decision, request) ==
    [parsed |-> TRUE, decision |-> decision, intent |-> IF decision = "task" THEN "project_query" ELSE "", text |-> FALSE,
     deletes |-> FALSE, carried |-> {decision} \intersect Requests, request |-> request]
MCVerdicts ==
    {VerdictOf("invoice_email", Request("resend", m, h, "")) : m \in {"dated", "latest"}, h \in {"", "box", "odd"}}
    \union {VerdictOf("invoice_email", [Request("bundle", m, "", "bob") EXCEPT !.order = o, !.count = 2]) :
              m \in {"oldest", "latest"}, o \in {"chronological", "reverse"}}
    \union {VerdictOf("invoice_email", Request("bundle", "latest", "", t)) : t \in {"bob", "friend", "nobody"}}
    \union {VerdictOf("payment", [NoRequest EXCEPT !.type = t, !.date = d, !.evidence = e]) :
              t \in {"any", "bill"}, d \in {Absent, 7}, e \in BOOLEAN}
    \union {VerdictOf("ingest", [Request("none", "latest", "", t) EXCEPT !.family = f, !.scope = s]) :
              t \in {"bob", "box", "friend"}, f \in {"", "box"}, s \in {"single", "all"}}
    \union {VerdictOf("ingest", [NoRequest EXCEPT !.paths = ps, !.family = "bob"]) :
              ps \in {<< <<"invoices", <<"", "">>>> >>, << <<"invoices", <<"", "a">>>> >>,
                      << <<"other", <<"", "b">>>>, <<"bills", <<"x__", "b">>>> >>,
                      << <<"other", <<"", "a">>>>, <<"bills", <<"", "a">>>> >>}}
    \union {VerdictOf("ingest", [NoRequest EXCEPT !.paths = ps]) :
              ps \in {<< <<"other", <<"", "z">>>> >>, << <<"other", <<"", "z">>>>, <<"bills", <<"x__", "b">>>> >>}}
    \union {[VerdictOf("task", NoRequest) EXCEPT !.deletes = b] : b \in BOOLEAN}
    \union {VerdictOf(d, NoRequest) : d \in {"none", "clarify", "refuse_out_of_scope", "refuse_security"}}
    \union {[VerdictOf(d, NoRequest) EXCEPT !.carried = c, !.text = b] : d \in {"task", "clarify"}, c \in {{}, {"payment"}}, b \in BOOLEAN}

MCCommands == Lookups \union FinanceCommands \union Letters
MCWorkspaces == [full |-> Full, lean |-> Lean, home |-> Home]
=============================================================================
