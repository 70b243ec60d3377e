----------------------------- MODULE RecordBuilding -----------------------------
(* The loaded records: what loaders/ builds out of the documents of the workspace *)
(* and what of them the lookups see (domain/cast, domain/projects, domain/        *)
(* messages).                                                                     *)
(*                                                                                *)
(* A document has a path, the stem of its name, headings, and two functions from  *)
(* the name of a field to the sequence of its values: matter, the front matter,   *)
(* and bullets, the list items "- field: value" of the body.  The front matter is *)
(* cut off the body before a loader sees it, so that the branches that parse it   *)
(* there again find none.  A day is the number yyyymmdd, any smaller number a     *)
(* text that is no date, 0 no text.  Texts are compared as they are: case,        *)
(* spacing and punctuation are left out.                                          *)
EXTENDS Integers, Sequences, FiniteSets, FiniteSetsExt, SequencesExt, Functions

CONSTANTS Today,     \* the day the age of a child and the next birthday are counted from
          Phrases    \* the names of more than one word

FirstOr(values, default) == IF values = <<>> THEN default ELSE values[1]
\* the values of a field in the order of precedence
Field(d, f) == d.matter[f] \o d.bullets[f]
Named(S) == S \ {""}

\* parse_markdown_document
Title(d) == FirstOr(d.matter["title"] \o d.matter["name"] \o d.matter["project_name"] \o d.heading, d.stem)

----------------------------------------------------------------------------
(* days *)

IsDay(day) == day > 9999999
YearOf(day) == day \div 10000
InYear(day) == day % 10000
Leap(year) == year % 4 = 0 /\ (year % 100 # 0 \/ year % 400 = 0)

\* strictly after today, within nine years; 0 when there is none
NextBirthday(birthday) ==
    LET years == {y \in YearOf(Today)..(YearOf(Today) + 8) : InYear(birthday) # 229 \/ Leap(y)}
        later == {d \in {y * 10000 + InYear(birthday) : y \in years} : d > Today}
    IN IF IsDay(birthday) /\ later # {} THEN Min(later) ELSE 0
Age(birthday) == (YearOf(Today) - YearOf(birthday)) - (IF InYear(Today) < InYear(birthday) THEN 1 ELSE 0)

----------------------------------------------------------------------------
(* entities *)

\* a relationship is an alias, and so is its possessive
RelationshipTerms(relationship) ==
    IF relationship = "" THEN {} ELSE {relationship, relationship \o "'s"}
Living == {"person", "pet", "animal"}
EntityKind(kind, relationship) ==
    IF kind \in {"system", "device", "service", "animal", "pet"} THEN kind
    ELSE IF relationship \in {"dog", "cat", "pet"} THEN "pet" ELSE "person"

\* a date has a field of its own or is one of the dates listed
DateOf(d, label) ==
    LET listed == SelectSeq(d.matter["milestones"] \o d.bullets["important_dates"] \o d.bullets["milestones"],
                            LAMBDA m : m[1] = label)
    IN FirstOr(Field(d, label) \o [n \in DOMAIN listed |-> listed[n][2]], 0)

BuiltEntity(d) ==
    LET id == FirstOr(d.matter["entity_id"], <<"entity." \o d.stem, d.stem>>)
        relationship == FirstOr(Field(d, "relationship"), "")
        kind == EntityKind(FirstOr(Field(d, "kind"), ""), relationship)
        own == Range(Field(d, "alias")) \union {Title(d), id[1], id[2]}
    IN [path |-> d.path, title |-> Title(d), id |-> id[1], slug |-> d.stem, alias |-> Range(d.matter["alias"]),
        kind |-> kind, relationship |-> relationship, email |-> FirstOr(Field(d, "primary_contact_email"), ""),
        birthday |-> IF kind \in Living THEN DateOf(d, "birthday") ELSE 0, created_on |-> DateOf(d, "created_on"),
        identity |-> Range(d.matter["identity_terms"]) \union own \union {d.stem}, descriptors |-> {},
        aliases |-> Range(d.matter["alias_terms"]) \union own
                    \union UNION {RelationshipTerms(r) : r \in Range(Field(d, "relationship"))}]

Children == {"son", "daughter", "child"}
LifeStages == [preschool |-> 3..4, kindergarten |-> 3..5, school |-> 6..17]
PartnerWords(relationship) ==
    IF relationship \in {"wife", "husband", "spouse", "partner"} THEN {"spouse", "partner"}
    ELSE IF relationship = "engineering_counterpart" THEN {"infra counterpart", "platform counterpart"} ELSE {}

\* the oldest and the youngest of the children get names that depend on the others
WithRelatives(entities) ==
    LET children == {n \in DOMAIN entities : /\ entities[n].relationship \in Children
                                             /\ IsDay(entities[n].birthday)}
        Elder(a, b) == \/ entities[a].birthday < entities[b].birthday
                       \/ entities[a].birthday = entities[b].birthday /\ a <= b
        Rank(n) == IF n \notin children \/ Cardinality(children) < 2 THEN {}
                   ELSE {r \in {"older", "younger"} :
                           \A m \in children : IF r = "older" THEN Elder(n, m) ELSE Elder(m, n)}
        Stage(n) == IF n \notin children THEN {}
                    ELSE {s \in DOMAIN LifeStages : Age(entities[n].birthday) \in LifeStages[s]}
        Descriptors(n) == {s \o "-age child" : s \in Stage(n)} \union {r \o " child" : r \in Rank(n)}
                          \union PartnerWords(entities[n].relationship)
    IN [n \in DOMAIN entities |-> [entities[n] EXCEPT !.descriptors = @ \union Descriptors(n),
                                                      !.aliases = @ \union {r \o " one" : r \in Rank(n)}]]
BuiltEntities(documents) == WithRelatives([n \in DOMAIN documents |-> BuiltEntity(documents[n])])

----------------------------------------------------------------------------
(* what the lookups see of an entity *)

CanonicalTerms(e) == {e.title, e.slug, e.id} \union e.alias \union e.aliases
ProjectionTerms(e) == Named({e.email, e.relationship, e.kind}) \union e.identity \union CanonicalTerms(e)
InvolvementTerms(e) ==
    ({e.id, "entity." \o e.slug, e.slug, e.title} \union (e.aliases \intersect Phrases))
    \ RelationshipTerms(e.relationship)
AuthorNames(e) ==
    {<<"id", i>> : i \in {e.id, e.slug, "entity." \o e.slug}} \union {<<"name", c>> : c \in CanonicalTerms(e)}
EntityProperties(e) ==
    {f \in {"email", "relationship", "kind"} : e[f] # ""} \union {f \in {"birthday", "created_on"} : e[f] # 0}
EntityRecord(e) ==
    [path |-> e.path, keys |-> {<<"slug", e.slug>>, <<"id", e.id>>, <<"title", e.title>>},
     terms |-> ProjectionTerms(e) \union RelationshipTerms(e.relationship) \union e.descriptors,
     canonical |-> CanonicalTerms(e), links |-> ProjectionTerms(e), names |-> AuthorNames(e),
     involvement |-> InvolvementTerms(e), email |-> e.email, person |-> e.kind = "person",
     relationship |-> e.relationship, birthday |-> NextBirthday(e.birthday), has |-> EntityProperties(e)]

----------------------------------------------------------------------------
(* projects *)

StartFields == <<"start_date", "started_on", "created_on", "project_started_on">>
\* the first of the texts that is a day, field by field; else the day in the name of the
\* project's directory
StartDate(d) ==
    LET Days(f) == SelectSeq(Field(d, f), IsDay)
        explicit == FlattenSeq([n \in DOMAIN StartFields |-> Days(StartFields[n])])
    IN IF explicit # <<>> THEN explicit[1] ELSE d.snapshot

ProjectAliases(d) ==
    UNION {Range(s) : s \in {d.matter["alias_terms"], Field(d, "alias"), Field(d, "project_name"), <<Title(d)>>}}

\* the owner, the entities linked and the participants, each <<text, text after a dot>>
LinkFields == {"owner_id", "linked_entities", "participants"}
LinkKeys(d) == UNION {Range(Field(d, f)) : f \in LinkFields}
\* a later entity takes a key from an earlier one
LastWith(entities, S) == IF S = {} THEN {} ELSE {entities[Max(S)]}
Keyed(entities, key) ==
    LastWith(entities, {n \in DOMAIN entities : key \in {entities[n].id, entities[n].slug, entities[n].title}
                                                        \union entities[n].identity})
Linked(entities, link) ==
    IF Keyed(entities, link[1]) # {} \/ link[2] = "" THEN Keyed(entities, link[1]) ELSE Keyed(entities, link[2])
AliasesBy(entities, key) ==
    UNION {e.identity : e \in LastWith(entities, {n \in DOMAIN entities : key \in {entities[n].id, entities[n].slug}})}

\* words that are a role and name nobody
RoleWords == {"advisor", "client", "friend", "lead", "manager", "partner", "server", "system"}
\* once an entity is found for one link, the links without an entity count no more
ProjectInvolvement(d, entities) ==
    LET targets == UNION {Linked(entities, link) : link \in LinkKeys(d)}
        found == UNION {{e.id, e.title} \union AliasesBy(entities, e.id) \union AliasesBy(entities, e.slug) : e \in targets}
    IN (IF targets = {} THEN {link[1] : link \in LinkKeys(d)} ELSE found) \ RoleWords

ProjectRecord(d, entities) ==
    LET name == FirstOr(d.matter["project_name"], "")
        Single(f) == FirstOr(Field(d, f), "")
    IN [path |-> d.path, start |-> StartDate(d), status |-> Single("status"), with |-> ProjectInvolvement(d, entities),
        keys |-> {<<"title", Title(d)>>} \union {k \in {<<"alias", Single("alias")>>, <<"name", name>>} : k[2] # ""},
        terms |-> <<Named({Title(d), name, Single("alias")}), ProjectAliases(d), Range(d.matter["descriptor_aliases"])>>,
        has |-> {"title"} \union {f \in {"status", "alias", "kind", "lane", "goal", "next_step", "priority"} : Single(f) # ""}]

----------------------------------------------------------------------------
(* messages, notes, accounts and contacts: a record that lacks its essentials is left out *)

\* the sections of the documents that say something and who says it; the latest is
\* that of the greatest day, section and path
MessageRecords(documents) ==
    LET said == FlattenSeq([n \in DOMAIN documents |->
                  [k \in DOMAIN documents[n].sections |->
                     [at |-> <<documents[n].sections[k].day, k, n>>, s |-> documents[n].sections[k], path |-> documents[n].path]]])
        kept == SelectSeq(said, LAMBDA r : r.s.message /\ r.s.author # {})
        Before(a, b) == \E k \in 1..3 : a[k] < b[k] /\ \A j \in 1..(k - 1) : a[j] = b[j]
    IN [n \in DOMAIN kept |->
          [path |-> kept[n].path, author |-> kept[n].s.author, has |-> kept[n].s.has,
           at |-> Cardinality({m \in DOMAIN kept : Before(kept[m].at, kept[n].at)})]]

CaptureRecords(documents) ==
    LET DayOf(d) == FirstOr(d.matter["captured_on"] \o d.matter["date"] \o d.matter["created_on"], 0)
        kept == SelectSeq(documents, LAMBDA d : DayOf(d) # 0)
    IN [n \in DOMAIN kept |-> [path |-> kept[n].path, keys |-> {}, day |-> DayOf(kept[n])]]

ContactRecords(rows) ==
    LET kept == SelectSeq(rows, LAMBDA c : Named({c.contact_id, c.full_name, c.email}) # {})
    IN [n \in DOMAIN kept |->
          [path |-> kept[n].contact_id, id |-> kept[n].contact_id, keys |-> {},
           terms |-> Named({kept[n].account_id, kept[n].contact_id, kept[n].full_name, kept[n].email, kept[n].title}),
           has |-> {f \in {"title", "full_name", "email"} : kept[n][f] # ""}]]
AccountRecords(rows) ==
    LET kept == SelectSeq(rows, LAMBDA a : Named({a.account_id, a.legal_name, a.display_name}) # {})
        Keyed_(a) == {<<"id", a.account_id>>, <<"legal", a.legal_name>>, <<"display", a.display_name>>}
    IN [n \in DOMAIN kept |->
          [path |-> kept[n].path, id |-> kept[n].account_id, keys |-> {k \in Keyed_(kept[n]) : k[2] # ""},
           terms |-> Named({kept[n].account_id, kept[n].legal_name, kept[n].display_name}),
           primary_contact |-> kept[n].primary_contact, account_manager |-> kept[n].account_manager,
           has |-> {f \in {"account_id", "legal_name", "display_name"} :
                      IF f = "account_id" THEN kept[n].account_id # ""
                      ELSE Named({kept[n].legal_name, kept[n].display_name}) # {}}]]
=============================================================================
