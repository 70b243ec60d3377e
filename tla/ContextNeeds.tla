---------------------------- MODULE ContextNeeds ----------------------------
(* Which kinds of records a step's context holds: runtime/context/           *)
(* context_needs.py.                                                         *)

Kinds == {"cast", "project", "finance", "accounts", "contacts",
          "messages", "queue", "inbox", "capture"}

\* INTENT_KIND_MAP; an intent it does not name needs nothing
NeededKinds(intent) ==
    CASE intent = "account_lookup" -> {"accounts"}
      [] intent = "contact_lookup" -> {"accounts", "contacts"}
      [] intent = "capture_lookup" -> {"capture"}
      [] intent = "entity_query" -> {"cast"}
      [] intent \in {"project_query", "project_mutation"} -> {"cast", "project"}
      [] intent = "message_query" -> {"cast", "messages"}
      [] intent \in {"finance_lookup", "finance_mutation"} -> {"cast", "finance"}
      [] intent \in {"queue_state_lookup", "queue_mutation"} -> {"queue"}
      [] intent = "outbox_draft" -> {"cast", "contacts"}
      [] intent = "inbox_process_next" -> Kinds
      [] OTHER -> {}
=============================================================================
