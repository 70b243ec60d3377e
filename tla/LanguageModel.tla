---------------------------- MODULE LanguageModel ----------------------------
(* The calls to the language model (task_routing/openai_gateway.py, llm_port.py,  *)
(* record_selector.py): an attempt, the errors it can end in, the status the last *)
(* error gives the question, and what a caller keeps of a reply.  A reply is      *)
(* whatever the schema allows: an index may lie outside the list shown.           *)
EXTENDS Selection, SequencesExt

CONSTANTS StructuredRetryLimit,  \* attempts of every question
          RateLimitAttempts,     \* attempts the environment asks for
          SingleLimit,           \* records shown when one is to be picked
          SubsetLimit            \* records shown when some are to be picked

ASSUME ModelAssumption ==
    /\ StructuredRetryLimit \in Nat \ {0} /\ RateLimitAttempts \in Nat \ {0}
    /\ SingleLimit \in Nat \ {0} /\ SubsetLimit \in Nat \ {0}

MaxAttempts == IF StructuredRetryLimit > RateLimitAttempts THEN StructuredRetryLimit
               ELSE RateLimitAttempts

\* how an attempt ends without a payload: a 429, any other exception of the client
\* (a timeout among them), a response without choices, message or text, and one
\* whose payload did not parse
AttemptErrors(structured) == {"rate_limit", "client_error", "no_output"}
                             \union (IF structured THEN {"no_payload"} ELSE {})
\* of the attempts that failed, the last one alone decides the status
StatusOfError(error) == CASE error = "rate_limit" -> "provider_error"
                          [] error = "no_output" -> "empty_result"
                          [] OTHER -> "schema_validation_failed"

\* a text provider's JSON is parsed after the attempts: it is never asked again
StatusOfText(valid) == IF valid THEN "resolved" ELSE StatusOfError("not_json")

\* callers keep a parsed object or nothing, whatever the status was
NoReply == [parsed |-> FALSE]
ValidReply(status, reply) == IF status = "resolved" THEN reply ELSE NoReply

----------------------------------------------------------------------------
Confident == {"high", "medium"}
AnyConfidence == {"high", "medium", "low"}

Listed(candidates, limit) ==
    SubSeq(candidates, 1, IF Len(candidates) < limit THEN Len(candidates) ELSE limit)
\* the record a reply picks, if any: {} or {record}; index 0 stands for null
Picked(candidates, reply, accepted) ==
    LET listed == Listed(candidates, SingleLimit) IN
    IF reply.parsed /\ reply.confidence \in accepted /\ reply.index \in DOMAIN listed
    THEN {listed[reply.index]} ELSE {}
\* the records of a subset, in the order of the reply, repeated where it repeats one
PickedSome(candidates, reply, accepted) ==
    LET listed == Listed(candidates, SubsetLimit)
        kept == Kept(reply.indices, DOMAIN listed)
    IN IF reply.parsed /\ reply.confidence \in accepted THEN [k \in DOMAIN kept |-> listed[kept[k]]] ELSE <<>>
=============================================================================
