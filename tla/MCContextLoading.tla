-------------------------- MODULE MCContextLoading --------------------------
(***************************************************************************)
(* ContextLoading for TLC: a finance lane with a directory at the limit of  *)
(* the walk and one below it, a capture directory in a knowledge lane,      *)
(* accounts in one file and contacts in a directory.  All files together    *)
(* reach the limit of the walk; without one of them it is not reached.      *)
(***************************************************************************)
EXTENDS ContextLoading
MCDirs == {<<"fin">>, <<"fin", "old">>, <<"fin", "old", "deep">>, <<"kn">>,
           <<"kn", "capture">>, <<"contacts">>}
MCFiles == {<<"AGENTS">>, <<"accounts.json">>, <<"fin", "AGENTS">>, <<"fin", "a">>,
            <<"fin", "old", "b">>, <<"fin", "old", "deep", "d">>,
            <<"kn", "capture", "c">>, <<"contacts", "x.json">>}
MCNameOrder == <<"AGENTS", "a", "accounts.json", "b", "c", "capture", "contacts", "d",
                 "deep", "fin", "kn", "old", "x.json">>
MCRoleOf == [n \in {"fin", "kn", "contacts"} |->
    CASE n = "fin" -> "finance" [] n = "kn" -> "knowledge" [] n = "contacts" -> "none"]
MCMarkdown == {"AGENTS", "README", "a", "b", "c", "d"}
=============================================================================
