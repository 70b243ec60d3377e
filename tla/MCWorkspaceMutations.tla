------------------------ MODULE MCWorkspaceMutations ------------------------
(***************************************************************************)
(* WorkspaceMutations for TLC: two documents of one name, the second below  *)
(* the finance root, and a target that exists nowhere; three projects, two  *)
(* of one alias and two without a title, the text of one root a prefix of   *)
(* another's.  Two mutations let a lost call of the first land within the   *)
(* second.                                                                  *)
(***************************************************************************)
EXTENDS WorkspaceMutations
MCNotes == <<[dir |-> "a", name |-> "x"], [dir |-> "finance", name |-> "x"]>>
MCUnknown == {[dir |-> "", name |-> "x"]}
MCProjects ==
    <<[root |-> "p1", title |-> "", name |-> "alpha", alias |-> "", readme |-> TRUE],
      [root |-> "p10", title |-> "beta", name |-> "", alias |-> "b", readme |-> TRUE],
      [root |-> "q", title |-> "", name |-> "quay", alias |-> "b", readme |-> FALSE]>>
MCTextPrefix == {<<"p1", "p10">>}
=============================================================================
