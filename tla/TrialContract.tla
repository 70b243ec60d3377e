--------------------------- MODULE TrialContract ---------------------------
(***************************************************************************)
(* What one benchmark trial promises its workspace, whatever the language  *)
(* model says and whichever remote calls fail.                             *)
(*                                                                         *)
(* A trial makes at most MaxAttempts attempts.  An attempt binds itself to *)
(* at most one unit of work (the user's request or one inbox item), works  *)
(* on it at most once, and may drop that unit, and no other, from the      *)
(* inbox, only after its work was decided done.  An unsafe unit is never   *)
(* bound.  Nothing happens after an answer that the agent knows to have    *)
(* been delivered.                                                         *)
(***************************************************************************)
EXTENDS Integers

CONSTANTS NItems, MaxAttempts, MaxWrites

VARIABLES attempt, phase, unit, unsafe, inbox, effect, replies

cvars == <<attempt, phase, unit, unsafe, inbox, effect, replies>>

Ask == 0
NoUnit == -1
Items == 1 .. NItems
Units == 0 .. NItems

\* An attempt between its first and its last step.
Running == {"open", "settled", "denied", "dropped"}

Init ==
  /\ attempt = 0
  /\ phase = "ready"
  /\ unit = NoUnit
  /\ unsafe \in SUBSET Units
  /\ inbox = Items
  /\ effect = [u \in Units |-> 0]
  /\ replies = 0

Begin ==
  /\ phase = "ready"
  /\ attempt < MaxAttempts
  /\ attempt' = attempt + 1
  /\ phase' = "open"
  /\ UNCHANGED <<unit, unsafe, inbox, effect, replies>>

Bind(u) ==
  /\ phase = "open"
  /\ unit = NoUnit
  /\ u \notin unsafe
  /\ u \in inbox \cup {Ask}
  /\ unit' = u
  /\ UNCHANGED <<attempt, phase, unsafe, inbox, effect, replies>>

\* The one execution of the bound unit: n of its writes reach the workspace.
Work(n, done) ==
  /\ phase = "open"
  /\ unit # NoUnit
  /\ effect' = [effect EXCEPT ![unit] = @ + n]
  /\ phase' = IF done THEN "settled" ELSE "denied"
  /\ UNCHANGED <<attempt, unit, unsafe, inbox, replies>>

\* Only a unit whose work was decided done leaves the inbox.
Drop ==
  /\ phase = "settled"
  /\ unit \in inbox
  /\ inbox' = inbox \ {unit}
  /\ phase' = "dropped"
  /\ UNCHANGED <<attempt, unit, unsafe, effect, replies>>

\* The answer is delivered; the agent learns of it only if known.
Reply(known) ==
  /\ phase \in Running
  /\ replies' = replies + 1
  /\ phase' = IF known THEN "answered" ELSE "ready"
  /\ unit' = NoUnit
  /\ UNCHANGED <<attempt, unsafe, inbox, effect>>

Abort ==
  /\ phase \in Running
  /\ phase' = "ready"
  /\ unit' = NoUnit
  /\ UNCHANGED <<attempt, unsafe, inbox, effect, replies>>

Close ==
  /\ \/ phase = "answered"
     \/ phase = "ready" /\ attempt = MaxAttempts
  /\ phase' = "closed"
  /\ UNCHANGED <<attempt, unit, unsafe, inbox, effect, replies>>

Next ==
  \/ Begin
  \/ \E u \in Units : Bind(u)
  \/ \E n \in 0 .. MaxWrites, done \in BOOLEAN : Work(n, done)
  \/ Drop
  \/ \E known \in BOOLEAN : Reply(known)
  \/ Abort
  \/ Close

Spec == Init /\ [][Next]_cvars
=============================================================================
