------------------------- MODULE ContinuationBudget -------------------------
(***************************************************************************)
(* domain/process/continuation.py: the immutable budget a continuation     *)
(* carries.  Every operator is total; the preconditions the code raises on *)
(* (CanDescend, a positive step count) are operators of their own, so that *)
(* a caller's raise is a branch of the caller's action.                    *)
(***************************************************************************)
EXTENDS Integers

Budget == [max_depth : Nat, max_steps : Nat,
           current_depth : Nat, remaining_steps : Nat]

InitialBudget(maxDepth, maxSteps) ==
  [max_depth |-> maxDepth, max_steps |-> maxSteps,
   current_depth |-> 0, remaining_steps |-> maxSteps]

\* current_depth >= max_depth, or no step left.
Exhausted(b) == b.remaining_steps <= 0 \/ b.current_depth >= b.max_depth

Consume(b, steps) ==
  [b EXCEPT !.remaining_steps = IF @ > steps THEN @ - steps ELSE 0]

CanDescend(b) == b.current_depth + 1 <= b.max_depth

Descend(b) == [b EXCEPT !.current_depth = @ + 1]

\* The budget of a child work item: parent_budget.descend().consume(1).
ChildBudget(b) == Consume(Descend(b), 1)

\* What a chain started from InitialBudget(d, s) may reach: the depth grows by
\* one for every step consumed.
OnChain(b, maxDepth, maxSteps) ==
  /\ b.max_depth = maxDepth
  /\ b.max_steps = maxSteps
  /\ b.current_depth <= maxDepth
  /\ b.remaining_steps + b.current_depth = maxSteps
=============================================================================
