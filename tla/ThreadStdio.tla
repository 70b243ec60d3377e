---------------------------- MODULE ThreadStdio ----------------------------
(***************************************************************************)
(* thread_stdio.py: sys.stdout, shared by the threads of the pool and the  *)
(* main thread, with one capture per trial.  sys.stderr is handled by the  *)
(* same code, one call later; it shares nothing with stdout but the        *)
(* install lock.                                                           *)
(*                                                                         *)
(* A step of a thread is one access to sys.stdout, one body under the      *)
(* proxy's RLock, or one operation on _INSTALL_LOCK.                       *)
(***************************************************************************)
EXTENDS Integers, Sequences, FiniteSets

CONSTANTS
  Workers,   \* threads of the pool
  Rounds     \* trials one worker thread executes, under one thread ident

Main == "main"
Nobody == "nobody"

\* A thread of the pool is neither the main thread nor the absence of one.
ASSUME RoundsAssumption == Rounds \in Nat /\ {Main, Nobody} \cap Workers = {}

Threads == Workers \cup {Main}

\* Where the original stream goes, in the form of a buffer.
Terminal == <<Main, 0>>

VARIABLES
  pc,        \* where a thread is
  round,     \* captures a worker has begun
  lock,      \* holder of _INSTALL_LOCK, or Nobody
  stdout,    \* sys.stdout: 0 is the original stream, n > 0 the n-th proxy
  original,  \* per proxy, the stream it wraps
  targets,   \* per proxy and thread, the stack of pushed buffers
  proxy,     \* stdout_proxy, a local of the worker's capture
  seen,      \* the stream a print has looked up
  landed     \* history: where each thread's text went, by the round it was in

vars == <<pc, round, lock, stdout, original, targets, proxy, seen, landed>>

Proxies == DOMAIN original
Buffer(t) == <<t, round[t]>>

Init ==
  /\ pc = [t \in Threads |-> "idle"]
  /\ round = [t \in Threads |-> 0]
  /\ lock = Nobody
  /\ stdout = 0
  /\ original = << >>
  /\ targets = << >>
  /\ proxy = [t \in Threads |-> 0]
  /\ seen = [t \in Threads |-> 0]
  /\ landed = {}

Goto(t, place) == pc' = [pc EXCEPT ![t] = place]

-----------------------------------------------------------------------------
(* capture_thread_stdio, around the attempts of a trial *)

EnterUnlocked(t) ==
  /\ pc[t] = "idle"
  /\ round[t] < Rounds
  /\ round' = [round EXCEPT ![t] = @ + 1]
  /\ Goto(t, "look")
  /\ UNCHANGED <<lock, stdout, original, targets, proxy, seen, landed>>

\* _install_proxy takes the lock before it looks at sys.stdout.
Enter(t) ==
  /\ pc[t] = "idle"
  /\ round[t] < Rounds
  /\ lock = Nobody
  /\ lock' = t
  /\ round' = [round EXCEPT ![t] = @ + 1]
  /\ Goto(t, "look")
  /\ UNCHANGED <<stdout, original, targets, proxy, seen, landed>>

\* current = getattr(sys, name)
Look(t) ==
  /\ pc[t] = "look"
  /\ proxy' = [proxy EXCEPT ![t] = stdout]
  /\ Goto(t, IF stdout = 0 THEN "install" ELSE "unlock")
  /\ UNCHANGED <<round, lock, stdout, original, targets, seen, landed>>

InstallOverItself(t) ==
  /\ pc[t] = "install"
  /\ original' = Append(original, Len(original) + 1)
  /\ targets' = Append(targets, [u \in Threads |-> << >>])
  /\ stdout' = Len(original) + 1
  /\ proxy' = [proxy EXCEPT ![t] = Len(original) + 1]
  /\ Goto(t, "unlock")
  /\ UNCHANGED <<round, lock, seen, landed>>

\* A proxy that wraps the stream just looked at.
Install(t) ==
  /\ pc[t] = "install"
  /\ original' = Append(original, proxy[t])
  /\ targets' = Append(targets, [u \in Threads |-> << >>])
  /\ stdout' = Len(original) + 1
  /\ proxy' = [proxy EXCEPT ![t] = Len(original) + 1]
  /\ Goto(t, "unlock")
  /\ UNCHANGED <<round, lock, seen, landed>>

UnlockForgotten(t) ==
  /\ pc[t] = "unlock"
  /\ Goto(t, "push")
  /\ UNCHANGED <<round, lock, stdout, original, targets, proxy, seen, landed>>

Unlock(t) ==
  /\ pc[t] = "unlock"
  /\ lock' = Nobody
  /\ Goto(t, "push")
  /\ UNCHANGED <<round, stdout, original, targets, proxy, seen, landed>>

PushTarget(t) ==
  /\ pc[t] = "push"
  /\ targets' = [targets EXCEPT ![proxy[t]][t] = Append(@, Buffer(t))]
  /\ Goto(t, "body")
  /\ UNCHANGED <<round, lock, stdout, original, proxy, seen, landed>>

PopNothing(t) ==
  /\ pc[t] = "body"
  /\ Goto(t, "idle")
  /\ proxy' = [proxy EXCEPT ![t] = 0]
  /\ UNCHANGED <<round, lock, stdout, original, targets, seen, landed>>

\* The finally of the context manager, whether the body raised or not.
PopTarget(t) ==
  /\ pc[t] = "body"
  /\ targets' = [targets EXCEPT ![proxy[t]][t] =
                   IF @ = << >> THEN @ ELSE SubSeq(@, 1, Len(@) - 1)]
  /\ proxy' = [proxy EXCEPT ![t] = 0]
  /\ Goto(t, "idle")
  /\ UNCHANGED <<round, lock, stdout, original, seen, landed>>

-----------------------------------------------------------------------------
(* print: a worker's within its capture, the main thread's at any time *)

LookUp(t) ==
  /\ pc[t] = IF t = Main THEN "idle" ELSE "body"
  /\ seen' = [seen EXCEPT ![t] = stdout]
  /\ Goto(t, "print")
  /\ UNCHANGED <<round, lock, stdout, original, targets, proxy, landed>>

\* _stream: the thread's own target on top, else the wrapped stream.
Stream(s, t) ==
  LET dest[n \in 0 .. Len(original)] ==
        IF n = 0 THEN Terminal
        ELSE IF targets[n][t] # << >> THEN targets[n][t][Len(targets[n][t])]
        ELSE dest[original[n]]
  IN dest[s]

Write(t) ==
  /\ pc[t] = "print"
  /\ landed' = landed \cup {<<t, round[t], Stream(seen[t], t)>>}
  /\ Goto(t, IF t = Main THEN "idle" ELSE "body")
  /\ UNCHANGED <<round, lock, stdout, original, targets, proxy, seen>>

-----------------------------------------------------------------------------
Capture(t) ==
  Enter(t) \/ Look(t) \/ Install(t) \/ Unlock(t) \/ PushTarget(t) \/ PopTarget(t)

Finished == \A t \in Workers : pc[t] = "idle" /\ round[t] = Rounds

Next ==
  \/ \E t \in Workers : Capture(t)
  \/ \E t \in Threads : LookUp(t) \/ Write(t)

\* Every worker is scheduled, and a trial stops printing and ends.
Fairness ==
  \A t \in Workers :
    /\ WF_vars(Enter(t))
    /\ WF_vars(Look(t) \/ Install(t) \/ Unlock(t) \/ PushTarget(t) \/ Write(t))
    /\ SF_vars(PopTarget(t))

Spec == Init /\ [][Next]_vars /\ Fairness

-----------------------------------------------------------------------------
(* Properties *)

\* The state has its type.
TypeOK ==
  /\ pc \in [Threads -> {"idle", "look", "install", "unlock", "push", "body", "print"}]
  /\ round \in [Threads -> 0 .. Rounds]
  /\ lock \in Workers \cup {Nobody}
  /\ stdout \in 0 .. Len(original)
  /\ \A n \in Proxies : original[n] \in 0 .. n - 1
  /\ Len(targets) = Len(original)
  /\ proxy \in [Threads -> 0 .. Len(original)]
  /\ seen \in [Threads -> 0 .. Len(original)]

\* What a trial prints lands in the buffer of that trial, and what the main
\* thread prints on the terminal, although all of them print through the one
\* sys.stdout and the proxy is installed while they do (thread_stdio.py).
OwnBuffer ==
  \A entry \in landed :
    entry[3] = IF entry[1] = Main THEN Terminal ELSE <<entry[1], entry[2]>>

\* Outside a capture a thread has no target left: the next trial under the same
\* thread ident starts with an empty stack (pop_target).
StacksMatch ==
  \A n \in Proxies, t \in Threads :
    targets[n][t] =
      IF pc[t] \in {"body", "print"} /\ proxy[t] = n THEN <<Buffer(t)>> ELSE << >>

\* Every worker comes through its captures: the install lock is always
\* released.
AllCaptured == <>Finished
=============================================================================
