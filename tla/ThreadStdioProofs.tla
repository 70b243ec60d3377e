------------------------- MODULE ThreadStdioProofs -------------------------
(***************************************************************************)
(* Theorems about ThreadStdio for any set of worker threads and any number *)
(* of captures.  What has to be added to the properties is that the lock   *)
(* lets one proxy come into being at most, that the proxy stays where it   *)
(* is from then on, and that a capture has found it before it pushes.      *)
(***************************************************************************)
EXTENDS ThreadStdio, TLAPS, SequenceTheorems

Installing == {"look", "install", "unlock"}
Capturing == {"push", "body", "print"}

\* The types TypeOK leaves open.
Shapes ==
  /\ original \in Seq({0}) /\ Len(original) <= 1
  /\ stdout = Len(original)
  /\ targets \in Seq([Threads -> Seq(Threads \X Nat)])

\* A thread of the pool is in _install_proxy exactly when it holds the lock;
\* the main thread enters no capture.
OneInstaller ==
  /\ pc[Main] \in {"idle", "print"}
  /\ \A t \in Workers : pc[t] \in Installing <=> lock = t

\* What a thread has read of sys.stdout is what it still is, once the lock or
\* the proxy itself protects it.
ProxyFound ==
  /\ proxy[Main] = 0
  /\ \A t \in Workers :
       /\ pc[t] = "install" => stdout = 0 /\ proxy[t] = 0
       /\ pc[t] \in {"unlock"} \cup Capturing => stdout = 1 /\ proxy[t] = 1
       /\ pc[t] = "print" => seen[t] = 1

IInv ==
  /\ TypeOK
  /\ Shapes
  /\ OneInstaller
  /\ ProxyFound
  /\ StacksMatch
  /\ OwnBuffer

USE RoundsAssumption DEF Threads

-----------------------------------------------------------------------------
(* Where a print goes *)

\* The recursive function of Stream has a value, although only as many streams
\* as there are proxies: each proxy wraps the terminal.
LEMMA StreamValue ==
  ASSUME IInv, NEW t \in Threads, NEW s \in 0 .. Len(original)
  PROVE  Stream(s, t) =
           IF s = 0 \/ targets[s][t] = << >> THEN Terminal
           ELSE targets[s][t][Len(targets[s][t])]
<1> DEFINE Dest(d, n) ==
      IF n = 0 THEN Terminal
      ELSE IF targets[n][t] # << >> THEN targets[n][t][Len(targets[n][t])]
      ELSE d[original[n]]
    Value(n) == IF n = 0 \/ targets[n][t] = << >> THEN Terminal
                ELSE targets[n][t][Len(targets[n][t])]
    f == [n \in 0 .. Len(original) |-> Value(n)]
    d == CHOOSE dd : dd = [n \in 0 .. Len(original) |-> Dest(dd, n)]
<1>1. /\ \A n \in 1 .. Len(original) : original[n] = 0
      /\ Len(original) \in Nat
  BY DEF IInv, Shapes
<1>2. \A n \in 0 .. Len(original) : Dest(f, n) = Value(n)
  BY <1>1
<1>3. f = [n \in 0 .. Len(original) |-> Dest(f, n)]
  BY <1>2, Zenon
<1>4. d = [n \in 0 .. Len(original) |-> Dest(d, n)]
  BY <1>3, Zenon
<1> HIDE DEF d
<1>5. \A n \in 0 .. Len(original) : d[n] = Dest(d, n)
  BY <1>4, Zenon
<1>6. d[0] = Terminal
  BY <1>1, <1>5
<1>7. d[s] = Value(s)
  BY <1>1, <1>5, <1>6
<1>8. Stream(s, t) = d[s]
  BY DEF Stream, d
<1> QED
  BY <1>7, <1>8

-----------------------------------------------------------------------------
(* The inductive invariant *)

LEMMA InitIInv ==
  ASSUME Init
  PROVE  IInv
BY DEF Init, IInv, TypeOK, Shapes, OneInstaller, ProxyFound, StacksMatch, OwnBuffer,
       Installing, Capturing, Proxies

\* A step that leaves every proxy alone, and moves one thread between places
\* where its stack is the same, keeps the stacks.
LEMMA StacksKept ==
  ASSUME IInv, UNCHANGED <<original, targets>>, NEW t \in Threads,
         \A u \in Threads \ {t} : pc'[u] = pc[u] /\ proxy'[u] = proxy[u] /\ round'[u] = round[u],
         \/ {pc[t], pc'[t]} \cap {"body", "print"} = {}
         \/ /\ {pc[t], pc'[t]} \subseteq {"body", "print"}
            /\ proxy'[t] = proxy[t] /\ round'[t] = round[t]
         \/ t = Main /\ proxy'[t] = 0 /\ proxy[t] = 0
  PROVE  StacksMatch'
<1> SUFFICES ASSUME NEW n \in Proxies, NEW u \in Threads
             PROVE  targets[n][u] =
                      IF pc'[u] \in {"body", "print"} /\ proxy'[u] = n
                      THEN <<Buffer(u)'>> ELSE << >>
  BY DEF StacksMatch, Proxies
<1>1. /\ targets[n][u] = IF pc[u] \in {"body", "print"} /\ proxy[u] = n
                          THEN <<Buffer(u)>> ELSE << >>
      /\ n # 0
  BY DEF IInv, StacksMatch, Shapes, Proxies
<1>2. CASE u # t
  BY <1>1, <1>2 DEF Buffer
<1>3. CASE u = t
  BY <1>1, <1>3 DEF Buffer
<1> QED
  BY <1>2, <1>3

LEMMA EnterIInv ==
  ASSUME IInv, NEW t \in Workers, Enter(t)
  PROVE  IInv'
<1> USE DEF Enter, Goto, IInv
<1>1. TypeOK' /\ Shapes'
  BY DEF TypeOK, Shapes, Proxies
<1>2. OneInstaller' /\ ProxyFound'
  BY DEF TypeOK, OneInstaller, ProxyFound, Installing, Capturing
<1>3. StacksMatch'
  BY StacksKept DEF TypeOK
<1>4. OwnBuffer'
  BY DEF OwnBuffer
<1> QED
  BY <1>1, <1>2, <1>3, <1>4

LEMMA LookIInv ==
  ASSUME IInv, NEW t \in Workers, Look(t)
  PROVE  IInv'
<1> USE DEF Look, Goto, IInv
<1>1. TypeOK' /\ Shapes'
  BY DEF TypeOK, Shapes, Proxies
<1>2. OneInstaller' /\ ProxyFound'
  BY DEF TypeOK, OneInstaller, ProxyFound, Installing, Capturing, Shapes
<1>3. StacksMatch'
  BY StacksKept DEF TypeOK
<1>4. OwnBuffer'
  BY DEF OwnBuffer
<1> QED
  BY <1>1, <1>2, <1>3, <1>4

\* The first proxy is the only one: whoever installs holds the lock and has
\* seen no proxy under it.
LEMMA InstallIInv ==
  ASSUME IInv, NEW t \in Workers, Install(t)
  PROVE  IInv'
<1> USE DEF Install, Goto, IInv
<1> DEFINE empty == [u \in Threads |-> << >>]
<1>0. Len(original) = 0 /\ Len(targets) = 0 /\ proxy[t] = 0
  BY DEF TypeOK, Shapes, ProxyFound
<1>1. /\ Len(original) = 0 /\ Len(targets) = 0 /\ proxy[t] = 0
      /\ original' = Append(original, 0) /\ targets' = Append(targets, empty)
      /\ stdout' = 1 /\ proxy' = [proxy EXCEPT ![t] = 1]
  BY <1>0
<1>2. empty \in [Threads -> Seq(Threads \X Nat)]
  OBVIOUS
<1> HIDE DEF empty
<1>2a. /\ original' \in Seq({0}) /\ Len(original') = 1 /\ original'[1] = 0
       /\ targets' \in Seq([Threads -> Seq(Threads \X Nat)])
       /\ Len(targets') = 1 /\ targets'[1] = empty
  BY <1>1, <1>2 DEF Shapes
<1>2b. Proxies' = {1}
  BY <1>2a DEF Proxies
<1>2c. TypeOK' /\ Shapes'
  BY <1>1, <1>2a, <1>2b DEF TypeOK, Shapes
<1>3. OneInstaller' /\ ProxyFound'
  BY <1>1 DEF TypeOK, OneInstaller, ProxyFound, Installing, Capturing
<1>4. StacksMatch'
  <2>1. ASSUME NEW u \in Threads
        PROVE  ~(pc'[u] \in {"body", "print"} /\ proxy'[u] = 1)
    BY <1>1 DEF TypeOK, Shapes, OneInstaller, ProxyFound, Capturing
  <2> QED
    BY <1>2a, <1>2b, <2>1 DEF StacksMatch, empty
<1>5. OwnBuffer'
  BY DEF OwnBuffer
<1> QED
  BY <1>2c, <1>3, <1>4, <1>5

LEMMA UnlockIInv ==
  ASSUME IInv, NEW t \in Workers, Unlock(t)
  PROVE  IInv'
<1> USE DEF Unlock, Goto, IInv
<1>1. TypeOK' /\ Shapes'
  BY DEF TypeOK, Shapes, Proxies
<1>2. OneInstaller' /\ ProxyFound'
  BY DEF TypeOK, OneInstaller, ProxyFound, Installing, Capturing
<1>3. StacksMatch'
  BY StacksKept DEF TypeOK
<1>4. OwnBuffer'
  BY DEF OwnBuffer
<1> QED
  BY <1>1, <1>2, <1>3, <1>4

LEMMA ReplacedStacks ==
  ASSUME NEW S, targets \in Seq(S), Len(targets) = 1, NEW new \in S,
         targets' = [targets EXCEPT ![1] = new]
  PROVE  targets' \in Seq(S) /\ Len(targets') = 1 /\ targets'[1] = new
OBVIOUS

\* Push and pop change one stack, the thread's own in the only proxy.
LEMMA OneStack ==
  ASSUME IInv, NEW t \in Workers, NEW stack \in Seq(Threads \X Nat),
         targets' = [targets EXCEPT ![1][t] = stack],
         UNCHANGED original, Len(original) = 1
  PROVE  /\ targets' \in Seq([Threads -> Seq(Threads \X Nat)])
         /\ Len(targets') = 1
         /\ targets'[1] = [targets[1] EXCEPT ![t] = stack]
<1> DEFINE new == [targets[1] EXCEPT ![t] = stack]
           S == [Threads -> Seq(Threads \X Nat)]
<1>1. targets \in Seq(S) /\ Len(targets) = 1 /\ 1 \in 1 .. Len(targets)
  BY DEF IInv, Shapes, TypeOK
<1>2. targets[1] \in S
  BY <1>1, ElementOfSeq, Zenon
<1>3. new \in S
  BY <1>2
<1>4. targets' = [targets EXCEPT ![1] = new]
  OBVIOUS
<1> HIDE DEF new, S
<1>5. targets' \in Seq(S) /\ Len(targets') = 1 /\ targets'[1] = new
  BY <1>1, <1>3, <1>4, ReplacedStacks, Zenon
<1> QED
  BY <1>5 DEF new, S

LEMMA PushTargetIInv ==
  ASSUME IInv, NEW t \in Workers, PushTarget(t)
  PROVE  IInv'
<1> USE DEF PushTarget, Goto, IInv
<1>1. /\ proxy[t] = 1 /\ Len(original) = 1 /\ Len(targets) = 1
      /\ targets[1] \in [Threads -> Seq(Threads \X Nat)]
  BY DEF TypeOK, Shapes, ProxyFound, Capturing
<1>1a. Proxies = {1}
  BY <1>1 DEF Proxies, Shapes
<1>2. targets[1][t] = << >>
  BY <1>1a DEF StacksMatch
<1>3. targets' = [targets EXCEPT ![1][t] = <<Buffer(t)>>]
  BY <1>1, <1>2
<1>4. <<Buffer(t)>> \in Seq(Threads \X Nat)
  BY DEF Buffer, TypeOK
<1>5. /\ targets' \in Seq([Threads -> Seq(Threads \X Nat)])
      /\ Len(targets') = 1
      /\ targets'[1] = [targets[1] EXCEPT ![t] = <<Buffer(t)>>]
  BY <1>1, <1>3, <1>4, OneStack
<1>6. TypeOK' /\ Shapes'
  BY <1>1, <1>5 DEF TypeOK, Shapes, Proxies
<1>7. OneInstaller' /\ ProxyFound'
  BY DEF TypeOK, OneInstaller, ProxyFound, Installing, Capturing
<1>8. StacksMatch'
  <2> SUFFICES ASSUME NEW u \in Threads
               PROVE  targets'[1][u] =
                        IF pc'[u] \in {"body", "print"} /\ proxy'[u] = 1
                        THEN <<Buffer(u)'>> ELSE << >>
    <3>1. Proxies' = {1}
      BY <1>1a DEF Proxies
    <3> QED
      BY <3>1 DEF StacksMatch, Buffer
  <2>1. CASE u = t
    BY <1>1, <1>5, <2>1 DEF Buffer, TypeOK
  <2>2. CASE u # t
    <3>1. targets[1][u] = IF pc[u] \in {"body", "print"} /\ proxy[u] = 1
                          THEN <<Buffer(u)>> ELSE << >>
      BY <1>1a DEF StacksMatch
    <3> QED
      BY <1>1, <1>5, <2>2, <3>1 DEF Buffer, TypeOK
  <2> QED
    BY <2>1, <2>2
<1>9. OwnBuffer'
  BY DEF OwnBuffer
<1> QED
  BY <1>6, <1>7, <1>8, <1>9

LEMMA PopTargetIInv ==
  ASSUME IInv, NEW t \in Workers, PopTarget(t)
  PROVE  IInv'
<1> USE DEF PopTarget, Goto, IInv
<1>1. /\ proxy[t] = 1 /\ Len(original) = 1 /\ Len(targets) = 1
      /\ targets[1] \in [Threads -> Seq(Threads \X Nat)]
  BY DEF TypeOK, Shapes, ProxyFound, Capturing
<1>1a. Proxies = {1}
  BY <1>1 DEF Proxies, Shapes
<1>2. targets[1][t] = <<Buffer(t)>>
  BY <1>1, <1>1a DEF StacksMatch
<1>2a. SubSeq(<<Buffer(t)>>, 1, Len(<<Buffer(t)>>) - 1) = << >>
  OBVIOUS
<1>3. targets' = [targets EXCEPT ![1][t] = << >>]
  BY <1>1, <1>2, <1>2a
<1>4. << >> \in Seq(Threads \X Nat)
  OBVIOUS
<1>5. /\ targets' \in Seq([Threads -> Seq(Threads \X Nat)])
      /\ Len(targets') = 1
      /\ targets'[1] = [targets[1] EXCEPT ![t] = << >>]
  BY <1>1, <1>3, <1>4, OneStack
<1>6. TypeOK' /\ Shapes'
  BY <1>1, <1>5 DEF TypeOK, Shapes, Proxies
<1>7. OneInstaller' /\ ProxyFound'
  BY DEF TypeOK, OneInstaller, ProxyFound, Installing, Capturing
<1>8. StacksMatch'
  <2> SUFFICES ASSUME NEW u \in Threads
               PROVE  targets'[1][u] =
                        IF pc'[u] \in {"body", "print"} /\ proxy'[u] = 1
                        THEN <<Buffer(u)'>> ELSE << >>
    <3>1. Proxies' = {1}
      BY <1>1a DEF Proxies
    <3> QED
      BY <3>1 DEF StacksMatch, Buffer
  <2>1. CASE u = t
    BY <1>1, <1>5, <2>1 DEF Buffer, TypeOK
  <2>2. CASE u # t
    <3>1. targets[1][u] = IF pc[u] \in {"body", "print"} /\ proxy[u] = 1
                          THEN <<Buffer(u)>> ELSE << >>
      BY <1>1a DEF StacksMatch
    <3> QED
      BY <1>1, <1>5, <2>2, <3>1 DEF Buffer, TypeOK
  <2> QED
    BY <2>1, <2>2
<1>9. OwnBuffer'
  BY DEF OwnBuffer
<1> QED
  BY <1>6, <1>7, <1>8, <1>9

LEMMA LookUpIInv ==
  ASSUME IInv, NEW t \in Threads, LookUp(t)
  PROVE  IInv'
<1> USE DEF LookUp, Goto, IInv
<1>1. TypeOK' /\ Shapes'
  BY DEF TypeOK, Shapes, Proxies
<1>2. OneInstaller' /\ ProxyFound'
  BY DEF TypeOK, OneInstaller, ProxyFound, Installing, Capturing
<1>3. StacksMatch'
  BY StacksKept DEF TypeOK, ProxyFound
<1>4. OwnBuffer'
  BY DEF OwnBuffer
<1> QED
  BY <1>1, <1>2, <1>3, <1>4

\* A worker's print finds its own buffer on top of its stack, the main
\* thread's falls through to the terminal.
LEMMA WriteIInv ==
  ASSUME IInv, NEW t \in Threads, Write(t)
  PROVE  IInv'
<1> USE DEF Write, Goto, IInv
<1>1. TypeOK' /\ Shapes'
  BY DEF TypeOK, Shapes, Proxies
<1>2. OneInstaller' /\ ProxyFound'
  BY DEF TypeOK, OneInstaller, ProxyFound, Installing, Capturing
<1>3. StacksMatch'
  BY StacksKept DEF TypeOK, ProxyFound
<1>4. seen[t] \in 0 .. Len(original)
  BY DEF TypeOK
<1>5. Stream(seen[t], t) = IF t = Main THEN Terminal ELSE <<t, round[t]>>
  <2>1. CASE t = Main
    <3>1. seen[t] # 0 => targets[seen[t]][t] = << >>
      <4>1. seen[t] # 0 => seen[t] \in Proxies
        BY <1>4 DEF Proxies, Shapes
      <4>2. seen[t] # 0 => proxy[t] # seen[t]
        BY <2>1 DEF ProxyFound
      <4> QED
        BY <4>1, <4>2 DEF StacksMatch
    <3> QED
      BY <1>4, <2>1, <3>1, StreamValue
  <2>2. CASE t \in Workers
    <3>1. seen[t] = 1 /\ proxy[t] = 1 /\ 1 \in Proxies
      BY <1>4, <2>2 DEF ProxyFound, Capturing, Shapes, Proxies
    <3>2. targets[1][t] = <<Buffer(t)>>
      BY <3>1 DEF StacksMatch
    <3>3. /\ Buffer(t) = <<t, round[t]>> /\ t # Main
          /\ <<Buffer(t)>> # << >> /\ <<Buffer(t)>>[Len(<<Buffer(t)>>)] = Buffer(t)
      BY <2>2 DEF Buffer
    <3>4. Stream(seen[t], t) =
            IF seen[t] = 0 \/ targets[seen[t]][t] = << >> THEN Terminal
            ELSE targets[seen[t]][t][Len(targets[seen[t]][t])]
      <4> HIDE DEF Write, IInv
      <4> QED
        BY <1>4, StreamValue
    <3> HIDE DEF Write, Goto, IInv
    <3> QED
      BY <3>1, <3>2, <3>3, <3>4
  <2> QED
    BY <2>1, <2>2
<1>6. OwnBuffer'
  <2> DEFINE line == <<t, round[t], Stream(seen[t], t)>>
  <2>1. line[1] = t /\ line[2] = round[t] /\ line[3] = Stream(seen[t], t)
    OBVIOUS
  <2> HIDE DEF line
  <2>2. landed' = landed \cup {line}
    BY DEF line
  <2> QED
    BY <1>5, <2>1, <2>2 DEF OwnBuffer
<1> QED
  BY <1>1, <1>2, <1>3, <1>6

LEMMA NextIInv ==
  ASSUME IInv, [Next]_vars
  PROVE  IInv'
<1>1. CASE UNCHANGED vars
  BY <1>1 DEF vars, IInv, TypeOK, Shapes, OneInstaller, ProxyFound, StacksMatch,
              OwnBuffer, Proxies, Buffer
<1>2. CASE \E t \in Workers : Capture(t)
  BY <1>2, EnterIInv, LookIInv, InstallIInv, UnlockIInv, PushTargetIInv, PopTargetIInv
     DEF Capture
<1>3. CASE \E t \in Threads : LookUp(t) \/ Write(t)
  BY <1>3, LookUpIInv, WriteIInv
<1> QED
  BY <1>1, <1>2, <1>3 DEF Next

-----------------------------------------------------------------------------
(* The theorems *)

LEMMA Invariance == Spec => []IInv
<1>1. Init => IInv
  BY InitIInv
<1>2. IInv /\ [Next]_vars => IInv'
  BY NextIInv
<1> QED
  BY <1>1, <1>2, PTL DEF Spec

\* The variables have their types, whichever threads install, push and print
\* in whichever order.
THEOREM TypeCorrect == Spec => []TypeOK
<1>1. IInv => TypeOK
  BY DEF IInv
<1> QED
  BY <1>1, Invariance, PTL

\* Every line a trial prints lands in the buffer of that trial, and every line
\* of the main thread on the terminal, for any number of worker threads.
THEOREM PrintsLandInOwnBuffer == Spec => []OwnBuffer
<1>1. IInv => OwnBuffer
  BY DEF IInv
<1> QED
  BY <1>1, Invariance, PTL

\* A thread that leaves a capture leaves no target behind for the next trial
\* under its ident, in the one proxy there ever is.
THEOREM StacksAreBalanced == Spec => [](StacksMatch /\ Len(original) <= 1)
<1>1. IInv => StacksMatch /\ Len(original) <= 1
  BY DEF IInv, Shapes
<1> QED
  BY <1>1, Invariance, PTL
=============================================================================
