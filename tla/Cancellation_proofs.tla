------------------------ MODULE Cancellation_proofs ------------------------
(***************************************************************************)
(* Proofs about Cancellation, for any number of workers, depth of nesting  *)
(* and number of calls: its types, that cancel states nest, that no mutex  *)
(* is orphaned, and that stops return.                                     *)
(***************************************************************************)
EXTENDS Cancellation, SequenceTheorems, FiniteSetTheorems, TLAPS

\* What the constructor of an inhibitor keeps.
LEMMA Push ==
  ASSUME NEW s \in Seq(BOOLEAN), NEW b \in BOOLEAN
  PROVE  /\ Append(s, b) \in Seq(BOOLEAN) /\ Len(Append(s, b)) = Len(s) + 1
         /\ Append(s, b) # <<>>
         /\ Append(s, b)[Len(s) + 1] = b
         /\ \A i \in 1 .. Len(s) : Append(s, b)[i] = s[i]
OBVIOUS

\* What its destructor restores, and leaves of the others.
LEMMA PopTop ==
  ASSUME NEW s \in Seq(BOOLEAN), s # <<>>
  PROVE  /\ Len(s) \in Nat \ {0}
         /\ Pop(s) \in Seq(BOOLEAN) /\ Len(Pop(s)) = Len(s) - 1
         /\ \A i \in 1 .. Len(s) - 1 : Pop(s)[i] = s[i]
         /\ s[Len(s)] \in BOOLEAN
         /\ Len(s) = 1 => Pop(s) = <<>>
         /\ Len(s) # 1 => Pop(s) # <<>>
<1>1. Len(s) \in Nat \ {0} /\ s[Len(s)] \in BOOLEAN
  OBVIOUS
<1>2. /\ Pop(s) \in Seq(BOOLEAN) /\ Len(Pop(s)) = Len(s) - 1
      /\ \A i \in 1 .. Len(s) - 1 : Pop(s)[i] = s[i]
  <2> DEFINE n == Len(s) - 1
  <2>1. n \in Nat /\ \A i \in 1 .. n : s[i] \in BOOLEAN
    BY <1>1
  <2>2. /\ SubSeq(s, 1, n) \in Seq(BOOLEAN)
        /\ Len(SubSeq(s, 1, n)) = IF 1 <= n THEN n - 1 + 1 ELSE 0
        /\ \A i \in 1 .. n - 1 + 1 : SubSeq(s, 1, n)[i] = s[1 + i - 1]
    <3> HIDE DEF n
    <3> QED
      BY <2>1, SubSeqProperties
  <2>3. Len(SubSeq(s, 1, n)) = n
    <3> HIDE DEF n
    <3> QED
      BY <2>1, <2>2
  <2>4. \A i \in 1 .. n : SubSeq(s, 1, n)[i] = s[i]
    <3> HIDE DEF n
    <3> QED
      BY <2>1, <2>2
  <2> QED
    BY <2>2, <2>3, <2>4, Zenon DEF Pop
<1>3. Len(s) = 1 => Pop(s) = <<>>
  BY <1>2
<1>4. Len(s) # 1 => Pop(s) # <<>>
  BY <1>1, <1>2
<1> QED
  BY <1>1, <1>2, <1>3, <1>4

\* Cancel states, inhibitors, the mutex and the threads keep their types.
THEOREM TypeCorrect == Spec => []TypeOK
<1> USE CancellationAssumption DEF TypeOK, Threads
<1>1. Init => TypeOK
  BY DEF Init, Inhibited
<1>2. TypeOK /\ [Next]_vars => TypeOK'
  <2> SUFFICES ASSUME TypeOK, [Next]_vars PROVE TypeOK'
    OBVIOUS
  <2> USE DEF stateVars, lockVars, lifeVars, Begins, Runs, Inhibited
  <2>1. ASSUME NEW t \in Threads, NEW b \in BOOLEAN, SetCancel(t, b) PROVE TypeOK'
    BY <2>1 DEF SetCancel
  <2>2. ASSUME NEW t \in Threads, Inhibit(t) PROVE TypeOK'
    <3>0. old[t] \in Seq(BOOLEAN) /\ enabled[t] \in BOOLEAN
      OBVIOUS
    <3>1. old' = [old EXCEPT ![t] = Append(old[t], enabled[t])]
      BY <2>2 DEF Inhibit
    <3>2. /\ Append(old[t], enabled[t]) \in Seq(BOOLEAN)
          /\ Len(Append(old[t], enabled[t])) = Len(old[t]) + 1
      BY <3>0, Push, Zenon
    <3>3. Len(Append(old[t], enabled[t])) <= MaxDepth
      BY <2>2, <3>0, <3>2 DEF Inhibit
    <3> QED
      BY <2>2, <3>1, <3>2, <3>3 DEF Inhibit
  <2>3. ASSUME NEW t \in Threads, Leave(t) PROVE TypeOK'
    <3>1. /\ old'[t] \in Seq(BOOLEAN) /\ Len(old'[t]) <= MaxDepth
          /\ old[t][Len(old[t])] \in BOOLEAN
      BY <2>3, PopTop DEF Leave, MayLeave
    <3> QED
      BY <2>3, <3>1 DEF Leave, MayLeave
  <2>4. ASSUME NEW t \in Threads, TestCancel(t) PROVE TypeOK'
    BY <2>4 DEF TestCancel
  <2>5. ASSUME NEW t \in Threads, Return(t) PROVE TypeOK'
    BY <2>5 DEF Return
  <2>6. ASSUME NEW t \in Threads, Lock(t) \/ TryLock(t) \/ Acquire(t) \/ Unlock(t)
        PROVE TypeOK'
    <3>1. CASE Lock(t)
      BY <3>1 DEF Lock
    <3>2. CASE TryLock(t)
      BY <3>2 DEF TryLock
    <3>3. CASE Acquire(t)
      BY <3>3 DEF Acquire
    <3>4. CASE Unlock(t)
      BY <3>4 DEF Unlock
    <3> QED
      BY <2>6, <3>1, <3>2, <3>3, <3>4
  <2>7. ASSUME NEW w \in Workers, Stop(w) \/ Joined(w) PROVE TypeOK'
    BY <2>7 DEF Stop, Joined
  <2>8. CASE DestroyMutex
    BY <2>8 DEF DestroyMutex
  <2>9. CASE UNCHANGED vars
    BY <2>9 DEF vars
  <2> QED
    BY <2>1, <2>2, <2>3, <2>4, <2>5, <2>6, <2>7, <2>8, <2>9 DEF Next, Exit
<1> QED
  BY <1>1, <1>2, PTL DEF Spec
-----------------------------------------------------------------------------
\* The inductive form of CancelStateNests: the outermost inhibitor keeps what
\* the thread asked for, each inner one that cancellation was disabled.
Nested(t) ==
  /\ \A i \in 1 .. Len(old[t]) : old[t][i] <=> asked[t] /\ i = 1
  /\ enabled[t] <=> asked[t] /\ ~Inhibited(t)

NestInv ==
  "setinside" \notin hazards =>
    \A t \in Threads : life[t] = "running" => Nested(t)

\* The constructor keeps the shape of the stack.
LEMMA InhibitNests ==
  ASSUME NEW t \in Threads, TypeOK, Nested(t), Inhibit(t)
  PROVE  Nested(t)'
<1> DEFINE s == old[t]
           b == enabled[t]
<1>1. s \in Seq(BOOLEAN) /\ b \in BOOLEAN /\ Len(s) \in Nat
  BY DEF TypeOK
<1>2. old'[t] = Append(s, b) /\ enabled'[t] = FALSE /\ asked' = asked
  BY DEF Inhibit, TypeOK
<1>3. /\ Len(Append(s, b)) = Len(s) + 1
      /\ Append(s, b) # <<>>
      /\ Append(s, b)[Len(s) + 1] = b
      /\ \A i \in 1 .. Len(s) : Append(s, b)[i] = s[i]
  BY <1>1, Push, Zenon
<1>4. s = <<>> <=> Len(s) = 0
  BY <1>1
<1>5. b <=> asked[t] /\ Len(s) + 1 = 1
  BY <1>1, <1>4 DEF Nested, Inhibited
<1>6. \A i \in 1 .. Len(s) : s[i] <=> asked[t] /\ i = 1
  BY DEF Nested
<1>7. ASSUME NEW i \in 1 .. Len(old'[t])
      PROVE  old'[t][i] <=> asked'[t] /\ i = 1
  <2>1. CASE i = Len(s) + 1
    BY <1>2, <1>3, <1>5, <2>1
  <2>2. CASE i \in 1 .. Len(s)
    BY <1>2, <1>3, <1>6, <2>2
  <2> QED
    BY <1>1, <1>2, <1>3, <2>1, <2>2
<1> QED
  BY <1>2, <1>3, <1>7 DEF Nested, Inhibited

\* The destructor of the innermost one restores what holds outside of it.
LEMMA LeaveNests ==
  ASSUME NEW t \in Threads, TypeOK, Nested(t), Leave(t)
  PROVE  Nested(t)'
<1> DEFINE s == old[t]
<1>1. s \in Seq(BOOLEAN) /\ s # <<>>
  BY DEF TypeOK, Leave, MayLeave, Inhibited
<1>2. old'[t] = Pop(s) /\ enabled'[t] = s[Len(s)] /\ asked' = asked
  BY DEF Leave, TypeOK
<1>3. /\ Len(s) \in Nat \ {0}
      /\ Pop(s) \in Seq(BOOLEAN) /\ Len(Pop(s)) = Len(s) - 1
      /\ \A i \in 1 .. Len(s) - 1 : Pop(s)[i] = s[i]
      /\ Len(s) = 1 => Pop(s) = <<>>
      /\ Len(s) # 1 => Pop(s) # <<>>
  BY <1>1, PopTop, Zenon
<1>4. \A i \in 1 .. Len(s) : s[i] <=> asked[t] /\ i = 1
  BY DEF Nested
<1>5. s[Len(s)] <=> asked[t] /\ Len(s) = 1
  BY <1>3, <1>4
<1>6. ASSUME NEW i \in 1 .. Len(old'[t])
      PROVE  old'[t][i] <=> asked'[t] /\ i = 1
  <2>1. i \in 1 .. Len(s) - 1 /\ i \in 1 .. Len(s)
    BY <1>2, <1>3
  <2> QED
    BY <1>2, <1>3, <1>4, <2>1
<1>7. enabled'[t] <=> asked'[t] /\ ~Inhibited(t)'
  BY <1>2, <1>3, <1>5 DEF Inhibited
<1> QED
  BY <1>6, <1>7 DEF Nested

\* Whoever is not the one that steps keeps its stack and its states.
LEMMA OthersNest ==
  ASSUME NEW t \in Threads, NEW u \in Threads, u # t, TypeOK, Nested(u),
         \/ \E b \in BOOLEAN : SetCancel(t, b)
         \/ Inhibit(t) \/ Leave(t) \/ TestCancel(t)
  PROVE  Nested(u)'
<1>1. old'[u] = old[u] /\ enabled'[u] = enabled[u] /\ asked'[u] = asked[u]
  BY DEF SetCancel, Inhibit, Leave, TestCancel, TypeOK
<1> QED
  BY <1>1 DEF Nested, Inhibited

\* Every step keeps the shape of every running thread's stack.
LEMMA NestStep == TypeOK /\ NestInv /\ [Next]_vars => NestInv'
<1> SUFFICES ASSUME TypeOK, NestInv, [Next]_vars, "setinside" \notin hazards',
                    NEW u \in Threads, life'[u] = "running"
             PROVE  Nested(u)'
  BY DEF NestInv
<1>1. hazards' = hazards
  BY DEF Next, vars, Exit, SetCancel, Inhibit, TestCancel, Return, Lock, Acquire,
         TryLock, Leave, Unlock, Stop, Joined, DestroyMutex
<1>2. ASSUME life[u] = "running", UNCHANGED stateVars PROVE Nested(u)'
  BY <1>1, <1>2 DEF NestInv, Nested, Inhibited, stateVars
<1>3. ASSUME NEW t \in Threads, NEW b \in BOOLEAN, SetCancel(t, b)
      PROVE  Nested(u)'
  <2>1. life[u] = "running" /\ Nested(u)
    BY <1>1, <1>3 DEF SetCancel, lifeVars, NestInv
  <2>2. CASE u # t
    BY <1>3, <2>1, <2>2, OthersNest
  <2>3. CASE u = t
    <3>1. old[t] = <<>> /\ old' = old /\ enabled'[t] = b /\ asked'[t] = b
      BY <1>1, <1>3 DEF SetCancel, Inhibited, TypeOK
    <3>2. Len(old'[t]) = 0
      BY <3>1
    <3> QED
      BY <2>3, <3>1, <3>2 DEF Nested, Inhibited
  <2> QED
    BY <2>2, <2>3
<1>4. ASSUME NEW t \in Threads, Inhibit(t) \/ Leave(t) PROVE Nested(u)'
  <2>1. life[u] = "running" /\ Nested(u)
    BY <1>1, <1>4 DEF Inhibit, Leave, lifeVars, NestInv
  <2> QED
    BY <1>4, <2>1, OthersNest, InhibitNests, LeaveNests
<1>5. ASSUME NEW t \in Threads, TestCancel(t) PROVE Nested(u)'
  <2>1. u # t /\ life[u] = "running" /\ Nested(u)
    BY <1>1, <1>5 DEF TestCancel, TypeOK, NestInv
  <2> QED
    BY <1>5, <2>1, OthersNest
<1>6. ASSUME NEW t \in Threads, Return(t) PROVE Nested(u)'
  BY <1>2, <1>6 DEF Return, TypeOK
<1>7. ASSUME NEW t \in Threads, Lock(t) \/ Acquire(t) \/ TryLock(t) \/ Unlock(t)
      PROVE  Nested(u)'
  BY <1>2, <1>7 DEF Lock, Acquire, TryLock, Unlock, lifeVars
<1>8. ASSUME NEW w \in Workers, Stop(w) \/ Joined(w) PROVE Nested(u)'
  BY <1>2, <1>8 DEF Stop, Joined, TypeOK
<1>9. CASE DestroyMutex \/ UNCHANGED vars
  BY <1>2, <1>9 DEF DestroyMutex, vars, lifeVars
<1> QED
  BY <1>3, <1>4, <1>5, <1>6, <1>7, <1>8, <1>9 DEF Next, Exit

\* However deep inhibitors nest, a running thread can be cancelled exactly
\* outside of them (PthreadCancelInhibitor.hxx:36-47).
THEOREM Nesting == Spec => []CancelStateNests
<1>1. Init => NestInv
  BY DEF Init, NestInv, Nested, Inhibited
<1>2. NestInv => CancelStateNests
  BY DEF NestInv, Nested, CancelStateNests
<1> QED
  BY <1>1, <1>2, NestStep, TypeCorrect, PTL DEF Spec
-----------------------------------------------------------------------------
\* A worker that has the mutex, or waits for it, runs and is inside an
\* inhibitor, so it cannot be cancelled; main is never cancelled.
Guarded(t) == life[t] = "running" /\ (t \in Workers => Inhibited(t))

Owned ==
  /\ \A t \in waiting : Guarded(t)
  /\ owner # NoThread => Guarded(owner)
  /\ mutex # "abort"

OwnInv ==
  /\ life[Main] = "running"
  /\ hazards \cap {"barelock", "setinside"} = {} => Owned

\* A step of another thread, or one that leaves t inside its inhibitors.
LEMMA StaysGuarded ==
  ASSUME NEW t, Guarded(t), life'[t] = life[t], Inhibited(t) => Inhibited(t)'
  PROVE  Guarded(t)'
BY DEF Guarded

\* Every step leaves those that wait or own running and guarded: the steps that
\* end a thread are those of a thread that does neither.
LEMMA OwnStep == TypeOK /\ NestInv /\ OwnInv /\ [Next]_vars => OwnInv'
<1> SUFFICES ASSUME TypeOK, NestInv, OwnInv, [Next]_vars PROVE OwnInv'
  OBVIOUS
<1> USE CancellationAssumption DEF Threads
<1>1. life'[Main] = "running"
  BY DEF OwnInv, TypeOK, Next, vars, stateVars, lifeVars, lockVars, Exit, SetCancel,
         Inhibit, TestCancel, Return, Lock, Acquire, TryLock, Leave, Unlock, Stop,
         Joined, DestroyMutex
<1>2. SUFFICES ASSUME hazards' \cap {"barelock", "setinside"} = {} PROVE Owned'
  BY <1>1 DEF OwnInv
<1>3. hazards' = hazards
  BY DEF Next, vars, Exit, SetCancel, Inhibit, TestCancel, Return, Lock, Acquire,
         TryLock, Leave, Unlock, Stop, Joined, DestroyMutex
<1>4. Owned /\ "barelock" \notin hazards /\ "setinside" \notin hazards
  BY <1>2, <1>3 DEF OwnInv
<1>5. owner \in Threads \cup {NoThread} /\ waiting \subseteq Threads
  BY DEF TypeOK
\* Steps of cancel states, scopes and lives that leave those of the threads that
\* wait or own alone.
<1>6. ASSUME UNCHANGED lockVars,
             \A t \in Threads : t \in waiting \/ t = owner
                => life'[t] = life[t] /\ (Inhibited(t) => Inhibited(t)')
      PROVE  Owned'
  BY <1>4, <1>5, <1>6, StaysGuarded DEF lockVars, Owned
<1>7. ASSUME NEW t \in Threads, NEW b \in BOOLEAN, SetCancel(t, b) PROVE Owned'
  BY <1>6, <1>7 DEF SetCancel, lifeVars, Inhibited
<1>8. ASSUME NEW t \in Threads, Inhibit(t) PROVE Owned'
  <2>1. /\ old[t] \in Seq(BOOLEAN) /\ enabled[t] \in BOOLEAN
        /\ \A u \in Threads : u # t => old'[u] = old[u]
        /\ old'[t] = Append(old[t], enabled[t])
    BY <1>8 DEF Inhibit, TypeOK
  <2>2. Append(old[t], enabled[t]) # <<>>
    BY <2>1, Push, Zenon
  <2> QED
    BY <1>6, <1>8, <2>1, <2>2 DEF Inhibit, lifeVars, Inhibited
<1>9. ASSUME NEW t \in Threads, Leave(t) PROVE Owned'
  <2>1. /\ old[t] \in Seq(BOOLEAN) /\ old[t] # <<>>
        /\ \A u \in Threads : u # t => old'[u] = old[u]
        /\ old'[t] = Pop(old[t])
    BY <1>9 DEF Leave, MayLeave, Inhibited, TypeOK
  <2>2. Len(old[t]) # 1 => Pop(old[t]) # <<>>
    BY <2>1, PopTop, Zenon
  <2>3. t \notin waiting /\ (t \in Workers /\ owner = t => Len(old[t]) # 1)
    BY <1>4, <1>9 DEF Leave, MayLeave, Runs
  \* What is not a worker needs no inhibitor.
  <2>4. ASSUME NEW u \in Threads, u \in waiting \/ u = owner PROVE Guarded(u)'
    <3>1. Guarded(u) /\ life' = life
      BY <1>4, <1>9, <2>4 DEF Owned, Leave, lifeVars
    <3> QED
      BY <2>1, <2>2, <2>3, <2>4, <3>1 DEF Guarded, Inhibited
  <2> QED
    BY <1>4, <1>5, <1>9, <2>4 DEF Leave, lockVars, Owned
<1>10. ASSUME NEW t \in Threads, TestCancel(t) PROVE Owned'
  \* A thread inside an inhibitor has cancellation disabled.
  <2>1. ~Inhibited(t)
    BY <1>4, <1>10 DEF TestCancel, Runs, NestInv, Nested
  <2>2. t \notin waiting /\ t # owner
    BY <1>4, <1>10, <2>1 DEF TestCancel, Owned, Guarded
  <2> QED
    BY <1>6, <1>10, <2>2 DEF TestCancel, TypeOK, Inhibited
<1>11. ASSUME NEW t \in Threads, Return(t) PROVE Owned'
  <2>1. t \notin waiting /\ t # owner
    BY <1>11 DEF Return, Runs
  <2> QED
    BY <1>6, <1>11, <2>1 DEF Return, stateVars, TypeOK, Inhibited
<1>12. ASSUME NEW t \in Threads, Lock(t) \/ TryLock(t) PROVE Owned'
  <2>1. Guarded(t) /\ UNCHANGED <<life, old, mutex>>
    BY <1>4, <1>12
       DEF Lock, TryLock, MayLock, Begins, Runs, Guarded, lifeVars, stateVars
  <2>2. \A u : Guarded(u)' <=> Guarded(u)
    BY <2>1 DEF Guarded, Inhibited
  <2> QED
    BY <1>4, <1>12, <2>1, <2>2 DEF Lock, TryLock, Owned
<1>13. ASSUME NEW t \in Threads, Acquire(t) \/ Unlock(t) PROVE Owned'
  <2>1. \A u : Guarded(u)' <=> Guarded(u)
    BY <1>13 DEF Acquire, Unlock, Guarded, Inhibited, lifeVars, stateVars
  <2> QED
    BY <1>4, <1>13, <2>1 DEF Acquire, Unlock, Owned
<1>14. ASSUME NEW w \in Workers, Stop(w) \/ Joined(w) PROVE Owned'
  <2>1. CASE Stop(w)
    BY <1>6, <2>1 DEF Stop, stateVars, Inhibited
  <2>2. CASE Joined(w)
    <3>1. w \notin waiting /\ w # owner
      BY <1>4, <2>2 DEF Joined, Owned, Guarded
    <3> QED
      BY <1>6, <2>2, <3>1 DEF Joined, stateVars, TypeOK, Inhibited
  <2> QED
    BY <1>14, <2>1, <2>2
<1>15. CASE DestroyMutex
  \* Every worker was joined, and main has unlocked.
  <2>1. owner = NoThread
    BY <1>4, <1>5, <1>15 DEF DestroyMutex, Owned, Guarded
  <2>2. \A u : Guarded(u)' <=> Guarded(u)
    BY <1>15 DEF DestroyMutex, Guarded, Inhibited, lifeVars, stateVars
  <2> QED
    BY <1>4, <1>15, <2>1, <2>2 DEF DestroyMutex, Owned
<1>16. CASE UNCHANGED vars
  BY <1>6, <1>16 DEF vars, lifeVars, stateVars, Inhibited
<1> QED
  BY <1>7, <1>8, <1>9, <1>10, <1>11, <1>12, <1>13, <1>14, <1>15, <1>16
     DEF Next, Exit

\* No thread ends with the mutex locked and ~PthreadMutex finds it free
\* (PthreadMutex.hxx:53), in a program whose workers lock inside inhibitors.
THEOREM NoOrphan == Spec => []OrphanOnlyByBareLock
<1>1. Init => NestInv /\ OwnInv
  BY CancellationAssumption
     DEF Init, NestInv, Nested, Inhibited, OwnInv, Owned, Threads
<1>2. TypeOK /\ OwnInv => OrphanOnlyByBareLock
  BY DEF OwnInv, Owned, Guarded, OrphanOnlyByBareLock
<1> QED
  BY <1>1, <1>2, NestStep, OwnStep, TypeCorrect, PTL DEF Spec
-----------------------------------------------------------------------------
\* The thread that is joined was asked to cancel; nobody waits for the mutex it
\* has, nor does main while it joins; no thread disables its own cancellation.
WaitInv ==
  /\ joining # NoThread => pending[joining] /\ life[joining] # "joined"
  /\ hazards = {} =>
       /\ owner \notin waiting
       /\ joining # NoThread => Main \notin waiting /\ owner # Main
       /\ \A t \in Threads : asked[t]

\* Every step keeps that.
LEMMA WaitStep == TypeOK /\ WaitInv /\ [Next]_vars => WaitInv'
<1> SUFFICES ASSUME TypeOK, WaitInv, [Next]_vars PROVE WaitInv'
  OBVIOUS
<1> USE CancellationAssumption DEF WaitInv, Threads, TypeOK
<1>1. ASSUME NEW t \in Threads, NEW b \in BOOLEAN, SetCancel(t, b) PROVE WaitInv'
  BY <1>1 DEF SetCancel, lifeVars, lockVars
<1>2. ASSUME NEW t \in Threads, Inhibit(t) \/ Leave(t) PROVE WaitInv'
  BY <1>2 DEF Inhibit, Leave, lifeVars, lockVars
<1>3. ASSUME NEW t \in Threads, TestCancel(t) \/ Return(t) PROVE WaitInv'
  BY <1>3 DEF TestCancel, Return, Runs, stateVars, lockVars
<1>4. ASSUME NEW t \in Threads, Lock(t) \/ TryLock(t) PROVE WaitInv'
  BY <1>4 DEF Lock, TryLock, MayLock, Begins, Runs, stateVars, lifeVars
<1>5. ASSUME NEW t \in Threads, Acquire(t) \/ Unlock(t) PROVE WaitInv'
  BY <1>5 DEF Acquire, Unlock, stateVars, lifeVars
<1>6. ASSUME NEW w \in Workers, Stop(w) \/ Joined(w) PROVE WaitInv'
  BY <1>6 DEF Stop, Joined, Runs, stateVars, lockVars
<1>7. CASE DestroyMutex \/ UNCHANGED vars
  BY <1>7 DEF DestroyMutex, vars, stateVars, lifeVars, lockVars
<1> QED
  BY <1>1, <1>2, <1>3, <1>4, <1>5, <1>6, <1>7 DEF Next, Exit

\* With the shape of the stacks and the guards of the mutex, that leaves no ring.
LEMMA NoRing == TypeOK /\ NestInv /\ OwnInv /\ WaitInv => JoinUnblocked
<1> SUFFICES ASSUME TypeOK, NestInv, OwnInv, WaitInv, hazards = {}, joining # NoThread,
                    life[joining] # "ended"
             PROVE  \/ CanEnd(joining) \/ CanExit(joining) \/ CanAcquire(joining)
                    \/ joining \in waiting /\ owner # NoThread /\ CanExit(owner)
  BY DEF JoinUnblocked, CanJoin
<1> USE CancellationAssumption DEF Threads
<1>1. /\ joining \in Workers /\ life[joining] = "running" /\ pending[joining]
      /\ asked[joining] /\ Nested(joining) /\ Owned
  BY DEF TypeOK, WaitInv, NestInv, OwnInv
\* A thread that waits for nothing is in an inhibitor, or can be cancelled.
<1>2. CASE joining \notin waiting
  BY <1>1, <1>2 DEF Runs, CanExit, CanEnd, Nested, Owned
\* The owner of the mutex is another worker, which runs.
<1>3. CASE joining \in waiting /\ owner # NoThread
  <2>1. owner \in Workers /\ owner \notin waiting /\ life[owner] = "running"
    BY <1>1, <1>3 DEF TypeOK, WaitInv, Owned, Guarded
  <2> QED
    BY <1>1, <1>3, <2>1 DEF Runs, CanExit, Owned
<1> QED
  BY <1>2, <1>3 DEF CanAcquire

\* ~Jthread is never left in a ring of waits: what it joins, or what that waits
\* for, can always take a step towards its end (Pthread.hxx:129-145,
\* PthreadMutex.hxx:70), whatever the number of workers, depth and calls.
\* With that the run's property holds wherever its steps are possible, which is a
\* matter of each action alone, and which the run checks.
THEOREM NoDeadlock == Spec => [](JoinUnblocked /\ (StepsEnabled => StopGoesOn))
<1>1. Init => NestInv /\ OwnInv /\ WaitInv
  BY CancellationAssumption
     DEF Init, NestInv, Nested, Inhibited, OwnInv, Owned, WaitInv, Threads
<1> QED
  BY <1>1, NoRing, WaitStep, NestStep, OwnStep, TypeCorrect, PTL DEF Spec, StopGoesOn

-----------------------------------------------------------------------------
\* What a thread can still do: to end, to leave its inhibitors and to get and
\* give back the mutex; and three steps for each call it may begin.
Waits(t) == IF t \in waiting THEN 2 ELSE 0
Owns(t) == IF owner = t THEN 1 ELSE 0
Lives(t) == IF life[t] = "running" THEN 1 ELSE 0
Rest(t) == Len(old[t]) + Waits(t) + Owns(t) + Lives(t)
Load(t) == 3 * (MaxCalls - calls[t]) + Rest(t)

Bound == 3 * MaxCalls + MaxDepth + 4
Work == {p \in Threads \X (1 .. Bound) : p[2] <= Load(p[1])}
Rank == Cardinality(Work)

Loads ==
  \A t \in Threads :
    /\ Load(t) \in 0 .. Bound /\ Rest(t) \in Nat
    /\ calls[t] \in Nat /\ Len(old[t]) \in Nat
    /\ Waits(t) \in 0 .. 2 /\ Owns(t) \in 0 .. 1 /\ Lives(t) \in 0 .. 1

LEMMA LoadType == TypeOK => Loads
<1> SUFFICES ASSUME TypeOK, NEW t \in Threads
             PROVE  /\ Load(t) \in 0 .. Bound /\ Rest(t) \in Nat
                    /\ calls[t] \in Nat /\ Len(old[t]) \in Nat
                    /\ Waits(t) \in 0 .. 2 /\ Owns(t) \in 0 .. 1 /\ Lives(t) \in 0 .. 1
  BY DEF Loads
<1>0. Waits(t) \in 0 .. 2 /\ Owns(t) \in 0 .. 1 /\ Lives(t) \in 0 .. 1
  BY DEF Waits, Owns, Lives
<1>1. /\ MaxCalls \in Nat /\ MaxDepth \in Nat /\ calls[t] \in 0 .. MaxCalls
      /\ Len(old[t]) \in 0 .. MaxDepth
  BY CancellationAssumption DEF TypeOK
<1>2. Rest(t) \in 0 .. (MaxDepth + 4)
  BY <1>0, <1>1 DEF Rest
<1>3. PICK c \in 0 .. MaxCalls, r \in 0 .. (MaxDepth + 4) : c = calls[t] /\ r = Rest(t)
  BY <1>1, <1>2
<1>4. 3 * (MaxCalls - c) + r \in 0 .. (3 * MaxCalls + MaxDepth + 4)
  BY <1>1
<1> QED
  BY <1>0, <1>1, <1>2, <1>3, <1>4 DEF Load, Bound

\* It is less after a step that begins a call and adds at most two steps, and
\* after one that begins none and takes one away.
LEMMA LoadLess ==
  ASSUME TypeOK, TypeOK', NEW t \in Threads,
         \/ calls'[t] = calls[t] + 1 /\ Rest(t)' <= Rest(t) + 2
         \/ calls'[t] = calls[t] /\ Rest(t)' < Rest(t)
  PROVE  Load(t)' < Load(t)
<1>1. /\ MaxCalls \in Nat /\ calls[t] \in Nat /\ calls'[t] \in Nat
      /\ Rest(t) \in Nat
  BY LoadType, CancellationAssumption DEF TypeOK, Loads
<1>2. Rest(t)' \in Nat
  <2>1. Loads'
    BY LoadType, PTL
  <2> QED
    BY <2>1 DEF Loads, Threads
<1>3. PICK c \in Nat, d \in Nat, r \in Nat, q \in Nat :
        c = calls[t] /\ d = calls'[t] /\ r = Rest(t) /\ q = Rest(t)'
  BY <1>1, <1>2
<1>4. 3 * (MaxCalls - d) + q < 3 * (MaxCalls - c) + r
  BY <1>1, <1>3
<1> QED
  BY <1>3, <1>4 DEF Load

\* While main joins, every step is one of another thread, which has less to do.
LEMMA LoadStep ==
  ASSUME TypeOK, TypeOK', joining \in Workers, Next, joining' = joining
  PROVE  \E t \in Threads : /\ Load(t)' < Load(t)
                            /\ \A u \in Threads \ {t} : Load(u)' = Load(u)
<1> USE CancellationAssumption DEF Threads
<1>1. joining # NoThread /\ ~Runs(Main)
  BY DEF Runs
<1>2. /\ old \in [Threads -> Seq(BOOLEAN)]
      /\ calls \in [Threads -> 0 .. MaxCalls] /\ owner \in Threads \cup {NoThread}
      /\ life \in [Threads -> {"running", "ended", "joined"}]
      /\ \A t \in Threads : Len(old[t]) \in Nat /\ calls[t] \in Nat
  BY DEF TypeOK
<1>3. Loads
  BY LoadType
<1>4. ASSUME NEW t \in Threads
      PROVE  /\ Waits(t) \in 0 .. 2 /\ Owns(t) \in 0 .. 1 /\ Lives(t) \in 0 .. 1
             /\ Len(old[t]) \in Nat /\ Rest(t) \in Nat
             /\ Rest(t) = Len(old[t]) + Waits(t) + Owns(t) + Lives(t)
             /\ Rest(t)' = Len(old'[t]) + Waits(t)' + Owns(t)' + Lives(t)'
  <2>1. /\ Waits(t) \in 0 .. 2 /\ Owns(t) \in 0 .. 1 /\ Lives(t) \in 0 .. 1
        /\ Len(old[t]) \in Nat /\ Rest(t) \in Nat
    BY <1>3 DEF Loads
  <2> QED
    BY <2>1 DEF Rest
<1>5. ASSUME NEW t \in Threads,
             \/ calls'[t] = calls[t] + 1 /\ Rest(t)' <= Rest(t) + 2
             \/ calls'[t] = calls[t] /\ Rest(t)' < Rest(t)
      PROVE  Load(t)' < Load(t)
  BY <1>5, LoadLess
<1>6. ASSUME NEW t \in Threads, Load(t)' < Load(t),
             \A u \in Threads \ {t} :
               /\ calls'[u] = calls[u] /\ old'[u] = old[u] /\ life'[u] = life[u]
               /\ u \in waiting' <=> u \in waiting
               /\ owner' = u <=> owner = u
      PROVE  \E x \in Threads : /\ Load(x)' < Load(x)
                                /\ \A u \in Threads \ {x} : Load(u)' = Load(u)
  <2>1. ASSUME NEW u \in Threads \ {t} PROVE Load(u)' = Load(u)
    <3>1. Rest(u)' = Rest(u)
      BY <1>6, <2>1 DEF Rest, Waits, Owns, Lives
    <3> QED
      BY <1>6, <3>1 DEF Load
  <2> QED
    BY <1>6, <2>1
<1>7. ASSUME NEW t \in Threads, NEW b \in BOOLEAN, SetCancel(t, b)
      PROVE  Load(t)' < Load(t)
  <2>1. Rest(t)' = Rest(t) /\ calls'[t] = calls[t] + 1
    BY <1>2, <1>7 DEF SetCancel, Begins, lifeVars, lockVars, Rest, Waits, Owns, Lives
  <2> QED
    BY <1>5, <1>3, <2>1 DEF Loads
<1>8. ASSUME NEW t \in Threads, Inhibit(t) PROVE Load(t)' < Load(t)
  <2>1. old[t] \in Seq(BOOLEAN) /\ enabled[t] \in BOOLEAN
    BY DEF TypeOK
  <2>2. Len(old'[t]) = Len(old[t]) + 1
    BY <1>2, <1>8, <2>1, Push DEF Inhibit
  <2>3. calls'[t] = calls[t] + 1 /\ UNCHANGED <<lockVars, life>>
    BY <1>2, <1>8 DEF Inhibit, Begins, lifeVars
  <2>4. Waits(t)' = Waits(t) /\ Owns(t)' = Owns(t) /\ Lives(t)' = Lives(t)
    BY <2>3 DEF Waits, Owns, Lives, lockVars
  <2>5. Rest(t)' = Rest(t) + 1
    <3>1. /\ Len(old[t]) \in Nat /\ Waits(t) \in 0 .. 2
          /\ Owns(t) \in 0 .. 1 /\ Lives(t) \in 0 .. 1
          /\ Rest(t) = Len(old[t]) + Waits(t) + Owns(t) + Lives(t)
          /\ Rest(t)' = Len(old'[t]) + Waits(t)' + Owns(t)' + Lives(t)'
      BY <1>4
    <3> QED
      BY <2>2, <2>4, <3>1
  <2> QED
    BY <1>5, <1>3, <2>3, <2>5 DEF Loads
<1>9. ASSUME NEW t \in Threads, Leave(t) PROVE Load(t)' < Load(t)
  <2>1. old[t] \in Seq(BOOLEAN) /\ old[t] # <<>>
    BY <1>9 DEF Leave, MayLeave, Inhibited, TypeOK
  <2>2. Len(old'[t]) = Len(old[t]) - 1
    BY <1>2, <1>9, <2>1, PopTop DEF Leave
  <2>3. UNCHANGED <<calls, lockVars, life>>
    BY <1>9 DEF Leave, lifeVars
  <2>4. Waits(t)' = Waits(t) /\ Owns(t)' = Owns(t) /\ Lives(t)' = Lives(t)
    BY <2>3 DEF Waits, Owns, Lives, lockVars
  <2>5. Rest(t)' = Rest(t) - 1
    <3>1. /\ Len(old[t]) \in Nat /\ Waits(t) \in 0 .. 2
          /\ Owns(t) \in 0 .. 1 /\ Lives(t) \in 0 .. 1
          /\ Rest(t) = Len(old[t]) + Waits(t) + Owns(t) + Lives(t)
          /\ Rest(t)' = Len(old'[t]) + Waits(t)' + Owns(t)' + Lives(t)'
      BY <1>4
    <3> QED
      BY <2>2, <2>4, <3>1
  <2> QED
    BY <1>5, <1>3, <2>3, <2>5 DEF Loads
<1>10. ASSUME NEW t \in Threads, TestCancel(t) \/ Return(t) PROVE Load(t)' < Load(t)
  <2>1. life[t] = "running" /\ life'[t] = "ended" /\ UNCHANGED <<lockVars, calls>>
    BY <1>2, <1>10 DEF TestCancel, Return, Runs
  <2>2. Len(old'[t]) \in Nat /\ Len(old'[t]) <= Len(old[t])
    BY <1>2, <1>10 DEF TestCancel, Return, stateVars
  <2>3. Waits(t)' = Waits(t) /\ Owns(t)' = Owns(t) /\ Lives(t)' = Lives(t) - 1
    BY <1>2, <2>1 DEF Waits, Owns, Lives, lockVars
  <2>4. Rest(t)' < Rest(t)
    <3>1. PICK m \in Nat, n \in Nat : m = Len(old[t]) /\ n = Len(old'[t]) /\ n <= m
      BY <1>2, <2>2
    <3>2. PICK x \in Nat, y \in Nat, z \in Nat :
            x = Waits(t) /\ y = Owns(t) /\ z = Lives(t)
      BY <1>4
    <3>3. Rest(t) = m + x + y + z /\ Rest(t)' = n + x + y + (z - 1)
      BY <1>4, <2>3, <3>1, <3>2
    <3>4. n + x + y + (z - 1) < m + x + y + z
      BY <3>1
    <3> QED
      BY <3>3, <3>4
  <2> QED
    BY <1>5, <2>1, <2>4
<1>11. ASSUME NEW t \in Threads, Lock(t) \/ TryLock(t) PROVE Load(t)' < Load(t)
  <2>1. calls'[t] = calls[t] + 1 /\ UNCHANGED <<old, life>>
    BY <1>2, <1>11 DEF Lock, TryLock, Begins, stateVars, lifeVars
  <2>2. \/ waiting' = waiting \cup {t} /\ owner' = owner /\ t \notin waiting
        \/ waiting' = waiting /\ owner' = t /\ owner # t
    BY <1>11 DEF Lock, TryLock, Begins, Runs
  <2>3. /\ Lives(t)' = Lives(t)
        /\ \/ Waits(t)' = Waits(t) + 2 /\ Owns(t)' = Owns(t)
           \/ Waits(t)' = Waits(t) /\ Owns(t)' = Owns(t) + 1
    BY <2>1, <2>2 DEF Waits, Owns, Lives
  <2>4. Rest(t)' \in {Rest(t) + 1, Rest(t) + 2}
    <3>1. /\ Rest(t)' = Len(old[t]) + Waits(t)' + Owns(t)' + Lives(t)
          /\ Rest(t) = Len(old[t]) + Waits(t) + Owns(t) + Lives(t)
      BY <1>4, <2>1, <2>3
    <3>2. /\ Waits(t) \in 0 .. 2 /\ Owns(t) \in 0 .. 1 /\ Lives(t) \in 0 .. 1
          /\ Len(old[t]) \in Nat
      BY <1>4
    <3> QED
      BY <2>3, <3>1, <3>2
  <2>5. Rest(t)' <= Rest(t) + 2
    BY <1>4, <2>4
  <2> QED
    BY <1>5, <2>1, <2>5
<1>12. ASSUME NEW t \in Threads, Acquire(t) \/ Unlock(t) PROVE Load(t)' < Load(t)
  <2>1. UNCHANGED <<calls, old, life>>
    BY <1>12 DEF Acquire, Unlock, stateVars, lifeVars
  <2>2. \/ t \in waiting /\ owner # t /\ waiting' = waiting \ {t} /\ owner' = t
        \/ owner = t /\ owner' # t /\ waiting' = waiting
    BY <1>12 DEF Acquire, Unlock
  <2>3. /\ Lives(t)' = Lives(t)
        /\ \/ Waits(t) = 2 /\ Waits(t)' = 0 /\ Owns(t)' = Owns(t) + 1
           \/ Waits(t)' = Waits(t) /\ Owns(t) = 1 /\ Owns(t)' = 0
    BY <2>1, <2>2 DEF Waits, Owns, Lives
  <2>4. Rest(t)' < Rest(t)
    BY <1>4, <2>1, <2>3
  <2> QED
    BY <1>5, <2>1, <2>4
\* The other threads.
<1>13. ASSUME NEW t \in Threads,
             \/ \E b \in BOOLEAN : SetCancel(t, b)
             \/ Inhibit(t) \/ Leave(t) \/ TestCancel(t) \/ Return(t)
             \/ Lock(t) \/ TryLock(t) \/ Acquire(t) \/ Unlock(t),
             NEW u \in Threads \ {t}
      PROVE  /\ calls'[u] = calls[u] /\ old'[u] = old[u] /\ life'[u] = life[u]
             /\ u \in waiting' <=> u \in waiting
             /\ owner' = u <=> owner = u
  <2>1. CASE (\E b \in BOOLEAN : SetCancel(t, b)) \/ Inhibit(t) \/ Leave(t)
    BY <1>2, <2>1 DEF SetCancel, Inhibit, Leave, Begins, lifeVars, lockVars
  <2>2. CASE TestCancel(t) \/ Return(t)
    BY <1>2, <2>2 DEF TestCancel, Return, stateVars, lockVars
  <2>3. CASE Lock(t) \/ TryLock(t) \/ Acquire(t) \/ Unlock(t)
    BY <1>2, <2>3 DEF Lock, TryLock, Acquire, Unlock, Begins, stateVars, lifeVars
  <2> QED
    BY <1>13, <2>1, <2>2, <2>3
\* Main can neither stop another one nor destroy the mutex.
<1>14. ~DestroyMutex /\ \A w \in Workers : ~Stop(w) /\ ~Joined(w)
  BY <1>1 DEF DestroyMutex, Stop, Joined
<1> QED
  BY <1>6, <1>7, <1>8, <1>9, <1>10, <1>11, <1>12, <1>13, <1>14 DEF Next, Exit

\* There is only so much work, and every step leaves less of it.
LEMMA RankType == IsFiniteSet(Work) /\ Rank \in Nat
<1>1. Bound \in Nat
  BY CancellationAssumption DEF Bound
<1>2. IsFiniteSet(Threads) /\ IsFiniteSet(1 .. Bound)
  <2>1. IsFiniteSet(Threads)
    BY FiniteWorkers, FS_AddElement DEF Threads
  <2>2. 1 \in Int /\ Bound \in Int
    BY <1>1
  <2>3. IsFiniteSet(1 .. Bound)
    BY <2>2, FS_Interval
  <2> QED
    BY <2>1, <2>3
<1>3. IsFiniteSet(Threads \X (1 .. Bound))
  BY <1>2, FS_Product
<1> QED
  BY <1>3, FS_Subset, FS_CardinalityType DEF Work, Rank

LEMMA WorkShrinks ==
  ASSUME TypeOK, TypeOK', joining \in Workers, Next, joining' = joining
  PROVE  Rank \in Nat /\ Rank' \in Nat /\ Rank' < Rank
<1>1. PICK t \in Threads : /\ Load(t)' < Load(t)
                           /\ \A u \in Threads \ {t} : Load(u)' = Load(u)
  BY LoadStep
<1>2. Bound \in Nat
  BY CancellationAssumption DEF Bound
<1>3. ASSUME NEW u \in Threads
      PROVE  Load(u) \in 0 .. Bound /\ Load(u)' \in 0 .. Bound
  <2>1. Load(u) \in 0 .. Bound
    BY LoadType DEF Loads
  <2>2. Loads'
    BY LoadType, PTL
  <2> QED
    BY <2>1, <2>2 DEF Loads, Bound, Threads
<1>4. IsFiniteSet(Work)
  BY RankType
<1>5. Work' \subseteq Work
  <2> SUFFICES ASSUME NEW p \in Threads \X (1 .. Bound), p[2] <= Load(p[1])'
               PROVE  p[2] <= Load(p[1])
    BY DEF Work
  <2>1. p[1] \in Threads /\ p[2] \in 1 .. Bound
    OBVIOUS
  <2>2. Load(p[1])' <= Load(p[1])
    BY <1>1, <1>2, <1>3, <2>1
  <2> QED
    BY <1>2, <1>3, <2>1, <2>2
<1>6. <<t, Load(t)>> \in Work \ Work'
  BY <1>1, <1>2, <1>3 DEF Work
<1> QED
  BY <1>4, <1>5, <1>6, FS_Subset, FS_CardinalityType DEF Rank
-----------------------------------------------------------------------------
\* Main joins w, with n steps left; it has returned, or there are fewer.
Joins(w) == joining = w /\ hazards = {}
Left(w, n) == Joins(w) /\ Rank = n
Less(w, n) == joining # w \/ (Joins(w) /\ Rank \in 0 .. n - 1)

\* Nothing happens, or something is done.
LEMMA JoinMoves ==
  ASSUME NEW w \in Workers, NEW n \in Nat,
         TypeOK, TypeOK', Left(w, n), [Next]_vars, ~Less(w, n)'
  PROVE  UNCHANGED vars
<1> SUFFICES ASSUME Next PROVE FALSE
  OBVIOUS
<1>1. joining = w /\ hazards = {} /\ Rank = n /\ joining' = w
  BY DEF Left, Less, Joins
<1>2. hazards' = hazards
  BY DEF Next, Exit, SetCancel, Inhibit, TestCancel, Return, Lock, Acquire, TryLock,
         Leave, Unlock, Stop, Joined, DestroyMutex
<1>3. Rank' \in Nat /\ Rank' < n
  BY <1>1, WorkShrinks
<1>4. Rank' \in 0 .. n - 1
  BY <1>3
<1> QED
  BY <1>1, <1>2, <1>4 DEF Less, Joins

\* A step that fairness is about stays possible until something is done.
LEMMA GuardsStay ==
  ASSUME NEW w \in Workers, NEW n \in Nat,
         TypeOK, TypeOK', Left(w, n), [Next]_vars
  PROVE  \/ Less(w, n)'
         \/ /\ Left(w, n)' /\ UNCHANGED vars
            /\ CanEnd(w) => CanEnd(w)'
            /\ CanJoin(w) => CanJoin(w)'
            /\ \A t \in Threads : /\ CanExit(t) => CanExit(t)'
                                  /\ CanAcquire(t) => CanAcquire(t)'
<1> SUFFICES ASSUME UNCHANGED vars
             PROVE  /\ Left(w, n)'
                    /\ CanEnd(w) => CanEnd(w)'
                    /\ CanJoin(w) => CanJoin(w)'
                    /\ \A t \in Threads : /\ CanExit(t) => CanExit(t)'
                                          /\ CanAcquire(t) => CanAcquire(t)'
  BY JoinMoves
<1> USE DEF vars, stateVars, lifeVars, lockVars
<1>1. Left(w, n)'
  <2>1. \A t \in Threads : Load(t)' = Load(t)
    BY DEF Load, Rest, Waits, Owns, Lives
  <2>2. Work' = Work
    BY <2>1 DEF Work
  <2> QED
    BY <2>2 DEF Left, Joins, Rank
<1> QED
  BY <1>1 DEF CanEnd, CanJoin, CanExit, CanAcquire, Runs, Inhibited

\* Whatever w and the others are doing, something is done.
LEMMA Progress ==
  ASSUME NEW w \in Workers, NEW n \in Nat
  PROVE  FairSpec /\ []StepsEnabled => (Left(w, n) ~> Less(w, n))
<1>1. FairSpec => [](TypeOK /\ JoinUnblocked) /\ [][Next]_vars
  <2>1. FairSpec => Spec
    BY DEF FairSpec
  <2> QED
    BY <2>1, TypeCorrect, NoDeadlock, PTL DEF Spec
<1>2. FairSpec /\ []StepsEnabled => [](Left(w, n) /\ CanEnd(w) => <>Less(w, n))
  <2>1. FairSpec => EndFair(w)
    BY DEF FairSpec
  <2>2. TypeOK /\ TypeOK' /\ Left(w, n) /\ CanEnd(w) /\ [Next]_vars =>
          (Left(w, n)' /\ CanEnd(w)') \/ Less(w, n)'
    BY GuardsStay
  <2>3. TypeOK /\ TypeOK' /\ Left(w, n) /\ [Next]_vars /\ <<TestCancel(w)>>_vars => Less(w, n)'
    BY GuardsStay
  <2>4. StepsEnabled /\ CanEnd(w) => ENABLED <<TestCancel(w)>>_vars
    BY DEF StepsEnabled
  <2> QED
    BY <1>1, <2>1, <2>2, <2>3, <2>4, PTL DEF EndFair
<1>3. FairSpec /\ []StepsEnabled => [](Left(w, n) /\ CanJoin(w) => <>Less(w, n))
  <2>1. FairSpec => JoinFair(w)
    BY DEF FairSpec
  <2>2. TypeOK /\ TypeOK' /\ Left(w, n) /\ CanJoin(w) /\ [Next]_vars =>
          (Left(w, n)' /\ CanJoin(w)') \/ Less(w, n)'
    BY GuardsStay
  <2>3. TypeOK /\ TypeOK' /\ Left(w, n) /\ [Next]_vars /\ <<Joined(w)>>_vars => Less(w, n)'
    BY GuardsStay
  <2>4. StepsEnabled /\ CanJoin(w) => ENABLED <<Joined(w)>>_vars
    BY DEF StepsEnabled
  <2> QED
    BY <1>1, <2>1, <2>2, <2>3, <2>4, PTL DEF JoinFair
<1>4. ASSUME NEW t \in Threads
      PROVE  FairSpec /\ []StepsEnabled => [](Left(w, n) /\ CanExit(t) => <>Less(w, n))
  <2>1. FairSpec => ExitFair(t)
    BY DEF FairSpec
  <2>2. TypeOK /\ TypeOK' /\ Left(w, n) /\ CanExit(t) /\ [Next]_vars =>
          (Left(w, n)' /\ CanExit(t)') \/ Less(w, n)'
    BY GuardsStay
  <2>3. TypeOK /\ TypeOK' /\ Left(w, n) /\ [Next]_vars /\ <<Exit(t)>>_vars => Less(w, n)'
    BY GuardsStay
  <2>4. StepsEnabled /\ CanExit(t) => ENABLED <<Exit(t)>>_vars
    BY DEF StepsEnabled
  <2> QED
    BY <1>1, <2>1, <2>2, <2>3, <2>4, PTL DEF ExitFair
<1>5. ASSUME NEW t \in Threads
      PROVE  FairSpec /\ []StepsEnabled => [](Left(w, n) /\ CanAcquire(t) => <>Less(w, n))
  <2>1. FairSpec => AcquireFair(t)
    BY DEF FairSpec
  <2>2. TypeOK /\ TypeOK' /\ Left(w, n) /\ CanAcquire(t) /\ [Next]_vars =>
          (Left(w, n)' /\ CanAcquire(t)') \/ Less(w, n)'
    BY GuardsStay
  <2>3. TypeOK /\ TypeOK' /\ Left(w, n) /\ [Next]_vars /\ <<Acquire(t)>>_vars => Less(w, n)'
    BY GuardsStay
  <2>4. StepsEnabled /\ CanAcquire(t) => ENABLED <<Acquire(t)>>_vars
    BY DEF StepsEnabled
  <2> QED
    BY <1>1, <2>1, <2>2, <2>3, <2>4, PTL DEF AcquireFair
<1>6. FairSpec /\ []StepsEnabled =>
        []((\E t \in Threads : Left(w, n) /\ (CanExit(t) \/ CanAcquire(t))) => <>Less(w, n))
  <2>1. ASSUME NEW t \in Threads
        PROVE  FairSpec /\ []StepsEnabled =>
                 [](Left(w, n) /\ (CanExit(t) \/ CanAcquire(t)) => <>Less(w, n))
    BY <1>4, <1>5, PTL
  <2>2. FairSpec /\ []StepsEnabled =>
          \A t \in Threads :
            [](Left(w, n) /\ (CanExit(t) \/ CanAcquire(t)) => <>Less(w, n))
    BY <2>1
  <2>3. (\A t \in Threads :
           [](Left(w, n) /\ (CanExit(t) \/ CanAcquire(t)) => <>Less(w, n)))
          => [](\A t \in Threads :
                  Left(w, n) /\ (CanExit(t) \/ CanAcquire(t)) => <>Less(w, n))
    OBVIOUS
  <2>4. (\A t \in Threads : Left(w, n) /\ (CanExit(t) \/ CanAcquire(t)) => <>Less(w, n))
          => ((\E t \in Threads : Left(w, n) /\ (CanExit(t) \/ CanAcquire(t))) => <>Less(w, n))
    OBVIOUS
  <2> QED
    BY <2>2, <2>3, <2>4, PTL
<1>7. TypeOK /\ JoinUnblocked /\ Left(w, n) =>
        \/ CanEnd(w) \/ CanJoin(w)
        \/ \E t \in Threads : Left(w, n) /\ (CanExit(t) \/ CanAcquire(t))
  BY CancellationAssumption DEF JoinUnblocked, Left, Joins, Threads, TypeOK
<1> QED
  BY <1>1, <1>2, <1>3, <1>6, <1>7, PTL

\* Main returns from a join that has n steps left; induction on n, which holds
\* of any formula, and which the provers cannot instantiate with this one.
Ends(w, n) == [](Left(w, n) => <>(joining # w))
Inducts(w) ==
  (\A n \in Nat : (\A m \in 0 .. n - 1 : Ends(w, m)) => Ends(w, n))
    => \A n \in Nat : Ends(w, n)

\* ~Jthread returns (Pthread.hxx:129-145) in a program without hazards, whatever
\* the number of workers, depth and calls: scopes end in any order.
THEOREM StopTerminates ==
  FairSpec /\ []StepsEnabled /\ (\A w \in Workers : Inducts(w)) => StopReturns
<1>1. ASSUME NEW w \in Workers
      PROVE  FairSpec /\ []StepsEnabled /\ Inducts(w)
               => (joining = w /\ hazards = {} ~> joining # w)
  <2>1. ASSUME NEW n \in Nat
        PROVE  FairSpec /\ []StepsEnabled =>
                 ((\A m \in 0 .. n - 1 : Ends(w, m)) => Ends(w, n))
    <3>1. (\A m \in 0 .. n - 1 : Ends(w, m)) =>
            [](\A m \in 0 .. n - 1 : Left(w, m) => <>(joining # w))
      BY DEF Ends
    <3>2. (\A m \in 0 .. n - 1 : Left(w, m) => <>(joining # w))
            => ((\E m \in 0 .. n - 1 : Left(w, m)) => <>(joining # w))
      OBVIOUS
    <3>3. Less(w, n) => joining # w \/ \E m \in 0 .. n - 1 : Left(w, m)
      BY DEF Less, Left
    <3> QED
      BY <3>1, <3>2, <3>3, Progress, PTL DEF Ends
  <2>2. FairSpec /\ []StepsEnabled =>
          \A n \in Nat : (\A m \in 0 .. n - 1 : Ends(w, m)) => Ends(w, n)
    BY <2>1
  <2>3. FairSpec /\ []StepsEnabled /\ Inducts(w) => \A n \in Nat : Ends(w, n)
    BY <2>2 DEF Inducts
  <2>4. (\A n \in Nat : Ends(w, n)) =>
          [](\A n \in Nat : Left(w, n) => <>(joining # w))
    BY DEF Ends
  <2>5. (\A n \in Nat : Left(w, n) => <>(joining # w))
          => ((\E n \in Nat : Left(w, n)) => <>(joining # w))
    OBVIOUS
  <2>6. TypeOK /\ joining = w /\ hazards = {} => \E n \in Nat : Left(w, n)
    BY RankType DEF Left, Joins
  <2>7. FairSpec => []TypeOK
    BY TypeCorrect, PTL DEF FairSpec
  <2> QED
    BY <2>3, <2>4, <2>5, <2>6, <2>7, PTL
<1> QED
  BY <1>1 DEF StopReturns
=============================================================================
