---------------------------- MODULE Cancellation ----------------------------
(***************************************************************************)
(* PthreadCancelInhibitor, ThisPthread and PthreadMutex in a program that  *)
(* stops its Jthreads: the main thread destroys them, which cancels and    *)
(* joins each, while they nest inhibitors and use a mutex they share with  *)
(* it.                                                                     *)
(*                                                                         *)
(* A cancelled thread unwinds its stack, so its inhibitors are destroyed;  *)
(* PthreadMutex has no guard, so a mutex it has locked stays locked.       *)
(* pthread_mutex_lock(3) is no cancellation point.  A call is one step,    *)
(* but for a lock() that waits.                                            *)
(***************************************************************************)
EXTENDS Naturals, Sequences, FiniteSets

CONSTANTS
  Workers,     \* the Jthreads
  Main, NoThread,
  MaxDepth,    \* bound: inhibitors nested in a thread
  MaxCalls,    \* bound: calls a thread begins, so that its body ends
  Programs     \* the kinds of programs: sets of Hazards they may meet

\* barelock:   a worker locks the mutex outside of any inhibitor
\* setcancel:  a worker calls ThisThread::setcancel() outside of inhibitors
\* setinside:  and inside of one
\* relock:     a thread locks the mutex it has locked
\* joinlocked: the main thread destroys a Jthread while it holds the mutex
Hazards == {"barelock", "setcancel", "setinside", "relock", "joinlocked"}

ASSUME CancellationAssumption ==
  /\ Main \notin Workers /\ NoThread \notin Workers \cup {Main}
  /\ MaxDepth \in Nat /\ MaxCalls \in Nat
  /\ Programs \subseteq SUBSET Hazards

ASSUME FiniteWorkers == IsFiniteSet(Workers)

VARIABLES
  enabled,     \* enabled[t]: t's cancel state
  asked,       \* asked[t]: what t itself set it to, outside of inhibitors
  old,         \* old[t]: the _old of t's inhibitors, the innermost last
  pending,     \* pending[t]: t was asked to cancel
  life,        \* life[t]: "running", "ended" or "joined"
  owner,       \* the thread that holds the mutex, or NoThread
  waiting,     \* the threads inside pthread_mutex_lock(3)
  joining,     \* the worker ~Jthread is joining, or NoThread
  calls,       \* calls[t]: calls t has begun
  mutex,       \* "alive", "destroyed", or "abort": its destructor's assertion
  hazards      \* this program's kind

stateVars == <<enabled, asked, old>>
lockVars == <<owner, waiting, mutex>>
lifeVars == <<pending, life, joining>>
vars == <<stateVars, lifeVars, lockVars, calls, hazards>>

Threads == Workers \cup {Main}

\* t is about to make a call of the library.
Runs(t) ==
  /\ life[t] = "running" /\ t \notin waiting /\ mutex # "abort"
  /\ t = Main => joining = NoThread

Begins(t) ==
  Runs(t) /\ calls[t] < MaxCalls /\ calls' = [calls EXCEPT ![t] = @ + 1]

Inhibited(t) == old[t] # <<>>
-----------------------------------------------------------------------------
Init ==
  /\ enabled = [t \in Threads |-> TRUE] /\ asked = enabled
  /\ old = [t \in Threads |-> <<>>]
  /\ pending = [t \in Threads |-> FALSE]
  /\ life = [t \in Threads |-> "running"]
  /\ owner = NoThread /\ waiting = {} /\ joining = NoThread
  /\ calls = [t \in Threads |-> 0]
  /\ mutex = "alive"
  /\ hazards \in Programs

\* ThisPthread::setcancel().
SetCancel(t, b) ==
  /\ Begins(t)
  /\ (IF Inhibited(t) THEN "setinside" ELSE "setcancel") \in hazards
  /\ enabled' = [enabled EXCEPT ![t] = b]
  /\ asked' = IF Inhibited(t) THEN asked ELSE [asked EXCEPT ![t] = b]
  /\ UNCHANGED <<old, lifeVars, lockVars, hazards>>

\* Mutant: the state is read, not set.
Inhibit_onlyReads(t) ==
  /\ Begins(t) /\ Len(old[t]) < MaxDepth
  /\ old' = [old EXCEPT ![t] = Append(@, enabled[t])]
  /\ UNCHANGED <<enabled, asked, lifeVars, lockVars, hazards>>

\* PthreadCancelInhibitor i;
Inhibit(t) ==
  /\ Begins(t) /\ Len(old[t]) < MaxDepth
  /\ old' = [old EXCEPT ![t] = Append(@, enabled[t])]
  /\ enabled' = [enabled EXCEPT ![t] = FALSE]
  /\ UNCHANGED <<asked, lifeVars, lockVars, hazards>>

Pop(s) == SubSeq(s, 1, Len(s) - 1)

\* A worker unlocks what it locked before it leaves its outermost inhibitor.
MayLeave(t) ==
  /\ Runs(t) /\ Inhibited(t)
  /\ t \in Workers /\ owner = t /\ Len(old[t]) = 1 => "barelock" \in hazards

\* Mutant: the destructor enables cancellation.
Leave_enables(t) ==
  /\ MayLeave(t)
  /\ enabled' = [enabled EXCEPT ![t] = TRUE]
  /\ old' = [old EXCEPT ![t] = Pop(@)]
  /\ UNCHANGED <<asked, lifeVars, lockVars, calls, hazards>>

\* Mutant: the destructor leaves it disabled.
Leave_keeps(t) ==
  /\ MayLeave(t)
  /\ old' = [old EXCEPT ![t] = Pop(@)]
  /\ UNCHANGED <<enabled, asked, lifeVars, lockVars, calls, hazards>>

\* The innermost inhibitor is destroyed.
Leave(t) ==
  /\ MayLeave(t)
  /\ enabled' = [enabled EXCEPT ![t] = old[t][Len(old[t])]]
  /\ old' = [old EXCEPT ![t] = Pop(@)]
  /\ UNCHANGED <<asked, lifeVars, lockVars, calls, hazards>>

\* ThisPthread::testcancel(), or any other cancellation point, of a worker that
\* was asked to cancel.
TestCancel(t) ==
  /\ t \in Workers /\ Runs(t) /\ enabled[t] /\ pending[t]
  /\ life' = [life EXCEPT ![t] = "ended"]
  /\ old' = [old EXCEPT ![t] = <<>>]
  /\ UNCHANGED <<enabled, asked, pending, joining, lockVars, calls, hazards>>

\* A worker returns.
Return(t) ==
  /\ t \in Workers /\ Runs(t) /\ ~Inhibited(t) /\ owner # t
  /\ life' = [life EXCEPT ![t] = "ended"]
  /\ UNCHANGED <<stateVars, pending, joining, lockVars, calls, hazards>>
-----------------------------------------------------------------------------
\* Where a program may lock.
MayLock(t) ==
  /\ mutex = "alive"
  /\ owner = t => "relock" \in hazards
  /\ t = Main \/ Inhibited(t) \/ "barelock" \in hazards

\* lock() begins.
Lock(t) ==
  /\ Begins(t) /\ MayLock(t)
  /\ waiting' = waiting \cup {t}
  /\ UNCHANGED <<stateVars, lifeVars, owner, mutex, hazards>>

\* pthread_mutex_lock(3) returns: for a thread that has the mutex, never.
Acquire(t) ==
  /\ t \in waiting /\ owner = NoThread
  /\ owner' = t /\ waiting' = waiting \ {t}
  /\ UNCHANGED <<stateVars, lifeVars, mutex, calls, hazards>>

\* trylock(); it returns false, and changes nothing, if the mutex is held.
TryLock(t) ==
  /\ Begins(t) /\ MayLock(t) /\ owner = NoThread
  /\ owner' = t
  /\ UNCHANGED <<stateVars, lifeVars, waiting, mutex, hazards>>

\* unlock(), by the thread that locked.
Unlock(t) ==
  /\ Runs(t) /\ owner = t
  /\ owner' = NoThread
  /\ UNCHANGED <<stateVars, lifeVars, waiting, mutex, calls, hazards>>

\* ~PthreadMutex, after all workers: EBUSY if it is locked.
DestroyMutex ==
  /\ Runs(Main) /\ mutex = "alive" /\ owner # Main
  /\ \A w \in Workers : life[w] = "joined"
  /\ mutex' = IF owner = NoThread THEN "destroyed" ELSE "abort"
  /\ UNCHANGED <<stateVars, lifeVars, owner, waiting, calls, hazards>>
-----------------------------------------------------------------------------
\* Mutant: the Cancel flag is ignored.
Stop_noCancel(w) ==
  /\ Runs(Main) /\ life[w] # "joined"
  /\ owner = Main => "joinlocked" \in hazards
  /\ joining' = w
  /\ UNCHANGED <<stateVars, pending, life, lockVars, calls, hazards>>

\* ~Jthread of w: trycancel(), then join() begins.
Stop(w) ==
  /\ Runs(Main) /\ life[w] # "joined"
  /\ owner = Main => "joinlocked" \in hazards
  /\ pending' = [pending EXCEPT ![w] = TRUE]
  /\ joining' = w
  /\ UNCHANGED <<stateVars, life, lockVars, calls, hazards>>

\* pthread_join(3) returns.
Joined(w) ==
  /\ joining = w /\ life[w] = "ended"
  /\ life' = [life EXCEPT ![w] = "joined"]
  /\ joining' = NoThread
  /\ UNCHANGED <<stateVars, pending, lockVars, calls, hazards>>

\* The end of a scope: an inhibitor's, or a critical section's.
Exit(t) == Leave(t) \/ Unlock(t)

Next ==
  \/ \E t \in Threads :
       \/ \E b \in BOOLEAN : SetCancel(t, b)
       \/ Inhibit(t) \/ TestCancel(t) \/ Return(t)
       \/ Lock(t) \/ Acquire(t) \/ TryLock(t) \/ Exit(t)
  \/ \E w \in Workers : Stop(w) \/ Joined(w)
  \/ DestroyMutex

Spec == Init /\ [][Next]_vars

\* Scopes end, a free mutex is given to one that waits, a worker reaches a
\* cancellation point, a join of a thread that ended returns.  No call has to be
\* begun, and no worker has to return.
ExitFair(t) == WF_vars(Exit(t))
AcquireFair(t) == WF_vars(Acquire(t))
EndFair(w) == WF_vars(TestCancel(w))
JoinFair(w) == WF_vars(Joined(w))

FairSpec ==
  /\ Spec
  /\ \A t \in Threads : ExitFair(t) /\ AcquireFair(t)
  /\ \A w \in Workers : EndFair(w) /\ JoinFair(w)
-----------------------------------------------------------------------------
\* Cancel states, inhibitors, the mutex and the threads keep their types, and
\* only running threads are inside inhibitors.
TypeOK ==
  /\ enabled \in [Threads -> BOOLEAN] /\ asked \in [Threads -> BOOLEAN]
  /\ old \in [Threads -> Seq(BOOLEAN)]
  /\ \A t \in Threads : Len(old[t]) <= MaxDepth
  /\ \A t \in Threads : Inhibited(t) => life[t] = "running"
  /\ pending \in [Threads -> BOOLEAN]
  /\ life \in [Threads -> {"running", "ended", "joined"}]
  /\ owner \in Threads \cup {NoThread} /\ waiting \subseteq Threads
  /\ joining \in Workers \cup {NoThread}
  /\ calls \in [Threads -> 0 .. MaxCalls]
  /\ mutex \in {"alive", "destroyed", "abort"}
  /\ hazards \in Programs

\* However inhibitors nest (PthreadCancelInhibitor.hxx:30-42), a running thread
\* can be cancelled exactly outside of all of them, if it has not disabled
\* cancellation itself; only a setcancel() inside an inhibitor upsets that.
CancelStateNests ==
  "setinside" \notin hazards =>
    \A t \in Threads : life[t] = "running" =>
      (enabled[t] <=> asked[t] /\ ~Inhibited(t))

\* No thread ends with the mutex locked, and the assertion of ~PthreadMutex
\* (PthreadMutex.hxx:53) holds, if workers lock inside inhibitors and do not
\* enable cancellation there.
OrphanOnlyByBareLock ==
  hazards \cap {"barelock", "setinside"} = {} =>
    /\ owner # NoThread => life[owner] = "running"
    /\ mutex # "abort"

\* Thread t is in a scope it can leave; it waits for a mutex that is free; a
\* worker can be cancelled; one that is joined has ended.
CanExit(t) == Runs(t) /\ (Inhibited(t) \/ owner = t)
CanAcquire(t) == t \in waiting /\ owner = NoThread
CanEnd(w) == Runs(w) /\ pending[w] /\ enabled[w]
CanJoin(w) == joining = w /\ life[w] = "ended"

\* No ring of waits around ~Jthread (Pthread.hxx:129-145), in a program without
\* hazards: the thread it joins has ended, or can be cancelled, or is in a scope
\* it can leave, or waits for a mutex that is free or whose owner is in such a
\* scope.
JoinUnblocked ==
  hazards = {} /\ joining # NoThread =>
    \/ CanJoin(joining) \/ CanEnd(joining) \/ CanExit(joining) \/ CanAcquire(joining)
    \/ joining \in waiting /\ owner # NoThread /\ CanExit(owner)

\* The steps that fairness is about are possible where the system lets them be:
\* a scope can be left, whatever is nested in it.
StepsEnabled ==
  /\ \A t \in Threads : /\ CanExit(t) => ENABLED <<Exit(t)>>_vars
                        /\ CanAcquire(t) => ENABLED <<Acquire(t)>>_vars
  /\ \A w \in Workers : /\ CanEnd(w) => ENABLED <<TestCancel(w)>>_vars
                        /\ CanJoin(w) => ENABLED <<Joined(w)>>_vars

\* A stop goes on: it meets no ring of waits, and the steps that end them are
\* possible.
StopGoesOn == StepsEnabled /\ JoinUnblocked

\* ~Jthread returns, unless the thread it joins disabled its cancellation, or
\* someone waits for a mutex that is never unlocked: one that a cancelled thread
\* has locked, that a thread locks twice, or that main holds while it joins.
StopReturns ==
  \A w \in Workers : joining = w /\ hazards = {} ~> joining # w
=============================================================================
