------------------------------ MODULE Pthread ------------------------------
(***************************************************************************)
(* Pthread<JoinRet, Behavior>: the handle of a thread.  Thread is the      *)
(* behavior Terminate, Jthread is Join | Cancel.                           *)
(*                                                                         *)
(* One thread uses the handles; the threads it creates run beside it.  A   *)
(* pthread_t names a thread until that is joined, or ends detached; the    *)
(* number is then reused.  A call on a number that names nothing reads     *)
(* freed memory: it returns ESRCH or faults; on INVALID it returns ESRCH.  *)
(* A step covers one call of the pthread library (external).               *)
(***************************************************************************)
EXTENDS Integers

CONSTANTS
  Handles,      \* the Pthread objects
  NoHandle,
  MaxTid,       \* pthread_t values are 1 .. MaxTid
  MaxThreads,   \* bound: how many threads are created in a behaviour
  Programs      \* kinds of programs: a behavior and the hazards they meet

Bases == {"nothing", "terminate", "detach", "join"}
Hazards == {"destroyempty", "overwrite", "equalassign", "createfails"}

ASSUME PthreadAssumption ==
  /\ NoHandle \notin Handles
  /\ MaxTid \in Nat /\ MaxThreads \in Nat
  /\ Programs \subseteq [base : Bases, cancels : BOOLEAN,
                         hazards : SUBSET Hazards]

VARIABLES
  occupant,    \* occupant[n]: the thread named by the pthread_t n, or None
  life,        \* life[c]: "unborn", "running", "ended" or "gone"
  created,     \* number of threads created so far
  detached,    \* detached[c]: no one can join c any more
  cancelled,   \* cancelled[c]: a cancellation request is pending for c
  alive,       \* alive[h]: h is constructed and not yet destroyed
  tid,         \* tid[h]: its _tid
  raw,         \* a bare pthread_t the program is responsible for
  frame,       \* the call in progress
  outcome,     \* "runs", or how the program was stopped
  program      \* its handles' behavior and the hazards it meets

threadVars == <<occupant, life, created, detached, cancelled>>
vars == <<threadVars, alive, tid, raw, frame, outcome, program>>

Tids == 1 .. MaxTid
Threads == 1 .. MaxThreads
INVALID == 0
None == 0

Idle == [op |-> "idle", this |-> NoHandle, other |-> NoHandle]
Frame(op, h, g) == [op |-> op, this |-> h, other |-> g]

\* stop: trycancel() is next; base: the rest of _stop(); take: the end of a
\* destructor (other = NoHandle) or of a move assignment.
Frames == [op : {"idle", "join", "stop", "base", "take"},
           this : Handles \cup {NoHandle}, other : Handles \cup {NoHandle}]

Ready == frame = Idle /\ outcome = "runs"
valid(h) == tid[h] # INVALID
-----------------------------------------------------------------------------
Init ==
  /\ occupant = [n \in Tids |-> None]
  /\ life = [c \in Threads |-> "unborn"]
  /\ created = 0
  /\ detached = [c \in Threads |-> FALSE]
  /\ cancelled = [c \in Threads |-> FALSE]
  /\ alive = [h \in Handles |-> FALSE]
  /\ tid = [h \in Handles |-> INVALID]
  /\ raw = INVALID
  /\ frame = Idle
  /\ outcome = "runs"
  /\ program \in Programs

\* Pthread h;
Construct(h) ==
  /\ Ready /\ ~alive[h]
  /\ alive' = [alive EXCEPT ![h] = TRUE]
  /\ tid' = [tid EXCEPT ![h] = INVALID]
  /\ UNCHANGED <<threadVars, raw, frame, outcome, program>>

\* Pthread h = std::move(g);
MoveConstruct(h, g) ==
  /\ Ready /\ ~alive[h] /\ alive[g]
  /\ alive' = [alive EXCEPT ![h] = TRUE]
  /\ tid' = [tid EXCEPT ![h] = tid[g], ![g] = INVALID]
  /\ UNCHANGED <<threadVars, raw, frame, outcome, program>>

\* Mutant: reset() returns the new number, so that the old one is lost.
Reset_losesOld(h) ==
  /\ Ready /\ alive[h] /\ tid[h] # raw
  /\ tid' = [tid EXCEPT ![h] = raw]
  /\ raw' = INVALID
  /\ UNCHANGED <<threadVars, alive, frame, outcome, program>>

\* raw = h.reset(raw), and the constructor that takes a pthread_t.
Reset(h) ==
  /\ Ready /\ alive[h] /\ tid[h] # raw
  /\ tid' = [tid EXCEPT ![h] = raw]
  /\ raw' = tid[h]
  /\ UNCHANGED <<threadVars, alive, frame, outcome, program>>

\* pthread_create(3): a new thread under a free number, stored in h.
SysCreate(h) ==
  /\ created < MaxThreads
  /\ created' = created + 1
  /\ life' = [life EXCEPT ![created'] = "running"]
  /\ \E n \in Tids :
       /\ occupant[n] = None
       /\ occupant' = [occupant EXCEPT ![n] = created']
       /\ tid' = [tid EXCEPT ![h] = n]
  /\ UNCHANGED <<detached, cancelled>>

\* h.create(...): asserts !valid().
Create(h) ==
  /\ Ready /\ alive[h] /\ ~valid(h)
  /\ SysCreate(h)
  /\ UNCHANGED <<alive, raw, frame, outcome, program>>

\* h = Pthread::createinit(...), Jthread h(...): a new object.
CreateInit(h) ==
  /\ Ready /\ ~alive[h]
  /\ SysCreate(h)
  /\ alive' = [alive EXCEPT ![h] = TRUE]
  /\ UNCHANGED <<raw, frame, outcome, program>>

\* pthread_create(3) fails: what it leaves in _tid is undefined.
CreateFails(h) ==
  /\ "createfails" \in program.hazards
  /\ Ready /\ alive[h] /\ ~valid(h)
  /\ \E n \in Tids : tid' = [tid EXCEPT ![h] = n]
  /\ UNCHANGED <<threadVars, alive, raw, frame, outcome, program>>

\* A number that names no thread; one that names a thread no one can join:
\* pthread_join and pthread_detach return EINVAL.
Dangling(n) == n # INVALID /\ occupant[n] = None
Unjoinable(n) == n # INVALID /\ ~Dangling(n) /\ detached[occupant[n]]

Stops(how) ==
  /\ outcome' = how
  /\ UNCHANGED <<threadVars, alive, tid, raw, frame, program>>

\* cancel(), join() and detach() assert that there is no ESRCH and no EINVAL.
Undefined == Stops("fault") \/ Stops("abort")

\* pthread_cancel(3): a request; a thread that has ended ignores it.
SysCancel(n) ==
  /\ cancelled' = [cancelled EXCEPT ![occupant[n]] = TRUE]
  /\ UNCHANGED <<occupant, life, created, detached>>

\* pthread_join(3): blocks until the thread has ended, then frees its number.
SysJoin(n) ==
  /\ life[occupant[n]] = "ended"
  /\ life' = [life EXCEPT ![occupant[n]] = "gone"]
  /\ occupant' = [occupant EXCEPT ![n] = None]
  /\ UNCHANGED <<created, detached, cancelled>>

\* pthread_detach(3): a thread that has ended is freed at once.
SysDetach(n) ==
  LET c == occupant[n]
  IN  /\ detached' = [detached EXCEPT ![c] = TRUE]
      /\ IF life[c] = "ended"
         THEN /\ life' = [life EXCEPT ![c] = "gone"]
              /\ occupant' = [occupant EXCEPT ![n] = None]
         ELSE UNCHANGED <<life, occupant>>
      /\ UNCHANGED <<created, cancelled>>

\* h.cancel(): asserts valid().
Cancel(h) ==
  /\ Ready /\ alive[h] /\ valid(h)
  /\ IF Dangling(tid[h]) THEN Undefined
     ELSE SysCancel(tid[h]) /\ UNCHANGED <<alive, tid, raw, frame, outcome, program>>

\* Mutant: detach() empties the handle without detaching the thread.
Detach_forgets(h) ==
  /\ Ready /\ alive[h] /\ valid(h)
  /\ tid' = [tid EXCEPT ![h] = INVALID]
  /\ UNCHANGED <<threadVars, alive, raw, frame, outcome, program>>

\* Mutant: detach() leaves the number in the handle.
Detach_keepsTid(h) ==
  /\ Ready /\ alive[h] /\ valid(h)
  /\ IF Dangling(tid[h]) THEN Undefined
     ELSE IF Unjoinable(tid[h]) THEN Stops("abort")
     ELSE SysDetach(tid[h]) /\ UNCHANGED <<alive, tid, raw, frame, outcome, program>>

\* h.detach(): asserts valid(); empties _tid; asserts no EINVAL.
Detach(h) ==
  /\ Ready /\ alive[h] /\ valid(h)
  /\ IF Dangling(tid[h]) THEN Undefined
     ELSE IF Unjoinable(tid[h]) THEN Stops("abort")
     ELSE /\ SysDetach(tid[h])
          /\ tid' = [tid EXCEPT ![h] = INVALID]
          /\ UNCHANGED <<alive, raw, frame, outcome, program>>

\* Mutant: join() tries again on EINVAL.
Join_retriesEinval(h) ==
  /\ Ready /\ alive[h] /\ valid(h)
  /\ IF Dangling(tid[h]) THEN Undefined
     ELSE /\ frame' = Frame("join", h, NoHandle)
          /\ UNCHANGED <<threadVars, alive, tid, raw, outcome, program>>

\* h.join(): asserts valid(); waits; asserts no EINVAL; empties _tid after.
Join(h) ==
  /\ Ready /\ alive[h] /\ valid(h)
  /\ IF Dangling(tid[h]) THEN Undefined
     ELSE IF Unjoinable(tid[h]) THEN Stops("abort")
     ELSE /\ frame' = Frame("join", h, NoHandle)
          /\ UNCHANGED <<threadVars, alive, tid, raw, outcome, program>>

\* Mutant: join() leaves the number in the handle.
JoinReturns_keepsTid ==
  /\ frame.op = "join"
  /\ SysJoin(tid[frame.this])
  /\ frame' = Idle
  /\ UNCHANGED <<alive, tid, raw, outcome, program>>

JoinReturns ==
  /\ frame.op = "join"
  /\ SysJoin(tid[frame.this])
  /\ tid' = [tid EXCEPT ![frame.this] = INVALID]
  /\ frame' = Idle
  /\ UNCHANGED <<alive, raw, outcome, program>>

\* ~Pthread: always runs _stop(), on an empty handle too.
Destroy(h) ==
  /\ Ready /\ alive[h]
  /\ valid(h) \/ "destroyempty" \in program.hazards
  /\ frame' = Frame("stop", h, NoHandle)
  /\ UNCHANGED <<threadVars, alive, tid, raw, outcome, program>>

\* h = std::move(g): runs _stop() when the two handles are EQUAL, and else
\* overwrites whatever h names.
MoveAssign(h, g) ==
  /\ Ready /\ alive[h] /\ alive[g]
  /\ IF tid[h] = tid[g]
     THEN "equalassign" \in program.hazards /\ frame' = Frame("stop", h, g)
     ELSE /\ valid(h) => "overwrite" \in program.hazards
          /\ frame' = Frame("take", h, g)
  /\ UNCHANGED <<threadVars, alive, tid, raw, outcome, program>>

\* Mutant: the Cancel flag is ignored.
StopCancel_skips ==
  /\ frame.op = "stop" /\ outcome = "runs"
  /\ frame' = [frame EXCEPT !.op = "base"]
  /\ UNCHANGED <<threadVars, alive, tid, raw, outcome, program>>

\* _stop(), first part: trycancel(), whose cancel() asserts valid() and whose
\* own errors are ignored.
StopCancel ==
  LET n == tid[frame.this]
  IN  /\ frame.op = "stop" /\ outcome = "runs"
      /\ \/ program.cancels /\ n = INVALID /\ Stops("abort")
         \/ program.cancels /\ Dangling(n) /\ Stops("fault")
         \/ /\ \/ ~program.cancels /\ UNCHANGED threadVars
               \/ program.cancels /\ Dangling(n) /\ UNCHANGED threadVars
               \/ program.cancels /\ n # INVALID /\ ~Dangling(n) /\ SysCancel(n)
            /\ frame' = [frame EXCEPT !.op = "base"]
            /\ UNCHANGED <<alive, tid, raw, outcome, program>>

\* _stop(), second part: Detach and Join do not look at valid() and ignore all
\* errors.
StopBase ==
  LET n == tid[frame.this]
      named == n # INVALID /\ ~Dangling(n) /\ ~Unjoinable(n)
  IN  /\ frame.op = "base" /\ outcome = "runs"
      /\ \/ program.base = "terminate" /\ n # INVALID /\ Stops("terminate")
         \/ program.base \in {"detach", "join"} /\ Dangling(n) /\ Stops("fault")
         \/ /\ \/ program.base = "nothing" /\ UNCHANGED threadVars
               \/ program.base = "terminate" /\ n = INVALID /\ UNCHANGED threadVars
               \/ program.base \in {"detach", "join"} /\ ~named /\ UNCHANGED threadVars
               \/ program.base = "detach" /\ named /\ SysDetach(n)
               \/ program.base = "join" /\ named /\ SysJoin(n)
            /\ frame' = [frame EXCEPT !.op = "take"]
            /\ UNCHANGED <<alive, tid, raw, outcome, program>>

\* The end of a destructor; the end of a move assignment.
Take ==
  LET h == frame.this
      g == frame.other
  IN  /\ frame.op = "take"
      /\ IF g = NoHandle
         THEN /\ alive' = [alive EXCEPT ![h] = FALSE]
              /\ tid' = [tid EXCEPT ![h] = INVALID]
         ELSE /\ tid' = [tid EXCEPT ![h] = tid[g], ![g] = INVALID]
              /\ UNCHANGED alive
      /\ frame' = Idle
      /\ UNCHANGED <<threadVars, raw, outcome, program>>

\* A thread returns, or acts on a cancellation request.
Ends(c) ==
  /\ outcome = "runs" /\ life[c] = "running"
  /\ life' = [life EXCEPT ![c] = IF detached[c] THEN "gone" ELSE "ended"]
  /\ occupant' = [n \in Tids |-> IF detached[c] /\ occupant[n] = c THEN None
                                 ELSE occupant[n]]
  /\ UNCHANGED <<created, detached, cancelled, alive, tid, raw, frame, outcome, program>>

\* A thread that is asked to cancel does.
Obeys(c) == cancelled[c] /\ Ends(c)

Continue == JoinReturns \/ StopCancel \/ StopBase \/ Take

Next ==
  \/ \E h \in Handles :
       \/ Construct(h) \/ Reset(h) \/ Create(h) \/ CreateInit(h)
       \/ CreateFails(h) \/ Cancel(h) \/ Detach(h) \/ Join(h) \/ Destroy(h)
       \/ \E g \in Handles : MoveConstruct(h, g) \/ MoveAssign(h, g)
  \/ Continue
  \/ \E c \in Threads : Ends(c)

Spec == Init /\ [][Next]_vars

\* The program goes on once its join returns; a thread that is asked to cancel
\* reaches a cancellation point.  Nothing makes another thread end.
ContinueFair == WF_vars(Continue)
ObeyFair(c) == WF_vars(Obeys(c))

FairSpec == Spec /\ ContinueFair /\ \A c \in Threads : ObeyFair(c)
-----------------------------------------------------------------------------
\* Threads, handles and the call in progress keep their types, and outcome
\* tells how the program ended.
TypeOK ==
  /\ occupant \in [Tids -> {None} \cup Threads]
  /\ life \in [Threads -> {"unborn", "running", "ended", "gone"}]
  /\ created \in 0 .. MaxThreads
  /\ detached \in [Threads -> BOOLEAN] /\ cancelled \in [Threads -> BOOLEAN]
  /\ alive \in [Handles -> BOOLEAN]
  /\ tid \in [Handles -> {INVALID} \cup Tids]
  /\ raw \in {INVALID} \cup Tids
  /\ frame \in Frames
  /\ outcome \in {"runs", "abort", "fault", "terminate"}
  /\ program \in Programs

\* The places that hold a pthread_t: the bare number, the handles, but not the
\* one at the end of an assignment or a destruction, whose number is dropped.
Stopped(h) == frame.op = "take" /\ frame.this = h
Places == Handles \cup {NoHandle}
Num(p) == IF p = NoHandle THEN raw
          ELSE IF Stopped(p) THEN INVALID ELSE tid[p]

\* A joinable thread that exists has a handle, or the bare number of a
\* creation in progress, by which it can be joined.
NoThreadLost ==
  outcome = "runs" =>
    \A n \in Tids : occupant[n] # None /\ ~detached[occupant[n]]
      => \E p \in Places : Num(p) = n

\* A joinable thread has a handle, so that it can be joined, unless the
\* behavior is Nothing: only the move assignment to a handle that names a
\* thread, or to itself, and a failed creation forget one.
LostOnlyByAssignment ==
  /\ program.base # "nothing"
  /\ program.hazards \subseteq {"destroyempty"}
  => NoThreadLost

\* What a valid handle names is a joinable thread, so that join(), detach() and
\* cancel() work on memory that is still there and their ESRCH and EINVAL
\* assertions (Pthread.hxx:657-659, 688-689, 719) hold; assignments that
\* forget threads do not change that, a failed creation does.
StaleOnlyByFailedCreate ==
  "createfails" \notin program.hazards =>
    \A p \in Places : Num(p) # INVALID =>
      occupant[Num(p)] # None /\ ~detached[occupant[Num(p)]]

\* Neither an assertion fails nor freed memory is read, whatever the handles'
\* behavior, as long as no creation fails and no handle that cancels is stopped
\* when it is empty.
Survives ==
  /\ "createfails" \notin program.hazards
  /\ program.cancels => program.hazards \cap {"destroyempty", "equalassign"} = {}
  => outcome \in {"runs", "terminate"}

\* A stop ends, if the program survives it: with Join | Cancel, what _stop()
\* joins was asked to cancel before, even when the handle names a thread it did
\* not create.
StopEnds ==
  frame.op \in {"stop", "base"} /\ (program.base = "join" => program.cancels)
  ~> frame.op \notin {"stop", "base"} \/ outcome # "runs"

\* pthread_join(3) blocks the call in progress: thread c still runs.
WaitsFor(c) ==
  /\ frame.op = "join" \/ (frame.op = "base" /\ program.base = "join")
  /\ tid[frame.this] # INVALID /\ occupant[tid[frame.this]] = c
  /\ life[c] = "running" /\ ~detached[c]

\* The call in progress has a step to take: pthread_join(3) does not block.
MayContinue ==
  LET n == tid[frame.this]
      named == n # INVALID /\ ~Dangling(n) /\ ~Unjoinable(n)
  IN  /\ outcome = "runs" /\ frame.op \in {"join", "stop", "base", "take"}
      /\ frame.op = "join" => named
      /\ frame.op = "join" \/ (frame.op = "base" /\ program.base = "join" /\ named)
           => life[occupant[n]] = "ended"

\* The steps that fairness is about are possible where the system lets them be.
StepsEnabled ==
  /\ MayContinue => ENABLED <<Continue>>_vars
  /\ \A c \in Threads : outcome = "runs" /\ cancelled[c] /\ life[c] = "running"
       => ENABLED <<Obeys(c)>>_vars

\* A call is stuck on nothing but a joinable thread that still runs: join() is
\* never left on a number nobody will give back (Pthread.hxx:632-644).
CallsUnblocked ==
  outcome = "runs" /\ frame # Idle =>
    (\E c \in Threads : WaitsFor(c)) \/ MayContinue

\* Calls go on: _stop() does whatever cancelling, detaching and joining answer
\* (Pthread.hxx:129-145).
CallsGoOn == StepsEnabled /\ CallsUnblocked

\* The abstract promise: a thread is acquired by a creation and released by a
\* join or a detach.
AbstractStatus ==
  [c \in Threads |-> IF life[c] = "unborn" THEN "unused"
                     ELSE IF life[c] = "gone" \/ detached[c] THEN "released"
                     ELSE "held"]

AbstractHolders ==
  [c \in Threads |-> {p \in Places : /\ Num(p) # INVALID
                                     /\ occupant[Num(p)] = c /\ ~detached[c]}]

Promise == INSTANCE Ownership WITH
  Resources <- Threads, status <- AbstractStatus, holders <- AbstractHolders

\* Every thread has one handle from its creation until it is joined or
\* detached, once, in the programs of LostOnlyByAssignment.
Owns ==
  /\ Promise!Init
  /\ [][/\ program.base # "nothing"
        /\ program.hazards \subseteq {"destroyempty"}
        => [Promise!Next]_(Promise!vars)]_vars
=============================================================================
