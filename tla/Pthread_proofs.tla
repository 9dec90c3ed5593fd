--------------------------- MODULE Pthread_proofs ---------------------------
(***************************************************************************)
(* Proofs about Pthread, for any number of handles, threads and pthread_t. *)
(***************************************************************************)
EXTENDS Pthread, TLAPS

\* The pthread_t that name a thread someone has to join or detach.
Joinable == {n \in Tids : occupant[n] # None /\ ~detached[occupant[n]]}

\* The call in progress is about objects that exist.  A handle is stopped by an
\* assignment only when that is to an equal one, and empty only in programs that
\* do so; a thread that is waited for stays joinable.
Calls ==
  /\ frame.op = "idle" => frame = Idle
  /\ frame.op # "idle" => frame.this \in Handles /\ alive[frame.this]
  /\ frame.op = "join" => tid[frame.this] \in Joinable
  /\ frame.other = frame.this /\ frame.op # "idle" => "equalassign" \in program.hazards
  /\ frame.op \in {"stop", "base"} /\ frame.other # NoHandle =>
       "equalassign" \in program.hazards
  /\ frame.op = "stop" /\ tid[frame.this] = INVALID =>
       program.hazards \cap {"destroyempty", "equalassign"} # {}
  /\ \A h \in Handles : ~alive[h] => tid[h] = INVALID

\* A thread has one pthread_t from its creation until it is gone; no thread to
\* come was detached.
OneTid ==
  /\ \A c \in Threads :
       life[c] \in {"running", "ended"} <=> \E n \in Tids : occupant[n] = c
  /\ \A m, n \in Tids : occupant[m] # None /\ occupant[m] = occupant[n] => m = n
  /\ \A c \in Threads : c > created <=> life[c] = "unborn"
  /\ \A c \in Threads : life[c] = "unborn" => ~detached[c]

\* The places hold joinable threads, each its own, and all of them.
Named ==
  /\ \A p \in Places : Num(p) # INVALID => Num(p) \in Joinable
  /\ \A p, q \in Places : p # q /\ Num(p) # INVALID => Num(p) # Num(q)

Found == \A n \in Joinable : \E p \in Places : Num(p) = n

\* The programs in which no thread is lost.
Keeps == program.base # "nothing" /\ program.hazards \subseteq {"destroyempty"}

Holding ==
  /\ "createfails" \notin program.hazards => Named
  /\ Keeps => Found

IInv == TypeOK /\ Calls /\ OneTid /\ Holding /\ Survives
-----------------------------------------------------------------------------
\* The frames the calls build.
LEMMA FrameValues ==
  /\ Idle \in Frames /\ Idle.op = "idle" /\ Idle.this = NoHandle /\ Idle.other = NoHandle
  /\ \A h \in Handles, g \in Handles \cup {NoHandle}, op \in {"join", "stop", "take"} :
       /\ Frame(op, h, g) \in Frames
       /\ Frame(op, h, g).op = op /\ Frame(op, h, g).this = h /\ Frame(op, h, g).other = g
  /\ \A f \in Frames, op \in {"base", "take"} :
       /\ [f EXCEPT !.op = op] \in Frames
       /\ [f EXCEPT !.op = op].op = op
       /\ [f EXCEPT !.op = op].this = f.this /\ [f EXCEPT !.op = op].other = f.other
BY DEF Idle, Frame, Frames

\* The pthread library's table keeps its type, and tells apart what changes in
\* the joinable threads.
LEMMA Creates ==
  ASSUME TypeOK, OneTid, NEW h \in Handles, SysCreate(h)
  PROVE  /\ OneTid' /\ created' \in 0 .. MaxThreads
         /\ occupant' \in [Tids -> {None} \cup Threads]
         /\ life' \in [Threads -> {"unborn", "running", "ended", "gone"}]
         /\ \E n \in Tids : /\ n \notin Joinable /\ Joinable' = Joinable \cup {n}
                            /\ tid' = [tid EXCEPT ![h] = n]
<1> USE PthreadAssumption DEF Threads, Tids, None
<1>1. PICK n \in Tids : /\ occupant[n] = None
                        /\ occupant' = [occupant EXCEPT ![n] = created + 1]
                        /\ tid' = [tid EXCEPT ![h] = n]
  BY DEF SysCreate
<1>2. /\ created + 1 \in Threads /\ created' = created + 1 /\ created' \in 0 .. MaxThreads
      /\ created \in Nat
      /\ life' = [life EXCEPT ![created + 1] = "running"] /\ detached' = detached
  BY DEF SysCreate, TypeOK
<1>3. /\ occupant' \in [Tids -> {None} \cup Threads]
      /\ life' \in [Threads -> {"unborn", "running", "ended", "gone"}]
      /\ occupant \in [Tids -> {None} \cup Threads]
      /\ life \in [Threads -> {"unborn", "running", "ended", "gone"}]
  BY <1>1, <1>2 DEF TypeOK
<1>4. life[created + 1] = "unborn" /\ \A m \in Tids : occupant[m] # created + 1
  BY <1>2, <1>3 DEF OneTid
<1>5. OneTid'
  <2>1. ASSUME NEW c \in Threads
        PROVE  life'[c] \in {"running", "ended"} <=> \E m \in Tids : occupant'[m] = c
    <3>1. CASE c = created + 1
      BY <1>1, <1>2, <1>3, <3>1
    <3>2. CASE c # created + 1
      <4>1. life'[c] = life[c]
        BY <1>2, <1>3, <3>2
      <4>2. (\E m \in Tids : occupant'[m] = c) <=> \E m \in Tids : occupant[m] = c
        BY <1>1, <1>3, <3>2
      <4> QED
        BY <4>1, <4>2 DEF OneTid
    <3> QED
      BY <3>1, <3>2
  <2>2. \A m, k \in Tids : occupant'[m] # None /\ occupant'[m] = occupant'[k] => m = k
    BY <1>1, <1>3, <1>4 DEF OneTid
  <2>3. \A c \in Threads : /\ c > created' <=> life'[c] = "unborn"
                           /\ life'[c] = "unborn" => ~detached'[c]
    BY <1>2, <1>3 DEF OneTid
  <2> QED
    BY <2>1, <2>2, <2>3 DEF OneTid
<1>6. n \notin Joinable /\ Joinable' = Joinable \cup {n}
  BY <1>1, <1>2, <1>3, <1>4 DEF Joinable, OneTid
<1> QED
  BY <1>1, <1>2, <1>3, <1>5, <1>6

\* A number that is given back: joined, or detached.
LEMMA GivesBack ==
  ASSUME TypeOK, OneTid, NEW n \in Joinable, SysJoin(n) \/ SysDetach(n)
  PROVE  /\ OneTid' /\ created' = created /\ Joinable' = Joinable \ {n}
         /\ occupant' \in [Tids -> {None} \cup Threads]
         /\ life' \in [Threads -> {"unborn", "running", "ended", "gone"}]
         /\ detached' \in [Threads -> BOOLEAN] /\ cancelled' = cancelled
<1> USE DEF Joinable, None
<1>0. 0 \notin Threads
  BY PthreadAssumption DEF Threads
<1>1. PICK d \in Threads : d = occupant[n]
  BY DEF TypeOK
<1>2. /\ occupant \in [Tids -> {None} \cup Threads] /\ detached \in [Threads -> BOOLEAN]
      /\ life \in [Threads -> {"unborn", "running", "ended", "gone"}]
      /\ \A m \in Tids : occupant[m] = d => m = n
      /\ life[d] \in {"running", "ended"} /\ ~detached[d] /\ n \in Tids
  BY <1>0, <1>1 DEF TypeOK, OneTid
<1>3. CASE /\ life[d] = "ended" /\ life' = [life EXCEPT ![d] = "gone"]
           /\ occupant' = [occupant EXCEPT ![n] = None]
           /\ detached' \in {detached, [detached EXCEPT ![d] = TRUE]}
           /\ created' = created /\ cancelled' = cancelled
  <2>1. ASSUME NEW c \in Threads
        PROVE  life'[c] \in {"running", "ended"} <=> \E m \in Tids : occupant'[m] = c
    <3>1. CASE c = d
      BY <1>0, <1>2, <1>3, <3>1
    <3>2. CASE c # d
      <4>1. life'[c] = life[c]
        BY <1>2, <1>3, <3>2
      <4>2. (\E m \in Tids : occupant'[m] = c) <=> \E m \in Tids : occupant[m] = c
        BY <1>0, <1>1, <1>2, <1>3, <3>2
      <4> QED
        BY <4>1, <4>2 DEF OneTid
    <3> QED
      BY <3>1, <3>2
  <2>2. \A m, k \in Tids : occupant'[m] # None /\ occupant'[m] = occupant'[k] => m = k
    BY <1>2, <1>3 DEF OneTid
  <2>3. \A c \in Threads : /\ c > created' <=> life'[c] = "unborn"
                           /\ life'[c] = "unborn" => ~detached'[c]
    BY <1>2, <1>3 DEF OneTid
  <2>4. Joinable' = Joinable \ {n}
    BY <1>0, <1>1, <1>2, <1>3
  <2> QED
    BY <1>2, <1>3, <2>1, <2>2, <2>3, <2>4 DEF OneTid
<1>4. CASE /\ UNCHANGED <<life, occupant, created, cancelled>>
           /\ detached' = [detached EXCEPT ![d] = TRUE]
  <2>1. Joinable' = Joinable \ {n}
    BY <1>0, <1>1, <1>2, <1>4
  <2> QED
    BY <1>2, <1>4, <2>1 DEF OneTid
<1> QED
  BY <1>1, <1>3, <1>4 DEF SysJoin, SysDetach

\* A thread that ends, or is asked to, stays what it was to its handle.
LEMMA EndsAlone ==
  ASSUME TypeOK, OneTid, NEW c \in Threads, Ends(c)
  PROVE  /\ OneTid' /\ Joinable' = Joinable
         /\ occupant' \in [Tids -> {None} \cup Threads]
         /\ life' \in [Threads -> {"unborn", "running", "ended", "gone"}]
<1> USE DEF Joinable, None
<1>0. 0 \notin Threads
  BY PthreadAssumption DEF Threads
<1>1. /\ occupant \in [Tids -> {None} \cup Threads] /\ detached \in [Threads -> BOOLEAN]
      /\ life \in [Threads -> {"unborn", "running", "ended", "gone"}]
      /\ life[c] = "running" /\ UNCHANGED <<created, detached>>
      /\ life' = [life EXCEPT ![c] = IF detached[c] THEN "gone" ELSE "ended"]
      /\ occupant' = [n \in Tids |-> IF detached[c] /\ occupant[n] = c THEN None
                                     ELSE occupant[n]]
  BY DEF TypeOK, Ends
<1>2. ASSUME NEW d \in Threads
      PROVE  life'[d] \in {"running", "ended"} <=> \E m \in Tids : occupant'[m] = d
  <2>1. CASE d = c /\ detached[c]
    BY <1>0, <1>1, <2>1
  <2>2. CASE ~(d = c /\ detached[c])
    <3>1. life'[d] \in {"running", "ended"} <=> life[d] \in {"running", "ended"}
      BY <1>1, <2>2
    <3>2. (\E m \in Tids : occupant'[m] = d) <=> \E m \in Tids : occupant[m] = d
      BY <1>0, <1>1, <2>2
    <3> QED
      BY <3>1, <3>2 DEF OneTid
  <2> QED
    BY <2>1, <2>2
<1>3. \A m, k \in Tids : occupant'[m] # None /\ occupant'[m] = occupant'[k] => m = k
  BY <1>1 DEF OneTid
<1>4. \A d \in Threads : /\ d > created' <=> life'[d] = "unborn"
                         /\ life'[d] = "unborn" => ~detached'[d]
  BY <1>1 DEF OneTid
<1>5. Joinable' = Joinable
  BY <1>0, <1>1
<1> QED
  BY <1>1, <1>2, <1>3, <1>4, <1>5 DEF OneTid
-----------------------------------------------------------------------------
\* The steps that leave the threads and their numbers as they are.
LEMMA SameThreads ==
  ASSUME OneTid, UNCHANGED <<occupant, life, created, detached>>
  PROVE  OneTid' /\ Joinable' = Joinable
BY DEF OneTid, Joinable

\* The number that a call looks at names a thread unless the call says it does
\* not; a joinable one unless it is refused.
LEMMA NamesThread ==
  ASSUME TypeOK, NEW n \in {INVALID} \cup Tids, n # INVALID, ~Dangling(n)
  PROVE  occupant[n] \in Threads /\ (~Unjoinable(n) => n \in Joinable)
BY DEF TypeOK, Dangling, Unjoinable, Joinable

\* Types and the library's table are kept by the calls of the program.
LEMMA StepType == TypeOK /\ Calls /\ OneTid /\ [Next]_vars => TypeOK' /\ OneTid'
<1> SUFFICES ASSUME TypeOK, Calls, OneTid, [Next]_vars PROVE TypeOK' /\ OneTid'
  OBVIOUS
<1>1. ASSUME NEW h \in Handles,
             \/ Construct(h) \/ Reset(h) \/ CreateFails(h) \/ Join(h) \/ Destroy(h)
             \/ \E g \in Handles : MoveConstruct(h, g) \/ MoveAssign(h, g)
      PROVE  TypeOK' /\ OneTid'
  <2>1. OneTid' /\ UNCHANGED threadVars
    <3>1. UNCHANGED threadVars
      BY <1>1 DEF Construct, Reset, CreateFails, Join, Destroy, MoveConstruct,
                  MoveAssign, Undefined, Stops
    <3> QED
      BY <3>1, SameThreads DEF threadVars
  <2>2. /\ tid' \in [Handles -> {INVALID} \cup Tids] /\ raw' \in {INVALID} \cup Tids
        /\ alive' \in [Handles -> BOOLEAN]
    <3>1. CASE Construct(h)
      BY <3>1 DEF Construct, TypeOK
    <3>2. CASE Reset(h)
      BY <3>2 DEF Reset, TypeOK
    <3>3. CASE CreateFails(h)
      BY <3>3 DEF CreateFails, TypeOK
    <3>4. ASSUME NEW g \in Handles, MoveConstruct(h, g) \/ MoveAssign(h, g)
          PROVE  /\ tid' \in [Handles -> {INVALID} \cup Tids]
                 /\ raw' \in {INVALID} \cup Tids /\ alive' \in [Handles -> BOOLEAN]
      BY <3>4 DEF MoveConstruct, MoveAssign, TypeOK
    <3>5. CASE Join(h) \/ Destroy(h)
      BY <3>5 DEF Join, Destroy, Undefined, Stops, TypeOK
    <3> QED
      BY <1>1, <3>1, <3>2, <3>3, <3>4, <3>5
  <2>3. frame' \in Frames
    <3>1. ASSUME Join(h) \/ Destroy(h) PROVE frame' \in Frames
      BY <3>1, FrameValues DEF Join, Destroy, Undefined, Stops, TypeOK
    <3>2. ASSUME NEW g \in Handles, MoveAssign(h, g) PROVE frame' \in Frames
      BY <3>2, FrameValues DEF MoveAssign
    <3> QED
      BY <1>1, <3>1, <3>2 DEF Construct, Reset, CreateFails, MoveConstruct, TypeOK
  <2>4. /\ program' = program
        /\ outcome' \in {"runs", "abort", "fault", "terminate"}
    BY <1>1 DEF Construct, Reset, CreateFails, Join, Destroy,
                MoveConstruct, MoveAssign, Undefined, Stops, TypeOK
  <2> QED
    BY <2>1, <2>2, <2>3, <2>4 DEF TypeOK, threadVars
<1>2. ASSUME NEW h \in Handles, Create(h) \/ CreateInit(h) PROVE TypeOK' /\ OneTid'
  <2>1. SysCreate(h) /\ UNCHANGED <<raw, frame, outcome, program>>
        /\ alive' \in [Handles -> BOOLEAN]
    BY <1>2 DEF Create, CreateInit, TypeOK
  <2>2. UNCHANGED <<detached, cancelled>>
    BY <2>1 DEF SysCreate
  <2>3. tid' \in [Handles -> {INVALID} \cup Tids]
    BY <2>1, Creates DEF TypeOK
  <2> QED
    BY <2>1, <2>2, <2>3, Creates DEF TypeOK
<1>3. ASSUME NEW h \in Handles, Cancel(h) \/ Detach(h) PROVE TypeOK' /\ OneTid'
  <2>0. tid[h] \in {INVALID} \cup Tids /\ valid(h)
    BY <1>3 DEF Cancel, Detach, TypeOK
  <2>1. CASE Undefined \/ Stops("abort")
    <3>1. UNCHANGED <<threadVars, alive, tid, raw, frame, program>>
          /\ outcome' \in {"runs", "abort", "fault", "terminate"}
      BY <2>1 DEF Undefined, Stops
    <3> QED
      BY <3>1, SameThreads DEF threadVars, TypeOK
  <2>2. CASE /\ Cancel(h) /\ SysCancel(tid[h])
             /\ UNCHANGED <<alive, tid, raw, frame, outcome, program>>
    BY <2>2, SameThreads DEF SysCancel, TypeOK
  <2>3. CASE /\ ~Dangling(tid[h]) /\ ~Unjoinable(tid[h]) /\ SysDetach(tid[h])
             /\ tid' = [tid EXCEPT ![h] = INVALID]
             /\ UNCHANGED <<alive, raw, frame, outcome, program>>
    <3>1. tid[h] \in Joinable
      BY <2>0, <2>3, NamesThread DEF valid
    <3> QED
      BY <2>3, <3>1, GivesBack DEF TypeOK
  <2> QED
    BY <1>3, <2>1, <2>2, <2>3 DEF Cancel, Detach
<1>4. CASE JoinReturns
  <2>1. /\ tid[frame.this] \in Joinable /\ SysJoin(tid[frame.this])
        /\ tid' = [tid EXCEPT ![frame.this] = INVALID] /\ frame' = Idle
        /\ UNCHANGED <<alive, raw, outcome, program>>
    BY <1>4 DEF JoinReturns, Calls
  <2> QED
    BY <2>1, GivesBack, FrameValues DEF TypeOK
<1>5. CASE StopCancel \/ StopBase
  <2>0. PICK n \in {INVALID} \cup Tids : n = tid[frame.this]
    BY <1>5 DEF StopCancel, StopBase, Calls, TypeOK
  <2>1. CASE \E how \in {"abort", "fault", "terminate"} : Stops(how)
    BY <2>1, SameThreads DEF Stops, threadVars, TypeOK
  <2>2. ASSUME NEW op \in {"base", "take"}, frame' = [frame EXCEPT !.op = op],
               UNCHANGED <<alive, tid, raw, outcome, program>>,
               \/ UNCHANGED threadVars \/ SysCancel(n)
               \/ /\ n # INVALID /\ ~Dangling(n) /\ ~Unjoinable(n)
                  /\ SysDetach(n) \/ SysJoin(n)
        PROVE  TypeOK' /\ OneTid'
    <3>1. frame' \in Frames
      BY <2>2, FrameValues DEF TypeOK
    <3>2. CASE UNCHANGED threadVars \/ SysCancel(n)
      BY <2>2, <3>1, <3>2, SameThreads DEF threadVars, SysCancel, TypeOK
    <3>3. CASE /\ n # INVALID /\ ~Dangling(n) /\ ~Unjoinable(n)
               /\ SysDetach(n) \/ SysJoin(n)
      <4>1. n \in Joinable
        BY <3>3, NamesThread
      <4> QED
        BY <2>2, <3>1, <3>3, <4>1, GivesBack DEF TypeOK
    <3> QED
      BY <2>2, <3>2, <3>3
  <2>3. CASE StopCancel
    BY <2>0, <2>1, <2>2, <2>3 DEF StopCancel
  <2>4. CASE StopBase
    BY <2>0, <2>1, <2>2, <2>4 DEF StopBase
  <2> QED
    BY <1>5, <2>3, <2>4
<1>6. CASE Take
  <2>1. UNCHANGED <<threadVars, raw, outcome, program>> /\ frame' = Idle
        /\ frame.other \in Handles \cup {NoHandle}
    BY <1>6 DEF Take, TypeOK, Frames
  <2>2. tid' \in [Handles -> {INVALID} \cup Tids] /\ alive' \in [Handles -> BOOLEAN]
    BY <1>6, <2>1 DEF Take, TypeOK
  <2> QED
    BY <2>1, <2>2, SameThreads, FrameValues DEF TypeOK, threadVars
<1>7. ASSUME NEW c \in Threads, Ends(c) PROVE TypeOK' /\ OneTid'
  <2>1. UNCHANGED <<created, detached, cancelled, alive, tid, raw, frame, outcome, program>>
    BY <1>7 DEF Ends
  <2> QED
    BY <1>7, <2>1, EndsAlone DEF TypeOK
<1>8. CASE UNCHANGED vars
  BY <1>8, SameThreads DEF vars, threadVars, TypeOK
<1> QED
  BY <1>1, <1>2, <1>3, <1>4, <1>5, <1>6, <1>7, <1>8 DEF Next, Continue
-----------------------------------------------------------------------------
\* Two places may exchange what they hold; none changes when they are one.
LEMMA Exchange ==
  ASSUME Holding, program' = program, Joinable' = Joinable,
         NEW p \in Places, NEW q \in Places, Num(p)' = Num(q), Num(q)' = Num(p),
         \A r \in Places \ {p, q} : Num(r)' = Num(r)
  PROVE  Holding'
<1>1. Named => Named'
  BY DEF Named, Places, INVALID
<1>2. Found => Found'
  <2>1. ASSUME Found, NEW n \in Joinable' PROVE \E r \in Places : Num(r)' = n
    <3>1. PICK r \in Places : Num(r) = n
      BY <2>1 DEF Found
    <3> QED
      BY <3>1
  <2> QED
    BY <2>1 DEF Found, Places
<1> QED
  BY <1>1, <1>2 DEF Holding, Keeps

\* A place may drop the number it holds when that is given back, or in a program
\* that may lose threads.
LEMMA Drop ==
  ASSUME Holding, program' = program, NEW p \in Places, Num(p)' = INVALID,
         \A r \in Places \ {p} : Num(r)' = Num(r),
         \/ Joinable' = Joinable \ {Num(p)}
         \/ Joinable' = Joinable /\ (~Keeps \/ Num(p) \notin Joinable)
  PROVE  Holding'
<1>1. Named => Named'
  BY DEF Named, Places, INVALID
<1>2. Keeps /\ Found => Found'
  <2>1. ASSUME Keeps, Found, NEW n \in Joinable' PROVE \E r \in Places : Num(r)' = n
    <3>1. n \in Joinable /\ n # Num(p)
      BY <2>1
    <3>2. PICK r \in Places : Num(r) = n
      BY <2>1, <3>1 DEF Found
    <3> QED
      BY <3>1, <3>2
  <2> QED
    BY <2>1 DEF Found, Places
<1> QED
  BY <1>1, <1>2 DEF Holding, Keeps

\* A place that holds nothing gets the number of a new thread.
LEMMA Gain ==
  ASSUME Holding, program' = program, NEW p \in Places, NEW n \in Tids,
         n \notin Joinable, Joinable' = Joinable \cup {n},
         Num(p) = INVALID, Num(p)' = n,
         \A r \in Places \ {p} : Num(r)' = Num(r)
  PROVE  Holding'
<1>1. Named => Named'
  <2>1. ASSUME Named, NEW r \in Places \ {p}, Num(r) # INVALID PROVE Num(r) # n
    BY <2>1 DEF Named
  <2> QED
    BY <2>1 DEF Named, Places, INVALID
<1>2. Found => Found'
  <2>1. ASSUME Found, NEW m \in Joinable' PROVE \E r \in Places : Num(r)' = m
    <3>1. CASE m = n
      BY <3>1
    <3>2. CASE m \in Joinable
      <4>1. PICK r \in Places : Num(r) = m
        BY <2>1, <3>2 DEF Found
      <4>2. m # INVALID
        BY <3>2 DEF Joinable, Tids, INVALID
      <4> QED
        BY <4>1, <4>2
    <3> QED
      BY <3>1, <3>2
  <2> QED
    BY <2>1 DEF Found, Places
<1> QED
  BY <1>1, <1>2 DEF Holding, Keeps
-----------------------------------------------------------------------------
\* The call in progress stays well formed.
LEMMA StepCalls == TypeOK /\ Calls /\ OneTid /\ Next => Calls'
<1> SUFFICES ASSUME TypeOK, Calls, OneTid, Next PROVE Calls'
  OBVIOUS
<1> USE PthreadAssumption
<1>1. ASSUME NEW h \in Handles, Construct(h) \/ Reset(h) \/ CreateFails(h)
      PROVE  Calls'
  <2>1. Ready /\ frame' = frame /\ program' = program
    BY <1>1 DEF Construct, Reset, CreateFails
  <2>2. \A g \in Handles : ~alive'[g] => tid'[g] = INVALID
    BY <1>1 DEF Construct, Reset, CreateFails, Calls, TypeOK
  <2> QED
    BY <2>1, <2>2, FrameValues DEF Calls, Ready
<1>2. ASSUME NEW h \in Handles, Create(h) \/ CreateInit(h) PROVE Calls'
  <2>1. Ready /\ frame' = frame /\ program' = program /\ SysCreate(h)
        /\ alive' \in {alive, [alive EXCEPT ![h] = TRUE]}
        /\ (alive[h] \/ alive'[h])
    BY <1>2 DEF Create, CreateInit, TypeOK
  <2>2. \A g \in Handles : ~alive'[g] => tid'[g] = INVALID
    BY <2>1, Creates DEF Calls, TypeOK
  <2> QED
    BY <2>1, <2>2, FrameValues DEF Calls, Ready
<1>3. ASSUME NEW h \in Handles, Cancel(h) \/ Detach(h) PROVE Calls'
  <2>1. Ready /\ frame' = frame /\ program' = program /\ alive' = alive
        /\ tid' \in {tid, [tid EXCEPT ![h] = INVALID]}
    BY <1>3 DEF Cancel, Detach, Undefined, Stops, TypeOK
  <2> QED
    BY <2>1, FrameValues DEF Calls, Ready, TypeOK
<1>4. ASSUME NEW h \in Handles, Join(h) PROVE Calls'
  <2>1. CASE Undefined \/ Stops("abort")
    BY <2>1 DEF Undefined, Stops, Calls, threadVars, Joinable
  <2>2. CASE /\ frame' = Frame("join", h, NoHandle)
             /\ UNCHANGED <<threadVars, alive, tid, raw, outcome, program>>
             /\ ~Dangling(tid[h]) /\ ~Unjoinable(tid[h])
    <3>1. tid[h] \in Joinable
      BY <1>4, <2>2, NamesThread DEF Join, valid, TypeOK
    <3> QED
      BY <1>4, <2>2, <3>1, FrameValues DEF Join, Calls, threadVars, Joinable
  <2> QED
    BY <1>4, <2>1, <2>2 DEF Join
<1>5. ASSUME NEW h \in Handles, Destroy(h) PROVE Calls'
  <2>1. /\ frame' = Frame("stop", h, NoHandle)
        /\ UNCHANGED <<threadVars, alive, tid, program>>
        /\ alive[h] /\ (tid[h] = INVALID => "destroyempty" \in program.hazards)
    BY <1>5 DEF Destroy, valid
  <2>2. /\ frame'.op = "stop" /\ frame'.this = h /\ frame'.other = NoHandle
    BY <2>1, FrameValues
  <2> QED
    BY <2>1, <2>2 DEF Calls
<1>6. ASSUME NEW h \in Handles, NEW g \in Handles, MoveAssign(h, g) PROVE Calls'
  <2>1. /\ UNCHANGED <<threadVars, alive, tid, program>> /\ alive[h]
        /\ \/ /\ frame' = Frame("stop", h, g) /\ "equalassign" \in program.hazards
           \/ frame' = Frame("take", h, g) /\ tid[h] # tid[g]
    BY <1>6 DEF MoveAssign
  <2>2. /\ frame'.op \in {"stop", "take"} /\ frame'.this = h /\ frame'.other = g
        /\ frame'.op = "stop" => "equalassign" \in program.hazards
        /\ frame'.op = "take" => tid[h] # tid[g]
    BY <2>1, FrameValues
  <2> QED
    BY <2>1, <2>2 DEF Calls
<1>7. ASSUME NEW h \in Handles, NEW g \in Handles, MoveConstruct(h, g) PROVE Calls'
  BY <1>7, FrameValues DEF MoveConstruct, Calls, Ready, TypeOK
<1>8. CASE JoinReturns
  BY <1>8, FrameValues DEF JoinReturns, Calls, TypeOK
<1>9. CASE StopCancel \/ StopBase
  <2>1. UNCHANGED <<alive, tid, program>>
    BY <1>9 DEF StopCancel, StopBase, Stops
  <2>2. CASE UNCHANGED frame
    BY <1>9, <2>1, <2>2 DEF Calls, StopCancel, StopBase
  <2>3. ASSUME NEW op \in {"base", "take"}, frame' = [frame EXCEPT !.op = op]
        PROVE  Calls'
    <3>1. frame'.op = op /\ frame'.this = frame.this /\ frame'.other = frame.other
      BY <2>3, FrameValues DEF TypeOK
    <3>2. op = "base" => frame.op \in {"stop", "base"}
      BY <1>9, <2>3, <3>1 DEF StopCancel, StopBase, Stops
    <3> QED
      BY <1>9, <2>1, <3>1, <3>2 DEF Calls, StopCancel, StopBase
  <2> QED
    BY <1>9, <2>2, <2>3 DEF StopCancel, StopBase, Stops
<1>10. CASE Take
  <2>1. frame' = Idle /\ UNCHANGED program /\ frame.this \in Handles
        /\ frame.other \in Handles \cup {NoHandle} /\ alive[frame.this]
    BY <1>10 DEF Take, TypeOK, Frames, Calls
  <2>2. \A h \in Handles : ~alive'[h] => tid'[h] = INVALID
    BY <1>10, <2>1 DEF Take, Calls, TypeOK
  <2> QED
    BY <2>1, <2>2, FrameValues DEF Calls
<1>11. ASSUME NEW c \in Threads, Ends(c) PROVE Calls'
  <2>1. Joinable' = Joinable /\ UNCHANGED <<alive, tid, frame, program>>
    BY <1>11, EndsAlone DEF Ends
  <2> QED
    BY <2>1 DEF Calls
<1> QED
  BY <1>1, <1>2, <1>3, <1>4, <1>5, <1>6, <1>7, <1>8, <1>9, <1>10, <1>11
  DEF Next, Continue
-----------------------------------------------------------------------------
\* Nothing changes in what the places hold.
LEMMA Still ==
  ASSUME Holding, program' = program, Joinable' = Joinable,
         \A p \in Places : Num(p)' = Num(p)
  PROVE  Holding'
<1>1. NoHandle \in Places
  BY DEF Places
<1> QED
  BY <1>1, Exchange

\* What a place holds outside of the end of an assignment or a destruction.
LEMMA Nums ==
  /\ Handles \subseteq Places /\ NoHandle \in Places /\ NoHandle \notin Handles
  /\ \A p \in Places : p # NoHandle => p \in Handles
  /\ Num(NoHandle) = raw
  /\ frame.op # "take" => \A h \in Handles : Num(h) = tid[h]
  /\ \A h \in Handles : h # frame.this => Num(h) = tid[h]
  /\ frame.op = "take" /\ frame.this \in Handles => Num(frame.this) = INVALID
  /\ INVALID \notin Joinable
BY PthreadAssumption DEF Places, Num, Stopped, Joinable, Tids, INVALID

\* The same of the next state.
LEMMA NumsNext ==
  /\ Num(NoHandle)' = raw'
  /\ frame'.op # "take" => \A h \in Handles : Num(h)' = tid'[h]
  /\ \A h \in Handles : h # frame'.this => Num(h)' = tid'[h]
  /\ \A h \in Handles : frame'.op = "take" /\ frame'.this = h => Num(h)' = INVALID
BY PthreadAssumption DEF Places, Num, Stopped

\* What the places hold changes with the numbers given out and back.
LEMMA StepHolds == IInv /\ Next => Holding'
<1> SUFFICES ASSUME IInv, Next PROVE Holding'
  OBVIOUS
<1>0. /\ TypeOK /\ Calls /\ OneTid /\ Holding
      /\ Ready => frame.op = "idle"
  BY DEF IInv, Ready, Idle
<1>1. ASSUME NEW h \in Handles, Construct(h) PROVE Holding'
  <2>1. Ready /\ frame' = frame /\ UNCHANGED <<threadVars, raw, program>>
        /\ \A g \in Handles : tid'[g] = tid[g]
    BY <1>0, <1>1 DEF Construct, Calls, TypeOK
  <2>2. \A p \in Places : Num(p)' = Num(p)
    BY <1>0, <2>1, Nums, NumsNext
  <2> QED
    BY <1>0, <2>1, <2>2, Still, SameThreads DEF threadVars
<1>2. ASSUME NEW h \in Handles, NEW g \in Handles, MoveConstruct(h, g) PROVE Holding'
  <2>1. /\ Ready /\ frame' = frame /\ UNCHANGED <<threadVars, raw, program>> /\ h # g
        /\ tid[h] = INVALID /\ tid'[h] = tid[g] /\ tid'[g] = INVALID
        /\ \A k \in Handles \ {h, g} : tid'[k] = tid[k]
    BY <1>0, <1>2 DEF MoveConstruct, Calls, TypeOK
  <2>2. /\ Num(h)' = Num(g) /\ Num(g)' = Num(h)
        /\ \A p \in Places \ {h, g} : Num(p)' = Num(p)
    BY <1>0, <2>1, Nums, NumsNext
  <2> QED
    BY <1>0, <2>1, <2>2, Exchange, Nums, SameThreads DEF threadVars
<1>3. ASSUME NEW h \in Handles, Reset(h) PROVE Holding'
  <2>1. /\ Ready /\ frame' = frame /\ UNCHANGED <<threadVars, program>>
        /\ tid'[h] = raw /\ raw' = tid[h] /\ \A k \in Handles \ {h} : tid'[k] = tid[k]
    BY <1>0, <1>3 DEF Reset, TypeOK
  <2>2. /\ Num(h)' = Num(NoHandle) /\ Num(NoHandle)' = Num(h)
        /\ \A p \in Places \ {h, NoHandle} : Num(p)' = Num(p)
    BY <1>0, <2>1, Nums, NumsNext
  <2> QED
    BY <1>0, <2>1, <2>2, Exchange, Nums, SameThreads DEF threadVars
<1>4. ASSUME NEW h \in Handles, Create(h) \/ CreateInit(h) PROVE Holding'
  <2>1. /\ Ready /\ frame' = frame /\ raw' = raw /\ program' = program
        /\ SysCreate(h) /\ tid[h] = INVALID
    BY <1>0, <1>4 DEF Create, CreateInit, valid, Calls
  <2>2. PICK n \in Tids : /\ n \notin Joinable /\ Joinable' = Joinable \cup {n}
                          /\ tid' = [tid EXCEPT ![h] = n]
    BY <1>0, <2>1, Creates
  <2>3. /\ Num(h) = INVALID /\ Num(h)' = n
        /\ \A p \in Places \ {h} : Num(p)' = Num(p)
    BY <1>0, <2>1, <2>2, Nums, NumsNext DEF TypeOK
  <2> QED
    BY <1>0, <2>1, <2>2, <2>3, Gain, Nums
<1>5. ASSUME NEW h \in Handles, CreateFails(h) PROVE Holding'
  BY <1>5 DEF CreateFails, Holding, Keeps
<1>6. ASSUME NEW h \in Handles, Cancel(h) PROVE Holding'
  <2>1. UNCHANGED <<occupant, life, created, detached, tid, raw, frame, program>>
    BY <1>6 DEF Cancel, Undefined, Stops, SysCancel, threadVars
  <2>2. \A p \in Places : Num(p)' = Num(p)
    BY <2>1 DEF Num, Stopped
  <2> QED
    BY <1>0, <2>1, <2>2, Still, SameThreads
<1>7. ASSUME NEW h \in Handles, Detach(h) PROVE Holding'
  <2>1. CASE Undefined \/ Stops("abort")
    <3>1. UNCHANGED <<threadVars, tid, raw, frame, program>>
      BY <2>1 DEF Undefined, Stops
    <3>2. \A p \in Places : Num(p)' = Num(p)
      BY <3>1 DEF Num, Stopped
    <3> QED
      BY <1>0, <3>1, <3>2, Still, SameThreads DEF threadVars
  <2>2. CASE /\ ~Dangling(tid[h]) /\ ~Unjoinable(tid[h]) /\ SysDetach(tid[h])
             /\ tid' = [tid EXCEPT ![h] = INVALID]
             /\ UNCHANGED <<raw, frame, program>>
    <3>1. tid[h] \in Joinable /\ Ready
      BY <1>0, <1>7, <2>2, NamesThread DEF Detach, valid, TypeOK
    <3>2. Joinable' = Joinable \ {tid[h]}
      BY <1>0, <2>2, <3>1, GivesBack
    <3>3. /\ Num(h) = tid[h] /\ Num(h)' = INVALID
          /\ \A p \in Places \ {h} : Num(p)' = Num(p)
      BY <1>0, <2>2, <3>1, Nums, NumsNext DEF TypeOK
    <3> QED
      BY <1>0, <2>2, <3>2, <3>3, Drop, Nums
  <2> QED
    BY <1>7, <2>1, <2>2 DEF Detach
<1>8. ASSUME NEW h \in Handles, Join(h) \/ Destroy(h) PROVE Holding'
  <2>1. /\ Ready /\ UNCHANGED <<threadVars, tid, raw, program>>
        /\ frame' \in {frame, Frame("join", h, NoHandle), Frame("stop", h, NoHandle)}
    BY <1>8 DEF Join, Destroy, Undefined, Stops
  <2>2. frame'.op # "take"
    BY <1>0, <2>1, FrameValues
  <2>3. \A p \in Places : Num(p)' = Num(p)
    BY <1>0, <2>1, <2>2, Nums, NumsNext
  <2> QED
    BY <1>0, <2>1, <2>3, Still, SameThreads DEF threadVars
<1>9. ASSUME NEW h \in Handles, NEW g \in Handles, MoveAssign(h, g) PROVE Holding'
  <2>1. Ready /\ UNCHANGED <<threadVars, tid, raw, program>>
    BY <1>9 DEF MoveAssign
  <2>2. Joinable' = Joinable
    BY <1>0, <2>1, SameThreads DEF threadVars
  <2>3. CASE frame' = Frame("stop", h, g)
    <3>1. frame'.op # "take"
      BY <2>3, FrameValues
    <3>2. \A p \in Places : Num(p)' = Num(p)
      BY <1>0, <2>1, <3>1, Nums, NumsNext
    <3> QED
      BY <1>0, <2>1, <2>2, <3>2, Still
  <2>4. CASE /\ frame' = Frame("take", h, g)
             /\ valid(h) => "overwrite" \in program.hazards
    <3>1. frame'.op = "take" /\ frame'.this = h
      BY <2>4, FrameValues
    <3>2. /\ Num(h) = tid[h] /\ Num(h)' = INVALID
          /\ \A p \in Places \ {h} : Num(p)' = Num(p)
      BY <1>0, <2>1, <3>1, Nums, NumsNext
    <3>3. ~Keeps \/ Num(h) \notin Joinable
      BY <2>4, <3>2, Nums DEF Keeps, valid
    <3> QED
      BY <1>0, <2>1, <2>2, <3>2, <3>3, Drop, Nums
  <2> QED
    BY <1>9, <2>3, <2>4 DEF MoveAssign
<1>10. CASE JoinReturns
  <2>1. PICK h \in Handles : h = frame.this /\ tid[h] \in Joinable
    BY <1>0, <1>10 DEF JoinReturns, Calls
  <2>2. /\ frame.op = "join" /\ frame' = Idle /\ tid' = [tid EXCEPT ![h] = INVALID]
        /\ SysJoin(tid[h]) /\ UNCHANGED <<raw, program>>
    BY <1>10, <2>1 DEF JoinReturns
  <2>3. Joinable' = Joinable \ {tid[h]} /\ frame'.op # "take"
    BY <1>0, <2>1, <2>2, GivesBack, FrameValues
  <2>4. /\ Num(h) = tid[h] /\ Num(h)' = INVALID
        /\ \A p \in Places \ {h} : Num(p)' = Num(p)
    BY <1>0, <2>2, <2>3, Nums, NumsNext DEF TypeOK
  <2> QED
    BY <1>0, <2>2, <2>3, <2>4, Drop, Nums
<1>11. CASE StopCancel
  <2>1. /\ UNCHANGED <<occupant, life, created, detached, tid, raw, program>>
        /\ frame.op = "stop" /\ frame' \in {frame, [frame EXCEPT !.op = "base"]}
    BY <1>11 DEF StopCancel, Stops, SysCancel, threadVars
  <2>2. frame'.op # "take"
    BY <1>0, <2>1, FrameValues DEF TypeOK
  <2>3. \A p \in Places : Num(p)' = Num(p)
    BY <2>1, <2>2, Nums, NumsNext
  <2> QED
    BY <1>0, <2>1, <2>3, Still, SameThreads
<1>12. CASE StopBase
  <2>0. PICK h \in Handles : h = frame.this
    BY <1>0, <1>12 DEF StopBase, Calls
  <2>1. frame.op = "base" /\ UNCHANGED <<tid, raw, program>> /\ Num(h) = tid[h]
    BY <1>12, Nums DEF StopBase, Stops
  <2>2. CASE UNCHANGED <<threadVars, frame>>
    <3>1. \A p \in Places : Num(p)' = Num(p)
      BY <2>1, <2>2 DEF Num, Stopped
    <3> QED
      BY <1>0, <2>1, <2>2, <3>1, Still, SameThreads DEF threadVars
  <2>3. CASE frame' = [frame EXCEPT !.op = "take"]
    <3>1. frame'.op = "take" /\ frame'.this = h
      BY <1>0, <2>0, <2>3, FrameValues DEF TypeOK
    <3>2. /\ Num(h)' = INVALID /\ \A p \in Places \ {h} : Num(p)' = Num(p)
      BY <2>0, <2>1, <3>1, Nums, NumsNext
    <3>3. \/ Joinable' = Joinable \ {tid[h]}
          \/ Joinable' = Joinable /\ (~Keeps \/ tid[h] \notin Joinable)
      <4>1. ASSUME UNCHANGED threadVars,
                   \/ program.base = "nothing" \/ tid[h] = INVALID
                   \/ Dangling(tid[h]) \/ Unjoinable(tid[h])
            PROVE  Joinable' = Joinable /\ (~Keeps \/ tid[h] \notin Joinable)
        BY <1>0, <4>1, SameThreads, Nums
        DEF threadVars, Keeps, Dangling, Unjoinable, Joinable
      <4>2. ASSUME tid[h] # INVALID, ~Dangling(tid[h]), ~Unjoinable(tid[h]),
                   SysDetach(tid[h]) \/ SysJoin(tid[h])
            PROVE  Joinable' = Joinable \ {tid[h]}
        <5>1. tid[h] \in Joinable
          BY <1>0, <4>2, NamesThread DEF TypeOK
        <5> QED
          BY <1>0, <4>2, <5>1, GivesBack
      <4>3. ~Stops("terminate") /\ ~Stops("fault")
        BY <2>1, <2>3, <3>1 DEF Stops
      <4> QED
        BY <1>12, <2>0, <4>1, <4>2, <4>3 DEF StopBase
    <3> QED
      BY <1>0, <2>1, <3>2, <3>3, Drop, Nums
  <2> QED
    BY <1>12, <2>2, <2>3 DEF StopBase, Stops
<1>13. CASE Take
  <2>0. PICK h \in Handles, g \in Handles \cup {NoHandle} :
          h = frame.this /\ g = frame.other
    BY <1>0, <1>13 DEF Take, Calls, TypeOK, Frames
  <2>1. /\ frame.op = "take" /\ frame' = Idle /\ UNCHANGED <<threadVars, raw, program>>
        /\ tid' = IF g = NoHandle THEN [tid EXCEPT ![h] = INVALID]
                  ELSE [tid EXCEPT ![h] = tid[g], ![g] = INVALID]
    BY <1>13, <2>0 DEF Take
  <2>2. frame'.op # "take" /\ Num(h) = INVALID /\ Joinable' = Joinable
    BY <1>0, <2>0, <2>1, FrameValues, Nums, SameThreads DEF threadVars
  <2>3. /\ \A k \in Handles : Num(k)' = tid'[k]
        /\ \A k \in Handles \ {h} : Num(k) = tid[k]
        /\ Num(NoHandle)' = Num(NoHandle)
    BY <2>0, <2>1, <2>2, Nums, NumsNext
  <2>4. CASE g = NoHandle \/ g = h
    <3>1. tid'[h] = INVALID /\ \A k \in Handles \ {h} : tid'[k] = tid[k]
      <4>1. tid \in [Handles -> {INVALID} \cup Tids]
        BY <1>0 DEF TypeOK
      <4>2. CASE g = NoHandle
        BY <2>1, <4>1, <4>2
      <4>3. CASE g = h
        BY <2>1, <4>1, <4>3, PthreadAssumption
      <4> QED
        BY <2>4, <4>2, <4>3
    <3>2. \A p \in Places : Num(p)' = Num(p)
      BY <2>2, <2>3, <3>1, Nums
    <3> QED
      BY <1>0, <2>1, <2>2, <3>2, Still
  <2>5. CASE g \in Handles \ {h}
    <3>1. /\ tid'[h] = tid[g] /\ tid'[g] = INVALID
          /\ \A k \in Handles \ {h, g} : tid'[k] = tid[k]
      <4>1. tid \in [Handles -> {INVALID} \cup Tids] /\ g # NoHandle
        BY <1>0, <2>5, Nums DEF TypeOK
      <4> QED
        BY <2>1, <2>5, <4>1
    <3>2. /\ Num(h)' = Num(g) /\ Num(g)' = Num(h)
          /\ \A p \in Places \ {h, g} : Num(p)' = Num(p)
      BY <2>2, <2>3, <2>5, <3>1, Nums
    <3> QED
      BY <1>0, <2>1, <2>2, <2>5, <3>2, Exchange, Nums
  <2> QED
    BY <2>0, <2>4, <2>5
<1>14. ASSUME NEW c \in Threads, Ends(c) PROVE Holding'
  <2>1. Joinable' = Joinable /\ UNCHANGED <<tid, raw, frame, program>>
    BY <1>0, <1>14, EndsAlone DEF Ends
  <2>2. \A p \in Places : Num(p)' = Num(p)
    BY <2>1 DEF Num, Stopped
  <2> QED
    BY <1>0, <2>1, <2>2, Still
<1> QED
  BY <1>1, <1>2, <1>3, <1>4, <1>5, <1>6, <1>7, <1>8, <1>9, <1>10, <1>11, <1>12,
     <1>13, <1>14 DEF Next, Continue
-----------------------------------------------------------------------------
\* No call meets a number that names nothing, and no handle that cancels is
\* stopped when it is empty, in the programs Survives speaks of.
LEMMA StepSurvives == IInv /\ Next => Survives'
<1> SUFFICES ASSUME IInv, Next,
                    "createfails" \notin program'.hazards,
                    program'.cancels =>
                      program'.hazards \cap {"destroyempty", "equalassign"} = {}
             PROVE  outcome' \in {"runs", "terminate"}
  BY DEF Survives
<1>0. program' = program /\ Named /\ outcome \in {"runs", "terminate"} /\ Calls
      /\ TypeOK
  <2>1. program' = program
    BY DEF Next, Continue, Construct, Reset, Create, CreateInit, CreateFails, Cancel,
           Detach, Join, Destroy, MoveConstruct, MoveAssign, JoinReturns, StopCancel,
           StopBase, Take, Ends, Undefined, Stops
  <2> QED
    BY <2>1 DEF IInv, Survives, Holding
<1>1. ASSUME NEW h \in Handles, Num(h) = tid[h], tid[h] # INVALID
      PROVE  ~Dangling(tid[h]) /\ ~Unjoinable(tid[h])
  BY <1>0, <1>1, Nums DEF Named, Joinable, Dangling, Unjoinable
<1>2. ASSUME NEW h \in Handles, Cancel(h) \/ Detach(h) \/ Join(h)
      PROVE  outcome' \in {"runs", "terminate"}
  <2>1. Num(h) = tid[h] /\ tid[h] # INVALID
    BY <1>2, Nums DEF Cancel, Detach, Join, Ready, Idle, valid
  <2> QED
    BY <1>0, <1>1, <1>2, <2>1 DEF Cancel, Detach, Join
<1>3. CASE StopCancel
  <2>1. PICK h \in Handles : h = frame.this
    BY <1>0, <1>3 DEF StopCancel, Calls
  <2>2. Num(h) = tid[h]
    BY <1>3, Nums DEF StopCancel
  <2>3. program.cancels => tid[h] # INVALID
    BY <1>0, <1>3, <2>1 DEF StopCancel, Calls
  <2> QED
    BY <1>0, <1>1, <1>3, <2>1, <2>2, <2>3 DEF StopCancel
<1>4. CASE StopBase
  <2>1. PICK h \in Handles : h = frame.this
    BY <1>0, <1>4 DEF StopBase, Calls
  <2>2. Num(h) = tid[h]
    BY <1>4, Nums DEF StopBase
  <2>3. ~Dangling(tid[h])
    BY <1>1, <2>2 DEF Dangling
  <2> QED
    BY <1>0, <1>4, <2>1, <2>3 DEF StopBase, Stops
<1>5. ASSUME outcome' = outcome PROVE outcome' \in {"runs", "terminate"}
  BY <1>0, <1>5
<1> QED
  BY <1>2, <1>3, <1>4, <1>5
  DEF Next, Continue, Construct, Reset, Create, CreateInit, CreateFails,
      Destroy, MoveConstruct, MoveAssign, JoinReturns, Take, Ends

\* No thread exists at first.
LEMMA InitIInv == Init => IInv
<1> SUFFICES ASSUME Init PROVE IInv
  OBVIOUS
<1> USE PthreadAssumption
<1>1. TypeOK
  BY FrameValues DEF Init, TypeOK
<1>2. Calls
  BY FrameValues DEF Init, Calls
<1>3. OneTid
  BY DEF Init, OneTid, Threads, Tids, None
<1>4. Joinable = {} /\ \A p \in Places : Num(p) = INVALID
  BY DEF Init, Joinable, Num, Stopped, Places
<1>5. Holding
  BY <1>4 DEF Holding, Named, Found
<1> QED
  BY <1>1, <1>2, <1>3, <1>5 DEF Init, IInv, Survives

\* The invariant is inductive.
LEMMA StepIInv == IInv /\ [Next]_vars => IInv'
<1> SUFFICES ASSUME IInv, [Next]_vars PROVE IInv'
  OBVIOUS
<1>1. CASE Next
  BY <1>1, StepType, StepCalls, StepHolds, StepSurvives DEF IInv
<1>2. CASE UNCHANGED vars
  <2>1. Joinable' = Joinable /\ OneTid'
    BY <1>2, SameThreads DEF vars, threadVars, IInv
  <2>2. \A p \in Places : Num(p)' = Num(p)
    BY <1>2 DEF vars, Num, Stopped
  <2>3. Holding'
    BY <1>2, <2>1, <2>2, Still DEF vars, IInv
  <2>4. Calls' /\ Survives'
    BY <1>2, <2>1 DEF vars, IInv, Calls, Survives
  <2> QED
    BY <1>2, <2>1, <2>3, <2>4, StepType DEF IInv
<1> QED
  BY <1>1, <1>2

\* The invariant gives the properties the runs check.
LEMMA IInvImplies == IInv => StaleOnlyByFailedCreate /\ LostOnlyByAssignment
<1>1. IInv => StaleOnlyByFailedCreate
  BY DEF IInv, Holding, Named, Joinable, StaleOnlyByFailedCreate
<1>2. IInv => LostOnlyByAssignment
  BY DEF IInv, Holding, Keeps, Found, Joinable, LostOnlyByAssignment, NoThreadLost
<1> QED
  BY <1>1, <1>2

\* Whatever the program does, IInv holds.
THEOREM Invariance == Spec => []IInv
BY InitIInv, StepIInv, PTL DEF Spec

\* Threads, handles and the call in progress keep their types, for any number
\* of handles, threads and pthread_t.
THEOREM TypeCorrect == Spec => []TypeOK
<1>1. IInv => TypeOK
  BY DEF IInv
<1> QED
  BY <1>1, Invariance, PTL

\* What a valid handle names is a thread one can still join, so that the
\* assertions of join(), detach() and cancel() (Pthread.hxx:657-659, 688-689,
\* 719) hold, in every program whose creations succeed: assignments that
\* forget or stop threads do not break it.
THEOREM NamesItsThread == Spec => []StaleOnlyByFailedCreate
BY IInvImplies, Invariance, PTL

\* A program that assigns only to handles that name no thread, with another
\* behavior than Nothing, loses no joinable thread.
THEOREM NoneLost == Spec => []LostOnlyByAssignment
BY IInvImplies, Invariance, PTL

\* Nor does any assertion fail or any call read freed memory, whatever the
\* behavior, as long as no creation fails and no handle that cancels is stopped
\* when it is empty (Pthread.hxx:697).
THEOREM NeverAborts == Spec => []Survives
<1>1. IInv => Survives
  BY DEF IInv
<1> QED
  BY <1>1, Invariance, PTL
-----------------------------------------------------------------------------
\* What becomes of threads in a step: one is created, one is joined or detached,
\* one ends.
LEMMA ThreadsStep ==
  ASSUME IInv, [Next]_vars
  PROVE  \/ \E h \in Handles : SysCreate(h)
         \/ \E n \in Joinable : SysJoin(n) \/ SysDetach(n)
         \/ \E c \in Threads : Ends(c)
         \/ UNCHANGED <<life, detached>>
<1>0. TypeOK /\ Calls
  BY DEF IInv
<1>1. ASSUME NEW h \in Handles,
             \/ Construct(h) \/ Reset(h) \/ CreateFails(h) \/ Cancel(h) \/ Join(h)
             \/ Destroy(h) \/ \E g \in Handles : MoveConstruct(h, g) \/ MoveAssign(h, g)
      PROVE  UNCHANGED <<life, detached>>
  BY <1>1 DEF Construct, Reset, CreateFails, Cancel, Join, Destroy, MoveConstruct,
              MoveAssign, Undefined, Stops, SysCancel, threadVars
<1>2. ASSUME NEW h \in Handles, Create(h) \/ CreateInit(h) PROVE SysCreate(h)
  BY <1>2 DEF Create, CreateInit
<1>3. ASSUME NEW h \in Handles, Detach(h)
      PROVE  \/ \E n \in Joinable : SysDetach(n) \/ UNCHANGED <<life, detached>>
             \/ UNCHANGED <<life, detached>>
  <2>1. CASE Undefined \/ Stops("abort")
    BY <2>1 DEF Undefined, Stops, threadVars
  <2>2. CASE ~Dangling(tid[h]) /\ ~Unjoinable(tid[h]) /\ SysDetach(tid[h])
    <3>1. tid[h] \in Joinable
      BY <1>0, <1>3, <2>2, NamesThread DEF Detach, valid, TypeOK
    <3> QED
      BY <2>2, <3>1
  <2> QED
    BY <1>3, <2>1, <2>2 DEF Detach
<1>4. CASE JoinReturns
  BY <1>0, <1>4 DEF JoinReturns, Calls
<1>5. CASE StopCancel \/ Take
  BY <1>5 DEF StopCancel, Take, Stops, SysCancel, threadVars
<1>6. CASE StopBase
  <2>1. PICK n \in {INVALID} \cup Tids : n = tid[frame.this]
    BY <1>0, <1>6 DEF StopBase, Calls, TypeOK
  <2>2. CASE UNCHANGED threadVars
    BY <2>2 DEF threadVars
  <2>3. CASE /\ n # INVALID /\ ~Dangling(n) /\ ~Unjoinable(n)
             /\ SysDetach(n) \/ SysJoin(n)
    BY <1>0, <2>3, NamesThread
  <2> QED
    BY <1>6, <2>1, <2>2, <2>3 DEF StopBase, Stops
<1>7. CASE UNCHANGED vars
  BY <1>7 DEF vars, threadVars
<1> QED
  BY <1>1, <1>2, <1>3, <1>4, <1>5, <1>6, <1>7 DEF Next, Continue

\* What the mapping makes of a state: a thread that can be joined has one
\* holder, any other none, and no place holds two.
MapOK ==
  /\ AbstractStatus \in [Threads -> {"unused", "held", "released"}]
  /\ AbstractHolders \in [Threads -> SUBSET Places]
  /\ \A c \in Threads :
       IF AbstractStatus[c] = "held"
       THEN \E p \in Places : AbstractHolders[c] = {p}
       ELSE AbstractHolders[c] = {}
  /\ \A c, d \in Threads : c # d => AbstractHolders[c] \cap AbstractHolders[d] = {}

\* What a step may do to the status of a thread.
Advances(c) ==
  \/ AbstractStatus'[c] = AbstractStatus[c]
  \/ AbstractStatus[c] = "unused" /\ AbstractStatus'[c] = "held"
  \/ AbstractStatus[c] = "held" /\ AbstractStatus'[c] = "released"

\* A thread has exactly one holder from its creation until it is given back.
LEMMA Mapped ==
  ASSUME IInv, Keeps
  PROVE  MapOK
<1>1. TypeOK /\ OneTid /\ Named /\ Found
  BY DEF IInv, Holding, Keeps
<1>2. /\ AbstractStatus \in [Threads -> {"unused", "held", "released"}]
      /\ AbstractHolders \in [Threads -> SUBSET Places]
      /\ \A c \in Threads : AbstractHolders[c] =
           {p \in Places : Num(p) # INVALID /\ occupant[Num(p)] = c /\ ~detached[c]}
  BY DEF AbstractStatus, AbstractHolders
<1>3. \A c \in Threads : AbstractStatus[c] = "held" <=>
        life[c] \in {"running", "ended"} /\ ~detached[c]
  BY <1>1 DEF AbstractStatus, TypeOK
<1>4. 0 \notin Threads
  BY PthreadAssumption DEF Threads
<1>5. ASSUME NEW c \in Threads, life[c] \in {"running", "ended"}, ~detached[c]
      PROVE  \E p \in Places : AbstractHolders[c] = {p}
  <2>1. PICK n \in Tids : occupant[n] = c
    BY <1>1, <1>5 DEF OneTid
  <2>2. n \in Joinable
    BY <1>4, <1>5, <2>1 DEF Joinable, None
  <2>3. PICK p \in Places : Num(p) = n
    BY <1>1, <2>2 DEF Found
  <2>4. p \in AbstractHolders[c]
    BY <1>2, <1>5, <2>1, <2>2, <2>3, Nums
  <2>5. ASSUME NEW q \in AbstractHolders[c] PROVE q = p
    <3>1. q \in Places /\ Num(q) \in Tids /\ occupant[Num(q)] = c /\ Num(q) # INVALID
      BY <1>1, <1>2, <2>5 DEF Named, Joinable
    <3>2. Num(q) = n
      BY <1>1, <1>4, <2>1, <3>1 DEF OneTid, None
    <3> QED
      BY <1>1, <2>3, <3>1, <3>2 DEF Named
  <2> QED
    BY <2>4, <2>5
<1>6. ASSUME NEW c \in Threads, ~(life[c] \in {"running", "ended"} /\ ~detached[c])
      PROVE  AbstractHolders[c] = {}
  BY <1>1, <1>2, <1>6 DEF OneTid, Named, Joinable
<1>7. \A c, d \in Threads : c # d => AbstractHolders[c] \cap AbstractHolders[d] = {}
  BY <1>2
<1> QED
  BY <1>2, <1>3, <1>5, <1>6, <1>7 DEF MapOK

\* A thread is created, and given back once.
LEMMA StatusStep ==
  ASSUME IInv, [Next]_vars, NEW c \in Threads
  PROVE  Advances(c)
<1>1. /\ life \in [Threads -> {"unborn", "running", "ended", "gone"}]
      /\ detached \in [Threads -> BOOLEAN] /\ created \in 0 .. MaxThreads
      /\ TypeOK /\ OneTid
  BY DEF IInv, TypeOK
<1>2. /\ AbstractStatus[c] = IF life[c] = "unborn" THEN "unused"
                             ELSE IF life[c] = "gone" \/ detached[c] THEN "released"
                             ELSE "held"
      /\ AbstractStatus'[c] = IF life'[c] = "unborn" THEN "unused"
                              ELSE IF life'[c] = "gone" \/ detached'[c] THEN "released"
                              ELSE "held"
  BY DEF AbstractStatus
<1>3. ASSUME NEW h \in Handles, SysCreate(h) PROVE Advances(c)
  <2>1. /\ created < MaxThreads /\ detached' = detached
        /\ life' = [life EXCEPT ![created + 1] = "running"]
    BY <1>3 DEF SysCreate
  <2>2. created + 1 \in Threads /\ life[created + 1] = "unborn" /\ ~detached[created + 1]
    BY <1>1, <2>1, PthreadAssumption DEF OneTid, Threads
  <2> QED
    BY <1>1, <1>2, <2>1, <2>2 DEF Advances
<1>4. ASSUME NEW n \in Joinable, SysJoin(n) \/ SysDetach(n) PROVE Advances(c)
  <2>1. PICK d \in Threads : d = occupant[n]
    BY <1>1 DEF Joinable, TypeOK, None
  <2>2. life[d] \in {"running", "ended"} /\ ~detached[d]
    BY <1>1, <2>1 DEF Joinable, OneTid
  <2>3. \/ life' = [life EXCEPT ![d] = "gone"] /\ detached' = detached
        \/ /\ life' = life \/ life' = [life EXCEPT ![d] = "gone"]
           /\ detached' = [detached EXCEPT ![d] = TRUE]
    BY <1>4, <2>1 DEF SysJoin, SysDetach
  <2> QED
    BY <1>1, <1>2, <2>2, <2>3 DEF Advances
<1>5. ASSUME NEW d \in Threads, Ends(d) PROVE Advances(c)
  BY <1>1, <1>2, <1>5 DEF Advances, Ends
<1>6. CASE UNCHANGED <<life, detached>>
  BY <1>2, <1>6 DEF Advances
<1> QED
  BY <1>3, <1>4, <1>5, <1>6, ThreadsStep

\* Every step of Pthread is a step of Ownership, or leaves it alone.
LEMMA StepImplements ==
  ASSUME MapOK, MapOK', \A c \in Threads : Advances(c)
  PROVE  Promise!Next
<1>1. ASSUME NEW c \in Threads
      PROVE  \/ Promise!Keep(c) \/ Promise!Acquire(c)
             \/ Promise!Transfer(c) \/ Promise!Release(c)
  <2> DEFINE held  == AbstractStatus[c] = "held"
             heldN == AbstractStatus'[c] = "held"
  <2>1. /\ held => \E p \in Places : AbstractHolders[c] = {p}
        /\ ~held => AbstractHolders[c] = {}
        /\ heldN => \E p \in Places : AbstractHolders'[c] = {p}
        /\ ~heldN => AbstractHolders'[c] = {}
    BY DEF MapOK, Places
  <2>2. CASE held /\ heldN
    BY <2>1, <2>2 DEF Promise!Transfer, Promise!Held
  <2>3. CASE held /\ ~heldN
    BY <2>1, <2>3 DEF Promise!Release, Promise!Held, Advances
  <2>4. CASE ~held /\ heldN
    BY <2>1, <2>4 DEF Promise!Acquire, Promise!Held, Advances
  <2>5. CASE ~held /\ ~heldN
    BY <2>1, <2>5 DEF Promise!Keep, Advances
  <2> QED
    BY <2>2, <2>3, <2>4, <2>5
<1>2. /\ AbstractStatus' \in [Threads -> {"unused", "held", "released"}]
      /\ AbstractHolders' \in [Threads -> SUBSET Places]
      /\ \A c, d \in Threads :
           c # d => AbstractHolders'[c] \cap AbstractHolders'[d] = {}
  BY DEF MapOK, Places, Threads
<1> QED
  BY <1>1, <1>2 DEF Promise!Next

\* Pthread keeps the promise of Ownership: in the programs of
\* LostOnlyByAssignment a thread gets one handle when it is created, has one at
\* a time, and is joined or detached once, through it.
THEOREM Implements == Spec => Owns
<1>1. Init => Promise!Init
  <2> SUFFICES ASSUME Init PROVE Promise!Init
    OBVIOUS
  <2>1. AbstractStatus = [c \in Threads |-> "unused"]
    BY DEF Init, AbstractStatus
  <2>2. \A p \in Places : Num(p) = INVALID
    BY DEF Init, Places, Num, Stopped
  <2>3. AbstractHolders = [c \in Threads |-> {}]
    BY <2>2 DEF AbstractHolders
  <2> QED
    BY <2>1, <2>3 DEF Promise!Init
<1>2. IInv /\ IInv' /\ [Next]_vars =>
        [/\ program.base # "nothing"
         /\ program.hazards \subseteq {"destroyempty"}
         => [Promise!Next]_(Promise!vars)]_vars
  <2> SUFFICES ASSUME IInv, IInv', [Next]_vars, Keeps
               PROVE  Promise!Next
    BY DEF Keeps
  <2>1. program' = program
    BY DEF Next, Continue, Construct, Reset, Create, CreateInit, CreateFails, Cancel,
           Detach, Join, Destroy, MoveConstruct, MoveAssign, JoinReturns, StopCancel,
           StopBase, Take, Ends, Undefined, Stops, vars
  <2>2. MapOK
    BY Mapped
  <2>3. Keeps'
    BY <2>1 DEF Keeps
  <2>4. MapOK'
    BY <2>3, Mapped, PTL
  <2> QED
    BY <2>2, <2>4, StatusStep, StepImplements
<1> QED
  BY <1>1, <1>2, InitIInv, StepIInv, PTL DEF Spec, Owns
-----------------------------------------------------------------------------
\* A stop before its cancellation, or before its join or detach; it is over, or
\* the program is; nothing blocks it.
Stopping(op) == frame.op = op /\ outcome = "runs"
Over == frame.op \notin {"stop", "base"} \/ outcome # "runs"
Freed == Stopping("base") /\ ~\E c \in Threads : WaitsFor(c)

\* A behavior that joins asks first.
Asks == program.base = "join" => program.cancels

\* What such a behavior waits for was asked to cancel.
Asked == frame.op = "base" /\ Asks =>
           \A c \in Threads : WaitsFor(c) => cancelled[c]

\* No step changes the program.
LEMMA SameProgram == [Next]_vars => program' = program
BY DEF Next, Continue, Construct, Reset, Create, CreateInit, CreateFails, Cancel,
       Detach, Join, Destroy, MoveConstruct, MoveAssign, JoinReturns, StopCancel,
       StopBase, Take, Ends, Undefined, Stops, vars

\* In the middle of a stop only the stop goes on, and threads end.
LEMMA InStop ==
  ASSUME ~Over, [Next]_vars
  PROVE  StopCancel \/ StopBase \/ (\E c \in Threads : Ends(c)) \/ UNCHANGED vars
<1>1. ~Ready /\ frame.op \in {"stop", "base"}
  BY FrameValues DEF Over, Ready
<1>2. ~JoinReturns /\ ~Take
  BY <1>1 DEF JoinReturns, Take
<1> QED
  BY <1>1, <1>2 DEF Next, Continue, Construct, Reset, Create, CreateInit,
     CreateFails, Cancel, Detach, Join, Destroy, MoveConstruct, MoveAssign

\* A thread that ends is not waited for any more; the others are as before.
LEMMA EndFrees ==
  ASSUME IInv, ~Over, NEW d \in Threads, Ends(d)
  PROVE  /\ UNCHANGED <<frame, outcome, program, cancelled, tid>>
         /\ ~WaitsFor(d)'
         /\ \A c \in Threads : c # d => (WaitsFor(c)' <=> WaitsFor(c))
<1>0. 0 \notin Threads
  BY PthreadAssumption DEF Threads
<1>1. /\ UNCHANGED <<frame, outcome, program, cancelled, tid, detached>>
      /\ occupant' = [n \in Tids |-> IF detached[d] /\ occupant[n] = d THEN None
                                     ELSE occupant[n]]
      /\ life' = [life EXCEPT ![d] = IF detached[d] THEN "gone" ELSE "ended"]
  BY DEF Ends
<1>2. /\ life \in [Threads -> {"unborn", "running", "ended", "gone"}]
      /\ occupant \in [Tids -> {None} \cup Threads]
      /\ frame.this \in Handles /\ tid[frame.this] \in {INVALID} \cup Tids
  BY DEF IInv, TypeOK, Calls, Over
<1>3. ~WaitsFor(d)'
  BY <1>1, <1>2 DEF WaitsFor
<1>4. ASSUME NEW c \in Threads, c # d PROVE WaitsFor(c)' <=> WaitsFor(c)
  <2>1. life'[c] = life[c]
    BY <1>1, <1>2, <1>4
  <2>2. tid[frame.this] # INVALID =>
          (occupant'[tid[frame.this]] = c <=> occupant[tid[frame.this]] = c)
    BY <1>0, <1>1, <1>2, <1>4 DEF None
  <2> QED
    BY <1>1, <2>1, <2>2 DEF WaitsFor
<1> QED
  BY <1>1, <1>3, <1>4

\* The cancellation of a stop reaches the thread that is joined next.
LEMMA AsksFirst ==
  ASSUME IInv, StopCancel, frame'.op = "base", Asks, NEW c \in Threads, WaitsFor(c)'
  PROVE  cancelled'[c]
<1>0. 0 \notin Threads
  BY PthreadAssumption DEF Threads
<1>1. PICK n \in {INVALID} \cup Tids : n = tid[frame.this]
  BY DEF StopCancel, IInv, Calls, TypeOK
<1>2. frame.op = "stop" /\ frame' # frame
  BY DEF StopCancel
<1>3. /\ frame' = [frame EXCEPT !.op = "base"] /\ UNCHANGED <<tid, program>>
      /\ \/ ~program.cancels /\ UNCHANGED threadVars
         \/ program.cancels /\ Dangling(n) /\ UNCHANGED threadVars
         \/ program.cancels /\ n # INVALID /\ ~Dangling(n) /\ SysCancel(n)
  BY <1>1, <1>2 DEF StopCancel, Stops
<1>4. frame'.this = frame.this
  BY <1>3, FrameValues DEF IInv, TypeOK
<1>5. program.base = "join" /\ program.cancels /\ n # INVALID /\ occupant'[n] = c
  BY <1>1, <1>3, <1>4 DEF WaitsFor, Asks
<1>6. occupant' = occupant /\ occupant[n] = c
  BY <1>3, <1>5 DEF threadVars, SysCancel
<1>7. SysCancel(n)
  BY <1>0, <1>3, <1>5, <1>6 DEF Dangling, None
<1> QED
  BY <1>6, <1>7 DEF SysCancel, IInv, TypeOK

\* Asked holds in every state.
LEMMA AskedInv == Spec => []Asked
<1>1. Init => Asked
  BY FrameValues DEF Init, Asked
<1>2. IInv /\ Asked /\ [Next]_vars => Asked'
  <2> SUFFICES ASSUME IInv, Asked, [Next]_vars, (frame.op = "base" /\ Asks)',
                      NEW c \in Threads, WaitsFor(c)'
               PROVE  cancelled'[c]
    BY DEF Asked
  <2>0. Asks /\ frame'.op = "base"
    BY SameProgram DEF Asks
  <2>1. CASE Over
    <3>1. ASSUME NEW h \in Handles, Join(h) \/ Destroy(h) \/ Cancel(h) \/ Detach(h)
                                    \/ \E g \in Handles : MoveAssign(h, g)
          PROVE  FALSE
      BY <2>0, <3>1, FrameValues
         DEF Join, Destroy, Cancel, Detach, MoveAssign, Ready, Undefined, Stops
    <3>2. ASSUME NEW h \in Handles,
                 \/ Construct(h) \/ Reset(h) \/ Create(h) \/ CreateInit(h)
                 \/ CreateFails(h) \/ \E g \in Handles : MoveConstruct(h, g)
          PROVE  FALSE
      BY <2>0, <3>2, FrameValues
         DEF Construct, Reset, Create, CreateInit, CreateFails, MoveConstruct, Ready
    <3>3. CASE Continue
      BY <2>0, <2>1, <3>3, FrameValues
         DEF Continue, JoinReturns, Take, StopCancel, StopBase, Over
    <3>4. ASSUME NEW d \in Threads, Ends(d) PROVE FALSE
      BY <2>0, <2>1, <3>4 DEF Ends, Over
    <3>5. CASE UNCHANGED vars
      <4>1. WaitsFor(c) /\ frame.op = "base" /\ cancelled' = cancelled
        BY <2>0, <3>5 DEF vars, threadVars, WaitsFor
      <4> QED
        BY <2>0, <4>1 DEF Asked
    <3> QED
      BY <3>1, <3>2, <3>3, <3>4, <3>5 DEF Next
  <2>2. CASE ~Over
    <3>1. CASE StopCancel
      BY <2>0, <3>1, AsksFirst
    <3>2. CASE StopBase
      <4>1. UNCHANGED <<threadVars, tid, frame, program>>
        BY <2>0, <3>2, FrameValues DEF StopBase, Stops, IInv, TypeOK
      <4> QED
        BY <2>0, <4>1 DEF Asked, WaitsFor, threadVars
    <3>3. ASSUME NEW d \in Threads, Ends(d) PROVE cancelled'[c]
      <4>1. WaitsFor(c) /\ UNCHANGED <<frame, cancelled>>
        BY <2>2, <3>3, EndFrees
      <4> QED
        BY <2>0, <4>1 DEF Asked
    <3>4. CASE UNCHANGED vars
      BY <2>0, <3>4 DEF vars, threadVars, WaitsFor, Asked
    <3> QED
      BY <2>2, <3>1, <3>2, <3>3, <3>4, InStop
  <2> QED
    BY <2>1, <2>2
<1> QED
  BY <1>1, <1>2, InitIInv, StepIInv, PTL DEF Spec

\* The thread behind a joinable number exists, so it runs or has ended: no call
\* waits for one that is gone.
LEMMA Unblocked == IInv => CallsUnblocked
<1> SUFFICES ASSUME IInv, outcome = "runs", frame # Idle,
                    ~\E c \in Threads : WaitsFor(c)
             PROVE  MayContinue
  BY DEF CallsUnblocked
<1> DEFINE n == tid[frame.this]
<1>1. /\ frame.op \in {"join", "stop", "base", "take"}
      /\ frame.this \in Handles /\ n \in {INVALID} \cup Tids
  BY DEF IInv, TypeOK, Calls, Frames
<1>2. frame.op = "join" => n \in Joinable
  BY DEF IInv, Calls
<1>3. n \in Joinable => n # INVALID /\ ~Dangling(n) /\ ~Unjoinable(n)
  BY DEF Joinable, Dangling, Unjoinable, INVALID, Tids
<1>4. ASSUME /\ frame.op = "join" \/ (frame.op = "base" /\ program.base = "join")
             /\ n # INVALID /\ ~Dangling(n) /\ ~Unjoinable(n)
      PROVE  life[occupant[n]] = "ended"
  <2>1. occupant[n] \in Threads /\ ~detached[occupant[n]] /\ n \in Tids
    BY <1>1, <1>4, NamesThread DEF IInv, Unjoinable
  <2>2. life[occupant[n]] \in {"running", "ended"}
    BY <2>1 DEF IInv, OneTid
  <2> QED
    BY <1>4, <2>1, <2>2 DEF WaitsFor
<1> QED
  BY <1>1, <1>2, <1>3, <1>4 DEF MayContinue

\* A call is stuck on nothing but a thread that still runs, whatever the
\* handles name (Pthread.hxx:632-644).
\* With that the run's property holds wherever its steps are possible, which is a
\* matter of each action alone, and which the run checks.
THEOREM NoDeadlock == Spec => [](CallsUnblocked /\ (StepsEnabled => CallsGoOn))
BY Unblocked, InitIInv, StepIInv, PTL DEF Spec, CallsGoOn

\* The invariants of a fair behaviour.
LEMMA FairInv == FairSpec => [](IInv /\ Asked /\ CallsUnblocked) /\ [][Next]_vars
<1>1. FairSpec => Spec
  BY DEF FairSpec
<1> QED
  BY <1>1, AskedInv, NoDeadlock, InitIInv, StepIInv, PTL DEF Spec

\* A stop goes from step to step; its own step takes it further.
LEMMA StopMoves ==
  ASSUME IInv, [Next]_vars
  PROVE  /\ Stopping("stop") => Stopping("stop")' \/ Stopping("base")' \/ Over'
         /\ Stopping("stop") /\ Continue => Stopping("base")' \/ Over'
         /\ Freed => Freed' \/ Over'
         /\ Freed /\ Continue => Over'
         /\ Asks <=> Asks'
<1>0. Asks <=> Asks'
  BY SameProgram DEF Asks
<1>1. SUFFICES ASSUME ~Over, ~Over'
               PROVE  /\ Stopping("stop") => Stopping("stop")' \/ Stopping("base")'
                      /\ Stopping("stop") /\ Continue => Stopping("base")'
                      /\ Freed => Freed' /\ ~Continue
  BY <1>0 DEF Stopping, Over, Freed
<1>2. CASE Continue
  BY <1>1, <1>2, FrameValues
     DEF Continue, JoinReturns, StopCancel, StopBase, Take, Stops, Stopping, Over,
         Freed, IInv, TypeOK
<1>3. ASSUME NEW d \in Threads, Ends(d), ~Continue
      PROVE  /\ Stopping("stop") => Stopping("stop")'
             /\ Freed => Freed'
  <2>1. /\ UNCHANGED <<frame, outcome>> /\ ~WaitsFor(d)'
        /\ \A c \in Threads : c # d => (WaitsFor(c)' <=> WaitsFor(c))
    BY <1>1, <1>3, EndFrees
  <2> QED
    BY <2>1 DEF Stopping, Freed
<1>4. CASE UNCHANGED vars /\ ~Continue
  BY <1>4 DEF vars, threadVars, Stopping, Freed, WaitsFor
<1> QED
  BY <1>1, <1>2, <1>3, <1>4, InStop DEF Continue

\* What the steps of a stop need to be taken.
LEMMA StopEnabled ==
  ASSUME CallsUnblocked, StepsEnabled, Asked
  PROVE  /\ Stopping("stop") \/ Freed => ENABLED <<Continue>>_vars
         /\ \A c \in Threads :
              Stopping("base") /\ Asks /\ WaitsFor(c) => ENABLED <<Obeys(c)>>_vars
<1>1. frame.op \in {"stop", "base"} => frame # Idle
  BY FrameValues
<1>2. Stopping("stop") => ~\E c \in Threads : WaitsFor(c)
  BY DEF Stopping, WaitsFor
<1>3. \A c \in Threads : Stopping("base") /\ Asks /\ WaitsFor(c) =>
        outcome = "runs" /\ cancelled[c] /\ life[c] = "running"
  BY DEF Stopping, Asked, WaitsFor
<1> QED
  BY <1>1, <1>2, <1>3 DEF CallsUnblocked, StepsEnabled, Stopping, Freed

\* A join that blocks comes to an end: the thread obeys.
LEMMA JoinFreed ==
  FairSpec /\ []StepsEnabled => (Stopping("base") /\ Asks ~> (Freed /\ Asks) \/ Over)
<1> DEFINE Blocks(c) == Stopping("base") /\ Asks /\ WaitsFor(c)
           Past == (Freed /\ Asks) \/ Over
<1>1. ASSUME NEW c \in Threads
      PROVE  FairSpec /\ []StepsEnabled => [](Blocks(c) => <>Past)
  <2>1. FairSpec => ObeyFair(c)
    BY DEF FairSpec
  <2>2. ASSUME IInv, Blocks(c), [Next]_vars
        PROVE  /\ Blocks(c)' \/ Past'
               /\ Obeys(c) => Past'
    <3>0. SUFFICES ASSUME ~Over'
                   PROVE  /\ Blocks(c)' \/ Past'
                          /\ Obeys(c) => Past'
      OBVIOUS
    <3>1. Asks' /\ ~Over /\ frame.op = "base" /\ TypeOK
      BY <2>2, SameProgram DEF Asks, Over, Stopping, IInv
    <3>2. ASSUME NEW d \in Threads, Ends(d)
          PROVE  IF d = c THEN Past' ELSE Blocks(c)' /\ ~Obeys(c)
      <4>1. /\ UNCHANGED <<frame, outcome>> /\ ~WaitsFor(d)'
            /\ \A e \in Threads : e # d => (WaitsFor(e)' <=> WaitsFor(e))
        BY <2>2, <3>1, <3>2, EndFrees
      <4>2. \A e \in Threads : WaitsFor(e) => e = c
        BY <2>2 DEF WaitsFor
      <4>3. d # c => ~Ends(c)
        <5> SUFFICES ASSUME d # c, Ends(c) PROVE FALSE
          OBVIOUS
        <5>1. life'[d] # "running" /\ life'[d] = life[d] /\ life[d] = "running"
          BY <3>1, <3>2 DEF Ends, TypeOK
        <5> QED
          BY <5>1
      <4> QED
        BY <2>2, <3>1, <4>1, <4>2, <4>3 DEF Stopping, Freed, Obeys
    <3>3. CASE StopCancel \/ StopBase
      <4>1. frame'.op = "take" \/ Stops("terminate") \/ Stops("fault") \/ Stops("abort")
        <5>1. StopBase /\ frame \in Frames
          BY <3>1, <3>3 DEF StopCancel, TypeOK
        <5>2. \/ frame' = [frame EXCEPT !.op = "take"]
              \/ Stops("terminate") \/ Stops("fault")
          BY <5>1 DEF StopBase
        <5>3. [frame EXCEPT !.op = "take"].op = "take"
          BY <5>1, FrameValues
        <5> QED
          BY <5>2, <5>3
      <4> QED
        BY <3>0, <4>1 DEF Over, Stops
    <3>4. CASE UNCHANGED vars
      <4>1. Blocks(c)'
        BY <2>2, <3>4 DEF vars, threadVars, Stopping, WaitsFor, Asks
      <4>2. ~Obeys(c)
        BY <3>1, <3>4 DEF Obeys, Ends, vars, threadVars, TypeOK
      <4> QED
        BY <4>1, <4>2
    <3>5. Obeys(c) => Ends(c)
      BY DEF Obeys
    <3> QED
      BY <2>2, <3>1, <3>2, <3>3, <3>4, <3>5, InStop
  <2>3. IInv /\ Blocks(c) /\ [Next]_vars => Blocks(c)' \/ Past'
    BY <2>2
  <2>4. IInv /\ Blocks(c) /\ <<Next /\ Obeys(c)>>_vars => Past'
    BY <2>2
  <2>5. Asked /\ CallsUnblocked /\ StepsEnabled /\ Blocks(c) => ENABLED <<Obeys(c)>>_vars
    BY StopEnabled
  <2>6. <<Obeys(c)>>_vars => <<Next /\ Obeys(c)>>_vars
    BY DEF Obeys, Next
  <2> QED
    BY <2>1, <2>3, <2>4, <2>5, <2>6, FairInv, PTL DEF ObeyFair
<1>2. FairSpec /\ []StepsEnabled => \A c \in Threads : [](Blocks(c) => <>Past)
  BY <1>1
<1>3. (\A c \in Threads : [](Blocks(c) => <>Past))
        => [](\A c \in Threads : Blocks(c) => <>Past)
  OBVIOUS
<1>4. (\A c \in Threads : Blocks(c) => <>Past)
        => ((\E c \in Threads : Blocks(c)) => <>Past)
  OBVIOUS
<1>5. Stopping("base") /\ Asks => (Freed /\ Asks) \/ \E c \in Threads : Blocks(c)
  BY DEF Freed
<1> QED
  BY <1>2, <1>3, <1>4, <1>5, PTL

\* Every stop of a behavior that asks before it joins ends, unless the program
\* does: ~Jthread returns once its thread reaches a cancellation point, whatever
\* thread the handle has come to name.  That the steps are possible
\* (StepsEnabled) is checked by the run.
THEOREM StopTerminates == FairSpec /\ []StepsEnabled => StopEnds
<1>1. FairSpec => ContinueFair
  BY DEF FairSpec
<1>2. IInv /\ Stopping("stop") /\ Asks /\ [Next]_vars =>
        (Stopping("stop") /\ Asks)' \/ (Stopping("base") /\ Asks)' \/ Over'
  BY StopMoves
<1>3. IInv /\ Stopping("stop") /\ Asks /\ [Next]_vars /\ <<Continue>>_vars =>
        (Stopping("base") /\ Asks)' \/ Over'
  BY StopMoves
<1>4. IInv /\ Freed /\ [Next]_vars => Freed' \/ Over'
  BY StopMoves
<1>5. IInv /\ Freed /\ [Next]_vars /\ <<Continue>>_vars => Over'
  BY StopMoves
<1>6. CallsUnblocked /\ StepsEnabled /\ Asked /\ (Stopping("stop") \/ Freed) => ENABLED <<Continue>>_vars
  BY StopEnabled
<1>7. FairSpec /\ []StepsEnabled =>
        (Stopping("stop") /\ Asks ~> (Stopping("base") /\ Asks) \/ Over)
  BY <1>1, <1>2, <1>3, <1>6, FairInv, PTL DEF ContinueFair
<1>8. FairSpec /\ []StepsEnabled => (Freed ~> Over)
  BY <1>1, <1>4, <1>5, <1>6, FairInv, PTL DEF ContinueFair
<1>9. FairSpec /\ []StepsEnabled =>
        ((Stopping("stop") \/ Stopping("base")) /\ Asks ~> Over)
  BY <1>7, <1>8, JoinFreed, PTL
<1>10. /\ frame.op \in {"stop", "base"} /\ (program.base = "join" => program.cancels)
            => ((Stopping("stop") \/ Stopping("base")) /\ Asks) \/ Over
       /\ Over <=> frame.op \notin {"stop", "base"} \/ outcome # "runs"
  BY DEF Stopping, Asks, Over
<1> QED
  BY <1>9, <1>10, PTL DEF StopEnds
=============================================================================
