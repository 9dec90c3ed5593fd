------------------------------ MODULE Process ------------------------------
(***************************************************************************)
(* Process<Behavior>: the owning handle of a child process.  Its           *)
(* destructor and its move assignment stop the child: a signal, then       *)
(* waitpid(2), as the behavior asks.                                       *)
(*                                                                         *)
(* Process 0 is the program; the others are the children it forks, by rank *)
(* of fork.  fork(2) copies the memory, so every child starts with a copy  *)
(* of every handle.  The kernel's process table (external) reuses a pid    *)
(* once the process behind it is reaped; other programs take pids too.     *)
(* A step covers one system call.                                          *)
(***************************************************************************)
EXTENDS Integers

CONSTANTS
  Handles,          \* the Process objects
  NoHandle,
  MaxPid,           \* pids are 1 .. MaxPid
  MaxForks,         \* bound: how many children are forked in a behaviour
  SignalOnDestroy,  \* the behavior: is a signal sent (any but 0)
  WaitOnDestroy,    \* the behavior: is the child waited for
  Programs          \* kinds of programs: the hazards each of them meets

Hazards == {"rewait", "eintr", "childunwinds"}

ASSUME ProcessAssumption ==
  /\ NoHandle \notin Handles
  /\ MaxPid \in Nat /\ MaxForks \in Nat
  /\ SignalOnDestroy \in BOOLEAN /\ WaitOnDestroy \in BOOLEAN
  /\ Programs \subseteq SUBSET Hazards

VARIABLES
  occupant,    \* occupant[p]: the process behind pid p, Free or Foreign
  life,        \* life[c]: "unborn", "running", "zombie" or "reaped"
  forked,      \* number of children forked so far
  signalled,   \* signalled[c]: c got a terminating signal while it ran
  pid,         \* pid[x][h]: the _pid of h in the memory of process x
  raw,         \* a bare pid the program is responsible for
  frame,       \* frame[x]: the stop process x is in the middle of
  hazards      \* the hazards this program meets

kernelVars == <<occupant, life, forked, signalled>>
vars == <<occupant, life, forked, signalled, pid, raw, frame, hazards>>

Pids == 1 .. MaxPid
Children == 1 .. MaxForks
Processes == 0 .. MaxForks
Free == -1
Foreign == -2

\* No process: valid() is _pid > 0.
None == 0

Idle == [op |-> "idle", this |-> NoHandle, other |-> NoHandle]

\* other is NoHandle in a destructor, the source in a move assignment.
Frames == [op : {"idle", "signal", "wait", "take"},
           this : Handles \cup {NoHandle}, other : Handles \cup {NoHandle}]

valid(x, h) == pid[x][h] # None

\* The processes that execute, and those that can make a call.
Running == {0} \cup {c \in Children : life[c] = "running"}
Ready(x) == x \in Running /\ frame[x] = Idle
-----------------------------------------------------------------------------
Init ==
  /\ occupant = [p \in Pids |-> Free]
  /\ life = [c \in Children |-> "unborn"]
  /\ forked = 0
  /\ signalled = [c \in Children |-> FALSE]
  /\ pid = [x \in Processes |-> [h \in Handles |-> None]]
  /\ raw = None
  /\ frame = [x \in Processes |-> Idle]
  /\ hazards \in Programs

\* h.fork(), h = forkinit(): asserts !valid().  The child goes on with _pid = 0
\* and a copy of all the other handles.  A failing fork leaves -1, invalid too.
Fork(h) ==
  /\ Ready(0) /\ ~valid(0, h) /\ forked < MaxForks
  /\ forked' = forked + 1
  /\ life' = [life EXCEPT ![forked'] = "running"]
  /\ \E p \in Pids :
       /\ occupant[p] = Free
       /\ occupant' = [occupant EXCEPT ![p] = forked']
       /\ pid' = [pid EXCEPT ![0][h] = p, ![forked'] = pid[0]]
  /\ UNCHANGED <<hazards, signalled, raw, frame>>

\* h = std::move(g) into an object that holds nothing, and the move
\* constructor.
MoveConstruct(h, g) ==
  /\ Ready(0) /\ ~valid(0, h)
  /\ pid' = [pid EXCEPT ![0] = [pid[0] EXCEPT ![g] = None, ![h] = pid[0][g]]]
  /\ UNCHANGED <<hazards, kernelVars, raw, frame>>

\* Mutant: reset() returns the new pid, so that the old one is lost.
Reset_losesOld(h) ==
  /\ Ready(0) /\ pid[0][h] # raw
  /\ pid' = [pid EXCEPT ![0][h] = raw]
  /\ raw' = None
  /\ UNCHANGED <<hazards, kernelVars, frame>>

\* raw = h.reset(raw), and the constructor that takes a pid.
Reset(h) ==
  /\ Ready(0) /\ pid[0][h] # raw
  /\ pid' = [pid EXCEPT ![0][h] = raw]
  /\ raw' = pid[0][h]
  /\ UNCHANGED <<hazards, kernelVars, frame>>

\* Where a stop goes next, and how it ends when nothing is left to do.
AfterSignal == IF WaitOnDestroy THEN "wait" ELSE "take"
\* Mutant: the stop waits before it signals.
FirstStep_waitsFirst == AfterSignal

FirstStep == IF SignalOnDestroy THEN "signal" ELSE AfterSignal

\* ~Process: a child unwinds its copies like the program does its own.
Destroy(x, h) ==
  /\ Ready(x) /\ valid(x, h)
  /\ x = 0 \/ "childunwinds" \in hazards
  /\ frame' = [frame EXCEPT ![x] = [op |-> FirstStep, this |-> h,
                                    other |-> NoHandle]]
  /\ UNCHANGED <<hazards, kernelVars, pid, raw>>

\* Mutant: no test for the same pid, so that a self-assignment stops the child.
MoveAssign_stopsSelf(h, g) ==
  /\ Ready(0) /\ valid(0, h)
  /\ frame' = [frame EXCEPT ![0] = [op |-> FirstStep, this |-> h, other |-> g]]
  /\ UNCHANGED <<hazards, kernelVars, pid, raw>>

\* Mutant: the assignment overwrites what its target names.
MoveAssign_noStop(h, g) ==
  /\ Ready(0) /\ valid(0, h)
  /\ frame' = [frame EXCEPT ![0] = [op |-> "take", this |-> h, other |-> g]]
  /\ UNCHANGED <<hazards, kernelVars, pid, raw>>

\* h = std::move(g): what h holds is stopped unless g holds the same pid.
MoveAssign(h, g) ==
  /\ Ready(0) /\ valid(0, h)
  /\ frame' = [frame EXCEPT ![0] =
                 [op |-> IF pid[0][h] # pid[0][g] THEN FirstStep ELSE "take",
                  this |-> h, other |-> g]]
  /\ UNCHANGED <<hazards, kernelVars, pid, raw>>

\* kill(2): a running child of the program gets the signal; nothing happens to
\* a zombie; a process of another program is not ours to model.
SysKill(p) ==
  signalled' = [c \in Children |->
                  signalled[c] \/ (occupant[p] = c /\ life[c] = "running")]

\* h.kill(sig) with a terminating signal: asserts valid().
Kill(h) ==
  /\ Ready(0) /\ valid(0, h)
  /\ SysKill(pid[0][h])
  /\ UNCHANGED <<hazards, occupant, life, forked, pid, raw, frame>>

\* The signal of a stop; its errors are ignored.
StopSignal(x) ==
  /\ frame[x].op = "signal"
  /\ SysKill(pid[x][frame[x].this])
  /\ frame' = [frame EXCEPT ![x].op = AfterSignal]
  /\ UNCHANGED <<hazards, occupant, life, forked, pid, raw>>

\* Process x may wait for the process behind pid p: only the program has
\* children.  waitpid(2) fails with ECHILD for any other.
IsChild(x, p) == x = 0 /\ occupant[p] \in Children

\* waitpid(2) returns p: it was a zombie, its pid is free again.
Reap(x, p) ==
  /\ IsChild(x, p) /\ life[occupant[p]] = "zombie"
  /\ life' = [life EXCEPT ![occupant[p]] = "reaped"]
  /\ occupant' = [occupant EXCEPT ![p] = Free]
  /\ UNCHANGED <<forked, signalled>>

\* h.wait() of the program: asserts valid(), leaves _pid as it is.  Without the
\* hazard the program calls h.reset() before anything else.
Wait(h) ==
  /\ Ready(0) /\ valid(0, h)
  /\ Reap(0, pid[0][h])
  /\ pid' = IF "rewait" \in hazards THEN pid ELSE [pid EXCEPT ![0][h] = None]
  /\ UNCHANGED <<hazards, raw, frame>>

\* Mutant: ECHILD makes the wait of a stop start again.
StopWait_retriesEchild(x) ==
  /\ frame[x].op = "wait"
  /\ \/ Reap(x, pid[x][frame[x].this])
     \/ "eintr" \in hazards /\ UNCHANGED kernelVars
  /\ frame' = [frame EXCEPT ![x].op = "take"]
  /\ UNCHANGED <<hazards, pid, raw>>

\* The wait of a stop: it blocks while the child runs; it ignores its errors,
\* ECHILD and the EINTR of a signal handler among them.
StopWait(x) ==
  LET p == pid[x][frame[x].this]
  IN  /\ frame[x].op = "wait"
      /\ \/ Reap(x, p)
         \/ ~IsChild(x, p) /\ UNCHANGED kernelVars
         \/ "eintr" \in hazards /\ UNCHANGED kernelVars
      /\ frame' = [frame EXCEPT ![x].op = "take"]
      /\ UNCHANGED <<hazards, pid, raw>>

\* Mutant: the assignment does not empty its source.
Take_keepsSource(x) ==
  LET h == frame[x].this
      g == frame[x].other
  IN  /\ frame[x].op = "take"
      /\ pid' = [pid EXCEPT ![x][h] = IF g = NoHandle THEN None ELSE pid[x][g]]
      /\ frame' = [frame EXCEPT ![x] = Idle]
      /\ UNCHANGED <<hazards, kernelVars, raw>>

\* The end of a stop: the object dies, or takes over the source's pid.
Take(x) ==
  LET h == frame[x].this
      g == frame[x].other
  IN  /\ frame[x].op = "take"
      /\ pid' = IF g = NoHandle THEN [pid EXCEPT ![x][h] = None]
                ELSE [pid EXCEPT ![x] = [pid[x] EXCEPT ![g] = None,
                                                      ![h] = pid[x][g]]]
      /\ frame' = [frame EXCEPT ![x] = Idle]
      /\ UNCHANGED <<hazards, kernelVars, raw>>

\* A child ends by itself, in a call or not; a signalled one has to.
Exit(c) ==
  /\ life[c] = "running"
  /\ life' = [life EXCEPT ![c] = "zombie"]
  /\ frame' = [frame EXCEPT ![c] = Idle]
  /\ UNCHANGED <<hazards, occupant, forked, signalled, pid, raw>>

Obey(c) == signalled[c] /\ Exit(c)

\* Another program takes a free pid, or gives it up.
OtherProgram ==
  /\ \E p \in Pids :
       \/ occupant[p] = Free /\ occupant' = [occupant EXCEPT ![p] = Foreign]
       \/ occupant[p] = Foreign /\ occupant' = [occupant EXCEPT ![p] = Free]
  /\ UNCHANGED <<hazards, life, forked, signalled, pid, raw, frame>>

Continue(x) ==
  /\ x \in Running
  /\ StopSignal(x) \/ StopWait(x) \/ Take(x)

Next ==
  \/ \E h \in Handles :
       \/ Fork(h) \/ Reset(h) \/ Kill(h) \/ Wait(h)
       \/ \E x \in Processes : Destroy(x, h)
       \/ \E g \in Handles : MoveConstruct(h, g) \/ MoveAssign(h, g)
  \/ \E x \in Processes : Continue(x)
  \/ \E c \in Children : Exit(c)
  \/ OtherProgram

Spec == Init /\ [][Next]_vars

\* A process in the middle of a stop is scheduled again, and a child does not
\* survive a terminating signal (its default disposition).
StopFair(x) == WF_vars(Continue(x))
ObeyFair(c) == WF_vars(Obey(c))

FairSpec ==
  /\ Spec
  /\ \A x \in Processes : StopFair(x)
  /\ \A c \in Children : ObeyFair(c)
-----------------------------------------------------------------------------
\* The handles of each process, the pid table and the stops keep their types.
TypeOK ==
  /\ occupant \in [Pids -> {Free, Foreign} \cup Children]
  /\ life \in [Children -> {"unborn", "running", "zombie", "reaped"}]
  /\ forked \in 0 .. MaxForks
  /\ signalled \in [Children -> BOOLEAN]
  /\ pid \in [Processes -> [Handles -> 0 .. MaxPid]]
  /\ raw \in 0 .. MaxPid
  /\ frame \in [Processes -> Frames]
  /\ hazards \in Programs

\* The places of the program that hold a pid: its handles, but not one whose
\* stop is over.
Stopped(h) == frame[0].op = "take" /\ frame[0].this = h
              /\ frame[0].other # h
Places == Handles \cup {NoHandle}
Num(p) == IF p = NoHandle THEN raw
          ELSE IF Stopped(p) THEN None ELSE pid[0][p]

\* A valid handle names a child that is not reaped yet, so its pid cannot have
\* been reused: kill() never signals a stranger and the ECHILD assertion of
\* throwwait (Process.hxx:251) holds.
HandleNamesChild ==
  \A p \in Places : Num(p) # None => occupant[Num(p)] \in Children

\* So it is, whatever signals interrupt the stops and whatever the children do
\* with their copies of the handles, unless wait() is called and the handle is
\* used again.
StaleOnlyByRewait == "rewait" \notin hazards => HandleNamesChild

\* Two handles never name the same child, so that it is stopped once.
OneHolder ==
  "rewait" \notin hazards =>
    \A p, q \in Places : p # q /\ Num(p) # None => Num(p) # Num(q)

\* Every child that exists is held by a handle: the destructor and the move
\* assignment leave no zombie behind unless their wait is interrupted.
ZombieOnlyByInterrupt ==
  "eintr" \notin hazards =>
    \A p \in Pids : occupant[p] \in Children => \E q \in Places : Num(q) = p

\* A stop ends: the child is signalled before it is waited for, so that the
\* destructor cannot wait forever for a child that runs on.
StopEnds == \A x \in Processes : frame[x] # Idle ~> frame[x] = Idle

\* waitpid(2) blocks process x: its child c still runs.
WaitsFor(x, c) ==
  /\ x = 0 /\ frame[x].op = "wait"
  /\ life[c] = "running" /\ occupant[pid[x][frame[x].this]] = c

\* Process x has a step of its stop to take: the system call it is about to make
\* returns.
MayContinue(x) ==
  /\ x \in Running /\ frame[x].op \in {"signal", "wait", "take"}
  /\ frame[x].op = "wait" /\ IsChild(x, pid[x][frame[x].this]) =>
       \/ life[occupant[pid[x][frame[x].this]]] = "zombie"
       \/ "eintr" \in hazards

\* The steps that fairness is about are possible where the system lets them be.
StepsEnabled ==
  /\ \A x \in Processes : MayContinue(x) => ENABLED <<Continue(x)>>_vars
  /\ \A c \in Children :
       signalled[c] /\ life[c] = "running" => ENABLED <<Obey(c)>>_vars

\* A stop is stuck on nothing but a child that still runs: what it waits for was
\* not reaped by another handle, so that nobody would end it.
StopsUnblocked ==
  \A x \in Processes : frame[x] # Idle =>
    \/ \E c \in Children : WaitsFor(x, c)
    \/ MayContinue(x)

\* Stops go on whatever kill(2) and waitpid(2) answer, to a child's copies of the
\* handles too: _stop() ignores it (Process.hxx:35-39).
StopsGoOn == StepsEnabled /\ StopsUnblocked

\* The abstract promise: a child is acquired by fork, released by waitpid.
AbstractStatus ==
  [c \in Children |-> IF life[c] = "unborn" THEN "unused"
                      ELSE IF life[c] = "reaped" THEN "released" ELSE "held"]

AbstractHolders ==
  [c \in Children |->
     {p \in Places : Num(p) # None /\ occupant[Num(p)] = c}]

Promise == INSTANCE Ownership WITH
  Resources <- Children, status <- AbstractStatus, holders <- AbstractHolders

\* Every child is forked into one handle, moved from handle to handle and
\* reaped once, in a program whose waits are not interrupted and that resets
\* the handles it waited for.
Owns ==
  /\ Promise!Init
  /\ [][hazards \subseteq {"childunwinds"}
        => [Promise!Next]_(Promise!vars)]_vars
=============================================================================
