------------------------- MODULE ClosingDescriptor -------------------------
(***************************************************************************)
(* ClosingDescriptor = ClosingInterface<FileDescriptor>: the owning handle *)
(* of one descriptor number, and the base of EpollDescriptor, of every     *)
(* socket and of Pipe::Reader and Pipe::Writer.  Several threads construct,*)
(* fill, move, reset, close and destroy handles; they share the kernel's   *)
(* table and, one at a time, the handles.                                  *)
(*                                                                         *)
(* A step runs a thread up to its next system call, or over the system     *)
(* call: what lies between touches only the object and the thread's own    *)
(* locals, and no two threads use an object at once (Usable: the library   *)
(* has no lock, so that is the caller's duty).                             *)
(***************************************************************************)
EXTENDS FdTable

CONSTANTS
  Threads,
  Handles,     \* the ClosingDescriptor objects
  NoHandle

ASSUME HandlesAssumption == NoHandle \notin Handles

VARIABLES
  alive,       \* alive[h]: h is constructed and not yet destroyed
  fd,          \* fd[h]: its _fd
  raw,         \* raw[t]: a bare number thread t is responsible for
  frame        \* frame[t]: the library call thread t is inside

objVars == <<alive, fd, raw, frame>>
vars == <<table, opened, alive, fd, raw, frame>>

Idle == [op |-> "idle", this |-> NoHandle, other |-> NoHandle, tmp |-> Invalid]

\* A call in progress: tmp is the number its next system call closes.
Frame(op, h, g, n) == [op |-> op, this |-> h, other |-> g, tmp |-> n]

Frames == [op : {"idle", "close", "destroy", "assign"},
           this : Handles \cup {NoHandle}, other : Handles \cup {NoHandle},
           tmp : Numbers]

Uses(t, h) == frame[t].op # "idle" /\ h \in {frame[t].this, frame[t].other}

\* Thread t may start a call on h: it is in no call, and no one is using h.
Usable(t, h) == frame[t] = Idle /\ \A u \in Threads : ~Uses(u, h)

valid(h) == fd[h] # Invalid
-----------------------------------------------------------------------------
Init ==
  /\ TableInit
  /\ alive = [h \in Handles |-> FALSE]
  /\ fd = [h \in Handles |-> Invalid]
  /\ raw = [t \in Threads |-> Invalid]
  /\ frame = [t \in Threads |-> Idle]

\* ClosingDescriptor h;
Construct(t, h) ==
  /\ ~alive[h] /\ Usable(t, h)
  /\ alive' = [alive EXCEPT ![h] = TRUE]
  /\ fd' = [fd EXCEPT ![h] = Invalid]
  /\ UNCHANGED <<table, opened, raw, frame>>

\* ClosingDescriptor h(n): takes over a bare number.
Adopt(t, h) ==
  /\ ~alive[h] /\ Usable(t, h) /\ raw[t] # Invalid
  /\ alive' = [alive EXCEPT ![h] = TRUE]
  /\ fd' = [fd EXCEPT ![h] = raw[t]]
  /\ raw' = [raw EXCEPT ![t] = Invalid]
  /\ UNCHANGED <<table, opened, frame>>

\* Mutant: the move constructor does not empty its source.
MoveConstruct_keepsSource(t, h, g) ==
  /\ ~alive[h] /\ alive[g] /\ Usable(t, h) /\ Usable(t, g)
  /\ alive' = [alive EXCEPT ![h] = TRUE]
  /\ fd' = [fd EXCEPT ![h] = fd[g]]
  /\ UNCHANGED <<table, opened, raw, frame>>

\* ClosingDescriptor h = std::move(g); ends in FileDescriptor's constructor.
MoveConstruct(t, h, g) ==
  /\ ~alive[h] /\ alive[g] /\ Usable(t, h) /\ Usable(t, g)
  /\ alive' = [alive EXCEPT ![h] = TRUE]
  /\ fd' = [fd EXCEPT ![g] = Invalid, ![h] = fd[g]]
  /\ UNCHANGED <<table, opened, raw, frame>>

\* h.create(), h.open(): asserts !valid(), stores what the kernel returned.
\* A failing call stores -1, throws and so changes nothing.
Create(t, h) ==
  /\ alive[h] /\ Usable(t, h) /\ ~valid(h)
  /\ \E n \in Fds : SysOpen(n) /\ fd' = [fd EXCEPT ![h] = n]
  /\ UNCHANGED <<alive, raw, frame>>

\* h = createinit(): the object exists only if the call did not throw.
CreateInit(t, h) ==
  /\ ~alive[h] /\ Usable(t, h)
  /\ alive' = [alive EXCEPT ![h] = TRUE]
  /\ \E n \in Fds : SysOpen(n) /\ fd' = [fd EXCEPT ![h] = n]
  /\ UNCHANGED <<raw, frame>>

\* raw = h.reset(raw): no system call; the caller answers for the old number.
Reset(t, h) ==
  /\ alive[h] /\ Usable(t, h) /\ fd[h] # raw[t]
  /\ fd' = [fd EXCEPT ![h] = raw[t]]
  /\ raw' = [raw EXCEPT ![t] = fd[h]]
  /\ UNCHANGED <<table, opened, alive, frame>>

\* Mutant: _fd is not emptied before the system call.
Detach_keepsFd(t, op, h, g) ==
  /\ frame' = [frame EXCEPT ![t] = Frame(op, h, g, fd[h])]
  /\ UNCHANGED <<table, opened, alive, fd, raw>>

\* The part of close() before the system call: _fd is emptied first.
Detach(t, op, h, g) ==
  /\ fd' = [fd EXCEPT ![h] = Invalid]
  /\ frame' = [frame EXCEPT ![t] = Frame(op, h, g, fd[h])]
  /\ UNCHANGED <<table, opened, alive, raw>>

\* h.close(): asserts valid().
Close(t, h) ==
  /\ alive[h] /\ Usable(t, h) /\ valid(h)
  /\ Detach(t, "close", h, h)

\* Mutant: the destructor closes nothing.
Destroy_noClose(t, h) ==
  /\ alive[h] /\ Usable(t, h)
  /\ alive' = [alive EXCEPT ![h] = FALSE]
  /\ fd' = [fd EXCEPT ![h] = Invalid]
  /\ UNCHANGED <<table, opened, raw, frame>>

\* h's destructor: closes a valid descriptor, without throwing.
Destroy(t, h) ==
  /\ alive[h] /\ Usable(t, h)
  /\ IF valid(h)
     THEN Detach(t, "destroy", h, h)
     ELSE /\ alive' = [alive EXCEPT ![h] = FALSE]
          /\ UNCHANGED <<table, opened, fd, raw, frame>>

\* Mutant: the move assignment does not close what its target holds.
MoveAssign_noClose(t, h, g) ==
  /\ alive[h] /\ alive[g] /\ Usable(t, h) /\ Usable(t, g)
  /\ frame' = [frame EXCEPT ![t] = Frame("assign", h, g, Invalid)]
  /\ UNCHANGED <<table, opened, alive, fd, raw>>

\* h = std::move(g): what h holds is closed unless g holds the same number.
MoveAssign(t, h, g) ==
  /\ alive[h] /\ alive[g] /\ Usable(t, h) /\ Usable(t, g)
  /\ IF valid(h) /\ fd[g] # fd[h]
     THEN Detach(t, "assign", h, g)
     ELSE /\ frame' = [frame EXCEPT ![t] = Frame("assign", h, g, Invalid)]
          /\ UNCHANGED <<table, opened, alive, fd, raw>>

\* ::close(tmp).  When it fails close() throws: an assignment is abandoned
\* there, its source untouched; a destructor swallows the error.
CloseSyscall(t, ok) ==
  /\ frame[t].tmp # Invalid
  /\ SysClose(frame[t].tmp)
  /\ frame' = [frame EXCEPT ![t] = IF @.op = "assign" /\ ok
                                   THEN [@ EXCEPT !.tmp = Invalid] ELSE Idle]
  /\ alive' = IF frame[t].op = "destroy"
              THEN [alive EXCEPT ![frame[t].this] = FALSE] ELSE alive
  /\ UNCHANGED <<fd, raw>>

\* reset(other.reset(-1)): the end of a move assignment.
Take(t) ==
  LET h == frame[t].this
      g == frame[t].other
  IN  /\ frame[t].op = "assign" /\ frame[t].tmp = Invalid
      /\ fd' = [fd EXCEPT ![g] = Invalid, ![h] = fd[g]]
      /\ frame' = [frame EXCEPT ![t] = Idle]
      /\ UNCHANGED <<table, opened, alive, raw>>

\* The calls a thread can start, and the rest of the one it is inside.
Call(t) ==
  \E h \in Handles :
    \/ Construct(t, h) \/ Adopt(t, h) \/ Create(t, h) \/ CreateInit(t, h)
    \/ Reset(t, h) \/ Close(t, h) \/ Destroy(t, h)
    \/ \E g \in Handles : MoveConstruct(t, h, g) \/ MoveAssign(t, h, g)

Continue(t) == Take(t) \/ \E ok \in BOOLEAN : CloseSyscall(t, ok)

Next == \E t \in Threads : Call(t) \/ Continue(t)

Spec == Init /\ [][Next]_vars

\* ClosingDescriptor h(g), g an lvalue: the variadic constructor is a better
\* match than the deleted copy constructor and copies FileDescriptor's _fd.
CopyConstruct(t, h, g) ==
  /\ ~alive[h] /\ alive[g] /\ Usable(t, h) /\ Usable(t, g)
  /\ alive' = [alive EXCEPT ![h] = TRUE]
  /\ fd' = [fd EXCEPT ![h] = fd[g]]
  /\ UNCHANGED <<table, opened, raw, frame>>

NextWithCopies ==
  Next \/ \E t \in Threads, h, g \in Handles : CopyConstruct(t, h, g)

SpecWithCopies == Init /\ [][NextWithCopies]_vars
-----------------------------------------------------------------------------
\* Every place that can hold a number: an object, a thread's bare number, a
\* number a call is about to close.
Holders == ({"object"} \X Handles) \cup ({"raw", "call"} \X Threads)

Num(p) == CASE p[1] = "object" -> fd[p[2]]
            [] p[1] = "raw" -> raw[p[2]]
            [] p[1] = "call" -> frame[p[2]].tmp

\* Objects, bare numbers, calls in progress and the descriptor table keep their
\* types.
TypeOK ==
  /\ TableTypeOK
  /\ alive \in [Handles -> BOOLEAN]
  /\ fd \in [Handles -> Numbers]
  /\ raw \in [Threads -> Numbers]
  /\ frame \in [Threads -> Frames]

\* No number has two holders: no one can close a descriptor that another
\* handle, another thread or a pending close believes to be its own.
OneHolder ==
  \A p, q \in Holders : p # q /\ Num(p) # Invalid => Num(p) # Num(q)

\* Whatever is held is open: close() never sees EBADF, as the assertion of
\* FileDescriptor::closethrow (FileDescriptor.hxx:117) claims.
HeldIsOpen ==
  \A p \in Holders : Num(p) # Invalid => table[Num(p)] # NoFile

\* Whatever is open is held: no path through assignment, a failing close,
\* reset or destruction forgets an open descriptor.
NoLeak ==
  \A n \in Fds : table[n] # NoFile => \E p \in Holders : Num(p) = n
-----------------------------------------------------------------------------
\* The inductive invariant, by parts.  An object that does not exist holds
\* nothing; a call in progress works on existing objects no other call is
\* using, and an assignment has emptied its target unless it is a
\* self-assignment.
DeadHoldNothing == \A h \in Handles : ~alive[h] => fd[h] = Invalid

FramesOK ==
  /\ \A t \in Threads :
       \/ frame[t] = Idle
       \/ /\ frame[t].op # "idle"
          /\ frame[t].this \in Handles /\ alive[frame[t].this]
          /\ frame[t].other \in Handles /\ alive[frame[t].other]
          /\ frame[t].op = "assign" => \/ fd[frame[t].this] = Invalid
                                      \/ frame[t].this = frame[t].other
          /\ frame[t].tmp # Invalid => fd[frame[t].this] = Invalid
          /\ frame[t].tmp = Invalid => frame[t].op = "assign"
  /\ \A t, u \in Threads, h \in Handles : t # u /\ Uses(t, h) => ~Uses(u, h)

\* OneHolder, HeldIsOpen and NoLeak, kind of holder by kind of holder.
Distinct ==
  /\ \A h, g \in Handles : h # g /\ fd[h] # Invalid => fd[h] # fd[g]
  /\ \A t, u \in Threads : t # u /\ raw[t] # Invalid => raw[t] # raw[u]
  /\ \A t, u \in Threads :
       t # u /\ frame[t].tmp # Invalid => frame[t].tmp # frame[u].tmp
  /\ \A h \in Handles, t \in Threads :
       fd[h] # Invalid => fd[h] # raw[t] /\ fd[h] # frame[t].tmp
  /\ \A t, u \in Threads : raw[t] # Invalid => raw[t] # frame[u].tmp

AllOpen ==
  /\ \A h \in Handles : fd[h] # Invalid => table[fd[h]] # NoFile
  /\ \A t \in Threads : raw[t] # Invalid => table[raw[t]] # NoFile
  /\ \A t \in Threads :
       frame[t].tmp # Invalid => table[frame[t].tmp] # NoFile

AllHeld ==
  \A n \in Fds : table[n] # NoFile =>
    \/ \E h \in Handles : fd[h] = n
    \/ \E t \in Threads : raw[t] = n
    \/ \E t \in Threads : frame[t].tmp = n

IInv == /\ TypeOK /\ DeadHoldNothing /\ FramesOK
        /\ Distinct /\ AllOpen /\ AllHeld
-----------------------------------------------------------------------------
\* The abstract promise: files are the resources, a file is held by the
\* places whose number the table maps to it.
AbstractStatus ==
  [f \in Files |-> IF f > opened THEN "unused"
                   ELSE IF \E n \in Fds : table[n] = f THEN "held"
                   ELSE "released"]

AbstractHolders ==
  [f \in Files |-> {p \in Holders : Num(p) # Invalid /\ table[Num(p)] = f}]

Promise == INSTANCE Ownership WITH
  Resources <- Files, Places <- Holders,
  status <- AbstractStatus, holders <- AbstractHolders

\* Every file a handle opens is acquired once, held at one place at a time and
\* released once, through moves, exchanges, failing closes and destructions.
Owns == Promise!Spec
=============================================================================
