-------------------------------- MODULE Pipe --------------------------------
(***************************************************************************)
(* Pipe owns the two ends of a pipe in _fds[2].  Its ends are closed       *)
(* through proxies that hold a copy of the number, so that, unlike a       *)
(* ClosingDescriptor, a Pipe does not empty a slot before closing it.      *)
(*                                                                         *)
(* One thread runs the calls of the pipes; `others' are the numbers held   *)
(* by everything else in the program: the Readers and Writers moved out of *)
(* a pipe, any other handle, any other thread.  A step of a call covers    *)
(* one system call, so that the others open and close descriptors between  *)
(* the two closes of an assignment or a destruction.                       *)
(***************************************************************************)
EXTENDS FdTable

CONSTANTS
  Pipes,
  NoPipe,
  Programs     \* kinds of programs: the hazards each of them meets

Hazards == {"openinit", "throwassign", "proxyclose", "selfmove"}

ASSUME PipesAssumption ==
  /\ NoPipe \notin Pipes /\ "other" \notin Pipes
  /\ Programs \subseteq SUBSET Hazards

VARIABLES
  alive,       \* alive[p]: p is constructed and not yet destroyed
  fds,         \* fds[p]: its _fds, by side
  others,      \* the numbers held by other handles
  frame,       \* the library call in progress
  hazards      \* the hazards this program meets

vars == <<table, opened, alive, fds, others, frame, hazards>>

Sides == {"r", "w"}
Other(s) == IF s = "r" THEN "w" ELSE "r"
Empty == [s \in Sides |-> Invalid]

Idle == [op |-> "idle", this |-> NoPipe, other |-> NoPipe, side |-> "r"]

\* side: the end the call looks at next.
Frames == [op : {"idle", "assign", "take", "destroy"},
           this : Pipes \cup {NoPipe}, other : Pipes \cup {NoPipe},
           side : Sides]

Ready == frame = Idle

valid(p, s) == fds[p][s] # Invalid
-----------------------------------------------------------------------------
Init ==
  /\ TableInit
  /\ alive = [p \in Pipes |-> FALSE]
  /\ fds = [p \in Pipes |-> Empty]
  /\ others = {}
  /\ frame = Idle
  /\ hazards \in Programs

\* Pipe p;
Construct(p) ==
  /\ Ready /\ ~alive[p]
  /\ alive' = [alive EXCEPT ![p] = TRUE]
  /\ fds' = [fds EXCEPT ![p] = Empty]
  /\ UNCHANGED <<hazards, table, opened, others, frame>>

\* Mutant: the move constructor does not empty its source.
MoveConstruct_keepsSource(p, q) ==
  /\ Ready /\ ~alive[p] /\ alive[q]
  /\ alive' = [alive EXCEPT ![p] = TRUE]
  /\ fds' = [fds EXCEPT ![p] = fds[q]]
  /\ UNCHANGED <<hazards, table, opened, others, frame>>

\* Pipe p = std::move(q);
MoveConstruct(p, q) ==
  /\ Ready /\ ~alive[p] /\ alive[q]
  /\ alive' = [alive EXCEPT ![p] = TRUE]
  /\ fds' = [fds EXCEPT ![p] = fds[q], ![q] = Empty]
  /\ UNCHANGED <<hazards, table, opened, others, frame>>

\* p.open(): asserts both ends invalid; a failing pipe(2) changes nothing.
Open(p) ==
  /\ Ready /\ alive[p] /\ fds[p] = Empty
  /\ \E r, w \in Fds :
       /\ SysPipe(r, w)
       /\ fds' = [fds EXCEPT ![p] = [s \in Sides |-> IF s = "r" THEN r ELSE w]]
  /\ UNCHANGED <<hazards, alive, others, frame>>

\* p = Pipe::openinit(), pipe(2) succeeds.
OpenInit(p) ==
  /\ Ready /\ ~alive[p]
  /\ alive' = [alive EXCEPT ![p] = TRUE]
  /\ \E r, w \in Fds :
       /\ SysPipe(r, w)
       /\ fds' = [fds EXCEPT ![p] = [s \in Sides |-> IF s = "r" THEN r ELSE w]]
  /\ UNCHANGED <<hazards, others, frame>>

\* pipe(2) fails in openinit() and leaves the slots as the NoInit constructor
\* did: uninitialised, so holding any numbers.  The version that throws
\* destroys the object while it unwinds, the one with a handler returns it.
OpenInitFails(p, throws) ==
  /\ "openinit" \in hazards
  /\ Ready /\ ~alive[p]
  /\ alive' = [alive EXCEPT ![p] = TRUE]
  /\ \E garbage \in [Sides -> Numbers] : fds' = [fds EXCEPT ![p] = garbage]
  /\ frame' = IF throws THEN [Idle EXCEPT !.op = "destroy", !.this = p]
              ELSE frame
  /\ UNCHANGED <<hazards, table, opened, others>>

\* Mutant: the Reader of an empty slot counts -1 as a descriptor.
MoveEnd_countsInvalid(p, s) ==
  /\ Ready /\ alive[p]
  /\ others' = others \cup {fds[p][s]}
  /\ fds' = [fds EXCEPT ![p][s] = Invalid]
  /\ UNCHANGED <<hazards, table, opened, alive, frame>>

\* p.rmove(), p.wmove(): the end goes to a Reader or a Writer.
MoveEnd(p, s) ==
  /\ Ready /\ alive[p]
  /\ others' = others \cup ({fds[p][s]} \ {Invalid})
  /\ fds' = [fds EXCEPT ![p][s] = Invalid]
  /\ UNCHANGED <<hazards, table, opened, alive, frame>>

\* p.rend().close(), p.wend().close(): the proxy's _fd is emptied, not the
\* pipe's.
ProxyClose(p, s) ==
  /\ "proxyclose" \in hazards
  /\ Ready /\ alive[p] /\ valid(p, s)
  /\ SysClose(fds[p][s])
  /\ UNCHANGED <<hazards, alive, fds, others, frame>>

\* p = std::move(q) begins.
MoveAssign(p, q) ==
  /\ Ready /\ alive[p] /\ alive[q]
  /\ p = q => "selfmove" \in hazards
  /\ frame' = [op |-> "assign", this |-> p, other |-> q, side |-> "r"]
  /\ UNCHANGED <<hazards, table, opened, alive, fds, others>>

\* What the move assignment asserts before it closes an end.
AssignAsserts ==
  frame.op = "assign" /\ valid(frame.this, frame.side)
  => fds[frame.this][frame.side] # fds[frame.other][Other(frame.side)]

\* Mutant: the assignment goes on to copy after the read end.
AssignEnd_skipsWriter(ok) ==
  LET n == fds[frame.this][frame.side]
  IN  /\ frame.op = "assign" /\ ok
      /\ IF n # Invalid /\ n # fds[frame.other][frame.side]
         THEN SysClose(n) ELSE UNCHANGED <<table, opened>>
      /\ frame' = [frame EXCEPT !.op = "take"]
      /\ UNCHANGED <<hazards, alive, fds, others>>

\* Mutant: an end is closed without a look at the source's.
AssignEnd_closesSame(ok) ==
  LET n == fds[frame.this][frame.side]
  IN  /\ frame.op = "assign" /\ ok
      /\ IF n # Invalid THEN SysClose(n) ELSE UNCHANGED <<table, opened>>
      /\ frame' = IF frame.side = "r" THEN [frame EXCEPT !.side = "w"]
                  ELSE [frame EXCEPT !.op = "take"]
      /\ UNCHANGED <<hazards, alive, fds, others>>

\* One end of the target: closed, through its proxy, when it is valid and not
\* the same as the source's.  A close that fails throws and the assignment is
\* abandoned.  A failing assertion aborts the program: no step.
AssignEnd(ok) ==
  LET n == fds[frame.this][frame.side]
  IN  /\ frame.op = "assign"
      /\ AssignAsserts
      /\ IF n # Invalid /\ n # fds[frame.other][frame.side]
         THEN /\ SysClose(n)
              /\ ok \/ "throwassign" \in hazards
         ELSE UNCHANGED <<table, opened>> /\ ok
      /\ frame' = CASE ~ok -> Idle
                    [] ok /\ frame.side = "r" -> [frame EXCEPT !.side = "w"]
                    [] ok /\ frame.side = "w" -> [frame EXCEPT !.op = "take"]
      /\ UNCHANGED <<hazards, alive, fds, others>>

\* The slots are copied, then those of the source emptied.
Take ==
  /\ frame.op = "take"
  /\ fds' = [fds EXCEPT ![frame.this] = fds[frame.other],
                        ![frame.other] = Empty]
  /\ frame' = Idle
  /\ UNCHANGED <<hazards, table, opened, alive, others>>

\* The destructor begins.
Destroy(p) ==
  /\ Ready /\ alive[p]
  /\ frame' = [Idle EXCEPT !.op = "destroy", !.this = p]
  /\ UNCHANGED <<hazards, table, opened, alive, fds, others>>

\* One end: closed when valid, errors ignored.  The slot dies with the object;
\* from its close on, nothing reads it again.
DestroyEnd ==
  LET p == frame.this
      s == frame.side
  IN  /\ frame.op = "destroy"
      /\ IF valid(p, s) THEN SysClose(fds[p][s]) ELSE UNCHANGED <<table, opened>>
      /\ fds' = [fds EXCEPT ![p][s] = Invalid]
      /\ frame' = IF s = "r" THEN [frame EXCEPT !.side = "w"] ELSE Idle
      /\ alive' = IF s = "w" THEN [alive EXCEPT ![p] = FALSE] ELSE alive
      /\ UNCHANGED <<hazards, others>>

\* The rest of the program opens a descriptor, or closes one of its own.
OtherOpens ==
  /\ \E n \in Fds : SysOpen(n) /\ others' = others \cup {n}
  /\ UNCHANGED <<hazards, alive, fds, frame>>

OtherCloses ==
  /\ \E n \in others : SysClose(n) /\ others' = others \ {n}
  /\ UNCHANGED <<hazards, alive, fds, frame>>

Next ==
  \/ \E p \in Pipes :
       \/ Construct(p) \/ Open(p) \/ OpenInit(p) \/ Destroy(p)
       \/ \E throws \in BOOLEAN : OpenInitFails(p, throws)
       \/ \E s \in Sides : MoveEnd(p, s) \/ ProxyClose(p, s)
       \/ \E q \in Pipes : MoveConstruct(p, q) \/ MoveAssign(p, q)
  \/ \E ok \in BOOLEAN : AssignEnd(ok)
  \/ Take \/ DestroyEnd \/ OtherOpens \/ OtherCloses

Spec == Init /\ [][Next]_vars
-----------------------------------------------------------------------------
\* A slot an assignment is past will be overwritten and is no claim any more.
Discarded(p, s) ==
  /\ frame.this = p /\ frame.other # p
  /\ frame.op = "take" \/ (frame.op = "assign" /\ frame.side = "w" /\ s = "r")

\* The slots that claim a descriptor.
Claims == {ps \in Pipes \X Sides :
             /\ alive[ps[1]] /\ ~Discarded(ps[1], ps[2])
             /\ valid(ps[1], ps[2])}

Num(ps) == fds[ps[1]][ps[2]]

\* The slots, the descriptor table and the call in progress keep their types.
TypeOK ==
  /\ TableTypeOK
  /\ alive \in [Pipes -> BOOLEAN]
  /\ fds \in [Pipes -> [Sides -> Numbers]]
  /\ others \subseteq Fds
  /\ frame \in Frames
  /\ hazards \in Programs

\* No two slots claim the same number, and none claims one of the rest of the
\* program: what an end closes is its own (Pipe.hxx, README.md:5-6).
OneHolder ==
  /\ \A c, d \in Claims : c # d => Num(c) # Num(d)
  /\ \A c \in Claims : Num(c) \notin others

\* Every number a slot or the rest of the program holds is open.
HeldIsOpen ==
  /\ \A c \in Claims : table[Num(c)] # NoFile
  /\ \A n \in others : table[n] # NoFile

\* Every open number is claimed by a slot or held by the rest of the program.
NoLeak ==
  \A n \in Fds : table[n] # NoFile =>
    n \in others \/ \E c \in Claims : Num(c) = n

\* A program that meets none of the hazards by which a slot keeps a number that
\* is not its own any more, or never was.
Careful == hazards \subseteq {"selfmove"}

\* In a careful program a slot never claims a number that another slot, a
\* Reader or Writer moved out, or the rest of the program holds, and every
\* number held is open: no close of a pipe hits a descriptor of someone else, no
\* call sees EBADF.  The assertions of the move assignment (Pipe.hxx:68, 75)
\* never fail: target and source never have crossed ends.
CarefulPipes == Careful => OneHolder /\ HeldIsOpen /\ AssignAsserts

\* Every open descriptor is held, by a pipe or by the others: whatever the
\* program closes too much, only an assignment to itself forgets one.
LeaksOnlyBySelfMove == "selfmove" \notin hazards => NoLeak

\* The abstract promise; a number held by the rest of the program is a place.
AbstractStatus ==
  [f \in Files |-> IF f > opened THEN "unused"
                   ELSE IF \E n \in Fds : table[n] = f THEN "held"
                   ELSE "released"]

AbstractHolders ==
  [f \in Files |-> {c \in Claims : table[Num(c)] = f}
                   \cup {<<"other", n>> : n \in {m \in others : table[m] = f}}]

Promise == INSTANCE Ownership WITH
  Resources <- Files, Places <- (Pipes \X Sides) \cup ({"other"} \X Fds),
  status <- AbstractStatus, holders <- AbstractHolders

\* In a program without hazards every file of a pipe is acquired once, held at
\* one place at a time and released once, by the place that holds it.
Owns ==
  Promise!Init /\ [][hazards = {} => [Promise!Next]_(Promise!vars)]_vars
=============================================================================
