----------------------------- MODULE Pipe_proofs -----------------------------
(***************************************************************************)
(* Proofs about Pipe, for any number of pipes, descriptors and openings.   *)
(***************************************************************************)
EXTENDS Pipe, TLAPS

\* The call in progress is about objects that exist.  An assignment is to
\* another pipe unless the program assigns pipes to themselves; a destructor
\* that is at the write end has closed the read end.
Calls ==
  /\ frame.op = "idle" => frame = Idle
  /\ frame.op # "idle" => frame.this \in Pipes /\ alive[frame.this]
  /\ frame.op \in {"assign", "take"} =>
       /\ frame.other \in Pipes /\ alive[frame.other]
       /\ frame.this = frame.other => "selfmove" \in hazards
  /\ frame.op = "destroy" =>
       /\ frame.other = NoPipe
       /\ frame.side = "w" => fds[frame.this]["r"] = Invalid

\* The number a slot claims, if any.
Val(p, s) == IF alive[p] /\ ~Discarded(p, s) THEN fds[p][s] ELSE Invalid

\* OneHolder and HeldIsOpen, and NoLeak, of the slots and the others.
Owned ==
  /\ \A p, q \in Pipes, s, t \in Sides :
       (p # q \/ s # t) /\ Val(p, s) # Invalid => Val(p, s) # Val(q, t)
  /\ \A p \in Pipes, s \in Sides :
       Val(p, s) # Invalid => Val(p, s) \notin others /\ table[Val(p, s)] # NoFile
  /\ \A n \in others : table[n] # NoFile

Found ==
  \A n \in Fds : table[n] # NoFile =>
    n \in others \/ \E p \in Pipes, s \in Sides : Val(p, s) = n

Holding == (Careful => Owned) /\ ("selfmove" \notin hazards => Found)

IInv == TypeOK /\ Calls /\ Holding
-----------------------------------------------------------------------------
\* The kernel's table keeps its type.
LEMMA TableSteps ==
  ASSUME TableTypeOK
  PROVE  /\ \A n \in Fds : SysOpen(n) => TableTypeOK'
         /\ \A n \in Fds : SysClose(n) => TableTypeOK'
         /\ \A r, w \in Fds : SysPipe(r, w) => TableTypeOK'
<1> USE FdTableAssumption DEF NoFile, Fds
<1>0. opened \in Nat /\ opened <= MaxOpens /\ table \in [Fds -> 0 .. opened]
  BY DEF TableTypeOK
<1>1. \A k \in Nat : table \in [Fds -> 0 .. opened + k]
  <2>1. \A k \in Nat : 0 .. opened \subseteq 0 .. opened + k
    BY <1>0
  <2> QED
    BY <1>0, <2>1
<1>2. ASSUME NEW n \in Fds, SysOpen(n) PROVE TableTypeOK'
  <2>1. opened' = opened + 1 /\ opened' <= MaxOpens /\ opened + 1 \in 0 .. opened + 1
        /\ table' = [table EXCEPT ![n] = opened + 1]
    BY <1>0, <1>2 DEF SysOpen
  <2> QED
    BY <1>0, <1>1, <2>1 DEF TableTypeOK
<1>3. ASSUME NEW n \in Fds, SysClose(n) PROVE TableTypeOK'
  BY <1>0, <1>3 DEF TableTypeOK, SysClose
<1>4. ASSUME NEW r \in Fds, NEW w \in Fds, SysPipe(r, w) PROVE TableTypeOK'
  <2>1. opened' = opened + 2 /\ opened' <= MaxOpens
        /\ opened + 1 \in 0 .. opened + 2 /\ opened + 2 \in 0 .. opened + 2
        /\ table' = [table EXCEPT ![r] = opened + 1, ![w] = opened + 2]
    BY <1>0, <1>4 DEF SysPipe
  <2>2. table' \in [Fds -> 0 .. opened + 2]
    BY <1>1, <2>1
  <2> QED
    BY <1>0, <2>1, <2>2, SMTT(30) DEF TableTypeOK
<1> QED
  BY <1>2, <1>3, <1>4

\* The calls in progress, and the slots, have the values the code gives them.
LEMMA Values ==
  /\ Idle \in Frames /\ Idle.op = "idle" /\ Idle.this = NoPipe
  /\ \A p \in Pipes, q \in Pipes \cup {NoPipe} :
       /\ [op |-> "assign", this |-> p, other |-> q, side |-> "r"] \in Frames
       /\ [Idle EXCEPT !.op = "destroy", !.this = p] \in Frames
  /\ \A f \in Frames : /\ [f EXCEPT !.side = "w"] \in Frames
                       /\ [f EXCEPT !.op = "take"] \in Frames
  /\ Empty \in [Sides -> Numbers]
  /\ \A r, w \in Fds :
       [s \in Sides |-> IF s = "r" THEN r ELSE w] \in [Sides -> Numbers]
BY DEF Idle, Frames, Sides, Empty, Numbers

\* The types are kept by the calls of the program.
LEMMA StepType == TypeOK /\ Calls /\ [Next]_vars => TypeOK'
<1> SUFFICES ASSUME TypeOK, Calls, [Next]_vars PROVE TypeOK'
  OBVIOUS
<1>0. ASSUME frame.op # "idle"
      PROVE  /\ frame.this \in Pipes /\ frame.side \in Sides /\ frame \in Frames
             /\ fds[frame.this] \in [Sides -> Numbers]
             /\ fds[frame.this][frame.side] # Invalid =>
                  fds[frame.this][frame.side] \in Fds
  BY <1>0 DEF TypeOK, Calls, Frames, Numbers
<1>1. ASSUME NEW p \in Pipes, Construct(p) \/ Destroy(p) PROVE TypeOK'
  BY <1>1, Values DEF Construct, Destroy, TypeOK, TableTypeOK
<1>2. ASSUME NEW p \in Pipes, Open(p) \/ OpenInit(p) PROVE TypeOK'
  <2>1. PICK r, w \in Fds :
          /\ SysPipe(r, w)
          /\ fds' = [fds EXCEPT ![p] = [s \in Sides |-> IF s = "r" THEN r ELSE w]]
    BY <1>2 DEF Open, OpenInit
  <2>2. TableTypeOK' /\ fds' \in [Pipes -> [Sides -> Numbers]]
    BY <2>1, TableSteps, Values DEF TypeOK
  <2> QED
    BY <1>2, <2>2 DEF Open, OpenInit, TypeOK
<1>3. ASSUME NEW p \in Pipes, NEW throws \in BOOLEAN, OpenInitFails(p, throws)
      PROVE  TypeOK'
  BY <1>3, Values DEF OpenInitFails, TypeOK, TableTypeOK
<1>4. ASSUME NEW p \in Pipes, NEW s \in Sides, MoveEnd(p, s) PROVE TypeOK'
  <2>1. fds[p] \in [Sides -> Numbers]
    BY DEF TypeOK
  <2>2. fds[p][s] \in Numbers /\ [fds[p] EXCEPT ![s] = Invalid] \in [Sides -> Numbers]
    BY <2>1 DEF Numbers
  <2>3. others' \subseteq Fds
    BY <1>4, <2>2 DEF MoveEnd, TypeOK, Numbers
  <2>4. fds' \in [Pipes -> [Sides -> Numbers]]
    BY <1>4, <2>2 DEF MoveEnd, TypeOK
  <2> QED
    BY <1>4, <2>3, <2>4 DEF MoveEnd, TypeOK, TableTypeOK
<1>5. ASSUME NEW p \in Pipes, NEW s \in Sides, ProxyClose(p, s) PROVE TypeOK'
  <2>1. fds[p][s] \in Fds
    BY <1>5 DEF ProxyClose, valid, TypeOK, Numbers
  <2> QED
    BY <1>5, <2>1, TableSteps DEF ProxyClose, TypeOK
<1>6. ASSUME NEW p \in Pipes, NEW q \in Pipes, MoveConstruct(p, q) \/ MoveAssign(p, q)
      PROVE  TypeOK'
  BY <1>6, Values DEF MoveConstruct, MoveAssign, TypeOK, TableTypeOK
<1>7. ASSUME NEW ok \in BOOLEAN, AssignEnd(ok) PROVE TypeOK'
  <2>1. TableTypeOK'
    <3>1. CASE UNCHANGED <<table, opened>>
      BY <3>1 DEF TypeOK, TableTypeOK
    <3>2. CASE /\ fds[frame.this][frame.side] # Invalid
               /\ SysClose(fds[frame.this][frame.side])
      BY <1>0, <1>7, <3>2, TableSteps DEF TypeOK, AssignEnd
    <3> QED
      BY <1>7, <3>1, <3>2 DEF AssignEnd
  <2>2. frame' \in Frames
    BY <1>0, <1>7, Values DEF AssignEnd, Sides
  <2> QED
    BY <1>7, <2>1, <2>2 DEF AssignEnd, TypeOK
<1>8. CASE Take
  <2>1. fds' \in [Pipes -> [Sides -> Numbers]]
    <3>1. frame.other \in Pipes
      BY <1>8 DEF Take, Calls
    <3> QED
      BY <1>8, <3>1, Values DEF Take, TypeOK
  <2> QED
    BY <1>8, <2>1, Values DEF Take, TypeOK, TableTypeOK
<1>9. CASE DestroyEnd
  <2>1. TableTypeOK'
    <3>1. CASE UNCHANGED <<table, opened>>
      BY <3>1 DEF TypeOK, TableTypeOK
    <3>2. CASE /\ fds[frame.this][frame.side] # Invalid
               /\ SysClose(fds[frame.this][frame.side])
      BY <1>0, <1>9, <3>2, TableSteps DEF TypeOK, DestroyEnd
    <3> QED
      BY <1>9, <3>1, <3>2 DEF DestroyEnd, valid
  <2> QED
    <3>1. [fds[frame.this] EXCEPT ![frame.side] = Invalid] \in [Sides -> Numbers]
      BY <1>0, <1>9 DEF DestroyEnd, Numbers
    <3>2. fds' \in [Pipes -> [Sides -> Numbers]] /\ frame' \in Frames
      BY <1>0, <1>9, <3>1, Values DEF DestroyEnd, TypeOK
    <3> QED
      BY <1>9, <2>1, <3>2 DEF DestroyEnd, TypeOK
<1>10. CASE OtherOpens \/ OtherCloses
  BY <1>10, TableSteps DEF OtherOpens, OtherCloses, TypeOK
<1>11. CASE UNCHANGED vars
  BY <1>11 DEF vars, TypeOK, TableTypeOK
<1> QED
  BY <1>1, <1>2, <1>3, <1>4, <1>5, <1>6, <1>7, <1>8, <1>9, <1>10, <1>11 DEF Next
-----------------------------------------------------------------------------
\* What a slot claims is a number of the table.
LEMMA ValNumbers ==
  ASSUME TypeOK, NEW p \in Pipes, NEW s \in Sides
  PROVE  Val(p, s) \in Numbers
BY DEF TypeOK, Val, Numbers

\* Two pipes may exchange what their slots claim; none changes when they are one.
LEMMA Exchange ==
  ASSUME Holding, hazards' = hazards, others' = others, table' = table,
         NEW p \in Pipes, NEW q \in Pipes,
         \A s \in Sides : Val(p, s)' = Val(q, s) /\ Val(q, s)' = Val(p, s),
         \A u \in Pipes \ {p, q}, s \in Sides : Val(u, s)' = Val(u, s)
  PROVE  Holding'
<1>1. ASSUME Owned PROVE Owned'
  BY <1>1 DEF Owned
<1>2. ASSUME Found PROVE Found'
  <2>1. ASSUME NEW n \in Fds, table'[n] # NoFile, n \notin others
        PROVE  \E u \in Pipes, s \in Sides : Val(u, s)' = n
    <3>1. PICK u \in Pipes, s \in Sides : Val(u, s) = n
      BY <1>2, <2>1 DEF Found
    <3> QED
      BY <3>1
  <2> QED
    BY <2>1 DEF Found, Fds, NoFile
<1> QED
  BY <1>1, <1>2 DEF Holding, Careful

\* Slots may forget a number that another one claims, or that the program
\* forgets by an assignment to itself.
LEMMA Forget ==
  ASSUME Holding, hazards' = hazards, others' = others, table' = table,
         \A p \in Pipes, s \in Sides : Val(p, s)' \in {Val(p, s), Invalid},
         \/ "selfmove" \in hazards
         \/ \A p \in Pipes, s \in Sides : Val(p, s) # Invalid =>
              \E q \in Pipes, t \in Sides : Val(q, t)' = Val(p, s)
  PROVE  Holding'
<1>1. ASSUME Owned PROVE Owned'
  BY <1>1 DEF Owned
<1>2. ASSUME Found, "selfmove" \notin hazards PROVE Found'
  <2>1. ASSUME NEW n \in Fds, table'[n] # NoFile, n \notin others
        PROVE  \E u \in Pipes, s \in Sides : Val(u, s)' = n
    <3>1. PICK u \in Pipes, s \in Sides : Val(u, s) = n
      BY <1>2, <2>1 DEF Found
    <3>2. n # Invalid
      BY DEF Fds, Invalid
    <3> QED
      BY <1>2, <3>1, <3>2
  <2> QED
    BY <2>1 DEF Found, Fds, NoFile
<1> QED
  BY <1>1, <1>2 DEF Holding, Careful

\* A slot gives up the number it claims, which is closed.
LEMMA CloseSlot ==
  ASSUME Holding, hazards' = hazards, others' = others, TypeOK,
         NEW p \in Pipes, NEW s \in Sides, Val(p, s)' = Invalid,
         \A q \in Pipes, t \in Sides : p # q \/ s # t => Val(q, t)' = Val(q, t),
         Val(p, s) # Invalid, SysClose(Val(p, s))
  PROVE  Holding'
<1>0. Val(p, s) \in Fds /\ table'[Val(p, s)] = NoFile
      /\ \A n \in Fds : n # Val(p, s) => table'[n] = table[n]
  BY ValNumbers DEF SysClose, TypeOK, TableTypeOK, Numbers
<1>1. ASSUME Owned PROVE Owned'
  BY <1>0, <1>1, ValNumbers DEF Owned, TypeOK, Numbers
<1>2. ASSUME Found PROVE Found'
  <2>1. ASSUME NEW n \in Fds, table'[n] # NoFile, n \notin others
        PROVE  \E u \in Pipes, t \in Sides : Val(u, t)' = n
    <3>1. PICK u \in Pipes, t \in Sides : Val(u, t) = n
      BY <1>0, <1>2, <2>1 DEF Found
    <3> QED
      BY <1>0, <2>1, <3>1
  <2> QED
    BY <2>1 DEF Found, Fds, NoFile
<1> QED
  BY <1>1, <1>2 DEF Holding, Careful

\* A program that is not careful may close any number a slot claims, and its
\* slots may claim any number, but what is open stays found.
LEMMA Careless ==
  ASSUME Holding, hazards' = hazards, others' = others, ~Careful,
         \A n \in Fds : table'[n] # NoFile => table'[n] = table[n],
         \A p \in Pipes, s \in Sides : Val(p, s) \in Fds =>
           Val(p, s)' = Val(p, s) \/ table'[Val(p, s)] = NoFile
  PROVE  Holding'
<1>1. ASSUME Found PROVE Found'
  <2>1. ASSUME NEW n \in Fds, table'[n] # NoFile, n \notin others
        PROVE  \E u \in Pipes, t \in Sides : Val(u, t)' = n
    <3>1. PICK u \in Pipes, t \in Sides : Val(u, t) = n
      BY <1>1, <2>1 DEF Found
    <3> QED
      BY <2>1, <3>1
  <2> QED
    BY <2>1 DEF Found, Fds, NoFile
<1> QED
  BY <1>1 DEF Holding, Careful

\* An empty pipe gets the two new numbers of pipe(2).
LEMMA OpenBoth ==
  ASSUME Holding, hazards' = hazards, others' = others, TypeOK,
         NEW p \in Pipes, NEW r \in Fds, NEW w \in Fds, SysPipe(r, w),
         \A s \in Sides : Val(p, s) = Invalid,
         Val(p, "r")' = r, Val(p, "w")' = w,
         \A q \in Pipes \ {p}, s \in Sides : Val(q, s)' = Val(q, s)
  PROVE  Holding'
<1> USE DEF Sides
<1>0. /\ r # w /\ table[r] = NoFile /\ table[w] = NoFile
      /\ table'[r] # NoFile /\ table'[w] # NoFile
      /\ \A n \in Fds \ {r, w} : table'[n] = table[n]
      /\ r # Invalid /\ w # Invalid
  BY DEF SysPipe, Lowest, FreeFds, TypeOK, TableTypeOK, NoFile, Fds, Invalid
<1>1. ASSUME Owned PROVE Owned'
  <2>1. ASSUME NEW q \in Pipes \ {p}, NEW s \in Sides, Val(q, s) # Invalid
        PROVE  Val(q, s) # r /\ Val(q, s) # w /\ table'[Val(q, s)] # NoFile
    BY <1>0, <1>1, <2>1, ValNumbers DEF Owned, Numbers
  <2>2. r \notin others /\ w \notin others /\ \A n \in others : table'[n] # NoFile
    BY <1>0, <1>1 DEF Owned, TypeOK
  <2> QED
    BY <1>0, <1>1, <2>1, <2>2 DEF Owned
<1>2. ASSUME Found PROVE Found'
  <2>1. ASSUME NEW n \in Fds, table'[n] # NoFile, n \notin others
        PROVE  \E u \in Pipes, t \in Sides : Val(u, t)' = n
    <3>1. CASE n \in {r, w}
      BY <3>1
    <3>2. CASE n \notin {r, w}
      <4>1. PICK u \in Pipes, t \in Sides : Val(u, t) = n
        BY <1>0, <1>2, <2>1, <3>2 DEF Found
      <4>2. u # p
        BY <4>1 DEF Fds, Invalid
      <4> QED
        BY <4>1, <4>2
    <3> QED
      BY <3>1, <3>2
  <2> QED
    BY <2>1 DEF Found, Fds, NoFile
<1> QED
  BY <1>1, <1>2 DEF Holding, Careful

\* A number that a slot claims becomes one of the others.
LEMMA HandOut ==
  ASSUME Holding, hazards' = hazards, table' = table,
         NEW p \in Pipes, NEW s \in Sides, Val(p, s)' = Invalid,
         others' = others \cup ({Val(p, s)} \ {Invalid}),
         \A q \in Pipes, t \in Sides : p # q \/ s # t => Val(q, t)' = Val(q, t)
  PROVE  Holding'
<1>1. ASSUME Owned PROVE Owned'
  BY <1>1 DEF Owned
<1>2. ASSUME Found PROVE Found'
  <2>1. ASSUME NEW n \in Fds, table'[n] # NoFile, n \notin others'
        PROVE  \E u \in Pipes, t \in Sides : Val(u, t)' = n
    <3>1. PICK u \in Pipes, t \in Sides : Val(u, t) = n
      BY <1>2, <2>1 DEF Found
    <3>2. n # Invalid
      BY DEF Fds, Invalid
    <3> QED
      BY <2>1, <3>1, <3>2
  <2> QED
    BY <2>1 DEF Found, Fds, NoFile
<1> QED
  BY <1>1, <1>2 DEF Holding, Careful

\* The rest of the program opens a new number and closes its own ones.
LEMMA OthersHold ==
  ASSUME Holding, TypeOK, OtherOpens \/ OtherCloses
  PROVE  Holding'
<1>0. /\ hazards' = hazards /\ \A p \in Pipes, s \in Sides : Val(p, s)' = Val(p, s)
      /\ \A p \in Pipes, s \in Sides : Val(p, s) # Invalid => Val(p, s) \in Fds
  BY ValNumbers DEF OtherOpens, OtherCloses, Val, Discarded, Numbers
<1>1. ASSUME NEW n \in Fds, SysOpen(n), others' = others \cup {n} PROVE Holding'
  <2>1. /\ table[n] = NoFile /\ table'[n] # NoFile
        /\ \A m \in Fds : m # n => table'[m] = table[m]
    BY <1>1 DEF SysOpen, Lowest, FreeFds, TypeOK, TableTypeOK, NoFile
  <2>2. Owned => Owned'
    BY <1>0, <1>1, <2>1 DEF Owned, TypeOK
  <2>3. Found => Found'
    BY <1>0, <1>1, <2>1 DEF Found
  <2> QED
    BY <1>0, <2>2, <2>3 DEF Holding, Careful
<1>2. ASSUME NEW n \in others, SysClose(n), others' = others \ {n} PROVE Holding'
  <2>1. /\ n \in Fds /\ table'[n] = NoFile
        /\ \A m \in Fds : m # n => table'[m] = table[m]
    BY <1>2 DEF SysClose, TypeOK, TableTypeOK
  <2>2. Owned => Owned'
    BY <1>0, <1>2, <2>1 DEF Owned, TypeOK
  <2>3. Found => Found'
    BY <1>0, <1>2, <2>1 DEF Found
  <2> QED
    BY <1>0, <2>2, <2>3 DEF Holding, Careful
<1> QED
  BY <1>1, <1>2 DEF OtherOpens, OtherCloses
-----------------------------------------------------------------------------
\* The call in progress stays well formed.
LEMMA StepCalls == TypeOK /\ Calls /\ Next => Calls'
<1> SUFFICES ASSUME TypeOK, Calls, Next PROVE Calls'
  OBVIOUS
<1> USE PipesAssumption
<1>1. ASSUME NEW p \in Pipes,
             \/ Construct(p) \/ Open(p) \/ OpenInit(p)
             \/ \E s \in Sides : MoveEnd(p, s)
             \/ \E s \in Sides : ProxyClose(p, s)
             \/ \E q \in Pipes : MoveConstruct(p, q)
      PROVE  Calls'
  <2>1. Ready /\ frame' = frame
    BY <1>1 DEF Construct, Open, OpenInit, MoveEnd, ProxyClose, MoveConstruct
  <2> QED
    BY <2>1, Values DEF Calls, Ready
<1>2. ASSUME NEW p \in Pipes, NEW throws \in BOOLEAN, OpenInitFails(p, throws)
      PROVE  Calls'
  <2>1. alive'[p]
    BY <1>2 DEF OpenInitFails, TypeOK
  <2> QED
    BY <1>2, <2>1 DEF OpenInitFails, Ready, Idle, Calls
<1>3. ASSUME NEW p \in Pipes, Destroy(p) PROVE Calls'
  BY <1>3 DEF Destroy, Ready, Idle, Calls
<1>4. ASSUME NEW p \in Pipes, NEW q \in Pipes, MoveAssign(p, q) PROVE Calls'
  BY <1>4 DEF MoveAssign, Ready, Idle, Calls
<1>5. ASSUME NEW ok \in BOOLEAN, AssignEnd(ok) PROVE Calls'
  <2>1. frame' \in {Idle, [frame EXCEPT !.side = "w"], [frame EXCEPT !.op = "take"]}
    BY <1>5 DEF AssignEnd, TypeOK, Frames, Sides
  <2>2. /\ frame.op = "assign" /\ frame \in Frames
        /\ UNCHANGED <<hazards, alive, fds>>
    BY <1>5 DEF AssignEnd, TypeOK
  <2>3. CASE frame' = Idle
    BY <2>3 DEF Calls, Idle
  <2>4. CASE frame' \in {[frame EXCEPT !.side = "w"], [frame EXCEPT !.op = "take"]}
    <3>1. frame'.op \in {"assign", "take"} /\ frame'.this = frame.this
          /\ frame'.other = frame.other
      BY <2>2, <2>4 DEF Frames
    <3> QED
      BY <2>2, <3>1 DEF Calls
  <2> QED
    BY <2>1, <2>3, <2>4
<1>6. CASE Take
  BY <1>6 DEF Take, Calls, Idle
<1>7. CASE DestroyEnd
  <2>1. CASE frame.side = "r"
    <3>1. fds'[frame.this]["r"] = Invalid
      BY <1>7, <2>1 DEF DestroyEnd, Calls, TypeOK, Sides
    <3> QED
      BY <1>7, <2>1, <3>1 DEF DestroyEnd, Calls, TypeOK, Frames
  <2>2. CASE frame.side # "r"
    BY <1>7, <2>2 DEF DestroyEnd, Calls, Idle
  <2> QED
    BY <2>1, <2>2
<1>8. CASE OtherOpens \/ OtherCloses
  BY <1>8 DEF OtherOpens, OtherCloses, Calls
<1> QED
  BY <1>1, <1>2, <1>3, <1>4, <1>5, <1>6, <1>7, <1>8 DEF Next
-----------------------------------------------------------------------------
\* What slots claim changes with the call in progress and the step.
LEMMA StepHolds == IInv /\ Next => Holding'
<1> SUFFICES ASSUME IInv, Next PROVE Holding'
  OBVIOUS
<1> USE PipesAssumption DEF IInv
<1>0. /\ Ready => \A p \in Pipes, s \in Sides : ~Discarded(p, s)
      /\ \A p \in Pipes : ~alive[p] => \A s \in Sides : Val(p, s) = Invalid
      /\ TypeOK /\ Holding /\ Calls
  BY DEF Ready, Idle, Discarded, Val
<1>1. ASSUME NEW p \in Pipes, Construct(p) PROVE Holding'
  <2>1. \A s \in Sides : Val(p, s) = Invalid /\ Val(p, s)' = Invalid
    BY <1>0, <1>1 DEF Construct, Val, TypeOK, Empty
  <2>2. \A u \in Pipes \ {p}, s \in Sides : Val(u, s)' = Val(u, s)
    BY <1>1 DEF Construct, Val, Discarded, TypeOK
  <2> QED
    BY <1>0, <1>1, <2>1, <2>2, Exchange DEF Construct
<1>2. ASSUME NEW p \in Pipes, NEW q \in Pipes, MoveConstruct(p, q) PROVE Holding'
  <2>0. Ready /\ frame' = frame /\ ~alive[p] /\ alive[q] /\ p # q
    BY <1>2 DEF MoveConstruct
  <2>1. \A s \in Sides : /\ Val(p, s) = Invalid /\ Val(p, s)' = fds[q][s]
                         /\ Val(q, s) = fds[q][s] /\ Val(q, s)' = Invalid
    <3>1. \A u \in Pipes, s \in Sides : ~Discarded(u, s)'
      BY <2>0, <1>0 DEF Discarded
    <3> QED
      BY <1>0, <1>2, <2>0, <3>1 DEF MoveConstruct, Val, TypeOK, Empty
  <2>2. \A u \in Pipes \ {p, q}, s \in Sides : Val(u, s)' = Val(u, s)
    BY <1>2 DEF MoveConstruct, Val, Discarded, TypeOK
  <2> QED
    BY <1>0, <1>2, <2>1, <2>2, Exchange DEF MoveConstruct
<1>3. ASSUME NEW p \in Pipes, Open(p) \/ OpenInit(p) PROVE Holding'
  <2>0. Ready /\ frame' = frame /\ others' = others /\ hazards' = hazards
        /\ alive'[p] /\ \A u \in Pipes \ {p} : alive'[u] = alive[u]
    BY <1>3 DEF Open, OpenInit, TypeOK
  <2>1. PICK r, w \in Fds :
          /\ SysPipe(r, w)
          /\ fds' = [fds EXCEPT ![p] = [s \in Sides |-> IF s = "r" THEN r ELSE w]]
    BY <1>3 DEF Open, OpenInit
  <2>2. \A u \in Pipes, s \in Sides : ~Discarded(u, s)'
    BY <2>0, <1>0 DEF Discarded
  <2>3. Val(p, "r")' = r /\ Val(p, "w")' = w
    BY <2>0, <2>1, <2>2 DEF Val, TypeOK, Sides
  <2>4. \A s \in Sides : Val(p, s) = Invalid
    BY <1>0, <1>3 DEF Open, OpenInit, Val, Empty
  <2>5. \A u \in Pipes \ {p}, s \in Sides : Val(u, s)' = Val(u, s)
    BY <2>0, <2>1, <2>2, <1>0 DEF Val, TypeOK
  <2> QED
    BY <1>0, <2>0, <2>1, <2>3, <2>4, <2>5, OpenBoth
<1>4. ASSUME NEW p \in Pipes, NEW throws \in BOOLEAN, OpenInitFails(p, throws)
      PROVE  Holding'
  <2>1. ~Careful
    BY <1>4 DEF OpenInitFails, Careful
  <2>2. \A u \in Pipes \ {p}, s \in Sides : Val(u, s)' = Val(u, s)
    BY <1>4 DEF OpenInitFails, Val, Discarded, TypeOK, Ready, Idle
  <2>3. \A s \in Sides : Val(p, s) \notin Fds
    BY <1>0, <1>4 DEF OpenInitFails, Fds, Invalid
  <2> QED
    BY <1>0, <1>4, <2>1, <2>2, <2>3, Careless DEF OpenInitFails
<1>5. ASSUME NEW p \in Pipes, NEW s \in Sides, MoveEnd(p, s) PROVE Holding'
  <2>0. Val(p, s) = fds[p][s] /\ \A u \in Pipes, t \in Sides : ~Discarded(u, t)'
    BY <1>0, <1>5 DEF MoveEnd, Val, Discarded
  <2>1. Val(p, s)' = Invalid
    BY <1>5 DEF MoveEnd, Val, TypeOK
  <2>2. \A u \in Pipes, t \in Sides : p # u \/ s # t => Val(u, t)' = Val(u, t)
    BY <1>5 DEF MoveEnd, Val, Discarded, TypeOK
  <2> QED
    BY <1>0, <1>5, <2>0, <2>1, <2>2, HandOut DEF MoveEnd
<1>6. ASSUME NEW p \in Pipes, NEW s \in Sides, ProxyClose(p, s) PROVE Holding'
  <2>1. ~Careful
    BY <1>6 DEF ProxyClose, Careful
  <2>2. \A u \in Pipes, t \in Sides : Val(u, t)' = Val(u, t)
    BY <1>6 DEF ProxyClose, Val, Discarded
  <2>3. \A n \in Fds : table'[n] # NoFile => table'[n] = table[n]
    BY <1>6 DEF ProxyClose, SysClose, TypeOK, TableTypeOK
  <2> QED
    BY <1>0, <1>6, <2>1, <2>2, <2>3, Careless DEF ProxyClose
<1>7. ASSUME NEW p \in Pipes, NEW q \in Pipes, MoveAssign(p, q) PROVE Holding'
  <2>1. \A u \in Pipes, t \in Sides : Val(u, t)' = Val(u, t)
    BY <1>0, <1>7 DEF MoveAssign, Val, Discarded
  <2> QED
    BY <1>0, <1>7, <2>1, Exchange DEF MoveAssign
<1>8. ASSUME NEW p \in Pipes, Destroy(p) PROVE Holding'
  <2>1. \A u \in Pipes, t \in Sides : Val(u, t)' = Val(u, t)
    BY <1>0, <1>8 DEF Destroy, Val, Discarded, Idle
  <2> QED
    BY <1>0, <1>8, <2>1, Exchange DEF Destroy
<1>9. ASSUME NEW ok \in BOOLEAN, AssignEnd(ok) PROVE Holding'
  <2>0. PICK g \in Pipes, h \in Pipes, sd \in Sides :
          g = frame.this /\ h = frame.other /\ sd = frame.side
    BY <1>9 DEF AssignEnd, Calls, TypeOK, Frames
  <2>1. /\ frame.op = "assign" /\ alive[g] /\ alive[h] /\ frame \in Frames
        /\ UNCHANGED <<hazards, alive, fds, others>>
    BY <1>9, <2>0 DEF AssignEnd, Calls, TypeOK
  <2>2. /\ Val(g, sd) = fds[g][sd]
        /\ g # h => \A s \in Sides : Val(h, s) = fds[h][s] /\ Val(h, s)' = fds[h][s]
    <3>1. ~Discarded(g, sd) /\ (g # h => \A s \in Sides : ~Discarded(h, s))
      BY <2>0, <2>1 DEF Discarded, Sides
    <3>2. g # h => \A s \in Sides : ~Discarded(h, s)'
      <4>1. frame'.this \in {g, NoPipe}
        BY <1>9, <2>0, <2>1 DEF AssignEnd, Frames, Idle, Sides
      <4> QED
        BY <4>1 DEF Discarded
    <3> QED
      BY <2>1, <3>1, <3>2 DEF Val
  <2>3. CASE ok
    <3>1. frame' \in {[frame EXCEPT !.side = "w"], [frame EXCEPT !.op = "take"]}
          /\ (frame' = [frame EXCEPT !.side = "w"] => sd = "r")
          /\ (frame' = [frame EXCEPT !.op = "take"] => sd = "w")
      BY <1>9, <2>0, <2>1, <2>3 DEF AssignEnd, Frames, Sides
    <3>2. frame'.this = g /\ frame'.other = h /\ frame'.op \in {"assign", "take"}
          /\ (sd = "r" => frame'.op = "assign" /\ frame'.side = "w")
          /\ (sd = "w" => frame'.op = "take")
      BY <2>0, <2>1, <3>1 DEF Frames, Sides
    <3>3. \A u \in Pipes, t \in Sides : g # u \/ sd # t => Val(u, t)' = Val(u, t)
      BY <2>0, <2>1, <3>2 DEF Val, Discarded, Sides
    <3>4. CASE g = h
      <4>1. Val(g, sd)' = Val(g, sd)
        BY <2>0, <2>1, <3>2, <3>4 DEF Val, Discarded
      <4>2. table' = table
        BY <1>9, <2>0, <3>4 DEF AssignEnd
      <4> QED
        BY <1>0, <2>1, <3>3, <4>1, <4>2, Exchange
    <3>5. CASE g # h
      <4>1. Val(g, sd)' = Invalid
        BY <2>0, <3>2, <3>5 DEF Val, Discarded, Sides
      <4>2. CASE fds[g][sd] # Invalid /\ fds[g][sd] # fds[h][sd]
        <5>1. SysClose(Val(g, sd))
          BY <1>9, <2>0, <2>2, <4>2 DEF AssignEnd
        <5> QED
          BY <1>0, <2>1, <2>2, <3>3, <4>1, <4>2, <5>1, CloseSlot
      <4>3. CASE ~(fds[g][sd] # Invalid /\ fds[g][sd] # fds[h][sd])
        <5>1. table' = table
          BY <1>9, <2>0, <4>3 DEF AssignEnd
        <5>2. Val(g, sd) # Invalid => Val(h, sd)' = Val(g, sd)
          BY <2>2, <3>5, <4>3
        <5>3. /\ \A u \in Pipes, t \in Sides : Val(u, t)' \in {Val(u, t), Invalid}
              /\ \A u \in Pipes, t \in Sides : Val(u, t) # Invalid =>
                   \E q \in Pipes, r \in Sides : Val(q, r)' = Val(u, t)
          BY <3>3, <4>1, <5>2
        <5> QED
          BY <1>0, <2>1, <5>1, <5>3, Forget
      <4> QED
        BY <4>2, <4>3
    <3> QED
      BY <3>4, <3>5
  <2>4. CASE ~ok
    <3>1. ~Careful /\ SysClose(fds[g][sd])
      BY <1>9, <2>0, <2>4 DEF AssignEnd, Careful
    <3>2. \A n \in Fds : table'[n] # NoFile => table'[n] = table[n]
      BY <3>1 DEF SysClose, TypeOK, TableTypeOK
    <3>3. frame' = Idle
      BY <1>9, <2>4 DEF AssignEnd
    <3>4. \A u \in Pipes, t \in Sides : Val(u, t) \in Fds => Val(u, t)' = Val(u, t)
      BY <2>1, <3>3 DEF Val, Discarded, Idle, Fds, Invalid
    <3> QED
      BY <1>0, <2>1, <3>1, <3>2, <3>4, Careless
  <2> QED
    BY <2>3, <2>4
<1>10. CASE Take
  <2>0. PICK g \in Pipes, h \in Pipes : g = frame.this /\ h = frame.other
    BY <1>10 DEF Take, Calls
  <2>1. /\ frame.op = "take" /\ alive[g] /\ alive[h] /\ frame' = Idle
        /\ fds' = [fds EXCEPT ![g] = fds[h], ![h] = Empty]
        /\ UNCHANGED <<hazards, table, alive, others>>
    BY <1>10, <2>0 DEF Take, Calls
  <2>2. \A u \in Pipes, t \in Sides : ~Discarded(u, t)'
    BY <2>1 DEF Discarded, Idle
  <2>3. \A u \in Pipes \ {g, h}, t \in Sides : Val(u, t)' = Val(u, t)
    BY <2>0, <2>1, <2>2 DEF Val, Discarded, TypeOK
  <2>4. CASE g # h
    <3>1. \A s \in Sides : /\ Val(g, s) = Invalid /\ Val(h, s) = fds[h][s]
                           /\ Val(g, s)' = fds[h][s] /\ Val(h, s)' = Invalid
      BY <2>0, <2>1, <2>2, <2>4 DEF Val, Discarded, TypeOK, Empty
    <3> QED
      BY <1>0, <2>1, <2>3, <3>1, Exchange
  <2>5. CASE g = h
    <3>1. "selfmove" \in hazards
      BY <2>0, <2>1, <2>5 DEF Calls
    <3>2. \A s \in Sides : Val(g, s)' = Invalid
      BY <2>1, <2>2, <2>5 DEF Val, TypeOK, Empty
    <3> QED
      BY <1>0, <2>1, <2>3, <2>5, <3>1, <3>2, Forget
  <2> QED
    BY <2>4, <2>5
<1>11. CASE DestroyEnd
  <2>0. PICK g \in Pipes, sd \in Sides : g = frame.this /\ sd = frame.side
    BY <1>11 DEF DestroyEnd, Calls, TypeOK, Frames
  <2>1. /\ frame.op = "destroy" /\ alive[g] /\ frame \in Frames
        /\ fds' = [fds EXCEPT ![g][sd] = Invalid]
        /\ alive' = IF sd = "w" THEN [alive EXCEPT ![g] = FALSE] ELSE alive
        /\ UNCHANGED <<hazards, others>>
        /\ IF fds[g][sd] # Invalid THEN SysClose(fds[g][sd]) ELSE UNCHANGED table
    BY <1>11, <2>0 DEF DestroyEnd, Calls, TypeOK, valid
  <2>2. \A u \in Pipes, t \in Sides : ~Discarded(u, t) /\ ~Discarded(u, t)'
    <3>1. frame'.op \in {"destroy", "idle"}
      BY <1>11, <2>1 DEF DestroyEnd, Frames, Idle
    <3> QED
      BY <2>1, <3>1 DEF Discarded
  <2>3. Val(g, sd) = fds[g][sd] /\ Val(g, sd)' = Invalid
    BY <2>1, <2>2 DEF Val, TypeOK
  <2>4. \A u \in Pipes, t \in Sides : g # u \/ sd # t => Val(u, t)' = Val(u, t)
    <3>1. ASSUME NEW u \in Pipes, NEW t \in Sides, g # u PROVE Val(u, t)' = Val(u, t)
      BY <2>1, <2>2, <3>1 DEF Val, TypeOK
    <3>2. ASSUME NEW t \in Sides, sd # t, sd = "r" PROVE Val(g, t)' = Val(g, t)
      BY <2>1, <2>2, <3>2 DEF Val, TypeOK, Sides
    <3>3. ASSUME NEW t \in Sides, sd # t, sd = "w" PROVE Val(g, t)' = Val(g, t)
      <4>1. t = "r" /\ fds[g]["r"] = Invalid
        BY <2>0, <2>1, <3>3 DEF Calls, Sides
      <4>2. ~alive'[g]
        BY <2>1, <3>3 DEF TypeOK
      <4> QED
        BY <4>1, <4>2 DEF Val
    <3> QED
      BY <3>1, <3>2, <3>3 DEF Sides
  <2>5. CASE fds[g][sd] # Invalid
    BY <1>0, <2>1, <2>3, <2>4, <2>5, CloseSlot
  <2>6. CASE fds[g][sd] = Invalid
    BY <1>0, <2>1, <2>3, <2>4, <2>6, Exchange
  <2> QED
    BY <2>5, <2>6
<1>12. CASE OtherOpens \/ OtherCloses
  BY <1>0, <1>12, OthersHold
<1> QED
  BY <1>1, <1>2, <1>3, <1>4, <1>5, <1>6, <1>7, <1>8, <1>9, <1>10, <1>11, <1>12
  DEF Next
-----------------------------------------------------------------------------
\* No pipe exists at first.
LEMMA InitIInv == Init => IInv
<1> SUFFICES ASSUME Init PROVE IInv
  OBVIOUS
<1> USE FdTableAssumption, PipesAssumption
<1>1. TypeOK
  <2>1. TableTypeOK
    BY DEF Init, TableInit, TableTypeOK, NoFile
  <2>2. fds \in [Pipes -> [Sides -> Numbers]] /\ frame \in Frames
    BY Values DEF Init
  <2> QED
    BY <2>1, <2>2 DEF Init, TypeOK
<1>2. Calls
  BY Values DEF Init, Calls
<1>3. /\ \A p \in Pipes, s \in Sides : Val(p, s) = Invalid
      /\ \A n \in Fds : table[n] = NoFile
      /\ others = {}
  BY DEF Init, TableInit, Val
<1> QED
  BY <1>1, <1>2, <1>3 DEF IInv, Holding, Owned, Found

\* The invariant is inductive.
LEMMA StepIInv == IInv /\ [Next]_vars => IInv'
<1> SUFFICES ASSUME IInv, [Next]_vars PROVE IInv'
  OBVIOUS
<1>1. CASE Next
  BY <1>1, StepType, StepCalls, StepHolds DEF IInv
<1>2. CASE UNCHANGED vars
  <2>1. TypeOK' /\ Calls'
    BY <1>2 DEF IInv, vars, TypeOK, TableTypeOK, Calls
  <2>2. \A p \in Pipes, s \in Sides : Val(p, s)' = Val(p, s)
    BY <1>2 DEF vars, Val, Discarded
  <2>3. (Owned => Owned') /\ (Found => Found')
    BY <1>2, <2>2 DEF vars, Owned, Found
  <2> QED
    BY <1>2, <2>1, <2>3 DEF IInv, vars, Holding, Careful
<1> QED
  BY <1>1, <1>2

\* The invariant gives the properties the runs check: a slot is in Claims when
\* it claims a number.
LEMMA IInvImplies == IInv => CarefulPipes /\ LeaksOnlyBySelfMove
<1> SUFFICES ASSUME IInv PROVE CarefulPipes /\ LeaksOnlyBySelfMove
  OBVIOUS
<1>1. /\ \A p \in Pipes, s \in Sides :
           Val(p, s) # Invalid <=> <<p, s>> \in Claims
      /\ \A p \in Pipes, s \in Sides :
           Val(p, s) # Invalid => Num(<<p, s>>) = Val(p, s)
      /\ \A c \in Claims : c \in Pipes \X Sides /\ c = <<c[1], c[2]>>
  BY DEF Claims, Val, valid, Num
<1>2. ASSUME Careful PROVE OneHolder /\ HeldIsOpen /\ AssignAsserts
  <2>1. Owned
    BY <1>2 DEF IInv, Holding
  <2>2. ASSUME NEW c \in Claims, NEW d \in Claims, c # d PROVE Num(c) # Num(d)
    <3>1. PICK p \in Pipes, s \in Sides : c = <<p, s>>
      BY <1>1
    <3>2. PICK q \in Pipes, t \in Sides : d = <<q, t>>
      BY <1>1
    <3>3. (p # q \/ s # t) /\ Val(p, s) # Invalid /\ Val(q, t) # Invalid
      BY <1>1, <2>2, <3>1, <3>2
    <3> QED
      BY <1>1, <2>1, <3>1, <3>2, <3>3 DEF Owned
  <2>3. ASSUME NEW c \in Claims PROVE Num(c) \notin others /\ table[Num(c)] # NoFile
    <3>1. PICK p \in Pipes, s \in Sides : c = <<p, s>>
      BY <1>1
    <3> QED
      BY <1>1, <2>1, <3>1 DEF Owned
  <2>4. AssignAsserts
    <3> SUFFICES ASSUME frame.op = "assign", valid(frame.this, frame.side)
                 PROVE  fds[frame.this][frame.side]
                          # fds[frame.other][Other(frame.side)]
      BY DEF AssignAsserts
    <3>1. PICK g \in Pipes, h \in Pipes, sd \in Sides :
            g = frame.this /\ h = frame.other /\ sd = frame.side
      BY DEF IInv, Calls, TypeOK, Frames
    <3>2. alive[g] /\ alive[h] /\ Other(sd) \in Sides /\ Other(sd) # sd
      BY <3>1 DEF IInv, Calls, Other, Sides
    <3>3. Val(g, sd) = fds[g][sd] /\ fds[g][sd] # Invalid
      BY <3>1, <3>2 DEF Val, Discarded, valid, Sides
    <3>4. g # h => Val(h, Other(sd)) = fds[h][Other(sd)]
      BY <3>1, <3>2 DEF Val, Discarded
    <3>5. g = h => Val(h, Other(sd)) = fds[h][Other(sd)]
      BY <3>1, <3>2 DEF Val, Discarded
    <3> QED
      BY <2>1, <3>1, <3>2, <3>3, <3>4, <3>5 DEF Owned
  <2> QED
    BY <2>1, <2>2, <2>3, <2>4 DEF Owned, OneHolder, HeldIsOpen
<1>3. ASSUME "selfmove" \notin hazards PROVE NoLeak
  <2>1. ASSUME NEW n \in Fds, table[n] # NoFile, n \notin others
        PROVE  \E c \in Claims : Num(c) = n
    <3>1. PICK p \in Pipes, s \in Sides : Val(p, s) = n
      BY <1>3, <2>1 DEF IInv, Holding, Found
    <3>2. Val(p, s) # Invalid
      BY <3>1 DEF Fds, Invalid
    <3> QED
      BY <1>1, <3>1, <3>2
  <2> QED
    BY <2>1 DEF NoLeak
<1> QED
  BY <1>2, <1>3 DEF CarefulPipes, LeaksOnlyBySelfMove
-----------------------------------------------------------------------------
\* The slots, the table and the call in progress keep their types, for any
\* number of pipes, descriptors and openings (Pipe's members and calls).
THEOREM TypeCorrect == Spec => []TypeOK
<1>1. Spec => []IInv
  BY InitIInv, StepIInv, PTL DEF Spec
<1>2. IInv => TypeOK
  BY DEF IInv
<1> QED
  BY <1>1, <1>2, PTL

\* In a careful program no two ends hold one number, what they hold is open,
\* and the assertions of the move assignment hold, whatever the order of the
\* closes of Pipe's calls and of the opens and closes of the others.
THEOREM EndsAreOwned == Spec => []CarefulPipes
<1>1. Spec => []IInv
  BY InitIInv, StepIInv, PTL DEF Spec
<1>2. IInv => CarefulPipes
  BY IInvImplies
<1> QED
  BY <1>1, <1>2, PTL

\* No call of Pipe but an assignment of a pipe to itself forgets an open
\* descriptor, whatever slots of the program have gone stale.
THEOREM NothingLost == Spec => []LeaksOnlyBySelfMove
<1>1. Spec => []IInv
  BY InitIInv, StepIInv, PTL DEF Spec
<1>2. IInv => LeaksOnlyBySelfMove
  BY IInvImplies
<1> QED
  BY <1>1, <1>2, PTL
-----------------------------------------------------------------------------
(***************************************************************************)
(* The refinement.  The mapping names the holders of a file through its    *)
(* number, so that no file has two numbers has to be known as well.        *)
(***************************************************************************)
OneNumber ==
  \A m, n \in Fds : m # n /\ table[m] # NoFile => table[m] # table[n]

Holders == (Pipes \X Sides) \cup ({"other"} \X Fds)

\* What the mapping makes of a state: a file that is held has one holder, any
\* other none, and no place holds two files.
MapOK ==
  /\ AbstractStatus \in [Files -> {"unused", "held", "released"}]
  /\ AbstractHolders \in [Files -> SUBSET Holders]
  /\ \A f \in Files :
       IF AbstractStatus[f] = "held"
       THEN \E p \in Holders : AbstractHolders[f] = {p}
       ELSE AbstractHolders[f] = {}
  /\ \A f, g \in Files : f # g => AbstractHolders[f] \cap AbstractHolders[g] = {}

\* What a step may do to the status of a file.
Advances(f) ==
  \/ AbstractStatus'[f] = AbstractStatus[f]
  \/ AbstractStatus[f] = "unused" /\ AbstractStatus'[f] = "held"
  \/ AbstractStatus[f] = "held" /\ AbstractStatus'[f] = "released"

\* A step opens one file or two, closes one number or leaves the table alone.
LEMMA TableStep ==
  ASSUME IInv, [Next]_vars
  PROVE  \/ UNCHANGED <<table, opened>>
         \/ \E n \in Fds : SysOpen(n) \/ SysClose(n)
         \/ \E r, w \in Fds : SysPipe(r, w)
<1>0. TypeOK /\ Calls
  BY DEF IInv
<1>1. ASSUME NEW p \in Pipes, Open(p) \/ OpenInit(p)
      PROVE  \E r, w \in Fds : SysPipe(r, w)
  BY <1>1 DEF Open, OpenInit
<1>2. ASSUME NEW p \in Pipes, NEW s \in Sides, ProxyClose(p, s)
      PROVE  \E n \in Fds : SysClose(n)
  BY <1>0, <1>2 DEF ProxyClose, valid, TypeOK, Numbers
<1>3. CASE DestroyEnd \/ \E ok \in BOOLEAN : AssignEnd(ok)
  <2>1. fds[frame.this][frame.side] \in Numbers
    BY <1>0, <1>3 DEF DestroyEnd, AssignEnd, Calls, TypeOK, Frames
  <2> QED
    BY <1>3, <2>1 DEF DestroyEnd, AssignEnd, valid, Numbers
<1>4. CASE OtherOpens \/ OtherCloses
  BY <1>0, <1>4 DEF OtherOpens, OtherCloses, TypeOK
<1> QED
  BY <1>1, <1>2, <1>3, <1>4
  DEF Next, Construct, Destroy, OpenInitFails, MoveEnd, MoveConstruct, MoveAssign,
      Take, vars

\* The kernel gives a new file one number.
LEMMA OneNumberStep == IInv /\ OneNumber /\ [Next]_vars => OneNumber'
<1> SUFFICES ASSUME IInv, OneNumber, [Next]_vars PROVE OneNumber'
  OBVIOUS
<1> USE FdTableAssumption DEF OneNumber, Fds, NoFile
<1>0. TableTypeOK
  BY DEF IInv, TypeOK
<1>1. CASE UNCHANGED <<table, opened>>
  BY <1>1
<1>2. ASSUME NEW n \in Fds, SysOpen(n) PROVE OneNumber'
  BY <1>0, <1>2 DEF SysOpen, TableTypeOK
<1>3. ASSUME NEW n \in Fds, SysClose(n) PROVE OneNumber'
  BY <1>0, <1>3 DEF SysClose, TableTypeOK
<1>4. ASSUME NEW r \in Fds, NEW w \in Fds, SysPipe(r, w) PROVE OneNumber'
  <2>1. /\ r # w /\ table' = [table EXCEPT ![r] = opened + 1, ![w] = opened + 2]
        /\ opened \in Nat /\ table \in [Fds -> 0 .. opened]
    BY <1>0, <1>4 DEF SysPipe, TableTypeOK, Lowest
  <2>2. /\ table'[r] = opened + 1 /\ table'[w] = opened + 2
        /\ \A n \in Fds \ {r, w} : table'[n] = table[n] /\ table[n] \in 0 .. opened
    BY <2>1
  <2>3. ASSUME NEW m \in Fds, NEW n \in Fds, m # n, table'[m] # NoFile
        PROVE  table'[m] # table'[n]
    <3>1. CASE m \in {r, w}
      BY <2>1, <2>2, <2>3, <3>1
    <3>2. CASE m \notin {r, w} /\ n \in {r, w}
      BY <2>1, <2>2, <2>3, <3>2
    <3>3. CASE m \notin {r, w} /\ n \notin {r, w}
      BY <2>2, <2>3, <3>3
    <3> QED
      BY <3>1, <3>2, <3>3
  <2> QED
    BY <2>3
<1> QED
  BY <1>1, <1>2, <1>3, <1>4, TableStep

\* The programs Owns speaks of.
Tame == hazards = {}

\* In a program without hazards a file's number has exactly one holder while the
\* file is open.
LEMMA Mapped ==
  ASSUME IInv, OneNumber, Tame
  PROVE  MapOK
<1>1. OneHolder /\ NoLeak /\ TypeOK /\ others \subseteq Fds
  BY IInvImplies DEF IInv, CarefulPipes, Careful, LeaksOnlyBySelfMove, TypeOK, Tame
<1>2. /\ \A c \in Claims : Num(c) \in Fds /\ c \in Pipes \X Sides
      /\ \A n \in others : <<"other", n>> \notin Claims /\ <<"other", n>> \in Holders
      /\ Claims \subseteq Holders
  BY <1>1, PipesAssumption DEF Claims, Num, valid, TypeOK, Numbers, Holders
<1>3. /\ AbstractStatus \in [Files -> {"unused", "held", "released"}]
      /\ AbstractHolders \in [Files -> SUBSET Holders]
      /\ \A f \in Files : AbstractHolders[f] =
           {c \in Claims : table[Num(c)] = f}
           \cup {<<"other", n>> : n \in {m \in others : table[m] = f}}
  BY <1>2 DEF AbstractStatus, AbstractHolders
<1>4. ASSUME NEW f \in Files, AbstractStatus[f] = "held"
      PROVE  \E p \in Holders : AbstractHolders[f] = {p}
  <2>1. PICK n \in Fds : table[n] = f
    BY <1>4 DEF AbstractStatus
  <2>2. f # NoFile /\ \A m \in Fds : table[m] = f => m = n
    BY <2>1, FdTableAssumption DEF Files, NoFile, OneNumber
  <2>3. CASE n \in others
    <3>1. {c \in Claims : table[Num(c)] = f} = {}
      BY <1>1, <1>2, <2>2, <2>3 DEF OneHolder
    <3>2. {m \in others : table[m] = f} = {n}
      BY <1>1, <2>1, <2>2, <2>3
    <3>3. AbstractHolders[f] = {<<"other", n>>}
      BY <1>3, <3>1, <3>2
    <3> QED
      BY <1>2, <2>3, <3>3
  <2>4. CASE n \notin others
    <3>1. PICK c \in Claims : Num(c) = n
      BY <1>1, <2>1, <2>2, <2>4 DEF NoLeak
    <3>2. {m \in others : table[m] = f} = {}
      BY <1>1, <2>2, <2>4
    <3>3. {d \in Claims : table[Num(d)] = f} = {c}
      BY <1>1, <1>2, <2>1, <2>2, <3>1 DEF OneHolder
    <3>4. AbstractHolders[f] = {c}
      BY <1>3, <3>2, <3>3
    <3> QED
      BY <1>2, <3>4
  <2> QED
    BY <2>3, <2>4
<1>5. ASSUME NEW f \in Files, AbstractStatus[f] # "held"
      PROVE  AbstractHolders[f] = {}
  <2>1. \A n \in Fds : table[n] # f
    BY <1>1, <1>5, FdTableAssumption
       DEF AbstractStatus, TypeOK, TableTypeOK, Files
  <2>2. {c \in Claims : table[Num(c)] = f} = {} /\ {m \in others : table[m] = f} = {}
    BY <1>1, <1>2, <2>1
  <2> QED
    BY <1>3, <2>2
<1>6. ASSUME NEW f \in Files, NEW g \in Files, f # g,
             NEW p \in AbstractHolders[f], p \in AbstractHolders[g]
      PROVE  FALSE
  <2>1. CASE p \in Claims
    BY <1>2, <1>3, <1>6, <2>1
  <2>2. CASE p \notin Claims
    BY <1>3, <1>6, <2>2
  <2> QED
    BY <2>1, <2>2
<1> QED
  BY <1>3, <1>4, <1>5, <1>6 DEF MapOK

\* A file goes from unused to held to released.
LEMMA StatusStep ==
  ASSUME IInv, [Next]_vars, NEW f \in Files
  PROVE  Advances(f)
<1> USE FdTableAssumption DEF Fds, Files, NoFile
<1>0. TableTypeOK
  BY DEF IInv, TypeOK
<1>1. /\ AbstractStatus[f] = IF f > opened THEN "unused"
                             ELSE IF \E n \in Fds : table[n] = f THEN "held"
                             ELSE "released"
      /\ AbstractStatus'[f] = IF f > opened' THEN "unused"
                              ELSE IF \E n \in Fds : table'[n] = f THEN "held"
                              ELSE "released"
  BY DEF AbstractStatus
<1>2. CASE UNCHANGED <<table, opened>>
  BY <1>1, <1>2 DEF Advances
<1>3. ASSUME NEW r \in Fds, NEW w \in Fds, opened' \in Nat, opened' >= opened,
             \A n \in Fds \ {r, w} : table'[n] = table[n],
             table[r] = NoFile, table[w] = NoFile,
             f > opened /\ f <= opened' <=> table'[r] = f \/ table'[w] = f
      PROVE  Advances(f)
  <2>1. CASE f > opened /\ f <= opened'
    BY <1>1, <1>3, <2>1 DEF Advances
  <2>2. CASE ~(f > opened /\ f <= opened')
    <3>1. (\E m \in Fds : table'[m] = f) <=> (\E m \in Fds : table[m] = f)
      BY <1>3, <2>2
    <3>2. f > opened' <=> f > opened
      BY <1>0, <1>3, <2>2 DEF TableTypeOK
    <3> QED
      BY <1>1, <3>1, <3>2, Zenon DEF Advances
  <2> QED
    BY <2>1, <2>2
<1>4. ASSUME NEW n \in Fds, SysOpen(n) PROVE Advances(f)
  <2>1. /\ opened' = opened + 1 /\ opened \in Nat /\ table[n] = NoFile
        /\ table'[n] = opened + 1 /\ \A m \in Fds : m # n => table'[m] = table[m]
    BY <1>0, <1>4 DEF SysOpen, TableTypeOK, Lowest, FreeFds
  <2>2. f > opened /\ f <= opened' <=> table'[n] = f
    BY <2>1
  <2> QED
    BY <1>3, <2>1, <2>2
<1>5. ASSUME NEW r \in Fds, NEW w \in Fds, SysPipe(r, w) PROVE Advances(f)
  <2>1. /\ opened' = opened + 2 /\ opened \in Nat
        /\ table[r] = NoFile /\ table[w] = NoFile
        /\ table' = [table EXCEPT ![r] = opened + 1, ![w] = opened + 2]
        /\ table \in [Fds -> 0 .. opened] /\ r # w
    BY <1>0, <1>5 DEF SysPipe, TableTypeOK, Lowest, FreeFds
  <2>2. /\ table'[r] = opened + 1 /\ table'[w] = opened + 2
        /\ \A m \in Fds \ {r, w} : table'[m] = table[m]
    BY <2>1
  <2>3. f > opened /\ f <= opened' <=> table'[r] = f \/ table'[w] = f
    BY <2>1, <2>2
  <2> QED
    BY <1>3, <2>1, <2>2, <2>3
<1>6. ASSUME NEW n \in Fds, SysClose(n) PROVE Advances(f)
  <2>1. /\ opened' = opened
        /\ table'[n] = NoFile /\ \A m \in Fds : m # n => table'[m] = table[m]
    BY <1>0, <1>6 DEF SysClose, TableTypeOK
  <2>2. (\E m \in Fds : table'[m] = f) => (\E m \in Fds : table[m] = f)
    BY <2>1
  <2> QED
    BY <1>1, <2>1, <2>2 DEF Advances
<1> QED
  BY <1>2, <1>4, <1>5, <1>6, TableStep

\* Every step of Pipe is a step of Ownership, or leaves it alone.
LEMMA StepImplements ==
  ASSUME MapOK, MapOK', \A f \in Files : Advances(f)
  PROVE  Promise!Next
<1>1. ASSUME NEW f \in Files
      PROVE  \/ Promise!Keep(f) \/ Promise!Acquire(f)
             \/ Promise!Transfer(f) \/ Promise!Release(f)
  <2> DEFINE held  == AbstractStatus[f] = "held"
             heldN == AbstractStatus'[f] = "held"
  <2>1. /\ held => \E p \in Holders : AbstractHolders[f] = {p}
        /\ ~held => AbstractHolders[f] = {}
        /\ heldN => \E p \in Holders : AbstractHolders'[f] = {p}
        /\ ~heldN => AbstractHolders'[f] = {}
    BY DEF MapOK, Holders, Sides, Fds
  <2>2. CASE held /\ heldN
    BY <2>1, <2>2 DEF Promise!Transfer, Promise!Held, Holders
  <2>3. CASE held /\ ~heldN
    BY <2>1, <2>3 DEF Promise!Release, Promise!Held, Advances, Holders
  <2>4. CASE ~held /\ heldN
    BY <2>1, <2>4 DEF Promise!Acquire, Promise!Held, Advances, Holders
  <2>5. CASE ~held /\ ~heldN
    BY <2>1, <2>5 DEF Promise!Keep, Advances
  <2> QED
    BY <2>2, <2>3, <2>4, <2>5
<1>2. /\ AbstractStatus' \in [Files -> {"unused", "held", "released"}]
      /\ AbstractHolders' \in [Files -> SUBSET Holders]
      /\ \A f, g \in Files :
           f # g => AbstractHolders'[f] \cap AbstractHolders'[g] = {}
  BY DEF MapOK, Holders, Files, Sides, Fds
<1> QED
  BY <1>1, <1>2 DEF Promise!Next, Holders

\* In a program without hazards Pipe keeps the promise of Ownership: each file
\* of a pipe is acquired once, held at one place at a time, an end or one of the
\* others, and given back once, by the place that holds it.
THEOREM Implements == Spec => Owns
<1>1. Init => OneNumber /\ Promise!Init
  <2> SUFFICES ASSUME Init PROVE OneNumber /\ Promise!Init
    OBVIOUS
  <2> USE FdTableAssumption DEF Init, TableInit, Files, NoFile
  <2>1. OneNumber
    BY DEF OneNumber
  <2>2. AbstractStatus = [f \in Files |-> "unused"]
    BY DEF AbstractStatus
  <2>3. Claims = {} /\ others = {}
    BY DEF Claims
  <2>4. AbstractHolders = [f \in Files |-> {}]
    BY <2>3 DEF AbstractHolders
  <2> QED
    BY <2>1, <2>2, <2>4 DEF Promise!Init
<1>2. IInv /\ OneNumber /\ [Next]_vars => IInv' /\ OneNumber'
  BY StepIInv, OneNumberStep
<1>3. IInv /\ OneNumber /\ IInv' /\ OneNumber' /\ [Next]_vars =>
        [hazards = {} => [Promise!Next]_(Promise!vars)]_vars
  <2> SUFFICES ASSUME IInv, OneNumber, IInv', OneNumber', [Next]_vars, Tame
               PROVE  Promise!Next
    BY DEF Tame
  <2>1. hazards' = hazards
    BY DEF Next, Construct, MoveConstruct, Open, OpenInit, OpenInitFails, MoveEnd,
       ProxyClose, MoveAssign, AssignEnd, Take, Destroy, DestroyEnd, OtherOpens,
       OtherCloses, vars
  <2>2. MapOK
    BY Mapped
  <2>3. Tame'
    BY <2>1 DEF Tame
  <2>4. MapOK'
    BY <2>3, Mapped, PTL
  <2> QED
    BY <2>2, <2>4, StatusStep, StepImplements
<1> QED
  BY <1>1, <1>2, <1>3, InitIInv, PTL DEF Spec, Owns
=============================================================================
