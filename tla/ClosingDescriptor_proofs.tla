--------------------- MODULE ClosingDescriptor_proofs ---------------------
(***************************************************************************)
(* Proofs about ClosingDescriptor, for any number of threads, handles,     *)
(* descriptors and openings.                                               *)
(***************************************************************************)
EXTENDS ClosingDescriptor, TLAPS

\* The kernel's calls keep the table well typed.
LEMMA SysOpenType ==
  ASSUME NEW n \in Fds, TableTypeOK, SysOpen(n)
  PROVE  TableTypeOK'
<1> USE FdTableAssumption DEF TableTypeOK, SysOpen, Fds
<1>1. opened' \in 0 .. MaxOpens
  OBVIOUS
<1>2. \A m \in Fds : table'[m] \in 0 .. opened'
  OBVIOUS
<1> QED
  BY <1>1, <1>2

LEMMA SysCloseType ==
  ASSUME NEW n \in Fds, TableTypeOK, SysClose(n)
  PROVE  TableTypeOK'
BY FdTableAssumption DEF TableTypeOK, SysClose, Fds, NoFile

\* The initial state: nothing exists, nothing is open, no call is running.
LEMMA InitIInv == Init => IInv
<1> SUFFICES ASSUME Init PROVE IInv
  OBVIOUS
<1> USE HandlesAssumption, FdTableAssumption
    DEF Init, TableInit, Fds, Numbers, Invalid, NoFile, Idle
<1>1. TypeOK
  BY DEF TypeOK, TableTypeOK, Frames
<1>2. DeadHoldNothing /\ FramesOK
  BY DEF DeadHoldNothing, FramesOK, Uses
<1>3. Distinct /\ AllOpen /\ AllHeld
  BY DEF Distinct, AllOpen, AllHeld
<1> QED
  BY <1>1, <1>2, <1>3 DEF IInv

\* Steps that change neither the table nor any call in progress.
LEMMA ConstructStep ==
  ASSUME NEW t \in Threads, NEW h \in Handles, IInv, Construct(t, h)
  PROVE  IInv'
<1> USE HandlesAssumption, FdTableAssumption
    DEF IInv, Construct, Usable, Fds, Numbers, Invalid, NoFile, Idle
<1>1. TypeOK'
  BY DEF TypeOK, TableTypeOK, Frames
<1>2. DeadHoldNothing'
  BY DEF DeadHoldNothing, TypeOK
<1>3. FramesOK'
  BY DEF FramesOK, Uses, TypeOK, Frames
<1>4. Distinct'
  BY DEF Distinct, TypeOK, DeadHoldNothing
<1>5. AllOpen'
  BY DEF AllOpen, TypeOK
<1>6. AllHeld'
  BY DEF AllHeld, TypeOK, DeadHoldNothing
<1> QED
  BY <1>1, <1>2, <1>3, <1>4, <1>5, <1>6

LEMMA AdoptStep ==
  ASSUME NEW t \in Threads, NEW h \in Handles, IInv, Adopt(t, h)
  PROVE  IInv'
<1> USE HandlesAssumption, FdTableAssumption
    DEF IInv, Adopt, Usable, Fds, Numbers, Invalid, NoFile, Idle
<1>1. TypeOK'
  BY DEF TypeOK, TableTypeOK, Frames
<1>2. DeadHoldNothing'
  BY DEF DeadHoldNothing, TypeOK
<1>3. FramesOK'
  BY DEF FramesOK, Uses, TypeOK, Frames
<1>4. Distinct'
  BY DEF Distinct, TypeOK, DeadHoldNothing
<1>5. AllOpen'
  BY DEF AllOpen, TypeOK
<1>6. AllHeld'
  BY DEF AllHeld, TypeOK, DeadHoldNothing
<1> QED
  BY <1>1, <1>2, <1>3, <1>4, <1>5, <1>6

LEMMA CreateStep ==
  ASSUME NEW t \in Threads, NEW h \in Handles, IInv,
         Create(t, h) \/ CreateInit(t, h)
  PROVE  IInv'
<1> USE HandlesAssumption, FdTableAssumption
    DEF IInv, Usable, Fds, Numbers, Invalid, NoFile, Idle
<1>0. PICK n \in Fds : SysOpen(n) /\ fd' = [fd EXCEPT ![h] = n]
  BY DEF Create, CreateInit
<1>a. fd[h] = Invalid /\ UNCHANGED <<raw, frame>> /\ alive' \in [Handles -> BOOLEAN]
      /\ alive'[h] /\ \A g \in Handles : g # h => alive'[g] = alive[g]
  BY DEF Create, CreateInit, valid, DeadHoldNothing, TypeOK
<1>b. table[n] = NoFile
  BY <1>0 DEF SysOpen, Lowest, FreeFds
<1>1. TypeOK'
  BY <1>0, <1>a, SysOpenType DEF TypeOK, Frames
<1>2. DeadHoldNothing'
  BY <1>0, <1>a DEF DeadHoldNothing, TypeOK
<1>3. FramesOK'
  BY <1>0, <1>a DEF FramesOK, Uses, TypeOK, Frames, Create, CreateInit
<1>4. Distinct'
  BY <1>0, <1>a, <1>b DEF Distinct, TypeOK, AllOpen
<1>5. AllOpen'
  BY <1>0, <1>a, <1>b DEF AllOpen, TypeOK, SysOpen, TableTypeOK
<1>6. AllHeld'
  BY <1>0, <1>a, <1>b, SMTT(30) DEF AllHeld, TypeOK, SysOpen, TableTypeOK
<1> QED
  BY <1>1, <1>2, <1>3, <1>4, <1>5, <1>6

LEMMA MoveConstructStep ==
  ASSUME NEW t \in Threads, NEW h \in Handles, NEW g \in Handles,
         IInv, MoveConstruct(t, h, g)
  PROVE  IInv'
<1> USE HandlesAssumption, FdTableAssumption
    DEF IInv, MoveConstruct, Usable, Fds, Numbers, Invalid, NoFile, Idle
<1>1. TypeOK'
  BY DEF TypeOK, TableTypeOK, Frames
<1>2. DeadHoldNothing'
  BY DEF DeadHoldNothing, TypeOK
<1>3. FramesOK'
  BY DEF FramesOK, Uses, TypeOK, Frames
<1>4. Distinct'
  BY DEF Distinct, TypeOK, DeadHoldNothing
<1>5. AllOpen'
  BY DEF AllOpen, TypeOK
<1>6. AllHeld'
  BY DEF AllHeld, TypeOK, DeadHoldNothing
<1> QED
  BY <1>1, <1>2, <1>3, <1>4, <1>5, <1>6

LEMMA ResetStep ==
  ASSUME NEW t \in Threads, NEW h \in Handles, IInv, Reset(t, h)
  PROVE  IInv'
<1> USE HandlesAssumption, FdTableAssumption
    DEF IInv, Reset, Usable, Fds, Numbers, Invalid, NoFile, Idle
<1>1. TypeOK'
  BY DEF TypeOK, TableTypeOK, Frames
<1>2. DeadHoldNothing'
  BY DEF DeadHoldNothing, TypeOK
<1>3. FramesOK'
  BY DEF FramesOK, Uses, TypeOK, Frames
<1>4. Distinct'
  BY DEF Distinct, TypeOK
<1>5. AllOpen'
  BY DEF AllOpen, TypeOK
<1>6. AllHeld'
  BY DEF AllHeld, TypeOK
<1> QED
  BY <1>1, <1>2, <1>3, <1>4, <1>5, <1>6

\* Emptying a valid object into the frame of a call.
LEMMA DetachStep ==
  ASSUME NEW t \in Threads, NEW h \in Handles, NEW g \in Handles,
         NEW op \in {"close", "destroy", "assign"},
         IInv, alive[h], alive[g], Usable(t, h), Usable(t, g), valid(h),
         Detach(t, op, h, g)
  PROVE  IInv'
<1> USE HandlesAssumption, FdTableAssumption
    DEF IInv, Detach, Frame, valid, Usable, Fds, Numbers, Invalid, NoFile, Idle
<1>1. TypeOK'
  BY DEF TypeOK, TableTypeOK, Frames
<1>2. DeadHoldNothing'
  BY DEF DeadHoldNothing, TypeOK
<1>3. FramesOK'
  BY DEF FramesOK, Uses, TypeOK, Frames
<1>4. Distinct'
  BY DEF Distinct, TypeOK, Frames
<1>5. AllOpen'
  BY DEF AllOpen, TypeOK, Frames
<1>6. AllHeld'
  BY DEF AllHeld, TypeOK, Frames
<1> QED
  BY <1>1, <1>2, <1>3, <1>4, <1>5, <1>6

LEMMA CloseStep ==
  ASSUME NEW t \in Threads, NEW h \in Handles, IInv, Close(t, h)
  PROVE  IInv'
BY DetachStep DEF Close

LEMMA DestroyStep ==
  ASSUME NEW t \in Threads, NEW h \in Handles, IInv, Destroy(t, h)
  PROVE  IInv'
<1>1. CASE valid(h)
  BY <1>1, DetachStep DEF Destroy
<1>2. CASE ~valid(h)
  <2> USE <1>2, HandlesAssumption, FdTableAssumption
      DEF IInv, Destroy, valid, Usable, Fds, Numbers, Invalid, NoFile, Idle
  <2>1. TypeOK'
    BY DEF TypeOK, TableTypeOK, Frames
  <2>2. DeadHoldNothing'
    BY DEF DeadHoldNothing, TypeOK
  <2>3. FramesOK'
    BY DEF FramesOK, Uses, TypeOK, Frames
  <2>4. (Distinct /\ AllOpen /\ AllHeld)'
    BY DEF Distinct, AllOpen, AllHeld
  <2> QED
    BY <2>1, <2>2, <2>3, <2>4
<1> QED
  BY <1>1, <1>2

LEMMA MoveAssignStep ==
  ASSUME NEW t \in Threads, NEW h \in Handles, NEW g \in Handles,
         IInv, MoveAssign(t, h, g)
  PROVE  IInv'
<1>1. CASE valid(h) /\ fd[g] # fd[h]
  BY <1>1, DetachStep DEF MoveAssign
<1>2. CASE ~(valid(h) /\ fd[g] # fd[h])
  <2> USE <1>2, HandlesAssumption, FdTableAssumption
      DEF IInv, MoveAssign, Frame, valid, Usable, Fds, Numbers, Invalid,
          NoFile, Idle
  <2>0. /\ frame' = [frame EXCEPT ![t] = Frame("assign", h, g, Invalid)]
        /\ UNCHANGED <<table, opened, alive, fd, raw>>
    OBVIOUS
  <2>1. TypeOK'
    BY <2>0 DEF TypeOK, TableTypeOK, Frames
  <2>2. DeadHoldNothing'
    BY DEF DeadHoldNothing, TypeOK
  <2>3. fd[h] = Invalid \/ h = g
    BY DEF Distinct
  <2>4. FramesOK'
    <3>1. /\ frame'[t] = Frame("assign", h, g, Invalid)
          /\ \A u \in Threads \ {t} : frame'[u] = frame[u]
      BY <2>0 DEF TypeOK
    <3>2. ASSUME NEW u \in Threads, NEW v \in Threads, NEW k \in Handles,
                 u # v, Uses(u, k)'
          PROVE  ~Uses(v, k)'
      BY <3>1, <3>2 DEF FramesOK, Uses
    <3>3. ASSUME NEW u \in Threads, u # t
          PROVE  /\ frame'[u] = frame[u]
                 /\ UNCHANGED <<alive, fd>>
      BY <3>1, <3>3, <2>0
    <3> QED
      BY <2>0, <2>3, <3>1, <3>2, <3>3 DEF FramesOK
  <2>5. Distinct'
    BY <2>0, SMTT(30) DEF Distinct, TypeOK, Frames
  <2>6. (AllOpen /\ AllHeld)'
    BY DEF AllOpen, AllHeld, TypeOK, Frames
  <2> QED
    BY <2>1, <2>2, <2>4, <2>5, <2>6
<1> QED
  BY <1>1, <1>2

LEMMA CloseSyscallStep ==
  ASSUME NEW t \in Threads, NEW ok \in BOOLEAN, IInv, CloseSyscall(t, ok)
  PROVE  IInv'
<1> USE HandlesAssumption, FdTableAssumption
    DEF IInv, CloseSyscall, Fds, Numbers, Invalid, NoFile, Idle
<1>0. frame[t].tmp \in Fds
  BY DEF TypeOK, Frames
<1>1. TypeOK'
  BY <1>0, SysCloseType, ZenonT(40) DEF TypeOK, Frames
<1>2. DeadHoldNothing'
  BY DEF DeadHoldNothing, FramesOK, TypeOK, Frames
<1>3. FramesOK'
  BY DEF FramesOK, Uses, TypeOK, Frames
<1>4. Distinct'
  BY DEF Distinct, TypeOK, Frames
<1>5. AllOpen'
  BY <1>0 DEF AllOpen, Distinct, TypeOK, TableTypeOK, Frames, SysClose
<1>6. AllHeld'
  BY <1>0 DEF AllHeld, TypeOK, TableTypeOK, Frames, SysClose
<1> QED
  BY <1>1, <1>2, <1>3, <1>4, <1>5, <1>6

LEMMA TakeStep ==
  ASSUME NEW t \in Threads, IInv, Take(t)
  PROVE  IInv'
<1> USE HandlesAssumption, FdTableAssumption
    DEF IInv, Take, Fds, Numbers, Invalid, NoFile, Idle
<1>0. /\ frame[t].this \in Handles /\ alive[frame[t].this]
      /\ frame[t].other \in Handles /\ alive[frame[t].other]
      /\ fd[frame[t].this] = Invalid \/ frame[t].this = frame[t].other
  BY DEF FramesOK
<1>1. TypeOK'
  BY <1>0 DEF TypeOK, TableTypeOK, Frames
<1>2. DeadHoldNothing'
  BY <1>0 DEF DeadHoldNothing, TypeOK
<1>3. FramesOK'
  BY <1>0 DEF FramesOK, Uses, TypeOK, Frames
<1>4. Distinct'
  BY <1>0 DEF Distinct, TypeOK, Frames
<1>5. AllOpen'
  BY <1>0 DEF AllOpen, TypeOK, Frames
<1>6. AllHeld'
  BY <1>0 DEF AllHeld, TypeOK, Frames
<1> QED
  BY <1>1, <1>2, <1>3, <1>4, <1>5, <1>6

\* Every step of every thread preserves the inductive invariant.
LEMMA NextIInv == IInv /\ [Next]_vars => IInv'
<1> SUFFICES ASSUME IInv, [Next]_vars PROVE IInv'
  OBVIOUS
<1>1. ASSUME NEW t \in Threads, Call(t) PROVE IInv'
  BY <1>1, ConstructStep, AdoptStep, CreateStep, ResetStep, CloseStep,
     DestroyStep, MoveConstructStep, MoveAssignStep DEF Call
<1>2. ASSUME NEW t \in Threads, Continue(t) PROVE IInv'
  BY <1>2, TakeStep, CloseSyscallStep DEF Continue
<1>3. CASE UNCHANGED vars
  BY <1>3 DEF vars, IInv, TypeOK, TableTypeOK, DeadHoldNothing, FramesOK, Uses,
              Distinct, AllOpen, AllHeld
<1> QED
  BY <1>1, <1>2, <1>3 DEF Next

\* The invariant stated over kinds of holders gives the three properties
\* stated over all holders.
LEMMA IInvImplies == IInv => OneHolder /\ HeldIsOpen /\ NoLeak
<1> SUFFICES ASSUME IInv PROVE OneHolder /\ HeldIsOpen /\ NoLeak
  OBVIOUS
<1> USE DEF IInv
<1>0. ASSUME NEW p \in Holders
      PROVE  \/ \E h \in Handles : p = <<"object", h>> /\ Num(p) = fd[h]
             \/ \E t \in Threads : p = <<"raw", t>> /\ Num(p) = raw[t]
             \/ \E t \in Threads : p = <<"call", t>> /\ Num(p) = frame[t].tmp
  BY DEF Holders, Num
<1>1. OneHolder
  <2> SUFFICES ASSUME NEW p \in Holders, NEW q \in Holders, p # q,
                      Num(p) # Invalid, Num(p) = Num(q)
               PROVE  FALSE
    BY DEF OneHolder
  <2> QED
    BY <1>0 DEF Distinct
<1>2. HeldIsOpen
  BY <1>0 DEF HeldIsOpen, AllOpen
<1>3. NoLeak
  <2>1. /\ \A h \in Handles : <<"object", h>> \in Holders
                               /\ Num(<<"object", h>>) = fd[h]
        /\ \A t \in Threads : /\ <<"raw", t>> \in Holders
                               /\ Num(<<"raw", t>>) = raw[t]
                               /\ <<"call", t>> \in Holders
                               /\ Num(<<"call", t>>) = frame[t].tmp
    BY DEF Holders, Num
  <2> SUFFICES ASSUME NEW n \in Fds, table[n] # NoFile
               PROVE  \E p \in Holders : Num(p) = n
    BY DEF NoLeak
  <2>2. \/ \E h \in Handles : fd[h] = n
        \/ \E t \in Threads : raw[t] = n
        \/ \E t \in Threads : frame[t].tmp = n
    BY DEF AllHeld
  <2>3. CASE \E h \in Handles : fd[h] = n
    <3>1. PICK h \in Handles : fd[h] = n
      BY <2>3
    <3> QED
      BY <3>1, <2>1
  <2>4. CASE \E t \in Threads : raw[t] = n
    <3>1. PICK t \in Threads : raw[t] = n
      BY <2>4
    <3> QED
      BY <3>1, <2>1
  <2>5. CASE \E t \in Threads : frame[t].tmp = n
    <3>1. PICK t \in Threads : frame[t].tmp = n
      BY <2>5
    <3> QED
      BY <3>1, <2>1
  <2> QED
    BY <2>2, <2>3, <2>4, <2>5
<1> QED
  BY <1>1, <1>2, <1>3

\* The inductive invariant holds in every reachable state of
\* ClosingDescriptor::Spec, whatever the number of threads and objects.
THEOREM Invariance == Spec => []IInv
<1>1. Init => IInv
  BY InitIInv
<1>2. IInv /\ [Next]_vars => IInv'
  BY NextIInv
<1> QED
  BY <1>1, <1>2, PTL DEF Spec

\* Type correctness: _fd, the bare numbers and the calls in progress keep
\* their types.
THEOREM TypeCorrect == Spec => []TypeOK
BY Invariance, PTL DEF IInv

\* No descriptor number ever has two holders (FileDescriptor.hxx:94-105 empties
\* _fd before the system call, the moves empty their source).
THEOREM UniqueHolder == Spec => []OneHolder
BY Invariance, IInvImplies, PTL

\* Every number held is open: the EBADF assertion of closethrow
\* (FileDescriptor.hxx:117) cannot fail.
THEOREM NeverStale == Spec => []HeldIsOpen
BY Invariance, IInvImplies, PTL

\* No path through assignment, failing closes and destruction leaks.
THEOREM NothingLost == Spec => []NoLeak
BY Invariance, IInvImplies, PTL
-----------------------------------------------------------------------------
(***************************************************************************)
(* The refinement.  The mapping names the holders of a file through its    *)
(* number, so that no file has two numbers has to be known as well.        *)
(***************************************************************************)
OneNumber ==
  \A m, n \in Fds : m # n /\ table[m] # NoFile => table[m] # table[n]

\* What the mapping makes of a state: a file that is held has one holder, any
\* other none, and no place holds two files.
MapOK ==
  /\ AbstractStatus \in [Files -> {"unused", "held", "released"}]
  /\ AbstractHolders \in [Files -> SUBSET Holders]
  /\ \A f \in Files :
       IF AbstractStatus[f] = "held"
       THEN \E p \in Holders : AbstractHolders[f] = {p}
       ELSE AbstractHolders[f] = {}
  /\ \A f, g \in Files : f # g => AbstractHolders[f] \cap AbstractHolders[g] = {}

\* What a step may do to the status of a file.
Advances(f) ==
  \/ AbstractStatus'[f] = AbstractStatus[f]
  \/ AbstractStatus[f] = "unused" /\ AbstractStatus'[f] = "held"
  \/ AbstractStatus[f] = "held" /\ AbstractStatus'[f] = "released"

\* A step opens one file, closes one number or leaves the table alone.
LEMMA TableStep ==
  ASSUME IInv, [Next]_vars
  PROVE  \/ UNCHANGED <<table, opened>>
         \/ \E n \in Fds : SysOpen(n) \/ SysClose(n)
<1>1. ASSUME NEW t \in Threads, NEW ok \in BOOLEAN, CloseSyscall(t, ok)
      PROVE  \E n \in Fds : SysClose(n)
  <2>1. frame[t].tmp \in Fds
    BY <1>1 DEF CloseSyscall, IInv, TypeOK, Frames, Numbers
  <2> QED
    BY <1>1, <2>1 DEF CloseSyscall
<1>2. ASSUME NEW t \in Threads, NEW h \in Handles, Create(t, h) \/ CreateInit(t, h)
      PROVE  \E n \in Fds : SysOpen(n)
  BY <1>2 DEF Create, CreateInit
<1>3. ASSUME NEW t \in Threads, NEW h \in Handles,
             \/ Construct(t, h) \/ Adopt(t, h) \/ Reset(t, h) \/ Close(t, h)
             \/ Destroy(t, h)
             \/ \E g \in Handles : MoveConstruct(t, h, g) \/ MoveAssign(t, h, g)
      PROVE  UNCHANGED <<table, opened>>
  BY <1>3 DEF Construct, Adopt, Reset, Close, Destroy, MoveConstruct, MoveAssign,
              Detach
<1>4. ASSUME NEW t \in Threads, Take(t) PROVE UNCHANGED <<table, opened>>
  BY <1>4 DEF Take
<1> QED
  BY <1>1, <1>2, <1>3, <1>4 DEF Next, Call, Continue, vars

\* The kernel gives a new file one number.
LEMMA OneNumberStep == IInv /\ OneNumber /\ [Next]_vars => OneNumber'
<1> SUFFICES ASSUME IInv, OneNumber, [Next]_vars PROVE OneNumber'
  OBVIOUS
<1> USE FdTableAssumption DEF OneNumber, Fds, NoFile
<1>0. TableTypeOK
  BY DEF IInv, TypeOK
<1>1. CASE UNCHANGED <<table, opened>>
  BY <1>1
<1>2. ASSUME NEW n \in Fds, SysOpen(n) PROVE OneNumber'
  BY <1>0, <1>2 DEF SysOpen, TableTypeOK
<1>3. ASSUME NEW n \in Fds, SysClose(n) PROVE OneNumber'
  BY <1>0, <1>3 DEF SysClose, TableTypeOK
<1> QED
  BY <1>1, <1>2, <1>3, TableStep

\* A file's number has exactly one holder while the file is open.
LEMMA Mapped == IInv /\ OneNumber => MapOK
<1> SUFFICES ASSUME IInv, OneNumber PROVE MapOK
  OBVIOUS
<1>1. OneHolder /\ NoLeak /\ TableTypeOK
  BY IInvImplies DEF IInv, TypeOK
<1>2. \A p \in Holders : Num(p) # Invalid => Num(p) \in Fds
  BY DEF IInv, TypeOK, Holders, Num, Numbers, Frames
<1>3. /\ AbstractStatus \in [Files -> {"unused", "held", "released"}]
      /\ AbstractHolders \in [Files -> SUBSET Holders]
  BY DEF AbstractStatus, AbstractHolders
<1>4. \A f \in Files : AbstractHolders[f] =
        {p \in Holders : Num(p) # Invalid /\ table[Num(p)] = f}
  BY DEF AbstractHolders
<1>5. ASSUME NEW f \in Files, AbstractStatus[f] = "held"
      PROVE  \E p \in Holders : AbstractHolders[f] = {p}
  <2>1. PICK n \in Fds : table[n] = f
    BY <1>5 DEF AbstractStatus
  <2>2. f # NoFile /\ n # Invalid
    BY FdTableAssumption DEF Files, NoFile, Fds, Invalid
  <2>3. PICK p \in Holders : Num(p) = n
    BY <1>1, <2>1, <2>2 DEF NoLeak
  <2>4. p \in AbstractHolders[f]
    BY <1>4, <2>1, <2>2, <2>3
  <2>5. ASSUME NEW q \in AbstractHolders[f] PROVE q = p
    <3>1. q \in Holders /\ Num(q) \in Fds /\ table[Num(q)] = f
      BY <1>2, <1>4, <2>5
    <3>2. Num(q) = n
      BY <2>1, <2>2, <3>1 DEF OneNumber
    <3> QED
      BY <1>1, <2>2, <2>3, <3>1, <3>2 DEF OneHolder
  <2> QED
    BY <2>4, <2>5
<1>6. ASSUME NEW f \in Files, AbstractStatus[f] # "held"
      PROVE  AbstractHolders[f] = {}
  <2>1. \A n \in Fds : table[n] # f
    BY <1>1, <1>6, FdTableAssumption
       DEF AbstractStatus, TableTypeOK, Files
  <2> QED
    BY <1>2, <1>4, <2>1
<1>7. \A f, g \in Files : f # g => AbstractHolders[f] \cap AbstractHolders[g] = {}
  BY <1>4
<1> QED
  BY <1>3, <1>5, <1>6, <1>7 DEF MapOK

\* A file goes from unused to held to released.
LEMMA StatusStep ==
  ASSUME IInv, OneNumber, [Next]_vars, NEW f \in Files
  PROVE  Advances(f)
<1> USE FdTableAssumption DEF Fds, Files, NoFile
<1>0. TableTypeOK /\ OneNumber
  BY DEF IInv, TypeOK
<1>1. /\ AbstractStatus[f] = IF f > opened THEN "unused"
                             ELSE IF \E n \in Fds : table[n] = f THEN "held"
                             ELSE "released"
      /\ AbstractStatus'[f] = IF f > opened' THEN "unused"
                              ELSE IF \E n \in Fds : table'[n] = f THEN "held"
                              ELSE "released"
  BY DEF AbstractStatus
<1>2. CASE UNCHANGED <<table, opened>>
  BY <1>1, <1>2 DEF Advances
<1>3. ASSUME NEW n \in Fds, SysOpen(n) PROVE Advances(f)
  <2>1. /\ opened' = opened + 1 /\ opened \in Nat /\ table[n] = NoFile
        /\ table'[n] = opened + 1 /\ \A m \in Fds : m # n => table'[m] = table[m]
    BY <1>0, <1>3 DEF SysOpen, TableTypeOK, Lowest, FreeFds
  <2>2. CASE f = opened + 1
    BY <1>1, <2>1, <2>2 DEF Advances
  <2>3. CASE f # opened + 1
    <3>1. (\E m \in Fds : table'[m] = f) <=> (\E m \in Fds : table[m] = f)
      BY <2>1, <2>3
    <3>2. f > opened' <=> f > opened
      BY <2>1, <2>3
    <3> QED
      BY <1>1, <3>1, <3>2, Zenon DEF Advances
  <2> QED
    BY <2>2, <2>3
<1>4. ASSUME NEW n \in Fds, SysClose(n) PROVE Advances(f)
  <2>1. /\ opened' = opened
        /\ table'[n] = NoFile /\ \A m \in Fds : m # n => table'[m] = table[m]
    BY <1>0, <1>4 DEF SysClose, TableTypeOK
  <2>2. (\E m \in Fds : table'[m] = f) => (\E m \in Fds : table[m] = f)
    BY <2>1
  <2> QED
    BY <1>1, <2>1, <2>2 DEF Advances
<1> QED
  BY <1>2, <1>3, <1>4, TableStep

\* Every step of ClosingDescriptor is a step of Ownership, or leaves it alone.
LEMMA StepImplements ==
  ASSUME MapOK, MapOK', \A f \in Files : Advances(f)
  PROVE  Promise!Next
<1>1. ASSUME NEW f \in Files
      PROVE  \/ Promise!Keep(f) \/ Promise!Acquire(f)
             \/ Promise!Transfer(f) \/ Promise!Release(f)
  <2> DEFINE held  == AbstractStatus[f] = "held"
             heldN == AbstractStatus'[f] = "held"
  <2>1. /\ held => \E p \in Holders : AbstractHolders[f] = {p}
        /\ ~held => AbstractHolders[f] = {}
        /\ heldN => \E p \in Holders : AbstractHolders'[f] = {p}
        /\ ~heldN => AbstractHolders'[f] = {}
    BY DEF MapOK, Holders
  <2>2. CASE held /\ heldN
    BY <2>1, <2>2 DEF Promise!Transfer, Promise!Held
  <2>3. CASE held /\ ~heldN
    BY <2>1, <2>3 DEF Promise!Release, Promise!Held, Advances
  <2>4. CASE ~held /\ heldN
    BY <2>1, <2>4 DEF Promise!Acquire, Promise!Held, Advances
  <2>5. CASE ~held /\ ~heldN
    BY <2>1, <2>5 DEF Promise!Keep, Advances
  <2> QED
    BY <2>2, <2>3, <2>4, <2>5
<1>2. /\ AbstractStatus' \in [Files -> {"unused", "held", "released"}]
      /\ AbstractHolders' \in [Files -> SUBSET Holders]
      /\ \A f, g \in Files :
           f # g => AbstractHolders'[f] \cap AbstractHolders'[g] = {}
  BY DEF MapOK, Holders
<1> QED
  BY <1>1, <1>2 DEF Promise!Next

\* ClosingDescriptor keeps the promise of Ownership: every descriptor is
\* acquired once, has one holder at a time and is given back once.
THEOREM Implements == Spec => Owns
<1>1. Init => OneNumber
  BY DEF Init, TableInit, OneNumber
<1>2. Spec => []OneNumber
  BY <1>1, Invariance, OneNumberStep, PTL DEF Spec
<1>3. Init => Promise!Init
  <2> SUFFICES ASSUME Init PROVE Promise!Init
    OBVIOUS
  <2> USE FdTableAssumption DEF Init, TableInit, Files, NoFile
  <2>1. AbstractStatus = [f \in Files |-> "unused"]
    BY DEF AbstractStatus
  <2>2. \A p \in Holders : Num(p) = Invalid
    BY DEF Holders, Num, Idle
  <2>3. AbstractHolders = [f \in Files |-> {}]
    BY <2>2 DEF AbstractHolders
  <2> QED
    BY <2>1, <2>3 DEF Promise!Init
<1>4. IInv /\ OneNumber /\ MapOK /\ MapOK' /\ [Next]_vars => Promise!Next
  BY StatusStep, StepImplements
<1> QED
  BY <1>2, <1>3, <1>4, Mapped, Invariance, PTL DEF Spec, Owns, Promise!Spec
=============================================================================
