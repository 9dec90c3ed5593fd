--------------------------- MODULE Process_proofs ---------------------------
(***************************************************************************)
(* Proofs about Process, for any number of handles, children and pids and  *)
(* each behavior.  The last part is about liveness: that a stop ends.      *)
(***************************************************************************)
EXTENDS Process, TLAPS

\* A stop of the program is about a valid handle, and not a self-assignment; a
\* signal is sent and a wait begun for the pid the handle still has.
Stops ==
  LET f == frame[0]
  IN  /\ f.op = "idle" => f = Idle
      /\ f.op # "idle" => f.this \in Handles
      /\ f.op \in {"signal", "wait"} => valid(0, f.this) /\ f.this # f.other

\* The invariant: each part for the programs it is true of.
IInv ==
  /\ TypeOK /\ Stops
  /\ StaleOnlyByRewait /\ OneHolder
  /\ WaitOnDestroy => ZombieOnlyByInterrupt
-----------------------------------------------------------------------------
\* The frames the calls build.
LEMMA FrameValues ==
  /\ Idle \in Frames /\ Idle.op = "idle"
  /\ FirstStep \in {"signal", "wait", "take"} /\ AfterSignal \in {"wait", "take"}
  /\ \A op \in {"signal", "wait", "take"}, h \in Handles, g \in Handles \cup {NoHandle} :
       /\ [op |-> op, this |-> h, other |-> g] \in Frames
       /\ [op |-> op, this |-> h, other |-> g] # Idle
BY DEF Frames, Idle, FirstStep, AfterSignal

\* The states before any fork have the types.
LEMMA InitType == Init => TypeOK
BY FrameValues, ProcessAssumption DEF Init, TypeOK, Free, None, Pids, Children, Processes

\* The handles of a process after one of them is emptied, or moved.
LEMMA RowValues ==
  ASSUME NEW row \in [Handles -> 0 .. MaxPid], NEW h
  PROVE  /\ [row EXCEPT ![h] = 0] \in [Handles -> 0 .. MaxPid]
         /\ \A g \in Handles :
              [row EXCEPT ![g] = 0, ![h] = row[g]] \in [Handles -> 0 .. MaxPid]
<1>0. 0 \in 0 .. MaxPid
  BY ProcessAssumption
<1>1. CASE h \in Handles
  BY <1>0, <1>1
<1>2. CASE h \notin Handles
  <2>1. \A f \in [Handles -> 0 .. MaxPid] : \A v : [f EXCEPT ![h] = v] = f
    BY <1>2
  <2>2. \A g \in Handles : [row EXCEPT ![g] = 0] \in [Handles -> 0 .. MaxPid]
    BY <1>0
  <2> QED
    BY <2>1, <2>2
<1> QED
  BY <1>1, <1>2

\* waitpid(2) keeps the types of the kernel's tables.
LEMMA ReapType ==
  ASSUME TypeOK, NEW x, NEW p, Reap(x, p)
  PROVE  /\ occupant' \in [Pids -> {Free, Foreign} \cup Children]
         /\ life' \in [Children -> {"unborn", "running", "zombie", "reaped"}]
         /\ UNCHANGED <<forked, signalled>>
BY DEF TypeOK, Reap

\* The types are kept by the calls of the program.
LEMMA CallType ==
  ASSUME TypeOK, NEW h \in Handles,
         \/ Fork(h) \/ Reset(h) \/ Kill(h) \/ Wait(h)
         \/ \E x \in Processes : Destroy(x, h)
         \/ \E g \in Handles : MoveConstruct(h, g) \/ MoveAssign(h, g)
  PROVE  TypeOK'
<1> USE ProcessAssumption DEF None, Pids, Children, Processes, Free, Foreign
<1>1. CASE Fork(h)
  <2>1. PICK p \in Pids : /\ occupant' = [occupant EXCEPT ![p] = forked + 1]
                          /\ pid' = [pid EXCEPT ![0][h] = p, ![forked + 1] = pid[0]]
    BY <1>1 DEF Fork
  <2>2. forked + 1 \in Children /\ forked' = forked + 1
    BY <1>1 DEF Fork, TypeOK
  <2>3. pid' \in [Processes -> [Handles -> 0 .. MaxPid]]
    <3>1. [pid[0] EXCEPT ![h] = p] \in [Handles -> 0 .. MaxPid]
          /\ pid[0] \in [Handles -> 0 .. MaxPid]
      BY DEF TypeOK
    <3> QED
      BY <2>1, <2>2, <3>1 DEF TypeOK
  <2>4. occupant' \in [Pids -> {Free, Foreign} \cup Children]
    BY <2>1, <2>2 DEF TypeOK
  <2>5. life' \in [Children -> {"unborn", "running", "zombie", "reaped"}]
    BY <1>1, <2>2 DEF TypeOK, Fork
  <2>6. forked' \in 0 .. MaxForks /\ UNCHANGED <<hazards, signalled, raw, frame>>
    BY <1>1, <2>2 DEF Fork
  <2> QED
    BY <2>3, <2>4, <2>5, <2>6 DEF TypeOK
<1>2. CASE Reset(h)
  BY <1>2 DEF Reset, TypeOK, kernelVars
<1>3. CASE Kill(h)
  BY <1>3 DEF Kill, SysKill, TypeOK
<1>4. CASE Wait(h)
  <2>1. pid[0] \in [Handles -> 0 .. MaxPid] /\ [pid[0] EXCEPT ![h] = 0] \in [Handles -> 0 .. MaxPid]
    BY DEF TypeOK
  <2>2. pid' = pid \/ pid' = [pid EXCEPT ![0] = [pid[0] EXCEPT ![h] = 0]]
    BY <1>4 DEF Wait
  <2>3. pid' \in [Processes -> [Handles -> 0 .. MaxPid]]
    BY <2>1, <2>2 DEF TypeOK
  <2>4. TypeOK /\ Reap(0, pid[0][h]) /\ UNCHANGED <<hazards, raw, frame>>
    BY <1>4 DEF Wait
  <2> QED
    BY <2>3, <2>4, ReapType DEF TypeOK
<1>5. ASSUME NEW x \in Processes, Destroy(x, h) PROVE TypeOK'
  BY <1>5, FrameValues DEF Destroy, TypeOK, kernelVars
<1>6. ASSUME NEW g \in Handles, MoveConstruct(h, g) PROVE TypeOK'
  <2>1. pid[0] \in [Handles -> 0 .. MaxPid]
    BY DEF TypeOK
  <2>2. [pid[0] EXCEPT ![g] = 0, ![h] = pid[0][g]] \in [Handles -> 0 .. MaxPid]
    BY <2>1
  <2> QED
    BY <1>6, <2>2 DEF MoveConstruct, TypeOK, kernelVars
<1>7. ASSUME NEW g \in Handles, MoveAssign(h, g) PROVE TypeOK'
  BY <1>7, FrameValues DEF MoveAssign, TypeOK, kernelVars
<1> QED
  BY <1>1, <1>2, <1>3, <1>4, <1>5, <1>6, <1>7

\* And by everything else.
LEMMA StepType == TypeOK /\ [Next]_vars => TypeOK'
<1> SUFFICES ASSUME TypeOK, [Next]_vars PROVE TypeOK'
  OBVIOUS
<1> USE ProcessAssumption DEF None, Pids, Children, Processes, Free, Foreign
<1>1. ASSUME NEW x \in Processes, StopSignal(x) PROVE TypeOK'
  <2>1. [frame[x] EXCEPT !.op = AfterSignal] \in Frames
    <3>1. frame[x] \in Frames
      BY DEF TypeOK
    <3> QED
      BY <3>1, FrameValues DEF Frames
  <2>2. frame' = [frame EXCEPT ![x] = [frame[x] EXCEPT !.op = AfterSignal]]
    BY <1>1 DEF StopSignal
  <2>3. frame' \in [Processes -> Frames]
    BY <2>1, <2>2 DEF TypeOK
  <2> QED
    BY <1>1, <2>3 DEF StopSignal, SysKill, TypeOK
<1>2. ASSUME NEW x \in Processes, StopWait(x) PROVE TypeOK'
  <2>1. frame' \in [Processes -> Frames] /\ UNCHANGED <<hazards, pid, raw>>
    BY <1>2 DEF StopWait, TypeOK, Frames
  <2>2. CASE UNCHANGED kernelVars
    BY <2>1, <2>2 DEF TypeOK, kernelVars
  <2>3. CASE Reap(x, pid[x][frame[x].this])
    BY <2>1, <2>3, ReapType DEF TypeOK
  <2> QED
    BY <1>2, <2>2, <2>3 DEF StopWait
<1>3. ASSUME NEW x \in Processes, Take(x) PROVE TypeOK'
  <2>1. pid' \in [Processes -> [Handles -> 0 .. MaxPid]]
    <3> DEFINE h == frame[x].this
               g == frame[x].other
    <3>1. pid[x] \in [Handles -> 0 .. MaxPid] /\ g \in Handles \cup {NoHandle}
      BY DEF TypeOK, Frames
    <3>2. [pid[x] EXCEPT ![h] = 0] \in [Handles -> 0 .. MaxPid]
      BY <3>1, RowValues
    <3>3. g # NoHandle =>
            [pid[x] EXCEPT ![g] = 0, ![h] = pid[x][g]] \in [Handles -> 0 .. MaxPid]
      BY <3>1, RowValues
    <3>4. \/ pid' = [pid EXCEPT ![x] = [pid[x] EXCEPT ![h] = 0]]
          \/ /\ g # NoHandle
             /\ pid' = [pid EXCEPT ![x] = [pid[x] EXCEPT ![g] = 0, ![h] = pid[x][g]]]
      BY <1>3 DEF Take
    <3> QED
      BY <3>2, <3>3, <3>4 DEF TypeOK
  <2> QED
    BY <1>3, <2>1, FrameValues DEF Take, TypeOK, kernelVars
<1>4. ASSUME NEW c \in Children, Exit(c) PROVE TypeOK'
  BY <1>4, FrameValues DEF Exit, TypeOK
<1>5. CASE OtherProgram
  BY <1>5 DEF OtherProgram, TypeOK
<1>6. CASE UNCHANGED vars
  BY <1>6 DEF vars, TypeOK
<1> QED
  BY <1>1, <1>2, <1>3, <1>4, <1>5, <1>6, CallType DEF Next, Continue

\* The state of the handles, the pids and the stops keep their types.
THEOREM TypeCorrect == Spec => []TypeOK
BY InitType, StepType, PTL DEF Spec
-----------------------------------------------------------------------------
\* Every step but a return of waitpid(2) keeps the children behind the pids.
SameKids ==
  \A n \in Pids :
    occupant[n] \in Children \/ occupant'[n] \in Children => occupant'[n] = occupant[n]

\* What the properties say of the places that hold a pid.
Holding ==
  /\ StaleOnlyByRewait /\ OneHolder
  /\ WaitOnDestroy => ZombieOnlyByInterrupt

\* A place holds no pid or one of the table.
LEMMA NumValues ==
  ASSUME TypeOK, NEW p \in Places
  PROVE  Num(p) \in 0 .. MaxPid
BY ProcessAssumption DEF TypeOK, Places, Num, Processes, None

\* Two places may exchange what they hold; none changes when they are one.
LEMMA Exchange ==
  ASSUME Holding, hazards' = hazards, SameKids, TypeOK,
         NEW p \in Places, NEW q \in Places,
         Num(p)' = Num(q), Num(q)' = Num(p),
         \A r \in Places \ {p, q} : Num(r)' = Num(r)
  PROVE  Holding'
<1>1. ASSUME NEW r \in Places
      PROVE  \E s \in Places : Num(r)' = Num(s)
  OBVIOUS
<1>2. StaleOnlyByRewait'
  <2>1. ASSUME NEW r \in Places, Num(r)' # None, "rewait" \notin hazards
        PROVE  occupant'[Num(r)'] \in Children
    <3>1. PICK s \in Places : Num(r)' = Num(s)
      BY <1>1
    <3>2. occupant[Num(s)] \in Children /\ Num(s) \in Pids
      BY <2>1, <3>1, NumValues, ProcessAssumption
         DEF Holding, StaleOnlyByRewait, HandleNamesChild, Pids, None
    <3> QED
      BY <3>1, <3>2 DEF SameKids
  <2> QED
    BY <2>1 DEF StaleOnlyByRewait, HandleNamesChild, Places, None
<1>3. OneHolder'
  BY DEF Holding, OneHolder, Places, None
<1>4. WaitOnDestroy => ZombieOnlyByInterrupt'
  <2>1. ASSUME WaitOnDestroy, "eintr" \notin hazards,
               NEW n \in Pids, occupant'[n] \in Children
        PROVE  \E r \in Places : Num(r)' = n
    <3>1. PICK r \in Places : Num(r) = n
      BY <2>1 DEF SameKids, Holding, ZombieOnlyByInterrupt
    <3> QED
      BY <3>1
  <2> QED
    BY <2>1 DEF ZombieOnlyByInterrupt, Places, Pids, Children
<1> QED
  BY <1>2, <1>3, <1>4 DEF Holding

\* A place may lose the pid it holds when no child is left behind it or another
\* place holds it too; in a program that uses handles after wait() it may keep it.
LEMMA GiveUp ==
  ASSUME Holding, hazards' = hazards, TypeOK, NEW p \in Places,
         Num(p)' = None \/ ("rewait" \in hazards /\ Num(p)' = Num(p)),
         \A r \in Places \ {p} : Num(r)' = Num(r),
         \A n \in Pids \ {Num(p)} : occupant'[n] = occupant[n],
         WaitOnDestroy /\ "eintr" \notin hazards /\ Num(p) \in Pids =>
           \/ occupant'[Num(p)] \notin Children
           \/ \E r \in Places \ {p} : Num(r) = Num(p)
  PROVE  Holding'
<1>1. StaleOnlyByRewait'
  <2>1. ASSUME NEW r \in Places, Num(r)' # None, "rewait" \notin hazards
        PROVE  occupant'[Num(r)'] \in Children
    <3>1. r # p /\ Num(r)' = Num(r)
      BY <2>1
    <3>2. Num(r) # Num(p) /\ Num(r) \in Pids
      BY <2>1, <3>1, NumValues, ProcessAssumption
         DEF Holding, OneHolder, Pids, None
    <3> QED
      BY <2>1, <3>1, <3>2 DEF Holding, StaleOnlyByRewait, HandleNamesChild
  <2> QED
    BY <2>1 DEF StaleOnlyByRewait, HandleNamesChild, Places, None
<1>2. OneHolder'
  BY DEF Holding, OneHolder, Places, None
<1>3. WaitOnDestroy => ZombieOnlyByInterrupt'
  <2>1. ASSUME WaitOnDestroy, "eintr" \notin hazards,
               NEW n \in Pids, occupant'[n] \in Children
        PROVE  \E r \in Places : Num(r)' = n
    <3>1. CASE n = Num(p)
      BY <2>1, <3>1
    <3>2. CASE n # Num(p)
      <4>1. PICK r \in Places : Num(r) = n
        BY <2>1, <3>2 DEF Holding, ZombieOnlyByInterrupt
      <4> QED
        BY <3>2, <4>1
    <3> QED
      BY <3>1, <3>2
  <2> QED
    BY <2>1 DEF ZombieOnlyByInterrupt, Places, Pids, Children
<1> QED
  BY <1>1, <1>2, <1>3 DEF Holding

\* A place that holds nothing may get a pid that was free, with a child behind.
LEMMA Gain ==
  ASSUME Holding, hazards' = hazards, TypeOK, NEW p \in Places,
         NEW n \in Pids, occupant[n] = Free, occupant'[n] \in Children,
         Num(p) = None, Num(p)' = n,
         \A r \in Places \ {p} : Num(r)' = Num(r),
         \A m \in Pids \ {n} : occupant'[m] = occupant[m]
  PROVE  Holding'
<1> USE DEF Pids, Children, Free, None
<1>1. ASSUME NEW r \in Places \ {p}, Num(r) # None, "rewait" \notin hazards
      PROVE  Num(r) # n /\ Num(r) \in Pids /\ occupant[Num(r)] \in Children
  BY <1>1, NumValues, ProcessAssumption
     DEF Holding, StaleOnlyByRewait, HandleNamesChild
<1>2. StaleOnlyByRewait'
  BY <1>1 DEF StaleOnlyByRewait, HandleNamesChild, Places
<1>3. OneHolder'
  BY <1>1 DEF Holding, OneHolder, Places
<1>4. WaitOnDestroy => ZombieOnlyByInterrupt'
  <2>1. ASSUME WaitOnDestroy, "eintr" \notin hazards,
               NEW m \in Pids, occupant'[m] \in Children
        PROVE  \E r \in Places : Num(r)' = m
    <3>1. CASE m = n
      BY <3>1
    <3>2. CASE m # n
      <4>1. PICK r \in Places : Num(r) = m
        BY <2>1, <3>2 DEF Holding, ZombieOnlyByInterrupt
      <4> QED
        BY <4>1
    <3> QED
      BY <3>1, <3>2
  <2> QED
    BY <2>1 DEF ZombieOnlyByInterrupt, Places
<1> QED
  BY <1>2, <1>3, <1>4 DEF Holding
-----------------------------------------------------------------------------
\* The steps that leave the handles of the program and the end of a stop alone.
LEMMA Still ==
  ASSUME Holding, hazards' = hazards, SameKids, TypeOK, raw' = raw,
         pid'[0] = pid[0], \A h \in Handles : Stopped(h)' <=> Stopped(h)
  PROVE  Holding'
<1>1. \A r \in Places : Num(r)' = Num(r)
  BY DEF Places, Num
<1>2. NoHandle \in Places
  BY DEF Places
<1> QED
  BY <1>1, <1>2, Exchange

\* A stop that reaches its end gives up the pid of its handle.
LEMMA Ends ==
  ASSUME Holding, hazards' = hazards, TypeOK, NEW h \in Handles, raw' = raw,
         pid'[0] = pid[0], frame[0].op # "take", frame'[0].op = "take",
         frame'[0].this = h, frame'[0].other # h,
         \A n \in Pids \ {pid[0][h]} : occupant'[n] = occupant[n],
         WaitOnDestroy /\ "eintr" \notin hazards /\ pid[0][h] \in Pids =>
           \/ occupant'[pid[0][h]] \notin Children
           \/ \E g \in Handles \ {h} : pid[0][g] = pid[0][h]
  PROVE  Holding'
<1> USE ProcessAssumption
<1>1. h \in Places /\ Num(h) = pid[0][h] /\ Num(h)' = None
  BY DEF Places, Num, Stopped
<1>2. \A r \in Places \ {h} : Num(r)' = Num(r)
  BY DEF Places, Num, Stopped
<1>3. \A g \in Handles \ {h} : g \in Places /\ Num(g) = pid[0][g]
  BY DEF Places, Num, Stopped
<1> QED
  BY <1>1, <1>2, <1>3, GiveUp

\* The calls of the program keep every pid with one holder.
LEMMA CallHolds ==
  ASSUME IInv, NEW h \in Handles,
         \/ Fork(h) \/ Reset(h) \/ Kill(h) \/ Wait(h) \/ Destroy(0, h)
         \/ \E g \in Handles : MoveConstruct(h, g) \/ MoveAssign(h, g)
  PROVE  Holding'
<1> USE ProcessAssumption
<1>1. TypeOK /\ Stops /\ Holding /\ hazards' = hazards
  BY DEF IInv, Holding, Fork, Reset, Kill, Wait, Destroy, MoveConstruct, MoveAssign
<1>2. frame[0] = Idle /\ 0 \in Processes
  BY DEF Fork, Reset, Kill, Wait, Destroy, MoveConstruct, MoveAssign, Ready, Processes
<1>3. \A p \in Places : Num(p) = IF p = NoHandle THEN raw ELSE pid[0][p]
  BY <1>2, FrameValues DEF Num, Stopped
<1>4. h \in Places /\ NoHandle \in Places /\ h # NoHandle
  BY DEF Places
<1>5. pid[0] \in [Handles -> 0 .. MaxPid] /\ pid \in [Processes -> [Handles -> 0 .. MaxPid]]
      /\ frame \in [Processes -> Frames]
  BY <1>1, <1>2 DEF TypeOK
<1>6. frame' = frame => \A p \in Places :
        Num(p)' = IF p = NoHandle THEN raw' ELSE pid'[0][p]
  BY <1>2, FrameValues DEF Num, Stopped
<1>7. CASE Fork(h)
  <2>1. /\ frame' = frame /\ raw' = raw /\ pid[0][h] = None
        /\ forked + 1 \in Children /\ forked' = forked + 1
    BY <1>1, <1>7 DEF Fork, valid, TypeOK, Children
  <2>2. PICK n \in Pids : /\ occupant[n] = Free
                          /\ occupant' = [occupant EXCEPT ![n] = forked + 1]
                          /\ pid' = [pid EXCEPT ![0][h] = n, ![forked + 1] = pid[0]]
    BY <1>7, <2>1 DEF Fork
  <2>3. pid'[0] = [pid[0] EXCEPT ![h] = n]
    BY <1>2, <1>5, <2>1, <2>2 DEF Children
  <2>4. Num(h) = None /\ Num(h)' = n /\ \A r \in Places \ {h} : Num(r)' = Num(r)
    BY <1>3, <1>4, <1>5, <1>6, <2>1, <2>3 DEF Places
  <2>5. occupant'[n] \in Children /\ \A m \in Pids \ {n} : occupant'[m] = occupant[m]
    BY <1>1, <2>1, <2>2 DEF TypeOK
  <2> QED
    BY <1>1, <1>4, <2>2, <2>4, <2>5, Gain
<1>8. CASE Reset(h)
  <2>1. frame' = frame /\ raw' = pid[0][h] /\ pid'[0] = [pid[0] EXCEPT ![h] = raw]
    BY <1>2, <1>5, <1>8 DEF Reset
  <2>2. /\ Num(h)' = Num(NoHandle) /\ Num(NoHandle)' = Num(h)
        /\ \A r \in Places \ {h, NoHandle} : Num(r)' = Num(r)
    BY <1>3, <1>4, <1>5, <1>6, <2>1 DEF Places
  <2>3. SameKids
    BY <1>8 DEF Reset, kernelVars, SameKids
  <2> QED
    BY <1>1, <1>4, <2>2, <2>3, Exchange
<1>9. CASE Kill(h)
  BY <1>1, <1>9, Still DEF Kill, SameKids, Stopped
<1>10. CASE Wait(h)
  <2>1. /\ frame' = frame /\ raw' = raw
        /\ Reap(0, pid[0][h])
        /\ \/ "rewait" \in hazards /\ pid' = pid
           \/ pid'[0] = [pid[0] EXCEPT ![h] = None]
    BY <1>2, <1>5, <1>10 DEF Wait
  <2>2. Num(h) = pid[0][h] /\ \A r \in Places \ {h} : Num(r)' = Num(r)
    BY <1>3, <1>4, <1>5, <1>6, <2>1 DEF Places
  <2>3. Num(h)' = None \/ ("rewait" \in hazards /\ Num(h)' = Num(h))
    BY <1>3, <1>4, <1>5, <1>6, <2>1
  <2>4. /\ \A n \in Pids \ {Num(h)} : occupant'[n] = occupant[n]
        /\ Num(h) \in Pids => occupant'[Num(h)] \notin Children
    BY <1>1, <2>1, <2>2 DEF Reap, TypeOK, Free, Children
  <2> QED
    BY <1>1, <1>4, <2>2, <2>3, <2>4, GiveUp
<1>11. CASE Destroy(0, h)
  <2>1. frame'[0] = [op |-> FirstStep, this |-> h, other |-> NoHandle]
        /\ raw' = raw /\ pid' = pid /\ occupant' = occupant
    BY <1>2, <1>5, <1>11 DEF Destroy, kernelVars
  <2>2. CASE FirstStep # "take"
    BY <1>1, <1>2, <2>1, <2>2, FrameValues, Still DEF SameKids, Stopped
  <2>3. CASE FirstStep = "take"
    BY <1>1, <1>2, <1>4, <2>1, <2>3, FrameValues, Ends DEF FirstStep, AfterSignal
  <2> QED
    BY <2>2, <2>3
<1>12. ASSUME NEW g \in Handles, MoveConstruct(h, g) PROVE Holding'
  <2>1. /\ frame' = frame /\ raw' = raw /\ pid[0][h] = None
        /\ pid'[0] = [pid[0] EXCEPT ![g] = None, ![h] = pid[0][g]]
    BY <1>2, <1>5, <1>12 DEF MoveConstruct, valid
  <2>2. g \in Places /\ g # NoHandle
    BY DEF Places
  <2>3. /\ Num(h)' = Num(g) /\ Num(g)' = Num(h)
        /\ \A r \in Places \ {h, g} : Num(r)' = Num(r)
    BY <1>3, <1>4, <1>5, <1>6, <2>1, <2>2 DEF Places
  <2>4. SameKids
    BY <1>12 DEF MoveConstruct, kernelVars, SameKids
  <2> QED
    BY <1>1, <1>4, <2>2, <2>3, <2>4, Exchange
<1>13. ASSUME NEW g \in Handles, MoveAssign(h, g) PROVE Holding'
  <2>1. /\ frame'[0].op = IF pid[0][h] # pid[0][g] THEN FirstStep ELSE "take"
        /\ frame'[0].this = h /\ frame'[0].other = g
        /\ raw' = raw /\ pid' = pid /\ occupant' = occupant
    BY <1>2, <1>5, <1>13 DEF MoveAssign, kernelVars
  <2>2. CASE g = h \/ frame'[0].op # "take"
    BY <1>1, <1>2, <2>1, <2>2, FrameValues, Still DEF SameKids, Stopped
  <2>3. CASE g # h /\ frame'[0].op = "take"
    BY <1>1, <1>2, <2>1, <2>3, FrameValues, Ends DEF FirstStep, AfterSignal
  <2> QED
    BY <2>2, <2>3
<1> QED
  BY <1>7, <1>8, <1>9, <1>10, <1>11, <1>12, <1>13

\* So does a stop of the program, from its signal to the end.
LEMMA StopHolds ==
  ASSUME IInv, Continue(0)
  PROVE  Holding'
<1> USE ProcessAssumption
<1>1. TypeOK /\ Stops /\ Holding /\ hazards' = hazards /\ raw' = raw
  BY DEF IInv, Holding, Continue, StopSignal, StopWait, Take
<1>a. /\ pid[0] \in [Handles -> 0 .. MaxPid] /\ pid \in [Processes -> [Handles -> 0 .. MaxPid]]
      /\ frame \in [Processes -> Frames] /\ 0 \in Processes /\ frame[0] \in Frames
  BY <1>1 DEF TypeOK, Processes
<1>b. frame[0].this \in Handles /\ frame[0].other \in Handles \cup {NoHandle}
  BY <1>1, <1>a DEF Frames, Stops, Continue, StopSignal, StopWait, Take
<1>c. PICK h \in Handles, g \in Handles \cup {NoHandle} :
        h = frame[0].this /\ g = frame[0].other
  BY <1>b
<1>2. /\ pid[0] \in [Handles -> 0 .. MaxPid] /\ pid \in [Processes -> [Handles -> 0 .. MaxPid]]
      /\ frame \in [Processes -> Frames] /\ 0 \in Processes
      /\ h = frame[0].this /\ g = frame[0].other
  BY <1>a, <1>c
<1>3. CASE StopSignal(0)
  <2>1. /\ pid' = pid /\ occupant' = occupant /\ frame[0].op = "signal" /\ h # g
        /\ frame'[0].op = AfterSignal /\ frame'[0].this = h /\ frame'[0].other = g
    BY <1>1, <1>2, <1>3 DEF StopSignal, Stops, Frames
  <2>2. CASE AfterSignal = "wait"
    BY <1>1, <2>1, <2>2, Still DEF SameKids, Stopped
  <2>3. CASE AfterSignal = "take"
    BY <1>1, <1>2, <2>1, <2>3, Ends DEF AfterSignal
  <2> QED
    BY <2>2, <2>3, FrameValues DEF AfterSignal
<1>4. CASE StopWait(0)
  <2>1. /\ pid' = pid /\ frame[0].op = "wait" /\ h # g /\ pid[0][h] # None
        /\ frame'[0].op = "take" /\ frame'[0].this = h /\ frame'[0].other = g
    BY <1>1, <1>2, <1>4 DEF StopWait, Stops, Frames, valid
  <2>2. pid[0][h] \in Pids
    BY <1>2, <2>1 DEF Pids, None
  <2>3. /\ \A n \in Pids \ {pid[0][h]} : occupant'[n] = occupant[n]
        /\ "eintr" \notin hazards => occupant'[pid[0][h]] \notin Children
    <3>1. CASE Reap(0, pid[0][h])
      BY <1>1, <2>2, <3>1 DEF Reap, TypeOK, Free, Children
    <3>2. CASE UNCHANGED kernelVars /\ (~IsChild(0, pid[0][h]) \/ "eintr" \in hazards)
      BY <3>2 DEF kernelVars, IsChild
    <3> QED
      BY <1>2, <1>4, <3>1, <3>2 DEF StopWait
  <2> QED
    BY <1>1, <1>2, <2>1, <2>3, Ends
<1>5. CASE Take(0)
  <2>1. /\ frame[0].op = "take" /\ frame'[0] = Idle /\ occupant' = occupant
        /\ pid'[0] = IF g = NoHandle THEN [pid[0] EXCEPT ![h] = None]
                     ELSE [pid[0] EXCEPT ![g] = None, ![h] = pid[0][g]]
    BY <1>2, <1>5 DEF Take, kernelVars
  <2>2. SameKids
    BY <2>1 DEF SameKids
  <2>3. \A p \in Places : Num(p)' = IF p = NoHandle THEN raw ELSE pid'[0][p]
    BY <1>1, <2>1, FrameValues DEF Num, Stopped
  <2>4. \A p \in Places : Num(p) = IF p = NoHandle THEN raw
                                   ELSE IF p = h /\ h # g THEN None ELSE pid[0][p]
    BY <1>2, <2>1 DEF Num, Stopped
  <2>5. h \in Places /\ (g # NoHandle => g \in Places) /\ h # NoHandle
    BY <1>2 DEF Places
  <2>6. CASE g = NoHandle
    <3>1. Num(h)' = Num(h) /\ \A r \in Places \ {h} : Num(r)' = Num(r)
      BY <1>2, <2>1, <2>3, <2>4, <2>5, <2>6 DEF Places
    <3> QED
      BY <1>1, <2>2, <2>5, <3>1, Exchange
  <2>7. CASE g # NoHandle
    <3>1. Num(h)' = Num(g) /\ Num(g)' = Num(h)
      BY <1>2, <2>1, <2>3, <2>4, <2>5, <2>7
    <3>2. \A r \in Places \ {h, g} : Num(r)' = Num(r)
      BY <1>2, <2>1, <2>3, <2>4, <2>5, <2>7 DEF Places
    <3> QED
      BY <1>1, <2>2, <2>5, <2>7, <3>1, <3>2, Exchange
  <2> QED
    BY <2>6, <2>7
<1> QED
  BY <1>3, <1>4, <1>5 DEF Continue

\* What a child does with its copies of the handles leaves the program's alone:
\* it can wait for no process, and signals change nothing but who ends.
LEMMA ChildHolds ==
  ASSUME IInv, NEW x \in Children,
         Continue(x) \/ Exit(x) \/ \E h \in Handles : Destroy(x, h)
  PROVE  Holding' /\ Stops'
<1> USE ProcessAssumption
<1>1. TypeOK /\ Stops /\ Holding /\ x # 0 /\ x \in Processes /\ 0 \in Processes
  BY DEF IInv, Holding, Children, Processes
<1>2. frame'[0] = frame[0] /\ pid'[0] = pid[0]
  BY <1>1 DEF Continue, StopSignal, StopWait, Take, Exit, Destroy, TypeOK
<1>3. hazards' = hazards /\ raw' = raw
  BY DEF Continue, StopSignal, StopWait, Take, Exit, Destroy
<1>4. occupant' = occupant
  BY <1>1 DEF Continue, StopSignal, StopWait, Reap, IsChild, Take, Exit, Destroy, kernelVars
<1>5. SameKids /\ \A h \in Handles : Stopped(h)' <=> Stopped(h)
  BY <1>2, <1>4 DEF SameKids, Stopped
<1>6. Stops'
  BY <1>1, <1>2 DEF Stops, valid
<1> QED
  BY <1>1, <1>2, <1>3, <1>5, <1>6, Still

\* A stop begins for a valid handle and keeps the pid until it is over.
LEMMA StepStops ==
  ASSUME IInv, Next
  PROVE  Stops'
<1> USE ProcessAssumption
<1>1. TypeOK /\ Stops /\ 0 \in Processes /\ NoHandle \notin Handles
      /\ frame \in [Processes -> Frames]
  BY DEF IInv, TypeOK, Processes
<1>2. CASE frame'[0] = Idle
  BY <1>2, FrameValues DEF Stops
<1>3. ASSUME NEW h \in Handles, Fork(h) \/ Reset(h) \/ Kill(h) \/ Wait(h)
                                \/ \E g \in Handles : MoveConstruct(h, g)
      PROVE  Stops'
  BY <1>2, <1>3 DEF Fork, Reset, Kill, Wait, MoveConstruct, Ready
<1>4. ASSUME NEW h \in Handles, Destroy(0, h) PROVE Stops'
  BY <1>1, <1>4, FrameValues DEF Stops, Destroy, valid
<1>5. ASSUME NEW h \in Handles, NEW g \in Handles, MoveAssign(h, g) PROVE Stops'
  BY <1>1, <1>5, FrameValues DEF Stops, MoveAssign, valid
<1>6. CASE Continue(0)
  <2>1. CASE StopSignal(0)
    BY <1>1, <2>1, FrameValues DEF Stops, StopSignal, valid, Frames
  <2>2. CASE StopWait(0)
    BY <1>1, <2>2, FrameValues DEF Stops, StopWait, Frames
  <2>3. CASE Take(0)
    BY <1>1, <1>2, <2>3 DEF Take
  <2> QED
    BY <1>6, <2>1, <2>2, <2>3 DEF Continue
<1>7. CASE OtherProgram
  BY <1>1, <1>7 DEF OtherProgram, Stops, valid
<1>8. \A x \in Processes : x = 0 \/ x \in Children
  BY DEF Processes, Children
<1> QED
  BY <1>3, <1>4, <1>5, <1>6, <1>7, <1>8, ChildHolds DEF Next

\* The invariant holds at the start.
LEMMA InitIInv == Init => IInv
<1> SUFFICES ASSUME Init PROVE IInv
  OBVIOUS
<1> USE ProcessAssumption
<1>1. TypeOK /\ 0 \in Processes
  BY InitType DEF Processes
<1>2. Stops
  BY <1>1, FrameValues DEF Init, Stops
<1>3. \A p \in Places : Num(p) = None
  BY <1>1 DEF Init, Places, Num
<1>4. StaleOnlyByRewait /\ OneHolder
  BY <1>3 DEF StaleOnlyByRewait, HandleNamesChild, OneHolder
<1>5. ZombieOnlyByInterrupt
  BY DEF Init, ZombieOnlyByInterrupt, Free, Children
<1> QED
  BY <1>1, <1>2, <1>4, <1>5 DEF IInv

\* Every step keeps it.
LEMMA StepIInv == IInv /\ [Next]_vars => IInv'
<1> SUFFICES ASSUME IInv, [Next]_vars PROVE IInv'
  OBVIOUS
<1> USE ProcessAssumption
<1>1. TypeOK' /\ TypeOK /\ Holding
  BY StepType DEF IInv, Holding
<1>2. CASE UNCHANGED vars
  <2>1. Stops'
    BY <1>2 DEF vars, IInv, Stops, valid
  <2>2. Holding'
    BY <1>1, <1>2, Still DEF vars, SameKids, Stopped
  <2> QED
    BY <1>1, <2>1, <2>2 DEF IInv, Holding
<1>3. CASE Next
  <2>1. ASSUME OtherProgram PROVE Holding'
    <3>1. hazards' = hazards /\ raw' = raw /\ pid' = pid /\ frame' = frame
      BY <2>1 DEF OtherProgram
    <3>2. SameKids
      BY <1>1, <2>1 DEF OtherProgram, SameKids, TypeOK, Free, Foreign, Children
    <3> QED
      BY <1>1, <3>1, <3>2, Still DEF Stopped
  <2>2. \A x \in Processes : x = 0 \/ x \in Children
    BY DEF Processes, Children
  <2>3. Holding'
    BY <1>1, <1>3, <2>1, <2>2, CallHolds, StopHolds, ChildHolds DEF Next
  <2> QED
    BY <1>1, <1>3, <2>3, StepStops DEF IInv, Holding
<1> QED
  BY <1>2, <1>3

\* In a program that does not use a handle after wait(), a valid handle names a
\* child that is not reaped (Process.hxx:251), whatever signals interrupt the
\* stops and whatever children do with their copies of the handles.
THEOREM NamesItsChild == Spec => []StaleOnlyByRewait
<1>1. IInv => StaleOnlyByRewait
  BY DEF IInv
<1> QED
  BY <1>1, InitIInv, StepIInv, PTL DEF Spec

\* Nor do two handles of such a program ever name the same child.
THEOREM UniqueHolder == Spec => []OneHolder
<1>1. IInv => OneHolder
  BY DEF IInv
<1> QED
  BY <1>1, InitIInv, StepIInv, PTL DEF Spec

\* With a behavior that waits, a child that exists is held by a handle, unless
\* the wait of a stop was interrupted: even a program that uses handles after
\* wait() leaves no zombie behind.
THEOREM NoZombie == ASSUME WaitOnDestroy PROVE Spec => []ZombieOnlyByInterrupt
<1>1. IInv => ZombieOnlyByInterrupt
  BY DEF IInv
<1> QED
  BY <1>1, InitIInv, StepIInv, PTL DEF Spec
-----------------------------------------------------------------------------
\* A child that exists has one pid, and every other child has none.
Alive(c) == life[c] \in {"running", "zombie"}

OnePid ==
  /\ \A c \in Children : Alive(c) <=> \E p \in Pids : occupant[p] = c
  /\ \A p, q \in Pids : occupant[p] \in Children /\ occupant[p] = occupant[q] => p = q
  /\ \A c \in Children : c > forked => life[c] = "unborn"
  /\ \A c \in Children : c <= forked => life[c] # "unborn"

\* What becomes of children in a step: one is born, one ends, one is reaped.
Born == \E n \in Pids : /\ occupant[n] = Free /\ forked < MaxForks
                        /\ forked' = forked + 1
                        /\ life' = [life EXCEPT ![forked + 1] = "running"]
                        /\ occupant' = [occupant EXCEPT ![n] = forked + 1]
Ended == \E c \in Children : /\ life[c] = "running"
                             /\ life' = [life EXCEPT ![c] = "zombie"]
                             /\ UNCHANGED <<occupant, forked>>
Reaped == \E n \in Pids : Reap(0, n)
Alike == SameKids /\ UNCHANGED <<life, forked>>

\* Every step is one of these.
LEMMA KidsStep ==
  ASSUME IInv, [Next]_vars
  PROVE  Born \/ Ended \/ Reaped \/ Alike
<1> USE ProcessAssumption
<1>1. TypeOK /\ 0 \in Processes /\ pid[0] \in [Handles -> 0 .. MaxPid]
  BY DEF IInv, TypeOK, Processes
<1>2. ASSUME NEW h \in Handles, Fork(h) PROVE Born
  BY <1>2 DEF Born, Fork
<1>3. ASSUME NEW h \in Handles, Wait(h) PROVE Reaped
  BY <1>1, <1>3 DEF Reaped, Wait, valid, Pids, None
<1>4. ASSUME NEW h \in Handles,
             \/ Reset(h) \/ Kill(h) \/ \E x \in Processes : Destroy(x, h)
             \/ \E g \in Handles : MoveConstruct(h, g) \/ MoveAssign(h, g)
      PROVE  Alike
  BY <1>4 DEF Alike, SameKids, Reset, Kill, Destroy, MoveConstruct, MoveAssign, kernelVars
<1>5. ASSUME NEW x \in Processes, Continue(x) PROVE Reaped \/ Alike
  <2>1. CASE StopSignal(x) \/ Take(x)
    BY <2>1 DEF Alike, SameKids, StopSignal, Take, kernelVars
  <2>2. CASE StopWait(x) /\ UNCHANGED kernelVars
    BY <2>2 DEF Alike, SameKids, kernelVars
  <2>3. CASE StopWait(x) /\ Reap(x, pid[x][frame[x].this])
    <3>1. x = 0 /\ frame[0].op = "wait"
      BY <2>3 DEF Reap, IsChild, StopWait
    <3>2. frame[0].this \in Handles /\ pid[0][frame[0].this] \in Pids
      BY <1>1, <3>1 DEF IInv, Stops, valid, Pids, None
    <3> QED
      BY <2>3, <3>1, <3>2 DEF Reaped
  <2> QED
    BY <1>5, <2>1, <2>2, <2>3 DEF Continue, StopWait
<1>6. ASSUME NEW c \in Children, Exit(c) PROVE Ended
  BY <1>6 DEF Ended, Exit
<1>7. CASE OtherProgram
  BY <1>1, <1>7 DEF OtherProgram, Alike, SameKids, TypeOK, Free, Foreign, Children
<1>8. CASE UNCHANGED vars
  BY <1>8 DEF vars, Alike, SameKids
<1> QED
  BY <1>2, <1>3, <1>4, <1>5, <1>6, <1>7, <1>8 DEF Next

\* The kernel gives each child one pid until it is reaped.
LEMMA OnePidStep == IInv /\ OnePid /\ [Next]_vars => OnePid'
<1> SUFFICES ASSUME IInv, OnePid, [Next]_vars PROVE OnePid'
  OBVIOUS
<1> USE ProcessAssumption DEF Children, Pids, Free
<1>1. /\ occupant \in [Pids -> {Free, Foreign} \cup Children]
      /\ life \in [Children -> {"unborn", "running", "zombie", "reaped"}]
      /\ forked \in 0 .. MaxForks
  BY DEF IInv, TypeOK
<1>2. CASE Born
  <2>1. PICK n \in Pids : /\ occupant[n] = Free /\ forked < MaxForks
                          /\ forked' = forked + 1
                          /\ life' = [life EXCEPT ![forked + 1] = "running"]
                          /\ occupant' = [occupant EXCEPT ![n] = forked + 1]
    BY <1>2 DEF Born
  <2>2. \A q \in Pids : occupant[q] # forked + 1
    BY <1>1, <2>1 DEF OnePid, Alive
  <2>3. ASSUME NEW c \in Children
        PROVE  Alive(c)' <=> \E p \in Pids : occupant'[p] = c
    <3>1. CASE c = forked + 1
      BY <1>1, <2>1, <3>1 DEF Alive
    <3>2. CASE c # forked + 1
      <4>1. Alive(c)' <=> Alive(c)
        BY <1>1, <2>1, <3>2 DEF Alive
      <4>2. (\E p \in Pids : occupant'[p] = c) <=> \E p \in Pids : occupant[p] = c
        BY <1>1, <2>1, <3>2
      <4> QED
        BY <4>1, <4>2 DEF OnePid
    <3> QED
      BY <3>1, <3>2
  <2>4. \A p, q \in Pids :
          occupant'[p] \in Children /\ occupant'[p] = occupant'[q] => p = q
    BY <1>1, <2>1, <2>2 DEF OnePid
  <2>5. \A c \in Children : /\ c > forked' => life'[c] = "unborn"
                            /\ c <= forked' => life'[c] # "unborn"
    BY <1>1, <2>1 DEF OnePid
  <2> QED
    BY <2>3, <2>4, <2>5 DEF OnePid
<1>3. CASE Ended
  BY <1>1, <1>3 DEF Ended, OnePid, Alive
<1>4. CASE Reaped
  <2>1. PICK n \in Pids : Reap(0, n)
    BY <1>4 DEF Reaped
  <2>2. PICK d \in Children : d = occupant[n]
    BY <2>1 DEF Reap, IsChild
  <2>3. /\ life[d] = "zombie" /\ forked' = forked
        /\ life' = [life EXCEPT ![d] = "reaped"]
        /\ occupant' = [occupant EXCEPT ![n] = Free]
    BY <2>1, <2>2 DEF Reap
  <2>4. ASSUME NEW c \in Children
        PROVE  Alive(c)' <=> \E p \in Pids : occupant'[p] = c
    <3>1. CASE c = d
      BY <1>1, <2>2, <2>3, <3>1 DEF OnePid, Alive
    <3>2. CASE c # d
      <4>1. Alive(c)' <=> Alive(c)
        BY <1>1, <2>3, <3>2 DEF Alive
      <4>2. (\E p \in Pids : occupant'[p] = c) <=> \E p \in Pids : occupant[p] = c
        BY <1>1, <2>2, <2>3, <3>2
      <4> QED
        BY <4>1, <4>2 DEF OnePid
    <3> QED
      BY <3>1, <3>2
  <2>5. \A p, q \in Pids :
          occupant'[p] \in Children /\ occupant'[p] = occupant'[q] => p = q
    BY <1>1, <2>3 DEF OnePid
  <2>6. \A c \in Children : /\ c > forked' => life'[c] = "unborn"
                            /\ c <= forked' => life'[c] # "unborn"
    BY <1>1, <2>3 DEF OnePid
  <2> QED
    BY <2>4, <2>5, <2>6 DEF OnePid
<1>5. CASE Alike
  <2>1. \A p \in Pids, c \in Children : occupant'[p] = c <=> occupant[p] = c
    BY <1>1, <1>5 DEF Alike, SameKids
  <2> QED
    BY <1>5, <2>1 DEF Alike, OnePid, Alive
<1> QED
  BY <1>2, <1>3, <1>4, <1>5, KidsStep

\* The programs Owns speaks of.
Tame == hazards \subseteq {"childunwinds"}

\* What the mapping makes of a state: a child that exists has one holder, any
\* other none, and no place holds two.
MapOK ==
  /\ AbstractStatus \in [Children -> {"unused", "held", "released"}]
  /\ AbstractHolders \in [Children -> SUBSET Places]
  /\ \A c \in Children :
       IF AbstractStatus[c] = "held"
       THEN \E p \in Places : AbstractHolders[c] = {p}
       ELSE AbstractHolders[c] = {}
  /\ \A c, d \in Children : c # d => AbstractHolders[c] \cap AbstractHolders[d] = {}

\* What a step may do to the status of a child.
Advances(c) ==
  \/ AbstractStatus'[c] = AbstractStatus[c]
  \/ AbstractStatus[c] = "unused" /\ AbstractStatus'[c] = "held"
  \/ AbstractStatus[c] = "held" /\ AbstractStatus'[c] = "released"

\* A child has exactly one holder while it exists.
LEMMA Mapped ==
  ASSUME IInv, OnePid, Tame, WaitOnDestroy
  PROVE  MapOK
<1> USE ProcessAssumption
<1>1. /\ TypeOK /\ HandleNamesChild /\ ZombieOnlyByInterrupt
      /\ \A p, q \in Places : p # q /\ Num(p) # None => Num(p) # Num(q)
      /\ "eintr" \notin hazards
  BY DEF IInv, StaleOnlyByRewait, OneHolder, Tame
<1>2. /\ AbstractStatus \in [Children -> {"unused", "held", "released"}]
      /\ AbstractHolders \in [Children -> SUBSET Places]
      /\ \A c \in Children : AbstractHolders[c] =
           {p \in Places : Num(p) # None /\ occupant[Num(p)] = c}
  BY DEF AbstractStatus, AbstractHolders
<1>3. \A c \in Children : AbstractStatus[c] = "held" <=> Alive(c)
  BY <1>1 DEF AbstractStatus, Alive, TypeOK
<1>4. \A p \in Places : Num(p) # None => Num(p) \in Pids
  BY <1>1, NumValues DEF Pids, None
<1>5. ASSUME NEW c \in Children, Alive(c)
      PROVE  \E p \in Places : AbstractHolders[c] = {p}
  <2>1. PICK n \in Pids : occupant[n] = c
    BY <1>5 DEF OnePid
  <2>2. PICK p \in Places : Num(p) = n
    BY <1>1, <2>1 DEF ZombieOnlyByInterrupt
  <2>3. n # None
    BY DEF Pids, None
  <2>4. p \in AbstractHolders[c]
    BY <1>2, <2>1, <2>2, <2>3
  <2>5. ASSUME NEW q \in AbstractHolders[c] PROVE q = p
    <3>1. q \in Places /\ Num(q) \in Pids /\ occupant[Num(q)] = c
      BY <1>2, <1>4, <2>5
    <3>2. Num(q) = n
      BY <2>1, <3>1 DEF OnePid
    <3> QED
      BY <1>1, <2>2, <2>3, <3>1, <3>2
  <2> QED
    BY <2>4, <2>5
<1>6. ASSUME NEW c \in Children, ~Alive(c) PROVE AbstractHolders[c] = {}
  BY <1>2, <1>4, <1>6 DEF OnePid
<1>7. \A c, d \in Children : c # d => AbstractHolders[c] \cap AbstractHolders[d] = {}
  BY <1>2
<1> QED
  BY <1>2, <1>3, <1>5, <1>6, <1>7 DEF MapOK

\* A child is born, lives and is reaped, in this order.
LEMMA StatusStep ==
  ASSUME IInv, [Next]_vars, NEW c \in Children, OnePid
  PROVE  Advances(c)
<1>1. /\ life \in [Children -> {"unborn", "running", "zombie", "reaped"}]
      /\ forked \in 0 .. MaxForks
  BY DEF IInv, TypeOK
<1>2. /\ AbstractStatus[c] = IF life[c] = "unborn" THEN "unused"
                             ELSE IF life[c] = "reaped" THEN "released" ELSE "held"
      /\ AbstractStatus'[c] = IF life'[c] = "unborn" THEN "unused"
                              ELSE IF life'[c] = "reaped" THEN "released" ELSE "held"
  BY DEF AbstractStatus
<1>3. \/ life'[c] = life[c]
      \/ life[c] = "unborn" /\ life'[c] = "running"
      \/ life[c] = "running" /\ life'[c] = "zombie"
      \/ life[c] = "zombie" /\ life'[c] = "reaped"
  <2>1. CASE Born
    <3>1. /\ forked < MaxForks /\ life' = [life EXCEPT ![forked + 1] = "running"]
      BY <2>1 DEF Born
    <3>2. forked + 1 \in Children /\ life[forked + 1] = "unborn"
      BY <1>1, <3>1, ProcessAssumption DEF OnePid, Children
    <3> QED
      BY <1>1, <3>1, <3>2
  <2>2. CASE Ended
    BY <1>1, <2>2 DEF Ended
  <2>3. CASE Reaped
    BY <1>1, <2>3 DEF Reaped, Reap, IsChild
  <2>4. CASE Alike
    BY <2>4 DEF Alike
  <2> QED
    BY <2>1, <2>2, <2>3, <2>4, KidsStep
<1> QED
  BY <1>2, <1>3 DEF Advances

\* Every step of Process is a step of Ownership, or leaves it alone.
LEMMA StepImplements ==
  ASSUME MapOK, MapOK', \A c \in Children : Advances(c)
  PROVE  Promise!Next
<1>1. ASSUME NEW c \in Children
      PROVE  \/ Promise!Keep(c) \/ Promise!Acquire(c)
             \/ Promise!Transfer(c) \/ Promise!Release(c)
  <2> DEFINE held  == AbstractStatus[c] = "held"
             heldN == AbstractStatus'[c] = "held"
  <2>1. /\ held => \E p \in Places : AbstractHolders[c] = {p}
        /\ ~held => AbstractHolders[c] = {}
        /\ heldN => \E p \in Places : AbstractHolders'[c] = {p}
        /\ ~heldN => AbstractHolders'[c] = {}
    BY DEF MapOK, Places
  <2>2. CASE held /\ heldN
    BY <2>1, <2>2 DEF Promise!Transfer, Promise!Held
  <2>3. CASE held /\ ~heldN
    BY <2>1, <2>3 DEF Promise!Release, Promise!Held, Advances
  <2>4. CASE ~held /\ heldN
    BY <2>1, <2>4 DEF Promise!Acquire, Promise!Held, Advances
  <2>5. CASE ~held /\ ~heldN
    BY <2>1, <2>5 DEF Promise!Keep, Advances
  <2> QED
    BY <2>2, <2>3, <2>4, <2>5
<1>2. /\ AbstractStatus' \in [Children -> {"unused", "held", "released"}]
      /\ AbstractHolders' \in [Children -> SUBSET Places]
      /\ \A c, d \in Children :
           c # d => AbstractHolders'[c] \cap AbstractHolders'[d] = {}
  BY DEF MapOK, Places, Children
<1> QED
  BY <1>1, <1>2 DEF Promise!Next

\* With a behavior that waits, Process keeps the promise of Ownership: a child
\* is forked into one handle, held by one at a time and reaped once, in programs
\* whose waits are not interrupted and that reset the handles they waited for.
THEOREM Implements == ASSUME WaitOnDestroy PROVE Spec => Owns
<1>1. Init => OnePid /\ Promise!Init
  <2> SUFFICES ASSUME Init PROVE OnePid /\ Promise!Init
    OBVIOUS
  <2> USE ProcessAssumption DEF Init, Children, Pids, Free
  <2>1. OnePid
    BY DEF OnePid, Alive
  <2>2. AbstractStatus = [c \in Children |-> "unused"]
    BY DEF AbstractStatus
  <2>3. \A p \in Places : Num(p) = None
    BY DEF Places, Num, Processes
  <2>4. AbstractHolders = [c \in Children |-> {}]
    BY <2>3 DEF AbstractHolders
  <2> QED
    BY <2>1, <2>2, <2>4 DEF Promise!Init
<1>2. IInv /\ OnePid /\ [Next]_vars => IInv' /\ OnePid'
  BY StepIInv, OnePidStep
<1>3. IInv /\ OnePid /\ IInv' /\ OnePid' /\ [Next]_vars =>
        [hazards \subseteq {"childunwinds"} => [Promise!Next]_(Promise!vars)]_vars
  <2> SUFFICES ASSUME IInv, OnePid, IInv', OnePid', [Next]_vars, Tame
               PROVE  Promise!Next
    BY DEF Tame
  <2>1. hazards' = hazards
    BY DEF Next, Continue, Fork, Reset, Kill, Wait, Destroy, MoveConstruct, MoveAssign,
       StopSignal, StopWait, Take, Exit, OtherProgram, vars
  <2>2. MapOK
    BY Mapped
  <2>3. Tame'
    BY <2>1 DEF Tame
  <2>4. MapOK'
    BY <2>3, Mapped, PTL
  <2> QED
    BY <2>2, <2>4, StatusStep, StepImplements
<1> QED
  BY <1>1, <1>2, <1>3, InitIInv, PTL DEF Spec, Owns
-----------------------------------------------------------------------------
\* Liveness.  What the stop of a process does next, or is stuck on.
Stopping(x, op) == frame[x].op = op

\* The wait of x is not stuck on a running child.
Freed(x) == Stopping(x, "wait") /\ ~\E c \in Children : WaitsFor(x, c)

\* Only running processes are inside a stop, and a stop waits for a child only
\* after it signalled it, with a behavior that signals.
Chased ==
  /\ \A x \in Processes : frame[x] = Idle \/ (frame[x].op # "idle" /\ x \in Running)
  /\ SignalOnDestroy => \A c \in Children : WaitsFor(0, c) => signalled[c]

\* A call in progress in process x, and the pids of the program while it is in
\* one, are changed by x alone; a process that ends leaves its calls.
LEMMA Undisturbed ==
  ASSUME IInv, [Next]_vars, NEW x \in Processes, frame[x] # Idle
  PROVE  \/ Continue(x)
         \/ frame'[x] = Idle
         \/ /\ frame'[x] = frame[x]
            /\ x = 0 => /\ SameKids /\ pid'[0] = pid[0]
                        /\ \A c \in Children :
                             /\ signalled[c] => signalled'[c]
                             /\ life'[c] = "running" => life[c] = "running"
<1> USE ProcessAssumption
<1>1. TypeOK /\ 0 \in Processes /\ Children \subseteq Processes /\ 0 \notin Children
  BY DEF IInv, Processes, Children
<1>2. CASE UNCHANGED vars
  BY <1>2 DEF vars, SameKids
<1>3. ASSUME NEW h \in Handles,
             \/ Fork(h) \/ Reset(h) \/ Kill(h) \/ Wait(h)
             \/ \E g \in Handles : MoveConstruct(h, g) \/ MoveAssign(h, g)
      PROVE  x # 0 /\ frame'[x] = frame[x]
  BY <1>1, <1>3 DEF Fork, Reset, Kill, Wait, MoveConstruct, MoveAssign, Ready, TypeOK
<1>4. ASSUME NEW h \in Handles, NEW y \in Processes, Destroy(y, h)
      PROVE  frame'[x] = frame[x] /\ UNCHANGED <<kernelVars, pid>>
  BY <1>1, <1>4 DEF Destroy, Ready, TypeOK
<1>5. ASSUME NEW y \in Processes, Continue(y), y # x
      PROVE  /\ frame'[x] = frame[x]
             /\ x = 0 => /\ pid'[0] = pid[0] /\ UNCHANGED <<occupant, life>>
                         /\ \A c \in Children : signalled[c] => signalled'[c]
  <2>1. frame'[x] = frame[x]
    BY <1>1, <1>5 DEF Continue, StopSignal, StopWait, Take, TypeOK
  <2>2. CASE StopSignal(y)
    BY <2>1, <2>2 DEF StopSignal, SysKill
  <2>3. CASE StopWait(y)
    BY <1>5, <2>1, <2>3 DEF StopWait, Reap, IsChild, kernelVars
  <2>4. CASE Take(y)
    BY <1>1, <1>5, <2>1, <2>4 DEF Take, TypeOK, kernelVars
  <2> QED
    BY <1>5, <2>2, <2>3, <2>4 DEF Continue
<1>6. ASSUME NEW c \in Children, Exit(c)
      PROVE  /\ frame'[x] = Idle \/ frame'[x] = frame[x]
             /\ UNCHANGED <<occupant, pid, signalled>>
             /\ \A d \in Children : life'[d] = "running" => life[d] = "running"
  BY <1>1, <1>6 DEF Exit, TypeOK
<1>7. CASE OtherProgram
  BY <1>1, <1>7 DEF OtherProgram, SameKids, TypeOK, Free, Foreign, Children
<1> QED
  BY <1>2, <1>3, <1>4, <1>5, <1>6, <1>7 DEF Next, SameKids, kernelVars

\* A child inside a stop runs.
LEMMA ChildRuns ==
  ASSUME TypeOK, [Next]_vars, NEW x \in Children,
         frame[x] # Idle => life[x] = "running"
  PROVE  frame'[x] # Idle => life'[x] = "running"
<1> USE ProcessAssumption
<1>1. /\ 0 \in Processes /\ x \in Processes /\ x # 0
  BY DEF Processes, Children
<1>2. CASE UNCHANGED vars
  BY <1>2 DEF vars
<1>3. ASSUME NEW h \in Handles, Fork(h)
      PROVE  frame'[x] # Idle => life'[x] = "running"
  BY <1>1, <1>3 DEF Fork, TypeOK
<1>4. ASSUME NEW h \in Handles,
             \/ Reset(h) \/ Kill(h)
             \/ \E g \in Handles : MoveConstruct(h, g) \/ MoveAssign(h, g)
      PROVE  frame'[x] = frame[x] /\ life' = life
  BY <1>1, <1>4 DEF Reset, Kill, MoveConstruct, MoveAssign, kernelVars, TypeOK
<1>5. ASSUME NEW y, NEW p, Reap(y, p) PROVE life[x] = "running" => life'[x] = "running"
  BY <1>5 DEF Reap, TypeOK
<1>6. ASSUME NEW h \in Handles, Wait(h)
      PROVE  frame'[x] # Idle => life'[x] = "running"
  BY <1>5, <1>6 DEF Wait
<1>7. ASSUME NEW h \in Handles, NEW y \in Processes, Destroy(y, h)
      PROVE  frame'[x] # Idle => life'[x] = "running"
  BY <1>1, <1>7 DEF Destroy, Ready, Running, kernelVars, TypeOK
<1>8. ASSUME NEW y \in Processes, Continue(y)
      PROVE  frame'[x] # Idle => life'[x] = "running"
  <2>1. y = x \/ frame'[x] = frame[x]
    BY <1>1, <1>8 DEF Continue, StopSignal, StopWait, Take, TypeOK
  <2>2. frame'[x] # Idle => life[x] = "running"
    BY <1>1, <1>8, <2>1 DEF Continue, Running
  <2>3. life' = life \/ \E p : Reap(y, p)
    BY <1>8 DEF Continue, StopSignal, StopWait, Take, kernelVars
  <2> QED
    BY <1>5, <2>2, <2>3
<1>9. ASSUME NEW c \in Children, Exit(c)
      PROVE  frame'[x] # Idle => life'[x] = "running"
  BY <1>1, <1>9 DEF Exit, TypeOK
<1>10. CASE OtherProgram
  BY <1>10 DEF OtherProgram
<1> QED
  BY <1>2, <1>3, <1>4, <1>6, <1>7, <1>8, <1>9, <1>10 DEF Next

\* A call in progress is one of the steps of a stop.
LEMMA ProperCall ==
  ASSUME TypeOK, [Next]_vars, NEW x \in Processes,
         frame[x] = Idle \/ frame[x].op # "idle"
  PROVE  frame'[x] = Idle \/ frame'[x].op # "idle"
<1>1. CASE frame'[x] = frame[x]
  BY <1>1
<1>2. ASSUME NEW h \in Handles, NEW y \in Processes, Destroy(y, h)
      PROVE  frame'[x] = frame[x] \/ frame'[x].op = FirstStep
  BY <1>2 DEF Destroy, TypeOK
<1>3. ASSUME NEW h \in Handles, NEW g \in Handles, MoveAssign(h, g)
      PROVE  frame'[x] = frame[x] \/ frame'[x].op \in {FirstStep, "take"}
  BY <1>3 DEF MoveAssign, TypeOK
<1>4. ASSUME NEW y \in Processes, Continue(y)
      PROVE  frame'[x] \in {frame[x], Idle} \/ frame'[x].op \in {AfterSignal, "take"}
  BY <1>4 DEF Continue, StopSignal, StopWait, Take, TypeOK, Frames
<1>5. ASSUME NEW c \in Children, Exit(c) PROVE frame'[x] \in {frame[x], Idle}
  BY <1>5 DEF Exit, TypeOK
<1> QED
  BY <1>1, <1>2, <1>3, <1>4, <1>5, FrameValues
     DEF Next, vars, Fork, Reset, Kill, Wait, MoveConstruct, OtherProgram

\* What a stop waits for was signalled.
LEMMA ChasedStep ==
  ASSUME IInv, Chased, [Next]_vars, SignalOnDestroy,
         NEW c \in Children, WaitsFor(0, c)'
  PROVE  signalled'[c]
<1> USE ProcessAssumption
<1>1. TypeOK /\ 0 \in Processes /\ pid[0] \in [Handles -> 0 .. MaxPid]
  BY DEF IInv, TypeOK, Processes
<1>2. frame'[0].op = "wait" /\ frame'[0] # Idle /\ life'[c] = "running"
      /\ occupant'[pid'[0][frame'[0].this]] = c
  BY FrameValues DEF WaitsFor
<1>3. CASE frame[0] = Idle
  <2>1. ASSUME NEW h \in Handles, NEW g \in Handles, Destroy(0, h) \/ MoveAssign(h, g)
        PROVE  FALSE
    BY <1>1, <1>2, <2>1 DEF Destroy, MoveAssign, FirstStep, TypeOK
  <2>2. ASSUME NEW h \in Handles, Fork(h) \/ Reset(h) \/ Kill(h) \/ Wait(h)
                                  \/ \E g \in Handles : MoveConstruct(h, g)
        PROVE  FALSE
    BY <1>2, <1>3, <2>2 DEF Fork, Reset, Kill, Wait, MoveConstruct
  <2>3. ASSUME NEW x \in Processes, x # 0,
               Continue(x) \/ Exit(x) \/ \E h \in Handles : Destroy(x, h)
        PROVE  FALSE
    BY <1>1, <1>2, <1>3, <2>3 DEF Continue, StopSignal, StopWait, Take, Exit, Destroy, TypeOK
  <2>4. CASE Continue(0)
    BY <1>3, <2>4 DEF Continue, StopSignal, StopWait, Take, Idle
  <2>5. CASE OtherProgram \/ UNCHANGED vars
    BY <1>2, <1>3, <2>5 DEF OtherProgram, vars
  <2>6. \A x \in Children : x \in Processes /\ x # 0
    BY DEF Processes, Children
  <2> QED
    BY <2>1, <2>2, <2>3, <2>4, <2>5, <2>6 DEF Next
<1>4. CASE frame[0] # Idle
  <2>1. CASE Continue(0)
    <3>1. StopSignal(0)
      BY <1>1, <1>2, <2>1 DEF Continue, StopWait, Take, TypeOK, Frames
    <3>2. frame'[0].this = frame[0].this /\ pid' = pid /\ UNCHANGED <<occupant, life>>
      BY <1>1, <3>1 DEF StopSignal, TypeOK, Frames
    <3> QED
      BY <1>2, <3>1, <3>2 DEF StopSignal, SysKill
  <2>2. CASE ~Continue(0)
    <3>1. frame'[0] = frame[0] /\ SameKids /\ pid'[0] = pid[0]
          /\ (signalled[c] => signalled'[c]) /\ life[c] = "running"
      BY <1>1, <1>2, <1>4, <2>2, Undisturbed
    <3>2. pid[0][frame[0].this] \in Pids
      BY <1>1, <1>2, <3>1 DEF IInv, Stops, valid, None, Pids
    <3>3. WaitsFor(0, c)
      BY <1>2, <3>1, <3>2 DEF WaitsFor, SameKids
    <3> QED
      BY <3>1, <3>3 DEF Chased
  <2> QED
    BY <2>1, <2>2
<1> QED
  BY <1>3, <1>4

\* Chased holds at the start, and every step keeps it.
LEMMA ChasedInv == Spec => []Chased
<1>1. Init => Chased
  BY ProcessAssumption, FrameValues DEF Init, Chased, WaitsFor, Processes
<1>2. IInv /\ Chased /\ [Next]_vars => Chased'
  <2> SUFFICES ASSUME IInv, Chased, [Next]_vars PROVE Chased'
    OBVIOUS
  <2>1. ASSUME NEW x \in Processes, frame'[x] # Idle
        PROVE  frame'[x].op # "idle" /\ (x \in Running)'
    <3>0. frame'[x].op # "idle"
      BY <2>1, ProperCall DEF Chased, IInv
    <3>1. CASE x = 0
      BY <3>0, <3>1 DEF Running
    <3>2. CASE x # 0
      <4>1. x \in Children /\ (frame[x] # Idle => life[x] = "running")
        BY <2>1, <3>2, ProcessAssumption DEF Chased, Running, Processes, Children
      <4> QED
        BY <2>1, <3>0, <4>1, ChildRuns DEF Running, IInv
    <3> QED
      BY <3>1, <3>2
  <2> QED
    BY <2>1, ChasedStep DEF Chased
<1> QED
  BY <1>1, <1>2, InitIInv, StepIInv, PTL DEF Spec

\* The stop of x goes from step to step.
LEMMA StopMoves ==
  ASSUME IInv, Chased, [Next]_vars, NEW x \in Processes
  PROVE  /\ Stopping(x, "signal") =>
              \/ Stopping(x, "signal")' \/ Stopping(x, "wait")'
              \/ Stopping(x, "take")' \/ (frame[x] = Idle)'
         /\ Stopping(x, "wait") =>
              \/ Stopping(x, "wait")' \/ Stopping(x, "take")' \/ (frame[x] = Idle)'
         /\ Freed(x) =>
              \/ Freed(x)' \/ Stopping(x, "take")' \/ (frame[x] = Idle)'
         /\ Stopping(x, "take") => Stopping(x, "take")' \/ (frame[x] = Idle)'
<1>1. TypeOK /\ frame[x] \in Frames /\ pid[0] \in [Handles -> 0 .. MaxPid]
  BY ProcessAssumption DEF IInv, TypeOK, Processes
<1>2. SUFFICES ASSUME frame[x] # Idle, frame'[x] # Idle
               PROVE  /\ Stopping(x, "signal") =>
                           Stopping(x, "signal")' \/ Stopping(x, "wait")' \/ Stopping(x, "take")'
                      /\ Stopping(x, "wait") => Stopping(x, "wait")' \/ Stopping(x, "take")'
                      /\ Freed(x) => Freed(x)' \/ Stopping(x, "take")'
                      /\ Stopping(x, "take") => Stopping(x, "take")'
  BY FrameValues DEF Stopping, Freed
<1>3. CASE Continue(x)
  BY <1>1, <1>2, <1>3, FrameValues
     DEF Continue, StopSignal, StopWait, Take, Stopping, Freed, TypeOK, Frames
<1>4. CASE ~Continue(x)
  <2>1. frame'[x] = frame[x]
    BY <1>2, <1>4, Undisturbed
  <2>2. ASSUME Freed(x), NEW c \in Children, WaitsFor(x, c)' PROVE FALSE
    <3>1. x = 0 /\ frame[0].op = "wait" /\ life'[c] = "running"
          /\ occupant'[pid'[0][frame'[0].this]] = c
      BY <2>2 DEF WaitsFor, Freed, Stopping
    <3>2. SameKids /\ pid'[0] = pid[0] /\ life[c] = "running"
      BY <1>2, <1>4, <3>1, Undisturbed
    <3>3. pid[0][frame[0].this] \in Pids
      BY <1>1, <3>1, FrameValues, ProcessAssumption DEF IInv, Stops, valid, None, Pids
    <3>4. WaitsFor(x, c)
      BY <2>1, <3>1, <3>2, <3>3 DEF WaitsFor, SameKids
    <3> QED
      BY <2>2, <3>4 DEF Freed
  <2> QED
    BY <2>1, <2>2 DEF Stopping, Freed
<1> QED
  BY <1>3, <1>4

\* Its own step takes it further; the end of the child it waits for frees it.
LEMMA StopAdvances ==
  ASSUME IInv, Chased, NEW x \in Processes
  PROVE  /\ Stopping(x, "signal") /\ <<Continue(x)>>_vars =>
              Stopping(x, "wait")' \/ Stopping(x, "take")'
         /\ Stopping(x, "wait") /\ <<Continue(x)>>_vars => Stopping(x, "take")'
         /\ Stopping(x, "take") /\ <<Continue(x)>>_vars => (frame[x] = Idle)'
         /\ \A c \in Children :
              WaitsFor(x, c) /\ <<Obey(c)>>_vars => Freed(x)'
<1>1. TypeOK /\ frame[x] \in Frames /\ 0 \notin Children
  BY DEF IInv, TypeOK, Children
<1>2. ASSUME NEW c \in Children, WaitsFor(x, c), Exit(c) PROVE Freed(x)'
  <2>1. x = 0 /\ frame'[x] = frame[x] /\ life'[c] = "zombie" /\ UNCHANGED <<occupant, pid>>
    BY <1>1, <1>2 DEF WaitsFor, Exit, TypeOK, Processes
  <2> QED
    BY <1>2, <2>1 DEF WaitsFor, Freed, Stopping
<1> QED
  BY <1>1, <1>2, FrameValues
     DEF Continue, StopSignal, StopWait, Take, Stopping, Obey, TypeOK, Frames

\* The child behind a pid exists, so it runs or is a zombie: no stop waits for
\* one that was reaped.
LEMMA Unblocked == IInv /\ OnePid /\ Chased => StopsUnblocked
<1> SUFFICES ASSUME IInv, OnePid, Chased, NEW x \in Processes, frame[x] # Idle,
                    ~\E c \in Children : WaitsFor(x, c)
             PROVE  MayContinue(x)
  BY DEF StopsUnblocked
<1>1. x \in Running /\ frame[x].op \in {"signal", "wait", "take"}
  BY DEF IInv, TypeOK, Chased, Frames
<1>2. ASSUME frame[x].op = "wait", IsChild(x, pid[x][frame[x].this])
      PROVE  life[occupant[pid[x][frame[x].this]]] = "zombie"
  <2> DEFINE p == pid[x][frame[x].this]
  <2>1. x = 0 /\ occupant[p] \in Children
    BY <1>2 DEF IsChild
  <2>2. p \in Pids
    BY <1>2, <2>1, ProcessAssumption
       DEF IInv, TypeOK, Stops, valid, None, Pids, Processes
  <2>3. life[occupant[p]] \in {"running", "zombie"}
    BY <2>1, <2>2 DEF OnePid, Alive
  <2> QED
    BY <1>2, <2>1, <2>3 DEF WaitsFor
<1> QED
  BY <1>1, <1>2 DEF MayContinue

\* A stop is stuck on nothing but a child that still runs, with any behavior, in
\* the program and in its children, whatever interrupts it (Process.hxx:35-39).
\* With that the run's property holds wherever its steps are possible, which is a
\* matter of each action alone, and which the run checks.
THEOREM NoDeadlock == Spec => [](StopsUnblocked /\ (StepsEnabled => StopsGoOn))
<1>1. Init => OnePid
  BY ProcessAssumption DEF Init, OnePid, Alive, Children, Pids, Free
<1> QED
  BY <1>1, Unblocked, ChasedInv, OnePidStep, InitIInv, StepIInv, PTL DEF Spec, StopsGoOn

\* What the steps of a stop need to be taken.
LEMMA StopEnabled ==
  ASSUME Chased, StopsUnblocked, StepsEnabled, SignalOnDestroy, NEW x \in Processes
  PROVE  /\ Stopping(x, "signal") \/ Stopping(x, "take") \/ Freed(x) =>
              ENABLED <<Continue(x)>>_vars
         /\ \A c \in Children : WaitsFor(x, c) => ENABLED <<Obey(c)>>_vars
<1>1. Stopping(x, "signal") \/ Stopping(x, "take") \/ Freed(x) =>
        frame[x] # Idle /\ ~\E c \in Children : WaitsFor(x, c)
  BY FrameValues DEF Stopping, Freed, WaitsFor
<1>2. \A c \in Children : WaitsFor(x, c) => signalled[c] /\ life[c] = "running"
  BY DEF Chased, WaitsFor
<1> QED
  BY <1>1, <1>2 DEF StopsUnblocked, StepsEnabled

\* The invariants of a fair behaviour.
LEMMA FairInv == FairSpec => [](IInv /\ Chased /\ StopsUnblocked) /\ [][Next]_vars
<1>1. FairSpec => Spec
  BY DEF FairSpec
<1> QED
  BY <1>1, ChasedInv, NoDeadlock, InitIInv, StepIInv, PTL DEF Spec

\* A wait for a child that runs on comes to an end: the child obeys the signal.
LEMMA WaitFreed ==
  ASSUME SignalOnDestroy, NEW x \in Processes
  PROVE  FairSpec /\ []StepsEnabled =>
           (Stopping(x, "wait") ~> Freed(x) \/ Stopping(x, "take") \/ frame[x] = Idle)
<1> DEFINE Past == Freed(x) \/ Stopping(x, "take") \/ frame[x] = Idle
<1>1. ASSUME NEW c \in Children
      PROVE  FairSpec /\ []StepsEnabled => [](WaitsFor(x, c) => <>Past)
  <2>1. FairSpec => ObeyFair(c)
    BY DEF FairSpec
  <2>2. IInv /\ Chased /\ WaitsFor(x, c) /\ [Next]_vars => WaitsFor(x, c)' \/ Past'
    <3> SUFFICES ASSUME IInv, Chased, WaitsFor(x, c), [Next]_vars
                 PROVE  WaitsFor(x, c)' \/ Past'
      OBVIOUS
    <3>1. Stopping(x, "wait")' \/ Stopping(x, "take")' \/ (frame[x] = Idle)'
      BY StopMoves DEF WaitsFor, Stopping
    <3>2. CASE Stopping(x, "wait")'
      <4>1. x = 0 /\ frame[0].op = "wait" /\ frame'[0].op = "wait"
            /\ frame[0] \in Frames /\ TypeOK /\ pid[0] \in [Handles -> 0 .. MaxPid]
        BY <3>2, ProcessAssumption DEF WaitsFor, Stopping, IInv, TypeOK, Processes
      <4>2. ~Continue(0) /\ frame[0] # Idle /\ frame'[0] # Idle
        BY <4>1, FrameValues
           DEF Continue, StopSignal, StopWait, Take, TypeOK, Frames
      <4>3. frame'[0] = frame[0] /\ SameKids /\ pid'[0] = pid[0]
        BY <4>1, <4>2, Undisturbed
      <4>4. pid[0][frame[0].this] \in Pids
        BY <4>1, FrameValues, ProcessAssumption DEF IInv, Stops, valid, None, Pids
      <4>5. occupant'[pid'[0][frame'[0].this]] = c
        BY <4>3, <4>4 DEF SameKids, WaitsFor
      <4> QED
        BY <3>2, <4>1, <4>5 DEF WaitsFor, Freed
    <3> QED
      BY <3>1, <3>2
  <2>3. IInv /\ Chased /\ WaitsFor(x, c) /\ <<Obey(c)>>_vars => Past'
    BY StopAdvances
  <2>4. Chased /\ StopsUnblocked /\ StepsEnabled /\ WaitsFor(x, c) => ENABLED <<Obey(c)>>_vars
    BY StopEnabled
  <2> QED
    BY <2>1, <2>2, <2>3, <2>4, FairInv, PTL DEF ObeyFair
<1>2. FairSpec /\ []StepsEnabled => \A c \in Children : [](WaitsFor(x, c) => <>Past)
  BY <1>1
<1>3. (\A c \in Children : [](WaitsFor(x, c) => <>Past))
        => [](\A c \in Children : WaitsFor(x, c) => <>Past)
  OBVIOUS
<1>4. (\A c \in Children : WaitsFor(x, c) => <>Past)
        => ((\E c \in Children : WaitsFor(x, c)) => <>Past)
  OBVIOUS
<1>5. Stopping(x, "wait") => Freed(x) \/ \E c \in Children : WaitsFor(x, c)
  BY DEF Freed
<1> QED
  BY <1>2, <1>3, <1>4, <1>5, PTL

\* With a behavior that signals, every stop ends: the destructor and the move
\* assignment return, whatever the child does about everything but the signal.
\* That the steps are possible (StepsEnabled) is checked by the run.
THEOREM StopTerminates ==
  ASSUME SignalOnDestroy PROVE FairSpec /\ []StepsEnabled => StopEnds
<1>1. ASSUME NEW x \in Processes
      PROVE  FairSpec /\ []StepsEnabled => (frame[x] # Idle ~> frame[x] = Idle)
  <2>1. FairSpec => StopFair(x)
    BY DEF FairSpec
  <2>2. IInv /\ Chased /\ frame[x] # Idle =>
          Stopping(x, "signal") \/ Stopping(x, "wait") \/ Stopping(x, "take")
    BY DEF IInv, TypeOK, Chased, Frames, Stopping
  <2>3. Chased /\ StopsUnblocked /\ StepsEnabled /\ (Stopping(x, "signal") \/ Stopping(x, "take") \/ Freed(x))
          => ENABLED <<Continue(x)>>_vars
    BY StopEnabled
  <2>4. Freed(x) => Stopping(x, "wait")
    BY DEF Freed
  <2>5. FairSpec /\ []StepsEnabled =>
          (Stopping(x, "signal") ~> Stopping(x, "wait") \/ Stopping(x, "take") \/ frame[x] = Idle)
    BY <2>1, <2>3, StopMoves, StopAdvances, FairInv, PTL DEF StopFair
  <2>6. FairSpec /\ []StepsEnabled => (Freed(x) ~> Stopping(x, "take") \/ frame[x] = Idle)
    BY <2>1, <2>3, <2>4, StopMoves, StopAdvances, FairInv, PTL DEF StopFair
  <2>7. FairSpec /\ []StepsEnabled => (Stopping(x, "take") ~> frame[x] = Idle)
    BY <2>1, <2>3, StopMoves, StopAdvances, FairInv, PTL DEF StopFair
  <2> QED
    BY <2>2, <2>5, <2>6, <2>7, WaitFreed, FairInv, PTL
<1> QED
  BY <1>1 DEF StopEnds
=============================================================================
