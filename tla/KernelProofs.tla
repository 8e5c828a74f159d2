---------------------------- MODULE KernelProofs ----------------------------
(***************************************************************************)
(* Kernel for any number of processes and any timeout: a shutdown asks     *)
(* everybody, leaves only init, and kills nobody before the time is up.    *)
(***************************************************************************)
EXTENDS Kernel, FiniteSetTheorems, TLAPS

\* Nothing runs while the kernel boots.
BootComesFirst ==
    stage > 0 => /\ state \in {"Invalid", "Booting"}
                 /\ alive = {} /\ turn = PidMax /\ ~ticking

TicksHaveATurn == ticking => turn < PidMax

\* Init's forks are excused because init is, and only as long as it is the init
\* that was there when the shutdown began.
AllAskedOrExcused ==
    state = "WaitAll" => \A pid \in alive : Data(pid).asked \/ pid \in excused

-----------------------------------------------------------------------------
StateNames == {"Invalid", "Booting", "Running", "WaitAll", "WaitInit", "Final", "Shutdown"}
StageNames == {Stages[i] : i \in DOMAIN Stages}

\* TypeOK without the two sequences, which the provers are slow to look into.
Types ==
    /\ state \in StateNames
    /\ waited \in 0 .. Timeout
    /\ stage \in 0 .. 10
    /\ present \in SUBSET StageNames
    /\ alive \in SUBSET Pids
    /\ file \in [Pids -> Datas]
    /\ turn \in 0 .. PidMax
    /\ ticking \in BOOLEAN
    /\ copy \in Datas
    /\ excused \in SUBSET alive /\ late \in SUBSET alive

IInv ==
    /\ Types
    /\ BootComesFirst
    /\ TicksHaveATurn
    /\ AllAskedOrExcused
    /\ OnlyInitIsLeft

\* There are ten stages and seven states.
LEMMA StagesAndStates ==
    /\ Len(Stages) = 10
    /\ \A s : (\E i \in DOMAIN States : s = States[i]) <=> s \in StateNames
BY DEF Stages, States, StateNames

\* Types says the same as the type invariant.
LEMMA TypesAreTypeOK == TypeOK <=> Types
BY StagesAndStates DEF TypeOK, Types, StageNames

\* What the provers need of it.
LEMMA NewDataType == NewData \in Datas
BY DEF NewData, Datas

\* A signal changes the files of its targets to other files.
LEMMA SignalledType ==
    ASSUME Types, NEW targets PROVE Signalled(targets) \in [Pids -> Datas]
BY DEF Types, Signalled, Datas

\* The types of what deaths change.
LEMMA DieType ==
    ASSUME Types, NEW dead, NEW data \in [Pids -> Datas], Die(dead, data)
    PROVE  /\ alive' \in SUBSET Pids
           /\ file' \in [Pids -> Datas]
           /\ excused' \in SUBSET alive' /\ late' \in SUBSET alive'
BY NewDataType DEF Types, Die
-----------------------------------------------------------------------------
\* The initial state satisfies the invariant.
LEMMA InitIInv == Init => IInv
<1> SUFFICES ASSUME Init PROVE IInv
  OBVIOUS
<1> USE KernelAssumption DEF KernelAssumption
<1>1. Types
  <2>1. file \in [Pids -> Datas] /\ copy \in Datas
    BY NewDataType DEF Init
  <2>2. state \in StateNames /\ waited \in 0 .. Timeout /\ stage \in 0 .. 10 /\ turn \in 0 .. PidMax
    BY DEF Init, StateNames
  <2>3. present \in SUBSET StageNames /\ alive \in SUBSET Pids /\ ticking \in BOOLEAN
    BY DEF Init
  <2>4. excused \in SUBSET alive /\ late \in SUBSET alive
    BY DEF Init
  <2> QED
    BY <2>1, <2>2, <2>3, <2>4 DEF Types
<1>2. BootComesFirst /\ TicksHaveATurn /\ AllAskedOrExcused /\ OnlyInitIsLeft
  BY DEF Init, BootComesFirst, TicksHaveATurn, AllAskedOrExcused, OnlyInitIsLeft
<1> QED
  BY <1>1, <1>2 DEF IInv
-----------------------------------------------------------------------------
(* Type correctness, action by action. *)

\* Boot keeps the types.
LEMMA BootType == ASSUME IInv, BootFails \/ BootSucceeds PROVE Types'
<1> USE KernelAssumption DEF KernelAssumption
<1>1. NextStage \in 0 .. 10
  BY StagesAndStates DEF NextStage, IInv, Types
<1>2. stage > 0 => Stages[stage] \in StageNames
  BY DEF IInv, Types, StageNames, Stages
<1>3. state' \in StateNames /\ waited' \in 0 .. Timeout /\ stage' \in 0 .. 10
  BY <1>1 DEF BootFails, BootSucceeds, SetState, StateNames, IInv, Types
<1>4. present' \in SUBSET StageNames
  BY <1>2 DEF BootFails, BootSucceeds, IInv, Types
<1>5. alive' \in SUBSET Pids /\ excused' \in SUBSET alive' /\ late' \in SUBSET alive'
  <2>1. CASE BootFails
    BY <2>1 DEF BootFails, procs, IInv, Types
  <2>2. CASE BootSucceeds
    BY <2>2 DEF BootSucceeds, IInv, Types, BootComesFirst, Pids
  <2> QED
    BY <2>1, <2>2
<1>6. file' = file /\ turn' = turn /\ ticking' = ticking /\ copy' = copy
  BY DEF BootFails, BootSucceeds, procs, tick
<1> QED
  BY <1>3, <1>4, <1>5, <1>6 DEF IInv, Types

\* The main loop keeps the types.
LEMMA LoopType == ASSUME IInv, Loop \/ Pass PROVE Types'
<1> USE KernelAssumption DEF KernelAssumption
<1>1. CASE Pass
  BY <1>1 DEF Pass, boot, procs, tick, IInv, Types
<1>2. CASE ShutdownNext
  <2>1. Signalled({0}) \in [Pids -> Datas]
    BY SignalledType DEF IInv
  <2>2. /\ alive' \in SUBSET Pids /\ file' \in [Pids -> Datas]
        /\ excused' \in SUBSET alive' /\ late' \in SUBSET alive'
    BY <1>2, <2>1, DieType DEF ShutdownNext, IInv
  <2>3. state' \in StateNames
    BY <1>2 DEF ShutdownNext, SetState, StateNames
  <2> QED
    BY <1>2, <2>2, <2>3 DEF ShutdownNext, SetState, boot, IInv, Types
<1>3. CASE StartTicks
  BY <1>3 DEF StartTicks, boot, procs, IInv, Types
<1>4. CASE LeaveLoop
  <2>1. state' \in StateNames
    BY <1>4 DEF LeaveLoop, SetState, StateNames
  <2> QED
    BY <1>4, <2>1 DEF LeaveLoop, SetState, boot, procs, tick, IInv, Types
<1>5. CASE ShutdownFinal
  <2>1. /\ alive' \in SUBSET Pids /\ file' \in [Pids -> Datas]
        /\ excused' \in SUBSET alive' /\ late' \in SUBSET alive'
    BY <1>5, DieType DEF ShutdownFinal, IInv, Types
  <2>2. state' \in StateNames
    BY <1>5 DEF ShutdownFinal, SetState, StateNames
  <2> QED
    BY <1>5, <2>1, <2>2 DEF ShutdownFinal, SetState, tick, IInv, Types
<1>6. CASE TickSkip
  <2>1. turn' \in 0 .. PidMax
    BY <1>6 DEF TickSkip, NextTurn, IInv, Types
  <2> QED
    BY <1>6, <2>1, NewDataType DEF TickSkip, NextTurn, boot, procs, IInv, Types
<1>7. CASE TickBegin
  BY <1>7 DEF TickBegin, boot, procs, Pids, IInv, Types
<1>8. CASE TickEnd
  <2>1. file' \in [Pids -> Datas]
    BY <1>8 DEF TickEnd, IInv, Types
  <2>2. turn' \in 0 .. PidMax
    BY <1>8 DEF TickEnd, NextTurn, IInv, Types, TicksHaveATurn
  <2> QED
    BY <1>8, <2>1, <2>2, NewDataType DEF TickEnd, NextTurn, boot, IInv, Types
<1> QED
  BY <1>1, <1>2, <1>3, <1>4, <1>5, <1>6, <1>7, <1>8 DEF Loop

\* What a process does in its tick keeps the types.
LEMMA CallsType ==
    ASSUME IInv,
           Exit \/ ShutdownBegin \/ (\E pid \in Pids : Kill(pid) \/ Fork(pid))
                \/ (\E handler \in BOOLEAN : SetHandler(handler))
    PROVE  Types'
<1> USE KernelAssumption DEF KernelAssumption
<1>0. turn \in Pids \/ ~Calls
  BY DEF Calls, IInv, Types
<1>1. CASE Exit
  <2>1. /\ alive' \in SUBSET Pids /\ file' \in [Pids -> Datas]
        /\ excused' \in SUBSET alive' /\ late' \in SUBSET alive'
    BY <1>1, DieType DEF Exit, IInv, Types
  <2>2. turn' \in 0 .. PidMax
    BY <1>1 DEF Exit, Calls, NextTurn, IInv, Types, TicksHaveATurn
  <2> QED
    BY <1>1, <2>1, <2>2, NewDataType DEF Exit, NextTurn, boot, IInv, Types
<1>2. CASE ShutdownBegin
  <2>1. file' \in [Pids -> Datas]
    BY <1>2, SignalledType DEF ShutdownBegin, IInv
  <2>2. state' \in StateNames
    BY <1>2 DEF ShutdownBegin, SetState, StateNames
  <2> QED
    BY <1>2, <2>1, <2>2 DEF ShutdownBegin, SetState, boot, tick, IInv, Types
<1>3. ASSUME NEW pid \in Pids, Kill(pid) PROVE Types'
  <2>1. /\ alive' \in SUBSET Pids /\ file' \in [Pids -> Datas]
        /\ excused' \in SUBSET alive' /\ late' \in SUBSET alive'
    BY <1>3, DieType DEF Kill, IInv, Types
  <2> QED
    BY <1>3, <2>1 DEF Kill, boot, tick, IInv, Types
<1>4. ASSUME NEW pid \in Pids, Fork(pid) PROVE Types'
  <2>1. file' \in [Pids -> Datas]
    BY <1>4 DEF Fork, IInv, Types
  <2> QED
    BY <1>4, <2>1 DEF Fork, boot, tick, IInv, Types
<1>5. ASSUME NEW handler \in BOOLEAN, SetHandler(handler) PROVE Types'
  <2>1. copy' \in Datas
    BY <1>5 DEF SetHandler, IInv, Types, Datas
  <2> QED
    BY <1>5, <2>1 DEF SetHandler, boot, procs, IInv, Types
<1> QED
  BY <1>1, <1>2, <1>3, <1>4, <1>5
-----------------------------------------------------------------------------
(* The other parts of the invariant. *)

\* Once booted, the kernel does not boot again; until then nothing runs.
LEMMA BootStep == ASSUME IInv, Next PROVE BootComesFirst' /\ TicksHaveATurn'
<1> USE KernelAssumption DEF KernelAssumption, IInv, BootComesFirst, TicksHaveATurn
<1>1. CASE BootFails \/ BootSucceeds
  BY <1>1 DEF BootFails, BootSucceeds, SetState, procs, tick, NextStage, Types, Stages
<1>2. CASE Pass \/ Halted
  BY <1>2 DEF Pass, Halted, vars, boot, procs, tick
<1>3. CASE ShutdownNext \/ StartTicks \/ LeaveLoop \/ ShutdownFinal
  BY <1>3 DEF ShutdownNext, StartTicks, LeaveLoop, ShutdownFinal, SetState, InLoop, boot, procs, tick, Types
<1>4. CASE TickSkip \/ TickBegin \/ TickEnd
  BY <1>4 DEF TickSkip, TickBegin, TickEnd, NextTurn, boot, procs, Types
<1>5. CASE Exit \/ ShutdownBegin
  BY <1>5 DEF Exit, ShutdownBegin, Calls, NextTurn, boot, tick, Types
<1>6. CASE \E pid \in Pids : Kill(pid) \/ Fork(pid)
  BY <1>6 DEF Kill, Fork, Calls, boot, tick, Types
<1>7. CASE \E handler \in BOOLEAN : SetHandler(handler)
  BY <1>7 DEF SetHandler, Calls, boot, procs, Types
<1> QED
  BY <1>1, <1>2, <1>3, <1>4, <1>5, <1>6, <1>7 DEF Next, Loop

\* After a signal and after deaths, those who live have the data they had.
LEMMA DataKept ==
    ASSUME Types, NEW dead, Die(dead, file), NEW pid \in alive'
    PROVE  pid \in alive /\ file'[pid] = file[pid] /\ (pid \in excused' <=> pid \in excused)
BY DEF Types, Die

\* Everybody is asked when a shutdown begins, and stays so.
LEMMA AskedStep == ASSUME IInv, Next PROVE AllAskedOrExcused'
<1> SUFFICES ASSUME state' = "WaitAll", NEW pid \in alive'
             PROVE  Data(pid)'.asked \/ pid \in excused'
  BY DEF AllAskedOrExcused
<1> USE KernelAssumption DEF KernelAssumption, IInv
<1>1. CASE BootFails \/ BootSucceeds
  BY <1>1 DEF BootFails, BootSucceeds, SetState, BootComesFirst
<1>2. CASE Pass \/ Halted \/ StartTicks \/ LeaveLoop
  <2>1. state = "WaitAll" /\ alive' = alive /\ file' = file /\ excused' = excused /\ ticking' = ticking /\ copy' = copy
    BY <1>2 DEF Pass, Halted, StartTicks, LeaveLoop, SetState, vars, procs, tick
  <2>2. turn' = turn \/ ~ticking
    BY <1>2 DEF Pass, Halted, StartTicks, LeaveLoop, InLoop, TicksHaveATurn, vars, tick
  <2>3. Data(pid)' = Data(pid)
    BY <2>1, <2>2 DEF Data
  <2> QED
    BY <2>1, <2>3 DEF AllAskedOrExcused
<1>3. CASE ShutdownNext \/ ShutdownFinal
  BY <1>3 DEF ShutdownNext, ShutdownFinal, SetState
<1>4. CASE TickSkip
  BY <1>4 DEF TickSkip, NextTurn, boot, procs, Data, AllAskedOrExcused
<1>10. CASE TickBegin
  <2>1. pid \in alive /\ state = "WaitAll" /\ Data(pid) = file[pid]
    BY <1>10 DEF TickBegin, procs, Data
  <2>2. Data(pid)' = file[pid]
    BY <1>10 DEF TickBegin, procs, Data
  <2> QED
    BY <1>10, <2>1, <2>2 DEF TickBegin, procs, AllAskedOrExcused
<1>11. CASE TickEnd
  <2>1. pid \in alive /\ state = "WaitAll" /\ pid \in Pids
    BY <1>11 DEF TickEnd, Types
  <2>2. Data(pid)' = file'[pid]
    BY <1>11 DEF TickEnd, NextTurn, Data
  <2>3. file'[pid] = Data(pid)
    BY <1>11, <2>1 DEF TickEnd, Data, Types
  <2> QED
    BY <1>11, <2>1, <2>2, <2>3 DEF TickEnd, AllAskedOrExcused
<1>5. CASE Exit
  <2>1. pid \in alive /\ pid # turn /\ Die({turn}, file)
    BY <1>5 DEF Exit, Die
  <2>2. file'[pid] = file[pid] /\ (pid \in excused' <=> pid \in excused)
    BY <2>1, DataKept
  <2> QED
    BY <1>5, <2>1, <2>2 DEF Exit, NextTurn, Data, AllAskedOrExcused
<1>6. ASSUME NEW other \in Pids, Kill(other) PROVE Data(pid)'.asked \/ pid \in excused'
  <2>1. pid \in alive /\ file'[pid] = file[pid] /\ (pid \in excused' <=> pid \in excused)
    BY <1>6, DataKept DEF Kill
  <2> QED
    BY <1>6, <2>1 DEF Kill, tick, Data, AllAskedOrExcused
<1>7. ASSUME NEW child \in Pids, Fork(child) PROVE Data(pid)'.asked \/ pid \in excused'
  <2>1. turn \in alive /\ ticking /\ child # turn /\ child \notin alive /\ state = "WaitAll"
    BY <1>7 DEF Fork, Calls
  <2>2. copy.asked \/ turn \in excused
    BY <2>1 DEF AllAskedOrExcused, Data
  <2>3. CASE pid = child
    BY <1>7, <2>1, <2>2, <2>3 DEF Fork, tick, Data, Types
  <2>4. CASE pid # child
    BY <1>7, <2>1, <2>4 DEF Fork, tick, Data, AllAskedOrExcused, Types
  <2> QED
    BY <2>3, <2>4
<1>8. ASSUME NEW handler \in BOOLEAN, SetHandler(handler) PROVE Data(pid)'.asked \/ pid \in excused'
  BY <1>8 DEF SetHandler, procs, Data, AllAskedOrExcused, Types, Datas
<1>9. CASE ShutdownBegin
  <2>1. pid \in alive /\ pid \in Pids
    BY <1>9 DEF ShutdownBegin, Types
  <2>2. CASE pid \in excused'
    BY <2>2
  <2>3. CASE pid \notin excused'
    <3>1. pid # 0 /\ pid # turn /\ file[pid].handler
      BY <1>9, <2>1, <2>3 DEF ShutdownBegin
    <3>2. pid \in Asked
      BY <2>1, <3>1 DEF Asked, Pids
    <3>3. file'[pid].asked
      BY <1>9, <2>1, <3>1, <3>2 DEF ShutdownBegin, Signalled, Types, Datas
    <3> QED
      BY <1>9, <3>1, <3>3 DEF ShutdownBegin, tick, Data
  <2> QED
    BY <2>2, <2>3
<1> QED
  BY <1>1, <1>2, <1>3, <1>4, <1>5, <1>6, <1>7, <1>8, <1>9, <1>10, <1>11 DEF Next, Loop

\* The second phase starts with init alone, and only forks add to it.
LEMMA OnlyInitStep == ASSUME IInv, Next PROVE OnlyInitIsLeft'
<1> USE DEF IInv, OnlyInitIsLeft
<1>1. CASE BootFails \/ BootSucceeds
  BY <1>1 DEF BootFails, BootSucceeds, SetState, BootComesFirst
<1>2. CASE Pass \/ Halted \/ StartTicks \/ LeaveLoop
  BY <1>2 DEF Pass, Halted, StartTicks, LeaveLoop, SetState, vars, boot, procs, tick
<1>3. CASE ShutdownNext \/ ShutdownFinal
  BY <1>3 DEF ShutdownNext, ShutdownFinal, SetState, Die, Latecomers
<1>4. CASE TickSkip \/ TickBegin \/ TickEnd
  BY <1>4 DEF TickSkip, TickBegin, TickEnd, boot, procs
<1>5. CASE Exit \/ ShutdownBegin
  BY <1>5 DEF Exit, ShutdownBegin, SetState, Die
<1>6. CASE \E pid \in Pids : Kill(pid) \/ Fork(pid)
  BY <1>6 DEF Kill, Fork, Die
<1>7. CASE \E handler \in BOOLEAN : SetHandler(handler)
  BY <1>7 DEF SetHandler, procs
<1> QED
  BY <1>1, <1>2, <1>3, <1>4, <1>5, <1>6, <1>7 DEF Next, Loop
-----------------------------------------------------------------------------
\* Every step preserves the invariant.
LEMMA NextIInv == ASSUME IInv, [Next]_vars PROVE IInv'
<1>1. CASE Next
  <2>1. Types'
    <3>1. CASE Halted
      BY <3>1 DEF Halted, vars, IInv, Types
    <3> QED
      BY <1>1, <3>1, BootType, LoopType, CallsType DEF Next
  <2> QED
    BY <1>1, <2>1, BootStep, AskedStep, OnlyInitStep DEF IInv
<1>2. CASE UNCHANGED vars
  BY <1>2 DEF vars, IInv, Types, BootComesFirst, TicksHaveATurn, AllAskedOrExcused, OnlyInitIsLeft, Data
<1> QED
  BY <1>1, <1>2

\* The invariant holds throughout.
THEOREM Invariance == Spec => []IInv
<1>1. Init => IInv
  BY InitIInv
<1>2. IInv /\ [Next]_vars => IInv'
  BY NextIInv
<1> QED
  BY <1>1, <1>2, PTL DEF Spec

\* The kernel's state stays in its ranges from boot to halt.
THEOREM TypeCorrect == Spec => []TypeOK
<1>1. IInv => TypeOK
  BY TypesAreTypeOK DEF IInv
<1> QED
  BY <1>1, Invariance, PTL

\* A shutdown asks every process but init that can be asked, for any number of
\* processes: those it leaves out had no handler, called it themselves, or are
\* forks of such or of init.
THEOREM EverybodyIsAsked == Spec => []EveryoneIsAsked
<1>1. IInv => EveryoneIsAsked
  BY DEF IInv, AllAskedOrExcused, EveryoneIsAsked
<1> QED
  BY <1>1, Invariance, PTL

\* When init is asked to die, nobody else lives but what it forks afterwards.
THEOREM InitIsLast == Spec => []OnlyInitIsLeft
<1>1. IInv => OnlyInitIsLeft
  BY DEF IInv
<1> QED
  BY <1>1, Invariance, PTL

\* The kernel waits the full timeout before it kills anybody, for any number of
\* processes and any timeout: with one process left, that one is init.
THEOREM NobodyIsKilledEarly == Spec => NobodyKilledEarly
<1>1. ASSUME IInv, [Next]_vars,
             turn = PidMax, state = "WaitAll", 0 \in alive, alive' # alive
      PROVE  waited = Timeout
  <2> USE KernelAssumption DEF KernelAssumption
  <2>1. ~ticking
    BY <1>1 DEF IInv, Types, TicksHaveATurn
  <2>2. ShutdownNext
    BY <1>1, <2>1 DEF Next, Loop, vars, BootFails, BootSucceeds, Pass, Halted, StartTicks, LeaveLoop,
       ShutdownFinal, TickSkip, TickBegin, TickEnd, Exit, ShutdownBegin, Kill, Fork, SetHandler, Calls,
       procs, IInv, BootComesFirst
  <2>3. SUFFICES ASSUME Cardinality(alive) = 1 PROVE FALSE
    BY <1>1, <2>2 DEF ShutdownNext, AllDone
  <2>4. IsFiniteSet(alive)
    <3>1. IsFiniteSet(Pids)
      BY FS_Interval DEF Pids
    <3>2. alive \in SUBSET Pids
      BY <1>1 DEF IInv, Types
    <3> QED
      BY <3>1, <3>2, FS_Subset
  <2>5. PICK pid : alive = {pid}
    BY <2>3, <2>4, FS_Singleton
  <2>6. alive = {0}
    BY <1>1, <2>5
  <2>7. alive' = {0}
    BY <2>2, <2>6 DEF ShutdownNext, Die, Latecomers
  <2> QED
    BY <1>1, <2>6, <2>7
<1>2. IInv /\ [Next]_vars =>
        [turn = PidMax /\ state = "WaitAll" /\ 0 \in alive /\ alive' # alive => waited = Timeout]_vars
  BY <1>1
<1> QED
  BY <1>2, Invariance, PTL DEF Spec, NobodyKilledEarly
=============================================================================
