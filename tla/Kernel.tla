------------------------------ MODULE Kernel ------------------------------
(***************************************************************************)
(* Boot, main loop and shutdown (kernel.c), over processes reduced to what *)
(* a shutdown depends on: whether they live, whether they have a handler   *)
(* for the suicide signal and whether they have been asked to die. These   *)
(* two are in the file of a process, of which a tick works on a copy       *)
(* (ProcMan has the whole of it).                                          *)
(*                                                                         *)
(* A wait of 30 s is Timeout units of time; time passes at any point.      *)
(***************************************************************************)
EXTENDS Integers, FiniteSets, Sequences

CONSTANTS PidMax, Timeout

ASSUME KernelAssumption == PidMax \in Nat \ {0} /\ Timeout \in Nat \ {0}

VARIABLES
    state,     \* kernelState
    waited,    \* time since kernelStateTime, up to Timeout
    stage,     \* where kernelBoot is; 0 afterwards
    present,   \* what boot has set up
    alive,     \* processes
    file,      \* of each process, in /tmp/proc<pid>
    turn,      \* procManTickAll's pid; PidMax in the main loop itself
    ticking,   \* that process is in its tick
    copy,      \* its ProcData, while it is
    excused,   \* history: not asked, as they had no handler or called shutdown
    late       \* history: born after init was asked

vars == <<state, waited, stage, present, alive, file, turn, ticking, copy, excused, late>>
boot == <<stage, present>>
procs == <<alive, file, excused, late>>
tick == <<turn, ticking, copy>>

Pids == 0 .. (PidMax - 1)
States == <<"Invalid", "Booting", "Running", "WaitAll", "WaitInit", "Final", "Shutdown">>
Rank(s) == CHOOSE i \in DOMAIN States : States[i] = s

\* asked: the registers were set up to run the handler of the suicide signal.
Datas == [handler : BOOLEAN, asked : BOOLEAN]
NewData == [handler |-> FALSE, asked |-> FALSE]

\* The parts of kernelBoot in order. The fatal ones halt the kernel if they fail.
Stages == <<"spi", "tty", "eepromFile", "directories", "tmp", "volumes", "eeprom", "devices", "pins", "init">>
Fatal == {"spi", "tty", "eepromFile", "directories", "tmp", "init"}
\* procManProcessNew needs the volume of /bin/init and files in /tmp.
InitNeeds == {"directories", "tmp", "volumes"}

TypeOK ==
    /\ \E i \in DOMAIN States : state = States[i]
    /\ waited \in 0 .. Timeout
    /\ stage \in 0 .. Len(Stages)
    /\ present \in SUBSET {Stages[i] : i \in DOMAIN Stages}
    /\ alive \in SUBSET Pids
    /\ file \in [Pids -> Datas]
    /\ turn \in 0 .. PidMax
    /\ ticking \in BOOLEAN
    /\ copy \in Datas
    /\ excused \in SUBSET alive /\ late \in SUBSET alive

Init ==
    /\ state = "Invalid" /\ waited = 0
    /\ stage = 1 /\ present = {}
    /\ alive = {} /\ file = [pid \in Pids |-> NewData]
    /\ turn = PidMax /\ ticking = FALSE /\ copy = NewData
    /\ excused = {} /\ late = {}

SetState(s) == state' = s /\ waited' = 0

\* Time matters in the two states that have a timeout.
Pass ==
    /\ state \in {"WaitAll", "WaitInit"} /\ waited < Timeout
    /\ waited' = waited + 1
    /\ UNCHANGED <<state, boot, procs, tick>>
-----------------------------------------------------------------------------
NextStage == IF stage = Len(Stages) THEN 0 ELSE stage + 1

\* A fatal error halts; a warning leaves something out.
BootFails ==
    /\ stage > 0
    /\ IF Stages[stage] \in Fatal
       THEN SetState("Shutdown") /\ stage' = 0
       ELSE stage' = NextStage /\ UNCHANGED <<state, waited>>
    /\ UNCHANGED <<present, procs, tick>>

BootSucceeds ==
    /\ stage > 0
    /\ Stages[stage] = "init" => InitNeeds \subseteq present
    /\ present' = present \cup {Stages[stage]}
    /\ stage' = NextStage
    /\ CASE Stages[stage] = "tty" -> SetState("Booting")
         [] Stages[stage] = "init" -> SetState("Running")
         [] OTHER -> UNCHANGED <<state, waited>>
    /\ alive' = IF Stages[stage] = "init" THEN {0} ELSE {}
    /\ UNCHANGED <<file, excused, late, tick>>
-----------------------------------------------------------------------------
\* procManProcessSendSignal, which works on the files.
Signalled(targets) ==
    [pid \in Pids |-> IF pid \in targets \cap alive /\ file[pid].handler
                      THEN [file[pid] EXCEPT !.asked = TRUE] ELSE file[pid]]

\* Processes in `dead' are gone, those that are left have `data'.
Die(dead, data) ==
    /\ alive' = alive \ dead
    /\ file' = [pid \in Pids |-> IF pid \in dead THEN NewData ELSE data[pid]]
    /\ excused' = excused \ dead
    /\ late' = late \ dead

InLoop == stage = 0 /\ turn = PidMax /\ state \notin {"Final", "Shutdown"}

\* Mutant: one process is left too many.
AllDoneEarly == state = "WaitAll" /\ (Cardinality(alive) <= 2 \/ waited = Timeout)

AllDone == state = "WaitAll" /\ (Cardinality(alive) = 1 \/ waited = Timeout)
InitDone == state = "WaitInit" /\ waited = Timeout

\* Mutant: only those who were asked are killed.
LatecomersAsked == {pid \in alive \ {0} : file[pid].asked}

Latecomers == alive \ {0}

\* kernelShutdownNext, and on to the ticks.
ShutdownNext ==
    /\ InLoop /\ alive # {} /\ AllDone
    /\ Die(Latecomers, Signalled({0}))
    /\ SetState("WaitInit")
    /\ turn' = 0
    /\ UNCHANGED <<boot, ticking, copy>>

\* ttyTick and hwDeviceTick do nothing to this state.
StartTicks ==
    /\ InLoop /\ alive # {} /\ ~AllDone /\ ~InitDone
    /\ turn' = 0
    /\ UNCHANGED <<state, waited, boot, procs, ticking, copy>>

LeaveLoop ==
    /\ InLoop /\ (alive = {} \/ InitDone)
    /\ SetState("Final")
    /\ UNCHANGED <<boot, procs, tick>>

\* The rest of kernelShutdownFinal, and kernelHalt.
ShutdownFinal ==
    /\ state = "Final"
    /\ Die(alive, file)
    /\ SetState("Shutdown")
    /\ present' = {}
    /\ UNCHANGED <<stage, tick>>

Halted == state = "Shutdown" /\ UNCHANGED vars
-----------------------------------------------------------------------------
\* procManTickAll, procManProcessTick.
NextTurn == turn' = turn + 1 /\ ticking' = FALSE /\ copy' = NewData

TickSkip ==
    /\ turn < PidMax /\ ~ticking /\ turn \notin alive
    /\ NextTurn
    /\ UNCHANGED <<state, waited, boot, procs>>

TickBegin ==
    /\ turn < PidMax /\ ~ticking /\ turn \in alive
    /\ ticking' = TRUE
    /\ copy' = file[turn]
    /\ UNCHANGED <<state, waited, boot, procs, turn>>

TickEnd ==
    /\ ticking
    /\ file' = IF turn \in alive THEN [file EXCEPT ![turn] = copy] ELSE file
    /\ NextTurn
    /\ UNCHANGED <<state, waited, boot, alive, excused, late>>

\* What a process does in its tick, until it has killed itself. One that was
\* asked to die may or may not do so.
Calls == ticking /\ turn \in alive

Exit ==
    /\ Calls
    /\ Die({turn}, file)
    /\ NextTurn
    /\ UNCHANGED <<state, waited, boot>>

Kill(pid) ==
    /\ Calls /\ pid \in alive \ {0}
    /\ Die({pid}, file)
    /\ UNCHANGED <<state, waited, boot, tick>>

\* Registering a handler, registering none, exec.
SetHandler(handler) ==
    /\ Calls
    /\ copy' = [copy EXCEPT !.handler = handler]
    /\ UNCHANGED <<state, waited, boot, procs, turn, ticking>>

Fork(child) ==
    /\ Calls /\ child \notin alive /\ \A pid \in Pids \ alive : child <= pid
    /\ alive' = alive \cup {child}
    /\ file' = [file EXCEPT ![child] = copy]
    /\ excused' = IF turn \in excused THEN excused \cup {child} ELSE excused
    /\ late' = IF state = "WaitInit" THEN late \cup {child} ELSE late
    /\ UNCHANGED <<state, waited, boot, tick>>

\* Mutants: a second request starts again; the last process is forgotten.
ShutdownBeginAgain ==
    /\ Calls
    /\ SetState("WaitAll")
    /\ file' = Signalled(Pids \ {0})
    /\ excused' = {pid \in alive : pid \in {0, turn} \/ ~file[pid].handler}
    /\ UNCHANGED <<boot, tick, alive, late>>
AskedForgetsLast == 1 .. (PidMax - 2)

Asked == 1 .. (PidMax - 1)

\* kernelShutdownBegin. The caller's own signal goes to its file, which the
\* copy replaces at the end of the tick.
ShutdownBegin ==
    /\ Calls /\ Rank(state) <= Rank("Running")
    /\ SetState("WaitAll")
    /\ file' = Signalled(Asked)
    /\ excused' = {pid \in alive : pid \in {0, turn} \/ ~file[pid].handler}
    /\ UNCHANGED <<boot, tick, alive, late>>

Loop == ShutdownNext \/ StartTicks \/ LeaveLoop \/ ShutdownFinal \/ TickSkip \/ TickBegin \/ TickEnd

Next ==
    \/ BootFails \/ BootSucceeds
    \/ Loop \/ Pass \/ Halted
    \/ Exit \/ ShutdownBegin
    \/ \E pid \in Pids : Kill(pid) \/ Fork(pid)
    \/ \E handler \in BOOLEAN : SetHandler(handler)

\* The loop goes on and ticks are bounded; time passes.
Spec == Init /\ [][Next]_vars
FairSpec == Spec /\ WF_vars(Loop) /\ WF_vars(Pass)
-----------------------------------------------------------------------------
Data(pid) == IF ticking /\ pid = turn THEN copy ELSE file[pid]

\* From the request on, every process but init is one that the suicide signal
\* has reached, or the fork of one; but for those without a handler at that
\* moment, whoever made the request, and the forks of these and of init.
EveryoneIsAsked ==
    state = "WaitAll" => \A pid \in alive \ {0} : Data(pid).asked \/ pid \in excused

\* Once init is asked to die, all others are gone, also those that ignored the
\* signal or were born since; only init itself may have forked again.
OnlyInitIsLeft == state = "WaitInit" => alive \ {0} \subseteq late

\* The kernel kills no process before its time is up, as long as init lives.
NobodyKilledEarly ==
    [][turn = PidMax /\ state = "WaitAll" /\ 0 \in alive /\ alive' # alive => waited = Timeout]_vars

\* Once requested, a shutdown ends, whatever the processes do: ignore the
\* signal, fork, or request it over and over.
ShutdownEnds == state = "WaitAll" ~> state = "Shutdown"
=============================================================================
