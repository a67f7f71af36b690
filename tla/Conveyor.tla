------------------------------ MODULE Conveyor ------------------------------
(***************************************************************************)
(* conveyor::Conveyor: the scheduler of the server.  The main thread       *)
(* (thread 0) walks along the chain of logics; each stage of a logic is    *)
(* prepared by the main thread alone and then executed by all threads      *)
(* between two waits on one barrier.  The slaves learn what to do from     *)
(* m_State, which is not protected by anything but the barrier.            *)
(***************************************************************************)
EXTENDS Integers, FiniteSets

CONSTANTS
    Slaves,      \* the slave threads, 1..N
    Length,      \* the number of logics in m_LogicChain
    Stages,      \* Stages[l]: getStagesCount()
    Cooldown,    \* Cooldown[l]: getCooldownTimeUs()
    Intervals,   \* the intervals the clock may give
    TimeBound    \* bound of the model on the in-game time

Logics == 1 .. Length

ASSUME ConveyorAssumption ==
    /\ Slaves \subseteq Nat \ {0}
    /\ Length \in Nat \ {0}
    /\ Stages \in [Logics -> Nat \ {0}]
    /\ Cooldown \in [Logics -> Nat]
    /\ Intervals \subseteq Nat
    /\ TimeBound \in Nat

Master == 0
Threads == {Master} \cup Slaves

VARIABLES
    pc,        \* where each thread is
    now,       \* m_State.nCurrentTimeUs
    logic,     \* the master's position in the chain
    stage,     \* and its nStageId
    selected,  \* m_State: what the slaves are to execute
    until,     \* LogicContext::m_nDoNotDisturbUntil
    lastAt,    \* LogicContext::m_nLastProceedAt
    given,     \* the sum of the intervals that each logic was proceeded with
    runs,      \* how many times each logic that has a cooldown was proceeded
    doing,     \* the stage that each thread executes
    continue   \* gContinueSlave of each slave

state == <<now, logic, stage, selected, until, lastAt, given, runs>>
conveyorVars == <<pc, now, logic, stage, selected, until, lastAt, given, runs, doing, continue>>

Nothing == [logic |-> 0, stage |-> 0, interval |-> 0]
Terminator == [logic |-> Length + 1, stage |-> 0, interval |-> 0]

ConveyorInit ==
    /\ pc = [t \in Threads |-> IF t = Master THEN "between" ELSE "starting"]
    /\ now = 0
    /\ logic = 1
    /\ stage = 0
    /\ selected = Nothing
    /\ until = [l \in Logics |-> 0]
    /\ lastAt = [l \in Logics |-> 0]
    /\ given = [l \in Logics |-> 0]
    /\ runs = [l \in Logics |-> 0]
    /\ doing = [t \in Threads |-> Nothing]
    /\ continue = [t \in Slaves |-> TRUE]

Goes(t, from, to) == pc[t] = from /\ pc' = [pc EXCEPT ![t] = to]

-----------------------------------------------------------------------------
(* The master *)

(* SystemManager::run: the next cycle, unless the clock is terminated *)
BeginCycle(interval) ==
    /\ Goes(Master, "between", "select")
    /\ now + interval <= TimeBound
    /\ now' = now + interval
    /\ logic' = 1
    /\ selected' = [selected EXCEPT !.logic = 0]
    /\ UNCHANGED <<stage, until, lastAt, given, runs, doing, continue>>

SkipLogic ==
    /\ pc[Master] = "select"
    /\ logic <= Length /\ now < until[logic]
    /\ logic' = logic + 1
    /\ UNCHANGED <<pc, now, stage, selected, until, lastAt, given, runs, doing, continue>>

(* nLastIntervalUs is the time since this logic was proceeded *)
SelectLogic ==
    /\ Goes(Master, "select", "prephare")
    /\ logic <= Length /\ now >= until[logic]
    /\ selected' = [selected EXCEPT !.logic = logic, !.interval = now - lastAt[logic]]
    /\ stage' = 0
    /\ UNCHANGED <<now, logic, until, lastAt, given, runs, doing, continue>>

EndCycle ==
    /\ logic > Length
    /\ Goes(Master, "select", "between")
    /\ UNCHANGED <<state, doing, continue>>

(* prephare() of the stage: the stage is skipped, or executed *)
SkipStage ==
    /\ pc[Master] = "prephare" /\ stage < Stages[logic]
    /\ stage' = stage + 1
    /\ UNCHANGED <<pc, now, logic, selected, until, lastAt, given, runs, doing, continue>>

BeginStage ==
    /\ Goes(Master, "prephare", "wait1")
    /\ stage < Stages[logic]
    /\ selected' = [selected EXCEPT !.stage = stage]
    /\ UNCHANGED <<now, logic, stage, until, lastAt, given, runs, doing, continue>>

MasterProceeds ==
    /\ Goes(Master, "woken", "proceed")
    /\ doing' = [doing EXCEPT ![Master] = [logic |-> logic, stage |-> stage,
                                           interval |-> selected.interval]]
    /\ UNCHANGED <<state, continue>>

(* mutant: the second m_Barrier.wait() is missing *)
MasterDoesNotWait ==
    /\ Goes(Master, "proceed", "prephare")
    /\ stage' = stage + 1
    /\ UNCHANGED <<now, logic, selected, until, lastAt, given, runs, doing, continue>>

MasterFinishes ==
    /\ Goes(Master, "proceed", "wait2")
    /\ stage' = stage + 1
    /\ UNCHANGED <<now, logic, selected, until, lastAt, given, runs, doing, continue>>

Counted(count) == IF Cooldown[logic] = 0 THEN count ELSE [count EXCEPT ![logic] = @ + 1]

(* mutant: the time is recorded by the schedule *)
EndLogicOnSchedule ==
    /\ Goes(Master, "prephare", "select")
    /\ stage >= Stages[logic]
    /\ until' = [until EXCEPT ![logic] = @ + Cooldown[logic]]
    /\ lastAt' = [lastAt EXCEPT ![logic] = until[logic]]
    /\ given' = [given EXCEPT ![logic] = @ + selected.interval]
    /\ runs' = Counted(runs)
    /\ logic' = logic + 1
    /\ UNCHANGED <<now, stage, selected, doing, continue>>

EndLogic ==
    /\ Goes(Master, "prephare", "select")
    /\ stage >= Stages[logic]
    /\ until' = [until EXCEPT ![logic] = @ + Cooldown[logic]]
    /\ lastAt' = [lastAt EXCEPT ![logic] = now]
    /\ given' = [given EXCEPT ![logic] = @ + selected.interval]
    /\ runs' = Counted(runs)
    /\ logic' = logic + 1
    /\ UNCHANGED <<now, stage, selected, doing, continue>>

(* stop(), called by SystemManager::stopConveyor, which then joins the slaves,
   and called once more by ~Conveyor *)
Stop ==
    /\ \/ Goes(Master, "between", "stop1")
       \/ Goes(Master, "joined", "stop1")
    /\ selected' = [selected EXCEPT !.logic = Terminator.logic]
    /\ UNCHANGED <<now, logic, stage, until, lastAt, given, runs, doing, continue>>

Join ==
    /\ \A t \in Slaves : pc[t] = "quit"
    /\ Goes(Master, "stopped", "joined")
    /\ UNCHANGED <<state, doing, continue>>

-----------------------------------------------------------------------------
(* The slaves: joinAsSlave *)

JoinAsSlave(t) ==
    /\ Goes(t, "starting", "wait1")
    /\ continue' = [continue EXCEPT ![t] = TRUE]
    /\ UNCHANGED <<state, doing>>

SlaveProceeds(t) ==
    /\ Goes(t, "woken", "proceed")
    /\ doing' = [doing EXCEPT ![t] = selected]
    /\ UNCHANGED <<state, continue>>

(* mutant: the terminator does not tell the slave to quit *)
SlaveNotTerminated(t) ==
    /\ Goes(t, "proceed", "wait2")
    /\ UNCHANGED <<state, doing, continue>>

(* SlaveTerminator::proceed sets gContinueSlave to false. *)
SlaveFinishes(t) ==
    /\ Goes(t, "proceed", "wait2")
    /\ continue' = [continue EXCEPT ![t] = doing[t].logic # Terminator.logic]
    /\ UNCHANGED <<state, doing>>

-----------------------------------------------------------------------------
(* What a thread does after its wait() *)
Released(t) ==
    CASE pc[t] = "wait1" -> "woken"
      [] pc[t] = "wait2" /\ t = Master -> "prephare"
      [] pc[t] = "wait2" /\ t # Master /\ continue[t] -> "wait1"
      [] pc[t] = "wait2" /\ t # Master /\ ~continue[t] -> "quit"
      [] pc[t] = "stop1" -> "stop2"
      [] pc[t] = "stop2" -> "stopped"

(* boost::fibers::barrier: when the last of its N threads waits, in whichever
   place, all go on. *)
Barrier ==
    /\ \A t \in Threads : pc[t] \in {"wait1", "wait2", "stop1", "stop2"}
    /\ pc' = [t \in Threads |-> Released(t)]
    /\ UNCHANGED <<state, doing, continue>>

MasterStep ==
    \/ \E interval \in Intervals : BeginCycle(interval)
    \/ SkipLogic \/ SelectLogic \/ EndCycle
    \/ SkipStage \/ BeginStage \/ MasterProceeds \/ MasterFinishes \/ EndLogic
    \/ Stop \/ Join

SlaveStep(t) == JoinAsSlave(t) \/ SlaveProceeds(t) \/ SlaveFinishes(t)

ConveyorNext ==
    \/ MasterStep
    \/ \E t \in Slaves : SlaveStep(t)
    \/ Barrier

ConveyorSpec == ConveyorInit /\ [][ConveyorNext]_conveyorVars

-----------------------------------------------------------------------------
(* Properties *)

Selections == [logic : 0 .. Length + 1, stage : Nat, interval : Nat]

ConveyorTypeOK ==
    /\ pc \in [Threads -> {"between", "select", "prephare", "wait1", "woken", "proceed",
                          "wait2", "stop1", "stop2", "stopped", "joined", "starting", "quit"}]
    /\ now \in 0 .. TimeBound
    /\ logic \in 1 .. Length + 1
    /\ stage \in Nat
    /\ selected \in Selections
    /\ until \in [Logics -> Nat]
    /\ lastAt \in [Logics -> Nat]
    /\ given \in [Logics -> Nat]
    /\ runs \in [Logics -> Nat]
    /\ doing \in [Threads -> Selections]
    /\ continue \in [Slaves -> BOOLEAN]

(* "This function always run in one thread, so you do NOT need any
   synchronization in it's implementation" (IAbstractLogic.h): while the master
   prepares a stage, or is outside of proceed(), no slave executes one. *)
PrephareIsAlone ==
    pc[Master] \in {"between", "select", "prephare"} =>
        \A t \in Slaves : pc[t] \notin {"woken", "proceed"}

(* All threads execute the same stage of the same logic for the same interval: a slave never reads
   m_State before the master has completed it or after it has moved on. *)
SameStage ==
    \A t \in Slaves :
        pc[t] = "proceed" =>
            CASE pc[Master] = "woken" ->
                    doing[t] = [logic |-> logic, stage |-> stage, interval |-> now - lastAt[logic]]
              [] pc[Master] \in {"proceed", "wait2"} -> doing[t] = doing[Master]
              [] OTHER -> doing[t].logic = Terminator.logic /\ pc[Master] = "stop2"

(* "By default, logic won't be proceeded more than 100 times per second"
   (IAbstractLogic.h): in any in-game time a logic is proceeded at most once
   per cooldown, and once more. *)
RateIsLimited ==
    \A l \in Logics : runs[l] > 0 => (runs[l] - 1) * Cooldown[l] <= now

(* No in-game time is lost for a logic or given to it twice, however late its
   cycles are and however often it is skipped: when a cycle is over, all of the
   time has been handed out, except for what a cooldown still withholds. *)
TimeIsHandedOut ==
    pc[Master] = "between" =>
        \A l \in Logics : given[l] = now \/ (now < until[l] /\ given[l] <= now
                                            /\ until[l] - given[l] <= Cooldown[l])

(* Two waits on one barrier are enough to keep the stages apart. *)
StagesAreApart == ConveyorTypeOK /\ PrephareIsAlone /\ SameStage

(* The cooldowns neither hurry a logic nor cost it any time. *)
ScheduleIsExact == RateIsLimited /\ TimeIsHandedOut

(* A cycle that has begun ends: nobody waits for ever for the others. *)
CycleEnds == pc[Master] = "select" ~> pc[Master] = "between"

(* When the server stops while slaves run, they quit and are joined: "all slave
   threads will set gContinueSlave to false and after next barrier they will
   quit". *)
SlavesAreJoined ==
    pc[Master] = "stop1" /\ (\E t \in Slaves : pc[t] # "quit") ~> pc[Master] = "joined"

(* The threads meet at the one barrier: nobody waits for ever for the others in
   a cycle, nor when stopConveyor() tells the slaves to quit.  Nothing is
   claimed of the stop() of ~Conveyor, which comes when they have quit: the
   master then waits at the barrier for ever. *)
ThreadsMeet == CycleEnds /\ SlavesAreJoined
=============================================================================
