---------------------------- MODULE ThreadsProofs ----------------------------
(***************************************************************************)
(* What the threads of the server share, for every number of threads: the  *)
(* conveyor, the managers of modules, the clock, the harness of the tests  *)
(* and, from PoolsProofs, the pools.                                       *)
(***************************************************************************)
EXTENDS MCThreads, PoolsProofs

(* Conveyor *)

(* Where the slaves may be while the master is at a place *)
Outside == {"between", "select", "prephare", "wait1"}
Inside == {"woken", "proceed", "wait2"}

Together ==
    /\ pc[Master] \in Outside \cup Inside \cup {"stop1", "stop2", "stopped", "joined"}
    /\ pc[Master] \in Outside => \A t \in Slaves : pc[t] \in {"starting", "wait1"}
    /\ pc[Master] \in Inside \cup {"stop2"} => \A t \in Slaves : pc[t] \in Inside
    /\ pc[Master] = "stop1" =>
          \/ \A t \in Slaves : pc[t] \in {"starting", "wait1"}
          \/ \A t \in Slaves : pc[t] = "quit"
    /\ pc[Master] \in {"stopped", "joined"} => \A t \in Slaves : pc[t] = "quit"

(* What m_State says while the slaves may look at it, and what they took from it *)
Announced ==
    /\ pc[Master] \in {"prephare", "wait1", "woken", "proceed", "wait2"} =>
          /\ logic <= Length
          /\ selected.logic = logic
          /\ selected.interval = now - lastAt[logic]
    /\ pc[Master] \in {"wait1", "woken", "proceed"} => selected.stage = stage
    /\ pc[Master] \in {"stop1", "stop2"} => selected.logic = Length + 1

Taken ==
    /\ pc[Master] \in {"proceed", "wait2"} => doing[Master] = selected
    /\ \A t \in Slaves :
          /\ pc[t] \in {"proceed", "wait2"} => doing[t] = selected
          /\ pc[t] = "wait2" => continue[t] = (selected.logic # Length + 1)

ScheduleInv ==
    \A l \in Logics :
        /\ given[l] = lastAt[l]
        /\ lastAt[l] <= now
        /\ until[l] <= lastAt[l] + Cooldown[l]
        /\ until[l] = runs[l] * Cooldown[l]

(* A logic that has been proceeded in this cycle, or whose cooldown is not over *)
Served(l) == lastAt[l] = now \/ now < until[l]

Progress ==
    /\ pc[Master] = "between" => \A l \in Logics : Served(l)
    /\ pc[Master] \notin {"between", "stop1", "stop2", "stopped", "joined"} =>
          \A l \in Logics : l < logic => Served(l)
    /\ pc[Master] \in {"prephare", "wait1", "woken", "proceed", "wait2"} =>
          until[logic] <= now

ConveyorInv ==
    ConveyorTypeOK /\ Together /\ Announced /\ Taken /\ ScheduleInv /\ Progress

(* Each step of a thread keeps the types. *)
LEMMA TypeStep ==
    ASSUME ConveyorInv, [ConveyorNext]_conveyorVars PROVE ConveyorTypeOK'
  <1> USE ConveyorAssumption DEF Master, Threads
  <1>0. ConveyorTypeOK
    BY DEF ConveyorInv
  <1>1. ASSUME NEW interval \in Intervals, BeginCycle(interval)
        PROVE ConveyorTypeOK'
    <2>1. selected' \in Selections
      BY <1>0, <1>1 DEF BeginCycle, ConveyorTypeOK, Selections
    <2>2. now' \in 0 .. TimeBound /\ logic' \in 1 .. Length + 1
      BY <1>0, <1>1 DEF BeginCycle, ConveyorTypeOK
    <2> QED
      BY <1>0, <1>1, <2>1, <2>2 DEF BeginCycle, Goes, ConveyorTypeOK
  <1>2. CASE SkipLogic
    <2>1. logic' \in 1 .. Length + 1
      BY <1>0, <1>2 DEF SkipLogic, ConveyorTypeOK
    <2> QED
      BY <1>0, <1>2, <2>1 DEF SkipLogic, ConveyorTypeOK
  <1>3. CASE SelectLogic
    <2>1. now - lastAt[logic] \in Nat
      BY <1>0, <1>3 DEF SelectLogic, ConveyorTypeOK, ConveyorInv, ScheduleInv, Logics
    <2>2. selected' \in Selections
      <3>1. selected' = [logic |-> logic, stage |-> selected.stage, interval |-> now - lastAt[logic]]
        BY <1>0, <1>3 DEF SelectLogic, ConveyorTypeOK, Selections
      <3> QED
        BY <1>0, <2>1, <3>1 DEF ConveyorTypeOK, Selections
    <2> QED
      BY <1>0, <1>3, <2>2 DEF SelectLogic, Goes, ConveyorTypeOK
  <1>4. CASE EndCycle
    BY <1>0, <1>4 DEF EndCycle, Goes, state, ConveyorTypeOK
  <1>5. CASE SkipStage
    <2>1. stage' \in Nat
      BY <1>0, <1>5 DEF SkipStage, ConveyorTypeOK
    <2> QED
      BY <1>0, <1>5, <2>1 DEF SkipStage, ConveyorTypeOK
  <1>6. CASE BeginStage
    <2>1. selected' \in Selections
      BY <1>0, <1>6 DEF BeginStage, ConveyorTypeOK, Selections
    <2> QED
      BY <1>0, <1>6, <2>1 DEF BeginStage, Goes, ConveyorTypeOK
  <1>7. CASE MasterProceeds
    <2>1. [logic |-> logic, stage |-> stage, interval |-> selected.interval] \in Selections
      BY <1>0 DEF ConveyorTypeOK, Selections
    <2> QED
      BY <1>0, <1>7, <2>1 DEF MasterProceeds, Goes, state, ConveyorTypeOK
  <1>8. CASE MasterFinishes
    <2>1. stage' \in Nat
      BY <1>0, <1>8 DEF MasterFinishes, ConveyorTypeOK
    <2> QED
      BY <1>0, <1>8, <2>1 DEF MasterFinishes, Goes, ConveyorTypeOK
  <1>9. CASE EndLogic
    <2>1. logic \in Logics
      BY <1>0, <1>9 DEF EndLogic, Goes, ConveyorInv, ConveyorTypeOK, Announced, Logics
    <2>2. logic' \in 1 .. Length + 1
      BY <1>0, <1>9, <2>1 DEF EndLogic, Logics
    <2>3. until' \in [Logics -> Nat] /\ lastAt' \in [Logics -> Nat]
      BY <1>0, <1>9, <2>1 DEF EndLogic, ConveyorTypeOK
    <2>4. selected.interval \in Nat
      BY <1>0 DEF ConveyorTypeOK, Selections
    <2>5. given' \in [Logics -> Nat]
      BY <1>0, <1>9, <2>1, <2>4 DEF EndLogic, ConveyorTypeOK
    <2>6. runs' \in [Logics -> Nat]
      BY <1>0, <1>9, <2>1 DEF EndLogic, Counted, ConveyorTypeOK
    <2> QED
      BY <1>0, <1>9, <2>2, <2>3, <2>5, <2>6 DEF EndLogic, Goes, ConveyorTypeOK
  <1>10. CASE Stop
    <2>1. selected' \in Selections
      BY <1>0, <1>10 DEF Stop, ConveyorTypeOK, Selections, Terminator
    <2> QED
      BY <1>0, <1>10, <2>1 DEF Stop, Goes, ConveyorTypeOK
  <1>11. CASE Join
    BY <1>0, <1>11 DEF Join, Goes, state, ConveyorTypeOK
  <1>12. ASSUME NEW u \in Slaves, SlaveStep(u)
         PROVE ConveyorTypeOK'
    BY <1>0, <1>12 DEF SlaveStep, JoinAsSlave, SlaveProceeds, SlaveFinishes, Goes, state, ConveyorTypeOK
  <1>13. CASE Barrier
    <2>1. \A t \in Threads : Released(t) \in {"woken", "prephare", "wait1", "quit", "stop2", "stopped"}
      BY <1>0, <1>13 DEF Barrier, Released, ConveyorTypeOK
    <2> QED
      BY <1>0, <1>13, <2>1 DEF Barrier, state, ConveyorTypeOK
  <1>14. CASE UNCHANGED conveyorVars
    BY <1>0, <1>14 DEF conveyorVars, ConveyorTypeOK
  <1> QED
    BY <1>1, <1>2, <1>3, <1>4, <1>5, <1>6, <1>7, <1>8, <1>9, <1>10, <1>11, <1>12, <1>13, <1>14
       DEF ConveyorNext, MasterStep

(* Each step keeps master and slaves between the same waits of the barrier. *)
LEMMA TogetherStep ==
    ASSUME ConveyorInv, [ConveyorNext]_conveyorVars PROVE Together'
  <1> USE ConveyorAssumption DEF ConveyorInv, Master, Threads, ConveyorTypeOK, Together, Taken, Announced, Outside, Inside
  <1>1. ASSUME NEW interval \in Intervals, BeginCycle(interval)
        PROVE Together'
    BY <1>1 DEF BeginCycle, Goes
  <1>2. CASE SkipLogic
    BY <1>2 DEF SkipLogic
  <1>3. CASE SelectLogic
    BY <1>3 DEF SelectLogic, Goes
  <1>4. CASE EndCycle
    BY <1>4 DEF EndCycle, Goes, state
  <1>5. CASE SkipStage
    BY <1>5 DEF SkipStage
  <1>6. CASE BeginStage
    BY <1>6 DEF BeginStage, Goes
  <1>7. CASE MasterProceeds
    BY <1>7 DEF MasterProceeds, Goes, state
  <1>8. CASE MasterFinishes
    BY <1>8 DEF MasterFinishes, Goes
  <1>9. CASE EndLogic
    BY <1>9 DEF EndLogic, Goes, Counted
  <1>10. CASE Stop
    BY <1>10 DEF Stop, Goes, Terminator
  <1>11. CASE Join
    BY <1>11 DEF Join, Goes, state
  <1>12. ASSUME NEW u \in Slaves, JoinAsSlave(u)
        PROVE Together'
    BY <1>12 DEF JoinAsSlave, Goes, state
  <1>13. ASSUME NEW u \in Slaves, SlaveProceeds(u)
        PROVE Together'
    BY <1>13 DEF SlaveProceeds, Goes, state
  <1>14. ASSUME NEW u \in Slaves, SlaveFinishes(u)
        PROVE Together'
    BY <1>14 DEF SlaveFinishes, Goes, state, Terminator
  <1>15. CASE Barrier
    BY <1>15 DEF Barrier, Released, state
  <1>16. CASE UNCHANGED conveyorVars
    BY <1>16 DEF conveyorVars
  <1> QED
    BY <1>1, <1>2, <1>3, <1>4, <1>5, <1>6, <1>7, <1>8, <1>9, <1>10, <1>11, <1>12, <1>13, <1>14, <1>15, <1>16 DEF ConveyorNext, MasterStep, SlaveStep

(* The master changes m_State only while no slave may look at it. *)
LEMMA AnnouncedStep ==
    ASSUME ConveyorInv, [ConveyorNext]_conveyorVars PROVE Announced'
  <1> USE ConveyorAssumption DEF ConveyorInv, Master, Threads, ConveyorTypeOK, Together, Announced, Selections, Outside, Inside, Logics
  <1>1. ASSUME NEW interval \in Intervals, BeginCycle(interval)
        PROVE Announced'
    BY <1>1 DEF BeginCycle, Goes
  <1>2. CASE SkipLogic
    BY <1>2 DEF SkipLogic
  <1>3. CASE SelectLogic
    BY <1>3 DEF SelectLogic, Goes
  <1>4. CASE EndCycle
    BY <1>4 DEF EndCycle, Goes, state
  <1>5. CASE SkipStage
    BY <1>5 DEF SkipStage
  <1>6. CASE BeginStage
    BY <1>6 DEF BeginStage, Goes
  <1>7. CASE MasterProceeds
    BY <1>7 DEF MasterProceeds, Goes, state
  <1>8. CASE MasterFinishes
    BY <1>8 DEF MasterFinishes, Goes
  <1>9. CASE EndLogic
    BY <1>9 DEF EndLogic, Goes, Counted
  <1>10. CASE Stop
    BY <1>10 DEF Stop, Goes, Terminator
  <1>11. CASE Join
    BY <1>11 DEF Join, Goes, state
  <1>12. ASSUME NEW u \in Slaves, JoinAsSlave(u)
        PROVE Announced'
    BY <1>12 DEF JoinAsSlave, Goes, state
  <1>13. ASSUME NEW u \in Slaves, SlaveProceeds(u)
        PROVE Announced'
    BY <1>13 DEF SlaveProceeds, Goes, state
  <1>14. ASSUME NEW u \in Slaves, SlaveFinishes(u)
        PROVE Announced'
    BY <1>14 DEF SlaveFinishes, Goes, state, Terminator
  <1>15. CASE Barrier
    BY <1>15 DEF Barrier, Released, state
  <1>16. CASE UNCHANGED conveyorVars
    BY <1>16 DEF conveyorVars
  <1> QED
    BY <1>1, <1>2, <1>3, <1>4, <1>5, <1>6, <1>7, <1>8, <1>9, <1>10, <1>11, <1>12, <1>13, <1>14, <1>15, <1>16 DEF ConveyorNext, MasterStep, SlaveStep

(* What a thread has read of m_State is still what it says. *)
LEMMA TakenStep ==
    ASSUME ConveyorInv, [ConveyorNext]_conveyorVars PROVE Taken'
  <1> USE ConveyorAssumption DEF ConveyorInv, Master, Threads, ConveyorTypeOK, Together, Announced, Taken, Selections, Outside, Inside
  <1>1. ASSUME NEW interval \in Intervals, BeginCycle(interval)
        PROVE Taken'
    BY <1>1 DEF BeginCycle, Goes
  <1>2. CASE SkipLogic
    BY <1>2 DEF SkipLogic
  <1>3. CASE SelectLogic
    BY <1>3 DEF SelectLogic, Goes
  <1>4. CASE EndCycle
    BY <1>4 DEF EndCycle, Goes, state
  <1>5. CASE SkipStage
    BY <1>5 DEF SkipStage
  <1>6. CASE BeginStage
    BY <1>6 DEF BeginStage, Goes
  <1>7. CASE MasterProceeds
    BY <1>7 DEF MasterProceeds, Goes, state
  <1>8. CASE MasterFinishes
    BY <1>8 DEF MasterFinishes, Goes
  <1>9. CASE EndLogic
    BY <1>9 DEF EndLogic, Goes, Counted
  <1>10. CASE Stop
    BY <1>10 DEF Stop, Goes, Terminator
  <1>11. CASE Join
    BY <1>11 DEF Join, Goes, state
  <1>12. ASSUME NEW u \in Slaves, JoinAsSlave(u)
        PROVE Taken'
    BY <1>12 DEF JoinAsSlave, Goes, state
  <1>13. ASSUME NEW u \in Slaves, SlaveProceeds(u)
        PROVE Taken'
    BY <1>13 DEF SlaveProceeds, Goes, state
  <1>14. ASSUME NEW u \in Slaves, SlaveFinishes(u)
        PROVE Taken'
    BY <1>14 DEF SlaveFinishes, Goes, state, Terminator
  <1>15. CASE Barrier
    BY <1>15 DEF Barrier, Released, state
  <1>16. CASE UNCHANGED conveyorVars
    BY <1>16 DEF conveyorVars
  <1> QED
    BY <1>1, <1>2, <1>3, <1>4, <1>5, <1>6, <1>7, <1>8, <1>9, <1>10, <1>11, <1>12, <1>13, <1>14, <1>15, <1>16 DEF ConveyorNext, MasterStep, SlaveStep

(* One run more costs one cooldown more. *)
LEMMA OneRunMore == ASSUME NEW r \in Nat, NEW c \in Nat PROVE (r + 1) * c = r * c + c
  OBVIOUS

(* The interval is what has passed since the logic was proceeded, and its
   cooldown is over: what it was given adds up to the time, and it may rest for
   one cooldown at most. *)
LEMMA EndLogicKeepsSchedule ==
    ASSUME ConveyorInv, EndLogic PROVE ScheduleInv'
  <1> USE ConveyorAssumption
  <1>1. /\ logic \in Logics /\ selected.interval = now - lastAt[logic] /\ until[logic] <= now
        /\ now \in Nat
    BY DEF EndLogic, Goes, ConveyorInv, ConveyorTypeOK, Announced, Progress, Logics
  <1>2. /\ given[logic] = lastAt[logic] /\ until[logic] = runs[logic] * Cooldown[logic]
        /\ given[logic] \in Nat /\ until[logic] \in Nat /\ runs[logic] \in Nat
        /\ Cooldown[logic] \in Nat /\ lastAt[logic] \in Nat
    BY <1>1 DEF ConveyorInv, ConveyorTypeOK, ScheduleInv
  <1>3. runs'[logic] * Cooldown[logic] = until[logic] + Cooldown[logic]
    <2>1. CASE Cooldown[logic] = 0
      <3>1. runs' = runs
        BY <2>1 DEF EndLogic, Counted
      <3> QED
        BY <1>2, <2>1, <3>1
    <2>2. CASE Cooldown[logic] # 0
      <3>1. runs'[logic] = runs[logic] + 1
        BY <1>1, <2>2 DEF EndLogic, Counted, ConveyorInv, ConveyorTypeOK
      <3> QED
        BY <1>2, <3>1, OneRunMore
    <2> QED
      BY <2>1, <2>2
  <1>4. /\ given'[logic] = given[logic] + (now - lastAt[logic]) /\ lastAt'[logic] = now
        /\ until'[logic] = until[logic] + Cooldown[logic] /\ now' = now
    BY <1>1 DEF EndLogic, ConveyorInv, ConveyorTypeOK
  <1>5. \A l \in Logics \ {logic} : /\ given'[l] = given[l] /\ lastAt'[l] = lastAt[l]
                                    /\ until'[l] = until[l] /\ runs'[l] = runs[l]
    BY <1>1 DEF EndLogic, Counted, ConveyorInv, ConveyorTypeOK
  <1>6. ASSUME NEW l \in Logics
        PROVE  /\ given'[l] = lastAt'[l] /\ lastAt'[l] <= now'
               /\ until'[l] <= lastAt'[l] + Cooldown[l] /\ until'[l] = runs'[l] * Cooldown[l]
    <2>1. CASE l = logic
      BY <1>1, <1>2, <1>3, <1>4, <2>1
    <2>2. CASE l # logic
      BY <1>4, <1>5, <2>2 DEF ConveyorInv, ScheduleInv
    <2> QED
      BY <2>1, <2>2
  <1> QED
    BY <1>6 DEF ScheduleInv

(* A step that only lets time go on *)
LEMMA ScheduleSame ==
    ASSUME ConveyorInv, UNCHANGED <<given, lastAt, until, runs>>, now' >= now, now' \in Nat
    PROVE  ScheduleInv'
  <1> SUFFICES ASSUME NEW l \in Logics
               PROVE  /\ given[l] = lastAt[l] /\ lastAt[l] <= now'
                      /\ until[l] <= lastAt[l] + Cooldown[l]
                      /\ until[l] = runs[l] * Cooldown[l]
    BY DEF ScheduleInv
  <1>1. ScheduleInv /\ lastAt[l] \in Nat /\ now \in Nat
    BY ConveyorAssumption DEF ConveyorInv, ConveyorTypeOK
  <1>2. /\ given[l] = lastAt[l] /\ lastAt[l] <= now
        /\ until[l] <= lastAt[l] + Cooldown[l]
        /\ until[l] = runs[l] * Cooldown[l]
    BY <1>1 DEF ScheduleInv
  <1>3. lastAt[l] <= now'
    BY <1>1, <1>2
  <1> QED
    BY <1>2, <1>3

(* Intervals given add up, and each run puts the logic off by its cooldown. *)
LEMMA ScheduleStep ==
    ASSUME ConveyorInv, [ConveyorNext]_conveyorVars PROVE ScheduleInv'
  <1> DEFINE Unscheduled == UNCHANGED <<given, lastAt, until, runs>>
  <1>0. now \in Nat
    BY ConveyorAssumption DEF ConveyorInv, ConveyorTypeOK
  <1>a. Unscheduled /\ now' >= now /\ now' \in Nat => ScheduleInv'
    BY ScheduleSame
  <1> HIDE DEF Unscheduled
  <1>1. ASSUME NEW interval \in Intervals, BeginCycle(interval)
        PROVE ScheduleInv'
    <2>1. Unscheduled /\ now' = now + interval /\ interval \in Nat
      BY <1>1, ConveyorAssumption DEF BeginCycle, Unscheduled
    <2> QED
      BY <1>0, <1>a, <2>1
  <1>2. CASE SkipLogic
    <2>1. Unscheduled /\ now' = now
      BY <1>2 DEF SkipLogic, Unscheduled
    <2> QED
      BY <1>0, <1>a, <2>1
  <1>3. CASE SelectLogic
    <2>1. Unscheduled /\ now' = now
      BY <1>3 DEF SelectLogic, Unscheduled
    <2> QED
      BY <1>0, <1>a, <2>1
  <1>4. CASE EndCycle
    <2>1. Unscheduled /\ now' = now
      BY <1>4 DEF EndCycle, state, Unscheduled
    <2> QED
      BY <1>0, <1>a, <2>1
  <1>5. CASE SkipStage
    <2>1. Unscheduled /\ now' = now
      BY <1>5 DEF SkipStage, Unscheduled
    <2> QED
      BY <1>0, <1>a, <2>1
  <1>6. CASE BeginStage
    <2>1. Unscheduled /\ now' = now
      BY <1>6 DEF BeginStage, state, Unscheduled
    <2> QED
      BY <1>0, <1>a, <2>1
  <1>7. CASE MasterProceeds
    <2>1. Unscheduled /\ now' = now
      BY <1>7 DEF MasterProceeds, state, Unscheduled
    <2> QED
      BY <1>0, <1>a, <2>1
  <1>8. CASE MasterFinishes
    <2>1. Unscheduled /\ now' = now
      BY <1>8 DEF MasterFinishes, state, Unscheduled
    <2> QED
      BY <1>0, <1>a, <2>1
  <1>9. CASE EndLogic
    BY <1>9, EndLogicKeepsSchedule
  <1>10. CASE Stop
    <2>1. Unscheduled /\ now' = now
      BY <1>10 DEF Stop, state, Unscheduled
    <2> QED
      BY <1>0, <1>a, <2>1
  <1>11. CASE Join
    <2>1. Unscheduled /\ now' = now
      BY <1>11 DEF Join, state, Unscheduled
    <2> QED
      BY <1>0, <1>a, <2>1
  <1>12. ASSUME NEW u \in Slaves, JoinAsSlave(u)
        PROVE ScheduleInv'
    <2>1. Unscheduled /\ now' = now
      BY <1>12 DEF JoinAsSlave, state, Unscheduled
    <2> QED
      BY <1>0, <1>a, <2>1
  <1>13. ASSUME NEW u \in Slaves, SlaveProceeds(u)
        PROVE ScheduleInv'
    <2>1. Unscheduled /\ now' = now
      BY <1>13 DEF SlaveProceeds, state, Unscheduled
    <2> QED
      BY <1>0, <1>a, <2>1
  <1>14. ASSUME NEW u \in Slaves, SlaveFinishes(u)
        PROVE ScheduleInv'
    <2>1. Unscheduled /\ now' = now
      BY <1>14 DEF SlaveFinishes, state, Unscheduled
    <2> QED
      BY <1>0, <1>a, <2>1
  <1>15. CASE Barrier
    <2>1. Unscheduled /\ now' = now
      BY <1>15 DEF Barrier, state, Unscheduled
    <2> QED
      BY <1>0, <1>a, <2>1
  <1>16. CASE UNCHANGED conveyorVars
    <2>1. Unscheduled /\ now' = now
      BY <1>16 DEF conveyorVars, Unscheduled
    <2> QED
      BY <1>0, <1>a, <2>1
  <1> QED
    BY <1>1, <1>2, <1>3, <1>4, <1>5, <1>6, <1>7, <1>8, <1>9, <1>10, <1>11, <1>12, <1>13, <1>14, <1>15, <1>16 DEF ConveyorNext, MasterStep, SlaveStep

(* No logic that is due is passed over. *)
LEMMA ProgressStep ==
    ASSUME ConveyorInv, [ConveyorNext]_conveyorVars PROVE Progress'
  <1> USE ConveyorAssumption DEF ConveyorInv, Master, Threads, ConveyorTypeOK, Together, Announced, ScheduleInv, Progress, Served, Logics, Outside, Inside
  <1>1. ASSUME NEW interval \in Intervals, BeginCycle(interval)
        PROVE Progress'
    BY <1>1 DEF BeginCycle, Goes
  <1>2. CASE SkipLogic
    <2>1. ASSUME NEW l \in Logics, l < logic + 1 PROVE Served(l)
      <3>1. CASE l = logic
        BY <1>2, <3>1 DEF SkipLogic
      <3>2. CASE l < logic
        BY <1>2, <3>2 DEF SkipLogic
      <3> QED
        BY <2>1, <3>1, <3>2
    <2> QED
      BY <1>2, <2>1 DEF SkipLogic
  <1>3. CASE SelectLogic
    BY <1>3 DEF SelectLogic, Goes
  <1>4. CASE EndCycle
    BY <1>4 DEF EndCycle, Goes, state
  <1>5. CASE SkipStage
    BY <1>5 DEF SkipStage
  <1>6. CASE BeginStage
    BY <1>6 DEF BeginStage, Goes
  <1>7. CASE MasterProceeds
    BY <1>7 DEF MasterProceeds, Goes, state
  <1>8. CASE MasterFinishes
    BY <1>8 DEF MasterFinishes, Goes
  <1>9. CASE EndLogic
    BY <1>9 DEF EndLogic, Goes, Counted
  <1>10. CASE Stop
    BY <1>10 DEF Stop, Goes, Terminator
  <1>11. CASE Join
    BY <1>11 DEF Join, Goes, state
  <1>12. ASSUME NEW u \in Slaves, JoinAsSlave(u)
        PROVE Progress'
    BY <1>12 DEF JoinAsSlave, Goes, state
  <1>13. ASSUME NEW u \in Slaves, SlaveProceeds(u)
        PROVE Progress'
    BY <1>13 DEF SlaveProceeds, Goes, state
  <1>14. ASSUME NEW u \in Slaves, SlaveFinishes(u)
        PROVE Progress'
    BY <1>14 DEF SlaveFinishes, Goes, state, Terminator
  <1>15. CASE Barrier
    BY <1>15 DEF Barrier, Released, state
  <1>16. CASE UNCHANGED conveyorVars
    BY <1>16 DEF conveyorVars
  <1> QED
    BY <1>1, <1>2, <1>3, <1>4, <1>5, <1>6, <1>7, <1>8, <1>9, <1>10, <1>11, <1>12, <1>13, <1>14, <1>15, <1>16 DEF ConveyorNext, MasterStep, SlaveStep

(* The inductive invariant of the conveyor (Conveyor::proceed). *)
LEMMA ConveyorInvariant == ConveyorSpec => []ConveyorInv
  <1>1. ConveyorInit => ConveyorInv
    <2> SUFFICES ASSUME ConveyorInit PROVE ConveyorInv
      OBVIOUS
    <2> USE ConveyorAssumption
    <2>1. Nothing \in Selections
      BY DEF Nothing, Selections
    <2>2. ConveyorTypeOK
      BY <2>1 DEF ConveyorInit, ConveyorTypeOK, Threads, Master, Logics
    <2>3. Together /\ Announced /\ Taken
      BY DEF ConveyorInit, Together, Announced, Taken, Threads, Master, Outside, Inside
    <2>4. ScheduleInv /\ Progress
      BY DEF ConveyorInit, ScheduleInv, Progress, Served, Threads, Master, Logics
    <2> QED
      BY <2>2, <2>3, <2>4 DEF ConveyorInv
  <1>2. ConveyorInv /\ [ConveyorNext]_conveyorVars => ConveyorInv'
    BY TypeStep, TogetherStep, AnnouncedStep, TakenStep, ScheduleStep, ProgressStep DEF ConveyorInv
  <1> QED
    BY <1>1, <1>2, PTL DEF ConveyorSpec

(* Conveyor.cpp: for every number of slaves, every chain of logics and all
   intervals of the clock, one barrier with two waits keeps prephare() alone and
   all threads in the same stage, also when the server stops. *)
THEOREM StagesAreKeptApart == ConveyorSpec => []StagesAreApart
  <1>1. ConveyorInv => StagesAreApart
    <2> SUFFICES ASSUME ConveyorInv PROVE StagesAreApart
      OBVIOUS
    <2> USE ConveyorAssumption
    <2>1. PrephareIsAlone
      BY DEF ConveyorInv, Together, PrephareIsAlone, Outside
    <2>2. ASSUME NEW t \in Slaves, pc[t] = "proceed"
          PROVE  CASE pc[Master] = "woken" ->
                        doing[t] = [logic |-> logic, stage |-> stage, interval |-> now - lastAt[logic]]
                   [] pc[Master] \in {"proceed", "wait2"} -> doing[t] = doing[Master]
                   [] OTHER -> doing[t].logic = Terminator.logic /\ pc[Master] = "stop2"
      <3>1. doing[t] = selected /\ selected \in Selections
        BY <2>2 DEF ConveyorInv, Taken, ConveyorTypeOK
      <3>2. pc[Master] \in {"woken", "proceed", "wait2", "stop2"}
        BY <2>2 DEF ConveyorInv, Together, Outside, Inside
      <3>3. CASE pc[Master] = "woken"
        BY <3>1, <3>3 DEF ConveyorInv, Announced, Selections
      <3>4. CASE pc[Master] \in {"proceed", "wait2"}
        BY <3>1, <3>4 DEF ConveyorInv, Taken
      <3>5. CASE pc[Master] = "stop2"
        BY <3>1, <3>5 DEF ConveyorInv, Announced, Terminator
      <3> QED
        BY <3>2, <3>3, <3>4, <3>5
    <2> QED
      BY <2>1, <2>2 DEF ConveyorInv, StagesAreApart, SameStage
  <1> QED
    BY <1>1, ConveyorInvariant, PTL

(* Conveyor.cpp: whatever the cooldowns and the lengths of the cycles, a logic is
   proceeded at most once per cooldown, and once more, and the intervals it gets
   add up to the in-game time, but for what its cooldown still withholds. *)
THEOREM ScheduleStaysExact == ConveyorSpec => []ScheduleIsExact
  <1>1. ConveyorInv => ScheduleIsExact
    <2> SUFFICES ASSUME ConveyorInv PROVE ScheduleIsExact
      OBVIOUS
    <2> USE ConveyorAssumption
    <2>1. ASSUME NEW l \in Logics, runs[l] > 0
          PROVE  (runs[l] - 1) * Cooldown[l] <= now
      <3> DEFINE r == runs[l] - 1
      <3>1. /\ runs[l] \in Nat /\ Cooldown[l] \in Nat /\ lastAt[l] \in Nat /\ until[l] \in Nat
            /\ now \in Nat
        BY DEF ConveyorInv, ConveyorTypeOK
      <3>2. /\ until[l] <= lastAt[l] + Cooldown[l] /\ lastAt[l] <= now
            /\ until[l] = (r + 1) * Cooldown[l]
        BY <3>1 DEF ConveyorInv, ScheduleInv
      <3>3. r \in Nat
        BY <2>1, <3>1
      <3>4. until[l] = r * Cooldown[l] + Cooldown[l] /\ r * Cooldown[l] \in Nat
        BY <3>1, <3>2, <3>3, OneRunMore
      <3> HIDE DEF r
      <3>5. r * Cooldown[l] <= now
        BY <3>1, <3>2, <3>3, <3>4
      <3> QED
        BY <3>5 DEF r
    <2>2. TimeIsHandedOut
      BY DEF ConveyorInv, ConveyorTypeOK, ScheduleInv, Progress, Served, TimeIsHandedOut
    <2> QED
      BY <2>1, <2>2 DEF ScheduleIsExact, RateIsLimited
  <1> QED
    BY <1>1, ConveyorInvariant, PTL

-----------------------------------------------------------------------------
(* ModulesManager *)

Handling == {"fetch", "handle", "push", "write"}
Proceeding == {"next", "proceed", "check", "deactivate"}
WithModule == {"handle", "push", "write"}
WithEntry == {"proceed", "check", "deactivate"}

InvalidIds == {i \in DOMAIN ids : ids[i] = Invalid}

(* Threads are in the stage that is executed; those the server does not have, nowhere. *)
InStage ==
    /\ \A t \in Workers :
          /\ at[t] \in Handling => mstage = "handle" /\ t \in crew
          /\ at[t] \in Proceeding => mstage = "proceed" /\ t \in crew
    /\ mstage # "none" => Total > 0

(* A module is fetched once in a stage. *)
FetchedOnce ==
    \A t, other \in Workers :
        at[t] \in WithModule =>
            /\ cur[t] < nextId /\ cur[t] \in Modules
            /\ t # other /\ at[other] \in WithModule => cur[t] # cur[other]

(* An end that was read is behind all entries that were dropped earlier. *)
EndsRead ==
    \A t \in Workers :
        at[t] = "write" =>
            /\ index[t] > 0 /\ index[t] - 1 <= total + Cardinality(InvalidIds)
            /\ \A i \in InvalidIds : i < index[t]
            /\ crew = {t} => index[t] = Len(ids) + 1

(* An entry of the list is taken by one thread in a stage, and names its module until it is dropped. *)
TakenOnce ==
    mstage = "proceed" =>
        /\ nextIndex <= Len(ids)
        /\ \A i \in 1 .. nextIndex : Valid(ids[i])
        /\ \A t, other \in Workers :
              at[t] \in WithEntry =>
                  /\ index[t] \in DOMAIN ids /\ index[t] > nextIndex /\ cur[t] \in Modules
                  /\ at[t] # "deactivate" => ids[index[t]] = cur[t]
                  /\ t # other /\ at[other] \in WithEntry => index[t] # index[other]

(* No more entries than are counted, and with one thread as many. *)
TotalCounts ==
    /\ Len(ids) <= total + Cardinality(InvalidIds)
    /\ \A t \in Workers : crew = {t} => Len(ids) = total + Cardinality(InvalidIds)

BusyListed == \A t \in Workers : crew = {t} => \A m \in Modules : mstate[m] = "active" => Listed(m)

ManagerInv ==
    /\ ManagerTypeOK /\ InStage /\ FetchedOnce /\ EndsRead /\ TakenOnce /\ TotalCounts /\ BusyListed

(* There are n numbers from 1 to n. *)
LEMMA CountTo ==
    ASSUME NEW n \in Nat PROVE IsFiniteSet(1 .. n) /\ Cardinality(1 .. n) = n
  <1>1. n \in Int /\ 1 \in Int
    OBVIOUS
  <1>2. IsFiniteSet(1 .. n)
    BY <1>1, FS_Interval, Zenon
  <1>3. Cardinality(1 .. n) = IF 1 > n THEN 0 ELSE n - 1 + 1
    BY <1>1, FS_Interval, Zenon
  <1> QED
    BY <1>2, <1>3

(* The entries that were dropped can be counted, and are no more than there are entries. *)
LEMMA InvalidIdsAreFinite ==
    ASSUME ManagerTypeOK
    PROVE  /\ InvalidIds \subseteq 1 .. Len(ids) /\ IsFiniteSet(InvalidIds)
           /\ Cardinality(InvalidIds) \in Nat /\ Cardinality(InvalidIds) <= Len(ids)
  <1>1. Len(ids) \in Nat /\ DOMAIN ids = 1 .. Len(ids)
    BY DEF ManagerTypeOK
  <1>2. InvalidIds \subseteq 1 .. Len(ids)
    BY <1>1 DEF InvalidIds
  <1>3. IsFiniteSet(1 .. Len(ids)) /\ Cardinality(1 .. Len(ids)) = Len(ids)
    BY <1>1, CountTo
  <1> QED
    BY <1>2, <1>3, FS_Subset, FS_CardinalityType

(* What push_back makes of the list: the entries in front of the end that was read
   are what they were, or modules; none that was dropped is lost or comes back. *)
LEMMA PushedEntries ==
    ASSUME ManagerInv, NEW u \in crew, Push(u)
    PROVE  /\ ids' \in Seq(Modules \cup {Invalid})
           /\ Len(ids') = index[u] /\ DOMAIN ids' = 1 .. index[u] /\ ids'[index[u]] = cur[u]
           /\ \A i \in 1 .. index[u] - 1 : i <= Len(ids) => ids'[i] = ids[i]
           /\ cur[u] \in Modules
           /\ InvalidIds' = InvalidIds
  <1>0. ManagerTypeOK /\ u \in Workers /\ at[u] = "write"
    BY DEF ManagerInv, ManagerTypeOK, Push, Moves
  <1>1. PICK kept \in Memory(index[u] - 1) : ids' = Append(kept, cur[u])
    BY DEF Push
  <1>2. /\ index[u] \in Nat /\ index[u] > 0 /\ cur[u] \in Modules
        /\ \A i \in InvalidIds : i < index[u]
    BY <1>0 DEF ManagerInv, ManagerTypeOK, EndsRead, FetchedOnce, WithModule
  <1>3. kept \in [1 .. index[u] - 1 -> Modules \cup {Invalid}]
    BY <1>1 DEF Memory
  <1>4. kept \in Seq(Modules \cup {Invalid}) /\ Len(kept) = index[u] - 1
    BY <1>2, <1>3
  <1>5. /\ ids' \in Seq(Modules \cup {Invalid}) /\ Len(ids') = index[u]
        /\ DOMAIN ids' = 1 .. index[u] /\ ids'[index[u]] = cur[u]
        /\ \A i \in 1 .. index[u] - 1 : ids'[i] = kept[i]
    BY <1>1, <1>2, <1>4
  <1>6. \A i \in 1 .. index[u] - 1 : IF i <= Len(ids) THEN kept[i] = ids[i] ELSE kept[i] \in Modules
    BY <1>1 DEF Memory
  <1>7. Invalid \notin Modules /\ Len(ids) \in Nat /\ DOMAIN ids = 1 .. Len(ids)
    BY <1>0 DEF ManagerTypeOK, Invalid, Modules
  <1>8. ASSUME NEW i \in InvalidIds PROVE i \in InvalidIds'
    BY <1>2, <1>5, <1>6, <1>7 DEF InvalidIds
  <1>9. ASSUME NEW i \in InvalidIds' PROVE i \in InvalidIds
    <2>1. i \in 1 .. index[u] /\ ids'[i] = Invalid
      BY <1>5 DEF InvalidIds
    <2>2. i # index[u]
      BY <1>2, <1>5, <1>7, <2>1
    <2>3. i \in 1 .. index[u] - 1
      BY <1>2, <2>1, <2>2
    <2> QED
      BY <1>5, <1>6, <1>7, <2>1, <2>3 DEF InvalidIds
  <1> QED
    BY <1>2, <1>5, <1>6, <1>8, <1>9

(* What clearInvalidIds makes of the list in one round *)
LEMMA ClearedEntries ==
    ASSUME ManagerInv, NEW i \in DOMAIN ids, ClearInvalidId(i)
    PROVE  /\ ids' \in Seq(Modules \cup {Invalid}) /\ Len(ids') = Len(ids) - 1
           /\ \A j \in 1 .. Len(ids) - 1 : ids'[j] = IF j = i THEN ids[Len(ids)] ELSE ids[j]
           /\ Cardinality(InvalidIds') = Cardinality(InvalidIds) - 1
  <1>0. ManagerTypeOK /\ Len(ids) \in Nat /\ DOMAIN ids = 1 .. Len(ids)
    BY DEF ManagerInv, ManagerTypeOK
  <1> DEFINE n == Len(ids)
             filled == [ids EXCEPT ![i] = ids[n]]
  <1>1. i \in 1 .. n /\ n \in Nat /\ n > 0 /\ ids[i] = Invalid /\ n \in DOMAIN ids
    BY <1>0 DEF ClearInvalidId
  <1>2. ids \in Seq(Modules \cup {Invalid})
    BY <1>0 DEF ManagerTypeOK
  <1>3. filled \in Seq(Modules \cup {Invalid}) /\ Len(filled) = n
        /\ \A j \in 1 .. n : filled[j] = IF j = i THEN ids[n] ELSE ids[j]
    <2>1. \A j \in 1 .. n : ids[j] \in Modules \cup {Invalid}
      BY <1>0, <1>2
    <2>2. filled \in [1 .. n -> Modules \cup {Invalid}]
      BY <1>0, <1>1, <2>1
    <2> QED
      BY <1>0, <1>1, <2>2
  <1>4. ids' = SubSeq(filled, 1, n - 1)
    BY DEF ClearInvalidId
  <1> HIDE DEF filled
  <1>5. /\ ids' \in Seq(Modules \cup {Invalid}) /\ Len(ids') = n - 1
        /\ \A j \in 1 .. n - 1 : ids'[j] = filled[j]
    BY <1>1, <1>3, <1>4
  <1>6. DOMAIN ids' = 1 .. n - 1
    BY <1>5
  <1>7. \A j \in 1 .. n - 1 : ids'[j] = IF j = i THEN ids[n] ELSE ids[j]
    BY <1>1, <1>3, <1>5
  <1> DEFINE gone == IF ids[n] = Invalid THEN n ELSE i
  <1>8. InvalidIds' = InvalidIds \ {gone} /\ gone \in InvalidIds
    BY <1>0, <1>1, <1>6, <1>7 DEF InvalidIds
  <1>9. Cardinality(InvalidIds \ {gone}) = Cardinality(InvalidIds) - 1
    BY <1>0, <1>8, InvalidIdsAreFinite, FS_RemoveElement
  <1> QED
    BY <1>5, <1>7, <1>8, <1>9

(* An entry is dropped once, and was counted. *)
LEMMA DroppedEntries ==
    ASSUME ManagerInv, NEW u \in crew, DropIndex(u)
    PROVE  /\ ids' \in Seq(Modules \cup {Invalid}) /\ Len(ids') = Len(ids)
           /\ index[u] \in DOMAIN ids
           /\ \A j \in 1 .. Len(ids) : ids'[j] = IF j = index[u] THEN Invalid ELSE ids[j]
           /\ Cardinality(InvalidIds') = Cardinality(InvalidIds) + 1
           /\ Cardinality(InvalidIds) < Len(ids)
  <1>0. /\ ManagerTypeOK /\ u \in Workers /\ at[u] = "check"
        /\ Len(ids) \in Nat /\ DOMAIN ids = 1 .. Len(ids)
    BY DEF ManagerInv, ManagerTypeOK, DropIndex, Moves
  <1>1. index[u] \in DOMAIN ids /\ Valid(ids[index[u]])
    BY <1>0 DEF ManagerInv, ManagerTypeOK, InStage, TakenOnce, Proceeding, WithEntry, Valid, Modules, Invalid
  <1>2. ids' = [ids EXCEPT ![index[u]] = Invalid]
    BY DEF DropIndex
  <1>3. \A j \in 1 .. Len(ids) : ids[j] \in Modules \cup {Invalid}
    BY <1>0 DEF ManagerTypeOK
  <1>4. ids' \in [1 .. Len(ids) -> Modules \cup {Invalid}]
    BY <1>0, <1>1, <1>2, <1>3
  <1>5. ids' \in Seq(Modules \cup {Invalid}) /\ Len(ids') = Len(ids) /\ DOMAIN ids' = 1 .. Len(ids)
    BY <1>0, <1>4
  <1>6. \A j \in 1 .. Len(ids) : ids'[j] = IF j = index[u] THEN Invalid ELSE ids[j]
    BY <1>0, <1>1, <1>2
  <1>7. InvalidIds' = InvalidIds \cup {index[u]} /\ index[u] \notin InvalidIds
    BY <1>0, <1>1, <1>5, <1>6 DEF InvalidIds, Valid
  <1>8. Cardinality(InvalidIds \cup {index[u]}) = Cardinality(InvalidIds) + 1
    BY <1>0, <1>7, InvalidIdsAreFinite, FS_AddElement
  <1>9. Cardinality(InvalidIds') <= Len(ids)
    <2>1. InvalidIds' \subseteq 1 .. Len(ids)
      BY <1>5 DEF InvalidIds
    <2>2. IsFiniteSet(1 .. Len(ids)) /\ Cardinality(1 .. Len(ids)) = Len(ids)
      BY <1>0, CountTo
    <2> QED
      BY <2>1, <2>2, FS_Subset
  <1>10. Cardinality(InvalidIds) \in Nat
    BY <1>0, InvalidIdsAreFinite
  <1> QED
    BY <1>0, <1>1, <1>5, <1>6, <1>7, <1>8, <1>9, <1>10

(* Each step of a thread keeps the types. *)
LEMMA ManagerTypeStep ==
    ASSUME ManagerInv, [ManagerNext]_managerVars PROVE ManagerTypeOK'
  <1>1. CASE PrephareHandleMessages
    BY <1>1, ManagerAssumption DEF ManagerInv, ManagerTypeOK, Modules, Invalid, InStage, FetchedOnce, TakenOnce, EndsRead, Handling, Proceeding, WithModule, WithEntry, States, Valid, PrephareHandleMessages, list
  <1>2. ASSUME NEW i \in DOMAIN ids, ClearInvalidId(i)
        PROVE ManagerTypeOK'
    BY <1>2, ManagerAssumption DEF ManagerInv, ManagerTypeOK, Modules, Invalid, InStage, FetchedOnce, TakenOnce, EndsRead, Handling, Proceeding, WithModule, WithEntry, States, Valid, ClearInvalidId
  <1>3. CASE PrephareProceeding
    BY <1>3, ManagerAssumption DEF ManagerInv, ManagerTypeOK, Modules, Invalid, InStage, FetchedOnce, TakenOnce, EndsRead, Handling, Proceeding, WithModule, WithEntry, States, Valid, PrephareProceeding, AllDone
  <1>4. CASE EndStage
    BY <1>4, ManagerAssumption DEF ManagerInv, ManagerTypeOK, Modules, Invalid, InStage, FetchedOnce, TakenOnce, EndsRead, Handling, Proceeding, WithModule, WithEntry, States, Valid, EndStage, list, AllDone
  <1>5. ASSUME NEW u \in crew, Fetch(u)
        PROVE ManagerTypeOK'
    <2>1. /\ (crew \subseteq Workers)'
         /\ (mstage \in {"none", "handle", "proceed"})'
         /\ (mstate \in [Modules -> States])'
         /\ (ids \in Seq(Modules \cup {Invalid}))'
         /\ (total \in Nat)'
         /\ (nextIndex \in Int)'
         /\ (index \in [Workers -> Nat])'
         /\ (abort \in BOOLEAN)'
      BY <1>5 DEF ManagerInv, ManagerTypeOK, Fetch, Moves, list
    <2>2. (nextId \in 0 .. Total)'
      <3>1. nextId \in 0 .. Total /\ Total \in Nat
        BY ManagerAssumption DEF ManagerInv, ManagerTypeOK
      <3>2. (nextId < Total /\ nextId' = nextId + 1) \/ nextId' = nextId
        BY <1>5 DEF Fetch
      <3> QED
        BY <3>1, <3>2
    <2>3. (at \in [Workers -> {"done", "fetch", "handle", "push", "write",
                              "next", "proceed", "check", "deactivate"}])'
      BY <1>5 DEF ManagerInv, ManagerTypeOK, Fetch, Moves, list
    <2>4. (cur \in [Workers -> Modules \cup {0}])'
      <3>1. cur \in [Workers -> Modules \cup {0}] /\ nextId \in 0 .. Total /\ Total \in Nat
        BY ManagerAssumption DEF ManagerInv, ManagerTypeOK
      <3>2. nextId < Total => nextId \in Modules
        BY <3>1 DEF Modules
      <3>3. (nextId < Total /\ cur' = [cur EXCEPT ![u] = nextId]) \/ cur' = cur
        BY <1>5 DEF Fetch
      <3> HIDE DEF Modules
      <3> QED
        BY <3>1, <3>2, <3>3
    <2> QED
      BY <2>1, <2>2, <2>3, <2>4 DEF ManagerTypeOK
  <1>6. ASSUME NEW u \in crew, HandleMessages(u)
        PROVE ManagerTypeOK'
    <2>1. /\ (crew \subseteq Workers)'
         /\ (mstage \in {"none", "handle", "proceed"})'
         /\ (nextId \in 0 .. Total)'
         /\ (ids \in Seq(Modules \cup {Invalid}))'
         /\ (total \in Nat)'
         /\ (nextIndex \in Int)'
         /\ (cur \in [Workers -> Modules \cup {0}])'
         /\ (index \in [Workers -> Nat])'
         /\ (abort \in BOOLEAN)'
      BY <1>6 DEF ManagerInv, ManagerTypeOK, HandleMessages, list, Outcomes, SwitchToActive, SwitchToIdle
    <2>2. (mstate \in [Modules -> States])'
      BY <1>6 DEF ManagerInv, ManagerTypeOK, HandleMessages, list, Outcomes, SwitchToActive, SwitchToIdle, States, InStage, FetchedOnce, WithModule
    <2>3. (at \in [Workers -> {"done", "fetch", "handle", "push", "write",
                              "next", "proceed", "check", "deactivate"}])'
      BY <1>6 DEF ManagerInv, ManagerTypeOK, HandleMessages, list, Outcomes, SwitchToActive, SwitchToIdle
    <2> QED
      BY <2>1, <2>2, <2>3 DEF ManagerTypeOK
  <1>7. ASSUME NEW u \in crew, ReadEnd(u)
        PROVE ManagerTypeOK'
    BY <1>7, ManagerAssumption DEF ManagerInv, ManagerTypeOK, Modules, Invalid, InStage, FetchedOnce, TakenOnce, EndsRead, Handling, Proceeding, WithModule, WithEntry, States, Valid, ReadEnd, Moves, list
  <1>8. ASSUME NEW u \in crew, Push(u)
        PROVE ManagerTypeOK'
    <2>1. /\ (crew \subseteq Workers)'
         /\ (mstage \in {"none", "handle", "proceed"})'
         /\ (nextId \in 0 .. Total)'
         /\ (nextIndex \in Int)'
         /\ (cur \in [Workers -> Modules \cup {0}])'
         /\ (index \in [Workers -> Nat])'
         /\ (abort \in BOOLEAN)'
      BY <1>8 DEF ManagerInv, ManagerTypeOK, Push, Moves, Memory
    <2>2. (mstate \in [Modules -> States])'
      BY <1>8 DEF ManagerInv, ManagerTypeOK, Push, Moves, States
    <2>3. (ids \in Seq(Modules \cup {Invalid}))'
      BY <1>8, PushedEntries
    <2>4. (total \in Nat)'
      BY <1>8 DEF ManagerInv, ManagerTypeOK, Push, Moves, Memory
    <2>5. (at \in [Workers -> {"done", "fetch", "handle", "push", "write",
                              "next", "proceed", "check", "deactivate"}])'
      BY <1>8 DEF ManagerInv, ManagerTypeOK, Push, Moves, Memory
    <2> QED
      BY <2>1, <2>2, <2>3, <2>4, <2>5 DEF ManagerTypeOK
  <1>9. ASSUME NEW u \in crew, GetNextId(u)
        PROVE ManagerTypeOK'
    <2>1. /\ (crew \subseteq Workers)'
         /\ (mstage \in {"none", "handle", "proceed"})'
         /\ (mstate \in [Modules -> States])'
         /\ (nextId \in 0 .. Total)'
         /\ (ids \in Seq(Modules \cup {Invalid}))'
         /\ (total \in Nat)'
         /\ (abort \in BOOLEAN)'
      BY <1>9 DEF ManagerInv, ManagerTypeOK, GetNextId, Moves
    <2>2. (nextIndex \in Int)'
      BY <1>9 DEF ManagerInv, ManagerTypeOK, GetNextId, Moves
    <2>3. (at \in [Workers -> {"done", "fetch", "handle", "push", "write",
                              "next", "proceed", "check", "deactivate"}])'
      BY <1>9 DEF ManagerInv, ManagerTypeOK, GetNextId, Moves
    <2>4. (cur \in [Workers -> Modules \cup {0}])'
      <3>1. CASE nextIndex < 1
        BY <1>9, <3>1 DEF ManagerInv, ManagerTypeOK, GetNextId, Moves
      <3>2. CASE nextIndex >= 1
        <4>1. mstage = "proceed" /\ u \in Workers
          BY <1>9 DEF ManagerInv, ManagerTypeOK, GetNextId, Moves, InStage, Proceeding
        <4>2. nextIndex \in 1 .. Len(ids) /\ nextIndex \in 1 .. nextIndex
          BY <3>2, <4>1 DEF ManagerInv, ManagerTypeOK, TakenOnce
        <4>3. ids[nextIndex] \in Modules
          BY <4>1, <4>2 DEF ManagerInv, ManagerTypeOK, TakenOnce, Valid
        <4>4. cur' = [cur EXCEPT ![u] = ids[nextIndex]]
          BY <1>9, <3>2 DEF ManagerInv, ManagerTypeOK, GetNextId
        <4> QED
          BY <4>1, <4>3, <4>4 DEF ManagerInv, ManagerTypeOK
      <3> QED
        BY <3>1, <3>2 DEF ManagerInv, ManagerTypeOK
    <2>5. (index \in [Workers -> Nat])'
      BY <1>9 DEF ManagerInv, ManagerTypeOK, GetNextId, Moves
    <2> QED
      BY <2>1, <2>2, <2>3, <2>4, <2>5 DEF ManagerTypeOK
  <1>10. ASSUME NEW u \in crew, Proceed(u)
        PROVE ManagerTypeOK'
    <2>1. /\ (crew \subseteq Workers)'
         /\ (mstage \in {"none", "handle", "proceed"})'
         /\ (nextId \in 0 .. Total)'
         /\ (ids \in Seq(Modules \cup {Invalid}))'
         /\ (total \in Nat)'
         /\ (nextIndex \in Int)'
         /\ (cur \in [Workers -> Modules \cup {0}])'
         /\ (index \in [Workers -> Nat])'
         /\ (abort \in BOOLEAN)'
      BY <1>10 DEF ManagerInv, ManagerTypeOK, Proceed, Moves, list, SwitchToIdle
    <2>2. (mstate \in [Modules -> States])'
      BY <1>10 DEF ManagerInv, ManagerTypeOK, Proceed, Moves, list, SwitchToIdle, States, InStage, TakenOnce, WithEntry, Proceeding
    <2>3. (at \in [Workers -> {"done", "fetch", "handle", "push", "write",
                              "next", "proceed", "check", "deactivate"}])'
      BY <1>10 DEF ManagerInv, ManagerTypeOK, Proceed, Moves, list, SwitchToIdle
    <2> QED
      BY <2>1, <2>2, <2>3 DEF ManagerTypeOK
  <1>11. ASSUME NEW u \in crew, DropIndex(u)
        PROVE ManagerTypeOK'
    <2>1. /\ (crew \subseteq Workers)'
         /\ (mstage \in {"none", "handle", "proceed"})'
         /\ (mstate \in [Modules -> States])'
         /\ (nextId \in 0 .. Total)'
         /\ (nextIndex \in Int)'
         /\ (cur \in [Workers -> Modules \cup {0}])'
         /\ (index \in [Workers -> Nat])'
         /\ (abort \in BOOLEAN)'
      BY <1>11 DEF ManagerInv, ManagerTypeOK, DropIndex, Moves
    <2>2. (ids \in Seq(Modules \cup {Invalid}))'
      BY <1>11, DroppedEntries
    <2>3. (total \in Nat)'
      <3>1. Cardinality(InvalidIds) < Len(ids)
        BY <1>11, DroppedEntries
      <3>2. Len(ids) <= total + Cardinality(InvalidIds) /\ total' = total - 1
        BY <1>11 DEF ManagerInv, TotalCounts, DropIndex
      <3>3. Len(ids) \in Nat /\ total \in Nat /\ Cardinality(InvalidIds) \in Nat
        BY InvalidIdsAreFinite DEF ManagerInv, ManagerTypeOK
      <3> QED
        BY <3>1, <3>2, <3>3
    <2>4. (at \in [Workers -> {"done", "fetch", "handle", "push", "write",
                              "next", "proceed", "check", "deactivate"}])'
      BY <1>11 DEF ManagerInv, ManagerTypeOK, DropIndex, Moves
    <2> QED
      BY <2>1, <2>2, <2>3, <2>4 DEF ManagerTypeOK
  <1>12. ASSUME NEW u \in crew, StaysBusy(u)
        PROVE ManagerTypeOK'
    BY <1>12, ManagerAssumption DEF ManagerInv, ManagerTypeOK, Modules, Invalid, InStage, FetchedOnce, TakenOnce, EndsRead, Handling, Proceeding, WithModule, WithEntry, States, Valid, StaysBusy, Moves, list
  <1>13. ASSUME NEW u \in crew, OnDeactivated(u)
        PROVE ManagerTypeOK'
    BY <1>13, ManagerAssumption DEF ManagerInv, ManagerTypeOK, Modules, Invalid, InStage, FetchedOnce, TakenOnce, EndsRead, Handling, Proceeding, WithModule, WithEntry, States, Valid, OnDeactivated, Moves, list
  <1>14. CASE Aborted
    BY <1>14, ManagerAssumption DEF ManagerInv, ManagerTypeOK, Modules, Invalid, InStage, FetchedOnce, TakenOnce, EndsRead, Handling, Proceeding, WithModule, WithEntry, States, Valid, Aborted, managerVars
  <1>15. CASE UNCHANGED managerVars
    BY <1>15, ManagerAssumption DEF ManagerInv, ManagerTypeOK, Modules, Invalid, InStage, FetchedOnce, TakenOnce, EndsRead, Handling, Proceeding, WithModule, WithEntry, States, Valid, managerVars
  <1> QED
    BY <1>1, <1>2, <1>3, <1>4, <1>5, <1>6, <1>7, <1>8, <1>9, <1>10, <1>11, <1>12, <1>13, <1>14, <1>15 DEF ManagerNext

(* Threads enter and leave the stages of the manager with it. *)
LEMMA InStageStep ==
    ASSUME ManagerInv, [ManagerNext]_managerVars PROVE InStage'
  <1>1. CASE PrephareHandleMessages
    BY <1>1, ManagerAssumption DEF ManagerInv, ManagerTypeOK, Modules, Invalid, InStage, Handling, Proceeding, PrephareHandleMessages, list
  <1>2. ASSUME NEW i \in DOMAIN ids, ClearInvalidId(i)
        PROVE InStage'
    BY <1>2, ManagerAssumption DEF ManagerInv, ManagerTypeOK, Modules, Invalid, InStage, Handling, Proceeding, ClearInvalidId
  <1>3. CASE PrephareProceeding
    BY <1>3, ManagerAssumption DEF ManagerInv, ManagerTypeOK, Modules, Invalid, InStage, Handling, Proceeding, PrephareProceeding, AllDone
  <1>4. CASE EndStage
    BY <1>4, ManagerAssumption DEF ManagerInv, ManagerTypeOK, Modules, Invalid, InStage, Handling, Proceeding, EndStage, list, AllDone
  <1>5. ASSUME NEW u \in crew, Fetch(u)
        PROVE InStage'
    BY <1>5, ManagerAssumption DEF ManagerInv, ManagerTypeOK, Modules, Invalid, InStage, Handling, Proceeding, Fetch, Moves, list
  <1>6. ASSUME NEW u \in crew, HandleMessages(u)
        PROVE InStage'
    BY <1>6, ManagerAssumption DEF ManagerInv, ManagerTypeOK, Modules, Invalid, InStage, Handling, Proceeding, HandleMessages, list, Outcomes, SwitchToActive, SwitchToIdle
  <1>7. ASSUME NEW u \in crew, ReadEnd(u)
        PROVE InStage'
    BY <1>7, ManagerAssumption DEF ManagerInv, ManagerTypeOK, Modules, Invalid, InStage, Handling, Proceeding, ReadEnd, Moves, list
  <1>8. ASSUME NEW u \in crew, Push(u)
        PROVE InStage'
    BY <1>8, ManagerAssumption DEF ManagerInv, ManagerTypeOK, Modules, Invalid, InStage, Handling, Proceeding, Push, Moves, Memory
  <1>9. ASSUME NEW u \in crew, GetNextId(u)
        PROVE InStage'
    BY <1>9, ManagerAssumption DEF ManagerInv, ManagerTypeOK, Modules, Invalid, InStage, Handling, Proceeding, GetNextId, Moves
  <1>10. ASSUME NEW u \in crew, Proceed(u)
        PROVE InStage'
    BY <1>10, ManagerAssumption DEF ManagerInv, ManagerTypeOK, Modules, Invalid, InStage, Handling, Proceeding, Proceed, Moves, list, SwitchToIdle
  <1>11. ASSUME NEW u \in crew, DropIndex(u)
        PROVE InStage'
    BY <1>11, ManagerAssumption DEF ManagerInv, ManagerTypeOK, Modules, Invalid, InStage, Handling, Proceeding, DropIndex, Moves
  <1>12. ASSUME NEW u \in crew, StaysBusy(u)
        PROVE InStage'
    BY <1>12, ManagerAssumption DEF ManagerInv, ManagerTypeOK, Modules, Invalid, InStage, Handling, Proceeding, StaysBusy, Moves, list
  <1>13. ASSUME NEW u \in crew, OnDeactivated(u)
        PROVE InStage'
    BY <1>13, ManagerAssumption DEF ManagerInv, ManagerTypeOK, Modules, Invalid, InStage, Handling, Proceeding, OnDeactivated, Moves, list
  <1>14. CASE Aborted
    BY <1>14, ManagerAssumption DEF ManagerInv, ManagerTypeOK, Modules, Invalid, InStage, Handling, Proceeding, Aborted, managerVars
  <1>15. CASE UNCHANGED managerVars
    BY <1>15, ManagerAssumption DEF ManagerInv, ManagerTypeOK, Modules, Invalid, InStage, Handling, Proceeding, managerVars
  <1> QED
    BY <1>1, <1>2, <1>3, <1>4, <1>5, <1>6, <1>7, <1>8, <1>9, <1>10, <1>11, <1>12, <1>13, <1>14, <1>15 DEF ManagerNext

(* The atomic counter gives a module to one thread (handleAllMessages). *)
LEMMA FetchedOnceStep ==
    ASSUME ManagerInv, [ManagerNext]_managerVars PROVE FetchedOnce'
  <1>1. CASE PrephareHandleMessages
    BY <1>1, ManagerAssumption DEF ManagerInv, ManagerTypeOK, Modules, Invalid, InStage, FetchedOnce, Handling, Proceeding, WithModule, PrephareHandleMessages, list
  <1>2. ASSUME NEW i \in DOMAIN ids, ClearInvalidId(i)
        PROVE FetchedOnce'
    BY <1>2, ManagerAssumption DEF ManagerInv, ManagerTypeOK, Modules, Invalid, InStage, FetchedOnce, Handling, Proceeding, WithModule, ClearInvalidId
  <1>3. CASE PrephareProceeding
    BY <1>3, ManagerAssumption DEF ManagerInv, ManagerTypeOK, Modules, Invalid, InStage, FetchedOnce, Handling, Proceeding, WithModule, PrephareProceeding, AllDone
  <1>4. CASE EndStage
    BY <1>4, ManagerAssumption DEF ManagerInv, ManagerTypeOK, Modules, Invalid, InStage, FetchedOnce, Handling, Proceeding, WithModule, EndStage, list, AllDone
  <1>5. ASSUME NEW u \in crew, Fetch(u)
        PROVE FetchedOnce'
    BY <1>5, ManagerAssumption DEF ManagerInv, ManagerTypeOK, Modules, Invalid, InStage, FetchedOnce, Handling, Proceeding, WithModule, Fetch, Moves, list
  <1>6. ASSUME NEW u \in crew, HandleMessages(u)
        PROVE FetchedOnce'
    BY <1>6, ManagerAssumption DEF ManagerInv, ManagerTypeOK, Modules, Invalid, InStage, FetchedOnce, Handling, Proceeding, WithModule, HandleMessages, list, Outcomes, SwitchToActive, SwitchToIdle
  <1>7. ASSUME NEW u \in crew, ReadEnd(u)
        PROVE FetchedOnce'
    BY <1>7, ManagerAssumption DEF ManagerInv, ManagerTypeOK, Modules, Invalid, InStage, FetchedOnce, Handling, Proceeding, WithModule, ReadEnd, Moves, list
  <1>8. ASSUME NEW u \in crew, Push(u)
        PROVE FetchedOnce'
    BY <1>8, ManagerAssumption DEF ManagerInv, ManagerTypeOK, Modules, Invalid, InStage, FetchedOnce, Handling, Proceeding, WithModule, Push, Moves, Memory
  <1>9. ASSUME NEW u \in crew, GetNextId(u)
        PROVE FetchedOnce'
    BY <1>9, ManagerAssumption DEF ManagerInv, ManagerTypeOK, Modules, Invalid, InStage, FetchedOnce, Handling, Proceeding, WithModule, GetNextId, Moves
  <1>10. ASSUME NEW u \in crew, Proceed(u)
        PROVE FetchedOnce'
    BY <1>10, ManagerAssumption DEF ManagerInv, ManagerTypeOK, Modules, Invalid, InStage, FetchedOnce, Handling, Proceeding, WithModule, Proceed, Moves, list, SwitchToIdle
  <1>11. ASSUME NEW u \in crew, DropIndex(u)
        PROVE FetchedOnce'
    BY <1>11, ManagerAssumption DEF ManagerInv, ManagerTypeOK, Modules, Invalid, InStage, FetchedOnce, Handling, Proceeding, WithModule, DropIndex, Moves
  <1>12. ASSUME NEW u \in crew, StaysBusy(u)
        PROVE FetchedOnce'
    BY <1>12, ManagerAssumption DEF ManagerInv, ManagerTypeOK, Modules, Invalid, InStage, FetchedOnce, Handling, Proceeding, WithModule, StaysBusy, Moves, list
  <1>13. ASSUME NEW u \in crew, OnDeactivated(u)
        PROVE FetchedOnce'
    BY <1>13, ManagerAssumption DEF ManagerInv, ManagerTypeOK, Modules, Invalid, InStage, FetchedOnce, Handling, Proceeding, WithModule, OnDeactivated, Moves, list
  <1>14. CASE Aborted
    BY <1>14, ManagerAssumption DEF ManagerInv, ManagerTypeOK, Modules, Invalid, InStage, FetchedOnce, Handling, Proceeding, WithModule, Aborted, managerVars
  <1>15. CASE UNCHANGED managerVars
    BY <1>15, ManagerAssumption DEF ManagerInv, ManagerTypeOK, Modules, Invalid, InStage, FetchedOnce, Handling, Proceeding, WithModule, managerVars
  <1> QED
    BY <1>1, <1>2, <1>3, <1>4, <1>5, <1>6, <1>7, <1>8, <1>9, <1>10, <1>11, <1>12, <1>13, <1>14, <1>15 DEF ManagerNext

(* An end that was read stays behind the entries that are dropped. *)
LEMMA EndsReadStep ==
    ASSUME ManagerInv, [ManagerNext]_managerVars PROVE EndsRead'
  <1>1. CASE PrephareHandleMessages
    BY <1>1, ManagerAssumption DEF ManagerInv, ManagerTypeOK, Modules, Invalid, InStage, EndsRead, TotalCounts, Handling, Proceeding, InvalidIds, PrephareHandleMessages, list
  <1>2. ASSUME NEW i \in DOMAIN ids, ClearInvalidId(i)
        PROVE EndsRead'
    <2>1. \A t \in Workers : at[t] # "write"
      BY <1>2 DEF ManagerInv, InStage, ClearInvalidId, AllDone, Handling
    <2> QED
      BY <1>2, <2>1 DEF EndsRead, ClearInvalidId
  <1>3. CASE PrephareProceeding
    BY <1>3, ManagerAssumption DEF ManagerInv, ManagerTypeOK, Modules, Invalid, InStage, EndsRead, TotalCounts, Handling, Proceeding, InvalidIds, PrephareProceeding, AllDone
  <1>4. CASE EndStage
    BY <1>4, ManagerAssumption DEF ManagerInv, ManagerTypeOK, Modules, Invalid, InStage, EndsRead, TotalCounts, Handling, Proceeding, InvalidIds, EndStage, list, AllDone
  <1>5. ASSUME NEW u \in crew, Fetch(u)
        PROVE EndsRead'
    BY <1>5, ManagerAssumption DEF ManagerInv, ManagerTypeOK, Modules, Invalid, InStage, EndsRead, TotalCounts, Handling, Proceeding, InvalidIds, Fetch, Moves, list
  <1>6. ASSUME NEW u \in crew, HandleMessages(u)
        PROVE EndsRead'
    BY <1>6, ManagerAssumption DEF ManagerInv, ManagerTypeOK, Modules, Invalid, InStage, EndsRead, TotalCounts, Handling, Proceeding, InvalidIds, HandleMessages, list, Outcomes, SwitchToActive, SwitchToIdle
  <1>7. ASSUME NEW u \in crew, ReadEnd(u)
        PROVE EndsRead'
    BY <1>7, ManagerAssumption DEF ManagerInv, ManagerTypeOK, Modules, Invalid, InStage, EndsRead, TotalCounts, Handling, Proceeding, InvalidIds, ReadEnd, Moves, list
  <1>8. ASSUME NEW u \in crew, Push(u)
        PROVE EndsRead'
    <2>1. ManagerTypeOK /\ u \in Workers
      BY DEF ManagerInv, ManagerTypeOK
    <2>2. InvalidIds' = InvalidIds
      BY <1>8, PushedEntries
    <2>3. total' = total + 1 /\ index' = index /\ crew' = crew /\ at' = [at EXCEPT ![u] = "fetch"]
      BY <1>8 DEF Push, Moves
    <2>4. total \in Nat /\ Cardinality(InvalidIds) \in Nat /\ index \in [Workers -> Nat]
      BY <2>1, InvalidIdsAreFinite DEF ManagerTypeOK
    <2>5. ASSUME NEW t \in Workers, at'[t] = "write" PROVE t # u /\ at[t] = "write"
      BY <2>1, <2>3, <2>5 DEF ManagerTypeOK
    <2>6. ASSUME NEW t \in Workers, at[t] = "write", t # u
          PROVE  /\ index[t] > 0 /\ index[t] - 1 <= total + 1 + Cardinality(InvalidIds)
                 /\ \A i \in InvalidIds : i < index[t]
                 /\ crew # {t}
      BY <2>4, <2>6 DEF ManagerInv, EndsRead
    <2> QED
      BY <2>2, <2>3, <2>5, <2>6 DEF EndsRead
  <1>9. ASSUME NEW u \in crew, GetNextId(u)
        PROVE EndsRead'
    BY <1>9, ManagerAssumption DEF ManagerInv, ManagerTypeOK, Modules, Invalid, InStage, EndsRead, TotalCounts, Handling, Proceeding, InvalidIds, GetNextId, Moves
  <1>10. ASSUME NEW u \in crew, Proceed(u)
        PROVE EndsRead'
    BY <1>10, ManagerAssumption DEF ManagerInv, ManagerTypeOK, Modules, Invalid, InStage, EndsRead, TotalCounts, Handling, Proceeding, InvalidIds, Proceed, Moves, list, SwitchToIdle
  <1>11. ASSUME NEW u \in crew, DropIndex(u)
        PROVE EndsRead'
    BY <1>11, ManagerAssumption DEF ManagerInv, ManagerTypeOK, Modules, Invalid, InStage, EndsRead, TotalCounts, Handling, Proceeding, InvalidIds, DropIndex, Moves
  <1>12. ASSUME NEW u \in crew, StaysBusy(u)
        PROVE EndsRead'
    BY <1>12, ManagerAssumption DEF ManagerInv, ManagerTypeOK, Modules, Invalid, InStage, EndsRead, TotalCounts, Handling, Proceeding, InvalidIds, StaysBusy, Moves, list
  <1>13. ASSUME NEW u \in crew, OnDeactivated(u)
        PROVE EndsRead'
    BY <1>13, ManagerAssumption DEF ManagerInv, ManagerTypeOK, Modules, Invalid, InStage, EndsRead, TotalCounts, Handling, Proceeding, InvalidIds, OnDeactivated, Moves, list
  <1>14. CASE Aborted
    BY <1>14, ManagerAssumption DEF ManagerInv, ManagerTypeOK, Modules, Invalid, InStage, EndsRead, TotalCounts, Handling, Proceeding, InvalidIds, Aborted, managerVars
  <1>15. CASE UNCHANGED managerVars
    BY <1>15, ManagerAssumption DEF ManagerInv, ManagerTypeOK, Modules, Invalid, InStage, EndsRead, TotalCounts, Handling, Proceeding, InvalidIds, managerVars
  <1> QED
    BY <1>1, <1>2, <1>3, <1>4, <1>5, <1>6, <1>7, <1>8, <1>9, <1>10, <1>11, <1>12, <1>13, <1>14, <1>15 DEF ManagerNext

(* The atomic counter gives an entry to one thread (proceedBusyModules). *)
LEMMA TakenOnceStep ==
    ASSUME ManagerInv, [ManagerNext]_managerVars PROVE TakenOnce'
  <1>1. CASE PrephareHandleMessages
    BY <1>1, ManagerAssumption DEF ManagerInv, ManagerTypeOK, Modules, Invalid, InStage, TakenOnce, Handling, Proceeding, WithEntry, Valid, PrephareHandleMessages, list
  <1>2. ASSUME NEW i \in DOMAIN ids, ClearInvalidId(i)
        PROVE TakenOnce'
    BY <1>2, ManagerAssumption DEF ManagerInv, ManagerTypeOK, Modules, Invalid, InStage, TakenOnce, Handling, Proceeding, WithEntry, Valid, ClearInvalidId
  <1>3. CASE PrephareProceeding
    <2>1. CASE total = 0
      BY <1>3, <2>1 DEF PrephareProceeding, TakenOnce
    <2>2. CASE total # 0
      <3>1. \A t \in Workers : at'[t] \in {"next", "done"}
        BY <1>3, <2>2 DEF PrephareProceeding
      <3>2. \A t \in Workers : at'[t] \notin WithEntry
        BY <3>1 DEF WithEntry
      <3>3. nextIndex' = Len(ids) /\ ids' = ids /\ (\A i \in DOMAIN ids : Valid(ids[i]))
        BY <1>3 DEF PrephareProceeding
      <3>4. DOMAIN ids = 1 .. Len(ids) /\ Len(ids) \in Nat
        BY DEF ManagerInv, ManagerTypeOK
      <3> QED
        BY <3>2, <3>3, <3>4 DEF TakenOnce
    <2> QED
      BY <2>1, <2>2
  <1>4. CASE EndStage
    BY <1>4, ManagerAssumption DEF ManagerInv, ManagerTypeOK, Modules, Invalid, InStage, TakenOnce, Handling, Proceeding, WithEntry, Valid, EndStage, list, AllDone
  <1>5. ASSUME NEW u \in crew, Fetch(u)
        PROVE TakenOnce'
    BY <1>5, ManagerAssumption DEF ManagerInv, ManagerTypeOK, Modules, Invalid, InStage, TakenOnce, Handling, Proceeding, WithEntry, Valid, Fetch, Moves, list
  <1>6. ASSUME NEW u \in crew, HandleMessages(u)
        PROVE TakenOnce'
    BY <1>6, ManagerAssumption DEF ManagerInv, ManagerTypeOK, Modules, Invalid, InStage, TakenOnce, Handling, Proceeding, WithEntry, Valid, HandleMessages, list, Outcomes, SwitchToActive, SwitchToIdle
  <1>7. ASSUME NEW u \in crew, ReadEnd(u)
        PROVE TakenOnce'
    BY <1>7, ManagerAssumption DEF ManagerInv, ManagerTypeOK, Modules, Invalid, InStage, TakenOnce, Handling, Proceeding, WithEntry, Valid, ReadEnd, Moves, list
  <1>8. ASSUME NEW u \in crew, Push(u)
        PROVE TakenOnce'
    BY <1>8, ManagerAssumption DEF ManagerInv, ManagerTypeOK, Modules, Invalid, InStage, TakenOnce, Handling, Proceeding, WithEntry, Valid, Push, Moves, Memory
  <1>9. ASSUME NEW u \in crew, GetNextId(u)
        PROVE TakenOnce'
    <2>1. mstage = "proceed" /\ u \in Workers /\ at[u] = "next" /\ mstage' = mstage /\ ids' = ids
      BY <1>9 DEF ManagerInv, ManagerTypeOK, GetNextId, Moves, InStage, Proceeding
    <2>2. /\ nextIndex \in Int /\ nextIndex' = nextIndex - 1 /\ nextIndex <= Len(ids) /\ Len(ids) \in Nat
          /\ DOMAIN ids = 1 .. Len(ids) /\ index \in [Workers -> Nat] /\ cur \in [Workers -> Modules \cup {0}]
      BY <1>9, <2>1 DEF ManagerInv, ManagerTypeOK, GetNextId, TakenOnce
    <2>3. \A i \in 1 .. nextIndex : Valid(ids[i])
      BY <2>1 DEF ManagerInv, TakenOnce
    <2>4. \A i \in 1 .. nextIndex - 1 : Valid(ids[i])
      BY <2>2, <2>3
    <2>5. ASSUME NEW t \in Workers, at[t] \in WithEntry
          PROVE  /\ index[t] \in DOMAIN ids /\ index[t] > nextIndex /\ cur[t] \in Modules
                 /\ at[t] # "deactivate" => ids[index[t]] = cur[t]
                 /\ \A other \in Workers : t # other /\ at[other] \in WithEntry => index[t] # index[other]
                 /\ t # u
      BY <2>1, <2>5 DEF ManagerInv, TakenOnce, WithEntry
    <2>6. CASE nextIndex < 1
      <3>1. index' = index /\ cur' = cur /\ at' = [at EXCEPT ![u] = "done"]
        BY <1>9, <2>2, <2>6 DEF GetNextId, Moves
      <3>2. \A t \in Workers : at'[t] \in WithEntry => t # u /\ at[t] \in WithEntry /\ at'[t] = at[t]
        BY <2>1, <3>1 DEF ManagerInv, ManagerTypeOK, WithEntry
      <3> QED
        BY <2>1, <2>2, <2>4, <2>5, <3>1, <3>2 DEF TakenOnce
    <2>7. CASE nextIndex >= 1
      <3>1. /\ index' = [index EXCEPT ![u] = nextIndex] /\ cur' = [cur EXCEPT ![u] = ids[nextIndex]]
            /\ at' = [at EXCEPT ![u] = "proceed"]
        BY <1>9, <2>2, <2>7 DEF GetNextId, Moves
      <3>2. \A t \in Workers : at'[t] \in WithEntry => (t = u /\ at'[t] = "proceed") \/ (t # u /\ at[t] \in WithEntry /\ at'[t] = at[t])
        BY <2>1, <3>1 DEF ManagerInv, ManagerTypeOK, WithEntry
      <3>3. nextIndex \in DOMAIN ids /\ ids[nextIndex] \in Modules
        BY <2>2, <2>3, <2>7 DEF ManagerInv, ManagerTypeOK, Valid
      <3>4. /\ index'[u] = nextIndex /\ cur'[u] = ids[nextIndex]
            /\ \A t \in Workers : t # u => index'[t] = index[t] /\ cur'[t] = cur[t]
        BY <2>1, <2>2, <3>1
      <3>5. ASSUME NEW t \in Workers, at'[t] \in WithEntry
            PROVE  /\ index'[t] \in DOMAIN ids /\ index'[t] > nextIndex - 1 /\ cur'[t] \in Modules
                   /\ at'[t] # "deactivate" => ids[index'[t]] = cur'[t]
        BY <2>2, <2>5, <3>2, <3>3, <3>4, <3>5
      <3>6. ASSUME NEW t \in Workers, at'[t] \in WithEntry, NEW other \in Workers, t # other, at'[other] \in WithEntry
            PROVE  index'[t] # index'[other]
        BY <2>2, <2>5, <3>2, <3>4, <3>6
      <3> QED
        BY <2>1, <2>2, <2>4, <3>5, <3>6 DEF TakenOnce
    <2> QED
      BY <2>2, <2>6, <2>7
  <1>10. ASSUME NEW u \in crew, Proceed(u)
        PROVE TakenOnce'
    BY <1>10, ManagerAssumption DEF ManagerInv, ManagerTypeOK, Modules, Invalid, InStage, TakenOnce, Handling, Proceeding, WithEntry, Valid, Proceed, Moves, list, SwitchToIdle
  <1>11. ASSUME NEW u \in crew, DropIndex(u)
        PROVE TakenOnce'
    BY <1>11, ManagerAssumption DEF ManagerInv, ManagerTypeOK, Modules, Invalid, InStage, TakenOnce, Handling, Proceeding, WithEntry, Valid, DropIndex, Moves
  <1>12. ASSUME NEW u \in crew, StaysBusy(u)
        PROVE TakenOnce'
    BY <1>12, ManagerAssumption DEF ManagerInv, ManagerTypeOK, Modules, Invalid, InStage, TakenOnce, Handling, Proceeding, WithEntry, Valid, StaysBusy, Moves, list
  <1>13. ASSUME NEW u \in crew, OnDeactivated(u)
        PROVE TakenOnce'
    BY <1>13, ManagerAssumption DEF ManagerInv, ManagerTypeOK, Modules, Invalid, InStage, TakenOnce, Handling, Proceeding, WithEntry, Valid, OnDeactivated, Moves, list
  <1>14. CASE Aborted
    BY <1>14, ManagerAssumption DEF ManagerInv, ManagerTypeOK, Modules, Invalid, InStage, TakenOnce, Handling, Proceeding, WithEntry, Valid, Aborted, managerVars
  <1>15. CASE UNCHANGED managerVars
    BY <1>15, ManagerAssumption DEF ManagerInv, ManagerTypeOK, Modules, Invalid, InStage, TakenOnce, Handling, Proceeding, WithEntry, Valid, managerVars
  <1> QED
    BY <1>1, <1>2, <1>3, <1>4, <1>5, <1>6, <1>7, <1>8, <1>9, <1>10, <1>11, <1>12, <1>13, <1>14, <1>15 DEF ManagerNext

(* A step that leaves the entries and the counter alone *)
LEMMA CountsSame ==
    ASSUME ManagerInv, ids' = ids, total' = total, crew' = crew
    PROVE  TotalCounts'
  <1>1. TotalCounts /\ InvalidIds' = InvalidIds
    BY DEF ManagerInv, InvalidIds
  <1> QED
    BY <1>1 DEF TotalCounts

(* Entries and the counter of them change together, but for pushes that overlap. *)
LEMMA CountsStep ==
    ASSUME ManagerInv, [ManagerNext]_managerVars PROVE TotalCounts'
  <1>1. CASE PrephareHandleMessages
    <2>1. ids' = ids /\ total' = total /\ crew' = crew
      BY <1>1 DEF PrephareHandleMessages, list
    <2> QED
      BY <2>1, CountsSame
  <1>2. ASSUME NEW i \in DOMAIN ids, ClearInvalidId(i)
        PROVE TotalCounts'
    <2>1. Len(ids') = Len(ids) - 1 /\ Cardinality(InvalidIds') = Cardinality(InvalidIds) - 1
      BY <1>2, ClearedEntries
    <2>2. total' = total /\ crew' = crew
      BY <1>2 DEF ClearInvalidId
    <2>3. Len(ids) \in Nat /\ total \in Nat /\ Cardinality(InvalidIds) \in Nat
      BY InvalidIdsAreFinite DEF ManagerInv, ManagerTypeOK
    <2> QED
      BY <2>1, <2>2, <2>3 DEF ManagerInv, TotalCounts
  <1>3. CASE PrephareProceeding
    <2>1. ids' = ids /\ total' = total /\ crew' = crew
      BY <1>3 DEF PrephareProceeding
    <2> QED
      BY <2>1, CountsSame
  <1>4. CASE EndStage
    <2>1. ids' = ids /\ total' = total /\ crew' = crew
      BY <1>4 DEF EndStage, list
    <2> QED
      BY <2>1, CountsSame
  <1>5. ASSUME NEW u \in crew, Fetch(u)
        PROVE TotalCounts'
    <2>1. ids' = ids /\ total' = total /\ crew' = crew
      BY <1>5 DEF Fetch, list
    <2> QED
      BY <2>1, CountsSame
  <1>6. ASSUME NEW u \in crew, HandleMessages(u)
        PROVE TotalCounts'
    <2>1. ids' = ids /\ total' = total /\ crew' = crew
      BY <1>6 DEF HandleMessages, list
    <2> QED
      BY <2>1, CountsSame
  <1>7. ASSUME NEW u \in crew, ReadEnd(u)
        PROVE TotalCounts'
    <2>1. ids' = ids /\ total' = total /\ crew' = crew
      BY <1>7 DEF ReadEnd, list
    <2> QED
      BY <2>1, CountsSame
  <1>8. ASSUME NEW u \in crew, Push(u)
        PROVE TotalCounts'
    <2>1. Len(ids') = index[u] /\ InvalidIds' = InvalidIds
      BY <1>8, PushedEntries
    <2>2. total' = total + 1 /\ crew' = crew /\ at[u] = "write" /\ u \in Workers
      BY <1>8 DEF Push, Moves, ManagerInv, ManagerTypeOK
    <2>3. Len(ids) \in Nat /\ total \in Nat /\ Cardinality(InvalidIds) \in Nat /\ index[u] \in Nat
      BY <2>2, InvalidIdsAreFinite DEF ManagerInv, ManagerTypeOK
    <2>4. index[u] - 1 <= total + Cardinality(InvalidIds) /\ (crew = {u} => index[u] = Len(ids) + 1)
      BY <2>2 DEF ManagerInv, EndsRead
    <2>5. ASSUME NEW t \in Workers, crew = {t} PROVE t = u
      BY <2>5
    <2> QED
      BY <2>1, <2>2, <2>3, <2>4, <2>5 DEF ManagerInv, TotalCounts
  <1>9. ASSUME NEW u \in crew, GetNextId(u)
        PROVE TotalCounts'
    <2>1. ids' = ids /\ total' = total /\ crew' = crew
      BY <1>9 DEF GetNextId
    <2> QED
      BY <2>1, CountsSame
  <1>10. ASSUME NEW u \in crew, Proceed(u)
        PROVE TotalCounts'
    <2>1. ids' = ids /\ total' = total /\ crew' = crew
      BY <1>10 DEF Proceed, list
    <2> QED
      BY <2>1, CountsSame
  <1>11. ASSUME NEW u \in crew, DropIndex(u)
        PROVE TotalCounts'
    <2>1. Len(ids') = Len(ids) /\ Cardinality(InvalidIds') = Cardinality(InvalidIds) + 1
      BY <1>11, DroppedEntries
    <2>2. total' = total - 1 /\ crew' = crew
      BY <1>11 DEF DropIndex
    <2>3. Len(ids) \in Nat /\ total \in Nat /\ Cardinality(InvalidIds) \in Nat
      BY InvalidIdsAreFinite DEF ManagerInv, ManagerTypeOK
    <2> QED
      BY <2>1, <2>2, <2>3 DEF ManagerInv, TotalCounts
  <1>12. ASSUME NEW u \in crew, StaysBusy(u)
        PROVE TotalCounts'
    <2>1. ids' = ids /\ total' = total /\ crew' = crew
      BY <1>12 DEF StaysBusy, list
    <2> QED
      BY <2>1, CountsSame
  <1>13. ASSUME NEW u \in crew, OnDeactivated(u)
        PROVE TotalCounts'
    <2>1. ids' = ids /\ total' = total /\ crew' = crew
      BY <1>13 DEF OnDeactivated, list
    <2> QED
      BY <2>1, CountsSame
  <1>14. CASE Aborted
    <2>1. ids' = ids /\ total' = total /\ crew' = crew
      BY <1>14 DEF Aborted, managerVars
    <2> QED
      BY <2>1, CountsSame
  <1>15. CASE UNCHANGED managerVars
    <2>1. ids' = ids /\ total' = total /\ crew' = crew
      BY <1>15 DEF managerVars
    <2> QED
      BY <2>1, CountsSame
  <1> QED
    BY <1>1, <1>2, <1>3, <1>4, <1>5, <1>6, <1>7, <1>8, <1>9, <1>10, <1>11, <1>12, <1>13, <1>14, <1>15 DEF ManagerNext

(* A single thread lists each module that becomes busy, and drops it only when it is idle. *)
LEMMA BusyListedStep ==
    ASSUME ManagerInv, [ManagerNext]_managerVars PROVE BusyListed'
  <1>1. CASE PrephareHandleMessages
    BY <1>1, ManagerAssumption DEF ManagerInv, ManagerTypeOK, Modules, Invalid, InStage, EndsRead, TakenOnce, BusyListed, Listed, Handling, Proceeding, WithEntry, Valid, PrephareHandleMessages, list
  <1>2. ASSUME NEW i \in DOMAIN ids, ClearInvalidId(i)
        PROVE BusyListed'
    <2> SUFFICES ASSUME NEW t \in Workers, crew = {t}, NEW m \in Modules, mstate[m] = "active"
                PROVE  Listed(m)'
      BY <1>2 DEF BusyListed, ClearInvalidId
    <2>1. PICK k \in DOMAIN ids : ids[k] = m
      BY DEF ManagerInv, BusyListed, Listed
    <2>2. /\ Len(ids) \in Nat /\ DOMAIN ids = 1 .. Len(ids) /\ m # Invalid /\ ids[i] = Invalid
          /\ Len(ids') = Len(ids) - 1 /\ DOMAIN ids' = 1 .. Len(ids) - 1
          /\ \A j \in 1 .. Len(ids) - 1 : ids'[j] = IF j = i THEN ids[Len(ids)] ELSE ids[j]
      <3>1. /\ ids' \in Seq(Modules \cup {Invalid}) /\ Len(ids') = Len(ids) - 1
            /\ \A j \in 1 .. Len(ids) - 1 : ids'[j] = IF j = i THEN ids[Len(ids)] ELSE ids[j]
        BY <1>2, ClearedEntries
      <3>2. Len(ids) \in Nat /\ DOMAIN ids = 1 .. Len(ids) /\ ids[i] = Invalid
        BY <1>2 DEF ManagerInv, ManagerTypeOK, ClearInvalidId
      <3>3. m # Invalid
        BY ManagerAssumption DEF Modules, Invalid
      <3> QED
        BY <3>1, <3>2, <3>3
    <2>3. CASE k = Len(ids)
      <3>1. i \in 1 .. Len(ids) - 1
        BY <2>1, <2>2, <2>3
      <3> QED
        BY <2>1, <2>2, <2>3, <3>1 DEF Listed
    <2>4. CASE k # Len(ids)
      BY <2>1, <2>2, <2>4 DEF Listed
    <2> QED
      BY <2>3, <2>4
  <1>3. CASE PrephareProceeding
    BY <1>3, ManagerAssumption DEF ManagerInv, ManagerTypeOK, Modules, Invalid, InStage, EndsRead, TakenOnce, BusyListed, Listed, Handling, Proceeding, WithEntry, Valid, PrephareProceeding, AllDone
  <1>4. CASE EndStage
    BY <1>4, ManagerAssumption DEF ManagerInv, ManagerTypeOK, Modules, Invalid, InStage, EndsRead, TakenOnce, BusyListed, Listed, Handling, Proceeding, WithEntry, Valid, EndStage, list, AllDone
  <1>5. ASSUME NEW u \in crew, Fetch(u)
        PROVE BusyListed'
    BY <1>5, ManagerAssumption DEF ManagerInv, ManagerTypeOK, Modules, Invalid, InStage, EndsRead, TakenOnce, BusyListed, Listed, Handling, Proceeding, WithEntry, Valid, Fetch, Moves, list
  <1>6. ASSUME NEW u \in crew, HandleMessages(u)
        PROVE BusyListed'
    BY <1>6, ManagerAssumption DEF ManagerInv, ManagerTypeOK, Modules, Invalid, InStage, EndsRead, TakenOnce, BusyListed, Listed, Handling, Proceeding, WithEntry, Valid, HandleMessages, list, Outcomes, SwitchToActive, SwitchToIdle
  <1>7. ASSUME NEW u \in crew, ReadEnd(u)
        PROVE BusyListed'
    BY <1>7, ManagerAssumption DEF ManagerInv, ManagerTypeOK, Modules, Invalid, InStage, EndsRead, TakenOnce, BusyListed, Listed, Handling, Proceeding, WithEntry, Valid, ReadEnd, Moves, list
  <1>8. ASSUME NEW u \in crew, Push(u)
        PROVE BusyListed'
    <2> SUFFICES ASSUME NEW t \in Workers, crew = {t}, NEW m \in Modules, mstate'[m] = "active"
                PROVE  Listed(m)'
      BY <1>8 DEF BusyListed, Push
    <2>1. /\ Len(ids') = index[u] /\ DOMAIN ids' = 1 .. index[u] /\ ids'[index[u]] = cur[u]
          /\ \A i \in 1 .. index[u] - 1 : i <= Len(ids) => ids'[i] = ids[i]
      BY <1>8, PushedEntries
    <2>2. u = t /\ at[u] = "write"
      BY <1>8 DEF Push, Moves
    <2>3. index[u] = Len(ids) + 1 /\ Len(ids) \in Nat /\ DOMAIN ids = 1 .. Len(ids)
      BY <2>2 DEF ManagerInv, ManagerTypeOK, EndsRead
    <2>4. CASE m = cur[u]
      BY <2>1, <2>3, <2>4 DEF Listed
    <2>5. CASE m # cur[u]
      <3>1. mstate[m] = "active"
        BY <1>8, <2>5 DEF Push, ManagerInv, ManagerTypeOK
      <3>2. PICK k \in DOMAIN ids : ids[k] = m
        BY <3>1 DEF ManagerInv, BusyListed, Listed
      <3> QED
        BY <2>1, <2>3, <3>2 DEF Listed
    <2> QED
      BY <2>4, <2>5
  <1>9. ASSUME NEW u \in crew, GetNextId(u)
        PROVE BusyListed'
    BY <1>9, ManagerAssumption DEF ManagerInv, ManagerTypeOK, Modules, Invalid, InStage, EndsRead, TakenOnce, BusyListed, Listed, Handling, Proceeding, WithEntry, Valid, GetNextId, Moves
  <1>10. ASSUME NEW u \in crew, Proceed(u)
        PROVE BusyListed'
    BY <1>10, ManagerAssumption DEF ManagerInv, ManagerTypeOK, Modules, Invalid, InStage, EndsRead, TakenOnce, BusyListed, Listed, Handling, Proceeding, WithEntry, Valid, Proceed, Moves, list, SwitchToIdle
  <1>11. ASSUME NEW u \in crew, DropIndex(u)
        PROVE BusyListed'
    <2> SUFFICES ASSUME NEW t \in Workers, crew = {t}, NEW m \in Modules, mstate[m] = "active"
                PROVE  Listed(m)'
      BY <1>11 DEF BusyListed, DropIndex
    <2>1. PICK k \in DOMAIN ids : ids[k] = m
      BY DEF ManagerInv, BusyListed, Listed
    <2>2. /\ DOMAIN ids = 1 .. Len(ids) /\ DOMAIN ids' = 1 .. Len(ids)
          /\ \A j \in 1 .. Len(ids) : ids'[j] = IF j = index[u] THEN Invalid ELSE ids[j]
      BY <1>11, DroppedEntries DEF ManagerInv, ManagerTypeOK
    <2>3. ids[index[u]] = cur[u] /\ mstate[cur[u]] = "deactivating"
      BY <1>11 DEF DropIndex, Moves, ManagerInv, ManagerTypeOK, InStage, TakenOnce, Proceeding, WithEntry
    <2>4. k # index[u]
      BY <2>1, <2>3
    <2> QED
      BY <2>1, <2>2, <2>4 DEF Listed
  <1>12. ASSUME NEW u \in crew, StaysBusy(u)
        PROVE BusyListed'
    BY <1>12, ManagerAssumption DEF ManagerInv, ManagerTypeOK, Modules, Invalid, InStage, EndsRead, TakenOnce, BusyListed, Listed, Handling, Proceeding, WithEntry, Valid, StaysBusy, Moves, list
  <1>13. ASSUME NEW u \in crew, OnDeactivated(u)
        PROVE BusyListed'
    BY <1>13, ManagerAssumption DEF ManagerInv, ManagerTypeOK, Modules, Invalid, InStage, EndsRead, TakenOnce, BusyListed, Listed, Handling, Proceeding, WithEntry, Valid, OnDeactivated, Moves, list
  <1>14. CASE Aborted
    BY <1>14, ManagerAssumption DEF ManagerInv, ManagerTypeOK, Modules, Invalid, InStage, EndsRead, TakenOnce, BusyListed, Listed, Handling, Proceeding, WithEntry, Valid, Aborted, managerVars
  <1>15. CASE UNCHANGED managerVars
    BY <1>15, ManagerAssumption DEF ManagerInv, ManagerTypeOK, Modules, Invalid, InStage, EndsRead, TakenOnce, BusyListed, Listed, Handling, Proceeding, WithEntry, Valid, managerVars
  <1> QED
    BY <1>1, <1>2, <1>3, <1>4, <1>5, <1>6, <1>7, <1>8, <1>9, <1>10, <1>11, <1>12, <1>13, <1>14, <1>15 DEF ManagerNext

(* The invariant holds of an empty list. *)
LEMMA NoEntriesAtFirst ==
    ASSUME ManagerInit PROVE ManagerInv
  <1>1. ManagerTypeOK
    <2>0. crew \subseteq Workers /\ abort \in BOOLEAN
      BY DEF ManagerInit
    <2>1. /\ mstage \in {"none", "handle", "proceed"}
          /\ mstate \in [Modules -> States] /\ total \in Nat /\ nextIndex \in Int
          /\ cur \in [Workers -> Modules \cup {0}] /\ index \in [Workers -> Nat]
      BY DEF ManagerInit, States
    <2>2. nextId \in 0 .. Total /\ ids \in Seq(Modules \cup {Invalid})
      BY ManagerAssumption DEF ManagerInit
    <2>3. at \in [Workers -> {"done", "fetch", "handle", "push", "write",
                             "next", "proceed", "check", "deactivate"}]
      BY DEF ManagerInit
    <2> QED
      BY <2>0, <2>1, <2>2, <2>3 DEF ManagerTypeOK
  <1>2. InvalidIds = {}
    BY DEF ManagerInit, InvalidIds
  <1>3. Cardinality(InvalidIds) = 0
    BY <1>2, FS_EmptySet
  <1>4. TotalCounts
    BY <1>3 DEF ManagerInit, TotalCounts
  <1>5. InStage /\ FetchedOnce /\ EndsRead /\ TakenOnce /\ BusyListed
    BY DEF ManagerInit, InStage, FetchedOnce, EndsRead, TakenOnce, BusyListed, Handling,
           Proceeding, WithModule
  <1> QED
    BY <1>1, <1>4, <1>5 DEF ManagerInv

(* The inductive invariant of a manager and its list of busy modules. *)
LEMMA ManagerInvariant == ManagerSpec => []ManagerInv
  <1>1. ASSUME ManagerInv, [ManagerNext]_managerVars PROVE ManagerInv'
    BY <1>1, ManagerTypeStep, InStageStep, FetchedOnceStep, EndsReadStep, TakenOnceStep,
       CountsStep, BusyListedStep DEF ManagerInv
  <1> QED
    BY <1>1, NoEntriesAtFirst, PTL DEF ManagerSpec

(* The invariant gives the property that the run checks. *)
LEMMA ListedAreExact ==
    ASSUME ManagerInv PROVE BusyListIsExact
  <1>1. ManagerTypeOK
    BY DEF ManagerInv
  <1>2. HandledByOneThread
    BY DEF ManagerInv, FetchedOnce, HandledByOneThread, WithModule
  <1>3. ASSUME OneThread PROVE \E t \in Workers : crew = {t}
    <2>1. IsFiniteSet(crew)
      BY <1>1, ManagerAssumption, FS_Subset DEF ManagerTypeOK
    <2>2. \E t : crew = {t}
      BY <1>3, <2>1, FS_Singleton DEF OneThread
    <2> QED
      BY <1>1, <2>2 DEF ManagerTypeOK
  <1>4. BusyIsListedByOneThread
    BY <1>3 DEF ManagerInv, BusyListed, BusyIsListedByOneThread
  <1>5. TotalIsExact
    <2> SUFFICES ASSUME OneThread PROVE total = Cardinality({i \in DOMAIN ids : Valid(ids[i])})
      BY DEF TotalIsExact
    <2> DEFINE valid == {i \in DOMAIN ids : Valid(ids[i])}
    <2>1. Len(ids) \in Nat /\ DOMAIN ids = 1 .. Len(ids) /\ total \in Nat
      BY <1>1 DEF ManagerTypeOK
    <2>2. Len(ids) = total + Cardinality(InvalidIds)
      BY <1>3 DEF ManagerInv, TotalCounts
    <2>3. valid = (1 .. Len(ids)) \ InvalidIds
      BY <2>1 DEF InvalidIds, Valid
    <2>4. InvalidIds = (1 .. Len(ids)) \cap InvalidIds
      BY <1>1, InvalidIdsAreFinite
    <2>5. Cardinality(valid) = Cardinality(1 .. Len(ids)) - Cardinality(InvalidIds)
      <3>1. IsFiniteSet(1 .. Len(ids)) /\ IsFiniteSet(InvalidIds)
        BY <1>1, <2>1, CountTo, InvalidIdsAreFinite
      <3>2. Cardinality((1 .. Len(ids)) \ InvalidIds)
              = Cardinality(1 .. Len(ids)) - Cardinality((1 .. Len(ids)) \cap InvalidIds)
        BY <3>1, FS_Difference, Zenon
      <3> QED
        BY <2>3, <2>4, <3>2
    <2> QED
      BY <1>1, <2>1, <2>2, <2>5, CountTo, InvalidIdsAreFinite
  <1> QED
    BY <1>1, <1>2, <1>4, <1>5 DEF BusyListIsExact

(* For any number of modules and of threads: no two threads handle the messages of
   one module, and where the server has one thread, a module that is active when a
   cycle ends is in the list of busy modules and m_nTotalIds counts the list
   (CommonModulesManager, IdArray). *)
THEOREM BusyListStaysExact == ManagerSpec => []BusyListIsExact
  BY ManagerInvariant, ListedAreExact, PTL

-----------------------------------------------------------------------------
(* Clock *)

USE ClockAssumption

(* A new clock is exact. *)
LEMMA ClockStarts == ClockInit => ClockIsExact
  BY DEF ClockInit, ClockIsExact, ClockTypeOK, NeverAhead, Dt

(* What a real time tick gives out is never negative. *)
LEMMA RealTimeTickIsNat ==
    ASSUME ClockIsExact PROVE RealTimeTick \in Nat /\ Dt \in Nat
  BY DEF ClockIsExact, ClockTypeOK, NeverAhead, Dt, RealTimeTick

(* Both modes account for all the real time that has passed. *)
LEMMA GetNextIntervalStep ==
    ASSUME ClockIsExact, GetNextInterval PROVE ClockIsExact'
  <1>1. CASE NextRealTime
    <2>1. RealTimeTick \in Nat /\ Dt \in Nat
      BY RealTimeTickIsNat
    <2>2. ClockTypeOK'
      BY <1>1, <2>1 DEF NextRealTime, ClockIsExact, ClockTypeOK
    <2>3. Dt' = 0
      BY <1>1, <2>1 DEF NextRealTime, ClockIsExact, ClockTypeOK, Dt
    <2> QED BY <2>2, <2>3 DEF ClockIsExact, NeverAhead
  <1>2. CASE NextDebug
    <2>1. DebugTick \in Nat /\ Dt \in Nat
      BY RealTimeTickIsNat DEF ClockIsExact, ClockTypeOK, DebugTick
    <2>2. ClockTypeOK'
      BY <1>2, <2>1 DEF NextDebug, ClockIsExact, ClockTypeOK
    <2>3. Dt' = 0
      BY <1>2, <2>1 DEF NextDebug, ClockIsExact, ClockTypeOK, Dt
    <2> QED BY <2>2, <2>3 DEF ClockIsExact, NeverAhead
  <1>3. CASE NextTerminated
    BY <1>3 DEF NextTerminated, ClockIsExact, ClockTypeOK, NeverAhead, Dt
  <1> QED BY <1>1, <1>2, <1>3 DEF GetNextInterval

(* Requests of the administrator touch neither the in-game time nor the      *)
(* deviation.                                                                *)
LEMMA ControlStep ==
    ASSUME ClockIsExact,
           \/ SwitchToRealtimeMode \/ SwitchToDebugMode \/ Terminate
           \/ \E n \in TickLengths : SetDebugTickUs(n)
           \/ \E n \in TickCounts : ProceedRequest(n)
    PROVE  ClockIsExact'
  BY DEF SwitchToRealtimeMode, SwitchToDebugMode, Terminate, SwitchMode, SetDebugTickUs,
         ProceedRequest, ClockIsExact, ClockTypeOK, NeverAhead, Dt

(* The clock is never ahead of the real time and never gives a negative      *)
(* interval: the assertion of getNextInterval() holds in every build, mode   *)
(* and order of calls.                                                       *)
THEOREM ClockStaysExact == ClockSpec => []ClockIsExact
  <1>1. ClockInit => ClockIsExact
    BY ClockStarts
  <1>2. ClockIsExact /\ [ClockNext]_clockVars => ClockIsExact'
    <2> SUFFICES ASSUME ClockIsExact, [ClockNext]_clockVars PROVE ClockIsExact'
      OBVIOUS
    <2>1. CASE \E d \in Elapses : Elapse(d)
      BY <2>1 DEF Elapse, ClockIsExact, ClockTypeOK, NeverAhead, Dt
    <2>2. CASE GetNextInterval
      BY <2>2, GetNextIntervalStep
    <2>3. CASE \/ SwitchToRealtimeMode \/ SwitchToDebugMode \/ Terminate
               \/ \E n \in TickLengths : SetDebugTickUs(n)
               \/ \E n \in TickCounts : ProceedRequest(n)
      BY <2>3, ControlStep
    <2>4. CASE UNCHANGED clockVars
      BY <2>4 DEF clockVars, ClockIsExact, ClockTypeOK, NeverAhead, Dt
    <2> QED BY <2>1, <2>2, <2>3, <2>4 DEF ClockNext
  <1> QED BY <1>1, <1>2, PTL DEF ClockSpec

-----------------------------------------------------------------------------
(* Harness: the server as its functional tests run it *)

HarnessTypeOK ==
    /\ ClockIsExact
    /\ test \in {"wait1", "wait2", "polled", "idle", "skipping", "join", "done"}
    /\ back \in {"idle", "skipping", "join"}
    /\ server \in {"start", "check", "wait1", "cycle", "wait2", "stopped"}
    /\ skip \in [from : Nat, time : Nat, tick : Nat \ {0}]
    /\ overtaken \in BOOLEAN

InNextCycle == {"wait1", "wait2", "polled"}

(* Both threads are between the same two waits. *)
MeetInPairs ==
    /\ test = "wait2" <=> server \in {"cycle", "wait2"}
    /\ server = "start" => test = "wait1" /\ back = "idle" /\ m_eState # "Terminated"

(* After terminate() the test only waits for the server, which stops after one
   more cycle, or without it when it was about to look at the clock. *)
StopsInOrder ==
    /\ m_eState = "Terminated" <=> back = "join"
    /\ test \in {"join", "done"} => back = "join"
    /\ test \in {"idle", "skipping"} => back # "join"
    /\ server = "stopped" => m_eState = "Terminated"
    /\ back = "join" =>
          IF overtaken THEN test = "wait1" /\ server \in {"check", "stopped"}
          ELSE /\ test = "wait1" => server = "wait1"
               /\ test \in {"polled", "join", "done"} => server \in {"check", "stopped"}

(* While time is skipped: what has passed and what is left make up what was asked for. *)
SkipProgress ==
    test = "skipping" \/ (test \in InNextCycle /\ back = "skipping") =>
        /\ m_eState = "Debug" /\ m_nDebugTickUs = skip.tick
        /\ m_inGameTimeUs + m_nDebugTicksCounter * skip.tick
             = skip.from + TicksFor(skip.time, skip.tick) * skip.tick

HarnessInv == HarnessTypeOK /\ MeetInPairs /\ StopsInOrder /\ SkipProgress

(* As many ticks as cover the time, and not one more *)
LEMMA TicksCover ==
    ASSUME NEW time \in Nat, NEW tick \in Nat \ {0}
    PROVE  /\ TicksFor(time, tick) \in Nat
           /\ TicksFor(time, tick) * tick \in time .. time + tick - 1
  <1> DEFINE q == time \div tick
  <1>1. q \in Nat /\ time = q * tick + (time % tick) /\ (time % tick) \in 0 .. tick - 1
    BY SMTT(30)
  <1> HIDE DEF q
  <1> DEFINE r == time % tick
             p == q * tick
  <1>2. p \in Nat /\ r \in Nat /\ r < tick /\ time = p + r /\ (q + 1) * tick = p + tick
    BY <1>1
  <1>3. TicksFor(time, tick) = IF p < time THEN q + 1 ELSE q
    BY DEF TicksFor, q
  <1> QED
    BY <1>1, <1>2, <1>3

(* One tick less is left. *)
LEMMA OneTickLess ==
    ASSUME NEW c \in Nat, c > 0, NEW k \in Nat
    PROVE  /\ c * k \in Nat /\ (c - 1) * k \in Nat /\ c * k = (c - 1) * k + k
  OBVIOUS

(* Each step of test and server keeps the types, and the clock exact. *)
LEMMA HarnessTypeStep ==
    ASSUME HarnessInv, [HarnessNext]_harnessVars PROVE HarnessTypeOK'
  <1>1. CASE Start
    BY <1>1, ClockAssumption, HarnessAssumption DEF HarnessInv, HarnessTypeOK, ClockIsExact, ClockTypeOK, NeverAhead, Dt, Start, Serve, SwitchMode
  <1>2. CASE CheckTerminated
    BY <1>2, ClockAssumption, HarnessAssumption DEF HarnessInv, HarnessTypeOK, ClockIsExact, ClockTypeOK, NeverAhead, Dt, CheckTerminated, clockVars
  <1>3. CASE Cycle
    <2>1. ClockIsExact'
      BY <1>3, GetNextIntervalStep DEF HarnessInv, HarnessTypeOK, Cycle
    <2> QED
      BY <1>3, <2>1 DEF HarnessInv, HarnessTypeOK, Cycle, Serve
  <1>4. CASE Meet
    BY <1>4, ClockAssumption, HarnessAssumption DEF HarnessInv, HarnessTypeOK, ClockIsExact, ClockTypeOK, NeverAhead, Dt, Meet, TestGoesOn, clockVars
  <1>5. CASE PollAgain
    BY <1>5, ClockAssumption, HarnessAssumption DEF HarnessInv, HarnessTypeOK, ClockIsExact, ClockTypeOK, NeverAhead, Dt, PollAgain, NextCycle, clockVars
  <1>6. CASE Polled
    BY <1>6, ClockAssumption, HarnessAssumption DEF HarnessInv, HarnessTypeOK, ClockIsExact, ClockTypeOK, NeverAhead, Dt, Polled, clockVars
  <1>7. CASE WaitAnswer
    BY <1>7, ClockAssumption, HarnessAssumption DEF HarnessInv, HarnessTypeOK, ClockIsExact, ClockTypeOK, NeverAhead, Dt, WaitAnswer, NextCycle, clockVars
  <1>8. CASE SkipMore
    BY <1>8, ClockAssumption, HarnessAssumption DEF HarnessInv, HarnessTypeOK, ClockIsExact, ClockTypeOK, NeverAhead, Dt, SkipMore, NextCycle, clockVars
  <1>9. CASE Skipped
    BY <1>9, ClockAssumption, HarnessAssumption DEF HarnessInv, HarnessTypeOK, ClockIsExact, ClockTypeOK, NeverAhead, Dt, Skipped, clockVars
  <1>10. ASSUME NEW s \in Skips, SkipTime(s[1], s[2])
        PROVE HarnessTypeOK'
    <2>1. /\ s[1] \in Nat /\ s[2] \in Nat \ {0} /\ TicksFor(s[1], s[2]) \in Nat
      BY HarnessAssumption, TicksCover
    <2>2. skip' = [from |-> m_inGameTimeUs, time |-> s[1], tick |-> s[2]] /\ m_inGameTimeUs \in Nat
      BY <1>10 DEF SkipTime, HarnessInv, HarnessTypeOK, ClockIsExact, ClockTypeOK
    <2>3. (skip \in [from : Nat, time : Nat, tick : Nat \ {0}])'
      BY <2>1, <2>2
    <2>4. ClockIsExact'
      BY <1>10, <2>1 DEF SkipTime, HarnessInv, HarnessTypeOK, ClockIsExact, ClockTypeOK, NeverAhead, Dt
    <2> QED
      BY <1>10, <2>3, <2>4 DEF SkipTime, HarnessInv, HarnessTypeOK
  <1>11. CASE ResumeTime
    BY <1>11, ClockAssumption, HarnessAssumption DEF HarnessInv, HarnessTypeOK, ClockIsExact, ClockTypeOK, NeverAhead, Dt, ResumeTime, SwitchToRealtimeMode, CanSwitchToRealtime, SwitchMode
  <1>12. CASE PauseTime
    BY <1>12, ClockAssumption, HarnessAssumption DEF HarnessInv, HarnessTypeOK, ClockIsExact, ClockTypeOK, NeverAhead, Dt, PauseTime, SwitchToDebugMode, SwitchMode
  <1>13. CASE TearDown
    BY <1>13, ClockAssumption, HarnessAssumption DEF HarnessInv, HarnessTypeOK, ClockIsExact, ClockTypeOK, NeverAhead, Dt, TearDown, Terminate, SwitchMode, NextCycle
  <1>14. CASE JoinMainThread
    BY <1>14, ClockAssumption, HarnessAssumption DEF HarnessInv, HarnessTypeOK, ClockIsExact, ClockTypeOK, NeverAhead, Dt, JoinMainThread, clockVars
  <1>15. ASSUME NEW d \in Elapses, Elapse(d), UNCHANGED <<test, back, server, skip, overtaken>>
        PROVE HarnessTypeOK'
    BY <1>15, ClockAssumption, HarnessAssumption DEF HarnessInv, HarnessTypeOK, ClockIsExact, ClockTypeOK, NeverAhead, Dt, Elapse
  <1>16. CASE UNCHANGED harnessVars
    BY <1>16, ClockAssumption, HarnessAssumption DEF HarnessInv, HarnessTypeOK, ClockIsExact, ClockTypeOK, NeverAhead, Dt, harnessVars, clockVars
  <1> QED
    BY <1>1, <1>2, <1>3, <1>4, <1>5, <1>6, <1>7, <1>8, <1>9, <1>10, <1>11, <1>12, <1>13, <1>14, <1>15, <1>16 DEF HarnessNext

(* Both pass each wait of the barrier together. *)
LEMMA MeetInPairsStep ==
    ASSUME HarnessInv, [HarnessNext]_harnessVars PROVE MeetInPairs'
  <1>1. CASE Start
    BY <1>1, ClockAssumption, HarnessAssumption DEF HarnessInv, HarnessTypeOK, ClockIsExact, ClockTypeOK, MeetInPairs, StopsInOrder, Start, Serve, SwitchMode
  <1>2. CASE CheckTerminated
    BY <1>2, ClockAssumption, HarnessAssumption DEF HarnessInv, HarnessTypeOK, ClockIsExact, ClockTypeOK, MeetInPairs, StopsInOrder, CheckTerminated, clockVars
  <1>3. CASE Cycle
    BY <1>3, ClockAssumption, HarnessAssumption DEF HarnessInv, HarnessTypeOK, ClockIsExact, ClockTypeOK, MeetInPairs, StopsInOrder, Cycle, Serve, GetNextInterval, NextRealTime, NextDebug, NextTerminated
  <1>4. CASE Meet
    BY <1>4, ClockAssumption, HarnessAssumption DEF HarnessInv, HarnessTypeOK, ClockIsExact, ClockTypeOK, MeetInPairs, StopsInOrder, Meet, TestGoesOn, clockVars
  <1>5. CASE PollAgain
    BY <1>5, ClockAssumption, HarnessAssumption DEF HarnessInv, HarnessTypeOK, ClockIsExact, ClockTypeOK, MeetInPairs, StopsInOrder, PollAgain, NextCycle, clockVars
  <1>6. CASE Polled
    BY <1>6, ClockAssumption, HarnessAssumption DEF HarnessInv, HarnessTypeOK, ClockIsExact, ClockTypeOK, MeetInPairs, StopsInOrder, Polled, clockVars
  <1>7. CASE WaitAnswer
    BY <1>7, ClockAssumption, HarnessAssumption DEF HarnessInv, HarnessTypeOK, ClockIsExact, ClockTypeOK, MeetInPairs, StopsInOrder, WaitAnswer, NextCycle, clockVars
  <1>8. CASE SkipMore
    BY <1>8, ClockAssumption, HarnessAssumption DEF HarnessInv, HarnessTypeOK, ClockIsExact, ClockTypeOK, MeetInPairs, StopsInOrder, SkipMore, NextCycle, clockVars
  <1>9. CASE Skipped
    BY <1>9, ClockAssumption, HarnessAssumption DEF HarnessInv, HarnessTypeOK, ClockIsExact, ClockTypeOK, MeetInPairs, StopsInOrder, Skipped, clockVars
  <1>10. ASSUME NEW s \in Skips, SkipTime(s[1], s[2])
        PROVE MeetInPairs'
    BY <1>10, ClockAssumption, HarnessAssumption DEF HarnessInv, HarnessTypeOK, ClockIsExact, ClockTypeOK, MeetInPairs, StopsInOrder, SkipTime
  <1>11. CASE ResumeTime
    BY <1>11, ClockAssumption, HarnessAssumption DEF HarnessInv, HarnessTypeOK, ClockIsExact, ClockTypeOK, MeetInPairs, StopsInOrder, ResumeTime, SwitchToRealtimeMode, CanSwitchToRealtime, SwitchMode
  <1>12. CASE PauseTime
    BY <1>12, ClockAssumption, HarnessAssumption DEF HarnessInv, HarnessTypeOK, ClockIsExact, ClockTypeOK, MeetInPairs, StopsInOrder, PauseTime, SwitchToDebugMode, SwitchMode
  <1>13. CASE TearDown
    BY <1>13, ClockAssumption, HarnessAssumption DEF HarnessInv, HarnessTypeOK, ClockIsExact, ClockTypeOK, MeetInPairs, StopsInOrder, TearDown, Terminate, SwitchMode, NextCycle
  <1>14. CASE JoinMainThread
    BY <1>14, ClockAssumption, HarnessAssumption DEF HarnessInv, HarnessTypeOK, ClockIsExact, ClockTypeOK, MeetInPairs, StopsInOrder, JoinMainThread, clockVars
  <1>15. ASSUME NEW d \in Elapses, Elapse(d), UNCHANGED <<test, back, server, skip, overtaken>>
        PROVE MeetInPairs'
    BY <1>15, ClockAssumption, HarnessAssumption DEF HarnessInv, HarnessTypeOK, ClockIsExact, ClockTypeOK, MeetInPairs, StopsInOrder, Elapse
  <1>16. CASE UNCHANGED harnessVars
    BY <1>16, ClockAssumption, HarnessAssumption DEF HarnessInv, HarnessTypeOK, ClockIsExact, ClockTypeOK, MeetInPairs, StopsInOrder, harnessVars, clockVars
  <1> QED
    BY <1>1, <1>2, <1>3, <1>4, <1>5, <1>6, <1>7, <1>8, <1>9, <1>10, <1>11, <1>12, <1>13, <1>14, <1>15, <1>16 DEF HarnessNext

(* After terminate() the server goes through at most one more cycle. *)
LEMMA StopsInOrderStep ==
    ASSUME HarnessInv, [HarnessNext]_harnessVars PROVE StopsInOrder'
  <1>1. CASE Start
    BY <1>1, ClockAssumption, HarnessAssumption DEF HarnessInv, HarnessTypeOK, ClockIsExact, ClockTypeOK, MeetInPairs, StopsInOrder, Start, Serve, SwitchMode
  <1>2. CASE CheckTerminated
    BY <1>2, ClockAssumption, HarnessAssumption DEF HarnessInv, HarnessTypeOK, ClockIsExact, ClockTypeOK, MeetInPairs, StopsInOrder, CheckTerminated, clockVars
  <1>3. CASE Cycle
    BY <1>3, ClockAssumption, HarnessAssumption DEF HarnessInv, HarnessTypeOK, ClockIsExact, ClockTypeOK, MeetInPairs, StopsInOrder, Cycle, Serve, GetNextInterval, NextRealTime, NextDebug, NextTerminated
  <1>4. CASE Meet
    BY <1>4, ClockAssumption, HarnessAssumption DEF HarnessInv, HarnessTypeOK, ClockIsExact, ClockTypeOK, MeetInPairs, StopsInOrder, Meet, TestGoesOn, clockVars
  <1>5. CASE PollAgain
    BY <1>5, ClockAssumption, HarnessAssumption DEF HarnessInv, HarnessTypeOK, ClockIsExact, ClockTypeOK, MeetInPairs, StopsInOrder, PollAgain, NextCycle, clockVars
  <1>6. CASE Polled
    BY <1>6, ClockAssumption, HarnessAssumption DEF HarnessInv, HarnessTypeOK, ClockIsExact, ClockTypeOK, MeetInPairs, StopsInOrder, Polled, clockVars
  <1>7. CASE WaitAnswer
    BY <1>7, ClockAssumption, HarnessAssumption DEF HarnessInv, HarnessTypeOK, ClockIsExact, ClockTypeOK, MeetInPairs, StopsInOrder, WaitAnswer, NextCycle, clockVars
  <1>8. CASE SkipMore
    BY <1>8, ClockAssumption, HarnessAssumption DEF HarnessInv, HarnessTypeOK, ClockIsExact, ClockTypeOK, MeetInPairs, StopsInOrder, SkipMore, NextCycle, clockVars
  <1>9. CASE Skipped
    BY <1>9, ClockAssumption, HarnessAssumption DEF HarnessInv, HarnessTypeOK, ClockIsExact, ClockTypeOK, MeetInPairs, StopsInOrder, Skipped, clockVars
  <1>10. ASSUME NEW s \in Skips, SkipTime(s[1], s[2])
        PROVE StopsInOrder'
    BY <1>10, ClockAssumption, HarnessAssumption DEF HarnessInv, HarnessTypeOK, ClockIsExact, ClockTypeOK, MeetInPairs, StopsInOrder, SkipTime
  <1>11. CASE ResumeTime
    BY <1>11, ClockAssumption, HarnessAssumption DEF HarnessInv, HarnessTypeOK, ClockIsExact, ClockTypeOK, MeetInPairs, StopsInOrder, ResumeTime, SwitchToRealtimeMode, CanSwitchToRealtime, SwitchMode
  <1>12. CASE PauseTime
    BY <1>12, ClockAssumption, HarnessAssumption DEF HarnessInv, HarnessTypeOK, ClockIsExact, ClockTypeOK, MeetInPairs, StopsInOrder, PauseTime, SwitchToDebugMode, SwitchMode
  <1>13. CASE TearDown
    BY <1>13, ClockAssumption, HarnessAssumption DEF HarnessInv, HarnessTypeOK, ClockIsExact, ClockTypeOK, MeetInPairs, StopsInOrder, TearDown, Terminate, SwitchMode, NextCycle
  <1>14. CASE JoinMainThread
    BY <1>14, ClockAssumption, HarnessAssumption DEF HarnessInv, HarnessTypeOK, ClockIsExact, ClockTypeOK, MeetInPairs, StopsInOrder, JoinMainThread, clockVars
  <1>15. ASSUME NEW d \in Elapses, Elapse(d), UNCHANGED <<test, back, server, skip, overtaken>>
        PROVE StopsInOrder'
    BY <1>15, ClockAssumption, HarnessAssumption DEF HarnessInv, HarnessTypeOK, ClockIsExact, ClockTypeOK, MeetInPairs, StopsInOrder, Elapse
  <1>16. CASE UNCHANGED harnessVars
    BY <1>16, ClockAssumption, HarnessAssumption DEF HarnessInv, HarnessTypeOK, ClockIsExact, ClockTypeOK, MeetInPairs, StopsInOrder, harnessVars, clockVars
  <1> QED
    BY <1>1, <1>2, <1>3, <1>4, <1>5, <1>6, <1>7, <1>8, <1>9, <1>10, <1>11, <1>12, <1>13, <1>14, <1>15, <1>16 DEF HarnessNext

(* Each cycle takes one tick from the time that is left to skip. *)
LEMMA SkipProgressStep ==
    ASSUME HarnessInv, [HarnessNext]_harnessVars PROVE SkipProgress'
  <1>1. CASE Start
    BY <1>1, ClockAssumption, HarnessAssumption DEF HarnessInv, HarnessTypeOK, ClockIsExact, ClockTypeOK, MeetInPairs, StopsInOrder, SkipProgress, InNextCycle, Start, Serve, SwitchMode
  <1>2. CASE CheckTerminated
    BY <1>2, ClockAssumption, HarnessAssumption DEF HarnessInv, HarnessTypeOK, ClockIsExact, ClockTypeOK, MeetInPairs, StopsInOrder, SkipProgress, InNextCycle, CheckTerminated, clockVars
  <1>3. CASE Cycle
    <2> SUFFICES ASSUME test \in InNextCycle, back = "skipping"
                PROVE  /\ m_eState' = "Debug" /\ m_nDebugTickUs' = skip.tick
                       /\ m_inGameTimeUs' + m_nDebugTicksCounter' * skip.tick
                            = skip.from + TicksFor(skip.time, skip.tick) * skip.tick
      BY <1>3 DEF SkipProgress, Cycle, HarnessInv, MeetInPairs, Serve, InNextCycle
    <2>1. /\ m_eState = "Debug" /\ m_nDebugTickUs = skip.tick
          /\ m_inGameTimeUs + m_nDebugTicksCounter * skip.tick
               = skip.from + TicksFor(skip.time, skip.tick) * skip.tick
          /\ m_nDebugTicksCounter \in Nat /\ m_inGameTimeUs \in Nat /\ skip.tick \in Nat
      BY DEF HarnessInv, HarnessTypeOK, ClockIsExact, ClockTypeOK, SkipProgress
    <2>2. NextDebug
      BY <1>3, <2>1 DEF Cycle, GetNextInterval, NextRealTime, NextTerminated
    <2>3. CASE m_nDebugTicksCounter = 0
      BY <2>1, <2>2, <2>3 DEF NextDebug, DebugTick
    <2>4. CASE m_nDebugTicksCounter > 0
      <3>1. m_nDebugTicksCounter * skip.tick = (m_nDebugTicksCounter - 1) * skip.tick + skip.tick
            /\ (m_nDebugTicksCounter - 1) * skip.tick \in Nat
        BY <2>1, <2>4, OneTickLess
      <3>2. /\ m_inGameTimeUs' = m_inGameTimeUs + skip.tick
            /\ m_nDebugTicksCounter' = m_nDebugTicksCounter - 1
        BY <2>1, <2>2, <2>4 DEF NextDebug, DebugTick
      <3>3. m_inGameTimeUs + skip.tick + (m_nDebugTicksCounter - 1) * skip.tick
              = m_inGameTimeUs + m_nDebugTicksCounter * skip.tick
        BY <2>1, <3>1
      <3> QED
        BY <2>1, <2>2, <3>2, <3>3 DEF NextDebug
    <2> QED
      BY <2>1, <2>3, <2>4
  <1>4. CASE Meet
    BY <1>4, ClockAssumption, HarnessAssumption DEF HarnessInv, HarnessTypeOK, ClockIsExact, ClockTypeOK, MeetInPairs, StopsInOrder, SkipProgress, InNextCycle, Meet, TestGoesOn, clockVars
  <1>5. CASE PollAgain
    BY <1>5, ClockAssumption, HarnessAssumption DEF HarnessInv, HarnessTypeOK, ClockIsExact, ClockTypeOK, MeetInPairs, StopsInOrder, SkipProgress, InNextCycle, PollAgain, NextCycle, clockVars
  <1>6. CASE Polled
    BY <1>6, ClockAssumption, HarnessAssumption DEF HarnessInv, HarnessTypeOK, ClockIsExact, ClockTypeOK, MeetInPairs, StopsInOrder, SkipProgress, InNextCycle, Polled, clockVars
  <1>7. CASE WaitAnswer
    BY <1>7, ClockAssumption, HarnessAssumption DEF HarnessInv, HarnessTypeOK, ClockIsExact, ClockTypeOK, MeetInPairs, StopsInOrder, SkipProgress, InNextCycle, WaitAnswer, NextCycle, clockVars
  <1>8. CASE SkipMore
    BY <1>8, ClockAssumption, HarnessAssumption DEF HarnessInv, HarnessTypeOK, ClockIsExact, ClockTypeOK, MeetInPairs, StopsInOrder, SkipProgress, InNextCycle, SkipMore, NextCycle, clockVars
  <1>9. CASE Skipped
    BY <1>9, ClockAssumption, HarnessAssumption DEF HarnessInv, HarnessTypeOK, ClockIsExact, ClockTypeOK, MeetInPairs, StopsInOrder, SkipProgress, InNextCycle, Skipped, clockVars
  <1>10. ASSUME NEW s \in Skips, SkipTime(s[1], s[2])
        PROVE SkipProgress'
    BY <1>10, ClockAssumption, HarnessAssumption DEF HarnessInv, HarnessTypeOK, ClockIsExact, ClockTypeOK, MeetInPairs, StopsInOrder, SkipProgress, InNextCycle, SkipTime
  <1>11. CASE ResumeTime
    BY <1>11, ClockAssumption, HarnessAssumption DEF HarnessInv, HarnessTypeOK, ClockIsExact, ClockTypeOK, MeetInPairs, StopsInOrder, SkipProgress, InNextCycle, ResumeTime, SwitchToRealtimeMode, CanSwitchToRealtime, SwitchMode
  <1>12. CASE PauseTime
    BY <1>12, ClockAssumption, HarnessAssumption DEF HarnessInv, HarnessTypeOK, ClockIsExact, ClockTypeOK, MeetInPairs, StopsInOrder, SkipProgress, InNextCycle, PauseTime, SwitchToDebugMode, SwitchMode
  <1>13. CASE TearDown
    BY <1>13, ClockAssumption, HarnessAssumption DEF HarnessInv, HarnessTypeOK, ClockIsExact, ClockTypeOK, MeetInPairs, StopsInOrder, SkipProgress, InNextCycle, TearDown, Terminate, SwitchMode, NextCycle
  <1>14. CASE JoinMainThread
    BY <1>14, ClockAssumption, HarnessAssumption DEF HarnessInv, HarnessTypeOK, ClockIsExact, ClockTypeOK, MeetInPairs, StopsInOrder, SkipProgress, InNextCycle, JoinMainThread, clockVars
  <1>15. ASSUME NEW d \in Elapses, Elapse(d), UNCHANGED <<test, back, server, skip, overtaken>>
        PROVE SkipProgress'
    BY <1>15, ClockAssumption, HarnessAssumption DEF HarnessInv, HarnessTypeOK, ClockIsExact, ClockTypeOK, MeetInPairs, StopsInOrder, SkipProgress, InNextCycle, Elapse
  <1>16. CASE UNCHANGED harnessVars
    BY <1>16, ClockAssumption, HarnessAssumption DEF HarnessInv, HarnessTypeOK, ClockIsExact, ClockTypeOK, MeetInPairs, StopsInOrder, SkipProgress, InNextCycle, harnessVars, clockVars
  <1> QED
    BY <1>1, <1>2, <1>3, <1>4, <1>5, <1>6, <1>7, <1>8, <1>9, <1>10, <1>11, <1>12, <1>13, <1>14, <1>15, <1>16 DEF HarnessNext

(* The inductive invariant of test and server (FunctionalTestFixture.cpp). *)
LEMMA HarnessInvariant == HarnessSpec => []HarnessInv
  <1>1. HarnessInit => HarnessInv
    <2> SUFFICES ASSUME HarnessInit PROVE HarnessInv
      OBVIOUS
    <2>1. ClockIsExact
      BY ClockStarts DEF HarnessInit
    <2>2. skip \in [from : Nat, time : Nat, tick : Nat \ {0}]
      BY DEF HarnessInit
    <2>5. overtaken \in BOOLEAN
      BY DEF HarnessInit
    <2>3. HarnessTypeOK
      BY <2>1, <2>2, <2>5 DEF HarnessInit, HarnessTypeOK
    <2>4. MeetInPairs /\ StopsInOrder /\ SkipProgress
      BY DEF HarnessInit, MeetInPairs, StopsInOrder, SkipProgress
    <2> QED
      BY <2>3, <2>4 DEF HarnessInv
  <1>2. ASSUME HarnessInv, [HarnessNext]_harnessVars PROVE HarnessInv'
    BY <1>2, HarnessTypeStep, MeetInPairsStep, StopsInOrderStep, SkipProgressStep DEF HarnessInv
  <1> QED
    BY <1>1, <1>2, PTL DEF HarnessSpec

(* For every clock and every list of skips: the test and the server take turns, a skip
   of time lasts as long as asked for and less than a tick more, and neither waits for
   the other in vain but in the one order that TearDown() leaves open
   (FunctionalTestFixture, SystemManager::run of the autotests). *)
THEOREM LockStepIsKept == HarnessSpec => []LockStepHolds
  <1>1. ASSUME HarnessInv PROVE LockStepHolds
    <2>1. TurnsAreTaken
      BY <1>1 DEF HarnessInv, MeetInPairs, TurnsAreTaken
    <2>2. NobodyIsLeftWaiting
      BY <1>1 DEF HarnessInv, HarnessTypeOK, StopsInOrder, NobodyIsLeftWaiting
    <2>3. SkipIsExact
      <3> SUFFICES ASSUME test = "skipping", ~IsDebugInProgress
                   PROVE  (m_inGameTimeUs - skip.from) \in skip.time .. skip.time + skip.tick - 1
        BY DEF SkipIsExact
      <3>1. /\ m_nDebugTicksCounter = 0 /\ skip.tick \in Nat \ {0} /\ skip.time \in Nat
            /\ skip.from \in Nat /\ m_inGameTimeUs \in Nat
            /\ m_inGameTimeUs + m_nDebugTicksCounter * skip.tick
                 = skip.from + TicksFor(skip.time, skip.tick) * skip.tick
        BY <1>1 DEF HarnessInv, HarnessTypeOK, ClockIsExact, ClockTypeOK, SkipProgress, IsDebugInProgress
      <3>2. m_inGameTimeUs = skip.from + TicksFor(skip.time, skip.tick) * skip.tick
        BY <3>1
      <3>3. TicksFor(skip.time, skip.tick) * skip.tick \in skip.time .. skip.time + skip.tick - 1
        BY <3>1, TicksCover
      <3> QED
        BY <3>1, <3>2, <3>3
    <2> QED
      BY <2>1, <2>2, <2>3 DEF LockStepHolds
  <1> QED
    BY <1>1, HarnessInvariant, PTL

-----------------------------------------------------------------------------
(* All of them together *)

(* A step of the composed specification is a step of one part, and leaves the others
   alone: it implements each of them. *)
LEMMA ThreadsImplementEach ==
    /\ ThreadsSpec => ConveyorSpec
    /\ ThreadsSpec => ManagerSpec
    /\ ThreadsSpec => HarnessSpec
    /\ ThreadsSpec => RegistrySpec
    /\ ThreadsSpec => ChunksSpec
  <1>1. ThreadsInit => ConveyorInit /\ ManagerInit /\ HarnessInit /\ RegistryInit /\ ChunksInit
    BY DEF ThreadsInit
  <1>2. [ThreadsNext]_threadsVars => [ConveyorNext]_conveyorVars
    BY DEF ThreadsNext, threadsVars
  <1>3. [ThreadsNext]_threadsVars => [ManagerNext]_managerVars
    BY DEF ThreadsNext, threadsVars
  <1>4. [ThreadsNext]_threadsVars => [HarnessNext]_harnessVars
    BY DEF ThreadsNext, threadsVars
  <1>5. [ThreadsNext]_threadsVars => [RegistryNext]_registryVars
    BY DEF ThreadsNext, threadsVars
  <1>6. [ThreadsNext]_threadsVars => [ChunksNext]_chunksVars
    BY DEF ThreadsNext, threadsVars
  <1> QED
    BY <1>1, <1>2, <1>3, <1>4, <1>5, <1>6, PTL
       DEF ThreadsSpec, ConveyorSpec, ManagerSpec, HarnessSpec, RegistrySpec, ChunksSpec

(* In the composed specification neither an id with its object nor a chunk is lost or
   given out twice (GlobalContainer, ThreadSafeIdPool, ChunksPool). *)
THEOREM PoolsStayExact == ThreadsSpec => []PoolsAreExact
  <1>1. ObjectsAreExact /\ ChunksAreExact => PoolsAreExact
    BY DEF PoolsAreExact
  <1> QED
    BY <1>1, ThreadsImplementEach, ObjectsStayExact, ChunksStayExact, PTL

(* And the other parts keep their promises in it: stages are apart, the schedule and the
   busy lists are exact, and the tests run in lock step with the server. *)
THEOREM ThreadsKeepTheirPromises ==
    ThreadsSpec => [](StagesAreApart /\ ScheduleIsExact /\ BusyListIsExact /\ LockStepHolds)
  BY ThreadsImplementEach, StagesAreKeptApart, ScheduleStaysExact, BusyListStaysExact,
     LockStepIsKept, PTL

(* The ids of objects are those of the abstract allocator, whichever threads construct
   and destroy objects: each is the smallest free one (ThreadSafeIdPool). *)
THEOREM IdsAreTheAllocators == ThreadsSpec => AllocatorSpec
  BY ThreadsImplementEach, RegistryUsesThePool, IdPoolImplementsAllocator, PTL
=============================================================================
