---------------------------- MODULE MotionManager ---------------------------
(***************************************************************************)
(* How a velocity command becomes contacts in the workspace stack: the     *)
(* motion manager chooses a gait, the gait schedule tiles it over time,    *)
(* the reference manager publishes the schedule to the solver and plans    *)
(* the swings of the feet for it.                                          *)
(*                                                                         *)
(* A solve runs the two synchronised parts in the order of the solver:     *)
(* SwitchedModelReferenceManager::modifyReferences, then                   *)
(* ProceduralMpcMotionManager::preSolverRun; a gait chosen in one solve is *)
(* published in the next.  Between solves the control loop lets time pass  *)
(* and sets the command.                                                   *)
(*                                                                         *)
(* Times are in units of 50 ms and relative to the initTime of the solve   *)
(* that is due, so that the schedule slides towards the past; what the     *)
(* code reads of the absolute time is kept in elapsed and sinceChange,     *)
(* both up to the point after which they no longer matter.                 *)
(***************************************************************************)
EXTENDS SwingPlanner

CONSTANTS
    Horizon,         \* timeHorizon of the MPC
    TransitionStance,\* phaseTransitionStanceTime
    Intervals,       \* times between two solves
    RawCommands,     \* velocity commands, in percent of the limits
    BaseVelocities,  \* velocities of the base, in cm/s
    FilterAges,      \* ms since the command filter was made
    ChangeMemory     \* how long the last gait change is remembered

(* Both programs clamp the command to its limits                           *)
(* (makeWalkingVelocityCommand).                                           *)
Percent == -100 .. 100

ASSUME MotionAssumption ==
    /\ Horizon \in Nat \ {0} /\ TransitionStance \in Nat
    /\ Intervals \subseteq Nat /\ FilterAges \subseteq Nat
    /\ RawCommands \subseteq [x : Percent, y : Percent, yaw : Percent]
    /\ ChangeMemory \in Nat

VARIABLES
    schedule,      \* GaitSchedule::modeSchedule_
    template,      \* the gait of modeSequenceTemplate_
    published,     \* SwitchedModelReferenceManager::modeSchedule_
    currentGaitMode_,
    elapsed,       \* initTime
    sinceChange,   \* initTime - lastGaitChangeTime_
    command,       \* velocityCommand_
    baseVelocity,  \* getBaseComVelocity(initState)
    age,           \* of the command filter
    due,           \* a solve is due
    thrown         \* a solve has thrown an exception

vars == <<schedule, template, published, currentGaitMode_, elapsed,
          sinceChange, command, baseVelocity, age, due, thrown>>

-----------------------------------------------------------------------------
(* gait.info, in units of 50 ms.                                           *)
GaitMap ==
    [stance      |-> [modes |-> <<"STANCE">>, times |-> <<0, 10>>],
     slow_walk   |-> [modes |-> <<"LF", "STANCE", "RF", "STANCE">>,
                      times |-> <<0, 13, 17, 30, 34>>],
     walk        |-> [modes |-> <<"LF", "STANCE", "RF", "STANCE">>,
                      times |-> <<0, 12, 14, 26, 28>>],
     slower_trot |-> [modes |-> <<"LF", "RF">>, times |-> <<0, 12, 24>>],
     slow_trot   |-> [modes |-> <<"LF", "RF">>, times |-> <<0, 11, 22>>],
     trot        |-> [modes |-> <<"LF", "RF">>, times |-> <<0, 10, 20>>],
     run         |-> [modes |-> <<"LF", "FLY", "RF", "FLY">>,
                      times |-> <<0, 6, 8, 14, 16>>]]

ModeState(gait, minLin, maxLin, minAng, maxAng, linError, angError) ==
    [gaitCommand |-> gait, minLin |-> minLin, maxLin |-> maxLin,
     minAng |-> minAng, maxAng |-> maxAng, linError |-> linError,
     angError |-> angError]

GaitModeStatesDefect ==
    <<ModeState("stance",      -10,   10, -10,   10, 1000, 1000),
      ModeState("slow_walk",     5,   30,   5,   20,    5,    5),
      ModeState("walk",         25,   50,  15,   35,    5,    5),
      ModeState("slower_trot",  45,   70,  30,   55,   10,   10),
      ModeState("slow_trot",    65,   90,  50,   70,   20,   20),
      ModeState("trot",         80,  130,  65, 1000,   20,   20),
      ModeState("run",         220, 1000,  65, 1000,   20,   20)>>

(* gaitModeStates_, in cm/s and crad/s.                                    *)
GaitModeStates ==
    <<ModeState("stance",      -10,   10, -10,   10, 1000, 1000),
      ModeState("slow_walk",     5,   30,   5,   20,    5,    5),
      ModeState("walk",         25,   50,  15,   35,    5,    5),
      ModeState("slower_trot",  45,   70,  30,   55,   10,   10),
      ModeState("slow_trot",    65,   90,  50,   70,   20,   20),
      ModeState("trot",         80,  130,  65, 1000,   20,   20),
      ModeState("run",         120, 1000,  65, 1000,   20,   20)>>

Config(mode) == GaitModeStates[mode + 1]

-----------------------------------------------------------------------------
(* scaleWalkingVelocityCommand                                             *)
Scale(raw) == [x |-> 2 * raw.x, y |-> (12 * raw.y) \div 10, yaw |-> raw.yaw]

(* BreakFrequencyAlphaFilter: the weight of the command grows with the     *)
(* time since the filter was made; the break time is 32 ms.                *)
Filtered(c, a) == [i \in DOMAIN c |-> (c[i] * a) \div (a + 32)]

Magnitude(v) == IF v < 0 THEN -v ELSE v

TransitionToFasterGait(cmd, vel, cfg) ==
    /\ \/ Magnitude(cmd.x) > cfg.maxLin
       \/ Magnitude(cmd.y) > cfg.maxLin
       \/ Magnitude(cmd.yaw) > cfg.maxAng
    /\ \/ Magnitude(vel.x) > cfg.maxLin - cfg.linError
       \/ Magnitude(vel.y) > cfg.maxLin - cfg.linError
       \/ Magnitude(vel.yaw) > cfg.maxAng - cfg.angError

(* The last test reads the command where the others read the velocity.     *)
TransitionToSlowerGait(cmd, vel, cfg) ==
    /\ Magnitude(cmd.x) < cfg.minLin
    /\ Magnitude(cmd.y) < cfg.minLin
    /\ Magnitude(cmd.yaw) < cfg.minAng
    /\ Magnitude(vel.x) < cfg.minLin + cfg.linError
    /\ Magnitude(vel.y) < cfg.minLin + cfg.linError
    /\ Magnitude(cmd.yaw) < cfg.minAng + cfg.angError

NextGaitModeDefect(since, cmd, vel) ==
    IF since <= 4 THEN currentGaitMode_
    ELSE IF TransitionToFasterGait(cmd, vel, Config(currentGaitMode_))
    THEN currentGaitMode_ + 1
    ELSE currentGaitMode_

(* Not within 0.2 s of the last change.                                    *)
NextGaitMode(since, cmd, vel) ==
    IF since <= 4 THEN currentGaitMode_
    ELSE IF TransitionToFasterGait(cmd, vel, Config(currentGaitMode_))
    THEN currentGaitMode_ + 1
    ELSE IF TransitionToSlowerGait(cmd, vel, Config(currentGaitMode_))
    THEN currentGaitMode_ - 1
    ELSE currentGaitMode_

-----------------------------------------------------------------------------
Lesser(a, b) == IF a < b THEN a ELSE b

(* 1.5 * timeHorizon: the duration is passed where a time is expected.     *)
TilingEnd == (3 * Horizon) \div 2

PublishedDefect(s) ==
    GetModeSchedule(s, GaitMap[template], 0, 2 * Horizon)

(* getModeSchedule from a horizon before the solve to one after its end.   *)
Published(s) ==
    GetModeSchedule(s, GaitMap[template], -Horizon, 2 * Horizon)

(* updateGaitSchedule on the schedule s.                                   *)
Updated(s, gait) ==
    LET current == GetModeSchedule(s, GaitMap[template], 0, 2 * Horizon)
    IN  InsertModeSequenceTemplate(current, GaitMap[gait], TransitionStance,
            NextEventTime(current, 0, Horizon), TilingEnd - elapsed)

UpdateThrows(s) ==
    LET current == GetModeSchedule(s, GaitMap[template], 0, 2 * Horizon)
    IN  \/ GetModeScheduleThrows(s, 0, 2 * Horizon)
        \/ InsertThrows(current, TransitionStance,
                        NextEventTime(current, 0, Horizon))

InsertedTemplateDefect(gait) == template

(* insertModeSequenceTemplate also makes the gait the one to go on with.   *)
InsertedTemplate(gait) == gait

Shift(s, dt) == [s EXCEPT !.events = [i \in DOMAIN s.events |-> s.events[i] - dt]]

-----------------------------------------------------------------------------
(* reference.info: standing, with an event at 0.5 s.                       *)
InitialSchedule == [events |-> <<10>>, modes |-> <<"STANCE", "STANCE">>]

Rest == [x |-> 0, y |-> 0, yaw |-> 0]

Init ==
    /\ schedule = InitialSchedule /\ published = InitialSchedule
    /\ template = "stance" /\ currentGaitMode_ = 0
    /\ elapsed = 0 /\ sinceChange = 0
    /\ command = Rest /\ baseVelocity = Rest
    /\ age \in FilterAges
    /\ due = TRUE /\ thrown = FALSE

(* The control loop between two solves: the simulation goes on, the        *)
(* command is set.                                                         *)
Control(dt, raw, vel) ==
    /\ ~due /\ ~thrown
    /\ due' = TRUE
    /\ elapsed' = Lesser(elapsed + dt, TilingEnd)
    /\ sinceChange' = Lesser(sinceChange + dt, ChangeMemory)
    /\ schedule' = Shift(schedule, dt)
    /\ published' = Shift(published, dt)
    /\ command' = Scale(raw) /\ baseVelocity' = vel
    /\ age' \in {a \in FilterAges : a >= age}
    /\ UNCHANGED <<template, currentGaitMode_, thrown>>

(* One run of the solver, up to the optimisation.                          *)
Solve ==
    /\ due
    /\ due' = FALSE
    /\ published' = Published(schedule)
    /\ currentGaitMode_' =
           NextGaitMode(sinceChange, Filtered(command, age), baseVelocity)
    /\ IF currentGaitMode_' # currentGaitMode_
       THEN LET gait == Config(currentGaitMode_').gaitCommand
            IN  /\ sinceChange' = 0
                /\ template' = InsertedTemplate(gait)
                /\ schedule' = Updated(published', gait)
       ELSE /\ schedule' = published'
            /\ UNCHANGED <<sinceChange, template>>
    /\ thrown' = \/ GetModeScheduleThrows(schedule, -Horizon, 2 * Horizon)
                 \/ PlannerThrows(published'.modes)
                 \/ /\ currentGaitMode_' # currentGaitMode_
                    /\ UpdateThrows(published')
    /\ UNCHANGED <<elapsed, command, baseVelocity, age>>

Next ==
    \/ \E dt \in Intervals, raw \in RawCommands, vel \in BaseVelocities :
           Control(dt, raw, vel)
    \/ Solve

(* Every step is the control loop's turn or the solver's; neither stops.   *)
Turn == due' = ~due

Spec == Init /\ [][Next]_vars /\ WF_due(Turn)

-----------------------------------------------------------------------------
(* Every variable has its type; the tiled template is the gait of the      *)
(* current mode, whose index stays inside gaitModeStates_.                 *)
MotionTypeOK ==
    /\ \A s \in {schedule, published} :
           /\ s.events \in Seq(Int) /\ s.modes \in Seq(ModeNumber)
    /\ currentGaitMode_ \in 0 .. Len(GaitModeStates) - 1
    /\ template = Config(currentGaitMode_).gaitCommand
    /\ elapsed \in 0 .. TilingEnd /\ sinceChange \in 0 .. ChangeMemory
    /\ {due, thrown} \subseteq BOOLEAN

Sound(s) ==
    /\ s.events # <<>> /\ Len(s.modes) = Len(s.events) + 1
    /\ \A i \in 1 .. Len(s.events) - 1 : s.events[i] < s.events[i + 1]
    /\ s.modes[1] = "STANCE" /\ s.modes[Len(s.modes)] = "STANCE"

(* However gaits are inserted into a schedule that is trimmed at one end   *)
(* and tiled at the other as the horizon moves (GaitSchedule.cpp:55-147),  *)
(* its events ascend, there is one mode more than events, and it begins    *)
(* and ends standing, which the searches in it rely on; so no solve ends   *)
(* in an exception of the tiling (line 130) or of the swing planner        *)
(* (SwingTrajectoryPlanner.cpp:272-289).                                   *)
ScheduleSound == Sound(schedule) /\ Sound(published) /\ ~thrown

(* getPhaseVariable reads the event before and the event after a time of   *)
(* the horizon: from the first event, at 0.5 s, on both exist.             *)
PhaseReadsInside ==
    ~due /\ elapsed >= 10 =>
        \A t \in 0 .. Horizon :
            EventsUpTo(published.events, t) \in 1 .. Len(published.events) - 1

(* The planned curves of a foot do not jump from one phase to the next, as *)
(* long as every swing is over within one phase: in schedules without a    *)
(* flight phase.                                                           *)
CurvesJoined ==
    ~due /\ (\A i \in DOMAIN published.modes : published.modes[i] # "FLY")
        => \A foot \in Foot : Joined(published, foot)

-----------------------------------------------------------------------------
SameModes(s, r, times) == \A t \in times : ModeAtTime(s, t) = ModeAtTime(r, t)

(* A solve finds the feet in the contacts the previous one planned for     *)
(* this moment: a gait inserted then does not begin in the past, although  *)
(* updateGaitSchedule steps back to the beginning of a left stance.  Where *)
(* no gait was inserted nothing changes in the horizon: tiling goes on in  *)
(* the phase in which it left off.                                         *)
PlanKept ==
    [][Solve =>
          /\ SameModes(published, published', {0})
          /\ schedule = published =>
                 SameModes(published, published', 0 .. Horizon)]_vars

Swinging(s, foot) == foot \notin StanceFeet(ModeAtTime(s, 0))

TakeOffTime(s, foot) == s.events[TakeOff(s.modes, foot, PhaseAt(s, 0))]

(* A foot in the air keeps the take-off its curves start from, unless a    *)
(* gait was inserted while it flies over several phases.                   *)
SwingKept ==
    [][Solve =>
          \A foot \in Foot :
              /\ Swinging(published, foot) /\ Swinging(published', foot)
              /\ \/ schedule = published
                 \/ ModeAtTime(published, 0) # "FLY"
                    /\ \A i \in DOMAIN published.modes :
                           published.modes[i] # "FLY"
              => TakeOffTime(published', foot) = TakeOffTime(published, foot)]_vars

(* With the command kept, the gait settles: however the velocity of the    *)
(* base varies, it is not changed for ever.                                *)
GaitSettles ==
    \A raw \in RawCommands :
        <>[](command = Scale(raw)) =>
            <>[][currentGaitMode_' = currentGaitMode_]_vars

(* Told to stop, a robot that does slow down comes to stand: in the end    *)
(* every contact of the horizon is standing.                               *)
StopsWhenTold ==
    <>[](command = Rest /\ baseVelocity = Rest) =>
        <>[](\A i \in DOMAIN published.modes : published.modes[i] = "STANCE")
=============================================================================
