---------------------------- MODULE GaitSchedule ----------------------------
(***************************************************************************)
(* The contact schedule of the workspace stack: which feet stand in which  *)
(* interval of time (humanoid_common_mpc/gait).  A schedule has one mode   *)
(* more than it has events: modes[i] holds from events[i-1], exclusive, to *)
(* events[i], inclusive.  A template is one period of a gait; its first    *)
(* switching time is zero.                                                 *)
(*                                                                         *)
(* The operators are the methods of GaitSchedule, from schedule to         *)
(* schedule.  An operator named ...Defect is the definition that follows   *)
(* it with a plausible bug.                                                *)
(***************************************************************************)
EXTENDS Integers, SequencesExt

Foot == {"left", "right"}

(* modeNumber2StanceLeg *)
StanceFeet(mode) == CASE mode = "STANCE" -> Foot
                      [] mode = "LF"     -> {"left"}
                      [] mode = "RF"     -> {"right"}
                      [] mode = "FLY"    -> {}

ModeNumber == {"STANCE", "LF", "RF", "FLY"}

(* std::lower_bound and std::upper_bound on ascending times.               *)
EventsBefore(times, t) == Cardinality({i \in DOMAIN times : times[i] < t})
EventsUpTo(times, t)   == Cardinality({i \in DOMAIN times : times[i] <= t})

PhaseAt(s, t)    == EventsBefore(s.events, t) + 1
ModeAtTime(s, t) == s.modes[PhaseAt(s, t)]

-----------------------------------------------------------------------------
(* How often a template of the given period is laid from start until final *)
(* is reached.                                                             *)
Repetitions(start, final, period) ==
    IF start < final THEN (final - start + period - 1) \div period ELSE 0

TileThrows(s, start) == s.events # <<>> /\ start <= Last(s.events)

(* Whole templates, until the final time is reached, then standing.        *)
TileModeSequenceTemplate(s, template, start, final) ==
    LET n == Len(template.modes)
        period == template.times[n + 1]
        tiles == n * Repetitions(start, final, period)
    IN  [events |-> (s.events \o <<start>>) \o
             [i \in 1 .. tiles |-> start + ((i - 1) \div n) * period
                                         + template.times[((i - 1) % n) + 2]],
         modes  |-> (s.modes \o
             [i \in 1 .. tiles |-> template.modes[((i - 1) % n) + 1]])
                 \o <<"STANCE">>]

TrimTooFarDefect(s, lower) ==
    LET index == EventsBefore(s.events, lower)
    IN  IF index = 0 THEN s
        ELSE [events |-> SubSeq(s.events, index + 1, Len(s.events)),
              modes  |-> [SubSeq(s.modes, index + 1, Len(s.modes))
                              EXCEPT ![1] = "STANCE"]]

(* Forget what is past, but for the last event before the lower bound; the *)
(* mode that ended with it becomes standing.                               *)
Trim(s, lower) ==
    LET index == EventsBefore(s.events, lower)
    IN  IF index = 0 THEN s
        ELSE [events |-> SubSeq(s.events, index, Len(s.events)),
              modes  |-> [SubSeq(s.modes, index, Len(s.modes))
                              EXCEPT ![1] = "STANCE"]]

WithoutLast(s) == [events |-> Front(s.events), modes |-> Front(s.modes)]

(* Where the tiling goes on: the last event, from which the default        *)
(* standing phase would last.                                              *)
TilingStart(s, upper) == IF s.events = <<>> THEN upper ELSE Last(s.events)

GetModeSchedule(s, template, lower, upper) ==
    LET kept == Trim(s, lower)
    IN  TileModeSequenceTemplate(WithoutLast(kept), template,
                                 TilingStart(kept, upper), upper)

GetModeScheduleThrows(s, lower, upper) ==
    LET kept == Trim(s, lower)
    IN  TileThrows(WithoutLast(kept), TilingStart(kept, upper))

-----------------------------------------------------------------------------
CutDefect(s, start) ==
    LET index == EventsBefore(s.events, start)
    IN  IF index < Len(s.events)
        THEN [events |-> SubSeq(s.events, 1, index),
              modes  |-> SubSeq(s.modes, 1, index)]
        ELSE s

(* Everything after the mode in force at the start is given up.            *)
Cut(s, start) ==
    LET index == EventsBefore(s.events, start)
    IN  IF index < Len(s.events)
        THEN [events |-> SubSeq(s.events, 1, index),
              modes  |-> SubSeq(s.modes, 1, index + 1)]
        ELSE s

(* The standing phase put between two gaits.                               *)
TransitionTime(s, transition) ==
    IF Last(s.modes) = "STANCE" THEN 0 ELSE transition

AddTransition(s, start, transition) ==
    IF TransitionTime(s, transition) > 0
    THEN [events |-> Append(s.events, start), modes |-> Append(s.modes, "STANCE")]
    ELSE s

InsertModeSequenceTemplate(s, template, transition, start, final) ==
    LET kept == Cut(s, start)
    IN  TileModeSequenceTemplate(AddTransition(kept, start, transition), template,
            start + TransitionTime(kept, transition), final)

InsertThrows(s, transition, start) ==
    LET kept == Cut(s, start)
    IN  TileThrows(AddTransition(kept, start, transition),
                   start + TransitionTime(kept, transition))

-----------------------------------------------------------------------------
(* GaitScheduleUpdater::updateGaitSchedule.  The new gait starts with the  *)
(* first event after seven tenths of the horizon, or, when the left foot   *)
(* stands until then, where that stance began.                             *)
NextEventTimeDefect(s, init, final) ==
    LET next == EventsUpTo(s.events, (7 * final + 3 * init) \div 10) + 1
    IN  IF next > Len(s.events) THEN final
        ELSE IF s.modes[next] = "LF" THEN init
        ELSE s.events[next]

NextEventTime(s, init, final) ==
    LET next == EventsUpTo(s.events, (7 * final + 3 * init) \div 10) + 1
    IN  IF next > Len(s.events) THEN final
        ELSE IF ModeAtTime(s, s.events[next]) = "LF" THEN s.events[next - 1]
        ELSE s.events[next]
=============================================================================
