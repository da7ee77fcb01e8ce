---------------------------- MODULE SwingPlanner ----------------------------
(***************************************************************************)
(* The swing trajectory planner of the workspace stack: for every foot and *)
(* every phase of a schedule, the swing the phase is part of and the piece *)
(* of the foot-height and impact-proximity curves planned for it.          *)
(*                                                                         *)
(* Phases and events count from 1, so that a take-off searched for and not *)
(* found is event 0.  A curve is known by where it starts and ends and by  *)
(* the middle of its swing, where its splines have a knot: "contact" is    *)
(* its value on the ground, "mid" its value at the knot.                   *)
(***************************************************************************)
EXTENDS GaitSchedule

InContact(modes, foot) == {p \in DOMAIN modes : foot \in StanceFeet(modes[p])}

(* findIndex: the event that ends the last contact before a phase, and the *)
(* one before the first contact after it.                                  *)
TakeOffDefect(modes, foot, p) ==
    LET before == {q \in InContact(modes, foot) : q < p}
    IN  IF before = {} THEN 0 ELSE Min(before)

TakeOff(modes, foot, p) ==
    Max({q \in InContact(modes, foot) : q < p} \cup {0})

TouchDown(modes, foot, p) ==
    Min({q \in InContact(modes, foot) : q > p} \cup {Len(modes) + 1}) - 1

(* checkThatIndicesAreValid throws for some phase of some foot.            *)
PlannerThrows(modes) ==
    \/ Len(modes) = 1
    \/ \E foot \in Foot : \E p \in DOMAIN modes \ InContact(modes, foot) :
           \/ TakeOff(modes, foot, p) = 0
           \/ TouchDown(modes, foot, p) = Len(modes)

-----------------------------------------------------------------------------
(* The case update() takes for a phase, by the contacts around it.         *)
Piece(modes, foot, p) ==
    LET before == p - 1 \in InContact(modes, foot)
        after  == p + 1 \in InContact(modes, foot)
    IN  IF p \in InContact(modes, foot) THEN "stance"
        ELSE CASE before /\ after  -> "whole"
               [] before /\ ~after -> "takeoff"
               [] ~before /\ after -> "landing"
               [] OTHER            -> "airborne"

(* The value of the piece at time t of a swing from start to final: every  *)
(* piece is stretched over the whole swing.                                *)
PieceValue(piece, start, final, t) ==
    LET fromGround == piece \in {"whole", "takeoff"}
        toGround   == piece \in {"whole", "landing"}
        onGround   == \/ piece = "stance"
                      \/ fromGround /\ t = start
                      \/ toGround /\ t = final
    IN  IF onGround THEN "contact"
        ELSE CASE fromGround /\ 2 * t < start + final -> "rising"
               [] toGround /\ 2 * t > start + final   -> "falling"
               [] OTHER                               -> "mid"

CurveAt(s, foot, p, t) ==
    PieceValue(Piece(s.modes, foot, p),
               IF p \in InContact(s.modes, foot) THEN t
               ELSE s.events[TakeOff(s.modes, foot, p)],
               IF p \in InContact(s.modes, foot) THEN t
               ELSE s.events[TouchDown(s.modes, foot, p)],
               t)

(* The curve of a foot does not jump where one phase follows another.      *)
Joined(s, foot) ==
    \A e \in DOMAIN s.events :
        CurveAt(s, foot, e, s.events[e]) = CurveAt(s, foot, e + 1, s.events[e])
=============================================================================
