--------------------------- MODULE MCMotionManager --------------------------
(* Commands and velocities for TLC: a walker told to run and to stop.      *)
EXTENDS MotionManager

Velocity(x) == [x |-> x, y |-> 0, yaw |-> 0]

MCCommands == {Velocity(0), Velocity(100)}
MCVelocities == {Velocity(0), Velocity(200)}
=============================================================================
