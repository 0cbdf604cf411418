---------------------------- MODULE MCHvacRuntime ----------------------------
(* Instances of HvacRuntime for TLC: its quarters and temperatures as model  *)
(* values, and the schedules of the server written with them.                *)
EXTENDS HvacRuntime

CONSTANTS low, high, q1, q2

Ask(m, s, d) == [mode |-> m, setpoint |-> s, time |-> d]
MCRequests == {Ask("weekly", NoSetpoint, 0), Ask("off", NoSetpoint, 0),
               Ask("turn_on", high, 1)}
MCUpdates == {[on |-> "off", setpoint |-> high]}
MCSchedules == {[q \in Quarter |-> IF q = q1 THEN low ELSE "off"],
                [q \in Quarter |-> IF q = q1 THEN "none" ELSE "invalid"]}
==============================================================================
