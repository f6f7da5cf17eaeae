---------------------------- MODULE MCScheduling ----------------------------
(* Instances of Scheduling: one connection in each mode, and two where one
   of them is reconciled in full. *)
EXTENDS Scheduling

CONSTANTS c1, c2, startup, jump

OneSinceLast == [c \in {c1} |-> "since_last_run"]
OneCalendar  == [c \in {c1} |-> "calendar_day"]
OneRolling   == [c \in {c1} |-> "rolling_hours"]
FullAndDaily == [c \in {c1, c2} |->
                    IF c = c1 THEN "since_last_run" ELSE "calendar_day"]
=============================================================================
