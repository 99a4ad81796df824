---------------------------------- MODULE Alarms ----------------------------------
(***************************************************************************)
(* common/device/alarm.py: the alarms of a device between the conditions   *)
(* that set them, the acknowledgements, and the copies of their states     *)
(* that a snapshot or a restart brings back.  Alarms do not depend on each *)
(* other, so there is one; its value, threshold and count are left out.    *)
(***************************************************************************)
VARIABLES
    alarm,             \* AlarmState
    stored,            \* what a snapshot or the persisted file holds of it
    unseen             \* history: [now, stored] an occurrence nobody has acknowledged

alarmVars == <<alarm, stored, unseen>>

AlarmState == [active : BOOLEAN, latched : BOOLEAN, acked : BOOLEAN]

AlarmsInit ==
    /\ alarm = [active |-> FALSE, latched |-> FALSE, acked |-> FALSE]
    /\ stored = alarm
    /\ unseen = [now |-> FALSE, stored |-> FALSE]

Shown(a)   == a.active \/ a.latched       \* its bit in words()
Unacked(a) == a.latched /\ ~a.acked       \* any_unacked

-----------------------------------------------------------------------------
\* Mutant: an alarm that is latched still is not a new one.
SetAgain(condition) ==
    IF condition /\ ~alarm.active
    THEN [active |-> TRUE, latched |-> TRUE, acked |-> alarm.latched /\ alarm.acked]
    ELSE [alarm EXCEPT !.active = condition]

(* set(): a condition that begins is a new occurrence.                     *)
Set(condition) ==
    IF condition /\ ~alarm.active
    THEN [active |-> TRUE, latched |-> TRUE, acked |-> FALSE]
    ELSE [alarm EXCEPT !.active = condition]

SetAlarm(condition) ==
    /\ alarm' = Set(condition)
    /\ unseen' = [unseen EXCEPT !.now = @ \/ (condition /\ ~alarm.active)]
    /\ UNCHANGED stored

(* ack_all(), of ACK_ALARM, an accepted RESET_TRIP or a restore that       *)
(* clears the latches: an active alarm is acknowledged, and stays latched  *)
(* when its condition ends, until the next time.                           *)
AckAll ==
    /\ alarm' = [alarm EXCEPT !.acked = @ \/ alarm.latched,
                              !.latched = @ /\ alarm.active]
    /\ unseen' = [unseen EXCEPT !.now = FALSE]
    /\ UNCHANGED stored

(* to_dict() and from_dict().                                              *)
StoreAlarms ==
    /\ stored' = alarm
    /\ unseen' = [unseen EXCEPT !.stored = unseen.now]
    /\ UNCHANGED alarm

RecallAlarms ==
    /\ alarm' = stored
    /\ unseen' = [unseen EXCEPT !.now = unseen.stored]
    /\ UNCHANGED stored

AlarmsNext ==
    \/ \E condition \in BOOLEAN : SetAlarm(condition)
    \/ AckAll \/ StoreAlarms \/ RecallAlarms

AlarmsSpec == AlarmsInit /\ [][AlarmsNext]_alarmVars

-----------------------------------------------------------------------------
AlarmsTypeOK ==
    /\ alarm \in AlarmState /\ stored \in AlarmState
    /\ unseen \in [now : BOOLEAN, stored : BOOLEAN]

(***************************************************************************)
(* An occurrence nobody has acknowledged since is in the alarm words and   *)
(* counts as unacknowledged, even when its condition has ended, when the   *)
(* occurrence before it was acknowledged, and after a restart.             *)
(***************************************************************************)
OccurrencesStay == unseen.now => Shown(alarm) /\ Unacked(alarm)
===============================================================================
