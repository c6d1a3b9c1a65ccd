------------------------------ MODULE MySleep ------------------------------
(***************************************************************************)
(* pr7t7.c: sleep built from alarm, pause and a handler for SIGALRM, and   *)
(* the part of main that calls it with an alarm pending.  Time is counted  *)
(* in seconds; while the process is not paused it may be held up at any    *)
(* step, for MaxDelay seconds in all.                                      *)
(***************************************************************************)
EXTENDS Integers

CONSTANTS
    Seconds,            (* what my_sleep is called with                     *)
    Earlier,            (* seconds of the alarm set before, 0 for none      *)
    MaxDelay            (* bound: seconds that pass outside pause           *)

VARIABLES
    now,
    timer,              (* time at which SIGALRM comes, or Never            *)
    handler,            (* what SIGALRM does: "default" ends the process    *)
    alarm_fired,
    remaining_time,
    pc,
    delay,              (* what MaxDelay bounds                             *)
    (* History, for the properties: *)
    started,            (* when my_sleep was called                         *)
    cancelled,          (* when it called alarm(0)                          *)
    late                (* seconds since then during which no alarm was set *)

history == <<started, cancelled, late>>
vars    == <<now, timer, handler, alarm_fired, remaining_time, pc, delay, history>>

Never    == -1
After(s) == IF s = 0 THEN Never ELSE now + s
Left     == IF timer = Never THEN 0 ELSE timer - now

Init ==
    /\ now = 0 /\ timer = After(Earlier)
    /\ handler = "default" /\ alarm_fired = FALSE
    /\ remaining_time = 0
    /\ pc = "signal" /\ delay = 0
    /\ started = 0 /\ cancelled = 0 /\ late = 0

Goto(from, to) == pc = from /\ pc' = to

-----------------------------------------------------------------------------
(* The clock and the signal: SIGALRM comes the moment it is due.           *)

Tick ==
    /\ timer # now /\ pc \notin {"awake", "killed"}
    /\ IF pc = "paused" THEN timer # Never /\ UNCHANGED delay
       ELSE delay < MaxDelay /\ delay' = delay + 1
    /\ now' = now + 1
    /\ started' = IF pc = "signal" THEN now' ELSE started
    /\ late' = IF timer = Never /\ pc \notin {"signal", "cancel"} THEN late + 1 ELSE late
    /\ UNCHANGED <<timer, handler, alarm_fired, remaining_time, pc, cancelled>>

(* Mutant: the handler does nothing. *)
HandlerIdle     == UNCHANGED alarm_fired
sigalrm_handler == alarm_fired' = TRUE

Alarm ==
    /\ timer = now
    /\ timer' = Never
    /\ IF handler = "default"
       THEN pc' = "killed" /\ UNCHANGED alarm_fired
       ELSE /\ sigalrm_handler
            /\ pc' = IF pc = "paused" THEN "check" ELSE pc
    /\ UNCHANGED <<now, handler, remaining_time, delay, history>>

-----------------------------------------------------------------------------
(* my_sleep *)

Running == timer # now

InstallHandler ==
    /\ Running /\ Goto("signal", "cancel")
    /\ handler' = "fired"
    /\ UNCHANGED <<now, timer, alarm_fired, remaining_time, delay, history>>

(* remaining_time = alarm(0) *)
CancelEarlier ==
    /\ Running /\ Goto("cancel", "clear")
    /\ remaining_time' = Left /\ timer' = Never
    /\ cancelled' = now
    /\ UNCHANGED <<now, handler, alarm_fired, delay, started, late>>

(* Mutant: the flag is not cleared, and an alarm that came before counts.  *)
ClearNothing ==
    /\ Running /\ Goto("clear", "set")
    /\ UNCHANGED <<now, timer, handler, alarm_fired, remaining_time, delay, history>>

ClearFlag ==
    /\ Running /\ Goto("clear", "set")
    /\ alarm_fired' = FALSE
    /\ UNCHANGED <<now, timer, handler, remaining_time, delay, history>>

SetAlarm ==
    /\ Running /\ Goto("set", "check")
    /\ timer' = After(Seconds)
    /\ UNCHANGED <<now, handler, alarm_fired, remaining_time, delay, history>>

(* The test of the loop and the call of pause are two steps. *)
Check ==
    /\ Running /\ pc = "check"
    /\ pc' = IF alarm_fired THEN "restore" ELSE "pause"
    /\ UNCHANGED <<now, timer, handler, alarm_fired, remaining_time, delay, history>>

Pause ==
    /\ Running /\ Goto("pause", "paused")
    /\ UNCHANGED <<now, timer, handler, alarm_fired, remaining_time, delay, history>>

RestoreHandler ==
    /\ Running /\ Goto("restore", "rearm")
    /\ handler' = "default"
    /\ UNCHANGED <<now, timer, alarm_fired, remaining_time, delay, history>>

(* Lines 31-40.  Mutant: the comparison is the wrong way round. *)
TimeLeftReversed == IF remaining_time < Seconds THEN Seconds - remaining_time ELSE 0

(* Mutant: what my_sleep took is not taken off. *)
TimeLeftWhole == remaining_time

TimeLeft == IF Seconds < remaining_time THEN remaining_time - Seconds ELSE 0

Rearm ==
    /\ Running /\ Goto("rearm", "awake")
    /\ remaining_time' = TimeLeft
    /\ timer' = After(TimeLeft)
    /\ UNCHANGED <<now, handler, alarm_fired, delay, history>>

Step == InstallHandler \/ CancelEarlier \/ ClearFlag \/ SetAlarm \/ Check \/ Pause
            \/ RestoreHandler \/ Rearm

Next == Tick \/ Alarm \/ Step

Spec == Init /\ [][Next]_vars /\ WF_vars(Tick) /\ WF_vars(Alarm) /\ WF_vars(Step)

-----------------------------------------------------------------------------
(* my_sleep sleeps for the time it was asked to, also when the alarm set   *)
(* before goes off on the way, between its signal and its alarm(0).        *)
SleepsLongEnough == pc \in {"restore", "rearm", "awake"} => now >= started + Seconds

(* An alarm set before is lost exactly when it falls due before the sleep  *)
(* could have ended: the handler of my_sleep swallows it before alarm(0),  *)
(* or lines 34-37 drop what remains of it.  Otherwise it is set again when *)
(* my_sleep returns, and later than it was due by just those seconds       *)
(* during which the process was held up with no alarm set.                 *)
EarlierAlarmKept ==
    pc = "awake" => timer = IF Earlier <= cancelled + Seconds THEN Never ELSE Earlier + late

(* my_sleep returns, unless the alarm comes between the test of the flag   *)
(* and pause: then the process waits for a signal although the flag is     *)
(* set, and "Awake!" (line 51) is never printed.  Nothing else stops it.   *)
AwakesOrMissesAlarm ==
    <>(pc \in {"awake", "killed"} \/ (pc = "paused" /\ alarm_fired))
=============================================================================
