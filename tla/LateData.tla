------------------------------- MODULE LateData -------------------------------
(***************************************************************************)
(* CountLateData (internal/processing/late.go): after an event has been    *)
(* processed successfully, the clock is read and the event is counted as   *)
(* late when CCX, the downstream job, will not pick it up any more.  CCX   *)
(* takes the data of the previous day, for the last time at 2PM.           *)
(*                                                                         *)
(* Time is a number of instants since some midnight; a day has             *)
(* InstantsPerDay of them, the first is midnight and LastRun is 2PM.       *)
(***************************************************************************)
EXTENDS Naturals

CONSTANTS Event,            \* deliveries of events
          InstantsPerDay,
          LastRun,          \* the instant of the day of CCX's last run
          MaxTime           \* bound on the clock

ASSUME TimeAssumption ==
    /\ InstantsPerDay \in Nat \ {0}
    /\ LastRun \in 1 .. InstantsPerDay - 1
    /\ MaxTime \in Nat

VARIABLES now,
          kind,             \* kind[e]: "HostState", or one that is projected
          time,             \* time[e]: its event_time or updated_at
          stage,            \* stage[e]: where CountLateData.Process is
          counted,          \* events counted in late_data_total
          exported          \* events that CCX has picked up

vars == <<now, kind, time, stage, counted, exported>>

Day(t) == t \div InstantsPerDay
Midnight(t) == Day(t) * InstantsPerDay

\* An object in the bucket: its projection returned nil.
stored == {e \in Event : kind[e] = "projected" /\ stage[e] \in {"written", "done"}}

Init ==
    /\ now \in InstantsPerDay .. 2 * InstantsPerDay - 1
    /\ kind = [e \in Event |-> "projected"]
    /\ time = [e \in Event |-> 0]
    /\ stage = [e \in Event |-> "idle"]
    /\ counted = {}
    /\ exported = {}

\* The event arrives; its time is in the past, by any delay.
Process(e, k, t) ==
    /\ stage[e] = "idle"
    /\ t <= now
    /\ kind' = [kind EXCEPT ![e] = k]
    /\ time' = [time EXCEPT ![e] = t]
    /\ stage' = [stage EXCEPT ![e] = "inner"]
    /\ UNCHANGED <<now, counted, exported>>

InnerSucceeds(e) ==
    /\ stage[e] = "inner"
    /\ stage' = [stage EXCEPT ![e] = "written"]
    /\ UNCHANGED <<now, kind, time, counted, exported>>

\* Mutant: failed data is counted too.
InnerFailsCounted(e) ==
    /\ stage[e] = "inner"
    /\ stage' = [stage EXCEPT ![e] = "failed"]
    /\ counted' = counted \cup {e}
    /\ UNCHANGED <<now, kind, time, exported>>

\* Only successfully processed data is counted.
InnerFails(e) ==
    /\ stage[e] = "inner"
    /\ stage' = [stage EXCEPT ![e] = "failed"]
    /\ UNCHANGED <<now, kind, time, counted, exported>>

\* Mutant: the data of the previous day is never late.
DeadlineYesterday(t) == Midnight(t) - InstantsPerDay

\* Mutant: the morning is treated like the evening.
DeadlineToday(t) == Midnight(t)

\* computeDeadline, at the time the clock is read.
Deadline(t) ==
    IF t - Midnight(t) > LastRun THEN Midnight(t) ELSE Midnight(t) - InstantsPerDay

\* `if eventTime.After(limit) return nil`
IsLate(e) == kind[e] # "HostState" /\ time[e] <= Deadline(now)

Count(e) ==
    /\ stage[e] = "written"
    /\ counted' = IF IsLate(e) THEN counted \cup {e} ELSE counted
    /\ stage' = [stage EXCEPT ![e] = "done"]
    /\ UNCHANGED <<now, kind, time, exported>>

\* Time passes; at 2PM, CCX takes what is stored of the previous day.
Tick ==
    /\ now < MaxTime
    /\ now' = now + 1
    /\ exported' = IF now - Midnight(now) = LastRun
                   THEN exported \cup {e \in stored : Day(time[e]) = Day(now) - 1}
                   ELSE exported
    /\ UNCHANGED <<kind, time, stage, counted>>

EventStep(e) ==
    \/ \E k \in {"projected", "HostState"}, t \in 0 .. MaxTime : Process(e, k, t)
    \/ InnerSucceeds(e)
    \/ InnerFails(e)
    \/ Count(e)

Next == Tick \/ \E e \in Event : EventStep(e)

Spec == Init /\ [][Next]_vars

-------------------------------------------------------------------------------
(* Properties.                                                             *)

\* Types; only processed data is counted, only stored data is exported.
TypeOK ==
    /\ now \in Nat
    /\ kind \in [Event -> {"projected", "HostState"}]
    /\ time \in [Event -> Nat]
    /\ stage \in [Event -> {"idle", "inner", "written", "failed", "done"}]
    /\ counted \subseteq {e \in stored : stage[e] = "done"}
    /\ exported \subseteq stored

\* The metric misses no data: an object that CCX will never pick up, because
\* its last run for that day is over, was counted as late.
NoSilentLateData ==
    \A e \in stored :
        (stage[e] = "done" /\ e \notin counted) =>
            \/ e \in exported
            \/ now <= (Day(time[e]) + 1) * InstantsPerDay + LastRun

\* What is counted as late stays out of reach: no run of CCX that comes after the
\* count exports it.  The exception is data of midnight sharp, which is counted a
\* day too early: computeDeadline is compared with After, so its own instant is
\* late.  Nothing is said of a run that comes between the write and the count:
\* it exports the data, which is then counted as late all the same.
LateIsFinal ==
    [][\A e \in counted :
          e \in exported' \ exported => time[e] = Midnight(time[e])]_vars
===============================================================================
