---------------------------- MODULE LateDataProofs ----------------------------
(***************************************************************************)
(* Proofs about LateData.tla, for any events, any division of the day and  *)
(* any hour of the last run of CCX.                                        *)
(*                                                                         *)
(* LateInv adds to NoSilentLateData that the first day is over, so that    *)
(* the deadline exists, and that the run of its day is over when data is   *)
(* counted as late (CountedOver).  Data that is not late when the clock is *)
(* read is exported by the run of its day, which is then still to come.    *)
(***************************************************************************)
EXTENDS LateData, TLAPS

LateInv == TypeOK /\ InstantsPerDay <= now /\ NoSilentLateData

\* The last instant at which the data of time t may be exported.
LastExport(t) == (Day(t) + 1) * InstantsPerDay + LastRun

\* No run will export what was counted, unless it is of midnight sharp.
CountedOver ==
    \A e \in counted : now > LastExport(time[e]) \/ time[e] = Midnight(time[e])

-------------------------------------------------------------------------------
(* Days.                                                                   *)

\* Every instant is within the day that starts at its midnight.
LEMMA WithinDay ==
  ASSUME NEW t \in Nat
  PROVE  /\ Day(t) \in Nat /\ Midnight(t) \in Nat
         /\ Midnight(t) <= t /\ t < Midnight(t) + InstantsPerDay
BY TimeAssumption DEF Day, Midnight

\* A later day starts when an earlier one is over.
LEMMA DaysApart ==
  ASSUME NEW a \in Nat, NEW b \in Nat, a < b
  PROVE  a * InstantsPerDay + InstantsPerDay <= b * InstantsPerDay
<1>1. PICK c \in Nat : b = a + 1 + c
  <2>1. b - a - 1 \in Nat /\ b = a + 1 + (b - a - 1)
    OBVIOUS
  <2> QED  BY <2>1
<1>2. b * InstantsPerDay = a * InstantsPerDay + InstantsPerDay + c * InstantsPerDay
  BY <1>1, TimeAssumption
<1>3. c * InstantsPerDay \in Nat
  BY TimeAssumption
<1>4. a * InstantsPerDay \in Nat
  BY TimeAssumption
<1> QED  BY <1>2, <1>3, <1>4, TimeAssumption

\* The days of two instants are as far apart as their midnights.
LEMMA DayOf ==
  ASSUME NEW t \in Nat, NEW d \in Nat,
         d * InstantsPerDay <= t, t < d * InstantsPerDay + InstantsPerDay
  PROVE  Day(t) = d
<1>1. ~(Day(t) < d)
  <2> SUFFICES ASSUME Day(t) < d  PROVE FALSE
    OBVIOUS
  <2>1. Day(t) * InstantsPerDay + InstantsPerDay <= d * InstantsPerDay
    BY WithinDay, DaysApart
  <2>2. d * InstantsPerDay \in Nat /\ Day(t) * InstantsPerDay \in Nat
    BY WithinDay, TimeAssumption
  <2> QED  BY <2>1, <2>2, WithinDay, TimeAssumption DEF Midnight
<1>2. ~(d < Day(t))
  <2> SUFFICES ASSUME d < Day(t)  PROVE FALSE
    OBVIOUS
  <2>1. d * InstantsPerDay + InstantsPerDay <= Day(t) * InstantsPerDay
    BY WithinDay, DaysApart
  <2>2. d * InstantsPerDay \in Nat /\ Day(t) * InstantsPerDay \in Nat
    BY WithinDay, TimeAssumption
  <2> QED  BY <2>1, <2>2, WithinDay, TimeAssumption DEF Midnight
<1> QED  BY <1>1, <1>2, WithinDay

\* The day after starts when the day ends.
LEMMA NextDay ==
  ASSUME NEW t \in Nat
  PROVE  (Day(t) + 1) * InstantsPerDay = Midnight(t) + InstantsPerDay
<1>1. \A d, n \in Nat : (d + 1) * n = d * n + n
  OBVIOUS
<1> QED  BY <1>1, WithinDay, TimeAssumption DEF Midnight

\* Two instants are of the same day, or one is of a day that is over for the
\* other; and so are their next days.
LEMMA SameDayOrNot ==
  ASSUME NEW s \in Nat, NEW t \in Nat
  PROVE  /\ \/ Midnight(s) = Midnight(t)
            \/ Midnight(s) + InstantsPerDay <= Midnight(t)
            \/ Midnight(t) + InstantsPerDay <= Midnight(s)
         /\ \/ Midnight(s) <= Midnight(t) + InstantsPerDay
            \/ Midnight(t) + 2 * InstantsPerDay <= Midnight(s)
<1>1. Day(s) \in Nat /\ Day(t) \in Nat /\ Day(t) + 1 \in Nat
  BY WithinDay
<1>2. \/ Midnight(s) = Midnight(t)
      \/ Midnight(s) + InstantsPerDay <= Midnight(t)
      \/ Midnight(t) + InstantsPerDay <= Midnight(s)
  <2>1. CASE Day(s) = Day(t)
    BY <2>1 DEF Midnight
  <2>2. CASE Day(s) < Day(t)
    BY <1>1, <2>2, DaysApart DEF Midnight
  <2>3. CASE Day(t) < Day(s)
    BY <1>1, <2>3, DaysApart DEF Midnight
  <2> QED  BY <1>1, <2>1, <2>2, <2>3
<1>3. \/ Midnight(s) <= Midnight(t) + InstantsPerDay
      \/ Midnight(t) + 2 * InstantsPerDay <= Midnight(s)
  <2>1. CASE Day(s) = Day(t) + 1
    <3>1. Midnight(s) = (Day(t) + 1) * InstantsPerDay
      BY <2>1 DEF Midnight
    <3> QED  BY <3>1, NextDay, WithinDay, TimeAssumption
  <2>2. CASE Day(s) < Day(t) + 1
    <3>1. Midnight(s) + InstantsPerDay <= (Day(t) + 1) * InstantsPerDay
      BY <1>1, <2>2, DaysApart DEF Midnight
    <3> QED  BY <3>1, NextDay, WithinDay, TimeAssumption
  <2>3. CASE Day(t) + 1 < Day(s)
    <3>1. (Day(t) + 1) * InstantsPerDay + InstantsPerDay <= Midnight(s)
      BY <1>1, <2>3, DaysApart DEF Midnight
    <3> QED  BY <3>1, NextDay, WithinDay, TimeAssumption
  <2> QED  BY <1>1, <2>1, <2>2, <2>3
<1> QED  BY <1>2, <1>3

\* The deadline, once the first day is over, is one of the last two midnights.
LEMMA DeadlineNat ==
  ASSUME NEW t \in Nat, InstantsPerDay <= t
  PROVE  Deadline(t) \in Nat
<1>1. Day(t) # 0
  <2> SUFFICES ASSUME Day(t) = 0  PROVE FALSE
    OBVIOUS
  <2>1. Midnight(t) = 0
    BY TimeAssumption DEF Midnight
  <2> QED  BY <2>1, WithinDay, TimeAssumption
<1>2. InstantsPerDay <= Midnight(t)
  <2>1. 0 * InstantsPerDay + InstantsPerDay <= Day(t) * InstantsPerDay
    BY <1>1, WithinDay, DaysApart
  <2> QED  BY <2>1, TimeAssumption DEF Midnight
<1> QED  BY <1>2, WithinDay, TimeAssumption DEF Deadline

-------------------------------------------------------------------------------
(* The invariant.                                                          *)

\* The clock starts in the second day, and nothing is stored.
LEMMA LateInit == Init => LateInv
<1> SUFFICES ASSUME Init  PROVE LateInv
  OBVIOUS
<1>1. now \in Nat /\ InstantsPerDay <= now
  BY TimeAssumption DEF Init
<1> QED  BY <1>1 DEF Init, LateInv, TypeOK, NoSilentLateData, stored

\* Events and the clock preserve the types.
LEMMA TypeStep ==
  ASSUME TypeOK, [Next]_vars
  PROVE  TypeOK'
<1> USE DEF TypeOK, stored
<1>1. ASSUME NEW e \in Event, NEW k \in {"projected", "HostState"},
             NEW t \in 0 .. MaxTime, Process(e, k, t)
      PROVE  TypeOK'
  BY <1>1, TimeAssumption DEF Process
<1>2. ASSUME NEW e \in Event, InnerSucceeds(e) \/ InnerFails(e)
      PROVE  TypeOK'
  BY <1>2 DEF InnerSucceeds, InnerFails
<1>3. ASSUME NEW e \in Event, Count(e)
      PROVE  TypeOK'
  BY <1>3 DEF Count, IsLate
<1>4. CASE Tick
  BY <1>4 DEF Tick
<1>5. CASE UNCHANGED vars
  BY <1>5 DEF vars
<1> QED  BY <1>1, <1>2, <1>3, <1>4, <1>5 DEF Next, EventStep

\* Data that is not late when the clock is read can still be exported.
LEMMA NotLateYet ==
  ASSUME LateInv, NEW e \in Event, kind[e] = "projected", ~IsLate(e)
  PROVE  now <= LastExport(time[e])
<1> DEFINE t == time[e]
<1>1. t \in Nat /\ now \in Nat /\ InstantsPerDay <= now
  BY DEF LateInv, TypeOK
<1>2. Deadline(now) < t
  BY <1>1, DeadlineNat DEF IsLate
<1>3. Midnight(now) - InstantsPerDay < t /\ t < Midnight(t) + InstantsPerDay
  BY <1>1, <1>2, WithinDay, TimeAssumption DEF Deadline
<1>4. LastExport(t) = Midnight(t) + InstantsPerDay + LastRun
  BY <1>1, NextDay DEF LastExport
<1>5. CASE LastRun < now - Midnight(now)
  <2>1. Midnight(now) < t
    BY <1>1, <1>2, <1>5, WithinDay, TimeAssumption DEF Deadline
  <2>2. \/ Midnight(now) = Midnight(t)
        \/ Midnight(now) + InstantsPerDay <= Midnight(t)
        \/ Midnight(t) + InstantsPerDay <= Midnight(now)
    BY <1>1, SameDayOrNot
  <2>3. Midnight(now) \in Nat /\ Midnight(t) \in Nat
    BY <1>1, WithinDay
  <2>4. Midnight(now) <= Midnight(t)
    BY <1>1, <1>3, <2>1, <2>2, <2>3, TimeAssumption
  <2> QED  BY <1>1, <1>4, <2>4, WithinDay, TimeAssumption
<1>6. CASE ~(LastRun < now - Midnight(now))
  <2>1. Midnight(now) <= Midnight(t) + InstantsPerDay
    BY <1>1, <1>3, SameDayOrNot, WithinDay, TimeAssumption, SMTT(30)
  <2> QED  BY <1>1, <1>4, <1>6, <2>1, WithinDay, TimeAssumption
<1> QED  BY <1>5, <1>6

\* The run of a day's data comes on the next day, at LastRun.
LEMMA ExportDay ==
  ASSUME NEW t \in Nat, NEW n \in Nat, n = LastExport(t)
  PROVE  n - Midnight(n) = LastRun /\ Day(t) = Day(n) - 1
<1>1. Day(t) + 1 \in Nat /\ (Day(t) + 1) * InstantsPerDay \in Nat
  BY WithinDay, NextDay, TimeAssumption
<1>2. Day(n) = Day(t) + 1
  BY <1>1, DayOf, TimeAssumption DEF LastExport
<1>3. Midnight(n) = (Day(t) + 1) * InstantsPerDay
  BY <1>2 DEF Midnight
<1> QED  BY <1>1, <1>2, <1>3, WithinDay, TimeAssumption DEF LastExport

\* The clock passes the last export of stored data only by exporting it.
LEMMA TickExports ==
  ASSUME LateInv, Tick
  PROVE  NoSilentLateData'
<1> SUFFICES ASSUME NEW e \in Event, (e \in stored)', (stage[e] = "done")',
                    e \notin counted', e \notin exported'
             PROVE  now' <= LastExport(time'[e])
  BY DEF NoSilentLateData, LastExport, Day, stored
<1>1. /\ e \in stored /\ stage[e] = "done" /\ e \notin counted
      /\ time'[e] = time[e] /\ now' = now + 1 /\ e \notin exported
  BY DEF Tick, stored
<1>2. now \in Nat /\ time[e] \in Nat /\ LastExport(time[e]) \in Nat
  BY NextDay, WithinDay, TimeAssumption DEF LateInv, TypeOK, LastExport
<1>3. now <= LastExport(time[e])
  BY <1>1 DEF LateInv, NoSilentLateData, LastExport
<1>4. now # LastExport(time[e])
  BY <1>1, <1>2, ExportDay DEF Tick
<1> QED  BY <1>1, <1>2, <1>3, <1>4

\* LateInv is an invariant.
LEMMA Invariance == Spec => []LateInv
<1>1. LateInv /\ [Next]_vars => LateInv'
  <2> SUFFICES ASSUME LateInv, [Next]_vars
               PROVE  LateInv'
    OBVIOUS
  <2>1. TypeOK'
    BY TypeStep DEF LateInv
  <2>2. InstantsPerDay <= now'
    BY TimeAssumption DEF LateInv, TypeOK, Next, EventStep, Process, InnerSucceeds,
       InnerFails, Count, Tick, vars
  <2>3. ASSUME NEW e \in Event, NEW k \in {"projected", "HostState"},
               NEW t \in 0 .. MaxTime, Process(e, k, t)
        PROVE  NoSilentLateData'
    BY <2>3 DEF LateInv, TypeOK, NoSilentLateData, stored, Process
  <2>4. ASSUME NEW e \in Event, InnerSucceeds(e) \/ InnerFails(e)
        PROVE  NoSilentLateData'
    BY <2>4 DEF LateInv, TypeOK, NoSilentLateData, stored, InnerSucceeds, InnerFails
  <2>5. ASSUME NEW e \in Event, Count(e)
        PROVE  NoSilentLateData'
    <3>1. (e \in stored)' /\ e \notin counted' => now <= LastExport(time[e])
      BY <2>5, NotLateYet DEF Count, stored
    <3> QED
      BY <2>5, <3>1 DEF LateInv, TypeOK, NoSilentLateData, stored, Count, LastExport
  <2>6. Tick => NoSilentLateData'
    BY TickExports
  <2>7. UNCHANGED vars => NoSilentLateData'
    BY DEF LateInv, NoSilentLateData, stored, vars
  <2>8. NoSilentLateData'
    BY <2>3, <2>4, <2>5, <2>6, <2>7 DEF Next, EventStep
  <2> QED  BY <2>1, <2>2, <2>8 DEF LateInv
<1> QED  BY LateInit, <1>1, PTL DEF Spec

-------------------------------------------------------------------------------
(* The theorems.                                                           *)

\* Types; only processed data is counted, only stored data is exported.
THEOREM TypeCorrect == Spec => []TypeOK
BY Invariance, PTL DEF LateInv

\* CountLateData: data that the last run of its day missed is counted, however
\* long after the write the clock is read.
THEOREM NothingLateIsSilent == Spec => []NoSilentLateData
BY Invariance, PTL DEF LateInv

\* Data that is late was missed, unless it is of midnight sharp.
LEMMA LateIsMissed ==
  ASSUME LateInv, NEW e \in Event, IsLate(e)
  PROVE  now > LastExport(time[e]) \/ time[e] = Midnight(time[e])
<1> DEFINE t == time[e]
<1>1. t \in Nat /\ now \in Nat /\ InstantsPerDay <= now
  BY DEF LateInv, TypeOK
<1>2. t <= Deadline(now)
  BY DEF IsLate
<1>3. LastExport(t) = Midnight(t) + InstantsPerDay + LastRun
  BY <1>1, NextDay DEF LastExport
<1>4. /\ Midnight(t) \in Nat /\ Midnight(now) \in Nat
      /\ Midnight(t) <= t /\ Midnight(now) <= now
      /\ t < Midnight(t) + InstantsPerDay
  BY <1>1, WithinDay
<1>5. CASE LastRun < now - Midnight(now)
  <2>1. t <= Midnight(now)
    BY <1>2, <1>5 DEF Deadline
  <2>2. Midnight(t) = Midnight(now) \/ Midnight(t) + InstantsPerDay <= Midnight(now)
    BY <1>1, <1>4, <2>1, SameDayOrNot, TimeAssumption
  <2> QED  BY <1>1, <1>3, <1>5, <1>4, <2>1, <2>2, TimeAssumption
<1>6. CASE ~(LastRun < now - Midnight(now))
  <2>1. t <= Midnight(now) - InstantsPerDay
    BY <1>2, <1>6 DEF Deadline
  <2>2. \/ Midnight(now) <= Midnight(t) + InstantsPerDay
        \/ Midnight(t) + 2 * InstantsPerDay <= Midnight(now)
    BY <1>1, SameDayOrNot
  <2> QED  BY <1>1, <1>3, <1>4, <2>1, <2>2, TimeAssumption
<1> QED  BY <1>5, <1>6

\* CountedOver is an invariant.
LEMMA CountedInvariance == Spec => []CountedOver
<1>1. Init => CountedOver
  BY DEF Init, CountedOver
<1>2. LateInv /\ CountedOver /\ [Next]_vars => CountedOver'
  <2> SUFFICES ASSUME LateInv, CountedOver, [Next]_vars, NEW e \in counted'
               PROVE  now' > LastExport(time'[e]) \/ time'[e] = Midnight(time'[e])
    BY DEF CountedOver, LastExport, Day, Midnight
  <2>1. /\ now \in Nat /\ now' \in Nat /\ now <= now'
        /\ e \in counted => e \in Event /\ stage[e] = "done" /\ time[e] \in Nat
    BY DEF LateInv, TypeOK, stored, Next, EventStep, Process, InnerSucceeds,
       InnerFails, Count, Tick, vars
  <2>2. CASE e \in counted
    <3>1. time'[e] = time[e]
      BY <2>1, <2>2 DEF LateInv, TypeOK, Next, EventStep, Process, InnerSucceeds,
         InnerFails, Count, Tick, vars
    <3>2. LastExport(time[e]) \in Nat
      BY <2>1, <2>2, WithinDay, NextDay, TimeAssumption DEF LastExport
    <3> QED  BY <2>1, <2>2, <3>1, <3>2 DEF CountedOver
  <2>3. CASE e \notin counted
    <3>1. e \in Event /\ Count(e) /\ IsLate(e)
      BY <2>3 DEF Next, EventStep, Process, InnerSucceeds, InnerFails, Count, Tick, vars
    <3>2. UNCHANGED <<now, time>>
      BY <3>1 DEF Count
    <3> QED  BY <3>1, <3>2, LateIsMissed
  <2> QED  BY <2>2, <2>3
<1> QED  BY <1>1, <1>2, Invariance, PTL DEF Spec

\* CountLateData: no run after the count exports what was counted as late, data
\* of midnight sharp excepted.
THEOREM LateStaysOut == Spec => LateIsFinal
<1>1. LateInv /\ CountedOver /\ [Next]_vars =>
        [\A e \in counted :
            e \in exported' \ exported => time[e] = Midnight(time[e])]_vars
  <2> SUFFICES ASSUME LateInv, CountedOver, [Next]_vars, NEW e \in counted,
                      e \in exported' \ exported
               PROVE  time[e] = Midnight(time[e])
    OBVIOUS
  <2> DEFINE t == time[e]
  <2>1. /\ now \in Nat /\ t \in Nat
        /\ now > LastExport(t) \/ t = Midnight(t)
        /\ Day(t) \in Nat /\ Day(now) \in Nat
    BY WithinDay DEF LateInv, TypeOK, stored, CountedOver
  <2>2. now - Midnight(now) = LastRun /\ Day(t) = Day(now) - 1
    BY DEF Next, EventStep, Process, InnerSucceeds, InnerFails, Count, Tick, vars
  <2>3. Day(t) + 1 = Day(now)
    BY <2>1, <2>2
  <2>4. LastExport(t) = Midnight(now) + LastRun
    BY <2>3 DEF LastExport, Midnight
  <2>5. Midnight(now) \in Nat /\ LastRun \in Nat
    <3>1. now \in Nat
      BY <2>1
    <3> QED  BY <3>1, WithinDay, TimeAssumption
  <2> HIDE DEF t
  <2>6. now = LastExport(t)
    BY <2>1, <2>2, <2>4, <2>5
  <2> QED  BY <2>1, <2>6 DEF t
<1> QED  BY <1>1, Invariance, CountedInvariance, PTL DEF Spec, LateIsFinal
===============================================================================
