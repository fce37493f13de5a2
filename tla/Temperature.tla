----------------------------- MODULE Temperature -----------------------------
(***************************************************************************)
(* The temperature of a level: the simulator's sim_fire_sensors thread,    *)
(* which writes the two digits of the sensor one after the other, and the  *)
(* fire alarm's tempmonitor thread and main, which read them with no       *)
(* mutex.  tempmonitor keeps its last samples, the medians of their        *)
(* windows, and raises the alarm on high or on fast rising temperatures.   *)
(*                                                                         *)
(* Bytes are written as their distance from '0', the way both programs     *)
(* compute with them.  The five levels are alike and share nothing but     *)
(* alarm_active.                                                           *)
(***************************************************************************)
EXTENDS Integers, Sequences, FiniteSets

CONSTANTS
  MEDIAN_WINDOW,       \* samples of a median (5)
  TEMPCHANGE_WINDOW,   \* medians the alarm looks back on (30)
  Modes,               \* what temp_mode may be: "N", "F", "R" or other
  NormalUnits          \* last digits of normal temperatures (bound)

\* Both windows are longer than the one node that its list starts with.
ASSUME TemperatureAssumption ==
  /\ MEDIAN_WINDOW \in Nat /\ MEDIAN_WINDOW > 1 /\ MEDIAN_WINDOW % 2 = 1
  /\ TEMPCHANGE_WINDOW \in Nat /\ TEMPCHANGE_WINDOW > 1
  /\ NormalUnits \subseteq {1, 2, 4, 5}

\* That first node may stay cold: there is room for it among the 10% of the
\* medians that need not be hot, or the first median follows soon enough.
ASSUME DetectionAssumption == TEMPCHANGE_WINDOW >= 10 \/ MEDIAN_WINDOW = 3

VARIABLES
  temp_mode,      \* the mode read by the simulator's main
  sensor,         \* level->sensor, two bytes
  alarm,          \* level->alarm, the byte after them
  sim_pc,         \* sim_fire_sensors: where it stands
  pending,        \*   bytes it has yet to write
  oldtemp,        \*   25 when it has replaced the sensor by the default
  temp_high,      \*   whether there is a fire (mode N)
  burnt_out,      \*   high_temp_count > 10000
  alarm_active,   \* the global flag of the fire alarm
  mon_pc,         \* tempmonitor: where it stands
  tens,           \*   firstChar
  temp,           \*   temp
  templist,       \*   the last samples, newest first
  medianlist,     \*   the last medians, newest first
  taken,          \* ghost: samples taken, up to Enough
  hot,            \* ghost: consecutive hot samples, up to HotEnough
  unclear         \* ghost: a fire, or a sensor not yet set, may have been sampled

simVars == <<temp_mode, sensor, sim_pc, pending, oldtemp, temp_high, burnt_out>>
monVars == <<mon_pc, tens, temp, templist, medianlist, taken, hot>>
vars == <<simVars, monVars, alarm, alarm_active, unclear>>

NUL    == 0 - 48      \* '\0'
One    == 1 - 48      \* the number 1 stored in a char, at firealarm.c:148
Digits == 0 .. 9

HOT  == 58
RISE == 8

\* How many samples fill both lists, which start with a node each, and how
\* many hot ones make 90% of the medians hot.
Enough    == MEDIAN_WINDOW + TEMPCHANGE_WINDOW - 3
HotEnough == (9 * TEMPCHANGE_WINDOW + 9) \div 10 + MEDIAN_WINDOW \div 2

\* atoi(sensor): the string has no end of its own, so that atoi reads on into
\* the alarm byte.  The bytes after that one are '\0'.
Atoi ==
  IF sensor[1] \notin Digits THEN 0
  ELSE IF sensor[2] \notin Digits THEN sensor[1]
  ELSE IF alarm \notin Digits THEN sensor[1] * 10 + sensor[2]
  ELSE sensor[1] * 100 + sensor[2] * 10 + alarm

\* Mutant of FirstDigits: a number with three digits is not thought of.
FirstDigitsOfTwo(n) == <<n \div 10, n % 10>>

\* The first two characters of toArray(n).
FirstDigits(n) ==
  IF n < 100 THEN <<n \div 10, n % 10>> ELSE <<n \div 100, (n \div 10) % 10>>

-----------------------------------------------------------------------------
(* sim_fire_sensors                                                        *)

\* The next byte is written; bytes come in pairs, tens first.
SimWrite ==
  /\ pending # <<>>
  /\ sensor' = [sensor EXCEPT ![IF Len(pending) % 2 = 0 THEN 1 ELSE 2] = Head(pending)]
  /\ pending' = Tail(pending)
  /\ UNCHANGED <<temp_mode, sim_pc, oldtemp, temp_high, burnt_out, monVars,
                 alarm, alarm_active, unclear>>

\* A sensor that reads as 0 is set to the default temperature.
SimDefault ==
  /\ sim_pc = "default" /\ pending = <<>>
  /\ sim_pc' = "mode"
  /\ \/ Atoi = 0 /\ oldtemp' = 25 /\ pending' = <<2, 5>>
     \/ Atoi # 0 /\ oldtemp' = 0 /\ UNCHANGED pending
  /\ UNCHANGED <<temp_mode, sensor, temp_high, burnt_out, monVars, alarm,
                 alarm_active, unclear>>

\* Normal mode: the default temperature first, in every round, then the
\* temperature of the moment.  A fire may break out and, in the end, burn out.
SimNormal ==
  /\ temp_mode = "N"
  /\ \/ /\ ~temp_high
        /\ \/ temp_high' = TRUE /\ pending' = <<2, 3>>
           \/ \E u \in NormalUnits : pending' = <<2, 3, 2, u>> /\ UNCHANGED temp_high
        /\ UNCHANGED burnt_out
     \/ /\ temp_high
        /\ \/ burnt_out' = TRUE /\ temp_high' = FALSE /\ pending' = <<2, 3, 6, 1>>
           \/ /\ ~burnt_out
              /\ \E u \in {0, 2} : pending' = <<2, 3, 6, 1, 6, u>>
              /\ UNCHANGED <<temp_high, burnt_out>>

\* Raising mode: sometimes the temperature is raised by 4.
SimRaising ==
  /\ temp_mode = "R"
  /\ \/ pending' = FirstDigits((IF oldtemp # 0 THEN oldtemp ELSE Atoi) + 4)
     \/ UNCHANGED pending
  /\ UNCHANGED <<temp_high, burnt_out>>

SimFixed ==
  /\ temp_mode = "F"
  /\ pending' = <<2, 0>>
  /\ UNCHANGED <<temp_high, burnt_out>>

\* temp_mode is read uninitialised: the switch may have no case for it.
SimOther == temp_mode \notin {"N", "R", "F"} /\ UNCHANGED <<pending, temp_high, burnt_out>>

SimMode ==
  /\ sim_pc = "mode" /\ pending = <<>>
  /\ SimNormal \/ SimRaising \/ SimFixed \/ SimOther
  /\ sim_pc' = "default"
  /\ unclear' = (unclear \/ temp_high \/ temp_high' \/ temp_mode = "R")
  /\ oldtemp' = 0
  /\ UNCHANGED <<temp_mode, sensor, monVars, alarm, alarm_active>>

-----------------------------------------------------------------------------
(* tempmonitor                                                             *)

\* The loop test and the first byte of the sensor.
MonReadTens ==
  /\ mon_pc = "tens" /\ ~alarm_active
  /\ mon_pc' = "units"
  /\ tens' = sensor[1]
  /\ unclear' = (unclear \/ sensor[1] = NUL)
  /\ UNCHANGED <<simVars, alarm, alarm_active, temp, templist, medianlist, taken, hot>>

\* The second byte, written later than the first perhaps.
MonReadUnits ==
  /\ mon_pc = "units"
  /\ mon_pc' = "quiet"
  /\ temp' = tens * 10 + sensor[2]
  /\ tens' = 0
  /\ unclear' = (unclear \/ sensor[2] = NUL)
  /\ UNCHANGED <<simVars, alarm, alarm_active, templist, medianlist, taken, hot>>

\* In every round the alarm of the level is set to '0'.
MonQuiet ==
  /\ mon_pc = "quiet"
  /\ mon_pc' = "sample"
  /\ alarm' = 0
  /\ UNCHANGED <<simVars, alarm_active, tens, temp, templist, medianlist, taken, hot, unclear>>

\* Mutant of Push: one node too few is kept.
PushShort(list, x, n) == SubSeq(<<x>> \o list, 1, IF Len(list) < n - 1 THEN Len(list) + 1 ELSE n - 1)

\* A node is put before the list and those after the n-th are deleted
\* (deletenodes).
Push(list, x, n) == SubSeq(<<x>> \o list, 1, IF Len(list) < n THEN Len(list) + 1 ELSE n)

\* The middle of the list when it has been sorted.
Median(list) ==
  LET Below(x)  == {i \in DOMAIN list : list[i] < x}
      UpTo(x)   == {i \in DOMAIN list : list[i] <= x}
      middle    == (Len(list) - 1) \div 2
  IN  CHOOSE x \in {list[i] : i \in DOMAIN list} :
        Cardinality(Below(x)) <= middle /\ Cardinality(UpTo(x)) > middle

Last(list) == list[Len(list)]

\* 90% of the medians are hot.
HighTemperature(medians) ==
  10 * Cardinality({i \in DOMAIN medians : medians[i] >= HOT}) >= 9 * TEMPCHANGE_WINDOW

\* Mutant of HighRateOfRise: the node the list starts with is not left out.
HighRateOfRiseFromStart(samples, medians) == samples[1] - Last(medians) >= RISE

\* The newest sample against the oldest median, unless it is the zero the
\* list starts with.
HighRateOfRise(samples, medians) ==
  samples[1] - Last(medians) >= RISE /\ Last(medians) # 0

\* The sample and, when there are enough, their median are added to the lists,
\* and the alarm is raised if they say so.
MonSample ==
  /\ mon_pc = "sample"
  /\ LET samples == Push(templist, temp, MEDIAN_WINDOW)
         counted == Len(samples) = MEDIAN_WINDOW
         medians == IF counted THEN Push(medianlist, Median(samples), TEMPCHANGE_WINDOW)
                    ELSE medianlist
         raised  == /\ counted
                    /\ Len(medians) = TEMPCHANGE_WINDOW
                    /\ HighTemperature(medians) \/ HighRateOfRise(samples, medians)
     IN  /\ templist' = samples
         /\ medianlist' = medians
         /\ alarm_active' = raised
         /\ mon_pc' = IF raised THEN "mark" ELSE "tens"
  /\ taken' = IF taken < Enough THEN taken + 1 ELSE taken
  /\ hot' = IF temp < HOT THEN 0 ELSE IF hot < HotEnough THEN hot + 1 ELSE hot
  /\ temp' = 0
  /\ UNCHANGED <<simVars, alarm, tens, unclear>>

\* The alarm of the level becomes the number 1, not '1', and the thread ends:
\* nobody reads its lists any more.
MonMark ==
  /\ mon_pc = "mark"
  /\ mon_pc' = "done"
  /\ alarm' = One
  /\ templist' = <<0>> /\ medianlist' = <<0>>
  /\ UNCHANGED <<simVars, alarm_active, tens, temp, taken, hot, unclear>>

\* main sees the alarm and sets that of every level.
MainAlarm ==
  /\ alarm_active
  /\ alarm' = 1
  /\ UNCHANGED <<simVars, monVars, alarm_active, unclear>>

-----------------------------------------------------------------------------

\* The memory is zeroed; temp_mode, temp_high and high_temp_count are read
\* uninitialised.
Init ==
  /\ temp_mode \in Modes
  /\ sensor = <<NUL, NUL>>
  /\ alarm = NUL
  /\ sim_pc = "default"
  /\ pending = <<>>
  /\ oldtemp = 0
  /\ temp_high \in BOOLEAN
  /\ burnt_out \in BOOLEAN
  /\ alarm_active = FALSE
  /\ mon_pc = "tens"
  /\ tens = 0
  /\ temp = 0
  /\ templist = <<0>>
  /\ medianlist = <<0>>
  /\ taken = 0
  /\ hot = 0
  /\ unclear = FALSE

Simulator == SimWrite \/ SimDefault \/ SimMode
Monitor == MonReadTens \/ MonReadUnits \/ MonQuiet \/ MonSample \/ MonMark

Next == Simulator \/ Monitor \/ MainAlarm

Spec == Init /\ [][Next]_vars

-----------------------------------------------------------------------------
(* Properties                                                              *)

\* Type invariant.
TypeOK ==
  /\ sensor \in Seq(Digits \cup {NUL}) /\ Len(sensor) = 2
  /\ alarm \in {NUL, One, 0, 1}
  /\ sim_pc \in {"default", "mode"}
  /\ pending \in Seq(Digits)
  /\ oldtemp \in {0, 25}
  /\ {temp_high, burnt_out, alarm_active, unclear} \subseteq BOOLEAN
  /\ mon_pc \in {"tens", "units", "quiet", "sample", "mark", "done"}
  /\ tens \in Digits \cup {NUL} /\ temp \in Int
  /\ templist \in Seq(Int) /\ Len(templist) \in 1 .. MEDIAN_WINDOW
  /\ medianlist \in Seq(Int) /\ Len(medianlist) \in 1 .. TEMPCHANGE_WINDOW
  /\ taken \in 0 .. Enough /\ hot \in 0 .. HotEnough

\* A fire is detected (firealarm.c:142-149): as many consecutive hot samples
\* as fill 90% of the medians, and half a window more, raise the alarm, however
\* the samples before them, once there are enough of them.
FireDetected == taken = Enough /\ hot = HotEnough => alarm_active

\* No alarm without a fire: normal and fixed temperatures raise none, although
\* their two digits are read while they change and both lists start with a
\* zero, provided that the sensor was set before it was sampled.
NoFalseAlarm == alarm_active => unclear

\* "60% chance of raising temperature" (simulator_routines.c:518): what is
\* about to be written in raising mode is more than what the sensor shows.
RaisingRaises ==
  [][temp_mode = "R" /\ sim_pc = "mode" /\ pending = <<>> /\ pending' # <<>> =>
       pending'[1] * 10 + pending'[2] > sensor[1] * 10 + sensor[2]]_vars

=============================================================================
