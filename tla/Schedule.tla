------------------------------ MODULE Schedule ------------------------------
(***************************************************************************)
(* The clock of the strip and the tasks that are due by it:                 *)
(* user_os_timer_func (user_os_timer.c) once a second, with the calendar     *)
(* of sntp_get_real_time and time_strtohex (user_sntp.c).                    *)
(*                                                                         *)
(* utc_time is counted up by a software timer and replaced by the SNTP       *)
(* clock while it is unknown and at hh:59:59.  A timer period is not a       *)
(* second of the SNTP clock: `real' moves by 0, 1 or 2 seconds per tick.     *)
(* What a task does is Tick of PlugControl.                                  *)
(*                                                                         *)
(* Times that differ by whole weeks behave alike: Tick takes a week off       *)
(* all of them when it can, so that the clock never ends.                    *)
(***************************************************************************)
EXTENDS Integers

CONSTANTS
  S, M, H, W,  \* seconds per minute, minutes per hour, hours per day, days
  Tasks,       \* the tasks of all sockets, [hour, minute, repeat]
  Drift,       \* seconds the timer may be off the SNTP clock per hour
  MaxOff,      \* bound: how far off it gets when no resynchronisation happens
  Intervals    \* values of user_config.interval

ASSUME ScheduleAssumption ==
  /\ {S, M, H, W, Drift, MaxOff} \subseteq Nat \ {0} /\ Drift < S
  /\ \A j \in Tasks : j.hour \in 0 .. H - 1 /\ j.minute \in 0 .. M - 1
                      /\ j.repeat \subseteq 0 .. W
  /\ MaxOff < S * M /\ Intervals \subseteq 0 .. 255

VARIABLES
  utc,         \* utc_time: 0 while unknown
  shown,       \* `time', as the second it was computed from
  real,        \* the SNTP clock
  synced,      \* SNTP has had an answer
  gotIp,       \* wifi_station_get_connect_status() == STATION_GOT_IP
  enabled,     \* the tasks with on # 0
  timerCount,  \* timer_count
  interval,    \* user_config.interval
  fired,       \* history: the tasks the last tick fired
  last,        \* history: the second at which a task fired last, 0 if not
               \* since a resynchronisation that came hours late
  slips,       \* history: timer periods since hh:59:59 that were no second
  offline,     \* history: an hour has passed without resynchronisation
  lost,        \* history: <<task, seconds leapt over>> of the tasks leapt over
  twice        \* history: a task fired again at the same second

timeVars == <<utc, shown, real, timerCount, fired, last, slips, offline, lost,
              twice>>
scheduleVars == <<timeVars, synced, gotIp, enabled, interval>>

Hour == S * M
Day == Hour * H
Week == Day * W

ScheduleTypeOK ==
  /\ utc \in 0 .. 2 * Week /\ shown \in 0 .. 2 * Week /\ real \in 1 .. 2 * Week
  /\ {synced, gotIp, offline, twice} \subseteq BOOLEAN
  /\ enabled \subseteq Tasks /\ fired \subseteq Tasks
  /\ interval \in Intervals
  /\ \E i \in Intervals : timerCount = 0 \/ timerCount < i
  /\ \A j \in Tasks : last[j] \in 0 .. 2 * Week
  /\ slips \in 0 .. Drift

ScheduleInit ==
  /\ utc = 0 /\ shown = 0 /\ real \in 1 .. Week
  /\ synced = FALSE /\ gotIp = FALSE
  /\ enabled = Tasks
  /\ timerCount = 0 /\ interval \in Intervals
  /\ fired = {} /\ last = [j \in Tasks |-> 0]
  /\ slips = 0 /\ offline = FALSE /\ lost = {} /\ twice = FALSE

-----------------------------------------------------------------------------

second(t) == t % S
minute(t) == (t \div S) % M
hour(t) == (t \div Hour) % H
week(t) == ((t \div Day) % W) + 1

\* The clock is asked at hh:59:59.  The mutant asks at a minute that never
\* comes.
HourEndsLate(t) == second(t) = S - 1 /\ minute(t) = M
HourEnds(t) == second(t) = S - 1 /\ minute(t) = M - 1

\* The fields a task is compared with; month, day and year are not read.
time_strtohex(t) ==
  [second |-> second(t), minute |-> minute(t), hour |-> hour(t), week |-> week(t)]

\* sntp_get_current_timestamp() at the SNTP time r.
Timestamp(r) == IF synced THEN r ELSE 0

Asks == utc = 0 \/ HourEnds(shown)

\* Bit b - 1 of repeat stands for weekday b; no weekday has bit 7 (here W).
Due(t) ==
  LET time == time_strtohex(t) IN
  {j \in enabled :
     /\ time.second = 0 /\ time.minute = j.minute /\ time.hour = j.hour
     /\ (j.repeat = {} \/ time.week - 1 \in j.repeat)}

\* timer_count >= interval, after timer_count++.
ReportsPower == timerCount + 1 >= interval

Shift(t, by) == IF t > by THEN t - by ELSE 0

\* One call of user_os_timer_func, d seconds of the SNTP clock after the last.
Tick(d) ==
  LET r == real + d
      u == IF Asks /\ gotIp THEN Timestamp(r) ELSE utc
      t == IF u > 0 THEN u + 1 ELSE 0
      due == IF u > 0 THEN Due(t) ELSE {}
      asked == u # utc \/ (Asks /\ gotIp /\ synced)
      by == IF r > Week + Hour /\ (u = 0 \/ t > Week + Hour) THEN Week ELSE 0
      leapt == IF utc > 0 THEN {x \in (utc + 1) .. u : Due(x) # {}} ELSE {}
      over == utc > 0 /\ shown % Hour = Hour - 1
      slip == IF utc = 0 \/ d = 1 THEN slips ELSE slips + 1
  IN
  /\ slip <= Drift
  /\ t > 0 => t - 1 - r \in -MaxOff .. MaxOff
  /\ real' = r - by
  /\ utc' = Shift(t, by)
  /\ shown' = Shift(IF u > 0 THEN t ELSE shown, by)
  /\ fired' = due
  /\ enabled' = enabled \ {j \in due : j.repeat = {}}
  /\ timerCount' = IF ReportsPower THEN 0 ELSE (timerCount + 1) % 256
  /\ last' = [j \in Tasks |-> Shift(IF j \in due THEN t
                                   ELSE IF asked /\ offline THEN 0
                                   ELSE last[j], by)]
  /\ slips' = IF asked \/ over THEN 0 ELSE slip
  /\ offline' = ((offline /\ ~ asked) \/ (over /\ ~ (gotIp /\ synced)))
  /\ lost' = UNION {{<<j, u - utc, offline>> : j \in Due(x)} : x \in leapt}
  /\ twice' = \E j \in due : last[j] = t /\ ~ offline
  /\ UNCHANGED <<synced, gotIp, interval>>

\* The environment: the address comes and goes, the first answer of a server,
\* a message that enables a task or sets the interval.
Wifi == gotIp' = ~ gotIp /\ UNCHANGED <<timeVars, synced, enabled, interval>>

SntpAnswers ==
  /\ gotIp /\ ~ synced
  /\ synced' = TRUE
  /\ UNCHANGED <<timeVars, gotIp, enabled, interval>>

SetTask ==
  /\ \E j \in Tasks \ enabled : enabled' = enabled \cup {j}
  /\ UNCHANGED <<timeVars, synced, gotIp, interval>>

SetInterval ==
  /\ interval' \in Intervals \ {interval}
  /\ UNCHANGED <<timeVars, synced, gotIp, enabled>>

ScheduleNext ==
  \/ \E d \in 0 .. 2 : Tick(d)
  \/ Wifi \/ SntpAnswers \/ SetTask \/ SetInterval

ScheduleSpec == ScheduleInit /\ [][ScheduleNext]_scheduleVars

-----------------------------------------------------------------------------

\* As long as no hour has ended without a resynchronisation, a task fires within
\* Drift seconds of its time by the SNTP clock, and not twice for the same second
\* when the clock is set back.  The resynchronisation at hh:59:59 may leap over
\* the start of the hour, and a task that it leaps over is not fired late
\* (user_os_timer.c:31): but only tasks of minute 0 are lost that way.
TasksKeepTime ==
  /\ fired # {} /\ ~ offline => utc - 1 - real \in -Drift .. Drift
  /\ ~ twice
  /\ \A l \in lost : ~ l[3] => l[1].minute = 0 /\ l[2] <= Drift
=============================================================================
