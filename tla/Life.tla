------------------------------- MODULE Life -------------------------------
(***************************************************************************)
(* A lived day: sleep, activities, plans, habits and the diary             *)
(* (src/app/runtime/life.py, src/app/runtime/agency.py, src/app/world/,    *)
(* src/app/agency/, src/app/diary/ and their repositories).                *)
(*                                                                         *)
(* The autonomous loop offers what is possible and runs one handler at a   *)
(* time.  A handler is a series of rows written one by one, with awaits    *)
(* between them: an emission may raise, the process may stop at each step, *)
(* and the next handler starts from the rows it finds.                     *)
(* Pressure and sleepiness are in tenths and thousandths, time in hours.   *)
(***************************************************************************)
EXTENDS Integers, Sequences, FiniteSets

CONSTANTS
  MaxHours,       \* bound: hours that pass
  MaxActivities,  \* bound: activities ever started
  MaxStops,       \* bound: stops of the process
  Gain,           \* pressure gained by an hour awake
  Recovery,       \* pressure discharged by an hour asleep
  NapHours, MainHours

VARIABLES
  hour,         \* hours passed
  pressure,     \* world/sleep_pressure, with the hour it was last written
  activities,   \* the activities table
  sleeps,       \* the sleep_episodes table
  days,         \* life_days, each with its diary entry
  plans,        \* the plans table
  habit,        \* repetitions and automaticity of the one habit
  handler,      \* the handler in flight: its next step and what it holds
  lifeStops

lifeVars == <<hour, pressure, activities, sleeps, days, plans, habit, handler,
              lifeStops>>

Waiting == [at |-> "waiting"]
NoEntry == [status |-> "none", writes |-> 0]

LifeInit ==
  /\ hour = 0
  /\ pressure = [level |-> 7, at |-> 0]
  /\ activities = <<>> /\ sleeps = <<>> /\ plans = <<>>
  /\ days = <<[open |-> TRUE, entry |-> NoEntry]>>
  /\ habit = [repetitions |-> 0, automaticity |-> 5]
  /\ handler = Waiting /\ lifeStops = 0

---------------------------------------------------------------------------
(* The repositories.                                                       *)

OngoingIn(table) == {a \in DOMAIN table : table[a].status = "ongoing"}
Ongoing == OngoingIn(activities)
OpenSleeps == {s \in DOMAIN sleeps : ~sleeps[s].ended}
CurrentSleep == IF OpenSleeps = {} THEN 0
                ELSE CHOOSE s \in OpenSleeps : \A t \in OpenSleeps : t <= s
OpenDays == {d \in DOMAIN days : days[d].open}
CurrentDay == IF OpenDays = {} THEN 0
              ELSE CHOOSE d \in OpenDays : \A e \in OpenDays : e <= d
OpenPlans == {p \in DOMAIN plans : plans[p].status = "planned"}
Slept(s) == hour - sleeps[s].since

\* What is ongoing is abandoned, then the new row is written.
StartActivity(plan) ==
  /\ Len(activities) < MaxActivities
  /\ activities' = Append(
       [a \in DOMAIN activities |->
          IF a \in Ongoing THEN [activities[a] EXCEPT !.status = "abandoned"]
          ELSE activities[a]],
       [plan |-> plan, status |-> "ongoing", since |-> hour])

FinishActivity(a) == activities' = [activities EXCEPT ![a].status = "completed"]

---------------------------------------------------------------------------
(* The two processes of sleep (world/sleep.py).                            *)

AccumulatedPressure(level, hours) ==
  IF level + Gain * hours > 10 THEN 10 ELSE level + Gain * hours
RecoveredPressure(level, hours) ==
  IF level - Recovery * hours < 0 THEN 0 ELSE level - Recovery * hours

\* 0.5 plus or minus the amplitude over the day: its low, middle and high.
CircadianSleepiness == {2, 5, 8}
\* No goal and no conversation is passed on, so there is no resistance.
Sleepiness(circadian) == 65 * pressure.level + 35 * circadian

ShouldSleep(sleepiness) == sleepiness >= 620
ShouldWake(sleepiness, slept) == slept >= MainHours \/ sleepiness <= 350
ResistanceIsExhausted(sleepiness) == sleepiness >= 880
\* Outside the usual window only accumulated pressure makes it a night.
IsNap(inWindow) == ~inWindow /\ 10 * pressure.level < 75

\* The world/awake entry that handle() reads: the default, 1.0, as no code
\* writes it.
AwakeInState == TRUE

\* The subscriber, on every event of a run.
HandleEvent ==
  /\ pressure.at < hour
  /\ pressure' =
       [level |-> IF AwakeInState
                  THEN AccumulatedPressure(pressure.level, hour - pressure.at)
                  ELSE RecoveredPressure(pressure.level, hour - pressure.at),
        at |-> hour]
  /\ UNCHANGED <<hour, activities, sleeps, days, plans, habit, handler, lifeStops>>

Hour ==
  /\ hour < MaxHours
  /\ hour' = hour + 1
  /\ UNCHANGED <<pressure, activities, sleeps, days, plans, habit, handler,
                 lifeStops>>

---------------------------------------------------------------------------
(* What the sources offer (SleepSource, ActivitySource, GoalSource,        *)
(* HabitSource, GroupSource), and the handler the winner is given to.      *)

SleepOffers(circadian) ==
  LET sleepiness == Sleepiness(circadian) IN
  IF CurrentSleep # 0
  THEN IF Slept(CurrentSleep) >= sleeps[CurrentSleep].planned
          \/ ShouldWake(sleepiness, Slept(CurrentSleep))
       THEN {"wake_up"} ELSE {}
  ELSE IF ShouldSleep(sleepiness) THEN {"go_to_sleep"} ELSE {}

ActivityOffers ==
  IF CurrentSleep # 0 THEN {}
  ELSE IF \E a \in Ongoing : activities[a].since < hour THEN {"finish_activity"}
  ELSE IF Ongoing = {} THEN {"start_activity"} ELSE {}

GoalOffers == IF CurrentSleep # 0 \/ Ongoing # {} THEN {} ELSE {"pursue_goal"}
HabitOffers == IF CurrentSleep # 0 \/ Ongoing # {} THEN {} ELSE {"do_habit"}
GroupOffers == IF CurrentSleep # 0 \/ Ongoing # {} THEN {} ELSE {"attend_group"}

\* An exhausted body's candidate is worth 1.0, which nothing else reaches.
Tick ==
  /\ handler = Waiting
  /\ \E circadian \in CircadianSleepiness :
     LET forced == CurrentSleep = 0
                   /\ ResistanceIsExhausted(Sleepiness(circadian))
         offers == SleepOffers(circadian) \cup ActivityOffers \cup GoalOffers
                   \cup HabitOffers \cup GroupOffers
     IN \E winner \in offers :
          /\ forced => winner = "go_to_sleep"
          /\ handler' = [at |-> winner]
  /\ UNCHANGED <<hour, pressure, activities, sleeps, days, plans, habit, lifeStops>>

Goto(step) == handler' = [at |-> step]
Done == handler' = Waiting

\* start_activity and finish_activity check again what they were offered.
RunStartActivity ==
  /\ handler.at = "start_activity"
  /\ IF Ongoing = {} THEN StartActivity(0) ELSE UNCHANGED activities
  /\ Done
  /\ UNCHANGED <<hour, pressure, sleeps, days, plans, habit, lifeStops>>

RunFinishActivity ==
  /\ handler.at = "finish_activity"
  /\ \/ \E a \in Ongoing : FinishActivity(a)
     \/ Ongoing = {} /\ UNCHANGED activities
  /\ Done
  /\ UNCHANGED <<hour, pressure, sleeps, days, plans, habit, lifeStops>>

---------------------------------------------------------------------------
(* go_to_sleep(): reflect, then finish what is going on, then sleep.       *)

\* Mutant: the day is over when the reflection begins.
ReflectAndCloseDay ==
  /\ handler.at = "go_to_sleep"
  /\ IF CurrentSleep # 0 THEN Done /\ UNCHANGED days
     ELSE IF CurrentDay = 0 THEN Goto("lying_down") /\ UNCHANGED days
     ELSE /\ days' = [days EXCEPT ![CurrentDay].open = FALSE]
          /\ \/ handler' = [at |-> "drafting", day |-> CurrentDay]
             \/ Goto("lying_down")
  /\ UNCHANGED <<hour, pressure, activities, sleeps, plans, habit, lifeStops>>

\* The entry is marked owed before the model is asked.  An entry already
\* written is returned as it is; gathering the day may raise before it is owed
\* and announcing it after, which ends the reflection.  Nothing keeps her up.
ReflectAtBedtime ==
  /\ handler.at = "go_to_sleep"
  /\ IF CurrentSleep # 0 THEN Done /\ UNCHANGED days
     ELSE IF CurrentDay = 0 THEN Goto("lying_down") /\ UNCHANGED days
     ELSE IF days[CurrentDay].entry.status = "written"
     THEN Goto("lying_down") /\ UNCHANGED days
     ELSE \/ Goto("lying_down") /\ UNCHANGED days
          \/ /\ days' = [days EXCEPT ![CurrentDay].entry.status = "pending"]
             /\ \/ handler' = [at |-> "drafting", day |-> CurrentDay]
                \/ Goto("lying_down")
  /\ UNCHANGED <<hour, pressure, activities, sleeps, plans, habit, lifeStops>>

\* The model answers in time, or the attempt is counted and the entry stays
\* owed.  Announcing what was written may raise: the day is then not closed.
WriteDiary ==
  /\ handler.at = "drafting"
  /\ \/ /\ days' = [days EXCEPT
             ![handler.day].entry = [status |-> "written", writes |-> @.writes + 1]]
        /\ \/ handler' = [handler EXCEPT !.at = "closing_day"]
           \/ Goto("lying_down")
     \/ handler' = [handler EXCEPT !.at = "closing_day"] /\ UNCHANGED days
  /\ UNCHANGED <<hour, pressure, activities, sleeps, plans, habit, lifeStops>>

CloseDay ==
  /\ handler.at = "closing_day"
  /\ days' = [days EXCEPT ![handler.day].open = FALSE]
  /\ Goto("lying_down")
  /\ UNCHANGED <<hour, pressure, activities, sleeps, plans, habit, lifeStops>>

\* Mutant: she falls asleep over what she was doing.
SleepOverActivity ==
  /\ handler.at = "lying_down"
  /\ Goto("falling_asleep")
  /\ UNCHANGED <<hour, pressure, activities, sleeps, days, plans, habit, lifeStops>>

LieDown ==
  /\ handler.at = "lying_down"
  /\ \/ \E a \in Ongoing : FinishActivity(a)
     \/ Ongoing = {} /\ UNCHANGED activities
  /\ Goto("falling_asleep")
  /\ UNCHANGED <<hour, pressure, sleeps, days, plans, habit, lifeStops>>

FallAsleep ==
  /\ handler.at = "falling_asleep"
  /\ \E inWindow \in BOOLEAN :
       sleeps' = Append(sleeps,
         [nap |-> IsNap(inWindow), ended |-> FALSE, since |-> hour,
          planned |-> IF IsNap(inWindow) THEN NapHours ELSE MainHours])
  /\ Done
  /\ UNCHANGED <<hour, pressure, activities, days, plans, habit, lifeStops>>

---------------------------------------------------------------------------
(* wake_up(): a main sleep ends the night and begins a day.                *)

WakeUp ==
  /\ handler.at = "wake_up"
  /\ IF CurrentSleep = 0 THEN Done /\ UNCHANGED sleeps
     ELSE /\ sleeps' = [sleeps EXCEPT ![CurrentSleep].ended = TRUE]
          /\ IF sleeps[CurrentSleep].nap THEN Done ELSE Goto("getting_up")
  /\ UNCHANGED <<hour, pressure, activities, days, plans, habit, lifeStops>>

\* open_day returns the current day when there is one.
BeginDay ==
  /\ handler.at = "getting_up"
  /\ days' = IF CurrentDay # 0 THEN days
             ELSE Append(days, [open |-> TRUE, entry |-> NoEntry])
  /\ Done
  /\ UNCHANGED <<hour, pressure, activities, sleeps, plans, habit, lifeStops>>

---------------------------------------------------------------------------
(* pursue_goal() and do_habit().                                           *)

PlansToResume == OpenPlans

PursueGoal ==
  /\ handler.at = "pursue_goal"
  /\ IF Ongoing # {} THEN Done /\ UNCHANGED plans
     ELSE IF PlansToResume # {}
     THEN /\ \E p \in PlansToResume : handler' = [at |-> "starting_plan", plan |-> p]
          /\ UNCHANGED plans
     ELSE /\ Len(plans) < MaxActivities
          /\ plans' = Append(plans, [status |-> "planned"])
          /\ handler' = [at |-> "starting_plan", plan |-> Len(plans) + 1]
  /\ UNCHANGED <<hour, pressure, activities, sleeps, days, habit, lifeStops>>

StartPlan ==
  /\ handler.at = "starting_plan"
  /\ plans' = [plans EXCEPT ![handler.plan].status = "in_progress"]
  /\ handler' = [handler EXCEPT !.at = "starting_work"]
  /\ UNCHANGED <<hour, pressure, activities, sleeps, days, habit, lifeStops>>

StartWork ==
  /\ handler.at = "starting_work"
  /\ StartActivity(handler.plan)
  /\ Done
  /\ UNCHANGED <<hour, pressure, sleeps, days, plans, habit, lifeStops>>

\* The pairing is counted first; only then is the activity started.
DoHabit ==
  /\ handler.at = "do_habit"
  /\ IF Ongoing # {} THEN Done /\ UNCHANGED habit
     ELSE /\ habit.repetitions < MaxActivities
          /\ habit' = [repetitions |-> habit.repetitions + 1,
                       automaticity |-> IF habit.automaticity < 9
                                        THEN habit.automaticity + 1 ELSE 9]
          /\ Goto("starting_habit")
  /\ UNCHANGED <<hour, pressure, activities, sleeps, days, plans, lifeStops>>

StartHabit ==
  /\ handler.at = "starting_habit"
  /\ StartActivity(0)
  /\ Done
  /\ UNCHANGED <<hour, pressure, sleeps, days, plans, habit, lifeStops>>

---------------------------------------------------------------------------
(* attend_group(): the meeting is an event first, an activity after it.    *)

MeetGroup ==
  /\ handler.at = "attend_group"
  /\ Done \/ Goto("joining_in")
  /\ UNCHANGED <<hour, pressure, activities, sleeps, days, plans, habit, lifeStops>>

JoinIn ==
  /\ handler.at = "joining_in"
  /\ StartActivity(0)
  /\ Done
  /\ UNCHANGED <<hour, pressure, sleeps, days, plans, habit, lifeStops>>

\* The process stops; what it had written stays.
Stop ==
  /\ lifeStops < MaxStops
  /\ lifeStops' = lifeStops + 1
  /\ handler' = Waiting
  /\ UNCHANGED <<hour, pressure, activities, sleeps, days, plans, habit>>

LifeNext ==
  \/ HandleEvent \/ Hour \/ Tick \/ RunStartActivity \/ RunFinishActivity
  \/ ReflectAtBedtime \/ WriteDiary \/ CloseDay \/ LieDown \/ FallAsleep
  \/ WakeUp \/ BeginDay
  \/ PursueGoal \/ StartPlan \/ StartWork \/ DoHabit \/ StartHabit
  \/ MeetGroup \/ JoinIn
  \/ Stop

LifeSpec == LifeInit /\ [][LifeNext]_lifeVars
---------------------------------------------------------------------------
\* She does one thing at a time: at most one activity is ongoing and one
\* sleep open, and nothing is ongoing while she sleeps, wherever a handler
\* was cut.
OneThingAtATime ==
  /\ Cardinality(Ongoing) <= 1
  /\ Cardinality(OpenSleeps) <= 1
  /\ CurrentSleep # 0 => Ongoing = {}

\* A day that is over has an entry, at least owed, and an entry is written
\* once however often its bedtime is taken up again.
DayIsAccountedFor ==
  \A d \in DOMAIN days :
    /\ ~days[d].open => days[d].entry.status # "none"
    /\ days[d].entry.writes <= 1

=============================================================================
