------------------------------ MODULE Feelings ------------------------------
(***************************************************************************)
(* What one event does to immediate psychology: the appraisal of it, then  *)
(* EmotionEngine, MoodEngine and NeedEngine on the same snapshot S0, then  *)
(* the arbiter, which refuses a proposal beyond its limit.  A value that   *)
(* is refused keeps the time it was last written, from which the next      *)
(* event measures what has passed.                                         *)
(*                                                                         *)
(* Emotions and mood are in hundredths, needs in thousandths, time in      *)
(* hours.  Two emotions stand for the seven, valence for both dimensions   *)
(* of mood, and three needs for the six: the others move the same way.     *)
(***************************************************************************)
EXTENDS Integers, FiniteSets

CONSTANTS
  Gaps,           \* hours that may pass before an event
  MaxFelt,        \* bound: events
  EmotionLimit, MoodLimit, NeedsLimit   \* max_delta_per_event of each domain

NeedStep == 200       \* max_delta_per_event of the needs policy
\* An event moves a need by no more than the arbiter lets it move.
ASSUME NeedsAssumption ==
  Gaps \subseteq Nat /\ NeedsLimit \in Nat /\ NeedStep <= NeedsLimit

VARIABLES
  clock,          \* hours passed
  emotion, mood, needs,   \* keys of state_values and when they were written
  refused,        \* keys the arbiter ever refused
  felt            \* events processed

feelingVars == <<clock, emotion, mood, needs, refused, felt>>

Emotion == {"joy", "sadness"}
Need == {"relatedness", "loneliness", "solitude"}
BaselineValence == 55
DefaultNeed == [relatedness |-> 500, loneliness |-> 200, solitude |-> 200]
\* at = 0 before the key is first written; the clock starts at 1.
NeverWritten(value) == [value |-> value, at |-> 0]

FeelingsInit ==
  /\ clock = 1
  /\ emotion = [e \in Emotion |-> NeverWritten(0)]
  /\ mood = NeverWritten(BaselineValence)
  /\ needs = [n \in Need |-> NeverWritten(DefaultNeed[n])]
  /\ refused = {} /\ felt = 0

-----------------------------------------------------------------------------
(* AppraisalEngine: an event is not read at all, or read as something that *)
(* activates an emotion faintly or strongly.  A reading below the          *)
(* activation threshold is no reading.                                     *)

Reading == {"unread"} \cup (Emotion \X {15, 85})

Clamped(v, top) == IF v < 0 THEN 0 ELSE IF v > top THEN top ELSE v
Step(old, new, limit) ==
  IF new > old + limit THEN old + limit
  ELSE IF new < old - limit THEN old - limit ELSE new
Since(entry) == IF entry.at = 0 THEN 0 ELSE clock' - entry.at

-----------------------------------------------------------------------------
(* EmotionEngine: the intensity decays by half in three quarters of an     *)
(* hour, on paper; what is stored is written when it is felt again.        *)

Decayed(entry) ==
  CASE Since(entry) = 0 -> entry.value
    [] Since(entry) = 1 -> (2 * entry.value) \div 5
    [] OTHER -> 0
Activated(e, reading) ==
  LET now == Decayed(emotion[e])
  IN Clamped(Step(now, reading[2], 55), 100)

(* MoodEngine: drift towards the baseline by the hours passed, then a step *)
(* towards the tone of the emotions as they are stored.                    *)

Tone ==
  LET j == emotion["joy"].value
      s == emotion["sadness"].value
  IN IF j + s = 0 THEN BaselineValence
     ELSE Clamped(BaselineValence + (50 * j - 45 * s) \div (j + s), 100)
Drifted ==
  LET pull == IF 2 * Since(mood) > 100 THEN 100 ELSE 2 * Since(mood)
  IN mood.value + ((BaselineValence - mood.value) * pull) \div 100
NextMood == Clamped(Step(Drifted, (9 * Drifted + Tone) \div 10, 6), 100)

(* NeedEngine: what time alone does, then what contact does, and the floor *)
(* that belonging somewhere else puts under relatedness; bounded from what *)
(* is stored.                                                              *)

Alone(n, hours) ==
  [relatedness |-> - 10 * hours, loneliness |-> 12 * hours,
   solitude |-> - 30 * hours][n]
Contact == [relatedness |-> 60, loneliness |-> - 100, solitude |-> 20]
BelongingFloor == 450

NeedTarget(n, isContact, belongs) ==
  LET raw == needs[n].value + Alone(n, Since(needs["relatedness"]))
             + IF isContact THEN Contact[n] ELSE 0
  IN IF n = "relatedness" /\ belongs /\ raw < BelongingFloor THEN BelongingFloor ELSE raw

\* Mutant: a need takes all that the time alone did to it.
NeedAtOnce(n, isContact, belongs) == Clamped(NeedTarget(n, isContact, belongs), 1000)

NextNeed(n, isContact, belongs) ==
  Clamped(Step(needs[n].value, NeedTarget(n, isContact, belongs), NeedStep), 1000)

-----------------------------------------------------------------------------
(* The arbiter and the commit.                                             *)

Fits(entry, new, limit) == entry.at # 0 => new - entry.value \in -limit..limit
Stored(entry, new, limit) ==
  IF new = entry.value \/ ~Fits(entry, new, limit) THEN entry
  ELSE [value |-> new, at |-> clock']

Feel ==
  \E gap \in Gaps, reading \in Reading, isContact \in BOOLEAN, belongs \in BOOLEAN :
    LET activates(e) == /\ reading # "unread" /\ reading[1] = e
                        /\ Activated(e, reading) # Decayed(emotion[e]) IN
    /\ felt < MaxFelt
    /\ felt' = felt + 1
    /\ clock' = clock + gap
    /\ emotion' = [e \in Emotion |->
         IF activates(e) THEN Stored(emotion[e], Activated(e, reading), EmotionLimit)
         ELSE emotion[e]]
    /\ mood' = Stored(mood, NextMood, MoodLimit)
    /\ needs' = [n \in Need |->
         Stored(needs[n], NextNeed(n, isContact, belongs), NeedsLimit)]
    /\ refused' = refused
         \cup {e \in Emotion : activates(e)
                 /\ ~Fits(emotion[e], Activated(e, reading), EmotionLimit)}
         \cup (IF Fits(mood, NextMood, MoodLimit) THEN {} ELSE {"mood"})
         \cup {n \in Need : ~Fits(needs[n], NextNeed(n, isContact, belongs), NeedsLimit)}

FeelingsNext == Feel
FeelingsSpec == FeelingsInit /\ [][FeelingsNext]_feelingVars

-----------------------------------------------------------------------------
\* However long nothing happened, what the needs make of it is taken.
NeedsAreNeverRefused == refused \cap Need = {}

=============================================================================
