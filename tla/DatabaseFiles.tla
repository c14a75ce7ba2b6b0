---------------------------- MODULE DatabaseFiles ----------------------------
(***************************************************************************)
(* The files a life is kept in: the production database that the bot       *)
(* writes, and what admin/repair.py, admin/shadow.py, admin/rebuild.py and *)
(* storage/backup.py do with it.  A file is the life it holds and the real *)
(* Discord events that went through the pipeline of it.                    *)
(*                                                                         *)
(* A command of the command line is a process beside the bot and nothing   *)
(* keeps the two apart: while a shadow is rebuilt for hours the bot goes   *)
(* on writing.  On the Windows it runs on, an open file cannot be moved.   *)
(* Files are moved one after the other, so a process may end between two   *)
(* moves.  That a file takes its -wal and -shm along is one step with it.  *)
(***************************************************************************)
EXTENDS Naturals, FiniteSets

CONSTANTS
  Event,         \* real Discord events
  MaxFileCommands,   \* bound: repairs and resets started
  MaxFailures      \* bound: backups, audits and replays that fail
VARIABLES
  production, shadow, repaired,  \* files of fixed names
  kept,        \* files whose name carries a stamp or an id: backups, archives
  happened,    \* real events the bot has recorded
  bot,         \* whether the bot is running
  command,     \* where the command line stands
  plan,        \* RepairPlan: the real history it read
  carried,    \* events of the plan that were put through the shadow
  rollback,    \* the file the last switch moved aside
  resets,      \* rebuild epochs
  given, failures,
  vacant,      \* times the file was opened while it was between two moves
  replaced     \* repaired copies that a later one was moved over

fileVars == <<production, shadow, repaired, kept>>
commandVars == <<command, plan, carried, rollback>>
ghostVars == <<given, failures, vacant, replaced>>
filesVars == <<fileVars, happened, bot, commandVars, resets, ghostVars>>

Missing == [life |-> "missing", real |-> {}]
Fresh == [life |-> "none", real |-> {}]
\* The simulated past that the scan finds sound; a broken one booted too.
Sound(f) == f.life \in {"repaired", "none"}

FilesInit ==
  /\ production = [life |-> "broken", real |-> {}]
  /\ shadow = Missing /\ repaired = Missing /\ kept = {}
  /\ happened = {} /\ bot = "down"
  /\ command = "none" /\ plan = {} /\ carried = {} /\ rollback = Missing
  /\ resets = 0
  /\ given = 0 /\ failures = 0 /\ vacant = 0 /\ replaced = 0

Goes(place) == command' = place
Fail == failures < MaxFailures /\ failures' = failures + 1
BeginCommand(place) ==
  /\ command = "none" /\ given < MaxFileCommands
  /\ given' = given + 1 /\ Goes(place)
  /\ UNCHANGED <<failures, vacant, replaced>>

(***************************************************************************)
(* The bot.  To open a file that is not there is to make a new one.        *)
(***************************************************************************)
BotStarts ==
  /\ bot = "down" /\ bot' = "up"
  /\ production' = IF production = Missing THEN Fresh ELSE production
  /\ vacant' = IF production = Missing THEN vacant + 1 ELSE vacant
  /\ UNCHANGED <<shadow, repaired, kept, happened, commandVars, resets, given, failures,
                 replaced>>

BotRecords(e) ==
  /\ bot = "up" /\ e \notin happened
  /\ happened' = happened \cup {e}
  /\ production' = [production EXCEPT !.real = @ \cup {e}]
  /\ UNCHANGED <<shadow, repaired, kept, bot, commandVars, resets, ghostVars>>

BotStops ==
  /\ bot = "up" /\ bot' = "down"
  /\ UNCHANGED <<fileVars, happened, commandVars, resets, ghostVars>>

(***************************************************************************)
(* repair: dry run, backup, rebuild and replay in the shadow, switch.      *)
(***************************************************************************)
\* The blockers are those of the plan; a shadow of an earlier attempt is one.
DryRun ==
  /\ production # Missing
  /\ IF ~Sound(production) /\ shadow = Missing
     THEN BeginCommand("backup")
     ELSE BeginCommand("none")
  /\ plan' = production.real
  /\ carried' = {}
  /\ UNCHANGED <<fileVars, happened, bot, rollback, resets>>

\* BackupService.create by SQLite's own mechanism, then verified; the copy
\* stays either way, and an unverified one ends the command.
BackupTo(next) ==
  /\ \/ Goes(next) /\ UNCHANGED failures
     \/ Fail /\ Goes("none")
  /\ kept' = kept \cup {production}
  /\ UNCHANGED <<production, shadow, repaired, happened, bot, plan, carried, rollback,
                 resets, given, vacant, replaced>>
BackupForRepair == command = "backup" /\ BackupTo("rebuild")

RebuildGenesis ==
  /\ command = "rebuild"
  /\ \/ shadow' = [life |-> "repaired", real |-> {}] /\ Goes("replay") /\ UNCHANGED failures
     \/ shadow' = Fresh /\ Fail /\ Goes("none")
  /\ UNCHANGED <<production, repaired, kept, happened, bot, plan, carried, rollback,
                 resets, given, vacant, replaced>>

\* The events of the plan, as they were recorded; a run that fails is skipped
\* and not counted.
ReplayRealHistory(e) ==
  /\ command = "replay" /\ e \in plan \ carried
  /\ carried' = carried \cup {e}
  /\ \/ shadow' = [shadow EXCEPT !.real = @ \cup {e}] /\ UNCHANGED failures
     \/ Fail /\ UNCHANGED shadow
  /\ UNCHANGED <<production, repaired, kept, happened, bot, command, plan, rollback, resets,
                 given, vacant, replaced>>

\* VerificationReport.clean: booted, sound by the scan, and the whole history.
Clean == shadow.life = "repaired" /\ Cardinality(shadow.real) = Cardinality(plan)

Verify ==
  /\ command = "replay"
  /\ carried = plan
  /\ Goes(IF Clean THEN "switch" ELSE "none")
  /\ UNCHANGED <<fileVars, happened, bot, plan, carried, rollback, resets, ghostVars>>

\* switch, first move: production aside, under a name of its own.
MoveAside ==
  /\ command = "switch" /\ bot = "down"
  /\ rollback' = production /\ kept' = kept \cup {production}
  /\ production' = Missing
  /\ Goes("move in")
  /\ UNCHANGED <<shadow, repaired, happened, bot, plan, carried, resets, ghostVars>>

\* Second move: the shadow in its place.
MoveIn ==
  /\ command = "move in"
  /\ production' = shadow /\ shadow' = Missing
  /\ Goes("switched")
  /\ UNCHANGED <<repaired, kept, happened, bot, plan, carried, rollback, resets, given,
                 failures, vacant, replaced>>

\* rollback, first move: what is there now goes to a name that is always the
\* same.
RollAside ==
  /\ command = "switched" /\ bot = "down" /\ rollback \in kept
  /\ replaced' = IF repaired # Missing THEN replaced + 1 ELSE replaced
  /\ repaired' = IF production # Missing THEN production ELSE repaired
  /\ production' = Missing
  /\ Goes("move back")
  /\ UNCHANGED <<shadow, kept, happened, bot, plan, carried, rollback, resets, given,
                 failures, vacant>>

\* Second move: the file the switch had moved aside.
RollBack ==
  /\ command = "move back"
  /\ production' = rollback
  /\ kept' = kept \ {rollback} /\ rollback' = Missing
  /\ Goes("none")
  /\ UNCHANGED <<shadow, repaired, happened, bot, plan, carried, resets, given, failures,
                 vacant, replaced>>

(***************************************************************************)
(* rebuild-reset: archive everything and begin as somebody new.            *)
(***************************************************************************)
Reset ==
  /\ production # Missing /\ BeginCommand("reset backup")
  /\ UNCHANGED <<fileVars, happened, bot, plan, carried, rollback, resets>>
BackupForReset == command = "reset backup" /\ BackupTo("archive")

(* Mutant: the old file is written over.                                   *)
ArchiveOver ==
  /\ command = "archive" /\ bot = "down"
  /\ production' = Missing /\ Goes("fresh")
  /\ UNCHANGED <<shadow, repaired, kept, happened, bot, plan, carried, rollback, resets,
                 ghostVars>>
Archive ==
  /\ command = "archive" /\ bot = "down"
  /\ kept' = kept \cup {production}
  /\ production' = Missing /\ Goes("fresh")
  /\ UNCHANGED <<shadow, repaired, happened, bot, plan, carried, rollback, resets, ghostVars>>

\* A new schema from the migrations, proved empty, and the epoch's row.
FreshSchema ==
  /\ command = "fresh"
  /\ production' = IF production = Missing THEN Fresh ELSE production
  /\ resets' = IF production'.real = {} THEN resets + 1 ELSE resets
  /\ Goes("none")
  /\ UNCHANGED <<shadow, repaired, kept, happened, bot, plan, carried, rollback, ghostVars>>

\* The command ends, by itself when it has switched, or anywhere; moving a
\* file that the bot has open raises.
CommandEnds ==
  /\ command # "none" /\ Goes("none")
  /\ UNCHANGED <<fileVars, happened, bot, plan, carried, rollback, resets, ghostVars>>

FilesNext ==
  \/ BotStarts \/ BotStops \/ (\E e \in Event : BotRecords(e))
  \/ DryRun \/ BackupForRepair \/ RebuildGenesis \/ (\E e \in Event : ReplayRealHistory(e))
  \/ Verify \/ MoveAside \/ MoveIn \/ RollAside \/ RollBack
  \/ Reset \/ BackupForReset \/ Archive \/ FreshSchema \/ CommandEnds
FilesSpec == FilesInit /\ [][FilesNext]_filesVars

-----------------------------------------------------------------------------
AllFiles == {production, shadow, repaired} \cup kept
\* repair.py:21: nothing here removes a row or a file.  Over repairs, resets,
\* rollbacks and commands cut short, every real event is in a file still,
\* unless a repaired copy was moved over an earlier one or the bot made a file
\* of its own between two moves.
NothingIsDeleted ==
  replaced = 0 /\ vacant = 0 => \A e \in happened : \E f \in AllFiles : e \in f.real

=============================================================================
