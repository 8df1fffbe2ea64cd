------------------------------- MODULE Service -------------------------------
(***************************************************************************)
(* What keeps the daemon and its data in order over days: the supervisor,  *)
(* the commands that control the service and the build it runs, the repair *)
(* of the tunnel, the files of the config, the history and the log, and    *)
(* the view a user has of the session.  These components share no state,   *)
(* so a behaviour moves one of them (focus) and leaves the others where    *)
(* they begin.                                                             *)
(***************************************************************************)
EXTENDS DaemonSupervisor

CONSTANTS
  MaxBuilds, MaxRollbacks, MaxFailedRenames, MaxKills, Layouts,          \* installing
  Commands, MaxPromotions, Platforms,                                    \* commands
  Repairs, MaxRestarts, Window, Cooldown, HealthyAfter, MaxTime,         \* the tunnel
  MaxChanges, MaxMishaps,
  Settings, Records, Reads, Keys, KeyOf, MaxCalls, MaxDeaths, Default,   \* the config
  Calls, HistoryLimit, CompactAt, MaxFailures,                           \* the history
  Writers, FileCount, MaxBytes, LineSizes, MaxLines,                     \* the log
  Matching, MaxReconnects, NoCall                                        \* the view

VARIABLES
  focus,
  current_, previous_, next_, aside_, layoutOf, builds_, doing_, toMove, turn,   \* installing
  done, before, answer, rollbacks, faults_, crashes_, spoilt,
  platform, good, desired, loaded, daemon, installed, previous, builds, cmd,     \* commands
  now, tunnel, configured, service, history, repair, restarts, mishaps, changes, \* the tunnel
  config, calls, loadedConfig, writes, poisoned, committed, configFile, stage,   \* the config
  overtaken, crashes,
  up, progress, rows, chain, writing, file, written, damaged, faults,            \* the history
  files, doing, line, lines, log, overlapped,                                    \* the log
  happened, session, online, reconnects, seen, statusFilter, searching,          \* the view
  selected, mode, following, pendingNew, lastTotalCalls

Install == INSTANCE Installation WITH
             MaxFaults <- MaxFailedRenames, MaxCrashes <- MaxKills,
             current <- current_, previous <- previous_, next <- next_, aside <- aside_,
             builds <- builds_, doing <- doing_, faults <- faults_, crashes <- crashes_
Control == INSTANCE ServiceControl WITH MaxBuilds <- MaxPromotions
Repair == INSTANCE TunnelRecovery WITH HealthyReset <- HealthyAfter
Config == INSTANCE ConfigWrites WITH
            MaxCrashes <- MaxDeaths,
            loaded <- loadedConfig, chain <- writes, file <- configFile
History == INSTANCE SessionHistory WITH MaxFaults <- MaxFailures
Log == INSTANCE RotatingLog WITH written <- lines
View == INSTANCE ActivityView WITH
          progress <- happened, rows <- seen, None <- NoCall

ASSUME SettingsAreNoReads == Config!ConfigAssumption
ASSUME WindowOutlastsCooldown == Repair!RecoveryAssumption
ASSUME ThereIsABuild == Control!ControlAssumption
ASSUME OnlyCallsAreShown == View!ViewAssumption
ASSUME SizesAreCounts == History!HistoryAssumption
ASSUME LinesFit == Log!LogAssumption
ASSUME BuildsAreCounted == Install!InstallationAssumption

supervisorVars == vars
installVars == <<current_, previous_, next_, aside_, layoutOf, builds_, doing_, toMove, turn,
                 done, before, answer, rollbacks, faults_, crashes_, spoilt>>
controlVars == <<platform, good, desired, loaded, daemon, installed, previous, builds, cmd>>
repairVars == <<now, tunnel, configured, service, history, repair, restarts, mishaps, changes>>
configVars == <<config, calls, loadedConfig, writes, poisoned, committed, configFile, stage,
                overtaken, crashes>>
historyVars == <<up, progress, rows, chain, writing, file, written, damaged, faults>>
logVars == <<files, doing, line, lines, log, overlapped>>
viewVars == <<happened, session, online, reconnects, seen, statusFilter, searching,
              selected, mode, following, pendingNew, lastTotalCalls>>

serviceVars == <<focus, supervisorVars, installVars, controlVars, repairVars, configVars,
                 historyVars, logVars, viewVars>>

ServiceInit ==
  /\ focus \in {"supervisor", "install", "control", "repair", "config", "history", "log", "view"}
  /\ Init /\ Install!Init /\ Control!Init /\ Repair!Init
  /\ Config!Init /\ History!Init /\ Log!Init /\ View!Init
  /\ focus # "control" => platform = "darwin" /\ good = {1}
  /\ focus # "repair" => tunnel = "ready" /\ configured /\ service
  /\ focus # "config" => configFile = Config!Absent

SupervisorMoves ==
  /\ focus = "supervisor" /\ Next
  /\ UNCHANGED <<focus, installVars, controlVars, repairVars, configVars, historyVars, logVars, viewVars>>
BuildsChange ==
  /\ focus = "install" /\ Install!Next
  /\ UNCHANGED <<focus, supervisorVars, controlVars, repairVars, configVars, historyVars, logVars, viewVars>>
CommandsRun ==
  /\ focus = "control" /\ Control!Next
  /\ UNCHANGED <<focus, supervisorVars, installVars, repairVars, configVars, historyVars, logVars, viewVars>>
TunnelIsRepaired ==
  /\ focus = "repair" /\ Repair!Next
  /\ UNCHANGED <<focus, supervisorVars, installVars, controlVars, configVars, historyVars, logVars, viewVars>>
ConfigChanges ==
  /\ focus = "config" /\ Config!Next
  /\ UNCHANGED <<focus, supervisorVars, installVars, controlVars, repairVars, historyVars, logVars, viewVars>>
HistoryIsKept ==
  /\ focus = "history" /\ History!Next
  /\ UNCHANGED <<focus, supervisorVars, installVars, controlVars, repairVars, configVars, logVars, viewVars>>
LogIsWritten ==
  /\ focus = "log" /\ Log!Next
  /\ UNCHANGED <<focus, supervisorVars, installVars, controlVars, repairVars, configVars, historyVars, viewVars>>
UserLooks ==
  /\ focus = "view" /\ View!Next
  /\ UNCHANGED <<focus, supervisorVars, installVars, controlVars, repairVars, configVars, historyVars, logVars>>

ServiceNext ==
  \/ SupervisorMoves \/ BuildsChange \/ CommandsRun \/ TunnelIsRepaired
  \/ ConfigChanges \/ HistoryIsKept \/ LogIsWritten \/ UserLooks

ServiceSpec == ServiceInit /\ [][ServiceNext]_serviceVars /\ SleepsEnd

\* A component that is not in focus is where it began.
InstallationIsSound == focus = "install" => Install!InstallationIsSound
FailureChangesNothing == Install!FailureChangesNothing
StopHolds == Control!StopHolds
UpdatesAreGated == Control!UpdatesAreGated
RestartsAreBudgeted == focus = "repair" => Repair!RestartsAreBudgeted
MemoryIsOnItsWay == focus = "config" => Config!MemoryIsOnItsWay
SettingsArePreserved == Config!SettingsArePreserved
FileIsSound == focus = "history" => History!FileIsSound
LoadsForward == History!LoadsForward
LogKeepsTheNewest == focus = "log" => Log!LogKeepsTheNewest
SelectionIsTheUsers == View!SelectionIsTheUsers
=============================================================================
