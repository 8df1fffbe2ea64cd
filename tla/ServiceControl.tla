---------------------------- MODULE ServiceControl ----------------------------
(* The commands that install, start, stop, restart, update and roll back the  *)
(* service (src/src/platform/service-controller.ts, desired-state.ts), each a *)
(* process of its own that shares the desired state, the installed build and  *)
(* the service manager with the others.                                       *)
(*                                                                            *)
(* A command is the sequence of its steps, between any two of which others    *)
(* may run.  The service manager (launchd.ts, systemd.ts) is modelled by what *)
(* its commands do; promoting and restoring a build are Installation's        *)
(* subject and one step here.                                                 *)
EXTENDS Integers, Sequences

CONSTANTS Commands,        \* the command-line processes
          MaxBuilds,       \* bound: how many builds there are
          Platforms

ControlAssumption == MaxBuilds \in Nat \ {0}

VARIABLES platform,
          good,            \* the builds whose daemon becomes healthy
          desired,         \* desired-state.json
          loaded,          \* the service manager knows and keeps the service
          daemon,          \* the build of the daemon that runs
          installed, previous,         \* builds
          builds,          \* how many builds have been promoted
          cmd              \* what each command is at

vars == <<platform, good, desired, loaded, daemon, installed, previous, builds, cmd>>

None == 0

\* Mutant: a restart does not ask whether the service is wanted.
GateUnread == <<"restart", "wait", "check">>

(* The steps of each command.                                                 *)
Gate == <<"read", "restart", "wait", "check">>

Script == [install |-> <<"promote", "want running", "start", "wait">>,
           start |-> <<"want running", "start", "wait">>,
           stop |-> <<"want stopped", "stop">>,
           restart |-> Gate,
           update |-> <<"read", "promote">> \o Gate,
           rollback |-> <<"read", "restore">> \o Gate,
           ensure |-> <<"read", "probe", "start", "wait">>]

\* Mutant: the gate runs again over the build that has failed it.
FallbackWithoutRestore == Gate

(* The rollback of an update that did not pass its gate.                      *)
Fallback == <<"restore">> \o Gate

Ready == [op |-> "none", todo |-> <<>>, back |-> FALSE, found |-> None,
          alone |-> TRUE, answer |-> "none"]

(* A service of the first build is installed and runs.                        *)
Init ==
  /\ platform \in Platforms
  /\ good \in {g \in SUBSET (1..MaxBuilds) : 1 \in g}
  /\ desired = "running" /\ loaded = TRUE
  /\ daemon = 1 /\ installed = 1 /\ previous = None
  /\ builds = 1
  /\ cmd = [c \in Commands |-> Ready]

Busy(c) == cmd[c].todo # <<>>

Issue(c, op) ==
  /\ ~Busy(c)
  /\ op \in {"install", "update"} => builds < MaxBuilds
  /\ LET alone == \A d \in Commands : ~Busy(d) IN
     cmd' = [d \in Commands |->
               IF d = c THEN [op |-> op, todo |-> Script[op], back |-> FALSE,
                              found |-> installed, alone |-> alone, answer |-> "none"]
               ELSE [cmd[d] EXCEPT !.alone = @ /\ ~Busy(d)]]
  /\ UNCHANGED <<platform, good, desired, loaded, daemon, installed, previous, builds>>

-----------------------------------------------------------------------------

Doing(c, step) == Busy(c) /\ Head(cmd[c].todo) = step

Ends(c, answer) == cmd' = [cmd EXCEPT ![c].todo = <<>>, ![c].answer = answer]

(* The step is done: the next one, or the answer.                             *)
Advance(c) ==
  IF Len(cmd[c].todo) = 1
  THEN Ends(c, IF cmd[c].back THEN "rolled back" ELSE "ok")
  ELSE cmd' = [cmd EXCEPT ![c].todo = Tail(@)]

(* The step throws: an update that has promoted its build falls back, any     *)
(* other command is over.                                                     *)
Fail(c) ==
  IF cmd[c].op = "update" /\ ~cmd[c].back /\ Len(cmd[c].todo) <= Len(Gate)
  THEN cmd' = [cmd EXCEPT ![c].todo = Fallback, ![c].back = TRUE]
  ELSE Ends(c, IF cmd[c].back THEN "unverified" ELSE "failed")

managerVars == <<loaded, daemon>>
buildVars == <<installed, previous, builds>>

(* readDesiredState: a service that is stopped on purpose is left alone.      *)
ReadDesired(c) ==
  /\ Doing(c, "read")
  /\ IF desired = "stopped" THEN Fail(c) ELSE Advance(c)
  /\ UNCHANGED <<platform, good, desired, managerVars, buildVars>>

WriteDesired(c) ==
  /\ \/ Doing(c, "want running") /\ desired' = "running"
     \/ Doing(c, "want stopped") /\ desired' = "stopped"
  /\ Advance(c)
  /\ UNCHANGED <<platform, good, managerVars, buildVars>>

Promote(c) ==
  /\ Doing(c, "promote")
  /\ builds < MaxBuilds
  /\ builds' = builds + 1
  /\ installed' = builds + 1 /\ previous' = installed
  /\ Advance(c)
  /\ UNCHANGED <<platform, good, desired, managerVars>>

Restore(c) ==
  /\ Doing(c, "restore")
  /\ previous # None
  /\ installed' = previous /\ previous' = installed
  /\ Advance(c)
  /\ UNCHANGED <<platform, good, desired, managerVars, builds>>

(* Tests, build, promotion, rollback or a command of the service manager      *)
(* fails, and changes nothing.                                                *)
StepThrows(c) ==
  /\ \E step \in {"promote", "restore", "start", "stop", "restart"} : Doing(c, step)
  /\ Fail(c)
  /\ UNCHANGED <<platform, good, desired, managerVars, buildVars>>

-----------------------------------------------------------------------------

(* manager.start: launchd boots the service out and in again; systemd starts  *)
(* it if it does not run.                                                     *)
ManagerStart(c) ==
  /\ Doing(c, "start")
  /\ loaded' = TRUE
  /\ daemon' = IF platform = "linux" /\ daemon # None THEN daemon ELSE installed
  /\ Advance(c)
  /\ UNCHANGED <<platform, good, desired, buildVars>>

(* manager.restart: launchd restarts only what is loaded, systemd starts what *)
(* is disabled too.                                                           *)
ManagerRestart(c) ==
  /\ Doing(c, "restart")
  /\ platform = "darwin" => loaded
  /\ daemon' = installed
  /\ Advance(c)
  /\ UNCHANGED <<platform, good, desired, loaded, buildVars>>

ManagerStop(c) ==
  /\ Doing(c, "stop")
  /\ loaded' = FALSE
  /\ daemon' = None
  /\ Advance(c)
  /\ UNCHANGED <<platform, good, desired, buildVars>>

-----------------------------------------------------------------------------

(* ensureRunning asks for the status first; if there is one it is done.       *)
Probe(c) ==
  /\ Doing(c, "probe")
  /\ \/ daemon # None /\ Ends(c, "ok")
     \/ Advance(c)
  /\ UNCHANGED <<platform, good, desired, managerVars, buildVars>>

(* waitForHealthy: some attempt is answered, or none of them is in time.      *)
WaitForHealthy(c) ==
  /\ Doing(c, "wait")
  /\ \/ daemon # None /\ Advance(c)
     \/ Fail(c)
  /\ UNCHANGED <<platform, good, desired, managerVars, buildVars>>

(* healthCheck: the state must not be stopped, recovering or degraded.        *)
HealthCheck(c) ==
  /\ Doing(c, "check")
  /\ IF daemon \in good THEN Advance(c) ELSE Fail(c)
  /\ UNCHANGED <<platform, good, desired, managerVars, buildVars>>

(* The daemon dies; the service manager starts what is installed by now.      *)
DaemonDies ==
  /\ daemon # None
  /\ daemon' = IF loaded THEN installed ELSE None
  /\ UNCHANGED <<platform, good, desired, loaded, buildVars, cmd>>

Next ==
  \/ \E c \in Commands : \/ \E op \in DOMAIN Script : Issue(c, op)
                         \/ ReadDesired(c) \/ WriteDesired(c)
                         \/ Promote(c) \/ Restore(c) \/ StepThrows(c)
                         \/ ManagerStart(c) \/ ManagerRestart(c) \/ ManagerStop(c)
                         \/ Probe(c) \/ WaitForHealthy(c) \/ HealthCheck(c)
  \/ DaemonDies

Spec == Init /\ [][Next]_vars

-----------------------------------------------------------------------------

TypeOK ==
  /\ desired \in {"running", "stopped"} /\ loaded \in BOOLEAN
  /\ {daemon, installed, previous} \subseteq 0..MaxBuilds
  /\ \A c \in Commands : cmd[c].answer \in {"none", "ok", "failed", "rolled back", "unverified"}

(* A service that was stopped on purpose stays away: a stop that nobody       *)
(* interferes with leaves no daemon and nothing that would start one, and no  *)
(* command that has the field to itself starts a daemon that is not wanted    *)
(* (stop, restart, ensureRunning, readDesiredState).                          *)
StopHolds ==
  [][/\ TypeOK'
     /\ \A c \in Commands : cmd[c].alone /\ Busy(c) /\ cmd'[c].alone =>
          /\ cmd[c].op = "stop" /\ cmd'[c].answer = "ok" => daemon' = None /\ ~loaded'
          /\ daemon = None /\ daemon' # None => desired = "running"]_vars

(* An update that nobody interferes with ends with a build that has passed    *)
(* the gate: the new one, or the one it found; only if it says that the       *)
(* rollback could not be verified may there be another (updateLocal).         *)
UpdatesAreGated ==
  [][\A c \in Commands :
       cmd[c].op = "update" /\ cmd[c].alone /\ Busy(c) /\ cmd'[c].todo = <<>> =>
         CASE cmd'[c].answer = "ok" -> daemon \in good /\ daemon = installed
           [] cmd'[c].answer = "rolled back" ->
                /\ daemon \in good
                /\ installed = cmd[c].found /\ daemon = installed
           [] cmd'[c].answer = "failed" -> installed = cmd[c].found
           [] OTHER -> installed \in {cmd[c].found, builds}]_vars

(* A daemon is never started while it is wanted stopped.                      *)
StopIsPersistent ==
  [][daemon = None /\ daemon' # None => desired = "running"]_vars
=============================================================================
