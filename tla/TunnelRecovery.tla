---------------------------- MODULE TunnelRecovery ----------------------------
(* desktop-remote repair-tunnel: what the probes say of the tunnel            *)
(* (src/src/platform/tunnel-health.ts), the report made of it (doctor.ts),    *)
(* the decision over a restart budget that is kept in a file                  *)
(* (recovery-policy.ts), and the restart (repair.ts, tunnel-install.ts).      *)
(*                                                                            *)
(* Each repair is a process that reads the history, probes, decides, restarts *)
(* and writes the history back; others may run at the same time.  Probes that *)
(* run in parallel are one step, made before the moment the decision uses.    *)
EXTENDS Integers, Sequences, Subsequences

CONSTANTS Repairs,                   \* the repairs that may run at once
          MaxRestarts, Window, Cooldown, HealthyReset,   \* RecoveryPolicyOptions
          MaxTime,                   \* bound on the clock
          MaxChanges,                \* bound: how often the tunnel changes by itself
          MaxMishaps                 \* bound: repairs that overlap another or are killed

(* What the proofs assume of the policy (DEFAULT_RECOVERY_POLICY).            *)
RecoveryAssumption ==
  /\ {MaxTime, Window, Cooldown} \subseteq Nat /\ MaxRestarts \in Nat \ {0}
  /\ Cooldown <= Window

VARIABLES now,
          tunnel,          \* "dead", "alive" (but not ready) or "ready"
          configured,      \* there is a health URL to probe
          service,         \* a tunnel service is installed
          history,         \* restartTimes in recovery-state.json
          repair,          \* what each repair knows and does
          restarts,        \* ghost: the decisions to restart that were carried out since a
                           \* reset by a tunnel that had been healthy for long enough, as
                           \* long as there was no mishap
          mishaps,
          changes

vars == <<now, tunnel, configured, service, history, repair, restarts, mishaps, changes>>

Idle == [at |-> "idle", past |-> <<>>, seen |-> <<>>, next |-> <<>>]

Init ==
  /\ now = 0
  /\ tunnel \in {"dead", "ready"} /\ configured \in BOOLEAN /\ service \in BOOLEAN
  /\ history = <<>> /\ restarts = <<>>
  /\ repair = [r \in Repairs |-> Idle]
  /\ mishaps = 0 /\ changes = 0

-----------------------------------------------------------------------------

(* What a source says: nothing if its probe was not answered in time.         *)
Silent == [answered |-> FALSE, liveness |-> FALSE, readiness |-> FALSE]

(* An endpoint answers with what is true, or not at all.                      *)
Answers ==
  {Silent} \cup
  IF tunnel = "dead" THEN {}
  ELSE {[answered |-> TRUE, liveness |-> TRUE, readiness |-> tunnel = "ready"]}

(* mergeSelected: it lives if one of the sources says so.                     *)
Merged(sources) ==
  [liveness |-> \E i \in DOMAIN sources : sources[i].liveness,
   readiness |-> \E i \in DOMAIN sources : sources[i].readiness]

(* probeTunnelDiagnostics and buildReport: the health endpoints and the       *)
(* status interface are asked at the same time; the second may know that the  *)
(* last poll of the control plane is too old (withPollingAge).                *)
Observations ==
  UNION {{[merged |-> Merged(sources), stale |-> stale] :
            stale \in {FALSE, sources[2].answered}} : sources \in [1..2 -> Answers]}

LocallyHealthy(seen) == seen.merged.liveness /\ seen.merged.readiness
LocallyRepairable(seen) == ~seen.merged.liveness

\* Mutant: a restart is forgotten when the window is just over.
RecentBefore(past) ==
  LET counting == Keep(past, {i \in DOMAIN past : past[i] <= now /\ now - past[i] < Window})
      first == IF Len(counting) > MaxRestarts THEN Len(counting) - MaxRestarts + 1 ELSE 1
  IN SubSeq(counting, first, Len(counting))

(* The restarts that still count.                                             *)
Recent(past) ==
  LET counting == Keep(past, {i \in DOMAIN past : past[i] <= now /\ now - past[i] <= Window})
      first == IF Len(counting) > MaxRestarts THEN Len(counting) - MaxRestarts + 1 ELSE 1
  IN SubSeq(counting, first, Len(counting))

InCooldown(recent) == recent # <<>> /\ now - recent[Len(recent)] < Cooldown
HealthyForLong(recent) == recent = <<>> \/ now - recent[Len(recent)] >= HealthyReset

(* evaluateRecovery.                                                          *)
MayRestart(seen, recent) ==
  /\ configured
  /\ ~LocallyHealthy(seen) /\ LocallyRepairable(seen)
  /\ Len(recent) < MaxRestarts
  /\ ~InCooldown(recent)

Resets(seen, recent) ==
  configured /\ LocallyHealthy(seen) /\ ~seen.stale /\ HealthyForLong(recent)

-----------------------------------------------------------------------------

world == <<now, tunnel, configured, service, changes>>

Mishap == mishaps < MaxMishaps /\ mishaps' = mishaps + 1 /\ restarts' = <<>>

Counted(decided) == IF mishaps = 0 THEN Append(restarts, decided) ELSE <<>>

(* repairTunnel reads the history first.                                      *)
Begin(r) ==
  /\ repair[r].at = "idle"
  /\ repair' = [repair EXCEPT ![r].at = "probing", ![r].past = history]
  /\ IF \A other \in Repairs : repair[other].at = "idle"
     THEN UNCHANGED <<restarts, mishaps>>
     ELSE Mishap
  /\ UNCHANGED <<world, history>>

Probe(r) ==
  /\ repair[r].at = "probing"
  /\ \E seen \in Observations : repair' = [repair EXCEPT ![r].at = "deciding", ![r].seen = seen]
  /\ UNCHANGED <<world, history, restarts, mishaps>>

Decide(r) ==
  /\ repair[r].at = "deciding"
  /\ LET recent == Recent(repair[r].past)
         seen == repair[r].seen IN
     IF MayRestart(seen, recent)
     THEN /\ repair' = [repair EXCEPT ![r] = [Idle EXCEPT !.at = "restarting",
                                                         !.next = Append(recent, now)]]
          /\ UNCHANGED restarts
     ELSE /\ repair' = [repair EXCEPT ![r] =
                [Idle EXCEPT !.at = "writing",
                             !.next = IF Resets(seen, recent) THEN <<>> ELSE recent]]
          /\ restarts' = IF Resets(seen, recent) THEN <<>> ELSE restarts
  /\ UNCHANGED <<world, history, mishaps>>

(* restartTunnelServiceIfConfigured: the service manager restarts it, which   *)
(* need not help, or refuses; the attempt counts all the same.                *)
Restart(r) ==
  /\ repair[r].at = "restarting" /\ service
  /\ tunnel' \in {tunnel, "alive", "ready"}
  /\ repair' = [repair EXCEPT ![r].at = "writing"]
  /\ restarts' = Counted(repair[r].next[Len(repair[r].next)])
  /\ UNCHANGED <<now, configured, service, changes, history, mishaps>>

(* Without a service there is nothing to restart and nothing is written.      *)
NothingToRestart(r) ==
  /\ repair[r].at = "restarting" /\ ~service
  /\ repair' = [repair EXCEPT ![r] = Idle]
  /\ UNCHANGED <<world, history, restarts, mishaps>>

WriteHistory(r) ==
  /\ repair[r].at = "writing"
  /\ history' = repair[r].next
  /\ repair' = [repair EXCEPT ![r] = Idle]
  /\ UNCHANGED <<world, restarts, mishaps>>

(* The process is killed: a restart it has made is not in the history.        *)
CutShort(r) ==
  /\ repair[r].at # "idle"
  /\ repair' = [repair EXCEPT ![r] = Idle]
  /\ Mishap
  /\ UNCHANGED <<world, history>>

-----------------------------------------------------------------------------

TunnelChanges ==
  /\ changes < MaxChanges
  /\ changes' = changes + 1
  /\ tunnel' \in {"dead", "alive", "ready"} \ {tunnel}
  /\ UNCHANGED <<now, configured, service, history, repair, restarts, mishaps>>

Tick ==
  /\ now < MaxTime
  /\ now' = now + 1
  /\ UNCHANGED <<tunnel, configured, service, changes, history, repair, restarts, mishaps>>

Next ==
  \/ \E r \in Repairs : \/ Begin(r) \/ Probe(r) \/ Decide(r)
                        \/ Restart(r) \/ NothingToRestart(r)
                        \/ WriteHistory(r) \/ CutShort(r)
  \/ TunnelChanges \/ Tick

Spec == Init /\ [][Next]_vars

-----------------------------------------------------------------------------

TypeOK ==
  /\ now \in 0..MaxTime
  /\ tunnel \in {"dead", "alive", "ready"}
  /\ history \in Seq(0..now) /\ Len(history) <= MaxRestarts
  /\ \A r \in Repairs : repair[r].at \in {"idle", "probing", "deciding", "restarting", "writing"}

(* Type invariant, and the budget, as long as repairs do not overlap and none *)
(* is killed: since the tunnel was last healthy for long enough no window     *)
(* holds more restarts than the policy allows, and no two of them are closer  *)
(* than the cooldown, although what a repair decides on was read before the   *)
(* probes and what it does is written down after the restart.                 *)
RestartsAreBudgeted ==
  /\ TypeOK
  /\ \A i, j \in DOMAIN restarts :
       i < j => /\ restarts[j] - restarts[i] >= Cooldown
                /\ restarts[j] - restarts[i] <= Window => j - i < MaxRestarts
=============================================================================
