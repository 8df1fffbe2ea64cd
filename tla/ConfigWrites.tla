----------------------------- MODULE ConfigWrites -----------------------------
(* ConfigStore (src/src/config/store.ts), as the operation executor uses it:  *)
(* every tool call records itself in the same file that holds the settings.   *)
(* The file is loaded by the first operation that needs it, and replaced as a *)
(* whole by a chain of writes, one snapshot each.                             *)
(*                                                                            *)
(* A setting is the operation that set it, or Default.  Stages of an          *)
(* operation: idle, loading, queued, ok, failed, lost (the daemon died).      *)
EXTENDS Integers, Sequences

CONSTANTS Settings,        \* operations set_config_value
          Records,         \* tool calls that record themselves
          Reads,           \* get_config and the other operations that only read
          Keys, KeyOf,     \* KeyOf[o]: the key that the setting o sets
          MaxCalls,        \* MAX_TOOL_CALLS
          MaxCrashes,      \* bound: how often the daemon dies
          Default

(* What the proofs assume of the constants: a read changes nothing.           *)
ConfigAssumption ==
  /\ MaxCalls \in Nat \ {0}
  /\ Reads \cap (Settings \cup Records) = {}

VARIABLES config, calls,   \* the store's memory
          loaded,
          chain,           \* the writes that pendingWrite stands for, oldest first
          poisoned,        \* pendingWrite is rejected
          committed,       \* the first write of the chain has renamed its file
          file,            \* what is at the path: Absent, Corrupt or a snapshot
          stage,
          overtaken,       \* an operation went on while another one loaded
          crashes

vars == <<config, calls, loaded, chain, poisoned, committed, file, stage,
          overtaken, crashes>>

Ops == Settings \cup Records \cup Reads
Stages == {"idle", "loading", "queued", "ok", "failed", "lost"}

Absent == [kind |-> "absent"]
Corrupt == [kind |-> "corrupt"]
Snapshot(c, cs) == [kind |-> "stored", config |-> c, calls |-> cs]

Defaults == [k \in Keys |-> Default]
Latest(cs) == SubSeq(cs, (IF Len(cs) > MaxCalls THEN Len(cs) - MaxCalls ELSE 0) + 1, Len(cs))

Loading == \E o \in Ops : stage[o] = "loading"

(* A start finds no file, one that is damaged, or one of an earlier life.     *)
Init ==
  /\ config = Defaults /\ calls = <<>>
  /\ loaded = FALSE
  /\ chain = <<>> /\ poisoned = FALSE /\ committed = FALSE
  /\ file \in {Absent, Corrupt, Snapshot([k \in Keys |-> "user"], <<"old">>)}
  /\ stage = [o \in Ops |-> "idle"]
  /\ overtaken = FALSE
  /\ crashes = 0

-----------------------------------------------------------------------------

\* Mutant: the snapshot is taken before the change.
ApplyAfterSnapshot(o, c, cs) ==
  /\ config' = IF o \in Settings THEN [c EXCEPT ![KeyOf[o]] = o] ELSE c
  /\ calls' = IF o \in Records THEN Latest(cs \o <<o>>) ELSE cs
  /\ IF o \in Reads
     THEN /\ stage' = [stage EXCEPT ![o] = "ok"]
          /\ UNCHANGED chain
     ELSE /\ stage' = [stage EXCEPT ![o] = "queued"]
          /\ chain' = Append(chain, [op |-> o, snapshot |-> Snapshot(c, cs)])

(* setConfigValue, recordToolCall or a read, once the store is loaded, on the *)
(* memory (c, cs): change it and put a snapshot at the end of the chain.      *)
Apply(o, c, cs) ==
  LET c2 == IF o \in Settings THEN [c EXCEPT ![KeyOf[o]] = o] ELSE c
      cs2 == IF o \in Records THEN Latest(cs \o <<o>>) ELSE cs
  IN
  /\ config' = c2
  /\ calls' = cs2
  /\ IF o \in Reads
     THEN /\ stage' = [stage EXCEPT ![o] = "ok"]
          /\ UNCHANGED chain
     ELSE /\ stage' = [stage EXCEPT ![o] = "queued"]
          /\ chain' = Append(chain, [op |-> o, snapshot |-> Snapshot(c2, cs2)])

(* ensureLoaded: the flag is set before the file is read, so that whoever     *)
(* comes next goes on with the memory as it is.                               *)
BeginLoading(o) ==
  /\ stage[o] = "idle"
  /\ ~loaded
  /\ loaded' = TRUE
  /\ stage' = [stage EXCEPT ![o] = "loading"]
  /\ UNCHANGED <<config, calls, chain, poisoned, committed, file, overtaken, crashes>>

GoOn(o) ==
  /\ stage[o] = "idle"
  /\ loaded
  /\ Apply(o, config, calls)
  /\ overtaken' = (overtaken \/ Loading)
  /\ UNCHANGED <<loaded, poisoned, committed, file, crashes>>

\* Mutant: a file that is there is not taken over.
ConfigAsItIs == config

(* What the file that is read makes of the memory.                            *)
LoadedConfig == CASE file.kind = "stored" -> file.config
                  [] file.kind = "corrupt" -> Defaults
                  [] OTHER -> config
LoadedCalls == IF file.kind = "stored" THEN Latest(file.calls) ELSE calls

LoadEnds(o) ==
  /\ stage[o] = "loading"
  /\ Apply(o, LoadedConfig, LoadedCalls)
  /\ UNCHANGED <<loaded, poisoned, committed, file, overtaken, crashes>>

-----------------------------------------------------------------------------

(* writeAtomicJson of the first snapshot: the rename.                         *)
Commit ==
  /\ chain # <<>>
  /\ ~poisoned
  /\ ~committed
  /\ file' = Head(chain).snapshot
  /\ committed' = TRUE
  /\ UNCHANGED <<config, calls, loaded, chain, poisoned, stage, overtaken, crashes>>

Answer(o, how) ==
  /\ stage' = [stage EXCEPT ![o] = how]
  /\ chain' = Tail(chain)
  /\ committed' = FALSE

WriteDone ==
  /\ chain # <<>>
  /\ committed
  /\ Answer(Head(chain).op, "ok")
  /\ UNCHANGED <<config, calls, loaded, poisoned, file, overtaken, crashes>>

(* The write fails before its rename, or chmod does behind it: pendingWrite   *)
(* is rejected, and every write that is chained to it is rejected untried.    *)
WriteFails ==
  /\ chain # <<>>
  /\ ~poisoned
  /\ poisoned' = TRUE
  /\ Answer(Head(chain).op, "failed")
  /\ UNCHANGED <<config, calls, loaded, file, overtaken, crashes>>

NotTried ==
  /\ chain # <<>>
  /\ poisoned
  /\ Answer(Head(chain).op, "failed")
  /\ UNCHANGED <<config, calls, loaded, poisoned, file, overtaken, crashes>>

(* The daemon dies and is started again: only the file is left.               *)
Crash ==
  /\ crashes < MaxCrashes
  /\ crashes' = crashes + 1
  /\ config' = Defaults /\ calls' = <<>>
  /\ loaded' = FALSE
  /\ chain' = <<>> /\ poisoned' = FALSE /\ committed' = FALSE
  /\ stage' = [o \in Ops |-> IF stage[o] \in {"loading", "queued"} THEN "lost" ELSE stage[o]]
  /\ UNCHANGED <<file, overtaken>>

Next ==
  \/ \E o \in Ops : BeginLoading(o) \/ GoOn(o) \/ LoadEnds(o)
  \/ Commit \/ WriteDone \/ WriteFails \/ NotTried
  \/ Crash

Spec == Init /\ [][Next]_vars

-----------------------------------------------------------------------------

TypeOK ==
  /\ DOMAIN config = Keys
  /\ Len(calls) <= MaxCalls
  /\ stage \in [Ops -> Stages]
  /\ {chain[i].op : i \in DOMAIN chain} = {o \in Ops : stage[o] = "queued"}
  /\ {loaded, poisoned, committed, overtaken} \subseteq BOOLEAN

Stored == IF file.kind = "stored" THEN file.config ELSE Defaults

(* Type invariant; and unless an operation overtook the loading, what the     *)
(* store answers is what the next start will find: the last snapshot of the   *)
(* chain, or the file if nothing is queued and no write has failed (persist,  *)
(* ensureLoaded).                                                             *)
MemoryIsOnItsWay ==
  /\ TypeOK
  /\ loaded /\ ~Loading /\ ~overtaken =>
       IF chain # <<>> THEN chain[Len(chain)].snapshot = Snapshot(config, calls)
       ELSE poisoned \/ (Stored = config /\ (file.kind = "stored" => file.calls = calls))

(* A setting that is stored is replaced by nothing but a later setting of its *)
(* key, through crashes and failed writes, unless an operation overtook the   *)
(* loading of the store (ensureLoaded, persist).                              *)
SettingsKept ==
  ~overtaken => \A k \in Keys :
    Stored'[k] # Stored[k] => /\ Stored'[k] \in Settings
                              /\ KeyOf[Stored'[k]] = k
                              /\ stage[Stored'[k]] # "idle"
SettingsArePreserved == [][SettingsKept]_vars

(* A setting fails only when its own write was tried: the telemetry of other  *)
(* calls never changes what an operation returns.                             *)
TelemetryChangesNothing ==
  [][\A o \in Settings : stage[o] = "queued" /\ stage'[o] = "failed" => ~poisoned]_vars
=============================================================================
