----------------------------- MODULE StorageProofs -----------------------------
(***************************************************************************)
(* Proofs about what Service keeps in files: the config, the history and   *)
(* the log.                                                                *)
(***************************************************************************)
EXTENDS ServiceProofs

-----------------------------------------------------------------------------
(***************************************************************************)
(* The config file.  The chain of writes holds each operation that waits   *)
(* once, and the settings of its snapshots only follow one another.        *)
(***************************************************************************)
Configs == [Keys -> Settings \cup {Default, "user"}]
CallLists == {cs \in Seq(Records \cup {"old"}) : Len(cs) <= MaxCalls}
Snapshots == [kind : {"stored"}, config : Configs, calls : CallLists]
Write == [op : Config!Ops, snapshot : Snapshots]

ConfigShapes ==
  /\ config \in Configs /\ calls \in CallLists
  /\ writes \in Seq(Write)
  /\ configFile \in {Config!Absent, Config!Corrupt} \cup Snapshots
  /\ stage \in [Config!Ops -> Config!Stages]
  /\ loadedConfig \in BOOLEAN /\ poisoned \in BOOLEAN
  /\ committed \in BOOLEAN /\ overtaken \in BOOLEAN

(* The chain holds exactly the operations that wait for their write, each once. *)
QueuedOnce ==
  /\ \A i \in 1..Len(writes) : stage[writes[i].op] = "queued"
  /\ \A i, j \in 1..Len(writes) : writes[i].op = writes[j].op => i = j
  /\ \A o \in Config!Ops : stage[o] = "queued" => \E i \in 1..Len(writes) : writes[i].op = o

CommittedIsFirst == committed => writes # <<>> /\ configFile = writes[1].snapshot

Fresh == writes = <<>> /\ config = Config!Defaults /\ calls = <<>> /\ ~poisoned

(* Only one operation loads the store, and finds it as it was made unless     *)
(* another one did not wait for it.                                           *)
LoadedByOne ==
  /\ ~loadedConfig => ~Config!Loading /\ Fresh
  /\ \A o, p \in Config!Ops : stage[o] = "loading" /\ stage[p] = "loading" => o = p
  /\ Config!Loading /\ ~overtaken => Fresh

MemoryOnItsWay ==
  loadedConfig /\ ~Config!Loading /\ ~overtaken =>
    IF writes # <<>> THEN writes[Len(writes)].snapshot = Config!Snapshot(config, calls)
    ELSE poisoned \/ (Config!Stored = config /\ (configFile.kind = "stored" => configFile.calls = calls))

SetBy(st, k, v) == v \in Settings /\ KeyOf[v] = k /\ st[v] # "idle"

(* d is c but for keys that have been set.                                    *)
Follows(st, c, d) == \A k \in Keys : d[k] = c[k] \/ SetBy(st, k, d[k])

(* The file, the snapshots in the order of the chain and the memory are each  *)
(* the one before but for keys that have been set.                            *)
SettingsAccumulate ==
  ~overtaken =>
    /\ \A i \in 1..Len(writes) : Follows(stage, Config!Stored, writes[i].snapshot.config)
    /\ \A i, j \in 1..Len(writes) :
         i <= j => Follows(stage, writes[i].snapshot.config, writes[j].snapshot.config)
    /\ loadedConfig /\ ~Config!Loading =>
         /\ Follows(stage, Config!Stored, config)
         /\ \A i \in 1..Len(writes) : Follows(stage, writes[i].snapshot.config, config)

ConfigIInv ==
  /\ Config!ConfigAssumption /\ ConfigShapes /\ QueuedOnce /\ CommittedIsFirst
  /\ LoadedByOne /\ MemoryOnItsWay /\ SettingsAccumulate

-----------------------------------------------------------------------------

(* What recordToolCall and ensureLoaded keep of a list of calls is bounded,   *)
(* and a list that is bounded is kept whole.                                  *)
LEMMA LatestIsBounded ==
  ASSUME Config!ConfigAssumption, NEW cs \in Seq(Records \cup {"old"})
  PROVE  /\ Config!Latest(cs) \in CallLists
         /\ Len(cs) <= MaxCalls => Config!Latest(cs) = cs
<1> DEFINE S == Records \cup {"old"}
           m == IF Len(cs) > MaxCalls THEN Len(cs) - MaxCalls ELSE 0
<1>1. /\ Len(cs) \in Nat /\ MaxCalls \in Nat /\ m \in Nat /\ m + 1 \in 1..Len(cs)+1
      /\ Len(cs) - m <= MaxCalls
  BY LenProperties DEF Config!ConfigAssumption
<1>2. Config!Latest(cs) = SubSeq(cs, m + 1, Len(cs))
  BY DEF Config!Latest
<1> HIDE DEF m
<1>3. \A i \in m+1 .. Len(cs) : cs[i] \in S
  BY <1>1, ElementOfSeq
<1>4. /\ Config!Latest(cs) \in Seq(S)
      /\ Len(Config!Latest(cs)) = IF m + 1 <= Len(cs) THEN Len(cs) - (m + 1) + 1 ELSE 0
      /\ \A i \in 1..Len(cs) - (m+1) + 1 : Config!Latest(cs)[i] = cs[m+1+i-1]
  BY <1>1, <1>2, <1>3, SubSeqProperties
<1>5. Config!Latest(cs) \in CallLists
  BY <1>1, <1>4 DEF CallLists
<1>6. ASSUME Len(cs) <= MaxCalls PROVE Config!Latest(cs) = cs
  <2>1. m = 0
    BY <1>1, <1>6 DEF m
  <2>2. QED
    BY <1>1, <1>4, <2>1, SeqEqual
<1>7. QED
  BY <1>5, <1>6

(* Whatever was set stays set, since no operation becomes idle again.         *)
LEMMA FollowsStands ==
  ASSUME NEW st, NEW st2, \A o \in Config!Ops : st[o] # "idle" => st2[o] # "idle",
         NEW c, NEW d, Follows(st, c, d)
  PROVE  Follows(st2, c, d)
BY DEF Follows, SetBy, Config!Ops

LEMMA FollowsTransitive ==
  ASSUME NEW st, NEW c, NEW d, NEW e, Follows(st, c, d), Follows(st, d, e)
  PROVE  Follows(st, c, e)
BY DEF Follows, SetBy

LEMMA FollowsItself == ASSUME NEW st, NEW c PROVE Follows(st, c, c)
BY DEF Follows

LEMMA InitStep == Config!ConfigAssumption /\ Config!Init => ConfigIInv
<1> SUFFICES ASSUME Config!ConfigAssumption, Config!Init PROVE ConfigIInv
  OBVIOUS
<1>1. /\ Config!Defaults \in Configs
      /\ [k \in Keys |-> "user"] \in Configs
  BY DEF Config!Defaults, Configs
<1>2. /\ <<>> \in CallLists /\ <<"old">> \in CallLists
      /\ <<>> \in Seq(Write) /\ Len(<<>>) = 0
  <2>1. /\ <<>> \in Seq(Records \cup {"old"}) /\ <<>> \in Seq(Write) /\ Len(<<>>) = 0
    BY EmptySeq
  <2>2. <<"old">> \in Seq(Records \cup {"old"}) /\ Len(<<"old">>) = 1
    OBVIOUS
  <2>3. QED
    BY <2>1, <2>2 DEF Config!ConfigAssumption, CallLists
<1>3. ConfigShapes
  <2>1. configFile \in {Config!Absent, Config!Corrupt} \cup Snapshots
    BY <1>1, <1>2 DEF Config!Init, Snapshots, Config!Snapshot
  <2>2. QED
    BY <1>1, <1>2, <2>1 DEF Config!Init, ConfigShapes, Config!Stages
<1>4. \A o \in Config!Ops : stage[o] = "idle"
  BY DEF Config!Init
<1>5. QueuedOnce /\ CommittedIsFirst /\ LoadedByOne /\ MemoryOnItsWay /\ SettingsAccumulate
  BY <1>2, <1>4 DEF Config!Init, QueuedOnce, CommittedIsFirst, LoadedByOne, Config!Loading, Fresh,
     MemoryOnItsWay, SettingsAccumulate
<1>6. QED
  BY <1>3, <1>5 DEF ConfigIInv

(* setConfigValue, recordToolCall or a read on a loaded memory: the memory    *)
(* follows what it was, and a snapshot of it is the last of the chain, unless *)
(* nothing has changed.                                                       *)
LEMMA ApplyStep ==
  ASSUME ConfigIInv, NEW o \in Config!Ops, stage[o] \in {"idle", "loading"},
         NEW STATE c, c \in Configs, NEW STATE cs, cs \in CallLists, Config!Apply(o, c, cs)
  PROVE  /\ config' \in Configs /\ calls' \in CallLists
         /\ writes' \in Seq(Write) /\ stage' \in [Config!Ops -> Config!Stages]
         /\ \A p \in Config!Ops : p # o => stage'[p] = stage[p]
         /\ stage'[o] \in {"ok", "queued"}
         /\ QueuedOnce'
         /\ Follows(stage', c, config')
         /\ \/ writes' = writes /\ config' = c /\ calls' = cs
            \/ /\ Len(writes') = Len(writes) + 1
               /\ \A i \in 1..Len(writes) : writes'[i] = writes[i]
               /\ writes'[Len(writes) + 1].snapshot = Config!Snapshot(config', calls')
<1>1. /\ writes \in Seq(Write) /\ stage \in [Config!Ops -> Config!Stages] /\ Len(writes) \in Nat
      /\ o \in Settings \cup Records \cup Reads
  BY LenProperties DEF ConfigIInv, ConfigShapes, Config!Ops
<1>2. config' \in Configs
  BY DEF Config!Apply, Configs
<1>3. calls' \in CallLists
  <2>1. CASE o \in Records
    <3>1. cs \in Seq(Records \cup {"old"}) /\ <<o>> \in Seq(Records \cup {"old"})
      BY <2>1 DEF CallLists
    <3>2. cs \o <<o>> \in Seq(Records \cup {"old"})
      BY <3>1, ConcatProperties
    <3>3. QED
      BY <2>1, <3>2, LatestIsBounded DEF Config!Apply, ConfigIInv
  <2>2. CASE o \notin Records
    BY <2>2 DEF Config!Apply
  <2>3. QED
    BY <2>1, <2>2
<1>4. \A i \in 1..Len(writes) : writes[i].op # o
  BY DEF ConfigIInv, QueuedOnce
<1>5. CASE o \in Reads
  <2>1. /\ o \notin Settings /\ o \notin Records
        /\ stage' = [stage EXCEPT ![o] = "ok"] /\ writes' = writes
        /\ config' = c /\ calls' = cs
    BY <1>5 DEF Config!Apply, ConfigIInv, Config!ConfigAssumption
  <2>2. stage' \in [Config!Ops -> Config!Stages] /\ (\A p \in Config!Ops : p # o => stage'[p] = stage[p])
        /\ stage'[o] = "ok"
    BY <1>1, <2>1 DEF Config!Stages
  <2>3. QueuedOnce'
    BY <1>1, <1>4, <2>1, <2>2, ElementOfSeq DEF ConfigIInv, QueuedOnce, Write
  <2>4. QED
    BY <1>1, <1>2, <1>3, <2>1, <2>2, <2>3, FollowsItself
<1>6. CASE o \notin Reads
  <2> DEFINE w == [op |-> o, snapshot |-> Config!Snapshot(config', calls')]
  <2>1. stage' = [stage EXCEPT ![o] = "queued"] /\ writes' = Append(writes, w)
    BY <1>6 DEF Config!Apply
  <2>2. stage' \in [Config!Ops -> Config!Stages] /\ (\A p \in Config!Ops : p # o => stage'[p] = stage[p])
        /\ stage'[o] = "queued"
    BY <1>1, <2>1 DEF Config!Stages
  <2>3. w \in Write /\ w.op = o /\ w.snapshot = Config!Snapshot(config', calls')
    BY <1>2, <1>3 DEF Write, Snapshots, Config!Snapshot
  <2> HIDE DEF w
  <2>4. /\ writes' \in Seq(Write)
        /\ Len(writes') = Len(writes) + 1
        /\ \A i \in 1..Len(writes) : writes'[i] = writes[i]
        /\ writes'[Len(writes) + 1] = w
    BY <1>1, <2>1, <2>3, AppendProperties
  <2>5. QueuedOnce'
    <3>1. \A i \in 1..Len(writes') : i \in 1..Len(writes) \/ i = Len(writes) + 1
      BY <1>1, <2>4
    <3>2. \A i \in 1..Len(writes) : i \in 1..Len(writes') /\ writes[i].op \in Config!Ops
      <4>1. \A i \in 1..Len(writes) : writes[i] \in Write
        BY <1>1, ElementOfSeq
      <4>2. QED
        BY <1>1, <2>4, <4>1 DEF Write
    <3>3. Len(writes) + 1 \in 1..Len(writes')
      BY <1>1, <2>4
    <3>4. \A i \in 1..Len(writes') : stage'[writes'[i].op] = "queued"
      BY <1>4, <2>2, <2>3, <2>4, <3>1, <3>2 DEF ConfigIInv, QueuedOnce
    <3>5. \A i, j \in 1..Len(writes') : writes'[i].op = writes'[j].op => i = j
      BY <1>4, <2>3, <2>4, <3>1 DEF ConfigIInv, QueuedOnce
    <3>6. \A p \in Config!Ops : stage'[p] = "queued" => \E i \in 1..Len(writes') : writes'[i].op = p
      BY <2>2, <2>3, <2>4, <3>2, <3>3 DEF ConfigIInv, QueuedOnce
    <3>7. QED
      BY <3>4, <3>5, <3>6 DEF QueuedOnce
  <2>6. Follows(stage', c, config')
    BY <2>2 DEF Config!Apply, Follows, SetBy, Configs
  <2>7. QED
    BY <1>2, <1>3, <2>2, <2>3, <2>4, <2>5, <2>6
<1>7. QED
  BY <1>5, <1>6

(* A write is answered: its entry leaves the chain, and nobody else notices.  *)
LEMMA AnswerStep ==
  ASSUME ConfigIInv, writes # <<>>, NEW how \in {"ok", "failed"}, Config!Answer(Head(writes).op, how)
  PROVE  /\ Len(writes) \in Nat \ {0} /\ Head(writes) = writes[1]
         /\ writes' \in Seq(Write) /\ stage' \in [Config!Ops -> Config!Stages]
         /\ Len(writes') = Len(writes) - 1
         /\ \A i \in 1..Len(writes') : i + 1 \in 1..Len(writes) /\ writes'[i] = writes[i + 1]
         /\ \A p \in Config!Ops : stage[p] # "idle" => stage'[p] # "idle"
         /\ \A p \in Config!Ops : stage[p] = "loading" <=> stage'[p] = "loading"
         /\ QueuedOnce' /\ CommittedIsFirst'
         /\ writes' = <<>> <=> Len(writes) = 1
<1> DEFINE o == writes[1].op
<1>1. /\ writes \in Seq(Write) /\ stage \in [Config!Ops -> Config!Stages]
      /\ Len(writes) \in Nat \ {0} /\ Head(writes) = writes[1]
  BY EmptySeq DEF ConfigIInv, ConfigShapes
<1>2. \A i \in 1..Len(writes) : writes[i] \in Write /\ writes[i].op \in Config!Ops
  <2>1. \A i \in 1..Len(writes) : writes[i] \in Write
    BY <1>1, ElementOfSeq
  <2>2. QED
    BY <2>1 DEF Write
<1>3. o \in Config!Ops /\ stage[o] = "queued"
  BY <1>1, <1>2 DEF ConfigIInv, QueuedOnce
<1>4. /\ stage' = [stage EXCEPT ![o] = how] /\ writes' = Tail(writes) /\ committed' = FALSE
  BY <1>1 DEF Config!Answer
<1>5. /\ writes' \in Seq(Write)
      /\ Len(writes') = Len(writes) - 1
      /\ \A i \in 1..Len(writes') : writes'[i] = writes[i + 1]
  BY <1>1, <1>4, HeadTailProperties
<1> HIDE DEF o
<1>6. \A i \in 1..Len(writes') : i + 1 \in 1..Len(writes) /\ i + 1 # 1
  BY <1>1, <1>5
<1>7. /\ stage' \in [Config!Ops -> Config!Stages] /\ stage'[o] = how
      /\ \A p \in Config!Ops : p # o => stage'[p] = stage[p]
  BY <1>1, <1>3, <1>4 DEF Config!Stages
<1>8. QueuedOnce'
  <2>1. \A i \in 1..Len(writes') : stage'[writes'[i].op] = "queued"
    <3> SUFFICES ASSUME NEW i \in 1..Len(writes') PROVE stage'[writes'[i].op] = "queued"
      OBVIOUS
    <3>1. writes[i + 1].op # o /\ writes[i + 1].op \in Config!Ops
      BY <1>1, <1>2, <1>6 DEF o, ConfigIInv, QueuedOnce
    <3>2. QED
      BY <1>5, <1>6, <1>7, <3>1 DEF ConfigIInv, QueuedOnce
  <2>2. \A i, j \in 1..Len(writes') : writes'[i].op = writes'[j].op => i = j
    <3> SUFFICES ASSUME NEW i \in 1..Len(writes'), NEW j \in 1..Len(writes'),
                        writes'[i].op = writes'[j].op
                 PROVE  i = j
      OBVIOUS
    <3>1. i + 1 = j + 1
      BY <1>5, <1>6 DEF ConfigIInv, QueuedOnce
    <3>2. QED
      BY <3>1
  <2>3. ASSUME NEW p \in Config!Ops, stage'[p] = "queued"
        PROVE  \E i \in 1..Len(writes') : writes'[i].op = p
    <3>1. p # o /\ stage[p] = "queued"
      BY <1>7, <2>3
    <3>2. PICK j \in 1..Len(writes) : writes[j].op = p
      BY <3>1 DEF ConfigIInv, QueuedOnce
    <3>3. j # 1
      BY <3>1, <3>2 DEF o
    <3>4. j - 1 \in 1..Len(writes') /\ j - 1 + 1 = j
      BY <1>1, <1>5, <3>3
    <3>5. writes'[j - 1].op = p
      BY <1>5, <3>2, <3>4
    <3>6. QED
      BY <3>4, <3>5
  <2>4. QED
    BY <2>1, <2>2, <2>3 DEF QueuedOnce
<1>9. writes' = <<>> <=> Len(writes) = 1
  BY <1>1, <1>5, EmptySeq
<1>10. QED
  BY <1>1, <1>3, <1>4, <1>5, <1>6, <1>7, <1>8, <1>9 DEF CommittedIsFirst

LEMMA BeginLoadingStep ==
  ASSUME ConfigIInv, NEW o \in Config!Ops, Config!BeginLoading(o)
  PROVE  ConfigIInv'
<1>1. /\ UNCHANGED <<config, calls, writes, poisoned, committed, configFile, overtaken>>
      /\ stage[o] = "idle" /\ ~loadedConfig /\ loadedConfig' = TRUE
      /\ stage' = [stage EXCEPT ![o] = "loading"]
      /\ stage \in [Config!Ops -> Config!Stages]
  BY DEF Config!BeginLoading, ConfigIInv, ConfigShapes
<1>2. /\ ~Config!Loading /\ Fresh /\ Len(writes) = 0
  BY <1>1, EmptySeq DEF ConfigIInv, LoadedByOne, Fresh
<1>3. /\ stage' \in [Config!Ops -> Config!Stages] /\ stage'[o] = "loading"
      /\ \A p \in Config!Ops : p # o => stage'[p] = stage[p]
  BY <1>1 DEF Config!Stages
<1>4. ConfigShapes'
  BY <1>1, <1>3 DEF ConfigIInv, ConfigShapes, Snapshots, Configs, CallLists, Write, Config!Absent, Config!Corrupt, Config!Ops
<1>5. QueuedOnce' /\ CommittedIsFirst'
  BY <1>1, <1>2, <1>3 DEF ConfigIInv, QueuedOnce, CommittedIsFirst
<1>6. LoadedByOne'
  BY <1>1, <1>2, <1>3 DEF LoadedByOne, Config!Loading, Fresh, Config!Defaults
<1>7. MemoryOnItsWay' /\ SettingsAccumulate'
  BY <1>1, <1>2, <1>3 DEF MemoryOnItsWay, SettingsAccumulate, Config!Loading
<1>8. QED
  BY <1>4, <1>5, <1>6, <1>7 DEF ConfigIInv, Config!ConfigAssumption

LEMMA GoOnStep ==
  ASSUME ConfigIInv, NEW o \in Config!Ops, Config!GoOn(o)
  PROVE  ConfigIInv'
<1>1. /\ UNCHANGED <<loadedConfig, poisoned, committed, configFile>>
      /\ stage[o] = "idle" /\ loadedConfig
      /\ overtaken' = (overtaken \/ Config!Loading)
      /\ Config!Apply(o, config, calls)
      /\ config \in Configs /\ calls \in CallLists
      /\ writes \in Seq(Write) /\ Len(writes) \in Nat
  BY LenProperties DEF Config!GoOn, ConfigIInv, ConfigShapes
<1> DEFINE kept == writes' = writes /\ config' = config /\ calls' = calls
           queued == /\ Len(writes') = Len(writes) + 1
                     /\ \A i \in 1..Len(writes) : writes'[i] = writes[i]
                     /\ writes'[Len(writes) + 1].snapshot = Config!Snapshot(config', calls')
<1>2. /\ config' \in Configs /\ calls' \in CallLists
      /\ writes' \in Seq(Write) /\ stage' \in [Config!Ops -> Config!Stages]
      /\ \A p \in Config!Ops : p # o => stage'[p] = stage[p]
      /\ stage'[o] \in {"ok", "queued"}
      /\ QueuedOnce'
      /\ Follows(stage', config, config')
      /\ kept \/ queued
  BY <1>1, ApplyStep
<1>3. ConfigShapes'
  BY <1>1, <1>2 DEF ConfigIInv, ConfigShapes, Snapshots, Configs, CallLists, Write, Config!Absent, Config!Corrupt, Config!Ops
<1>4. queued => /\ \A i \in 1..Len(writes) : i \in 1..Len(writes')
                /\ \A i \in 1..Len(writes') : i \in 1..Len(writes) \/ i = Len(writes')
                /\ writes' # <<>> /\ writes'[Len(writes')].snapshot = Config!Snapshot(config', calls')
                /\ Len(writes') \in Nat /\ \A i \in 1..Len(writes) : i <= Len(writes) /\ Len(writes) + 1 > i
  BY <1>1, <1>2, EmptySeq
<1>5. CommittedIsFirst'
  <2>1. writes # <<>> => 1 \in 1..Len(writes)
    BY <1>1, EmptySeq
  <2>2. QED
    BY <1>1, <1>2, <1>4, <2>1 DEF ConfigIInv, CommittedIsFirst
<1>6. Config!Loading' => Config!Loading
  BY <1>2 DEF Config!Loading
<1>7. LoadedByOne'
  BY <1>1, <1>2, <1>6 DEF ConfigIInv, LoadedByOne, Config!Loading
<1>8. ASSUME ~overtaken', ~Config!Loading' PROVE ~overtaken /\ ~Config!Loading
  BY <1>1, <1>8
<1>9. MemoryOnItsWay'
  <2>1. CASE kept
    BY <1>1, <1>8, <2>1 DEF ConfigIInv, MemoryOnItsWay, Config!Stored, Config!Snapshot
  <2>2. CASE queued
    BY <1>1, <1>4, <2>2 DEF MemoryOnItsWay, Config!Snapshot
  <2>3. QED
    BY <1>2, <2>1, <2>2
<1>10. SettingsAccumulate'
  <2> SUFFICES ASSUME ~overtaken'
      PROVE  /\ \A i \in 1..Len(writes') : Follows(stage', Config!Stored, writes'[i].snapshot.config)
             /\ \A i, j \in 1..Len(writes') : i <= j =>
                  Follows(stage', writes'[i].snapshot.config, writes'[j].snapshot.config)
             /\ Follows(stage', Config!Stored, config')
             /\ \A i \in 1..Len(writes') : Follows(stage', writes'[i].snapshot.config, config')
    BY <1>1 DEF SettingsAccumulate, Config!Stored
  <2>1. ~overtaken /\ ~Config!Loading
    BY <1>1
  <2>2. \A p \in Config!Ops : stage[p] # "idle" => stage'[p] # "idle"
    BY <1>1, <1>2
  <2>3. /\ \A i \in 1..Len(writes) : Follows(stage', Config!Stored, writes[i].snapshot.config)
        /\ \A i, j \in 1..Len(writes) : i <= j =>
             Follows(stage', writes[i].snapshot.config, writes[j].snapshot.config)
        /\ Follows(stage', Config!Stored, config)
        /\ \A i \in 1..Len(writes) : Follows(stage', writes[i].snapshot.config, config)
    BY <1>1, <2>1, <2>2, FollowsStands DEF ConfigIInv, SettingsAccumulate
  <2>4. /\ Follows(stage', Config!Stored, config')
        /\ \A i \in 1..Len(writes) : Follows(stage', writes[i].snapshot.config, config')
    BY <1>2, <2>3, FollowsTransitive
  <2>5. CASE kept
    BY <2>3, <2>5
  <2>6. CASE queued
    <3>1. writes'[Len(writes')].snapshot.config = config'
      BY <1>4, <2>6 DEF Config!Snapshot
    <3>2. \A i \in 1..Len(writes') : Follows(stage', Config!Stored, writes'[i].snapshot.config)
                                     /\ Follows(stage', writes'[i].snapshot.config, config')
      BY <1>4, <2>3, <2>4, <2>6, <3>1, FollowsItself
    <3>3. ASSUME NEW i \in 1..Len(writes'), NEW j \in 1..Len(writes'), i <= j
          PROVE  Follows(stage', writes'[i].snapshot.config, writes'[j].snapshot.config)
      <4>1. CASE j \in 1..Len(writes)
        <5>1. i \in 1..Len(writes)
          BY <1>1, <3>3, <4>1
        <5>2. QED
          BY <2>3, <2>6, <3>3, <4>1, <5>1
      <4>2. CASE j = Len(writes')
        BY <3>1, <3>2, <4>2
      <4>3. QED
        BY <1>4, <2>6, <4>1, <4>2
    <3>4. QED
      BY <2>4, <3>2, <3>3
  <2>7. QED
    BY <1>2, <2>5, <2>6
<1>11. QED
  BY <1>2, <1>3, <1>5, <1>7, <1>9, <1>10 DEF ConfigIInv, Config!ConfigAssumption

LEMMA LoadEndsStep ==
  ASSUME ConfigIInv, NEW o \in Config!Ops, Config!LoadEnds(o)
  PROVE  ConfigIInv'
<1>1. /\ UNCHANGED <<loadedConfig, poisoned, committed, configFile, overtaken>>
      /\ stage[o] = "loading"
      /\ Config!Apply(o, Config!LoadedConfig, Config!LoadedCalls)
      /\ writes \in Seq(Write) /\ Len(writes) \in Nat
      /\ config \in Configs /\ calls \in CallLists
      /\ configFile \in {Config!Absent, Config!Corrupt} \cup Snapshots
  BY LenProperties DEF Config!LoadEnds, ConfigIInv, ConfigShapes
<1>2. Config!Loading /\ loadedConfig /\ (overtaken \/ Fresh)
  BY <1>1 DEF ConfigIInv, LoadedByOne, Config!Loading
<1>3. Config!Defaults \in Configs
  BY DEF Config!Defaults, Configs
<1>5. /\ Config!LoadedConfig \in Configs /\ Config!LoadedCalls \in CallLists
      /\ ~overtaken => /\ Config!LoadedConfig = Config!Stored
                       /\ configFile.kind = "stored" => Config!LoadedCalls = configFile.calls
  <2>1. CASE configFile \in Snapshots
    <3>1. /\ configFile.kind = "stored" /\ configFile.config \in Configs /\ configFile.calls \in CallLists
      BY <2>1 DEF Snapshots
    <3>2. Config!Latest(configFile.calls) = configFile.calls
      BY <3>1, LatestIsBounded DEF CallLists, ConfigIInv
    <3>3. QED
      BY <3>1, <3>2 DEF Config!LoadedConfig, Config!LoadedCalls, Config!Stored
  <2>2. CASE configFile \in {Config!Absent, Config!Corrupt}
    BY <1>1, <1>2, <1>3, <2>2 DEF Config!LoadedConfig, Config!LoadedCalls, Config!Stored, Config!Absent, Config!Corrupt, Fresh
  <2>3. QED
    BY <1>1, <2>1, <2>2
<1> DEFINE kept == writes' = writes /\ config' = Config!LoadedConfig /\ calls' = Config!LoadedCalls
           queued == /\ Len(writes') = Len(writes) + 1
                     /\ \A i \in 1..Len(writes) : writes'[i] = writes[i]
                     /\ writes'[Len(writes) + 1].snapshot = Config!Snapshot(config', calls')
<1>6. /\ config' \in Configs /\ calls' \in CallLists
      /\ writes' \in Seq(Write) /\ stage' \in [Config!Ops -> Config!Stages]
      /\ \A p \in Config!Ops : p # o => stage'[p] = stage[p]
      /\ stage'[o] \in {"ok", "queued"}
      /\ QueuedOnce'
      /\ Follows(stage', Config!LoadedConfig, config')
      /\ kept \/ queued
  BY <1>1, <1>5, ApplyStep
<1>7. ConfigShapes'
  BY <1>1, <1>6 DEF ConfigIInv, ConfigShapes, Snapshots, Configs, CallLists, Write, Config!Absent, Config!Corrupt, Config!Ops
<1>8. CommittedIsFirst'
  <2>1. writes # <<>> => 1 \in 1..Len(writes)
    BY <1>1, EmptySeq
  <2>2. queued => writes' # <<>>
    BY <1>1, <1>6, EmptySeq
  <2>3. QED
    BY <1>1, <1>6, <2>1, <2>2 DEF ConfigIInv, CommittedIsFirst
<1>9. ~Config!Loading'
  BY <1>1, <1>6 DEF ConfigIInv, LoadedByOne, Config!Loading
<1>10. LoadedByOne'
  BY <1>1, <1>2, <1>9 DEF LoadedByOne, Config!Loading
<1>11. ASSUME ~overtaken
       PROVE  /\ writes = <<>> /\ Len(writes) = 0
              /\ kept => writes' = <<>> /\ Len(writes') = 0
              /\ queued => /\ writes' # <<>> /\ Len(writes') = 1
                           /\ writes'[1].snapshot = Config!Snapshot(config', calls')
  <2>1. writes = <<>> /\ Len(writes) = 0
    BY <1>2, <1>11, EmptySeq DEF Fresh
  <2>2. QED
    BY <1>6, <2>1, EmptySeq
<1>12. MemoryOnItsWay'
  BY <1>1, <1>5, <1>6, <1>11 DEF MemoryOnItsWay, Config!Stored
<1>13. SettingsAccumulate'
  <2> SUFFICES ASSUME ~overtaken
      PROVE  /\ \A i \in 1..Len(writes') : Follows(stage', Config!Stored, writes'[i].snapshot.config)
             /\ \A i, j \in 1..Len(writes') : i <= j =>
                  Follows(stage', writes'[i].snapshot.config, writes'[j].snapshot.config)
             /\ Follows(stage', Config!Stored, config')
             /\ \A i \in 1..Len(writes') : Follows(stage', writes'[i].snapshot.config, config')
    BY <1>1 DEF SettingsAccumulate, Config!Stored
  <2>1. Follows(stage', Config!Stored, config')
    BY <1>5, <1>6
  <2>2. \A i \in 1..Len(writes') : writes'[i].snapshot.config = config'
    BY <1>6, <1>11 DEF Config!Snapshot
  <2>3. QED
    BY <2>1, <2>2, FollowsItself
<1>14. QED
  BY <1>6, <1>7, <1>8, <1>10, <1>12, <1>13 DEF ConfigIInv, Config!ConfigAssumption

(* The rename: what the file becomes is the first of the chain, which the     *)
(* others follow; so no setting is replaced but by a later one of its key.    *)
LEMMA CommitStep ==
  ASSUME ConfigIInv, Config!Commit
  PROVE  /\ ConfigIInv'
         /\ ~overtaken => Follows(stage, Config!Stored, Config!Stored')
<1>1. /\ UNCHANGED <<config, calls, loadedConfig, writes, poisoned, stage, overtaken>>
      /\ writes # <<>> /\ committed' = TRUE /\ ~poisoned
      /\ writes \in Seq(Write)
  BY DEF Config!Commit, ConfigIInv, ConfigShapes
<1>2. /\ Len(writes) \in Nat \ {0} /\ 1 \in 1..Len(writes)
      /\ Head(writes) = writes[1] /\ writes[1] \in Write
  BY <1>1, EmptySeq, ElementOfSeq
<1>3. /\ configFile' = writes[1].snapshot /\ writes[1].snapshot \in Snapshots
      /\ Config!Stored' = writes[1].snapshot.config
  BY <1>1, <1>2 DEF Config!Commit, Write, Snapshots, Config!Stored
<1>4. ConfigShapes'
  BY <1>1, <1>3 DEF ConfigIInv, ConfigShapes, Snapshots, Configs, CallLists, Write, Config!Ops
<1>5. QueuedOnce' /\ CommittedIsFirst' /\ LoadedByOne'
  BY <1>1, <1>3 DEF ConfigIInv, QueuedOnce, CommittedIsFirst, LoadedByOne, Config!Loading, Fresh, Config!Defaults
<1>6. MemoryOnItsWay'
  BY <1>1 DEF ConfigIInv, MemoryOnItsWay, Config!Loading, Config!Snapshot
<1>7. SettingsAccumulate'
  <2> SUFFICES ASSUME ~overtaken
      PROVE  /\ \A i \in 1..Len(writes) : Follows(stage, Config!Stored', writes[i].snapshot.config)
             /\ \A i, j \in 1..Len(writes) : i <= j =>
                  Follows(stage, writes[i].snapshot.config, writes[j].snapshot.config)
             /\ loadedConfig /\ ~Config!Loading =>
                  /\ Follows(stage, Config!Stored', config)
                  /\ \A i \in 1..Len(writes) : Follows(stage, writes[i].snapshot.config, config)
    BY <1>1 DEF SettingsAccumulate, Config!Loading, Follows, SetBy
  <2>1. \A i \in 1..Len(writes) : 1 <= i
    BY <1>2
  <2>2. QED
    BY <1>2, <1>3, <2>1 DEF ConfigIInv, SettingsAccumulate
<1>8. ~overtaken => Follows(stage, Config!Stored, Config!Stored')
  BY <1>2, <1>3 DEF ConfigIInv, SettingsAccumulate
<1>9. QED
  BY <1>4, <1>5, <1>6, <1>7, <1>8 DEF ConfigIInv, Config!ConfigAssumption

(* The first write of the chain is answered, whatever way.                    *)
LEMMA AnsweredStep ==
  ASSUME ConfigIInv, writes # <<>>, NEW how \in {"ok", "failed"}, Config!Answer(Head(writes).op, how),
         UNCHANGED <<config, calls, loadedConfig, configFile, overtaken>>, poisoned' \in BOOLEAN,
         poisoned => poisoned', poisoned' \/ committed
  PROVE  ConfigIInv'
<1>1. /\ Len(writes) \in Nat \ {0} /\ Head(writes) = writes[1]
      /\ writes' \in Seq(Write) /\ stage' \in [Config!Ops -> Config!Stages]
      /\ Len(writes') = Len(writes) - 1
      /\ \A i \in 1..Len(writes') : i + 1 \in 1..Len(writes) /\ writes'[i] = writes[i + 1]
      /\ \A p \in Config!Ops : stage[p] # "idle" => stage'[p] # "idle"
      /\ \A p \in Config!Ops : stage[p] = "loading" <=> stage'[p] = "loading"
      /\ QueuedOnce' /\ CommittedIsFirst'
      /\ writes' = <<>> <=> Len(writes) = 1
  BY AnswerStep
<1>2. ConfigShapes'
  BY <1>1 DEF ConfigIInv, ConfigShapes, Snapshots, Configs, CallLists, Write, Config!Absent, Config!Corrupt, Config!Ops, Config!Answer
<1>3. Config!Loading' <=> Config!Loading
  BY <1>1 DEF Config!Loading
<1>4. ~Fresh
  BY DEF Fresh
<1>5. LoadedByOne'
  BY <1>1, <1>3, <1>4 DEF ConfigIInv, LoadedByOne
<1>6. MemoryOnItsWay'
  <2> SUFFICES ASSUME loadedConfig, ~Config!Loading, ~overtaken
      PROVE  IF writes' # <<>> THEN writes'[Len(writes')].snapshot = Config!Snapshot(config, calls)
             ELSE poisoned' \/ (Config!Stored = config /\ (configFile.kind = "stored" => configFile.calls = calls))
    BY <1>3 DEF MemoryOnItsWay, Config!Stored, Config!Snapshot
  <2>1. writes[Len(writes)].snapshot = Config!Snapshot(config, calls)
    BY DEF ConfigIInv, MemoryOnItsWay
  <2>2. CASE Len(writes) = 1
    <3>1. committed => configFile = Config!Snapshot(config, calls)
      BY <2>1, <2>2 DEF ConfigIInv, CommittedIsFirst
    <3>2. QED
      BY <1>1, <2>2, <3>1 DEF Config!Stored, Config!Snapshot
  <2>3. CASE Len(writes) # 1
    <3>1. Len(writes') \in 1..Len(writes') /\ Len(writes') + 1 = Len(writes)
      BY <1>1, <2>3
    <3>2. QED
      BY <1>1, <2>1, <2>3, <3>1
  <2>4. QED
    BY <2>2, <2>3
<1>7. SettingsAccumulate'
  <2> SUFFICES ASSUME ~overtaken
      PROVE  /\ \A i \in 1..Len(writes') : Follows(stage', Config!Stored, writes'[i].snapshot.config)
             /\ \A i, j \in 1..Len(writes') : i <= j =>
                  Follows(stage', writes'[i].snapshot.config, writes'[j].snapshot.config)
             /\ loadedConfig /\ ~Config!Loading =>
                  /\ Follows(stage', Config!Stored, config)
                  /\ \A i \in 1..Len(writes') : Follows(stage', writes'[i].snapshot.config, config)
    BY <1>3 DEF SettingsAccumulate, Config!Stored
  <2>1. /\ \A i \in 1..Len(writes) : Follows(stage', Config!Stored, writes[i].snapshot.config)
        /\ \A i, j \in 1..Len(writes) : i <= j =>
             Follows(stage', writes[i].snapshot.config, writes[j].snapshot.config)
        /\ loadedConfig /\ ~Config!Loading =>
             /\ Follows(stage', Config!Stored, config)
             /\ \A i \in 1..Len(writes) : Follows(stage', writes[i].snapshot.config, config)
    BY <1>1, FollowsStands DEF ConfigIInv, SettingsAccumulate
  <2>2. \A i, j \in 1..Len(writes') : i <= j => i + 1 <= j + 1
    OBVIOUS
  <2>3. QED
    BY <1>1, <2>1, <2>2
<1>8. QED
  BY <1>1, <1>2, <1>5, <1>6, <1>7 DEF ConfigIInv, Config!ConfigAssumption

LEMMA CrashStep ==
  ASSUME ConfigIInv, Config!Crash
  PROVE  ConfigIInv'
<1>1. /\ config' = Config!Defaults /\ calls' = <<>> /\ loadedConfig' = FALSE
      /\ writes' = <<>> /\ poisoned' = FALSE /\ committed' = FALSE
      /\ stage' = [o \in Config!Ops |-> IF stage[o] \in {"loading", "queued"} THEN "lost" ELSE stage[o]]
      /\ UNCHANGED <<configFile, overtaken>>
  BY DEF Config!Crash
<1>2. \A o \in Config!Ops : stage'[o] \in Config!Stages /\ stage'[o] \notin {"loading", "queued"}
  BY <1>1 DEF ConfigIInv, ConfigShapes, Config!Stages
<1>3. /\ <<>> \in CallLists /\ <<>> \in Seq(Write) /\ Len(<<>>) = 0 /\ Config!Defaults \in Configs
  <2>1. <<>> \in Seq(Records \cup {"old"}) /\ <<>> \in Seq(Write) /\ Len(<<>>) = 0
    BY EmptySeq
  <2>2. QED
    BY <2>1 DEF ConfigIInv, Config!ConfigAssumption, CallLists, Config!Defaults, Configs
<1>4. ConfigShapes'
  BY <1>1, <1>2, <1>3 DEF ConfigIInv, ConfigShapes, Snapshots, Configs, CallLists, Write, Config!Absent, Config!Corrupt, Config!Ops
<1>5. QED
  BY <1>1, <1>2, <1>3, <1>4 DEF ConfigIInv, Config!ConfigAssumption, QueuedOnce, CommittedIsFirst,
     LoadedByOne, Config!Loading, Fresh, Config!Defaults, MemoryOnItsWay, SettingsAccumulate

-----------------------------------------------------------------------------

LEMMA NextStep == ConfigIInv /\ [Config!Next]_(Config!vars) => ConfigIInv' /\ Config!SettingsKept
<1> SUFFICES ASSUME ConfigIInv, [Config!Next]_(Config!vars) PROVE ConfigIInv' /\ Config!SettingsKept
  OBVIOUS
<1>1. ASSUME UNCHANGED configFile PROVE Config!SettingsKept
  BY <1>1 DEF Config!SettingsKept, Config!Stored
<1>2. CASE UNCHANGED Config!vars
  <2>1. UNCHANGED <<config, calls, loadedConfig, writes, poisoned, committed, configFile, stage, overtaken>>
    BY <1>2 DEF Config!vars
  <2>2. ConfigIInv'
    BY <2>1, SMTT(20) DEF ConfigIInv, Config!ConfigAssumption, ConfigShapes, Snapshots, Configs, CallLists, Write, Config!Absent,
       Config!Corrupt, Config!Ops, QueuedOnce, CommittedIsFirst, LoadedByOne, Config!Loading, Fresh, Config!Defaults,
       MemoryOnItsWay, Config!Snapshot, SettingsAccumulate, Config!Stored, Follows, SetBy
  <2>3. QED
    BY <1>1, <2>1, <2>2
<1>3. CASE \E o \in Config!Ops : Config!BeginLoading(o) \/ Config!GoOn(o) \/ Config!LoadEnds(o)
  <2>1. UNCHANGED configFile
    BY <1>3 DEF Config!BeginLoading, Config!GoOn, Config!LoadEnds
  <2>2. QED
    BY <1>1, <1>3, <2>1, BeginLoadingStep, GoOnStep, LoadEndsStep
<1>4. CASE Config!Commit
  BY <1>4, CommitStep DEF Config!SettingsKept, Follows, SetBy
<1>5. CASE Config!WriteDone
  <2>1. UNCHANGED <<config, calls, loadedConfig, poisoned, configFile, overtaken>> /\ writes # <<>>
        /\ committed /\ Config!Answer(Head(writes).op, "ok") /\ poisoned \in BOOLEAN
    BY <1>5 DEF Config!WriteDone, ConfigIInv, ConfigShapes
  <2>2. QED
    BY <1>1, <2>1, AnsweredStep
<1>6. CASE Config!WriteFails \/ Config!NotTried
  <2>1. UNCHANGED <<config, calls, loadedConfig, configFile, overtaken>> /\ writes # <<>>
        /\ poisoned' = TRUE /\ Config!Answer(Head(writes).op, "failed")
    BY <1>6 DEF Config!WriteFails, Config!NotTried, ConfigIInv, ConfigShapes
  <2>2. QED
    BY <1>1, <2>1, AnsweredStep
<1>7. CASE Config!Crash
  <2>1. UNCHANGED configFile
    BY <1>7 DEF Config!Crash
  <2>2. QED
    BY <1>1, <1>7, <2>1, CrashStep
<1>8. QED
  BY <1>2, <1>3, <1>4, <1>5, <1>6, <1>7 DEF Config!Next

(* The strengthened invariant of the store, in every reachable state.         *)
LEMMA ConfigInvariant == Config!ConfigAssumption /\ Config!Spec => []ConfigIInv
<1>1. QED
  BY InitStep, NextStep, PTL DEF Config!Spec

(* Unless an operation overtook the loading, what the store answers is what   *)
(* the next start will find (persist, ensureLoaded), whatever is queued,      *)
(* fails or dies in between.                                                  *)
LEMMA StoreWillBeFound == Config!ConfigAssumption /\ Config!Spec => []Config!MemoryIsOnItsWay
<1>1. ConfigIInv => Config!MemoryIsOnItsWay
  <2> SUFFICES ASSUME ConfigIInv PROVE Config!MemoryIsOnItsWay
    OBVIOUS
  <2>1. writes \in Seq(Write) /\ (\A i \in 1..Len(writes) : writes[i] \in Write)
    BY ElementOfSeq DEF ConfigIInv, ConfigShapes
  <2>2. DOMAIN writes = 1..Len(writes)
    BY <2>1, LenProperties
  <2>3. {writes[i].op : i \in DOMAIN writes} = {o \in Config!Ops : stage[o] = "queued"}
    <3>1. \A i \in DOMAIN writes : writes[i].op \in Config!Ops /\ stage[writes[i].op] = "queued"
      BY <2>1, <2>2 DEF ConfigIInv, QueuedOnce, Write
    <3>2. \A o \in Config!Ops : stage[o] = "queued" => \E i \in DOMAIN writes : writes[i].op = o
      BY <2>2 DEF ConfigIInv, QueuedOnce
    <3>3. QED
      BY <3>1, <3>2
  <2>4. Config!TypeOK
    BY <2>3 DEF ConfigIInv, ConfigShapes, Configs, CallLists, Config!TypeOK
  <2>5. QED
    BY <2>4 DEF ConfigIInv, MemoryOnItsWay, Config!MemoryIsOnItsWay
<1>2. QED
  BY <1>1, ConfigInvariant, PTL

(* A setting that is stored is replaced by nothing but a later setting of its *)
(* key, through any number of crashes and failed writes.                      *)
LEMMA StoreKeepsSettings == Config!ConfigAssumption /\ Config!Spec => Config!SettingsArePreserved
<1>1. ConfigIInv /\ [Config!Next]_(Config!vars) => [Config!SettingsKept]_(Config!vars)
  BY NextStep
<1>2. QED
  BY <1>1, ConfigInvariant, PTL DEF Config!Spec, Config!SettingsArePreserved

\* What the daemon's store answers is what its next start will find.
THEOREM MemoryWillBeFound == ServiceSpec => []MemoryIsOnItsWay
<1>1. Config!MemoryIsOnItsWay => MemoryIsOnItsWay
  BY DEF MemoryIsOnItsWay
<1> QED
  BY <1>1, ServiceImplementsItsParts, StoreWillBeFound, SettingsAreNoReads, PTL

\* A stored setting of the daemon is replaced by nothing but a later one of its key.
THEOREM SettingsSurvive == ServiceSpec => SettingsArePreserved
  BY ServiceImplementsItsParts, StoreKeepsSettings, SettingsAreNoReads DEF SettingsArePreserved

-----------------------------------------------------------------------------
(***************************************************************************)
(* The history file.  What it loads and the appends that wait make the     *)
(* session in memory, each one event behind the other.                     *)
(***************************************************************************)
-----------------------------------------------------------------------------
(***************************************************************************)
(* A session holds each call once, so that a checkpoint of it, which is    *)
(* replayed row by row, gives it back.                                     *)
(***************************************************************************)
HistoryOnce(s) == \A i, j \in 1..Len(s) : s[i].call = s[j].call => i = j
Sessions == {s \in Seq(History!Row) : Len(s) <= HistoryLimit /\ HistoryOnce(s)}

LEMMA EmptySession == <<>> \in Sessions
  BY EmptySeq, SizesAreCounts DEF Sessions, HistoryOnce, History!HistoryAssumption

LEMMA ConsumeStaysSession ==
  ASSUME NEW s \in Sessions, NEW row \in History!Row
  PROVE  History!Consume(s, row) \in Sessions
<1>1. /\ s \in Seq(History!Row) /\ Len(s) \in Nat /\ Len(s) <= HistoryLimit
      /\ HistoryLimit \in Nat \ {0}
      /\ DOMAIN s = 1..Len(s)
      /\ \A i \in 1..Len(s) : s[i] \in History!Row
  BY LenProperties, ElementOfSeq, SizesAreCounts DEF Sessions, History!HistoryAssumption
<1>0. HistoryOnce(s)
  BY DEF Sessions
<1>2. CASE History!Has(s, row.call)
  <2> DEFINE r == [i \in 1..Len(s) |-> IF s[i].call = row.call THEN row ELSE s[i]]
  <2>1. r \in [1..Len(s) -> History!Row]
    BY <1>1
  <2>2. r \in Seq(History!Row) /\ Len(r) = Len(s)
    BY <1>1, <2>1, LenProperties
  <2>3. History!Consume(s, row) = r
    BY <1>1, <1>2 DEF History!Consume
  <2>4. \A i \in 1..Len(s) : r[i].call = s[i].call
    OBVIOUS
  <2> HIDE DEF r
  <2>5. HistoryOnce(r)
    BY <1>0, <2>2, <2>4 DEF HistoryOnce
  <2> QED
    BY <1>1, <2>2, <2>3, <2>5 DEF Sessions
<1>3. CASE ~History!Has(s, row.call)
  <2>1. \A i \in 1..Len(s) : s[i].call # row.call
    BY <1>1, <1>3 DEF History!Has
  <2>2. ASSUME NEW t \in Seq(History!Row), HistoryOnce(t), Len(t) + 1 <= HistoryLimit,
               \A i \in 1..Len(t) : t[i].call # row.call
        PROVE  Append(t, row) \in Sessions
    <3> DEFINE r == Append(t, row)
    <3>1. /\ r \in Seq(History!Row) /\ Len(r) = Len(t) + 1 /\ Len(t) \in Nat
          /\ \A i \in 1..Len(t) : r[i] = t[i]
          /\ r[Len(t) + 1] = row
      BY AppendProperties, LenProperties
    <3> HIDE DEF r
    <3>2. \A i \in 1..Len(r) : i \in 1..Len(t) \/ i = Len(t) + 1
      BY <3>1
    <3>3. HistoryOnce(r)
      BY <2>2, <3>1, <3>2 DEF HistoryOnce
    <3>4. r \in Sessions
      BY <2>2, <3>1, <3>3 DEF Sessions
    <3> QED
      BY <3>4 DEF r
  <2>3. CASE Len(s) < HistoryLimit
    <3>1. Len(s) + 1 <= HistoryLimit
      BY <1>1, <2>3
    <3>2. History!Consume(s, row) = Append(s, row)
      BY <1>3, <2>3 DEF History!Consume
    <3> QED
      BY <1>0, <1>1, <2>1, <2>2, <3>1, <3>2
  <2>4. CASE ~(Len(s) < HistoryLimit)
    <3>1. s # <<>>
      BY <1>1, <2>4, EmptySeq
    <3> DEFINE t == Tail(s)
    <3>2. /\ t \in Seq(History!Row) /\ Len(t) = Len(s) - 1
          /\ \A i \in 1..Len(t) : t[i] = s[i + 1]
      BY <1>1, <3>1, HeadTailProperties
    <3>3. History!Consume(s, row) = Append(t, row)
      BY <1>3, <2>4 DEF History!Consume
    <3> HIDE DEF t
    <3>4. Len(t) + 1 <= HistoryLimit /\ \A i \in 1..Len(t) : i + 1 \in 1..Len(s)
      BY <1>1, <3>2
    <3>5. \A i \in 1..Len(t) : t[i].call # row.call
      BY <2>1, <3>2, <3>4
    <3>6. HistoryOnce(t)
      <4> SUFFICES ASSUME NEW i \in 1..Len(t), NEW j \in 1..Len(t), t[i].call = t[j].call
                   PROVE  i = j
        BY DEF HistoryOnce
      <4>1. i + 1 = j + 1
        BY <1>0, <3>2, <3>4 DEF HistoryOnce
      <4> QED
        BY <4>1
    <3> QED
      BY <2>2, <3>2, <3>3, <3>4, <3>5, <3>6
  <2> QED
    BY <2>3, <2>4
<1> QED
  BY <1>2, <1>3

LEMMA ConsumeAllIs ==
  ASSUME NEW s, NEW events, Len(events) \in Nat, NEW g, g[0] = s,
         \A n \in 1..Len(events) : g[n] = History!Consume(g[n - 1], events[n])
  PROVE  History!ConsumeAll(s, events) = g[Len(events)]
<1> DEFINE L == Len(events)
           E(f, n) == IF n = 0 THEN s ELSE History!Consume(f[n - 1], events[n])
           after == CHOOSE f : f = [n \in 0..L |-> E(f, n)]
           h == [n \in 0..L |-> g[n]]
<1>1. h = [n \in 0..L |-> E(h, n)]
  <2>1. ASSUME NEW n \in 0..L PROVE g[n] = E(h, n)
    <3>1. CASE n = 0
      BY <3>1
    <3>2. CASE n # 0
      <4>1. n \in 1..L /\ n - 1 \in 0..L
        BY <3>2
      <4>2. h[n - 1] = g[n - 1]
        BY <4>1
      <4> HIDE DEF h
      <4> QED
        BY <3>2, <4>1, <4>2
    <3> QED
      BY <3>1, <3>2
  <2>2. \A n \in 0..L : g[n] = E(h, n)
    BY <2>1
  <2> HIDE DEF E
  <2> QED
    BY <2>2
<1>2. after = [n \in 0..L |-> E(after, n)]
  <2> HIDE DEF E, h
  <2> QED
    BY <1>1
<1>3. History!ConsumeAll(s, events) = after[L]
  BY DEF History!ConsumeAll
<1> HIDE DEF after
<1>4. \A n \in 0..L : after[n] = E(after, n)
  <2> HIDE DEF E
  <2> QED
    BY <1>2, Zenon
<1>5. after[0] = g[0]
  BY <1>4
<1>6. \A n \in 1..L : after[n - 1] = g[n - 1] => after[n] = g[n]
  <2> TAKE n \in 1..L
  <2>1. n \in 0..L /\ n # 0
    OBVIOUS
  <2> QED
    BY <1>4, <2>1
<1>7. after[L] = g[L]
  <2> HIDE DEF E, L
  <2>1. L \in Nat
    BY DEF L
  <2> QED
    BY <1>5, <1>6, <2>1, AlikeAsFarAs
<1> QED
  BY <1>3, <1>7

LEMMA CheckpointGivesBack ==
  ASSUME NEW s \in Sessions
  PROVE  History!ConsumeAll(<<>>, s) = s
<1>1. s \in Seq(History!Row) /\ Len(s) \in Nat /\ Len(s) <= HistoryLimit /\ HistoryLimit \in Nat
  BY LenProperties, SizesAreCounts DEF Sessions, History!HistoryAssumption
<1> DEFINE g == [n \in 0..Len(s) |-> SubSeq(s, 1, n)]
<1>2. g[0] = <<>> /\ g[Len(s)] = s
  BY <1>1
<1>3. ASSUME NEW n \in 1..Len(s) PROVE g[n] = History!Consume(g[n - 1], s[n])
  <2>1. n - 1 \in 0..Len(s) /\ n \in 0..Len(s) /\ n - 1 \in Nat /\ n - 1 < HistoryLimit
    BY <1>1
  <2> DEFINE t == SubSeq(s, 1, n - 1)
  <2>2. /\ g[n - 1] = t /\ g[n] = SubSeq(s, 1, n)
    BY <2>1
  <2>3. /\ Len(t) = n - 1 /\ t \in Seq(History!Row) /\ DOMAIN t = 1..(n - 1)
        /\ \A i \in 1..(n - 1) : t[i] = s[i]
    BY <1>1, <2>1
  <2>4. SubSeq(s, 1, n) = Append(t, s[n])
    BY <1>1, <2>1
  <2> HIDE DEF t, g
  <2>5. ~History!Has(t, s[n].call)
    <3> SUFFICES ASSUME NEW i \in 1..(n - 1), s[i].call = s[n].call PROVE FALSE
      BY <2>3 DEF History!Has
    <3>1. i \in 1..Len(s) /\ i # n
      BY <1>1
    <3> QED
      BY <3>1 DEF Sessions, HistoryOnce
  <2>6. History!Consume(t, s[n]) = Append(t, s[n])
    BY <2>1, <2>3, <2>5 DEF History!Consume
  <2> QED
    BY <2>2, <2>4, <2>6
<1> HIDE DEF g
<1> QED
  BY <1>1, <1>2, <1>3, ConsumeAllIs

(***************************************************************************)
(* The file.  A line is an event or a checkpoint; what is loaded is what   *)
(* the readable lines make of nothing, one by one.                         *)
(***************************************************************************)
Lines == [kind : {"event"}, row : History!Row, end : History!Ends]
           \cup [kind : {"checkpoint"}, rows : Sessions, end : {"whole"}]
HistoryWhole(ls) == \A i \in 1..Len(ls) : ls[i].end = "whole"

LEMMA ReplayIsSession ==
  ASSUME NEW s \in Sessions, NEW l \in Lines
  PROVE  History!Replay(s, l) \in Sessions
<1>1. CASE l \in [kind : {"event"}, row : History!Row, end : History!Ends]
  BY <1>1, ConsumeStaysSession DEF History!Replay
<1>2. CASE l \in [kind : {"checkpoint"}, rows : Sessions, end : {"whole"}]
  BY <1>2, CheckpointGivesBack DEF History!Replay
<1> QED
  BY <1>1, <1>2 DEF Lines

LEMMA LoadedIs ==
  ASSUME NEW ls, Len(ls) \in Nat, NEW g, g[0] = <<>>,
         \A n \in 1..Len(ls) :
           g[n] = IF History!Readable(ls, n) THEN History!Replay(g[n - 1], ls[n]) ELSE g[n - 1]
  PROVE  History!Loaded(ls) = g[Len(ls)]
<1> DEFINE L == Len(ls)
           E(f, n) == IF n = 0 THEN <<>>
                      ELSE IF History!Readable(ls, n) THEN History!Replay(f[n - 1], ls[n]) ELSE f[n - 1]
           after == CHOOSE f : f = [n \in 0..L |-> E(f, n)]
           h == [n \in 0..L |-> g[n]]
<1>1. h = [n \in 0..L |-> E(h, n)]
  <2>1. ASSUME NEW n \in 0..L PROVE g[n] = E(h, n)
    <3>1. CASE n = 0
      BY <3>1
    <3>2. CASE n # 0
      <4>1. n \in 1..L /\ n - 1 \in 0..L
        BY <3>2
      <4>2. h[n - 1] = g[n - 1]
        BY <4>1
      <4> HIDE DEF h
      <4> QED
        BY <3>2, <4>1, <4>2, Zenon
    <3> QED
      BY <3>1, <3>2
  <2>2. \A n \in 0..L : g[n] = E(h, n)
    BY <2>1
  <2> HIDE DEF E
  <2> QED
    BY <2>2
<1>2. after = [n \in 0..L |-> E(after, n)]
  <2> HIDE DEF E, h
  <2> QED
    BY <1>1
<1>3. History!Loaded(ls) = after[L]
  BY DEF History!Loaded
<1> HIDE DEF after
<1>4. \A n \in 0..L : after[n] = E(after, n)
  <2> HIDE DEF E
  <2> QED
    BY <1>2, Zenon
<1>5. after[0] = g[0]
  BY <1>4
<1>6. \A n \in 1..L : after[n - 1] = g[n - 1] => after[n] = g[n]
  <2> TAKE n \in 1..L
  <2>1. n \in 0..L /\ n # 0
    OBVIOUS
  <2>2. after[n] = IF History!Readable(ls, n) THEN History!Replay(after[n - 1], ls[n]) ELSE after[n - 1]
    BY <1>4, <2>1, Zenon
  <2> HIDE DEF L
  <2>3. g[n] = IF History!Readable(ls, n) THEN History!Replay(g[n - 1], ls[n]) ELSE g[n - 1]
    BY DEF L
  <2> QED
    BY <2>2, <2>3, Zenon
<1>7. after[L] = g[L]
  <2> HIDE DEF E, L
  <2>1. L \in Nat
    BY DEF L
  <2> QED
    BY <1>5, <1>6, <2>1, AlikeAsFarAs
<1> QED
  BY <1>3, <1>7

LEMMA LoadedIsAFold ==
  ASSUME NEW ls \in Seq(Lines)
  PROVE  \E g \in [0..Len(ls) -> Sessions] :
           /\ g[0] = <<>>
           /\ \A n \in 1..Len(ls) :
                g[n] = IF History!Readable(ls, n) THEN History!Replay(g[n - 1], ls[n]) ELSE g[n - 1]
<1> DEFINE L == Len(ls)
           step == [n \in 1..L |-> [s \in Sessions |-> IF History!Readable(ls, n) THEN History!Replay(s, ls[n]) ELSE s]]
<1>1. L \in Nat /\ (\A n \in 1..L : ls[n] \in Lines)
  BY LenProperties, ElementOfSeq
<1>2. step \in FoldSteps(L, Sessions)
  <2>1. ASSUME NEW n \in 1..L, NEW s \in Sessions
        PROVE  (IF History!Readable(ls, n) THEN History!Replay(s, ls[n]) ELSE s) \in Sessions
    BY <1>1, ReplayIsSession
  <2> HIDE DEF L
  <2> QED
    BY <2>1 DEF FoldSteps
<1>3. PICK g \in [0..L -> Sessions] : g[0] = <<>> /\ \A n \in 1..L : g[n] = step[n][g[n - 1]]
  <2>1. Folds(L, Sessions, <<>>, step) # {}
    <3> HIDE DEF step, L
    <3> QED
      BY <1>1, <1>2, FoldIsDefined, EmptySession
  <2> HIDE DEF step, L
  <2> QED
    BY <2>1 DEF Folds
<1>4. ASSUME NEW n \in 1..L
      PROVE  g[n] = IF History!Readable(ls, n) THEN History!Replay(g[n - 1], ls[n]) ELSE g[n - 1]
  <2>1. n - 1 \in 0..L
    BY <1>1
  <2>2. g[n - 1] \in Sessions
    BY <2>1, <1>3
  <2>3. step[n][g[n - 1]] = IF History!Readable(ls, n) THEN History!Replay(g[n - 1], ls[n]) ELSE g[n - 1]
    BY <2>2, Zenon
  <2> QED
    BY <1>3, <2>3
<1> HIDE DEF step
<1> QED
  BY <1>3, <1>4

LEMMA LoadedIsSession ==
  ASSUME NEW ls \in Seq(Lines)
  PROVE  History!Loaded(ls) \in Sessions
<1>1. PICK g \in [0..Len(ls) -> Sessions] :
        /\ g[0] = <<>>
        /\ \A n \in 1..Len(ls) :
             g[n] = IF History!Readable(ls, n) THEN History!Replay(g[n - 1], ls[n]) ELSE g[n - 1]
  BY LoadedIsAFold, Zenon
<1>2. Len(ls) \in Nat
  BY LenProperties
<1>3. History!Loaded(ls) = g[Len(ls)]
  BY <1>1, <1>2, LoadedIs
<1> QED
  BY <1>2, <1>3

\* Behind whole lines, one that is not cut is read and one that is cut is not.
LEMMA LoadedAppended ==
  ASSUME NEW ls \in Seq(Lines), HistoryWhole(ls), NEW l \in Lines
  PROVE  History!Loaded(Append(ls, l)) = IF l.end = "cut" THEN History!Loaded(ls) ELSE History!Replay(History!Loaded(ls), l)
<1> DEFINE L == Len(ls)
           m == Append(ls, l)
<1>1. PICK g \in [0..Len(ls) -> Sessions] :
        /\ g[0] = <<>>
        /\ \A n \in 1..Len(ls) :
             g[n] = IF History!Readable(ls, n) THEN History!Replay(g[n - 1], ls[n]) ELSE g[n - 1]
  BY LoadedIsAFold, Zenon
<1>2. /\ L \in Nat /\ Len(m) = L + 1 /\ m[L + 1] = l
      /\ \A i \in 1..L : m[i] = ls[i]
  BY LenProperties, AppendProperties
<1>3. History!Loaded(ls) = g[L]
  BY <1>1, <1>2, LoadedIs
<1> HIDE DEF m
<1>4. \A n \in 1..L : History!Readable(ls, n) /\ History!Readable(m, n)
  <2>1. \A i \in 1..L : ~History!Corrupt(ls, i) /\ ~History!Corrupt(m, i)
    BY <1>2 DEF HistoryWhole, History!Corrupt
  <2>2. \A n \in 1..L : \A j \in 1..n : j \in 1..L
    BY <1>2
  <2> QED
    BY <2>1, <2>2 DEF History!Readable
<1>5. History!Readable(m, L + 1) <=> l.end # "cut"
  <2>1. History!Corrupt(m, L + 1) <=> l.end = "cut"
    BY <1>2 DEF History!Corrupt
  <2>2. \A j \in 1..(L + 1) : j \in 1..L \/ j = L + 1
    BY <1>2
  <2>3. \A i \in 1..L : ~History!Corrupt(m, i)
    BY <1>2 DEF HistoryWhole, History!Corrupt
  <2>4. L + 1 \in 1..(L + 1)
    BY <1>2
  <2> QED
    BY <2>1, <2>2, <2>3, <2>4 DEF History!Readable
<1> DEFINE last == IF l.end = "cut" THEN g[L] ELSE History!Replay(g[L], l)
           h == [n \in 0..(L + 1) |-> IF n <= L THEN g[n] ELSE last]
<1>6. h[0] = <<>> /\ h[L + 1] = last /\ \A n \in 0..L : h[n] = g[n]
  BY <1>1, <1>2
<1> HIDE DEF h, last
<1>7. ASSUME NEW n \in 1..Len(m)
      PROVE  h[n] = IF History!Readable(m, n) THEN History!Replay(h[n - 1], m[n]) ELSE h[n - 1]
  <2>1. CASE n \in 1..L
    <3>1. n \in 0..L /\ n - 1 \in 0..L
      BY <2>1, <1>2
    <3>2. h[n] = g[n] /\ h[n - 1] = g[n - 1] /\ m[n] = ls[n]
      BY <3>1, <2>1, <1>2, <1>6
    <3>3. g[n] = History!Replay(g[n - 1], ls[n])
      BY <1>1, <1>4, <2>1
    <3> QED
      BY <3>2, <3>3, <1>4, <2>1
  <2>2. CASE n = L + 1
    <3>1. h[n] = last /\ m[n] = l /\ n - 1 = L /\ h[n - 1] = g[L]
      BY <2>2, <1>2, <1>6
    <3> QED
      BY <3>1, <1>5, <2>2 DEF last
  <2> QED
    BY <2>1, <2>2, <1>2
<1>8. History!Loaded(m) = h[Len(m)]
  <2>1. Len(m) \in Nat
    BY <1>2
  <2> HIDE DEF L
  <2> QED
    BY <1>6, <1>7, <2>1, LoadedIs
<1>9. History!Loaded(m) = last
  BY <1>8, <1>6, <1>2
<1> QED
  BY <1>3, <1>9 DEF last, m

LEMMA LoadedOfOne ==
  ASSUME NEW s \in Sessions
  PROVE  History!Loaded(<<History!Checkpoint(s)>>) = s /\ History!Checkpoint(s) \in Lines
<1>1. <<>> \in Seq(Lines) /\ HistoryWhole(<<>>)
  BY EmptySeq DEF HistoryWhole
<1>2. History!Checkpoint(s) \in Lines /\ History!Checkpoint(s).end = "whole" /\ Append(<<>>, History!Checkpoint(s)) = <<History!Checkpoint(s)>>
  BY DEF History!Checkpoint, Lines
<1>3. History!Loaded(<<History!Checkpoint(s)>>) = History!Replay(History!Loaded(<<>>), History!Checkpoint(s))
  BY <1>1, <1>2, LoadedAppended
<1>4. History!Replay(History!Loaded(<<>>), History!Checkpoint(s)) = History!ConsumeAll(<<>>, s)
  BY DEF History!Replay, History!Checkpoint
<1> QED
  BY <1>2, <1>3, <1>4, CheckpointGivesBack

LEMMA LoadedOfNone == History!Loaded(<<>>) = <<>>
<1> DEFINE g == [n \in 0..0 |-> <<>>]
<1>1. Len(<<>>) = 0 /\ g[0] = <<>> /\ \A n \in 1..0 : FALSE
  OBVIOUS
<1> HIDE DEF g
<1> QED
  BY <1>1, LoadedIs

-----------------------------------------------------------------------------
(***************************************************************************)
(* Its size.                                                               *)
(***************************************************************************)
RowsOf(l) == IF l.kind = "checkpoint" THEN Len(l.rows) ELSE 1

LEMMA SizeIs ==
  ASSUME NEW ls, Len(ls) \in Nat, NEW g, g[0] = 0,
         \A n \in 1..Len(ls) : g[n] = g[n - 1] + RowsOf(ls[n])
  PROVE  History!Size(ls) = g[Len(ls)]
<1> DEFINE L == Len(ls)
           E(f, n) == IF n = 0 THEN 0
                      ELSE f[n - 1] + IF ls[n].kind = "checkpoint" THEN Len(ls[n].rows) ELSE 1
           size == CHOOSE f : f = [n \in 0..L |-> E(f, n)]
           h == [n \in 0..L |-> g[n]]
<1>1. h = [n \in 0..L |-> E(h, n)]
  <2>1. ASSUME NEW n \in 0..L PROVE g[n] = E(h, n)
    <3>1. CASE n = 0
      BY <3>1
    <3>2. CASE n # 0
      <4>1. n \in 1..L /\ n - 1 \in 0..L
        BY <3>2
      <4>2. h[n - 1] = g[n - 1]
        BY <4>1
      <4> HIDE DEF h
      <4> QED
        BY <3>2, <4>1, <4>2, Zenon DEF RowsOf
    <3> QED
      BY <3>1, <3>2
  <2>2. \A n \in 0..L : g[n] = E(h, n)
    BY <2>1
  <2> HIDE DEF E
  <2> QED
    BY <2>2
<1>2. size = [n \in 0..L |-> E(size, n)]
  <2> HIDE DEF E, h
  <2> QED
    BY <1>1
<1>3. History!Size(ls) = size[L]
  BY DEF History!Size
<1> HIDE DEF size
<1>4. \A n \in 0..L : size[n] = E(size, n)
  <2> HIDE DEF E
  <2> QED
    BY <1>2, Zenon
<1>5. size[0] = g[0]
  BY <1>4
<1>6. \A n \in 1..L : size[n - 1] = g[n - 1] => size[n] = g[n]
  <2> TAKE n \in 1..L
  <2>1. n \in 0..L /\ n # 0
    OBVIOUS
  <2>2. size[n] = size[n - 1] + RowsOf(ls[n])
    BY <1>4, <2>1, Zenon DEF RowsOf
  <2> HIDE DEF L
  <2>3. g[n] = g[n - 1] + RowsOf(ls[n])
    BY DEF L
  <2> QED
    BY <2>2, <2>3, Zenon
<1>7. size[L] = g[L]
  <2> HIDE DEF E, L
  <2>1. L \in Nat
    BY DEF L
  <2> QED
    BY <1>5, <1>6, <2>1, AlikeAsFarAs
<1> QED
  BY <1>3, <1>7

LEMMA SizeIsAFold ==
  ASSUME NEW ls \in Seq(Lines)
  PROVE  \E g \in [0..Len(ls) -> Nat] :
           g[0] = 0 /\ \A n \in 1..Len(ls) : g[n] = g[n - 1] + RowsOf(ls[n])
<1> DEFINE L == Len(ls)
           step == [n \in 1..L |-> [k \in Nat |-> k + RowsOf(ls[n])]]
<1>1. L \in Nat /\ \A n \in 1..L : RowsOf(ls[n]) \in Nat
  <2>1. \A l \in Lines : RowsOf(l) \in Nat
    BY LenProperties DEF Lines, RowsOf, Sessions
  <2> QED
    BY <2>1, LenProperties, ElementOfSeq
<1>2. step \in FoldSteps(L, Nat)
  <2>1. \A n \in 1..L, k \in Nat : k + RowsOf(ls[n]) \in Nat
    BY <1>1
  <2> HIDE DEF L
  <2> QED
    BY <2>1 DEF FoldSteps
<1>3. PICK g \in [0..L -> Nat] : g[0] = 0 /\ \A n \in 1..L : g[n] = step[n][g[n - 1]]
  <2>1. Folds(L, Nat, 0, step) # {}
    <3> HIDE DEF step, L
    <3> QED
      BY <1>1, <1>2, FoldIsDefined
  <2> HIDE DEF step, L
  <2> QED
    BY <2>1 DEF Folds
<1>4. ASSUME NEW n \in 1..L PROVE g[n] = g[n - 1] + RowsOf(ls[n])
  <2>1. n - 1 \in 0..L
    BY <1>1
  <2>2. g[n - 1] \in Nat
    BY <2>1, <1>3
  <2>3. step[n][g[n - 1]] = g[n - 1] + RowsOf(ls[n])
    BY <2>2, Zenon
  <2> QED
    BY <1>3, <2>3
<1> HIDE DEF step
<1> QED
  BY <1>3, <1>4

LEMMA SizeAppended ==
  ASSUME NEW ls \in Seq(Lines), NEW l \in Lines
  PROVE  History!Size(Append(ls, l)) = History!Size(ls) + RowsOf(l) /\ History!Size(ls) \in Nat
<1> DEFINE L == Len(ls)
           m == Append(ls, l)
<1>1. PICK g \in [0..L -> Nat] :
        g[0] = 0 /\ \A n \in 1..L : g[n] = g[n - 1] + RowsOf(ls[n])
  BY SizeIsAFold, Zenon
<1>2. /\ L \in Nat /\ Len(m) = L + 1 /\ m[L + 1] = l
      /\ \A i \in 1..L : m[i] = ls[i]
  BY LenProperties, AppendProperties
<1>3. History!Size(ls) = g[L]
  BY <1>1, <1>2, SizeIs
<1> HIDE DEF m
<1> DEFINE last == g[L] + RowsOf(l)
           h == [n \in 0..(L + 1) |-> IF n <= L THEN g[n] ELSE last]
<1>6. h[0] = 0 /\ h[L + 1] = last /\ \A n \in 0..L : h[n] = g[n]
  BY <1>1, <1>2
<1> HIDE DEF h, last
<1>7. ASSUME NEW n \in 1..Len(m) PROVE h[n] = h[n - 1] + RowsOf(m[n])
  <2>1. CASE n \in 1..L
    <3>1. n \in 0..L /\ n - 1 \in 0..L
      BY <2>1, <1>2
    <3> QED
      BY <3>1, <2>1, <1>1, <1>2, <1>6
  <2>2. CASE n = L + 1
    <3>1. h[n] = last /\ m[n] = l /\ n - 1 = L /\ h[n - 1] = g[L]
      BY <2>2, <1>2, <1>6
    <3> QED
      BY <3>1 DEF last
  <2> QED
    BY <2>1, <2>2, <1>2
<1>8. History!Size(m) = h[Len(m)]
  <2>1. Len(m) \in Nat
    BY <1>2
  <2> HIDE DEF L
  <2> QED
    BY <1>6, <1>7, <2>1, SizeIs
<1> QED
  BY <1>1, <1>2, <1>3, <1>6, <1>8 DEF last, m

LEMMA SizeOfFew ==
  ASSUME NEW s \in Sessions
  PROVE  History!Size(<<>>) = 0 /\ History!Size(<<History!Checkpoint(s)>>) = Len(s)
<1>1. History!Size(<<>>) = 0
  <2> DEFINE g == [n \in 0..0 |-> 0]
  <2>1. Len(<<>>) = 0 /\ g[0] = 0 /\ \A n \in 1..0 : FALSE
    OBVIOUS
  <2> HIDE DEF g
  <2> QED
    BY <2>1, SizeIs
<1>2. <<>> \in Seq(Lines) /\ History!Checkpoint(s) \in Lines
  BY EmptySeq, LoadedOfOne
<1>4. Append(<<>>, History!Checkpoint(s)) = <<History!Checkpoint(s)>>
  BY DEF History!Checkpoint
<1>5. History!Size(Append(<<>>, History!Checkpoint(s))) = History!Size(<<>>) + RowsOf(History!Checkpoint(s))
  BY <1>2, SizeAppended
<1>3. RowsOf(History!Checkpoint(s)) = Len(s) /\ Len(s) \in Nat
  BY LenProperties DEF RowsOf, History!Checkpoint, Sessions
<1> QED
  BY <1>1, <1>3, <1>4, <1>5

-----------------------------------------------------------------------------
(***************************************************************************)
(* The queue.  Each append that waits has the session as it was when its   *)
(* event came: one event behind that of the append before it, the first    *)
(* one behind what is loaded from the file.                                *)
(***************************************************************************)
Waiting == [row : History!Row, snapshot : Sessions]

HistoryFollows ==
  /\ chain # <<>> => chain[Len(chain)].snapshot = rows
  /\ \A i \in 1..Len(chain) : i > 1 =>
       chain[i].snapshot = History!Consume(chain[i - 1].snapshot, chain[i].row)

Begins ==
  up /\ ~damaged =>
    /\ HistoryWhole(file)
    /\ chain = <<>> => History!Loaded(file) = rows
    /\ chain # <<>> => chain[1].snapshot = History!Consume(History!Loaded(file), chain[1].row)

Kept ==
  /\ up \in BOOLEAN /\ damaged \in BOOLEAN
  /\ progress \in [Calls -> {"new", "running", "done"}]
  /\ rows \in Sessions /\ History!IsSession(written)
  /\ chain \in Seq(Waiting)
  /\ file \in Seq(Lines)
  /\ writing => up /\ chain # <<>> /\ History!TooLarge
  /\ ~up => chain = <<>>
  /\ faults \in 0..MaxFailures

HistInv == Kept /\ HistoryFollows /\ Begins /\ History!FileIsBounded

LEMMA SessionsAre ==
  /\ \A s \in Sessions : History!IsSession(s) /\ Len(s) \in Nat /\ Len(s) <= HistoryLimit
  /\ \A s, row : History!IsSession(s) /\ row \in History!Row => History!IsSession(History!Consume(s, row))
<1>1. \A s \in Sessions : History!IsSession(s) /\ Len(s) \in Nat /\ Len(s) <= HistoryLimit
  BY LenProperties DEF Sessions, History!IsSession
<1>2. ASSUME NEW s, NEW row \in History!Row, History!IsSession(s) PROVE History!IsSession(History!Consume(s, row))
  <2>1. /\ s \in Seq(History!Row) /\ Len(s) \in Nat /\ Len(s) <= HistoryLimit
        /\ HistoryLimit \in Nat \ {0} /\ DOMAIN s = 1..Len(s)
    BY <1>2, LenProperties, SizesAreCounts DEF History!IsSession, History!HistoryAssumption
  <2>2. CASE History!Has(s, row.call)
    <3> DEFINE r == [i \in DOMAIN s |-> IF s[i].call = row.call THEN row ELSE s[i]]
    <3>1. \A i \in 1..Len(s) : s[i] \in History!Row
      BY <2>1, ElementOfSeq
    <3>2. r \in [1..Len(s) -> History!Row]
      BY <2>1, <3>1
    <3>3. r \in Seq(History!Row) /\ Len(r) = Len(s)
      BY <2>1, <3>2, LenProperties
    <3>4. History!Consume(s, row) = r
      BY <2>2 DEF History!Consume
    <3> QED
      BY <2>1, <3>3, <3>4 DEF History!IsSession
  <2>3. CASE ~History!Has(s, row.call) /\ Len(s) < HistoryLimit
    <3>1. Append(s, row) \in Seq(History!Row) /\ Len(Append(s, row)) = Len(s) + 1
      BY <2>1, AppendProperties
    <3> QED
      BY <2>1, <2>3, <3>1 DEF History!IsSession, History!Consume
  <2>4. CASE ~History!Has(s, row.call) /\ ~(Len(s) < HistoryLimit)
    <3>1. s # <<>>
      BY <2>1, <2>4, EmptySeq
    <3>2. Tail(s) \in Seq(History!Row) /\ Len(Tail(s)) = Len(s) - 1
      BY <2>1, <3>1, HeadTailProperties
    <3>3. Append(Tail(s), row) \in Seq(History!Row) /\ Len(Append(Tail(s), row)) = Len(s)
      BY <2>1, <3>2, AppendProperties
    <3> QED
      BY <2>1, <2>4, <3>3 DEF History!IsSession, History!Consume
  <2> QED
    BY <2>2, <2>3, <2>4
<1> QED
  BY <1>1, <1>2

LEMMA HistoryInit == History!Init => HistInv
<1> SUFFICES ASSUME History!Init PROVE HistInv
  OBVIOUS
<1>1. /\ <<>> \in Seq(Waiting) /\ <<>> \in Seq(Lines) /\ HistoryWhole(<<>>) /\ Len(<<>>) = 0
  BY EmptySeq DEF HistoryWhole
<1>2. CompactAt \in Nat /\ MaxFailures \in Nat /\ <<>> \in Sessions /\ History!IsSession(<<>>)
  BY EmptySession, SessionsAre, SizesAreCounts DEF History!HistoryAssumption
<1>3. History!Size(<<>>) = 0
  BY <1>2, SizeOfFew
<1>4. /\ up = TRUE /\ damaged = FALSE /\ rows = <<>> /\ chain = <<>> /\ file = <<>>
      /\ written = <<>> /\ writing = FALSE /\ faults = 0
      /\ progress = [k \in Calls |-> "new"]
  BY DEF History!Init
<1>5. Kept
  <2>1. progress \in [Calls -> {"new", "running", "done"}] /\ 0 \in 0..MaxFailures
    BY <1>2, <1>4
  <2>2. rows \in Sessions /\ History!IsSession(written) /\ chain \in Seq(Waiting) /\ file \in Seq(Lines)
    BY <1>1, <1>2, <1>4, Zenon
  <2> QED
    BY <2>1, <2>2, <1>4 DEF Kept
<1>6. HistoryFollows
  BY <1>1, <1>4 DEF HistoryFollows
<1>7. Begins
  BY <1>1, <1>4, LoadedOfNone DEF Begins
<1>8. History!FileIsBounded
  BY <1>2, <1>3, <1>4 DEF History!FileIsBounded
<1> QED
  BY <1>5, <1>6, <1>7, <1>8 DEF HistInv

\* The first append that waits, and the chain behind it.
LEMMA TurnOf ==
  ASSUME Kept, chain # <<>>
  PROVE  /\ Head(chain) = chain[1] /\ Head(chain) \in Waiting
         /\ Head(chain).row \in History!Row /\ Head(chain).snapshot \in Sessions
         /\ Len(chain) \in Nat \ {0}
         /\ Tail(chain) \in Seq(Waiting) /\ Len(Tail(chain)) = Len(chain) - 1
         /\ \A i \in 1..Len(Tail(chain)) : Tail(chain)[i] = chain[i + 1]
         /\ Tail(chain) = <<>> <=> Len(chain) = 1
<1>1. chain \in Seq(Waiting)
  BY DEF Kept
<1>2. /\ Tail(chain) \in Seq(Waiting) /\ Len(chain) \in Nat \ {0} /\ Len(Tail(chain)) = Len(chain) - 1
      /\ \A i \in 1..Len(Tail(chain)) : Tail(chain)[i] = chain[i + 1]
      /\ Head(chain) = chain[1] /\ Head(chain) \in Waiting
  BY <1>1, HeadTailProperties, EmptySeq
<1>3. Tail(chain) = <<>> <=> Len(Tail(chain)) = 0
  BY <1>2, EmptySeq
<1>4. Tail(chain) = <<>> <=> Len(chain) = 1
  BY <1>2, <1>3
<1> QED
  BY <1>2, <1>4 DEF Waiting

LEMMA FollowsTail ==
  ASSUME HistInv, chain # <<>>, chain' = Tail(chain), rows' = rows
  PROVE  HistoryFollows'
<1>1. /\ Len(chain) \in Nat \ {0} /\ Len(chain') = Len(chain) - 1
      /\ \A i \in 1..Len(chain') : chain'[i] = chain[i + 1]
      /\ chain' = <<>> <=> Len(chain) = 1
  BY TurnOf DEF HistInv
<1>2. chain' # <<>> => chain'[Len(chain')].snapshot = rows'
  <2> SUFFICES ASSUME chain' # <<>> PROVE chain'[Len(chain')] = chain[Len(chain)]
    BY DEF HistInv, HistoryFollows
  <2>1. Len(chain') \in 1..Len(chain') /\ Len(chain') + 1 = Len(chain)
    BY <1>1
  <2> QED
    BY <1>1, <2>1
<1>3. ASSUME NEW i \in 1..Len(chain'), i > 1
      PROVE  chain'[i].snapshot = History!Consume(chain'[i - 1].snapshot, chain'[i].row)
  <2>1. /\ i - 1 \in 1..Len(chain') /\ i + 1 \in 1..Len(chain) /\ i + 1 > 1
        /\ (i - 1) + 1 = i /\ (i + 1) - 1 = i
    BY <1>1, <1>3
  <2>2. chain'[i] = chain[i + 1] /\ chain'[i - 1] = chain[i]
    BY <1>1, <2>1
  <2>3. chain[i + 1].snapshot = History!Consume(chain[(i + 1) - 1].snapshot, chain[i + 1].row)
    BY <2>1 DEF HistInv, HistoryFollows
  <2> QED
    BY <2>1, <2>2, <2>3
<1> QED
  BY <1>2, <1>3 DEF HistoryFollows

\* The chain behind an append whose snapshot is what is loaded now.
LEMMA BeginsTail ==
  ASSUME HistInv, chain # <<>>, chain' = Tail(chain), rows' = rows,
         HistoryWhole(file'), History!Loaded(file') = Head(chain).snapshot
  PROVE  Begins'
<1>1. /\ Len(chain) \in Nat \ {0} /\ Len(chain') = Len(chain) - 1
      /\ \A i \in 1..Len(chain') : chain'[i] = chain[i + 1]
      /\ chain' = <<>> <=> Len(chain) = 1
      /\ Head(chain) = chain[1]
  BY TurnOf DEF HistInv
<1>2. chain' = <<>> => History!Loaded(file') = rows'
  BY <1>1 DEF HistInv, HistoryFollows
<1>3. chain' # <<>> => chain'[1].snapshot = History!Consume(History!Loaded(file'), chain'[1].row)
  <2> SUFFICES ASSUME chain' # <<>> PROVE chain'[1].snapshot = History!Consume(History!Loaded(file'), chain'[1].row)
    OBVIOUS
  <2>1. 1 \in 1..Len(chain') /\ 2 \in 1..Len(chain) /\ 2 > 1 /\ 2 - 1 = 1 /\ 1 + 1 = 2
    BY <1>1
  <2>2. chain'[1] = chain[2]
    BY <1>1, <2>1
  <2>3. chain[2].snapshot = History!Consume(chain[2 - 1].snapshot, chain[2].row)
    BY <2>1 DEF HistInv, HistoryFollows
  <2> QED
    BY <1>1, <2>1, <2>2, <2>3
<1>4. HistoryWhole(file)'
  BY DEF HistoryWhole
<1> QED
  BY <1>2, <1>3, <1>4 DEF Begins

-----------------------------------------------------------------------------
\* An event comes.
LEMMA RecordStep ==
  ASSUME HistInv, NEW row \in History!Row, History!Record(row),
         progress' \in [Calls -> {"new", "running", "done"}]
  PROVE  HistInv' /\ file' = file
<1> DEFINE w == [row |-> row, snapshot |-> rows']
           L == Len(chain)
<1>1. /\ up /\ rows' = History!Consume(rows, row) /\ chain' = Append(chain, w)
      /\ UNCHANGED <<up, writing, file, written, damaged, faults>>
  BY DEF History!Record
<1>2. rows' \in Sessions /\ w \in Waiting
  BY <1>1, ConsumeStaysSession DEF HistInv, Kept, Waiting
<1>3. /\ L \in Nat /\ chain' \in Seq(Waiting) /\ Len(chain') = L + 1
      /\ \A i \in 1..L : chain'[i] = chain[i]
      /\ chain'[L + 1] = w
      /\ (chain = <<>>) <=> (L = 0)
  BY <1>1, <1>2, AppendProperties, LenProperties, EmptySeq DEF HistInv, Kept
<1>4. chain' # <<>>
  BY <1>3, EmptySeq
<1>5. w.snapshot = rows' /\ w.row = row
  OBVIOUS
<1> HIDE DEF w
<1>6. Kept'
  BY <1>1, <1>2, <1>3, <1>4 DEF HistInv, Kept, History!TooLarge
<1>7. HistoryFollows'
  <2>1. ASSUME NEW i \in 1..Len(chain'), i > 1
        PROVE  chain'[i].snapshot = History!Consume(chain'[i - 1].snapshot, chain'[i].row)
    <3>1. CASE i = L + 1
      <4>1. L \in 1..L /\ i - 1 = L /\ chain # <<>>
        BY <2>1, <3>1, <1>3
      <4>2. chain'[i - 1].snapshot = rows
        BY <4>1, <1>3 DEF HistInv, HistoryFollows
      <4> QED
        BY <3>1, <4>1, <4>2, <1>1, <1>3, <1>5
    <3>2. CASE i # L + 1
      <4>1. i \in 1..L /\ i - 1 \in 1..L
        BY <2>1, <3>2, <1>3
      <4> QED
        BY <4>1, <2>1, <1>3 DEF HistInv, HistoryFollows
    <3> QED
      BY <3>1, <3>2
  <2> QED
    BY <2>1, <1>3, <1>5 DEF HistoryFollows
<1>8. Begins'
  <2> SUFFICES ASSUME ~damaged
               PROVE  /\ HistoryWhole(file)
                      /\ chain'[1].snapshot = History!Consume(History!Loaded(file), chain'[1].row)
    BY <1>1, <1>4 DEF Begins, HistoryWhole
  <2>1. CASE L = 0
    <3>1. chain'[1] = w /\ History!Loaded(file) = rows
      BY <2>1, <1>1, <1>3 DEF HistInv, Begins
    <3> QED
      BY <3>1, <1>1, <1>5 DEF HistInv, Begins
  <2>2. CASE L # 0
    <3>1. 1 \in 1..L /\ chain # <<>>
      BY <2>2, <1>3
    <3>2. chain'[1] = chain[1]
      BY <3>1, <1>3
    <3> QED
      BY <3>1, <3>2, <1>1 DEF HistInv, Begins
  <2> QED
    BY <2>1, <2>2
<1>9. History!FileIsBounded'
  BY <1>1 DEF HistInv, History!FileIsBounded
<1> QED
  BY <1>1, <1>6, <1>7, <1>8, <1>9 DEF HistInv

\* An event that is appended, in part or as a whole.
LEMMA EventAppended ==
  ASSUME HistInv, NEW row \in History!Row, NEW end \in History!Ends
  PROVE  LET f == Append(file, History!Event(row, end)) IN
         /\ f \in Seq(Lines)
         /\ ~History!TooLarge => History!Size(f) <= CompactAt
         /\ HistoryWhole(file) => History!Loaded(f) = IF end = "cut" THEN History!Loaded(file) ELSE History!Consume(History!Loaded(file), row)
         /\ HistoryWhole(file) /\ end = "whole" => HistoryWhole(f)
<1> DEFINE e == History!Event(row, end)  f == Append(file, e)
<1>1. /\ e \in Lines /\ e.end = end /\ RowsOf(e) = 1
      /\ \A s : History!Replay(s, e) = History!Consume(s, row)
  BY DEF History!Event, Lines, RowsOf, History!Replay
<1> HIDE DEF e
<1>2. file \in Seq(Lines)
  BY DEF HistInv, Kept
<1>3. /\ f \in Seq(Lines) /\ Len(f) = Len(file) + 1 /\ Len(file) \in Nat
      /\ \A i \in 1..Len(file) : f[i] = file[i]
      /\ f[Len(file) + 1] = e
  BY <1>1, <1>2, AppendProperties, LenProperties
<1>4. ~History!TooLarge => History!Size(f) <= CompactAt
  <2>1. History!Size(f) = History!Size(file) + 1 /\ History!Size(file) \in Nat
    BY <1>1, <1>2, SizeAppended
  <2>2. CompactAt \in Nat
    BY SizesAreCounts DEF History!HistoryAssumption
  <2> QED
    BY <2>1, <2>2 DEF History!TooLarge
<1>5. HistoryWhole(file) => History!Loaded(f) = IF end = "cut" THEN History!Loaded(file) ELSE History!Consume(History!Loaded(file), row)
  BY <1>1, <1>2, LoadedAppended
<1>6. HistoryWhole(file) /\ end = "whole" => HistoryWhole(f)
  <2> HIDE DEF f
  <2>1. \A i \in 1..Len(f) : i \in 1..Len(file) \/ i = Len(file) + 1
    BY <1>3
  <2> QED
    BY <2>1, <1>1, <1>3 DEF HistoryWhole
<1> QED
  BY <1>3, <1>4, <1>5, <1>6 DEF e

\* What a failed write or a crash leaves in the file.
LEMMA PartLeft ==
  ASSUME HistInv, NEW appending \in BOOLEAN, History!LeavesPart(appending),
         appending => chain # <<>> /\ ~History!TooLarge
  PROVE  /\ file' \in Seq(Lines) /\ History!FileIsBounded' /\ History!IsSession(written')
         /\ HistoryWhole(file) /\ History!Loaded(file') # History!Loaded(file) =>
              chain # <<>> /\ History!Loaded(file') = History!Consume(History!Loaded(file), Head(chain).row)
<1>1. file \in Seq(Lines) /\ History!IsSession(written) /\ History!FileIsBounded
  BY DEF HistInv, Kept
<1>2. file \o <<>> = file
  BY <1>1
<1>3. CASE appending
  <2> DEFINE row == Head(chain).row
  <2>1. row \in History!Row /\ chain # <<>> /\ ~History!TooLarge
    BY <1>3, TurnOf DEF HistInv
  <2>2. \E part \in History!PartOf(row) :
          /\ file' = file \o part
          /\ written' = IF part # <<>> /\ part[1].end = "unended"
                          THEN History!Consume(written, part[1].row) ELSE written
    BY <1>3 DEF History!LeavesPart
  <2>3. /\ file' = file \/ \E end \in {"cut", "unended"} : file' = Append(file, History!Event(row, end))
        /\ written' = written \/ written' = History!Consume(written, row)
    <3>1. PICK part \in History!PartOf(row) :
            /\ file' = file \o part
            /\ written' = IF part # <<>> /\ part[1].end = "unended"
                            THEN History!Consume(written, part[1].row) ELSE written
      BY <2>2
    <3>2. CASE part = <<>>
      BY <3>1, <3>2, <1>2
    <3>3. ASSUME NEW end \in {"cut", "unended"}, part = <<History!Event(row, end)>>
          PROVE  /\ file' = Append(file, History!Event(row, end))
                 /\ written' = written \/ written' = History!Consume(written, row)
      <4> DEFINE e == History!Event(row, end)
      <4>0. e.row = row
        BY DEF History!Event
      <4> HIDE DEF e
      <4>1. part = <<e>> /\ part[1] = e
        BY <3>3 DEF e
      <4>2. file \o <<e>> = Append(file, e)
        BY <1>1, AppendIsConcat
      <4>3. written' = written \/ written' = History!Consume(written, e.row)
        BY <3>1, <4>1
      <4>4. file' = Append(file, e)
        BY <3>1, <4>1, <4>2
      <4> QED
        BY <4>0, <4>3, <4>4 DEF e
    <3>4. part = <<>> \/ part = <<History!Event(row, "cut")>> \/ part = <<History!Event(row, "unended")>>
      BY <3>1 DEF History!PartOf
    <3> HIDE DEF row
    <3> QED
      BY <3>2, <3>3, <3>4
  <2> HIDE DEF row
  <2>4. History!IsSession(written')
    BY <1>1, <2>1, <2>3, SessionsAre
  <2>5. CASE file' = file
    BY <1>1, <2>4, <2>5 DEF History!FileIsBounded
  <2>6. ASSUME NEW end \in {"cut", "unended"}, file' = Append(file, History!Event(row, end))
        PROVE  /\ file' \in Seq(Lines) /\ History!FileIsBounded'
               /\ HistoryWhole(file) /\ History!Loaded(file') # History!Loaded(file) =>
                    History!Loaded(file') = History!Consume(History!Loaded(file), row)
    <3>1. end \in History!Ends
      BY DEF History!Ends
    <3>2. /\ file' \in Seq(Lines) /\ History!Size(file') <= CompactAt
          /\ HistoryWhole(file) => History!Loaded(file') = IF end = "cut" THEN History!Loaded(file) ELSE History!Consume(History!Loaded(file), row)
      BY <2>1, <2>6, <3>1, EventAppended
    <3>3. History!Size(file)' <= CompactAt
      BY <3>2
    <3> QED
      BY <3>2, <3>3 DEF History!FileIsBounded
  <2> QED
    BY <2>1, <2>3, <2>4, <2>5, <2>6 DEF row
<1>4. CASE ~appending
  <2>1. file' = file /\ written' = written
    BY <1>2, <1>4 DEF History!LeavesPart
  <2> QED
    BY <1>1, <2>1 DEF History!FileIsBounded
<1> QED
  BY <1>3, <1>4

-----------------------------------------------------------------------------
(***************************************************************************)
(* One step each.                                                          *)
(***************************************************************************)
LEMMA LineStep ==
  ASSUME HistInv, History!AppendLine
  PROVE  HistInv' /\ History!LoadsOn
<1> DEFINE row == Head(chain).row
<1>1. /\ up /\ chain # <<>> /\ ~writing /\ ~History!TooLarge
      /\ file' = Append(file, History!Event(row, "whole"))
      /\ written' = History!Consume(written, row)
      /\ chain' = Tail(chain)
      /\ UNCHANGED <<up, progress, rows, writing, damaged, faults>>
  BY DEF History!AppendLine, History!Turn
<1>2. /\ row \in History!Row /\ Head(chain) = chain[1] /\ Tail(chain) \in Seq(Waiting)
  BY <1>1, TurnOf DEF HistInv
<1> HIDE DEF row
<1>3. "whole" \in History!Ends
  BY DEF History!Ends
<1>4. /\ file' \in Seq(Lines) /\ History!Size(file') <= CompactAt
      /\ HistoryWhole(file) => History!Loaded(file') = History!Consume(History!Loaded(file), row) /\ HistoryWhole(file')
  BY <1>1, <1>2, <1>3, EventAppended, Zenon
<1>5. Kept'
  <2>1. History!IsSession(written')
    BY <1>1, <1>2, SessionsAre DEF HistInv, Kept
  <2> QED
    BY <1>1, <1>2, <1>4, <2>1 DEF HistInv, Kept
<1>6. HistoryFollows'
  BY <1>1, FollowsTail
<1>7. ~damaged => HistoryWhole(file) /\ History!Loaded(file') = Head(chain).snapshot
  BY <1>1, <1>2, <1>4 DEF HistInv, Begins, row
<1>8. Begins'
  <2>1. CASE damaged
    BY <2>1, <1>1 DEF Begins
  <2>2. CASE ~damaged
    BY <2>2, <1>1, <1>4, <1>7, BeginsTail
  <2> QED
    BY <2>1, <2>2
<1>9. History!FileIsBounded'
  <2>1. History!Size(file)' <= CompactAt
    BY <1>4
  <2> QED
    BY <2>1 DEF History!FileIsBounded
<1>10. History!LoadsOn
  BY <1>1, <1>4, <1>7 DEF History!LoadsOn, row
<1> QED
  BY <1>5, <1>6, <1>8, <1>9, <1>10 DEF HistInv

LEMMA TemporaryStep ==
  ASSUME HistInv, History!WriteTemporary
  PROVE  HistInv' /\ History!LoadsOn
<1>1. /\ up /\ chain # <<>> /\ History!TooLarge /\ writing' = TRUE
      /\ UNCHANGED <<up, progress, rows, chain, file, written, damaged, faults>>
  BY DEF History!WriteTemporary, History!Turn
<1>2. Kept'
  BY <1>1 DEF HistInv, Kept, History!TooLarge
<1>3. HistoryFollows' /\ Begins' /\ History!FileIsBounded'
  BY <1>1 DEF HistInv, HistoryFollows, Begins, History!FileIsBounded, HistoryWhole
<1> QED
  BY <1>1, <1>2, <1>3 DEF HistInv, History!LoadsOn

LEMMA RenameStep ==
  ASSUME HistInv, History!Rename
  PROVE  HistInv' /\ History!LoadsOn
<1> DEFINE s == Head(chain).snapshot
<1>1. /\ up /\ writing /\ writing' = FALSE
      /\ file' = <<History!Checkpoint(s)>> /\ written' = s /\ chain' = Tail(chain)
      /\ damaged' = FALSE
      /\ UNCHANGED <<up, progress, rows, faults>>
  BY DEF History!Rename
<1>2. chain # <<>>
  BY <1>1 DEF HistInv, Kept
<1>3. s \in Sessions /\ Tail(chain) \in Seq(Waiting)
  BY <1>2, TurnOf DEF HistInv
<1> HIDE DEF s
<1>4. /\ History!Loaded(file') = s /\ History!Size(file') = Len(s) /\ History!IsSession(s) /\ Len(s) <= HistoryLimit
      /\ History!Checkpoint(s) \in Lines /\ History!Checkpoint(s).end = "whole"
  BY <1>1, <1>3, LoadedOfOne, SizeOfFew, SessionsAre DEF History!Checkpoint
<1>5. file' \in Seq(Lines) /\ HistoryWhole(file')
  <2> DEFINE c == History!Checkpoint(s)
  <2> HIDE DEF c
  <2>1. c \in Lines /\ c.end = "whole" /\ file' = <<c>>
    BY <1>1, <1>4 DEF c
  <2> QED
    BY <2>1 DEF HistoryWhole
<1>6. Kept'
  BY <1>1, <1>3, <1>4, <1>5 DEF HistInv, Kept
<1>7. HistoryFollows'
  BY <1>1, <1>2, FollowsTail
<1>8. Begins'
  BY <1>1, <1>2, <1>4, <1>5, BeginsTail DEF s
<1>9. History!FileIsBounded'
  <2>1. History!Size(file)' <= HistoryLimit
    BY <1>4
  <2> QED
    BY <2>1 DEF History!FileIsBounded
<1>10. History!LoadsOn
  BY <1>2, <1>4 DEF History!LoadsOn, s
<1> QED
  BY <1>6, <1>7, <1>8, <1>9, <1>10 DEF HistInv

LEMMA FaultCounts == ASSUME HistInv, History!Fault PROVE faults' \in 0..MaxFailures
<1>1. faults \in 0..MaxFailures /\ MaxFailures \in Nat /\ faults < MaxFailures /\ faults' = faults + 1
  BY SizesAreCounts DEF HistInv, Kept, History!Fault, History!HistoryAssumption
<1> QED
  BY <1>1

LEMMA FailStep ==
  ASSUME HistInv, History!WriteFails
  PROVE  HistInv' /\ History!LoadsOn
<1>1. /\ up /\ History!Fault /\ History!LeavesPart(~History!TooLarge)
      /\ writing' = FALSE /\ chain' = Tail(chain) /\ damaged' = TRUE
      /\ UNCHANGED <<up, progress, rows>>
      /\ chain # <<>>
  BY DEF History!WriteFails, History!Turn, HistInv, Kept
<1>2. (~History!TooLarge) \in BOOLEAN
  BY DEF History!TooLarge
<1>3. /\ file' \in Seq(Lines) /\ History!FileIsBounded' /\ History!IsSession(written')
      /\ HistoryWhole(file) /\ History!Loaded(file') # History!Loaded(file) =>
           chain # <<>> /\ History!Loaded(file') = History!Consume(History!Loaded(file), Head(chain).row)
  BY <1>1, <1>2, PartLeft, Zenon
<1>4. Tail(chain) \in Seq(Waiting) /\ faults' \in 0..MaxFailures
  BY <1>1, TurnOf, FaultCounts DEF HistInv
<1>5. Kept'
  BY <1>1, <1>3, <1>4 DEF HistInv, Kept
<1>6. HistoryFollows'
  BY <1>1, FollowsTail
<1>7. Begins'
  BY <1>1 DEF Begins
<1>8. History!LoadsOn
  BY <1>1, <1>3 DEF History!LoadsOn, HistInv, Begins
<1> QED
  BY <1>3, <1>5, <1>6, <1>7, <1>8 DEF HistInv

LEMMA HistoryCrashStep ==
  ASSUME HistInv, History!Crash
  PROVE  HistInv' /\ History!LoadsOn
<1>1. /\ up /\ History!Fault /\ up' = FALSE /\ History!LeavesPart(History!Turn /\ ~History!TooLarge)
      /\ progress' = [k \in Calls |-> IF progress[k] = "running" THEN "done" ELSE progress[k]]
      /\ rows' = <<>> /\ chain' = <<>> /\ writing' = FALSE /\ UNCHANGED damaged
  BY DEF History!Crash
<1>2. (History!Turn /\ ~History!TooLarge) \in BOOLEAN
  BY DEF History!TooLarge
<1>3. History!Turn /\ ~History!TooLarge => chain # <<>> /\ ~History!TooLarge
  BY DEF History!Turn
<1>4. /\ file' \in Seq(Lines) /\ History!FileIsBounded' /\ History!IsSession(written')
      /\ HistoryWhole(file) /\ History!Loaded(file') # History!Loaded(file) =>
           chain # <<>> /\ History!Loaded(file') = History!Consume(History!Loaded(file), Head(chain).row)
  BY <1>1, <1>2, <1>3, PartLeft, Zenon
<1>5. faults' \in 0..MaxFailures /\ <<>> \in Sessions /\ <<>> \in Seq(Waiting) /\ Len(<<>>) = 0
  BY <1>1, FaultCounts, EmptySession, EmptySeq
<1>6. progress' \in [Calls -> {"new", "running", "done"}]
  BY <1>1 DEF HistInv, Kept
<1>7. Kept'
  <2>1. rows' \in Sessions /\ chain' \in Seq(Waiting)
    BY <1>1, <1>5, Zenon
  <2> QED
    BY <1>1, <1>4, <1>5, <1>6, <2>1 DEF HistInv, Kept
<1>8. HistoryFollows'
  BY <1>1, <1>5 DEF HistoryFollows
<1>9. Begins'
  BY <1>1 DEF Begins
<1>10. History!LoadsOn
  BY <1>1, <1>4 DEF History!LoadsOn, HistInv, Begins
<1> QED
  BY <1>4, <1>7, <1>8, <1>9, <1>10 DEF HistInv

LEMMA RestartStep ==
  ASSUME HistInv, History!Restart
  PROVE  HistInv' /\ History!LoadsOn
<1>1. /\ ~up /\ up' = TRUE /\ rows' = History!Loaded(file) /\ written' = History!Loaded(file)
      /\ damaged' = \E i \in DOMAIN file : file[i].end # "whole"
      /\ UNCHANGED <<progress, chain, writing, file, faults>>
  BY DEF History!Restart
<1>2. file \in Seq(Lines) /\ chain = <<>> /\ DOMAIN file = 1..Len(file)
  BY <1>1, LenProperties DEF HistInv, Kept
<1>3. History!Loaded(file) \in Sessions /\ History!IsSession(History!Loaded(file))
  BY <1>2, LoadedIsSession, SessionsAre
<1>4. damaged' \in BOOLEAN /\ (~damaged' => HistoryWhole(file))
  BY <1>1, <1>2 DEF HistoryWhole
<1>5. Kept'
  BY <1>1, <1>2, <1>3, <1>4 DEF HistInv, Kept, History!TooLarge
<1>6. HistoryFollows'
  <2>1. chain' = <<>> /\ Len(<<>>) = 0
    BY <1>1, <1>2, EmptySeq
  <2> QED
    BY <2>1 DEF HistoryFollows
<1>7. Begins'
  <2>1. chain' = <<>> /\ History!Loaded(file') = rows' /\ file' = file
    BY <1>1, <1>2
  <2> QED
    BY <2>1, <1>4 DEF Begins, HistoryWhole
<1>8. History!FileIsBounded' /\ History!LoadsOn
  BY <1>1 DEF HistInv, History!FileIsBounded, History!LoadsOn
<1> QED
  BY <1>5, <1>6, <1>7, <1>8 DEF HistInv

LEMMA HistoryStutter ==
  ASSUME HistInv, UNCHANGED History!vars
  PROVE  HistInv'
<1>1. UNCHANGED <<up, progress, rows, chain, writing, file, written, damaged, faults>>
  BY DEF History!vars
<1>2. Kept'
  BY <1>1 DEF HistInv, Kept, History!TooLarge
<1>3. HistoryFollows' /\ Begins' /\ History!FileIsBounded'
  BY <1>1 DEF HistInv, HistoryFollows, Begins, History!FileIsBounded, HistoryWhole
<1> QED
  BY <1>2, <1>3 DEF HistInv

LEMMA HistoryStep ==
  ASSUME HistInv, [History!Next]_(History!vars)
  PROVE  HistInv' /\ [History!LoadsOn]_(History!vars)
<1>1. ASSUME NEW k \in Calls, History!CallStarts(k) \/ History!CallEnds(k) PROVE HistInv' /\ History!LoadsOn
  <2>1. PICK row \in History!Row : History!Record(row) /\ progress' \in [Calls -> {"new", "running", "done"}]
    <3>1. CASE History!CallStarts(k)
      <4>1. [call |-> k, status |-> "running"] \in History!Row
        BY DEF History!Row
      <4>2. progress' \in [Calls -> {"new", "running", "done"}]
        BY <3>1 DEF History!CallStarts, HistInv, Kept
      <4> QED
        BY <3>1, <4>1, <4>2 DEF History!CallStarts
    <3>2. CASE History!CallEnds(k)
      <4>1. [call |-> k, status |-> "done"] \in History!Row
        BY DEF History!Row
      <4>2. progress' \in [Calls -> {"new", "running", "done"}]
        BY <3>2 DEF History!CallEnds, HistInv, Kept
      <4> QED
        BY <3>2, <4>1, <4>2 DEF History!CallEnds
    <3> QED
      BY <1>1, <3>1, <3>2
  <2> QED
    BY <2>1, RecordStep DEF History!LoadsOn
<1> QED
  BY <1>1, LineStep, TemporaryStep, RenameStep, FailStep, HistoryCrashStep, RestartStep, HistoryStutter DEF History!Next

LEMMA HistoryInvariant == History!Spec => []HistInv
<1>1. HistInv /\ [History!Next]_(History!vars) => HistInv'
  BY HistoryStep
<1> QED
  BY HistoryInit, <1>1, PTL DEF History!Spec

\* What the runs check of every state follows from it.
LEMMA SoundFile == HistInv => History!FileIsSound
<1> SUFFICES ASSUME HistInv PROVE History!FileIsSound
  OBVIOUS
<1>1. chain \in Seq(Waiting) /\ file \in Seq(Lines) /\ rows \in Sessions
  BY DEF HistInv, Kept
<1>2. /\ Len(chain) \in Nat /\ DOMAIN chain = 1..Len(chain) /\ DOMAIN file = 1..Len(file)
      /\ \A i \in 1..Len(chain) : chain[i] \in Waiting
      /\ \A i \in 1..Len(file) : file[i] \in Lines
      /\ chain = <<>> <=> Len(chain) = 0
  BY <1>1, LenProperties, ElementOfSeq, EmptySeq
<1>3. History!TypeOK
  <2>1. \A i \in DOMAIN chain : chain[i].row \in History!Row /\ History!IsSession(chain[i].snapshot)
    BY <1>2, SessionsAre DEF Waiting
  <2>2. \A i \in DOMAIN file : file[i].end \in History!Ends
    BY <1>2 DEF Lines, History!Ends
  <2> QED
    BY <2>1, <2>2, <1>1, SessionsAre DEF HistInv, Kept, History!TypeOK
<1>4. History!FileAndQueueMakeTheSession
  <2> SUFFICES ASSUME up, ~damaged PROVE History!ConsumeAll(History!Loaded(file), History!Queued) = rows
    BY DEF History!FileAndQueueMakeTheSession
  <2> DEFINE L == Len(chain)
             q == History!Queued
             g == [n \in 0..L |-> IF n = 0 THEN History!Loaded(file) ELSE chain[n].snapshot]
  <2>1. Len(q) = L /\ L \in Nat /\ \A n \in 1..L : q[n] = chain[n].row
    <3>1. q = [n \in 1..L |-> chain[n].row]
      BY <1>2 DEF History!Queued
    <3>2. \A n \in 1..L : chain[n].row \in History!Row
      BY <1>2 DEF Waiting
    <3>3. q \in [1..L -> History!Row]
      BY <3>1, <3>2
    <3>4. q \in Seq(History!Row)
      BY <3>3, <1>2
    <3>5. Len(q) = L
      BY <3>3, <3>4, <1>2, LenProperties
    <3> HIDE DEF L, q
    <3> QED
      BY <3>1, <3>5, <1>2 DEF L
  <2>2. g[0] = History!Loaded(file)
    BY <1>2
  <2>3. ASSUME NEW n \in 1..L PROVE g[n] = History!Consume(g[n - 1], q[n])
    <3>1. q[n] = chain[n].row /\ n \in 0..L /\ n # 0 /\ n - 1 \in 0..L
      BY <2>1
    <3>2. g[n] = chain[n].snapshot
      BY <3>1
    <3>3. CASE n = 1
      <4>1. g[n - 1] = History!Loaded(file) /\ chain # <<>>
        BY <3>3, <2>2, <1>2
      <4>2. chain[1].snapshot = History!Consume(History!Loaded(file), chain[1].row)
        BY <4>1 DEF HistInv, Begins
      <4> HIDE DEF g, q
      <4> QED
        BY <3>1, <3>2, <3>3, <4>1, <4>2
    <3>4. CASE n # 1
      <4>1. n > 1 /\ n - 1 # 0
        BY <3>4
      <4>2. g[n - 1] = chain[n - 1].snapshot
        BY <3>1, <4>1
      <4>3. chain[n].snapshot = History!Consume(chain[n - 1].snapshot, chain[n].row)
        BY <4>1 DEF HistInv, HistoryFollows
      <4> HIDE DEF g, q
      <4> QED
        BY <3>1, <3>2, <4>2, <4>3
    <3> QED
      BY <3>3, <3>4
  <2>4. g[L] = rows
    <3>1. CASE L = 0
      BY <3>1, <2>2, <1>2 DEF HistInv, Begins
    <3>2. CASE L # 0
      <4>1. g[L] = chain[L].snapshot /\ chain # <<>>
        BY <3>2, <1>2
      <4> QED
        BY <4>1 DEF HistInv, HistoryFollows
    <3> QED
      BY <3>1, <3>2
  <2>5. History!ConsumeAll(History!Loaded(file), q) = g[Len(q)]
    <3> HIDE DEF q, g, L
    <3> QED
      BY <2>1, <2>2, <2>3, ConsumeAllIs
  <2> HIDE DEF g
  <2> QED
    BY <2>1, <2>4, <2>5
<1> QED
  BY <1>3, <1>4 DEF History!FileIsSound, HistInv

LEMMA StoreIsSound == History!Spec => []History!FileIsSound
  BY HistoryInvariant, SoundFile, PTL

LEMMA StoreLoadsForward == History!Spec => History!LoadsForward
<1>1. HistInv /\ [History!Next]_(History!vars) => [History!LoadsOn]_(History!vars)
  BY HistoryStep
<1> QED
  BY HistoryInvariant, <1>1, PTL DEF History!Spec, History!LoadsForward

\* File and queue make the session in memory, whatever fails and whenever the daemon dies.
THEOREM HistoryIsSound == ServiceSpec => []FileIsSound
<1>1. History!FileIsSound => FileIsSound
  BY DEF FileIsSound
<1> QED
  BY <1>1, ServiceImplementsItsParts, StoreIsSound, PTL

\* What a restart would load is replaced by nothing but what follows its next event.
THEOREM RestartsLoadForward == ServiceSpec => LoadsForward
  BY ServiceImplementsItsParts, StoreLoadsForward DEF LoadsForward

-----------------------------------------------------------------------------
(***************************************************************************)
(* The log.                                                                *)
(***************************************************************************)
LEMMA LogCounts ==
  \A S : (Log!IsFiniteSet(S) <=> IsFiniteSet(S)) /\ Log!Cardinality(S) = Cardinality(S)
BY DEF Log!IsFiniteSet, IsFiniteSet, Log!Cardinality, Cardinality

-----------------------------------------------------------------------------
(***************************************************************************)
(* Lines, files and their sizes.                                           *)
(***************************************************************************)
Line == (Nat \ {0}) \X LineSizes
Files == [Log!Newest..Log!Oldest -> Seq(Line)]

LEMMA Bounds ==
  /\ FileCount \in Nat \ {0} /\ MaxBytes \in Nat /\ MaxLines \in Nat
  /\ Log!Oldest = FileCount - 1 /\ Log!Newest = 0 /\ 0 \in Log!Newest..Log!Oldest
  /\ \A l \in Line : l[2] \in LineSizes /\ l[2] \in Nat /\ l # <<0, 0>>
<1>1. \A n \in LineSizes : n \in Nat
  <2>1. MaxBytes \in Nat /\ LineSizes \subseteq 1..MaxBytes
    BY LinesFit DEF Log!LogAssumption
  <2> QED
    BY <2>1
<1>2. \A l \in Line : l[1] \in Nat \ {0} /\ l[2] \in LineSizes
  BY DEF Line
<1>3. <<0, 0>>[1] = 0
  OBVIOUS
<1>4. /\ FileCount \in Nat \ {0} /\ MaxBytes \in Nat /\ MaxLines \in Nat
      /\ Log!Oldest = FileCount - 1 /\ Log!Newest = 0
  BY LinesFit DEF Log!LogAssumption, Log!Newest, Log!Oldest
<1>5. 0 \in Log!Newest..Log!Oldest
  BY <1>4
<1>6. \A l \in Line : l # <<0, 0>>
  BY <1>2, <1>3
<1> QED
  BY <1>1, <1>2, <1>4, <1>5, <1>6, Zenon

LEMMA LongestLine ==
  /\ Log!Longest \in Nat /\ Log!Longest <= MaxBytes
  /\ \A size \in LineSizes : size \in Nat /\ size <= Log!Longest
<1>1. MaxBytes \in Nat /\ LineSizes # {} /\ LineSizes \subseteq 1..MaxBytes
  BY LinesFit DEF Log!LogAssumption
<1> DEFINE T == {MaxBytes - n : n \in LineSizes}
<1>2. T \subseteq Nat /\ T # {}
  <2>1. \A n \in LineSizes : MaxBytes - n \in Nat
    BY <1>1
  <2> QED
    BY <2>1, <1>1
<1>3. PICK m \in T : \A n \in T : m <= n
  <2> HIDE DEF T
  <2> QED
    BY <1>2, LeastNumber
<1>4. PICK size \in LineSizes : m = MaxBytes - size
  BY <1>3
<1>5. ASSUME NEW n \in LineSizes PROVE size >= n
  <2>1. MaxBytes - n \in T
    OBVIOUS
  <2>2. m <= MaxBytes - n
    BY <2>1, <1>3
  <2>3. n \in Nat /\ size \in Nat
    BY <1>1
  <2> QED
    BY <2>2, <2>3, <1>1, <1>4
<1>6. Log!Longest \in LineSizes /\ \A n \in LineSizes : Log!Longest >= n
  BY <1>4, <1>5 DEF Log!Longest, Log!Max
<1>7. \A n \in LineSizes : n \in Nat /\ n <= MaxBytes
  BY <1>1
<1> QED
  BY <1>6, <1>7

LEMMA LogSizeIs ==
  ASSUME NEW ls, Len(ls) \in Nat, NEW g, g[0] = 0,
         \A n \in 1..Len(ls) : g[n] = g[n - 1] + ls[n][2]
  PROVE  Log!Size(ls) = g[Len(ls)]
<1> DEFINE L == Len(ls)
           E(f, n) == IF n = 0 THEN 0 ELSE f[n - 1] + ls[n][2]
           size == CHOOSE f : f = [n \in 0..L |-> E(f, n)]
           h == [n \in 0..L |-> g[n]]
<1>1. h = [n \in 0..L |-> E(h, n)]
  <2>1. ASSUME NEW n \in 0..L PROVE g[n] = E(h, n)
    <3>1. CASE n = 0
      BY <3>1
    <3>2. CASE n # 0
      <4>1. n \in 1..L /\ n - 1 \in 0..L
        BY <3>2
      <4>2. h[n - 1] = g[n - 1]
        BY <4>1
      <4> HIDE DEF h
      <4> QED
        BY <3>2, <4>1, <4>2, Zenon
    <3> QED
      BY <3>1, <3>2
  <2>2. \A n \in 0..L : g[n] = E(h, n)
    BY <2>1
  <2> HIDE DEF E
  <2> QED
    BY <2>2
<1>2. size = [n \in 0..L |-> E(size, n)]
  <2> HIDE DEF E, h
  <2> QED
    BY <1>1
<1>3. Log!Size(ls) = size[L]
  BY DEF Log!Size
<1> HIDE DEF size
<1>4. \A n \in 0..L : size[n] = E(size, n)
  <2> HIDE DEF E
  <2> QED
    BY <1>2, Zenon
<1>5. size[0] = g[0]
  BY <1>4
<1>6. \A n \in 1..L : size[n - 1] = g[n - 1] => size[n] = g[n]
  <2> TAKE n \in 1..L
  <2>1. n \in 0..L /\ n # 0
    OBVIOUS
  <2>2. size[n] = size[n - 1] + ls[n][2]
    BY <1>4, <2>1, Zenon
  <2> HIDE DEF L
  <2>3. g[n] = g[n - 1] + ls[n][2]
    BY DEF L
  <2> QED
    BY <2>2, <2>3, Zenon
<1>7. size[L] = g[L]
  <2> HIDE DEF E, L
  <2>1. L \in Nat
    BY DEF L
  <2> QED
    BY <1>5, <1>6, <2>1, AlikeAsFarAs
<1> QED
  BY <1>3, <1>7

LEMMA LogSizeIsAFold ==
  ASSUME NEW ls \in Seq(Line)
  PROVE  \E g \in [0..Len(ls) -> Nat] :
           g[0] = 0 /\ \A n \in 1..Len(ls) : g[n] = g[n - 1] + ls[n][2]
<1> DEFINE L == Len(ls)
           step == [n \in 1..L |-> [k \in Nat |-> k + ls[n][2]]]
<1>1. L \in Nat /\ \A n \in 1..L : ls[n][2] \in Nat
  BY Bounds, LenProperties, ElementOfSeq
<1>2. step \in FoldSteps(L, Nat)
  <2>1. \A n \in 1..L, k \in Nat : k + ls[n][2] \in Nat
    BY <1>1
  <2> HIDE DEF L
  <2> QED
    BY <2>1 DEF FoldSteps
<1>3. PICK g \in [0..L -> Nat] : g[0] = 0 /\ \A n \in 1..L : g[n] = step[n][g[n - 1]]
  <2>1. Folds(L, Nat, 0, step) # {}
    <3> HIDE DEF step, L
    <3> QED
      BY <1>1, <1>2, FoldIsDefined
  <2> HIDE DEF step, L
  <2> QED
    BY <2>1 DEF Folds
<1>4. ASSUME NEW n \in 1..L PROVE g[n] = g[n - 1] + ls[n][2]
  <2>1. n - 1 \in 0..L
    BY <1>1
  <2>2. g[n - 1] \in Nat
    BY <2>1, <1>3
  <2>3. step[n][g[n - 1]] = g[n - 1] + ls[n][2]
    BY <2>2, Zenon
  <2> QED
    BY <1>3, <2>3
<1> HIDE DEF step
<1> QED
  BY <1>3, <1>4

LEMMA LogSizeAppended ==
  ASSUME NEW ls \in Seq(Line), NEW l \in Line
  PROVE  Log!Size(Append(ls, l)) = Log!Size(ls) + l[2] /\ Log!Size(ls) \in Nat
<1> DEFINE L == Len(ls)
           m == Append(ls, l)
<1>1. PICK g \in [0..L -> Nat] : g[0] = 0 /\ \A n \in 1..L : g[n] = g[n - 1] + ls[n][2]
  BY LogSizeIsAFold, Zenon
<1>2. /\ L \in Nat /\ Len(m) = L + 1 /\ m[L + 1] = l
      /\ \A i \in 1..L : m[i] = ls[i]
  BY LenProperties, AppendProperties
<1>3. Log!Size(ls) = g[L]
  BY <1>1, <1>2, LogSizeIs
<1> HIDE DEF m
<1> DEFINE last == g[L] + l[2]
           h == [n \in 0..(L + 1) |-> IF n <= L THEN g[n] ELSE last]
<1>4. h[0] = 0 /\ h[L + 1] = last /\ \A n \in 0..L : h[n] = g[n]
  BY <1>1, <1>2
<1> HIDE DEF h, last
<1>5. ASSUME NEW n \in 1..Len(m) PROVE h[n] = h[n - 1] + m[n][2]
  <2>1. CASE n \in 1..L
    <3>1. n \in 0..L /\ n - 1 \in 0..L
      BY <2>1, <1>2
    <3> QED
      BY <3>1, <2>1, <1>1, <1>2, <1>4
  <2>2. CASE n = L + 1
    <3>1. h[n] = last /\ m[n] = l /\ n - 1 = L /\ h[n - 1] = g[L]
      BY <2>2, <1>2, <1>4
    <3> QED
      BY <3>1 DEF last
  <2> QED
    BY <2>1, <2>2, <1>2
<1>6. Log!Size(m) = h[Len(m)]
  <2>1. Len(m) \in Nat
    BY <1>2
  <2> HIDE DEF L
  <2> QED
    BY <1>4, <1>5, <2>1, LogSizeIs
<1> QED
  BY <1>1, <1>2, <1>3, <1>4, <1>6 DEF last, m

LEMMA SizeOfNone == Log!Size(<<>>) = 0
<1> DEFINE g == [n \in 0..0 |-> 0]
<1>1. Len(<<>>) = 0 /\ g[0] = 0 /\ \A n \in 1..0 : FALSE
  OBVIOUS
<1> HIDE DEF g
<1> QED
  BY <1>1, LogSizeIs

-----------------------------------------------------------------------------
(***************************************************************************)
(* What the files hold, the oldest first.                                  *)
(***************************************************************************)
LEMMA OldestFirstIs ==
  ASSUME NEW fs, NEW g, g[0] = <<>>,
         \A n \in 1..FileCount : g[n] = g[n - 1] \o fs[FileCount - n]
  PROVE  Log!OldestFirst(fs) = g[FileCount]
<1> DEFINE L == FileCount
           E(f, n) == IF n = 0 THEN <<>> ELSE f[n - 1] \o fs[FileCount - n]
           kept == CHOOSE f : f = [n \in 0..L |-> E(f, n)]
           h == [n \in 0..L |-> g[n]]
<1>0. L \in Nat
  BY Bounds
<1>1. h = [n \in 0..L |-> E(h, n)]
  <2>1. ASSUME NEW n \in 0..L PROVE g[n] = E(h, n)
    <3>1. CASE n = 0
      BY <3>1
    <3>2. CASE n # 0
      <4>1. n \in 1..L /\ n - 1 \in 0..L
        BY <3>2, <1>0
      <4>2. h[n - 1] = g[n - 1]
        BY <4>1
      <4> HIDE DEF h
      <4> QED
        BY <3>2, <4>1, <4>2, Zenon
    <3> QED
      BY <3>1, <3>2
  <2>2. \A n \in 0..L : g[n] = E(h, n)
    BY <2>1
  <2> HIDE DEF E
  <2> QED
    BY <2>2
<1>2. kept = [n \in 0..L |-> E(kept, n)]
  <2> HIDE DEF E, h
  <2> QED
    BY <1>1
<1>3. Log!OldestFirst(fs) = kept[L]
  BY DEF Log!OldestFirst
<1> HIDE DEF kept
<1>4. \A n \in 0..L : kept[n] = E(kept, n)
  <2> HIDE DEF E
  <2> QED
    BY <1>2, Zenon
<1>5. kept[0] = g[0]
  BY <1>0, <1>4
<1>6. \A n \in 1..L : kept[n - 1] = g[n - 1] => kept[n] = g[n]
  <2> TAKE n \in 1..L
  <2>1. n \in 0..L /\ n # 0
    BY <1>0
  <2>2. kept[n] = kept[n - 1] \o fs[FileCount - n]
    BY <1>4, <2>1, Zenon
  <2> HIDE DEF L
  <2>3. g[n] = g[n - 1] \o fs[FileCount - n]
    BY DEF L
  <2> QED
    BY <2>2, <2>3, Zenon
<1>7. kept[L] = g[L]
  <2> HIDE DEF E, L
  <2> QED
    BY <1>0, <1>5, <1>6, AlikeAsFarAs
<1> QED
  BY <1>3, <1>7

\* What the n oldest files hold, for every n.
LEMMA OldestFirstIsAFold ==
  ASSUME NEW fs \in Files
  PROVE  \E g \in [0..FileCount -> Seq(Line)] :
           g[0] = <<>> /\ \A n \in 1..FileCount : g[n] = g[n - 1] \o fs[FileCount - n]
<1> DEFINE L == FileCount
           step == [n \in 1..L |-> [s \in Seq(Line) |-> s \o fs[FileCount - n]]]
<1>1. L \in Nat /\ \A n \in 1..L : fs[FileCount - n] \in Seq(Line)
  <2>1. ASSUME NEW n \in 1..L PROVE FileCount - n \in Log!Newest..Log!Oldest
    BY Bounds
  <2> QED
    BY <2>1, Bounds DEF Files
<1>2. step \in FoldSteps(L, Seq(Line))
  <2>1. \A n \in 1..L, s \in Seq(Line) : s \o fs[FileCount - n] \in Seq(Line)
    BY <1>1, ConcatProperties
  <2> HIDE DEF L
  <2> QED
    BY <2>1 DEF FoldSteps
<1>3. PICK g \in [0..L -> Seq(Line)] : g[0] = <<>> /\ \A n \in 1..L : g[n] = step[n][g[n - 1]]
  <2>1. Folds(L, Seq(Line), <<>>, step) # {}
    <3>1. <<>> \in Seq(Line)
      BY EmptySeq
    <3> HIDE DEF step, L
    <3> QED
      BY <1>1, <1>2, <3>1, FoldIsDefined
  <2> HIDE DEF step, L
  <2> QED
    BY <2>1 DEF Folds
<1>4. ASSUME NEW n \in 1..L PROVE g[n] = g[n - 1] \o fs[FileCount - n]
  <2>1. n - 1 \in 0..L
    BY <1>1
  <2>2. g[n - 1] \in Seq(Line)
    BY <2>1, <1>3
  <2>3. step[n][g[n - 1]] = g[n - 1] \o fs[FileCount - n]
    BY <2>2, Zenon
  <2> QED
    BY <1>3, <2>3
<1> HIDE DEF step
<1> QED
  BY <1>3, <1>4

LEMMA OfEmptyFiles == Log!OldestFirst([i \in Log!Newest..Log!Oldest |-> <<>>]) = <<>>
<1> DEFINE g == [n \in 0..FileCount |-> <<>>]
           fs == [i \in Log!Newest..Log!Oldest |-> <<>>]
<1>1. g[0] = <<>> /\ g[FileCount] = <<>>
  BY Bounds
<1>2. ASSUME NEW n \in 1..FileCount PROVE g[n] = g[n - 1] \o fs[FileCount - n]
  <2>1. n \in 0..FileCount /\ n - 1 \in 0..FileCount /\ FileCount - n \in Log!Newest..Log!Oldest
    BY Bounds
  <2>2. g[n] = <<>> /\ g[n - 1] = <<>> /\ fs[FileCount - n] = <<>>
    BY <2>1
  <2>3. <<>> \o <<>> = <<>>
    OBVIOUS
  <2> HIDE DEF g, fs
  <2> QED
    BY <2>2, <2>3
<1> HIDE DEF g, fs
<1>3. Log!OldestFirst(fs) = g[FileCount]
  BY <1>1, <1>2, OldestFirstIs
<1> QED
  BY <1>1, <1>3 DEF fs

LEMMA AppendedToTheNewest ==
  ASSUME NEW fs \in Files, NEW gs \in Files, NEW l \in Line,
         gs[0] = Append(fs[0], l), \A i \in 1..Log!Oldest : gs[i] = fs[i]
  PROVE  /\ Log!OldestFirst(gs) = Append(Log!OldestFirst(fs), l)
         /\ Log!OldestFirst(fs) \in Seq(Line)
<1>1. PICK g \in [0..FileCount -> Seq(Line)] :
        g[0] = <<>> /\ \A n \in 1..FileCount : g[n] = g[n - 1] \o fs[FileCount - n]
  BY OldestFirstIsAFold
<1>2. FileCount \in Nat \ {0} /\ Log!Oldest = FileCount - 1 /\ FileCount - FileCount = 0
  BY Bounds
<1>3. Log!OldestFirst(fs) = g[FileCount] /\ g[FileCount] \in Seq(Line)
  <2>1. Log!OldestFirst(fs) = g[FileCount]
    BY <1>1, OldestFirstIs
  <2>2. FileCount \in 0..FileCount
    BY <1>2
  <2> QED
    BY <1>1, <2>1, <2>2
<1> DEFINE h == [n \in 0..FileCount |-> IF n = FileCount THEN Append(g[FileCount], l) ELSE g[n]]
<1>4. h[0] = <<>> /\ h[FileCount] = Append(g[FileCount], l)
  BY <1>1, <1>2
<1>5. \A n \in 0..FileCount : n # FileCount => h[n] = g[n]
  BY <1>2
<1> HIDE DEF h
<1>6. ASSUME NEW n \in 1..FileCount PROVE h[n] = h[n - 1] \o gs[FileCount - n]
  <2>1. n - 1 \in 0..FileCount /\ n - 1 # FileCount /\ h[n - 1] = g[n - 1]
    BY <1>2, <1>5
  <2>2. CASE n = FileCount
    <3>1. fs[0] \in Seq(Line) /\ g[n - 1] \in Seq(Line)
      BY <2>1, <1>1, Bounds DEF Files
    <3> DEFINE a == g[n - 1]  b == fs[0]
    <3>2. g[FileCount] = a \o b /\ gs[FileCount - n] = Append(b, l)
      BY <2>2, <1>1, <1>2
    <3> HIDE DEF a, b
    <3>3. a \in Seq(Line) /\ b \in Seq(Line)
      BY <3>1 DEF a, b
    <3>4. Append(a \o b, l) = a \o Append(b, l)
      <4>1. <<l>> \in Seq(Line) /\ a \o b \in Seq(Line)
        BY <3>3, ConcatProperties
      <4>2. Append(a \o b, l) = (a \o b) \o <<l>> /\ Append(b, l) = b \o <<l>>
        BY <3>3, <4>1, AppendIsConcat
      <4>3. (a \o b) \o <<l>> = a \o (b \o <<l>>)
        BY <3>3, <4>1, ConcatAssociative, SMTT(20)
      <4> QED
        BY <4>2, <4>3
    <3> QED
      BY <1>4, <2>1, <2>2, <3>2, <3>4 DEF a
  <2>3. CASE n # FileCount
    <3>1. n \in 0..FileCount /\ FileCount - n \in 1..Log!Oldest
      BY <2>3, <1>2
    <3> QED
      BY <3>1, <2>1, <2>3, <1>1, <1>5
  <2> QED
    BY <2>2, <2>3
<1>7. Log!OldestFirst(gs) = h[FileCount]
  BY <1>4, <1>6, OldestFirstIs
<1> QED
  BY <1>3, <1>4, <1>7

LEMMA WithoutTheOldest ==
  ASSUME NEW fs \in Files, NEW gs \in Files,
         gs[Log!Oldest] = <<>>, \A i \in Log!Newest..Log!Oldest : i # Log!Oldest => gs[i] = fs[i]
  PROVE  /\ Log!OldestFirst(fs) = fs[Log!Oldest] \o Log!OldestFirst(gs)
         /\ Log!OldestFirst(gs) \in Seq(Line) /\ fs[Log!Oldest] \in Seq(Line)
<1>1. PICK g \in [0..FileCount -> Seq(Line)] :
        g[0] = <<>> /\ \A n \in 1..FileCount : g[n] = g[n - 1] \o gs[FileCount - n]
  BY OldestFirstIsAFold
<1>2. FileCount \in Nat \ {0} /\ Log!Oldest = FileCount - 1 /\ Log!Newest = 0 /\ Log!Oldest \in Log!Newest..Log!Oldest
  BY Bounds
<1>3. Log!OldestFirst(gs) = g[FileCount] /\ g[FileCount] \in Seq(Line) /\ fs[Log!Oldest] \in Seq(Line)
  <2>1. Log!OldestFirst(gs) = g[FileCount]
    BY <1>1, OldestFirstIs
  <2>2. FileCount \in 0..FileCount
    BY <1>2
  <2>3. fs[Log!Oldest] \in Seq(Line)
    BY <1>2 DEF Files
  <2> QED
    BY <1>1, <2>1, <2>2, <2>3
<1> DEFINE a == fs[Log!Oldest]
           h == [n \in 0..FileCount |-> IF n = 0 THEN <<>> ELSE a \o g[n]]
<1>4. h[0] = <<>> /\ \A n \in 1..FileCount : h[n] = a \o g[n]
  <2>1. 0 \in 0..FileCount /\ \A n \in 1..FileCount : n \in 0..FileCount /\ n # 0
    BY <1>2
  <2> HIDE DEF a
  <2> QED
    BY <2>1, Zenon
<1>5. FileCount \in 1..FileCount
  BY <1>2
<1> HIDE DEF h
<1>6. ASSUME NEW n \in 1..FileCount PROVE h[n] = h[n - 1] \o fs[FileCount - n]
  <2>1. FileCount - n \in Log!Newest..Log!Oldest /\ n - 1 \in 0..FileCount
    BY <1>2
  <2>2. g[n] = g[n - 1] \o gs[FileCount - n] /\ h[n] = a \o g[n] /\ g[n - 1] \in Seq(Line)
    BY <1>1, <1>4, <2>1
  <2>3. CASE n = 1
    <3>1. n - 1 = 0 /\ FileCount - n = Log!Oldest
      BY <2>3, <1>2
    <3>2. g[n] = <<>> \o <<>> /\ h[n - 1] = <<>>
      BY <3>1, <2>2, <1>1, <1>4
    <3>3. a \o (<<>> \o <<>>) = <<>> \o a
      BY <1>3
    <3> QED
      BY <2>2, <3>1, <3>2, <3>3
  <2>4. CASE n # 1
    <3>1. n - 1 \in 1..FileCount /\ FileCount - n # Log!Oldest
      BY <2>4, <1>2
    <3>2. h[n - 1] = a \o g[n - 1] /\ gs[FileCount - n] = fs[FileCount - n]
      BY <3>1, <2>1, <1>4
    <3>3. fs[FileCount - n] \in Seq(Line)
      BY <2>1 DEF Files
    <3> DEFINE b == g[n - 1]  c == fs[FileCount - n]
    <3>4. a \in Seq(Line) /\ b \in Seq(Line) /\ c \in Seq(Line)
      BY <1>3, <2>2, <3>3
    <3> HIDE DEF a, b, c
    <3>5. a \o (b \o c) = (a \o b) \o c
      BY <3>4
    <3> QED
      BY <2>2, <3>2, <3>5 DEF b, c
  <2> QED
    BY <2>3, <2>4
<1>7. Log!OldestFirst(fs) = h[FileCount]
  BY <1>4, <1>6, OldestFirstIs
<1> QED
  BY <1>3, <1>4, <1>5, <1>7

\* A rename to a name that is free changes nothing of it.
LEMMA MovedToTheFreeName ==
  ASSUME NEW fs \in Files, NEW gs \in Files, NEW i \in Log!Newest..Log!Oldest, i # Log!Oldest,
         fs[i + 1] = <<>>, gs[i] = <<>>, gs[i + 1] = fs[i],
         \A j \in Log!Newest..Log!Oldest : j # i /\ j # i + 1 => gs[j] = fs[j]
  PROVE  Log!OldestFirst(gs) = Log!OldestFirst(fs)
<1>1. PICK g \in [0..FileCount -> Seq(Line)] :
        g[0] = <<>> /\ \A n \in 1..FileCount : g[n] = g[n - 1] \o fs[FileCount - n]
  BY OldestFirstIsAFold
<1>2. /\ FileCount \in Nat \ {0} /\ Log!Oldest = FileCount - 1 /\ Log!Newest = 0
      /\ i \in Nat /\ i + 1 <= Log!Oldest
  BY Bounds
<1>3. Log!OldestFirst(fs) = g[FileCount]
  BY <1>1, OldestFirstIs
<1> DEFINE N == FileCount - i
           h == [n \in 0..FileCount |-> IF n = N - 1 THEN g[N] ELSE g[n]]
<1>4. /\ N \in 2..FileCount /\ N \in 0..FileCount /\ N - 1 \in 0..FileCount /\ N - 1 # 0
      /\ N # N - 1 /\ 0 \in 0..FileCount /\ FileCount \in 0..FileCount /\ FileCount # N - 1
  BY <1>2
<1>5. h[0] = <<>> /\ h[FileCount] = g[FileCount] /\ h[N - 1] = g[N] /\ h[N] = g[N]
  BY <1>1, <1>4
<1>6. \A n \in 0..FileCount : n # N - 1 => h[n] = g[n]
  OBVIOUS
<1> HIDE DEF h
<1>7. g[N] = g[N - 1] \o fs[i] /\ g[N - 1] = g[(N - 1) - 1] \o fs[i + 1]
  <2>1. N \in 1..FileCount /\ N - 1 \in 1..FileCount /\ FileCount - N = i /\ FileCount - (N - 1) = i + 1
    BY <1>2, <1>4
  <2> HIDE DEF N
  <2> QED
    BY <2>1, <1>1
<1>8. g[(N - 1) - 1] \in Seq(Line) /\ g[N] \in Seq(Line) /\ fs[i] \in Seq(Line)
  <2>1. (N - 1) - 1 \in 0..FileCount
    BY <1>2, <1>4
  <2> QED
    BY <2>1, <1>1, <1>4 DEF Files
<1>9. g[N - 1] = g[(N - 1) - 1]
  <2> DEFINE a == g[(N - 1) - 1]
  <2>1. a \o <<>> = a
    BY <1>8
  <2> QED
    BY <2>1, <1>7
<1>10. ASSUME NEW n \in 1..FileCount PROVE h[n] = h[n - 1] \o gs[FileCount - n]
  <2>1. n - 1 \in 0..FileCount /\ n \in 0..FileCount /\ FileCount - n \in Log!Newest..Log!Oldest
    BY <1>2
  <2>2. CASE n = N
    <3>1. FileCount - n = i /\ h[n] = g[N] /\ h[n - 1] = g[N]
      BY <2>2, <1>2, <1>5
    <3> DEFINE a == g[N]
    <3>2. a \o <<>> = a
      BY <1>8
    <3> QED
      BY <3>1, <3>2
  <2>3. CASE n = N - 1
    <3>1. FileCount - n = i + 1 /\ h[n] = g[N] /\ n - 1 = (N - 1) - 1 /\ n - 1 # N - 1
      BY <2>3, <1>2, <1>5
    <3>2. h[n - 1] = g[(N - 1) - 1]
      BY <3>1, <2>1, <1>6
    <3> QED
      BY <3>1, <3>2, <1>7, <1>9
  <2>4. CASE n # N /\ n # N - 1
    <3>1. FileCount - n # i /\ FileCount - n # i + 1 /\ n - 1 # N - 1
      BY <2>4, <1>2
    <3>2. h[n] = g[n] /\ h[n - 1] = g[n - 1] /\ gs[FileCount - n] = fs[FileCount - n]
      BY <3>1, <2>1, <2>4, <1>6
    <3> QED
      BY <3>2, <1>1
  <2> QED
    BY <2>2, <2>3, <2>4
<1>11. Log!OldestFirst(gs) = h[FileCount]
  BY <1>5, <1>10, OldestFirstIs
<1> QED
  BY <1>3, <1>5, <1>11

\* The newest of what was appended.
NewestOf(s, all) == \E n \in 0..Len(all) : s = SubSeq(all, n + 1, Len(all))

LEMMA NewestAppended ==
  ASSUME NEW all \in Seq(Line), NEW s \in Seq(Line), NEW l \in Line, NewestOf(s, all)
  PROVE  NewestOf(Append(s, l), Append(all, l))
<1>1. PICK n \in 0..Len(all) : s = SubSeq(all, n + 1, Len(all))
  BY DEF NewestOf
<1>2. Len(all) \in Nat /\ Len(Append(all, l)) = Len(all) + 1 /\ n \in 0..Len(Append(all, l))
  BY LenProperties, AppendProperties
<1>3. Append(SubSeq(all, n + 1, Len(all)), l) = SubSeq(Append(all, l), n + 1, Len(all) + 1)
  BY <1>2
<1> QED
  BY <1>1, <1>2, <1>3 DEF NewestOf

LEMMA NewestOfTheRest ==
  ASSUME NEW all \in Seq(Line), NEW s \in Seq(Line), NEW t \in Seq(Line), NewestOf(s \o t, all)
  PROVE  NewestOf(t, all)
<1>1. PICK n \in 0..Len(all) : s \o t = SubSeq(all, n + 1, Len(all))
  BY DEF NewestOf
<1>2. Len(all) \in Nat /\ Len(s) \in Nat /\ Len(t) \in Nat /\ n \in Nat /\ n <= Len(all)
  BY <1>1, LenProperties
<1> DEFINE r == SubSeq(all, n + 1, Len(all))
           m == n + Len(s)
           u == SubSeq(all, m + 1, Len(all))
<1>3. Len(r) = Len(all) - n /\ Len(s \o t) = Len(s) + Len(t)
  BY <1>2
<1>4. m \in 0..Len(all) /\ Len(all) - m = Len(t)
  BY <1>1, <1>2, <1>3
<1>5. u \in Seq(Line) /\ Len(u) = Len(t) /\ \A i \in 1..Len(t) : u[i] = all[m + i]
  BY <1>2, <1>4
<1>6. \A i \in 1..Len(t) : t[i] = all[m + i]
  <2> TAKE i \in 1..Len(t)
  <2>1. (s \o t)[Len(s) + i] = t[i]
    BY <1>2
  <2>2. Len(s) + i \in 1..(Len(all) - n) /\ (n + 1) + (Len(s) + i) - 1 = m + i
    BY <1>2, <1>4
  <2>3. \A k \in 1..(Len(all) - n) : r[k] = all[(n + 1) + k - 1]
    BY <1>2
  <2> QED
    BY <1>1, <2>1, <2>2, <2>3
<1>7. t = u
  <2> HIDE DEF u
  <2> QED
    BY <1>5, <1>6, SeqEqual
<1> QED
  BY <1>4, <1>7 DEF NewestOf

-----------------------------------------------------------------------------
(***************************************************************************)
(* Room in the newest file.  A line that is only about to be appended was  *)
(* measured when there was room for it; since then every other writer may  *)
(* have appended one, and none more, as the next is measured again.  So    *)
(* the file has room for the lines of all who are about to append: for as  *)
(* many of the longest, or for all but one of them and that one.           *)
(***************************************************************************)
Top == MaxBytes + (Cardinality(Writers) - 1) * Log!Longest

Room(size, ws, ls) ==
  \/ size + Cardinality(ws) * Log!Longest <= Top
  \/ \E w \in ws : size + ls[w][2] + (Cardinality(ws) - 1) * Log!Longest <= Top

LEMMA Multiples ==
  ASSUME NEW a \in Int, NEW b \in Int, NEW l \in Nat
  PROVE  /\ a * l \in Int /\ (a - 1) * l = a * l - l
         /\ a <= b => a * l <= b * l
<1>1. a * l \in Int /\ (a - 1) * l = a * l - l
  OBVIOUS
<1>2. a <= b => (b - a) * l >= 0
  OBVIOUS
<1>3. (b - a) * l = b * l - a * l
  OBVIOUS
<1> QED
  BY <1>1, <1>2, <1>3

LEMMA LogCounting ==
  /\ IsFiniteSet(Writers) /\ Cardinality(Writers) \in Nat /\ Top \in Int
  /\ \A ws \in SUBSET Writers :
       /\ Cardinality(ws) \in Nat /\ Cardinality(ws) <= Cardinality(Writers)
       /\ \A w \in ws : /\ Cardinality(ws \ {w}) = Cardinality(ws) - 1
                        /\ Cardinality(ws) >= 1
       /\ \A w \in Writers \ ws : Cardinality(ws \cup {w}) = Cardinality(ws) + 1
<1>1. IsFiniteSet(Writers) /\ Cardinality(Writers) \in Nat
  BY LinesFit, LogCounts, FS_CardinalityType DEF Log!LogAssumption
<1>2. Top \in Int
  BY <1>1, LongestLine, Bounds, Multiples DEF Top
<1>3. ASSUME NEW ws \in SUBSET Writers
      PROVE  /\ Cardinality(ws) \in Nat /\ Cardinality(ws) <= Cardinality(Writers)
             /\ \A w \in ws : /\ Cardinality(ws \ {w}) = Cardinality(ws) - 1
                              /\ Cardinality(ws) >= 1
             /\ \A w \in Writers \ ws : Cardinality(ws \cup {w}) = Cardinality(ws) + 1
  <2>1. IsFiniteSet(ws) /\ Cardinality(ws) <= Cardinality(Writers) /\ Cardinality(ws) \in Nat
    BY <1>1, FS_Subset, FS_CardinalityType
  <2>2. ASSUME NEW w \in ws PROVE Cardinality(ws \ {w}) = Cardinality(ws) - 1 /\ Cardinality(ws) >= 1
    <3>1. Cardinality(ws \ {w}) = Cardinality(ws) - 1
      BY <2>1, FS_RemoveElement
    <3>2. Cardinality(ws \ {w}) \in Nat
      BY <2>1, FS_RemoveElement, FS_CardinalityType
    <3> QED
      BY <2>1, <3>1, <3>2
  <2>3. ASSUME NEW w \in Writers \ ws PROVE Cardinality(ws \cup {w}) = Cardinality(ws) + 1
    BY <2>1, FS_AddElement
  <2> QED
    BY <2>1, <2>2, <2>3
<1> QED
  BY <1>1, <1>2, <1>3

LEMMA RoomIsEnough ==
  ASSUME NEW ws \in SUBSET Writers, NEW ls, \A w \in ws : ls[w][2] \in LineSizes,
         NEW size \in Nat, Room(size, ws, ls)
  PROVE  size <= Top
<1> DEFINE c == Cardinality(ws)
<1>1. c \in Nat /\ Top \in Int /\ Log!Longest \in Nat /\ c * Log!Longest \in Int /\ c * Log!Longest >= 0
  BY LogCounting, LongestLine, Multiples
<1>2. CASE size + c * Log!Longest <= Top
  BY <1>1, <1>2
<1>3. ASSUME NEW w \in ws, size + ls[w][2] + (c - 1) * Log!Longest <= Top PROVE size <= Top
  <2>1. c - 1 \in Nat /\ ls[w][2] \in Nat
    BY LogCounting, LongestLine
  <2>2. (c - 1) * Log!Longest \in Int /\ (c - 1) * Log!Longest >= 0
    BY <1>1, <2>1
  <2> QED
    BY <1>1, <1>3, <2>1, <2>2
<1> QED
  BY <1>2, <1>3 DEF Room

LEMMA RoomInAnEmptyFile ==
  ASSUME NEW ws \in SUBSET Writers, NEW ls
  PROVE  Room(0, ws, ls)
<1> DEFINE c == Cardinality(ws)  n == Cardinality(Writers)
<1>1. c \in Nat /\ n \in Nat /\ c <= n /\ Log!Longest \in Nat /\ Log!Longest <= MaxBytes /\ MaxBytes \in Nat
  BY LogCounting, LongestLine, Bounds
<1>2. /\ c * Log!Longest <= n * Log!Longest /\ (n - 1) * Log!Longest = n * Log!Longest - Log!Longest
      /\ c * Log!Longest \in Int /\ n * Log!Longest \in Int
  BY <1>1, Multiples
<1>3. 0 + c * Log!Longest <= MaxBytes + (n - 1) * Log!Longest
  BY <1>1, <1>2
<1> QED
  BY <1>3 DEF Room, Top

LEMMA RoomForOneMore ==
  ASSUME NEW ws \in SUBSET Writers, NEW w \in Writers \ ws, NEW ls, NEW size \in Nat,
         ls[w][2] \in LineSizes, size + ls[w][2] <= MaxBytes
  PROVE  Room(size, ws \cup {w}, ls)
<1> DEFINE c == Cardinality(ws \cup {w})  n == Cardinality(Writers)
<1>1. c \in Nat /\ n \in Nat /\ c <= n /\ Log!Longest \in Nat /\ MaxBytes \in Nat
  BY LogCounting, LongestLine, Bounds
<1>2. (c - 1) * Log!Longest <= (n - 1) * Log!Longest /\ (c - 1) * Log!Longest \in Int /\ (n - 1) * Log!Longest \in Int
  BY <1>1, Multiples
<1>3. ls[w][2] \in Nat
  BY LongestLine
<1>4. size + ls[w][2] + (c - 1) * Log!Longest <= MaxBytes + (n - 1) * Log!Longest
  BY <1>1, <1>2, <1>3
<1> QED
  BY <1>4 DEF Room, Top

\* One that was about to append does, or does not.
LEMMA RoomAfterOne ==
  ASSUME NEW ws \in SUBSET Writers, NEW w \in ws, NEW ls, NEW size \in Nat,
         \A v \in ws : ls[v][2] \in LineSizes, Room(size, ws, ls)
  PROVE  Room(size + ls[w][2], ws \ {w}, ls) /\ Room(size, ws \ {w}, ls)
<1> DEFINE c == Cardinality(ws)  L == Log!Longest  d == Cardinality(ws \ {w})
<1>1. c \in Nat /\ d = c - 1 /\ Top \in Int /\ L \in Nat
  BY LogCounting, LongestLine
<1>2. c * L \in Int /\ (c - 1) * L = c * L - L /\ ((c - 1) - 1) * L = (c - 1) * L - L
  <2>1. c \in Int /\ c - 1 \in Int
    BY <1>1
  <2> HIDE DEF c, L
  <2> QED
    BY <1>1, <2>1, Multiples
<1>3. \A v \in ws : ls[v][2] \in Nat /\ ls[v][2] <= L
  BY LongestLine
<1>4. CASE size + c * L <= Top
  <2>1. size + ls[w][2] + (c - 1) * L <= Top /\ size + (c - 1) * L <= Top
    BY <1>1, <1>2, <1>3, <1>4
  <2> QED
    BY <1>1, <2>1 DEF Room
<1>5. CASE size + ls[w][2] + (c - 1) * L <= Top
  <2>1. size + (c - 1) * L <= Top
    BY <1>1, <1>2, <1>3, <1>5
  <2> QED
    BY <1>1, <1>5, <2>1 DEF Room
<1>6. ASSUME NEW v \in ws, v # w, size + ls[v][2] + (c - 1) * L <= Top
      PROVE  Room(size + ls[w][2], ws \ {w}, ls) /\ Room(size, ws \ {w}, ls)
  <2>1. /\ size + ls[w][2] + ls[v][2] + ((c - 1) - 1) * L <= Top
        /\ size + ls[v][2] + ((c - 1) - 1) * L <= Top
    BY <1>1, <1>2, <1>3, <1>6
  <2> QED
    BY <1>1, <1>6, <2>1 DEF Room
<1> QED
  BY <1>4, <1>5, <1>6 DEF Room

LEMMA RoomDependsOn ==
  ASSUME NEW ws, NEW ls, NEW others, NEW size, Room(size, ws, ls),
         \A w \in ws : others[w] = ls[w]
  PROVE  Room(size, ws, others)
  BY DEF Room

-----------------------------------------------------------------------------
(***************************************************************************)
(* A rotation has the files from some name down to the newest before it.   *)
(***************************************************************************)
LogLeft(k) == [i \in 1..k |-> k - i]

LEMMA LeftOfRotation ==
  /\ Log!Rotation = LogLeft(FileCount)
  /\ \A k \in 0..FileCount : /\ Len(LogLeft(k)) = k
                             /\ LogLeft(k) = <<>> <=> k = 0
                             /\ k > 0 => Head(LogLeft(k)) = k - 1 /\ Tail(LogLeft(k)) = LogLeft(k - 1)
<1>1. Log!Rotation = LogLeft(FileCount)
  BY DEF Log!Rotation, LogLeft
<1>2. ASSUME NEW k \in Nat PROVE LogLeft(k) \in Seq(Int) /\ Len(LogLeft(k)) = k
  <2>1. LogLeft(k) \in [1..k -> Int]
    BY DEF LogLeft
  <2> DEFINE l == LogLeft(k)
  <2>2. l \in [1..k -> Int]
    BY <2>1
  <2> HIDE DEF l
  <2>3. l \in Seq(Int)
    BY <2>2
  <2>4. DOMAIN l = 1..Len(l) /\ Len(l) \in Nat
    BY <2>3, LenProperties
  <2>5. Len(l) = k
    BY <2>2, <2>4
  <2> QED
    BY <2>3, <2>5 DEF l
<1>3. ASSUME NEW k \in 0..FileCount
      PROVE  /\ Len(LogLeft(k)) = k
             /\ LogLeft(k) = <<>> <=> k = 0
             /\ k > 0 => Head(LogLeft(k)) = k - 1 /\ Tail(LogLeft(k)) = LogLeft(k - 1)
  <2>1. k \in Nat
    BY Bounds
  <2>2. LogLeft(k) \in Seq(Int) /\ Len(LogLeft(k)) = k
    BY <1>2, <2>1
  <2>3. LogLeft(k) = <<>> <=> k = 0
    BY <2>2, EmptySeq
  <2>4. ASSUME k > 0 PROVE Head(LogLeft(k)) = k - 1 /\ Tail(LogLeft(k)) = LogLeft(k - 1)
    <3>1. k - 1 \in Nat
      BY <2>1, <2>4
    <3>2. LogLeft(k - 1) \in Seq(Int) /\ Len(LogLeft(k - 1)) = k - 1
      BY <1>2, <3>1
    <3> DEFINE l == LogLeft(k)  t == Tail(LogLeft(k))  r == LogLeft(k - 1)
    <3>3. /\ l # <<>> /\ Head(l) = l[1]
          /\ t \in Seq(Int) /\ Len(t) = Len(l) - 1
          /\ \A i \in 1..Len(t) : t[i] = l[i + 1]
      BY <2>2, <2>3, <2>4, HeadTailProperties
    <3>4. l[1] = k - 1
      BY <2>1, <2>4 DEF LogLeft
    <3>5. ASSUME NEW i \in 1..(k - 1) PROVE t[i] = r[i]
      <4>1. i + 1 \in 1..k
        BY <2>1
      <4>2. l[i + 1] = k - (i + 1) /\ r[i] = (k - 1) - i
        BY <4>1 DEF LogLeft
      <4>3. t[i] = l[i + 1]
        BY <3>3, <2>2
      <4>4. k - (i + 1) = (k - 1) - i
        BY <2>1
      <4> HIDE DEF l, t, r
      <4>5. l[i + 1] = (k - 1) - i /\ r[i] = (k - 1) - i
        BY <4>2, <4>4
      <4> QED
        BY <4>3, <4>5
    <3>6. t = r
      <4> HIDE DEF t, r
      <4>1. r \in Seq(Int) /\ Len(r) = k - 1 /\ Len(t) = k - 1 /\ t \in Seq(Int)
        BY <3>2, <3>3, <2>2 DEF r
      <4> QED
        BY <4>1, <3>5, SeqEqual
    <3> QED
      BY <3>3, <3>4, <3>6
  <2> QED
    BY <2>2, <2>3, <2>4
<1> QED
  BY <1>1, <1>3

-----------------------------------------------------------------------------
Busies == {w \in Writers : Log!Busy(w)}
Appenders == {w \in Writers : Log!Busy(w) /\ ~Log!Rotates(w)}

LogShapes ==
  /\ files \in Files
  /\ doing \in [Writers -> {LogLeft(k) : k \in 0..FileCount}]
  /\ line \in [Writers -> Line \cup {<<0, 0>>}]
  /\ log \in Seq(Line)
  /\ lines \in 0..MaxLines /\ Len(log) + Cardinality(Busies) <= lines
  /\ overlapped \in BOOLEAN
  /\ \A w \in Writers : Log!Rotates(w) => Log!Busy(w)

Bounded ==
  /\ \A i \in Log!Newest..Log!Oldest : Log!Size(files[i]) <= Top
  /\ Room(Log!Size(files[0]), Appenders, line)

\* One process rotates at a time, and moves a file to a name that is free.
LogInOrder ==
  ~overlapped =>
    /\ \A w, v \in Writers : Log!Rotates(w) /\ Log!Rotates(v) => w = v
    /\ \A w \in Writers : Log!Rotates(w) /\ Len(doing[w]) # FileCount => files[Len(doing[w])] = <<>>
    /\ NewestOf(Log!OldestFirst(files), log)

LogInv == LogShapes /\ Bounded /\ LogInOrder

LEMMA LogInit == Log!Init => LogInv
<1> SUFFICES ASSUME Log!Init PROVE LogInv
  OBVIOUS
<1> DEFINE none == <<>>
<1>1. /\ files = [i \in Log!Newest..Log!Oldest |-> <<>>] /\ doing = [w \in Writers |-> none]
      /\ line = [w \in Writers |-> <<0, 0>>]
      /\ lines = 0 /\ log = <<>> /\ overlapped = FALSE
  BY DEF Log!Init
<1>2. <<>> \in Seq(Line) /\ Len(<<>>) = 0 /\ none = LogLeft(0) /\ 0 \in 0..FileCount
  BY EmptySeq, LeftOfRotation, Bounds
<1> HIDE DEF none
<1>3. \A w \in Writers : ~Log!Busy(w) /\ ~Log!Rotates(w)
  BY <1>1 DEF Log!Busy, Log!Rotates, none
<1>4. Busies = {} /\ Appenders = {}
  BY <1>3 DEF Busies, Appenders
<1>5. LogShapes
  <2>1. files \in Files
    BY <1>1, <1>2 DEF Files
  <2>2. doing \in [Writers -> {LogLeft(k) : k \in 0..FileCount}]
    BY <1>1, <1>2
  <2>3. line \in [Writers -> Line \cup {<<0, 0>>}]
    BY <1>1
  <2>4. lines \in 0..MaxLines /\ Len(log) + Cardinality(Busies) <= lines
    BY <1>1, <1>2, <1>4, Bounds, FS_EmptySet
  <2>5. log \in Seq(Line)
    BY <1>1, <1>2
  <2> QED
    BY <1>1, <1>3, <2>1, <2>2, <2>3, <2>4, <2>5 DEF LogShapes
<1>6. Bounded
  <2>1. \A i \in Log!Newest..Log!Oldest : files[i] = <<>>
    BY <1>1
  <2>2. Room(0, {}, line)
    BY RoomInAnEmptyFile
  <2>3. 0 <= Top
    BY <2>2, RoomIsEnough
  <2> QED
    BY <1>4, <2>1, <2>2, <2>3, SizeOfNone, Bounds DEF Bounded
<1>7. LogInOrder
  <2>1. SubSeq(<<>>, 1, 0) = <<>> /\ 0 \in 0..0 /\ 0 + 1 = 1
    OBVIOUS
  <2>2. NewestOf(<<>>, <<>>)
    BY <1>2, <2>1 DEF NewestOf
  <2>3. Log!OldestFirst(files) = <<>>
    BY <1>1, OfEmptyFiles
  <2> QED
    BY <1>1, <1>3, <2>2, <2>3 DEF LogInOrder
<1> QED
  BY <1>5, <1>6, <1>7 DEF LogInv

\* What holds of every writer.
LEMMA OfAWriter ==
  ASSUME LogInv, NEW w \in Writers
  PROVE  /\ Log!Rotates(w) <=> Len(doing[w]) # 0
         /\ Len(doing[w]) \in 0..FileCount /\ doing[w] = LogLeft(Len(doing[w]))
         /\ Log!Busy(w) => line[w] \in Line /\ line[w][2] \in LineSizes
         /\ ~Log!Busy(w) => ~Log!Rotates(w)
<1>1. PICK k \in 0..FileCount : doing[w] = LogLeft(k)
  BY DEF LogInv, LogShapes
<1>2. line[w] \in Line \cup {<<0, 0>>}
  BY DEF LogInv, LogShapes
<1>3. Log!Busy(w) => line[w] \in Line /\ line[w][2] \in LineSizes
  BY <1>2, Bounds DEF Log!Busy
<1>4. ~Log!Busy(w) => ~Log!Rotates(w)
  BY DEF LogInv, LogShapes
<1>5. Log!Rotates(w) <=> k # 0
  BY <1>1, LeftOfRotation DEF Log!Rotates
<1> QED
  BY <1>1, <1>3, <1>4, <1>5, LeftOfRotation

LEMMA Others ==
  ASSUME LogInv, NEW w \in Writers, NEW d, NEW l,
         doing' = [doing EXCEPT ![w] = d], line' = [line EXCEPT ![w] = l]
  PROVE  /\ doing'[w] = d /\ line'[w] = l
         /\ \A v \in Writers : v # w => doing'[v] = doing[v] /\ line'[v] = line[v]
  BY DEF LogInv, LogShapes

LEMMA FilesAre ==
  ASSUME LogInv
  PROVE  /\ files \in Files /\ \A i \in Log!Newest..Log!Oldest : files[i] \in Seq(Line)
         /\ \A i \in Log!Newest..Log!Oldest : Log!Size(files[i]) \in Nat /\ Log!Size(files[i]) <= Top
         /\ 0 \in Log!Newest..Log!Oldest /\ Log!Oldest \in Log!Newest..Log!Oldest
         /\ Appenders \in SUBSET Writers /\ Busies \in SUBSET Writers
         /\ \A w \in Appenders : line[w][2] \in LineSizes
         /\ Len(log) \in Nat /\ lines \in Nat
<1>1. \A i \in Log!Newest..Log!Oldest : files[i] \in Seq(Line)
  BY DEF LogInv, LogShapes, Files
<1>2. \A s \in Seq(Line) : Log!Size(s) \in Nat
  <2> TAKE s \in Seq(Line)
  <2>1. PICK size \in LineSizes : TRUE
    BY LinesFit DEF Log!LogAssumption
  <2>2. <<1, size>> \in Line
    BY DEF Line
  <2> QED
    BY <2>2, LogSizeAppended
<1>3. 0 \in Log!Newest..Log!Oldest /\ Log!Oldest \in Log!Newest..Log!Oldest
  BY Bounds
<1>4. \A w \in Appenders : line[w][2] \in LineSizes
  BY OfAWriter DEF Appenders
<1>5. Len(log) \in Nat /\ lines \in Nat
  BY Bounds, LenProperties DEF LogInv, LogShapes
<1> QED
  BY <1>1, <1>2, <1>3, <1>4, <1>5 DEF LogInv, LogShapes, Bounded, Appenders, Busies

-----------------------------------------------------------------------------
LEMMA WriteStep ==
  ASSUME LogInv, NEW w \in Writers, Log!Write(w)
  PROVE  LogInv'
<1>1. /\ ~Log!Busy(w) /\ lines < MaxLines /\ lines' = lines + 1
      /\ UNCHANGED <<files, log>>
  BY DEF Log!Write
<1>2. PICK size \in LineSizes :
       /\ line' = [line EXCEPT ![w] = <<lines + 1, size>>]
       /\ doing' = [doing EXCEPT ![w] =
            IF Log!Size(files[Log!Newest]) + size > MaxBytes THEN Log!Rotation ELSE <<>>]
       /\ overlapped' = (overlapped \/
            (Log!Size(files[Log!Newest]) + size > MaxBytes /\ \E other \in Writers \ {w} : Log!Busy(other)))
  BY DEF Log!Write
<1> DEFINE l == <<lines + 1, size>>
           full == Log!Size(files[Log!Newest]) + size > MaxBytes
           d == IF full THEN Log!Rotation ELSE <<>>
<1>3. l \in Line /\ l[2] = size /\ l # <<0, 0>>
  <2>1. l \in Line
    BY FilesAre DEF Line
  <2>2. l # <<0, 0>>
    BY <2>1, Bounds
  <2> QED
    BY <2>1, <2>2
<1>4. d \in {LogLeft(k) : k \in 0..FileCount} /\ (d = <<>> <=> ~full)
      /\ (full => Len(d) = FileCount)
  <2>1. FileCount \in 0..FileCount /\ 0 \in 0..FileCount /\ FileCount # 0
    BY Bounds
  <2>2. Log!Rotation = LogLeft(FileCount) /\ LogLeft(0) = <<>> /\ LogLeft(FileCount) # <<>> /\ Len(LogLeft(FileCount)) = FileCount
    BY <2>1, LeftOfRotation
  <2> HIDE DEF full
  <2> QED
    BY <2>1, <2>2
<1> HIDE DEF l, d
<1>5. /\ doing'[w] = d /\ line'[w] = l
      /\ \A v \in Writers : v # w => doing'[v] = doing[v] /\ line'[v] = line[v]
  <2>1. line' = [line EXCEPT ![w] = l] /\ doing' = [doing EXCEPT ![w] = d]
    BY <1>2 DEF l, d
  <2> HIDE DEF full
  <2> QED
    BY <2>1, Others
<1>6. /\ Log!Busy(w)' /\ (Log!Rotates(w)' <=> full)
      /\ \A v \in Writers : v # w => (Log!Busy(v)' <=> Log!Busy(v)) /\ (Log!Rotates(v)' <=> Log!Rotates(v))
  BY <1>3, <1>4, <1>5 DEF Log!Busy, Log!Rotates
<1>7. ~Log!Rotates(w)
  BY <1>1, OfAWriter
<1>8. Busies' = Busies \cup {w} /\ w \notin Busies
  BY <1>1, <1>6 DEF Busies
<1>9. Appenders' = IF full THEN Appenders ELSE Appenders \cup {w}
  <2> HIDE DEF full
  <2> QED
    BY <1>1, <1>6 DEF Appenders
<1>10. w \notin Appenders
  BY <1>1 DEF Appenders
<1>11. LogShapes'
  <2>1. doing' \in [Writers -> {LogLeft(k) : k \in 0..FileCount}]
    BY <1>2, <1>4 DEF LogInv, LogShapes, d
  <2>2. line' \in [Writers -> Line \cup {<<0, 0>>}]
    BY <1>2, <1>3 DEF LogInv, LogShapes, l
  <2>3. /\ Cardinality(Busies') = Cardinality(Busies) + 1 /\ Cardinality(Busies) \in Nat
    BY <1>8, LogCounting, FilesAre
  <2>4. lines' \in 0..MaxLines /\ Len(log') + Cardinality(Busies') <= lines'
    BY <1>1, <2>3, FilesAre, Bounds DEF LogInv, LogShapes
  <2>5. overlapped' \in BOOLEAN
    BY <1>2 DEF LogInv, LogShapes
  <2>6. \A v \in Writers : Log!Rotates(v)' => Log!Busy(v)'
    BY <1>6 DEF LogInv, LogShapes
  <2>7. Cardinality(Busies)' = Cardinality(Busies')
    OBVIOUS
  <2> QED
    BY <1>1, <2>1, <2>2, <2>4, <2>5, <2>6, <2>7 DEF LogInv, LogShapes
<1>12. Bounded'
  <2>1. Room(Log!Size(files[0]), Appenders, line)
    BY DEF LogInv, Bounded
  <2>2. CASE full
    <3>1. \A v \in Appenders : line'[v] = line[v]
      BY <1>5, <1>10 DEF Appenders
    <3>2. Room(Log!Size(files[0]), Appenders, line')
      BY <2>1, <3>1, RoomDependsOn
    <3>3. Room(Log!Size(files'[0]), Appenders', line')
      BY <1>1, <1>9, <2>2, <3>2
    <3> QED
      BY <1>1, <3>3 DEF LogInv, Bounded
  <2>3. CASE ~full
    <3>1. Log!Size(files[0]) + size <= MaxBytes /\ Log!Size(files[0]) \in Nat
      BY <2>3, FilesAre, Bounds, LongestLine
    <3>2. line'[w][2] = size
      BY <1>3, <1>5
    <3>3. Room(Log!Size(files[0]), Appenders \cup {w}, line')
      BY <1>10, <3>1, <3>2, FilesAre, RoomForOneMore
    <3>4. Room(Log!Size(files'[0]), Appenders', line')
      BY <1>1, <1>9, <2>3, <3>3
    <3> QED
      BY <1>1, <3>4 DEF LogInv, Bounded
  <2> QED
    BY <2>2, <2>3
<1>13. LogInOrder'
  <2> SUFFICES ASSUME ~overlapped'
               PROVE  /\ \A v, u \in Writers : Log!Rotates(v)' /\ Log!Rotates(u)' => v = u
                      /\ \A v \in Writers : Log!Rotates(v)' /\ Len(doing'[v]) # FileCount =>
                           files'[Len(doing'[v])] = <<>>
                      /\ NewestOf(Log!OldestFirst(files'), log')
    BY DEF LogInOrder
  <2>1. ~overlapped /\ (full => \A v \in Writers : v # w => ~Log!Busy(v))
    BY <1>2
  <2>2. full => \A v \in Writers : v # w => ~Log!Rotates(v)
    BY <2>1, OfAWriter
  <2>3. ASSUME NEW v \in Writers, NEW u \in Writers, Log!Rotates(v)', Log!Rotates(u)' PROVE v = u
    <3>1. CASE full
      BY <2>2, <2>3, <3>1, <1>6
    <3>2. CASE ~full
      BY <2>1, <2>3, <3>2, <1>6 DEF LogInv, LogInOrder
    <3> QED
      BY <3>1, <3>2
  <2>4. ASSUME NEW v \in Writers, Log!Rotates(v)', Len(doing'[v]) # FileCount
        PROVE  files'[Len(doing'[v])] = <<>>
    <3>1. v # w
      BY <1>4, <1>5, <1>6, <2>4
    <3> QED
      BY <1>1, <1>5, <1>6, <2>1, <2>4, <3>1 DEF LogInv, LogInOrder
  <2>5. NewestOf(Log!OldestFirst(files'), log')
    BY <1>1, <2>1 DEF LogInv, LogInOrder
  <2> QED
    BY <2>3, <2>4, <2>5
<1> QED
  BY <1>11, <1>12, <1>13 DEF LogInv

\* The end of an operation, with or without its line.
LEMMA EndStep ==
  ASSUME LogInv, NEW w \in Writers, Log!Busy(w), Log!Ends(w),
         overlapped' = overlapped, lines' = lines
  PROVE  /\ doing' \in [Writers -> {LogLeft(k) : k \in 0..FileCount}]
         /\ line' \in [Writers -> Line \cup {<<0, 0>>}]
         /\ ~Log!Busy(w)' /\ ~Log!Rotates(w)'
         /\ \A v \in Writers : v # w =>
              /\ doing'[v] = doing[v] /\ line'[v] = line[v]
              /\ (Log!Busy(v)' <=> Log!Busy(v)) /\ (Log!Rotates(v)' <=> Log!Rotates(v))
         /\ Busies' = Busies \ {w} /\ w \in Busies
         /\ Appenders' = Appenders \ {w}
         /\ Cardinality(Busies') = Cardinality(Busies) - 1 /\ Cardinality(Busies) \in Nat
<1>1. doing' = [doing EXCEPT ![w] = <<>>] /\ line' = [line EXCEPT ![w] = <<0, 0>>]
  BY DEF Log!Ends
<1>2. /\ doing'[w] = <<>> /\ line'[w] = <<0, 0>>
      /\ \A v \in Writers : v # w => doing'[v] = doing[v] /\ line'[v] = line[v]
  BY <1>1, Others
<1>3. <<>> \in {LogLeft(k) : k \in 0..FileCount}
  <2>1. 0 \in 0..FileCount /\ LogLeft(0) = <<>>
    BY Bounds, LeftOfRotation
  <2> QED
    BY <2>1
<1>4. doing' \in [Writers -> {LogLeft(k) : k \in 0..FileCount}]
  <2> DEFINE none == <<>>
  <2>1. doing' = [doing EXCEPT ![w] = none] /\ none \in {LogLeft(k) : k \in 0..FileCount}
    BY <1>1, <1>3
  <2> HIDE DEF none
  <2> QED
    BY <2>1 DEF LogInv, LogShapes
<1>5. line' \in [Writers -> Line \cup {<<0, 0>>}]
  BY <1>1 DEF LogInv, LogShapes
<1>6. /\ ~Log!Busy(w)' /\ ~Log!Rotates(w)'
      /\ \A v \in Writers : v # w => (Log!Busy(v)' <=> Log!Busy(v)) /\ (Log!Rotates(v)' <=> Log!Rotates(v))
  BY <1>2 DEF Log!Busy, Log!Rotates
<1>7. Busies' = Busies \ {w} /\ w \in Busies /\ Appenders' = Appenders \ {w}
  BY <1>6 DEF Busies, Appenders
<1>8. Cardinality(Busies') = Cardinality(Busies) - 1 /\ Cardinality(Busies) \in Nat
  BY <1>7, LogCounting, FilesAre
<1> QED
  BY <1>2, <1>4, <1>5, <1>6, <1>7, <1>8

LEMMA AppendStep ==
  ASSUME LogInv, NEW w \in Writers, Log!AppendLine(w)
  PROVE  LogInv'
<1> DEFINE l == line[w]
<1>1. /\ Log!Busy(w) /\ ~Log!Rotates(w) /\ Log!Ends(w)
      /\ files' = [files EXCEPT ![Log!Newest] = Append(@, l)]
      /\ log' = Append(log, l)
      /\ lines' = lines /\ overlapped' = overlapped
  BY DEF Log!AppendLine
<1>2. l \in Line /\ l[2] \in LineSizes /\ w \in Appenders
  BY <1>1, OfAWriter DEF Appenders
<1> HIDE DEF l
<1>3. /\ files'[0] = Append(files[0], l) /\ Append(files[0], l) \in Seq(Line)
      /\ \A i \in 1..Log!Oldest : files'[i] = files[i]
      /\ files' \in Files
  <2>1. files \in Files /\ files[0] \in Seq(Line) /\ 0 \in Log!Newest..Log!Oldest /\ Log!Newest = 0
        /\ \A i \in 1..Log!Oldest : i \in Log!Newest..Log!Oldest /\ i # 0
    BY FilesAre, Bounds
  <2>2. Append(files[0], l) \in Seq(Line)
    BY <1>2, <2>1, AppendProperties
  <2> QED
    BY <1>1, <2>1, <2>2 DEF Files
<1>4. /\ log \in Seq(Line) /\ log' \in Seq(Line) /\ Len(log') = Len(log) + 1
  BY <1>1, <1>2, AppendProperties DEF LogInv, LogShapes
<1>5. LogShapes'
  <2>1. Len(log') + Cardinality(Busies') <= lines'
    BY <1>1, <1>4, EndStep, FilesAre DEF LogInv, LogShapes
  <2>2. Cardinality(Busies)' = Cardinality(Busies')
    OBVIOUS
  <2>3. \A v \in Writers : Log!Rotates(v)' => Log!Busy(v)'
    BY <1>1, EndStep DEF LogInv, LogShapes
  <2> QED
    BY <1>1, <1>3, <1>4, <2>1, <2>2, <2>3, EndStep DEF LogInv, LogShapes
<1>6. Bounded'
  <2>1. Log!Size(files'[0]) = Log!Size(files[0]) + l[2] /\ Log!Size(files[0]) \in Nat
    BY <1>2, <1>3, FilesAre, LogSizeAppended
  <2>2. Room(Log!Size(files[0]) + l[2], Appenders \ {w}, line)
    BY <1>2, <2>1, FilesAre, RoomAfterOne DEF LogInv, Bounded, l
  <2>3. \A v \in Appenders \ {w} : line'[v] = line[v]
    BY <1>1, EndStep DEF Appenders
  <2>4. Room(Log!Size(files'[0]), Appenders', line')
    BY <1>1, <2>1, <2>2, <2>3, EndStep, RoomDependsOn, ZenonT(30)
  <2>5. Log!Size(files'[0]) <= Top
    <3>1. l[2] \in Nat
      BY <1>2, LongestLine
    <3>2. Log!Size(files[0]) + l[2] \in Nat /\ (Appenders \ {w}) \in SUBSET Writers
      BY <2>1, <3>1, FilesAre
    <3> QED
      BY <2>1, <2>2, <3>2, FilesAre, RoomIsEnough
  <2>6. \A i \in Log!Newest..Log!Oldest : Log!Size(files'[i]) <= Top
    <3>1. \A i \in Log!Newest..Log!Oldest : i = 0 \/ i \in 1..Log!Oldest
      BY Bounds
    <3> QED
      BY <1>3, <2>5, <3>1, FilesAre
  <2> QED
    BY <2>4, <2>6 DEF Bounded
<1>7. LogInOrder'
  <2> SUFFICES ASSUME ~overlapped
               PROVE  /\ \A v, u \in Writers : Log!Rotates(v)' /\ Log!Rotates(u)' => v = u
                      /\ \A v \in Writers : Log!Rotates(v)' /\ Len(doing'[v]) # FileCount =>
                           files'[Len(doing'[v])] = <<>>
                      /\ NewestOf(Log!OldestFirst(files'), log')
    BY <1>1 DEF LogInOrder
  <2>1. \A v \in Writers : Log!Rotates(v)' => v # w /\ Log!Rotates(v) /\ doing'[v] = doing[v]
    BY <1>1, EndStep
  <2>2. ASSUME NEW v \in Writers, Log!Rotates(v)', Len(doing'[v]) # FileCount
        PROVE  files'[Len(doing'[v])] = <<>>
    <3>1. Log!Rotates(v) /\ doing'[v] = doing[v]
      BY <2>1, <2>2
    <3>2. Len(doing[v]) \in 1..Log!Oldest
      BY <3>1, <2>2, OfAWriter, Bounds
    <3> QED
      BY <1>3, <2>2, <3>1, <3>2 DEF LogInv, LogInOrder
  <2>3. NewestOf(Log!OldestFirst(files'), log')
    <3>1. Log!OldestFirst(files') = Append(Log!OldestFirst(files), l) /\ Log!OldestFirst(files) \in Seq(Line)
      BY <1>2, <1>3, FilesAre, AppendedToTheNewest
    <3>2. NewestOf(Log!OldestFirst(files), log)
      BY DEF LogInv, LogInOrder
    <3>3. NewestOf(Append(Log!OldestFirst(files), l), Append(log, l))
      BY <1>2, <1>4, <3>1, <3>2, NewestAppended
    <3> QED
      BY <1>1, <3>1, <3>3
  <2> QED
    BY <2>1, <2>2, <2>3 DEF LogInv, LogInOrder
<1> QED
  BY <1>5, <1>6, <1>7 DEF LogInv

LEMMA LogFailStep ==
  ASSUME LogInv, NEW w \in Writers, Log!Fails(w)
  PROVE  LogInv'
<1>1. Log!Busy(w) /\ Log!Ends(w) /\ UNCHANGED <<files, lines, log, overlapped>>
  BY DEF Log!Fails
<1>2. LogShapes'
  <2>1. Len(log') + Cardinality(Busies') <= lines'
    BY <1>1, EndStep, FilesAre DEF LogInv, LogShapes
  <2>2. Cardinality(Busies)' = Cardinality(Busies')
    OBVIOUS
  <2>3. \A v \in Writers : Log!Rotates(v)' => Log!Busy(v)'
    BY <1>1, EndStep DEF LogInv, LogShapes
  <2> QED
    BY <1>1, <2>1, <2>2, <2>3, EndStep DEF LogInv, LogShapes
<1>3. Bounded'
  <2>1. Room(Log!Size(files[0]), Appenders, line) /\ Log!Size(files[0]) \in Nat
    BY FilesAre DEF LogInv, Bounded
  <2>2. Room(Log!Size(files[0]), Appenders \ {w}, line)
    <3>1. CASE w \in Appenders
      BY <2>1, <3>1, FilesAre, RoomAfterOne
    <3>2. CASE w \notin Appenders
      <4>1. Appenders \ {w} = Appenders
        BY <3>2
      <4> QED
        BY <2>1, <4>1
    <3> QED
      BY <3>1, <3>2
  <2>3. \A v \in Appenders \ {w} : line'[v] = line[v]
    BY <1>1, EndStep DEF Appenders
  <2>4. Room(Log!Size(files'[0]), Appenders', line')
    BY <1>1, <2>2, <2>3, EndStep, RoomDependsOn
  <2> QED
    BY <1>1, <2>4 DEF LogInv, Bounded
<1>4. LogInOrder'
  <2>1. \A v \in Writers : Log!Rotates(v)' => v # w /\ Log!Rotates(v) /\ doing'[v] = doing[v]
    BY <1>1, EndStep
  <2> QED
    BY <1>1, <2>1 DEF LogInv, LogInOrder
<1> QED
  BY <1>2, <1>3, <1>4 DEF LogInv

LEMMA RotateStep ==
  ASSUME LogInv, NEW w \in Writers, Log!RotateOne(w)
  PROVE  LogInv'
<1> DEFINE k == Len(doing[w])
           i == k - 1
           d == Tail(doing[w])
<1>1. /\ Log!Rotates(w) /\ doing' = [doing EXCEPT ![w] = d]
      /\ overlapped' = (overlapped \/ \E other \in Writers \ {w} : Log!Busy(other))
      /\ UNCHANGED <<line, lines, log>>
      /\ files' = LET j == Head(doing[w]) IN
                  IF j = Log!Oldest THEN [files EXCEPT ![j] = <<>>]
                  ELSE IF files[j] = <<>> THEN files
                  ELSE [files EXCEPT ![j + 1] = files[j], ![j] = <<>>]
  BY DEF Log!RotateOne
<1>2. /\ k \in 1..FileCount /\ Head(doing[w]) = i /\ d = LogLeft(i) /\ Log!Busy(w)
      /\ i \in Log!Newest..Log!Oldest /\ i \in 0..FileCount
  <2>1. k \in 0..FileCount /\ k # 0 /\ doing[w] = LogLeft(k)
    BY <1>1, OfAWriter
  <2>2. k \in 1..FileCount /\ k > 0
    BY <2>1, Bounds
  <2>3. Head(doing[w]) = i /\ d = LogLeft(i)
    <3> DEFINE n == k
    <3>1. n \in 0..FileCount /\ n > 0 /\ doing[w] = LogLeft(n)
      BY <2>1, <2>2
    <3> HIDE DEF n
    <3>2. Head(doing[w]) = n - 1 /\ Tail(doing[w]) = LogLeft(n - 1)
      BY <3>1, LeftOfRotation
    <3> QED
      BY <3>2 DEF n
  <2>4. i \in Log!Newest..Log!Oldest /\ i \in 0..FileCount
    BY <2>2, Bounds
  <2> QED
    BY <1>1, <2>2, <2>3, <2>4, OfAWriter
<1>3. Len(d) = i /\ (d = <<>> <=> i = 0)
  BY <1>2, LeftOfRotation
<1> HIDE DEF k, d
<1>4. i = k - 1 /\ k = i + 1
  BY <1>2
<1> HIDE DEF i
<1>5. /\ doing'[w] = d
      /\ \A v \in Writers : v # w => doing'[v] = doing[v]
      /\ doing' \in [Writers -> {LogLeft(n) : n \in 0..FileCount}]
  BY <1>1, <1>2 DEF LogInv, LogShapes
<1>6. /\ (Log!Rotates(w)' <=> i # 0) /\ Log!Busy(w)'
      /\ \A v \in Writers : (Log!Busy(v)' <=> Log!Busy(v)) /\ (v # w => (Log!Rotates(v)' <=> Log!Rotates(v)))
  BY <1>1, <1>2, <1>3, <1>5 DEF Log!Busy, Log!Rotates
<1>7. Busies' = Busies /\ Appenders' = IF i = 0 THEN Appenders \cup {w} ELSE Appenders
  BY <1>1, <1>2, <1>6 DEF Busies, Appenders
\* One file is gone or has another name.
<1>8. \/ i = Log!Oldest /\ files' = [files EXCEPT ![i] = <<>>]
      \/ i # Log!Oldest /\ files[i] = <<>> /\ files' = files
      \/ i # Log!Oldest /\ files' = [files EXCEPT ![i + 1] = files[i], ![i] = <<>>]
  <2>1. files' = IF i = Log!Oldest THEN [files EXCEPT ![i] = <<>>]
                 ELSE IF files[i] = <<>> THEN files
                 ELSE [files EXCEPT ![i + 1] = files[i], ![i] = <<>>]
    BY <1>1, <1>2
  <2> QED
    BY <2>1, Zenon
<1>9. i # Log!Oldest => i + 1 \in Log!Newest..Log!Oldest /\ i + 1 # i
  BY <1>2, Bounds
<1>10. <<>> \in Seq(Line)
  BY EmptySeq
<1>11. /\ files' \in Files /\ files'[i] = <<>>
       /\ \A j \in Log!Newest..Log!Oldest : j # i /\ j # i + 1 => files'[j] = files[j]
       /\ i # Log!Oldest => files'[i + 1] \in {files[i + 1], files[i]}
  <2> DEFINE none == <<>>
  <2>1. CASE i = Log!Oldest /\ files' = [files EXCEPT ![i] = none]
    <3> HIDE DEF none
    <3>1. none \in Seq(Line)
      BY <1>10 DEF none
    <3>2. files' \in Files /\ files'[i] = none /\ \A j \in Log!Newest..Log!Oldest : j # i => files'[j] = files[j]
      BY <1>2, <2>1, <3>1, FilesAre DEF Files
    <3> QED
      BY <2>1, <3>2 DEF none
  <2>2. CASE i # Log!Oldest /\ files[i] = none /\ files' = files
    BY <2>2, FilesAre
  <2>3. CASE i # Log!Oldest /\ files' = [files EXCEPT ![i + 1] = files[i], ![i] = none]
    <3> DEFINE gs == [files EXCEPT ![i + 1] = files[i]]
    <3>1. none \in Seq(Line) /\ i + 1 # i /\ i + 1 \in Log!Newest..Log!Oldest
      BY <1>9, <1>10, <2>3
    <3> HIDE DEF none
    <3>2. files \in [Log!Newest..Log!Oldest -> Seq(Line)] /\ i \in Log!Newest..Log!Oldest
      BY <1>2, FilesAre DEF Files
    <3>3. /\ gs \in [Log!Newest..Log!Oldest -> Seq(Line)] /\ gs[i + 1] = files[i]
          /\ \A j \in Log!Newest..Log!Oldest : j # i + 1 => gs[j] = files[j]
      BY <3>1, <3>2
    <3>4. files' = [gs EXCEPT ![i] = none]
      BY <2>3
    <3> HIDE DEF gs
    <3>5. /\ files' \in [Log!Newest..Log!Oldest -> Seq(Line)] /\ files'[i] = none
          /\ \A j \in Log!Newest..Log!Oldest : j # i => files'[j] = gs[j]
      BY <3>1, <3>2, <3>3, <3>4
    <3> QED
      BY <3>1, <3>3, <3>5 DEF Files, none
  <2> QED
    BY <1>8, <2>1, <2>2, <2>3
<1>12. LogShapes'
  <2>1. Cardinality(Busies)' = Cardinality(Busies)
    BY <1>7
  <2>2. \A v \in Writers : Log!Rotates(v)' => Log!Busy(v)'
    BY <1>6 DEF LogInv, LogShapes
  <2>3. overlapped' \in BOOLEAN
    BY <1>1 DEF LogInv, LogShapes
  <2> QED
    BY <1>1, <1>5, <1>11, <2>1, <2>2, <2>3 DEF LogInv, LogShapes
<1>13. Bounded'
  <2>1. 0 <= Top
    <3>1. Room(0, {}, line)
      BY RoomInAnEmptyFile
    <3> QED
      BY <3>1, RoomIsEnough
  <2>2. ASSUME NEW j \in Log!Newest..Log!Oldest PROVE Log!Size(files'[j]) <= Top
    <3>1. CASE j = i
      BY <1>11, <2>1, <3>1, SizeOfNone
    <3>2. CASE j # i /\ j # i + 1
      BY <1>11, <3>2, FilesAre
    <3>3. CASE j = i + 1
      <4>1. i # Log!Oldest
        BY <3>3, Bounds
      <4> QED
        BY <1>2, <1>9, <1>11, <3>3, <4>1, FilesAre
    <3> QED
      BY <3>1, <3>2, <3>3
  <2>3. CASE i = 0
    <3>1. Log!Size(files'[0]) = 0 /\ (Appenders \cup {w}) \in SUBSET Writers
      BY <1>11, <2>3, SizeOfNone, FilesAre
    <3>2. Room(Log!Size(files'[0]), Appenders', line')
      BY <1>7, <2>3, <3>1, RoomInAnEmptyFile
    <3> QED
      BY <2>2, <3>2 DEF Bounded
  <2>4. CASE i # 0
    <3>1. 0 # i /\ 0 # i + 1 /\ 0 \in Log!Newest..Log!Oldest
      BY <1>2, <2>4, Bounds
    <3>2. files'[0] = files[0]
      BY <1>11, <3>1
    <3> QED
      BY <1>1, <1>7, <2>2, <2>4, <3>2 DEF LogInv, Bounded
  <2> QED
    BY <2>3, <2>4
<1>14. LogInOrder'
  <2> SUFFICES ASSUME ~overlapped'
               PROVE  /\ \A v, u \in Writers : Log!Rotates(v)' /\ Log!Rotates(u)' => v = u
                      /\ \A v \in Writers : Log!Rotates(v)' /\ Len(doing'[v]) # FileCount =>
                           files'[Len(doing'[v])] = <<>>
                      /\ NewestOf(Log!OldestFirst(files'), log')
    BY DEF LogInOrder
  <2>1. ~overlapped /\ \A v \in Writers : v # w => ~Log!Busy(v) /\ ~Log!Rotates(v)
    BY <1>1, OfAWriter
  <2>2. \A v \in Writers : Log!Rotates(v)' => v = w
    BY <1>6, <2>1
  <2>3. files'[Len(doing'[w])] = <<>>
    BY <1>3, <1>5, <1>11
  <2>4. log \in Seq(Line) /\ NewestOf(Log!OldestFirst(files), log)
    BY <2>1 DEF LogInv, LogShapes, LogInOrder
  <2>5. CASE i = Log!Oldest
    <3>1. files'[Log!Oldest] = <<>> /\ \A j \in Log!Newest..Log!Oldest : j # Log!Oldest => files'[j] = files[j]
      <4>1. \A j \in Log!Newest..Log!Oldest : j # i + 1
        BY <2>5, Bounds
      <4> QED
        BY <1>11, <2>5, <4>1
    <3>2. /\ Log!OldestFirst(files) = files[Log!Oldest] \o Log!OldestFirst(files')
          /\ Log!OldestFirst(files') \in Seq(Line) /\ files[Log!Oldest] \in Seq(Line)
      BY <1>11, <3>1, FilesAre, WithoutTheOldest
    <3>3. NewestOf(Log!OldestFirst(files'), log)
      BY <2>4, <3>2, NewestOfTheRest
    <3> QED
      BY <1>1, <2>2, <2>3, <3>3
  <2>6. CASE i # Log!Oldest
    <3>1. files[i + 1] = <<>>
      <4>1. Len(doing[w]) = i + 1 /\ i + 1 # FileCount
        BY <1>4, <2>6, Bounds DEF k
      <4> QED
        BY <1>1, <2>1, <4>1 DEF LogInv, LogInOrder
    <3>2. files' = files \/ files'[i + 1] = files[i]
      <4> DEFINE none == <<>>
      <4>1. files' = [files EXCEPT ![i + 1] = files[i], ![i] = none] => files'[i + 1] = files[i]
        <5> HIDE DEF none
        <5>1. files \in [Log!Newest..Log!Oldest -> Seq(Line)] /\ i + 1 \in Log!Newest..Log!Oldest /\ i + 1 # i
          BY <1>9, <2>6, FilesAre DEF Files
        <5> QED
          BY <5>1
      <4> QED
        BY <1>8, <2>6, <4>1
    <3>3. Log!OldestFirst(files') = Log!OldestFirst(files)
      <4>1. CASE files' = files
        BY <4>1
      <4>2. CASE files'[i + 1] = files[i]
        BY <1>2, <1>11, <2>6, <3>1, <4>2, FilesAre, MovedToTheFreeName
      <4> QED
        BY <3>2, <4>1, <4>2
    <3> QED
      BY <1>1, <2>2, <2>3, <2>4, <3>3
  <2> QED
    BY <2>5, <2>6
<1> QED
  BY <1>12, <1>13, <1>14 DEF LogInv

LEMMA LogStep == LogInv /\ [Log!Next]_(Log!vars) => LogInv'
<1> SUFFICES ASSUME LogInv, [Log!Next]_(Log!vars) PROVE LogInv'
  OBVIOUS
<1>1. CASE UNCHANGED Log!vars
  <2>1. UNCHANGED <<files, doing, line, lines, log, overlapped>>
    BY <1>1 DEF Log!vars
  <2>2. Busies' = Busies /\ Appenders' = Appenders
    BY <2>1 DEF Busies, Appenders, Log!Busy, Log!Rotates
  <2>3. Cardinality(Busies)' = Cardinality(Busies)
    BY <2>2
  <2>4. LogShapes'
    BY <2>1, <2>3 DEF LogInv, LogShapes, Log!Busy, Log!Rotates
  <2>5. Bounded'
    BY <2>1, <2>2 DEF LogInv, Bounded
  <2>6. LogInOrder'
    BY <2>1 DEF LogInv, LogInOrder, Log!Rotates
  <2> QED
    BY <2>4, <2>5, <2>6 DEF LogInv
<1> QED
  BY <1>1, WriteStep, RotateStep, AppendStep, LogFailStep DEF Log!Next

LEMMA LogIsInv == LogInv => Log!LogKeepsTheNewest
<1> SUFFICES ASSUME LogInv PROVE Log!LogKeepsTheNewest
  OBVIOUS
<1>1. DOMAIN files = Log!Newest..Log!Oldest
  BY FilesAre DEF Files
<1>2. Log!TypeOK
  <2>1. Cardinality(Busies) \in Nat
    BY LogCounting, FilesAre
  <2> QED
    BY <1>1, <2>1, FilesAre DEF LogInv, LogShapes, Log!TypeOK
<1>3. \A i \in DOMAIN files : Log!Size(files[i]) <= MaxBytes + (Cardinality(Writers) - 1) * Log!Longest
  BY <1>1, FilesAre, LogCounts DEF Top
<1>4. ~overlapped => \E n \in 0..Len(log) : Log!OldestFirst(files) = SubSeq(log, n + 1, Len(log))
  BY DEF LogInv, LogInOrder, NewestOf
<1> QED
  BY <1>2, <1>3, <1>4, LogCounts DEF Log!LogKeepsTheNewest

LEMMA LogKeepsIts == Log!Spec => []Log!LogKeepsTheNewest
<1>1. Log!Init => LogInv
  BY LogInit
<1>2. LogInv /\ [Log!Next]_(Log!vars) => LogInv'
  BY LogStep
<1>3. LogInv => Log!LogKeepsTheNewest
  BY LogIsInv
<1> QED
  BY <1>1, <1>2, <1>3, PTL DEF Log!Spec

\* The files hold the newest of what was logged, in order, and stay within their bound.
THEOREM LogIsKept == ServiceSpec => []LogKeepsTheNewest
<1>1. Log!LogKeepsTheNewest => LogKeepsTheNewest
  BY DEF LogKeepsTheNewest
<1> QED
  BY <1>1, ServiceImplementsItsParts, LogKeepsIts, PTL

-----------------------------------------------------------------------------
(***************************************************************************)
(* The builds.  An operation is so far with each of its files, and those   *)
(* before it are through; while nothing has failed, the parts of a build   *)
(* stay together.                                                          *)
(***************************************************************************)
LEMMA InstallKeeps == \A s, I : Install!Keep(s, I) = Keep(s, I)
BY Zenon DEF Install!Keep, Keep

Members(s) == {s[i] : i \in 1..Len(s)}
Ahead == Members(toMove)
Through == Members(done)
\* The n-th rename of f comes next.
Under(f, n) == toMove # <<>> /\ f = Head(toMove) /\ turn = n
EachOnce(s) == \A i, j \in 1..Len(s) : s[i] = s[j] => i = j

\* The contents are builds there have been, and the lists name each file once.
InstShapes ==
  /\ builds_ \in 0..MaxBuilds
  /\ {current_, previous_, next_, aside_, before} \subseteq [Install!Files -> 0..builds_]
  /\ layoutOf \in [Install!Builds -> Layouts \cup {"single"}]
  /\ doing_ \in {"idle", "promote", "rollback", "undo"}
  /\ answer \in {"none", "ok", "failed"}
  /\ toMove \in Seq(Install!Files) /\ done \in Seq(Install!Files) /\ turn \in 1..3
  /\ EachOnce(toMove) /\ EachOnce(done) /\ Ahead \cap Through = {}
  /\ toMove = <<>> => turn = 1
  /\ doing_ = "idle" => toMove = <<>>
  /\ doing_ = "promote" => builds_ # 0
  /\ faults_ \in Nat /\ crashes_ \in Nat /\ spoilt \in BOOLEAN
  /\ crashes_ # 0 => spoilt

\* What has not begun to move, and what is through.
Untouched(f) == current_[f] = before[f] /\ aside_[f] = Install!None
Exchanged(f) == previous_[f] = before[f] /\ current_[f] # Install!None /\ aside_[f] = Install!None

\* How far each operation has come with f: before its renames, between any two of
\* them, and after them.
PromotesAt(f) ==
    /\ f \in Through => Exchanged(f) /\ current_[f] = builds_
    /\ Under(f, 2) => Untouched(f) /\ previous_[f] = Install!None
    /\ Under(f, 3) => current_[f] = Install!None /\ previous_[f] = before[f] /\ aside_[f] = Install!None
    /\ f \notin Through /\ ~Under(f, 2) /\ ~Under(f, 3) => Untouched(f)
    /\ f \in Ahead => next_[f] = builds_

RollsBackAt(f) ==
    /\ f \in Through => Exchanged(f)
    /\ Under(f, 2) => current_[f] = Install!None /\ previous_[f] # Install!None /\ aside_[f] = before[f]
    /\ Under(f, 3) => current_[f] # Install!None /\ previous_[f] = Install!None /\ aside_[f] = before[f]
    /\ f \notin Through /\ ~Under(f, 2) /\ ~Under(f, 3) => Untouched(f)
    /\ f \in Ahead /\ ~Under(f, 2) /\ ~Under(f, 3) => previous_[f] # Install!None

UndoesAt(f) ==
    /\ Under(f, 2) => current_[f] = Install!None /\ previous_[f] = before[f] /\ aside_[f] # Install!None /\ before[f] # Install!None
    /\ Under(f, 3) => current_[f] = before[f] /\ previous_[f] = Install!None /\ aside_[f] # Install!None /\ before[f] # Install!None
    /\ f \in Ahead /\ ~Under(f, 2) /\ ~Under(f, 3) => Exchanged(f)
    /\ f \notin Ahead => Untouched(f) \/ (Exchanged(f) /\ (spoilt \/ before[f] = Install!None))

\* What is left of f when nothing is under way.
RestsAt(f) ==
    /\ before[f] \in {current_[f], previous_[f], aside_[f], Install!None}
    /\ crashes_ = 0 /\ before[f] # Install!None => current_[f] # Install!None

EachFile ==
  /\ doing_ = "promote" => \A f \in Install!Files : PromotesAt(f)
  /\ doing_ = "rollback" => \A f \in Install!Files : RollsBackAt(f)
  /\ doing_ = "undo" => \A f \in Install!Files : UndoesAt(f)
  /\ doing_ = "idle" => \A f \in Install!Files : RestsAt(f)

\* As long as nothing has failed and all builds have one layout, the parts that every
\* build has are of one build, in place, among the former ones, and in what is to come.
Alike == faults_ = 0 /\ ~spoilt /\ \A a, b \in 1..builds_ : layoutOf[a] = layoutOf[b]
Parts == IF builds_ = 0 THEN {"layout"}
         ELSE {"layout", "cli"} \cup (IF layoutOf[1] = "split" THEN {"daemon"} ELSE {})
\* What a rollback puts in place of f.
Former(f) == IF f \in Through \/ Under(f, 3) THEN current_[f] ELSE previous_[f]
Uniform(v) == \A f \in Parts : v[f] = v["layout"]

OfOneBuild ==
  Alike =>
    /\ doing_ # "undo"
    /\ doing_ = "idle" => Uniform(current_) /\ Uniform(previous_)
    /\ doing_ # "idle" => Uniform(before) /\ Parts \subseteq Ahead \cup Through
    /\ doing_ = "rollback" => \A f \in Parts : Former(f) = Former("layout")

\* The inductive invariant.
InstIInv == InstShapes /\ EachFile /\ OfOneBuild

-----------------------------------------------------------------------------

\* Every operation has three renames for each file.
LEMMA RenamesAre ==
  /\ Len(Install!Renames) = 3
  /\ doing_ = "promote" => Install!Renames[1] = "drop" /\ Install!Renames[2] = "keep" /\ Install!Renames[3] = "place"
  /\ doing_ # "promote" => Install!Renames[1] = "leave" /\ Install!Renames[2] = "back" /\ Install!Renames[3] = "store"
BY DEF Install!Renames, Install!Place, Install!Swap

\* A list that names each file once: its head, its tail, one more file, and its reverse.
LEMMA ListOfFiles ==
  ASSUME NEW q \in Seq(Install!Files), EachOnce(q)
  PROVE  /\ Members(q) \subseteq Install!Files /\ (q = <<>> <=> Members(q) = {})
         /\ q # <<>> => /\ Head(q) \in Members(q) /\ Tail(q) \in Seq(Install!Files)
                        /\ EachOnce(Tail(q)) /\ Members(Tail(q)) = Members(q) \ {Head(q)}
         /\ \A x \in Install!Files : x \notin Members(q) =>
              /\ Append(q, x) \in Seq(Install!Files) /\ EachOnce(Append(q, x))
              /\ Members(Append(q, x)) = Members(q) \cup {x}
         /\ Install!Reverse(q) \in Seq(Install!Files) /\ EachOnce(Install!Reverse(q)) /\ Members(Install!Reverse(q)) = Members(q)
<1> DEFINE M == Members(q)
<1>1. Len(q) \in Nat /\ \A i \in 1..Len(q) : q[i] \in Install!Files
  BY LenProperties, ElementOfSeq
<1>2. q = [i \in 1..Len(q) |-> q[i]] /\ \A i \in 1..Len(q) : q[i] \in M
  BY <1>1 DEF Members
<1>3. Lists(q, M)
  <2>1. q \in Seq(M)
    BY <1>1, <1>2, IsASeq
  <2> QED
    BY <2>1 DEF Lists, Members, EachOnce
<1>4. \A r, S : Lists(r, S) => Members(r) = S /\ EachOnce(r)
  <2> SUFFICES ASSUME NEW r, NEW S, Lists(r, S) PROVE Members(r) = S /\ EachOnce(r)
    OBVIOUS
  <2>1. \A i \in 1..Len(r) : r[i] \in S
    BY ElementOfSeq DEF Lists
  <2> QED
    BY <2>1 DEF Lists, Members, EachOnce
<1>5. M \subseteq Install!Files
  BY <1>1 DEF Members
<1>6. q = <<>> <=> M = {}
  <2>1. CASE q = <<>>
    BY <2>1 DEF Members
  <2>2. CASE q # <<>>
    <3>1. 1 \in 1..Len(q)
      BY <2>2, <1>1, EmptySeq
    <3> QED
      BY <2>2, <3>1, <1>2
  <2> QED
    BY <2>1, <2>2
<1>7. q # <<>> => /\ Head(q) \in M /\ Tail(q) \in Seq(Install!Files)
                  /\ EachOnce(Tail(q)) /\ Members(Tail(q)) = M \ {Head(q)}
  <2> SUFFICES ASSUME q # <<>>
               PROVE /\ Head(q) \in M /\ Tail(q) \in Seq(Install!Files)
                     /\ EachOnce(Tail(q)) /\ Members(Tail(q)) = M \ {Head(q)}
    OBVIOUS
  <2> HIDE DEF M
  <2>1. Head(q) \in M /\ Lists(Tail(q), M \ {Head(q)})
    BY <1>3, ListsTail
  <2>2. Tail(q) \in Seq(Install!Files)
    BY HeadTailProperties
  <2> QED
    BY <2>1, <2>2, <1>4
<1>8. \A x \in Install!Files : x \notin M =>
        /\ Append(q, x) \in Seq(Install!Files) /\ EachOnce(Append(q, x))
        /\ Members(Append(q, x)) = M \cup {x}
  <2> SUFFICES ASSUME NEW x \in Install!Files, x \notin M
               PROVE /\ Append(q, x) \in Seq(Install!Files) /\ EachOnce(Append(q, x))
                     /\ Members(Append(q, x)) = M \cup {x}
    OBVIOUS
  <2> HIDE DEF M
  <2>1. Lists(Append(q, x), M \cup {x})
    BY <1>3, ListsAppend
  <2>2. Append(q, x) \in Seq(Install!Files)
    BY AppendProperties
  <2> QED
    BY <2>1, <2>2, <1>4
<1>9. Install!Reverse(q) \in Seq(Install!Files) /\ EachOnce(Install!Reverse(q)) /\ Members(Install!Reverse(q)) = M
  <2> DEFINE r == Install!Reverse(q)  L == Len(q)
  <2>1. r = [i \in 1..L |-> q[(L - i) + 1]]
    BY DEF Install!Reverse
  <2>2. \A i \in 1..L : (L - i) + 1 \in 1..L
    BY <1>1
  <2>3. r \in Seq(Install!Files) /\ Len(r) = L /\ \A i \in 1..L : r[i] = q[(L - i) + 1]
    <3>1. r \in [1..L -> Install!Files]
      BY <2>1, <2>2, <1>1
    <3> QED
      BY <3>1, <2>1, <1>1, LenProperties
  <2>4. EachOnce(r)
    <3> SUFFICES ASSUME NEW i \in 1..L, NEW j \in 1..L, r[i] = r[j] PROVE i = j
      BY <2>3 DEF EachOnce
    <3>1. (L - i) + 1 = (L - j) + 1
      BY <2>2, <2>3 DEF EachOnce
    <3> QED
      BY <3>1, <1>1
  <2>5. \A x : x \in Members(r) <=> x \in M
    <3>1. ASSUME NEW x \in Members(r) PROVE x \in M
      BY <3>1, <2>2, <2>3 DEF Members
    <3>2. ASSUME NEW x \in M PROVE x \in Members(r)
      <4>1. PICK i \in 1..L : q[i] = x
        BY <3>2 DEF Members
      <4>2. (L - i) + 1 \in 1..L /\ r[(L - i) + 1] = q[i]
        <5>1. (L - i) + 1 \in 1..L /\ (L - ((L - i) + 1)) + 1 = i
          BY <1>1
        <5> HIDE DEF r
        <5> QED
          BY <5>1, <2>3
      <4> QED
        BY <4>1, <4>2, <2>3 DEF Members
    <3> QED
      BY <3>1, <3>2
  <2> QED
    BY <2>3, <2>4, <2>5
<1> QED
  BY <1>5, <1>6, <1>7, <1>8, <1>9

\* One more file, on its own.
LEMMA FileAppended ==
  ASSUME NEW q \in Seq(Install!Files), EachOnce(q), NEW x \in Install!Files, x \notin Members(q)
  PROVE  /\ Append(q, x) \in Seq(Install!Files) /\ EachOnce(Append(q, x))
         /\ Members(Append(q, x)) = Members(q) \cup {x}
BY ListOfFiles

-----------------------------------------------------------------------------

\* What a rename, or one that failed, leaves of f.
Becomes(f, c, p, n, a) ==
  current_'[f] = c /\ previous_'[f] = p /\ next_'[f] = n /\ aside_'[f] = a

Or(a, b) == IF a = Install!None THEN b ELSE a

\* The n-th rename of f, and what it does.
Renamed(f, n) ==
  IF doing_ = "promote"
  THEN /\ n = 1 => Becomes(f, current_[f], Install!None, next_[f], aside_[f])
       /\ n = 2 => Becomes(f, Install!None, Or(current_[f], previous_[f]), next_[f], aside_[f])
       /\ n = 3 => Becomes(f, Or(next_[f], current_[f]), previous_[f], Install!None, aside_[f])
  ELSE /\ n = 1 => previous_[f] # Install!None /\ Becomes(f, Install!None, previous_[f], next_[f], Or(current_[f], aside_[f]))
       /\ n = 2 => Becomes(f, Or(previous_[f], current_[f]), Install!None, next_[f], aside_[f])
       /\ n = 3 => Becomes(f, current_[f], Or(aside_[f], previous_[f]), next_[f], Install!None)

\* The n-th rename of f fails, and what is put back.
InstallFailed(f, n) ==
  IF doing_ = "promote"
  THEN /\ n # 3 => Becomes(f, current_[f], previous_[f], next_[f], aside_[f])
       /\ n = 3 => Becomes(f, Or(previous_[f], current_[f]), Install!None, next_[f], aside_[f])
  ELSE /\ n = 1 => Becomes(f, current_[f], previous_[f], next_[f], aside_[f])
       /\ n = 2 => Becomes(f, Or(aside_[f], current_[f]), previous_[f], next_[f], Install!None)
       /\ n = 3 => Becomes(f, aside_[f], Or(current_[f], previous_[f]), next_[f], Install!None)

InstallOthers(f) == \A g \in Install!Files \ {f} : Becomes(g, current_[g], previous_[g], next_[g], aside_[g])

InstallFilesAre == {current_', previous_', next_', aside_'} \subseteq [Install!Files -> 0..builds_]

\* The file that is moved next.
LEMMA FirstFile ==
  ASSUME InstShapes, toMove # <<>>
  PROVE  /\ Head(toMove) \in Install!Files /\ Head(toMove) \in Ahead /\ Head(toMove) \notin Through
         /\ Under(Head(toMove), turn) /\ turn \in 1..3 /\ doing_ # "idle"
         /\ Tail(toMove) \in Seq(Install!Files) /\ EachOnce(Tail(toMove))
         /\ Members(Tail(toMove)) = Ahead \ {Head(toMove)}
BY ListOfFiles DEF InstShapes, Ahead, Through, Under

\* A rename changes the places of the file it is for and of no other.
LEMMA RenameMoves ==
  ASSUME InstShapes, toMove # <<>>, ~Install!NothingToSwap, Install!Rename(Install!Renames[turn], Head(toMove))
  PROVE  Renamed(Head(toMove), turn) /\ InstallOthers(Head(toMove)) /\ InstallFilesAre
<1> DEFINE f == Head(toMove)
<1>1. f \in Install!Files /\ turn \in 1..3
  BY FirstFile
<1>2. /\ current_ \in [Install!Files -> 0..builds_] /\ previous_ \in [Install!Files -> 0..builds_]
      /\ next_ \in [Install!Files -> 0..builds_] /\ aside_ \in [Install!Files -> 0..builds_]
      /\ 0 \in 0..builds_ /\ Install!None = 0
  BY BuildsAreCounted DEF InstShapes, Install!None, Install!InstallationAssumption
<1>3. turn = 1 => Install!Renames[turn] = Install!Renames[1]
  OBVIOUS
<1>4. turn = 2 => Install!Renames[turn] = Install!Renames[2]
  OBVIOUS
<1>5. turn = 3 => Install!Renames[turn] = Install!Renames[3]
  OBVIOUS
<1> HIDE DEF f
<1>6. CASE doing_ = "promote" /\ turn = 1
  <2>1. previous_' = [previous_ EXCEPT ![f] = Install!None] /\ UNCHANGED <<current_, next_, aside_>>
    BY <1>6, <1>3, RenamesAre DEF Install!Rename, Install!Gone, f
  <2> QED
    BY <2>1, <1>1, <1>2, <1>6 DEF Renamed, InstallOthers, InstallFilesAre, Becomes, Or, f
<1>7. CASE doing_ = "promote" /\ turn = 2
  <2>1. /\ previous_' = [previous_ EXCEPT ![f] = IF current_[f] = Install!None THEN @ ELSE current_[f]]
        /\ current_' = [current_ EXCEPT ![f] = Install!None] /\ UNCHANGED <<next_, aside_>>
    BY <1>7, <1>4, RenamesAre DEF Install!Rename, Install!Gone, Install!Moved, f
  <2> QED
    BY <2>1, <1>1, <1>2, <1>7 DEF Renamed, InstallOthers, InstallFilesAre, Becomes, Or, f
<1>8. CASE doing_ = "promote" /\ turn = 3
  <2>1. /\ current_' = [current_ EXCEPT ![f] = IF next_[f] = Install!None THEN @ ELSE next_[f]]
        /\ next_' = [next_ EXCEPT ![f] = Install!None] /\ UNCHANGED <<previous_, aside_>>
    BY <1>8, <1>5, RenamesAre DEF Install!Rename, Install!Gone, Install!Moved, f
  <2> QED
    BY <2>1, <1>1, <1>2, <1>8 DEF Renamed, InstallOthers, InstallFilesAre, Becomes, Or, f
<1>9. CASE doing_ # "promote" /\ turn = 1
  <2>1. /\ aside_' = [aside_ EXCEPT ![f] = IF current_[f] = Install!None THEN @ ELSE current_[f]]
        /\ current_' = [current_ EXCEPT ![f] = Install!None] /\ UNCHANGED <<previous_, next_>>
    BY <1>9, <1>3, RenamesAre DEF Install!Rename, Install!Gone, Install!Moved, f
  <2>2. previous_[f] # Install!None
    BY <1>9, <1>3, RenamesAre DEF Install!NothingToSwap, f
  <2> QED
    BY <2>1, <2>2, <1>1, <1>2, <1>9 DEF Renamed, InstallOthers, InstallFilesAre, Becomes, Or, f
<1>10. CASE doing_ # "promote" /\ turn = 2
  <2>1. /\ current_' = [current_ EXCEPT ![f] = IF previous_[f] = Install!None THEN @ ELSE previous_[f]]
        /\ previous_' = [previous_ EXCEPT ![f] = Install!None] /\ UNCHANGED <<next_, aside_>>
    BY <1>10, <1>4, RenamesAre DEF Install!Rename, Install!Gone, Install!Moved, f
  <2> QED
    BY <2>1, <1>1, <1>2, <1>10 DEF Renamed, InstallOthers, InstallFilesAre, Becomes, Or, f
<1>11. CASE doing_ # "promote" /\ turn = 3
  <2>1. /\ previous_' = [previous_ EXCEPT ![f] = IF aside_[f] = Install!None THEN @ ELSE aside_[f]]
        /\ aside_' = [aside_ EXCEPT ![f] = Install!None] /\ UNCHANGED <<current_, next_>>
    BY <1>11, <1>5, RenamesAre DEF Install!Rename, Install!Gone, Install!Moved, f
  <2> QED
    BY <2>1, <1>1, <1>2, <1>11 DEF Renamed, InstallOthers, InstallFilesAre, Becomes, Or, f
<1> QED
  BY <1>1, <1>6, <1>7, <1>8, <1>9, <1>10, <1>11 DEF f

-----------------------------------------------------------------------------

\* The rename of the first file has been made.
Goes(f, n) ==
  /\ f \in Install!Files /\ f \in Ahead /\ f \notin Through /\ Under(f, n) /\ n \in 1..3
  /\ Renamed(f, n) /\ InstallOthers(f) /\ InstallFilesAre
  /\ n # 3 => turn' = n + 1 /\ toMove' = toMove /\ done' = done
  /\ n = 3 => /\ turn' = 1 /\ toMove' \in Seq(Install!Files) /\ EachOnce(toMove') /\ Ahead' = Ahead \ {f}
              /\ done' \in Seq(Install!Files) /\ EachOnce(done') /\ Through' = Through \cup {f}
  /\ UNCHANGED <<layoutOf, builds_, doing_, before, answer, faults_, crashes_, spoilt>>

\* A step of the operation is such a rename.
LEMMA StepGoes ==
  ASSUME InstShapes, Install!Step
  PROVE  Goes(Head(toMove), turn)
<1>1. toMove # <<>> /\ ~Install!NothingToSwap /\ Install!Rename(Install!Renames[turn], Head(toMove))
  BY DEF Install!Step
<1>2. Renamed(Head(toMove), turn) /\ InstallOthers(Head(toMove)) /\ InstallFilesAre
  BY <1>1, RenameMoves
<1>3. turn < Len(Install!Renames) <=> turn # 3
  BY <1>1, FirstFile, RenamesAre
<1>4. done \in Seq(Install!Files) /\ EachOnce(done)
  BY DEF InstShapes
<1>5. turn = 3 => /\ done' = Append(done, Head(toMove)) /\ toMove' = Tail(toMove) /\ turn' = 1
  BY <1>3 DEF Install!Step
<1>6. turn = 3 => /\ done' \in Seq(Install!Files) /\ EachOnce(done') /\ Through' = Through \cup {Head(toMove)}
  <2> SUFFICES ASSUME turn = 3
               PROVE done' \in Seq(Install!Files) /\ EachOnce(done') /\ Through' = Through \cup {Head(toMove)}
    OBVIOUS
  <2>1. Head(toMove) \in Install!Files /\ Head(toMove) \notin Members(done)
    BY <1>1, FirstFile DEF Through
  <2>2. done' = Append(done, Head(toMove))
    BY <1>5
  <2>3. /\ Append(done, Head(toMove)) \in Seq(Install!Files) /\ EachOnce(Append(done, Head(toMove)))
        /\ Members(Append(done, Head(toMove))) = Members(done) \cup {Head(toMove)}
    BY <1>4, <2>1, FileAppended
  <2>4. Through' = Members(done')
    BY DEF Through
  <2> QED
    BY <2>2, <2>3, <2>4 DEF Through, EachOnce
<1>7. turn = 3 => /\ toMove' \in Seq(Install!Files) /\ EachOnce(toMove') /\ Ahead' = Ahead \ {Head(toMove)}
  BY <1>1, <1>5, FirstFile DEF Ahead
<1>8. turn # 3 => turn' = turn + 1 /\ toMove' = toMove /\ done' = done
  BY <1>3 DEF Install!Step
<1>9. UNCHANGED <<layoutOf, builds_, doing_, before, answer, faults_, crashes_, spoilt>>
  BY DEF Install!Step, Install!counters
<1> QED
  BY <1>1, <1>2, <1>5, <1>6, <1>7, <1>8, <1>9, FirstFile DEF Goes

\* The other files: nothing changes for them.
Aside(g) ==
  /\ Becomes(g, current_[g], previous_[g], next_[g], aside_[g])
  /\ before'[g] = before[g] /\ builds_' = builds_
  /\ (g \in Ahead' <=> g \in Ahead) /\ (g \in Through' <=> g \in Through)
  /\ ~Under(g, 2) /\ ~Under(g, 3) /\ ~Under(g, 2)' /\ ~Under(g, 3)'

LEMMA OthersAside ==
  ASSUME NEW f, NEW n, Goes(f, n), NEW g \in Install!Files \ {f}
  PROVE  Aside(g)
<1>1. n # 3 => Ahead' = Ahead /\ Through' = Through
  BY DEF Goes, Ahead, Through, Members
<1>2. ~Under(g, 2) /\ ~Under(g, 3)
  BY DEF Goes, Under
<1>3. ~Under(g, 2)' /\ ~Under(g, 3)'
  BY DEF Goes, Under
<1> QED
  BY <1>1, <1>2, <1>3 DEF Goes, InstallOthers, Aside

\* A file that is not renamed stays as far as it was.
LEMMA AsideKeeps ==
  ASSUME NEW g, Aside(g)
  PROVE  /\ PromotesAt(g) => PromotesAt(g)'
         /\ RollsBackAt(g) => RollsBackAt(g)'
         /\ UndoesAt(g) /\ (spoilt => spoilt') => UndoesAt(g)'
BY DEF Aside, Becomes, PromotesAt, RollsBackAt, UndoesAt, Untouched, Exchanged

\* The file that is renamed is where the next rename expects it.
LEMMA FirstAfter ==
  ASSUME NEW f, NEW n, Goes(f, n)
  PROVE  /\ n = 1 => Under(f, 2)' /\ ~Under(f, 3)' /\ f \in Ahead' /\ f \notin Through'
         /\ n = 2 => Under(f, 3)' /\ ~Under(f, 2)' /\ f \in Ahead' /\ f \notin Through'
         /\ n = 3 => ~Under(f, 2)' /\ ~Under(f, 3)' /\ f \notin Ahead' /\ f \in Through'
         /\ before'[f] = before[f] /\ builds_' = builds_
         /\ Under(f, n)
         /\ n # 2 => ~Under(f, 2)
         /\ n # 3 => ~Under(f, 3)
<1>1. n # 3 => Ahead' = Ahead /\ Through' = Through
  BY DEF Goes, Ahead, Through, Members
<1> QED
  BY <1>1 DEF Goes, Under

\* A rename leaves every file as the operation at that point has it.
LEMMA StepKeepsFiles ==
  ASSUME InstIInv, Install!Step
  PROVE  EachFile'
<1>1. PICK f, n : Goes(f, n)
  BY StepGoes DEF InstIInv
<1>2. /\ f \in Install!Files /\ f \in Ahead /\ f \notin Through /\ n \in 1..3 /\ Renamed(f, n) /\ doing_' = doing_
      /\ spoilt' = spoilt /\ doing_ # "idle" /\ builds_ \in Nat
      /\ doing_ \in {"promote", "rollback", "undo"}
  <2>1. toMove # <<>>
    BY DEF Install!Step
  <2> QED
    BY <1>1, <2>1, BuildsAreCounted DEF Goes, InstIInv, InstShapes, Install!InstallationAssumption
<1>3. \A g \in Install!Files \ {f} : Aside(g)
  BY <1>1, OthersAside
<1>4. CASE doing_ = "promote"
  <2>1. PromotesAt(f)
    BY <1>2, <1>4 DEF InstIInv, EachFile
  <2>2. builds_ # 0
    BY <1>2, <1>4 DEF InstIInv, InstShapes
  <2>3. PromotesAt(f)'
    <3>1. CASE n = 1
      BY <1>1, <1>2, <1>4, <2>1, <3>1, FirstAfter DEF PromotesAt, Renamed, Becomes, Untouched, Exchanged
    <3>2. CASE n = 2
      BY <1>1, <1>2, <1>4, <2>1, <3>2, FirstAfter DEF PromotesAt, Renamed, Becomes, Untouched, Exchanged, Or
    <3>3. CASE n = 3
      BY <1>1, <1>2, <1>4, <2>1, <2>2, <3>3, FirstAfter DEF PromotesAt, Renamed, Becomes, Untouched, Exchanged, Or, Install!None
    <3> QED
      BY <1>2, <3>1, <3>2, <3>3
  <2>4. \A g \in Install!Files \ {f} : PromotesAt(g)'
    BY <1>3, <1>4, AsideKeeps DEF InstIInv, EachFile
  <2> QED
    BY <1>2, <1>4, <2>3, <2>4 DEF EachFile
<1>5. CASE doing_ = "rollback"
  <2>1. RollsBackAt(f)
    BY <1>2, <1>5 DEF InstIInv, EachFile
  <2>3. RollsBackAt(f)'
    <3>1. CASE n = 1
      BY <1>1, <1>2, <1>5, <2>1, <3>1, FirstAfter DEF RollsBackAt, Renamed, Becomes, Untouched, Exchanged, Or
    <3>2. CASE n = 2
      BY <1>1, <1>2, <1>5, <2>1, <3>2, FirstAfter DEF RollsBackAt, Renamed, Becomes, Untouched, Exchanged, Or
    <3>3. CASE n = 3
      BY <1>1, <1>2, <1>5, <2>1, <3>3, FirstAfter DEF RollsBackAt, Renamed, Becomes, Untouched, Exchanged, Or
    <3> QED
      BY <1>2, <3>1, <3>2, <3>3
  <2>4. \A g \in Install!Files \ {f} : RollsBackAt(g)'
    BY <1>3, <1>5, AsideKeeps DEF InstIInv, EachFile
  <2> QED
    BY <1>2, <1>5, <2>3, <2>4 DEF EachFile
<1>6. CASE doing_ = "undo"
  <2>1. UndoesAt(f)
    BY <1>2, <1>6 DEF InstIInv, EachFile
  <2>3. UndoesAt(f)'
    <3>1. CASE n = 1
      BY <1>1, <1>2, <1>6, <2>1, <3>1, FirstAfter DEF UndoesAt, Renamed, Becomes, Untouched, Exchanged, Or
    <3>2. CASE n = 2
      BY <1>1, <1>2, <1>6, <2>1, <3>2, FirstAfter DEF UndoesAt, Renamed, Becomes, Untouched, Exchanged, Or
    <3>3. CASE n = 3
      BY <1>1, <1>2, <1>6, <2>1, <3>3, FirstAfter DEF UndoesAt, Renamed, Becomes, Untouched, Exchanged, Or
    <3> QED
      BY <1>2, <3>1, <3>2, <3>3
  <2>4. \A g \in Install!Files \ {f} : UndoesAt(g)'
    BY <1>2, <1>3, <1>6, AsideKeeps DEF InstIInv, EachFile
  <2> QED
    BY <1>2, <1>6, <2>3, <2>4 DEF EachFile
<1> QED
  BY <1>2, <1>4, <1>5, <1>6

\* A rename keeps the lists and the contents of the files in shape.
LEMMA StepKeepsShapes ==
  ASSUME InstShapes, Install!Step
  PROVE  InstShapes'
<1>1. PICK f, n : Goes(f, n)
  BY StepGoes
<1>2. toMove' \in Seq(Install!Files) /\ EachOnce(toMove') /\ done' \in Seq(Install!Files) /\ EachOnce(done') /\ turn' \in 1..3
  <2>1. CASE n = 3
    BY <1>1, <2>1 DEF Goes
  <2>2. CASE n # 3
    <3>1. toMove' = toMove /\ done' = done /\ turn' = n + 1 /\ n \in 1..3
      BY <1>1, <2>2 DEF Goes
    <3> QED
      BY <2>2, <3>1 DEF InstShapes
  <2> QED
    BY <2>1, <2>2
<1>3. Ahead' \cap Through' = {}
  <2>1. n # 3 => Ahead' = Ahead /\ Through' = Through
    BY <1>1 DEF Goes, Ahead, Through, Members
  <2> QED
    BY <1>1, <2>1 DEF Goes, InstShapes
<1>4. toMove' = <<>> => turn' = 1
  BY <1>1 DEF Goes, Under
<1>5. doing_' # "idle"
  <2>1. toMove # <<>>
    BY DEF Install!Step
  <2> QED
    BY <1>1, <2>1 DEF Goes, InstShapes
<1>6. {current_', previous_', next_', aside_', before'} \subseteq [Install!Files -> 0..builds_']
  BY <1>1 DEF Goes, InstallFilesAre, InstShapes
<1> QED
  BY <1>1, <1>2, <1>3, <1>4, <1>5, <1>6 DEF Goes, InstShapes

\* A rename leaves what belonged together together.
LEMMA StepKeepsOneBuild ==
  ASSUME InstIInv, Install!Step
  PROVE  OfOneBuild'
<1>1. PICK f, n : Goes(f, n)
  BY StepGoes DEF InstIInv
<1>2. Alike' = Alike /\ Parts' = Parts /\ before' = before /\ doing_' = doing_
  BY <1>1 DEF Goes, Alike, Parts
<1>3. toMove # <<>> /\ doing_ # "idle"
  BY DEF Install!Step, InstIInv, InstShapes
<1>4. Ahead' \cup Through' = Ahead \cup Through
  <2>1. n # 3 => Ahead' = Ahead /\ Through' = Through
    BY <1>1 DEF Goes, Ahead, Through, Members
  <2> QED
    BY <1>1, <2>1 DEF Goes
<1>5. ASSUME doing_ = "rollback", NEW g \in Install!Files PROVE Former(g)' = Former(g)
  <2>1. CASE g # f
    <3>1. Aside(g)
      BY <1>1, <2>1, OthersAside
    <3> QED
      BY <3>1 DEF Aside, Becomes, Former
  <2>2. CASE g = f
    <3>1. RollsBackAt(f) /\ Renamed(f, n) /\ n \in 1..3
      BY <1>1, <1>5 DEF InstIInv, EachFile, Goes
    <3>2. f \in Ahead /\ f \notin Through
      BY <1>1 DEF Goes
    <3>3. CASE n = 1
      BY <1>1, <1>5, <2>2, <3>1, <3>2, <3>3, FirstAfter DEF Former, RollsBackAt, Renamed, Becomes, Or
    <3>4. CASE n = 2
      BY <1>1, <1>5, <2>2, <3>1, <3>2, <3>4, FirstAfter DEF Former, RollsBackAt, Renamed, Becomes, Or
    <3>5. CASE n = 3
      BY <1>1, <1>5, <2>2, <3>1, <3>2, <3>5, FirstAfter DEF Former, RollsBackAt, Renamed, Becomes, Or
    <3> QED
      BY <3>1, <3>3, <3>4, <3>5
  <2> QED
    BY <2>1, <2>2
<1>6. Parts \subseteq Install!Files /\ "layout" \in Install!Files
  BY DEF Parts, Install!Files
<1> QED
  BY <1>2, <1>3, <1>4, <1>5, <1>6 DEF InstIInv, OfOneBuild, Uniform

-----------------------------------------------------------------------------

\* The rename of the first file has failed.
Breaks(f, n) ==
  /\ f \in Install!Files /\ f \in Ahead /\ f \notin Through /\ Under(f, n) /\ n \in 1..3
  /\ InstallFailed(f, n) /\ InstallOthers(f) /\ InstallFilesAre
  /\ doing_' = "undo" /\ turn' = 1 /\ done' = <<>> /\ Through' = {}
  /\ toMove' \in Seq(Install!Files) /\ EachOnce(toMove')
  /\ IF doing_ = "undo"
     THEN Ahead' = Ahead \ {f} /\ spoilt' = (spoilt \/ n # 1 \/ previous_[f] # Install!None)
     ELSE Ahead' = Through /\ spoilt' = spoilt
  /\ IF doing_ # "promote" /\ n = 1 /\ previous_[f] = Install!None
     THEN faults_' = faults_ ELSE faults_' = faults_ + 1
  /\ UNCHANGED <<layoutOf, builds_, before, answer, crashes_>>

\* A step that fails is such a rename that failed.
LEMMA FailBreaks ==
  ASSUME InstShapes, Install!StepFails
  PROVE  Breaks(Head(toMove), turn)
<1> DEFINE f == Head(toMove)
<1>1. toMove # <<>> /\ Install!PutBack(f) /\ next_' = next_ /\ doing_' = "undo" /\ turn' = 1 /\ done' = <<>>
  BY DEF Install!StepFails
<1>2. /\ f \in Install!Files /\ f \in Ahead /\ f \notin Through /\ Under(f, turn) /\ turn \in 1..3 /\ doing_ # "idle"
      /\ Tail(toMove) \in Seq(Install!Files) /\ EachOnce(Tail(toMove)) /\ Members(Tail(toMove)) = Ahead \ {f}
  BY <1>1, FirstFile
<1>3. /\ current_ \in [Install!Files -> 0..builds_] /\ previous_ \in [Install!Files -> 0..builds_]
      /\ next_ \in [Install!Files -> 0..builds_] /\ aside_ \in [Install!Files -> 0..builds_]
      /\ 0 \in 0..builds_ /\ Install!None = 0 /\ done \in Seq(Install!Files) /\ EachOnce(done)
  BY BuildsAreCounted, SMTT(20) DEF InstShapes, Install!None, Install!InstallationAssumption
<1>4. /\ turn = 1 => Install!Renames[turn] = Install!Renames[1]
      /\ turn = 2 => Install!Renames[turn] = Install!Renames[2]
      /\ turn = 3 => Install!Renames[turn] = Install!Renames[3]
  OBVIOUS
<1>5. Install!NothingToSwap <=> doing_ # "promote" /\ turn = 1 /\ previous_[f] = Install!None
  <2>1. Install!Renames[turn] = "leave" <=> doing_ # "promote" /\ turn = 1
    BY <1>2, <1>4, RenamesAre
  <2> QED
    BY <2>1 DEF Install!NothingToSwap
<1>6. Through' = {}
  BY <1>1, EmptySeq DEF Through, Members
<1>7. /\ toMove' \in Seq(Install!Files) /\ EachOnce(toMove')
      /\ IF doing_ = "undo" THEN Ahead' = Ahead \ {f} ELSE Ahead' = Through
  <2>1. CASE doing_ = "undo"
    BY <2>1, <1>2 DEF Install!StepFails, Ahead
  <2>2. CASE doing_ # "undo"
    <3>1. toMove' = Install!Reverse(done)
      BY <2>2 DEF Install!StepFails
    <3> QED
      BY <2>2, <3>1, <1>3, ListOfFiles DEF Ahead, Through
  <2> QED
    BY <2>1, <2>2
<1> HIDE DEF f
<1>8. InstallFailed(f, turn) /\ InstallOthers(f) /\ InstallFilesAre
  <2>1. CASE doing_ = "promote" /\ turn = 3
    <3>1. /\ current_' = [current_ EXCEPT ![f] = IF previous_[f] = Install!None THEN @ ELSE previous_[f]]
          /\ previous_' = IF previous_[f] = Install!None THEN previous_ ELSE [previous_ EXCEPT ![f] = Install!None]
          /\ aside_' = aside_
      BY <2>1, <1>1, <1>4, RenamesAre DEF Install!PutBack, Install!Moved, Install!Gone
    <3> QED
      BY <2>1, <3>1, <1>1, <1>2, <1>3, SMTT(20) DEF InstallFailed, InstallOthers, InstallFilesAre, Becomes, Or
  <2>2. CASE doing_ # "promote" /\ turn = 2
    <3>1. /\ current_' = [current_ EXCEPT ![f] = IF aside_[f] = Install!None THEN @ ELSE aside_[f]]
          /\ aside_' = [aside_ EXCEPT ![f] = Install!None] /\ previous_' = previous_
      BY <2>2, <1>1, <1>4, RenamesAre DEF Install!PutBack, Install!Moved, Install!Gone
    <3> QED
      BY <2>2, <3>1, <1>1, <1>2, <1>3, SMTT(20) DEF InstallFailed, InstallOthers, InstallFilesAre, Becomes, Or
  <2>3. CASE doing_ # "promote" /\ turn = 3
    <3>1. /\ previous_' = [previous_ EXCEPT ![f] = IF current_[f] = Install!None THEN @ ELSE current_[f]]
          /\ current_' = [current_ EXCEPT ![f] = aside_[f]] /\ aside_' = [aside_ EXCEPT ![f] = Install!None]
      BY <2>3, <1>1, <1>4, RenamesAre DEF Install!PutBack, Install!Moved, Install!Gone
    <3> QED
      BY <2>3, <3>1, <1>1, <1>2, <1>3, SMTT(20) DEF InstallFailed, InstallOthers, InstallFilesAre, Becomes, Or
  <2>4. CASE turn = 1 \/ (doing_ = "promote" /\ turn = 2)
    <3>1. Install!Renames[turn] \in {"drop", "keep", "leave"}
      BY <2>4, <1>4, RenamesAre
    <3>2. current_' = current_ /\ previous_' = previous_ /\ aside_' = aside_
      BY <3>1, <1>1 DEF Install!PutBack
    <3> QED
      BY <2>4, <3>2, <1>1, <1>2, <1>3, SMTT(20) DEF InstallFailed, InstallOthers, InstallFilesAre, Becomes, Or
  <2> QED
    BY <1>2, <2>1, <2>2, <2>3, <2>4
<1>9. /\ IF doing_ = "undo" THEN spoilt' = (spoilt \/ turn # 1 \/ previous_[f] # Install!None) ELSE spoilt' = spoilt
      /\ IF doing_ # "promote" /\ turn = 1 /\ previous_[f] = Install!None
         THEN faults_' = faults_ ELSE faults_' = faults_ + 1
      /\ UNCHANGED <<layoutOf, builds_, before, answer, crashes_>>
  BY <1>5 DEF Install!StepFails, InstShapes
<1> QED
  BY <1>1, <1>2, <1>6, <1>7, <1>8, <1>9 DEF Breaks, f

\* Where a rename fails, the files that were through are what is to be swapped back.
LEMMA FailKeepsFiles ==
  ASSUME InstIInv, Install!StepFails
  PROVE  EachFile'
<1>1. PICK f, n : Breaks(f, n)
  BY FailBreaks DEF InstIInv
<1>2. /\ f \in Install!Files /\ f \in Ahead /\ f \notin Through /\ n \in 1..3 /\ InstallFailed(f, n) /\ InstallOthers(f)
      /\ doing_' = "undo" /\ before' = before
      /\ doing_ \in {"promote", "rollback", "undo"}
  <2>1. toMove # <<>>
    BY DEF Install!StepFails
  <2> QED
    BY <1>1, <2>1 DEF Breaks, InstIInv, InstShapes
<1>3. \A g : ~Under(g, 2)' /\ ~Under(g, 3)'
  BY <1>1 DEF Breaks, Under
<1>4. /\ Under(f, n) /\ (n # 2 => ~Under(f, 2)) /\ (n # 3 => ~Under(f, 3))
      /\ \A g \in Install!Files \ {f} : ~Under(g, 2) /\ ~Under(g, 3)
  BY <1>1 DEF Breaks, Under
<1>5. \A g \in Install!Files \ {f} : Becomes(g, current_[g], previous_[g], next_[g], aside_[g])
  BY <1>2 DEF InstallOthers
<1>6. CASE doing_ = "promote"
  <2>1. Ahead' = Through
    BY <1>1, <1>6 DEF Breaks
  <2>2. PromotesAt(f)
    BY <1>2, <1>6 DEF InstIInv, EachFile
  <2>3. UndoesAt(f)'
    BY <1>2, <1>3, <1>4, <1>6, <2>1, <2>2 DEF UndoesAt, PromotesAt, InstallFailed, Becomes, Untouched, Exchanged, Or
  <2>4. ASSUME NEW g \in Install!Files \ {f} PROVE UndoesAt(g)'
    <3>1. PromotesAt(g)
      BY <1>6 DEF InstIInv, EachFile
    <3> QED
      BY <1>2, <1>3, <1>4, <1>5, <2>1, <3>1 DEF UndoesAt, PromotesAt, Becomes, Untouched, Exchanged
  <2> QED
    BY <1>2, <2>3, <2>4 DEF EachFile
<1>7. CASE doing_ = "rollback"
  <2>1. Ahead' = Through
    BY <1>1, <1>7 DEF Breaks
  <2>2. RollsBackAt(f)
    BY <1>2, <1>7 DEF InstIInv, EachFile
  <2>3. UndoesAt(f)'
    BY <1>2, <1>3, <1>4, <1>7, <2>1, <2>2 DEF UndoesAt, RollsBackAt, InstallFailed, Becomes, Untouched, Exchanged, Or
  <2>4. ASSUME NEW g \in Install!Files \ {f} PROVE UndoesAt(g)'
    <3>1. RollsBackAt(g)
      BY <1>7 DEF InstIInv, EachFile
    <3> QED
      BY <1>2, <1>3, <1>4, <1>5, <2>1, <3>1 DEF UndoesAt, RollsBackAt, Becomes, Untouched, Exchanged
  <2> QED
    BY <1>2, <2>3, <2>4 DEF EachFile
<1>8. CASE doing_ = "undo"
  <2>1. Ahead' = Ahead \ {f} /\ (spoilt => spoilt') /\ (n # 1 \/ previous_[f] # Install!None => spoilt')
    BY <1>1, <1>8 DEF Breaks
  <2>2. UndoesAt(f)
    BY <1>2, <1>8 DEF InstIInv, EachFile
  <2>3. UndoesAt(f)'
    BY <1>2, <1>3, <1>4, <1>8, <2>1, <2>2 DEF UndoesAt, InstallFailed, Becomes, Untouched, Exchanged, Or
  <2>4. ASSUME NEW g \in Install!Files \ {f} PROVE UndoesAt(g)'
    <3>1. UndoesAt(g)
      BY <1>8 DEF InstIInv, EachFile
    <3> QED
      BY <1>2, <1>3, <1>4, <1>5, <2>1, <3>1 DEF UndoesAt, Becomes, Untouched, Exchanged
  <2> QED
    BY <1>2, <2>3, <2>4 DEF EachFile
<1> QED
  BY <1>2, <1>6, <1>7, <1>8

\* A rename that fails keeps the invariant.
LEMMA InstallFailKeeps ==
  ASSUME InstIInv, Install!StepFails
  PROVE  InstIInv'
<1>1. PICK f, n : Breaks(f, n)
  BY FailBreaks DEF InstIInv
<1>2. InstShapes'
  <2>1. {current_', previous_', next_', aside_', before'} \subseteq [Install!Files -> 0..builds_']
    BY <1>1 DEF Breaks, InstallFilesAre, InstIInv, InstShapes
  <2>2. EachOnce(done') /\ done' \in Seq(Install!Files) /\ Ahead' \cap Through' = {}
    BY <1>1, EmptySeq DEF Breaks, EachOnce
  <2>3. turn' \in 1..3 /\ faults_' \in Nat /\ spoilt' \in BOOLEAN /\ (crashes_' # 0 => spoilt')
    <3>1. turn \in 1..3 /\ faults_ \in Nat /\ spoilt \in BOOLEAN /\ (crashes_ # 0 => spoilt)
      BY DEF InstIInv, InstShapes
    <3>2. turn' = 1 /\ crashes_' = crashes_ /\ (faults_' = faults_ \/ faults_' = faults_ + 1)
      BY <1>1 DEF Breaks
    <3>3. spoilt' \in BOOLEAN /\ (spoilt => spoilt')
      BY <1>1, <3>1, Zenon DEF Breaks
    <3> QED
      BY <3>1, <3>2, <3>3
  <2> QED
    BY <1>1, <2>1, <2>2, <2>3 DEF Breaks, InstIInv, InstShapes
<1>3. ~Alike'
  <2> SUFFICES ASSUME Alike' PROVE FALSE
    OBVIOUS
  <2>1. faults_' = 0 /\ ~spoilt' /\ faults_ \in Nat
    BY DEF Alike, InstIInv, InstShapes
  <2>2. doing_ # "promote" /\ n = 1 /\ previous_[f] = Install!None /\ faults_ = 0
    BY <1>1, <2>1 DEF Breaks
  <2>3. ~spoilt
    BY <1>1, <2>1 DEF Breaks
  <2>4. Alike
    BY <1>1, <2>2, <2>3 DEF Alike, Breaks
  <2>5. doing_ = "rollback"
    <3>1. toMove # <<>>
      BY DEF Install!StepFails
    <3> QED
      BY <2>2, <2>4, <3>1 DEF InstIInv, InstShapes, OfOneBuild
  <2>6. RollsBackAt(f) /\ f \in Ahead /\ ~Under(f, 2) /\ ~Under(f, 3)
    BY <1>1, <2>2, <2>5 DEF InstIInv, EachFile, Breaks, Under
  <2> QED
    BY <2>2, <2>6 DEF RollsBackAt
<1> QED
  BY <1>2, <1>3, FailKeepsFiles DEF InstIInv, OfOneBuild

-----------------------------------------------------------------------------

\* The end of an operation keeps the invariant.
LEMMA EndKeeps ==
  ASSUME InstIInv, Install!End
  PROVE  InstIInv'
<1>1. /\ toMove = <<>> /\ Ahead = {} /\ \A g, n : ~Under(g, n)
      /\ doing_ \in {"promote", "rollback", "undo"}
  BY EmptySeq DEF Install!End, Ahead, Members, Under, InstIInv, InstShapes
<1>2. /\ doing_' = "idle"
      /\ UNCHANGED <<current_, previous_, aside_, layoutOf, builds_, toMove, turn, done, before, Install!counters, spoilt>>
  BY DEF Install!End
<1>3. next_' = Install!Nothing /\ Install!Nothing \in [Install!Files -> 0..builds_]
  BY BuildsAreCounted DEF Install!End, Install!Nothing, Install!None, InstIInv, InstShapes, Install!InstallationAssumption
<1>4. InstShapes'
  BY <1>1, <1>2, <1>3 DEF InstIInv, InstShapes, Install!End, EachOnce, Ahead, Through, Members, Install!counters
<1>5. ASSUME NEW f \in Install!Files PROVE RestsAt(f)'
  <2>1. CASE doing_ = "promote"
    <3>1. PromotesAt(f)
      BY <2>1 DEF InstIInv, EachFile
    <3> QED
      BY <1>1, <1>2, <3>1 DEF PromotesAt, RestsAt, Untouched, Exchanged, Install!counters
  <2>2. CASE doing_ = "rollback"
    <3>1. RollsBackAt(f)
      BY <2>2 DEF InstIInv, EachFile
    <3> QED
      BY <1>1, <1>2, <3>1 DEF RollsBackAt, RestsAt, Untouched, Exchanged, Install!counters
  <2>3. CASE doing_ = "undo"
    <3>1. UndoesAt(f)
      BY <2>3 DEF InstIInv, EachFile
    <3> QED
      BY <1>1, <1>2, <3>1 DEF UndoesAt, RestsAt, Untouched, Exchanged, Install!counters
  <2> QED
    BY <1>1, <2>1, <2>2, <2>3
<1>6. EachFile'
  BY <1>2, <1>5 DEF EachFile
<1>7. OfOneBuild'
  <2> SUFFICES ASSUME Alike' PROVE Uniform(current_)' /\ Uniform(previous_)'
    BY <1>2 DEF OfOneBuild
  <2>1. Alike /\ Parts' = Parts
    BY <1>2 DEF Alike, Parts, Install!counters
  <2>2. doing_ # "undo" /\ Uniform(before) /\ Parts \subseteq Through
    BY <2>1, <1>1 DEF InstIInv, OfOneBuild
  <2>3. Parts \subseteq Install!Files /\ "layout" \in Parts
    BY DEF Parts, Install!Files
  <2>4. CASE doing_ = "promote"
    <3>1. \A f \in Parts : current_[f] = builds_ /\ previous_[f] = before[f]
      BY <2>2, <2>3, <2>4 DEF InstIInv, EachFile, PromotesAt, Exchanged
    <3> QED
      BY <1>2, <2>1, <2>2, <2>3, <3>1 DEF Uniform
  <2>5. CASE doing_ = "rollback"
    <3>1. \A f \in Parts : Former(f) = current_[f] /\ previous_[f] = before[f]
      BY <2>2, <2>3, <2>5 DEF InstIInv, EachFile, RollsBackAt, Exchanged, Former
    <3>2. \A f \in Parts : Former(f) = Former("layout")
      BY <2>1, <2>5 DEF InstIInv, OfOneBuild
    <3> QED
      BY <1>2, <2>1, <2>2, <2>3, <3>1, <3>2 DEF Uniform
  <2> QED
    BY <1>1, <2>2, <2>4, <2>5
<1> QED
  BY <1>4, <1>6, <1>7 DEF InstIInv

\* So does the end of its process.
LEMMA CrashKeeps ==
  ASSUME InstIInv, Install!Crash
  PROVE  InstIInv'
<1>1. /\ doing_ \in {"promote", "rollback", "undo"} /\ crashes_ \in Nat
  BY DEF Install!Crash, InstIInv, InstShapes
<1>2. /\ doing_' = "idle" /\ toMove' = <<>> /\ turn' = 1 /\ done' = <<>> /\ spoilt' = TRUE
      /\ crashes_' = crashes_ + 1 /\ crashes_' # 0 /\ answer' = "none"
      /\ UNCHANGED <<current_, previous_, next_, aside_, layoutOf, builds_, before, rollbacks, faults_>>
  BY <1>1 DEF Install!Crash
<1>3. InstShapes'
  <2>1. Ahead' = {} /\ Through' = {} /\ EachOnce(toMove') /\ EachOnce(done')
        /\ toMove' \in Seq(Install!Files) /\ done' \in Seq(Install!Files)
    BY <1>2, EmptySeq DEF Ahead, Through, Members, EachOnce
  <2>2. {current_', previous_', next_', aside_', before'} \subseteq [Install!Files -> 0..builds_']
    BY <1>2 DEF InstIInv, InstShapes
  <2>3. Ahead' \cap Through' = {} /\ crashes_' \in Nat /\ turn' \in 1..3
    BY <1>1, <1>2, <2>1
  <2> QED
    BY <1>2, <2>1, <2>2, <2>3 DEF InstIInv, InstShapes
<1>4. ASSUME NEW f \in Install!Files PROVE RestsAt(f)'
  <2>1. CASE doing_ = "promote"
    <3>1. PromotesAt(f)
      BY <2>1 DEF InstIInv, EachFile
    <3> QED
      BY <1>2, <3>1 DEF PromotesAt, RestsAt, Untouched, Exchanged
  <2>2. CASE doing_ = "rollback"
    <3>1. RollsBackAt(f)
      BY <2>2 DEF InstIInv, EachFile
    <3> QED
      BY <1>2, <3>1 DEF RollsBackAt, RestsAt, Untouched, Exchanged
  <2>3. CASE doing_ = "undo"
    <3>1. UndoesAt(f)
      BY <2>3 DEF InstIInv, EachFile
    <3> QED
      BY <1>2, <3>1 DEF UndoesAt, RestsAt, Untouched, Exchanged
  <2> QED
    BY <1>1, <2>1, <2>2, <2>3
<1>5. ~Alike'
  BY <1>2 DEF Alike
<1> QED
  BY <1>2, <1>3, <1>4, <1>5 DEF InstIInv, EachFile, OfOneBuild

-----------------------------------------------------------------------------

\* The members of a list.
LEMMA ToSetIs == \A s : Install!ToSet(s) = Members(s)
BY DEF Install!ToSet, Members

\* The executables of a layout.
LEMMA ArtifactsOf ==
  ASSUME NEW layout
  PROVE  /\ Install!Artifacts(layout) \in Seq(Install!Files) /\ EachOnce(Install!Artifacts(layout))
         /\ Members(Install!Artifacts(layout)) = {"cli"} \cup (IF layout = "split" THEN {"daemon"} ELSE {})
<1>1. CASE layout = "split"
  BY <1>1 DEF Install!Artifacts, Install!Files, EachOnce, Members
<1>2. CASE layout # "split"
  BY <1>2 DEF Install!Artifacts, Install!Files, EachOnce, Members
<1> QED
  BY <1>1, <1>2

\* One more file after a list of others, as a list of one and as an addition.
LEMMA OneMore ==
  ASSUME NEW q \in Seq(Install!Files), NEW x \in Install!Files
  PROVE  q \o <<x>> = Append(q, x)
<1>1. <<x>> \in Seq(Install!Files) /\ Len(<<x>>) = 1 /\ <<x>>[1] = x
  OBVIOUS
<1>2. /\ Append(q, x) \in Seq(Install!Files) /\ Len(Append(q, x)) = Len(q) + 1 /\ Len(q) \in Nat
      /\ \A i \in 1..Len(q) : Append(q, x)[i] = q[i]
      /\ Append(q, x)[Len(q) + 1] = x
  BY AppendProperties, LenProperties
<1>3. \A i \in 1..Len(Append(q, x)) :
        Append(q, x)[i] = IF i <= Len(q) THEN q[i] ELSE <<x>>[i - Len(q)]
  <2> TAKE i \in 1..Len(Append(q, x))
  <2>1. CASE i <= Len(q)
    BY <2>1, <1>2
  <2>2. CASE i = Len(q) + 1
    <3>1. i - Len(q) = 1
      BY <2>2, <1>2
    <3> QED
      BY <3>1, <2>2, <1>1, <1>2
  <2> QED
    BY <2>1, <2>2, <1>2
<1>4. Len(Append(q, x)) = Len(q) + Len(<<x>>)
  BY <1>1, <1>2
<1> QED
  BY <1>1, <1>2, <1>3, <1>4, ConcatIs

\* The files of a build that is promoted.
LEMMA FilesToPlace ==
  ASSUME NEW layout, NEW withSchema \in BOOLEAN, NEW q,
         q = Install!Artifacts(layout) \o <<"layout">> \o (IF withSchema THEN <<"schema">> ELSE <<>>)
  PROVE  /\ q \in Seq(Install!Files) /\ EachOnce(q)
         /\ Members(q) = {"cli", "layout"} \cup (IF layout = "split" THEN {"daemon"} ELSE {})
                                           \cup (IF withSchema THEN {"schema"} ELSE {})
<1> DEFINE a == Install!Artifacts(layout)  r == a \o <<"layout">>
<1>1. /\ a \in Seq(Install!Files) /\ EachOnce(a)
      /\ Members(a) = {"cli"} \cup (IF layout = "split" THEN {"daemon"} ELSE {})
  BY ArtifactsOf
<1>2. "layout" \in Install!Files /\ "schema" \in Install!Files
  BY DEF Install!Files
<1> HIDE DEF a
<1>3. r = Append(a, "layout")
  BY <1>1, <1>2, OneMore
<1>4. /\ r \in Seq(Install!Files) /\ EachOnce(r)
      /\ Members(r) = {"cli", "layout"} \cup (IF layout = "split" THEN {"daemon"} ELSE {})
  <2>1. "layout" \notin Members(a)
    BY <1>1
  <2>2. r \in Seq(Install!Files) /\ EachOnce(r) /\ Members(r) = Members(a) \cup {"layout"}
    BY <1>1, <1>2, <1>3, <2>1, FileAppended
  <2> HIDE DEF r
  <2> QED
    BY <2>2, <1>1
<1>5. q = r \o (IF withSchema THEN <<"schema">> ELSE <<>>)
  BY DEF a
<1> HIDE DEF r
<1>6. CASE withSchema
  <2>1. q = Append(r, "schema")
    BY <1>2, <1>4, <1>5, <1>6, OneMore
  <2>2. "schema" \notin Members(r)
    BY <1>4
  <2>3. q \in Seq(Install!Files) /\ EachOnce(q) /\ Members(q) = Members(r) \cup {"schema"}
    BY <1>2, <1>4, <2>1, <2>2, FileAppended
  <2> QED
    BY <2>3, <1>4, <1>6
<1>7. CASE ~withSchema
  <2>1. q = r \o <<>>
    BY <1>5, <1>7
  <2>2. q = r
    BY <2>1, <1>4, ConcatEmptySeq
  <2> QED
    BY <2>2, <1>4, <1>7
<1> QED
  BY <1>6, <1>7

\* Some of a list of files are such a list.
LEMMA SomeOfTheFiles ==
  ASSUME NEW s \in Seq(Install!Files), EachOnce(s), NEW I
  PROVE  /\ Install!Keep(s, I) \in Seq(Install!Files) /\ EachOnce(Install!Keep(s, I))
         /\ \A f : f \in Members(Install!Keep(s, I)) <=> \E i \in 1..Len(s) : i \in I /\ f = s[i]
<1>1. /\ Install!Keep(s, I) \in Seq(Install!Files)
      /\ \A j \in 1..Len(Install!Keep(s, I)) : \E i \in 1..Len(s) : i \in I /\ Install!Keep(s, I)[j] = s[i]
      /\ \A i \in 1..Len(s) : i \in I => \E j \in 1..Len(Install!Keep(s, I)) : Install!Keep(s, I)[j] = s[i]
  <2>1. /\ Keep(s, I) \in Seq(Install!Files)
        /\ \A j \in 1..Len(Keep(s, I)) : \E i \in 1..Len(s) : i \in I /\ Keep(s, I)[j] = s[i]
        /\ \A i \in 1..Len(s) : i \in I => \E j \in 1..Len(Keep(s, I)) : Keep(s, I)[j] = s[i]
    BY KeepElements
  <2>2. Install!Keep(s, I) = Keep(s, I)
    BY InstallKeeps
  <2> QED
    BY <2>1, <2>2
<1>2. \A i, j \in 1..Len(s) : s[i] = s[j] => i = j
  BY DEF EachOnce
<1>3. EachOnce(Install!Keep(s, I))
  BY <1>2, KeepOnce, InstallKeeps DEF EachOnce
<1> DEFINE k == Install!Keep(s, I)
<1> HIDE DEF k
<1>4. /\ \A j \in 1..Len(k) : \E i \in 1..Len(s) : i \in I /\ k[j] = s[i]
      /\ \A i \in 1..Len(s) : i \in I => \E j \in 1..Len(k) : k[j] = s[i]
  BY <1>1 DEF k
<1>5. ASSUME NEW f PROVE f \in Members(k) <=> \E i \in 1..Len(s) : i \in I /\ f = s[i]
  <2>1. f \in Members(k) <=> \E j \in 1..Len(k) : k[j] = f
    BY DEF Members
  <2> QED
    BY <1>4, <2>1
<1> QED
  BY <1>1, <1>3, <1>5 DEF k

\* The files that a rollback may swap, and those it does.
SwapNames(layout) == Install!Artifacts(layout) \o <<"schema">>
There(names) == {i \in DOMAIN names : previous_[names[i]] # Install!None}
ToSwap(names) == Append(Install!Keep(names, There(names)), "layout")

\* The files of a rollback have a former one each, and none of a uniform build is missing.
LEMMA FilesToSwap ==
  ASSUME NEW layout, NEW q, q = ToSwap(SwapNames(layout))
  PROVE  /\ q \in Seq(Install!Files) /\ EachOnce(q) /\ "layout" \in Members(q)
         /\ \A f \in Members(q) \ {"layout"} : previous_[f] # Install!None
         /\ previous_["cli"] # Install!None => "cli" \in Members(q)
         /\ layout = "split" /\ previous_["daemon"] # Install!None => "daemon" \in Members(q)
<1>1. /\ Install!Artifacts(layout) \in Seq(Install!Files) /\ EachOnce(Install!Artifacts(layout))
      /\ Members(Install!Artifacts(layout)) = {"cli"} \cup (IF layout = "split" THEN {"daemon"} ELSE {})
  BY ArtifactsOf
<1>2. "layout" \in Install!Files /\ "schema" \in Install!Files
  BY DEF Install!Files
<1> DEFINE names == SwapNames(layout)  k == Install!Keep(names, There(names))
<1>3. names = Append(Install!Artifacts(layout), "schema")
  BY <1>1, <1>2, OneMore DEF SwapNames
<1> HIDE DEF names
<1>4. /\ names \in Seq(Install!Files) /\ EachOnce(names)
      /\ Members(names) = {"cli", "schema"} \cup (IF layout = "split" THEN {"daemon"} ELSE {})
  <2>1. "schema" \notin Members(Install!Artifacts(layout))
    BY <1>1
  <2>2. names \in Seq(Install!Files) /\ EachOnce(names) /\ Members(names) = Members(Install!Artifacts(layout)) \cup {"schema"}
    BY <1>1, <1>2, <1>3, <2>1, FileAppended
  <2> QED
    BY <2>2, <1>1
<1>5. \A i : i \in There(names) <=> i \in 1..Len(names) /\ previous_[names[i]] # Install!None
  BY <1>4 DEF There
<1>6. /\ k \in Seq(Install!Files) /\ EachOnce(k)
      /\ \A f : f \in Members(k) <=> \E i \in 1..Len(names) : i \in There(names) /\ f = names[i]
  BY <1>4, SomeOfTheFiles
<1>7. q = Append(k, "layout")
  BY DEF ToSwap, names
<1> HIDE DEF k
<1>8. ASSUME NEW f PROVE f \in Members(k) <=> f \in Members(names) /\ previous_[f] # Install!None
  <2>1. f \in Members(names) <=> \E i \in 1..Len(names) : f = names[i]
    BY DEF Members
  <2>2. f \in Members(k) <=> \E i \in 1..Len(names) : i \in There(names) /\ f = names[i]
    BY <1>6
  <2> QED
    BY <1>5, <2>1, <2>2
<1>9. "layout" \notin Members(k)
  BY <1>4, <1>8
<1>10. q \in Seq(Install!Files) /\ EachOnce(q) /\ Members(q) = Members(k) \cup {"layout"}
  BY <1>2, <1>6, <1>7, <1>9, FileAppended
<1> QED
  BY <1>4, <1>8, <1>10

\* An operation has begun with the files q.
\* An operation that begins has its files yet to go through, and none is moved.
LEMMA BeginKeepsShapes ==
  ASSUME InstIInv, NEW q \in Seq(Install!Files), EachOnce(q), Members(q) # {},
         NEW what \in {"promote", "rollback"}, Install!Begin(what, q), doing_ = "idle",
         builds_' \in builds_..MaxBuilds, what = "promote" => builds_' # 0,
         current_' = current_, previous_' = previous_, next_' \in [Install!Files -> 0..builds_'],
         layoutOf' \in [Install!Builds -> Layouts \cup {"single"}], answer' = "none",
         faults_' = faults_, crashes_' = crashes_, spoilt' = spoilt
  PROVE  /\ InstShapes' /\ Ahead' = Members(q) /\ Through' = {}
         /\ \A f : ~Under(f, 2)' /\ ~Under(f, 3)'
         /\ \A f \in Install!Files : Untouched(f)'
<1>1. doing_' = what /\ aside_' = Install!Nothing /\ toMove' = q /\ turn' = 1 /\ done' = <<>> /\ before' = current_
  BY DEF Install!Begin
<1>2. builds_ \in Nat /\ builds_' \in Nat /\ builds_ <= builds_' /\ builds_' \in 0..MaxBuilds
  BY BuildsAreCounted DEF InstIInv, InstShapes, Install!InstallationAssumption
<1>3. \A v \in [Install!Files -> 0..builds_] : v \in [Install!Files -> 0..builds_']
  BY <1>2
<1>4. Install!Nothing \in [Install!Files -> 0..builds_'] /\ \A f \in Install!Files : Install!Nothing[f] = Install!None
  BY <1>2 DEF Install!Nothing, Install!None
<1>5. {current_', previous_', next_', aside_', before'} \subseteq [Install!Files -> 0..builds_']
  BY <1>1, <1>3, <1>4 DEF InstIInv, InstShapes
<1>6. Ahead' = Members(q) /\ Through' = {} /\ EachOnce(done') /\ done' \in Seq(Install!Files)
  BY <1>1, EmptySeq DEF Ahead, Through, Members, EachOnce
<1>7. toMove' # <<>>
  BY <1>1, ListOfFiles
<1>8. InstShapes'
  BY <1>1, <1>2, <1>5, <1>6, <1>7 DEF InstIInv, InstShapes
<1>9. \A f : ~Under(f, 2)' /\ ~Under(f, 3)'
  BY <1>1 DEF Under
<1>10. \A f \in Install!Files : Untouched(f)'
  BY <1>1, <1>4 DEF Untouched
<1> QED
  BY <1>6, <1>8, <1>9, <1>10

\* The beginning of a promotion keeps the invariant.
LEMMA InstallPromoteKeeps ==
  ASSUME InstIInv, NEW layout \in Layouts, NEW withSchema \in BOOLEAN, Install!Promote(layout, withSchema)
  PROVE  InstIInv'
<1> DEFINE b == builds_ + 1
           q == Install!Artifacts(layout) \o <<"layout">> \o (IF withSchema THEN <<"schema">> ELSE <<>>)
<1>1. /\ doing_ = "idle" /\ b \in Install!Builds /\ builds_' = b
      /\ layoutOf' = [layoutOf EXCEPT ![b] = layout]
      /\ next_' = [f \in Install!Files |-> IF f \in Members(q) THEN b ELSE Install!None]
      /\ Install!Begin("promote", q) /\ answer' = "none"
      /\ UNCHANGED <<current_, previous_, Install!counters, spoilt>>
  BY ToSetIs DEF Install!Promote
<1>2. /\ q \in Seq(Install!Files) /\ EachOnce(q)
      /\ Members(q) = {"cli", "layout"} \cup (IF layout = "split" THEN {"daemon"} ELSE {})
                                        \cup (IF withSchema THEN {"schema"} ELSE {})
  BY FilesToPlace
<1> HIDE DEF q
<1>3. builds_ \in Nat /\ b \in builds_..MaxBuilds /\ b # 0 /\ b # 1 + builds_ + 1
  BY <1>1, BuildsAreCounted DEF InstIInv, InstShapes, Install!InstallationAssumption, Install!Builds
<1>4. next_' \in [Install!Files -> 0..b] /\ \A f \in Members(q) \cap Install!Files : next_'[f] = b
  BY <1>1, <1>3 DEF Install!None
<1>5. /\ layoutOf' \in [Install!Builds -> Layouts \cup {"single"}] /\ layoutOf'[b] = layout
      /\ \A c \in 1..builds_ : layoutOf'[c] = layoutOf[c]
  <2>1. layoutOf \in [Install!Builds -> Layouts \cup {"single"}]
    BY DEF InstIInv, InstShapes
  <2>2. \A c \in 1..builds_ : c \in Install!Builds /\ c # b
    BY <1>1, <1>3, BuildsAreCounted DEF Install!Builds, Install!InstallationAssumption
  <2> QED
    BY <2>1, <2>2, <1>1
<1>6. doing_' = "promote" /\ before' = current_
  BY <1>1 DEF Install!Begin
<1>7. /\ InstShapes' /\ Ahead' = Members(q) /\ Through' = {}
      /\ \A f : ~Under(f, 2)' /\ ~Under(f, 3)'
      /\ \A f \in Install!Files : Untouched(f)'
  BY <1>1, <1>2, <1>3, <1>4, <1>5, BeginKeepsShapes DEF Install!counters
<1>8. EachFile'
  BY <1>1, <1>4, <1>6, <1>7 DEF EachFile, PromotesAt
<1>9. OfOneBuild'
  <2> SUFFICES ASSUME Alike' PROVE Uniform(before)' /\ Parts' \subseteq Ahead'
    BY <1>6 DEF OfOneBuild
  <2>1. faults_' = 0 /\ ~spoilt' /\ \A c, d \in 1..b : layoutOf'[c] = layoutOf'[d]
    BY <1>1 DEF Alike
  <2>2. 1 \in 1..b /\ b \in 1..b /\ \A c \in 1..builds_ : c \in 1..b
    BY <1>3
  <2>3. layoutOf'[1] = layout
    BY <2>1, <2>2, <1>5
  <2>4. Parts' \subseteq Ahead'
    BY <1>1, <1>2, <1>3, <1>7, <2>3 DEF Parts
  <2>5. CASE builds_ = 0
    <3>1. \A f \in Install!Files : current_[f] = 0
      BY <2>5 DEF InstIInv, InstShapes
    <3>2. Parts' \subseteq Install!Files /\ "layout" \in Install!Files
      BY DEF Parts, Install!Files
    <3> QED
      BY <1>6, <2>4, <3>1, <3>2 DEF Uniform
  <2>6. CASE builds_ # 0
    <3>1. Alike
      BY <2>1, <2>2, <1>1, <1>5 DEF Alike, Install!counters
    <3>2. Uniform(current_)
      BY <1>1, <3>1 DEF InstIInv, OfOneBuild
    <3>3. layoutOf[1] = layoutOf'[1]
      BY <2>6, <1>3, <1>5
    <3>4. Parts' = Parts
      BY <1>1, <1>3, <2>6, <3>3 DEF Parts
    <3> QED
      BY <1>6, <2>4, <3>2, <3>4 DEF Uniform
  <2> QED
    BY <2>5, <2>6
<1> QED
  BY <1>7, <1>8, <1>9 DEF InstIInv

\* So does the beginning of a rollback.
LEMMA RollbackKeeps ==
  ASSUME InstIInv, Install!Rollback
  PROVE  InstIInv'
<1> DEFINE layout == IF "split" \in {Install!LayoutIn(current_), Install!LayoutIn(previous_)} THEN "split" ELSE "single"
           q == ToSwap(SwapNames(layout))
<1>1. /\ doing_ = "idle" /\ previous_["layout"] # Install!None /\ Install!Begin("rollback", q) /\ answer' = "none"
      /\ UNCHANGED <<current_, previous_, next_, layoutOf, builds_, faults_, crashes_, spoilt>>
  BY DEF Install!Rollback, ToSwap, There, SwapNames
<1>2. /\ q \in Seq(Install!Files) /\ EachOnce(q) /\ "layout" \in Members(q)
      /\ \A f \in Members(q) \ {"layout"} : previous_[f] # Install!None
      /\ previous_["cli"] # Install!None => "cli" \in Members(q)
      /\ layout = "split" /\ previous_["daemon"] # Install!None => "daemon" \in Members(q)
  <2> HIDE DEF layout
  <2> QED
    BY FilesToSwap
<1>3. Install!LayoutIn(previous_) = "split" => layout = "split"
  OBVIOUS
<1> HIDE DEF q, layout
<1>4. /\ builds_ \in Nat /\ builds_ \in builds_..MaxBuilds /\ next_ \in [Install!Files -> 0..builds_]
      /\ layoutOf \in [Install!Builds -> Layouts \cup {"single"}]
  BY BuildsAreCounted DEF InstIInv, InstShapes, Install!InstallationAssumption
<1>5. doing_' = "rollback" /\ before' = current_
  BY <1>1 DEF Install!Begin
<1>6. /\ InstShapes' /\ Ahead' = Members(q) /\ Through' = {}
      /\ \A f : ~Under(f, 2)' /\ ~Under(f, 3)'
      /\ \A f \in Install!Files : Untouched(f)'
  <2>1. Members(q) # {}
    BY <1>2
  <2> QED
    BY <1>1, <1>2, <1>4, <2>1, BeginKeepsShapes
<1>7. EachFile'
  BY <1>1, <1>2, <1>5, <1>6 DEF EachFile, RollsBackAt
<1>8. OfOneBuild'
  <2> SUFFICES ASSUME Alike'
               PROVE Uniform(before)' /\ Parts' \subseteq Ahead' /\ \A f \in Parts' : Former(f)' = Former("layout")'
    BY <1>5 DEF OfOneBuild
  <2>1. Alike /\ Parts' = Parts
    BY <1>1 DEF Alike, Parts
  <2>2. Uniform(current_) /\ Uniform(previous_)
    BY <1>1, <2>1 DEF InstIInv, OfOneBuild
  <2>3. \A f \in Parts : previous_[f] # Install!None
    BY <1>1, <2>2 DEF Uniform
  <2>4. "daemon" \in Parts => layout = "split"
    <3> SUFFICES ASSUME "daemon" \in Parts PROVE Install!LayoutIn(previous_) = "split"
      BY <1>3
    <3>1. builds_ # 0 /\ layoutOf[1] = "split"
      BY DEF Parts
    <3>2. previous_["layout"] \in 1..builds_ /\ 1 \in 1..builds_
      <4>1. previous_["layout"] \in 0..builds_
        BY DEF InstIInv, InstShapes, Install!Files
      <4> QED
        BY <4>1, <3>1, <1>1, <1>4 DEF Install!None
    <3>3. layoutOf[previous_["layout"]] = layoutOf[1]
      BY <2>1, <3>2 DEF Alike
    <3> QED
      BY <1>1, <3>1, <3>3 DEF Install!LayoutIn
  <2>5. Parts \subseteq {"layout", "cli", "daemon"}
    BY DEF Parts
  <2>6. Parts \subseteq Ahead'
    BY <2>3, <2>4, <2>5, <1>2, <1>6
  <2>7. \A f : Former(f)' = previous_[f]
    BY <1>1, <1>6 DEF Former
  <2> QED
    BY <1>5, <2>1, <2>2, <2>6, <2>7 DEF Uniform
<1> QED
  BY <1>6, <1>7, <1>8 DEF InstIInv

-----------------------------------------------------------------------------

\* The invariant holds at first.
LEMMA InstInit == Install!Init => InstIInv
<1> SUFFICES ASSUME Install!Init PROVE InstIInv
  OBVIOUS
<1>1. /\ builds_ = 0 /\ doing_ = "idle" /\ toMove = <<>> /\ turn = 1 /\ done = <<>>
      /\ current_ = Install!Nothing /\ previous_ = Install!Nothing /\ next_ = Install!Nothing /\ aside_ = Install!Nothing /\ before = Install!Nothing
      /\ answer = "none" /\ faults_ = 0 /\ crashes_ = 0 /\ spoilt = FALSE
      /\ layoutOf = [b \in Install!Builds |-> "single"]
  BY DEF Install!Init
<1>2. Install!Nothing \in [Install!Files -> 0..builds_] /\ \A f \in Install!Files : Install!Nothing[f] = Install!None
  BY <1>1 DEF Install!Nothing, Install!None
<1>3. Ahead = {} /\ Through = {} /\ EachOnce(toMove) /\ EachOnce(done)
  BY <1>1, EmptySeq DEF Ahead, Through, Members, EachOnce
<1>4. InstShapes
  <2>1. {current_, previous_, next_, aside_, before} \subseteq [Install!Files -> 0..builds_]
    BY <1>1, <1>2
  <2>2. builds_ \in 0..MaxBuilds /\ layoutOf \in [Install!Builds -> Layouts \cup {"single"}]
    BY <1>1, BuildsAreCounted DEF Install!InstallationAssumption
  <2>3. toMove \in Seq(Install!Files) /\ done \in Seq(Install!Files) /\ turn \in 1..3
    BY <1>1
  <2> QED
    BY <1>1, <1>3, <2>1, <2>2, <2>3 DEF InstShapes
<1>5. EachFile
  BY <1>1, <1>2 DEF EachFile, RestsAt
<1>6. OfOneBuild
  BY <1>1 DEF OfOneBuild, Uniform, Parts
<1> QED
  BY <1>4, <1>5, <1>6 DEF InstIInv

\* Every step keeps it.
LEMMA InstNext == InstIInv /\ [Install!Next]_(Install!vars) => InstIInv'
<1> SUFFICES ASSUME InstIInv, [Install!Next]_(Install!vars) PROVE InstIInv'
  OBVIOUS
<1>1. CASE \E layout \in Layouts, withSchema \in BOOLEAN : Install!Promote(layout, withSchema)
  BY <1>1, InstallPromoteKeeps
<1>2. CASE Install!Rollback
  BY <1>2, RollbackKeeps
<1>3. CASE Install!Step
  <2>1. InstShapes'
    BY <1>3, StepKeepsShapes DEF InstIInv
  <2> QED
    BY <1>3, <2>1, StepKeepsFiles, StepKeepsOneBuild DEF InstIInv
<1>4. CASE Install!StepFails
  BY <1>4, InstallFailKeeps
<1>5. CASE Install!End
  BY <1>5, EndKeeps
<1>6. CASE Install!Crash
  BY <1>6, CrashKeeps
<1>7. CASE UNCHANGED Install!vars
  <2>1. UNCHANGED Install!vars
    BY <1>7
  <2>2. InstShapes'
    <3>1. InstShapes /\ EachOnce(toMove)' = EachOnce(toMove) /\ EachOnce(done)' = EachOnce(done)
          /\ Ahead' = Ahead /\ Through' = Through
      BY <2>1 DEF Install!vars, InstIInv, EachOnce, Ahead, Through, Members
    <3> QED
      BY <2>1, <3>1 DEF Install!vars, Install!counters, InstShapes
  <2>3. UNCHANGED <<Ahead, Through>> /\ \A f, n : Under(f, n)' = Under(f, n)
    BY <2>1 DEF Install!vars, Ahead, Through, Members, Under
  <2>4. EachFile'
    BY <2>1, <2>3 DEF Install!vars, Install!counters, InstIInv, EachFile, PromotesAt, RollsBackAt, UndoesAt, RestsAt,
                      Untouched, Exchanged
  <2>5. OfOneBuild'
    BY <2>1, <2>3 DEF Install!vars, Install!counters, InstIInv, OfOneBuild, Alike, Parts, Former, Uniform
  <2> QED
    BY <2>2, <2>4, <2>5 DEF InstIInv
<1> QED
  BY <1>1, <1>2, <1>3, <1>4, <1>5, <1>6, <1>7 DEF Install!Next

\* It implies the properties that the runs check.
LEMMA InstImplies == InstIInv => Install!InstallationIsSound
<1> SUFFICES ASSUME InstIInv PROVE Install!InstallationIsSound
  OBVIOUS
<1>1. doing_ \in {"idle", "promote", "rollback", "undo"} /\ builds_ \in 0..MaxBuilds
  BY DEF InstIInv, InstShapes
<1>2. Install!TypeOK
  <2>1. \A v \in [Install!Files -> 0..builds_] : v \in [Install!Files -> 0..MaxBuilds]
    BY <1>1, BuildsAreCounted DEF Install!InstallationAssumption
  <2> QED
    BY <2>1 DEF InstIInv, InstShapes, Install!TypeOK
<1>3. \A f \in Install!Files : before[f] \in {current_[f], previous_[f], aside_[f], Install!None}
  <2> TAKE f \in Install!Files
  <2>1. CASE doing_ = "promote"
    BY <2>1 DEF InstIInv, EachFile, PromotesAt, Untouched, Exchanged
  <2>2. CASE doing_ = "rollback"
    BY <2>2 DEF InstIInv, EachFile, RollsBackAt, Untouched, Exchanged
  <2>3. CASE doing_ = "undo"
    BY <2>3 DEF InstIInv, EachFile, UndoesAt, Untouched, Exchanged
  <2>4. CASE doing_ = "idle"
    BY <2>4 DEF InstIInv, EachFile, RestsAt
  <2> QED
    BY <1>1, <2>1, <2>2, <2>3, <2>4
<1>4. ASSUME crashes_ = 0, NEW f \in Install!Files, before[f] # Install!None, current_[f] = Install!None
      PROVE  f = Head(toMove)
  <2>1. CASE doing_ = "promote"
    BY <2>1, <1>4 DEF InstIInv, EachFile, PromotesAt, Untouched, Exchanged, Under
  <2>2. CASE doing_ = "rollback"
    BY <2>2, <1>4 DEF InstIInv, EachFile, RollsBackAt, Untouched, Exchanged, Under
  <2>3. CASE doing_ = "undo"
    BY <2>3, <1>4 DEF InstIInv, EachFile, UndoesAt, Untouched, Exchanged, Under
  <2>4. CASE doing_ = "idle"
    BY <2>4, <1>4 DEF InstIInv, EachFile, RestsAt
  <2> QED
    BY <1>1, <2>1, <2>2, <2>3, <2>4
<1>5. Install!NothingIsLost
  BY <1>3, <1>4 DEF Install!NothingIsLost
<1>6. Install!SuccessIsOneBuild
  <2> SUFFICES ASSUME doing_ = "idle", Alike, current_["layout"] # Install!None,
                      NEW i \in DOMAIN Install!Artifacts(Install!LayoutIn(current_))
               PROVE  current_[Install!Artifacts(Install!LayoutIn(current_))[i]] = current_["layout"]
    BY DEF Install!SuccessIsOneBuild, Install!OneBuild, Alike
  <2> DEFINE layout == Install!LayoutIn(current_)
  <2>1. current_["layout"] \in 1..builds_ /\ 1 \in 1..builds_ /\ builds_ # 0
    <3>1. current_["layout"] \in 0..builds_
      BY DEF InstIInv, InstShapes, Install!Files
    <3> QED
      BY <1>1, <3>1, BuildsAreCounted DEF Install!None, Install!InstallationAssumption
  <2>2. layout = layoutOf[1]
    BY <2>1 DEF Install!LayoutIn, Alike
  <2>3. Install!Artifacts(layout)[i] \in {"cli"} \cup (IF layout = "split" THEN {"daemon"} ELSE {})
    <3>1. /\ Install!Artifacts(layout) \in Seq(Install!Files)
          /\ Members(Install!Artifacts(layout)) = {"cli"} \cup (IF layout = "split" THEN {"daemon"} ELSE {})
      BY ArtifactsOf
    <3> HIDE DEF layout
    <3>2. i \in 1..Len(Install!Artifacts(layout))
      BY <3>1 DEF layout
    <3>3. Install!Artifacts(layout)[i] \in Members(Install!Artifacts(layout))
      BY <3>2 DEF Members
    <3> QED
      BY <3>1, <3>3
  <2>4. Install!Artifacts(layout)[i] \in Parts
    BY <2>1, <2>2, <2>3 DEF Parts
  <2>5. Uniform(current_)
    BY DEF InstIInv, OfOneBuild
  <2> QED
    BY <2>4, <2>5 DEF Uniform
<1> QED
  BY <1>2, <1>5, <1>6 DEF Install!InstallationIsSound

\* Nothing is lost, and success installs one build.
LEMMA OperationsAreSound == Install!Spec => []Install!InstallationIsSound
<1>1. Install!Spec => []InstIInv
  BY InstInit, InstNext, PTL DEF Install!Spec
<1> QED
  BY <1>1, InstImplies, PTL

\* An operation that fails, and whose undo does not, leaves every file as it was.
LEMMA OperationsRestore == Install!Spec => Install!FailureChangesNothing
<1> DEFINE A == doing_ = "undo" /\ doing_' = "idle" /\ ~spoilt' =>
                  \A f \in Install!Files : before[f] # Install!None => current_'[f] = before[f]
<1>1. InstIInv /\ [Install!Next]_(Install!vars) => [A]_(Install!vars)
  <2> SUFFICES ASSUME InstIInv, [Install!Next]_(Install!vars), doing_ = "undo", doing_' = "idle", ~spoilt',
                      NEW f \in Install!Files, before[f] # Install!None
               PROVE  current_'[f] = before[f]
    OBVIOUS
  <2>1. Install!Next
    BY DEF Install!vars
  <2>2. Install!End
    <3>1. ~ \E layout \in Layouts, withSchema \in BOOLEAN : Install!Promote(layout, withSchema)
      BY DEF Install!Promote
    <3>2. ~Install!Rollback
      BY DEF Install!Rollback
    <3>3. ~Install!Step
      BY DEF Install!Step
    <3>4. ~Install!StepFails
      BY DEF Install!StepFails
    <3>5. ~Install!Crash
      BY DEF Install!Crash
    <3> QED
      BY <2>1, <3>1, <3>2, <3>3, <3>4, <3>5 DEF Install!Next
  <2>3. toMove = <<>> /\ current_' = current_ /\ spoilt' = spoilt
    BY <2>2 DEF Install!End
  <2>4. f \notin Ahead /\ UndoesAt(f)
    BY <2>3, EmptySeq DEF Ahead, Members, InstIInv, EachFile
  <2> QED
    BY <2>3, <2>4 DEF UndoesAt, Untouched
<1>2. Install!Spec => []InstIInv
  BY InstInit, InstNext, PTL DEF Install!Spec
<1>3. Install!Spec => [][A]_(Install!vars)
  BY <1>1, <1>2, PTL DEF Install!Spec
<1> QED
  BY <1>3 DEF Install!FailureChangesNothing

\* Whatever is killed or fails, no file that was there is lost, and what succeeds installs one build.
THEOREM InstallationsAreSound == ServiceSpec => []InstallationIsSound
<1>1. Install!InstallationIsSound => InstallationIsSound
  BY DEF InstallationIsSound
<1> QED
  BY <1>1, ServiceImplementsItsParts, OperationsAreSound, PTL

\* An installation that fails changes nothing.
THEOREM FailureIsUndone == ServiceSpec => FailureChangesNothing
  BY ServiceImplementsItsParts, OperationsRestore DEF FailureChangesNothing
=============================================================================
