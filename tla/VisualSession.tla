---------------------------- MODULE VisualSession ----------------------------
(***************************************************************************)
(* The visual session: the TUIs (src/client/session-source.ts over         *)
(* src/client/ipc-client.ts) that show the daemon's recent calls, and the  *)
(* daemon's side of it (src/daemon/ipc-server.ts): one exclusive lease, a  *)
(* snapshot on request, and the events of the session from then on.        *)
(*                                                                         *)
(* A connection is a pair of FIFO channels and an open flag at each end.   *)
(* An end that is closed reads nothing any more; what the other end sent   *)
(* may be read to the last message or be lost when the close is noticed.   *)
(***************************************************************************)
EXTENDS RuntimeSession, SequencesExt

CONSTANTS
  Tuis,           \* TUI processes
  Conns,          \* identities of connections, used again once both ends are closed
  NoConn,
  OverLimit,      \* calls whose result does not fit into a frame once it is encoded
  LeaseTimeout,   \* leaseTimeoutMs, in heartbeats
  MaxFaults       \* bound on request timeouts, freezes and daemon restarts together

ASSUME SessionAssumption ==
  /\ NoConn \notin Conns
  /\ OverLimit \subseteq Calls
  /\ LeaseTimeout \in Nat \ {0}
  /\ MaxFaults \in Nat

VARIABLES
  up,             \* the daemon listens on its socket
  progress,       \* what has become of each call
  rows,           \* the daemon's session: RuntimeSessionStore.order and calls
  lease,          \* visualLease.socket
  age,            \* heartbeats since lastHeartbeatAt, counted up to LeaseTimeout
  visual,         \* connections whose hello the server has seen
  subscribed,     \* connections with ClientState.subscribed
  serverOpen,     \* connections the server has in its clients map
  clientOpen,     \* connections the TUI's end of which is not destroyed
  toServer,       \* what each connection carries to the server
  toClient,       \* what each connection carries to the TUI
  tui,            \* the session source of each TUI
  view,           \* the session each TUI shows
  faults

server == <<lease, age, visual, subscribed, serverOpen>>
wires == <<clientOpen, toServer, toClient>>
daemon == <<up, progress, rows>>
vars == <<daemon, server, wires, tui, view, faults>>

States == {"disconnected", "connecting", "connected", "reconnecting", "stopped"}

\* Where connectLoop is: it waits for the socket to open, for the answer to hello,
\* attach or snapshot.request, has the whole snapshot but has not gone on yet, is
\* done (synchronized), or sleeps before the next attempt.
Asking == {"hello", "attach", "snapshot"}
Places == Asking \cup {"idle", "opening", "resolved", "synchronized", "sleeping"}

At(state, loop, c) ==
  [state |-> state, loop |-> loop, conn |-> c, got |-> <<>>, pending |-> <<>>]

Init ==
  /\ up = TRUE
  /\ progress = [k \in Calls |-> "new"]
  /\ rows = <<>>
  /\ lease = NoConn
  /\ age = 0
  /\ visual = {}
  /\ subscribed = {}
  /\ serverOpen = {}
  /\ clientOpen = {}
  /\ toServer = [c \in Conns |-> <<>>]
  /\ toClient = [c \in Conns |-> <<>>]
  /\ tui = [t \in Tuis |-> At("disconnected", "idle", NoConn)]
  /\ view = [t \in Tuis |-> <<>>]
  /\ faults = 0

-----------------------------------------------------------------------------
\* encodeFrame throws for the row of a finished call with such a result.
FitsFrame(row) == row.status = "running" \/ row.call \notin OverLimit

-----------------------------------------------------------------------------
(***************************************************************************)
(* The server.                                                             *)
(***************************************************************************)
Is(type) == [type |-> type]

\* send: a frame that is too large is replaced by an error.
EventFrame(row) == IF FitsFrame(row) THEN [type |-> "event", row |-> row] ELSE Is("error")
SnapshotFrames ==
  IF \A i \in DOMAIN rows : FitsFrame(rows[i])
    THEN [type |-> "snapshot", rows |-> rows]
    ELSE Is("error")

\* forwardEvent.
Forward(row) ==
  IF lease \in subscribed \cap clientOpen
    THEN toClient' = [toClient EXCEPT ![lease] = Append(@, EventFrame(row))]
    ELSE UNCHANGED toClient

\* The daemon consumes an event and then tells its listeners.
Publish(row) ==
  /\ rows' = Consume(rows, row)
  /\ Forward(row)
  /\ UNCHANGED <<up, server, clientOpen, toServer, tui, view, faults>>

CallStarts(k) ==
  /\ up
  /\ progress[k] = "new"
  /\ progress' = [progress EXCEPT ![k] = "running"]
  /\ Publish([call |-> k, status |-> "running"])

CallEnds(k) ==
  /\ up
  /\ progress[k] = "running"
  /\ progress' = [progress EXCEPT ![k] = "done"]
  /\ Publish([call |-> k, status |-> "done"])

Hears(c, type) == c \in serverOpen /\ toServer[c] # <<>> /\ Head(toServer[c]) = Is(type)

\* The message is read and answered.
Answer(c, answers) ==
  /\ toServer' = [toServer EXCEPT ![c] = Tail(@)]
  /\ toClient' = [toClient EXCEPT ![c] = IF c \in clientOpen THEN @ \o answers ELSE <<>>]
  /\ UNCHANGED <<daemon, serverOpen, clientOpen, tui, view, faults>>

HearHello(c) ==
  /\ Hears(c, "hello")
  /\ visual' = visual \cup {c}
  /\ Answer(c, <<Is("hello.ack")>>)
  /\ UNCHANGED <<lease, age, subscribed>>

\* Mutant: the last one who asks gets the lease.
HearAttachAnyway(c) ==
  /\ Hears(c, "attach")
  /\ lease' = c /\ age' = 0
  /\ Answer(c, <<Is("attached")>>)
  /\ UNCHANGED <<visual, subscribed>>

HearAttach(c) ==
  /\ Hears(c, "attach")
  /\ IF c \notin visual
       THEN Answer(c, <<Is("error")>>) /\ UNCHANGED <<lease, age>>
     ELSE IF lease \notin {c, NoConn}
       THEN Answer(c, <<Is("already-attached")>>) /\ UNCHANGED <<lease, age>>
     ELSE /\ Answer(c, <<Is("attached")>>)
          /\ lease' = c
          /\ age' = IF lease = c THEN age ELSE 0
  /\ UNCHANGED <<visual, subscribed>>

HearSubscribe(c) ==
  /\ Hears(c, "subscribe")
  /\ IF lease = c
       THEN subscribed' = subscribed \cup {c} /\ Answer(c, <<>>)
       ELSE UNCHANGED subscribed /\ Answer(c, <<Is("error")>>)
  /\ UNCHANGED <<lease, age, visual>>

HearSnapshotRequest(c) ==
  /\ Hears(c, "snapshot.request")
  /\ Answer(c, <<IF lease = c THEN SnapshotFrames ELSE Is("error")>>)
  /\ UNCHANGED <<lease, age, visual, subscribed>>

\* The pong is left out: the client ignores it.
HearPing(c) ==
  /\ Hears(c, "ping")
  /\ age' = IF lease = c THEN 0 ELSE age
  /\ Answer(c, <<>>)
  /\ UNCHANGED <<lease, visual, subscribed>>

HearDetach(c) ==
  /\ Hears(c, "detach")
  /\ lease' = IF lease = c THEN NoConn ELSE lease
  /\ subscribed' = subscribed \ {c}
  /\ Answer(c, <<>>)
  /\ UNCHANGED <<age, visual>>

Hear(c) ==
  \/ HearHello(c) \/ HearAttach(c) \/ HearSubscribe(c)
  \/ HearSnapshotRequest(c) \/ HearPing(c) \/ HearDetach(c)

\* Everything the server knows of these connections is gone, their sockets are
\* destroyed; the lease is released if one of them had it.
Forget(gone) ==
  /\ serverOpen' = serverOpen \ gone
  /\ visual' = visual \ gone
  /\ subscribed' = subscribed \ gone
  /\ lease' = IF lease \in gone THEN NoConn ELSE lease
  /\ toServer' = [c \in Conns |-> IF c \in gone THEN <<>> ELSE toServer[c]]
  /\ UNCHANGED <<age, clientOpen, toClient, tui, view>>

\* Mutant: the close handler forgets the connection and not its lease.
SeeCloseKeepingLease(c) ==
  /\ c \in serverOpen \ clientOpen
  /\ serverOpen' = serverOpen \ {c}
  /\ visual' = visual \ {c}
  /\ subscribed' = subscribed \ {c}
  /\ toServer' = [toServer EXCEPT ![c] = <<>>]
  /\ UNCHANGED <<daemon, lease, age, clientOpen, toClient, tui, view, faults>>

\* The close event of a socket, read to the end or not.
SeeClose(c) ==
  /\ c \in serverOpen \ clientOpen
  /\ Forget({c})
  /\ UNCHANGED <<daemon, faults>>

\* The expiry timer: it looks at lastHeartbeatAt again before it acts.
ExpireLease ==
  /\ lease # NoConn
  /\ age = LeaseTimeout
  /\ Forget({lease})
  /\ UNCHANGED <<daemon, faults>>

\* Every request ends within five seconds, by its timeout if need be: a TUI that is
\* still in one after a whole heartbeat was frozen, which counts as a fault.
Tick ==
  /\ age < LeaseTimeout
  /\ age' = age + 1
  /\ IF \E t \in Tuis : tui[t].loop \in Asking
       THEN faults < MaxFaults /\ faults' = faults + 1
       ELSE UNCHANGED faults
  /\ UNCHANGED <<daemon, lease, visual, subscribed, serverOpen, wires, tui, view>>

\* The daemon stops or dies, its operations with it, and comes back with the rows
\* of its history, the running ones included.
DaemonDown ==
  /\ up /\ faults < MaxFaults
  /\ up' = FALSE
  /\ faults' = faults + 1
  /\ progress' = [k \in Calls |-> IF progress[k] = "running" THEN "done" ELSE progress[k]]
  /\ Forget(serverOpen)
  /\ UNCHANGED rows

DaemonUp ==
  /\ ~ up
  /\ up' = TRUE
  /\ UNCHANGED <<progress, rows, server, wires, tui, view, faults>>

-----------------------------------------------------------------------------
(***************************************************************************)
(* The TUI.  Its client is made anew for every attempt, so a connection of *)
(* an earlier attempt has no listener left.                                *)
(***************************************************************************)
Loop(t) == tui[t].loop
ConnOf(t) == tui[t].conn

\* createClient and connect: a socket is on its way.  `open` are the sockets the
\* TUIs keep.
Dial(t, state, open) ==
  \E c \in Conns \ (open \cup serverOpen) :
    /\ clientOpen' = open \cup {c}
    /\ tui' = [tui EXCEPT ![t] = At(state, "opening", c)]

\* The client destroys its socket, having written `farewell`.
Hang(c, farewell) ==
  /\ clientOpen' = clientOpen \ {c}
  /\ toClient' = [d \in Conns |-> IF d = c THEN <<>> ELSE toClient[d]]
  /\ toServer' = [d \in Conns |-> IF d = c /\ c \in serverOpen
                                    THEN toServer[d] \o farewell ELSE toServer[d]]

\* The attempt threw: the loop sleeps before the next one.
Retry(t, farewell) ==
  /\ tui' = [tui EXCEPT ![t] = At("reconnecting", "sleeping", NoConn)]
  /\ Hang(ConnOf(t), farewell)

Start(t) ==
  /\ tui[t].state = "disconnected"
  /\ Dial(t, "connecting", clientOpen)
  /\ UNCHANGED <<daemon, server, toServer, toClient, view, faults>>

Wake(t) ==
  /\ Loop(t) = "sleeping"
  /\ Dial(t, "reconnecting", clientOpen)
  /\ UNCHANGED <<daemon, server, toServer, toClient, view, faults>>

Opens(t) ==
  /\ Loop(t) = "opening"
  /\ IF up
       THEN /\ tui' = [tui EXCEPT ![t].loop = "hello"]
            /\ serverOpen' = serverOpen \cup {ConnOf(t)}
            /\ toServer' = [toServer EXCEPT ![ConnOf(t)] = <<Is("hello")>>]
            /\ UNCHANGED <<clientOpen, toClient>>
       ELSE Retry(t, <<>>) /\ UNCHANGED serverOpen
  /\ UNCHANGED <<daemon, lease, age, visual, subscribed, view, faults>>

\* The next message of the connection, if it is of this type.
Gets(t, type) ==
  /\ ConnOf(t) \in clientOpen
  /\ toClient[ConnOf(t)] # <<>>
  /\ Head(toClient[ConnOf(t)]).type = type

\* It is taken, and the requests are sent.
Take(t, requests) ==
  /\ toClient' = [toClient EXCEPT ![ConnOf(t)] = Tail(@)]
  /\ toServer' = [toServer EXCEPT ![ConnOf(t)] =
                    IF ConnOf(t) \in serverOpen THEN @ \o requests ELSE <<>>]
  /\ UNCHANGED clientOpen

GetAck(t) ==
  /\ Gets(t, "hello.ack") /\ Loop(t) = "hello"
  /\ Take(t, <<Is("attach")>>)
  /\ tui' = [tui EXCEPT ![t].loop = "attach"]
  /\ UNCHANGED <<daemon, server, view, faults>>

\* Mutant: the snapshot is requested before the events are.
GetAttachedLateSubscription(t) ==
  /\ Gets(t, "attached") /\ Loop(t) = "attach"
  /\ Take(t, <<Is("snapshot.request"), Is("subscribe")>>)
  /\ tui' = [tui EXCEPT ![t].loop = "snapshot"]
  /\ UNCHANGED <<daemon, server, view, faults>>

\* connect returns; connectClient subscribes and requests the snapshot.
GetAttached(t) ==
  /\ Gets(t, "attached") /\ Loop(t) = "attach"
  /\ Take(t, <<Is("subscribe"), Is("snapshot.request")>>)
  /\ tui' = [tui EXCEPT ![t].loop = "snapshot"]
  /\ UNCHANGED <<daemon, server, view, faults>>

GetRefused(t) ==
  /\ Gets(t, "already-attached") /\ Loop(t) = "attach"
  /\ Retry(t, <<>>)
  /\ UNCHANGED <<daemon, server, view, faults>>

\* An error rejects the attach or the snapshot that waits, and nothing else.
GetError(t) ==
  /\ Gets(t, "error")
  /\ IF Loop(t) \in {"attach", "snapshot"}
       THEN Retry(t, IF Loop(t) = "snapshot" THEN <<Is("detach")>> ELSE <<>>)
       ELSE Take(t, <<>>) /\ UNCHANGED tui
  /\ UNCHANGED <<daemon, server, view, faults>>

GetSnapshot(t) ==
  /\ Gets(t, "snapshot") /\ Loop(t) = "snapshot"
  /\ Take(t, <<>>)
  /\ tui' = [tui EXCEPT ![t].loop = "resolved",
                        ![t].got = Head(toClient[ConnOf(t)]).rows]
  /\ UNCHANGED <<daemon, server, view, faults>>

\* The listener keeps the newest events until the snapshot is applied.
GetEvent(t) ==
  /\ Gets(t, "event")
  /\ Take(t, <<>>)
  /\ LET row == Head(toClient[ConnOf(t)]).row
         kept == Append(tui[t].pending, row) IN
     IF Loop(t) = "synchronized"
       THEN /\ view' = [view EXCEPT ![t] = Consume(@, row)]
            /\ UNCHANGED tui
       ELSE /\ tui' = [tui EXCEPT ![t].pending =
                         IF Len(kept) > HistoryLimit THEN Tail(kept) ELSE kept]
            /\ UNCHANGED view
  /\ UNCHANGED <<daemon, server, faults>>

\* connectClient goes on with the snapshot, before the socket can close.
Synchronize(t) ==
  /\ Loop(t) = "resolved"
  /\ view' = [view EXCEPT ![t] = ConsumeAll(tui[t].got, tui[t].pending)]
  /\ tui' = [tui EXCEPT ![t] = At("connected", "synchronized", ConnOf(t))]
  /\ UNCHANGED <<daemon, server, wires, faults>>

\* withTimeout rejects.
RequestTimeout(t) ==
  /\ Loop(t) \in Asking
  /\ faults < MaxFaults
  /\ faults' = faults + 1
  /\ Retry(t, IF Loop(t) = "snapshot" THEN <<Is("detach")>> ELSE <<>>)
  /\ UNCHANGED <<daemon, server, view>>

\* The close event: a request that waits is rejected, a synchronized source dials
\* again at once (handleDisconnect).
LoseSocket(t) ==
  /\ Loop(t) \in Asking \cup {"synchronized"}
  /\ ConnOf(t) \notin serverOpen
  /\ IF Loop(t) = "synchronized"
       THEN /\ Dial(t, "reconnecting", clientOpen \ {ConnOf(t)})
            /\ toClient' = [toClient EXCEPT ![ConnOf(t)] = <<>>]
            /\ UNCHANGED toServer
       ELSE Retry(t, <<>>)
  /\ UNCHANGED <<daemon, server, view, faults>>

\* The heartbeat; one at a time is enough.
Ping(t) ==
  /\ Loop(t) \in {"snapshot", "synchronized"}
  /\ ConnOf(t) \in serverOpen
  /\ Is("ping") \notin ToSet(toServer[ConnOf(t)])
  /\ toServer' = [toServer EXCEPT ![ConnOf(t)] = Append(@, Is("ping"))]
  /\ UNCHANGED <<daemon, server, clientOpen, toClient, tui, view, faults>>

\* Mutant: stop() leaves the sleep of the loop alone.
StopWithoutGeneration(t) ==
  /\ tui[t].state # "stopped" /\ Loop(t) # "resolved"
  /\ \E farewell \in {<<>>, <<Is("detach")>>} : Hang(ConnOf(t), farewell)
  /\ tui' = [tui EXCEPT ![t] = At("stopped", IF Loop(t) = "sleeping" THEN "sleeping" ELSE "idle",
                                  NoConn)]
  /\ UNCHANGED <<daemon, server, view, faults>>

\* stop(), or the end of the process, which says no farewell.  Whatever await the
\* loop is in rejects and finds its generation over.
Stop(t) ==
  /\ tui[t].state # "stopped" /\ Loop(t) # "resolved"
  /\ \E farewell \in {<<>>, <<Is("detach")>>} : Hang(ConnOf(t), farewell)
  /\ tui' = [tui EXCEPT ![t] = At("stopped", "idle", NoConn)]
  /\ UNCHANGED <<daemon, server, view, faults>>

GetMessage(t) ==
  \/ GetAck(t) \/ GetAttached(t) \/ GetRefused(t) \/ GetError(t)
  \/ GetSnapshot(t) \/ GetEvent(t)

GoesOn(t) == Wake(t) \/ Opens(t) \/ GetMessage(t) \/ Synchronize(t) \/ LoseSocket(t)

Next ==
  \/ \E k \in Calls : CallStarts(k) \/ CallEnds(k)
  \/ \E c \in Conns : Hear(c) \/ SeeClose(c)
  \/ ExpireLease \/ Tick \/ DaemonDown \/ DaemonUp
  \/ \E t \in Tuis : Start(t) \/ GoesOn(t) \/ RequestTimeout(t) \/ Ping(t) \/ Stop(t)

(***************************************************************************)
(* Fairness: both event loops run, and launchd restarts the daemon.  A TUI *)
(* need not be started, send heartbeats or stop.                           *)
(***************************************************************************)
BothSidesRun ==
  /\ \A c \in Conns : WF_vars(Hear(c)) /\ WF_vars(SeeClose(c))
  /\ \A t \in Tuis : WF_vars(GoesOn(t))
  /\ WF_vars(DaemonUp)

Spec == Init /\ [][Next]_vars
FairSpec == Spec /\ BothSidesRun

-----------------------------------------------------------------------------
(***************************************************************************)
(* Properties.                                                             *)
(***************************************************************************)
TypeOK ==
  /\ up \in BOOLEAN
  /\ progress \in [Calls -> {"new", "running", "done"}]
  /\ IsSession(rows)
  /\ lease \in Conns \cup {NoConn}
  /\ age \in 0..LeaseTimeout
  /\ clientOpen \subseteq Conns /\ serverOpen \subseteq Conns
  /\ visual \subseteq serverOpen /\ subscribed \subseteq serverOpen
  /\ \A c \in Conns : c \notin clientOpen => toClient[c] = <<>>
  /\ \A c \in Conns : c \notin serverOpen => toServer[c] = <<>>
  /\ \A t \in Tuis :
       /\ tui[t].state \in States /\ Loop(t) \in Places
       /\ IF Loop(t) \in {"idle", "sleeping"} THEN ConnOf(t) = NoConn ELSE ConnOf(t) \in clientOpen
       /\ Len(tui[t].pending) <= HistoryLimit
  /\ faults \in 0..MaxFaults

\* The lease is never left to a connection that is gone, which nobody could take
\* it from until it expires, and nobody but its holder is sent events.
LeaseIsLive ==
  /\ lease # NoConn => lease \in visual
  /\ subscribed \subseteq {lease}

\* One renderer at a time: a TUI that shows itself as connected, and whose socket
\* the server has not closed, holds the lease.
ConnectedHoldsLease ==
  \A t \in Tuis :
    Loop(t) = "synchronized" /\ ConnOf(t) \in serverOpen => lease = ConnOf(t)

\* The one lease and the two ends of every connection agree.
LeaseIsSound == TypeOK /\ LeaseIsLive /\ ConnectedHoldsLease

\* The rows of the events among these messages.
EventsIn(messages) ==
  LET found[n \in 0..Len(messages)] ==
        IF n = 0 THEN <<>>
        ELSE IF messages[n].type = "event" THEN Append(found[n - 1], messages[n].row)
        ELSE found[n - 1]
  IN found[Len(messages)]

\* Nothing is lost between the snapshot and the events, and what is sent twice does
\* no harm: what a TUI shows is a session of its own, never longer than the daemon's
\* may be, and a connected TUI shows the daemon's, but for the events that are still
\* on their way to it.
MirrorAgrees ==
  \A t \in Tuis :
    /\ IsSession(view[t])
    /\ Loop(t) = "synchronized" /\ ConnOf(t) \in serverOpen =>
         ConsumeAll(view[t], EventsIn(toClient[ConnOf(t)])) = rows

\* A stopped TUI neither dials nor draws again, wherever stop() found it.
StoppedForGood ==
  [][\A t \in Tuis : tui[t].state = "stopped" => UNCHANGED <<tui[t], view[t]>>]_vars

HeldByAnother(t) == \E u \in Tuis \ {t} : ConnOf(u) # NoConn /\ lease = ConnOf(u)

\* A TUI that wants the session is connected in the end, unless it is stopped,
\* another one has the lease, or a retained row exceeds a frame: no lease is lost to
\* a dead connection of its own, no error that is late or not its own keeps it out,
\* and no attempt is the last one.
OnlySizeKeepsViewersOut ==
  \A t \in Tuis :
    tui[t].state \in {"connecting", "reconnecting"}
      ~> \/ tui[t].state \in {"connected", "stopped"}
         \/ HeldByAnother(t)
         \/ \E i \in DOMAIN rows : ~ FitsFrame(rows[i])

-----------------------------------------------------------------------------
\* The design document says that streaming one call per frame makes the snapshot
\* compatible with the limits of a call: no retained row keeps a TUI out.
EveryViewerGetsIn ==
  \A t \in Tuis :
    tui[t].state \in {"connecting", "reconnecting"}
      ~> tui[t].state \in {"connected", "stopped"} \/ HeldByAnother(t)
=============================================================================
