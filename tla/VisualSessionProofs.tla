-------------------------- MODULE VisualSessionProofs --------------------------
(***************************************************************************)
(* LeaseIsSound, StoppedForGood and MirrorAgrees of VisualSession, for any *)
(* number of TUIs, connections, calls and faults: the one lease and both   *)
(* ends of every connection agree whatever closes, expires, restarts or    *)
(* comes late; a TUI that has stopped never connects again; and a          *)
(* connected TUI shows the session of the daemon as long as nothing is     *)
(* dropped.                                                                *)
(***************************************************************************)
EXTENDS VisualSession, QueueLemmas, SequenceTheorems, TLAPS

Session == {s \in Seq(Row) : Len(s) <= HistoryLimit}
Request == [type : {"hello", "attach", "subscribe", "snapshot.request", "ping", "detach"}]
Notice == [type : {"hello.ack", "attached", "already-attached", "error"}]
Message == Notice \cup [type : {"event"}, row : Row] \cup [type : {"snapshot"}, rows : Session]
Source == [state : States, loop : Places, conn : Conns \cup {NoConn},
           got : Session, pending : Seq(Row)]

Shapes ==
  /\ up \in BOOLEAN
  /\ progress \in [Calls -> {"new", "running", "done"}]
  /\ IsSession(rows)
  /\ lease \in Conns \cup {NoConn}
  /\ age \in 0..LeaseTimeout
  /\ clientOpen \subseteq Conns /\ serverOpen \subseteq Conns
  /\ visual \subseteq serverOpen /\ subscribed \subseteq serverOpen
  /\ toServer \in [Conns -> Seq(Request)]
  /\ toClient \in [Conns -> Seq(Message)]
  /\ tui \in [Tuis -> Source]
  /\ faults \in 0..MaxFaults

(* A closed end holds no messages, and every source has its own connection.   *)
Ends ==
  /\ \A c \in Conns : c \notin clientOpen => toClient[c] = <<>>
  /\ \A c \in Conns : c \notin serverOpen => toServer[c] = <<>>
  /\ \A t \in Tuis :
       IF Loop(t) \in {"idle", "sleeping"} THEN ConnOf(t) = NoConn ELSE ConnOf(t) \in clientOpen
  /\ \A t \in Tuis : Len(tui[t].pending) <= HistoryLimit
  /\ \A t, u \in Tuis : t # u => ConnOf(t) # ConnOf(u) \/ ConnOf(t) = NoConn

Carries(q, type) == \E i \in 1..Len(q) : q[i].type = type

Attached == {"snapshot", "resolved", "synchronized"}

(* A farewell is on the wire only behind a closed end; the lease belongs to   *)
(* whoever has been told so, from the answer on until the server closes.      *)
Handshake ==
  /\ \A c \in clientOpen : ~Carries(toServer[c], "detach")
  /\ \A c \in serverOpen : Carries(toClient[c], "attached") => lease = c
  /\ \A t \in Tuis : ConnOf(t) \in serverOpen /\ Loop(t) \in Attached => lease = ConnOf(t)
  /\ \A t \in Tuis : Loop(t) = "opening" =>
       ConnOf(t) \notin serverOpen /\ toClient[ConnOf(t)] = <<>>

IInv == Shapes /\ Ends /\ Handshake /\ LeaseIsLive

-----------------------------------------------------------------------------
(***************************************************************************)
(* What a channel carries.                                                 *)
(***************************************************************************)
LEMMA CarriesTail ==
  ASSUME NEW S, NEW q \in Seq(S), q # <<>>
  PROVE  /\ Tail(q) \in Seq(S) /\ Head(q) \in S
         /\ \A x : Carries(Tail(q), x) => Carries(q, x)
         /\ Carries(q, Head(q).type)
<1>1. /\ Tail(q) \in Seq(S) /\ Len(q) \in Nat \ {0} /\ Len(Tail(q)) = Len(q) - 1
      /\ \A i \in 1..Len(Tail(q)) : Tail(q)[i] = q[i + 1]
      /\ Head(q) = q[1] /\ Head(q) \in S
  BY HeadTailProperties, EmptySeq
<1>2. /\ \A i \in 1..Len(Tail(q)) : i + 1 \in 1..Len(q)
      /\ 1 \in 1..Len(q)
  BY <1>1
<1>3. QED
  BY <1>1, <1>2 DEF Carries

LEMMA CarriesConcat ==
  ASSUME NEW S, NEW q \in Seq(S), NEW r \in Seq(S)
  PROVE  /\ q \o r \in Seq(S)
         /\ \A x : Carries(q \o r, x) => Carries(q, x) \/ Carries(r, x)
<1>1. /\ q \o r \in Seq(S) /\ Len(q) \in Nat /\ Len(r) \in Nat
      /\ Len(q \o r) = Len(q) + Len(r)
      /\ \A i \in 1..Len(q) + Len(r) : (q \o r)[i] = IF i <= Len(q) THEN q[i] ELSE r[i - Len(q)]
  BY ConcatProperties, LenProperties
<1>2. \A i \in 1..Len(q) + Len(r) : i <= Len(q) \/ i - Len(q) \in 1..Len(r)
  BY <1>1
<1>3. \A i \in 1..Len(q) + Len(r) : i <= Len(q) => i \in 1..Len(q)
  BY <1>1
<1>4. QED
  BY <1>1, <1>2, <1>3 DEF Carries

LEMMA CarriesAppend ==
  ASSUME NEW S, NEW q \in Seq(S), NEW m \in S
  PROVE  /\ Append(q, m) \in Seq(S)
         /\ \A x : Carries(Append(q, m), x) => Carries(q, x) \/ x = m.type
<1>1. /\ Append(q, m) \in Seq(S) /\ Len(q) \in Nat
      /\ Len(Append(q, m)) = Len(q) + 1
      /\ \A i \in 1..Len(q) : Append(q, m)[i] = q[i]
      /\ Append(q, m)[Len(q) + 1] = m
  BY AppendProperties, LenProperties
<1>2. \A i \in 1..Len(q) + 1 : i \in 1..Len(q) \/ i = Len(q) + 1
  BY <1>1
<1>3. QED
  BY <1>1, <1>2 DEF Carries

LEMMA CarriesFew ==
  /\ \A x : ~Carries(<<>>, x)
  /\ \A m, x : Carries(<<m>>, x) => x = m.type
  /\ \A m, n, x : Carries(<<m, n>>, x) => x = m.type \/ x = n.type
BY DEF Carries

(* What is sent is of the kinds that are sent.                                *)
LEMMA Kinds ==
  /\ \A x \in {"hello", "attach", "subscribe", "snapshot.request", "ping", "detach"} :
       Is(x) \in Request /\ Is(x).type = x
  /\ \A x \in {"hello.ack", "attached", "already-attached", "error"} :
       Is(x) \in Message /\ Is(x).type = x
  /\ \A row \in Row : EventFrame(row) \in Message /\ EventFrame(row).type # "attached"
  /\ IsSession(rows) => SnapshotFrames \in Message /\ SnapshotFrames.type # "attached"
BY DEF Is, Request, Notice, Message, EventFrame, SnapshotFrames, IsSession, Session

(* A row replaces its call's or pushes the oldest out.                        *)
LEMMA ConsumeIsSession ==
  ASSUME NEW s, IsSession(s), NEW row \in Row
  PROVE  IsSession(Consume(s, row))
<1>1. /\ s \in Seq(Row) /\ Len(s) \in Nat /\ Len(s) <= HistoryLimit
      /\ HistoryLimit \in Nat \ {0}
      /\ DOMAIN s = 1..Len(s)
  BY LenProperties, HistoryLimitAssumption DEF IsSession
<1>2. CASE Has(s, row.call)
  <2> DEFINE r == [i \in DOMAIN s |-> IF s[i].call = row.call THEN row ELSE s[i]]
  <2>1. \A i \in 1..Len(s) : s[i] \in Row
    BY <1>1, ElementOfSeq
  <2>2. r \in [1..Len(s) -> Row]
    BY <1>1, <2>1
  <2>3. r \in Seq(Row) /\ Len(r) = Len(s)
    BY <1>1, <2>2, LenProperties
  <2>4. Consume(s, row) = r
    BY <1>2 DEF Consume
  <2>5. QED
    BY <1>1, <2>3, <2>4 DEF IsSession
<1>3. CASE ~Has(s, row.call) /\ Len(s) < HistoryLimit
  <2>1. Append(s, row) \in Seq(Row) /\ Len(Append(s, row)) = Len(s) + 1
    BY <1>1, AppendProperties
  <2>2. QED
    BY <1>1, <1>3, <2>1 DEF IsSession, Consume
<1>4. CASE ~Has(s, row.call) /\ ~(Len(s) < HistoryLimit)
  <2>1. s # <<>>
    BY <1>1, <1>4, EmptySeq
  <2>2. Tail(s) \in Seq(Row) /\ Len(Tail(s)) = Len(s) - 1
    BY <1>1, <2>1, HeadTailProperties
  <2>3. Append(Tail(s), row) \in Seq(Row) /\ Len(Append(Tail(s), row)) = Len(s)
    BY <1>1, <2>2, AppendProperties
  <2>4. QED
    BY <1>1, <1>4, <2>3 DEF IsSession, Consume
<1>5. QED
  BY <1>2, <1>3, <1>4

LEMMA InitStep == Init => IInv
<1> SUFFICES ASSUME Init PROVE IInv
  OBVIOUS
<1>1. /\ <<>> \in Seq(Row) /\ <<>> \in Seq(Request) /\ <<>> \in Seq(Message) /\ Len(<<>>) = 0
  BY EmptySeq
<1>2. Shapes
  BY <1>1, SessionAssumption, HistoryLimitAssumption
  DEF Init, Shapes, IsSession, Source, Session, At, States, Places, Asking
<1>3. \A t \in Tuis : Loop(t) = "idle" /\ ConnOf(t) = NoConn /\ tui[t].pending = <<>>
  BY DEF Init, At, Loop, ConnOf
<1>4. QED
  BY <1>1, <1>2, <1>3, HistoryLimitAssumption
  DEF IInv, Init, Ends, Handshake, LeaseIsLive, Attached

(* What the invariant says of a connection and of a source.                   *)
LEMMA Unfolded ==
  ASSUME IInv
  PROVE  /\ \A c \in Conns : toServer[c] \in Seq(Request) /\ toClient[c] \in Seq(Message)
         /\ NoConn \notin Conns
         /\ clientOpen \subseteq Conns /\ serverOpen \subseteq Conns
         /\ visual \subseteq serverOpen /\ subscribed \subseteq serverOpen
         /\ rows \in Seq(Row)
BY SessionAssumption DEF IInv, Shapes, IsSession

LEMMA OfSource ==
  ASSUME IInv, NEW t \in Tuis
  PROVE  /\ tui[t] \in Source
         /\ ConnOf(t) \in Conns \cup {NoConn}
         /\ Loop(t) \in Places
         /\ Loop(t) \in {"idle", "sleeping"} => ConnOf(t) = NoConn
         /\ Loop(t) \notin {"idle", "sleeping"} => ConnOf(t) \in clientOpen /\ ConnOf(t) \in Conns
         /\ Loop(t) \in Attached \cup {"opening"} => ConnOf(t) \in clientOpen /\ ConnOf(t) \in Conns
BY DEF IInv, Shapes, Ends, Source, Loop, ConnOf, Attached

-----------------------------------------------------------------------------
(***************************************************************************)
(* The server.                                                             *)
(***************************************************************************)
LEMMA PublishStep ==
  ASSUME IInv, NEW row \in Row, Publish(row),
         progress' \in [Calls -> {"new", "running", "done"}]
  PROVE  IInv'
<1>1. /\ UNCHANGED <<up, lease, age, visual, subscribed, serverOpen, clientOpen, toServer, tui, faults>>
      /\ rows' = Consume(rows, row) /\ Forward(row)
  BY DEF Publish, server
<1>2. IsSession(rows')
  BY <1>1, ConsumeIsSession DEF IInv, Shapes
<1>3. EventFrame(row) \in Message /\ EventFrame(row).type # "attached"
  BY Kinds
<1>4. /\ toClient' \in [Conns -> Seq(Message)]
      /\ \A d \in Conns : Carries(toClient'[d], "attached") => Carries(toClient[d], "attached")
      /\ \A d \in Conns : toClient'[d] # toClient[d] => d \in clientOpen \cap serverOpen
  <2>1. CASE lease \in subscribed \cap clientOpen
    <3>1. /\ lease \in Conns /\ lease \in serverOpen
          /\ toClient[lease] \in Seq(Message)
      BY <2>1, Unfolded
    <3>2. /\ Append(toClient[lease], EventFrame(row)) \in Seq(Message)
          /\ Carries(Append(toClient[lease], EventFrame(row)), "attached")
               => Carries(toClient[lease], "attached")
      BY <1>3, <3>1, CarriesAppend
    <3>3. toClient' = [toClient EXCEPT ![lease] = Append(@, EventFrame(row))]
      BY <1>1, <2>1 DEF Forward
    <3>4. QED
      BY <2>1, <3>1, <3>2, <3>3 DEF IInv, Shapes
  <2>2. CASE lease \notin subscribed \cap clientOpen
    BY <1>1, <2>2 DEF Forward, IInv, Shapes
  <2>3. QED
    BY <2>1, <2>2
<1>5. Shapes'
  BY <1>1, <1>2, <1>4 DEF IInv, Shapes, IsSession, Request, Notice, Message, Source, States,
     Places, Asking, Row, Session
<1>6. Ends'
  BY <1>1, <1>4 DEF IInv, Shapes, Ends, Loop, ConnOf
<1>7. Handshake'
  <2>1. \A t \in Tuis : Loop(t) = "opening" => ConnOf(t) \notin serverOpen /\ toClient'[ConnOf(t)] = <<>>
    <3> SUFFICES ASSUME NEW t \in Tuis, Loop(t) = "opening"
                 PROVE  ConnOf(t) \notin serverOpen /\ toClient'[ConnOf(t)] = <<>>
      OBVIOUS
    <3>1. ConnOf(t) \in Conns
      BY OfSource
    <3>2. ConnOf(t) \notin serverOpen /\ toClient[ConnOf(t)] = <<>>
      BY DEF IInv, Handshake
    <3>3. QED
      BY <1>4, <3>1, <3>2
  <2>2. \A d \in serverOpen : Carries(toClient'[d], "attached") => lease = d
    BY <1>4, Unfolded DEF IInv, Handshake
  <2>3. QED
    BY <1>1, <2>1, <2>2 DEF IInv, Handshake, Loop, ConnOf, Carries
<1>8. LeaseIsLive'
  BY <1>1 DEF IInv, LeaseIsLive
<1>9. QED
  BY <1>5, <1>6, <1>7, <1>8 DEF IInv

(* A message is read and answered; what it does to the lease takes it from    *)
(* nobody whose socket is open, and nobody but the holder is told he has it.  *)
LEMMA AnswerStep ==
  ASSUME IInv, NEW c \in serverOpen, toServer[c] # <<>>,
         NEW STATE answers, answers \in Seq(Message), Answer(c, answers),
         lease' \in Conns \cup {NoConn}, age' \in 0..LeaseTimeout,
         visual' \subseteq serverOpen, subscribed' \subseteq serverOpen,
         LeaseIsLive',
         \A d \in clientOpen : lease = d => lease' = d,
         Carries(answers, "attached") => lease' = c
  PROVE  IInv'
<1>1. /\ toServer' = [toServer EXCEPT ![c] = Tail(@)]
      /\ toClient' = [toClient EXCEPT ![c] = IF c \in clientOpen THEN @ \o answers ELSE <<>>]
      /\ UNCHANGED <<up, progress, rows, serverOpen, clientOpen, tui, faults>>
  BY DEF Answer, daemon
<1>2. /\ c \in Conns /\ toServer[c] \in Seq(Request) /\ toClient[c] \in Seq(Message)
      /\ <<>> \in Seq(Message)
  BY Unfolded, EmptySeq
<1>3. /\ toServer' \in [Conns -> Seq(Request)]
      /\ \A d \in Conns : \A x : Carries(toServer'[d], x) => Carries(toServer[d], x)
      /\ \A d \in Conns : d # c => toServer'[d] = toServer[d]
  <2>1. Tail(toServer[c]) \in Seq(Request) /\ \A x : Carries(Tail(toServer[c]), x) => Carries(toServer[c], x)
    BY <1>2, CarriesTail
  <2>2. QED
    BY <1>1, <1>2, <2>1 DEF IInv, Shapes
<1>4. /\ toClient' \in [Conns -> Seq(Message)]
      /\ \A d \in Conns : \A x : Carries(toClient'[d], x) =>
           Carries(toClient[d], x) \/ (d = c /\ Carries(answers, x))
      /\ \A d \in Conns : d # c => toClient'[d] = toClient[d]
      /\ c \notin clientOpen => toClient'[c] = <<>>
  <2>1. toClient[c] \o answers \in Seq(Message)
        /\ \A x : Carries(toClient[c] \o answers, x) => Carries(toClient[c], x) \/ Carries(answers, x)
    BY <1>2, CarriesConcat
  <2>2. QED
    BY <1>1, <1>2, <2>1, CarriesFew DEF IInv, Shapes
<1>5. Shapes'
  BY <1>1, <1>3, <1>4 DEF IInv, Shapes, IsSession, Request, Notice, Message, Source, States,
     Places, Asking, Row, Session
<1>6. Ends'
  BY <1>1, <1>3, <1>4 DEF IInv, Ends, Loop, ConnOf
<1>7. Handshake'
  <2>1. \A d \in clientOpen : ~Carries(toServer'[d], "detach")
    BY <1>3, Unfolded DEF IInv, Handshake
  <2>2. ASSUME NEW d \in serverOpen, Carries(toClient'[d], "attached") PROVE lease' = d
    <3>1. d \in Conns
      BY Unfolded
    <3>2. CASE d = c /\ Carries(answers, "attached")
      BY <3>2
    <3>3. CASE Carries(toClient[d], "attached")
      <4>1. lease = d
        BY <3>3 DEF IInv, Handshake
      <4>2. d \in clientOpen
        BY <3>1, <3>3, CarriesFew DEF IInv, Ends
      <4>3. QED
        BY <4>1, <4>2
    <3>4. QED
      BY <1>4, <2>2, <3>1, <3>2, <3>3
  <2>3. \A t \in Tuis : ConnOf(t) \in serverOpen /\ Loop(t) \in Attached => lease' = ConnOf(t)
    <3> SUFFICES ASSUME NEW t \in Tuis, ConnOf(t) \in serverOpen, Loop(t) \in Attached
                 PROVE  lease' = ConnOf(t)
      OBVIOUS
    <3>1. ConnOf(t) \in clientOpen
      BY OfSource
    <3>2. lease = ConnOf(t)
      BY DEF IInv, Handshake
    <3>3. QED
      BY <3>1, <3>2
  <2>4. \A t \in Tuis : Loop(t) = "opening" => ConnOf(t) \notin serverOpen /\ toClient'[ConnOf(t)] = <<>>
    <3> SUFFICES ASSUME NEW t \in Tuis, Loop(t) = "opening"
                 PROVE  ConnOf(t) \notin serverOpen /\ toClient'[ConnOf(t)] = <<>>
      OBVIOUS
    <3>1. ConnOf(t) \in Conns
      BY OfSource
    <3>2. ConnOf(t) \notin serverOpen /\ toClient[ConnOf(t)] = <<>>
      BY DEF IInv, Handshake
    <3>3. QED
      BY <1>4, <3>1, <3>2
  <2>5. QED
    BY <1>1, <2>1, <2>2, <2>3, <2>4 DEF Handshake, Loop, ConnOf
<1>8. QED
  BY <1>5, <1>6, <1>7 DEF IInv

LEMMA HearStep ==
  ASSUME IInv, NEW c \in Conns, Hear(c)
  PROVE  IInv'
<1> USE Unfolded
<1>1. /\ c \in serverOpen /\ toServer[c] # <<>> /\ toServer[c] \in Seq(Request)
      /\ \A x : Hears(c, x) => Head(toServer[c]) = Is(x)
  BY DEF Hear, HearHello, HearAttach, HearSubscribe, HearSnapshotRequest, HearPing, HearDetach, Hears
<1>2. /\ lease \in Conns \cup {NoConn} /\ age \in 0..LeaseTimeout /\ 0 \in 0..LeaseTimeout
      /\ LeaseIsLive
  BY SessionAssumption DEF IInv, Shapes
<1>3. /\ <<>> \in Seq(Message)
      /\ \A m \in Message : <<m>> \in Seq(Message)
  BY EmptySeq
<1>4. CASE HearHello(c)
  <2>1. /\ visual' = visual \cup {c} /\ UNCHANGED <<lease, age, subscribed>>
        /\ Answer(c, <<Is("hello.ack")>>)
    BY <1>4 DEF HearHello
  <2>2. LeaseIsLive'
    BY <1>2, <2>1 DEF LeaseIsLive
  <2>3. <<Is("hello.ack")>> \in Seq(Message) /\ ~Carries(<<Is("hello.ack")>>, "attached")
    BY <1>3, Kinds, CarriesFew
  <2>4. QED
    BY <1>1, <1>2, <2>1, <2>2, <2>3, AnswerStep
<1>5. CASE HearAttach(c)
  <2>1. \A x \in {"error", "already-attached", "attached"} : <<Is(x)>> \in Seq(Message)
    BY <1>3, Kinds
  <2>2. \A x \in {"error", "already-attached"} : ~Carries(<<Is(x)>>, "attached")
    BY Kinds, CarriesFew
  <2>3. CASE lease' = lease /\ age' = age
    <3>1. /\ UNCHANGED <<visual, subscribed>>
          /\ \/ Answer(c, <<Is("error")>>)
             \/ Answer(c, <<Is("already-attached")>>)
             \/ Answer(c, <<Is("attached")>>) /\ lease' = c
      BY <1>5, <2>3 DEF HearAttach
    <3>2. LeaseIsLive'
      BY <1>2, <2>3, <3>1 DEF LeaseIsLive
    <3>3. CASE Answer(c, <<Is("error")>>)
      BY <1>1, <1>2, <2>1, <2>2, <2>3, <3>1, <3>2, <3>3, AnswerStep
    <3>4. CASE Answer(c, <<Is("already-attached")>>)
      BY <1>1, <1>2, <2>1, <2>2, <2>3, <3>1, <3>2, <3>4, AnswerStep
    <3>5. CASE Answer(c, <<Is("attached")>>) /\ lease' = c
      BY <1>1, <1>2, <2>1, <2>3, <3>1, <3>2, <3>5, AnswerStep
    <3>6. QED
      BY <3>1, <3>3, <3>4, <3>5
  <2>4. CASE ~(lease' = lease /\ age' = age)
    <3>1. /\ c \in visual /\ lease \in {c, NoConn} /\ Answer(c, <<Is("attached")>>)
          /\ lease' = c /\ age' = (IF lease = c THEN age ELSE 0)
          /\ UNCHANGED <<visual, subscribed>>
      BY <1>5, <2>4 DEF HearAttach
    <3>2. LeaseIsLive'
      BY <1>2, <3>1 DEF LeaseIsLive
    <3>3. age' \in 0..LeaseTimeout /\ (\A d \in clientOpen : lease = d => lease' = d)
      BY <1>2, <3>1
    <3>4. QED
      BY <1>1, <1>2, <2>1, <3>1, <3>2, <3>3, AnswerStep
  <2>5. QED
    BY <2>3, <2>4
<1>6. CASE HearSubscribe(c)
  <2>1. <<Is("error")>> \in Seq(Message) /\ ~Carries(<<Is("error")>>, "attached")
    BY <1>3, Kinds, CarriesFew
  <2>2. UNCHANGED <<lease, age, visual>>
        /\ \/ lease = c /\ subscribed' = subscribed \cup {c} /\ Answer(c, <<>>)
           \/ UNCHANGED subscribed /\ Answer(c, <<Is("error")>>)
    BY <1>6 DEF HearSubscribe
  <2>3. LeaseIsLive' /\ subscribed' \subseteq serverOpen
    BY <1>1, <1>2, <2>2 DEF LeaseIsLive
  <2>4. CASE Answer(c, <<>>)
    BY <1>1, <1>2, <1>3, <2>2, <2>3, <2>4, CarriesFew, AnswerStep
  <2>5. CASE Answer(c, <<Is("error")>>)
    BY <1>1, <1>2, <2>1, <2>2, <2>3, <2>5, AnswerStep
  <2>6. QED
    BY <2>2, <2>4, <2>5
<1>7. CASE HearSnapshotRequest(c)
  <2> DEFINE m == IF lease = c THEN SnapshotFrames ELSE Is("error")
  <2>1. UNCHANGED <<lease, age, visual, subscribed>> /\ Answer(c, <<m>>)
    BY <1>7 DEF HearSnapshotRequest
  <2>2. m \in Message /\ m.type # "attached"
    BY Kinds DEF IInv, Shapes
  <2> HIDE DEF m
  <2>3. <<m>> \in Seq(Message) /\ ~Carries(<<m>>, "attached")
    BY <1>3, <2>2, CarriesFew
  <2>4. LeaseIsLive'
    BY <1>2, <2>1 DEF LeaseIsLive
  <2>5. QED
    BY <1>1, <1>2, <2>1, <2>3, <2>4, AnswerStep
<1>8. CASE HearPing(c)
  <2>1. UNCHANGED <<lease, visual, subscribed>> /\ age' \in 0..LeaseTimeout /\ Answer(c, <<>>)
    BY <1>2, <1>8 DEF HearPing
  <2>2. LeaseIsLive'
    BY <1>2, <2>1 DEF LeaseIsLive
  <2>3. QED
    BY <1>1, <1>2, <1>3, <2>1, <2>2, CarriesFew, AnswerStep
<1>9. CASE HearDetach(c)
  <2>1. /\ lease' = (IF lease = c THEN NoConn ELSE lease)
        /\ subscribed' = subscribed \ {c} /\ UNCHANGED <<age, visual>> /\ Answer(c, <<>>)
    BY <1>9 DEF HearDetach
  <2>2. c \notin clientOpen
    <3>1. Carries(toServer[c], "detach")
      BY <1>1, <1>9, CarriesTail, Kinds DEF HearDetach
    <3>2. QED
      BY <3>1 DEF IInv, Handshake
  <2>3. LeaseIsLive'
    BY <1>2, <2>1 DEF LeaseIsLive
  <2>4. QED
    BY <1>1, <1>2, <1>3, <2>1, <2>2, <2>3, CarriesFew, AnswerStep
<1>10. QED
  BY <1>4, <1>5, <1>6, <1>7, <1>8, <1>9 DEF Hear

(* Connections are forgotten, and the lease with them if one of them had it.  *)
LEMMA ForgetStep ==
  ASSUME IInv, NEW STATE gone, gone \in SUBSET Conns, Forget(gone),
         up' \in BOOLEAN, progress' \in [Calls -> {"new", "running", "done"}],
         UNCHANGED rows, faults' \in 0..MaxFaults
  PROVE  IInv'
<1>1. /\ serverOpen' = serverOpen \ gone /\ visual' = visual \ gone
      /\ subscribed' = subscribed \ gone
      /\ lease' = (IF lease \in gone THEN NoConn ELSE lease)
      /\ toServer' = [c \in Conns |-> IF c \in gone THEN <<>> ELSE toServer[c]]
      /\ UNCHANGED <<age, clientOpen, toClient, tui>>
  BY DEF Forget
<1>2. <<>> \in Seq(Request)
  BY EmptySeq
<1>3. Shapes'
  BY <1>1, <1>2 DEF IInv, Shapes, IsSession, Request, Notice, Message, Source, States,
     Places, Asking, Row, Session
<1>4. Ends'
  BY <1>1, Unfolded DEF IInv, Ends, Loop, ConnOf
<1>5. Handshake'
  <2>1. \A c \in clientOpen : ~Carries(toServer'[c], "detach")
    BY <1>1, Unfolded, CarriesFew DEF IInv, Handshake
  <2>2. \A c \in serverOpen' : Carries(toClient[c], "attached") => lease' = c
    BY <1>1 DEF IInv, Handshake
  <2>3. \A t \in Tuis : ConnOf(t) \in serverOpen' /\ Loop(t) \in Attached => lease' = ConnOf(t)
    BY <1>1 DEF IInv, Handshake
  <2>4. QED
    BY <1>1, <2>1, <2>2, <2>3 DEF IInv, Handshake, Loop, ConnOf, Carries
<1>6. LeaseIsLive'
  BY <1>1 DEF IInv, LeaseIsLive
<1>7. QED
  BY <1>3, <1>4, <1>5, <1>6 DEF IInv

LEMMA ServerStep ==
  ASSUME IInv, \/ \E c \in Conns : SeeClose(c)
               \/ ExpireLease \/ Tick \/ DaemonDown \/ DaemonUp
  PROVE  IInv'
<1>1. /\ up \in BOOLEAN /\ progress \in [Calls -> {"new", "running", "done"}]
      /\ faults \in 0..MaxFaults /\ MaxFaults \in Nat
      /\ lease \in Conns \cup {NoConn} /\ serverOpen \in SUBSET Conns
      /\ age \in 0..LeaseTimeout /\ LeaseTimeout \in Nat
  BY SessionAssumption DEF IInv, Shapes
<1>2. ASSUME NEW c \in Conns, SeeClose(c) PROVE IInv'
  <2>1. Forget({c}) /\ UNCHANGED <<up, progress, rows, faults>>
    BY <1>2 DEF SeeClose, daemon
  <2>2. QED
    BY <1>1, <2>1, ForgetStep
<1>3. CASE ExpireLease
  <2>1. Forget({lease}) /\ UNCHANGED <<up, progress, rows, faults>> /\ {lease} \in SUBSET Conns
    BY <1>1, <1>3 DEF ExpireLease, daemon
  <2>2. QED
    BY <1>1, <2>1, ForgetStep
<1>4. CASE DaemonDown
  <2>1. /\ Forget(serverOpen) /\ UNCHANGED rows /\ up' = FALSE
        /\ faults < MaxFaults /\ faults' = faults + 1
        /\ progress' = [k \in Calls |-> IF progress[k] = "running" THEN "done" ELSE progress[k]]
    BY <1>4 DEF DaemonDown
  <2>2. /\ progress' \in [Calls -> {"new", "running", "done"}] /\ faults' \in 0..MaxFaults
        /\ up' \in BOOLEAN
    <3>1. faults' \in 0..MaxFaults
      BY <1>1, <2>1
    <3>2. progress' \in [Calls -> {"new", "running", "done"}]
      BY <1>1, <2>1
    <3>3. QED
      BY <2>1, <3>1, <3>2
  <2>3. QED
    BY <1>1, <2>1, <2>2, ForgetStep
<1>5. CASE Tick \/ DaemonUp
  <2>1. /\ UNCHANGED <<progress, rows, lease, visual, subscribed, serverOpen, clientOpen,
                       toServer, toClient, tui>>
        /\ age' \in 0..LeaseTimeout /\ faults' \in 0..MaxFaults /\ up' \in BOOLEAN
    <3>1. CASE Tick
      <4>1. /\ UNCHANGED <<up, progress, rows, lease, visual, subscribed, serverOpen, clientOpen,
                           toServer, toClient, tui>>
            /\ age < LeaseTimeout /\ age' = age + 1
            /\ (faults < MaxFaults /\ faults' = faults + 1) \/ faults' = faults
        BY <3>1 DEF Tick, daemon, wires
      <4>2. age' \in 0..LeaseTimeout
        BY <1>1, <4>1
      <4>3. faults' \in 0..MaxFaults
        BY <1>1, <4>1
      <4>4. up' \in BOOLEAN
        BY <1>1, <4>1
      <4>5. QED
        BY <4>1, <4>2, <4>3, <4>4
    <3>2. CASE DaemonUp
      BY <1>1, <3>2 DEF DaemonUp, server, wires
    <3>3. QED
      BY <1>5, <3>1, <3>2
  <2>2. Shapes'
    BY <2>1 DEF IInv, Shapes, IsSession, Request, Notice, Message, Source, States,
       Places, Asking, Row, Session
  <2>3. QED
    BY <2>1, <2>2 DEF IInv, Ends, Handshake, LeaseIsLive, Loop, ConnOf, Carries
<1>6. QED
  BY <1>2, <1>3, <1>4, <1>5

-----------------------------------------------------------------------------
(***************************************************************************)
(* The TUI.                                                                *)
(***************************************************************************)

(* A source gives its socket up, with a farewell or without.                  *)
LEMMA HangStep ==
  ASSUME IInv, NEW t \in Tuis, NEW state \in States, NEW loop \in {"idle", "sleeping"},
         NEW STATE farewell, farewell \in Seq(Request), Hang(ConnOf(t), farewell),
         tui' = [tui EXCEPT ![t] = At(state, loop, NoConn)],
         UNCHANGED <<up, progress, rows, server>>, faults' \in 0..MaxFaults
  PROVE  IInv'
<1> DEFINE c == ConnOf(t)
<1>1. /\ clientOpen' = clientOpen \ {c}
      /\ toClient' = [d \in Conns |-> IF d = c THEN <<>> ELSE toClient[d]]
      /\ toServer' = [d \in Conns |-> IF d = c /\ c \in serverOpen
                                      THEN toServer[d] \o farewell ELSE toServer[d]]
      /\ UNCHANGED <<lease, age, visual, subscribed, serverOpen>>
  BY DEF Hang, server
<1>2. c \in Conns \cup {NoConn}
  BY OfSource
<1>3. \A u \in Tuis : u # t => c # ConnOf(u) \/ ConnOf(u) = NoConn
  BY DEF IInv, Ends
<1> HIDE DEF c
<1>4. /\ <<>> \in Seq(Message) /\ <<>> \in Seq(Row) /\ Len(<<>>) = 0 /\ <<>> \in Seq(Request)
      /\ \A d \in Conns : toServer[d] \in Seq(Request) /\ toServer[d] \o farewell \in Seq(Request)
  BY EmptySeq, Unfolded, ConcatProperties
<1>5. At(state, loop, NoConn) \in Source
  BY <1>4, HistoryLimitAssumption DEF At, Source, Session, Places
<1>6. Shapes'
  BY <1>1, <1>4, <1>5 DEF IInv, Shapes, IsSession, Request, Notice, Message, Source, States,
     Places, Asking, Row, Session
<1>7. /\ \A u \in Tuis : u # t => tui'[u] = tui[u]
      /\ tui'[t].loop = loop /\ tui'[t].conn = NoConn /\ Len(tui'[t].pending) = 0
  BY <1>4 DEF IInv, Shapes, At
<1>8. Ends'
  <2>1. /\ \A d \in Conns : d \notin clientOpen' => toClient'[d] = <<>>
        /\ \A d \in Conns : d \notin serverOpen' => toServer'[d] = <<>>
    BY <1>1 DEF IInv, Ends
  <2>2. ASSUME NEW u \in Tuis
        PROVE  IF tui'[u].loop \in {"idle", "sleeping"} THEN tui'[u].conn = NoConn
               ELSE tui'[u].conn \in clientOpen'
    <3>1. CASE u = t
      BY <1>7, <3>1
    <3>2. CASE u # t
      <4>1. NoConn \notin clientOpen
        BY Unfolded
      <4>2. QED
        BY <1>1, <1>3, <1>7, <3>2, <4>1 DEF IInv, Ends, Loop, ConnOf
    <3>3. QED
      BY <3>1, <3>2
  <2>3. \A u \in Tuis : Len(tui'[u].pending) <= HistoryLimit
    BY <1>7, HistoryLimitAssumption DEF IInv, Ends
  <2>4. \A u, v \in Tuis : u # v => tui'[u].conn # tui'[v].conn \/ tui'[u].conn = NoConn
    BY <1>7 DEF IInv, Ends, ConnOf
  <2>5. QED
    BY <2>1, <2>2, <2>3, <2>4 DEF Ends, Loop, ConnOf
<1>9. Handshake'
  <2>1. \A d \in clientOpen' : ~Carries(toServer'[d], "detach")
    BY <1>1, Unfolded DEF IInv, Handshake
  <2>2. \A d \in serverOpen : Carries(toClient'[d], "attached") => lease = d
    BY <1>1, Unfolded, CarriesFew DEF IInv, Handshake
  <2>3. \A u \in Tuis : tui'[u].conn \in serverOpen /\ tui'[u].loop \in Attached => lease = tui'[u].conn
    BY <1>7 DEF IInv, Handshake, Attached, Loop, ConnOf
  <2>4. ASSUME NEW u \in Tuis, tui'[u].loop = "opening"
        PROVE  tui'[u].conn \notin serverOpen /\ toClient'[tui'[u].conn] = <<>>
    <3>1. u # t /\ tui'[u] = tui[u] /\ Loop(u) = "opening"
      BY <1>7, <2>4 DEF Loop
    <3>2. ConnOf(u) \in Conns
      BY <3>1, OfSource
    <3>3. ConnOf(u) \notin serverOpen /\ toClient[ConnOf(u)] = <<>>
      BY <3>1 DEF IInv, Handshake
    <3>4. QED
      BY <1>1, <3>1, <3>2, <3>3 DEF ConnOf
  <2>5. QED
    BY <1>1, <2>1, <2>2, <2>3, <2>4 DEF Handshake, Loop, ConnOf
<1>10. LeaseIsLive'
  BY <1>1 DEF IInv, LeaseIsLive
<1>11. QED
  BY <1>6, <1>8, <1>9, <1>10 DEF IInv

(* A source dials: its connection is one that neither end has open.           *)
LEMMA DialStep ==
  ASSUME IInv, NEW t \in Tuis, NEW state \in States, NEW STATE open, open \in SUBSET clientOpen,
         \A d \in clientOpen \ open : d = ConnOf(t),
         Dial(t, state, open), UNCHANGED <<up, progress, rows, server, toServer, faults>>,
         toClient' = [d \in Conns |-> IF d \in open THEN toClient[d] ELSE <<>>]
  PROVE  IInv'
<1>1. PICK c \in Conns \ (open \cup serverOpen) :
        /\ clientOpen' = open \cup {c}
        /\ tui' = [tui EXCEPT ![t] = At(state, "opening", c)]
  BY DEF Dial
<1>2. UNCHANGED <<lease, age, visual, subscribed, serverOpen>>
  BY DEF server
<1>3. /\ <<>> \in Seq(Message) /\ <<>> \in Seq(Row) /\ Len(<<>>) = 0
      /\ c \in Conns /\ c # NoConn /\ NoConn \notin clientOpen
  BY EmptySeq, Unfolded
<1>4. At(state, "opening", c) \in Source
  BY <1>3, HistoryLimitAssumption DEF At, Source, Session, Places
<1>5. Shapes'
  BY <1>1, <1>2, <1>3, <1>4 DEF IInv, Shapes, IsSession, Request, Notice, Message, Source, States,
     Places, Asking, Row, Session
<1>6. /\ \A u \in Tuis : u # t => tui'[u] = tui[u]
      /\ tui'[t].loop = "opening" /\ tui'[t].conn = c /\ Len(tui'[t].pending) = 0
  BY <1>1, <1>3 DEF IInv, Shapes, At
<1>7. \A u \in Tuis : u # t =>
        /\ ConnOf(u) = NoConn \/ ConnOf(u) \in open
        /\ Loop(u) \notin {"idle", "sleeping"} => ConnOf(u) \in open
        /\ ConnOf(u) # c
  <2> SUFFICES ASSUME NEW u \in Tuis, u # t
               PROVE  /\ ConnOf(u) = NoConn \/ ConnOf(u) \in open
                      /\ Loop(u) \notin {"idle", "sleeping"} => ConnOf(u) \in open
                      /\ ConnOf(u) # c
    OBVIOUS
  <2>1. ConnOf(u) = NoConn \/ ConnOf(u) \in clientOpen
    BY OfSource
  <2>2. ConnOf(u) # NoConn => ConnOf(u) # ConnOf(t)
    BY DEF IInv, Ends
  <2>3. Loop(u) \notin {"idle", "sleeping"} => ConnOf(u) # NoConn
    BY <1>3, OfSource
  <2>4. QED
    BY <1>1, <1>3, <2>1, <2>2, <2>3
<1>8. Ends'
  <2>1. /\ \A d \in Conns : d \notin clientOpen' => toClient'[d] = <<>>
        /\ \A d \in Conns : d \notin serverOpen' => toServer'[d] = <<>>
    BY <1>1, <1>2 DEF IInv, Ends
  <2>2. \A u \in Tuis : IF tui'[u].loop \in {"idle", "sleeping"} THEN tui'[u].conn = NoConn
                      ELSE tui'[u].conn \in clientOpen'
    BY <1>1, <1>6, <1>7 DEF IInv, Ends, Loop, ConnOf
  <2>3. \A u \in Tuis : Len(tui'[u].pending) <= HistoryLimit
    BY <1>6, HistoryLimitAssumption DEF IInv, Ends
  <2>4. \A u, v \in Tuis : u # v => tui'[u].conn # tui'[v].conn \/ tui'[u].conn = NoConn
    BY <1>6, <1>7 DEF IInv, Ends, ConnOf
  <2>5. QED
    BY <2>1, <2>2, <2>3, <2>4 DEF Ends, Loop, ConnOf
<1>9. Handshake'
  <2>1. \A d \in clientOpen' : ~Carries(toServer[d], "detach")
    <3>1. toServer[c] = <<>>
      BY <1>1 DEF IInv, Ends
    <3>2. QED
      BY <1>1, <3>1, CarriesFew DEF IInv, Handshake
  <2>2. \A d \in serverOpen : Carries(toClient'[d], "attached") => lease = d
    BY Unfolded, CarriesFew DEF IInv, Handshake
  <2>3. \A u \in Tuis : tui'[u].conn \in serverOpen /\ tui'[u].loop \in Attached => lease = tui'[u].conn
    BY <1>6 DEF IInv, Handshake, Attached, Loop, ConnOf
  <2>4. ASSUME NEW u \in Tuis, tui'[u].loop = "opening"
        PROVE  tui'[u].conn \notin serverOpen /\ toClient'[tui'[u].conn] = <<>>
    <3>1. CASE u = t
      BY <1>1, <1>6, <3>1
    <3>2. CASE u # t
      <4>1. tui'[u] = tui[u] /\ Loop(u) = "opening"
        BY <1>6, <2>4, <3>2 DEF Loop
      <4>2. ConnOf(u) \in Conns
        BY <4>1, OfSource
      <4>3. ConnOf(u) \notin serverOpen /\ toClient[ConnOf(u)] = <<>>
        BY <4>1 DEF IInv, Handshake
      <4>4. QED
        BY <4>1, <4>2, <4>3 DEF ConnOf
    <3>3. QED
      BY <3>1, <3>2
  <2>5. QED
    BY <1>2, <2>1, <2>2, <2>3, <2>4 DEF Handshake, Loop, ConnOf
<1>10. LeaseIsLive'
  BY <1>2 DEF IInv, LeaseIsLive
<1>11. QED
  BY <1>5, <1>8, <1>9, <1>10 DEF IInv

(* A message is taken by its source, which may go on with it and send requests. *)
LEMMA TakeStep ==
  ASSUME IInv, NEW t \in Tuis, ConnOf(t) \in clientOpen, toClient[ConnOf(t)] # <<>>,
         NEW STATE requests, requests \in Seq(Request), ~Carries(requests, "detach"),
         Take(t, requests), UNCHANGED <<up, progress, rows, server, faults>>,
         NEW STATE source, source \in Source, tui' = [tui EXCEPT ![t] = source],
         source.conn = ConnOf(t), source.loop \notin {"idle", "sleeping", "opening"},
         Len(source.pending) <= HistoryLimit,
         source.loop \in Attached /\ ConnOf(t) \in serverOpen => lease = ConnOf(t)
  PROVE  IInv'
<1> DEFINE c == ConnOf(t)
<1>1. /\ c \in Conns /\ toClient[c] \in Seq(Message) /\ toServer[c] \in Seq(Request)
      /\ toClient' = [toClient EXCEPT ![c] = Tail(@)]
      /\ toServer' = [toServer EXCEPT ![c] = IF c \in serverOpen THEN @ \o requests ELSE <<>>]
      /\ UNCHANGED <<clientOpen, lease, age, visual, subscribed, serverOpen>>
  BY Unfolded DEF Take, server
<1>2. /\ \A u \in Tuis : u # t => ConnOf(u) # c
      /\ \A u \in Tuis : u # t => tui'[u] = tui[u]
      /\ tui'[t] = source
  <2>1. \A u \in Tuis : u # t => tui'[u] = tui[u]
    BY DEF IInv, Shapes
  <2>2. tui'[t] = source
    BY DEF IInv, Shapes
  <2>3. \A u \in Tuis : u # t => ConnOf(u) # c
    BY Unfolded DEF IInv, Ends
  <2>4. QED
    BY <2>1, <2>2, <2>3
<1> HIDE DEF c
<1>3. /\ toClient' \in [Conns -> Seq(Message)]
      /\ \A d \in Conns : \A x : Carries(toClient'[d], x) => Carries(toClient[d], x)
      /\ \A d \in Conns : d # c => toClient'[d] = toClient[d]
  <2>1. /\ Tail(toClient[c]) \in Seq(Message)
        /\ \A x : Carries(Tail(toClient[c]), x) => Carries(toClient[c], x)
    BY <1>1, CarriesTail DEF c
  <2>2. QED
    BY <1>1, <2>1 DEF IInv, Shapes
<1>4. /\ toServer' \in [Conns -> Seq(Request)]
      /\ \A d \in Conns : Carries(toServer'[d], "detach") => Carries(toServer[d], "detach")
      /\ \A d \in Conns : d # c => toServer'[d] = toServer[d]
      /\ c \notin serverOpen => toServer'[c] = <<>>
  <2>1. /\ toServer[c] \o requests \in Seq(Request) /\ <<>> \in Seq(Request)
        /\ Carries(toServer[c] \o requests, "detach") => Carries(toServer[c], "detach")
    BY <1>1, CarriesConcat, EmptySeq
  <2>2. QED
    BY <1>1, <2>1, CarriesFew DEF IInv, Shapes
<1>5. Shapes'
  BY <1>1, <1>3, <1>4 DEF IInv, Shapes, IsSession, Request, Notice, Message, Source, States,
     Places, Asking, Row, Session
<1>6. Ends'
  <2>1. /\ \A d \in Conns : d \notin clientOpen => toClient'[d] = <<>>
        /\ \A d \in Conns : d \notin serverOpen => toServer'[d] = <<>>
    BY <1>3, <1>4 DEF IInv, Ends, c
  <2>2. \A u \in Tuis : IF tui'[u].loop \in {"idle", "sleeping"} THEN tui'[u].conn = NoConn
                      ELSE tui'[u].conn \in clientOpen
    BY <1>2 DEF IInv, Ends, Loop, ConnOf
  <2>3. \A u \in Tuis : Len(tui'[u].pending) <= HistoryLimit
    BY <1>2 DEF IInv, Ends
  <2>4. \A u, v \in Tuis : u # v => tui'[u].conn # tui'[v].conn \/ tui'[u].conn = NoConn
    BY <1>2 DEF IInv, Ends, ConnOf
  <2>5. QED
    BY <1>1, <2>1, <2>2, <2>3, <2>4 DEF Ends, Loop, ConnOf
<1>7. Handshake'
  <2>1. \A d \in clientOpen : ~Carries(toServer'[d], "detach")
    BY <1>4, Unfolded DEF IInv, Handshake
  <2>2. \A d \in serverOpen : Carries(toClient'[d], "attached") => lease = d
    BY <1>3, Unfolded DEF IInv, Handshake
  <2>3. \A u \in Tuis : tui'[u].conn \in serverOpen /\ tui'[u].loop \in Attached => lease = tui'[u].conn
    BY <1>2 DEF IInv, Handshake, Loop, ConnOf
  <2>4. ASSUME NEW u \in Tuis, tui'[u].loop = "opening"
        PROVE  tui'[u].conn \notin serverOpen /\ toClient'[tui'[u].conn] = <<>>
    <3>1. u # t /\ tui'[u] = tui[u] /\ Loop(u) = "opening"
      BY <1>2, <2>4 DEF Loop
    <3>2. ConnOf(u) \in Conns /\ ConnOf(u) # c
      BY <1>2, <3>1, OfSource
    <3>3. ConnOf(u) \notin serverOpen /\ toClient[ConnOf(u)] = <<>>
      BY <3>1 DEF IInv, Handshake
    <3>4. QED
      BY <1>3, <3>1, <3>2, <3>3 DEF ConnOf
  <2>5. QED
    BY <1>1, <2>1, <2>2, <2>3, <2>4 DEF Handshake, Loop, ConnOf
<1>8. LeaseIsLive'
  BY <1>1 DEF IInv, LeaseIsLive
<1>9. QED
  BY <1>5, <1>6, <1>7, <1>8 DEF IInv

(* What waits for a source is a message, and its source is not still dialling. *)
LEMMA Received ==
  ASSUME IInv, NEW t \in Tuis, NEW type, Gets(t, type)
  PROVE  /\ ConnOf(t) \in clientOpen /\ ConnOf(t) \in Conns /\ toClient[ConnOf(t)] # <<>>
         /\ Head(toClient[ConnOf(t)]) \in Message /\ Head(toClient[ConnOf(t)]).type = type
         /\ Carries(toClient[ConnOf(t)], type)
         /\ Loop(t) \in Places \ {"idle", "sleeping", "opening"}
<1>1. /\ ConnOf(t) \in clientOpen /\ toClient[ConnOf(t)] # <<>>
      /\ Head(toClient[ConnOf(t)]).type = type
  BY DEF Gets
<1>2. ConnOf(t) \in Conns /\ ConnOf(t) # NoConn /\ toClient[ConnOf(t)] \in Seq(Message)
  BY <1>1, Unfolded
<1>3. Loop(t) \in Places /\ Loop(t) \notin {"idle", "sleeping"}
  BY <1>2, OfSource
<1>4. Loop(t) # "opening"
  BY <1>1 DEF IInv, Handshake
<1>5. Head(toClient[ConnOf(t)]) \in Message /\ Carries(toClient[ConnOf(t)], type)
  BY <1>1, <1>2, CarriesTail
<1>6. QED
  BY <1>1, <1>2, <1>3, <1>4, <1>5

(* A row of the session that is sent or received.                             *)
LEMMA Payloads ==
  ASSUME NEW m \in Message
  PROVE  /\ m.type = "event" => m.row \in Row
         /\ m.type = "snapshot" => m.rows \in Session
BY DEF Message, Notice

LEMMA RetryStep ==
  ASSUME IInv, NEW t \in Tuis, NEW STATE farewell, farewell \in Seq(Request), Retry(t, farewell),
         UNCHANGED <<up, progress, rows, server>>, faults' \in 0..MaxFaults
  PROVE  IInv'
<1>1. /\ "reconnecting" \in States /\ Hang(ConnOf(t), farewell)
      /\ tui' = [tui EXCEPT ![t] = At("reconnecting", "sleeping", NoConn)]
  BY DEF Retry, States
<1>2. QED
  BY <1>1, HangStep

LEMMA GetMessageStep ==
  ASSUME IInv, NEW t \in Tuis, GetMessage(t)
  PROVE  IInv'
<1> DEFINE c == ConnOf(t)
           m == Head(toClient[c])
<1>1. /\ UNCHANGED <<up, progress, rows, server, faults>>
      /\ \E type : Gets(t, type)
  BY DEF GetMessage, GetAck, GetAttached, GetRefused, GetError, GetSnapshot, GetEvent, daemon
<1>2. /\ faults \in 0..MaxFaults /\ tui[t] \in Source /\ Len(tui[t].pending) <= HistoryLimit
      /\ tui \in [Tuis -> Source]
      /\ Loop(t) \in Attached /\ c \in serverOpen => lease = c
  BY OfSource DEF IInv, Shapes, Ends, Handshake
<1>3. /\ c \in clientOpen /\ toClient[c] # <<>> /\ m \in Message
      /\ Loop(t) \in Places \ {"idle", "sleeping", "opening"}
      /\ \A type : Gets(t, type) => m.type = type /\ Carries(toClient[c], type)
  BY <1>1, Received
<1>4. /\ <<>> \in Seq(Request) /\ <<Is("detach")>> \in Seq(Request)
      /\ <<Is("attach")>> \in Seq(Request) /\ ~Carries(<<Is("attach")>>, "detach")
      /\ <<Is("subscribe"), Is("snapshot.request")>> \in Seq(Request)
      /\ ~Carries(<<Is("subscribe"), Is("snapshot.request")>>, "detach")
      /\ ~Carries(<<>>, "detach")
  BY EmptySeq, Kinds, CarriesFew
<1>5. \A loop \in Places : LET s == [tui[t] EXCEPT !.loop = loop] IN
        /\ s \in Source /\ s.conn = c /\ s.loop = loop /\ s.pending = tui[t].pending
        /\ [tui EXCEPT ![t].loop = loop] = [tui EXCEPT ![t] = s]
  BY <1>2 DEF Source, ConnOf
<1> HIDE DEF c, m
<1>6. CASE GetAck(t)
  <2> DEFINE s == [tui[t] EXCEPT !.loop = "attach"]
  <2>1. Take(t, <<Is("attach")>>) /\ tui' = [tui EXCEPT ![t].loop = "attach"] /\ "attach" \in Places
    BY <1>6 DEF GetAck, Places, Asking
  <2>2. /\ s \in Source /\ s.conn = c /\ s.loop = "attach" /\ Len(s.pending) <= HistoryLimit
        /\ tui' = [tui EXCEPT ![t] = s]
    BY <1>2, <1>5, <2>1
  <2> HIDE DEF s
  <2>3. QED
    BY <1>1, <1>3, <1>4, <2>1, <2>2, TakeStep DEF Attached, c
<1>7. CASE GetAttached(t)
  <2> DEFINE s == [tui[t] EXCEPT !.loop = "snapshot"]
  <2>1. /\ Take(t, <<Is("subscribe"), Is("snapshot.request")>>) /\ Gets(t, "attached")
        /\ tui' = [tui EXCEPT ![t].loop = "snapshot"] /\ "snapshot" \in Places
    BY <1>7 DEF GetAttached, Places, Asking
  <2>2. /\ s \in Source /\ s.conn = c /\ s.loop = "snapshot" /\ Len(s.pending) <= HistoryLimit
        /\ tui' = [tui EXCEPT ![t] = s]
    BY <1>2, <1>5, <2>1
  <2> HIDE DEF s
  <2>3. c \in serverOpen => lease = c
    BY <1>3, <2>1 DEF IInv, Handshake
  <2>4. QED
    BY <1>1, <1>3, <1>4, <2>1, <2>2, <2>3, TakeStep DEF c
<1>8. CASE GetRefused(t)
  BY <1>1, <1>2, <1>4, <1>8, RetryStep DEF GetRefused
<1>9. CASE GetError(t)
  <2>1. CASE Loop(t) \in {"attach", "snapshot"}
    <3>1. Retry(t, <<>>) \/ Retry(t, <<Is("detach")>>)
      BY <1>9, <2>1 DEF GetError
    <3>2. QED
      BY <1>1, <1>2, <1>4, <3>1, RetryStep
  <2>2. CASE Loop(t) \notin {"attach", "snapshot"}
    <3>1. Take(t, <<>>) /\ tui' = tui
      BY <1>9, <2>2 DEF GetError
    <3>2. tui' = [tui EXCEPT ![t] = tui[t]] /\ tui[t].conn = c /\ tui[t].loop = Loop(t)
      BY <1>2, <3>1 DEF Loop, ConnOf, c
    <3>3. QED
      BY <1>1, <1>2, <1>3, <1>4, <3>1, <3>2, TakeStep DEF c
  <2>3. QED
    BY <2>1, <2>2
<1>10. CASE GetSnapshot(t)
  <2> DEFINE s == [tui[t] EXCEPT !.loop = "resolved", !.got = m.rows]
  <2>1. /\ Take(t, <<>>) /\ Gets(t, "snapshot") /\ Loop(t) = "snapshot"
        /\ tui' = [tui EXCEPT ![t].loop = "resolved", ![t].got = m.rows]
    BY <1>10 DEF GetSnapshot, m, c
  <2>2. m.rows \in Session
    BY <1>3, <2>1, Payloads
  <2>3. /\ s \in Source /\ s.conn = c /\ s.loop = "resolved" /\ Len(s.pending) <= HistoryLimit
    BY <1>2, <2>2 DEF Source, Places, c, ConnOf
  <2>4. tui' = [tui EXCEPT ![t] = s]
    BY <1>2, <2>1 DEF Source
  <2>5. c \in serverOpen => lease = c
    BY <1>2, <2>1 DEF Attached
  <2> HIDE DEF s
  <2>6. QED
    BY <1>1, <1>3, <1>4, <2>1, <2>3, <2>4, <2>5, TakeStep DEF c
<1>11. CASE GetEvent(t)
  <2> DEFINE kept == Append(tui[t].pending, m.row)
             all == IF Len(kept) > HistoryLimit THEN Tail(kept) ELSE kept
             s == [tui[t] EXCEPT !.pending = all]
  <2>1. Take(t, <<>>) /\ Gets(t, "event")
    BY <1>11 DEF GetEvent
  <2>2. CASE Loop(t) = "synchronized"
    <3>1. tui' = tui
      BY <1>11, <2>2 DEF GetEvent
    <3>2. tui' = [tui EXCEPT ![t] = tui[t]] /\ tui[t].conn = c /\ tui[t].loop = Loop(t)
      BY <1>2, <3>1 DEF Loop, ConnOf, c
    <3>3. QED
      BY <1>1, <1>2, <1>3, <1>4, <2>1, <3>2, TakeStep DEF c
  <2>3. CASE Loop(t) # "synchronized"
    <3>1. tui' = [tui EXCEPT ![t].pending = all]
      BY <1>11, <2>3 DEF GetEvent, m, c
    <3>2. m.row \in Row
      BY <1>3, <2>1, Payloads
    <3>3. tui[t].pending \in Seq(Row) /\ Len(tui[t].pending) \in Nat
      BY <1>2, LenProperties DEF Source
    <3>4. kept \in Seq(Row) /\ kept # <<>> /\ Len(kept) = Len(tui[t].pending) + 1
      BY <3>2, <3>3, AppendProperties
    <3> HIDE DEF kept
    <3>5. Tail(kept) \in Seq(Row) /\ Len(Tail(kept)) = Len(kept) - 1
      BY <3>4, HeadTailProperties
    <3>6. all \in Seq(Row) /\ Len(all) <= HistoryLimit
      BY <1>2, <3>3, <3>4, <3>5, HistoryLimitAssumption
    <3> HIDE DEF all
    <3>7. s \in Source /\ s.conn = c /\ s.loop = Loop(t) /\ s.pending = all
      BY <1>2, <3>6 DEF Source, Loop, ConnOf, c
    <3>8. tui' = [tui EXCEPT ![t] = s]
      BY <1>2, <3>1 DEF Source
    <3> HIDE DEF s
    <3>9. QED
      BY <1>1, <1>2, <1>3, <1>4, <2>1, <3>6, <3>7, <3>8, TakeStep DEF c
  <2>4. QED
    BY <2>2, <2>3
<1>12. QED
  BY <1>6, <1>7, <1>8, <1>9, <1>10, <1>11 DEF GetMessage

LEMMA OpensStep ==
  ASSUME IInv, NEW t \in Tuis, Opens(t)
  PROVE  IInv'
<1> DEFINE c == ConnOf(t)
<1>1. /\ UNCHANGED <<progress, rows, lease, age, visual, subscribed, faults, up>>
      /\ Loop(t) = "opening" /\ faults \in 0..MaxFaults
  BY DEF Opens, daemon, IInv, Shapes
<1>2. /\ c \in clientOpen /\ c \in Conns /\ c # NoConn
      /\ c \notin serverOpen /\ toClient[c] = <<>>
      /\ tui[t] \in Source
  BY <1>1, OfSource, Unfolded DEF IInv, Handshake, Attached
<1>3. CASE ~up
  <2>1. Retry(t, <<>>) /\ UNCHANGED server /\ <<>> \in Seq(Request)
    BY <1>1, <1>3, EmptySeq DEF Opens, server
  <2>2. QED
    BY <1>1, <2>1, RetryStep
<1>4. CASE up
  <2>1. /\ tui' = [tui EXCEPT ![t].loop = "hello"]
        /\ serverOpen' = serverOpen \cup {c}
        /\ toServer' = [toServer EXCEPT ![c] = <<Is("hello")>>]
        /\ UNCHANGED <<clientOpen, toClient>>
    BY <1>4 DEF Opens
  <2>2. <<Is("hello")>> \in Seq(Request) /\ ~Carries(<<Is("hello")>>, "detach")
    BY Kinds, CarriesFew
  <2>3. /\ tui' \in [Tuis -> Source]
        /\ \A u \in Tuis : u # t => tui'[u] = tui[u]
        /\ tui'[t].loop = "hello" /\ tui'[t].conn = c /\ tui'[t].pending = tui[t].pending
    BY <1>2, <2>1 DEF IInv, Shapes, Source, Places, Asking, ConnOf
  <2>4. \A u \in Tuis : u # t => ConnOf(u) # c
    BY <1>2 DEF IInv, Ends
  <2> HIDE DEF c
  <2>5. Shapes'
    BY <1>1, <1>2, <2>1, <2>2, <2>3 DEF IInv, Shapes, IsSession, Request, Notice, Message, Source,
       States, Places, Asking, Row, Session
  <2>6. Ends'
    <3>1. /\ \A d \in Conns : d \notin clientOpen => toClient[d] = <<>>
          /\ \A d \in Conns : d \notin serverOpen' => toServer'[d] = <<>>
      BY <2>1 DEF IInv, Ends, Shapes
    <3>2. \A u \in Tuis : IF tui'[u].loop \in {"idle", "sleeping"} THEN tui'[u].conn = NoConn
                        ELSE tui'[u].conn \in clientOpen
      BY <1>2, <2>3 DEF IInv, Ends, Loop, ConnOf
    <3>3. \A u \in Tuis : Len(tui'[u].pending) <= HistoryLimit
      BY <2>3 DEF IInv, Ends
    <3>4. \A u, v \in Tuis : u # v => tui'[u].conn # tui'[v].conn \/ tui'[u].conn = NoConn
      BY <2>3, <2>4 DEF IInv, Ends, ConnOf
    <3>5. QED
      BY <2>1, <3>1, <3>2, <3>3, <3>4 DEF Ends, Loop, ConnOf
  <2>7. Handshake'
    <3>1. \A d \in clientOpen : ~Carries(toServer'[d], "detach")
      BY <2>1, <2>2, Unfolded DEF IInv, Handshake, Shapes
    <3>2. \A d \in serverOpen' : Carries(toClient[d], "attached") => lease = d
      BY <1>2, <2>1, CarriesFew DEF IInv, Handshake
    <3>3. \A u \in Tuis : tui'[u].conn \in serverOpen' /\ tui'[u].loop \in Attached => lease = tui'[u].conn
      <4> SUFFICES ASSUME NEW u \in Tuis, tui'[u].conn \in serverOpen', tui'[u].loop \in Attached
                   PROVE  lease = tui'[u].conn
        OBVIOUS
      <4>1. u # t
        BY <2>3 DEF Attached
      <4>2. ConnOf(u) \in serverOpen /\ Loop(u) \in Attached /\ tui'[u] = tui[u]
        BY <2>1, <2>3, <2>4, <4>1 DEF ConnOf, Loop
      <4>3. QED
        BY <4>2 DEF IInv, Handshake, ConnOf
    <3>4. \A u \in Tuis : tui'[u].loop = "opening" =>
            tui'[u].conn \notin serverOpen' /\ toClient[tui'[u].conn] = <<>>
      BY <2>1, <2>3, <2>4 DEF IInv, Handshake, ConnOf, Loop
    <3>5. QED
      BY <1>1, <2>1, <3>1, <3>2, <3>3, <3>4 DEF Handshake, Loop, ConnOf, Carries
  <2>8. LeaseIsLive'
    BY <1>1 DEF IInv, LeaseIsLive
  <2>9. QED
    BY <2>5, <2>6, <2>7, <2>8 DEF IInv
<1>5. QED
  BY <1>3, <1>4

LEMMA SynchronizeStep ==
  ASSUME IInv, NEW t \in Tuis, Synchronize(t)
  PROVE  IInv'
<1> DEFINE c == ConnOf(t)
<1>1. /\ UNCHANGED <<up, progress, rows, lease, age, visual, subscribed, serverOpen, clientOpen,
                     toServer, toClient, faults>>
      /\ Loop(t) = "resolved" /\ tui[t] \in Source
      /\ tui' = [tui EXCEPT ![t] = At("connected", "synchronized", c)]
  BY DEF Synchronize, daemon, server, wires, IInv, Shapes
<1>2. c \in clientOpen /\ c \in Conns /\ (c \in serverOpen => lease = c)
  BY <1>1, OfSource DEF IInv, Handshake, Attached
<1>3. <<>> \in Seq(Row) /\ Len(<<>>) = 0
  BY EmptySeq
<1>4. At("connected", "synchronized", c) \in Source
  BY <1>2, <1>3, HistoryLimitAssumption DEF At, Source, Session, States, Places
<1>5. /\ tui' \in [Tuis -> Source]
      /\ \A u \in Tuis : u # t => tui'[u] = tui[u]
      /\ tui'[t].loop = "synchronized" /\ tui'[t].conn = c /\ Len(tui'[t].pending) = 0
  BY <1>1, <1>3, <1>4 DEF IInv, Shapes, At
<1>6. Shapes'
  BY <1>1, <1>5 DEF IInv, Shapes, IsSession, Request, Notice, Message, Source, States,
     Places, Asking, Row, Session
<1>7. Ends'
  <2>1. \A u \in Tuis : IF tui'[u].loop \in {"idle", "sleeping"} THEN tui'[u].conn = NoConn
                      ELSE tui'[u].conn \in clientOpen
    BY <1>2, <1>5 DEF IInv, Ends, Loop, ConnOf
  <2>2. \A u \in Tuis : Len(tui'[u].pending) <= HistoryLimit
    BY <1>5, HistoryLimitAssumption DEF IInv, Ends
  <2>3. \A u, v \in Tuis : u # v => tui'[u].conn # tui'[v].conn \/ tui'[u].conn = NoConn
    <3>1. \A u \in Tuis : tui'[u].conn = ConnOf(u)
      BY <1>5 DEF ConnOf
    <3>2. QED
      BY <3>1 DEF IInv, Ends
  <2>4. QED
    BY <1>1, <2>1, <2>2, <2>3 DEF IInv, Ends, Loop, ConnOf
<1>8. Handshake'
  <2>1. \A u \in Tuis : tui'[u].conn \in serverOpen /\ tui'[u].loop \in Attached => lease = tui'[u].conn
    BY <1>2, <1>5 DEF IInv, Handshake, Loop, ConnOf
  <2>2. \A u \in Tuis : tui'[u].loop = "opening" =>
          tui'[u].conn \notin serverOpen /\ toClient[tui'[u].conn] = <<>>
    BY <1>5 DEF IInv, Handshake, ConnOf, Loop
  <2>3. QED
    BY <1>1, <2>1, <2>2 DEF IInv, Handshake, Loop, ConnOf, Carries
<1>9. LeaseIsLive'
  BY <1>1 DEF IInv, LeaseIsLive
<1>10. QED
  BY <1>6, <1>7, <1>8, <1>9 DEF IInv

LEMMA PingStep ==
  ASSUME IInv, NEW t \in Tuis, Ping(t)
  PROVE  IInv'
<1> DEFINE c == ConnOf(t)
<1>1. /\ UNCHANGED <<up, progress, rows, lease, age, visual, subscribed, serverOpen, clientOpen,
                     toClient, tui, faults>>
      /\ c \in serverOpen /\ toServer' = [toServer EXCEPT ![c] = Append(@, Is("ping"))]
  BY DEF Ping, daemon, server
<1>2. c \in Conns /\ toServer[c] \in Seq(Request) /\ Is("ping") \in Request /\ Is("ping").type = "ping"
  BY <1>1, Unfolded, Kinds
<1> HIDE DEF c
<1>3. /\ Append(toServer[c], Is("ping")) \in Seq(Request)
      /\ Carries(Append(toServer[c], Is("ping")), "detach") => Carries(toServer[c], "detach")
  BY <1>2, CarriesAppend
<1>4. /\ toServer' \in [Conns -> Seq(Request)]
      /\ \A d \in Conns : Carries(toServer'[d], "detach") => Carries(toServer[d], "detach")
      /\ \A d \in Conns : d \notin serverOpen => toServer'[d] = toServer[d]
  BY <1>1, <1>2, <1>3 DEF IInv, Shapes
<1>5. Shapes'
  BY <1>1, <1>4 DEF IInv, Shapes, IsSession, Request, Notice, Message, Source, States,
     Places, Asking, Row, Session
<1>6. Ends'
  BY <1>1, <1>4 DEF IInv, Ends, Loop, ConnOf
<1>7. Handshake'
  <2>1. \A d \in clientOpen : ~Carries(toServer'[d], "detach")
    BY <1>4, Unfolded DEF IInv, Handshake
  <2>2. QED
    BY <1>1, <2>1 DEF IInv, Handshake, Loop, ConnOf, Carries
<1>8. LeaseIsLive'
  BY <1>1 DEF IInv, LeaseIsLive
<1>9. QED
  BY <1>5, <1>6, <1>7, <1>8 DEF IInv

LEMMA RedialStep ==
  ASSUME IInv, NEW t \in Tuis, Start(t) \/ Wake(t)
  PROVE  IInv'
<1>1. /\ UNCHANGED <<up, progress, rows, server, toServer, toClient, faults>>
      /\ \E state \in States : Dial(t, state, clientOpen)
  BY DEF Start, Wake, daemon, States
<1>2. toClient' = [d \in Conns |-> IF d \in clientOpen THEN toClient[d] ELSE <<>>]
  BY <1>1 DEF IInv, Shapes, Ends
<1>3. QED
  BY <1>1, <1>2, DialStep

LEMMA LoseSocketStep ==
  ASSUME IInv, NEW t \in Tuis, LoseSocket(t)
  PROVE  IInv'
<1>1. /\ UNCHANGED <<up, progress, rows, server, faults>>
      /\ faults \in 0..MaxFaults
      /\ Loop(t) \in Asking \cup {"synchronized"}
  BY DEF LoseSocket, daemon, IInv, Shapes
<1>2. CASE Loop(t) = "synchronized"
  <2> DEFINE open == clientOpen \ {ConnOf(t)}
  <2>1. /\ Dial(t, "reconnecting", open) /\ "reconnecting" \in States
        /\ toClient' = [toClient EXCEPT ![ConnOf(t)] = <<>>] /\ UNCHANGED toServer
    BY <1>2 DEF LoseSocket, States
  <2>2. toClient' = [d \in Conns |-> IF d \in open THEN toClient[d] ELSE <<>>]
    BY <2>1 DEF IInv, Shapes, Ends
  <2>3. open \in SUBSET clientOpen /\ (\A d \in clientOpen \ open : d = ConnOf(t))
    OBVIOUS
  <2> HIDE DEF open
  <2>4. QED
    BY <1>1, <2>1, <2>2, <2>3, DialStep
<1>3. CASE Loop(t) # "synchronized"
  <2>1. Retry(t, <<>>) /\ <<>> \in Seq(Request)
    BY <1>3, EmptySeq DEF LoseSocket
  <2>2. QED
    BY <1>1, <2>1, RetryStep
<1>4. QED
  BY <1>2, <1>3

LEMMA GivesUpStep ==
  ASSUME IInv, NEW t \in Tuis, RequestTimeout(t) \/ Stop(t)
  PROVE  IInv'
<1>1. /\ <<>> \in Seq(Request) /\ <<Is("detach")>> \in Seq(Request)
      /\ faults \in 0..MaxFaults /\ MaxFaults \in Nat
  BY EmptySeq, Kinds, SessionAssumption DEF IInv, Shapes
<1>2. CASE RequestTimeout(t)
  <2>1. /\ UNCHANGED <<up, progress, rows, server>> /\ faults < MaxFaults /\ faults' = faults + 1
        /\ Retry(t, <<>>) \/ Retry(t, <<Is("detach")>>)
    BY <1>2 DEF RequestTimeout, daemon
  <2>2. faults' \in 0..MaxFaults
    BY <1>1, <2>1
  <2>3. QED
    BY <1>1, <2>1, <2>2, RetryStep
<1>3. CASE Stop(t)
  <2>1. /\ UNCHANGED <<up, progress, rows, server, faults>> /\ "stopped" \in States
        /\ tui' = [tui EXCEPT ![t] = At("stopped", "idle", NoConn)]
        /\ Hang(ConnOf(t), <<>>) \/ Hang(ConnOf(t), <<Is("detach")>>)
    BY <1>3 DEF Stop, daemon, States
  <2>2. QED
    BY <1>1, <2>1, HangStep
<1>4. QED
  BY <1>2, <1>3

LEMMA NextStep == IInv /\ [Next]_vars => IInv'
<1> SUFFICES ASSUME IInv, [Next]_vars PROVE IInv'
  OBVIOUS
<1>1. CASE \E k \in Calls : CallStarts(k) \/ CallEnds(k)
  <2>1. PICK k \in Calls : CallStarts(k) \/ CallEnds(k)
    BY <1>1
  <2>2. /\ progress' \in [Calls -> {"new", "running", "done"}]
        /\ \/ Publish([call |-> k, status |-> "running"])
           \/ Publish([call |-> k, status |-> "done"])
    BY <2>1 DEF CallStarts, CallEnds, IInv, Shapes
  <2>3. [call |-> k, status |-> "running"] \in Row /\ [call |-> k, status |-> "done"] \in Row
    BY DEF Row
  <2>4. QED
    BY <2>2, <2>3, PublishStep
<1>2. CASE UNCHANGED vars
  <2>1. UNCHANGED <<up, progress, rows, lease, age, visual, subscribed, serverOpen, clientOpen,
                    toServer, toClient, tui, faults>>
    BY <1>2 DEF vars, daemon, server, wires
  <2>2. Shapes'
    BY <2>1 DEF IInv, Shapes, IsSession, Request, Notice, Message, Source, States,
       Places, Asking, Row, Session
  <2>3. QED
    BY <2>1, <2>2 DEF IInv, Ends, Handshake, LeaseIsLive, Loop, ConnOf, Carries
<1>3. CASE \E c \in Conns : Hear(c) \/ SeeClose(c)
  BY <1>3, HearStep, ServerStep
<1>4. CASE ExpireLease \/ Tick \/ DaemonDown \/ DaemonUp
  BY <1>4, ServerStep
<1>5. CASE \E t \in Tuis : Start(t) \/ GoesOn(t) \/ RequestTimeout(t) \/ Ping(t) \/ Stop(t)
  BY <1>5, RedialStep, OpensStep, GetMessageStep, SynchronizeStep, LoseSocketStep, PingStep,
     GivesUpStep DEF GoesOn
<1>6. QED
  BY <1>1, <1>2, <1>3, <1>4, <1>5 DEF Next

-----------------------------------------------------------------------------
(* The strengthened invariant of the lease and the connections.               *)
THEOREM SessionInvariant == Spec => []IInv
<1>1. QED
  BY InitStep, NextStep, PTL DEF Spec

(* One renderer at a time, and no lease left to a dead connection: the lease  *)
(* (attach, expiry, close and detach of ipc-server.ts) and both ends of every *)
(* connection (session-source.ts) agree, whatever closes or comes late.       *)
THEOREM LeaseIsAlwaysSound == Spec => []LeaseIsSound
<1>1. IInv => LeaseIsSound
  <2> SUFFICES ASSUME IInv PROVE LeaseIsSound
    OBVIOUS
  <2>1. \A t \in Tuis : /\ tui[t].state \in States /\ Loop(t) \in Places
                      /\ Len(tui[t].pending) <= HistoryLimit
    BY DEF IInv, Shapes, Ends, Source, Loop
  <2>2. TypeOK
    BY <2>1 DEF IInv, Shapes, Ends, TypeOK
  <2>3. ConnectedHoldsLease
    BY DEF IInv, Handshake, Attached, ConnectedHoldsLease
  <2>4. QED
    BY <2>2, <2>3 DEF IInv, LeaseIsSound
<1>2. QED
  BY <1>1, SessionInvariant, PTL
-----------------------------------------------------------------------------
(***************************************************************************)
(* What a step may do to the sources.                                      *)
(***************************************************************************)

(* A source that was stopped is in no await any more.                         *)
StoppedIsIdle == \A t \in Tuis : tui[t].state = "stopped" => Loop(t) = "idle"

(* Every TUI shows a session, the empty one at first.                         *)
Drawn == DOMAIN view = Tuis

(* The source of t goes on, and nobody else's does.                           *)
OnlyMoves(t) ==
  /\ tui[t].state # "stopped"
  /\ DOMAIN view' = DOMAIN view
  /\ \A u \in Tuis \ {t} : tui'[u] = tui[u] /\ view'[u] = view[u]
  /\ tui'[t].state = "stopped" => tui'[t].loop = "idle"

(* Whoever waits, sleeps or is connected was not stopped.                     *)
LEMMA WaitingIsNotStopped ==
  ASSUME IInv, StoppedIsIdle, NEW t \in Tuis, Loop(t) # "idle"
  PROVE  tui[t].state # "stopped"
BY DEF StoppedIsIdle

(* A source that is given a new state, or another place of its loop.          *)
LEMMA SourceSet ==
  ASSUME IInv, NEW t \in Tuis, tui[t].state # "stopped", UNCHANGED view,
         NEW state \in States, NEW loop, NEW c, state = "stopped" => loop = "idle",
         tui' = [tui EXCEPT ![t] = At(state, loop, c)]
  PROVE  OnlyMoves(t)
BY DEF IInv, Shapes, OnlyMoves, At

LEMMA SourceGoesOn ==
  ASSUME IInv, NEW t \in Tuis, tui[t].state # "stopped", UNCHANGED view,
         NEW s, s.state = tui[t].state, tui' = [tui EXCEPT ![t] = s]
  PROVE  OnlyMoves(t)
BY DEF IInv, Shapes, OnlyMoves

LEMMA SourceRetries ==
  ASSUME IInv, NEW t \in Tuis, tui[t].state # "stopped", UNCHANGED view,
         NEW STATE farewell, Retry(t, farewell)
  PROVE  OnlyMoves(t)
<1>1. tui' = [tui EXCEPT ![t] = At("reconnecting", "sleeping", NoConn)]
  BY DEF Retry
<1>2. "reconnecting" \in States /\ "reconnecting" # "stopped"
  BY DEF States
<1>3. QED
  BY <1>1, <1>2, SourceSet

LEMMA SourceDials ==
  ASSUME IInv, NEW t \in Tuis, tui[t].state # "stopped", UNCHANGED view,
         NEW state \in {"connecting", "reconnecting"}, NEW STATE open, Dial(t, state, open)
  PROVE  OnlyMoves(t)
<1>1. PICK c \in Conns : tui' = [tui EXCEPT ![t] = At(state, "opening", c)]
  BY DEF Dial
<1>2. state \in States /\ state # "stopped"
  BY DEF States
<1>3. QED
  BY <1>1, <1>2, SourceSet

(* A message is for a source that waits or is connected.                      *)
LEMMA SourceGetsMessage ==
  ASSUME IInv, StoppedIsIdle, Drawn, NEW t \in Tuis, GetMessage(t)
  PROVE  OnlyMoves(t) \/ UNCHANGED <<tui, view>>
<1>1. ConnOf(t) \in clientOpen
  BY DEF GetMessage, GetAck, GetAttached, GetRefused, GetError, GetSnapshot, GetEvent, Gets
<1>2. Loop(t) # "idle"
  BY <1>1, OfSource, Unfolded
<1>3. tui[t].state # "stopped"
  BY <1>2, WaitingIsNotStopped
<1>4. tui[t] \in Source
  BY OfSource
<1>5. CASE GetAck(t) \/ GetAttached(t)
  <2>1. PICK loop \in {"attach", "snapshot"} : tui' = [tui EXCEPT ![t] = [tui[t] EXCEPT !.loop = loop]]
    BY <1>5 DEF GetAck, GetAttached
  <2>2. UNCHANGED view
    BY <1>5 DEF GetAck, GetAttached
  <2>3. [tui[t] EXCEPT !.loop = loop].state = tui[t].state
    BY <1>4 DEF Source
  <2>4. QED
    BY <1>3, <2>1, <2>2, <2>3, SourceGoesOn
<1>6. CASE GetSnapshot(t)
  <2> DEFINE s == [tui[t] EXCEPT !.loop = "resolved", !.got = Head(toClient[ConnOf(t)]).rows]
  <2>1. tui' = [tui EXCEPT ![t] = s] /\ UNCHANGED view
    BY <1>6 DEF GetSnapshot
  <2>2. s.state = tui[t].state
    BY <1>4 DEF Source
  <2> HIDE DEF s
  <2>3. QED
    BY <1>3, <2>1, <2>2, SourceGoesOn
<1>7. CASE GetRefused(t)
  BY <1>3, <1>7, SourceRetries DEF GetRefused
<1>8. CASE GetError(t)
  <2>1. UNCHANGED view /\ (UNCHANGED tui \/ Retry(t, <<>>) \/ Retry(t, <<Is("detach")>>))
    BY <1>8 DEF GetError
  <2>2. QED
    BY <1>3, <2>1, SourceRetries
<1>9. CASE GetEvent(t)
  <2>1. CASE Loop(t) = "synchronized"
    <3>1. UNCHANGED tui /\ \E drawn : view' = [view EXCEPT ![t] = drawn]
      BY <1>9, <2>1 DEF GetEvent
    <3>2. DOMAIN view' = DOMAIN view /\ \A u \in Tuis \ {t} : view'[u] = view[u]
      BY <3>1 DEF Drawn
    <3>3. QED
      BY <1>3, <3>1, <3>2 DEF OnlyMoves
  <2>2. CASE Loop(t) # "synchronized"
    <3>1. PICK p : tui' = [tui EXCEPT ![t] = [tui[t] EXCEPT !.pending = p]]
      BY <1>9, <2>2 DEF GetEvent
    <3>2. UNCHANGED view
      BY <1>9, <2>2 DEF GetEvent
    <3>3. [tui[t] EXCEPT !.pending = p].state = tui[t].state
      BY <1>4 DEF Source
    <3>4. QED
      BY <1>3, <3>1, <3>2, <3>3, SourceGoesOn
  <2>3. QED
    BY <2>1, <2>2
<1>10. QED
  BY <1>5, <1>6, <1>7, <1>8, <1>9 DEF GetMessage

(* Every other step of a TUI.                                                 *)
LEMMA SourceMoves ==
  ASSUME IInv, StoppedIsIdle, Drawn, NEW t \in Tuis,
         Start(t) \/ GoesOn(t) \/ RequestTimeout(t) \/ Ping(t) \/ Stop(t)
  PROVE  OnlyMoves(t) \/ UNCHANGED <<tui, view>>
<1>1. tui[t] \in Source
  BY OfSource
<1>2. CASE Start(t)
  BY <1>2, SourceDials DEF Start
<1>3. CASE Wake(t)
  BY <1>3, SourceDials, WaitingIsNotStopped DEF Wake
<1>4. CASE Opens(t)
  <2>1. tui[t].state # "stopped" /\ UNCHANGED view
    BY <1>4, WaitingIsNotStopped DEF Opens
  <2>2. CASE tui' = [tui EXCEPT ![t] = [tui[t] EXCEPT !.loop = "hello"]]
    <3>1. [tui[t] EXCEPT !.loop = "hello"].state = tui[t].state
      BY <1>1 DEF Source
    <3>2. QED
      BY <2>1, <2>2, <3>1, SourceGoesOn
  <2>3. CASE Retry(t, <<>>)
    BY <2>1, <2>3, SourceRetries
  <2>4. QED
    BY <1>4, <2>2, <2>3 DEF Opens
<1>5. CASE GetMessage(t)
  BY <1>5, SourceGetsMessage
<1>6. CASE Synchronize(t)
  <2>1. tui[t].state # "stopped"
    BY <1>6, WaitingIsNotStopped DEF Synchronize
  <2>2. /\ \A u \in Tuis \ {t} : tui'[u] = tui[u]
        /\ tui'[t].state = "connected"
    BY <1>6 DEF Synchronize, At, IInv, Shapes
  <2>3. \E drawn : view' = [view EXCEPT ![t] = drawn]
    BY <1>6 DEF Synchronize
  <2>4. DOMAIN view' = DOMAIN view /\ \A u \in Tuis \ {t} : view'[u] = view[u]
    BY <2>3 DEF Drawn
  <2>5. QED
    BY <2>1, <2>2, <2>4 DEF OnlyMoves
<1>7. CASE LoseSocket(t)
  <2>1. tui[t].state # "stopped" /\ UNCHANGED view
    BY <1>7, WaitingIsNotStopped DEF LoseSocket, Asking
  <2>2. Dial(t, "reconnecting", clientOpen \ {ConnOf(t)}) \/ Retry(t, <<>>)
    BY <1>7 DEF LoseSocket
  <2>3. QED
    BY <2>1, <2>2, SourceDials, SourceRetries
<1>8. CASE RequestTimeout(t)
  <2>1. tui[t].state # "stopped" /\ UNCHANGED view
    BY <1>8, WaitingIsNotStopped DEF RequestTimeout, Asking
  <2>2. Retry(t, <<>>) \/ Retry(t, <<Is("detach")>>)
    BY <1>8 DEF RequestTimeout
  <2>3. QED
    BY <2>1, <2>2, SourceRetries
<1>9. CASE Ping(t)
  BY <1>9 DEF Ping
<1>10. CASE Stop(t)
  <2>1. /\ tui[t].state # "stopped" /\ UNCHANGED view
        /\ tui' = [tui EXCEPT ![t] = At("stopped", "idle", NoConn)]
        /\ "stopped" \in States
    BY <1>10 DEF Stop, States
  <2>2. QED
    BY <2>1, SourceSet
<1>11. QED
  BY <1>2, <1>3, <1>4, <1>5, <1>6, <1>7, <1>8, <1>9, <1>10 DEF GoesOn

(* The steps of the server move no source.                                    *)
LEMMA ServerMovesNoSource ==
  ASSUME \/ \E k \in Calls : CallStarts(k) \/ CallEnds(k)
         \/ \E c \in Conns : Hear(c) \/ SeeClose(c)
         \/ ExpireLease \/ Tick \/ DaemonDown \/ DaemonUp
         \/ UNCHANGED vars
  PROVE  UNCHANGED <<tui, view>>
BY DEF CallStarts, CallEnds, Publish, Hear, HearHello, HearAttach, HearSubscribe,
   HearSnapshotRequest, HearPing, HearDetach, Answer, SeeClose, ExpireLease, Forget, Tick,
   DaemonDown, DaemonUp, vars

StoppedStays ==
  \A t \in Tuis : tui[t].state = "stopped" => UNCHANGED <<tui[t], view[t]>>

LEMMA StoppedStep ==
  ASSUME IInv, StoppedIsIdle, Drawn, [Next]_vars
  PROVE  StoppedIsIdle' /\ Drawn' /\ StoppedStays
<1>1. UNCHANGED <<tui, view>> \/ \E t \in Tuis : OnlyMoves(t)
  BY ServerMovesNoSource, SourceMoves DEF Next
<1>2. CASE UNCHANGED <<tui, view>>
  BY <1>2 DEF StoppedIsIdle, Drawn, StoppedStays, Loop
<1>3. CASE \E t \in Tuis : OnlyMoves(t)
  BY <1>3 DEF OnlyMoves, StoppedIsIdle, Drawn, StoppedStays, Loop
<1>4. QED
  BY <1>1, <1>2, <1>3

(* A stopped TUI neither dials nor draws again, in whichever await stop() has *)
(* found its loop (RemoteSessionSource.stop and its generation).              *)
THEOREM StoppedIsForGood == Spec => StoppedForGood
<1>1. Init => StoppedIsIdle /\ Drawn
  BY DEF Init, StoppedIsIdle, Drawn, At, Loop
<1>2. IInv /\ StoppedIsIdle /\ Drawn /\ [Next]_vars =>
        StoppedIsIdle' /\ Drawn' /\ [StoppedStays]_vars
  BY StoppedStep
<1>3. QED
  BY <1>1, <1>2, SessionInvariant, PTL DEF Spec, StoppedForGood, StoppedStays
-----------------------------------------------------------------------------
(***************************************************************************)
(* What a TUI shows.  The snapshot and the events of a subscriber are made *)
(* and sent at different times; Follows says, for each place of its loop,  *)
(* what has to be put together to give the session of the daemon.          *)
(***************************************************************************)

(* What a source has been sent since it subscribed: it keeps it or it is on   *)
(* the wire.                                                                  *)
Sent(t) == tui[t].pending \o EventsIn(toClient[ConnOf(t)])

(* These events are in the session already: of each call it has the last.     *)
Absorbed(session, events) ==
  \A i \in 1..Len(events) :
    /\ Has(session, events[i].call)
    /\ \A j \in 1..Len(session) : session[j].call = events[i].call =>
         \/ session[j] = events[i]
         \/ \E l \in 1..Len(events) : l > i /\ events[l].call = events[i].call

AskedOnce(q) ==
  \A i, j \in 1..Len(q) : q[i].type = "snapshot.request" /\ q[j].type = "snapshot.request" => i = j

SubscribesFirst(q) ==
  \A j \in 1..Len(q) : q[j].type = "snapshot.request" =>
    \E i \in 1..Len(q) : i < j /\ q[i].type = "subscribe"

(* Before it is attached a source has sent and been sent nothing of this.     *)
NotYet(t) ==
  /\ ConnOf(t) \notin subscribed /\ tui[t].pending = <<>>
  /\ ~Carries(toServer[ConnOf(t)], "subscribe") /\ ~Carries(toServer[ConnOf(t)], "snapshot.request")
  /\ ~Carries(toClient[ConnOf(t)], "event") /\ ~Carries(toClient[ConnOf(t)], "snapshot")

(* The snapshot has not been made: it will hold whatever was sent before.     *)
Requested(t) ==
  /\ ~Carries(toClient[ConnOf(t)], "snapshot")
  /\ AskedOnce(toServer[ConnOf(t)])
  /\ Absorbed(rows, Sent(t))
  /\ ConnOf(t) \notin subscribed =>
       /\ SubscribesFirst(toServer[ConnOf(t)])
       /\ tui[t].pending = <<>> /\ ~Carries(toClient[ConnOf(t)], "event")

(* It is on its way: with what was sent before and after it, it makes up the  *)
(* session.                                                                   *)
Answered(t) ==
  /\ ConnOf(t) \in subscribed
  /\ \A i \in 1..Len(toClient[ConnOf(t)]) : toClient[ConnOf(t)][i].type = "snapshot" =>
       ConsumeAll(toClient[ConnOf(t)][i].rows, Sent(t)) = rows

Follows(t) ==
  /\ Loop(t) \in {"opening", "hello", "attach"} => NotYet(t)
  /\ ConnOf(t) \in serverOpen =>
       /\ Loop(t) = "snapshot" =>
            IF Carries(toServer[ConnOf(t)], "snapshot.request") THEN Requested(t) ELSE Answered(t)
       /\ Loop(t) = "resolved" =>
            ConnOf(t) \in subscribed /\ ConsumeAll(tui[t].got, Sent(t)) = rows
       /\ Loop(t) = "synchronized" =>
            ConnOf(t) \in subscribed /\ ConsumeAll(view[t], EventsIn(toClient[ConnOf(t)])) = rows

-----------------------------------------------------------------------------
(***************************************************************************)
(* What events make of a session, and which events are on the wire.        *)
(***************************************************************************)

(* A row is put into the session, which stays one.                            *)
LEMMA ConsumeIsRows ==
  ASSUME NEW s \in Session, NEW row \in Row
  PROVE  Consume(s, row) \in Session
<1>1. IsSession(s)
  BY DEF Session, IsSession
<1>2. IsSession(Consume(s, row))
  BY <1>1, ConsumeIsSession
<1> QED
  BY <1>2 DEF Session, IsSession

LEMMA ConsumeAllIs ==
  ASSUME NEW s, NEW events, Len(events) \in Nat, NEW g, g[0] = s,
         \A n \in 1..Len(events) : g[n] = Consume(g[n - 1], events[n])
  PROVE  ConsumeAll(s, events) = g[Len(events)]
<1> DEFINE L == Len(events)
           E(f, n) == IF n = 0 THEN s ELSE Consume(f[n - 1], events[n])
           after == CHOOSE f : f = [n \in 0..L |-> E(f, n)]
           h == [n \in 0..L |-> g[n]]
<1>1. h = [n \in 0..L |-> E(h, n)]
  <2>1. ASSUME NEW n \in 0..L PROVE g[n] = E(h, n)
    <3>1. CASE n = 0
      BY <3>1
    <3>2. CASE n # 0
      <4>1. n \in 1..L /\ n - 1 \in 0..L
        BY <3>2
      <4>2. h[n - 1] = g[n - 1]
        BY <4>1
      <4> HIDE DEF h
      <4> QED
        BY <3>2, <4>1, <4>2
    <3> QED
      BY <3>1, <3>2
  <2>2. \A n \in 0..L : g[n] = E(h, n)
    BY <2>1
  <2> HIDE DEF E
  <2> QED
    BY <2>2
<1>2. after = [n \in 0..L |-> E(after, n)]
  <2> HIDE DEF E, h
  <2> QED
    BY <1>1
<1>3. ConsumeAll(s, events) = after[L]
  BY DEF ConsumeAll
<1> HIDE DEF after
<1>4. \A n \in 0..L : after[n] = E(after, n)
  <2> HIDE DEF E
  <2> QED
    BY <1>2, Zenon
<1>5. after[0] = g[0]
  BY <1>4
<1>6. \A n \in 1..L : after[n - 1] = g[n - 1] => after[n] = g[n]
  <2> TAKE n \in 1..L
  <2>1. n \in 0..L /\ n # 0
    OBVIOUS
  <2> QED
    BY <1>4, <2>1
<1>7. after[L] = g[L]
  <2> HIDE DEF E, L
  <2>1. L \in Nat
    BY DEF L
  <2> QED
    BY <1>5, <1>6, <2>1, AlikeAsFarAs
<1> QED
  BY <1>3, <1>7

(* The sessions on the way, one for every event.                              *)
LEMMA ConsumeAllIsAFold ==
  ASSUME NEW s \in Session, NEW events \in Seq(Row)
  PROVE  \E f \in [0..Len(events) -> Session] :
           /\ f[0] = s
           /\ \A n \in 1..Len(events) : f[n] = Consume(f[n - 1], events[n])
           /\ ConsumeAll(s, events) = f[Len(events)]
<1> DEFINE L == Len(events)
           step == [n \in 1..L |-> [r \in Session |-> Consume(r, events[n])]]
<1>1. L \in Nat /\ (\A n \in 1..L : events[n] \in Row)
  BY LenProperties, ElementOfSeq
<1>2. step \in FoldSteps(L, Session)
  BY <1>1, ConsumeIsRows DEF FoldSteps
<1>3. PICK f \in [0..L -> Session] :
        f[0] = s /\ \A n \in 1..L : f[n] = step[n][f[n - 1]]
  <2>1. Folds(L, Session, s, step) # {}
    <3> HIDE DEF step, L
    <3> QED
      BY <1>1, <1>2, FoldIsDefined
  <2> HIDE DEF step, L
  <2> QED
    BY <2>1 DEF Folds
<1>4. \A n \in 1..L : f[n] = Consume(f[n - 1], events[n])
  <2> TAKE n \in 1..L
  <2>1. f[n - 1] \in Session
    BY <1>1, <1>3
  <2> QED
    BY <2>1, <1>3
<1>5. ConsumeAll(s, events) = f[L]
  <2> HIDE DEF step
  <2> QED
    BY <1>1, <1>3, <1>4, ConsumeAllIs
<1> HIDE DEF step
<1> QED
  BY <1>3, <1>4, <1>5

LEMMA ConsumeAllType ==
  ASSUME NEW s \in Session, NEW events \in Seq(Row)
  PROVE  ConsumeAll(s, events) \in Session
<1>1. PICK f \in [0..Len(events) -> Session] : ConsumeAll(s, events) = f[Len(events)]
  BY ConsumeAllIsAFold
<1>2. Len(events) \in 0..Len(events)
  BY LenProperties
<1> QED
  BY <1>1, <1>2

(* One batch of events after another.                                         *)
LEMMA ConsumeAllConcat ==
  ASSUME NEW s \in Session, NEW a \in Seq(Row), NEW b \in Seq(Row)
  PROVE  ConsumeAll(s, a \o b) = ConsumeAll(ConsumeAll(s, a), b)
<1> DEFINE r == ConsumeAll(s, a)
           e == a \o b
<1>1. r \in Session
  BY ConsumeAllType
<1>2. PICK f \in [0..Len(a) -> Session] :
        /\ f[0] = s
        /\ \A n \in 1..Len(a) : f[n] = Consume(f[n - 1], a[n])
        /\ r = f[Len(a)]
  BY ConsumeAllIsAFold
<1> HIDE DEF r
<1>3. PICK g \in [0..Len(b) -> Session] :
        /\ g[0] = r
        /\ \A n \in 1..Len(b) : g[n] = Consume(g[n - 1], b[n])
        /\ ConsumeAll(r, b) = g[Len(b)]
  BY <1>1, ConsumeAllIsAFold
<1>4. /\ e \in Seq(Row) /\ Len(a) \in Nat /\ Len(b) \in Nat /\ Len(e) = Len(a) + Len(b)
      /\ \A i \in 1..(Len(a) + Len(b)) : e[i] = IF i <= Len(a) THEN a[i] ELSE b[i - Len(a)]
  BY ConcatProperties, LenProperties
<1> HIDE DEF e
<1> DEFINE h == [n \in 0..Len(e) |-> IF n <= Len(a) THEN f[n] ELSE g[n - Len(a)]]
<1>5. h[0] = s
  BY <1>2, <1>4
<1>6. ASSUME NEW n \in 1..Len(e) PROVE h[n] = Consume(h[n - 1], e[n])
  <2>1. n \in 0..Len(e) /\ n - 1 \in 0..Len(e) /\ n \in 1..(Len(a) + Len(b))
    BY <1>4
  <2>2. CASE n <= Len(a)
    <3>1. n \in 1..Len(a) /\ n - 1 <= Len(a)
      BY <2>1, <2>2, <1>4
    <3>2. h[n] = f[n] /\ h[n - 1] = f[n - 1] /\ e[n] = a[n]
      BY <2>1, <2>2, <3>1, <1>4
    <3> HIDE DEF h
    <3> QED
      BY <3>1, <3>2, <1>2
  <2>3. CASE n = Len(a) + 1
    <3>1. h[n] = g[1] /\ h[n - 1] = f[Len(a)] /\ e[n] = b[1] /\ 1 \in 1..Len(b) /\ 1 - 1 = 0
      BY <2>1, <2>3, <1>4
    <3> HIDE DEF h
    <3> QED
      BY <3>1, <1>2, <1>3
  <2>4. CASE n > Len(a) + 1
    <3>1. n - Len(a) \in 1..Len(b) /\ (n - 1) - Len(a) = (n - Len(a)) - 1
      BY <2>1, <2>4, <1>4
    <3>2. h[n] = g[n - Len(a)] /\ h[n - 1] = g[(n - Len(a)) - 1] /\ e[n] = b[n - Len(a)]
      BY <2>1, <2>4, <3>1, <1>4
    <3> HIDE DEF h
    <3> QED
      BY <3>1, <3>2, <1>3
  <2> QED
    BY <2>1, <2>2, <2>3, <2>4, <1>4
<1>7. h[Len(e)] = g[Len(b)]
  <2>1. CASE Len(b) = 0
    BY <2>1, <1>2, <1>3, <1>4
  <2>2. CASE Len(b) # 0
    BY <2>2, <1>4
  <2> QED
    BY <2>1, <2>2
<1>8. Len(e) \in Nat
  BY <1>4
<1> HIDE DEF h
<1>9. ConsumeAll(s, e) = h[Len(e)]
  BY <1>5, <1>6, <1>8, ConsumeAllIs
<1> QED
  BY <1>3, <1>7, <1>9 DEF e, r

LEMMA ConsumeAllFew ==
  ASSUME NEW s \in Session, NEW row \in Row
  PROVE  ConsumeAll(s, <<>>) = s /\ ConsumeAll(s, <<row>>) = Consume(s, row)
<1>1. ConsumeAll(s, <<>>) = s
  <2> DEFINE g == [n \in 0..0 |-> s]
  <2>1. Len(<<>>) = 0 /\ g[0] = s /\ 1..0 = {}
    OBVIOUS
  <2> HIDE DEF g
  <2>2. ConsumeAll(s, <<>>) = g[Len(<<>>)]
    BY <2>1, ConsumeAllIs
  <2> QED
    BY <2>1, <2>2
<1>2. ConsumeAll(s, <<row>>) = Consume(s, row)
  <2> DEFINE g == [n \in 0..1 |-> IF n = 0 THEN s ELSE Consume(s, row)]
  <2>1. Len(<<row>>) = 1 /\ g[0] = s /\ g[1] = Consume(s, row) /\ <<row>>[1] = row
    OBVIOUS
  <2> HIDE DEF g
  <2>2. \A n \in 1..Len(<<row>>) : g[n] = Consume(g[n - 1], <<row>>[n])
    BY <2>1
  <2>3. ConsumeAll(s, <<row>>) = g[Len(<<row>>)]
    BY <2>1, <2>2, ConsumeAllIs
  <2> QED
    BY <2>1, <2>3
<1> QED
  BY <1>1, <1>2

LEMMA ConsumeOneMore ==
  ASSUME NEW s \in Session, NEW a \in Seq(Row), NEW row \in Row
  PROVE  ConsumeAll(s, Append(a, row)) = Consume(ConsumeAll(s, a), row)
<1>1. <<row>> \in Seq(Row) /\ Append(a, row) = a \o <<row>>
  BY AppendIsConcat
<1>2. ConsumeAll(s, a) \in Session
  BY ConsumeAllType
<1>3. ConsumeAll(s, a \o <<row>>) = ConsumeAll(ConsumeAll(s, a), <<row>>)
  BY <1>1, ConsumeAllConcat, Zenon
<1>4. ConsumeAll(ConsumeAll(s, a), <<row>>) = Consume(ConsumeAll(s, a), row)
  BY <1>2, ConsumeAllFew, Zenon
<1> QED
  BY <1>1, <1>3, <1>4, Zenon

(* The rows of the events among the messages.                                 *)
EventStep(q, n, found) == IF q[n].type = "event" THEN Append(found, q[n].row) ELSE found

LEMMA EventsInIs ==
  ASSUME NEW q, Len(q) \in Nat, NEW g, g[0] = <<>>,
         \A n \in 1..Len(q) : g[n] = EventStep(q, n, g[n - 1])
  PROVE  EventsIn(q) = g[Len(q)]
<1> DEFINE L == Len(q)
           E(f, n) == IF n = 0 THEN <<>>
                      ELSE IF q[n].type = "event" THEN Append(f[n - 1], q[n].row)
                      ELSE f[n - 1]
           found == CHOOSE f : f = [n \in 0..L |-> E(f, n)]
           h == [n \in 0..L |-> g[n]]
<1>1. h = [n \in 0..L |-> E(h, n)]
  <2>1. ASSUME NEW n \in 0..L PROVE g[n] = E(h, n)
    <3>1. CASE n = 0
      BY <3>1
    <3>2. CASE n # 0
      <4>1. n \in 1..L /\ n - 1 \in 0..L
        BY <3>2
      <4>2. h[n - 1] = g[n - 1]
        BY <4>1
      <4> HIDE DEF h
      <4> QED
        BY <3>2, <4>1, <4>2 DEF EventStep
    <3> QED
      BY <3>1, <3>2
  <2>2. \A n \in 0..L : g[n] = E(h, n)
    BY <2>1
  <2> HIDE DEF E
  <2> QED
    BY <2>2
<1>2. found = [n \in 0..L |-> E(found, n)]
  <2> HIDE DEF E, h
  <2> QED
    BY <1>1
<1>3. EventsIn(q) = found[L]
  BY DEF EventsIn
<1> HIDE DEF found
<1>4. \A n \in 0..L : found[n] = E(found, n)
  <2> HIDE DEF E
  <2> QED
    BY <1>2, Zenon
<1>5. found[0] = g[0]
  BY <1>4
<1>6. \A n \in 1..L : found[n - 1] = g[n - 1] => found[n] = g[n]
  <2> TAKE n \in 1..L
  <2>1. n \in 0..L /\ n # 0
    OBVIOUS
  <2> QED
    BY <1>4, <2>1 DEF EventStep
<1>7. found[L] = g[L]
  <2> HIDE DEF E, L
  <2>1. L \in Nat
    BY DEF L
  <2> QED
    BY <1>5, <1>6, <2>1, AlikeAsFarAs
<1> QED
  BY <1>3, <1>7

LEMMA EventsInIsAFold ==
  ASSUME NEW q \in Seq(Message)
  PROVE  \E f \in [0..Len(q) -> Seq(Row)] :
           /\ f[0] = <<>>
           /\ \A n \in 1..Len(q) : f[n] = EventStep(q, n, f[n - 1])
           /\ EventsIn(q) = f[Len(q)]
<1> DEFINE L == Len(q)
           step == [n \in 1..L |-> [r \in Seq(Row) |-> EventStep(q, n, r)]]
<1>1. L \in Nat /\ (\A n \in 1..L : q[n] \in Message)
  BY LenProperties, ElementOfSeq
<1>2. ASSUME NEW n \in 1..L, NEW r \in Seq(Row) PROVE EventStep(q, n, r) \in Seq(Row)
  BY <1>1, Payloads, AppendProperties DEF EventStep
<1>3. step \in FoldSteps(L, Seq(Row)) /\ <<>> \in Seq(Row)
  BY <1>1, <1>2, EmptySeq DEF FoldSteps
<1>4. PICK f \in [0..L -> Seq(Row)] :
        f[0] = <<>> /\ \A n \in 1..L : f[n] = step[n][f[n - 1]]
  <2>1. Folds(L, Seq(Row), <<>>, step) # {}
    <3> HIDE DEF step, L
    <3> QED
      BY <1>1, <1>3, FoldIsDefined
  <2> HIDE DEF step, L
  <2> QED
    BY <2>1 DEF Folds
<1>5. \A n \in 1..L : f[n] = EventStep(q, n, f[n - 1])
  <2> TAKE n \in 1..L
  <2>1. f[n - 1] \in Seq(Row)
    BY <1>1, <1>4
  <2> QED
    BY <2>1, <1>4
<1>6. EventsIn(q) = f[L]
  <2> HIDE DEF step
  <2> QED
    BY <1>1, <1>4, <1>5, EventsInIs
<1> HIDE DEF step
<1> QED
  BY <1>4, <1>5, <1>6

LEMMA EventsAreRows ==
  ASSUME NEW q \in Seq(Message)
  PROVE  EventsIn(q) \in Seq(Row)
<1>1. PICK f \in [0..Len(q) -> Seq(Row)] : EventsIn(q) = f[Len(q)]
  BY EventsInIsAFold
<1>2. Len(q) \in 0..Len(q)
  BY LenProperties
<1> QED
  BY <1>1, <1>2

(* A message behind the others.                                               *)
LEMMA EventsAfterAppend ==
  ASSUME NEW q \in Seq(Message), NEW m \in Message
  PROVE  EventsIn(Append(q, m)) =
           IF m.type = "event" THEN Append(EventsIn(q), m.row) ELSE EventsIn(q)
<1> DEFINE r == Append(q, m)
<1>1. /\ r \in Seq(Message) /\ Len(q) \in Nat /\ Len(r) = Len(q) + 1
      /\ \A i \in 1..Len(q) : r[i] = q[i]
      /\ r[Len(q) + 1] = m
  BY AppendProperties, LenProperties
<1> HIDE DEF r
<1>2. PICK f \in [0..Len(q) -> Seq(Row)] :
        /\ f[0] = <<>>
        /\ \A n \in 1..Len(q) : f[n] = EventStep(q, n, f[n - 1])
        /\ EventsIn(q) = f[Len(q)]
  BY EventsInIsAFold
<1>3. PICK g \in [0..Len(r) -> Seq(Row)] :
        /\ g[0] = <<>>
        /\ \A n \in 1..Len(r) : g[n] = EventStep(r, n, g[n - 1])
        /\ EventsIn(r) = g[Len(r)]
  BY <1>1, EventsInIsAFold
<1>4. \A n \in 1..Len(q) : f[n - 1] = g[n - 1] => f[n] = g[n]
  <2> TAKE n \in 1..Len(q)
  <2>1. n \in 1..Len(r) /\ r[n] = q[n]
    BY <1>1
  <2> QED
    BY <2>1, <1>2, <1>3 DEF EventStep
<1>5. f[Len(q)] = g[Len(q)]
  <2>1. f[0] = g[0] /\ Len(q) \in Nat
    BY <1>1, <1>2, <1>3
  <2> QED
    BY <2>1, <1>4, AlikeAsFarAs, Zenon
<1>6. Len(r) \in 1..Len(r) /\ Len(r) - 1 = Len(q) /\ r[Len(r)] = m
  BY <1>1
<1>7. EventsIn(r) = EventStep(r, Len(r), EventsIn(q))
  BY <1>2, <1>3, <1>5, <1>6
<1> QED
  BY <1>6, <1>7 DEF EventStep, r

(* No event among them.                                                       *)
LEMMA NoEvents ==
  ASSUME NEW q \in Seq(Message), ~Carries(q, "event")
  PROVE  EventsIn(q) = <<>>
<1>1. PICK f \in [0..Len(q) -> Seq(Row)] :
        /\ f[0] = <<>>
        /\ \A n \in 1..Len(q) : f[n] = EventStep(q, n, f[n - 1])
        /\ EventsIn(q) = f[Len(q)]
  BY EventsInIsAFold
<1>2. Len(q) \in Nat
  BY LenProperties
<1> DEFINE g == [n \in 0..Len(q) |-> <<>>]
<1>3. /\ \A n \in 0..Len(q) : g[n] = <<>>
      /\ 0 \in 0..Len(q) /\ Len(q) \in 0..Len(q)
      /\ \A n \in 1..Len(q) : n \in 0..Len(q)
  BY <1>2
<1> HIDE DEF g
<1>4. \A n \in 1..Len(q) : f[n - 1] = g[n - 1] => f[n] = g[n]
  <2> TAKE n \in 1..Len(q)
  <2>1. n - 1 \in 0..Len(q)
    BY <1>2
  <2>2. f[n] = f[n - 1]
    BY <1>1 DEF EventStep, Carries
  <2> QED
    BY <2>1, <2>2, <1>3
<1>5. f[Len(q)] = g[Len(q)]
  <2>1. f[0] = g[0] /\ Len(q) \in Nat
    BY <1>1, <1>2, <1>3
  <2> QED
    BY <2>1, <1>4, AlikeAsFarAs, Zenon
<1> QED
  BY <1>1, <1>3, <1>5

(* The message in front.                                                      *)
LEMMA EventsInFront ==
  ASSUME NEW q \in Seq(Message), q # <<>>
  PROVE  EventsIn(q) =
           IF Head(q).type = "event" THEN <<Head(q).row>> \o EventsIn(Tail(q))
           ELSE EventsIn(Tail(q))
<1> DEFINE r == Tail(q)
           first == IF Head(q).type = "event" THEN <<Head(q).row>> ELSE <<>>
<1>1. /\ r \in Seq(Message) /\ Len(q) \in Nat \ {0} /\ Len(r) = Len(q) - 1
      /\ \A i \in 1..Len(r) : r[i] = q[i + 1]
      /\ Head(q) = q[1] /\ Head(q) \in Message
  BY HeadTailProperties, EmptySeq
<1>2. first \in Seq(Row)
  BY <1>1, Payloads, EmptySeq
<1> HIDE DEF r
<1>3. PICK f \in [0..Len(q) -> Seq(Row)] :
        /\ f[0] = <<>>
        /\ \A n \in 1..Len(q) : f[n] = EventStep(q, n, f[n - 1])
        /\ EventsIn(q) = f[Len(q)]
  BY EventsInIsAFold
<1>4. PICK g \in [0..Len(r) -> Seq(Row)] :
        /\ g[0] = <<>>
        /\ \A n \in 1..Len(r) : g[n] = EventStep(r, n, g[n - 1])
        /\ EventsIn(r) = g[Len(r)]
  BY <1>1, EventsInIsAFold
<1> DEFINE h == [n \in 0..Len(r) |-> first \o g[n]]
           k == [n \in 0..Len(r) |-> f[n + 1]]
<1>5. f[1] = first
  <2>1. f[1] = EventStep(q, 1, f[0])
    BY <1>1, <1>3
  <2> QED
    BY <2>1, <1>1, <1>3 DEF EventStep
<1> HIDE DEF first
<1>6. /\ \A n \in 0..Len(r) : h[n] = first \o g[n] /\ k[n] = f[n + 1] /\ g[n] \in Seq(Row)
      /\ Len(r) \in Nat /\ 0 \in 0..Len(r) /\ Len(r) \in 0..Len(r)
  <2>1. Len(r) \in Nat /\ 0 \in 0..Len(r) /\ Len(r) \in 0..Len(r)
    BY <1>1
  <2>2. \A n \in 0..Len(r) : g[n] \in Seq(Row)
    BY <1>4
  <2>3. \A n \in 0..Len(r) : h[n] = first \o g[n] /\ k[n] = f[n + 1]
    BY Zenon
  <2> HIDE DEF h, k
  <2> QED
    BY <2>1, <2>2, <2>3
<1> HIDE DEF h, k
<1>7. k[0] = h[0]
  <2>1. first \o <<>> = first
    BY <1>2, ConcatEmptySeq
  <2>2. h[0] = first \o g[0] /\ k[0] = f[0 + 1]
    BY <1>6
  <2>3. g[0] = <<>> /\ 0 + 1 = 1
    BY <1>4
  <2> QED
    BY <2>1, <2>2, <2>3, <1>5
<1>8. \A n \in 1..Len(r) : k[n - 1] = h[n - 1] => k[n] = h[n]
  <2> SUFFICES ASSUME NEW n \in 1..Len(r), k[n - 1] = h[n - 1] PROVE k[n] = h[n]
    OBVIOUS
  <2>1. /\ n \in 0..Len(r) /\ n - 1 \in 0..Len(r) /\ n + 1 \in 1..Len(q)
        /\ (n - 1) + 1 = n /\ (n + 1) - 1 = n
    BY <1>1, <1>6
  <2>2. k[n] = EventStep(q, n + 1, f[n]) /\ f[n] = first \o g[n - 1] /\ r[n] = q[n + 1]
    BY <2>1, <1>1, <1>3, <1>6
  <2>3. g[n] = EventStep(r, n, g[n - 1]) /\ g[n - 1] \in Seq(Row)
    BY <2>1, <1>4, <1>6
  <2>4. CASE r[n].type = "event"
    <3>1. r[n].row \in Row
      BY <2>4, <1>1, ElementOfSeq, Payloads
    <3>2. k[n] = Append(f[n], r[n].row) /\ g[n] = Append(g[n - 1], r[n].row)
      BY <2>2, <2>3, <2>4 DEF EventStep
    <3>3. Append(f[n], r[n].row) = first \o g[n]
      <4> DEFINE b == g[n - 1]
                 c == <<r[n].row>>
      <4>1. b \in Seq(Row)
        BY <2>3
      <4>2. c \in Seq(Row)
        BY <3>1
      <4>3. f[n] \in Seq(Row)
        BY <2>1, <1>1, <1>3
      <4>4. f[n] = first \o b
        BY <2>2
      <4>5. Append(f[n], r[n].row) = f[n] \o c
        BY <3>1, <4>3, AppendIsConcat
      <4>6. g[n] = b \o c
        BY <3>1, <3>2, <4>1, AppendIsConcat
      <4> HIDE DEF b, c
      <4>7. (first \o b) \o c = first \o (b \o c)
        BY <4>1, <4>2, <1>2, ConcatAssociative, SMTT(30)
      <4> QED
        BY <4>4, <4>5, <4>6, <4>7, Zenon
    <3>4. h[n] = first \o g[n]
      BY <2>1, <1>6
    <3> QED
      BY <3>2, <3>3, <3>4
  <2>5. CASE r[n].type # "event"
    BY <2>1, <2>2, <2>3, <2>5, <1>6 DEF EventStep
  <2> QED
    BY <2>4, <2>5
<1>9. k[Len(r)] = h[Len(r)]
  BY <1>6, <1>7, <1>8, AlikeAsFarAs
<1>10. EventsIn(q) = first \o EventsIn(r)
  <2>1. Len(r) + 1 = Len(q)
    BY <1>1
  <2> QED
    BY <2>1, <1>3, <1>4, <1>6, <1>9
<1>11. EventsIn(r) \in Seq(Row)
  BY <1>1, EventsAreRows
<1>12. <<>> \o EventsIn(r) = EventsIn(r)
  BY <1>11, ConcatEmptySeq
<1>13. CASE Head(q).type = "event"
  BY <1>10, <1>13, Zenon DEF first, r
<1>14. CASE Head(q).type # "event"
  BY <1>10, <1>12, <1>14, Zenon DEF first, r
<1> QED
  BY <1>13, <1>14

(* What Consume does to a session that need not drop any: it holds the row,   *)
(* and of every other call what it held.                                      *)
LEMMA ConsumeWithRoom ==
  ASSUME NEW s \in Session, NEW row \in Row,
         Has(s, row.call) \/ Len(s) < HistoryLimit
  PROVE  LET r == Consume(s, row) IN
         /\ \A j \in 1..Len(r) :
              r[j] = row \/ (j \in 1..Len(s) /\ r[j] = s[j] /\ s[j].call # row.call)
         /\ \A j \in 1..Len(s) : j \in 1..Len(r) /\ r[j].call = s[j].call
         /\ \E j \in 1..Len(r) : r[j] = row
<1> DEFINE r == Consume(s, row)
<1>0. r = Consume(s, row)
  OBVIOUS
<1> HIDE DEF r
<1>1. s \in Seq(Row) /\ Len(s) \in Nat /\ DOMAIN s = 1..Len(s)
  BY LenProperties DEF Session
<1>2. CASE Has(s, row.call)
  <2> DEFINE t == [i \in 1..Len(s) |-> IF s[i].call = row.call THEN row ELSE s[i]]
  <2>1. r = t
    BY <1>0, <1>1, <1>2 DEF Consume
  <2>2. t \in [1..Len(s) -> Row]
    BY <1>1, ElementOfSeq
  <2>3. t \in Seq(Row) /\ Len(t) = Len(s)
    BY <1>1, <2>2, LenProperties
  <2>4. \A i \in 1..Len(s) : t[i] = IF s[i].call = row.call THEN row ELSE s[i]
    OBVIOUS
  <2> HIDE DEF t
  <2>5. \E i \in 1..Len(s) : s[i].call = row.call
    BY <1>1, <1>2 DEF Has
  <2>6. /\ Len(r) = Len(s)
        /\ \A i \in 1..Len(s) : r[i] = IF s[i].call = row.call THEN row ELSE s[i]
    BY <2>1, <2>3, <2>4
  <2>7. \A i \in 1..Len(s) : r[i].call = s[i].call
    BY <2>6
  <2> HIDE DEF r
  <2> QED
    BY <2>5, <2>6, <2>7 DEF r
<1>3. CASE ~Has(s, row.call)
  <2>1. r = Append(s, row)
    BY <1>0, <1>3 DEF Consume
  <2>2. /\ Len(r) = Len(s) + 1
        /\ \A i \in 1..Len(s) : r[i] = s[i]
        /\ r[Len(s) + 1] = row
    BY <1>1, <2>1, AppendProperties
  <2>3. \A i \in 1..Len(s) : s[i].call # row.call
    BY <1>1, <1>3 DEF Has
  <2>4. \A j \in 1..Len(r) : j \in 1..Len(s) \/ j = Len(s) + 1
    BY <1>1, <2>2
  <2>5. /\ \A j \in 1..Len(s) : j \in 1..Len(r)
        /\ Len(s) + 1 \in 1..Len(r)
    BY <1>1, <2>2
  <2>6. \A j \in 1..Len(r) : r[j] = row \/ (j \in 1..Len(s) /\ r[j] = s[j] /\ s[j].call # row.call)
    BY <2>2, <2>3, <2>4
  <2>7. \E j \in 1..Len(r) : r[j] = row
    BY <2>2, <2>5
  <2>8. \A j \in 1..Len(s) : j \in 1..Len(r) /\ r[j].call = s[j].call
    BY <2>2, <2>5
  <2> QED
    BY <2>6, <2>7, <2>8 DEF r
<1> QED
  BY <1>2, <1>3 DEF r

(* With room or without, the row is in.                                       *)
LEMMA ConsumeHolds ==
  ASSUME NEW s \in Session, NEW row \in Row, NEW r, r = Consume(s, row)
  PROVE  \E j \in DOMAIN r : r[j] = row
<1>1. s \in Seq(Row) /\ Len(s) \in Nat /\ DOMAIN s = 1..Len(s)
  BY LenProperties DEF Session
<1>2. CASE Has(s, row.call)
  BY <1>2 DEF Has, Consume
<1>3. ASSUME NEW t \in Seq(Row), r = Append(t, row) PROVE \E j \in DOMAIN r : r[j] = row
  <2>1. /\ r \in Seq(Row) /\ Len(t) \in Nat /\ Len(r) = Len(t) + 1 /\ r[Len(t) + 1] = row
    BY <1>3, AppendProperties, LenProperties
  <2>2. DOMAIN r = 1..Len(r) /\ Len(t) + 1 \in 1..Len(r)
    BY <2>1, LenProperties
  <2> QED
    BY <2>1, <2>2
<1>4. CASE ~Has(s, row.call) /\ Len(s) < HistoryLimit
  BY <1>1, <1>3, <1>4 DEF Consume
<1>5. CASE ~Has(s, row.call) /\ ~(Len(s) < HistoryLimit)
  <2>1. s # <<>>
    BY <1>1, <1>5, EmptySeq, HistoryLimitAssumption
  <2>2. Tail(s) \in Seq(Row)
    BY <1>1, <2>1, HeadTailProperties
  <2> QED
    BY <1>3, <1>5, <2>2 DEF Consume
<1> QED
  BY <1>2, <1>4, <1>5

(* Events that are in the session already change nothing.                     *)
LEMMA AbsorbedChangesNothing ==
  ASSUME NEW s \in Session, NEW events \in Seq(Row), Absorbed(s, events)
  PROVE  ConsumeAll(s, events) = s
<1>1. /\ s \in Seq(Row) /\ Len(s) \in Nat /\ DOMAIN s = 1..Len(s)
      /\ Len(events) \in Nat /\ \A n \in 1..Len(events) : events[n] \in Row
  BY LenProperties, ElementOfSeq DEF Session
<1>2. PICK f \in [0..Len(events) -> Session] :
        /\ f[0] = s
        /\ \A n \in 1..Len(events) : f[n] = Consume(f[n - 1], events[n])
        /\ ConsumeAll(s, events) = f[Len(events)]
  BY ConsumeAllIsAFold
<1> DEFINE Later(n, k) == \E l \in 1..Len(events) : l > n /\ events[l].call = k
           Near(n) == /\ Len(f[n]) = Len(s)
                      /\ \A j \in 1..Len(s) :
                           /\ f[n][j].call = s[j].call
                           /\ f[n][j] = s[j] \/ Later(n, s[j].call)
           G == {n \in Nat : n <= Len(events) => Near(n)}
<1>3. 0 \in G
  BY <1>2
<1>4. ASSUME NEW n \in Nat, n \in G PROVE n + 1 \in G
  <2>1. CASE n + 1 <= Len(events)
    <3> DEFINE e == events[n + 1]
               r == f[n]
               t == [i \in 1..Len(s) |-> IF r[i].call = e.call THEN e ELSE r[i]]
    <3>1. n + 1 \in 1..Len(events) /\ (n + 1) - 1 = n /\ n \in 0..Len(events) /\ Near(n)
      BY <2>1, <1>1, <1>4
    <3>2. f[n + 1] = Consume(r, e) /\ r \in Seq(Row) /\ e \in Row
      BY <3>1, <1>1, <1>2 DEF Session
    <3>3. DOMAIN r = 1..Len(s) /\ \A i \in 1..Len(s) : r[i] \in Row
      BY <3>1, <3>2, LenProperties, ElementOfSeq
    <3>4. Has(s, e.call) /\ \A j \in 1..Len(s) : s[j].call = e.call => s[j] = e \/ Later(n + 1, e.call)
      BY <3>1 DEF Absorbed
    <3>5. Has(r, e.call)
      BY <3>1, <3>3, <3>4, <1>1 DEF Has
    <3>6. f[n + 1] = t
      BY <3>2, <3>3, <3>5 DEF Consume
    <3>7. t \in [1..Len(s) -> Row]
      BY <3>2, <3>3
    <3>8. Len(t) = Len(s)
      BY <3>7, <1>1, LenProperties
    <3>9. \A i \in 1..Len(s) : t[i] = IF r[i].call = e.call THEN e ELSE r[i]
      OBVIOUS
    <3> HIDE DEF t
    <3>10. ASSUME NEW j \in 1..Len(s)
           PROVE  t[j].call = s[j].call /\ (t[j] = s[j] \/ Later(n + 1, s[j].call))
      <4>1. r[j].call = s[j].call /\ (r[j] = s[j] \/ Later(n, s[j].call))
        BY <3>1
      <4>2. CASE s[j].call = e.call
        BY <4>1, <4>2, <3>4, <3>9
      <4>3. CASE s[j].call # e.call
        <5>1. t[j] = r[j]
          BY <4>1, <4>3, <3>9
        <5>2. Later(n, s[j].call) => Later(n + 1, s[j].call)
          <6>1. \A l \in 1..Len(events) : l > n => l > n + 1 \/ l = n + 1
            BY <1>1
          <6> QED
            BY <4>3, <6>1
        <5> QED
          BY <4>1, <5>1, <5>2
      <4> QED
        BY <4>2, <4>3
    <3> HIDE DEF Later, e, r
    <3> QED
      BY <3>6, <3>8, <3>10
  <2>2. CASE ~(n + 1 <= Len(events))
    <3> HIDE DEF Near
    <3> QED
      BY <2>2
  <2> QED
    BY <2>1, <2>2
<1>5. Near(Len(events))
  <2>1. \A n \in Nat : n \in G => n + 1 \in G
    BY <1>4
  <2>2. \A n \in Nat : n \in G
    <3> HIDE DEF G
    <3> QED
      BY <1>3, <2>1, CountingUp, Zenon
  <2> HIDE DEF Near
  <2> QED
    BY <2>2, <1>1
<1>6. f[Len(events)] \in Seq(Row)
  BY <1>1, <1>2 DEF Session
<1>7. \A j \in 1..Len(s) : f[Len(events)][j] = s[j]
  BY <1>5, <1>1
<1>8. f[Len(events)] = s
  <2> DEFINE x == f[Len(events)]
  <2>1. Len(x) = Len(s) /\ x \in Seq(Row) /\ \A j \in 1..Len(s) : x[j] = s[j]
    BY <1>5, <1>6, <1>7
  <2> HIDE DEF x
  <2>2. x = s
    BY <2>1, <1>1, SeqEqual
  <2> QED
    BY <2>2 DEF x
<1> QED
  BY <1>2, <1>8

(* The next event, of which a session takes note that drops none for it.      *)
LEMMA AbsorbedGrows ==
  ASSUME NEW s \in Session, NEW events \in Seq(Row), Absorbed(s, events), NEW row \in Row,
         Has(s, row.call) \/ Len(s) < HistoryLimit
  PROVE  Absorbed(Consume(s, row), Append(events, row))
<1> DEFINE r == Consume(s, row)
           es == Append(events, row)
<1>0. r = Consume(s, row)
  OBVIOUS
<1>1. /\ \A j \in 1..Len(r) :
           r[j] = row \/ (j \in 1..Len(s) /\ r[j] = s[j] /\ s[j].call # row.call)
      /\ \A j \in 1..Len(s) : j \in 1..Len(r) /\ r[j].call = s[j].call
      /\ \E j \in 1..Len(r) : r[j] = row
  BY ConsumeWithRoom
<1> HIDE DEF r
<1>2. /\ DOMAIN s = 1..Len(s) /\ DOMAIN r = 1..Len(r)
  <2>1. s \in Seq(Row) /\ r \in Seq(Row)
    BY <1>0, ConsumeIsRows DEF Session
  <2> QED
    BY <2>1, LenProperties
<1>3. /\ Len(events) \in Nat /\ Len(es) = Len(events) + 1
      /\ \A i \in 1..Len(events) : es[i] = events[i]
      /\ es[Len(events) + 1] = row
  BY AppendProperties, LenProperties
<1> HIDE DEF es
<1>4. \A i \in 1..Len(es) : i \in 1..Len(events) \/ i = Len(events) + 1
  BY <1>3
<1>5. \A i \in 1..Len(events) : i \in 1..Len(es) /\ Len(events) + 1 > i
  BY <1>3
<1>6. Len(events) + 1 \in 1..Len(es)
  BY <1>3
<1>7. ASSUME NEW i \in 1..Len(es)
      PROVE  /\ Has(r, es[i].call)
             /\ \A j \in 1..Len(r) : r[j].call = es[i].call =>
                  \/ r[j] = es[i]
                  \/ \E l \in 1..Len(es) : l > i /\ es[l].call = es[i].call
  <2>1. CASE i = Len(events) + 1
    BY <2>1, <1>1, <1>2, <1>3 DEF Has
  <2>2. CASE i \in 1..Len(events)
    <3>1. es[i] = events[i]
      BY <2>2, <1>3
    <3>2. /\ Has(s, events[i].call)
          /\ \A j \in 1..Len(s) : s[j].call = events[i].call =>
                  \/ s[j] = events[i]
                  \/ \E l \in 1..Len(events) : l > i /\ events[l].call = events[i].call
      BY <2>2 DEF Absorbed
    <3>3. Has(r, events[i].call)
      BY <3>2, <1>1, <1>2 DEF Has
    <3>4. ASSUME NEW j \in 1..Len(r), r[j].call = events[i].call
          PROVE  \/ r[j] = events[i]
                 \/ \E l \in 1..Len(es) : l > i /\ es[l].call = events[i].call
      <4>1. CASE r[j] = row
        BY <4>1, <3>4, <2>2, <1>3, <1>5, <1>6
      <4>2. CASE j \in 1..Len(s) /\ r[j] = s[j]
        BY <4>2, <3>2, <3>4, <1>3, <1>5
      <4> QED
        BY <4>1, <4>2, <1>1
    <3> QED
      BY <3>1, <3>3, <3>4
  <2> QED
    BY <2>1, <2>2, <1>4
<1> QED
  BY <1>7 DEF Absorbed, r, es

-----------------------------------------------------------------------------
(***************************************************************************)
(* What a channel carries from one step to the next.                       *)
(***************************************************************************)
LEMMA CarriesOneMore ==
  ASSUME NEW S, NEW q \in Seq(S), NEW m \in S
  PROVE  \A x : Carries(Append(q, m), x) <=> Carries(q, x) \/ m.type = x
<1>1. /\ Len(q) \in Nat /\ Len(Append(q, m)) = Len(q) + 1
      /\ \A i \in 1..Len(q) : Append(q, m)[i] = q[i]
      /\ Append(q, m)[Len(q) + 1] = m
  BY AppendProperties, LenProperties
<1>2. /\ \A i \in 1..Len(q) : i \in 1..(Len(q) + 1)
      /\ Len(q) + 1 \in 1..(Len(q) + 1)
      /\ \A i \in 1..(Len(q) + 1) : i \in 1..Len(q) \/ i = Len(q) + 1
  BY <1>1
<1> QED
  BY <1>1, <1>2 DEF Carries

(* The requests of a source, when one is heard.                               *)
LEMMA AskingTail ==
  ASSUME NEW q \in Seq(Request), q # <<>>
  PROVE  /\ AskedOnce(q) => AskedOnce(Tail(q))
         /\ Head(q).type # "snapshot.request" =>
              (Carries(Tail(q), "snapshot.request") <=> Carries(q, "snapshot.request"))
         /\ AskedOnce(q) /\ Head(q).type = "snapshot.request" =>
              ~Carries(Tail(q), "snapshot.request")
         /\ SubscribesFirst(q) => Head(q).type # "snapshot.request"
         /\ SubscribesFirst(q) /\ Head(q).type # "subscribe" => SubscribesFirst(Tail(q))
<1> DEFINE r == Tail(q)
<1>1. /\ Len(q) \in Nat \ {0} /\ Len(r) = Len(q) - 1
      /\ \A i \in 1..Len(r) : r[i] = q[i + 1]
      /\ Head(q) = q[1]
  BY HeadTailProperties, EmptySeq
<1> HIDE DEF r
<1>2. /\ 1 \in 1..Len(q)
      /\ \A i \in 1..Len(r) : i + 1 \in 1..Len(q) /\ i + 1 # 1
      /\ \A i \in 1..Len(q) : i = 1 \/ (i - 1 \in 1..Len(r) /\ (i - 1) + 1 = i)
  BY <1>1
<1>3. AskedOnce(q) => AskedOnce(r)
  <2> SUFFICES ASSUME AskedOnce(q), NEW i \in 1..Len(r), NEW j \in 1..Len(r),
                      r[i].type = "snapshot.request", r[j].type = "snapshot.request"
               PROVE  i = j
    BY DEF AskedOnce
  <2>1. i + 1 \in 1..Len(q) /\ j + 1 \in 1..Len(q)
    BY <1>2
  <2>2. q[i + 1].type = "snapshot.request" /\ q[j + 1].type = "snapshot.request"
    BY <1>1
  <2>3. i + 1 = j + 1
    BY <2>1, <2>2 DEF AskedOnce
  <2> QED
    BY <2>3
<1>4. Head(q).type # "snapshot.request" =>
        (Carries(r, "snapshot.request") <=> Carries(q, "snapshot.request"))
  <2>1. Carries(r, "snapshot.request") => Carries(q, "snapshot.request")
    BY CarriesTail DEF r
  <2>2. ASSUME Head(q).type # "snapshot.request", Carries(q, "snapshot.request")
        PROVE  Carries(r, "snapshot.request")
    <3>1. PICK i \in 1..Len(q) : q[i].type = "snapshot.request"
      BY <2>2 DEF Carries
    <3>2. i # 1
      BY <1>1, <2>2, <3>1
    <3>3. i - 1 \in 1..Len(r) /\ (i - 1) + 1 = i
      BY <1>2, <3>2
    <3>4. r[i - 1].type = "snapshot.request"
      BY <1>1, <3>1, <3>3
    <3> QED
      BY <3>3, <3>4 DEF Carries
  <2> QED
    BY <2>1, <2>2
<1>5. AskedOnce(q) /\ Head(q).type = "snapshot.request" => ~Carries(r, "snapshot.request")
  BY <1>1, <1>2 DEF AskedOnce, Carries
<1>6. SubscribesFirst(q) => Head(q).type # "snapshot.request"
  <2>1. ~ \E i \in 1..Len(q) : i < 1
    BY <1>1
  <2> QED
    BY <2>1, <1>1, <1>2 DEF SubscribesFirst
<1>7. SubscribesFirst(q) /\ Head(q).type # "subscribe" => SubscribesFirst(r)
  <2> SUFFICES ASSUME SubscribesFirst(q), Head(q).type # "subscribe", NEW j \in 1..Len(r),
                      r[j].type = "snapshot.request"
               PROVE  \E i \in 1..Len(r) : i < j /\ r[i].type = "subscribe"
    BY DEF SubscribesFirst
  <2>1. PICK i \in 1..Len(q) : i < j + 1 /\ q[i].type = "subscribe"
    BY <1>1, <1>2 DEF SubscribesFirst
  <2>2. i - 1 \in 1..Len(r) /\ (i - 1) + 1 = i
    BY <2>1, <1>1, <1>2
  <2>3. i - 1 < j /\ r[i - 1] = q[i]
    BY <2>1, <2>2, <1>1
  <2> QED
    BY <2>1, <2>2, <2>3
<1> QED
  BY <1>3, <1>4, <1>5, <1>6, <1>7 DEF r

(* When one is sent that does not ask for the session.                        *)
LEMMA AskingAppend ==
  ASSUME NEW q \in Seq(Request), NEW m \in Request, m.type # "snapshot.request"
  PROVE  /\ AskedOnce(q) => AskedOnce(Append(q, m))
         /\ SubscribesFirst(q) => SubscribesFirst(Append(q, m))
<1> DEFINE r == Append(q, m)
<1>1. /\ Len(q) \in Nat /\ Len(r) = Len(q) + 1
      /\ \A i \in 1..Len(q) : r[i] = q[i]
      /\ r[Len(q) + 1] = m
  BY AppendProperties, LenProperties
<1> HIDE DEF r
<1>2. /\ \A i \in 1..Len(q) : i \in 1..Len(r)
      /\ \A i \in 1..Len(r) : r[i].type = "snapshot.request" => i \in 1..Len(q)
  <2>1. \A i \in 1..Len(r) : i \in 1..Len(q) \/ i = Len(q) + 1
    BY <1>1
  <2> QED
    BY <2>1, <1>1
<1>3. AskedOnce(q) => AskedOnce(r)
  BY <1>1, <1>2 DEF AskedOnce
<1>4. SubscribesFirst(q) => SubscribesFirst(r)
  BY <1>1, <1>2 DEF SubscribesFirst
<1> QED
  BY <1>3, <1>4 DEF r

(* When the events are asked for, and then the session.                       *)
LEMMA AskingBoth ==
  ASSUME NEW q \in Seq(Request), ~Carries(q, "snapshot.request"),
         NEW p, p = q \o <<Is("subscribe"), Is("snapshot.request")>>
  PROVE  AskedOnce(p) /\ SubscribesFirst(p) /\ Carries(p, "snapshot.request")
<1> DEFINE b == <<Is("subscribe"), Is("snapshot.request")>>
<1>1. /\ b \in Seq(Request) /\ Len(b) = 2
      /\ b[1].type = "subscribe" /\ b[2].type = "snapshot.request"
  BY Kinds
<1> HIDE DEF b
<1>2. /\ Len(q) \in Nat /\ Len(p) = Len(q) + 2
      /\ \A i \in 1..(Len(q) + 2) : p[i] = IF i <= Len(q) THEN q[i] ELSE b[i - Len(q)]
  BY <1>1, ConcatProperties, LenProperties DEF b
<1>3. \A i \in 1..Len(q) : p[i] = q[i] /\ p[i].type # "snapshot.request"
  BY <1>2 DEF Carries
<1>4. p[Len(q) + 1].type = "subscribe" /\ p[Len(q) + 2].type = "snapshot.request"
  <2>1. p[Len(q) + 1] = b[1] /\ p[Len(q) + 2] = b[2]
    BY <1>2
  <2> QED
    BY <2>1, <1>1
<1>5. \A i \in 1..Len(p) : p[i].type = "snapshot.request" => i = Len(q) + 2
  <2>1. \A i \in 1..Len(p) : i \in 1..Len(q) \/ i = Len(q) + 1 \/ i = Len(q) + 2
    BY <1>2
  <2> QED
    BY <2>1, <1>3, <1>4
<1>6. Len(q) + 1 \in 1..Len(p) /\ Len(q) + 2 \in 1..Len(p) /\ Len(q) + 1 < Len(q) + 2
  BY <1>2
<1> QED
  BY <1>4, <1>5, <1>6 DEF AskedOnce, SubscribesFirst, Carries

(* A channel that brings no event and no snapshot more.                       *)
NothingNew(p, q) ==
  /\ EventsIn(p) = EventsIn(q)
  /\ Carries(p, "event") => Carries(q, "event")
  /\ \A i \in 1..Len(p) : p[i].type = "snapshot" => \E j \in 1..Len(q) : q[j] = p[i]

LEMMA AnswerIsNothingNew ==
  ASSUME NEW q \in Seq(Message), NEW m \in Message, m.type \notin {"event", "snapshot"}
  PROVE  NothingNew(Append(q, m), q)
<1> DEFINE r == Append(q, m)
<1>1. /\ Len(q) \in Nat /\ Len(r) = Len(q) + 1
      /\ \A i \in 1..Len(q) : r[i] = q[i]
      /\ r[Len(q) + 1] = m
  BY AppendProperties, LenProperties
<1> HIDE DEF r
<1>2. EventsIn(r) = EventsIn(q)
  BY EventsAfterAppend DEF r
<1>3. \A i \in 1..Len(r) : r[i].type \in {"event", "snapshot"} => i \in 1..Len(q)
  <2>1. \A i \in 1..Len(r) : i \in 1..Len(q) \/ i = Len(q) + 1
    BY <1>1
  <2> QED
    BY <2>1, <1>1
<1> QED
  BY <1>1, <1>2, <1>3 DEF NothingNew, Carries, r

LEMMA TailIsNothingNew ==
  ASSUME NEW q \in Seq(Message), q # <<>>
  PROVE  /\ Carries(Tail(q), "event") => Carries(q, "event")
         /\ \A i \in 1..Len(Tail(q)) : \E j \in 1..Len(q) : q[j] = Tail(q)[i]
         /\ Head(q).type # "event" => NothingNew(Tail(q), q)
<1> DEFINE r == Tail(q)
<1>1. /\ Len(q) \in Nat \ {0} /\ Len(r) = Len(q) - 1
      /\ \A i \in 1..Len(r) : r[i] = q[i + 1]
      /\ Carries(r, "event") => Carries(q, "event")
  BY HeadTailProperties, EmptySeq, CarriesTail
<1>2. Head(q).type # "event" => EventsIn(r) = EventsIn(q)
  BY EventsInFront
<1> HIDE DEF r
<1>3. \A i \in 1..Len(r) : i + 1 \in 1..Len(q)
  BY <1>1
<1>4. \A i \in 1..Len(r) : \E j \in 1..Len(q) : q[j] = r[i]
  BY <1>1, <1>3
<1> QED
  BY <1>1, <1>2, <1>4 DEF NothingNew, r

-----------------------------------------------------------------------------
(***************************************************************************)
(* Sources a step does not disturb.                                        *)
(***************************************************************************)
LEMMA NoneFollowed ==
  ASSUME NEW t \in Tuis, tui'[t].loop \in {"idle", "sleeping"}
  PROVE  Follows(t)'
BY DEF Follows, Loop

LEMMA OpeningFollows ==
  ASSUME IInv', NEW t \in Tuis, tui'[t].loop = "opening", tui'[t].pending = <<>>
  PROVE  Follows(t)'
<1> DEFINE c == tui'[t].conn
<1>1. c \notin serverOpen' /\ toClient'[c] = <<>>
  BY DEF IInv, Handshake, Loop, ConnOf
<1>2. c \in Conns /\ toServer'[c] = <<>> /\ c \notin subscribed'
  BY <1>1 DEF IInv, Ends, Shapes, Loop, ConnOf
<1> QED
  BY <1>1, <1>2, CarriesFew DEF Follows, NotYet, Loop, ConnOf

LEMMA NoSnapshotEither ==
  ASSUME NEW p, NEW q, NothingNew(p, q)
  PROVE  /\ Carries(p, "snapshot") => Carries(q, "snapshot")
         /\ Carries(p, "event") => Carries(q, "event")
         /\ EventsIn(p) = EventsIn(q)
<1>1. ASSUME Carries(p, "snapshot") PROVE Carries(q, "snapshot")
  <2>1. PICK i \in 1..Len(p) : p[i].type = "snapshot"
    BY <1>1 DEF Carries
  <2>2. PICK j \in 1..Len(q) : q[j] = p[i]
    BY <2>1 DEF NothingNew
  <2>3. q[j].type = "snapshot"
    BY <2>1, <2>2
  <2> QED
    BY <2>3 DEF Carries
<1> QED
  BY <1>1 DEF NothingNew

(* The same source, with nothing new on its connection.                       *)
LEMMA StillFollows ==
  ASSUME NEW t \in Tuis, Follows(t), NEW c, c = ConnOf(t),
         UNCHANGED rows, tui'[t] = tui[t], view'[t] = view[t],
         NothingNew(toClient'[c], toClient[c]),
         \A x \in {"subscribe", "snapshot.request"} :
           Carries(toServer'[c], x) => Carries(toServer[c], x),
         c \in subscribed' => c \in subscribed \/ Loop(t) \in Attached,
         c \in serverOpen' =>
           /\ c \in serverOpen
           /\ c \in subscribed => c \in subscribed'
           /\ Carries(toServer[c], "snapshot.request") => Carries(toServer'[c], "snapshot.request")
           /\ AskedOnce(toServer[c]) => AskedOnce(toServer'[c])
           /\ c \notin subscribed' /\ SubscribesFirst(toServer[c]) => SubscribesFirst(toServer'[c])
  PROVE  Follows(t)'
<1>1. /\ Loop(t)' = Loop(t) /\ ConnOf(t)' = c
      /\ tui'[t].got = tui[t].got /\ tui'[t].pending = tui[t].pending
  BY DEF Loop, ConnOf
<1>2. /\ Carries(toClient'[c], "snapshot") => Carries(toClient[c], "snapshot")
      /\ Carries(toClient'[c], "event") => Carries(toClient[c], "event")
      /\ EventsIn(toClient'[c]) = EventsIn(toClient[c])
  BY NoSnapshotEither
<1>3. Sent(t)' = Sent(t)
  BY <1>1, <1>2 DEF Sent
<1>4. ASSUME Loop(t) \in {"opening", "hello", "attach"} PROVE NotYet(t)'
  <2>1. NotYet(t) /\ Loop(t) \notin Attached
    BY <1>4 DEF Follows, Attached
  <2> QED
    BY <2>1, <1>1, <1>2 DEF NotYet
<1>5. ASSUME c \in serverOpen', Loop(t) = "snapshot"
      PROVE  IF Carries(toServer'[c], "snapshot.request") THEN Requested(t)' ELSE Answered(t)'
  <2>1. CASE Carries(toServer'[c], "snapshot.request")
    <3>1. Requested(t)
      BY <1>5, <2>1 DEF Follows
    <3>2. Requested(t)'
      BY <1>1, <1>2, <1>3, <1>5, <3>1 DEF Requested
    <3> QED
      BY <2>1, <3>2
  <2>2. CASE ~Carries(toServer'[c], "snapshot.request")
    <3>1. Answered(t)
      BY <1>5, <2>2 DEF Follows
    <3>2. c \in subscribed' /\ \A i \in 1..Len(toClient[c]) : toClient[c][i].type = "snapshot" =>
            ConsumeAll(toClient[c][i].rows, Sent(t)) = rows
      BY <1>5, <3>1 DEF Answered
    <3>3. \A i \in 1..Len(toClient'[c]) : toClient'[c][i].type = "snapshot" =>
            ConsumeAll(toClient'[c][i].rows, Sent(t)) = rows
      BY <3>2 DEF NothingNew
    <3>4. Answered(t)'
      BY <1>1, <1>3, <3>2, <3>3 DEF Answered
    <3> QED
      BY <2>2, <3>4
  <2> QED
    BY <2>1, <2>2
<1>6. ASSUME c \in serverOpen', Loop(t) = "resolved"
      PROVE  c \in subscribed' /\ ConsumeAll(tui'[t].got, Sent(t)') = rows'
  BY <1>1, <1>3, <1>6 DEF Follows
<1>7. ASSUME c \in serverOpen', Loop(t) = "synchronized"
      PROVE  c \in subscribed' /\ ConsumeAll(view'[t], EventsIn(toClient'[c])) = rows'
  BY <1>1, <1>2, <1>7 DEF Follows
<1> QED
  BY <1>1, <1>4, <1>5, <1>6, <1>7 DEF Follows

(* Others' steps; the server may close the connection all the same.           *)
LEMMA UntouchedFollows ==
  ASSUME IInv, NEW t \in Tuis, Follows(t), UNCHANGED rows,
         tui'[t] = tui[t], view'[t] = view[t],
         ConnOf(t) \in Conns => toClient'[ConnOf(t)] = toClient[ConnOf(t)],
         ConnOf(t) \in Conns =>
           \/ toServer'[ConnOf(t)] = toServer[ConnOf(t)]
           \/ toServer'[ConnOf(t)] = <<>> /\ ConnOf(t) \notin serverOpen',
         ConnOf(t) \in serverOpen' => ConnOf(t) \in serverOpen,
         ConnOf(t) \in subscribed' => ConnOf(t) \in subscribed,
         ConnOf(t) \in serverOpen' /\ ConnOf(t) \in subscribed => ConnOf(t) \in subscribed'
  PROVE  Follows(t)'
<1>1. CASE Loop(t) \in {"idle", "sleeping"}
  BY <1>1, NoneFollowed DEF Loop
<1>2. CASE Loop(t) \notin {"idle", "sleeping"}
  <2> DEFINE c == ConnOf(t)
  <2>1. c \in Conns
    BY <1>2, OfSource
  <2>2. NothingNew(toClient'[c], toClient[c])
    BY <2>1 DEF NothingNew
  <2>3. \A x : Carries(toServer'[c], x) => Carries(toServer[c], x)
    BY <2>1, CarriesFew
  <2>4. c \in serverOpen' => toServer'[c] = toServer[c]
    BY <2>1
  <2>5. c = ConnOf(t)
    OBVIOUS
  <2> HIDE DEF c
  <2> QED
    BY <2>2, <2>3, <2>4, <2>5, StillFollows
<1> QED
  BY <1>1, <1>2

(* A source that waits or is connected holds the lease from when it is        *)
(* attached until the server closes.                                          *)
LEMMA HolderIs ==
  ASSUME IInv, NEW t \in Tuis, ConnOf(t) \in serverOpen, Loop(t) \in Attached
  PROVE  /\ lease = ConnOf(t) /\ ConnOf(t) \in clientOpen /\ ConnOf(t) \in Conns
         /\ toClient[ConnOf(t)] \in Seq(Message) /\ toServer[ConnOf(t)] \in Seq(Request)
BY OfSource, Unfolded DEF IInv, Handshake

LEMMA SentIsRows ==
  ASSUME IInv, NEW t \in Tuis, ConnOf(t) \in Conns
  PROVE  /\ tui[t].pending \in Seq(Row) /\ tui[t].got \in Session
         /\ toClient[ConnOf(t)] \in Seq(Message) /\ toServer[ConnOf(t)] \in Seq(Request)
         /\ EventsIn(toClient[ConnOf(t)]) \in Seq(Row)
         /\ Sent(t) \in Seq(Row)
<1>1. tui[t].pending \in Seq(Row) /\ tui[t].got \in Session
  BY OfSource DEF Source
<1>2. toClient[ConnOf(t)] \in Seq(Message) /\ toServer[ConnOf(t)] \in Seq(Request)
  BY Unfolded
<1>3. EventsIn(toClient[ConnOf(t)]) \in Seq(Row)
  BY <1>2, EventsAreRows
<1>4. Sent(t) \in Seq(Row)
  BY <1>1, <1>3, ConcatProperties DEF Sent
<1> QED
  BY <1>1, <1>2, <1>3, <1>4

-----------------------------------------------------------------------------
(***************************************************************************)
(* The session goes on and the server answers.                             *)
(***************************************************************************)
LEMMA EventAfter ==
  ASSUME NEW q \in Seq(Message), NEW row \in Row, NEW m, m = [type |-> "event", row |-> row]
  PROVE  /\ Append(q, m) \in Seq(Message)
         /\ EventsIn(Append(q, m)) = Append(EventsIn(q), row)
         /\ Carries(Append(q, m), "snapshot") => Carries(q, "snapshot")
         /\ \A i \in 1..Len(Append(q, m)) : Append(q, m)[i].type = "snapshot" =>
              i \in 1..Len(q) /\ q[i] = Append(q, m)[i]
<1>1. m \in Message /\ m.type = "event" /\ m.row = row /\ "event" # "snapshot"
  BY DEF Message
<1> HIDE DEF Message
<1>2. EventsIn(Append(q, m)) = Append(EventsIn(q), row)
  BY <1>1, EventsAfterAppend
<1>3. /\ Append(q, m) \in Seq(Message) /\ Len(q) \in Nat /\ Len(Append(q, m)) = Len(q) + 1
      /\ \A i \in 1..Len(q) : Append(q, m)[i] = q[i]
      /\ Append(q, m)[Len(q) + 1] = m
  BY <1>1, AppendProperties, LenProperties
<1>4. \A i \in 1..(Len(q) + 1) : i \in 1..Len(q) \/ i = Len(q) + 1
  BY <1>3
<1>5. \A i \in 1..Len(Append(q, m)) : Append(q, m)[i].type = "snapshot" =>
        i \in 1..Len(q) /\ q[i] = Append(q, m)[i]
  BY <1>1, <1>3, <1>4
<1>6. Carries(Append(q, m), "snapshot") => Carries(q, "snapshot")
  BY <1>5 DEF Carries
<1> QED
  BY <1>2, <1>3, <1>5, <1>6

(* A subscriber that has been answered is sent what the session consumes.     *)
LEMMA EventSent ==
  ASSUME IInv, NEW t \in Tuis, ConnOf(t) \in subscribed, Loop(t) \in Attached,
         NEW row \in Row, FitsFrame(row), Publish(row)
  PROVE  /\ toClient'[ConnOf(t)] = Append(toClient[ConnOf(t)], [type |-> "event", row |-> row])
         /\ EventsIn(toClient'[ConnOf(t)]) = Append(EventsIn(toClient[ConnOf(t)]), row)
         /\ Sent(t)' = Append(Sent(t), row)
<1> DEFINE c == ConnOf(t)
           m == [type |-> "event", row |-> row]
<1>1. c \in serverOpen
  BY Unfolded
<1>2. lease = c /\ c \in clientOpen /\ c \in Conns /\ toClient[c] \in Seq(Message)
  BY <1>1, HolderIs
<1>3. toClient' = [toClient EXCEPT ![lease] = Append(@, EventFrame(row))] /\ UNCHANGED tui
  BY <1>2 DEF Publish, Forward
<1>4. toClient'[c] = Append(toClient[c], m)
  BY <1>2, <1>3 DEF EventFrame, IInv, Shapes
<1>5. EventsIn(toClient'[c]) = Append(EventsIn(toClient[c]), row)
  <2> HIDE DEF c, m
  <2> QED
    BY <1>2, <1>4, EventAfter DEF m
<1>6. Sent(t)' = Append(Sent(t), row)
  <2> DEFINE a == tui[t].pending
             b == EventsIn(toClient[c])
  <2>1. a \in Seq(Row) /\ b \in Seq(Row)
    BY <1>2, SentIsRows
  <2>2. Sent(t) = a \o b /\ Sent(t)' = a \o Append(b, row)
    BY <1>3, <1>5 DEF Sent, ConnOf
  <2> HIDE DEF a, b
  <2>3. a \o Append(b, row) = Append(a \o b, row)
    BY <2>1
  <2> QED
    BY <2>2, <2>3
<1> QED
  BY <1>4, <1>5, <1>6

LEMMA PublishFollows ==
  ASSUME IInv, view \in [Tuis -> Session], NEW t \in Tuis, Follows(t),
         NEW row \in Row, FitsFrame(row), Publish(row),
         Loop(t) = "snapshot" => Has(rows, row.call) \/ Len(rows) < HistoryLimit
  PROVE  Follows(t)'
<1> DEFINE c == ConnOf(t)
<1>1. /\ rows' = Consume(rows, row) /\ rows \in Session
      /\ UNCHANGED <<lease, subscribed, serverOpen, clientOpen, toServer, tui, view>>
  BY DEF Publish, server, IInv, Shapes, IsSession, Session
<1>2. Loop(t)' = Loop(t) /\ ConnOf(t)' = c
  BY <1>1 DEF Loop, ConnOf
<1>3. CASE Loop(t) \in {"idle", "sleeping"}
  BY <1>1, <1>3, NoneFollowed DEF Loop
<1>4. CASE Loop(t) \notin {"idle", "sleeping"} /\ c \notin subscribed
  <2>1. c \in Conns
    BY <1>4, OfSource
  <2>2. toClient'[c] = toClient[c]
    BY <1>4, <2>1 DEF Publish, Forward, IInv, Shapes
  <2>3. ASSUME Loop(t) \in {"opening", "hello", "attach"} PROVE NotYet(t)'
    BY <1>1, <1>2, <2>2, <2>3 DEF Follows, NotYet
  <2>4. ASSUME c \in serverOpen, Loop(t) = "snapshot"
        PROVE  Carries(toServer[c], "snapshot.request") /\ Requested(t)'
    <3>1. Carries(toServer[c], "snapshot.request") /\ Requested(t)
      BY <1>4, <2>4 DEF Follows, Answered
    <3>2. tui[t].pending = <<>> /\ ~Carries(toClient[c], "event")
      BY <1>4, <3>1 DEF Requested
    <3>3. EventsIn(toClient[c]) = <<>>
      BY <2>1, <3>2, NoEvents, SentIsRows
    <3>4. Sent(t)' = <<>>
      <4>1. Sent(t)' = <<>> \o <<>>
        BY <1>1, <1>2, <2>2, <3>2, <3>3 DEF Sent
      <4> QED
        BY <4>1
    <3>5. Absorbed(rows', <<>>)
      BY DEF Absorbed
    <3> QED
      BY <1>1, <1>2, <2>2, <3>1, <3>4, <3>5 DEF Requested
  <2>5. c \in serverOpen => Loop(t) \notin {"resolved", "synchronized"}
    BY <1>4 DEF Follows
  <2> QED
    BY <1>1, <1>2, <2>3, <2>4, <2>5 DEF Follows
<1>5. CASE Loop(t) \notin {"idle", "sleeping"} /\ c \in subscribed
  <2>1. Loop(t) \in Attached /\ Loop(t) \notin {"opening", "hello", "attach"}
    <3>1. Loop(t) \notin {"opening", "hello", "attach"}
      BY <1>5 DEF Follows, NotYet
    <3>2. Loop(t) \in Places
      BY OfSource
    <3> QED
      BY <1>5, <3>1, <3>2 DEF Places, Asking, Attached
  <2>2. c \in serverOpen
    BY <1>5, Unfolded
  <2>3. c \in Conns /\ toClient[c] \in Seq(Message) /\ Sent(t) \in Seq(Row)
    BY <2>1, OfSource, SentIsRows
  <2>4. /\ toClient'[c] = Append(toClient[c], [type |-> "event", row |-> row])
        /\ EventsIn(toClient'[c]) = Append(EventsIn(toClient[c]), row)
        /\ Sent(t)' = Append(Sent(t), row)
    BY <1>5, <2>1, EventSent
  <2>5. /\ Carries(toClient'[c], "snapshot") => Carries(toClient[c], "snapshot")
        /\ \A i \in 1..Len(toClient'[c]) : toClient'[c][i].type = "snapshot" =>
             i \in 1..Len(toClient[c]) /\ toClient[c][i] = toClient'[c][i]
    BY <2>3, <2>4, EventAfter
  <2>6. ASSUME Loop(t) = "snapshot", Requested(t) PROVE Requested(t)'
    <3>1. Absorbed(rows, Sent(t)) /\ ~Carries(toClient[c], "snapshot") /\ AskedOnce(toServer[c])
      BY <2>6 DEF Requested
    <3>2. Absorbed(rows', Append(Sent(t), row))
      BY <1>1, <2>3, <2>6, <3>1, AbsorbedGrows
    <3> QED
      BY <1>1, <1>2, <1>5, <2>4, <2>5, <3>1, <3>2 DEF Requested
  <2>7. ASSUME NEW s \in Session, ConsumeAll(s, Sent(t)) = rows
        PROVE  ConsumeAll(s, Sent(t)') = rows'
    BY <1>1, <2>3, <2>4, <2>7, ConsumeOneMore
  <2>8. ASSUME Loop(t) = "snapshot", Answered(t) PROVE Answered(t)'
    <3>1. ASSUME NEW i \in 1..Len(toClient'[c]), toClient'[c][i].type = "snapshot"
          PROVE  ConsumeAll(toClient'[c][i].rows, Sent(t)') = rows'
      <4>1. i \in 1..Len(toClient[c]) /\ toClient[c][i] = toClient'[c][i]
        BY <2>5, <3>1
      <4>2. toClient[c][i] \in Message
        BY <2>3, <4>1, ElementOfSeq
      <4>3. toClient[c][i].rows \in Session
        BY <3>1, <4>1, <4>2, Payloads
      <4>4. ConsumeAll(toClient[c][i].rows, Sent(t)) = rows
        BY <2>8, <3>1, <4>1 DEF Answered
      <4> QED
        BY <2>7, <4>1, <4>3, <4>4
    <3> QED
      BY <1>1, <1>2, <1>5, <3>1 DEF Answered
  <2>9. ASSUME Loop(t) = "resolved" PROVE ConsumeAll(tui'[t].got, Sent(t)') = rows'
    <3>1. tui[t].got \in Session /\ ConsumeAll(tui[t].got, Sent(t)) = rows
      BY <2>2, <2>3, <2>9, SentIsRows DEF Follows
    <3> QED
      BY <1>1, <2>7, <3>1
  <2>10. ASSUME Loop(t) = "synchronized"
         PROVE  ConsumeAll(view'[t], EventsIn(toClient'[c])) = rows'
    <3>1. view[t] \in Session /\ EventsIn(toClient[c]) \in Seq(Row)
      BY <2>3, SentIsRows
    <3>2. ConsumeAll(view[t], EventsIn(toClient[c])) = rows
      BY <2>2, <2>10 DEF Follows
    <3>3. ConsumeAll(view[t], Append(EventsIn(toClient[c]), row)) = rows'
      BY <1>1, <3>1, <3>2, ConsumeOneMore
    <3> QED
      BY <1>1, <2>4, <3>3
  <2> QED
    BY <1>1, <1>2, <1>5, <2>1, <2>2, <2>6, <2>8, <2>9, <2>10 DEF Follows
<1> QED
  BY <1>3, <1>4, <1>5

(* The server answers the connection of t itself.                             *)
LEMMA AnswerFollows ==
  ASSUME IInv, NEW t \in Tuis, Follows(t), NEW c, c = ConnOf(t), Hear(c)
  PROVE  Follows(t)'
<1> DEFINE q == toServer[c]
<1>1. /\ c \in serverOpen /\ q # <<>> /\ \A x : Hears(c, x) => Head(q) = Is(x)
      /\ UNCHANGED <<rows, serverOpen, clientOpen, tui, view>>
  BY DEF Hear, HearHello, HearAttach, HearSubscribe, HearSnapshotRequest, HearPing, HearDetach,
     Hears, Answer, daemon
<1>0. /\ Hears(c, "hello") => Head(q).type = "hello"
      /\ Hears(c, "attach") => Head(q).type = "attach"
      /\ Hears(c, "subscribe") => Head(q).type = "subscribe"
      /\ Hears(c, "snapshot.request") => Head(q).type = "snapshot.request"
      /\ Hears(c, "ping") => Head(q).type = "ping"
  BY DEF Hears, Is
<1>2. c \in Conns /\ Loop(t) \notin {"idle", "sleeping", "opening"} /\ c \in clientOpen
  BY <1>1, OfSource, Unfolded DEF IInv, Handshake
<1>3. /\ toClient[c] \in Seq(Message) /\ q \in Seq(Request) /\ Sent(t) \in Seq(Row)
      /\ EventsIn(toClient[c]) \in Seq(Row)
  BY <1>2, SentIsRows
<1>4. /\ Tail(q) \in Seq(Request) /\ Head(q) \in Request
      /\ \A x : Carries(Tail(q), x) => Carries(q, x)
      /\ Carries(q, Head(q).type)
  BY <1>1, <1>3, CarriesTail
<1>5. /\ AskedOnce(q) => AskedOnce(Tail(q))
      /\ Head(q).type # "snapshot.request" =>
           (Carries(Tail(q), "snapshot.request") <=> Carries(q, "snapshot.request"))
      /\ AskedOnce(q) /\ Head(q).type = "snapshot.request" =>
           ~Carries(Tail(q), "snapshot.request")
      /\ SubscribesFirst(q) => Head(q).type # "snapshot.request"
      /\ SubscribesFirst(q) /\ Head(q).type # "subscribe" => SubscribesFirst(Tail(q))
  BY <1>1, <1>3, AskingTail
<1>6. ~Carries(q, "detach")
  BY <1>2 DEF IInv, Handshake
<1>7. ~HearDetach(c)
  <2>1. HearDetach(c) => Head(q) = Is("detach")
    BY <1>1 DEF HearDetach
  <2> QED
    BY <1>4, <1>6, <2>1 DEF Is
<1>8. \A x \in {"hello.ack", "attached", "already-attached", "error"} :
        Is(x) \in Message /\ Is(x).type = x
  BY Kinds
<1>9. \A answers : Answer(c, answers) =>
        toServer'[c] = Tail(q) /\ toClient'[c] = toClient[c] \o answers
  BY <1>2 DEF Answer, IInv, Shapes
<1>10. CASE HearSnapshotRequest(c) /\ Loop(t) = "snapshot"
  <2> DEFINE m == IF lease = c THEN SnapshotFrames ELSE Is("error")
  <2>1. Answer(c, <<m>>) /\ UNCHANGED subscribed /\ Head(q).type = "snapshot.request"
    BY <1>0, <1>10 DEF HearSnapshotRequest
  <2>2. Requested(t)
    BY <1>1, <1>4, <1>10, <2>1 DEF Follows
  <2>3. ~Carries(Tail(q), "snapshot.request") /\ c \in subscribed
    BY <1>5, <2>1, <2>2 DEF Requested
  <2>4. lease = c
    BY <1>1, <1>10, HolderIs DEF Attached
  <2>5. m \in Message /\ m.type # "event" /\ (m.type = "snapshot" => m.rows = rows)
    <3>1. m = SnapshotFrames
      BY <2>4
    <3>2. SnapshotFrames \in Message
      BY Kinds DEF IInv, Shapes
    <3>3. SnapshotFrames.type # "event" /\ (SnapshotFrames.type = "snapshot" => SnapshotFrames.rows = rows)
      BY DEF SnapshotFrames, Is
    <3> QED
      BY <3>1, <3>2, <3>3
  <2> HIDE DEF m
  <2>6. toClient'[c] = Append(toClient[c], m) /\ toServer'[c] = Tail(q)
    BY <1>3, <1>9, <2>1, <2>5, AppendIsConcat
  <2>7. EventsIn(toClient'[c]) = EventsIn(toClient[c])
    BY <1>3, <2>5, <2>6, EventsAfterAppend
  <2>8. Sent(t)' = Sent(t)
    BY <1>1, <2>7 DEF Sent, ConnOf
  <2>9. rows \in Session /\ ConsumeAll(rows, Sent(t)) = rows
    <3>1. rows \in Session /\ Absorbed(rows, Sent(t))
      BY <2>2 DEF Requested, IInv, Shapes, IsSession, Session
    <3> QED
      BY <1>3, <3>1, AbsorbedChangesNothing
  <2>10. \A i \in 1..Len(toClient'[c]) : toClient'[c][i].type = "snapshot" =>
           toClient'[c][i].rows = rows
    <3>1. /\ Len(toClient[c]) \in Nat /\ Len(toClient'[c]) = Len(toClient[c]) + 1
          /\ \A i \in 1..Len(toClient[c]) : toClient'[c][i] = toClient[c][i]
          /\ toClient'[c][Len(toClient[c]) + 1] = m
      BY <1>3, <2>5, <2>6, AppendProperties, LenProperties
    <3>2. \A i \in 1..Len(toClient[c]) : toClient[c][i].type # "snapshot"
      BY <2>2 DEF Requested, Carries
    <3>3. \A i \in 1..Len(toClient'[c]) : i \in 1..Len(toClient[c]) \/ i = Len(toClient[c]) + 1
      BY <3>1
    <3> QED
      BY <2>5, <3>1, <3>2, <3>3
  <2>11. Loop(t)' = "snapshot" /\ ConnOf(t)' = c
    BY <1>1, <1>10 DEF Loop, ConnOf
  <2>12. Answered(t)'
    <3>1. \A i \in 1..Len(toClient'[c]) : toClient'[c][i].type = "snapshot" =>
            ConsumeAll(toClient'[c][i].rows, Sent(t)') = rows'
      BY <1>1, <2>8, <2>9, <2>10
    <3> QED
      BY <2>1, <2>3, <2>11, <3>1 DEF Answered
  <2> QED
    BY <2>3, <2>6, <2>11, <2>12 DEF Follows
<1>11. CASE HearSnapshotRequest(c) /\ Loop(t) # "snapshot"
  <2> DEFINE m == IF lease = c THEN SnapshotFrames ELSE Is("error")
  <2>1. Answer(c, <<m>>) /\ UNCHANGED subscribed /\ Head(q).type = "snapshot.request"
    BY <1>0, <1>11 DEF HearSnapshotRequest
  <2>2. m \in Message /\ m.type # "event"
    <3>1. SnapshotFrames \in Message /\ Is("error") \in Message
      BY <1>8, Kinds DEF IInv, Shapes
    <3>2. SnapshotFrames.type # "event" /\ Is("error").type # "event"
      BY DEF SnapshotFrames, Is
    <3> QED
      BY <3>1, <3>2
  <2> HIDE DEF m
  <2>3. toClient'[c] = Append(toClient[c], m)
    BY <1>3, <1>9, <2>1, <2>2, AppendIsConcat
  <2>4. EventsIn(toClient'[c]) = EventsIn(toClient[c])
    BY <1>3, <2>2, <2>3, EventsAfterAppend
  <2>5. Loop(t) \in {"resolved", "synchronized"}
    <3>1. Loop(t) \notin {"opening", "hello", "attach"}
      BY <1>4, <2>1 DEF Follows, NotYet
    <3>2. Loop(t) \in Places
      BY OfSource
    <3> QED
      BY <1>2, <1>11, <3>1, <3>2 DEF Places, Asking
  <2>6. Sent(t)' = Sent(t) /\ Loop(t)' = Loop(t) /\ ConnOf(t)' = c
    BY <1>1, <2>4 DEF Sent, ConnOf, Loop
  <2> QED
    BY <1>1, <2>1, <2>4, <2>5, <2>6 DEF Follows
<1>12. CASE ~HearSnapshotRequest(c)
  <2>1. Head(q).type # "snapshot.request"
    <3>1. Hears(c, "hello") \/ Hears(c, "attach") \/ Hears(c, "subscribe") \/ Hears(c, "ping")
      BY <1>7, <1>12 DEF Hear, HearHello, HearAttach, HearSubscribe, HearPing
    <3> QED
      BY <1>0, <3>1
  <2>2. \/ Answer(c, <<>>)
        \/ \E x \in {"hello.ack", "attached", "already-attached", "error"} : Answer(c, <<Is(x)>>)
    BY <1>7, <1>12 DEF Hear, HearHello, HearAttach, HearSubscribe, HearPing
  <2>3. toServer'[c] = Tail(q) /\ NothingNew(toClient'[c], toClient[c])
    <3>1. CASE Answer(c, <<>>)
      <4>1. toClient'[c] = toClient[c]
        BY <1>3, <1>9, <3>1, ConcatEmptySeq
      <4> QED
        BY <1>9, <3>1, <4>1 DEF NothingNew
    <3>2. ASSUME NEW x \in {"hello.ack", "attached", "already-attached", "error"}, Answer(c, <<Is(x)>>)
          PROVE  toServer'[c] = Tail(q) /\ NothingNew(toClient'[c], toClient[c])
      <4>1. toClient'[c] = Append(toClient[c], Is(x)) /\ toServer'[c] = Tail(q)
        BY <1>3, <1>8, <1>9, <3>2, AppendIsConcat
      <4>2. Is(x) \in Message /\ Is(x).type \notin {"event", "snapshot"}
        BY <1>8
      <4> QED
        BY <1>3, <4>1, <4>2, AnswerIsNothingNew
    <3> QED
      BY <2>2, <3>1, <3>2
  <2>4. Head(q).type = "subscribe" => Loop(t) \in Attached
    <3>1. Head(q).type = "subscribe" => Loop(t) \notin {"opening", "hello", "attach"}
      BY <1>4 DEF Follows, NotYet
    <3>2. Loop(t) \in Places
      BY OfSource
    <3> QED
      BY <1>2, <3>1, <3>2 DEF Places, Asking, Attached
  <2>5. CASE HearSubscribe(c)
    <3>1. Head(q).type = "subscribe"
      BY <1>0, <2>5 DEF HearSubscribe
    <3>2. lease = c /\ Loop(t) \in Attached
      BY <1>1, <2>4, <3>1, HolderIs
    <3>3. c \in subscribed'
      BY <2>5, <3>2 DEF HearSubscribe
    <3> QED
      BY <1>1, <1>4, <1>5, <2>1, <2>3, <3>2, <3>3, StillFollows
  <2>6. CASE ~HearSubscribe(c)
    <3>1. UNCHANGED subscribed
      BY <1>7, <1>12, <2>6 DEF Hear, HearHello, HearAttach, HearPing
    <3>2. Head(q).type # "subscribe"
      <4>1. Hears(c, "hello") \/ Hears(c, "attach") \/ Hears(c, "ping")
        BY <1>7, <1>12, <2>6 DEF Hear, HearHello, HearAttach, HearPing
      <4> QED
        BY <1>0, <4>1
    <3> QED
      BY <1>1, <1>4, <1>5, <2>1, <2>3, <3>1, <3>2, StillFollows
  <2> QED
    BY <2>5, <2>6
<1> QED
  BY <1>10, <1>11, <1>12

(* And every other step of the server.                                        *)
LEMMA ServerFollows ==
  ASSUME IInv, NEW t \in Tuis, Follows(t),
         \/ \E d \in Conns : Hear(d) \/ SeeClose(d)
         \/ ExpireLease \/ Tick \/ DaemonDown \/ DaemonUp
         \/ UNCHANGED vars
  PROVE  Follows(t)'
<1>1. UNCHANGED <<rows, tui, view>>
  BY DEF Hear, HearHello, HearAttach, HearSubscribe, HearSnapshotRequest, HearPing, HearDetach,
     Answer, SeeClose, ExpireLease, Forget, Tick, DaemonDown, DaemonUp, vars, daemon
<1>2. ASSUME NEW d \in Conns, Hear(d) PROVE Follows(t)'
  <2>1. CASE d = ConnOf(t)
    BY <1>2, <2>1, AnswerFollows
  <2>2. CASE d # ConnOf(t)
    <3>1. /\ UNCHANGED serverOpen
          /\ ConnOf(t) \in subscribed' <=> ConnOf(t) \in subscribed
      BY <1>2, <2>2 DEF Hear, HearHello, HearAttach, HearSubscribe, HearSnapshotRequest, HearPing,
         HearDetach, Answer
    <3>2. \E answers : Answer(d, answers)
      BY <1>2 DEF Hear, HearHello, HearAttach, HearSubscribe, HearSnapshotRequest, HearPing,
         HearDetach
    <3>3. ConnOf(t) \in Conns =>
            toClient'[ConnOf(t)] = toClient[ConnOf(t)] /\ toServer'[ConnOf(t)] = toServer[ConnOf(t)]
      BY <2>2, <3>2 DEF Answer, IInv, Shapes
    <3> QED
      BY <1>1, <3>1, <3>3, UntouchedFollows
  <2> QED
    BY <2>1, <2>2
<1>3. ASSUME NEW gone, Forget(gone) PROVE Follows(t)'
  <2>1. /\ serverOpen' = serverOpen \ gone /\ subscribed' = subscribed \ gone
        /\ toServer' = [d \in Conns |-> IF d \in gone THEN <<>> ELSE toServer[d]]
        /\ UNCHANGED toClient
    BY <1>3 DEF Forget
  <2> QED
    BY <1>1, <2>1, Unfolded, UntouchedFollows
<1>4. CASE UNCHANGED <<serverOpen, subscribed, toServer, toClient>>
  BY <1>1, <1>4, UntouchedFollows
<1>5. ASSUME NEW d \in Conns, SeeClose(d) PROVE Follows(t)'
  BY <1>3, <1>5 DEF SeeClose
<1>6. CASE ExpireLease \/ DaemonDown
  BY <1>3, <1>6 DEF ExpireLease, DaemonDown
<1>7. CASE Tick \/ DaemonUp \/ UNCHANGED vars
  BY <1>4, <1>7 DEF Tick, DaemonUp, vars, server, wires
<1> QED
  BY <1>2, <1>5, <1>6, <1>7

-----------------------------------------------------------------------------
(***************************************************************************)
(* The source itself goes on.                                              *)
(***************************************************************************)

(* What it takes from its connection and what it sends.                       *)
LEMMA Taken ==
  ASSUME IInv, NEW t \in Tuis, NEW c, c = ConnOf(t), c \in clientOpen, toClient[c] # <<>>,
         NEW requests \in Seq(Request), Take(t, requests)
  PROVE  /\ c \in Conns /\ toClient[c] \in Seq(Message) /\ toServer[c] \in Seq(Request)
         /\ toClient'[c] = Tail(toClient[c]) /\ Tail(toClient[c]) \in Seq(Message)
         /\ Head(toClient[c]) \in Message /\ Carries(toClient[c], Head(toClient[c]).type)
         /\ c \in serverOpen => toServer'[c] = toServer[c] \o requests
         /\ c \notin serverOpen => toServer'[c] = <<>>
         /\ Loop(t) \notin {"idle", "sleeping", "opening"}
<1>1. c \in Conns /\ toClient[c] \in Seq(Message) /\ toServer[c] \in Seq(Request)
  BY Unfolded
<1>2. /\ Tail(toClient[c]) \in Seq(Message) /\ Head(toClient[c]) \in Message
      /\ Carries(toClient[c], Head(toClient[c]).type)
  BY <1>1, CarriesTail
<1>3. toClient'[c] = Tail(toClient[c])
  BY <1>1 DEF Take, IInv, Shapes
<1>4. /\ c \in serverOpen => toServer'[c] = toServer[c] \o requests
      /\ c \notin serverOpen => toServer'[c] = <<>>
  BY <1>1 DEF Take, IInv, Shapes
<1>5. Loop(t) # "opening"
  BY DEF IInv, Handshake
<1>6. Loop(t) \notin {"idle", "sleeping"}
  BY <1>1, OfSource, Unfolded
<1> QED
  BY <1>1, <1>2, <1>3, <1>4, <1>5, <1>6

(* hello is answered: it asks for the lease.                                  *)
LEMMA GetAckFollows ==
  ASSUME IInv, NEW t \in Tuis, Follows(t), GetAck(t)
  PROVE  Follows(t)'
<1> DEFINE c == ConnOf(t)
<1>1. /\ c \in clientOpen /\ toClient[c] # <<>> /\ Loop(t) = "hello"
      /\ Take(t, <<Is("attach")>>) /\ UNCHANGED <<rows, subscribed, serverOpen>>
      /\ tui' = [tui EXCEPT ![t] = [tui[t] EXCEPT !.loop = "attach"]]
  BY DEF GetAck, Gets, daemon, server
<1>2. Is("attach") \in Request /\ Is("attach").type = "attach"
  BY Kinds
<1>3. /\ toClient'[c] = Tail(toClient[c]) /\ toClient[c] \in Seq(Message)
      /\ toServer'[c] = toServer[c] \o <<Is("attach")>> \/ toServer'[c] = <<>>
      /\ toServer[c] \in Seq(Request)
  <2>1. <<Is("attach")>> \in Seq(Request)
    BY <1>2
  <2> QED
    BY <1>1, <2>1, Taken
<1>4. /\ tui'[t].loop = "attach" /\ tui'[t].conn = c /\ tui'[t].pending = tui[t].pending
  BY <1>1, OfSource DEF IInv, Shapes, Source, ConnOf
<1>5. NotYet(t)
  BY <1>1 DEF Follows
<1>6. \A x : Carries(toClient'[c], x) => Carries(toClient[c], x)
  BY <1>1, <1>3, CarriesTail
<1>7. \A x : Carries(toServer'[c], x) => Carries(toServer[c], x) \/ x = "attach"
  <2>1. Append(toServer[c], Is("attach")) = toServer[c] \o <<Is("attach")>>
    BY <1>2, <1>3, AppendIsConcat
  <2>2. \A x : Carries(Append(toServer[c], Is("attach")), x) <=>
                Carries(toServer[c], x) \/ Is("attach").type = x
    BY <1>2, <1>3, CarriesOneMore
  <2>3. CASE toServer'[c] = toServer[c] \o <<Is("attach")>>
    BY <1>2, <2>1, <2>2, <2>3
  <2>4. CASE toServer'[c] = <<>>
    BY <2>4, CarriesFew
  <2> QED
    BY <1>3, <2>3, <2>4
<1>8. NotYet(t)'
  BY <1>1, <1>4, <1>5, <1>6, <1>7 DEF NotYet, ConnOf
<1> QED
  BY <1>4, <1>8 DEF Follows, Loop

(* It is attached: it asks for the events and for the session.                *)
LEMMA GetAttachedFollows ==
  ASSUME IInv, NEW t \in Tuis, Follows(t), GetAttached(t)
  PROVE  Follows(t)'
<1> DEFINE c == ConnOf(t)
           asks == <<Is("subscribe"), Is("snapshot.request")>>
<1>1. /\ c \in clientOpen /\ toClient[c] # <<>> /\ Loop(t) = "attach"
      /\ Take(t, asks) /\ UNCHANGED <<rows, subscribed, serverOpen>>
      /\ tui' = [tui EXCEPT ![t] = [tui[t] EXCEPT !.loop = "snapshot"]]
  BY DEF GetAttached, Gets, daemon, server
<1>2. /\ toClient'[c] = Tail(toClient[c]) /\ toClient[c] \in Seq(Message)
      /\ Tail(toClient[c]) \in Seq(Message)
      /\ c \in serverOpen => toServer'[c] = toServer[c] \o asks
      /\ toServer[c] \in Seq(Request)
  <2>1. asks \in Seq(Request)
    BY Kinds
  <2> HIDE DEF asks
  <2> QED
    BY <1>1, <2>1, Taken
<1>3. tui'[t].loop = "snapshot" /\ tui'[t].conn = c /\ tui'[t].pending = tui[t].pending
  BY <1>1, OfSource DEF IInv, Shapes, Source, ConnOf
<1>4. NotYet(t)
  BY <1>1 DEF Follows
<1>5. \A x : Carries(toClient'[c], x) => Carries(toClient[c], x)
  BY <1>1, <1>2, CarriesTail
<1>6. ASSUME c \in serverOpen PROVE Carries(toServer'[c], "snapshot.request") /\ Requested(t)'
  <2>1. /\ AskedOnce(toServer'[c]) /\ SubscribesFirst(toServer'[c])
        /\ Carries(toServer'[c], "snapshot.request")
    BY <1>2, <1>4, <1>6, AskingBoth DEF NotYet
  <2>2. ~Carries(toClient'[c], "event") /\ ~Carries(toClient'[c], "snapshot")
    BY <1>4, <1>5 DEF NotYet
  <2>3. EventsIn(toClient'[c]) = <<>>
    BY <1>2, <2>2, NoEvents
  <2>4. Sent(t)' = <<>>
    <3>1. Sent(t)' = <<>> \o <<>>
      BY <1>3, <1>4, <2>3 DEF Sent, ConnOf, NotYet
    <3> QED
      BY <3>1
  <2>5. Absorbed(rows', <<>>)
    BY DEF Absorbed
  <2> QED
    BY <1>3, <1>4, <2>1, <2>2, <2>4, <2>5 DEF Requested, NotYet, ConnOf
<1> QED
  BY <1>1, <1>3, <1>6 DEF Follows, Loop, ConnOf

(* An error that concerns nothing it waits for.                               *)
LEMMA GetErrorFollows ==
  ASSUME IInv, NEW t \in Tuis, Follows(t), GetError(t)
  PROVE  Follows(t)'
<1> DEFINE c == ConnOf(t)
<1>1. /\ c \in clientOpen /\ toClient[c] # <<>> /\ Head(toClient[c]).type = "error"
      /\ UNCHANGED <<rows, subscribed, serverOpen, view>>
  BY DEF GetError, Gets, daemon, server
<1>2. CASE Loop(t) \in {"attach", "snapshot"}
  <2>1. Retry(t, IF Loop(t) = "snapshot" THEN <<Is("detach")>> ELSE <<>>)
    BY <1>2 DEF GetError
  <2>2. tui' = [tui EXCEPT ![t] = At("reconnecting", "sleeping", NoConn)]
    BY <2>1 DEF Retry
  <2>3. tui'[t].loop = "sleeping"
    BY <2>2 DEF At, IInv, Shapes
  <2> QED
    BY <2>3, NoneFollowed
<1>3. CASE Loop(t) \notin {"attach", "snapshot"}
  <2>1. Take(t, <<>>) /\ UNCHANGED tui
    BY <1>3 DEF GetError
  <2>2. /\ toClient'[c] = Tail(toClient[c]) /\ toClient[c] \in Seq(Message)
        /\ c \in serverOpen => toServer'[c] = toServer[c] \o <<>>
        /\ c \notin serverOpen => toServer'[c] = <<>>
        /\ toServer[c] \in Seq(Request)
    <3>1. <<>> \in Seq(Request)
      BY EmptySeq
    <3> QED
      BY <1>1, <2>1, <3>1, Taken
  <2>3. NothingNew(toClient'[c], toClient[c])
    BY <1>1, <2>2, TailIsNothingNew
  <2>4. c \in serverOpen => toServer'[c] = toServer[c]
    BY <2>2, ConcatEmptySeq
  <2>5. \A x : Carries(toServer'[c], x) => Carries(toServer[c], x)
    BY <2>2, <2>4, CarriesFew
  <2> QED
    BY <1>1, <2>1, <2>3, <2>4, <2>5, StillFollows
<1> QED
  BY <1>2, <1>3

(* The snapshot is there.                                                     *)
LEMMA GetSnapshotFollows ==
  ASSUME IInv, NEW t \in Tuis, Follows(t), GetSnapshot(t)
  PROVE  Follows(t)'
<1> DEFINE c == ConnOf(t)
           q == toClient[c]
<1>1. /\ c \in clientOpen /\ q # <<>> /\ Head(q).type = "snapshot" /\ Loop(t) = "snapshot"
      /\ Take(t, <<>>) /\ UNCHANGED <<rows, subscribed, serverOpen>>
      /\ tui' = [tui EXCEPT ![t] = [tui[t] EXCEPT !.loop = "resolved", !.got = Head(q).rows]]
  BY DEF GetSnapshot, Gets, daemon, server
<1>2. toClient'[c] = Tail(q) /\ q \in Seq(Message) /\ Carries(q, "snapshot")
  <2>1. <<>> \in Seq(Request)
    BY EmptySeq
  <2> HIDE DEF c
  <2>2. toClient'[c] = Tail(q) /\ q \in Seq(Message) /\ Carries(q, Head(q).type)
    BY <1>1, <2>1, Taken DEF c
  <2> QED
    BY <1>1, <2>2
<1>3. /\ tui'[t].loop = "resolved" /\ tui'[t].conn = c /\ tui'[t].pending = tui[t].pending
      /\ tui'[t].got = Head(q).rows
  BY <1>1, OfSource DEF IInv, Shapes, Source, ConnOf
<1>4. ASSUME c \in serverOpen
      PROVE  c \in subscribed /\ ConsumeAll(tui'[t].got, Sent(t)') = rows
  <2>1. Answered(t)
    BY <1>1, <1>2, <1>4 DEF Follows, Requested
  <2>2. Len(q) \in Nat \ {0} /\ Head(q) = q[1]
    BY <1>1, <1>2, HeadTailProperties, EmptySeq
  <2>3. 1 \in 1..Len(q)
    BY <2>2
  <2>4. c \in subscribed /\ ConsumeAll(Head(q).rows, Sent(t)) = rows
    BY <1>1, <2>1, <2>2, <2>3 DEF Answered
  <2>5. EventsIn(Tail(q)) = EventsIn(q)
    BY <1>1, <1>2, EventsInFront
  <2>6. Sent(t)' = Sent(t)
    BY <1>2, <1>3, <2>5 DEF Sent, ConnOf
  <2> QED
    BY <1>3, <2>4, <2>6
<1> QED
  BY <1>1, <1>3, <1>4 DEF Follows, Loop, ConnOf

(* What was sent is kept, or drawn, and no longer on the wire.                *)
LEMMA GetEventFollows ==
  ASSUME IInv, view \in [Tuis -> Session], NEW t \in Tuis, Follows(t), GetEvent(t),
         Loop(t) = "synchronized" \/ Len(tui[t].pending) # HistoryLimit
  PROVE  Follows(t)' /\ view' \in [Tuis -> Session]
<1> DEFINE c == ConnOf(t)
           q == toClient[c]
           row == Head(q).row
           rest == EventsIn(Tail(q))
           p == tui[t].pending
<1>1. /\ c \in clientOpen /\ q # <<>> /\ Head(q).type = "event"
      /\ Take(t, <<>>) /\ UNCHANGED <<rows, subscribed, serverOpen>>
  BY DEF GetEvent, Gets, daemon, server
<1>2. /\ c \in Conns /\ toClient'[c] = Tail(q) /\ q \in Seq(Message) /\ Carries(q, "event")
      /\ Tail(q) \in Seq(Message) /\ row \in Row
      /\ c \in serverOpen => toServer'[c] = toServer[c]
      /\ Loop(t) \notin {"idle", "sleeping", "opening"}
  <2>1. <<>> \in Seq(Request)
    BY EmptySeq
  <2> HIDE DEF c
  <2>2. /\ c \in Conns /\ toClient'[c] = Tail(q) /\ q \in Seq(Message) /\ Carries(q, Head(q).type)
        /\ Tail(q) \in Seq(Message) /\ Head(q) \in Message /\ toServer[c] \in Seq(Request)
        /\ c \in serverOpen => toServer'[c] = toServer[c] \o <<>>
        /\ Loop(t) \notin {"idle", "sleeping", "opening"}
    BY <1>1, <2>1, Taken DEF c
  <2>3. row \in Row
    BY <1>1, <2>2, Payloads
  <2> QED
    BY <1>1, <2>2, <2>3, ConcatEmptySeq
<1>3. EventsIn(q) = <<row>> \o rest /\ rest \in Seq(Row)
  BY <1>1, <1>2, EventsInFront, EventsAreRows
<1>4. Loop(t) \in Attached
  <2>1. Loop(t) \notin {"opening", "hello", "attach"}
    BY <1>2 DEF Follows, NotYet
  <2>2. Loop(t) \in Places
    BY OfSource
  <2> QED
    BY <1>2, <2>1, <2>2 DEF Places, Asking, Attached
<1>5. CASE Loop(t) = "synchronized"
  <2>1. view' = [view EXCEPT ![t] = Consume(view[t], row)] /\ UNCHANGED tui
    BY <1>5 DEF GetEvent
  <2>2. view[t] \in Session /\ Consume(view[t], row) \in Session
    <3>1. view[t] \in Session
      OBVIOUS
    <3> HIDE DEF row
    <3> QED
      BY <1>2, <3>1, ConsumeIsRows
  <2>3. view' \in [Tuis -> Session] /\ view'[t] = Consume(view[t], row)
    BY <2>1, <2>2
  <2>4. ConsumeAll(view[t], <<row>> \o rest) = ConsumeAll(Consume(view[t], row), rest)
    <3> HIDE DEF row, rest
    <3>1. <<row>> \in Seq(Row)
      BY <1>2
    <3>2. ConsumeAll(view[t], <<row>>) = Consume(view[t], row)
      BY <1>2, <2>2, ConsumeAllFew
    <3> QED
      BY <1>3, <2>2, <3>1, <3>2, ConsumeAllConcat
  <2>5. c \in serverOpen => c \in subscribed /\ ConsumeAll(view'[t], EventsIn(toClient'[c])) = rows
    BY <1>2, <1>3, <1>5, <2>3, <2>4 DEF Follows
  <2>6. Loop(t)' = "synchronized" /\ ConnOf(t)' = c
    BY <1>5, <2>1 DEF Loop, ConnOf
  <2> QED
    BY <1>1, <2>3, <2>5, <2>6 DEF Follows
<1>6. CASE Loop(t) # "synchronized"
  <2>1. p \in Seq(Row) /\ Len(p) \in Nat /\ Len(p) <= HistoryLimit
    BY <1>2, SentIsRows, LenProperties DEF IInv, Ends
  <2>2. Len(Append(p, row)) = Len(p) + 1 /\ ~(Len(Append(p, row)) > HistoryLimit)
    BY <1>2, <1>6, <2>1, AppendProperties, HistoryLimitAssumption
  <2>3. tui' = [tui EXCEPT ![t] = [tui[t] EXCEPT !.pending = Append(p, row)]] /\ UNCHANGED view
    BY <1>6, <2>2 DEF GetEvent
  <2>4. /\ tui'[t].loop = Loop(t) /\ tui'[t].conn = c /\ tui'[t].pending = Append(p, row)
        /\ tui'[t].got = tui[t].got
    BY <2>3, OfSource DEF IInv, Shapes, Source, ConnOf, Loop
  <2>5. Sent(t)' = Sent(t)
    <3>1. Sent(t)' = Append(p, row) \o rest
      BY <1>2, <2>4 DEF Sent, ConnOf
    <3>2. Sent(t) = p \o (<<row>> \o rest)
      BY <1>3 DEF Sent
    <3>3. Append(p, row) \o rest = p \o (<<row>> \o rest)
      <4> HIDE DEF p, row, rest
      <4>1. <<row>> \in Seq(Row) /\ Append(p, row) = p \o <<row>>
        BY <1>2, <2>1, AppendIsConcat
      <4>2. (p \o <<row>>) \o rest = p \o (<<row>> \o rest)
        BY <1>3, <2>1, <4>1, ConcatAssociative, SMTT(30)
      <4> QED
        BY <4>1, <4>2
    <3> QED
      BY <3>1, <3>2, <3>3
  <2>6. /\ Carries(Tail(q), "snapshot") => Carries(q, "snapshot")
        /\ \A i \in 1..Len(Tail(q)) : \E j \in 1..Len(q) : q[j] = Tail(q)[i]
    BY <1>1, <1>2, TailIsNothingNew, CarriesTail
  <2>7. ASSUME c \in serverOpen, Loop(t) = "snapshot", Carries(toServer[c], "snapshot.request")
        PROVE  Requested(t)'
    <3>1. Requested(t)
      BY <2>7 DEF Follows
    <3> QED
      BY <1>1, <1>2, <2>4, <2>5, <2>6, <2>7, <3>1 DEF Requested, ConnOf
  <2>8. ASSUME c \in serverOpen, Loop(t) = "snapshot", ~Carries(toServer[c], "snapshot.request")
        PROVE  Answered(t)'
    <3>1. Answered(t)
      BY <2>8 DEF Follows
    <3>2. \A i \in 1..Len(Tail(q)) : Tail(q)[i].type = "snapshot" =>
            ConsumeAll(Tail(q)[i].rows, Sent(t)) = rows
      BY <2>6, <3>1 DEF Answered
    <3>3. c \in subscribed
      BY <3>1 DEF Answered
    <3> QED
      BY <1>1, <1>2, <2>4, <2>5, <3>2, <3>3 DEF Answered, ConnOf
  <2>9. ASSUME c \in serverOpen, Loop(t) = "resolved"
        PROVE  c \in subscribed /\ ConsumeAll(tui'[t].got, Sent(t)') = rows
    BY <2>4, <2>5, <2>9 DEF Follows
  <2>10. view' \in [Tuis -> Session]
    BY <2>3
  <2>11. Loop(t)' = Loop(t) /\ ConnOf(t)' = c /\ Loop(t) \notin {"opening", "hello", "attach"}
    BY <1>4, <2>4 DEF Loop, ConnOf, Attached
  <2>12. Follows(t)'
    BY <1>1, <1>2, <1>6, <2>7, <2>8, <2>9, <2>11 DEF Follows
  <2> QED
    BY <2>10, <2>12
<1> QED
  BY <1>5, <1>6

(* The snapshot, and the events that came meanwhile on top of it.             *)
LEMMA SynchronizeFollows ==
  ASSUME IInv, view \in [Tuis -> Session], NEW t \in Tuis, Follows(t), Synchronize(t)
  PROVE  Follows(t)' /\ view' \in [Tuis -> Session]
<1> DEFINE c == ConnOf(t)
           s == ConsumeAll(tui[t].got, tui[t].pending)
           rest == EventsIn(toClient[c])
<1>1. /\ Loop(t) = "resolved" /\ view' = [view EXCEPT ![t] = s]
      /\ tui' = [tui EXCEPT ![t] = At("connected", "synchronized", c)]
      /\ UNCHANGED <<rows, subscribed, serverOpen, toClient>>
  BY DEF Synchronize, daemon, server, wires
<1>2. /\ c \in Conns /\ tui[t].got \in Session /\ tui[t].pending \in Seq(Row)
      /\ rest \in Seq(Row)
  BY <1>1, OfSource, SentIsRows DEF Attached
<1>3. s \in Session /\ ConsumeAll(tui[t].got, Sent(t)) = ConsumeAll(s, rest)
  BY <1>2, ConsumeAllType, ConsumeAllConcat DEF Sent
<1> HIDE DEF s
<1>4. view' \in [Tuis -> Session] /\ view'[t] = s
  BY <1>1, <1>3
<1>5. tui'[t].loop = "synchronized" /\ tui'[t].conn = c
  BY <1>1 DEF At, IInv, Shapes
<1>6. c \in serverOpen => c \in subscribed /\ ConsumeAll(view'[t], rest) = rows
  BY <1>1, <1>3, <1>4 DEF Follows
<1> QED
  BY <1>1, <1>4, <1>5, <1>6 DEF Follows, Loop, ConnOf

LEMMA OpensFollows ==
  ASSUME IInv, NEW t \in Tuis, Follows(t), Opens(t)
  PROVE  Follows(t)'
<1> DEFINE c == ConnOf(t)
<1>1. CASE up
  <2>1. /\ Loop(t) = "opening" /\ tui' = [tui EXCEPT ![t] = [tui[t] EXCEPT !.loop = "hello"]]
        /\ toServer' = [toServer EXCEPT ![c] = <<Is("hello")>>]
        /\ UNCHANGED <<subscribed, toClient>>
    BY <1>1 DEF Opens
  <2>2. c \in Conns
    BY <2>1, OfSource
  <2>3. toServer'[c] = <<Is("hello")>> /\ \A x : Carries(toServer'[c], x) => x = "hello"
    <3>1. toServer'[c] = <<Is("hello")>>
      BY <2>1, <2>2 DEF IInv, Shapes
    <3>2. \A x : Carries(<<Is("hello")>>, x) => x = "hello"
      BY CarriesFew DEF Is
    <3> QED
      BY <3>1, <3>2
  <2>4. tui'[t].loop = "hello" /\ tui'[t].conn = c /\ tui'[t].pending = tui[t].pending
    BY <2>1, OfSource DEF IInv, Shapes, Source, ConnOf
  <2>5. NotYet(t)
    BY <2>1 DEF Follows
  <2>6. NotYet(t)'
    BY <2>1, <2>3, <2>4, <2>5 DEF NotYet, ConnOf
  <2> QED
    BY <2>4, <2>6 DEF Follows, Loop
<1>2. CASE ~up
  <2>1. tui' = [tui EXCEPT ![t] = At("reconnecting", "sleeping", NoConn)]
    BY <1>2 DEF Opens, Retry
  <2>2. tui'[t].loop = "sleeping"
    BY <2>1 DEF At, IInv, Shapes
  <2> QED
    BY <2>2, NoneFollowed
<1> QED
  BY <1>1, <1>2

LEMMA PingFollows ==
  ASSUME IInv, NEW t \in Tuis, Follows(t), Ping(t)
  PROVE  Follows(t)'
<1> DEFINE c == ConnOf(t)
<1>1. /\ c \in serverOpen /\ UNCHANGED <<rows, subscribed, serverOpen, toClient, tui, view>>
      /\ toServer' = [toServer EXCEPT ![c] = Append(@, Is("ping"))]
  BY DEF Ping, daemon, server
<1>2. c \in Conns /\ toServer[c] \in Seq(Request)
  BY <1>1, Unfolded
<1>3. Is("ping") \in Request /\ Is("ping").type = "ping"
  BY Kinds
<1>4. toServer'[c] = Append(toServer[c], Is("ping"))
  BY <1>1, <1>2 DEF IInv, Shapes
<1>5. \A x : Carries(toServer'[c], x) <=> Carries(toServer[c], x) \/ x = "ping"
  BY <1>2, <1>3, <1>4, CarriesOneMore
<1>6. /\ AskedOnce(toServer[c]) => AskedOnce(toServer'[c])
      /\ SubscribesFirst(toServer[c]) => SubscribesFirst(toServer'[c])
  BY <1>2, <1>3, <1>4, AskingAppend
<1>7. NothingNew(toClient'[c], toClient[c])
  BY <1>1 DEF NothingNew
<1> QED
  BY <1>1, <1>5, <1>6, <1>7, StillFollows

-----------------------------------------------------------------------------
(***************************************************************************)
(* All sources follow the session.                                         *)
(***************************************************************************)
Moves(u) == Start(u) \/ GoesOn(u) \/ RequestTimeout(u) \/ Ping(u) \/ Stop(u)

(* What a source does leaves the connections of the others alone.             *)
LEMMA MovesOwnWires ==
  ASSUME IInv, NEW u \in Tuis, Moves(u), NEW d \in Conns, d # ConnOf(u)
  PROVE  /\ toClient'[d] = toClient[d] /\ toServer'[d] = toServer[d]
         /\ d \in serverOpen' <=> d \in serverOpen
<1>1. /\ toClient \in [Conns -> Seq(Message)] /\ toServer \in [Conns -> Seq(Request)]
      /\ ConnOf(u) \in Conns \cup {NoConn}
  BY OfSource DEF IInv, Shapes
<1>2. ASSUME NEW farewell, Hang(ConnOf(u), farewell)
      PROVE  toClient'[d] = toClient[d] /\ toServer'[d] = toServer[d]
  BY <1>2 DEF Hang
<1>3. ASSUME NEW farewell, Retry(u, farewell)
      PROVE  toClient'[d] = toClient[d] /\ toServer'[d] = toServer[d]
  BY <1>2, <1>3 DEF Retry
<1>4. ASSUME NEW requests, Take(u, requests)
      PROVE  toClient'[d] = toClient[d] /\ toServer'[d] = toServer[d]
  BY <1>1, <1>4 DEF Take
<1>5. CASE Start(u) \/ Wake(u)
  BY <1>5 DEF Start, Wake, server
<1>6. CASE Opens(u)
  BY <1>1, <1>3, <1>6 DEF Opens
<1>7. CASE GetMessage(u)
  <2>1. UNCHANGED serverOpen
    BY <1>7 DEF GetMessage, GetAck, GetAttached, GetRefused, GetError, GetSnapshot, GetEvent, server
  <2>2. (\E requests : Take(u, requests)) \/ (\E farewell : Retry(u, farewell))
    BY <1>7 DEF GetMessage, GetAck, GetAttached, GetRefused, GetError, GetSnapshot, GetEvent
  <2> QED
    BY <1>3, <1>4, <2>1, <2>2
<1>8. CASE Synchronize(u)
  BY <1>8 DEF Synchronize, server, wires
<1>9. CASE LoseSocket(u)
  BY <1>1, <1>3, <1>9 DEF LoseSocket, server
<1>10. CASE RequestTimeout(u)
  BY <1>3, <1>10 DEF RequestTimeout, server
<1>11. CASE Ping(u)
  BY <1>1, <1>11 DEF Ping, server
<1>12. CASE Stop(u)
  BY <1>2, <1>12 DEF Stop, server
<1> QED
  BY <1>5, <1>6, <1>7, <1>8, <1>9, <1>10, <1>11, <1>12 DEF Moves, GoesOn

LEMMA MovesNoSession ==
  ASSUME NEW u \in Tuis, Moves(u)
  PROVE  UNCHANGED <<rows, subscribed>>
BY DEF Moves, GoesOn, Start, Wake, Opens, GetMessage, GetAck, GetAttached, GetRefused, GetError,
   GetSnapshot, GetEvent, Synchronize, LoseSocket, RequestTimeout, Ping, Stop, daemon, server

LEMMA OthersFollow ==
  ASSUME IInv, StoppedIsIdle, Drawn, NEW u \in Tuis, Moves(u),
         NEW t \in Tuis, t # u, Follows(t)
  PROVE  Follows(t)'
<1>1. tui'[t] = tui[t] /\ view'[t] = view[t]
  BY SourceMoves DEF Moves, OnlyMoves
<1>2. CASE Loop(t) \in {"idle", "sleeping"}
  BY <1>1, <1>2, NoneFollowed DEF Loop
<1>3. CASE Loop(t) \notin {"idle", "sleeping"}
  <2>1. ConnOf(t) \in Conns
    BY <1>3, OfSource
  <2>2. ConnOf(t) # ConnOf(u)
    BY <2>1, Unfolded DEF IInv, Ends
  <2> QED
    BY <1>1, <2>1, <2>2, MovesOwnWires, MovesNoSession, UntouchedFollows
<1> QED
  BY <1>2, <1>3

(* A new attempt has nothing yet, and one that failed nothing any more.       *)
LEMMA AttemptFollows ==
  ASSUME IInv, IInv', NEW t \in Tuis,
         Start(t) \/ Wake(t) \/ LoseSocket(t) \/ RequestTimeout(t) \/ Stop(t) \/ GetRefused(t)
  PROVE  Follows(t)'
<1>1. ASSUME NEW state, NEW open, Dial(t, state, open)
      PROVE  tui'[t].loop = "opening" /\ tui'[t].pending = <<>>
  BY <1>1 DEF Dial, At, IInv, Shapes
<1>2. ASSUME NEW farewell, Retry(t, farewell) PROVE tui'[t].loop = "sleeping"
  BY <1>2 DEF Retry, At, IInv, Shapes
<1>3. Stop(t) => tui'[t].loop = "idle"
  BY DEF Stop, At, IInv, Shapes
<1>4. \/ \E state, open : Dial(t, state, open)
      \/ \E farewell : Retry(t, farewell)
      \/ Stop(t)
  BY DEF Start, Wake, LoseSocket, RequestTimeout, GetRefused
<1> QED
  BY <1>1, <1>2, <1>3, <1>4, OpeningFollows, NoneFollowed

LEMMA OwnFollows ==
  ASSUME IInv, IInv', view \in [Tuis -> Session], NEW t \in Tuis, Follows(t), Moves(t),
         GetEvent(t) => Loop(t) = "synchronized" \/ Len(tui[t].pending) # HistoryLimit
  PROVE  Follows(t)'
<1>1. CASE Start(t) \/ Wake(t) \/ LoseSocket(t) \/ RequestTimeout(t) \/ Stop(t) \/ GetRefused(t)
  BY <1>1, AttemptFollows
<1>2. CASE Opens(t) \/ Ping(t) \/ Synchronize(t)
  BY <1>2, OpensFollows, PingFollows, SynchronizeFollows
<1>3. CASE GetAck(t) \/ GetAttached(t) \/ GetError(t) \/ GetSnapshot(t) \/ GetEvent(t)
  BY <1>3, GetAckFollows, GetAttachedFollows, GetErrorFollows, GetSnapshotFollows, GetEventFollows
<1> QED
  BY <1>1, <1>2, <1>3 DEF Moves, GoesOn, GetMessage

LEMMA ViewStays ==
  ASSUME IInv, view \in [Tuis -> Session], NEW t \in Tuis, Follows(t), Moves(t),
         GetEvent(t) => Loop(t) = "synchronized" \/ Len(tui[t].pending) # HistoryLimit
  PROVE  view' \in [Tuis -> Session]
<1>1. CASE GetEvent(t) \/ Synchronize(t)
  BY <1>1, GetEventFollows, SynchronizeFollows
<1>2. CASE ~(GetEvent(t) \/ Synchronize(t))
  BY <1>2 DEF Moves, GoesOn, Start, Wake, Opens, GetMessage, GetAck, GetAttached, GetRefused,
     GetError, GetSnapshot, LoseSocket, RequestTimeout, Ping, Stop
<1> QED
  BY <1>1, <1>2

(* The session drops no call while a source waits for it: what is retained    *)
(* fits into a frame, a full session takes in no new call before the snapshot *)
(* is there, and a full buffer no event more before it is applied.            *)
NothingDropped ==
  /\ \A i \in DOMAIN rows' : FitsFrame(rows'[i])
  /\ \A t \in Tuis : Loop(t) = "snapshot" /\ Len(rows) = HistoryLimit =>
       \A k \in Calls : Has(rows', k) => Has(rows, k)
  /\ \A t \in Tuis : Len(tui[t].pending) = HistoryLimit /\ Loop(t) # "synchronized" =>
       ~GetEvent(t)

Following == view \in [Tuis -> Session] /\ \A t \in Tuis : Follows(t)

LEMMA FollowingStep ==
  ASSUME IInv, IInv', StoppedIsIdle, Drawn, Following, [Next]_vars, [NothingDropped]_vars
  PROVE  Following'
<1>1. view \in [Tuis -> Session] /\ \A t \in Tuis : Follows(t)
  BY DEF Following
<1>2. CASE \/ \E d \in Conns : Hear(d) \/ SeeClose(d)
           \/ ExpireLease \/ Tick \/ DaemonDown \/ DaemonUp
           \/ UNCHANGED vars
  <2>1. UNCHANGED view
    BY <1>2, ServerMovesNoSource
  <2>2. \A t \in Tuis : Follows(t)'
    BY <1>1, <1>2, ServerFollows
  <2> QED
    BY <1>1, <2>1, <2>2 DEF Following
<1>3. ASSUME NEW row \in Row, Publish(row), ~UNCHANGED vars PROVE Following'
  <2>1. /\ rows' = Consume(rows, row) /\ rows \in Session /\ UNCHANGED view /\ NothingDropped
    BY <1>3 DEF Publish, IInv, Shapes, IsSession, Session
  <2>2. (\E j \in DOMAIN rows' : rows'[j] = row) /\ Has(rows', row.call)
    <3>1. \E j \in DOMAIN rows' : rows'[j] = row
      BY <2>1, ConsumeHolds
    <3> QED
      BY <3>1 DEF Has
  <2>3. FitsFrame(row)
    BY <2>1, <2>2 DEF NothingDropped
  <2>4. ASSUME NEW t \in Tuis, Loop(t) = "snapshot"
        PROVE  Has(rows, row.call) \/ Len(rows) < HistoryLimit
    <3>1. Len(rows) = HistoryLimit => Has(rows, row.call)
      BY <2>1, <2>2, <2>4 DEF NothingDropped, Row
    <3>2. Len(rows) \in Nat /\ Len(rows) <= HistoryLimit
      BY <2>1, LenProperties DEF Session
    <3> QED
      BY <3>1, <3>2, HistoryLimitAssumption
  <2>5. \A t \in Tuis : Follows(t)'
    BY <1>1, <1>3, <2>3, <2>4, PublishFollows
  <2> QED
    BY <1>1, <2>1, <2>5 DEF Following
<1>4. ASSUME NEW u \in Tuis, Moves(u), ~UNCHANGED vars PROVE Following'
  <2>1. GetEvent(u) => Loop(u) = "synchronized" \/ Len(tui[u].pending) # HistoryLimit
    BY <1>4 DEF NothingDropped
  <2>2. view' \in [Tuis -> Session] /\ Follows(u)'
    BY <1>1, <1>4, <2>1, ViewStays, OwnFollows
  <2>3. \A t \in Tuis : t # u => Follows(t)'
    BY <1>1, <1>4, OthersFollow
  <2> QED
    BY <2>2, <2>3 DEF Following
<1>5. CASE \E k \in Calls : CallStarts(k) \/ CallEnds(k)
  <2>1. PICK k \in Calls : \/ Publish([call |-> k, status |-> "running"])
                           \/ Publish([call |-> k, status |-> "done"])
    BY <1>5 DEF CallStarts, CallEnds
  <2>2. [call |-> k, status |-> "running"] \in Row /\ [call |-> k, status |-> "done"] \in Row
    BY DEF Row
  <2> QED
    BY <1>2, <1>3, <2>1, <2>2
<1>6. CASE \E t \in Tuis : Start(t) \/ GoesOn(t) \/ RequestTimeout(t) \/ Ping(t) \/ Stop(t)
  BY <1>2, <1>4, <1>6 DEF Moves
<1> QED
  BY <1>2, <1>5, <1>6 DEF Next

(* As long as nothing is dropped, a connected TUI shows the session of the    *)
(* daemon, but for the events that are still on their way: nothing is lost    *)
(* between the snapshot and the events (connectClient of session-source.ts    *)
(* subscribes before it asks), and what came twice does no harm.              *)
THEOREM ConnectedShowsTheSession == Spec /\ [][NothingDropped]_vars => []MirrorAgrees
<1>1. Init => StoppedIsIdle /\ Drawn /\ Following
  <2> SUFFICES ASSUME Init PROVE StoppedIsIdle /\ Drawn /\ Following
    OBVIOUS
  <2>1. <<>> \in Session
    BY EmptySeq, HistoryLimitAssumption DEF Session
  <2>2. \A t \in Tuis : Loop(t) = "idle" /\ tui[t].state = "disconnected"
    BY DEF Init, At, Loop
  <2>3. StoppedIsIdle /\ Drawn
    BY <2>2 DEF Init, StoppedIsIdle, Drawn
  <2>4. \A t \in Tuis : Follows(t)
    BY <2>2 DEF Follows
  <2> QED
    BY <2>1, <2>3, <2>4 DEF Init, Following
<1>2. /\ IInv /\ IInv' /\ StoppedIsIdle /\ Drawn /\ Following
      /\ [Next]_vars /\ [NothingDropped]_vars
      => StoppedIsIdle' /\ Drawn' /\ Following'
  BY StoppedStep, FollowingStep
<1>3. Following => MirrorAgrees
  <2> SUFFICES ASSUME Following PROVE MirrorAgrees
    OBVIOUS
  <2>1. \A t \in Tuis : IsSession(view[t])
    BY DEF Following, Session, IsSession
  <2>2. \A t \in Tuis : Loop(t) = "synchronized" /\ ConnOf(t) \in serverOpen =>
          ConsumeAll(view[t], EventsIn(toClient[ConnOf(t)])) = rows
    BY DEF Following, Follows
  <2> QED
    BY <2>1, <2>2 DEF MirrorAgrees
<1> QED
  BY <1>1, <1>2, <1>3, SessionInvariant, PTL DEF Spec
=============================================================================
