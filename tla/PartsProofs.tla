----------------------------- MODULE PartsProofs -----------------------------
(***************************************************************************)
(* Proofs about the parts that have theorems, for every value of their     *)
(* constants.  A step of Parts is a step of the part that runs             *)
(* (StepOfAPart), so that for each part there are three facts: its         *)
(* inductive invariant IInv, which its own module states and explains,     *)
(* holds at the start, is kept by a step of the part, and holds always     *)
(* (...Init, ...Step, ...Invariant).  The theorem about the part follows.  *)
(***************************************************************************)
EXTENDS Parts, SequenceTheorems, FiniteSetTheorems, WellFoundedInduction, TLAPS

-----------------------------------------------------------------------------
(* The parts side by side.                                                 *)

\* A step is one of the part, and leaves the others' variables alone.
LEMMA OnlyItself ==
    ASSUME NEW p, NEW n, Only(p, n)
    PROVE  part = p /\ part' = part
BY DEF Only

\* A step is one of the part that runs, or none.
LEMMA StepOfAPart ==
    ASSUME [Next]_vars
    PROVE  /\ part' = part
           /\ part = "control" => Control!Next \/ UNCHANGED vars
           /\ part = "sync" => Sync!Next \/ UNCHANGED vars
           /\ part = "queue" => Queue!Next \/ UNCHANGED vars
           /\ part = "mail" => Mailbox!Next \/ UNCHANGED vars
           /\ part = "pair" => Pair!Next \/ UNCHANGED vars
           /\ part = "files" => Files!Next \/ UNCHANGED vars
           /\ part = "state" => State!Next \/ UNCHANGED vars
           /\ part = "program" => Prog!Next \/ UNCHANGED vars
           /\ part = "rtsp" => Rtsp!Next \/ UNCHANGED vars
           /\ part = "wasapi" => Wasapi!Next \/ UNCHANGED vars
           /\ part = "audio" => Audio!Next \/ UNCHANGED vars
           /\ part = "probe" => Probe!Next \/ UNCHANGED vars
           /\ part = "pads" => Pads(PadsOfOne)!Next \/ UNCHANGED vars
           /\ part = "rivals" => Pads(PadsOfTwo)!Next \/ UNCHANGED vars
           /\ part = "vigem" => Vigem!Next \/ UNCHANGED vars
<1>1. CASE Next
  BY <1>1, OnlyItself DEF Next, ControlNext, AudioNext, SyncNext, QueueNext, MailboxNext,
    PadsNext, RivalsNext, ProbeNext, PairNext, PacketsNext, FilesNext, StateNext, ProgNext,
    ScreenNext, DmabufNext, DesktopNext, WasapiNext, RtspNext, VigemNext
<1>2. CASE UNCHANGED vars
  BY <1>2 DEF vars
<1> QED BY <1>1, <1>2

\* What starts is the part.
LEMMA StartOfAPart ==
    ASSUME Init
    PROVE  /\ part = "control" => Control!Init
           /\ part = "sync" => Sync!Init
           /\ part = "queue" => Queue!Init
           /\ part = "mail" => Mailbox!Init
           /\ part = "pair" => Pair!Init
           /\ part = "files" => Files!Init
           /\ part = "state" => State!Init
           /\ part = "program" => Prog!Init
           /\ part = "rtsp" => Rtsp!Init
           /\ part = "wasapi" => Wasapi!Init
           /\ part = "audio" => Audio!Init
           /\ part = "probe" => Probe!Init
           /\ part = "pads" => Pads(PadsOfOne)!Init
           /\ part = "rivals" => Pads(PadsOfTwo)!Init
           /\ part = "vigem" => Vigem!Init
BY DEF Init, Starts

-----------------------------------------------------------------------------
(* ControlServer: a connection keeps the session it has claimed.           *)

\* What the events of a client find: the session that its connection has claimed, or,
\* while it has none, one of its address that nobody has claimed.
LEMMA ControlFinds ==
    ASSUME Control!IInv, NEW c \in ControlSessions
    PROVE  /\ v4[c] = "none" => Control!SessionsFor(c) = Control!Fresh(c)
           /\ v4[c] = "up" => Control!SessionsFor(c) = Control!Known(c)
BY DEF Control!IInv, Control!TypeOK, Control!ClaimsAreKept, Control!SessionsFor,
    Control!Known, Control!Fresh

\* At the start no session has a connection.
LEMMA ControlInit == Control!Init => Control!IInv
BY ControlAssumption DEF Control!Init, Control!IInv, Control!TypeOK, Control!ClaimsAreKept,
    Control!ClaimsAreClear, Control!ControlledByItsClient, Control!MessagesActForTheirClient,
    Control!RumbleHasAPeer, Control!Pairs

\* No step of the control server breaks the invariant: one case for each handler.
LEMMA ControlStep == Control!IInv /\ Control!Next => Control!IInv'
<1> SUFFICES ASSUME Control!IInv, Control!Next PROVE Control!IInv'
  OBVIOUS
<1> USE ControlAssumption DEF Control!IInv, Control!TypeOK, Control!ClaimsAreKept,
      Control!ClaimsAreClear, Control!ControlledByItsClient, Control!MessagesActForTheirClient,
      Control!RumbleHasAPeer, Control!Pairs
<1>1. ASSUME NEW s \in ControlSessions, Control!Start(s) PROVE Control!IInv'
  <2>1. Control!TypeOK' /\ Control!ClaimsAreKept' /\ Control!ControlledByItsClient'
        /\ Control!MessagesActForTheirClient' /\ Control!RumbleHasAPeer'
    BY <1>1 DEF Control!Start
  <2>2. Control!ClaimsAreClear'
    <3> SUFFICES ASSUME ~v9', NEW t \in ControlSessions, NEW c \in ControlSessions,
                        t \in v2', v3'[t] = Nil, AddrOf[t] = AddrOf[c], v1'[c] # "new", v4'[c] = "none"
                 PROVE  t = c
      OBVIOUS
    <3>1. /\ v1[s] = "new" /\ v1' = [v1 EXCEPT ![s] = "RUNNING"] /\ v2' = v2 \cup {s} /\ UNCHANGED <<v3, v4>>
          /\ v9' = (v9 \/ \E u \in ControlSessions \ {s} :
                            AddrOf[u] = AddrOf[s] /\ v1[u] # "new" /\ (v4[u] = "none" \/ u \in Control!Fresh(s)))
      BY <1>1 DEF Control!Start
    <3>2. ~v9 /\ \A u \in ControlSessions \ {s} :
                   AddrOf[u] = AddrOf[s] /\ v1[u] # "new" => v4[u] # "none" /\ u \notin Control!Fresh(s)
      BY <3>1, Zenon
    <3>3. CASE t = s
      BY <3>1, <3>2, <3>3
    <3>4. CASE t # s /\ c = s
      BY <3>1, <3>2, <3>4 DEF Control!Fresh
    <3>5. CASE t # s /\ c # s
      BY <3>1, <3>2, <3>5
    <3> QED BY <3>3, <3>4, <3>5
  <2> QED BY <2>1, <2>2
<1>2. ASSUME NEW s \in ControlSessions, Control!Stop(s) PROVE Control!IInv'
  BY <1>2 DEF Control!Stop, Control!Stopped
<1>3. ASSUME NEW s \in ControlSessions, Control!Connect(s) PROVE Control!IInv'
  <2> SUFFICES ASSUME v4[s] = "none",
                      \/ v4' = [v4 EXCEPT ![s] = "down"] /\ v3' = v3
                      \/ \E t \in Control!Fresh(s) :
                            v3' = [v3 EXCEPT ![t] = s] /\ v4' = [v4 EXCEPT ![s] = "up"]
               PROVE  Control!IInv'
    BY <1>3, ControlFinds DEF Control!Connect, Control!Rejected
  <2>1. CASE v4' = [v4 EXCEPT ![s] = "down"] /\ v3' = v3
    BY <1>3, <2>1 DEF Control!Connect
  <2>2. ASSUME NEW t \in Control!Fresh(s),
               v3' = [v3 EXCEPT ![t] = s], v4' = [v4 EXCEPT ![s] = "up"]
        PROVE  Control!IInv'
    <3>1. t \in ControlSessions /\ t \in v2 /\ v3[t] = Nil /\ AddrOf[t] = AddrOf[s]
      BY DEF Control!Fresh
    <3>2. v1[s] # "new" /\ UNCHANGED <<v1, v2, v5, v6, v7, v8, v9>>
      BY <1>3 DEF Control!Connect
    <3>3. Control!ControlledByItsClient'
      BY <2>2, <3>1, <3>2
    <3>4. Control!ClaimsAreKept'
      BY <2>2, <3>1, <3>2
    <3>5. Control!TypeOK' /\ Control!ClaimsAreClear' /\ Control!MessagesActForTheirClient'
          /\ Control!RumbleHasAPeer'
      BY <2>2, <3>1, <3>2
    <3> QED BY <3>3, <3>4, <3>5
  <2> QED BY <2>1, <2>2
<1>4. ASSUME NEW s \in ControlSessions, Control!GiveUp(s) PROVE Control!IInv'
  BY <1>4 DEF Control!GiveUp
<1>5. ASSUME NEW s \in ControlSessions, Control!Disconnect(s) PROVE Control!IInv'
  BY <1>5, ControlFinds DEF Control!Disconnect, Control!Known, Control!Stopped
<1>6. ASSUME NEW s \in ControlSessions, Control!Rumble(s) PROVE Control!IInv'
  BY <1>6 DEF Control!Rumble
<1>7. ASSUME NEW s \in ControlSessions, Control!Release(s) PROVE Control!IInv'
  BY <1>7 DEF Control!Release, Control!Stopped, Control!Cut
<1>8. ASSUME NEW s \in ControlSessions, Control!SendRumble(s) PROVE Control!IInv'
  BY <1>8 DEF Control!SendRumble
<1>9. ASSUME NEW s \in ControlSessions, NEW type \in Control!Types, Control!Receive(s, type)
      PROVE Control!IInv'
  BY <1>9, ControlFinds DEF Control!Receive, Control!Known, Control!Stopped, Control!Refused,
      Control!Verifies, Control!Types
<1>10. CASE Control!End
  BY <1>10 DEF Control!End
<1> QED
  BY <1>1, <1>2, <1>3, <1>4, <1>5, <1>6, <1>7, <1>8, <1>9, <1>10 DEF Control!Next

\* An instance counts the members of a set as we do.
LEMMA ControlCardinality == ASSUME NEW S PROVE Control!Cardinality(S) = Cardinality(S)
BY Zenon DEF Control!Cardinality, Cardinality

\* A connection that can be used has one session, and no two sessions one connection.
LEMMA ControlCounts == Control!IInv => Control!OneSessionPerConnection
<1> SUFFICES ASSUME Control!IInv
             PROVE  \A c \in ControlSessions :
                        /\ v4[c] = "up" => Cardinality(Control!Known(c)) = 1
                        /\ Cardinality({s \in ControlSessions : v3[s] = c}) <= 1
  BY ControlCardinality DEF Control!OneSessionPerConnection
<1> TAKE c \in ControlSessions
<1> USE ControlAssumption DEF Control!IInv, Control!TypeOK, Control!ClaimsAreKept
<1> DEFINE Claimed == {s \in ControlSessions : v3[s] = c}
<1>1. CASE Claimed = {}
  <2>1. v4[c] # "up"
    BY <1>1
  <2>2. Cardinality(Claimed) = 0
    BY <1>1, FS_EmptySet
  <2> QED BY <2>1, <2>2
<1>2. ASSUME NEW s \in Claimed PROVE /\ v4[c] = "up" => Cardinality(Control!Known(c)) = 1
                                    /\ Cardinality(Claimed) <= 1
  <2>1. Claimed = {s}
    BY <1>2
  <2>2. v4[c] = "up" => Control!Known(c) = {s}
    BY <1>2 DEF Control!Known
  <2>3. Cardinality({s}) = 1
    BY FS_Singleton
  <2> QED BY <2>1, <2>2, <2>3, SMTT(30)
<1> QED BY <1>1, <1>2

\* The invariant of ControlServer holds always.
LEMMA ControlInvariant == Spec => [](part = "control" => Control!IInv)
<1>1. Init => (part = "control" => Control!IInv)
  BY StartOfAPart, ControlInit
<1>2. (part = "control" => Control!IInv) /\ [Next]_vars => (part = "control" => Control!IInv)'
  <2>1. Control!IInv /\ UNCHANGED vars => Control!IInv'
    BY DEF vars, Control!IInv, Control!TypeOK, Control!ClaimsAreKept, Control!ClaimsAreClear,
      Control!ControlledByItsClient, Control!MessagesActForTheirClient, Control!RumbleHasAPeer
  <2> QED BY <2>1, StepOfAPart, ControlStep
<1> QED BY <1>1, <1>2, PTL DEF Spec

-----------------------------------------------------------------------------
(* RtspMessages: a request is handled when all of it has arrived.          *)

\* A request has not come yet, and is as long as its parts are.
LEMMA RtspInit == Rtsp!Init => Rtsp!IInv
<1> SUFFICES ASSUME Rtsp!Init PROVE Rtsp!IInv
  OBVIOUS
<1>1. v1 \in Requests /\ v2 = v1.header + v1.payload /\ v3 = "read" /\ v4 = 0 /\ v5 = 0
      /\ v6 = 0 /\ v7 = FALSE
  BY DEF Rtsp!Init
<1>2. v1.header \in Nat /\ v1.header >= Needle /\ v1.payload \in Nat /\ v1.length \in Nat
      /\ BufferSize \in Nat \ {0} /\ Needle \in Nat \ {0}
  BY <1>1, RtspAssumption
<1>b. v7 \in BOOLEAN
  BY <1>1, Zenon
<1>3. Rtsp!TypeOK
  BY <1>1, <1>2, <1>b DEF Rtsp!TypeOK
<1> QED BY <1>1, <1>2, <1>3 DEF Rtsp!IInv, Rtsp!PiecesAreCounted, Rtsp!RequestsAreHandledWhole,
      Rtsp!Arrived

\* What has arrived has the whole header: it is handled, or more must come, or it is refused.
LEMMA RtspPayload ==
    ASSUME Rtsp!IInv, NEW n \in 1 .. v2, v3 \in {"read", "payload"}, v4 + n <= BufferSize,
           v2' = v2 - n, v1.header <= v4 + n, v5' = v1.header, v1' = v1, v7' = v7,
           Rtsp!HandlePayload(v4 + n, v1.header)
    PROVE  Rtsp!IInv'
<1> DEFINE end == v4 + n
<1>1. v1.header \in Nat /\ v1.payload \in Nat /\ v1.length \in Nat /\ BufferSize \in Nat
  BY RtspAssumption DEF Rtsp!IInv, Rtsp!TypeOK
<1>2. /\ v1 \in Requests /\ v2 \in Nat /\ v4 = v1.header + v1.payload - v2 /\ v4 \in Nat
      /\ end \in 0 .. BufferSize /\ v1.header \in 0 .. BufferSize /\ v2' \in Nat
      /\ v1.header + v1.payload - v2' = end /\ v6 = 0
  BY <1>1 DEF Rtsp!IInv, Rtsp!TypeOK, Rtsp!PiecesAreCounted, Rtsp!Arrived
<1>b. v7' \in BOOLEAN
  BY Zenon DEF Rtsp!IInv, Rtsp!TypeOK
<1> USE DEF Rtsp!IInv, Rtsp!TypeOK, Rtsp!PiecesAreCounted, Rtsp!RequestsAreHandledWhole,
      Rtsp!Arrived
<1>3. CASE ~v1.parsed /\ v3' = "closed" /\ v6' = 400 /\ UNCHANGED v4
  BY <1>1, <1>2, <1>b, <1>3
<1>4. CASE end - v1.header >= v1.length /\ v3' = "handled" /\ v6' \in Rtsp!Answers /\ v4' = end
  <2>1. Rtsp!Answers \subseteq {0, 200, 400, 404, 500, 503}
    BY DEF Rtsp!Answers
  <2> QED BY <1>1, <1>2, <1>b, <1>4, <2>1
<1>5. CASE /\ ~(end - v1.header >= v1.length) /\ v4' = end
           /\ IF end = BufferSize THEN v3' = "closed" /\ v6' = 400
                                  ELSE v3' = "payload" /\ UNCHANGED v6
  BY <1>1, <1>2, <1>b, <1>5
<1> QED BY <1>3, <1>4, <1>5 DEF Rtsp!HandlePayload, Rtsp!IsComplete, Rtsp!HandleMsg, Rtsp!ReadOn

\* No step of the session breaks the invariant: one case for each handler.
LEMMA RtspStep == Rtsp!IInv /\ Rtsp!Next => Rtsp!IInv'
<1> SUFFICES ASSUME Rtsp!IInv, Rtsp!Next PROVE Rtsp!IInv'
  OBVIOUS
<1> USE RtspAssumption DEF Rtsp!IInv, Rtsp!TypeOK, Rtsp!PiecesAreCounted,
      Rtsp!RequestsAreHandledWhole, Rtsp!Arrived
<1>1. CASE Rtsp!ReadFails
  BY <1>1 DEF Rtsp!ReadFails
<1>2. ASSUME NEW n \in 1 .. BufferSize, Rtsp!HandleRead(n) PROVE Rtsp!IInv'
  <2>1. ASSUME Rtsp!Found(v4 + n), v5' = Rtsp!AfterDelimiter,
               Rtsp!HandlePayload(v4 + n, Rtsp!AfterDelimiter), UNCHANGED v7
        PROVE  Rtsp!IInv'
    <3>1. /\ v3 = "read" /\ n \in 1 .. v2 /\ v4 + n <= BufferSize /\ v2' = v2 - n
          /\ v1.header <= v4 + n /\ v5' = v1.header /\ v1' = v1 /\ v7' = v7
      BY <1>2, <2>1 DEF Rtsp!HandleRead, Rtsp!Arrives, Rtsp!Found, Rtsp!AfterDelimiter
    <3>2. Rtsp!HandlePayload(v4 + n, v1.header)
      BY <2>1 DEF Rtsp!AfterDelimiter
    <3> QED BY <3>1, <3>2, RtspPayload
  <2>2. ASSUME ~Rtsp!Found(v4 + n),
               v7' = (v7 \/ v4 + n \in (v1.header - Needle + 1) .. (v1.header - 1)),
               Rtsp!ReadOn(v4 + n, "read"), UNCHANGED v5
        PROVE  Rtsp!IInv'
    <3>1. /\ v3 = "read" /\ n \in 1 .. v2 /\ v4 + n <= BufferSize /\ v2' = v2 - n /\ v1' = v1
      BY <1>2, <2>2 DEF Rtsp!HandleRead, Rtsp!Arrives
    <3>2. /\ v1.header \in Nat /\ v1.payload \in Nat /\ v1.length \in Nat
          /\ BufferSize \in Nat /\ Needle \in Nat \ {0} /\ v2 \in Nat /\ v4 \in Nat
          /\ v4 = v1.header + v1.payload - v2
      BY <3>1, RtspAssumption
    <3>b. v7' \in BOOLEAN
      BY <2>2, Zenon
    <3>c. ~v7' => ~v7 /\ v4 + n \notin (v1.header - Needle + 1) .. (v1.header - 1)
      BY <2>2
    <3>3. ~v7' => v4 + n <= v1.header - Needle
      BY <2>2, <3>1, <3>2, <3>c DEF Rtsp!Found
    <3>4. Rtsp!PiecesAreCounted'
      BY <2>2, <3>1, <3>2, <3>3 DEF Rtsp!ReadOn
    <3>5. Rtsp!TypeOK'
      BY <2>2, <3>1, <3>2, <3>b DEF Rtsp!ReadOn
    <3>6. Rtsp!RequestsAreHandledWhole'
      BY <2>2, <3>1, <3>2, <3>3 DEF Rtsp!ReadOn
    <3> QED BY <3>4, <3>5, <3>6
  <2> QED BY <1>2, <2>1, <2>2 DEF Rtsp!HandleRead
<1>3. ASSUME NEW n \in 1 .. BufferSize, Rtsp!MorePayload(n) PROVE Rtsp!IInv'
  <2>1. /\ v3 = "payload" /\ n \in 1 .. v2 /\ v4 + n <= BufferSize /\ v2' = v2 - n
        /\ v5' = v5 /\ v1' = v1 /\ v7' = v7 /\ v5 = v1.header
    BY <1>3 DEF Rtsp!MorePayload, Rtsp!Arrives
  <2>2. Rtsp!HandlePayload(v4 + n, v1.header)
    BY <1>3, <2>1 DEF Rtsp!MorePayload
  <2>3. v1.header <= v4 + n
    <3>1. v4 \in 0 .. BufferSize /\ v1.header = v5 /\ v1.header <= v4
      BY <2>1, RtspAssumption
    <3> QED BY <2>1, <3>1
  <2> QED BY <2>1, <2>2, <2>3, RtspPayload
<1> QED BY <1>1, <1>2, <1>3 DEF Rtsp!Next

\* The invariant of RtspMessages holds always.
LEMMA RtspInvariant == Spec => [](part = "rtsp" => Rtsp!IInv)
<1>1. Init => (part = "rtsp" => Rtsp!IInv)
  BY StartOfAPart, RtspInit
<1>2. (part = "rtsp" => Rtsp!IInv) /\ [Next]_vars => (part = "rtsp" => Rtsp!IInv)'
  <2>1. Rtsp!IInv /\ UNCHANGED vars => Rtsp!IInv'
    BY DEF vars, Rtsp!IInv, Rtsp!TypeOK, Rtsp!PiecesAreCounted, Rtsp!RequestsAreHandledWhole,
      Rtsp!Arrived
  <2> QED BY <2>1, StepOfAPart, RtspStep
<1> QED BY <1>1, <1>2, PTL DEF Spec

\* The control thread acts on each message for one session, its sender's, and the RTSP
\* server on a request when it has all of it: stream.cpp, control_server_t, and rtsp.cpp,
\* handle_read(), for any number of sessions, addresses and requests.
THEOREM ControlOfSessions == Spec => []ClientsControlTheirSessions
<1>1. (part = "control" => Control!IInv) /\ (part = "rtsp" => Rtsp!IInv)
        => ClientsControlTheirSessions
  BY ControlCounts DEF ClientsControlTheirSessions, Control!IInv, Rtsp!IInv
<1> QED BY <1>1, ControlInvariant, RtspInvariant, PTL

-----------------------------------------------------------------------------
(* VideoCaptureSync: the thread lets go the sessions that wait for it.     *)

\* An instance counts the members of a set as we do.
LEMMA SyncCardinality == ASSUME NEW S PROVE Sync!Cardinality(S) = Cardinality(S)
BY Zenon DEF Sync!Cardinality, Cardinality

\* The queue keeps to its length: raise() empties it before it is exceeded.
LEMMA SyncQueueFits ==
    ASSUME NEW s \in SyncSessions, v5 \subseteq SyncSessions, Cardinality(v5) <= SyncCapacity
    PROVE  Cardinality(Sync!Queued(s)) <= SyncCapacity
<1>1. IsFiniteSet(v5) /\ Cardinality(v5) \in Nat
  BY SyncAssumption, FS_Subset, FS_CardinalityType
<1>2. Cardinality({s}) = 1
  BY FS_Singleton
<1>3. Cardinality(v5 \cup {s}) = IF s \in v5 THEN Cardinality(v5) ELSE Cardinality(v5) + 1
  BY <1>1, FS_AddElement
<1>4. CASE Cardinality(v5) = SyncCapacity
  BY <1>2, <1>4, SyncAssumption, SyncCardinality DEF Sync!Queued
<1>5. CASE Cardinality(v5) # SyncCapacity
  <2>1. Cardinality(v5) + 1 <= SyncCapacity
    BY <1>1, <1>5, SyncAssumption
  <2>2. Cardinality(v5 \cup {s}) \in Nat
    BY <1>1, FS_AddElement, FS_CardinalityType
  <2>3. Cardinality(v5 \cup {s}) <= SyncCapacity
    BY <1>1, <1>3, <2>1, <2>2, SyncAssumption
  <2> QED BY <1>5, <2>3, SyncCardinality DEF Sync!Queued
<1> QED BY <1>4, <1>5

\* So it does when the thread takes a context from it.
LEMMA SyncQueueShrinks ==
    ASSUME NEW Q, Q \subseteq v5, v5 \subseteq SyncSessions, Cardinality(v5) <= SyncCapacity
    PROVE  Cardinality(Q) <= SyncCapacity
<1>1. IsFiniteSet(v5) /\ Cardinality(v5) \in Nat
  BY SyncAssumption, FS_Subset, FS_CardinalityType
<1>2. Cardinality(Q) <= Cardinality(v5) /\ Cardinality(Q) \in Nat
  BY <1>1, FS_Subset, FS_CardinalityType
<1> QED BY <1>1, <1>2, SyncAssumption

\* An empty queue is not too long.
LEMMA SyncEmptyFits == Cardinality({}) <= SyncCapacity
BY FS_EmptySet, SyncAssumption

\* At the start nobody captures.
LEMMA SyncInit == Sync!Init => Sync!IInv
BY SyncEmptyFits, SyncCardinality DEF Sync!Init, Sync!IInv, Sync!TypeOK, Sync!ContextsAreKept,
    Sync!JoinEventIsAlive, Sync!ContextsAreVisited, Sync!WaitersAreLetGo

\* No step of a session or of the thread breaks the invariant.
LEMMA SyncStep == Sync!IInv /\ Sync!Next => Sync!IInv'
<1> SUFFICES ASSUME Sync!IInv, Sync!Next PROVE Sync!IInv'
  OBVIOUS
<1>0. v5 \subseteq SyncSessions /\ Cardinality(v5) <= SyncCapacity
  BY SyncCardinality DEF Sync!IInv, Sync!TypeOK
<1> USE <1>0, SyncCardinality DEF Sync!IInv, Sync!TypeOK, Sync!ContextsAreKept,
      Sync!JoinEventIsAlive, Sync!ContextsAreVisited, Sync!WaitersAreLetGo
<1>1. CASE Sync!PopFirst
  BY <1>1, SyncQueueShrinks DEF Sync!PopFirst
<1>2. CASE Sync!OpenDisplay
  BY <1>2 DEF Sync!OpenDisplay
<1>3. CASE Sync!MakeSessions
  BY <1>3 DEF Sync!MakeSessions
<1>4. CASE Sync!Capture
  BY <1>4 DEF Sync!Capture
<1>5. CASE Sync!TakeContext
  BY <1>5, SyncQueueShrinks DEF Sync!TakeContext, Sync!AfterFailure
<1>6. CASE Sync!Drained
  BY <1>6 DEF Sync!Drained
<1>7. CASE Sync!EndVisit
  BY <1>7 DEF Sync!EndVisit
<1>8. CASE Sync!Return
  BY <1>8, SyncEmptyFits DEF Sync!Return, Sync!LetsGo
<1>9. CASE Sync!ThreadEnds
  BY <1>9 DEF Sync!ThreadEnds
<1>10. ASSUME NEW s \in SyncSessions, Sync!Tell(s) PROVE Sync!IInv'
  BY <1>10 DEF Sync!Tell
<1>11. ASSUME NEW s \in SyncSessions, Sync!TakeRef(s) PROVE Sync!IInv'
  <2>1. v1' = [v1 EXCEPT ![s] = "raise"] /\ v1[s] = "new" /\ v4' = v4 \cup {s}
    BY <1>11 DEF Sync!TakeRef, Sync!Go
  <2>2. UNCHANGED <<v2, v3, v9, v11>>
    BY <1>11 DEF Sync!TakeRef
  <2>3. CASE v4 = {} /\ v10 = "none"
    <3>1. v10' = "pop" /\ v5' = {} /\ v6' = TRUE /\ v7' = {} /\ v8' = {}
      BY <1>11, <2>3 DEF Sync!TakeRef
    <3> QED BY <2>1, <2>2, <2>3, <3>1, SyncEmptyFits
  <2>4. CASE ~(v4 = {} /\ v10 = "none")
    <3>1. UNCHANGED <<v10, v5, v6, v7, v8>>
      BY <1>11, <2>4 DEF Sync!TakeRef
    <3> QED BY <2>1, <2>2, <3>1
  <2> QED BY <2>3, <2>4
<1>12. ASSUME NEW s \in SyncSessions, Sync!RaiseContext(s) PROVE Sync!IInv'
  <2>1. Cardinality(v5') <= SyncCapacity
    BY <1>12, SyncQueueFits DEF Sync!RaiseContext
  <2>2. v5' \subseteq v5 \cup {s} /\ (v6 => s \in v5')
    BY <1>12 DEF Sync!RaiseContext, Sync!Queued
  <2> QED BY <1>12, <2>1, <2>2 DEF Sync!RaiseContext, Sync!Go
<1>13. ASSUME NEW s \in SyncSessions, Sync!View(s) PROVE Sync!IInv'
  BY <1>13 DEF Sync!View, Sync!Go
<1>14. ASSUME NEW s \in SyncSessions, Sync!Release(s) PROVE Sync!IInv'
  BY <1>14 DEF Sync!Release, Sync!Go
<1>15. ASSUME NEW s \in SyncSessions, Sync!Visit(s) PROVE Sync!IInv'
  BY <1>15 DEF Sync!Visit, Sync!Erased
<1> QED
  BY <1>1, <1>2, <1>3, <1>4, <1>5, <1>6, <1>7, <1>8, <1>9, <1>10, <1>11, <1>12, <1>13, <1>14,
    <1>15 DEF Sync!Next

\* The thread that encodes for all sessions holds no context of a session that went on,
\* visits every context, and leaves nobody waiting that it knows of: video.cpp,
\* captureThreadSync(), for any number of sessions and any length of their queue.
THEOREM SyncServes == Spec => []SyncSessionsAreServed
<1> DEFINE Inv == part = "sync" => Sync!IInv
<1>1. Init => Inv
  BY StartOfAPart, SyncInit
<1>2. Inv /\ [Next]_vars => Inv'
  <2>1. Sync!IInv /\ UNCHANGED vars => Sync!IInv'
    BY DEF vars, Sync!IInv, Sync!TypeOK, Sync!ContextsAreKept,
      Sync!JoinEventIsAlive, Sync!ContextsAreVisited, Sync!WaitersAreLetGo
  <2> QED BY <2>1, StepOfAPart, SyncStep
<1>3. Inv => SyncSessionsAreServed
  BY DEF SyncSessionsAreServed, Sync!IInv
<1> QED BY <1>1, <1>2, <1>3, PTL DEF Spec

-----------------------------------------------------------------------------
(* SafeQueue: values come out in order, and no wake-up is lost.            *)

QueueInv == Queue!TypeOK /\ Queue!SleepIsSafe /\ Queue!NewestInOrder

\* A queue is empty at first, and nobody sleeps on it.
LEMMA QueueInit == Queue!Init => QueueInv
<1> SUFFICES ASSUME Queue!Init PROVE QueueInv
  OBVIOUS
<1>1. v1 \in Nat \ {0} /\ v1 \in Limits /\ MaxRaised \in Nat
  BY QueueAssumption DEF Queue!Init
<1>b. v3 \in BOOLEAN
  BY Zenon DEF Queue!Init
<1>2. Queue!TypeOK
  BY <1>1, <1>b DEF Queue!Init, Queue!TypeOK
<1> QED BY <1>2 DEF Queue!Init, QueueInv, Queue!SleepIsSafe, Queue!NewestInOrder

\* The values of the queue, as facts about each of its places.
LEMMA QueueHolds ==
    ASSUME QueueInv
    PROVE  /\ v1 \in Nat \ {0} /\ v7 \in Nat /\ v8 \in Nat /\ v8 <= v7 /\ Len(v2) \in Nat
           /\ \A i \in 1 .. Len(v2) : v2[i] \in 1 .. v7
           /\ v2 # <<>> => Len(v2) >= 1 /\ Head(v2) = v2[1] /\ v2[1] > v8
BY QueueAssumption DEF QueueInv, Queue!TypeOK, Queue!NewestInOrder

\* raise() adds the newest value, and wakes who sleeps.
LEMMA QueueRaise == QueueInv /\ Queue!Raise => QueueInv'
<1> SUFFICES ASSUME QueueInv, Queue!Raise PROVE QueueInv'
  OBVIOUS
<1>0. /\ v1 \in Nat \ {0} /\ v7 \in Nat /\ v8 \in Nat /\ v8 <= v7 /\ Len(v2) \in Nat
      /\ v2 \in Seq(1 .. v7) /\ Len(v2) <= v1 /\ v7' = v7 + 1 /\ v7' \in 0 .. MaxRaised
  BY QueueHolds, QueueAssumption DEF QueueInv, Queue!TypeOK, Queue!Raise
<1>b. (v3 \in BOOLEAN)'
  BY Zenon DEF QueueInv, Queue!TypeOK, Queue!Raise
<1>1. v2 \in Seq(1 .. v7')
  <2>1. 1 .. v7 \subseteq 1 .. v7'
    BY <1>0
  <2> QED BY <1>0, <2>1
<1>2. v6 \in [Waiters -> 0 .. v7'] /\ v8 \in 0 .. v7'
  BY <1>0 DEF QueueInv, Queue!TypeOK
<1>3. CASE v3 /\ Len(v2) = v1
  <2>1. v2' = <<v7'>> /\ v4' = {}
    BY <1>0, <1>3 DEF Queue!Raise, Queue!Added, Queue!Woken
  <2>2. v2' \in Seq(1 .. v7') /\ Len(v2') = 1
    BY <1>0, <2>1
  <2> QED BY <1>0, <1>b, <1>2, <1>3, <2>1, <2>2 DEF QueueInv, Queue!TypeOK, Queue!SleepIsSafe,
        Queue!NewestInOrder, Queue!Raise, Queue!Calls
<1>4. CASE v3 /\ Len(v2) # v1
  <2>1. v2' = Append(v2, v7') /\ v4' = {}
    BY <1>0, <1>4 DEF Queue!Raise, Queue!Added, Queue!Woken
  <2>2. v2' \in Seq(1 .. v7') /\ Len(v2') = Len(v2) + 1
    BY <1>0, <1>1, <2>1
  <2>3. Queue!NewestInOrder'
    BY <1>0, <1>4, <2>1, <2>2, SMTT(30) DEF QueueInv, Queue!TypeOK, Queue!NewestInOrder, Queue!Raise
  <2> QED BY <1>0, <1>b, <1>2, <1>4, <2>1, <2>2, <2>3 DEF QueueInv, Queue!TypeOK,
        Queue!SleepIsSafe, Queue!Raise, Queue!Calls
<1>5. CASE ~v3
  BY <1>0, <1>b, <1>1, <1>2, <1>5 DEF QueueInv, Queue!TypeOK, Queue!SleepIsSafe,
        Queue!NewestInOrder, Queue!Raise, Queue!Calls
<1> QED BY <1>3, <1>4, <1>5

\* Who is given a value has the oldest one, which is newer than those given before.
LEMMA QueueGive ==
    ASSUME QueueInv, NEW w \in Waiters, Queue!Give(w)
    PROVE  QueueInv' /\ v8' >= v8
<1>0. /\ v1 \in Nat \ {0} /\ v7 \in Nat /\ v8 \in Nat /\ v8 <= v7 /\ Len(v2) \in Nat
      /\ v2 \in Seq(1 .. v7) /\ v2 # <<>> /\ v2[1] \in 1 .. v7 /\ Head(v2) = v2[1] /\ v2[1] > v8
      /\ Len(v2) >= 1 /\ Len(v2) <= v1
  BY QueueHolds DEF QueueInv, Queue!TypeOK, Queue!Give, Queue!Gives
<1>b. (v3 \in BOOLEAN)'
  BY Zenon DEF QueueInv, Queue!TypeOK, Queue!Give
<1>1. /\ v5' = [v5 EXCEPT ![w] = "none"] /\ v6' = [v6 EXCEPT ![w] = v2[1]]
      /\ UNCHANGED <<v1, v3, v4, v7>>
  BY <1>0 DEF Queue!Give, Queue!Returns
<1>2. v6' \in [Waiters -> 0 .. v7]
  BY <1>0, <1>1 DEF QueueInv, Queue!TypeOK
<1>3. CASE v5[w] = "view"
  <2>1. v2' = v2 /\ v8' = v8
    BY <1>3 DEF Queue!Give, Queue!Rest
  <2> QED BY <1>0, <1>b, <1>1, <1>2, <2>1 DEF QueueInv, Queue!TypeOK, Queue!SleepIsSafe,
        Queue!NewestInOrder, Queue!Calls
<1>4. CASE v5[w] # "view"
  <2>1. v2' = Tail(v2) /\ v8' = v2[1]
    BY <1>0, <1>4 DEF Queue!Give, Queue!Rest
  <2>2. /\ v2' \in Seq(1 .. v7) /\ Len(v2') = Len(v2) - 1
        /\ \A i \in 1 .. Len(v2') : v2'[i] = v2[i + 1]
    BY <1>0, <2>1
  <2>3. Queue!NewestInOrder'
    <3>1. \A i \in 1 .. (Len(v2') - 1) : v2'[i + 1] = v2'[i] + 1
      <4> TAKE i \in 1 .. (Len(v2') - 1)
      <4>1. i \in 1 .. Len(v2') /\ i + 1 \in 1 .. Len(v2') /\ i + 1 \in 1 .. (Len(v2) - 1)
        BY <1>0, <2>2
      <4>2. v2'[i] = v2[i + 1] /\ v2'[i + 1] = v2[(i + 1) + 1]
        BY <2>2, <4>1
      <4>3. v2[(i + 1) + 1] = v2[i + 1] + 1
        BY <4>1 DEF QueueInv, Queue!NewestInOrder
      <4> QED BY <4>2, <4>3
    <3>2. v2' # <<>> => v2'[1] > v8'
      <4> SUFFICES ASSUME v2' # <<>> PROVE v2'[1] > v8'
        OBVIOUS
      <4>1. Len(v2') >= 1
        BY <2>2
      <4>2. v2'[1] = v2[2] /\ v2[2] = v2[1] + 1
        BY <1>0, <2>2, <4>1 DEF QueueInv, Queue!NewestInOrder
      <4> QED BY <1>0, <2>1, <4>2
    <3>3. v2' # <<>> /\ v3' => v2'[Len(v2')] = v7'
      <4> SUFFICES ASSUME v2' # <<>>, v3' PROVE v2'[Len(v2')] = v7'
        OBVIOUS
      <4>1. Len(v2') >= 1 /\ Len(v2') \in 1 .. Len(v2') /\ v2'[Len(v2')] = v2[Len(v2)]
        BY <1>0, <2>2
      <4> QED BY <1>0, <1>1, <4>1 DEF QueueInv, Queue!NewestInOrder
    <3> QED BY <3>1, <3>2, <3>3 DEF Queue!NewestInOrder
  <2>4. (v4 # {} => v2 = <<>> /\ v3)'
    BY <1>0, <1>1 DEF QueueInv, Queue!SleepIsSafe
  <2> QED BY <1>0, <1>b, <1>1, <1>2, <2>1, <2>2, <2>3, <2>4 DEF QueueInv, Queue!TypeOK,
        Queue!SleepIsSafe, Queue!Calls
<1> QED BY <1>3, <1>4

\* What is popped comes after what was popped before.
LEMMA QueueStep == QueueInv /\ Queue!Next => QueueInv' /\ v8' >= v8
<1> SUFFICES ASSUME QueueInv, Queue!Next PROVE QueueInv' /\ v8' >= v8
  OBVIOUS
<1>0. v8 \in Nat
  BY QueueHolds
<1>1. CASE Queue!Raise
  BY <1>0, <1>1, QueueRaise DEF Queue!Raise
<1>2. ASSUME NEW w \in Waiters, Queue!Give(w) PROVE QueueInv' /\ v8' >= v8
  BY <1>2, QueueGive
<1> DEFINE Others ==
      Queue!Stop \/ Queue!Reset \/ \E w \in Waiters :
        \/ \E c \in Queue!Calls : Queue!Call(w, c)
        \/ Queue!GiveUp(w) \/ Queue!Sleep(w) \/ Queue!Timeout(w) \/ Queue!WakeUp(w)
<1>b. Others => (v3 \in BOOLEAN)'
  BY Zenon DEF QueueInv, Queue!TypeOK, Queue!Stop, Queue!Reset, Queue!Call, Queue!GiveUp,
    Queue!Sleep, Queue!Timeout, Queue!WakeUp
<1> USE <1>0 DEF QueueInv, Queue!TypeOK, Queue!SleepIsSafe, Queue!NewestInOrder, Queue!Calls
<1>3. CASE Queue!Stop
  BY <1>3, <1>b DEF Queue!Stop, Queue!WokenByStop
<1>4. CASE Queue!Reset
  <2>1. <<>> \in Seq(1 .. v7) /\ Len(<<>>) = 0 /\ v1 \in Nat
    BY QueueHolds
  <2> QED BY <1>4, <1>b, <2>1 DEF Queue!Reset
<1>5. ASSUME NEW w \in Waiters, NEW c \in Queue!Calls, Queue!Call(w, c)
      PROVE  QueueInv' /\ v8' >= v8
  <2>1. /\ v5' = [v5 EXCEPT ![w] = c] \/ v5' = v5
        /\ v6' = [v6 EXCEPT ![w] = 0] \/ v6' = v6
        /\ UNCHANGED <<v1, v2, v3, v4, v7, v8>>
    BY <1>5 DEF Queue!Call
  <2>2. v7 \in Nat /\ v6' \in [Waiters -> 0 .. v7]
    BY <2>1, QueueHolds
  <2>3. v5' \in [Waiters -> Queue!Calls \cup {"none"}]
    BY <2>1
  <2>4. Queue!TypeOK'
    BY <1>5, <1>b, <2>1, <2>2, <2>3
  <2>5. Queue!SleepIsSafe' /\ Queue!NewestInOrder' /\ v8' >= v8
    BY <2>1
  <2> QED BY <2>4, <2>5
<1>6. ASSUME NEW w \in Waiters, Queue!GiveUp(w) PROVE QueueInv' /\ v8' >= v8
  BY <1>6, <1>b DEF Queue!GiveUp, Queue!Returns
<1>7. ASSUME NEW w \in Waiters, Queue!Sleep(w) PROVE QueueInv' /\ v8' >= v8
  BY <1>7, <1>b DEF Queue!Sleep, Queue!Gives, Queue!GivesUp
<1>8. ASSUME NEW w \in Waiters, Queue!Timeout(w) PROVE QueueInv' /\ v8' >= v8
  BY <1>8, <1>b DEF Queue!Timeout, Queue!Returns
<1>9. ASSUME NEW w \in Waiters, Queue!WakeUp(w) PROVE QueueInv' /\ v8' >= v8
  BY <1>9, <1>b DEF Queue!WakeUp
<1> QED BY <1>1, <1>2, <1>3, <1>4, <1>5, <1>6, <1>7, <1>8, <1>9 DEF Queue!Next

\* The invariant of SafeQueue holds always.
LEMMA QueueInvariant == Spec => [](part = "queue" => QueueInv)
<1>1. Init => (part = "queue" => QueueInv)
  BY StartOfAPart, QueueInit
<1>2. (part = "queue" => QueueInv) /\ [Next]_vars => (part = "queue" => QueueInv)'
  <2>1. QueueInv /\ UNCHANGED vars => QueueInv'
    BY DEF vars, QueueInv, Queue!TypeOK, Queue!SleepIsSafe, Queue!NewestInOrder, Queue!Calls
  <2> QED BY <2>1, StepOfAPart, QueueStep
<1> QED BY <1>1, <1>2, PTL DEF Spec

-----------------------------------------------------------------------------
(* Mail: one post for all who ask for a name.                              *)

\* Some natural numbers have a least one.
LEMMA LeastElement ==
    ASSUME NEW S, S \subseteq Nat, S # {}
    PROVE  \E i \in S : \A j \in S : i <= j
<1>1. IsWellFoundedOn(OpToRel(<, Nat), Nat)
  BY NatLessThanWellFounded
<1>2. PICK i \in S : \A j \in S : ~(<<j, i>> \in OpToRel(<, Nat))
  BY <1>1, WFMin, Zenon
<1>3. \A j \in S : ~(j < i)
  BY <1>2, Zenon DEF OpToRel
<1> QED BY <1>3

\* An instance counts the members of a set as we do.
LEMMA MailCardinality == ASSUME NEW S PROVE Mailbox!Cardinality(S) = Cardinality(S)
BY Zenon DEF Mailbox!Cardinality, Cardinality

\* The names whose entry has expired.
Expired == {id \in Mailbox!Names : Mailbox!Expired(v1[id])}

\* The first of some names is one of them.
LEMMA MailFirst ==
    ASSUME NEW S, S \subseteq Mailbox!Names
    PROVE  /\ Mailbox!FirstOf(S) \subseteq S
           /\ S # {} => Mailbox!FirstOf(S) # {}
<1> DEFINE Places == {j \in DOMAIN MailIds : MailIds[j] \in S}
<1>1. DOMAIN MailIds = 1 .. Len(MailIds) /\ Len(MailIds) \in Nat
  BY MailAssumption
<1>2. Mailbox!FirstOf(S) \subseteq S
  BY DEF Mailbox!FirstOf
<1>3. ASSUME S # {} PROVE Mailbox!FirstOf(S) # {}
  <2>1. Places # {} /\ Places \subseteq Nat
    BY <1>1, <1>3 DEF Mailbox!Names
  <2> HIDE DEF Places
  <2>2. PICK i \in Places : \A j \in Places : i <= j
    BY <2>1, LeastElement
  <2>3. i \in 1 .. Len(MailIds) /\ i \in DOMAIN MailIds /\ MailIds[i] \in S
    BY <1>1, <2>2 DEF Places
  <2>4. \A k \in 1 .. (i - 1) : MailIds[k] \notin S
    <3> TAKE k \in 1 .. (i - 1)
    <3>1. k \in DOMAIN MailIds /\ ~(i <= k)
      BY <1>1, <2>3
    <3> QED BY <2>2, <3>1 DEF Places
  <2>5. MailIds[i] \in Mailbox!FirstOf(S)
    BY <2>3, <2>4 DEF Mailbox!FirstOf
  <2> QED BY <2>5
<1> QED BY <1>2, <1>3

\* There are finitely many names, and posts that are being destroyed.
LEMMA MailFinite ==
    ASSUME Mailbox!TypeOK
    PROVE  IsFiniteSet(Mailbox!Names) /\ IsFiniteSet(Expired) /\ IsFiniteSet(v3)
<1> DEFINE f == [i \in 1 .. Len(MailIds) |-> MailIds[i]]
<1>1. f \in Surjection(1 .. Len(MailIds), Mailbox!Names)
  BY MailAssumption DEF Surjection, Mailbox!Names
<1>2. IsFiniteSet(1 .. Len(MailIds))
  BY MailAssumption, FS_Interval
<1>3. IsFiniteSet(Mailbox!Names)
  BY <1>1, <1>2, FS_Surjection
<1>4. Expired \subseteq Mailbox!Names
  BY DEF Expired
<1>5. Len(v4) \in Nat /\ v3 \subseteq 1 .. Len(v4)
  BY DEF Mailbox!TypeOK, Mailbox!Posts
<1>6. IsFiniteSet(1 .. Len(v4))
  BY <1>5, FS_Interval
<1> QED BY <1>3, <1>4, <1>5, <1>6, FS_Subset

\* There are as many destructors as entries that have expired, in the terms used here.
LEMMA MailExpires ==
    Mailbox!ExpiredEntriesAreErased <=> Cardinality(Expired) <= Cardinality(v3)
BY MailCardinality, Zenon DEF Mailbox!ExpiredEntriesAreErased, Expired

\* A mailbox is empty at first.
LEMMA MailInit == Mailbox!Init => Mailbox!IInv
<1> SUFFICES ASSUME Mailbox!Init PROVE Mailbox!IInv
  OBVIOUS
<1>1. Mailbox!TypeOK
  BY MailAssumption DEF Mailbox!Init, Mailbox!TypeOK, Mailbox!Posts
<1>2. Expired = {} /\ v3 = {}
  BY DEF Mailbox!Init, Expired, Mailbox!Expired, Mailbox!Posts
<1>3. Mailbox!ExpiredEntriesAreErased
  BY <1>2, FS_EmptySet, MailExpires
<1> QED BY <1>1, <1>3 DEF Mailbox!Init, Mailbox!IInv, Mailbox!EntriesAreNamed,
      Mailbox!OnePostPerName

\* What the invariant says of each entry and of each user.
LEMMA MailHolds ==
    ASSUME Mailbox!IInv
    PROVE  /\ Len(v4) \in Nat /\ Mailbox!Posts = 1 .. Len(v4) /\ Nil \notin Mailbox!Posts
           /\ \A p \in Mailbox!Posts : v4[p] \in Mailbox!Names
           /\ \A id \in Mailbox!Names :
                /\ v1[id] \in Mailbox!Posts \cup {Nil}
                /\ v1[id] # Nil => v1[id] \in Mailbox!Posts /\ v4[v1[id]] = id
           /\ \A u \in MailUsers : v2[u] # Nil =>
                /\ v2[u] \in Mailbox!Posts /\ v1[v4[v2[u]]] = v2[u] /\ v2[u] \notin v3
           /\ v3 \subseteq Mailbox!Posts
BY MailAssumption DEF Mailbox!IInv, Mailbox!TypeOK, Mailbox!EntriesAreNamed,
    Mailbox!OnePostPerName, Mailbox!Posts, Mailbox!Holders

\* No entry expires that had not: what remains is finite, and no larger.
LEMMA MailStays ==
    ASSUME Mailbox!IInv, Mailbox!TypeOK', Expired' \subseteq Expired, v3' = v3
    PROVE  Mailbox!ExpiredEntriesAreErased'
<1>1. IsFiniteSet(Expired) /\ IsFiniteSet(v3)
  BY MailFinite DEF Mailbox!IInv
<1>2. Cardinality(Expired') <= Cardinality(Expired) /\ Cardinality(Expired) \in Nat
      /\ Cardinality(Expired') \in Nat /\ Cardinality(v3) \in Nat
  BY <1>1, FS_Subset, FS_CardinalityType
<1>3. Cardinality(Expired) <= Cardinality(v3)
  BY MailExpires DEF Mailbox!IInv
<1>4. Cardinality(Expired') <= Cardinality(v3')
  BY <1>2, <1>3
<1>5. Mailbox!ExpiredEntriesAreErased' <=> Cardinality(Expired') <= Cardinality(v3')
  BY MailCardinality, Zenon DEF Mailbox!ExpiredEntriesAreErased, Expired
<1> QED BY <1>4, <1>5

\* A post that is created is held by who asked for it, and its entry is not expired.
LEMMA MailCreate ==
    ASSUME Mailbox!IInv, NEW u \in MailUsers, NEW id \in Mailbox!Names, Mailbox!Create(u, id)
    PROVE  Mailbox!IInv'
<1> DEFINE n == Len(v4) + 1
<1>1. /\ Len(v4) \in Nat /\ n \notin 1 .. Len(v4) /\ n # Nil /\ Len(v4) < MaxPosts
      /\ v4 \in Seq(Mailbox!Names)
  BY MailHolds, MailAssumption DEF Mailbox!Create, Mailbox!IInv, Mailbox!TypeOK
<1>2. /\ v4' = Append(v4, id) /\ Len(v4') = n /\ v4' \in Seq(Mailbox!Names)
      /\ Mailbox!Posts' = 1 .. n /\ v4'[n] = id
      /\ \A p \in 1 .. Len(v4) : v4'[p] = v4[p]
  BY <1>1 DEF Mailbox!Create, Mailbox!Posts
<1>3. /\ v1' = [v1 EXCEPT ![id] = n] /\ v2' = [v2 EXCEPT ![u] = n] /\ v3' = v3
      /\ v5' = v5 \ {u} /\ v2[u] = Nil /\ v1[id] = Nil
  BY <1>2 DEF Mailbox!Create, Mailbox!IsMissing
<1>4. Mailbox!Posts \subseteq Mailbox!Posts' /\ n \in Mailbox!Posts' /\ Len(v4') <= MaxPosts
  BY <1>1, <1>2, MailHolds, MailAssumption
<1>5. Mailbox!TypeOK'
  BY <1>2, <1>3, <1>4 DEF Mailbox!IInv, Mailbox!TypeOK
<1>6. Mailbox!EntriesAreNamed'
  <2>1. ASSUME NEW d \in Mailbox!Names, v1'[d] # Nil PROVE v4'[v1'[d]] = d
    BY <1>1, <1>2, <1>3, <2>1, MailHolds DEF Mailbox!IInv, Mailbox!TypeOK
  <2>2. ASSUME NEW p \in v3, NEW w \in MailUsers PROVE v2'[w] # p
    BY <1>1, <1>3, MailHolds DEF Mailbox!IInv, Mailbox!TypeOK
  <2> QED BY <1>3, <2>1, <2>2 DEF Mailbox!EntriesAreNamed, Mailbox!Holders
<1>7. Mailbox!OnePostPerName'
  <2> SUFFICES ASSUME NEW w \in MailUsers, v2'[w] # Nil PROVE v1'[v4'[v2'[w]]] = v2'[w]
    BY DEF Mailbox!OnePostPerName
  <2>1. CASE w = u
    BY <1>2, <1>3, <2>1 DEF Mailbox!IInv, Mailbox!TypeOK
  <2>2. CASE w # u
    <3>1. v2'[w] = v2[w] /\ v2[w] \in 1 .. Len(v4) /\ v4'[v2[w]] = v4[v2[w]]
      BY <1>2, <1>3, <2>2, MailHolds DEF Mailbox!IInv, Mailbox!TypeOK
    <3>2. v1[v4[v2[w]]] = v2[w] /\ v4[v2[w]] \in Mailbox!Names /\ v4[v2[w]] # id
      BY <1>1, <1>3, <3>1, MailHolds
    <3> QED BY <1>3, <3>1, <3>2 DEF Mailbox!IInv, Mailbox!TypeOK
  <2> QED BY <2>1, <2>2
<1>8. Expired' \subseteq Expired
  <2> SUFFICES ASSUME NEW d \in Mailbox!Names, Mailbox!Expired(v1[d])' PROVE Mailbox!Expired(v1[d])
    BY DEF Expired
  <2>1. v1'[d] \in Mailbox!Posts' /\ \A w \in MailUsers : v2'[w] # v1'[d]
    BY DEF Mailbox!Expired, Mailbox!Holders
  <2>2. d # id
    BY <1>3, <2>1 DEF Mailbox!IInv, Mailbox!TypeOK
  <2>3. v1'[d] = v1[d] /\ v1[d] \in Mailbox!Posts
    BY <1>2, <1>3, <1>4, <2>1, <2>2, MailHolds, MailAssumption DEF Mailbox!IInv, Mailbox!TypeOK
  <2>4. \A w \in MailUsers : v2[w] # v1[d]
    BY <1>3, <2>1, <2>3, MailHolds DEF Mailbox!IInv, Mailbox!TypeOK
  <2> QED BY <2>3, <2>4 DEF Mailbox!Expired, Mailbox!Holders
<1> QED BY <1>3, <1>5, <1>6, <1>7, <1>8, MailStays DEF Mailbox!IInv

\* A post that is found is held by one more, or was missing because it is dying.
LEMMA MailFind ==
    ASSUME Mailbox!IInv, NEW u \in MailUsers, NEW id \in Mailbox!Names, Mailbox!Find(u, id)
    PROVE  Mailbox!IInv'
<1>1. /\ v1' = v1 /\ v3' = v3 /\ v4' = v4 /\ v2[u] = Nil /\ v1[id] # Nil
      /\ v2' = [v2 EXCEPT ![u] = Mailbox!Locked(id)] /\ v5' \subseteq v5 \cup {u}
      /\ Mailbox!Posts' = Mailbox!Posts
  BY DEF Mailbox!Find, Mailbox!IsMissing, Mailbox!Posts
<1>2. \/ Mailbox!Locked(id) = Nil
      \/ Mailbox!Locked(id) = v1[id] /\ v1[id] \in Mailbox!Posts /\ v1[id] \notin v3
  <2>1. CASE Mailbox!Expired(v1[id])
    BY <2>1 DEF Mailbox!Locked
  <2>2. CASE ~Mailbox!Expired(v1[id])
    <3>1. v1[id] \in Mailbox!Posts
      BY <1>1, MailHolds
    <3>2. v1[id] \notin v3
      BY <2>2, <3>1 DEF Mailbox!Expired, Mailbox!IInv, Mailbox!EntriesAreNamed
    <3> QED BY <2>2, <3>1, <3>2 DEF Mailbox!Locked
  <2> QED BY <2>1, <2>2
<1>3. Mailbox!TypeOK'
  BY <1>1, <1>2 DEF Mailbox!IInv, Mailbox!TypeOK
<1>4. Mailbox!EntriesAreNamed'
  BY <1>1, <1>2, MailHolds DEF Mailbox!IInv, Mailbox!TypeOK, Mailbox!EntriesAreNamed,
    Mailbox!Holders
<1>5. Mailbox!OnePostPerName'
  BY <1>1, <1>2, MailHolds DEF Mailbox!IInv, Mailbox!TypeOK, Mailbox!OnePostPerName
<1>6. Expired' \subseteq Expired
  <2> SUFFICES ASSUME NEW d \in Mailbox!Names, Mailbox!Expired(v1[d])' PROVE Mailbox!Expired(v1[d])
    BY DEF Expired
  <2>1. v1[d] \in Mailbox!Posts /\ \A w \in MailUsers : v2'[w] # v1[d]
    BY <1>1 DEF Mailbox!Expired, Mailbox!Holders
  <2>2. \A w \in MailUsers : v2[w] # v1[d]
    BY <1>1, <2>1, MailHolds DEF Mailbox!IInv, Mailbox!TypeOK
  <2> QED BY <2>1, <2>2 DEF Mailbox!Expired, Mailbox!Holders
<1> QED BY <1>1, <1>3, <1>4, <1>5, <1>6, MailStays DEF Mailbox!IInv

\* The last reference to a post expires its entry, and the destructor is counted for it.
LEMMA MailDrop ==
    ASSUME Mailbox!IInv, NEW u \in MailUsers, Mailbox!Drop(u)
    PROVE  Mailbox!IInv'
<1> DEFINE p == v2[u]
<1>1. /\ v1' = v1 /\ v4' = v4 /\ v5' = v5 /\ p # Nil /\ v2' = [v2 EXCEPT ![u] = Nil]
      /\ v3' = IF Mailbox!Holders(p) = {u} THEN v3 \cup {p} ELSE v3
      /\ Mailbox!Posts' = Mailbox!Posts
  BY DEF Mailbox!Drop, Mailbox!Posts
<1>2. p \in Mailbox!Posts /\ p \notin v3 /\ v1[v4[p]] = p /\ Nil \notin Mailbox!Posts
  BY <1>1, MailHolds
<1>3. Mailbox!TypeOK'
  BY <1>1, <1>2 DEF Mailbox!IInv, Mailbox!TypeOK
<1>4. Mailbox!EntriesAreNamed'
  <2>1. ASSUME NEW q \in v3', NEW w \in MailUsers PROVE v2'[w] # q
    <3>1. CASE q \in v3
      BY <1>1, <1>2, <3>1, MailHolds DEF Mailbox!IInv, Mailbox!TypeOK
    <3>2. CASE q \notin v3
      <4>1. q = p /\ Mailbox!Holders(p) = {u}
        BY <1>1, <3>2
      <4>2. w # u => v2[w] # p
        BY <4>1 DEF Mailbox!Holders
      <4> QED BY <1>1, <1>2, <4>1, <4>2 DEF Mailbox!IInv, Mailbox!TypeOK
    <3> QED BY <3>1, <3>2
  <2> QED BY <1>1, <2>1 DEF Mailbox!IInv, Mailbox!EntriesAreNamed, Mailbox!Holders
<1>5. Mailbox!OnePostPerName'
  BY <1>1 DEF Mailbox!IInv, Mailbox!TypeOK, Mailbox!OnePostPerName
<1>6. Expired' \subseteq Expired \cup {v4[p]}
  <2> SUFFICES ASSUME NEW d \in Mailbox!Names, Mailbox!Expired(v1[d])', d # v4[p]
               PROVE  Mailbox!Expired(v1[d])
    BY DEF Expired
  <2>1. v1[d] \in Mailbox!Posts /\ \A w \in MailUsers : v2'[w] # v1[d]
    BY <1>1 DEF Mailbox!Expired, Mailbox!Holders
  <2>2. v1[d] # p
    BY <2>1, <1>2, MailHolds
  <2>3. \A w \in MailUsers : v2[w] # v1[d]
    BY <1>1, <2>1, <2>2 DEF Mailbox!IInv, Mailbox!TypeOK
  <2> QED BY <2>1, <2>3 DEF Mailbox!Expired, Mailbox!Holders
<1>7. CASE Mailbox!Holders(p) = {u}
  <2>1. IsFiniteSet(Expired) /\ IsFiniteSet(v3) /\ IsFiniteSet(v3')
    BY <1>1, <1>7, MailFinite, FS_AddElement DEF Mailbox!IInv
  <2>2. Cardinality(v3') = Cardinality(v3) + 1 /\ Cardinality(v3) \in Nat
    BY <1>1, <1>2, <1>7, <2>1, FS_AddElement, FS_CardinalityType
  <2>3. /\ IsFiniteSet(Expired \cup {v4[p]}) /\ Cardinality(Expired) \in Nat
        /\ Cardinality(Expired \cup {v4[p]}) =
             IF v4[p] \in Expired THEN Cardinality(Expired) ELSE Cardinality(Expired) + 1
    BY <2>1, FS_AddElement, FS_CardinalityType
  <2>4. IsFiniteSet(Expired') /\ Cardinality(Expired') <= Cardinality(Expired \cup {v4[p]})
    BY <1>6, <2>3, FS_Subset
  <2>5. Cardinality(Expired') \in Nat
    BY <2>4, FS_CardinalityType
  <2>6. Cardinality(Expired) <= Cardinality(v3)
    BY MailExpires DEF Mailbox!IInv
  <2>7. Cardinality(Expired') <= Cardinality(v3')
    BY <2>2, <2>3, <2>4, <2>5, <2>6
  <2>8. Mailbox!ExpiredEntriesAreErased' <=> Cardinality(Expired') <= Cardinality(v3')
    BY MailCardinality, Zenon DEF Mailbox!ExpiredEntriesAreErased, Expired
  <2> QED BY <1>3, <1>4, <1>5, <2>7, <2>8 DEF Mailbox!IInv
<1>8. CASE Mailbox!Holders(p) # {u}
  <2>1. PICK w \in MailUsers : w # u /\ v2[w] = p
    BY <1>8 DEF Mailbox!Holders
  <2>2. v2'[w] = p
    BY <1>1, <2>1 DEF Mailbox!IInv, Mailbox!TypeOK
  <2>3. v4[p] \notin Expired'
    <3>1. v1'[v4[p]] = p
      BY <1>1, <1>2
    <3> QED BY <2>2, <3>1 DEF Expired, Mailbox!Expired, Mailbox!Holders
  <2>4. Expired' \subseteq Expired /\ v3' = v3
    BY <1>1, <1>6, <1>8, <2>3
  <2> QED BY <1>3, <1>4, <1>5, <2>4, MailStays DEF Mailbox!IInv
<1> QED BY <1>7, <1>8

\* A destructor erases an expired entry if there is one, its own or that of another.
LEMMA MailCleanup ==
    ASSUME Mailbox!IInv, NEW p \in Mailbox!Posts, Mailbox!Cleanup(p)
    PROVE  Mailbox!IInv'
<1> DEFINE first == Mailbox!FirstOf(Expired)
<1>1. /\ v2' = v2 /\ v4' = v4 /\ v5' = v5 /\ p \in v3 /\ v3' = v3 \ {p}
      /\ v1' = [id \in Mailbox!Names |-> IF id \in first THEN Nil ELSE v1[id]]
      /\ Mailbox!Posts' = Mailbox!Posts
  BY DEF Mailbox!Cleanup, Mailbox!Erased, Mailbox!Posts, Expired
<1>2. first \subseteq Expired /\ (Expired # {} => first # {})
  <2>1. Expired \subseteq Mailbox!Names
    BY DEF Expired
  <2> QED BY <2>1, MailFirst
<1> HIDE DEF first
<1>3. Mailbox!TypeOK'
  BY <1>1 DEF Mailbox!IInv, Mailbox!TypeOK
<1>4. Mailbox!EntriesAreNamed'
  BY <1>1, MailHolds DEF Mailbox!IInv, Mailbox!EntriesAreNamed, Mailbox!Holders
<1>5. Mailbox!OnePostPerName'
  <2> SUFFICES ASSUME NEW w \in MailUsers, v2[w] # Nil PROVE v1'[v4[v2[w]]] = v2[w]
    BY <1>1 DEF Mailbox!OnePostPerName
  <2>1. v2[w] \in Mailbox!Posts /\ v1[v4[v2[w]]] = v2[w] /\ v4[v2[w]] \in Mailbox!Names
    BY MailHolds
  <2>2. v4[v2[w]] \notin Expired
    BY <2>1 DEF Expired, Mailbox!Expired, Mailbox!Holders
  <2> QED BY <1>1, <1>2, <2>1, <2>2
<1>6. Expired' \subseteq Expired \ first
  <2> SUFFICES ASSUME NEW d \in Mailbox!Names, Mailbox!Expired(v1[d])'
               PROVE  Mailbox!Expired(v1[d]) /\ d \notin first
    BY DEF Expired
  <2>1. v1'[d] \in Mailbox!Posts /\ \A w \in MailUsers : v2[w] # v1'[d]
    BY <1>1 DEF Mailbox!Expired, Mailbox!Holders
  <2>2. d \notin first /\ v1'[d] = v1[d]
    BY <1>1, <2>1, MailHolds
  <2> QED BY <2>1, <2>2 DEF Mailbox!Expired, Mailbox!Holders
<1>7. IsFiniteSet(Expired) /\ IsFiniteSet(v3)
  BY MailFinite DEF Mailbox!IInv
<1>8. Cardinality(v3') = Cardinality(v3) - 1 /\ Cardinality(v3) \in Nat
      /\ Cardinality(Expired) \in Nat /\ Cardinality(Expired) <= Cardinality(v3)
  BY <1>1, <1>7, FS_RemoveElement, FS_CardinalityType, MailExpires DEF Mailbox!IInv
<1>9. IsFiniteSet(v3') /\ Cardinality(v3') \in Nat
  BY <1>1, <1>7, FS_RemoveElement, FS_CardinalityType
<1>10. Cardinality(Expired') <= Cardinality(v3')
  <2>1. CASE Expired = {}
    BY <1>6, <1>9, <2>1, FS_EmptySet
  <2>2. CASE Expired # {}
    <3>1. PICK d \in Expired : d \in first
      BY <1>2, <2>2
    <3>2. IsFiniteSet(Expired \ {d}) /\ Cardinality(Expired \ {d}) = Cardinality(Expired) - 1
      BY <1>7, FS_RemoveElement
    <3>3. Expired' \subseteq Expired \ {d}
      BY <1>6, <3>1
    <3>4. IsFiniteSet(Expired') /\ Cardinality(Expired') <= Cardinality(Expired \ {d})
      BY <3>2, <3>3, FS_Subset
    <3>5. Cardinality(Expired') \in Nat
      BY <3>4, FS_CardinalityType
    <3> QED BY <1>8, <3>2, <3>4, <3>5
  <2> QED BY <2>1, <2>2
<1>11. Mailbox!ExpiredEntriesAreErased' <=> Cardinality(Expired') <= Cardinality(v3')
  BY MailCardinality, Zenon DEF Mailbox!ExpiredEntriesAreErased, Expired
<1> QED BY <1>3, <1>4, <1>5, <1>10, <1>11 DEF Mailbox!IInv

\* A null pointer is found at an expired entry, for which there is a destructor.
LEMMA MailNull ==
    ASSUME Mailbox!IInv, NEW u \in MailUsers, NEW id \in Mailbox!Names, Mailbox!Find(u, id)
    PROVE  v5' \subseteq v5 \/ v3 # {}
<1> SUFFICES ASSUME v3 = {} PROVE v5' \subseteq v5
  OBVIOUS
<1>1. Cardinality(v3) = 0
  BY FS_EmptySet
<1>2. IsFiniteSet(Expired) /\ Cardinality(Expired) \in Nat /\ Cardinality(Expired) <= 0
  BY <1>1, MailFinite, MailExpires, FS_CardinalityType DEF Mailbox!IInv
<1>3. Expired = {}
  BY <1>2, FS_EmptySet
<1>4. ~Mailbox!Expired(v1[id])
  BY <1>3 DEF Expired
<1>5. Mailbox!Locked(id) = v1[id] /\ v1[id] # Nil
  BY <1>4 DEF Mailbox!Locked, Mailbox!Find, Mailbox!IsMissing
<1> QED BY <1>5 DEF Mailbox!Find

\* No step breaks the invariant, and only a post that is dying is not found.
LEMMA MailStep == Mailbox!IInv /\ Mailbox!Next => Mailbox!IInv' /\ Mailbox!NullWhileDying
<1> SUFFICES ASSUME Mailbox!IInv, Mailbox!Next PROVE Mailbox!IInv' /\ Mailbox!NullWhileDying
  OBVIOUS
<1> USE DEF Mailbox!NullWhileDying
<1>1. ASSUME NEW u \in MailUsers, Mailbox!Drop(u) PROVE Mailbox!IInv' /\ Mailbox!NullWhileDying
  BY <1>1, MailDrop DEF Mailbox!Drop
<1>2. ASSUME NEW u \in MailUsers, NEW id \in Mailbox!Names, Mailbox!Create(u, id)
      PROVE  Mailbox!IInv' /\ Mailbox!NullWhileDying
  BY <1>2, MailCreate DEF Mailbox!Create
<1>3. ASSUME NEW u \in MailUsers, NEW id \in Mailbox!Names, Mailbox!Find(u, id)
      PROVE  Mailbox!IInv' /\ Mailbox!NullWhileDying
  BY <1>3, MailFind, MailNull
<1>4. ASSUME NEW p \in Mailbox!Posts, Mailbox!Cleanup(p)
      PROVE  Mailbox!IInv' /\ Mailbox!NullWhileDying
  BY <1>4, MailCleanup DEF Mailbox!Cleanup
<1> QED BY <1>1, <1>2, <1>3, <1>4 DEF Mailbox!Next

\* The invariant of Mail holds always.
LEMMA MailInvariant == Spec => [](part = "mail" => Mailbox!IInv)
<1>1. Init => (part = "mail" => Mailbox!IInv)
  BY StartOfAPart, MailInit
<1>2. (part = "mail" => Mailbox!IInv) /\ [Next]_vars => (part = "mail" => Mailbox!IInv)'
  <2>1. Mailbox!IInv /\ UNCHANGED vars => Mailbox!IInv'
    BY MailCardinality DEF vars, Mailbox!IInv, Mailbox!TypeOK, Mailbox!EntriesAreNamed,
      Mailbox!OnePostPerName,
      Mailbox!ExpiredEntriesAreErased, Mailbox!Posts, Mailbox!Holders, Mailbox!Expired
  <2> QED BY <2>1, StepOfAPart, MailStep
<1> QED BY <1>1, <1>2, PTL DEF Spec

\* The queue gives its values in order and lets nobody sleep on one, the mailbox has one
\* post for each name and a destructor for each that has expired: thread_safe.h, for any
\* number of threads, values, names and posts, and any length of the queue.
THEOREM MailDelivers == Spec => MailIsDelivered
<1> DEFINE Q == part = "queue" => QueueInv
           M == part = "mail" => Mailbox!IInv
           QOK == part = "queue" => Queue!TypeOK /\ Queue!SleepIsSafe /\ Queue!NewestInOrder
           MOK == part = "mail" => Mailbox!TypeOK /\ Mailbox!OnePostPerName
                                   /\ Mailbox!ExpiredEntriesAreErased
           QStep == part = "queue" => Queue!PopInOrder
           MStep == part = "mail" => Mailbox!NullWhileDying
<1>1. Q => QOK
  BY DEF QueueInv
<1>2. M => MOK
  BY DEF Mailbox!IInv
<1>3. Q /\ [Next]_vars => [QStep]_vars
  BY StepOfAPart, QueueStep DEF Queue!PopInOrder
<1>4. M /\ [Next]_vars => [MStep]_vars
  BY StepOfAPart, MailStep
<1>5. MailIsDelivered <=> []QOK /\ [][QStep]_vars /\ []MOK /\ [][MStep]_vars
  BY DEF MailIsDelivered
<1> HIDE DEF Q, M, QOK, MOK, QStep, MStep
<1>6. Spec => []Q /\ []M
  BY QueueInvariant, MailInvariant, PTL DEF Q, M
<1> QED BY <1>1, <1>2, <1>3, <1>4, <1>5, <1>6, PTL DEF Spec

-----------------------------------------------------------------------------
(* StateFile: who replaces the file keeps what the other has in it.        *)

Roots == [creds : StateUsers \cup {Nil}, devices : (SUBSET StateDevices) \cup {Nil}]
Jobs == [what : {"creds", "devices"}, step : {"read", "open", "write", "reload"},
         user : StateUsers \cup {Nil}, root : Roots]

\* What is read or under way is told apart from what is not there.
LEMMA StateRecords ==
    /\ \A r \in Roots : r # Nil /\ r # Torn
    /\ \A j \in Jobs : j # Nil
    /\ Nil \notin StateUsers /\ Nil # Torn /\ (\A D \in SUBSET StateDevices : D # Nil)
<1>1. \A r \in Roots : r # Nil /\ r # Torn
  BY StateAssumption DEF Roots
<1>2. ASSUME NEW j \in Jobs PROVE j # Nil
  <2>1. j = [what |-> j.what, step |-> j.step, user |-> j.user, root |-> j.root]
    BY DEF Jobs
  <2>2. /\ j.what \in {"creds", "devices"} /\ j.step \in {"read", "open", "write", "reload"}
        /\ j.user \in StateUsers \cup {Nil} /\ j.root \in Roots
    BY DEF Jobs
  <2>3. [what |-> j.what, step |-> j.step, user |-> j.user, root |-> j.root] # Nil
    BY <2>2, StateAssumption DEF Roots
  <2> QED BY <2>1, <2>3
<1> QED BY <1>1, <1>2, StateAssumption

\* The types of the variables, with what is under way as Jobs.
LEMMA StateTypes ==
    ASSUME State!TypeOK, State!JobOK
    PROVE  /\ v2 \in StateUsers \cup {Nil} /\ v3 \in SUBSET StateDevices
           /\ v5 \in StateUsers \cup {Nil} /\ v1 \in {Nil, Torn} \cup Roots
           /\ v4 \in [{"config", "http"} -> {Nil} \cup Jobs]
BY DEF State!TypeOK, State!JobOK, State!Threads, Roots, Jobs

\* At the start there is no file, no user and no client.
LEMMA StateInit == State!Init => State!IInv
<1> SUFFICES ASSUME State!Init PROVE State!IInv
  OBVIOUS
<1>1. /\ v1 = Nil /\ v2 = Nil /\ v3 = {} /\ v4 = [w \in {"config", "http"} |-> Nil]
      /\ v5 = Nil /\ v6 = FALSE
  BY DEF State!Init, State!Threads
<1>2. State!Empty.creds = Nil /\ State!Empty.devices = Nil
  BY DEF State!Empty
<1>3. State!TypeOK /\ State!JobOK /\ State!JobsAreTheirs
  BY <1>1 DEF State!TypeOK, State!JobOK, State!JobsAreTheirs, State!Threads
<1>4. State!FollowsSaves
  BY <1>1, <1>2, StateRecords DEF State!FollowsSaves, State!OneReplaces, State!UserIsComing,
    State!DevicesAreComing, State!UserIsLeft, State!Coming, State!Replacing, State!At,
    State!Held, State!Threads
<1> QED BY <1>3, <1>4 DEF State!IInv

\* A thread changes its own job only.
LEMMA StateSets ==
    ASSUME State!TypeOK, State!JobOK, NEW w \in State!Threads, NEW j \in {Nil} \cup Jobs,
           v4' = [v4 EXCEPT ![w] = j]
    PROVE  /\ State!JobOK' /\ v4'[w] = j
           /\ w = "config" => v4'["http"] = v4["http"]
           /\ w = "http" => v4'["config"] = v4["config"]
BY StateTypes DEF State!JobOK, State!Threads, Jobs, Roots

\* A save that begins has not touched the file.
LEMMA StateBegin ==
    ASSUME State!IInv, NEW w \in State!Threads, NEW what \in {"creds", "devices"},
           NEW user \in StateUsers \cup {Nil}, State!Begin(w, what, user),
           what = "creds" => w = "config" /\ user # Nil /\ v3' = v3,
           what = "devices" => v3' \subseteq StateDevices
    PROVE  State!IInv'
<1> DEFINE j == State!Job(what, user)
<1>1. /\ j \in Jobs /\ j.what = what /\ j.step = "read" /\ j.user = user /\ j # Nil
  BY StateRecords DEF State!Job, State!Empty, Jobs, Roots
<1> HIDE DEF j
<1>2. /\ v4' = [v4 EXCEPT ![w] = j] /\ v4[w] = Nil /\ UNCHANGED <<v1, v2, v5, v6>>
  BY DEF State!Begin, j
<1>3. /\ State!JobOK' /\ v4'[w] = j
      /\ w = "config" => v4'["http"] = v4["http"]
      /\ w = "http" => v4'["config"] = v4["config"]
  BY <1>1, <1>2, StateSets DEF State!IInv
<1>4. State!TypeOK' /\ State!JobsAreTheirs'
  BY <1>1, <1>2, <1>3 DEF State!IInv, State!TypeOK, State!JobsAreTheirs, State!Threads
<1>5. State!FollowsSaves'
  BY <1>1, <1>2, <1>3 DEF State!IInv, State!FollowsSaves, State!OneReplaces, State!UserIsComing,
    State!DevicesAreComing, State!UserIsLeft, State!Coming, State!Replacing, State!At,
    State!Held, State!Threads
<1> QED BY <1>3, <1>4, <1>5 DEF State!IInv

\* What is read holds what the other thread has saved.
LEMMA StateRead ==
    ASSUME State!IInv, NEW w \in State!Threads, State!Read(w)
    PROVE  State!IInv'
<1> DEFINE old == IF v1 = Nil THEN State!Empty ELSE v1
           root == State!RootOf(w)
           j == IF v1 = Torn THEN State!Rest(w) ELSE [v4[w] EXCEPT !.step = "open", !.root = root]
<1>1. v4[w] \in Jobs /\ v4[w] # Nil /\ v4[w].step = "read" /\ UNCHANGED <<v1, v2, v3, v5>>
      /\ v4' = [v4 EXCEPT ![w] = j]
  BY StateTypes DEF State!Read, State!At, State!Threads, State!IInv
<1>2. (v4[w].what = "creds" => w = "config" /\ v4[w].user # Nil)
  BY <1>1 DEF State!IInv, State!JobsAreTheirs
<1>3. v1 # Torn => old \in Roots
  BY StateTypes DEF State!IInv, State!Empty, Roots
<1>4. v1 # Torn => /\ root \in Roots
                   /\ v4[w].what = "creds" => root.creds = v4[w].user /\ root.devices = old.devices
                   /\ v4[w].what = "devices" => root.creds = old.creds /\ root.devices = v3
  BY <1>1, <1>3, StateTypes DEF State!RootOf, Roots, Jobs, State!IInv
<1> HIDE DEF old, root
<1>5. v1 # Torn => /\ j \in Jobs /\ j.what = v4[w].what /\ j.user = v4[w].user
                   /\ j.step = "open" /\ j.root = root
  BY <1>1, <1>4 DEF Jobs
<1>6. v1 = Torn => /\ j \in {Nil} \cup Jobs
                   /\ v4[w].what = "devices" => j = Nil
                   /\ v4[w].what = "creds" => j.what = "creds" /\ j.user = v4[w].user
                                             /\ j.step = "reload"
  BY <1>1 DEF Jobs, State!Rest
<1>7. j \in {Nil} \cup Jobs /\ (j # Nil => j.what = v4[w].what /\ j.user = v4[w].user)
      /\ v4[w].what \in {"creds", "devices"}
      /\ (j # Nil /\ j.step = "reload" => v4[w].what = "creds")
  BY <1>1, <1>5, <1>6, StateRecords DEF Jobs
<1> HIDE DEF j
<1>8. /\ State!JobOK' /\ v4'[w] = j
      /\ w = "config" => v4'["http"] = v4["http"]
      /\ w = "http" => v4'["config"] = v4["config"]
  BY <1>1, <1>7, StateSets DEF State!IInv
<1>9. State!TypeOK' /\ State!JobsAreTheirs'
  BY <1>1, <1>2, <1>7, <1>8 DEF State!IInv, State!TypeOK, State!JobsAreTheirs, State!Threads
<1>10. State!FollowsSaves'
  <2> SUFFICES ASSUME ~v6' PROVE State!FollowsSaves'
    BY DEF State!FollowsSaves
  <2>1. ~v6 /\ ~State!Replacing(State!Other(w))
    BY DEF State!Read
  <2>2. ~State!Replacing("config") /\ ~State!Replacing("http")
    BY <1>1, <2>1 DEF State!Replacing, State!At, State!Other, State!Threads
  <2>3. v1 # Torn
    BY <2>1, <2>2 DEF State!IInv, State!FollowsSaves, State!OneReplaces, State!Replacing,
      State!Threads
  <2>4. State!Coming = old
    BY <2>2, <2>3 DEF State!Coming, old
  <2>5. v3 # Nil /\ j # Nil
    BY <1>5, <2>3, StateTypes, StateRecords DEF State!IInv
  <2>6. w = "http" => j.root.creds = State!Held("creds")
    BY <1>2, <1>4, <1>5, <1>7, <2>3 DEF State!Held, old, State!Empty
  <2>7. State!OneReplaces' /\ State!UserIsLeft'
    BY <1>1, <1>5, <1>8, <2>2, <2>3, <2>5, <2>6 DEF State!OneReplaces, State!UserIsLeft,
      State!Replacing, State!At, State!Held, State!Threads
  <2>8. State!Coming' = root
    BY <1>5, <1>8, <2>2, <2>3, <2>5 DEF State!Coming, State!Replacing, State!At, State!Threads
  <2>9. State!UserIsComing'
    BY <1>1, <1>2, <1>4, <1>5, <1>7, <1>8, <2>1, <2>2, <2>3, <2>4, <2>5, <2>8
    DEF State!IInv, State!FollowsSaves, State!UserIsComing, State!Replacing, State!At,
      State!Threads
  <2>10. State!DevicesAreComing'
    BY <1>1, <1>4, <1>5, <1>7, <1>8, <2>1, <2>3, <2>4, <2>5, <2>8
    DEF State!IInv, State!FollowsSaves, State!DevicesAreComing, State!At, State!Threads
  <2>11. (v5 # Nil => v2 # Nil /\ (v1 # Torn => State!Held("creds") # Nil))'
    BY <1>1, <2>1 DEF State!IInv, State!FollowsSaves, State!Held
  <2> QED BY <2>7, <2>9, <2>10, <2>11 DEF State!FollowsSaves
<1> QED BY <1>8, <1>9, <1>10 DEF State!IInv

\* The file is torn from when it is opened until it is written.
LEMMA StateOpen ==
    ASSUME State!IInv, NEW w \in State!Threads, State!Open(w)
    PROVE  State!IInv'
<1> DEFINE j == [v4[w] EXCEPT !.step = "write"]
<1>1. v4[w] \in Jobs /\ v4[w] # Nil /\ v4[w].step = "open" /\ v1' = Torn
      /\ v4' = [v4 EXCEPT ![w] = j] /\ UNCHANGED <<v2, v3, v5, v6>>
  BY StateTypes DEF State!Open, State!At, State!Threads, State!IInv
<1>2. j \in Jobs /\ j # Nil /\ j.what = v4[w].what /\ j.user = v4[w].user /\ j.step = "write"
      /\ j.root = v4[w].root
  BY <1>1, StateRecords DEF Jobs
<1> HIDE DEF j
<1>3. /\ State!JobOK' /\ v4'[w] = j
      /\ w = "config" => v4'["http"] = v4["http"]
      /\ w = "http" => v4'["config"] = v4["config"]
  BY <1>1, <1>2, StateSets DEF State!IInv
<1>4. State!TypeOK' /\ State!JobsAreTheirs'
  BY <1>1, <1>2, <1>3 DEF State!IInv, State!TypeOK, State!JobsAreTheirs, State!Threads
<1>5. State!FollowsSaves'
  BY <1>1, <1>2, <1>3, StateRecords DEF State!IInv, State!FollowsSaves, State!OneReplaces,
    State!UserIsComing, State!DevicesAreComing, State!UserIsLeft, State!Coming,
    State!Replacing, State!At, State!Held, State!Threads
<1> QED BY <1>3, <1>4, <1>5 DEF State!IInv

\* What is written has both the user and the clients, or is not whole.
LEMMA StateWrite ==
    ASSUME State!IInv, NEW w \in State!Threads, NEW whole \in BOOLEAN, State!Write(w, whole)
    PROVE  State!IInv'
<1> DEFINE j == State!Rest(w)
<1>1. v4[w] \in Jobs /\ v4[w] # Nil /\ v4[w].step = "write" /\ v4[w].root \in Roots
      /\ v1' = (IF whole THEN v4[w].root ELSE Torn) /\ v6' = (v6 \/ ~whole)
      /\ v4' = [v4 EXCEPT ![w] = j] /\ UNCHANGED <<v2, v3, v5>>
  BY StateTypes DEF State!Write, State!At, State!Threads, State!IInv, Jobs
<1>2. (v4[w].what = "creds" => w = "config" /\ v4[w].user # Nil)
      /\ v4[w].what \in {"creds", "devices"}
  BY <1>1 DEF State!IInv, State!JobsAreTheirs, Jobs
<1>3. /\ j \in {Nil} \cup Jobs
      /\ v4[w].what = "devices" => j = Nil
      /\ v4[w].what = "creds" => /\ j # Nil /\ j.what = "creds" /\ j.user = v4[w].user
                                /\ j.step = "reload"
  BY <1>1, StateRecords DEF State!Rest, Jobs
<1> HIDE DEF j
<1>4. /\ State!JobOK' /\ v4'[w] = j
      /\ w = "config" => v4'["http"] = v4["http"]
      /\ w = "http" => v4'["config"] = v4["config"]
  BY <1>1, <1>3, StateSets DEF State!IInv
<1>5. State!TypeOK' /\ State!JobsAreTheirs'
  BY <1>1, <1>2, <1>3, <1>4 DEF State!IInv, State!TypeOK, State!JobsAreTheirs, State!Threads,
    Roots
<1>6. State!FollowsSaves'
  <2> SUFFICES ASSUME ~v6' PROVE State!FollowsSaves'
    BY DEF State!FollowsSaves
  <2>1. ~v6 /\ v1' = v4[w].root /\ v1' # Nil /\ v1' # Torn
    BY <1>1, StateRecords
  <2>2. /\ w = "config" => ~State!Replacing("http")
        /\ w = "http" => ~State!Replacing("config")
    BY <1>1, <2>1 DEF State!IInv, State!FollowsSaves, State!OneReplaces, State!Replacing,
      State!At, State!Threads
  <2>3. State!Coming = v4[w].root
    BY <1>1, <2>2 DEF State!Coming, State!Replacing, State!At, State!Threads
  <2>4. ~State!Replacing("config")' /\ ~State!Replacing("http")'
    BY <1>2, <1>3, <1>4, <2>2 DEF State!Replacing, State!At, State!Threads
  <2>5. State!Coming' = v4[w].root
    BY <2>1, <2>4 DEF State!Coming
  <2>6. State!OneReplaces' /\ State!UserIsLeft'
    BY <2>1, <2>4 DEF State!OneReplaces, State!UserIsLeft, State!Replacing, State!Threads
  <2>7. State!UserIsComing'
    BY <1>1, <1>2, <1>3, <1>4, <2>1, <2>3, <2>5 DEF State!IInv, State!FollowsSaves,
      State!UserIsComing, State!At, State!Threads
  <2>8. State!DevicesAreComing'
    BY <1>1, <1>2, <1>3, <1>4, <2>1, <2>3, <2>5 DEF State!IInv, State!FollowsSaves,
      State!DevicesAreComing, State!At, State!Threads
  <2>9. v5 # Nil => v2 # Nil /\ v4[w].root.creds # Nil
    BY <1>1, <1>2, <2>1, <2>3 DEF State!IInv, State!FollowsSaves, State!UserIsComing,
      State!JobsAreTheirs, State!At, State!Threads
  <2>10. State!Held("creds")' = v4[w].root.creds
    BY <2>1 DEF State!Held
  <2> QED BY <1>1, <2>6, <2>7, <2>8, <2>9, <2>10 DEF State!FollowsSaves
<1> QED BY <1>4, <1>5, <1>6 DEF State!IInv

\* What the file holds, of a user and of clients.
LEMMA StateHeld ==
    ASSUME State!IInv
    PROVE  /\ State!Held("creds") \in StateUsers \cup {Nil}
           /\ State!Held("devices") \in (SUBSET StateDevices) \cup {Nil}
           /\ v1 = Nil => State!Held("creds") = State!Empty.creds
                          /\ State!Held("devices") = State!Empty.devices
           /\ v1 \notin {Nil, Torn} => State!Held("creds") = v1.creds
                                      /\ State!Held("devices") = v1.devices
BY StateTypes DEF State!Held, State!IInv, Roots, State!Empty

\* After the file has been written the user is read from it.
LEMMA StateReload == State!IInv /\ State!Reload => State!IInv'
<1> SUFFICES ASSUME State!IInv, State!Reload PROVE State!IInv'
  OBVIOUS
<1> DEFINE user == v4["config"].user
<1>1. /\ v4["config"] # Nil /\ v4["config"].step = "reload" /\ v4["config"].what = "creds"
      /\ user \in StateUsers
  BY StateTypes DEF State!Reload, State!At, State!Threads, State!IInv, State!JobsAreTheirs, Jobs
<1>2. /\ v2' = IF State!Held("creds") = Nil THEN v2 ELSE State!Held("creds")
      /\ v4' = [v4 EXCEPT !["config"] = Nil] /\ v5' = user /\ UNCHANGED <<v1, v3>>
      /\ v6' = (v6 \/ State!At("http", "write"))
  BY DEF State!Reload
<1>3. State!JobOK' /\ v4'["config"] = Nil /\ v4'["http"] = v4["http"]
  BY <1>2, StateSets DEF State!IInv, State!Threads
<1>4. State!TypeOK' /\ State!JobsAreTheirs'
  BY <1>1, <1>2, <1>3, StateHeld DEF State!IInv, State!TypeOK, State!JobsAreTheirs, State!Threads
<1>5. State!FollowsSaves'
  <2> SUFFICES ASSUME ~v6' PROVE State!FollowsSaves'
    BY DEF State!FollowsSaves
  <2>1. ~v6 /\ ~State!At("http", "write") /\ ~State!At("config", "write")
        /\ ~State!At("config", "open")
    BY <1>1, <1>2 DEF State!At
  <2>2. v1 # Torn /\ State!Coming.creds = user
    BY <1>1, <2>1 DEF State!IInv, State!FollowsSaves, State!OneReplaces, State!UserIsComing,
      State!At, State!Threads
  <2>3. State!Held("creds") = user
    <3>1. CASE State!At("http", "open")
      BY <2>1, <2>2, <3>1 DEF State!IInv, State!FollowsSaves, State!UserIsLeft, State!Coming,
        State!Replacing
    <3>2. CASE ~State!At("http", "open")
      BY <2>1, <2>2, <3>2, StateHeld DEF State!Coming, State!Replacing
    <3> QED BY <3>1, <3>2
  <2>4. v2' = user /\ user # Nil /\ State!Held("creds")' = user
    BY <1>1, <1>2, <2>3, StateRecords DEF State!Held
  <2>5. State!Coming' = State!Coming
    BY <1>2, <1>3, <2>1 DEF State!Coming, State!Replacing, State!At
  <2>6. State!UserIsComing'
    BY <1>3, <2>2, <2>4, <2>5 DEF State!UserIsComing, State!At
  <2>7. State!OneReplaces' /\ State!UserIsLeft' /\ State!DevicesAreComing'
    BY <1>1, <1>2, <1>3, <2>1, <2>5 DEF State!IInv, State!FollowsSaves, State!OneReplaces,
      State!UserIsLeft, State!DevicesAreComing, State!Replacing, State!At, State!Held,
      State!Threads
  <2> QED BY <2>4, <2>6, <2>7 DEF State!FollowsSaves
<1> QED BY <1>3, <1>4, <1>5 DEF State!IInv

\* A program that starts again has what the file holds.
LEMMA StateRestart == State!IInv /\ State!Restart => State!IInv'
<1> SUFFICES ASSUME State!IInv, State!Restart PROVE State!IInv'
  OBVIOUS
<1>1. /\ v4' = [w \in {"config", "http"} |-> Nil] /\ v2' = State!Held("creds")
      /\ v3' = IF State!Held("devices") = Nil THEN {} ELSE State!Held("devices")
      /\ v6' = (v6 \/ \E w \in State!Threads : State!At(w, "write")) /\ UNCHANGED <<v1, v5>>
  BY DEF State!Restart, State!Threads
<1>2. State!TypeOK' /\ State!JobOK' /\ State!JobsAreTheirs'
  BY <1>1, StateHeld DEF State!IInv, State!TypeOK, State!JobOK, State!JobsAreTheirs, State!Threads
<1>3. State!FollowsSaves'
  <2> SUFFICES ASSUME ~v6' PROVE State!FollowsSaves'
    BY DEF State!FollowsSaves
  <2>1. ~v6 /\ v1 # Torn
    BY <1>1 DEF State!IInv, State!FollowsSaves, State!OneReplaces
  <2>2. State!Coming'.creds = State!Held("creds") /\ State!Coming'.devices = State!Held("devices")
    BY <1>1, <2>1, StateHeld DEF State!Coming, State!Replacing, State!At
  <2>3. State!Held("creds")' = State!Held("creds")
    BY <1>1 DEF State!Held
  <2> QED BY <1>1, <2>1, <2>2, <2>3 DEF State!IInv, State!FollowsSaves, State!OneReplaces,
        State!UserIsComing, State!UserIsLeft, State!DevicesAreComing, State!Replacing,
        State!At, State!Threads
<1> QED BY <1>2, <1>3 DEF State!IInv

\* No step of a thread breaks the invariant: one case for each action.
LEMMA StateStep == State!IInv /\ State!Next => State!IInv'
<1> SUFFICES ASSUME State!IInv, State!Next PROVE State!IInv'
  OBVIOUS
<1>1. ASSUME NEW u \in StateUsers, NEW c \in StateUsers \cup {Nil}, State!SavePassword(u, c)
      PROVE  State!IInv'
  BY <1>1, StateBegin, StateRecords DEF State!SavePassword, State!Threads
<1>2. ASSUME NEW d \in StateDevices, State!Pair(d) PROVE State!IInv'
  <2>1. v3' \subseteq StateDevices
    BY <1>2, StateTypes DEF State!Pair, State!IInv
  <2> QED BY <1>2, <2>1, StateBegin DEF State!Pair, State!Threads
<1>3. CASE State!UnpairAll
  <2>1. v3' \subseteq StateDevices
    BY <1>3 DEF State!UnpairAll
  <2> QED BY <1>3, <2>1, StateBegin DEF State!UnpairAll, State!Threads
<1> QED
  BY <1>1, <1>2, <1>3, StateRead, StateOpen, StateWrite, StateReload, StateRestart DEF State!Next

\* The invariant of StateFile holds always.
LEMMA StateInvariant == Spec => [](part = "state" => State!IInv)
<1>1. Init => (part = "state" => State!IInv)
  BY StartOfAPart, StateInit
<1>2. (part = "state" => State!IInv) /\ [Next]_vars => (part = "state" => State!IInv)'
  <2>1. State!IInv /\ UNCHANGED vars => State!IInv'
    BY DEF vars, State!IInv, State!TypeOK, State!JobOK, State!JobsAreTheirs, State!FollowsSaves,
      State!OneReplaces, State!UserIsComing, State!UserIsLeft, State!DevicesAreComing,
      State!Coming, State!Replacing, State!At, State!Held
  <2> QED BY <2>1, StepOfAPart, StateStep
<1> QED BY <1>1, <1>2, PTL DEF Spec

\* Once nobody replaces the file, it holds the user and the clients in effect.
LEMMA StateIsKept == State!IInv => State!UserIsKept /\ State!ClientsAreKept
<1> SUFFICES ASSUME State!IInv PROVE State!UserIsKept /\ State!ClientsAreKept
  OBVIOUS
<1>1. State!UserIsKept
  <2> SUFFICES ASSUME ~v6, v4["config"] = Nil, v5 # Nil,
                      \A w \in State!Threads : ~State!At(w, "write")
               PROVE  State!Held("creds") = v2
    BY DEF State!UserIsKept, State!IInv, State!FollowsSaves
  <2>1. v1 # Torn /\ State!Coming.creds = v2
    BY DEF State!IInv, State!FollowsSaves, State!OneReplaces, State!UserIsComing, State!At
  <2>2. CASE State!At("http", "open")
    BY <2>1, <2>2 DEF State!IInv, State!FollowsSaves, State!UserIsLeft, State!Coming,
      State!Replacing, State!At
  <2>3. CASE ~State!At("http", "open")
    BY <2>1, <2>3, StateHeld DEF State!Coming, State!Replacing, State!At, State!Threads
  <2> QED BY <2>2, <2>3
<1>2. State!ClientsAreKept
  <2> SUFFICES ASSUME ~v6, \A w \in State!Threads : v4[w] = Nil
               PROVE  v3 = IF State!Held("devices") = Nil THEN {} ELSE State!Held("devices")
    BY DEF State!ClientsAreKept
  <2>1. v1 # Torn /\ v3 = IF State!Coming.devices = Nil THEN {} ELSE State!Coming.devices
    BY DEF State!IInv, State!FollowsSaves, State!OneReplaces, State!DevicesAreComing, State!At
  <2> QED BY <2>1, StateHeld DEF State!Coming, State!Replacing, State!At, State!Threads
<1> QED BY <1>1, <1>2

-----------------------------------------------------------------------------
(* SavedFiles: the program uses what the pages have saved.                 *)

\* What a page saves has one line for an option.
LEMMA FilesPages ==
    ASSUME NEW f \in Files!Pages
    PROVE  /\ DOMAIN f \subseteq Nat
           /\ \A n \in DOMAIN f : f[n][1] \in Options /\ f[n][2] \in Values
           /\ \A m, n \in DOMAIN f : f[m][1] = f[n][1] => m = n
<1>1. CASE f = <<>>
  BY <1>1
<1>2. ASSUME NEW o \in Options, NEW v \in Values, f = << <<o, v>> >>
      PROVE  /\ DOMAIN f = {1} /\ f[1] = <<o, v>>
  BY <1>2
<1>3. ASSUME NEW o \in Options, NEW p \in Options, NEW v \in Values, NEW w \in Values,
             f = << <<o, v>>, <<p, w>> >>
      PROVE  DOMAIN f = {1, 2} /\ f[1] = <<o, v>> /\ f[2] = <<p, w>>
  BY <1>3
<1>4. \/ f = <<>>
      \/ \E o \in Options, v \in Values : f = << <<o, v>> >>
      \/ /\ \E o \in Options, p \in Options, v \in Values, w \in Values : f = << <<o, v>>, <<p, w>> >>
         /\ f[1][1] # f[2][1]
  BY DEF Files!Pages
<1>5. CASE \E o \in Options, v \in Values : f = << <<o, v>> >>
  BY <1>2, <1>5
<1>6. CASE /\ \E o \in Options, p \in Options, v \in Values, w \in Values : f = << <<o, v>>, <<p, w>> >>
           /\ f[1][1] # f[2][1]
  BY <1>3, <1>6
<1> QED BY <1>1, <1>4, <1>5, <1>6

\* What is read for an option is a number in its range, or cannot be used.
LEMMA FilesWord ==
    ASSUME NEW f \in Files!Pages, NEW c \in Lines, NEW o
    PROVE  Files!Word(f, c, o) \in {"good", "wild", "empty", "default"}
<1>1. ASSUME Files!Last(c, o) # {} PROVE Files!Word(f, c, o) \in {"good", "wild"}
  <2> DEFINE n == CHOOSE m \in Files!Last(c, o) : TRUE
  <2>1. n \in Files!Last(c, o)
    BY <1>1
  <2>2. n \in DOMAIN c
    BY <2>1 DEF Files!Last
  <2>3. Files!Word(f, c, o) = c[n][2]
    BY <1>1 DEF Files!Word
  <2> HIDE DEF n
  <2> QED BY <2>2, <2>3, FilesAssumption
<1>2. ASSUME Files!Last(c, o) = {}, Files!First(f, o) # {}
      PROVE  Files!Word(f, c, o) \in {"good", "wild", "empty"}
  <2> DEFINE n == CHOOSE m \in Files!First(f, o) : TRUE
  <2>1. n \in Files!First(f, o)
    BY <1>2
  <2>2. Files!Word(f, c, o) = Files!TextOf(f[n][2])
    BY <1>2 DEF Files!Word
  <2> HIDE DEF n
  <2>3. n \in DOMAIN f /\ n \in Files!LinesRead(f)
    BY <2>1 DEF Files!First, Files!LinesRead
  <2>4. n \in Nat /\ f[n][2] \in {"good", "cut", "open", "wild"}
    BY <2>3, FilesPages, FilesAssumption
  <2>5. f[n][2] # "open"
    BY <2>3, <2>4 DEF Files!LinesRead
  <2> QED BY <2>2, <2>4, <2>5 DEF Files!TextOf
<1>3. ASSUME Files!Last(c, o) = {}, Files!First(f, o) = {}
      PROVE  Files!Word(f, c, o) = "default"
  BY <1>3 DEF Files!Word, Files!Default
<1> QED BY <1>1, <1>2, <1>3

\* Every option has a value that can be used.
LEMMA FilesApplied ==
    ASSUME NEW f \in Files!Pages, NEW c \in Lines
    PROVE  Files!Applied(f, c) \in [Options -> {"good", "default"}]
BY FilesWord DEF Files!Applied, Files!Usable, Files!Default

\* An option with one line in the file, and none on the command line, has the value there.
LEMMA FilesAppliedLine ==
    ASSUME NEW f \in Files!Pages, NEW c \in Lines, NEW n \in DOMAIN f,
           f[n][1] \notin {c[m][1] : m \in DOMAIN c},
           \A m \in DOMAIN f : f[m][2] # "open"
    PROVE  Files!Applied(f, c)[f[n][1]] = IF f[n][2] = "good" THEN "good" ELSE "default"
<1> DEFINE o == f[n][1]
<1>1. o \in Options /\ f[n][2] \in {"good", "cut", "wild"} /\ n \in Nat
  BY FilesPages, FilesAssumption
<1>2. Files!Last(c, o) = {}
  BY DEF Files!Last
<1>3. Files!LinesRead(f) = DOMAIN f
  BY DEF Files!LinesRead
<1>4. Files!First(f, o) = {n}
  BY <1>1, <1>3, FilesPages DEF Files!First
<1>5. Files!Word(f, c, o) = Files!TextOf(f[n][2])
  BY <1>2, <1>4 DEF Files!Word
<1> QED BY <1>1, <1>5 DEF Files!Applied, Files!Usable, Files!TextOf, Files!Default

\* The three edits of a list of applications, place by place.
LEMMA FilesEdits ==
    ASSUME Files!TypeOK, NEW i \in Nat, NEW a \in Apps
    PROVE  /\ Files!Added(a) \in Seq(Apps) /\ Len(Files!Added(a)) = Len(v1) + 1
           /\ Files!Replaced(i, a) \in Seq(Apps) /\ Len(Files!Replaced(i, a)) = Len(v1)
           /\ i < Len(v1) => Files!Replaced(i, a)[i + 1] = a
           /\ \A n \in DOMAIN v1 \ {i + 1} : Files!Replaced(i, a)[n] = v1[n]
<1>1. v1 \in Seq(Apps) /\ Len(v1) \in Nat /\ DOMAIN v1 = 1 .. Len(v1)
  BY DEF Files!TypeOK
<1>2. Files!Added(a) \in Seq(Apps) /\ Len(Files!Added(a)) = Len(v1) + 1
  BY <1>1 DEF Files!Added
<1>3. Files!Replaced(i, a) = [n \in 1 .. Len(v1) |-> IF n - 1 = i THEN a ELSE v1[n]]
  BY <1>1 DEF Files!Replaced
<1>4. \A n \in 1 .. Len(v1) : v1[n] \in Apps
  BY <1>1
<1>5. Files!Replaced(i, a) \in Seq(Apps) /\ Len(Files!Replaced(i, a)) = Len(v1)
  BY <1>1, <1>3, <1>4
<1>6. \A n \in DOMAIN v1 \ {i + 1} : Files!Replaced(i, a)[n] = v1[n]
  BY <1>1, <1>3
<1>7. i < Len(v1) => Files!Replaced(i, a)[i + 1] = a
  BY <1>1, <1>3
<1> QED BY <1>2, <1>5, <1>6, <1>7

\* deleteApp() leaves the other applications, in their order.
LEMMA FilesDeletes ==
    ASSUME Files!TypeOK, NEW i \in Nat
    PROVE  /\ Files!Deleted(i) \in Seq(Apps) /\ Len(Files!Deleted(i)) <= Len(v1)
           /\ i < Len(v1) =>
                /\ Len(Files!Deleted(i)) = Len(v1) - 1
                /\ \A n \in DOMAIN Files!Deleted(i) :
                     Files!Deleted(i)[n] = v1[IF n <= i THEN n ELSE n + 1]
<1>1. v1 \in Seq(Apps) /\ Len(v1) \in Nat
  BY DEF Files!TypeOK
<1>2. CASE ~(i < Len(v1))
  BY <1>1, <1>2 DEF Files!Deleted
<1>3. CASE i < Len(v1)
  <2> DEFINE head == SubSeq(v1, 1, i)
             tail == SubSeq(v1, i + 2, Len(v1))
  <2>1. head \in Seq(Apps) /\ Len(head) = i /\ \A n \in 1 .. i : head[n] = v1[n]
    BY <1>1, <1>3
  <2>2. /\ tail \in Seq(Apps) /\ Len(tail) = Len(v1) - i - 1
        /\ \A n \in 1 .. (Len(v1) - i - 1) : tail[n] = v1[i + 1 + n]
    BY <1>1, <1>3
  <2>3. Files!Deleted(i) = head \o tail
    BY <1>3 DEF Files!Deleted
  <2> HIDE DEF head, tail
  <2> DEFINE both == head \o tail
  <2>4. /\ both \in Seq(Apps) /\ Len(both) = Len(v1) - 1
        /\ DOMAIN both = 1 .. (Len(v1) - 1)
    <3>1. both \in Seq(Apps) /\ Len(both) = Len(head) + Len(tail)
      BY <2>1, <2>2, ConcatProperties
    <3>3. Len(both) = Len(v1) - 1
      BY <1>1, <1>3, <2>1, <2>2, <3>1
    <3>4. DOMAIN both = 1 .. Len(both)
      BY <3>1
    <3> QED BY <3>1, <3>3, <3>4
  <2>5. ASSUME NEW n \in 1 .. (Len(v1) - 1)
        PROVE  both[n] = v1[IF n <= i THEN n ELSE n + 1]
    <3>a. both[n] = IF n <= i THEN head[n] ELSE tail[n - i]
      <4>1. n \in 1 .. (Len(head) + Len(tail))
        BY <1>1, <1>3, <2>1, <2>2
      <4>2. both[n] = IF n <= Len(head) THEN head[n] ELSE tail[n - Len(head)]
        BY <2>1, <2>2, <4>1, ConcatProperties
      <4> QED BY <2>1, <4>2
    <3>1. CASE n <= i
      BY <2>1, <3>1, <3>a
    <3>2. CASE ~(n <= i)
      <4>1. n - i \in 1 .. (Len(v1) - i - 1)
        BY <1>1, <1>3, <3>2
      <4>2. tail[n - i] = v1[i + 1 + (n - i)] /\ i + 1 + (n - i) = n + 1
        BY <2>2, <4>1
      <4> QED BY <3>2, <3>a, <4>2
    <3> QED BY <3>1, <3>2
  <2> HIDE DEF both
  <2>6. Files!Deleted(i) = both
    BY <2>3 DEF both
  <2>7. Len(both) <= Len(v1)
    BY <1>1, <2>4
  <2> QED BY <1>3, <2>4, <2>5, <2>6, <2>7
<1> QED BY <1>2, <1>3

\* An application that is replaced or deleted changes no other one.
LEMMA FilesEditsAreLocal == Files!TypeOK => Files!EditsAreLocal
<1> SUFFICES ASSUME Files!TypeOK, NEW i \in 0 .. MaxApps - 1, i < Len(v1)
             PROVE  /\ \A a \in Apps :
                         /\ Files!Replaced(i, a)[i + 1] = a
                         /\ \A n \in DOMAIN v1 \ {i + 1} : Files!Replaced(i, a)[n] = v1[n]
                    /\ Len(Files!Deleted(i)) = Len(v1) - 1
                    /\ \A n \in DOMAIN Files!Deleted(i) :
                         Files!Deleted(i)[n] = v1[IF n <= i THEN n ELSE n + 1]
  BY DEF Files!EditsAreLocal
<1>1. i \in Nat
  BY FilesAssumption
<1> QED BY <1>1, FilesEdits, FilesDeletes

\* At the start the files are empty.
LEMMA FilesInit == Files!Init => Files!IInv
<1> SUFFICES ASSUME Files!Init PROVE Files!IInv
  OBVIOUS
<1>1. /\ v1 = <<>> /\ v2 = Files!Started(<<>>) /\ v4 = <<>> /\ v5 \in Lines
      /\ v6 = Files!Applied(<<>>, v5) /\ v7 = Nil
  BY DEF Files!Init
<1>2. <<>> \in Files!Pages
  BY DEF Files!Pages
<1>3. v6 \in [Options -> {"good", "default"}]
  BY <1>1, <1>2, FilesApplied
<1>4. Files!TypeOK
  BY <1>1, <1>3, FilesAssumption DEF Files!TypeOK, Files!Default
<1>5. Files!ListIsTheFile
  BY <1>1 DEF Files!ListIsTheFile, Files!Started
<1>6. Files!PageIsTheFile
  BY <1>1, <1>2 DEF Files!PageIsTheFile
<1> QED BY <1>4, <1>5, <1>6 DEF Files!IInv

\* An edit: the list is read again from the file, as it was if that cannot be read.
LEMMA FilesWrite ==
    ASSUME Files!IInv, NEW f \in Seq(Apps), Len(f) <= MaxApps, Files!Write(f)
    PROVE  Files!IInv'
<1>1. v1' = f /\ v2' = Files!Refreshed(f) /\ UNCHANGED <<v4, v5, v6, v7>>
  BY DEF Files!Write
<1> QED BY <1>1 DEF Files!IInv, Files!TypeOK, Files!ListIsTheFile, Files!Refreshed,
      Files!Readable, Files!PageIsTheFile

\* No request of the pages and no start of the program breaks the invariant.
LEMMA FilesStep == Files!IInv /\ Files!Next => Files!IInv'
<1> SUFFICES ASSUME Files!IInv, Files!Next PROVE Files!IInv'
  OBVIOUS
<1>0. /\ v1 \in Seq(Apps) /\ Len(v1) \in Nat /\ Len(v1) <= MaxApps /\ MaxApps \in Nat
      /\ Files!TypeOK
  BY FilesAssumption DEF Files!IInv, Files!TypeOK
<1>1. ASSUME NEW t \in Tabs, Files!Show(t) PROVE Files!IInv'
  BY <1>1 DEF Files!Show, Files!IInv, Files!TypeOK, Files!ListIsTheFile, Files!Readable,
    Files!PageIsTheFile
<1>2. ASSUME NEW t \in Tabs, NEW a \in Apps, Files!AddApp(t, a) PROVE Files!IInv'
  <2>1. Files!Added(a) \in Seq(Apps) /\ Len(Files!Added(a)) = Len(v1) + 1
    BY <1>0, FilesEdits
  <2>2. Len(v1) < MaxApps /\ Files!Write(Files!Added(a))
    BY <1>2 DEF Files!AddApp
  <2> QED BY <1>0, <2>1, <2>2, FilesWrite
<1>3. ASSUME NEW t \in Tabs, NEW a \in Apps, NEW i \in 0 .. MaxApps - 1, Files!ReplaceApp(t, i, a)
      PROVE  Files!IInv'
  <2>1. i \in Nat
    BY <1>0
  <2>2. Files!Replaced(i, a) \in Seq(Apps) /\ Len(Files!Replaced(i, a)) = Len(v1)
    BY <1>0, <2>1, FilesEdits
  <2>3. Files!Write(Files!Replaced(i, a))
    BY <1>3 DEF Files!ReplaceApp
  <2> QED BY <1>0, <2>2, <2>3, FilesWrite
<1>4. ASSUME NEW t \in Tabs, NEW i \in 0 .. MaxApps - 1, Files!DeleteApp(t, i)
      PROVE  Files!IInv'
  <2>1. i \in Nat
    BY <1>0
  <2>2. Files!Deleted(i) \in Seq(Apps) /\ Len(Files!Deleted(i)) <= Len(v1)
    BY <1>0, <2>1, FilesDeletes
  <2>3. Len(Files!Deleted(i)) <= MaxApps
    BY <1>0, <2>2
  <2>4. Files!Write(Files!Deleted(i))
    BY <1>4 DEF Files!DeleteApp
  <2> QED BY <2>2, <2>3, <2>4, FilesWrite
<1>5. ASSUME NEW f \in Files!Pages, Files!SaveConfig(f) PROVE Files!IInv'
  <2>1. /\ v4' = f /\ v7' = [lines |-> f, applied |-> FALSE] /\ UNCHANGED <<v1, v2, v5, v6>>
    BY <1>5 DEF Files!SaveConfig
  <2>2. v7' \in [lines : {f}, applied : BOOLEAN] /\ v7'.applied = FALSE
    BY <2>1
  <2>3. Files!PageIsTheFile'
    BY <2>1, <2>2 DEF Files!IInv, Files!PageIsTheFile, Files!Pages
  <2> QED BY <2>1, <2>3 DEF Files!IInv, Files!TypeOK, Files!ListIsTheFile, Files!Readable
<1>6. CASE Files!Start
  <2>1. /\ v2' = Files!Started(v1) /\ v6' = Files!Applied(v4, v5)
        /\ v7' = IF v7 = Nil THEN Nil ELSE [v7 EXCEPT !.applied = TRUE]
        /\ UNCHANGED <<v1, v4, v5>>
    BY <1>6 DEF Files!Start
  <2>2. v4 \in Files!Pages /\ v5 \in Lines /\ v7 \in {Nil} \cup [lines : {v4}, applied : BOOLEAN]
    BY DEF Files!IInv, Files!PageIsTheFile
  <2>3. v7' \in {Nil} \cup [lines : {v4}, applied : BOOLEAN]
    BY <2>1, <2>2
  <2>4. v6' \in [Options -> {"good", "default"}]
    BY <2>1, <2>2, FilesApplied
  <2>5. Files!PageIsTheFile'
    BY <2>1, <2>2, <2>3 DEF Files!PageIsTheFile, Files!Pages, Files!Applied, Files!Word,
      Files!Usable, Files!Last, Files!First, Files!LinesRead, Files!TextOf, Files!Default
  <2>6. Files!TypeOK'
    BY <2>1, <2>4 DEF Files!IInv, Files!TypeOK, Files!Default
  <2>7. Files!ListIsTheFile'
    BY <2>1 DEF Files!ListIsTheFile, Files!Started, Files!Readable
  <2> QED BY <2>5, <2>6, <2>7 DEF Files!IInv
<1> QED BY <1>1, <1>2, <1>3, <1>4, <1>5, <1>6 DEF Files!Next

\* The invariant of SavedFiles holds always.
LEMMA FilesInvariant == Spec => [](part = "files" => Files!IInv)
<1>1. Init => (part = "files" => Files!IInv)
  BY StartOfAPart, FilesInit
<1>2. (part = "files" => Files!IInv) /\ [Next]_vars => (part = "files" => Files!IInv)'
  <2>1. Files!IInv /\ UNCHANGED vars => Files!IInv'
    BY DEF vars, Files!IInv, Files!TypeOK, Files!ListIsTheFile, Files!PageIsTheFile,
      Files!Readable, Files!Pages
  <2> QED BY <2>1, StepOfAPart, FilesStep
<1> QED BY <1>1, <1>2, PTL DEF Spec

\* What was read from the file at the start is what the page has saved.
LEMMA FilesSettings == Files!IInv => Files!SettingsAreApplied
<1> SUFFICES ASSUME Files!IInv, v7 # Nil, v7.applied, NEW n \in DOMAIN v7.lines,
                    v7.lines[n][1] \notin {v5[m][1] : m \in DOMAIN v5},
                    \A m \in DOMAIN v7.lines : v7.lines[m][2] # "open"
             PROVE  v6[v7.lines[n][1]] = IF v7.lines[n][2] = "good" THEN "good" ELSE "default"
  BY DEF Files!SettingsAreApplied, Files!Default
<1>1. v4 \in Files!Pages /\ v5 \in Lines /\ v6 = Files!Applied(v4, v5) /\ v7.lines = v4
  BY DEF Files!IInv, Files!PageIsTheFile
<1> QED BY <1>1, FilesAppliedLine

\* The pages' edits reach the list of applications and the settings, and neither of the
\* two that write the state file loses what the other has there: confighttp.cpp,
\* httpcommon.cpp, config.cpp and nvhttp.cpp, for any users, clients, applications,
\* options and command lines, and any number of saves.
THEOREM SavesAreKept == Spec => []WhatIsSavedIsKept
<1>1. (part = "files" => Files!IInv) /\ (part = "state" => State!IInv) => WhatIsSavedIsKept
  BY FilesEditsAreLocal, FilesSettings, StateIsKept DEF WhatIsSavedIsKept, Files!IInv, State!IInv
<1> QED BY <1>1, FilesInvariant, StateInvariant, PTL

-----------------------------------------------------------------------------
(* Program: what is announced is taken back before the program ends.       *)

\* At the start nothing is announced and no timer is set.
LEMMA ProgInit == Prog!Init => Prog!IInv
<1> SUFFICES ASSUME Prog!Init PROVE Prog!IInv
  OBVIOUS
<1>b. v3 \in BOOLEAN /\ v5 \in BOOLEAN
  BY Zenon DEF Prog!Init
<1> QED BY <1>b, ProgramAssumption DEF Prog!Init, Prog!IInv, Prog!TypeOK, Prog!AnnouncementsSettle,
      Prog!TimerIsRemembered, Prog!EntryIsNamed, Prog!ServersEndTogether, Prog!ServiceIsPublished

\* There is a least name that is free, for one who has a name up to the last.
LEMMA ProgNames ==
    ASSUME NEW a \in 0 .. MaxName,
           NEW F, F = {n \in a .. MaxName : n \notin Taken["here"]}
    PROVE  \E n \in F : n \in 0 .. MaxName /\ n \notin Taken["here"] /\ \A m \in F : n <= m
<1>1. MaxName \in F /\ F \subseteq Nat
  BY ProgramAssumption
<1>2. PICK n \in F : \A m \in F : n <= m
  BY <1>1, LeastElement
<1> QED BY <1>2, ProgramAssumption

\* The name that is taken is free.
LEMMA ProgNameToTake ==
    ASSUME NEW a \in 0 .. MaxName
    PROVE  Prog!NameToTake(a) \in 0 .. MaxName /\ Prog!NameToTake(a) \notin Taken["here"]
<1>1. \E n \in Prog!FreeNames(a) : \A m \in Prog!FreeNames(a) : n <= m
  BY ProgNames DEF Prog!FreeNames
<1>2. Prog!NameToTake(a) \in Prog!FreeNames(a)
  BY <1>1 DEF Prog!NameToTake
<1> QED BY <1>2, ProgramAssumption DEF Prog!FreeNames

\* A signal has a timer of its own.
LEMMA ProgTimers ==
    ASSUME NEW n \in Nat, NEW T \in SUBSET (1 .. n)
    PROVE  T \cup {n + 1} \subseteq 1 .. (n + 1)
OBVIOUS

\* No step of a thread breaks the invariant: one case for each action.
LEMMA ProgStep == Prog!IInv /\ Prog!Next => Prog!IInv'
<1> SUFFICES ASSUME Prog!IInv, Prog!Next PROVE Prog!IInv'
  OBVIOUS
<1>b. (v3 \in BOOLEAN /\ v5 \in BOOLEAN)'
  BY Zenon DEF Prog!IInv, Prog!TypeOK, Prog!Next, Prog!Main, Prog!Upnp, Prog!Mdns,
    Prog!mainVars, Prog!upnpVars, Prog!mdnsVars, Prog!ToldBy, Prog!Spawn, Prog!Peek,
      Prog!JoinAll, Prog!Guard, Prog!Enter, Prog!Abort, Prog!MapPort, Prog!HostCollides,
        Prog!EntryEstablished, Prog!Fails, Prog!Ask, Prog!Unmap, Prog!RefusePort, Prog!Throw,
          Prog!Serve, Prog!Prepare, Prog!RtpEnds, Prog!Unpublish, Prog!Signal, Prog!Discover,
            Prog!StartLoop, Prog!HostRuns, Prog!EntryCollides, Prog!Answer, Prog!Bind
<1> USE ProgramAssumption DEF Prog!IInv, Prog!TypeOK, Prog!AnnouncementsSettle,
      Prog!TimerIsRemembered, Prog!EntryIsNamed, Prog!ServersEndTogether,
      Prog!ServiceIsPublished, Prog!Main, Prog!Upnp, Prog!Mdns, Prog!mainVars, Prog!upnpVars,
      Prog!mdnsVars, Prog!Servers
<1>1. CASE Prog!Spawn
  BY <1>1, <1>b DEF Prog!Spawn
<1>2. CASE Prog!Peek
  BY <1>2, <1>b DEF Prog!Peek
<1>3. CASE Prog!JoinAll
  BY <1>3, <1>b DEF Prog!JoinAll
<1>4. CASE Prog!Guard
  <2>1. CASE v9
    <3>1. /\ v2 = "guard" /\ v2' = "enter" /\ v6' = v6 \ {v7} /\ v9'
          /\ UNCHANGED <<v1, v3, v4, v5, v7, v8, v11, v12, v13, v14, v15, v16, v17, v18>>
      BY <1>4, <2>1 DEF Prog!Guard, Prog!Cancelled
    <3>2. v8 = 1 => v6' = {}
      BY <3>1
    <3> QED BY <2>1, <3>1, <3>2, <1>b
  <2>2. CASE ~v9
    <3>1. /\ v2 = "guard" /\ v2' = "done" /\ ~v9'
          /\ UNCHANGED <<v1, v3, v4, v6, v7, v8, v11, v12, v13, v14, v15, v16, v17, v18>>
      BY <1>4, <2>2 DEF Prog!Guard
    <3> QED BY <3>1, <1>b
  <2> QED BY <2>1, <2>2
<1>5. CASE Prog!Enter
  BY <1>5, <1>b DEF Prog!Enter
<1>6. CASE Prog!Abort
  BY <1>6, <1>b DEF Prog!Abort
<1>7. CASE Prog!MapPort
  BY <1>7, <1>b DEF Prog!MapPort
<1>8. CASE Prog!HostCollides
  BY <1>8, <1>b DEF Prog!HostCollides
<1>9. CASE Prog!EntryEstablished
  BY <1>9, <1>b DEF Prog!EntryEstablished
<1>10. CASE Prog!Fails
  BY <1>10, <1>b DEF Prog!Fails
<1>11. CASE Prog!Ask
  BY <1>11, <1>b DEF Prog!Ask
<1>12. ASSUME NEW n \in 0 .. Ports, Prog!Unmap(n) PROVE Prog!IInv'
  <2>1. /\ v2 = "unmap" /\ v2' = "unpublish" /\ v11' = "nothing" /\ v12' = n
        /\ v11 \in {"none", "mapped", "nothing"} /\ n \in 0 .. v12
        /\ v11 # "mapped" => n = v12
        /\ UNCHANGED <<v1, v3, v4, v5, v6, v7, v8, v9, v14, v15, v16, v17, v18>>
    BY <1>12 DEF Prog!Unmap, Prog!Settled
  <2>2. v13 => v13'
    BY <1>12 DEF Prog!Unmap
  <2>3. v11 = "mapped" /\ n > 0 => v13'
    BY <1>12 DEF Prog!Unmap
  <2>4. n = 0 \/ v13'
    BY <2>1, <2>2, <2>3
  <2>5. Prog!TypeOK' /\ Prog!AnnouncementsSettle'
    BY <2>1, <2>4, <1>b
  <2>6. Prog!TimerIsRemembered' /\ Prog!EntryIsNamed' /\ Prog!ServersEndTogether'
        /\ Prog!ServiceIsPublished'
    BY <2>1
  <2> QED BY <2>5, <2>6
<1>13. ASSUME NEW n \in 0 .. Ports, Prog!RefusePort(n) PROVE Prog!IInv'
  <2>1. /\ v11 = "mapping" /\ v11' = "nothing" /\ v12' = n /\ n \in 0 .. v12
        /\ UNCHANGED <<v1, v2, v3, v4, v5, v6, v7, v8, v9, v14, v15, v16, v17, v18>>
    BY <1>13 DEF Prog!RefusePort, Prog!RemovedAfterFailure
  <2>2. n > 0 => v13'
    BY <1>13 DEF Prog!RefusePort
  <2>3. n = 0 \/ v13'
    BY <2>1, <2>2
  <2>4. Prog!TypeOK' /\ Prog!AnnouncementsSettle'
    BY <2>1, <2>3, <1>b
  <2>5. Prog!TimerIsRemembered' /\ Prog!EntryIsNamed' /\ Prog!ServersEndTogether'
        /\ Prog!ServiceIsPublished'
    BY <2>1
  <2> QED BY <2>4, <2>5
<1>14. ASSUME NEW s \in Prog!Servers, Prog!Throw(s) PROVE Prog!IInv'
  BY <1>14, <1>b DEF Prog!Throw, Prog!ToldBy
<1>15. ASSUME NEW s \in Prog!Servers, Prog!Serve(s) PROVE Prog!IInv'
  BY <1>15, <1>b DEF Prog!Serve
<1>16. ASSUME NEW ok \in BOOLEAN, Prog!Prepare(ok) PROVE Prog!IInv'
  BY <1>16, <1>b DEF Prog!Prepare
<1>17. ASSUME NEW ok \in BOOLEAN, Prog!RtpEnds(ok) PROVE Prog!IInv'
  BY <1>17, <1>b DEF Prog!RtpEnds, Prog!ToldBy
<1>18. ASSUME NEW ok \in BOOLEAN, Prog!Unpublish(ok) PROVE Prog!IInv'
  BY <1>18, <1>b DEF Prog!Unpublish, Prog!Settled
<1>19. ASSUME NEW ok \in BOOLEAN, Prog!Signal(ok) PROVE Prog!IInv'
  <2>1. /\ v8' = v8 + 1 /\ v6' = v6 \cup {v8 + 1} /\ v7' = v8 + 1 /\ v3'
        /\ UNCHANGED <<v1, v2, v4, v5, v11, v12, v13, v14, v15, v16, v17, v18>>
    BY <1>19 DEF Prog!Signal
  <2>2. v8 = v7 /\ v8 \in Nat /\ (v2 = "enter" => v8 > 0)
    OBVIOUS
  <2>3. v2 = "enter" => v9'
    BY <1>19 DEF Prog!Signal
  <2>a. v6' \subseteq 1 .. v8' /\ v7' \in 0 .. v8'
    <3>1. v6 \in SUBSET (1 .. v8)
      OBVIOUS
    <3>2. v6 \cup {v8 + 1} \subseteq 1 .. (v8 + 1)
      BY <2>2, <3>1, ProgTimers
    <3>3. v8 + 1 \in 0 .. (v8 + 1)
      BY <2>2
    <3> QED BY <2>1, <3>2, <3>3, Zenon
  <2>b. (/\ v4 \in [{"http", "config"} -> {"none", "starting", "serving", "ended"}]
         /\ v12 \in 0 .. Ports /\ v18 \in 0 .. MaxName)'
    BY <2>1
  <2>c. Prog!TypeOK'
    BY <2>a, <2>b, <1>b
  <2>4. Prog!AnnouncementsSettle'
    BY <2>1
  <2>5. Prog!TimerIsRemembered'
    BY <2>1, <2>2, <2>3
  <2>6. Prog!EntryIsNamed' /\ Prog!ServersEndTogether' /\ Prog!ServiceIsPublished'
    BY <2>1
  <2> QED BY <2>c, <2>4, <2>5, <2>6
<1>20. ASSUME NEW ok \in BOOLEAN, Prog!Discover(ok) PROVE Prog!IInv'
  BY <1>20, <1>b DEF Prog!Discover
<1>21. ASSUME NEW ok \in BOOLEAN, Prog!StartLoop(ok) PROVE Prog!IInv'
  <2>1. /\ v1 = "linux" /\ v14 = "starting" /\ v14' \in {"on", "nothing"}
        /\ v15' = "runs" => v14' = "on"
        /\ UNCHANGED <<v1, v2, v3, v4, v5, v6, v7, v8, v9, v11, v12, v13, v16, v17, v18>>
    BY <1>21 DEF Prog!StartLoop
  <2>2. ~v16 /\ v17 = "none"
    BY <2>1
  <2>3. Prog!TypeOK' /\ Prog!AnnouncementsSettle' /\ Prog!TimerIsRemembered'
        /\ Prog!ServersEndTogether'
    BY <2>1, <1>b
  <2>4. Prog!EntryIsNamed' /\ Prog!ServiceIsPublished'
    BY <2>1, <2>2
  <2> QED BY <2>3, <2>4
<1>22. ASSUME NEW ok \in BOOLEAN, Prog!HostRuns(ok) PROVE Prog!IInv'
  <2>1. /\ v15 = "runs" /\ UNCHANGED <<v1, v2, v3, v4, v5, v6, v7, v8, v9, v11, v12, v13, v14>>
    BY <1>22 DEF Prog!HostRuns
  <2>2. Prog!CreateServices(ok)
    BY <1>22 DEF Prog!HostRuns
  <2>3. CASE ok
    <3>1. /\ v15' = v15
          /\ v17 \in {"none", "empty"} => v18' = Prog!NameToTake(v18) /\ v17' = "committed"
          /\ v17 \notin {"none", "empty"} => v18' = v18 /\ v17' = v17
      BY <2>2, <2>3 DEF Prog!CreateServices
    <3>2. Prog!NameToTake(v18) \in 0 .. MaxName /\ Prog!NameToTake(v18) \notin Taken["here"]
      BY ProgNameToTake
    <3> QED BY <2>1, <3>1, <3>2, <1>b
  <2>4. CASE ~ok
    <3>1. v15' = "quit" /\ v17' \in {"none", "empty"} /\ v18' = v18
      BY <2>2, <2>4 DEF Prog!CreateServices
    <3> QED BY <2>1, <3>1, <1>b
  <2> QED BY <2>3, <2>4
<1>23. ASSUME NEW ok \in BOOLEAN, Prog!EntryCollides(ok) PROVE Prog!IInv'
  <2>1. /\ v15 = "runs" /\ v17 = "committed" /\ v18 \in Taken["network"]
        /\ UNCHANGED <<v1, v2, v3, v4, v5, v6, v7, v8, v9, v11, v12, v13, v14, v16>>
        /\ v18' = Prog!NameToTake(v18 + 1)
        /\ (v17' = v17 /\ v15' = v15) \/ (v17' = "empty" /\ v15' = "quit")
    BY <1>23 DEF Prog!EntryCollides
  <2>2. v18 + 1 \in 0 .. MaxName
    BY <2>1
  <2>6. v18' \in 0 .. MaxName /\ v18' \notin Taken["here"]
    BY <2>1, <2>2, ProgNameToTake
  <2>7. Prog!TypeOK'
    BY <2>1, <2>6, <1>b
  <2>8. Prog!AnnouncementsSettle' /\ Prog!TimerIsRemembered' /\ Prog!ServersEndTogether'
    BY <2>1
  <2>9. Prog!EntryIsNamed' /\ Prog!ServiceIsPublished'
    BY <2>1, <2>6
  <2> QED BY <2>7, <2>8, <2>9
<1>24. ASSUME NEW ok \in BOOLEAN, Prog!Answer(ok) PROVE Prog!IInv'
  BY <1>24, <1>b DEF Prog!Answer
<1>25. ASSUME NEW s \in Prog!Servers, NEW ok \in BOOLEAN, Prog!Bind(s, ok) PROVE Prog!IInv'
  <2>1. /\ v4' = [v4 EXCEPT ![s] = IF ok THEN "serving" ELSE "ended"]
        /\ UNCHANGED <<v1, v2, v5, v6, v7, v8, v9, v11, v12, v13, v14, v15, v16, v17, v18>>
    BY <1>25 DEF Prog!Bind
  <2>2. (v3 => v3') /\ (~ok => v3')
    BY <1>25, Zenon DEF Prog!Bind, Prog!ToldBy
  <2>3. Prog!TypeOK' /\ Prog!AnnouncementsSettle' /\ Prog!TimerIsRemembered'
        /\ Prog!EntryIsNamed' /\ Prog!ServiceIsPublished'
    BY <2>1, <1>b
  <2>4. Prog!ServersEndTogether'
    <3>1. v4[s] \in {"none", "starting", "serving", "ended"}
      OBVIOUS
    <3>2. \A t \in Prog!Servers : v4'[t] = "ended" => v4[t] = "ended" \/ ~ok
      BY <2>1
    <3> QED BY <2>1, <2>2, <3>2
  <2> QED BY <2>3, <2>4
<1> QED
  BY <1>1, <1>2, <1>3, <1>4, <1>5, <1>6, <1>7, <1>8, <1>9, <1>10, <1>11, <1>12, <1>13, <1>14,
    <1>15, <1>16, <1>17, <1>18, <1>19, <1>20, <1>21, <1>22, <1>23, <1>24, <1>25 DEF Prog!Next

\* The invariant of Program holds always.
LEMMA ProgInvariant == Spec => [](part = "program" => Prog!IInv)
<1>1. Init => (part = "program" => Prog!IInv)
  BY StartOfAPart, ProgInit
<1>2. (part = "program" => Prog!IInv) /\ [Next]_vars => (part = "program" => Prog!IInv)'
  <2>1. Prog!IInv /\ UNCHANGED vars => Prog!IInv'
    BY DEF vars, Prog!IInv, Prog!TypeOK, Prog!AnnouncementsSettle, Prog!TimerIsRemembered,
      Prog!EntryIsNamed, Prog!ServersEndTogether, Prog!ServiceIsPublished, Prog!Servers
  <2> QED BY <2>1, StepOfAPart, ProgStep
<1> QED BY <1>1, <1>2, PTL DEF Spec

\* The servers and the RTSP loop end together, ports and service are taken back, and no
\* timer aborts a program that waits for a key: main.cpp, upnp.cpp, publish.cpp, for any
\* number of ports and signals and any names that others have.
THEOREM EndsWhole == Spec => []ProgramEndsWhole
<1>1. Prog!IInv => Prog!PortsAreReturned /\ Prog!LoopEndsInTime /\ Prog!KeyIsNotTimed
  <2> SUFFICES ASSUME Prog!IInv
               PROVE  Prog!PortsAreReturned /\ Prog!LoopEndsInTime /\ Prog!KeyIsNotTimed
    OBVIOUS
  <2>1. Prog!PortsAreReturned
    <3> SUFFICES ASSUME v2 \in {"guard", "enter", "done"} PROVE v12 = 0 \/ v13
      BY DEF Prog!PortsAreReturned
    <3>1. v11 \in {"none", "nothing"}
      BY DEF Prog!IInv, Prog!AnnouncementsSettle
    <3> QED BY <3>1, Zenon DEF Prog!IInv, Prog!AnnouncementsSettle
  <2>2. Prog!LoopEndsInTime
    BY DEF Prog!IInv, Prog!AnnouncementsSettle, Prog!LoopEndsInTime
  <2>3. Prog!KeyIsNotTimed
    BY DEF Prog!IInv, Prog!TimerIsRemembered, Prog!KeyIsNotTimed
  <2> QED BY <2>1, <2>2, <2>3
<1>2. (part = "program" => Prog!IInv) => ProgramEndsWhole
  BY <1>1 DEF ProgramEndsWhole, Prog!IInv
<1> QED BY <1>2, ProgInvariant, PTL

-----------------------------------------------------------------------------
(* Pairing: a session is its client's, and who was told that it is paired  *)
(* is known and accepted.                                                  *)

PairPhases == {"idle", "waiting", "got", "challenged", "responded"}
PairRecords ==
    [cert : PairDevices, salt : PairDevices, asks : PairDevices \cup {Nil},
     key : PairDevices \cup {Nil, "none"}, challenge : PairDevices \cup {Nil},
     hash : PairDevices \cup {Nil, "none"}]

\* What the invariant says of the sessions, and what it says of the store.
PairSessions ==
    /\ v1 \in [PairDevices -> PairPhases] /\ DOMAIN v2 \subseteq Pair!Ids
    /\ \A i \in DOMAIN v2 : v2[i] \in PairRecords /\ IdOf[v2[i].cert] = i
    /\ Pair!SessionsAreTheirs /\ Pair!OnlyRivalsDisturb

PairStores ==
    /\ v3 \in [Pair!Ids -> SUBSET PairDevices] /\ v6 \in Seq(PairDevices) /\ Len(v6) <= PairCapacity
    /\ v4 \in {Nil, Torn} \cup [Pair!Ids -> SUBSET PairDevices]
    /\ v4 \notin {Nil, Torn} => \A i \in Pair!Ids : \A c \in v4[i] : IdOf[c] = i
    /\ \A i \in Pair!Ids : \A c \in v3[i] : IdOf[c] = i
    /\ Pair!PairedAreKnown /\ Pair!PairedAreAccepted /\ Pair!StoreIsOnDisk

\* The invariant is about the sessions and about the store.
LEMMA PairParts == Pair!IInv <=> PairSessions /\ PairStores
BY DEF Pair!IInv, Pair!TypeOK, Pair!CertsAreOfDevices, PairSessions, PairStores, PairPhases,
  PairRecords

\* A client has an id.
LEMMA PairIds == ASSUME NEW d \in PairDevices PROVE IdOf[d] \in Pair!Ids
BY DEF Pair!Ids

\* A session that is changed is the only one.
LEMMA PairWith ==
    ASSUME NEW i, NEW s, v2' = Pair!With(i, s)
    PROVE  /\ DOMAIN v2' = DOMAIN v2 \cup {i} /\ v2'[i] = s
           /\ \A j \in DOMAIN v2 : j # i => v2'[j] = v2[j]
BY DEF Pair!With

\* A client that goes on is the only one.
LEMMA PairTurn ==
    ASSUME NEW d \in PairDevices, NEW p \in PairPhases, v1 \in [PairDevices -> PairPhases],
           Pair!Turn(d, p)
    PROVE  /\ v1' \in [PairDevices -> PairPhases] /\ v1'[d] = p
           /\ \A e \in PairDevices : e # d => v1'[e] = v1[e]
BY DEF Pair!Turn

\* Clients that have come somewhere with the same id, alone, are one.
LEMMA PairOne ==
    ASSUME PairSessions, ~v10, NEW d \in PairDevices, v1[d] # "idle"
    PROVE  /\ IdOf[d] \in DOMAIN v2 /\ v2[IdOf[d]].cert = d
           /\ v2[IdOf[d]].salt = d /\ v2[IdOf[d]].asks \in {d, Nil}
           /\ \A e \in PairDevices : v1[e] # "idle" /\ IdOf[e] = IdOf[d] => e = d
BY DEF PairSessions, Pair!SessionsAreTheirs

\* A session that is changed leaves the others' alone.
LEMMA PairOthers ==
    ASSUME PairSessions, NEW d \in PairDevices, NEW s \in PairRecords,
           IdOf[s.cert] = IdOf[d], v2' = Pair!With(IdOf[d], s),
           v1' \in [PairDevices -> PairPhases],
           \A e \in PairDevices : e # d => v1'[e] = v1[e],
           ~v10' => /\ ~v10 /\ s.cert = d /\ s.salt = d /\ s.asks \in {d, Nil}
                    /\ v1'[d] \in {"got", "challenged", "responded"} => s.key = d
                    /\ v1'[d] \in {"challenged", "responded"} => s.challenge = d
                    /\ v1'[d] = "responded" => s.hash = d
                    /\ \A e \in PairDevices : v1[e] # "idle" /\ IdOf[e] = IdOf[d] => e = d,
           v11' => v10'
    PROVE  PairSessions'
<1>1. /\ DOMAIN v2' = DOMAIN v2 \cup {IdOf[d]} /\ v2'[IdOf[d]] = s
      /\ \A j \in DOMAIN v2 : j # IdOf[d] => v2'[j] = v2[j]
  BY PairWith
<1>2. DOMAIN v2' \subseteq Pair!Ids
  BY <1>1, PairIds DEF PairSessions
<1>3. \A i \in DOMAIN v2' : v2'[i] \in PairRecords /\ IdOf[v2'[i].cert] = i
  BY <1>1 DEF PairSessions
<1>4. Pair!SessionsAreTheirs'
  <2> SUFFICES ASSUME ~v10' PROVE Pair!SessionsAreTheirs'
    BY DEF Pair!SessionsAreTheirs
  <2>1. \A i \in DOMAIN v2' : v2'[i].salt = v2'[i].cert /\ v2'[i].asks \in {v2'[i].cert, Nil}
    BY <1>1 DEF PairSessions, Pair!SessionsAreTheirs
  <2>2. ASSUME NEW e \in PairDevices, v1'[e] # "idle"
        PROVE  /\ IdOf[e] \in DOMAIN v2' /\ v2'[IdOf[e]].cert = e
               /\ v1'[e] \in {"got", "challenged", "responded"} => v2'[IdOf[e]].key = e
               /\ v1'[e] \in {"challenged", "responded"} => v2'[IdOf[e]].challenge = e
               /\ v1'[e] = "responded" => v2'[IdOf[e]].hash = e
    <3>1. CASE e = d
      BY <1>1, <3>1
    <3>2. CASE e # d
      <4>1. v1[e] # "idle" /\ v1'[e] = v1[e] /\ IdOf[e] # IdOf[d]
        BY <2>2, <3>2
      <4>2. IdOf[e] \in DOMAIN v2 /\ v2'[IdOf[e]] = v2[IdOf[e]]
        BY <1>1, <4>1, PairOne
      <4> QED BY <1>1, <4>1, <4>2 DEF PairSessions, Pair!SessionsAreTheirs
    <3> QED BY <3>1, <3>2
  <2> QED BY <2>1, <2>2 DEF Pair!SessionsAreTheirs
<1> QED BY <1>2, <1>3, <1>4 DEF PairSessions, Pair!OnlyRivalsDisturb

\* No step breaks what is said of the sessions: one case for each action.
LEMMA PairSessionsStep == PairSessions /\ Pair!Next => PairSessions'
<1> SUFFICES ASSUME PairSessions, Pair!Next PROVE PairSessions'
  OBVIOUS
<1>t. v1 \in [PairDevices -> PairPhases]
  BY DEF PairSessions
<1>u. ~v11
  BY DEF Pair!Next
<1>1. ASSUME NEW d \in PairDevices, Pair!GetServerCert(d) PROVE PairSessions'
  <2> DEFINE s == Pair!AfterAsk(d)
  <2>1. /\ v1[d] = "idle" /\ v2' = Pair!With(IdOf[d], s) /\ v11' = v11
        /\ Pair!Turn(d, "waiting")
    BY <1>1 DEF Pair!GetServerCert
  <2>2. ~v10' => ~v10 /\ s.cert = d
    BY <1>1, Zenon DEF Pair!GetServerCert
  <2>3. /\ s \in PairRecords /\ IdOf[s.cert] = IdOf[d] /\ s.salt = d /\ s.asks = d
        /\ IdOf[d] \in DOMAIN v2 => s.cert = v2[IdOf[d]].cert
    <3> DEFINE o == IF IdOf[d] \in DOMAIN v2 THEN v2[IdOf[d]]
                    ELSE [cert |-> d, salt |-> d, asks |-> d, key |-> Nil, challenge |-> Nil, hash |-> Nil]
    <3>1. s = [o EXCEPT !.salt = d, !.asks = d]
      BY DEF Pair!AfterAsk
    <3>2. /\ o \in PairRecords /\ IdOf[o.cert] = IdOf[d]
          /\ IdOf[d] \in DOMAIN v2 => o.cert = v2[IdOf[d]].cert
      <4>1. CASE IdOf[d] \in DOMAIN v2
        BY <4>1 DEF PairSessions
      <4>2. CASE IdOf[d] \notin DOMAIN v2
        BY <4>2 DEF PairRecords
      <4> QED BY <4>1, <4>2
    <3> HIDE DEF o, s
    <3> QED BY <3>1, <3>2 DEF PairRecords
  <2> HIDE DEF s
  <2>4. ASSUME ~v10', NEW e \in PairDevices, v1[e] # "idle", IdOf[e] = IdOf[d] PROVE e = d
    BY <2>2, <2>3, <2>4, PairOne
  <2>5. /\ v1' \in [PairDevices -> PairPhases] /\ v1'[d] = "waiting"
        /\ \A e \in PairDevices : e # d => v1'[e] = v1[e]
    BY <2>1, <1>t, PairTurn DEF PairPhases
  <2> QED BY <1>u, <2>1, <2>2, <2>3, <2>4, <2>5, PairOthers
<1>2. ASSUME NEW d \in PairDevices, NEW i \in Pair!Ids, Pair!Pin(d, i) PROVE PairSessions'
  <2> DEFINE s == Pair!KeyOf(d, v2[i])
             a == v2[i].asks
  <2>1. /\ v1[d] = "waiting" /\ i \in DOMAIN v2 /\ v2' = Pair!With(i, s) /\ v11' = v11
        /\ v1' = [e \in PairDevices |-> IF e = a /\ v1[e] = "waiting" THEN "got" ELSE v1[e]]
    BY <1>2 DEF Pair!Pin
  <2>2. ~v10' => ~v10 /\ v2[i].salt = d
    BY <1>2, Zenon DEF Pair!Pin
  <2>3. /\ s \in PairRecords /\ s.cert = v2[i].cert /\ s.salt = v2[i].salt /\ s.asks = Nil
        /\ s.salt = d => s.key = d
        /\ IdOf[v2[i].cert] = i /\ v2[i].cert \in PairDevices
    <3>1. v2[i] \in PairRecords /\ IdOf[v2[i].cert] = i
      BY <2>1 DEF PairSessions
    <3>2. /\ s = [v2[i] EXCEPT !.key = IF v2[i].salt = d THEN d ELSE "none", !.asks = Nil]
      BY DEF Pair!KeyOf
    <3> HIDE DEF s
    <3> QED BY <3>1, <3>2 DEF PairRecords
  <2>4. v1' \in [PairDevices -> PairPhases]
    BY <2>1, <1>t DEF PairPhases
  <2>5. ~v10' => v2[i].cert = d /\ a \in {d, Nil}
    BY <2>1, <2>2 DEF PairSessions, Pair!SessionsAreTheirs
  <2> HIDE DEF s
  <2>6. CASE v10'
    <3>1. /\ DOMAIN v2' = DOMAIN v2 \cup {i} /\ v2'[i] = s
          /\ \A j \in DOMAIN v2 : j # i => v2'[j] = v2[j]
      BY <2>1, PairWith
    <3> QED BY <2>3, <2>4, <2>6, <3>1 DEF PairSessions, Pair!SessionsAreTheirs,
      Pair!OnlyRivalsDisturb
  <2>7. CASE ~v10'
    <3>1. i = IdOf[d] /\ ~v10
      BY <2>2, <2>3, <2>5, <2>7
    <3>2. \A e \in PairDevices : e # d => v1'[e] = v1[e]
      BY <2>1, <2>5, <2>7, PairAssumption
    <3>3. \A e \in PairDevices : v1[e] # "idle" /\ IdOf[e] = IdOf[d] => e = d
      BY <2>1, <3>1, PairOne
    <3>4. v1'[d] \in {"waiting", "got"}
      BY <2>1
    <3> QED BY <1>u, <2>1, <2>2, <2>3, <2>4, <2>5, <2>7, <3>1, <3>2, <3>3, <3>4, PairOthers
  <2> QED BY <2>6, <2>7
<1>3. ASSUME NEW d \in PairDevices, Pair!Challenge(d) PROVE PairSessions'
  <2> DEFINE s == [v2[IdOf[d]] EXCEPT !.challenge = d]
             p == IF v2[IdOf[d]].key = d THEN "challenged" ELSE "idle"
  <2>1. /\ v1[d] = "got" /\ IdOf[d] \in DOMAIN v2 /\ v2' = Pair!With(IdOf[d], s)
        /\ Pair!Turn(d, p) /\ v10' = v10 /\ v11' = v11
    BY <1>3 DEF Pair!Challenge, Pair!Found
  <2>2. /\ s \in PairRecords /\ s.cert = v2[IdOf[d]].cert /\ s.salt = v2[IdOf[d]].salt
        /\ s.asks = v2[IdOf[d]].asks /\ s.challenge = d /\ s.key = v2[IdOf[d]].key
        /\ IdOf[s.cert] = IdOf[d]
    BY <2>1 DEF PairSessions, PairRecords
  <2> HIDE DEF s
  <2>3. p \in PairPhases /\ p \in {"challenged", "idle"} /\ (p = "challenged" => v2[IdOf[d]].key = d)
    BY DEF PairPhases
  <2> HIDE DEF p
  <2>4. /\ v1' \in [PairDevices -> PairPhases] /\ v1'[d] = p
        /\ \A e \in PairDevices : e # d => v1'[e] = v1[e]
    BY <2>1, <2>3, <1>t, PairTurn
  <2>5. ~v10 => /\ v2[IdOf[d]].cert = d
                /\ v2[IdOf[d]].salt = d /\ v2[IdOf[d]].asks \in {d, Nil}
                /\ \A e \in PairDevices : v1[e] # "idle" /\ IdOf[e] = IdOf[d] => e = d
    BY <2>1, PairOne
  <2> QED BY <1>u, <2>1, <2>2, <2>3, <2>4, <2>5, PairOthers
<1>4. ASSUME NEW d \in PairDevices, Pair!ChallengeResponse(d) PROVE PairSessions'
  <2> DEFINE s == [v2[IdOf[d]] EXCEPT !.hash = v2[IdOf[d]].key]
  <2>1. /\ v1[d] = "challenged" /\ IdOf[d] \in DOMAIN v2 /\ v2' = Pair!With(IdOf[d], s)
        /\ Pair!Turn(d, "responded") /\ v10' = v10 /\ v11' = v11
    BY <1>4 DEF Pair!ChallengeResponse, Pair!Found
  <2>2. /\ s \in PairRecords /\ s.cert = v2[IdOf[d]].cert /\ s.salt = v2[IdOf[d]].salt
        /\ s.asks = v2[IdOf[d]].asks /\ s.challenge = v2[IdOf[d]].challenge
        /\ s.key = v2[IdOf[d]].key /\ s.hash = v2[IdOf[d]].key
        /\ IdOf[s.cert] = IdOf[d]
    BY <2>1 DEF PairSessions, PairRecords
  <2> HIDE DEF s
  <2>3. /\ v1' \in [PairDevices -> PairPhases] /\ v1'[d] = "responded"
        /\ \A e \in PairDevices : e # d => v1'[e] = v1[e]
    BY <2>1, <1>t, PairTurn DEF PairPhases
  <2>4. ~v10 => /\ v2[IdOf[d]].cert = d
                /\ v2[IdOf[d]].salt = d /\ v2[IdOf[d]].asks \in {d, Nil}
                /\ \A e \in PairDevices : v1[e] # "idle" /\ IdOf[e] = IdOf[d] => e = d
    BY <2>1, PairOne
  <2>5. ~v10 => v2[IdOf[d]].key = d /\ v2[IdOf[d]].challenge = d
    BY <2>1 DEF PairSessions, Pair!SessionsAreTheirs
  <2> QED BY <1>u, <2>1, <2>2, <2>3, <2>4, <2>5, PairOthers
<1>5. ASSUME NEW d \in PairDevices, Pair!PairingSecret(d) PROVE PairSessions'
  <2>1. /\ v1[d] = "responded" /\ v2' = Pair!Without(IdOf[d]) /\ Pair!Turn(d, "idle")
        /\ v10' = v10 /\ v11' = v11
    BY <1>5 DEF Pair!PairingSecret
  <2>2. /\ v1' \in [PairDevices -> PairPhases] /\ v1'[d] = "idle"
        /\ \A e \in PairDevices : e # d => v1'[e] = v1[e]
    BY <2>1, <1>t, PairTurn DEF PairPhases
  <2>3. DOMAIN v2' = DOMAIN v2 \ {IdOf[d]} /\ \A j \in DOMAIN v2' : v2'[j] = v2[j]
    BY <2>1 DEF Pair!Without
  <2>4. ~v10 => \A e \in PairDevices : v1[e] # "idle" /\ IdOf[e] = IdOf[d] => e = d
    BY <2>1, PairOne
  <2>5. ~v10 => \A e \in PairDevices :
                  v1'[e] # "idle" => v1'[e] = v1[e] /\ v2'[IdOf[e]] = v2[IdOf[e]]
                                     /\ IdOf[e] \in DOMAIN v2'
    BY <2>2, <2>3, <2>4, PairOne
  <2>6. Pair!SessionsAreTheirs'
    BY <2>1, <2>3, <2>5 DEF PairSessions, Pair!SessionsAreTheirs
  <2> QED BY <2>1, <2>2, <2>3, <2>6 DEF PairSessions, Pair!OnlyRivalsDisturb
<1>6. ASSUME NEW d \in PairDevices, Pair!Broken(d) PROVE PairSessions'
  <2>1. /\ v1[d] \in {"got", "challenged", "responded"} /\ UNCHANGED <<v1, v2, v10>>
        /\ Pair!Found(d) => v1[d] = "responded" /\ ~Pair!HashIsCorrect(d)
    BY <1>6 DEF Pair!Broken
  <2>2. ASSUME ~v10 PROVE FALSE
    <3>1. /\ v2[IdOf[d]].cert = d /\ v2[IdOf[d]].key = d /\ IdOf[d] \in DOMAIN v2
          /\ v1[d] = "responded" => v2[IdOf[d]].challenge = d /\ v2[IdOf[d]].hash = d
      BY <2>1, <2>2 DEF PairSessions, Pair!SessionsAreTheirs
    <3> QED BY <2>1, <3>1, PairAssumption DEF Pair!Found, Pair!HashIsCorrect
  <2> QED BY <2>1, <2>2 DEF PairSessions, Pair!SessionsAreTheirs, Pair!OnlyRivalsDisturb
<1>7. ASSUME NEW d \in PairDevices, Pair!GiveUp(d) PROVE PairSessions'
  <2>1. Pair!Turn(d, "idle") /\ UNCHANGED <<v2, v10, v11>>
    BY <1>7 DEF Pair!GiveUp
  <2>2. /\ v1' \in [PairDevices -> PairPhases] /\ v1'[d] = "idle"
        /\ \A e \in PairDevices : e # d => v1'[e] = v1[e]
    BY <2>1, <1>t, PairTurn DEF PairPhases
  <2> QED BY <2>1, <2>2 DEF PairSessions, Pair!SessionsAreTheirs, Pair!OnlyRivalsDisturb
<1>8. CASE Pair!Connect \/ Pair!UnpairAll
  BY <1>8 DEF Pair!Connect, Pair!UnpairAll, PairSessions, Pair!SessionsAreTheirs,
    Pair!OnlyRivalsDisturb
<1>9. ASSUME NEW f, Pair!Restart(f) PROVE PairSessions'
  <2>1. v2' = <<>> /\ UNCHANGED <<v1, v11>>
    BY <1>9 DEF Pair!Restart
  <2>2. ~v10' => ~v10 /\ DOMAIN v2 = {}
    BY <1>9, Zenon DEF Pair!Restart
  <2>3. DOMAIN v2' = {}
    BY <2>1
  <2>4. ~v10' => \A e \in PairDevices : v1[e] = "idle"
    BY <2>2 DEF PairSessions, Pair!SessionsAreTheirs
  <2> QED BY <1>u, <2>1, <2>2, <2>3, <2>4 DEF PairSessions, Pair!SessionsAreTheirs,
    Pair!OnlyRivalsDisturb
<1> QED
  BY <1>1, <1>2, <1>3, <1>4, <1>5, <1>6, <1>7, <1>8, <1>9 DEF Pair!Next

\* The certificates of a store are those of its ids.
LEMMA PairCerts == ASSUME NEW s, NEW c PROVE c \in Pair!CertsOf(s) <=> \E i \in Pair!Ids : c \in s[i]
BY DEF Pair!CertsOf

\* raise() loses certificates only if the queue is full.
LEMMA PairRaised ==
    ASSUME NEW d \in PairDevices, v6 \in Seq(PairDevices), Len(v6) <= PairCapacity
    PROVE  /\ Pair!Raised(d) \in Seq(PairDevices) /\ Len(Pair!Raised(d)) <= PairCapacity
           /\ d \in Pair!Waiting(Pair!Raised(d))
           /\ Len(v6) # PairCapacity => Pair!Waiting(v6) \subseteq Pair!Waiting(Pair!Raised(d))
<1>1. CASE Len(v6) = PairCapacity
  BY <1>1, PairAssumption DEF Pair!Raised, Pair!Waiting
<1>2. CASE Len(v6) # PairCapacity
  <2> DEFINE q == Append(v6, d)
  <2>1. Pair!Raised(d) = q
    BY <1>2 DEF Pair!Raised
  <2>2. /\ q \in Seq(PairDevices) /\ Len(q) = Len(v6) + 1 /\ q[Len(v6) + 1] = d
        /\ DOMAIN q = 1 .. (Len(v6) + 1) /\ DOMAIN v6 = 1 .. Len(v6)
        /\ \A n \in DOMAIN v6 : q[n] = v6[n]
    OBVIOUS
  <2> HIDE DEF q
  <2>3. Len(q) <= PairCapacity
    <3> DEFINE a == Len(v6)
               b == Len(q)
    <3>1. PairCapacity \in Nat /\ a \in Nat /\ a <= PairCapacity /\ a # PairCapacity
      <4>1. PairCapacity \in Nat
        BY PairAssumption, Zenon
      <4> QED BY <1>2, <4>1
    <3>2. b = a + 1
      BY <2>2, Zenon
    <3> HIDE DEF a, b
    <3>3. b <= PairCapacity
      BY <3>1, <3>2
    <3> QED BY <3>3, Zenon DEF b
  <2>4. d \in Pair!Waiting(q) /\ Pair!Waiting(v6) \subseteq Pair!Waiting(q)
    BY <2>2 DEF Pair!Waiting
  <2> QED BY <2>1, <2>2, <2>3, <2>4
<1> QED BY <1>1, <1>2

\* What is in a store is loaded again, unless the state is to be fresh.
LEMMA PairLoaded ==
    /\ Pair!Loaded(Nil) = Pair!NoCerts /\ Pair!Loaded(Torn) = Pair!NoCerts
    /\ FreshState => \A f : Pair!Loaded(f) = Pair!NoCerts
    /\ ~FreshState => \A f \in [Pair!Ids -> SUBSET PairDevices] : f \notin {Nil, Torn} /\ Pair!Loaded(f) = f
<1>1. \A f \in [Pair!Ids -> SUBSET PairDevices] : f \notin {Nil, Torn}
  BY PairAssumption DEF Pair!Ids
<1> QED BY <1>1 DEF Pair!Loaded

\* A store that is saved, or not.
LEMMA PairSaved ==
    ASSUME PairStores, NEW s \in [Pair!Ids -> SUBSET PairDevices],
           \A i \in Pair!Ids : \A c \in s[i] : IdOf[c] = i, v3' = s,
           (Pair!Saved(s)) \/ (FreshState /\ UNCHANGED <<v4, v8>>)
    PROVE  /\ v4' \in {Nil, Torn} \cup [Pair!Ids -> SUBSET PairDevices]
           /\ v4' \notin {Nil, Torn} => \A i \in Pair!Ids : \A c \in v4'[i] : IdOf[c] = i
           /\ Pair!StoreIsOnDisk'
<1>1. CASE FreshState
  <2>1. v4' = s \/ v4' = v4
    BY DEF Pair!Saved
  <2> QED BY <1>1, <2>1 DEF PairStores, Pair!StoreIsOnDisk
<1>2. CASE ~FreshState /\ v4' = s
  BY <1>2, PairLoaded DEF PairStores, Pair!StoreIsOnDisk
<1>3. CASE ~FreshState /\ v4' = v4 /\ v8'
  BY <1>3 DEF PairStores, Pair!StoreIsOnDisk
<1> QED BY <1>1, <1>2, <1>3, PairAssumption, Zenon DEF Pair!Saved

\* No step breaks what is said of the store: one case for each action that changes it.
LEMMA PairStoresStep == PairStores /\ Pair!Next => PairStores'
<1> SUFFICES ASSUME PairStores, Pair!Next PROVE PairStores'
  OBVIOUS
<1>1. CASE UNCHANGED <<v3, v4, v5, v6, v7, v8, v9>>
  BY <1>1 DEF PairStores, Pair!PairedAreKnown, Pair!PairedAreAccepted, Pair!StoreIsOnDisk
<1>2. ASSUME NEW d \in PairDevices, Pair!PairingSecret(d) PROVE PairStores'
  <2>1. /\ v6' = Pair!Raised(d) /\ v3' = Pair!StoreWith(d) /\ v7' = v7 \cup {d} /\ v5' = v5
        /\ Pair!Saved(v3') \/ (FreshState /\ UNCHANGED <<v4, v8>>)
    BY <1>2 DEF Pair!PairingSecret
  <2>2. (v9 => v9') /\ (Len(v6) = PairCapacity => v9')
    BY <1>2, Zenon DEF Pair!PairingSecret
  <2>3. /\ v3' \in [Pair!Ids -> SUBSET PairDevices]
        /\ d \in v3'[IdOf[d]] /\ \A i \in Pair!Ids : v3[i] \subseteq v3'[i]
        /\ \A i \in Pair!Ids : \A c \in v3'[i] : IdOf[c] = i
    BY <2>1, PairIds DEF PairStores, Pair!StoreWith
  <2>4. /\ v4' \in {Nil, Torn} \cup [Pair!Ids -> SUBSET PairDevices]
        /\ v4' \notin {Nil, Torn} => \A i \in Pair!Ids : \A c \in v4'[i] : IdOf[c] = i
        /\ Pair!StoreIsOnDisk'
    BY <2>1, <2>3, PairSaved
  <2>5. Pair!PairedAreKnown'
    BY <2>1, <2>3, PairIds, PairCerts DEF PairStores, Pair!PairedAreKnown
  <2>6. Pair!PairedAreAccepted'
    BY <2>1, <2>2, PairRaised DEF PairStores, Pair!PairedAreAccepted
  <2>7. v6' \in Seq(PairDevices) /\ Len(v6') <= PairCapacity
    BY <2>1, PairRaised DEF PairStores
  <2> QED BY <2>3, <2>4, <2>5, <2>6, <2>7 DEF PairStores
<1>3. CASE Pair!Connect
  <2>1. v5' = v5 \cup Pair!Waiting(v6) /\ v6' = <<>> /\ UNCHANGED <<v3, v4, v7, v8, v9>>
    BY <1>3 DEF Pair!Connect
  <2>2. Pair!PairedAreAccepted'
    BY <2>1 DEF PairStores, Pair!PairedAreAccepted
  <2>3. v6' \in Seq(PairDevices) /\ Len(v6') <= PairCapacity
    BY <2>1, PairAssumption
  <2> QED BY <2>1, <2>2, <2>3 DEF PairStores, Pair!PairedAreKnown, Pair!StoreIsOnDisk
<1>4. CASE Pair!UnpairAll
  <2>1. v3' = Pair!NoCerts /\ Pair!Saved(v3') /\ v7' = {} /\ UNCHANGED <<v5, v6, v9>>
    BY <1>4 DEF Pair!UnpairAll
  <2>2. v3' \in [Pair!Ids -> SUBSET PairDevices] /\ \A i \in Pair!Ids : v3'[i] = {}
    BY <2>1 DEF Pair!NoCerts
  <2>3. /\ v4' \in {Nil, Torn} \cup [Pair!Ids -> SUBSET PairDevices]
        /\ v4' \notin {Nil, Torn} => \A i \in Pair!Ids : \A c \in v4'[i] : IdOf[c] = i
        /\ Pair!StoreIsOnDisk'
    BY <2>1, <2>2, PairSaved
  <2> QED BY <2>1, <2>2, <2>3 DEF PairStores, Pair!PairedAreKnown, Pair!PairedAreAccepted
<1>5. ASSUME NEW f \in {v4, Torn}, Pair!Restart(f) PROVE PairStores'
  <2>1. /\ v4' = f /\ v3' = Pair!Loaded(f) /\ v5' = Pair!CertsOf(v3') /\ v6' = <<>> /\ ~v8'
        /\ v7' = IF f = Torn \/ FreshState \/ v8 THEN v7 \cap Pair!CertsOf(v3') ELSE v7
    BY <1>5 DEF Pair!Restart
  <2>2. f \in {Nil, Torn} \cup [Pair!Ids -> SUBSET PairDevices]
    BY DEF PairStores
  <2>3. v3' = Pair!NoCerts \/ (v3' = f /\ f \in [Pair!Ids -> SUBSET PairDevices] /\ f \notin {Nil, Torn})
    BY <2>1, <2>2, PairLoaded, PairAssumption, Zenon
  <2>4. /\ v3' \in [Pair!Ids -> SUBSET PairDevices]
        /\ \A i \in Pair!Ids : \A c \in v3'[i] : IdOf[c] = i
    BY <2>1, <2>3 DEF PairStores, Pair!NoCerts
  <2>5. v7' \subseteq Pair!CertsOf(v3')
    <3>1. CASE f = Torn \/ FreshState \/ v8
      BY <2>1, <3>1
    <3>2. CASE ~(f = Torn \/ FreshState \/ v8)
      <4>1. v3' = v3 /\ v7' = v7
        BY <2>1, <3>2 DEF PairStores, Pair!StoreIsOnDisk
      <4> QED BY <4>1 DEF PairStores, Pair!PairedAreKnown
    <3> QED BY <3>1, <3>2
  <2>6. Pair!PairedAreKnown' /\ Pair!PairedAreAccepted' /\ Pair!StoreIsOnDisk'
    BY <2>1, <2>5 DEF Pair!PairedAreKnown, Pair!PairedAreAccepted, Pair!StoreIsOnDisk
  <2>7. v6' \in Seq(PairDevices) /\ Len(v6') <= PairCapacity
    BY <2>1, PairAssumption
  <2>8. v4' \notin {Nil, Torn} => \A i \in Pair!Ids : \A c \in v4'[i] : IdOf[c] = i
    BY <2>1 DEF PairStores
  <2> QED BY <2>1, <2>2, <2>4, <2>6, <2>7, <2>8 DEF PairStores
<1>6. ASSUME NEW d \in PairDevices,
             \/ Pair!GetServerCert(d) \/ Pair!Challenge(d) \/ Pair!ChallengeResponse(d)
             \/ Pair!Broken(d) \/ Pair!GiveUp(d) \/ \E i \in Pair!Ids : Pair!Pin(d, i)
      PROVE  PairStores'
  BY <1>1, <1>6 DEF Pair!GetServerCert, Pair!Challenge, Pair!ChallengeResponse, Pair!Broken,
    Pair!GiveUp, Pair!Pin
<1> QED BY <1>2, <1>3, <1>4, <1>5, <1>6 DEF Pair!Next

\* At the start there is no session, and nobody is known.
LEMMA PairInit == Pair!Init => PairSessions /\ PairStores
<1> SUFFICES ASSUME Pair!Init PROVE PairSessions /\ PairStores
  OBVIOUS
<1>1. DOMAIN v2 = {}
  BY DEF Pair!Init
<1>2. PairSessions
  BY <1>1 DEF Pair!Init, PairSessions, PairPhases, Pair!SessionsAreTheirs, Pair!OnlyRivalsDisturb
<1>3. v3 \in [Pair!Ids -> SUBSET PairDevices] /\ \A i \in Pair!Ids : v3[i] = {}
  BY DEF Pair!Init, Pair!NoCerts
<1>4. Pair!StoreIsOnDisk
  BY PairLoaded DEF Pair!Init, Pair!StoreIsOnDisk
<1> QED
  BY <1>2, <1>3, <1>4, PairAssumption DEF Pair!Init, PairStores, Pair!PairedAreKnown,
    Pair!PairedAreAccepted

\* The invariant of Pairing holds always.
LEMMA PairInvariant == Spec => [](part = "pair" => Pair!IInv)
<1>1. Init => (part = "pair" => Pair!IInv)
  BY StartOfAPart, PairInit, PairParts
<1>2. (part = "pair" => Pair!IInv) /\ [Next]_vars => (part = "pair" => Pair!IInv)'
  <2>1. Pair!IInv /\ UNCHANGED vars => Pair!IInv'
    BY DEF vars, Pair!IInv, Pair!TypeOK, Pair!CertsAreOfDevices, Pair!SessionsAreTheirs,
      Pair!PairedAreKnown, Pair!PairedAreAccepted, Pair!StoreIsOnDisk, Pair!OnlyRivalsDisturb
  <2>2. Pair!IInv /\ Pair!Next => PairSessions' /\ PairStores'
    BY PairParts, PairSessionsStep, PairStoresStep
  <2>3. PairSessions' /\ PairStores' => Pair!IInv'
    BY DEF Pair!IInv, Pair!TypeOK, Pair!CertsAreOfDevices, PairSessions, PairStores, PairPhases,
      PairRecords
  <2> QED BY <2>1, <2>2, <2>3, StepOfAPart
<1> QED BY <1>1, <1>2, PTL DEF Spec

\* Who was told that it is paired is in the store, which is what is on the disk, and is
\* accepted or about to be, and a client that pairs alone finds its session: nvhttp.cpp, for
\* any clients, whatever ids they share, and any length of the queue of certificates.
THEOREM PairedStayKnown == Spec => []PairedClientsAreKnown
<1>1. (part = "pair" => Pair!IInv) => PairedClientsAreKnown
  BY DEF PairedClientsAreKnown, Pair!IInv
<1> QED BY <1>1, PairInvariant, PTL

-----------------------------------------------------------------------------
(* AudioCapture: another default sink is on record until it is restored.   *)

\* At the start the host has its sink.
LEMMA AudioInit == Audio!Init => Audio!IInv
BY DEF Audio!Init, Audio!IInv, Audio!TypeOK, Audio!EndsAlone, Audio!ChangeIsOnRecord, Audio!HostHasItsSink,
  Audio!VirtualSinksAreOwned, Audio!OneChangesTheSink, Audio!EncoderIsJoined, Audio!Holders, Audio!Inside,
  Audio!Ending, Audio!Sinks

\* A step that takes one session from a label to another keeps the rest of the sessions.
LEMMA AudioGoes ==
    ASSUME NEW s \in AudioSessions, NEW from, NEW to, Audio!Goes(s, from, to),
           v1 \in [AudioSessions -> {"idle", "done"} \cup Audio!Inside \cup Audio!Ending],
           to \in {"idle", "done"} \cup Audio!Inside \cup Audio!Ending
    PROVE  /\ v1' \in [AudioSessions -> {"idle", "done"} \cup Audio!Inside \cup Audio!Ending]
           /\ v1[s] = from /\ v1'[s] = to
           /\ \A t \in AudioSessions \ {s} : v1'[t] = v1[t]
           /\ Audio!Holders' = IF to \in Audio!Inside \cup Audio!Ending
                               THEN Audio!Holders \cup {s} ELSE Audio!Holders \ {s}
BY DEF Audio!Goes, Audio!Holders, Audio!Inside, Audio!Ending

\* No step of capture() breaks the invariant: one case for each.
LEMMA AudioStep == Audio!IInv /\ Audio!Next => Audio!IInv'
<1> SUFFICES ASSUME Audio!IInv, Audio!Next PROVE Audio!IInv'
  OBVIOUS
<1> USE DEF Audio!IInv, Audio!TypeOK, Audio!EndsAlone, Audio!ChangeIsOnRecord, Audio!HostHasItsSink,
  Audio!VirtualSinksAreOwned, Audio!OneChangesTheSink, Audio!EncoderIsJoined, Audio!Inside,
  Audio!Ending, Audio!context, Audio!pulse, Audio!history
<1>1. ASSUME NEW s \in AudioSessions, Audio!Construct(s) PROVE Audio!IInv'
  <2>1. /\ Audio!Goes(s, "idle", "ref") /\ Audio!Holders = {} /\ v7' = FALSE /\ v8' = FALSE
        /\ UNCHANGED <<v2, v3, v9, v11>>
    BY <1>1 DEF Audio!Construct
  <2>2. /\ v1' \in [AudioSessions -> {"idle", "done"} \cup Audio!Inside \cup Audio!Ending]
        /\ Audio!Holders' = {s} /\ v1'[s] = "ref" /\ v1[s] = "idle"
        /\ \A t \in AudioSessions \ {s} : v1'[t] = v1[t]
    BY <2>1, AudioGoes
  <2>3. \A t \in AudioSessions : v1[t] \in {"idle", "done"}
    BY <2>1 DEF Audio!Holders
  <2>4. /\ v4' \in BOOLEAN /\ v5' \in BOOLEAN /\ v6' \in {Speakers, Nil}
        /\ v10' \subseteq Audio!Virtual /\ v12' \in BOOLEAN
        /\ v10' # {} => v12' \/ v4'
    <3>1. CASE v4' = FALSE /\ v5' = FALSE /\ v6' = Nil /\ UNCHANGED <<v10, v12>>
      BY <2>1, <3>1
    <3>2. CASE \E missing \in SUBSET (Audio!Virtual \ v10) :
                 /\ v4' = TRUE /\ v5' = (missing = {}) /\ v10' = Audio!Virtual \ missing
                 /\ v6' \in {Speakers, Nil} /\ v12' = FALSE
      BY <3>2
    <3> QED BY <1>1, <3>1, <3>2 DEF Audio!Construct
  <2>5. Audio!TypeOK'
    BY <2>1, <2>2, <2>4
  <2>6. Audio!EndsAlone' /\ Audio!OneChangesTheSink' /\ Audio!EncoderIsJoined'
    BY <2>1, <2>2, <2>3
  <2>7. Audio!ChangeIsOnRecord' /\ Audio!HostHasItsSink'
    BY <2>1, <2>2, <2>3
  <2>8. Audio!VirtualSinksAreOwned'
    BY <2>2, <2>4
  <2> QED BY <2>5, <2>6, <2>7, <2>8
<1>2. ASSUME NEW s \in AudioSessions, Audio!Ref(s) PROVE Audio!IInv'
  BY <1>2, AudioGoes DEF Audio!Ref, Audio!IsEnding
<1>3. ASSUME NEW s \in AudioSessions, Audio!NoControl(s) PROVE Audio!IInv'
  BY <1>3, AudioGoes DEF Audio!NoControl, Audio!Holders
<1>4. ASSUME NEW s \in AudioSessions, Audio!TakeFlag(s) PROVE Audio!IInv'
  <2>1. /\ v7' = TRUE /\ UNCHANGED <<v2, v3, v4, v5, v6, v9, v10, v11, v12>>
        /\ \/ v7 = FALSE /\ s \in HostAudio /\ v8' = FALSE /\ Audio!Goes(s, "ref", "microphone")
           \/ v7 = FALSE /\ s \notin HostAudio /\ v8' = TRUE /\ Audio!Goes(s, "ref", "sink")
           \/ v7 = TRUE /\ v8' = v8 /\ Audio!Goes(s, "ref", "microphone")
    BY <1>4 DEF Audio!TakeFlag, Audio!IsFirst, Audio!MustRestore
  <2>2. ASSUME NEW to \in {"microphone", "sink"}, Audio!Goes(s, "ref", to),
               to = "sink" => v7 = FALSE /\ v8' = TRUE, v8' \in BOOLEAN, v7 = TRUE => v8' = v8
        PROVE  Audio!IInv'
    <3>1. /\ v1' \in [AudioSessions -> {"idle", "done"} \cup Audio!Inside \cup Audio!Ending]
          /\ Audio!Holders' = Audio!Holders /\ v1'[s] = to /\ v1[s] = "ref" /\ s \in Audio!Holders
          /\ \A t \in AudioSessions \ {s} : v1'[t] = v1[t]
      BY <2>2, AudioGoes DEF Audio!Holders
    <3>2. Audio!TypeOK' /\ Audio!EndsAlone' /\ Audio!EncoderIsJoined' /\ Audio!VirtualSinksAreOwned'
          /\ Audio!HostHasItsSink'
      BY <2>1, <2>2, <3>1
    <3>3. Audio!OneChangesTheSink' /\ Audio!ChangeIsOnRecord'
      BY <2>1, <2>2, <3>1
    <3> QED BY <3>2, <3>3
  <2> QED BY <2>1, <2>2
<1>5. ASSUME NEW s \in AudioSessions, Audio!SetSink(s) PROVE Audio!IInv'
  BY <1>5, AudioGoes DEF Audio!SetSink, Audio!Holders, Audio!Sinks, Audio!Virtual
<1>6. ASSUME NEW s \in AudioSessions, Audio!Microphone(s) PROVE Audio!IInv'
  BY <1>6, AudioGoes DEF Audio!Microphone, Audio!Holders
<1>7. ASSUME NEW s \in AudioSessions, Audio!CaptureEnds(s) PROVE Audio!IInv'
  BY <1>7, AudioGoes DEF Audio!CaptureEnds, Audio!Holders
<1>8. ASSUME NEW s \in AudioSessions, Audio!EncoderEnds(s) PROVE Audio!IInv'
  BY <1>8 DEF Audio!EncoderEnds, Audio!Holders
<1>9. ASSUME NEW s \in AudioSessions, Audio!JoinEncoder(s) PROVE Audio!IInv'
  BY <1>9, AudioGoes DEF Audio!JoinEncoder, Audio!Joined, Audio!Holders
<1>10. ASSUME NEW s \in AudioSessions, Audio!View(s) PROVE Audio!IInv'
  BY <1>10, AudioGoes DEF Audio!View, Audio!Holders
<1>11. ASSUME NEW s \in AudioSessions, Audio!Shutdown(s) PROVE Audio!IInv'
  BY <1>11 DEF Audio!Shutdown, Audio!Holders
<1>12. ASSUME NEW s \in AudioSessions, Audio!Release(s) PROVE Audio!IInv'
  BY <1>12, AudioGoes DEF Audio!Release, Audio!IsEnding, Audio!Holders
<1>13. ASSUME NEW s \in AudioSessions, Audio!RestoreSink(s) PROVE Audio!IInv'
  <2>1. /\ Audio!Goes(s, "restore", "unload") /\ UNCHANGED <<v2, v3, v4, v5, v6, v7, v8, v10, v12>>
        /\ \/ v8 = TRUE /\ v9' = Speakers /\ v11' = FALSE
           \/ v8 = TRUE /\ v9' = v9 /\ v11' = TRUE
           \/ v8 = FALSE /\ v9' = v9 /\ v11' = v11
    BY <1>13 DEF Audio!RestoreSink, Audio!Restored
  <2>2. /\ v1' \in [AudioSessions -> {"idle", "done"} \cup Audio!Inside \cup Audio!Ending]
        /\ Audio!Holders' = Audio!Holders /\ v1'[s] = "unload" /\ v1[s] = "restore"
        /\ Audio!Holders = {s}
        /\ \A t \in AudioSessions \ {s} : v1'[t] = v1[t]
    BY <2>1, AudioGoes DEF Audio!Holders
  <2>3. \A t \in AudioSessions \ {s} : v1'[t] \in {"idle", "done"}
    BY <2>2 DEF Audio!Holders
  <2>4. v9' \in Audio!Sinks /\ v11' \in BOOLEAN
    BY <2>1 DEF Audio!Sinks
  <2>5. Audio!TypeOK' /\ Audio!EndsAlone' /\ Audio!EncoderIsJoined' /\ Audio!VirtualSinksAreOwned'
        /\ Audio!OneChangesTheSink'
    BY <2>1, <2>2, <2>3, <2>4
  <2>6. v11' = FALSE => v9' = Speakers
    BY <2>1, <2>2
  <2>7. Audio!HostHasItsSink' /\ Audio!ChangeIsOnRecord'
    BY <2>1, <2>2, <2>3, <2>4, <2>6
  <2> QED BY <2>5, <2>7
<1>14. ASSUME NEW s \in AudioSessions, Audio!Unload(s) PROVE Audio!IInv'
  <2>1. /\ Audio!Goes(s, "unload", "done")
        /\ v10' = IF v4 THEN {} ELSE v10
        /\ v4' = FALSE /\ UNCHANGED <<v2, v3, v5, v6, v7, v8, v9, v11, v12>>
    BY <1>14 DEF Audio!Unload, Audio!Unloaded
  <2>2. /\ v1' \in [AudioSessions -> {"idle", "done"} \cup Audio!Inside \cup Audio!Ending]
        /\ v1'[s] = "done" /\ v1[s] = "unload" /\ Audio!Holders = {s}
        /\ \A t \in AudioSessions \ {s} : v1'[t] = v1[t]
    BY <2>1, AudioGoes DEF Audio!Holders
  <2>3. \A t \in AudioSessions : v1'[t] \in {"idle", "done"}
    BY <2>2 DEF Audio!Holders
  <2>4. Audio!Holders' = {}
    BY <2>3 DEF Audio!Holders
  <2>5. Audio!TypeOK'
    BY <2>1, <2>2
  <2>6. Audio!EndsAlone' /\ Audio!EncoderIsJoined' /\ Audio!OneChangesTheSink'
    BY <2>1, <2>2, <2>3
  <2>7. Audio!ChangeIsOnRecord' /\ Audio!HostHasItsSink'
    BY <2>1, <2>2, <2>3
  <2>8. Audio!VirtualSinksAreOwned'
    BY <2>1, <2>2, <2>3, <2>4
  <2> QED BY <2>5, <2>6, <2>7, <2>8
<1>15. CASE Audio!Crash
  BY <1>15 DEF Audio!Crash, Audio!Holders
<1> QED
  BY <1>1, <1>2, <1>3, <1>4, <1>5, <1>6, <1>7, <1>8, <1>9, <1>10, <1>11, <1>12, <1>13, <1>14, <1>15 DEF Audio!Next

\* The invariant of AudioCapture holds always.
LEMMA AudioInvariant == Spec => [](part = "audio" => Audio!IInv)
<1>1. Init => (part = "audio" => Audio!IInv)
  BY StartOfAPart, AudioInit
<1>2. (part = "audio" => Audio!IInv) /\ [Next]_vars => (part = "audio" => Audio!IInv)'
  <2>1. Audio!IInv /\ UNCHANGED vars => Audio!IInv'
    BY DEF vars, Audio!IInv, Audio!TypeOK, Audio!EndsAlone, Audio!ChangeIsOnRecord, Audio!HostHasItsSink,
      Audio!VirtualSinksAreOwned, Audio!OneChangesTheSink, Audio!EncoderIsJoined, Audio!Holders
  <2> QED BY <2>1, StepOfAPart, AudioStep
<1> QED BY <1>1, <1>2, PTL DEF Spec

-----------------------------------------------------------------------------
(* WasapiAudio: what waits follows on what was read, and there is room.    *)

\* The buffer holds a frame and what the engine can have.
LEMMA WasapiRoom ==
    Wasapi!Capacity \in Nat /\ FrameSize + EngineSize <= Wasapi!Capacity /\ FrameSize <= Wasapi!Capacity
BY WasapiAssumption DEF Wasapi!Capacity, Wasapi!Most

\* At the start there are no samples, and nobody listens.
LEMMA WasapiInit == Wasapi!Init => Wasapi!IInv
<1> SUFFICES ASSUME Wasapi!Init PROVE Wasapi!IInv
  OBVIOUS
<1>1. v7 = <<>> /\ v9 = <<>> /\ v10 = 0 /\ v11 = 0 /\ v12 = 0 /\ v1 = "start" /\ v6 = Nil
  BY DEF Wasapi!Init
<1>2. Wasapi!TypeOK
  BY <1>1, WasapiRoom DEF Wasapi!Init, Wasapi!TypeOK, Wasapi!Labels
<1>3. Wasapi!SamplesFollow
  <2>1. 0 \in 0 .. v12 /\ v12 = 0 * FrameSize
    BY <1>1, WasapiAssumption
  <2>2. v9 = [i \in 1 .. Len(v9) |-> v12 + i]
    BY <1>1
  <2> QED BY <1>1, <2>1, <2>2 DEF Wasapi!SamplesFollow, Wasapi!Init, Wasapi!Capturing
<1>4. Wasapi!NothingIsLeft /\ Wasapi!SinkIsTheSessions /\ Wasapi!PacketsFollow /\ Wasapi!ThereIsRoom
  BY <1>1 DEF Wasapi!NothingIsLeft, Wasapi!SinkIsTheSessions, Wasapi!PacketsFollow, Wasapi!ThereIsRoom,
    Wasapi!Capturing
<1>5. v7 \in Seq(Nat) /\ v9 \in Seq(Nat) /\ v3 \in [Players -> Wasapi!Counts] /\ ~Wasapi!Capturing
  BY <1>1 DEF Wasapi!Init, Wasapi!Capturing
<1>6. v10 \in Nat /\ v11 \in Nat /\ v12 \in Nat /\ v11 <= v10
  BY <1>1 DEF Wasapi!Init
<1>7. v8 \in BOOLEAN /\ v13 \in BOOLEAN /\ v14 \in BOOLEAN /\ v15 \in BOOLEAN
  BY Zenon DEF Wasapi!Init
<1>8. v1 \in {"start", "sink", "microphone"} => v6 = Nil /\ v7 = <<>> /\ v11 = v10 /\ v12 = v11 /\ v9 = <<>>
  BY <1>1 DEF Wasapi!Init
<1>9. (v1 = "microphone" \/ Wasapi!Capturing => v3[VirtualDevice] = v5) /\ (v1 # "start" => v4 \in Players)
  BY <1>1, <1>5
<1> HIDE DEF Wasapi!Init
<1>10. Wasapi!SamplesAreSafe
  BY <1>1, <1>2, <1>3, <1>4, <1>5, <1>6, <1>7, <1>8, Zenon DEF Wasapi!SamplesAreSafe, Wasapi!TypeOK
<1>11. Wasapi!SinksAreSafe
  BY <1>1, <1>2, <1>4, <1>5, <1>7, <1>8, <1>9, Zenon DEF Wasapi!SinksAreSafe, Wasapi!TypeOK
<1> QED BY <1>10, <1>11 DEF Wasapi!IInv

\* The sink of the session is the default until it ends or the user wants another.
LEMMA WasapiSinksStep == Wasapi!SinksAreSafe /\ Wasapi!Next => Wasapi!SinksAreSafe'
<1> SUFFICES ASSUME Wasapi!SinksAreSafe, Wasapi!Next PROVE Wasapi!SinksAreSafe'
  OBVIOUS
<1> USE WasapiAssumption DEF Wasapi!SinksAreSafe, Wasapi!SinkIsTheSessions, Wasapi!sinks, Wasapi!engine, Wasapi!history,
  Wasapi!Capturing, Wasapi!Labels
<1>1. CASE Wasapi!SinkInfo
  BY <1>1 DEF Wasapi!SinkInfo, Wasapi!Default
<1>2. ASSUME NEW failed \in SUBSET Roles, Wasapi!SetSink(failed) PROVE Wasapi!SinksAreSafe'
  BY <1>2 DEF Wasapi!SetSink, Wasapi!Endpoints, Wasapi!Formatted
<1>3. CASE Wasapi!SetFormatFails
  BY <1>3 DEF Wasapi!SetFormatFails
<1>4. ASSUME NEW failed \in SUBSET Roles, Wasapi!Restore(failed) PROVE Wasapi!SinksAreSafe'
  BY <1>4 DEF Wasapi!Restore, Wasapi!Endpoints
<1>5. ASSUME NEW r \in Roles, NEW d \in Players, Wasapi!Choose(r, d) PROVE Wasapi!SinksAreSafe'
  BY <1>5 DEF Wasapi!Choose
<1>6. CASE Wasapi!Open
  BY <1>6 DEF Wasapi!Open, Wasapi!Accepts, Wasapi!Default
<1>7. CASE Wasapi!OpenFails
  BY <1>7 DEF Wasapi!OpenFails
<1>8. CASE \/ \E n \in PacketSizes : Wasapi!Record(n)
           \/ Wasapi!Sample \/ Wasapi!Ask \/ Wasapi!Wait \/ Wasapi!Timeout
           \/ Wasapi!Fill \/ Wasapi!Filled \/ Wasapi!Close
  BY <1>8 DEF Wasapi!Record, Wasapi!Sample, Wasapi!Ask, Wasapi!Wait, Wasapi!Timeout, Wasapi!Fill, Wasapi!Filled, Wasapi!Close
<1> QED
  BY <1>1, <1>2, <1>3, <1>4, <1>5, <1>6, <1>7, <1>8 DEF Wasapi!Next

\* A step of the thread that leaves the samples where they are.
LEMMA WasapiMoves ==
    ASSUME Wasapi!SamplesAreSafe, UNCHANGED <<v7, v9, v10, v11, v12, v14, v15>>,
           v1' \in Wasapi!Labels,
           v1' \in {"start", "sink", "microphone"} => v1 \in {"start", "sink", "microphone"},
           v1' \in {"sample", "wait", "fill"} => v1 \in {"microphone", "sample", "wait", "fill"},
           v1' = "wait" => Len(v9) < FrameSize,
           v1' = "fill" => v1 \in {"wait", "fill"},
           v8' \in BOOLEAN, v7 # <<>> => v8' = TRUE \/ v1' = "fill"
    PROVE  Wasapi!SamplesAreSafe'
<1>1. /\ v7 \in Seq(Nat) /\ v9 \in Seq(Nat) /\ v10 \in Nat /\ v11 \in Nat /\ v12 \in Nat
      /\ v1 = "microphone" => v7 = <<>> /\ v11 = v10 /\ v12 = v11 /\ v9 = <<>>
  BY DEF Wasapi!SamplesAreSafe
<1>2. Wasapi!PacketsFollow'
  BY <1>1, WasapiAssumption DEF Wasapi!SamplesAreSafe, Wasapi!PacketsFollow, Wasapi!Capturing
<1>3. Wasapi!ThereIsRoom'
  BY <1>1, WasapiAssumption DEF Wasapi!SamplesAreSafe, Wasapi!ThereIsRoom, Wasapi!PacketsFollow, Wasapi!Capturing
<1>4. Wasapi!SamplesFollow'
  BY <1>1 DEF Wasapi!SamplesAreSafe, Wasapi!SamplesFollow, Wasapi!Capturing
<1>5. Wasapi!NothingIsLeft'
  BY DEF Wasapi!SamplesAreSafe, Wasapi!NothingIsLeft
<1> QED BY <1>1, <1>2, <1>3, <1>4, <1>5 DEF Wasapi!SamplesAreSafe, Wasapi!Capacity, Wasapi!Most

\* The engine records a packet that follows on the last.
LEMMA WasapiRecords ==
    ASSUME Wasapi!SamplesAreSafe, NEW n \in PacketSizes, Wasapi!Record(n)
    PROVE  Wasapi!SamplesAreSafe'
<1>1. /\ v10' = v10 + n /\ v10' - v11 <= EngineSize /\ v8' = TRUE /\ n \in Nat /\ n > 0
      /\ v7' = Append(v7, v10') /\ UNCHANGED <<v1, v9, v11, v12, v15>>
      /\ Wasapi!Capturing
  BY WasapiAssumption DEF Wasapi!Record, Wasapi!SamplesAreSafe, Wasapi!Capturing
<1>2. v14' \in BOOLEAN
  BY Zenon DEF Wasapi!Record
<1>3. v1 = "fill" => v14' = TRUE
  BY DEF Wasapi!Record
<1>4. v14 = TRUE => v14' = TRUE
  BY DEF Wasapi!Record
<1>5. v7 \in Seq(Nat) /\ v9 \in Seq(Nat) /\ v10 \in Nat /\ v11 \in Nat /\ v12 \in Nat /\ v11 <= v10
  BY DEF Wasapi!SamplesAreSafe
<1>6. /\ v7' \in Seq(Nat) /\ Len(v7') = Len(v7) + 1 /\ v7' # <<>>
      /\ v7'[Len(v7) + 1] = v10' /\ \A k \in 1 .. Len(v7) : v7'[k] = v7[k]
  <2> DEFINE e == v10'
  <2>1. e \in Nat /\ v7' = Append(v7, e)
    BY <1>1, <1>5
  <2> HIDE DEF e
  <2>2. \A q \in Seq(Nat), x \in Nat :
            /\ Append(q, x) \in Seq(Nat) /\ Len(Append(q, x)) = Len(q) + 1 /\ Append(q, x) # <<>>
            /\ Append(q, x)[Len(q) + 1] = x /\ \A k \in 1 .. Len(q) : Append(q, x)[k] = q[k]
    BY AppendProperties
  <2> QED BY <1>5, <2>1, <2>2, Zenon DEF e
<1>7. Wasapi!SamplesFollow'
  BY <1>1, <1>4, <1>6 DEF Wasapi!SamplesAreSafe, Wasapi!SamplesFollow, Wasapi!Capturing
<1>8. Wasapi!NothingIsLeft' /\ Wasapi!ThereIsRoom'
  BY <1>1, <1>3 DEF Wasapi!SamplesAreSafe, Wasapi!NothingIsLeft, Wasapi!ThereIsRoom
<1>9. Wasapi!PacketsFollow'
  <2>1. \A k \in 1 .. Len(v7) : v11 < v7[k] /\ v7[k] <= v10
    BY <1>1, <1>5 DEF Wasapi!SamplesAreSafe, Wasapi!PacketsFollow
  <2>2. \A j, k \in 1 .. Len(v7) : j < k => v7[j] < v7[k]
    BY <1>1, <1>5, SMTT(30) DEF Wasapi!SamplesAreSafe, Wasapi!PacketsFollow
  <2>3. \A k \in 1 .. Len(v7') : v11 < v7'[k] /\ v7'[k] <= v10'
    BY <1>1, <1>5, <1>6, <2>1
  <2>4. \A j, k \in 1 .. Len(v7') : j < k => v7'[j] < v7'[k]
    <3> SUFFICES ASSUME NEW j \in 1 .. Len(v7'), NEW k \in 1 .. Len(v7'), j < k PROVE v7'[j] < v7'[k]
      OBVIOUS
    <3>0. Len(v7) \in Nat /\ j \in 1 .. Len(v7) /\ v7'[j] = v7[j] /\ v7[j] \in Nat
      BY <1>5, <1>6, SMTT(30)
    <3>1. CASE k \in 1 .. Len(v7)
      BY <1>6, <2>2, <3>0, <3>1
    <3>2. CASE k = Len(v7) + 1
      BY <1>1, <1>5, <1>6, <2>1, <3>0, <3>2
    <3> QED BY <1>6, <3>0, <3>1, <3>2
  <2>5. DOMAIN v7' = 1 .. Len(v7')
    BY <1>6
  <2> QED BY <1>1, <1>6, <2>3, <2>4, <2>5 DEF Wasapi!PacketsFollow
<1> QED BY <1>1, <1>2, <1>5, <1>6, <1>7, <1>8, <1>9 DEF Wasapi!SamplesAreSafe, Wasapi!Capacity, Wasapi!Most, Wasapi!Capturing

\* A session takes a frame, and what is left follows on it.
LEMMA WasapiPlays ==
    ASSUME Wasapi!SamplesAreSafe, Wasapi!Sample
    PROVE  Wasapi!SamplesAreSafe'
<1>1. /\ v1 = "sample" /\ Len(v9) >= FrameSize /\ v12' = v9[FrameSize]
      /\ v9' = SubSeq(v9, FrameSize + 1, Len(v9))
      /\ UNCHANGED <<v1, v7, v8, v10, v11, v14, v15>>
  BY DEF Wasapi!Sample, Wasapi!engine, Wasapi!history
<1>2. v7 \in Seq(Nat) /\ v9 \in Seq(Nat) /\ v10 \in Nat /\ v11 \in Nat /\ v12 \in Nat /\ Len(v9) <= Wasapi!Capacity
  BY DEF Wasapi!SamplesAreSafe
<1>3. /\ Len(v9') = Len(v9) - FrameSize /\ \A i \in 1 .. Len(v9') : v9'[i] = v9[i + FrameSize]
      /\ v9' \in Seq(Nat) /\ v12' \in Nat /\ Len(v9) \in Nat /\ Len(v9') \in Nat
      /\ v9' = [i \in 1 .. Len(v9') |-> v9'[i]]
  <2>1. FrameSize + 1 \in 1 .. (Len(v9) + 1) /\ Len(v9) \in 0 .. Len(v9) /\ FrameSize \in 1 .. Len(v9)
    BY <1>1, <1>2, WasapiAssumption
  <2>2. v9' \in Seq(Nat) /\ Len(v9') = Len(v9) - FrameSize
    BY <1>1, <1>2, <2>1, WasapiAssumption
  <2>3. \A i \in 1 .. Len(v9') : v9'[i] = v9[i + FrameSize]
    BY <1>1, <1>2, <2>1, <2>2, WasapiAssumption
  <2>4. v12' \in Nat /\ Len(v9) \in Nat /\ Len(v9') \in Nat
    BY <1>1, <1>2, <2>1, <2>2
  <2>5. v9' = [i \in 1 .. Len(v9') |-> v9'[i]]
    BY <2>2
  <2> QED BY <2>2, <2>3, <2>4, <2>5
<1>4. ASSUME ~v15
      PROVE  /\ \E frames \in 0 .. v12' : v12' = frames * FrameSize
             /\ v9' = [i \in 1 .. Len(v9') |-> v12' + i]
             /\ v12' + Len(v9') = v11
  <2>1. /\ v9 = [i \in 1 .. Len(v9) |-> v12 + i] /\ v12 + Len(v9) = v11
        /\ \E frames \in 0 .. v12 : v12 = frames * FrameSize
    BY <1>1, <1>4 DEF Wasapi!SamplesAreSafe, Wasapi!SamplesFollow, Wasapi!Capturing
  <2>2. \A i \in 1 .. Len(v9) : v9[i] = v12 + i
    BY <2>1
  <2>3. v12' = v12 + FrameSize
    BY <1>1, <1>2, <2>2, WasapiAssumption
  <2>4. PICK f \in 0 .. v12 : v12 = f * FrameSize
    BY <2>1
  <2>5. v12' = (f + 1) * FrameSize
    BY <1>2, <2>3, <2>4, WasapiAssumption
  <2>6. f + 1 \in 0 .. v12'
    BY <1>2, <2>3, <2>4, WasapiAssumption
  <2>7. \A i \in 1 .. Len(v9') : v9'[i] = v12' + i
    <3> SUFFICES ASSUME NEW i \in 1 .. Len(v9') PROVE v9'[i] = v12' + i
      OBVIOUS
    <3>1. i + FrameSize \in 1 .. Len(v9) /\ v9'[i] = v9[i + FrameSize]
      BY <1>3, WasapiAssumption
    <3>2. v9[i + FrameSize] = v12 + (i + FrameSize)
      BY <2>2, <3>1
    <3>3. v12' + i = v12 + (i + FrameSize)
      BY <1>2, <2>3, <3>1, WasapiAssumption
    <3> QED BY <3>1, <3>2, <3>3
  <2>8. v9' = [i \in 1 .. Len(v9') |-> v12' + i]
    <3>1. DOMAIN v9' = 1 .. Len(v9')
      BY <1>3
    <3> QED BY <1>3, <2>7
  <2>9. v12' + Len(v9') = v11
    <3>1. Len(v9') = Len(v9) - FrameSize /\ v12 + Len(v9) = v11
      BY <1>3, <2>1
    <3>2. v12 \in Nat /\ Len(v9) \in Nat /\ FrameSize \in Nat
      BY <1>2, WasapiAssumption
    <3> QED BY <2>3, <3>1, <3>2
  <2>10. \E frames \in 0 .. v12' : v12' = frames * FrameSize
    BY <2>5, <2>6
  <2> QED BY <2>8, <2>9, <2>10
<1>5. Wasapi!SamplesFollow'
  BY <1>1, <1>4 DEF Wasapi!SamplesAreSafe, Wasapi!SamplesFollow, Wasapi!Capturing
<1>6. Wasapi!NothingIsLeft' /\ Wasapi!ThereIsRoom' /\ Wasapi!PacketsFollow'
  BY <1>1 DEF Wasapi!SamplesAreSafe, Wasapi!NothingIsLeft, Wasapi!ThereIsRoom, Wasapi!PacketsFollow, Wasapi!Capturing
<1>7. Len(v9') <= Wasapi!Capacity' 
  BY <1>2, <1>3, WasapiRoom, WasapiAssumption, SMTT(30) DEF Wasapi!Capacity, Wasapi!Most
<1> QED BY <1>1, <1>3, <1>5, <1>6, <1>7 DEF Wasapi!SamplesAreSafe, Wasapi!Capturing

\* A packet is read. It is cut only if packets came while others were read.
LEMMA WasapiFills ==
    ASSUME Wasapi!SamplesAreSafe, Wasapi!Fill
    PROVE  Wasapi!SamplesAreSafe'
<1> DEFINE n == Wasapi!Copied
<1>1. /\ v1 = "fill" /\ v7 # <<>> /\ v7' = Tail(v7) /\ v11' = Head(v7)
      /\ v9' = v9 \o [i \in 1 .. n |-> v11 + i]
      /\ v15' = (v15 \/ n < Head(v7) - v11)
      /\ UNCHANGED <<v1, v8, v10, v12, v14>>
  BY DEF Wasapi!Fill
<1>2. /\ v7 \in Seq(Nat) /\ v9 \in Seq(Nat) /\ v10 \in Nat /\ v11 \in Nat /\ v12 \in Nat
      /\ Len(v9) <= Wasapi!Capacity /\ v11 <= v10 /\ v15 \in BOOLEAN /\ Len(v9) \in Nat /\ Len(v7) \in Nat
  BY DEF Wasapi!SamplesAreSafe
<1>3. /\ v10 - v11 <= EngineSize
      /\ \A k \in 1 .. Len(v7) : v11 < v7[k] /\ v7[k] <= v10
      /\ \A j, k \in 1 .. Len(v7) : j < k => v7[j] < v7[k]
      /\ v7[Len(v7)] = v10
  <2>1. DOMAIN v7 = 1 .. Len(v7) /\ Wasapi!Capturing
    BY <1>1, <1>2 DEF Wasapi!Capturing
  <2>2. Wasapi!PacketsFollow
    BY DEF Wasapi!SamplesAreSafe
  <2> QED BY <1>1, <2>1, <2>2 DEF Wasapi!PacketsFollow
<1>4. /\ Head(v7) = v7[1] /\ 1 \in 1 .. Len(v7) /\ v7' \in Seq(Nat) /\ Len(v7') = Len(v7) - 1
      /\ \A k \in 1 .. Len(v7') : v7'[k] = v7[k + 1] /\ k + 1 \in 1 .. Len(v7)
  BY <1>1, <1>2
<1>5. Head(v7) \in Nat /\ v11 < Head(v7) /\ Head(v7) <= v10
  BY <1>2, <1>3, <1>4
<1>6. n \in Nat /\ n <= Wasapi!Capacity - Len(v9) /\ n <= Head(v7) - v11
      /\ (n < Head(v7) - v11 => n = Wasapi!Capacity - Len(v9))
  BY <1>2, <1>5, WasapiRoom DEF Wasapi!Copied, Wasapi!Least
<1> HIDE DEF n
<1>7. /\ v15' \in BOOLEAN
      /\ ~v15' => ~v15 /\ n = Head(v7) - v11
      /\ v15' => v15 \/ n < Head(v7) - v11
  <2>1. v15' \in BOOLEAN /\ (~v15' => ~v15 /\ ~(n < Head(v7) - v11)) /\ (v15' => v15 \/ n < Head(v7) - v11)
    BY <1>1, Zenon
  <2>2. ~(n < Head(v7) - v11) => n = Head(v7) - v11
    BY <1>2, <1>5, <1>6
  <2> QED BY <2>1, <2>2, Zenon
<1>8. /\ v9' \in Seq(Nat) /\ Len(v9') = Len(v9) + n
      /\ \A i \in 1 .. Len(v9) : v9'[i] = v9[i]
      /\ \A i \in 1 .. n : v9'[Len(v9) + i] = v11 + i
      /\ v9' = [i \in 1 .. Len(v9') |-> v9'[i]]
  <2> DEFINE t == [i \in 1 .. n |-> v11 + i]
  <2>1. t \in Seq(Nat) /\ Len(t) = n /\ \A i \in 1 .. n : t[i] = v11 + i
    BY <1>2, <1>6
  <2>2. v9' = v9 \o t
    BY <1>1
  <2> HIDE DEF t
  <2>3. v9' \in Seq(Nat) /\ Len(v9') = Len(v9) + n
    BY <1>2, <1>6, <2>1, <2>2, ConcatProperties
  <2>4. \A i \in 1 .. Len(v9) : v9'[i] = v9[i]
    BY <1>2, <1>6, <2>1, <2>2
  <2>5. \A i \in 1 .. n : v9'[Len(v9) + i] = v11 + i
    BY <1>2, <1>6, <2>1, <2>2
  <2>6. v9' = [i \in 1 .. Len(v9') |-> v9'[i]]
    BY <2>3
  <2> QED BY <2>3, <2>4, <2>5, <2>6
<1>9. Wasapi!PacketsFollow'
  <2>1. \A k \in 1 .. Len(v7') : v11' < v7'[k] /\ v7'[k] <= v10'
    BY <1>1, <1>3, <1>4
  <2>2. \A j, k \in 1 .. Len(v7') : j < k => v7'[j] < v7'[k]
    BY <1>1, <1>3, <1>4
  <2>3. v7' # <<>> => v7'[Len(v7')] = v10'
    BY <1>1, <1>2, <1>3, <1>4
  <2>4. v10' - v11' <= EngineSize
    BY <1>1, <1>2, <1>3, <1>5, WasapiAssumption
  <2>5. DOMAIN v7' = 1 .. Len(v7')
    BY <1>4
  <2> QED BY <2>1, <2>2, <2>3, <2>4, <2>5 DEF Wasapi!PacketsFollow
<1>10. Wasapi!SamplesFollow'
  <2>1. v7' = <<>> => v11' = v10'
    <3>1. ASSUME v7' = <<>> PROVE Len(v7) = 1
      <4>1. Len(v7') = 0
        BY <3>1
      <4> QED BY <4>1, <1>2, <1>4
    <3>2. Len(v7) = 1 => Head(v7) = v10
      BY <1>3, <1>4, Zenon
    <3> QED BY <3>1, <3>2, <1>1, Zenon
  <2>2. v15' => v14'
    <3>1. n < Head(v7) - v11 => v14
      BY <1>1, <1>2, <1>5, <1>6, WasapiRoom, WasapiAssumption DEF Wasapi!SamplesAreSafe, Wasapi!ThereIsRoom
    <3>2. v15 => v14
      BY DEF Wasapi!SamplesAreSafe, Wasapi!SamplesFollow
    <3> QED BY <3>1, <3>2, <1>1, <1>7, Zenon
  <2>3. ASSUME ~v15'
        PROVE  /\ \E frames \in 0 .. v12' : v12' = frames * FrameSize
               /\ v9' = [i \in 1 .. Len(v9') |-> v12' + i]
               /\ v12' + Len(v9') = v11'
    <3>1. ~v15 /\ n = Head(v7) - v11
      BY <1>7, <2>3
    <3>2. /\ v9 = [i \in 1 .. Len(v9) |-> v12 + i] /\ v12 + Len(v9) = v11
          /\ \E frames \in 0 .. v12 : v12 = frames * FrameSize
      BY <1>1, <3>1 DEF Wasapi!SamplesAreSafe, Wasapi!SamplesFollow, Wasapi!Capturing
    <3>3. \A i \in 1 .. Len(v9) : v9'[i] = v12 + i
      BY <1>8, <3>2
    <3>4. \A i \in 1 .. Len(v9') : v9'[i] = v12 + i
      <4> SUFFICES ASSUME NEW i \in 1 .. Len(v9') PROVE v9'[i] = v12 + i
        OBVIOUS
      <4>1. CASE i <= Len(v9)
        BY <1>2, <1>6, <1>8, <3>3, <4>1
      <4>2. CASE ~(i <= Len(v9))
        <5>1. i - Len(v9) \in 1 .. n /\ i = Len(v9) + (i - Len(v9))
          BY <1>2, <1>6, <1>8, <4>2, SMTT(30)
        <5>2. v9'[Len(v9) + (i - Len(v9))] = v11 + (i - Len(v9))
          BY <1>8, <5>1
        <5> QED BY <1>2, <1>6, <1>8, <3>2, <5>1, <5>2
      <4> QED BY <4>1, <4>2
    <3>5. v9' = [i \in 1 .. Len(v9') |-> v12 + i]
      BY <1>8, <3>4
    <3>6. v12 + Len(v9') = v11'
      BY <1>1, <1>2, <1>5, <1>6, <1>8, <3>1, <3>2
    <3> QED BY <1>1, <3>2, <3>5, <3>6
  <2> QED BY <2>1, <2>2, <2>3 DEF Wasapi!SamplesFollow
<1>11. Wasapi!ThereIsRoom'
  <2>1. v1' = "fill" /\ v1' # "wait" /\ (~v14' => ~v14)
    BY <1>1
  <2>2. ASSUME ~v14 PROVE Len(v9) + (v10 - v11) < FrameSize + EngineSize
    BY <1>1, <2>2 DEF Wasapi!SamplesAreSafe, Wasapi!ThereIsRoom
  <2>3. Len(v9') + (v10' - v11') <= Len(v9) + (v10 - v11) /\ Len(v9') \in Nat /\ v10' - v11' \in Int
    <3>1. Len(v9') = Len(v9) + n /\ Len(v9) \in Nat /\ v10' = v10 /\ v11' = Head(v7)
      BY <1>1, <1>2, <1>8
    <3> DEFINE h == Head(v7)
               l == Len(v9)
    <3>2. h \in Nat /\ l \in Nat /\ n <= h - v11 /\ n \in Nat /\ Len(v9') = l + n /\ v10' = v10 /\ v11' = h
      BY <1>5, <1>6, <3>1
    <3> HIDE DEF h, l
    <3>3. (l + n) + (v10 - h) <= l + (v10 - v11) /\ l + n \in Nat /\ v10 - h \in Int
      BY <1>2, <3>2
    <3> QED BY <3>2, <3>3 DEF l
  <2>4. ASSUME ~v14 PROVE Len(v9') + (v10' - v11') < FrameSize + EngineSize
    BY <1>2, <2>2, <2>3, <2>4, WasapiAssumption
  <2> QED BY <2>1, <2>4 DEF Wasapi!ThereIsRoom
<1>12. Wasapi!NothingIsLeft'
  BY <1>1 DEF Wasapi!NothingIsLeft
<1>13. Len(v9') <= Wasapi!Capacity'
  BY <1>2, <1>6, <1>8, WasapiRoom DEF Wasapi!Capacity, Wasapi!Most
<1> QED BY <1>1, <1>2, <1>4, <1>5, <1>7, <1>8, <1>9, <1>10, <1>11, <1>12, <1>13 DEF Wasapi!SamplesAreSafe

\* No step of the microphone loses a sample: one case for each.
LEMMA WasapiSamplesStep == Wasapi!SamplesAreSafe /\ Wasapi!Next => Wasapi!SamplesAreSafe'
<1> SUFFICES ASSUME Wasapi!SamplesAreSafe, Wasapi!Next PROVE Wasapi!SamplesAreSafe'
  OBVIOUS
<1> USE DEF Wasapi!sinks, Wasapi!engine, Wasapi!history, Wasapi!Labels
<1>1. CASE Wasapi!SinkInfo \/ Wasapi!SetFormatFails \/ Wasapi!OpenFails \/ Wasapi!Open
           \/ Wasapi!Ask \/ Wasapi!Timeout \/ Wasapi!Filled
  BY <1>1, WasapiMoves DEF Wasapi!SinkInfo, Wasapi!SetFormatFails, Wasapi!OpenFails, Wasapi!Open, Wasapi!Ask,
    Wasapi!Timeout, Wasapi!Filled, Wasapi!SamplesAreSafe, Wasapi!NothingIsLeft
<1>2. ASSUME NEW failed \in SUBSET Roles, Wasapi!SetSink(failed) \/ Wasapi!Restore(failed)
      PROVE  Wasapi!SamplesAreSafe'
  BY <1>2, WasapiMoves DEF Wasapi!SetSink, Wasapi!Restore, Wasapi!SamplesAreSafe, Wasapi!NothingIsLeft
<1>3. ASSUME NEW r \in Roles, NEW d \in Players, Wasapi!Choose(r, d) PROVE Wasapi!SamplesAreSafe'
  BY <1>3, WasapiMoves DEF Wasapi!Choose, Wasapi!SamplesAreSafe, Wasapi!NothingIsLeft, Wasapi!ThereIsRoom
<1>4. CASE Wasapi!Wait
  BY <1>4, WasapiMoves DEF Wasapi!Wait, Wasapi!SamplesAreSafe, Wasapi!NothingIsLeft
<1>5. CASE Wasapi!Close
  <2>1. v1' = "restore" /\ v7' = <<>> /\ v8' = FALSE /\ UNCHANGED <<v9, v10, v11, v12, v14, v15>>
    BY <1>5 DEF Wasapi!Close
  <2>2. v1 \in {"sample", "fill"} /\ Wasapi!Capturing
    BY <1>5 DEF Wasapi!Close, Wasapi!Capturing
  <2>3. Wasapi!SamplesFollow'
    BY <2>1 DEF Wasapi!SamplesAreSafe, Wasapi!SamplesFollow, Wasapi!Capturing
  <2>4. Wasapi!NothingIsLeft' /\ Wasapi!PacketsFollow' /\ Wasapi!ThereIsRoom' /\ v7' \in Seq(Nat)
    BY <2>1 DEF Wasapi!NothingIsLeft, Wasapi!PacketsFollow, Wasapi!ThereIsRoom, Wasapi!Capturing
  <2>5. Len(v9') <= Wasapi!Capacity'
    BY <2>1 DEF Wasapi!SamplesAreSafe, Wasapi!Capacity, Wasapi!Most
  <2>6. v8' \in BOOLEAN /\ v14' \in BOOLEAN /\ v15' \in BOOLEAN
    BY <2>1, Zenon DEF Wasapi!SamplesAreSafe
  <2> QED BY <2>1, <2>3, <2>4, <2>5, <2>6 DEF Wasapi!SamplesAreSafe
<1> QED
  BY <1>1, <1>2, <1>3, <1>4, <1>5, WasapiRecords, WasapiPlays, WasapiFills DEF Wasapi!Next

-----------------------------------------------------------------------------
(* The conversions of WasapiAudio: what they take and what they write.     *)

\* The names of the channels of two, six and eight of them.
Two == {"FL", "FR"}
Six == {"FL", "FR", "FC", "LFE", "BL", "BR"}
Eight == {"FL", "FR", "FC", "LFE", "BL", "BR", "SL", "SR"}
\* The channels of each format.
LEMMA ChannelNames ==
    /\ Wasapi!Channels(1) = {"mono"} /\ Wasapi!Channels(2) = Two
    /\ Wasapi!Channels(6) = Six /\ Wasapi!Channels(8) = Eight
<1>1. Wasapi!Channels(1) = {"mono"}
  BY DEF Wasapi!Channels
<1>2. Wasapi!Channels(2) = {Wasapi!Names[i] : i \in 1 .. 2}
  BY DEF Wasapi!Channels
<1>3. 1 .. 2 = {1, 2}
  OBVIOUS
<1>4. Wasapi!Channels(2) = Two
  BY <1>2, <1>3 DEF Wasapi!Names, Two
<1>5. Wasapi!Channels(6) = {Wasapi!Names[i] : i \in 1 .. 6}
  BY DEF Wasapi!Channels
<1>6. 1 .. 6 = {1, 2, 3, 4, 5, 6}
  OBVIOUS
<1>7. Wasapi!Channels(6) = Six
  BY <1>5, <1>6 DEF Wasapi!Names, Six
<1>8. Wasapi!Channels(8) = {Wasapi!Names[i] : i \in 1 .. 8}
  BY DEF Wasapi!Channels
<1>9. 1 .. 8 = {1, 2, 3, 4, 5, 6, 7, 8}
  OBVIOUS
<1>10. Wasapi!Channels(8) = Eight
  BY <1>8, <1>9 DEF Wasapi!Names, Eight
<1> QED BY <1>1, <1>4, <1>7, <1>10

\* Which channel is opposite.
LEMMA MirrorTable ==
    /\ Wasapi!Mirror["FL"] = "FR" /\ Wasapi!Mirror["FR"] = "FL" /\ Wasapi!Mirror["BL"] = "BR"
    /\ Wasapi!Mirror["BR"] = "BL" /\ Wasapi!Mirror["SL"] = "SR" /\ Wasapi!Mirror["SR"] = "SL"
    /\ Wasapi!Mirror["FC"] = "FC" /\ Wasapi!Mirror["LFE"] = "LFE" /\ Wasapi!Mirror["mono"] = "mono"
BY DEF Wasapi!Mirror

\* What has to be seen of each triple.
Mixed(S, out, in) ==
    /\ \A m \in S : /\ m = <<m[1], m[2], m[3]>> /\ m[1] \in out /\ m[2] \in in
                    /\ <<Wasapi!Mirror[m[1]], Wasapi!Mirror[m[2]], m[3]>> \in S
    /\ \A c \in out : \E m \in S : m[1] = c
    /\ out \subseteq Eight /\ in \subseteq Eight \cup {"mono"}

\* It is what the property says: to mirror twice is to do nothing.
LEMMA MixedIsEnough ==
    ASSUME NEW S, NEW out, NEW in, Mixed(S, out, in)
    PROVE  /\ {m[1] : m \in S} = out
           /\ {m[2] : m \in S} \subseteq in
           /\ {<<Wasapi!Mirror[m[1]], Wasapi!Mirror[m[2]], m[3]>> : m \in S} = S
<1>1. {m[1] : m \in S} = out /\ {m[2] : m \in S} \subseteq in
  BY DEF Mixed
<1>2. {<<Wasapi!Mirror[m[1]], Wasapi!Mirror[m[2]], m[3]>> : m \in S} \subseteq S
  BY DEF Mixed
<1>3. \A m \in S : m \in {<<Wasapi!Mirror[n[1]], Wasapi!Mirror[n[2]], n[3]>> : n \in S}
  <2> SUFFICES ASSUME NEW m \in S
               PROVE  \E n \in S : m = <<Wasapi!Mirror[n[1]], Wasapi!Mirror[n[2]], n[3]>>
    OBVIOUS
  <2> DEFINE n == <<Wasapi!Mirror[m[1]], Wasapi!Mirror[m[2]], m[3]>>
  <2>1. n \in S /\ n[1] = Wasapi!Mirror[m[1]] /\ n[2] = Wasapi!Mirror[m[2]] /\ n[3] = m[3]
    BY DEF Mixed
  <2>2. m[1] \in Eight /\ m[2] \in Eight \cup {"mono"} /\ m = <<m[1], m[2], m[3]>>
    BY DEF Mixed
  <2>3. Wasapi!Mirror[Wasapi!Mirror[m[1]]] = m[1] /\ Wasapi!Mirror[Wasapi!Mirror[m[2]]] = m[2]
    BY <2>2, MirrorTable DEF Eight
  <2> HIDE DEF n
  <2> QED BY <2>1, <2>2, <2>3
<1> QED BY <1>1, <1>2, <1>3

\* The parts of it, one at a time.
LEMMA MixedParts ==
    ASSUME NEW S, NEW out, NEW in, out \subseteq Eight, in \subseteq Eight \cup {"mono"},
           \A m \in S : m = <<m[1], m[2], m[3]>> /\ m[1] \in out /\ m[2] \in in,
           \A m \in S : <<Wasapi!Mirror[m[1]], Wasapi!Mirror[m[2]], m[3]>> \in S,
           \A c \in out : \E m \in S : m[1] = c
    PROVE  Mixed(S, out, in)
BY DEF Mixed

\* A mono device for a session with stereo.
LEMMA Mix1To2 == Mixed(Wasapi!Mix(1, 2), Two, {"mono"})
<1> DEFINE S == 
      {<<"FL", "mono", 700>>, <<"FR", "mono", 700>>}
<1>1. Wasapi!Mix(1, 2) = S
  BY ChannelNames DEF Wasapi!Mix, Wasapi!MonoTo, Wasapi!StereoTo, Wasapi!Surround51To, Wasapi!Surround71To,
    Wasapi!ToStereo, Wasapi!Same, Wasapi!Only, Two, Six, Eight
<1>2. \A m \in S : m = <<m[1], m[2], m[3]>> /\ m[1] \in Two /\ m[2] \in {"mono"}
  BY DEF Two, Six, Eight
<1>3. \A m \in S : <<Wasapi!Mirror[m[1]], Wasapi!Mirror[m[2]], m[3]>> \in S
  BY MirrorTable
<1>4. \A c \in Two : \E m \in S : m[1] = c
  BY DEF Two, Six, Eight
<1>5. Two \subseteq Eight /\ {"mono"} \subseteq Eight \cup {"mono"}
  BY DEF Two, Six, Eight
<1> HIDE DEF S
<1> QED BY <1>1, <1>2, <1>3, <1>4, <1>5, MixedParts

\* A mono device for a session with 5.1.
LEMMA Mix1To6 == Mixed(Wasapi!Mix(1, 6), Six, {"mono"})
<1> DEFINE S == 
      {<<"FL", "mono", 700>>, <<"FR", "mono", 700>>, <<"FC", "mono", 4200>>, <<"LFE", "mono", 70>>,
       <<"BL", "mono", 400>>, <<"BR", "mono", 400>>}
<1>1. Wasapi!Mix(1, 6) = S
  BY ChannelNames DEF Wasapi!Mix, Wasapi!MonoTo, Wasapi!StereoTo, Wasapi!Surround51To, Wasapi!Surround71To,
    Wasapi!ToStereo, Wasapi!Same, Wasapi!Only, Two, Six, Eight
<1>2. \A m \in S : m = <<m[1], m[2], m[3]>> /\ m[1] \in Six /\ m[2] \in {"mono"}
  BY DEF Two, Six, Eight
<1>3. \A m \in S : <<Wasapi!Mirror[m[1]], Wasapi!Mirror[m[2]], m[3]>> \in S
  BY MirrorTable
<1>4. \A c \in Six : \E m \in S : m[1] = c
  BY DEF Two, Six, Eight
<1>5. Six \subseteq Eight /\ {"mono"} \subseteq Eight \cup {"mono"}
  BY DEF Two, Six, Eight
<1> HIDE DEF S
<1> QED BY <1>1, <1>2, <1>3, <1>4, <1>5, MixedParts

\* A mono device for a session with 7.1.
LEMMA Mix1To8 == Mixed(Wasapi!Mix(1, 8), Eight, {"mono"})
<1> DEFINE S == 
      {<<"FL", "mono", 700>>, <<"FR", "mono", 700>>, <<"FC", "mono", 4200>>, <<"LFE", "mono", 70>>,
       <<"BL", "mono", 400>>, <<"BR", "mono", 400>>, <<"SL", "mono", 500>>, <<"SR", "mono", 500>>}
<1>1. Wasapi!Mix(1, 8) = S
  BY ChannelNames DEF Wasapi!Mix, Wasapi!MonoTo, Wasapi!StereoTo, Wasapi!Surround51To, Wasapi!Surround71To,
    Wasapi!ToStereo, Wasapi!Same, Wasapi!Only, Two, Six, Eight
<1>2. \A m \in S : m = <<m[1], m[2], m[3]>> /\ m[1] \in Eight /\ m[2] \in {"mono"}
  BY DEF Two, Six, Eight
<1>3. \A m \in S : <<Wasapi!Mirror[m[1]], Wasapi!Mirror[m[2]], m[3]>> \in S
  BY MirrorTable
<1>4. \A c \in Eight : \E m \in S : m[1] = c
  BY DEF Two, Six, Eight
<1>5. Eight \subseteq Eight /\ {"mono"} \subseteq Eight \cup {"mono"}
  BY DEF Two, Six, Eight
<1> HIDE DEF S
<1> QED BY <1>1, <1>2, <1>3, <1>4, <1>5, MixedParts

\* A stereo device for a session with stereo.
LEMMA Mix2To2 == Mixed(Wasapi!Mix(2, 2), Two, Two)
<1> DEFINE S == 
      {<<"FL", "FL", 1000>>, <<"FR", "FR", 1000>>}
<1>1. Wasapi!Mix(2, 2) = S
  BY ChannelNames DEF Wasapi!Mix, Wasapi!MonoTo, Wasapi!StereoTo, Wasapi!Surround51To, Wasapi!Surround71To,
    Wasapi!ToStereo, Wasapi!Same, Wasapi!Only, Two, Six, Eight
<1>2. \A m \in S : m = <<m[1], m[2], m[3]>> /\ m[1] \in Two /\ m[2] \in Two
  BY DEF Two, Six, Eight
<1>3. \A m \in S : <<Wasapi!Mirror[m[1]], Wasapi!Mirror[m[2]], m[3]>> \in S
  BY MirrorTable
<1>4. \A c \in Two : \E m \in S : m[1] = c
  BY DEF Two, Six, Eight
<1>5. Two \subseteq Eight /\ Two \subseteq Eight \cup {"mono"}
  BY DEF Two, Six, Eight
<1> HIDE DEF S
<1> QED BY <1>1, <1>2, <1>3, <1>4, <1>5, MixedParts

\* A stereo device for a session with 5.1.
LEMMA Mix2To6 == Mixed(Wasapi!Mix(2, 6), Six, Two)
<1> DEFINE S == 
      {<<"FL", "FL", 700>>, <<"FR", "FR", 700>>, <<"BL", "FL", 400>>, <<"BR", "FR", 400>>,
       <<"FC", "FL", 350>>, <<"FC", "FR", 350>>, <<"LFE", "FL", 175>>, <<"LFE", "FR", 175>>}
<1>1. Wasapi!Mix(2, 6) = S
  BY ChannelNames DEF Wasapi!Mix, Wasapi!MonoTo, Wasapi!StereoTo, Wasapi!Surround51To, Wasapi!Surround71To,
    Wasapi!ToStereo, Wasapi!Same, Wasapi!Only, Two, Six, Eight
<1>2. \A m \in S : m = <<m[1], m[2], m[3]>> /\ m[1] \in Six /\ m[2] \in Two
  BY DEF Two, Six, Eight
<1>3. \A m \in S : <<Wasapi!Mirror[m[1]], Wasapi!Mirror[m[2]], m[3]>> \in S
  BY MirrorTable
<1>4. \A c \in Six : \E m \in S : m[1] = c
  BY DEF Two, Six, Eight
<1>5. Six \subseteq Eight /\ Two \subseteq Eight \cup {"mono"}
  BY DEF Two, Six, Eight
<1> HIDE DEF S
<1> QED BY <1>1, <1>2, <1>3, <1>4, <1>5, MixedParts

\* A stereo device for a session with 7.1.
LEMMA Mix2To8 == Mixed(Wasapi!Mix(2, 8), Eight, Two)
<1> DEFINE S == 
      {<<"FL", "FL", 700>>, <<"FR", "FR", 700>>, <<"BL", "FL", 400>>, <<"BR", "FR", 400>>,
       <<"SL", "FL", 500>>, <<"SR", "FR", 500>>, <<"FC", "FL", 350>>, <<"FC", "FR", 350>>,
       <<"LFE", "FL", 175>>, <<"LFE", "FR", 175>>}
<1>1. Wasapi!Mix(2, 8) = S
  BY ChannelNames DEF Wasapi!Mix, Wasapi!MonoTo, Wasapi!StereoTo, Wasapi!Surround51To, Wasapi!Surround71To,
    Wasapi!ToStereo, Wasapi!Same, Wasapi!Only, Two, Six, Eight
<1>2. \A m \in S : m = <<m[1], m[2], m[3]>> /\ m[1] \in Eight /\ m[2] \in Two
  BY DEF Two, Six, Eight
<1>3. \A m \in S : <<Wasapi!Mirror[m[1]], Wasapi!Mirror[m[2]], m[3]>> \in S
  BY MirrorTable
<1>4. \A c \in Eight : \E m \in S : m[1] = c
  BY DEF Two, Six, Eight
<1>5. Eight \subseteq Eight /\ Two \subseteq Eight \cup {"mono"}
  BY DEF Two, Six, Eight
<1> HIDE DEF S
<1> QED BY <1>1, <1>2, <1>3, <1>4, <1>5, MixedParts

\* A 5.1 device for a session with stereo.
LEMMA Mix6To2 == Mixed(Wasapi!Mix(6, 2), Two, Six)
<1> DEFINE S == 
      {<<"FL", "FL", 1000>>, <<"FL", "BL", 700>>, <<"FL", "BR", 300>>, <<"FR", "FR", 1000>>,
       <<"FR", "BL", 300>>, <<"FR", "BR", 700>>, <<"FL", "FC", 900>>, <<"FR", "FC", 900>>,
       <<"FL", "LFE", 300>>, <<"FR", "LFE", 300>>}
<1>1. Wasapi!Mix(6, 2) = S
  BY ChannelNames DEF Wasapi!Mix, Wasapi!MonoTo, Wasapi!StereoTo, Wasapi!Surround51To, Wasapi!Surround71To,
    Wasapi!ToStereo, Wasapi!Same, Wasapi!Only, Two, Six, Eight
<1>2. \A m \in S : m = <<m[1], m[2], m[3]>> /\ m[1] \in Two /\ m[2] \in Six
  BY DEF Two, Six, Eight
<1>3. \A m \in S : <<Wasapi!Mirror[m[1]], Wasapi!Mirror[m[2]], m[3]>> \in S
  BY MirrorTable
<1>4. \A c \in Two : \E m \in S : m[1] = c
  BY DEF Two, Six, Eight
<1>5. Two \subseteq Eight /\ Six \subseteq Eight \cup {"mono"}
  BY DEF Two, Six, Eight
<1> HIDE DEF S
<1> QED BY <1>1, <1>2, <1>3, <1>4, <1>5, MixedParts

\* A 5.1 device for a session with 5.1.
LEMMA Mix6To6 == Mixed(Wasapi!Mix(6, 6), Six, Six)
<1> DEFINE S == 
      {<<"FL", "FL", 1000>>, <<"FR", "FR", 1000>>, <<"FC", "FC", 1000>>, <<"LFE", "LFE", 1000>>,
       <<"BL", "BL", 1000>>, <<"BR", "BR", 1000>>}
<1>1. Wasapi!Mix(6, 6) = S
  BY ChannelNames DEF Wasapi!Mix, Wasapi!MonoTo, Wasapi!StereoTo, Wasapi!Surround51To, Wasapi!Surround71To,
    Wasapi!ToStereo, Wasapi!Same, Wasapi!Only, Two, Six, Eight
<1>2. \A m \in S : m = <<m[1], m[2], m[3]>> /\ m[1] \in Six /\ m[2] \in Six
  BY DEF Two, Six, Eight
<1>3. \A m \in S : <<Wasapi!Mirror[m[1]], Wasapi!Mirror[m[2]], m[3]>> \in S
  BY MirrorTable
<1>4. \A c \in Six : \E m \in S : m[1] = c
  BY DEF Two, Six, Eight
<1>5. Six \subseteq Eight /\ Six \subseteq Eight \cup {"mono"}
  BY DEF Two, Six, Eight
<1> HIDE DEF S
<1> QED BY <1>1, <1>2, <1>3, <1>4, <1>5, MixedParts

\* A 7.1 device for a session with stereo.
LEMMA Mix8To2 == Mixed(Wasapi!Mix(8, 2), Two, Eight)
<1> DEFINE S == 
      {<<"FL", "FL", 1000>>, <<"FL", "BL", 700>>, <<"FL", "BR", 300>>, <<"FR", "FR", 1000>>,
       <<"FR", "BL", 300>>, <<"FR", "BR", 700>>, <<"FL", "FC", 900>>, <<"FR", "FC", 900>>,
       <<"FL", "LFE", 300>>, <<"FR", "LFE", 300>>, <<"FL", "SL", 1000>>, <<"FR", "SR", 1000>>}
<1>1. Wasapi!Mix(8, 2) = S
  BY ChannelNames DEF Wasapi!Mix, Wasapi!MonoTo, Wasapi!StereoTo, Wasapi!Surround51To, Wasapi!Surround71To,
    Wasapi!ToStereo, Wasapi!Same, Wasapi!Only, Two, Six, Eight
<1>2. \A m \in S : m = <<m[1], m[2], m[3]>> /\ m[1] \in Two /\ m[2] \in Eight
  BY DEF Two, Six, Eight
<1>3. \A m \in S : <<Wasapi!Mirror[m[1]], Wasapi!Mirror[m[2]], m[3]>> \in S
  BY MirrorTable
<1>4. \A c \in Two : \E m \in S : m[1] = c
  BY DEF Two, Six, Eight
<1>5. Two \subseteq Eight /\ Eight \subseteq Eight \cup {"mono"}
  BY DEF Two, Six, Eight
<1> HIDE DEF S
<1> QED BY <1>1, <1>2, <1>3, <1>4, <1>5, MixedParts

\* A 7.1 device for a session with 7.1.
LEMMA Mix8To8 == Mixed(Wasapi!Mix(8, 8), Eight, Eight)
<1> DEFINE S == 
      {<<"FL", "FL", 1000>>, <<"FR", "FR", 1000>>, <<"FC", "FC", 1000>>, <<"LFE", "LFE", 1000>>,
       <<"BL", "BL", 1000>>, <<"BR", "BR", 1000>>, <<"SL", "SL", 1000>>, <<"SR", "SR", 1000>>}
<1>1. Wasapi!Mix(8, 8) = S
  BY ChannelNames DEF Wasapi!Mix, Wasapi!MonoTo, Wasapi!StereoTo, Wasapi!Surround51To, Wasapi!Surround71To,
    Wasapi!ToStereo, Wasapi!Same, Wasapi!Only, Two, Six, Eight
<1>2. \A m \in S : m = <<m[1], m[2], m[3]>> /\ m[1] \in Eight /\ m[2] \in Eight
  BY DEF Two, Six, Eight
<1>3. \A m \in S : <<Wasapi!Mirror[m[1]], Wasapi!Mirror[m[2]], m[3]>> \in S
  BY MirrorTable
<1>4. \A c \in Eight : \E m \in S : m[1] = c
  BY DEF Two, Six, Eight
<1>5. Eight \subseteq Eight /\ Eight \subseteq Eight \cup {"mono"}
  BY DEF Two, Six, Eight
<1> HIDE DEF S
<1> QED BY <1>1, <1>2, <1>3, <1>4, <1>5, MixedParts

\* All conversions but those between 5.1 and 7.1 are such.
LEMMA WasapiMixes == Wasapi!SinksAreSafe => Wasapi!ChannelsAreMixed
<1> SUFFICES ASSUME Wasapi!SinksAreSafe, v6 # Nil, {v6, v5} # {6, 8}
             PROVE  Mixed(Wasapi!Mix(v6, v5), Wasapi!Channels(v5), Wasapi!Channels(v6))
  BY MixedIsEnough DEF Wasapi!ChannelsAreMixed
<1>1. v6 \in {1, 2, 6, 8} /\ v5 \in {2, 6, 8} /\ ~(v6 = 6 /\ v5 = 8) /\ ~(v6 = 8 /\ v5 = 6)
  BY DEF Wasapi!SinksAreSafe, Wasapi!Counts
<1>2. CASE v6 = 1
  BY <1>1, <1>2, ChannelNames, Mix1To2, Mix1To6, Mix1To8
<1>3. CASE v6 = 2
  BY <1>1, <1>3, ChannelNames, Mix2To2, Mix2To6, Mix2To8
<1>4. CASE v6 = 6
  BY <1>1, <1>4, ChannelNames, Mix6To2, Mix6To6
<1>5. CASE v6 = 8
  BY <1>1, <1>5, ChannelNames, Mix8To2, Mix8To8
<1> QED BY <1>1, <1>2, <1>3, <1>4, <1>5

\* A step of the program, or a stutter.
LEMMA WasapiStep == Wasapi!IInv /\ Wasapi!Next => Wasapi!IInv'
BY WasapiSamplesStep, WasapiSinksStep DEF Wasapi!IInv

\* The invariant of WasapiAudio holds always.
LEMMA WasapiInvariant == Spec => [](part = "wasapi" => Wasapi!IInv)
<1>1. Init => (part = "wasapi" => Wasapi!IInv)
  BY StartOfAPart, WasapiInit
<1>2. (part = "wasapi" => Wasapi!IInv) /\ [Next]_vars => (part = "wasapi" => Wasapi!IInv)'
  <2>1. Wasapi!IInv /\ UNCHANGED vars => Wasapi!IInv'
    <3>1. ASSUME Wasapi!SamplesAreSafe, UNCHANGED vars PROVE Wasapi!SamplesAreSafe'
      <4>1. v1 \in Wasapi!Labels /\ v8 \in BOOLEAN /\ (v7 # <<>> => v8 = TRUE \/ v1 = "fill")
        BY <3>1 DEF Wasapi!SamplesAreSafe, Wasapi!NothingIsLeft
      <4>2. v1 = "wait" => Len(v9) < FrameSize
        BY <3>1 DEF Wasapi!SamplesAreSafe, Wasapi!ThereIsRoom
      <4> QED BY <3>1, <4>1, <4>2, WasapiMoves DEF vars
    <3>2. ASSUME Wasapi!SinksAreSafe, UNCHANGED vars PROVE Wasapi!SinksAreSafe'
      BY <3>2 DEF vars, Wasapi!SinksAreSafe, Wasapi!SinkIsTheSessions, Wasapi!Capturing
    <3> QED BY <3>1, <3>2 DEF Wasapi!IInv
  <2> QED BY <2>1, StepOfAPart, WasapiStep
<1> QED BY <1>1, <1>2, PTL DEF Spec

\* A host has the sink that it had when the last session ends, and a session every sample
\* once and in its own channels: audio.cpp, capture(), and platform/windows/audio.cpp, for any
\* number of sessions and devices, and any sizes of frames, packets and of the engine's buffer.
THEOREM SinksGo == Spec => []SinksGoWithTheirSessions
<1>1. (part = "audio" => Audio!IInv) /\ (part = "wasapi" => Wasapi!IInv) => SinksGoWithTheirSessions
  <2>1. Wasapi!IInv => /\ Wasapi!SamplesFollow /\ Wasapi!NothingIsLeft
                       /\ Wasapi!SinkIsTheSessions /\ Wasapi!ChannelsAreMixed
    BY WasapiMixes DEF Wasapi!IInv, Wasapi!SamplesAreSafe, Wasapi!SinksAreSafe
  <2>2. Wasapi!IInv => Wasapi!TypeOK
    BY DEF Wasapi!IInv, Wasapi!SamplesAreSafe, Wasapi!SinksAreSafe, Wasapi!TypeOK
  <2> QED BY <2>1, <2>2 DEF SinksGoWithTheirSessions, Audio!IInv
<1> QED BY <1>1, AudioInvariant, WasapiInvariant, PTL

-----------------------------------------------------------------------------
(* EncoderProbe: what was decided of an encoder is what it has done.       *)

\* The answers after a question: those there were, and what it was answered.
LEMMA ProbeValidates ==
    ASSUME NEW c \in Probe!Codecs, NEW k, NEW r, Probe!Validate(c, k, r)
    PROVE  /\ Probe!Refused(c, k) => r = Probe!Failed /\ v7' = v7
           /\ ~Probe!Refused(c, k) =>
                Probe!Opened(c, k) \in DOMAIN v7' /\ v7'[Probe!Opened(c, k)] = r
           /\ \A q \in DOMAIN v7 : q \in DOMAIN v7' /\ v7'[q] = v7[q]
           /\ \A q \in DOMAIN v7' : q \in DOMAIN v7 \/ (q = Probe!Opened(c, k) /\ v7'[q] = r)
<1>1. CASE Probe!Refused(c, k)
  BY <1>1 DEF Probe!Validate
<1>2. CASE ~Probe!Refused(c, k) /\ Probe!Opened(c, k) \in DOMAIN v7
  BY <1>2 DEF Probe!Validate
<1>3. CASE ~Probe!Refused(c, k) /\ Probe!Opened(c, k) \notin DOMAIN v7
  <2> DEFINE q == Probe!Opened(c, k)
  <2>1. v7' = [x \in DOMAIN v7 \cup {q} |-> IF x = q THEN r ELSE v7[x]]
    BY <1>3 DEF Probe!Validate
  <2> HIDE DEF q
  <2>2. q \notin DOMAIN v7
    BY <1>3 DEF q
  <2>3. /\ DOMAIN v7' = DOMAIN v7 \cup {q} /\ v7'[q] = r
        /\ \A x \in DOMAIN v7 : v7'[x] = v7[x]
    BY <2>1, <2>2
  <2> QED BY <2>3, <1>3 DEF q
<1> QED BY <1>1, <1>2, <1>3

\* What the settings of the probe open.
LEMMA ProbeOpens ==
    ASSUME NEW c \in Probe!Codecs
    PROVE  /\ "SLICE" \in v5[c] \/ Probe!SlicesOf(1) = 1 =>
                /\ Probe!Opened(c, Probe!MaxRefFrames) =
                     Probe!Setting(c, IF "REF_FRAMES_RESTRICT" \in v5[c] THEN 1 ELSE 0)
                /\ Probe!Opened(c, Probe!Autoselect) =
                     Probe!Setting(c, IF "REF_FRAMES_AUTOSELECT" \in v5[c] THEN 0 ELSE 16)
           /\ "SLICE" \in v5[c] /\ Probe!SlicesOf(2) = Probe!SlicesOf(1) =>
                Probe!Opened(c, Probe!TestOf["SLICE"]) =
                     Probe!Setting(c, IF "REF_FRAMES_RESTRICT" \in v5[c] THEN 1 ELSE 0)
BY DEF Probe!Opened, Probe!Setting, Probe!MaxRefFrames, Probe!Autoselect, Probe!TestOf, Probe!Ask, Probe!RefsAsked

\* As many slices as min_threads, or as were asked for.
LEMMA ProbeSlices ==
    /\ Probe!SlicesOf(1) \in Nat \ {0} /\ Probe!SlicesOf(2) \in Nat
    /\ Probe!SlicesOf(1) # 1 => Probe!SlicesOf(1) > 1 /\ Probe!SlicesOf(2) = Probe!SlicesOf(1)
    /\ Probe!SlicesOf(1) > 1 => Probe!Front \notin SingleSlice /\ Probe!SlicesOf(1) # 1
BY ProbeAssumption DEF Probe!SlicesOf

\* What make_session() refuses of them.
LEMMA ProbeRefuses ==
    ASSUME NEW c \in Probe!Codecs, Probe!RatesAreThere
    PROVE  /\ Probe!Refused(c, Probe!MaxRefFrames) <=> "PASSED" \notin v5[c]
           /\ Probe!Refused(c, Probe!Autoselect) <=> "PASSED" \notin v5[c]
           /\ Probe!Refused(c, Probe!TestOf["SLICE"]) <=> "PASSED" \notin v5[c]
           /\ Probe!Refused(c, Probe!TestOf["DYNAMIC_RANGE"]) <=>
                "PASSED" \notin v5[c] \/ "DYNAMIC_RANGE" \notin v5[c]
BY DEF Probe!Refused, Probe!RatesAreThere, Probe!MaxRefFrames, Probe!Autoselect, Probe!TestOf, Probe!Ask


\* At the start nothing was asked.
LEMMA ProbeInit == Probe!Init => Probe!IInv
<1> SUFFICES ASSUME Probe!Init PROVE Probe!IInv
  OBVIOUS
<1>1. v4 = <<"begin", "h264">> /\ v7 = <<>> /\ v8 = {} /\ v5 = [c \in Probe!Codecs |-> Probe!Flags]
  BY DEF Probe!Init
<1>2. DOMAIN v7 = {}
  BY <1>1
<1>3. Probe!TypeOK /\ Probe!StepOK
  BY <1>1, <1>2 DEF Probe!Init, Probe!TypeOK, Probe!StepOK, Probe!Codecs
<1>4. \A c \in Probe!Codecs : ~Probe!Testing(c) /\ ~Probe!Decided(c) /\ ~Probe!FlagTested("SLICE", c)
  BY <1>1 DEF Probe!Testing, Probe!Decided, Probe!FlagTested, Probe!Codecs
<1>5. Probe!RatesAreThere /\ Probe!TestsAreRecorded /\ Probe!HevcWaits /\ Probe!DecidedWorks
      /\ Probe!PassedIsNeeded /\ Probe!RangeWorks /\ Probe!SlicesTried /\ Probe!SlicesStay
      /\ Probe!Failures /\ Probe!NothingIsWasted
  BY <1>1, <1>2, <1>4 DEF Probe!RatesAreThere, Probe!TestsAreRecorded, Probe!HevcWaits, Probe!DecidedWorks,
    Probe!PassedIsNeeded, Probe!RangeWorks, Probe!SlicesTried, Probe!SlicesStay, Probe!Failures, Probe!NothingIsWasted,
    Probe!Chosen, Probe!Codecs, Probe!Flags
<1> QED BY <1>3, <1>5 DEF Probe!IInv

\* What was answered remains.
LEMMA ProbeGrows ==
    ASSUME \A q \in DOMAIN v7 : q \in DOMAIN v7' /\ v7'[q] = v7[q]
    PROVE  /\ \A q, r : Probe!Answered(q, r) => Probe!Answered(q, r)'
           /\ \A q : Probe!Succeeded(q) => Probe!Succeeded(q)'
           /\ Probe!Emptied => Probe!Emptied'
BY DEF Probe!Answered, Probe!Succeeded, Probe!Emptied

\* A codec is tried with one reference frame.
LEMMA ProbeMax ==
    ASSUME Probe!IInv, NEW c \in Probe!Codecs, NEW r \in ProbeAnswers \cup {Probe!Failed}, Probe!Max(c, r)
    PROVE  Probe!IInv'
<1>1. /\ v4 = <<"max", c>> /\ v4' = <<"auto", c>> /\ v5' = v5 /\ v6' = <<r, v6[2]>>
      /\ UNCHANGED <<v1, v2, v3, v8>>
  BY DEF Probe!Max, Probe!Keep
<1>2. c \in {"h264", "hevc"}
  BY DEF Probe!Codecs
<1>3. v5[c] \in {Probe!Flags, Probe!Flags \ {"CBR"}} /\ (c = "hevc" => Probe!TestHevc)
  BY <1>1 DEF Probe!IInv, Probe!TestsAreRecorded, Probe!Testing
<1>4. ~Probe!Refused(c, Probe!MaxRefFrames) /\ Probe!Opened(c, Probe!MaxRefFrames) = Probe!Setting(c, 1)
  BY <1>3, ProbeRefuses, ProbeOpens DEF Probe!IInv, Probe!Flags
<1>5. /\ Probe!Answered(Probe!Setting(c, 1), r)'
      /\ \A q \in DOMAIN v7 : q \in DOMAIN v7' /\ v7'[q] = v7[q]
      /\ \A q \in DOMAIN v7' : q \in DOMAIN v7 \/ (q = Probe!Setting(c, 1) /\ v7'[q] = r)
  <2>1. Probe!Validate(c, Probe!MaxRefFrames, r)
    BY DEF Probe!Max
  <2>2. /\ Probe!Setting(c, 1) \in DOMAIN v7' /\ v7'[Probe!Setting(c, 1)] = r
        /\ \A q \in DOMAIN v7 : q \in DOMAIN v7' /\ v7'[q] = v7[q]
        /\ \A q \in DOMAIN v7' : q \in DOMAIN v7 \/ (q = Probe!Setting(c, 1) /\ v7'[q] = r)
    BY <2>1, <1>4, ProbeValidates
  <2>3. Probe!Setting(c, 1)' = Probe!Setting(c, 1)
    BY <1>1 DEF Probe!Setting, Probe!SlicesOf, Probe!Front
  <2> QED BY <2>2, <2>3 DEF Probe!Answered
<1>6. Probe!TypeOK' /\ Probe!StepOK' 
  BY <1>1, <1>2, <1>5 DEF Probe!IInv, Probe!TypeOK, Probe!StepOK, Probe!Setting, Probe!Codecs
<1>7. Probe!RatesAreThere' /\ Probe!HevcWaits'
  BY <1>1, <1>2 DEF Probe!IInv, Probe!RatesAreThere, Probe!HevcWaits, Probe!Testing, Probe!Decided, Probe!Codecs,
    Probe!Front, Probe!TestHevc, Probe!ForceHevc
<1>8. Probe!TestsAreRecorded'
  BY <1>1, <1>2, <1>3, <1>5 DEF Probe!TestsAreRecorded, Probe!Testing, Probe!Codecs,
    Probe!Front, Probe!TestHevc, Probe!ForceHevc
<1>9. Probe!DecidedWorks'
  BY <1>1, <1>2, <1>5, ProbeGrows DEF Probe!IInv, Probe!DecidedWorks, Probe!Testing, Probe!Decided, Probe!Codecs, Probe!Succeeded, Probe!Setting, Probe!SlicesOf, Probe!Front
<1>10. Probe!PassedIsNeeded'
  BY <1>1, <1>2 DEF Probe!IInv, Probe!PassedIsNeeded, Probe!Testing, Probe!Decided, Probe!Codecs
<1>11. Probe!RangeWorks'
  BY <1>1, <1>2, <1>5 DEF Probe!IInv, Probe!RangeWorks, Probe!Testing, Probe!Decided, Probe!Codecs, Probe!Setting, Probe!Chosen
<1>12. Probe!SlicesTried' /\ Probe!SlicesStay'
  BY <1>1, <1>2, <1>5, ProbeGrows DEF Probe!IInv, Probe!SlicesTried, Probe!SlicesStay, Probe!SlicesOf, Probe!Front, Probe!Testing, Probe!Decided, Probe!FlagTested, Probe!Codecs, Probe!Chosen
<1>13. Probe!Failures' /\ Probe!NothingIsWasted'
  BY <1>1, <1>2, <1>5 DEF Probe!IInv, Probe!Failures, Probe!NothingIsWasted, Probe!Testing
<1> QED BY <1>6, <1>7, <1>8, <1>9, <1>10, <1>11, <1>12, <1>13 DEF Probe!IInv

\* A codec is tried with the frames that the encoder chooses.
LEMMA ProbeAuto ==
    ASSUME Probe!IInv, NEW c \in Probe!Codecs, NEW r \in ProbeAnswers \cup {Probe!Failed}, Probe!Auto(c, r)
    PROVE  Probe!IInv'
<1>1. /\ v4 = <<"auto", c>> /\ v4' = <<"decide", c>> /\ v5' = v5 /\ v6' = <<v6[1], r>>
      /\ UNCHANGED <<v1, v2, v3, v8>>
  BY DEF Probe!Auto, Probe!Keep
<1>2. c \in {"h264", "hevc"}
  BY DEF Probe!Codecs
<1>3. /\ v5[c] \in {Probe!Flags, Probe!Flags \ {"CBR"}} /\ (c = "hevc" => Probe!TestHevc)
      /\ Probe!Answered(Probe!Setting(c, 1), v6[1])
  BY <1>1 DEF Probe!IInv, Probe!TestsAreRecorded, Probe!Testing
<1>4. ~Probe!Refused(c, Probe!Autoselect) /\ Probe!Opened(c, Probe!Autoselect) = Probe!Setting(c, 0)
  BY <1>3, ProbeRefuses, ProbeOpens DEF Probe!IInv, Probe!Flags
<1>5. /\ Probe!Answered(Probe!Setting(c, 0), r)'
      /\ \A q \in DOMAIN v7 : q \in DOMAIN v7' /\ v7'[q] = v7[q]
      /\ \A q \in DOMAIN v7' : q \in DOMAIN v7 \/ (q = Probe!Setting(c, 0) /\ v7'[q] = r)
  <2>1. Probe!Validate(c, Probe!Autoselect, r)
    BY DEF Probe!Auto
  <2>2. /\ Probe!Setting(c, 0) \in DOMAIN v7' /\ v7'[Probe!Setting(c, 0)] = r
        /\ \A q \in DOMAIN v7 : q \in DOMAIN v7' /\ v7'[q] = v7[q]
        /\ \A q \in DOMAIN v7' : q \in DOMAIN v7 \/ (q = Probe!Setting(c, 0) /\ v7'[q] = r)
    BY <2>1, <1>4, ProbeValidates
  <2>3. Probe!Setting(c, 0)' = Probe!Setting(c, 0)
    BY <1>1 DEF Probe!Setting, Probe!SlicesOf, Probe!Front
  <2> QED BY <2>2, <2>3 DEF Probe!Answered
<1>6. Probe!TypeOK' /\ Probe!StepOK' 
  BY <1>1, <1>2, <1>5 DEF Probe!IInv, Probe!TypeOK, Probe!StepOK, Probe!Setting, Probe!Codecs
<1>7. Probe!RatesAreThere' /\ Probe!HevcWaits'
  BY <1>1, <1>2 DEF Probe!IInv, Probe!RatesAreThere, Probe!HevcWaits, Probe!Testing, Probe!Decided, Probe!Codecs,
    Probe!Front, Probe!TestHevc, Probe!ForceHevc
<1>8. Probe!TestsAreRecorded'
  <2>1. v6'[1] = v6[1] /\ v6'[2] = r
    BY <1>1
  <2>2. Probe!Answered(Probe!Setting(c, 1), v6[1])'
    BY <1>1, <1>3, <1>5, <2>1 DEF Probe!Answered, Probe!Setting, Probe!SlicesOf, Probe!Front
  <2> QED BY <1>1, <1>2, <1>3, <1>5, <2>1, <2>2 DEF Probe!TestsAreRecorded, Probe!Testing, Probe!Codecs,
    Probe!Front, Probe!TestHevc, Probe!ForceHevc, Probe!Answered
<1>9. Probe!DecidedWorks'
  BY <1>1, <1>2, <1>5, ProbeGrows DEF Probe!IInv, Probe!DecidedWorks, Probe!Testing, Probe!Decided, Probe!Codecs, Probe!Succeeded, Probe!Setting, Probe!SlicesOf, Probe!Front
<1>10. Probe!PassedIsNeeded'
  BY <1>1, <1>2 DEF Probe!IInv, Probe!PassedIsNeeded, Probe!Testing, Probe!Decided, Probe!Codecs
<1>11. Probe!RangeWorks'
  BY <1>1, <1>2, <1>5 DEF Probe!IInv, Probe!RangeWorks, Probe!Testing, Probe!Decided, Probe!Codecs, Probe!Setting, Probe!Chosen
<1>12. Probe!SlicesTried' /\ Probe!SlicesStay'
  BY <1>1, <1>2, <1>5, ProbeGrows DEF Probe!IInv, Probe!SlicesTried, Probe!SlicesStay, Probe!SlicesOf, Probe!Front, Probe!Testing, Probe!Decided, Probe!FlagTested, Probe!Codecs, Probe!Chosen
<1>13. Probe!Failures' /\ Probe!NothingIsWasted'
  BY <1>1, <1>2, <1>5 DEF Probe!IInv, Probe!Failures, Probe!NothingIsWasted, Probe!Testing, Probe!BothFailed
<1> QED BY <1>6, <1>7, <1>8, <1>9, <1>10, <1>11, <1>12, <1>13 DEF Probe!IInv

\* Nothing is opened once more, after the first encoder has been given up.
LEMMA ProbeRestart ==
    ASSUME Probe!IInv, Probe!Restart, UNCHANGED <<v1, v6>>, v8' # {} => v1 >= 2
    PROVE  Probe!IInv'
<1>1. v4' = <<"begin", "h264">> /\ v7' = <<>> /\ v5' = [c \in Probe!Codecs |-> Probe!Flags]
  BY DEF Probe!Restart
<1>2. DOMAIN v7' = {}
  BY <1>1
<1>3. Probe!TypeOK' /\ Probe!StepOK'
  BY <1>1, <1>2 DEF Probe!IInv, Probe!TypeOK, Probe!StepOK, Probe!Codecs
<1>4. \A c \in Probe!Codecs : ~Probe!Testing(c)' /\ ~Probe!Decided(c)' /\ ~Probe!FlagTested("SLICE", c)'
  BY <1>1 DEF Probe!Testing, Probe!Decided, Probe!FlagTested, Probe!Codecs
<1>5. /\ Probe!RatesAreThere' /\ Probe!TestsAreRecorded' /\ Probe!HevcWaits' /\ Probe!DecidedWorks'
      /\ Probe!PassedIsNeeded' /\ Probe!RangeWorks' /\ Probe!SlicesTried' /\ Probe!SlicesStay'
      /\ Probe!Failures' /\ Probe!NothingIsWasted'
  BY <1>1, <1>2, <1>4 DEF Probe!RatesAreThere, Probe!TestsAreRecorded, Probe!HevcWaits, Probe!DecidedWorks,
    Probe!PassedIsNeeded, Probe!RangeWorks, Probe!SlicesTried, Probe!SlicesStay, Probe!Failures, Probe!NothingIsWasted,
    Probe!Chosen, Probe!Codecs, Probe!Flags
<1> QED BY <1>3, <1>5 DEF Probe!IInv

\* The first encoder is given up: the next starts from nothing.
LEMMA ProbeGivesUp ==
    ASSUME Probe!IInv, \/ \E c \in Probe!Codecs : Probe!Fail(c)
                       \/ Probe!Reject
    PROVE  Probe!IInv'
<1>1. Probe!GiveUp
  BY DEF Probe!Fail, Probe!Reject
<1>2. v1 >= 2 \/ \A q \in DOMAIN v7 : q.codec = "h264" => v7[q] = Probe!Failed
  <2>1. ASSUME NEW c \in Probe!Codecs, Probe!Fail(c) 
        PROVE  v1 >= 2 \/ \A q \in DOMAIN v7 : q.codec = "h264" => v7[q] = Probe!Failed
    BY <2>1 DEF Probe!Fail, Probe!IInv, Probe!Failures, Probe!Testing, Probe!ForceHevc
  <2>2. CASE Probe!Reject
    BY <2>2 DEF Probe!Reject
  <2> QED BY <2>1, <2>2
<1>3. v8' # {} => v1 >= 2
  BY <1>1, <1>2 DEF Probe!GiveUp, Probe!IInv, Probe!NothingIsWasted
<1> QED BY <1>1, <1>3, ProbeRestart DEF Probe!GiveUp

\* An encoder that was not asked for is passed over.
LEMMA ProbeSkip ==
    ASSUME Probe!IInv, Probe!Skip
    PROVE  Probe!IInv'
<1>1. v4 = <<"begin", "h264">> /\ v7 = <<>> /\ v5 = [c \in Probe!Codecs |-> Probe!Flags]
  BY DEF Probe!Skip, Probe!IInv, Probe!StepOK, Probe!HevcWaits
<1>2. Probe!Restart /\ UNCHANGED <<v1, v6, v8>>
  BY <1>1 DEF Probe!Skip, Probe!Restart
<1> QED BY <1>2, ProbeRestart DEF Probe!IInv, Probe!NothingIsWasted

\* H.264 is tested first, with all flags; HEVC waits.
LEMMA ProbeBegin ==
    ASSUME Probe!IInv, Probe!Begin
    PROVE  Probe!IInv'
<1>1. /\ v4 = <<"begin", "h264">> /\ v4' = <<"max", "h264">>
      /\ v7 = <<>> /\ v5 = [c \in Probe!Codecs |-> Probe!Flags]
      /\ v5' = [h264 |-> Probe!Flags, hevc |-> IF Probe!TestHevc THEN Probe!Flags ELSE Probe!Flags \ {"PASSED"}]
      /\ UNCHANGED <<v1, v2, v3, v6, v7, v8>>
  BY DEF Probe!Begin, Probe!Keep, Probe!IInv, Probe!StepOK, Probe!HevcWaits
<1>2. DOMAIN v7' = {} /\ DOMAIN v7 = {}
  BY <1>1
<1>3. /\ v5'["h264"] = Probe!Flags
      /\ v5'["hevc"] = (IF Probe!TestHevc THEN Probe!Flags ELSE Probe!Flags \ {"PASSED"})
      /\ Probe!TestHevc' = Probe!TestHevc
  BY <1>1 DEF Probe!TestHevc, Probe!ForceHevc, Probe!Front
<1>4. v5' \in [Probe!Codecs -> SUBSET Probe!Flags]
  BY <1>1 DEF Probe!Codecs
<1>5. Probe!TypeOK' /\ Probe!StepOK' 
  BY <1>1, <1>2, <1>4 DEF Probe!IInv, Probe!TypeOK, Probe!StepOK, Probe!Codecs
<1>6. /\ Probe!Testing("h264")' /\ ~Probe!Testing("hevc")'
      /\ \A c \in Probe!Codecs : ~Probe!Decided(c)' /\ ~Probe!FlagTested("SLICE", c)'
  BY <1>1 DEF Probe!Testing, Probe!Decided, Probe!FlagTested, Probe!Codecs
<1>7. Probe!RatesAreThere' /\ Probe!TestsAreRecorded' /\ Probe!HevcWaits'
  BY <1>1, <1>3, <1>6 DEF Probe!RatesAreThere, Probe!TestsAreRecorded, Probe!HevcWaits, Probe!Codecs, Probe!Flags
<1>8. Probe!DecidedWorks' /\ Probe!PassedIsNeeded' /\ Probe!RangeWorks' /\ Probe!SlicesTried' /\ Probe!SlicesStay'
  BY <1>1, <1>2, <1>6 DEF Probe!DecidedWorks, Probe!PassedIsNeeded, Probe!RangeWorks, Probe!SlicesTried, Probe!SlicesStay,
    Probe!Codecs, Probe!Chosen
<1>9. Probe!Failures' /\ Probe!NothingIsWasted'
  BY <1>1, <1>2 DEF Probe!IInv, Probe!Failures, Probe!NothingIsWasted
<1> QED BY <1>5, <1>7, <1>8, <1>9 DEF Probe!IInv

\* The qp that is tried next is another setting.
LEMMA ProbeRetry ==
    ASSUME Probe!IInv, NEW c \in Probe!Codecs, Probe!Retry(c)
    PROVE  Probe!IInv'
<1>1. /\ v4 = <<"decide", c>> /\ v4' = <<"max", c>>
      /\ v5' = [v5 EXCEPT ![c] = Probe!Flags \ {"CBR"}]
      /\ Probe!BothFailed /\ <<Probe!Front, c>> \in HasQp
      /\ UNCHANGED <<v1, v2, v3, v6, v7, v8>>
  BY DEF Probe!Retry, Probe!Keep, Probe!CanRetry
<1>2. c \in {"h264", "hevc"} /\ v5 \in [Probe!Codecs -> SUBSET Probe!Flags]
  BY DEF Probe!Codecs, Probe!IInv, Probe!TypeOK
<1>3. /\ v5'[c] = Probe!Flags \ {"CBR"} /\ \A d \in Probe!Codecs \ {c} : v5'[d] = v5[d]
      /\ Probe!TestHevc' = Probe!TestHevc /\ Probe!Front' = Probe!Front
  BY <1>1, <1>2 DEF Probe!TestHevc, Probe!ForceHevc, Probe!Front
<1>4. Probe!TypeOK' /\ Probe!StepOK' 
  BY <1>1, <1>2 DEF Probe!IInv, Probe!TypeOK, Probe!StepOK, Probe!Codecs, Probe!Flags, Probe!Headers
<1>5. /\ \A d \in Probe!Codecs : Probe!Testing(d)' <=> Probe!Testing(d)
      /\ \A d \in Probe!Codecs : Probe!Decided(d)' <=> Probe!Decided(d)
      /\ \A d \in Probe!Codecs : ~Probe!FlagTested("SLICE", d)'
      /\ Probe!Testing(c) /\ ~Probe!Decided(c) 
  BY <1>1, <1>2 DEF Probe!Testing, Probe!Decided, Probe!FlagTested, Probe!Codecs
<1>6. Probe!RatesAreThere'
  BY <1>1, <1>3, <1>5 DEF Probe!IInv, Probe!RatesAreThere
<1>7. Probe!TestsAreRecorded'
  BY <1>1, <1>2, <1>3, <1>5 DEF Probe!IInv, Probe!TestsAreRecorded, Probe!Testing, Probe!Codecs
<1>8. Probe!HevcWaits'
  BY <1>1, <1>2, <1>3 DEF Probe!IInv, Probe!HevcWaits, Probe!Codecs
<1>9. Probe!DecidedWorks'
  <2> SUFFICES ASSUME NEW d \in Probe!Codecs, Probe!Decided(d)', "PASSED" \in v5'[d]
               PROVE  /\ \E f \in DOMAIN Probe!FramesOf : f \in v5'[d]
                      /\ \A f \in DOMAIN Probe!FramesOf : f \in v5'[d] =>
                           /\ Probe!Succeeded(Probe!Setting(d, Probe!FramesOf[f]))'
                           /\ \A h \in Probe!Headers :
                                h \in v5'[d] => h \in v7'[Probe!Setting(d, Probe!FramesOf[f])']
    BY DEF Probe!DecidedWorks, Probe!FramesOf
  <2>1. d # c /\ v5'[d] = v5[d] /\ Probe!Decided(d) /\ v7' = v7
    BY <1>1, <1>3, <1>5
  <2>2. \A n : Probe!Setting(d, n)' = Probe!Setting(d, n)
    BY <1>1, <2>1 DEF Probe!Setting, Probe!SlicesOf, Probe!Front
  <2> QED BY <2>1, <2>2 DEF Probe!IInv, Probe!DecidedWorks, Probe!Succeeded
<1>10. Probe!PassedIsNeeded' /\ Probe!RangeWorks'
  BY <1>1, <1>2, <1>3, <1>5 DEF Probe!IInv, Probe!PassedIsNeeded, Probe!RangeWorks, Probe!Codecs, Probe!Decided, Probe!Chosen, Probe!FlagTested
<1>11. Probe!SlicesTried' /\ Probe!SlicesStay'
  BY <1>1, <1>2, <1>3, <1>5 DEF Probe!IInv, Probe!SlicesTried, Probe!SlicesStay, Probe!SlicesOf, Probe!Codecs, Probe!FlagTested, Probe!Chosen, Probe!Emptied, Probe!Decided
<1>12. Probe!Failures' /\ Probe!NothingIsWasted'
  BY <1>1, <1>5 DEF Probe!IInv, Probe!Failures, Probe!NothingIsWasted, Probe!Codecs
<1> QED BY <1>4, <1>6, <1>7, <1>8, <1>9, <1>10, <1>11, <1>12 DEF Probe!IInv


\* A codec becomes what its two answers have shown.
LEMMA ProbeDecide ==
    ASSUME Probe!IInv, NEW c \in Probe!Codecs, Probe!Decide(c)
    PROVE  Probe!IInv'
<1>1. /\ v4 = <<"decide", c>>
      /\ v4' = (IF c = "h264" THEN <<"slice", c>> ELSE <<"DYNAMIC_RANGE", "h264">>)
      /\ v5' = [v5 EXCEPT ![c] = Probe!BaseCaps(c)]
      /\ Probe!BothFailed => c = "hevc" /\ ~Probe!ForceHevc
      /\ v6' = <<Probe!Failed, Probe!Failed>>
      /\ UNCHANGED <<v1, v2, v3, v7, v8>>
  BY DEF Probe!Decide, Probe!Keep
<1>2. /\ c \in {"h264", "hevc"} /\ v5 \in [Probe!Codecs -> SUBSET Probe!Flags]
      /\ Probe!BothFailed <=> v6[1] = Probe!Failed /\ v6[2] = Probe!Failed
  BY DEF Probe!Codecs, Probe!IInv, Probe!TypeOK, Probe!BothFailed
<1>3. /\ v5[c] \in {Probe!Flags, Probe!Flags \ {"CBR"}} /\ (c = "hevc" => Probe!TestHevc)
      /\ Probe!Answered(Probe!Setting(c, 1), v6[1]) /\ Probe!Answered(Probe!Setting(c, 0), v6[2])
      /\ Probe!Testing(c)
  BY <1>1 DEF Probe!IInv, Probe!TestsAreRecorded, Probe!Testing
<1>4. /\ Probe!BaseCaps(c) \subseteq Probe!Flags
      /\ {"SLICE", "DYNAMIC_RANGE"} \subseteq Probe!BaseCaps(c)
      /\ "CBR" \in Probe!BaseCaps(c) <=> "CBR" \in v5[c]
      /\ "REF_FRAMES_RESTRICT" \in Probe!BaseCaps(c) <=> v6[1] # Probe!Failed
      /\ "REF_FRAMES_AUTOSELECT" \in Probe!BaseCaps(c) <=> v6[2] # Probe!Failed
      /\ "PASSED" \in Probe!BaseCaps(c) <=> c = "h264" \/ ~Probe!BothFailed
      /\ \A h \in Probe!Headers : h \in Probe!BaseCaps(c) =>
            Probe!HasBit(v6[1], h) /\ Probe!HasBit(v6[2], h)
  BY <1>3 DEF Probe!BaseCaps, Probe!Flags, Probe!Headers
<1>5. /\ v5'[c] = Probe!BaseCaps(c) /\ \A d \in Probe!Codecs \ {c} : v5'[d] = v5[d]
      /\ v5' \in [Probe!Codecs -> SUBSET Probe!Flags]
      /\ Probe!TestHevc' = Probe!TestHevc /\ Probe!Front' = Probe!Front
  BY <1>1, <1>2, <1>4 DEF Probe!TestHevc, Probe!ForceHevc, Probe!Front
<1>6. Probe!TypeOK' /\ Probe!StepOK' 
  BY <1>1, <1>2, <1>5 DEF Probe!IInv, Probe!TypeOK, Probe!StepOK, Probe!Codecs
<1>7. /\ Probe!Decided(c)' /\ \A d \in Probe!Codecs \ {c} : Probe!Decided(d)' <=> Probe!Decided(d)
      /\ \A d \in Probe!Codecs : ~Probe!Testing(d)' /\ ~Probe!FlagTested("SLICE", d)' /\ ~Probe!FlagTested("DYNAMIC_RANGE", d)'
  BY <1>1, <1>2, <1>3 DEF Probe!Testing, Probe!Decided, Probe!FlagTested, Probe!Codecs
<1>8. Probe!RatesAreThere'
  BY <1>3, <1>4, <1>5, <1>7 DEF Probe!IInv, Probe!RatesAreThere, Probe!Testing
<1>9. Probe!TestsAreRecorded'
  BY <1>7 DEF Probe!TestsAreRecorded
<1>10. Probe!HevcWaits'
  BY <1>1, <1>2, <1>5 DEF Probe!IInv, Probe!HevcWaits, Probe!Codecs
<1>11. Probe!DecidedWorks'
  <2> SUFFICES ASSUME NEW d \in Probe!Codecs, Probe!Decided(d)', "PASSED" \in v5'[d]
               PROVE  /\ \E f \in DOMAIN Probe!FramesOf : f \in v5'[d]
                      /\ \A f \in DOMAIN Probe!FramesOf : f \in v5'[d] =>
                           /\ Probe!Succeeded(Probe!Setting(d, Probe!FramesOf[f]))'
                           /\ \A h \in Probe!Headers :
                                h \in v5'[d] => h \in v7'[Probe!Setting(d, Probe!FramesOf[f])']
    BY DEF Probe!DecidedWorks, Probe!FramesOf
  <2>1. CASE d # c
    <3>1. v5'[d] = v5[d] /\ Probe!Decided(d) /\ v7' = v7
      BY <1>1, <1>5, <1>7, <2>1
    <3>2. \A n : Probe!Setting(d, n)' = Probe!Setting(d, n)
      BY <1>1, <3>1 DEF Probe!Setting, Probe!SlicesOf, Probe!Front
    <3> QED BY <3>1, <3>2 DEF Probe!IInv, Probe!DecidedWorks, Probe!Succeeded
  <2>2. CASE d = c
    <3>1. v7' = v7 /\ \A n : Probe!Setting(c, n)' = Probe!Setting(c, n)
      BY <1>1, <1>4, <1>5 DEF Probe!Setting, Probe!SlicesOf, Probe!Front
    <3>2. v6[1] # Probe!Failed \/ v6[2] # Probe!Failed
      BY <1>1, <1>2, <1>4, <1>5, <2>2
    <3>3. v6[1] # Probe!Failed => Probe!Succeeded(Probe!Setting(c, 1))
      BY <1>3 DEF Probe!Succeeded, Probe!Answered
    <3>4. v6[2] # Probe!Failed => Probe!Succeeded(Probe!Setting(c, 0))
      BY <1>3 DEF Probe!Succeeded, Probe!Answered
    <3>5. \A h \in Probe!Headers : h \in v5'[c] =>
            /\ v6[1] # Probe!Failed => h \in v7[Probe!Setting(c, 1)]
            /\ v6[2] # Probe!Failed => h \in v7[Probe!Setting(c, 0)]
      BY <1>3, <1>4, <1>5 DEF Probe!HasBit, Probe!Answered
    <3>6. /\ DOMAIN Probe!FramesOf = {"REF_FRAMES_RESTRICT", "REF_FRAMES_AUTOSELECT"}
          /\ Probe!FramesOf["REF_FRAMES_RESTRICT"] = 1 /\ Probe!FramesOf["REF_FRAMES_AUTOSELECT"] = 0
      BY DEF Probe!FramesOf
    <3> QED BY <3>1, <3>2, <3>3, <3>4, <3>5, <3>6, <1>4, <1>5, <2>2 DEF Probe!Succeeded
  <2> QED BY <2>1, <2>2
<1>12. Probe!PassedIsNeeded'
  BY <1>1, <1>2, <1>4, <1>5, <1>7 DEF Probe!IInv, Probe!PassedIsNeeded, Probe!Codecs, Probe!ForceHevc
<1>13. Probe!RangeWorks'
  BY <1>1, <1>7 DEF Probe!IInv, Probe!RangeWorks, Probe!Codecs, Probe!Chosen
<1>14. Probe!SlicesTried' /\ Probe!SlicesStay'
  BY <1>1, <1>2, <1>4, <1>5, <1>7 DEF Probe!IInv, Probe!SlicesTried, Probe!SlicesStay, Probe!SlicesOf, Probe!Codecs, Probe!Chosen, Probe!Emptied, Probe!FlagTested, Probe!Testing
<1>15. Probe!Failures' /\ Probe!NothingIsWasted'
  BY <1>1, <1>7 DEF Probe!IInv, Probe!Failures, Probe!NothingIsWasted, Probe!Codecs
<1> QED BY <1>6, <1>8, <1>9, <1>10, <1>11, <1>12, <1>13, <1>14, <1>15 DEF Probe!IInv

\* A codec that is decided stays so while its flags are tested.
LEMMA ProbeStaysDecided ==
    ASSUME Probe!IInv, NEW d \in Probe!Codecs, Probe!Decided(d), "PASSED" \in v5[d],
           \A f \in {"PASSED", "CBR", "REF_FRAMES_RESTRICT", "REF_FRAMES_AUTOSELECT"} :
                f \in v5'[d] <=> f \in v5[d],
           \A f \in Probe!Headers : f \in v5'[d] => f \in v5[d], v3' = v3,
           \A q \in DOMAIN v7 : q \in DOMAIN v7' /\ v7'[q] = v7[q]
    PROVE  /\ \E f \in DOMAIN Probe!FramesOf : f \in v5'[d]
           /\ \A f \in DOMAIN Probe!FramesOf : f \in v5'[d] =>
                /\ Probe!Succeeded(Probe!Setting(d, Probe!FramesOf[f]))'
                /\ \A h \in Probe!Headers :
                     h \in v5'[d] => h \in v7'[Probe!Setting(d, Probe!FramesOf[f])']
<1>1. \A n : Probe!Setting(d, n)' = Probe!Setting(d, n)
  BY DEF Probe!Setting, Probe!SlicesOf, Probe!Front
<1>2. \A f \in DOMAIN Probe!FramesOf : f \in v5'[d] <=> f \in v5[d]
  BY DEF Probe!FramesOf
<1> QED BY <1>1, <1>2 DEF Probe!IInv, Probe!DecidedWorks, Probe!Succeeded

\* What a codec can do it can still do, if it has the same capabilities, or loses others.
LEMMA ProbeStillWorks ==
    ASSUME NEW d \in Probe!Codecs, v3' = v3,
           \A f \in {"PASSED", "CBR", "REF_FRAMES_RESTRICT", "REF_FRAMES_AUTOSELECT"} :
                f \in v5'[d] <=> f \in v5[d],
           \A q \in DOMAIN v7 : q \in DOMAIN v7' /\ v7'[q] = v7[q]
    PROVE  /\ "DYNAMIC_RANGE" \in v5'[d] /\ Probe!Works(d, Probe!TestOf["DYNAMIC_RANGE"])
               /\ (Probe!SlicesOf(1) = 1 \/ ("SLICE" \in v5'[d] <=> "SLICE" \in v5[d])) =>
                Probe!Works(d, Probe!TestOf["DYNAMIC_RANGE"])'
           /\ ("SLICE" \in v5'[d] <=> "SLICE" \in v5[d]) /\ Probe!Works(d, Probe!TestOf["SLICE"]) =>
                Probe!Works(d, Probe!TestOf["SLICE"])'
<1>1. /\ Probe!Refused(d, Probe!TestOf["SLICE"])' <=> Probe!Refused(d, Probe!TestOf["SLICE"])
      /\ "DYNAMIC_RANGE" \in v5'[d] /\ Probe!Refused(d, Probe!TestOf["DYNAMIC_RANGE"])' =>
            Probe!Refused(d, Probe!TestOf["DYNAMIC_RANGE"])
  BY DEF Probe!Refused, Probe!Front, Probe!TestOf, Probe!Ask
<1>2. (Probe!SlicesOf(1) = 1 \/ ("SLICE" \in v5'[d] <=> "SLICE" \in v5[d])) =>
        Probe!Opened(d, Probe!TestOf["DYNAMIC_RANGE"])' = Probe!Opened(d, Probe!TestOf["DYNAMIC_RANGE"])
  BY DEF Probe!Opened, Probe!TestOf, Probe!Ask, Probe!SlicesOf, Probe!Front
<1>3. ("SLICE" \in v5'[d] <=> "SLICE" \in v5[d]) =>
        Probe!Opened(d, Probe!TestOf["SLICE"])' = Probe!Opened(d, Probe!TestOf["SLICE"])
  BY DEF Probe!Opened, Probe!TestOf, Probe!Ask, Probe!RefsAsked, Probe!SlicesOf, Probe!Front
<1> QED BY <1>1, <1>2, <1>3 DEF Probe!Works

\* The first packet is asked for again, and says whether there may be slices.
LEMMA ProbeFirstSlice ==
    ASSUME Probe!IInv, NEW r \in ProbeAnswers \cup {Probe!Failed}, Probe!FirstSlice(r)
    PROVE  Probe!IInv'
<1> DEFINE q0 == Probe!Opened("h264", Probe!MaxRefFrames)
<1>1. /\ v4 = <<"slice", "h264">>
      /\ v4' = (IF Probe!TestHevc THEN <<"max", "hevc">> ELSE <<"DYNAMIC_RANGE", "h264">>)
      /\ v5' = [v5 EXCEPT !["h264"] = IF r # {} THEN @ \cup {"SLICE"} ELSE @ \ {"SLICE"}]
      /\ UNCHANGED <<v1, v2, v3, v6, v8>>
  BY DEF Probe!FirstSlice, Probe!Keep, Probe!Set, Probe!IsTrue
<1>2. /\ v5 \in [Probe!Codecs -> SUBSET Probe!Flags] /\ Probe!Codecs = {"h264", "hevc"}
      /\ Probe!Decided("h264") /\ ~Probe!Decided("hevc") /\ "PASSED" \in v5["h264"]
  BY <1>1 DEF Probe!Codecs, Probe!IInv, Probe!TypeOK, Probe!PassedIsNeeded, Probe!Decided, Probe!Testing
<1>3. /\ q0 \in DOMAIN v7' /\ v7'[q0] = r
      /\ \A q \in DOMAIN v7 : q \in DOMAIN v7' /\ v7'[q] = v7[q]
      /\ \A q \in DOMAIN v7' : q \in DOMAIN v7 \/ (q = q0 /\ v7'[q] = r)
  <2>1. Probe!Validate("h264", Probe!MaxRefFrames, r) /\ "h264" \in Probe!Codecs
    BY <1>2 DEF Probe!FirstSlice
  <2>2. ~Probe!Refused("h264", Probe!MaxRefFrames)
    BY <1>2, <2>1, ProbeRefuses DEF Probe!IInv
  <2> QED BY <2>1, <2>2, ProbeValidates
<1>4. /\ q0.codec = "h264" /\ q0.refs # 16
      /\ q0 = Probe!Setting("h264", IF "REF_FRAMES_RESTRICT" \in v5["h264"] THEN 1 ELSE 0)
  <2>1. "SLICE" \in v5["h264"]
    BY <1>1 DEF Probe!IInv, Probe!SlicesStay
  <2> QED BY <1>2, <2>1, ProbeOpens DEF Probe!Setting
<1> HIDE DEF q0
<1>5. /\ v5' \in [Probe!Codecs -> SUBSET Probe!Flags] /\ v5'["hevc"] = v5["hevc"]
      /\ \A f \in Probe!Flags \ {"SLICE"} : f \in v5'["h264"] <=> f \in v5["h264"]
      /\ "SLICE" \in v5'["h264"] \/ r = {}
      /\ Probe!TestHevc' = Probe!TestHevc /\ Probe!Front' = Probe!Front
      /\ v5["hevc"] = (IF Probe!TestHevc THEN Probe!Flags ELSE Probe!Flags \ {"PASSED"})
  <2>1. "SLICE" \in Probe!Flags
    BY DEF Probe!Flags
  <2> QED BY <1>1, <1>2, <2>1 DEF Probe!TestHevc, Probe!ForceHevc, Probe!Front, Probe!IInv, Probe!HevcWaits
<1>6. Probe!TypeOK' /\ Probe!StepOK' 
  BY <1>1, <1>2, <1>3, <1>4, <1>5 DEF Probe!IInv, Probe!TypeOK, Probe!StepOK
<1>7. /\ Probe!Decided("h264")' /\ ~Probe!Testing("h264")'
      /\ Probe!TestHevc => Probe!Testing("hevc")' /\ v4'[1] = "max"
      /\ ~Probe!TestHevc => ~Probe!Testing("hevc")'
      /\ ~Probe!FlagTested("DYNAMIC_RANGE", "hevc")'
      /\ \A d \in Probe!Codecs : ~Probe!FlagTested("SLICE", d)'
      /\ Probe!Decided("hevc")' => ~Probe!TestHevc /\ "PASSED" \notin v5'["hevc"]
  BY <1>1, <1>2, <1>5 DEF Probe!Testing, Probe!Decided, Probe!FlagTested
<1>8. Probe!RatesAreThere' /\ Probe!TestsAreRecorded'
  BY <1>1, <1>2, <1>5, <1>7 DEF Probe!IInv, Probe!RatesAreThere, Probe!TestsAreRecorded, Probe!Flags
<1>9. Probe!HevcWaits'
  BY <1>1 DEF Probe!HevcWaits
<1>10. Probe!DecidedWorks'
  <2>1. \A f \in Probe!Headers : f \in Probe!Flags \ {"SLICE"}
    BY DEF Probe!Headers, Probe!Flags
  <2>2. {"PASSED", "CBR", "REF_FRAMES_RESTRICT", "REF_FRAMES_AUTOSELECT"} \subseteq Probe!Flags \ {"SLICE"}
    BY DEF Probe!Flags
  <2>3. /\ \E f \in DOMAIN Probe!FramesOf : f \in v5'["h264"]
        /\ \A f \in DOMAIN Probe!FramesOf : f \in v5'["h264"] =>
             /\ Probe!Succeeded(Probe!Setting("h264", Probe!FramesOf[f]))'
             /\ \A h \in Probe!Headers :
                  h \in v5'["h264"] => h \in v7'[Probe!Setting("h264", Probe!FramesOf[f])']
    BY <1>1, <1>2, <1>3, <1>5, <2>1, <2>2, ProbeStaysDecided
  <2> QED BY <1>2, <1>7, <2>3 DEF Probe!DecidedWorks, Probe!FramesOf
<1>11. Probe!PassedIsNeeded' /\ Probe!RangeWorks'
  <2>1. "PASSED" \in v5'["h264"]
    BY <1>2, <1>5 DEF Probe!Flags
  <2>2. Probe!TestHevc \/ v1 < 2
    BY DEF Probe!TestHevc, Probe!ForceHevc, Probe!IInv, Probe!TypeOK
  <2>3. v1 \in 0 .. 3
    BY DEF Probe!IInv, Probe!TypeOK
  <2> QED BY <1>1, <1>2, <1>3, <1>4, <1>7, <2>1, <2>2, <2>3 DEF Probe!IInv, Probe!PassedIsNeeded, Probe!RangeWorks, Probe!Chosen
<1>12. Probe!SlicesTried'
  <2>1. r = {} => Probe!Emptied'
    BY <1>3, <1>4 DEF Probe!Emptied
  <2> QED BY <1>1, <1>2, <1>5, <1>7, <2>1 DEF Probe!SlicesTried, Probe!Chosen
<1>13. Probe!SlicesStay'
  <2>1. CASE "SLICE" \in v5'["h264"]
    BY <1>1, <1>2, <1>7, <2>1 DEF Probe!SlicesStay
  <2>2. CASE r = {}
    <3>1. Probe!Emptied'
      BY <1>3, <1>4, <2>2 DEF Probe!Emptied
    <3> DEFINE n == IF "REF_FRAMES_RESTRICT" \in v5["h264"] THEN 1 ELSE 0
    <3>2. \E f \in DOMAIN Probe!FramesOf : f \in v5'["h264"] /\ Probe!FramesOf[f] = n
      <4>1. /\ "REF_FRAMES_RESTRICT" \in v5'["h264"] <=> "REF_FRAMES_RESTRICT" \in v5["h264"]
            /\ "PASSED" \in v5'["h264"]
        BY <1>2, <1>5 DEF Probe!Flags
      <4>2. \E f \in DOMAIN Probe!FramesOf : f \in v5'["h264"]
        BY <1>2, <1>7, <1>10, <4>1 DEF Probe!DecidedWorks
      <4> QED BY <4>1, <4>2 DEF Probe!FramesOf
    <3>3. Probe!Setting("h264", n)' = q0
      <4>1. "CBR" \in v5'["h264"] <=> "CBR" \in v5["h264"]
        BY <1>2, <1>5 DEF Probe!Flags
      <4>2. n' = n
        BY <1>2, <1>5 DEF Probe!Flags
      <4> QED BY <1>1, <1>4, <4>1, <4>2 DEF Probe!Setting, Probe!SlicesOf, Probe!Front
    <3>4. \A h \in Probe!Headers : h \notin v5'["h264"]
      <4>1. n' = n
        BY <1>2, <1>5 DEF Probe!Flags
      <4>2. "PASSED" \in v5'["h264"]
        BY <1>2, <1>5 DEF Probe!Flags
      <4> HIDE DEF n
      <4> QED BY <1>2, <1>3, <1>7, <1>10, <2>2, <3>2, <3>3, <4>1, <4>2 DEF Probe!DecidedWorks
    <3> QED BY <1>1, <1>2, <1>7, <3>1, <3>4 DEF Probe!SlicesStay
  <2> QED BY <1>5, <2>1, <2>2
<1>14. Probe!Failures' /\ Probe!NothingIsWasted'
  BY <1>1, <1>7 DEF Probe!IInv, Probe!Failures, Probe!NothingIsWasted
<1> QED BY <1>6, <1>8, <1>9, <1>10, <1>11, <1>12, <1>14, <1>13 DEF Probe!IInv

\* A flag is tested, of one codec and then of the other.
LEMMA ProbeTestFlag ==
    ASSUME Probe!IInv, NEW c \in Probe!Codecs, NEW f \in {"DYNAMIC_RANGE", "SLICE"},
           NEW r \in ProbeAnswers \cup {Probe!Failed}, Probe!TestFlag(f, c, r)
    PROVE  Probe!IInv'
<1> DEFINE k == Probe!TestOf[f]
<1>1. /\ v4 = <<f, c>> /\ v4' = Probe!AfterFlag(f, c)
      /\ v5' = [v5 EXCEPT ![c] = IF r # Probe!Failed THEN @ \cup {f} ELSE @ \ {f}]
      /\ UNCHANGED <<v1, v2, v3, v6, v8>>
  BY DEF Probe!TestFlag, Probe!Keep, Probe!Set, Probe!Supported
<1>2. /\ v5 \in [Probe!Codecs -> SUBSET Probe!Flags] /\ c \in {"h264", "hevc"}
      /\ \A d \in Probe!Codecs : Probe!Decided(d) /\ ~Probe!Testing(d)
  BY <1>1 DEF Probe!Codecs, Probe!IInv, Probe!TypeOK, Probe!Decided, Probe!Testing
<1>3. /\ \A q \in DOMAIN v7 : q \in DOMAIN v7' /\ v7'[q] = v7[q]
      /\ \A q \in DOMAIN v7' : q \in DOMAIN v7 \/ (q = Probe!Opened(c, k) /\ v7'[q] = r)
      /\ Probe!Refused(c, k) => r = Probe!Failed
      /\ ~Probe!Refused(c, k) => Probe!Opened(c, k) \in DOMAIN v7' /\ v7'[Probe!Opened(c, k)] = r
  <2>1. Probe!Validate(c, k, r)
    BY DEF Probe!TestFlag
  <2> HIDE DEF k
  <2> QED BY <2>1, ProbeValidates
<1>4. Probe!Opened(c, k).codec = c /\ (Probe!Opened(c, k).refs = 16 => Probe!Opened(c, k).hdr)
  <2>1. CASE f = "DYNAMIC_RANGE"
    <3>1. k.hdr = TRUE
      BY <2>1 DEF Probe!TestOf, Probe!Ask
    <3> QED BY <3>1 DEF Probe!Opened
  <2>2. CASE f = "SLICE"
    <3>1. k.refs = 1
      BY <2>2 DEF Probe!TestOf, Probe!Ask
    <3> QED BY <3>1 DEF Probe!Opened, Probe!RefsAsked
  <2> QED BY <2>1, <2>2
<1>5. /\ v5' \in [Probe!Codecs -> SUBSET Probe!Flags] /\ \A d \in Probe!Codecs \ {c} : v5'[d] = v5[d]
      /\ \A d \in Probe!Codecs : \A g \in Probe!Flags \ {f} : g \in v5'[d] <=> g \in v5[d]
      /\ f \in v5'[c] <=> r # Probe!Failed
      /\ Probe!Front' = Probe!Front
  <2>1. f \in Probe!Flags
    BY DEF Probe!Flags
  <2> QED BY <1>1, <1>2, <2>1 DEF Probe!Front
<1>6. /\ \A g \in Probe!Headers : g \in Probe!Flags \ {f}
      /\ {"PASSED", "CBR", "REF_FRAMES_RESTRICT", "REF_FRAMES_AUTOSELECT"} \subseteq Probe!Flags \ {f}
  BY DEF Probe!Headers, Probe!Flags
<1>7. v4' \in {<<f, "hevc">>, <<"SLICE", "h264">>, <<"end", "h264">>}
  BY <1>1 DEF Probe!AfterFlag
<1>8. Probe!TypeOK' /\ Probe!StepOK'
  BY <1>1, <1>2, <1>3, <1>4, <1>5, <1>7 DEF Probe!IInv, Probe!TypeOK, Probe!StepOK, Probe!Codecs
<1>9. \A d \in Probe!Codecs : Probe!Decided(d)' /\ ~Probe!Testing(d)'
  BY <1>7 DEF Probe!Decided, Probe!Testing
<1>10. Probe!RatesAreThere' /\ Probe!TestsAreRecorded' /\ Probe!HevcWaits' /\ Probe!Failures' /\ Probe!NothingIsWasted'
  <2>1. Probe!RatesAreThere'
    BY <1>2, <1>5, <1>6, <1>9 DEF Probe!IInv, Probe!RatesAreThere
  <2>2. Probe!TestsAreRecorded' /\ Probe!Failures'
    BY <1>9 DEF Probe!TestsAreRecorded, Probe!Failures, Probe!Codecs
  <2>3. Probe!HevcWaits' /\ Probe!NothingIsWasted'
    BY <1>1, <1>7 DEF Probe!IInv, Probe!HevcWaits, Probe!NothingIsWasted
  <2> QED BY <2>1, <2>2, <2>3
<1>11. Probe!DecidedWorks'
  <2>1. ASSUME NEW d \in Probe!Codecs, "PASSED" \in v5'[d]
        PROVE  /\ \E g \in DOMAIN Probe!FramesOf : g \in v5'[d]
               /\ \A g \in DOMAIN Probe!FramesOf : g \in v5'[d] =>
                    /\ Probe!Succeeded(Probe!Setting(d, Probe!FramesOf[g]))'
                    /\ \A h \in Probe!Headers :
                         h \in v5'[d] => h \in v7'[Probe!Setting(d, Probe!FramesOf[g])']
    BY <1>1, <1>2, <1>3, <1>5, <1>6, <2>1, ProbeStaysDecided
  <2> QED BY <2>1 DEF Probe!DecidedWorks, Probe!FramesOf
<1>12. Probe!PassedIsNeeded'
  BY <1>1, <1>2, <1>5, <1>6, <1>9 DEF Probe!IInv, Probe!PassedIsNeeded, Probe!Codecs, Probe!AfterFlag
<1>13. f = "SLICE" /\ "PASSED" \in v5[c] /\ "SLICE" \in v5[c] /\ Probe!SlicesOf(1) # 1 => "SLICE" \in v5'[c]
  <2> SUFFICES ASSUME f = "SLICE", "PASSED" \in v5[c], "SLICE" \in v5[c], Probe!SlicesOf(1) # 1
               PROVE  r # Probe!Failed
    BY <1>5
  <2> DEFINE n == IF "REF_FRAMES_RESTRICT" \in v5[c] THEN 1 ELSE 0
  <2>1. Probe!Opened(c, k) = Probe!Setting(c, n)
    BY ProbeOpens, ProbeSlices
  <2>2. ~Probe!Refused(c, k)
    BY ProbeRefuses DEF Probe!IInv
  <2>3. \E g \in DOMAIN Probe!FramesOf : g \in v5[c] /\ Probe!FramesOf[g] = n
    <3>1. \E g \in DOMAIN Probe!FramesOf : g \in v5[c]
      BY <1>2 DEF Probe!IInv, Probe!DecidedWorks
    <3> QED BY <3>1 DEF Probe!FramesOf
  <2>4. Probe!Succeeded(Probe!Setting(c, n))
    <3> HIDE DEF n
    <3> QED BY <1>2, <2>3 DEF Probe!IInv, Probe!DecidedWorks
  <2> QED BY <1>3, <2>1, <2>2, <2>4 DEF Probe!Succeeded
<1>14. Probe!RangeWorks'
  <2>1. ASSUME Probe!FlagTested("DYNAMIC_RANGE", "hevc")', "PASSED" \in v5'["hevc"], "DYNAMIC_RANGE" \in v5'["hevc"]
        PROVE  Probe!Works("hevc", Probe!TestOf["DYNAMIC_RANGE"])'
    <3>1. CASE f = "DYNAMIC_RANGE"
      <4>1. c = "hevc"
        BY <1>1, <1>2, <1>5, <1>6, <2>1, <3>1 DEF Probe!AfterFlag, Probe!FlagTested, Probe!Codecs
      <4>2. r # Probe!Failed /\ ~Probe!Refused(c, k)
        BY <1>3, <1>5, <2>1, <3>1, <4>1
      <4>3. Probe!Opened(c, k)' = Probe!Opened(c, k)
        BY <1>2, <1>5, <1>6, <3>1 DEF Probe!Opened, Probe!TestOf, Probe!Ask, Probe!SlicesOf, Probe!Flags
      <4>4. ~Probe!Refused(c, k)'
        BY <1>2, <1>5, <1>6, <2>1, <3>1, <4>1, <4>2 DEF Probe!Refused, Probe!TestOf, Probe!Ask
      <4> QED BY <1>3, <3>1, <4>1, <4>2, <4>3, <4>4 DEF Probe!Works
    <3>2. CASE f = "SLICE"
      <4>1. /\ "hevc" \in Probe!Codecs /\ "DYNAMIC_RANGE" \in Probe!Flags \ {f}
            /\ Probe!FlagTested("DYNAMIC_RANGE", "hevc")
        BY <1>1, <3>2 DEF Probe!Codecs, Probe!Flags, Probe!FlagTested
      <4>2. Probe!Works("hevc", Probe!TestOf["DYNAMIC_RANGE"])
        BY <1>2, <1>5, <1>6, <2>1, <4>1 DEF Probe!IInv, Probe!RangeWorks
      <4>3. Probe!SlicesOf(1) = 1 \/ ("SLICE" \in v5'["hevc"] <=> "SLICE" \in v5["hevc"])
        <5>1. "PASSED" \in v5["hevc"] /\ Probe!Decided("hevc")
          BY <1>2, <1>5, <1>6, <2>1, <4>1
        <5>2. Probe!SlicesOf(1) = 1 \/ "SLICE" \in v5["hevc"]
          BY <4>1, <5>1, ProbeSlices DEF Probe!IInv, Probe!SlicesStay
        <5>3. c = "hevc" /\ Probe!SlicesOf(1) # 1 => "SLICE" \in v5'["hevc"]
          BY <1>13, <3>2, <4>1, <5>1, <5>2
        <5> QED BY <1>5, <4>1, <5>2, <5>3
      <4> QED BY <1>1, <1>3, <1>5, <1>6, <2>1, <4>1, <4>2, <4>3, ProbeStillWorks
    <3> QED BY <3>1, <3>2
  <2>2. \A q \in DOMAIN v7' : q.refs = 16 => q.hdr
    BY <1>3, <1>4 DEF Probe!IInv, Probe!RangeWorks
  <2>3. ~Probe!Chosen'
    BY <1>7 DEF Probe!Chosen
  <2> QED BY <2>1, <2>2, <2>3 DEF Probe!RangeWorks
<1>15. Probe!SlicesTried'
  <2>1. Probe!Emptied => Probe!Emptied'
    BY <1>3, ProbeGrows
  <2>2. /\ v4' # <<"slice", "h264">> /\ ~Probe!Chosen' /\ v4'[1] # "slice"
        /\ \A d \in Probe!Codecs : ~Probe!FlagTested("SLICE", d)' => ~Probe!FlagTested("SLICE", d) /\ (f = "SLICE" => d # c)
    BY <1>1, <1>2, <1>7 DEF Probe!FlagTested, Probe!Chosen, Probe!Codecs, Probe!AfterFlag
  <2>3. \A d \in Probe!Codecs : ~Probe!FlagTested("SLICE", d)' => ("SLICE" \in v5'[d] <=> "SLICE" \in v5[d])
    BY <1>5, <2>2 DEF Probe!Flags
  <2>4. ~Probe!FlagTested("SLICE", "h264")' => "SLICE" \in v5'["h264"] \/ Probe!Emptied'
    BY <1>1, <1>2, <2>1, <2>2, <2>3 DEF Probe!IInv, Probe!SlicesTried, Probe!Codecs
  <2>5. ~Probe!FlagTested("SLICE", "hevc")' /\ "PASSED" \in v5'["hevc"] => "SLICE" \in v5'["hevc"]
    BY <1>2, <1>5, <1>6, <2>2, <2>3 DEF Probe!IInv, Probe!SlicesTried, Probe!Codecs
  <2>6. ASSUME NEW d \in Probe!Codecs, Probe!FlagTested("SLICE", d)', {"PASSED", "SLICE"} \subseteq v5'[d],
               Probe!Front' \notin SingleSlice
        PROVE  Probe!Works(d, Probe!TestOf["SLICE"])' \/ Probe!Emptied'
    <3>1. f = "SLICE"
      BY <1>1, <1>2, <1>5, <2>6 DEF Probe!AfterFlag, Probe!FlagTested
    <3>2. CASE d = c
      <4>1. r # Probe!Failed /\ ~Probe!Refused(c, k)
        BY <1>3, <1>5, <2>6, <3>1, <3>2
      <4>2. CASE "SLICE" \in v5[c]
        <5>1. Probe!Opened(c, k)' = Probe!Opened(c, k)
          BY <1>2, <1>5, <1>6, <2>6, <3>1, <3>2, <4>2
            DEF Probe!Opened, Probe!TestOf, Probe!Ask, Probe!RefsAsked, Probe!SlicesOf
        <5>2. ~Probe!Refused(c, k)'
          BY <1>2, <1>5, <1>6, <3>1, <4>1 DEF Probe!Refused, Probe!TestOf, Probe!Ask
        <5> QED BY <1>3, <3>1, <3>2, <4>1, <5>1, <5>2 DEF Probe!Works
      <4>3. CASE "SLICE" \notin v5[c]
        <5>1. ~Probe!FlagTested("SLICE", c) /\ v4[1] # "slice"
          BY <1>1, <1>2, <3>1 DEF Probe!FlagTested
        <5>2. c = "hevc" => "PASSED" \in v5[c]
          BY <1>1, <3>1 DEF Probe!IInv, Probe!PassedIsNeeded
        <5> QED BY <1>2, <2>1, <4>3, <5>1, <5>2 DEF Probe!IInv, Probe!SlicesTried
      <4> QED BY <4>2, <4>3
    <3>3. CASE d # c
      <4>1. c = "hevc" /\ d = "h264"
        BY <1>1, <1>2, <1>5, <1>6, <2>6, <3>1, <3>3 DEF Probe!AfterFlag, Probe!FlagTested, Probe!Codecs
      <4>2. Probe!FlagTested("SLICE", d) /\ v5'[d] = v5[d]
        BY <1>1, <1>5, <3>1, <3>3, <4>1 DEF Probe!FlagTested
      <4>3. Probe!Works(d, Probe!TestOf["SLICE"]) \/ Probe!Emptied
        BY <1>5, <2>6, <4>2 DEF Probe!IInv, Probe!SlicesTried
      <4> QED BY <1>1, <1>3, <2>1, <4>2, <4>3, ProbeStillWorks
    <3> QED BY <3>2, <3>3
  <2> QED BY <2>2, <2>4, <2>5, <2>6 DEF Probe!SlicesTried
<1>16. Probe!SlicesStay'
  <2>1. v4'[1] # "slice" /\ (Probe!Emptied => Probe!Emptied') /\ Probe!SlicesOf(1)' = Probe!SlicesOf(1)
    BY <1>3, <1>5, <1>7, ProbeGrows DEF Probe!SlicesOf
  <2>2. ASSUME NEW d \in Probe!Codecs, "PASSED" \in v5'[d], Probe!SlicesOf(1) > 1, "SLICE" \notin v5'[d]
        PROVE  d = "h264" /\ Probe!Emptied /\ Probe!Headers \cap v5[d] = {}
    <3>1. "PASSED" \in v5[d] /\ Probe!SlicesOf(1) # 1
      BY <1>5, <1>6, <2>2, ProbeSlices
    <3>2. "SLICE" \notin v5[d]
      <4>1. CASE d = c /\ f = "SLICE"
        BY <1>13, <2>2, <3>1, <4>1
      <4>2. CASE d # c \/ f # "SLICE"
        BY <1>5, <2>2, <4>2 DEF Probe!Flags
      <4> QED BY <4>1, <4>2
    <3> QED BY <1>2, <2>2, <3>1, <3>2 DEF Probe!IInv, Probe!SlicesStay
  <2>3. \A d \in Probe!Codecs : Probe!Headers \cap v5[d] = {} => Probe!Headers \cap v5'[d] = {}
    BY <1>5, <1>6
  <2> QED BY <2>1, <2>2, <2>3 DEF Probe!SlicesStay
<1> QED BY <1>8, <1>10, <1>11, <1>12, <1>14, <1>15, <1>16 DEF Probe!IInv

\* The encoder is taken: what is lost then is not asked for.
LEMMA ProbeChoose ==
    ASSUME Probe!IInv, Probe!Choose
    PROVE  Probe!IInv'
<1>1. /\ v4[1] = "end" /\ v4' = <<"chosen", "h264">>
      /\ ~(v1 = 3 /\ "DYNAMIC_RANGE" \notin v5["hevc"])
      /\ v5' = [c \in Probe!Codecs |-> v5[c] \ Probe!Lost]
      /\ v1' = (IF v1 = 0 THEN Probe!ModeOf(v5["hevc"]) ELSE v1)
      /\ UNCHANGED <<v2, v3, v6, v7, v8>>
  BY DEF Probe!Choose
<1>2. /\ v5 \in [Probe!Codecs -> SUBSET Probe!Flags] /\ v1 \in 0 .. 3
      /\ \A d \in Probe!Codecs : Probe!Decided(d) /\ Probe!Decided(d)' /\ ~Probe!Testing(d)'
            /\ Probe!FlagTested("SLICE", d) /\ Probe!FlagTested("SLICE", d)'
      /\ Probe!FlagTested("DYNAMIC_RANGE", "hevc")
  BY <1>1 DEF Probe!Codecs, Probe!IInv, Probe!TypeOK, Probe!Decided, Probe!Testing, Probe!FlagTested
<1>3. /\ v5' \in [Probe!Codecs -> SUBSET Probe!Flags]
      /\ \A d \in Probe!Codecs : v5'[d] = v5[d] \ Probe!Lost
      /\ \A d \in Probe!Codecs : v5'[d] \subseteq v5[d]
      /\ \A d \in Probe!Codecs :
            \A g \in {"PASSED", "CBR", "REF_FRAMES_RESTRICT", "REF_FRAMES_AUTOSELECT", "DYNAMIC_RANGE"} :
                g \in v5'[d] <=> g \in v5[d]
      /\ \A d \in Probe!Codecs : "SLICE" \in v5'[d] <=> "SLICE" \in v5[d] /\ Probe!Front \notin SingleSlice
      /\ Probe!Front' = Probe!Front
  BY <1>1, <1>2 DEF Probe!Lost, Probe!Front
<1>4. v1' \in 0 .. 3 /\ (v1' >= 2 => "PASSED" \in v5["hevc"]) /\ (v1' = 3 => "DYNAMIC_RANGE" \in v5["hevc"])
      /\ (v1 >= 2 => v1' >= 2)
  <2>1. v1 >= 2 => "PASSED" \in v5["hevc"]
    BY <1>2 DEF Probe!IInv, Probe!PassedIsNeeded, Probe!Codecs
  <2> QED BY <1>1, <1>2, <2>1 DEF Probe!ModeOf
<1>5. Probe!TypeOK' /\ Probe!StepOK'
  BY <1>1, <1>3, <1>4 DEF Probe!IInv, Probe!TypeOK, Probe!StepOK, Probe!Codecs
<1>6. Probe!RatesAreThere' /\ Probe!TestsAreRecorded' /\ Probe!HevcWaits' /\ Probe!Failures'
  BY <1>1, <1>2, <1>3 DEF Probe!IInv, Probe!RatesAreThere, Probe!TestsAreRecorded, Probe!HevcWaits,
    Probe!Failures, Probe!Codecs
<1>7. Probe!DecidedWorks'
  <2>1. ASSUME NEW d \in Probe!Codecs, "PASSED" \in v5'[d]
        PROVE  /\ \E g \in DOMAIN Probe!FramesOf : g \in v5'[d]
               /\ \A g \in DOMAIN Probe!FramesOf : g \in v5'[d] =>
                    /\ Probe!Succeeded(Probe!Setting(d, Probe!FramesOf[g]))'
                    /\ \A h \in Probe!Headers :
                         h \in v5'[d] => h \in v7'[Probe!Setting(d, Probe!FramesOf[g])']
    BY <1>1, <1>2, <1>3, <2>1, ProbeStaysDecided
  <2> QED BY <2>1 DEF Probe!DecidedWorks, Probe!FramesOf
<1>8. Probe!PassedIsNeeded' /\ Probe!NothingIsWasted'
  BY <1>1, <1>2, <1>3, <1>4 DEF Probe!IInv, Probe!PassedIsNeeded, Probe!NothingIsWasted, Probe!Codecs
<1>9. Probe!RangeWorks'
  <2>1. ASSUME "PASSED" \in v5'["hevc"], "DYNAMIC_RANGE" \in v5'["hevc"]
        PROVE  Probe!Works("hevc", Probe!TestOf["DYNAMIC_RANGE"])'
    <3>1. "hevc" \in Probe!Codecs
      BY DEF Probe!Codecs
    <3>2. Probe!Works("hevc", Probe!TestOf["DYNAMIC_RANGE"])
      BY <1>2, <1>3, <2>1, <3>1 DEF Probe!IInv, Probe!RangeWorks
    <3>3. Probe!SlicesOf(1) = 1 \/ ("SLICE" \in v5'["hevc"] <=> "SLICE" \in v5["hevc"])
      BY <1>3, <3>1, ProbeSlices
    <3> QED BY <1>1, <1>3, <2>1, <3>1, <3>2, <3>3, ProbeStillWorks
  <2> QED BY <1>1, <1>3, <1>4, <2>1 DEF Probe!IInv, Probe!RangeWorks, Probe!Codecs
<1>10. Probe!SlicesTried'
  <2>1. Probe!Emptied => Probe!Emptied'
    BY <1>1 DEF Probe!Emptied
  <2>2. ASSUME NEW d \in Probe!Codecs, {"PASSED", "SLICE"} \subseteq v5'[d], Probe!Front' \notin SingleSlice
        PROVE  Probe!Works(d, Probe!TestOf["SLICE"])' \/ Probe!Emptied'
    <3>1. Probe!Works(d, Probe!TestOf["SLICE"]) \/ Probe!Emptied
      BY <1>2, <1>3, <2>2 DEF Probe!IInv, Probe!SlicesTried
    <3> QED BY <1>1, <1>3, <2>1, <2>2, <3>1, ProbeStillWorks
  <2> QED BY <1>2, <1>3, <2>2 DEF Probe!SlicesTried, Probe!Codecs
<1>11. Probe!SlicesStay'
  <2>1. v4'[1] # "slice" /\ (Probe!Emptied => Probe!Emptied') /\ Probe!SlicesOf(1)' = Probe!SlicesOf(1)
    BY <1>1, <1>3 DEF Probe!Emptied, Probe!SlicesOf
  <2>2. ASSUME NEW d \in Probe!Codecs, "PASSED" \in v5'[d], Probe!SlicesOf(1) > 1, "SLICE" \notin v5'[d]
        PROVE  d = "h264" /\ Probe!Emptied /\ Probe!Headers \cap v5[d] = {}
    <3>1. "PASSED" \in v5[d] /\ "SLICE" \notin v5[d]
      BY <1>3, <2>2, ProbeSlices
    <3> QED BY <1>2, <2>2, <3>1 DEF Probe!IInv, Probe!SlicesStay
  <2>3. \A d \in Probe!Codecs : Probe!Headers \cap v5[d] = {} => Probe!Headers \cap v5'[d] = {}
    BY <1>3
  <2> QED BY <2>1, <2>2, <2>3 DEF Probe!SlicesStay
<1> QED BY <1>5, <1>6, <1>7, <1>8, <1>9, <1>10, <1>11 DEF Probe!IInv

\* No question and no decision breaks the invariant.
LEMMA ProbeStep == Probe!IInv /\ Probe!Next => Probe!IInv'
<1> SUFFICES ASSUME Probe!IInv, Probe!Next PROVE Probe!IInv'
  OBVIOUS
<1>1. DOMAIN Probe!TestOf = {"DYNAMIC_RANGE", "SLICE"}
  BY DEF Probe!TestOf
<1> QED
  BY <1>1, ProbeSkip, ProbeBegin, ProbeChoose, ProbeGivesUp, ProbeRetry, ProbeDecide, ProbeMax, ProbeAuto,
    ProbeFirstSlice, ProbeTestFlag DEF Probe!Next

\* What the invariant says once an encoder is chosen.
LEMMA ProbeOffers ==
    ASSUME Probe!IInv
    PROVE  /\ Probe!TypeOK /\ Probe!OfferedWorks /\ Probe!SlicesWork /\ Probe!HeadersAreSeen
           /\ Probe!NothingIsWasted
<1>1. Probe!TypeOK /\ Probe!NothingIsWasted
  BY DEF Probe!IInv
<1> SUFFICES ASSUME Probe!Chosen
             PROVE  Probe!OfferedWorks /\ Probe!SlicesWork /\ Probe!HeadersAreSeen
  BY <1>1 DEF Probe!OfferedWorks, Probe!SlicesWork, Probe!HeadersAreSeen
<1>2. \A d \in Probe!Offered : d \in Probe!Codecs /\ Probe!Decided(d) /\ "PASSED" \in v5[d]
  BY DEF Probe!IInv, Probe!PassedIsNeeded, Probe!Chosen, Probe!Decided, Probe!Offered, Probe!Codecs
<1>3. \A d \in Probe!Codecs : Probe!FlagTested("SLICE", d) /\ Probe!FlagTested("DYNAMIC_RANGE", d)
  BY DEF Probe!Chosen, Probe!FlagTested
<1>4. ASSUME NEW d \in Probe!Offered
      PROVE  /\ "REF_FRAMES_RESTRICT" \in v5[d] => Probe!Works(d, Probe!MaxRefFrames) \/ Probe!Resliced(d)
             /\ "REF_FRAMES_AUTOSELECT" \in v5[d] => Probe!Works(d, Probe!Autoselect) \/ Probe!Resliced(d)
             /\ v5[d] \cap {"REF_FRAMES_RESTRICT", "REF_FRAMES_AUTOSELECT"} # {}
  <2>1. /\ \E f \in DOMAIN Probe!FramesOf : f \in v5[d]
        /\ \A f \in DOMAIN Probe!FramesOf : f \in v5[d] => Probe!Succeeded(Probe!Setting(d, Probe!FramesOf[f]))
    BY <1>2 DEF Probe!IInv, Probe!DecidedWorks
  <2>2. "SLICE" \in v5[d] \/ Probe!SlicesOf(1) = 1 \/ Probe!Resliced(d)
    BY <1>2, ProbeSlices DEF Probe!IInv, Probe!SlicesStay, Probe!Resliced
  <2>3. CASE Probe!Resliced(d)
    BY <2>1, <2>3 DEF Probe!FramesOf
  <2>4. CASE "SLICE" \in v5[d] \/ Probe!SlicesOf(1) = 1
    BY <1>2, <2>1, <2>4, ProbeOpens, ProbeRefuses DEF Probe!IInv, Probe!Works, Probe!Succeeded, Probe!FramesOf
  <2> QED BY <2>2, <2>3, <2>4
<1>5. v1 = 3 => Probe!Works("hevc", Probe!TestOf["DYNAMIC_RANGE"])
  BY <1>2, <1>3 DEF Probe!IInv, Probe!RangeWorks, Probe!Offered, Probe!Codecs
<1>6. Probe!OfferedWorks
  BY <1>4, <1>5 DEF Probe!OfferedWorks
<1>7. Probe!SlicesWork
  BY <1>2, <1>3 DEF Probe!SlicesWork, Probe!IInv, Probe!SlicesTried, Probe!Emptied
<1>8. ASSUME NEW d \in Probe!Offered, NEW h \in Probe!Headers, NEW k \in {Probe!MaxRefFrames, Probe!Autoselect},
             h \in v5[d], Probe!Works(d, k)
      PROVE  h \in v7[Probe!Opened(d, k)]
  <2> DEFINE n == IF k = Probe!MaxRefFrames THEN (IF "REF_FRAMES_RESTRICT" \in v5[d] THEN 1 ELSE 0)
                  ELSE (IF "REF_FRAMES_AUTOSELECT" \in v5[d] THEN 0 ELSE 16)
  <2>1. "SLICE" \in v5[d] \/ Probe!SlicesOf(1) = 1
    BY <1>2, <1>8, ProbeSlices DEF Probe!IInv, Probe!SlicesStay
  <2>2. Probe!Opened(d, k) = Probe!Setting(d, n) /\ Probe!Setting(d, n) \in DOMAIN v7
    BY <1>2, <1>8, <2>1, ProbeOpens DEF Probe!Works, Probe!MaxRefFrames, Probe!Autoselect, Probe!Ask
  <2>3. n # 16
    BY <2>2 DEF Probe!Setting, Probe!IInv, Probe!RangeWorks
  <2>4. \E g \in DOMAIN Probe!FramesOf : g \in v5[d] /\ Probe!FramesOf[g] = n
    BY <1>4, <2>3 DEF Probe!FramesOf
  <2> QED BY <1>2, <1>8, <2>2, <2>4 DEF Probe!IInv, Probe!DecidedWorks
<1>9. Probe!HeadersAreSeen
  BY <1>8 DEF Probe!HeadersAreSeen
<1> QED BY <1>1, <1>6, <1>7, <1>9

\* What the invariant reads does not change by itself.
LEMMA ProbeStutters == Probe!IInv /\ UNCHANGED Probe!vars => Probe!IInv'
<1> SUFFICES ASSUME Probe!IInv, UNCHANGED Probe!vars PROVE Probe!IInv'
  OBVIOUS
<1> USE DEF Probe!vars
<1>1. /\ \A q, r : Probe!Answered(q, r) => Probe!Answered(q, r)'
      /\ \A q : Probe!Succeeded(q) => Probe!Succeeded(q)'
      /\ Probe!Emptied => Probe!Emptied'
  BY ProbeGrows
<1>2. \A c, r : Probe!Setting(c, r)' = Probe!Setting(c, r)
  BY DEF Probe!Setting, Probe!SlicesOf, Probe!Front
<1>3. \A c : /\ Probe!Testing(c)' <=> Probe!Testing(c)
             /\ Probe!Decided(c)' <=> Probe!Decided(c)
             /\ \A f : Probe!FlagTested(f, c)' <=> Probe!FlagTested(f, c)
  BY DEF Probe!Testing, Probe!Decided, Probe!FlagTested
<1>4. \A c, k : Probe!Works(c, k) => Probe!Works(c, k)'
  <2>1. \A c, k : Probe!Opened(c, k)' = Probe!Opened(c, k) /\ (Probe!Refused(c, k)' <=> Probe!Refused(c, k))
    BY DEF Probe!Opened, Probe!Refused, Probe!RefsAsked, Probe!Front, Probe!SlicesOf
  <2> QED BY <2>1 DEF Probe!Works
<1>5. Probe!Front' = Probe!Front /\ (Probe!TestHevc' <=> Probe!TestHevc) /\ (Probe!Chosen' <=> Probe!Chosen)
  BY DEF Probe!Front, Probe!TestHevc, Probe!ForceHevc, Probe!Chosen
<1>6. Probe!TypeOK' /\ Probe!StepOK'
  BY DEF Probe!IInv, Probe!TypeOK, Probe!StepOK
<1>7. Probe!RatesAreThere' /\ Probe!HevcWaits' /\ Probe!PassedIsNeeded' /\ Probe!NothingIsWasted'
  BY <1>3, <1>5 DEF Probe!IInv, Probe!RatesAreThere, Probe!HevcWaits, Probe!PassedIsNeeded, Probe!NothingIsWasted
<1>8. Probe!TestsAreRecorded'
  BY <1>1, <1>2, <1>3, <1>5 DEF Probe!IInv, Probe!TestsAreRecorded
<1>9. Probe!DecidedWorks'
  BY <1>1, <1>2, <1>3 DEF Probe!IInv, Probe!DecidedWorks
<1>10. Probe!RangeWorks'
  BY <1>3, <1>4, <1>5 DEF Probe!IInv, Probe!RangeWorks
<1>11. Probe!SlicesTried' /\ Probe!SlicesStay'
  BY <1>1, <1>3, <1>4, <1>5 DEF Probe!IInv, Probe!SlicesTried, Probe!SlicesStay, Probe!SlicesOf
<1>12. Probe!Failures'
  BY <1>3 DEF Probe!IInv, Probe!Failures, Probe!BothFailed
<1> QED BY <1>6, <1>7, <1>8, <1>9, <1>10, <1>11, <1>12 DEF Probe!IInv

\* The invariant of EncoderProbe holds always.
LEMMA ProbeInvariant == Spec => [](part = "probe" => Probe!IInv)
<1>1. Init => (part = "probe" => Probe!IInv)
  BY StartOfAPart, ProbeInit
<1>2. (part = "probe" => Probe!IInv) /\ [Next]_vars => (part = "probe" => Probe!IInv)'
  <2>1. Probe!IInv /\ UNCHANGED vars => Probe!IInv'
    BY ProbeStutters DEF vars, Probe!vars
  <2> QED BY <2>1, StepOfAPart, ProbeStep
<1> QED BY <1>1, <1>2, PTL DEF Spec

\* What clients are offered has been tried with the settings that they get: video.cpp, init()
\* and validate_encoder(), for any table of encoders and whatever each of them answers.
THEOREM OffersAreProbed == Spec => []OffersWereProbed
<1>1. (part = "probe" => Probe!IInv) => OffersWereProbed
  BY ProbeOffers DEF OffersWereProbed
<1> QED BY <1>1, ProbeInvariant, PTL

-----------------------------------------------------------------------------
(* Gamepads: an id, a device and the notes about it are of one controller. *)
(* The two parts differ in their controllers, so that the lemmas are about *)
(* any set A of them.                                                      *)

\* A controller has a session and a number.
Controllers(A) == A \subseteq {c[1] : c \in A} \X Nat

\* What Least chooses of some numbers is one of them.
LEMMA PadsLeast ==
    ASSUME NEW A, NEW S, S \subseteq Nat, S # {}
    PROVE  Pads(A)!Least(S) \in S
BY LeastElement DEF Pads!Least

\* The controller that updateGamepads() has come to is one of the packet's session.
LEMMA PadsChanged ==
    ASSUME NEW A, Controllers(A), Pads(A)!IInv, v7 # Nil, Pads(A)!ChangedOf(v7) # {}
    PROVE  <<v7.session, Pads(A)!Least(Pads(A)!ChangedOf(v7))>> \in A
<1> DEFINE S == Pads(A)!ChangedOf(v7)
<1>1. S \subseteq Pads(A)!PadsOf(v7.session) /\ S # {}
  BY DEF Pads!ChangedOf
<1>2. \A s, p : p \in Pads(A)!PadsOf(s) => <<s, p>> \in A
  BY DEF Pads!PadsOf
<1>3. \A p \in S : <<v7.session, p>> \in A
  BY <1>1, <1>2
<1>4. S \subseteq Nat
  BY <1>3 DEF Controllers
<1> QED BY <1>1, <1>3, <1>4, PadsLeast

\* At the start nothing is given out and nothing is known.
LEMMA PadsInit == ASSUME NEW A, Pads(A)!Init PROVE Pads(A)!IInv
<1> USE PadsAssumption
<1>1. /\ v1 = {} /\ v2 = [c \in A |-> Nil] /\ v3 = [s \in Pads(A)!Sessions |-> {}]
      /\ v4 = [c \in A |-> {}] /\ v5 = {} /\ v6 = {} /\ v7 = Nil /\ v8 = {} /\ v9 = {}
      /\ v10 = [i \in PadIds |-> Nil] /\ v11 = [i \in PadIds |-> {}] /\ v12 = <<>>
      /\ v13 = "check" /\ v14 = {} /\ v15 = {} /\ v16 = {} /\ v17 = FALSE /\ v18 = FALSE
  BY DEF Pads!Init
<1>2. Pads(A)!TypeOK /\ Pads(A)!ShapesOK
  <2>1. v17 \in BOOLEAN /\ v18 \in BOOLEAN
    BY <1>1
  <2>2. v12 \in Seq(Pads(A)!Note) /\ Len(v12) <= PadNotes
    BY <1>1
  <2>3. Pads(A)!TypeOK
    BY <1>1 DEF Pads!TypeOK
  <2>4. Pads(A)!ShapesOK
    BY <1>1, <2>1, <2>2 DEF Pads!ShapesOK
  <2> QED BY <2>3, <2>4
<1>3. Pads(A)!Owned = {}
  BY <1>1 DEF Pads!Owned
<1>4. Pads(A)!IdsBelongToOnePad /\ Pads(A)!IdsHaveOneFate /\ Pads(A)!HostShowsThePad
  BY <1>1, <1>3 DEF Pads!IdsBelongToOnePad, Pads!IdsHaveOneFate, Pads!HostShowsThePad
<1>5. Pads(A)!NotesLeadThere
  <2> DEFINE path == [k \in 0 .. Len(v12) |-> {}]
  <2>1. Len(v12) = 0 /\ path \in [0 .. Len(v12) -> SUBSET PadDevs] /\ path[0] = {}
    BY <1>1
  <2>2. Pads(A)!Present = {}
    BY <1>1 DEF Pads!Present
  <2> HIDE DEF path
  <2>3. Pads(A)!Leads(path)
    BY <2>1, <2>2, <1>1 DEF Pads!Leads
  <2> QED BY <2>1, <2>3 DEF Pads!NotesLeadThere
<1> QED BY <1>2, <1>4, <1>5 DEF Pads!IInv

\* raise(): a note more, or a queue that was emptied.
LEMMA PadsNoted ==
    ASSUME NEW A, Pads(A)!IInv, NEW n \in Pads(A)!Note, Pads(A)!Noted(n)
    PROVE  /\ v12' \in Seq(Pads(A)!Note) /\ Len(v12') <= PadNotes /\ v17' \in BOOLEAN
           /\ ~v17' => ~v17 /\ v12' = Append(v12, n)
<1>1. v12 \in Seq(Pads(A)!Note) /\ Len(v12) <= PadNotes /\ v17 \in BOOLEAN /\ PadNotes \in Nat \ {0}
  BY PadsAssumption DEF Pads!IInv, Pads!ShapesOK
<1>2. v12' = (IF Len(v12) = PadNotes THEN <<n>> ELSE Append(v12, n))
  BY DEF Pads!Noted
<1>3. v17' \in BOOLEAN /\ (~v17' => ~v17 /\ Len(v12) # PadNotes)
  BY <1>1, Zenon DEF Pads!Noted
<1>4. Append(v12, n) \in Seq(Pads(A)!Note) /\ Len(Append(v12, n)) = Len(v12) + 1
  BY <1>1, AppendProperties
<1>5. <<n>> \in Seq(Pads(A)!Note) /\ Len(<<n>>) = 1
  OBVIOUS
<1>6. CASE Len(v12) = PadNotes
  BY <1>1, <1>2, <1>3, <1>5, <1>6
<1>7. CASE Len(v12) # PadNotes
  BY <1>1, <1>2, <1>3, <1>4, <1>7
<1> QED BY <1>6, <1>7

\* free_gamepad() of an id that is taken.
LEMMA PadsFreed ==
    ASSUME NEW A, Pads(A)!IInv, Pads(A)!Goes, NEW i \in v1, Pads(A)!Freed(i)
    PROVE  /\ i \in PadIds /\ v10[i] \in PadDevs /\ v10[i] # Nil
           /\ Pads(A)!Noted([dev |-> v10[i], queue |-> FALSE])
           /\ [dev |-> v10[i], queue |-> FALSE] \in Pads(A)!Note
           /\ v1' = v1 \ {i} /\ v10' \in [PadIds -> PadDevs \cup {Nil}]
           /\ v10'[i] = Nil /\ \A j \in PadIds \ {i} : v10'[j] = v10[j]
           /\ v11' \in [PadIds -> SUBSET PadButtons]
           /\ v11'[i] = {} /\ \A j \in PadIds \ {i} : v11'[j] = v11[j]
           /\ v15' = v15 \ {i} /\ v15' \subseteq PadIds
<1>1. i \in PadIds /\ v10 \in [PadIds -> PadDevs \cup {Nil}] /\ v15 \subseteq PadIds
  BY DEF Pads!IInv, Pads!TypeOK
<1>2. v11 \in [PadIds -> SUBSET PadButtons]
  BY DEF Pads!IInv, Pads!ShapesOK
<1>3. v10[i] # Nil
  BY DEF Pads!IInv, Pads!IdsBelongToOnePad
<1>4. v10' = [v10 EXCEPT ![i] = Nil] /\ v11' = [v11 EXCEPT ![i] = {}]
      /\ v1' = v1 \ {i} /\ v15' = v15 \ {i} /\ Pads(A)!Noted([dev |-> v10[i], queue |-> FALSE])
  BY DEF Pads!Freed
<1>5. [dev |-> v10[i], queue |-> FALSE] \in Pads(A)!Note
  BY <1>1, <1>3 DEF Pads!Note
<1> QED BY <1>1, <1>2, <1>3, <1>4, <1>5

\* The device of a controller that is new.
PadsPlugs(A, d, c, i) ==
    /\ Pads(A)!Goes /\ c = <<v7.session, Pads(A)!Least(Pads(A)!ChangedOf(v7))>>
    /\ i \notin v1 /\ d \notin {v10[j] : j \in PadIds} /\ v7 # Nil
    /\ v1' = v1 \cup {i} /\ v10' = [v10 EXCEPT ![i] = d]
    /\ Pads(A)!Noted([dev |-> d, queue |-> TRUE])
    /\ [dev |-> d, queue |-> TRUE] \in Pads(A)!Note
    /\ v16' = v16 \cup ({v2[c]} \ {Nil}) /\ v2' = [v2 EXCEPT ![c] = i]
    /\ v7' = Pads(A)!Onward
    /\ UNCHANGED <<v3, v4, v5, v6, v8, v9, v11, v13, v14, v15, v18>>
\* A step of Plug has a controller and an id that is free.
LEMMA PadsPlugged ==
    ASSUME NEW A, Controllers(A), Pads(A)!IInv, NEW d \in PadDevs, Pads(A)!Plug(d)
    PROVE  \E c \in A, i \in PadIds : PadsPlugs(A, d, c, i)
<1> DEFINE c == <<v7.session, Pads(A)!Least(Pads(A)!ChangedOf(v7))>>
           i == Pads(A)!Least(PadIds \ v1)
<1>1. c \in A
  BY PadsChanged DEF Pads!Plug
<1>2. i \in PadIds \ v1
  <2>1. PadIds \ v1 \subseteq Nat /\ PadIds \ v1 # {}
    BY PadsAssumption DEF Pads!Plug, Pads!IInv, Pads!TypeOK
  <2> QED BY <2>1, PadsLeast
<1>3. [dev |-> d, queue |-> TRUE] \in Pads(A)!Note
  BY DEF Pads!Note
<1>4. /\ Pads(A)!Goes /\ d \notin {v10[j] : j \in PadIds} /\ v7 # Nil
      /\ v1' = v1 \cup {i} /\ v10' = [v10 EXCEPT ![i] = d]
      /\ Pads(A)!Noted([dev |-> d, queue |-> TRUE])
      /\ v16' = v16 \cup ({v2[c]} \ {Nil}) /\ v2' = [v2 EXCEPT ![c] = i]
      /\ v7' = Pads(A)!Onward
      /\ UNCHANGED <<v3, v4, v5, v6, v8, v9, v11, v13, v14, v15, v18>>
  BY DEF Pads!Plug, Pads!AfterPlug, Pads!thread
<1> HIDE DEF c, i
<1>5. c = <<v7.session, Pads(A)!Least(Pads(A)!ChangedOf(v7))>>
  BY DEF c
<1> QED BY <1>1, <1>2, <1>3, <1>4, <1>5 DEF PadsPlugs

\* A controller that is gone, or one that has no id and lets the packet fail.
PadsUnplugs(A, c) ==
    /\ Pads(A)!Goes /\ v7 # Nil
    /\ \/ /\ v2[c] = Nil /\ v7' = Nil
          /\ UNCHANGED <<v1, v2, v3, v4, v5, v6, v8, v9, v10, v11, v12, v13, v14, v15, v16, v17, v18>>
       \/ /\ v2[c] # Nil /\ v2[c] \in v1 /\ Pads(A)!Freed(v2[c])
          /\ v2' = [v2 EXCEPT ![c] = Nil] /\ v7' = Pads(A)!Onward
          /\ UNCHANGED <<v3, v4, v5, v6, v8, v9, v13, v14, v16, v18>>
\* A step of Unplug has a controller, which frees the id that it has.
LEMMA PadsUnplugged ==
    ASSUME NEW A, Controllers(A), Pads(A)!IInv, Pads(A)!Unplug
    PROVE  \E c \in A : PadsUnplugs(A, c)
<1> DEFINE c == <<v7.session, Pads(A)!Least(Pads(A)!ChangedOf(v7))>>
<1>1. c \in A
  BY PadsChanged DEF Pads!Unplug
<1>2. v2[c] \in v1 \cup {Nil}
  BY <1>1 DEF Pads!IInv, Pads!TypeOK
<1>3. /\ Pads(A)!Goes /\ v7 # Nil
      /\ \/ /\ v2[c] = Nil /\ v7' = Nil
            /\ UNCHANGED <<v1, v2, v3, v4, v5, v6, v8, v9, v10, v11, v12, v13, v14, v15, v16, v17, v18>>
         \/ /\ v2[c] # Nil /\ Pads(A)!Freed(v2[c])
            /\ v2' = [v2 EXCEPT ![c] = Nil] /\ v7' = Pads(A)!Onward
            /\ UNCHANGED <<v3, v4, v5, v6, v8, v9, v13, v14, v16, v18>>
  <2> USE DEF Pads!Unplug, Pads!AfterUnplug, Pads!thread, Pads!history, Pads!devices
  <2>1. Pads(A)!Goes /\ v7 # Nil
    OBVIOUS
  <2>2. CASE v2[c] = Nil
    BY <2>1, <2>2
  <2>3. CASE v2[c] # Nil
    BY <2>1, <2>3
  <2> QED BY <2>2, <2>3
<1> HIDE DEF c
<1> QED BY <1>1, <1>2, <1>3 DEF PadsUnplugs

\* A note more: what exists now is what the notes lead to.
LEMMA PadsNoteAdded ==
    ASSUME NEW A, Pads(A)!IInv, Pads(A)!Goes, NEW n \in Pads(A)!Note, Pads(A)!Noted(n), v14' = v14,
           n.queue <=> n.dev \notin Pads(A)!Present,
           Pads(A)!Present' = IF n.queue THEN Pads(A)!Present \cup {n.dev} ELSE Pads(A)!Present \ {n.dev}
    PROVE  Pads(A)!NotesLeadThere'
<1> SUFFICES ASSUME ~v17' PROVE \E path \in [0 .. Len(v12') -> SUBSET PadDevs] : Pads(A)!Leads(path)'
  BY DEF Pads!NotesLeadThere
<1>1. ~v17 /\ v12' = Append(v12, n) /\ v12 \in Seq(Pads(A)!Note)
  BY PadsNoted DEF Pads!IInv, Pads!ShapesOK
<1>2. PICK path \in [0 .. Len(v12) -> SUBSET PadDevs] : Pads(A)!Leads(path)
  BY <1>1 DEF Pads!IInv, Pads!NotesLeadThere
<1>3. Pads(A)!Present \in SUBSET PadDevs
  <2>1. path[Len(v12)] \in SUBSET PadDevs /\ Pads(A)!Present = path[Len(v12)]
    BY <1>1, <1>2 DEF Pads!Leads
  <2> QED BY <2>1
<1>4. Pads(A)!Present' \in SUBSET PadDevs
  BY <1>3 DEF Pads!Note
<1>5. /\ Len(v12) \in Nat /\ Len(v12') = Len(v12) + 1 /\ v12'[Len(v12) + 1] = n
      /\ \A k \in 1 .. Len(v12) : v12'[k] = v12[k]
  BY <1>1, AppendProperties
<1>6. PICK longer \in [0 .. Len(v12') -> SUBSET PadDevs] :
        longer[Len(v12')] = Pads(A)!Present' /\ \A k \in 0 .. Len(v12) : longer[k] = path[k]
  <2> DEFINE f == [k \in 0 .. Len(v12') |-> IF k = Len(v12') THEN Pads(A)!Present' ELSE path[k]]
  <2>1. /\ f \in [0 .. Len(v12') -> SUBSET PadDevs] /\ f[Len(v12')] = Pads(A)!Present'
        /\ \A k \in 0 .. Len(v12) : f[k] = path[k]
    BY <1>4, <1>5
  <2> HIDE DEF f
  <2> QED BY <2>1
<1>7. Pads(A)!Leads(longer)'
  <2>1. longer[0] = v14' /\ longer[Len(v12')] = Pads(A)!Present'
    BY <1>2, <1>5, <1>6 DEF Pads!Leads
  <2>2. ASSUME NEW k \in 1 .. Len(v12')
        PROVE  IF v12'[k].queue THEN v12'[k].dev \notin longer[k - 1] /\ longer[k] = longer[k - 1] \cup {v12'[k].dev}
               ELSE v12'[k].dev \in longer[k - 1] /\ longer[k] = longer[k - 1] \ {v12'[k].dev}
    <3>1. CASE k = Len(v12')
      <4>1. v12'[k] = n /\ longer[k] = Pads(A)!Present' /\ longer[k - 1] = Pads(A)!Present
        BY <3>1, <1>2, <1>5, <1>6 DEF Pads!Leads
      <4> QED BY <4>1
    <3>2. CASE k # Len(v12')
      <4>1. k \in 1 .. Len(v12) /\ v12'[k] = v12[k] /\ longer[k] = path[k] /\ longer[k - 1] = path[k - 1]
        BY <3>2, <1>5, <1>6
      <4>2. IF v12[k].queue THEN v12[k].dev \notin path[k - 1] /\ path[k] = path[k - 1] \cup {v12[k].dev}
            ELSE v12[k].dev \in path[k - 1] /\ path[k] = path[k - 1] \ {v12[k].dev}
        BY <4>1, <1>2 DEF Pads!Leads
      <4> QED BY <4>1, <4>2
    <3> QED BY <3>1, <3>2
  <2> QED BY <2>1, <2>2 DEF Pads!Leads
<1> QED BY <1>6, <1>7

\* What exists is what has a device, and a device goes with its id.
LEMMA PadsPresent ==
    ASSUME NEW A, Pads(A)!IInv
    PROVE  /\ \A i \in v1, j \in v1 : i \in PadIds /\ (v10[i] = v10[j] /\ v10[i] # Nil => i = j)
           /\ Pads(A)!Goes => \A i \in v1 : v10[i] # Nil
           /\ \A i \in v1 : v10[i] \in Pads(A)!Present
           /\ \A d \in Pads(A)!Present : \E i \in v1 : d = v10[i]
BY DEF Pads!IInv, Pads!TypeOK, Pads!IdsBelongToOnePad, Pads!IdsHaveOneFate, Pads!Present

\* free_gamepad() adds a note that the device ends, which has existed.
LEMMA PadsNoteOfEnd ==
    ASSUME NEW A, Pads(A)!IInv, Pads(A)!Goes, NEW i \in v1, Pads(A)!Freed(i), v14' = v14
    PROVE  Pads(A)!NotesLeadThere'
<1> DEFINE n == [dev |-> v10[i], queue |-> FALSE]
<1>1. n \in Pads(A)!Note /\ Pads(A)!Noted(n) /\ n.dev = v10[i] /\ n.queue = FALSE
  BY PadsFreed
<1>2. v10[i] \in Pads(A)!Present
  BY PadsPresent
<1>3. Pads(A)!Present' = Pads(A)!Present \ {v10[i]}
  <2>1. v1' = v1 \ {i} /\ \A j \in PadIds \ {i} : v10'[j] = v10[j]
    BY PadsFreed
  <2>2. \A j \in v1 \ {i} : v10'[j] = v10[j] /\ v10[j] # v10[i]
    BY <2>1, PadsPresent
  <2>3. Pads(A)!Present' = {v10[j] : j \in v1 \ {i}}
    BY <2>1, <2>2 DEF Pads!Present
  <2> QED BY <2>2, <2>3 DEF Pads!Present
<1> HIDE DEF n
<1> QED BY <1>1, <1>2, <1>3, PadsNoteAdded

\* alloc_gamepad() adds a note of a device that has not existed.
LEMMA PadsNoteOfStart ==
    ASSUME NEW A, Controllers(A), Pads(A)!IInv, NEW d \in PadDevs, Pads(A)!Plug(d)
    PROVE  Pads(A)!NotesLeadThere'
<1> DEFINE n == [dev |-> d, queue |-> TRUE]
<1>1. PICK i \in PadIds :
        /\ i \notin v1 /\ d \notin {v10[j] : j \in PadIds} /\ v1' = v1 \cup {i} /\ v10' = [v10 EXCEPT ![i] = d]
        /\ Pads(A)!Goes /\ Pads(A)!Noted(n) /\ n \in Pads(A)!Note /\ v14' = v14
  BY PadsPlugged DEF PadsPlugs
<1>2. n.dev = d /\ n.queue = TRUE
  OBVIOUS
<1>3. d \notin Pads(A)!Present
  BY <1>1, PadsPresent
<1>4. Pads(A)!Present' = Pads(A)!Present \cup {d}
  <2>1. v10 \in [PadIds -> PadDevs \cup {Nil}]
    BY DEF Pads!IInv, Pads!TypeOK
  <2>2. v10'[i] = d /\ \A j \in v1 : v10'[j] = v10[j]
    BY <1>1, <2>1, PadsPresent
  <2> QED BY <1>1, <2>2 DEF Pads!Present
<1> HIDE DEF n
<1> QED BY <1>1, <1>2, <1>3, <1>4, PadsNoteAdded

\* A note that is read has led from what was known to what is known now.
LEMMA PadsNoteTaken ==
    ASSUME NEW A, Pads(A)!IInv, Pads(A)!TakeNote
    PROVE  /\ Pads(A)!NotesLeadThere' /\ v14' \subseteq PadDevs
           /\ v12' \in Seq(Pads(A)!Note) /\ Len(v12') <= PadNotes
<1>1. /\ v12 # <<>> /\ v12' = Tail(v12) /\ v14' = Pads(A)!Known(Head(v12))
      /\ UNCHANGED <<v1, v10, v13, v17, v18>>
  BY DEF Pads!TakeNote, Pads!history
<1>2. v12 \in Seq(Pads(A)!Note) /\ Len(v12) <= PadNotes /\ PadNotes \in Nat /\ v14 \subseteq PadDevs
  BY PadsAssumption DEF Pads!IInv, Pads!ShapesOK, Pads!TypeOK
<1>3. /\ Len(v12) \in Nat \ {0} /\ v12' \in Seq(Pads(A)!Note) /\ Len(v12') = Len(v12) - 1
      /\ Head(v12) = v12[1] /\ v12[1] \in Pads(A)!Note
      /\ \A k \in 1 .. Len(v12') : v12'[k] = v12[k + 1] /\ k + 1 \in 1 .. Len(v12)
  BY <1>1, <1>2
<1>4. Pads(A)!NotesLeadThere'
  <2> SUFFICES ASSUME Pads(A)!Goes, ~v17
               PROVE  \E path \in [0 .. Len(v12') -> SUBSET PadDevs] : Pads(A)!Leads(path)'
    BY <1>1 DEF Pads!NotesLeadThere, Pads!Goes
  <2>1. PICK path \in [0 .. Len(v12) -> SUBSET PadDevs] : Pads(A)!Leads(path)
    BY DEF Pads!IInv, Pads!NotesLeadThere
  <2>2. /\ path[0] = v14 /\ path[Len(v12)] = Pads(A)!Present
        /\ \A k \in 1 .. Len(v12) :
             IF v12[k].queue THEN v12[k].dev \notin path[k - 1] /\ path[k] = path[k - 1] \cup {v12[k].dev}
             ELSE v12[k].dev \in path[k - 1] /\ path[k] = path[k - 1] \ {v12[k].dev}
    BY <2>1 DEF Pads!Leads
  <2>3. path[1] = v14'
    <3>1. 1 \in 1 .. Len(v12) /\ path[1 - 1] = v14
      BY <1>3, <2>2
    <3>2. IF v12[1].queue THEN v12[1].dev \notin v14 /\ path[1] = v14 \cup {v12[1].dev}
          ELSE v12[1].dev \in v14 /\ path[1] = v14 \ {v12[1].dev}
      BY <2>2, <3>1
    <3> QED BY <1>1, <1>3, <3>2 DEF Pads!Known
  <2>4. PICK rest \in [0 .. Len(v12') -> SUBSET PadDevs] : \A k \in 0 .. Len(v12') : rest[k] = path[k + 1]
    <3> DEFINE f == [k \in 0 .. Len(v12') |-> path[k + 1]]
    <3>1. f \in [0 .. Len(v12') -> SUBSET PadDevs] /\ \A k \in 0 .. Len(v12') : f[k] = path[k + 1]
      BY <1>3
    <3> HIDE DEF f
    <3> QED BY <3>1
  <2>5. rest[0] = v14' /\ rest[Len(v12')] = Pads(A)!Present'
    <3>1. Pads(A)!Present' = Pads(A)!Present
      BY <1>1 DEF Pads!Present
    <3> QED BY <1>3, <2>2, <2>3, <2>4, <3>1
  <2>6. ASSUME NEW k \in 1 .. Len(v12')
        PROVE  IF v12'[k].queue THEN v12'[k].dev \notin rest[k - 1] /\ rest[k] = rest[k - 1] \cup {v12'[k].dev}
               ELSE v12'[k].dev \in rest[k - 1] /\ rest[k] = rest[k - 1] \ {v12'[k].dev}
    <3>1. /\ k + 1 \in 1 .. Len(v12) /\ v12'[k] = v12[k + 1]
          /\ rest[k] = path[k + 1] /\ rest[k - 1] = path[(k + 1) - 1]
      BY <1>3, <2>4
    <3> QED BY <3>1, <2>2
  <2>7. Pads(A)!Leads(rest)'
    BY <2>5, <2>6 DEF Pads!Leads
  <2> QED BY <2>7
<1>5. v14' \subseteq PadDevs
  BY <1>1, <1>2, <1>3 DEF Pads!Known, Pads!Note
<1> QED BY <1>2, <1>3, <1>4, <1>5

\* What neither raises nor reads a note changes nothing of where the notes lead.
LEMMA PadsNotesStay ==
    ASSUME NEW A, Pads(A)!IInv, UNCHANGED <<v1, v10, v12, v14, v17>>, Pads(A)!Goes' => Pads(A)!Goes
    PROVE  Pads(A)!NotesLeadThere'
<1> SUFFICES ASSUME Pads(A)!Goes, ~v17
             PROVE  \E path \in [0 .. Len(v12') -> SUBSET PadDevs] : Pads(A)!Leads(path)'
  BY DEF Pads!NotesLeadThere
<1>1. PICK path \in [0 .. Len(v12) -> SUBSET PadDevs] : Pads(A)!Leads(path)
  BY DEF Pads!IInv, Pads!NotesLeadThere
<1>2. Pads(A)!Leads(path)'
  <2>1. Pads(A)!Present' = Pads(A)!Present
    BY DEF Pads!Present
  <2> QED BY <1>1, <2>1 DEF Pads!Leads
<1> QED BY <1>1, <1>2

\* The rest of a packet is of the same session.
LEMMA PadsOnward ==
    ASSUME NEW A, Pads(A)!IInv, v7 # Nil, v7' = Pads(A)!Onward
    PROVE  /\ v7'.session \in Pads(A)!Sessions /\ v7'.active \in SUBSET Pads(A)!PadsOf(v7'.session)
           /\ v7'.pad \in Pads(A)!PadsOf(v7'.session) /\ v7'.pressed \in SUBSET PadButtons
BY DEF Pads!IInv, Pads!ShapesOK, Pads!Onward

\* The ids: what is given out is owned, about to be freed, or lost, and only one of these.
PadsIds(A) ==
    /\ v1 \subseteq PadIds /\ v8 \subseteq v1 /\ v16 \subseteq v1
    /\ v2 \in [A -> v1 \cup {Nil}]
    /\ \A c, e \in A : v2[c] = v2[e] /\ v2[c] # Nil => c = e
    /\ v1 = Pads(A)!Owned \cup v8 \cup v16
    /\ Pads(A)!Owned \cap v8 = {} /\ Pads(A)!Owned \cap v16 = {} /\ v8 \cap v16 = {}

\* The invariant says this of the ids.
LEMMA PadsIdsHold == ASSUME NEW A, Pads(A)!IInv PROVE PadsIds(A)
BY DEF Pads!IInv, Pads!TypeOK, Pads!IdsBelongToOnePad, Pads!IdsHaveOneFate, PadsIds

\* An id that is given out, given back or lost leaves the others alone.
LEMMA PadsIdsStep ==
    ASSUME NEW A, Controllers(A), Pads(A)!IInv, Pads(A)!Next
    PROVE  PadsIds(A)'
<1>1. PadsIds(A) /\ PadIds \subseteq Nat /\ Nil \notin PadIds
  BY PadsIdsHold, PadsAssumption
<1>2. CASE UNCHANGED <<v1, v2, v8, v16>>
  BY <1>1, <1>2 DEF PadsIds, Pads!Owned
<1>3. ASSUME Pads(A)!Unplug PROVE PadsIds(A)'
  <2>1. PICK c \in A :
          \/ UNCHANGED <<v1, v2, v8, v16>>
          \/ /\ v2[c] # Nil /\ v2[c] \in v1 /\ v1' = v1 \ {v2[c]}
             /\ v2' = [v2 EXCEPT ![c] = Nil] /\ UNCHANGED <<v8, v16>>
    <3>1. PICK c \in A : PadsUnplugs(A, c)
      BY <1>3, PadsUnplugged DEF PadsUnplugs
    <3> QED BY <3>1 DEF PadsUnplugs, Pads!Freed
  <2>2. CASE v2' = [v2 EXCEPT ![c] = Nil] /\ v2[c] # Nil
    <3>1. v2'[c] = Nil /\ \A e \in A \ {c} : v2'[e] = v2[e] /\ (v2[e] # v2[c])
      BY <1>1, <2>2 DEF PadsIds
    <3>2. Pads(A)!Owned' = Pads(A)!Owned \ {v2[c]}
      BY <3>1 DEF Pads!Owned
    <3>3. v2[c] \in Pads(A)!Owned
      BY <2>2 DEF Pads!Owned
    <3>4. v1' = v1 \ {v2[c]} /\ v8' = v8 /\ v16' = v16
      BY <1>1, <2>1, <2>2, <3>1
    <3>5. v2' \in [A -> v1' \cup {Nil}]
      BY <1>1, <2>2, <3>1, <3>4 DEF PadsIds
    <3> QED BY <1>1, <3>1, <3>2, <3>3, <3>4, <3>5 DEF PadsIds
  <2> QED BY <1>2, <2>1, <2>2
<1>4. ASSUME NEW d \in PadDevs, Pads(A)!Plug(d) PROVE PadsIds(A)'
  <2>1. PICK c \in A, i \in PadIds :
          /\ i \notin v1 /\ v1' = v1 \cup {i} /\ v16' = v16 \cup ({v2[c]} \ {Nil})
          /\ v2' = [v2 EXCEPT ![c] = i] /\ v8' = v8
    <3>1. PICK c \in A, i \in PadIds : PadsPlugs(A, d, c, i)
      BY <1>4, PadsPlugged
    <3> QED BY <3>1 DEF PadsPlugs
  <2>2. v2'[c] = i /\ (\A e \in A \ {c} : v2'[e] = v2[e]) /\ v2' \in [A -> v1' \cup {Nil}]
    BY <1>1, <2>1 DEF PadsIds
  <2>3. \A e \in A : v2[e] \in v1 \cup {Nil} /\ i # Nil
    BY <1>1, <2>1 DEF PadsIds
  <2>4. Pads(A)!Owned' = (Pads(A)!Owned \ {v2[c]}) \cup {i}
    BY <1>1, <2>1, <2>2, <2>3 DEF Pads!Owned, PadsIds
  <2>5. v2[c] # Nil => v2[c] \in Pads(A)!Owned
    BY DEF Pads!Owned
  <2>6. v8' \subseteq v1' /\ v16' \subseteq v1'
    BY <1>1, <2>1, <2>3 DEF PadsIds
  <2>7. \A e, f \in A : v2'[e] = v2'[f] /\ v2'[e] # Nil => e = f
    BY <1>1, <2>1, <2>2, <2>3 DEF PadsIds
  <2>8. i \notin v8 /\ i \notin v16 /\ i \notin Pads(A)!Owned
    BY <1>1, <2>1 DEF PadsIds
  <2>9. v1' = Pads(A)!Owned' \cup v8' \cup v16' /\ v1' \subseteq PadIds
    BY <1>1, <2>1, <2>4, <2>5, <2>8 DEF PadsIds
  <2>10. Pads(A)!Owned' \cap v8' = {} /\ Pads(A)!Owned' \cap v16' = {} /\ v8' \cap v16' = {}
    <3>1. /\ Pads(A)!Owned \cap v8 = {} /\ Pads(A)!Owned \cap v16 = {} /\ v8 \cap v16 = {}
          /\ v8' = v8 /\ v16' = v16 \cup ({v2[c]} \ {Nil})
      BY <1>1, <2>1 DEF PadsIds
    <3> QED BY <3>1, <2>4, <2>5, <2>8
  <2> QED BY <2>2, <2>6, <2>7, <2>9, <2>10 DEF PadsIds
<1>5. ASSUME NEW s \in Pads(A)!Sessions, Pads(A)!Destroy(s) PROVE PadsIds(A)'
  <2> DEFINE lost == {v2[<<s, p>>] : p \in Pads(A)!PadsOf(s)} \ {Nil}
  <2>1. /\ v8' = v8 \cup lost /\ v2' = [c \in A |-> IF c[1] = s THEN Nil ELSE v2[c]]
        /\ v1' = v1 /\ v16' = v16
    BY <1>5 DEF Pads!Destroy, Pads!devices, Pads!history
  <2>2. \A i : i \in lost <=> i # Nil /\ \E c \in A : c[1] = s /\ i = v2[c]
    <3>1. \A c \in A : c = <<c[1], c[2]>> /\ (c[1] = s => c[2] \in Pads(A)!PadsOf(s))
      BY DEF Pads!PadsOf, Controllers
    <3>2. \A p \in Pads(A)!PadsOf(s) : <<s, p>> \in A /\ <<s, p>>[1] = s
      BY DEF Pads!PadsOf
    <3> QED BY <3>1, <3>2
  <2> HIDE DEF lost
  <2>3. Pads(A)!Owned' = Pads(A)!Owned \ lost
    BY <1>1, <2>1, <2>2 DEF Pads!Owned, PadsIds
  <2>4. lost \subseteq Pads(A)!Owned
    BY <2>2 DEF Pads!Owned
  <2>5. v2' \in [A -> v1' \cup {Nil}] /\ \A e, f \in A : v2'[e] = v2'[f] /\ v2'[e] # Nil => e = f
    BY <1>1, <2>1 DEF PadsIds
  <2> QED BY <1>1, <2>1, <2>3, <2>4, <2>5 DEF PadsIds
<1>6. ASSUME NEW i \in PadIds, Pads(A)!FreeTask(i) PROVE PadsIds(A)'
  <2>1. i \in v8 /\ v8' = v8 \ {i} /\ v1' = v1 \ {i} /\ v2' = v2 /\ v16' = v16
    BY <1>6 DEF Pads!FreeTask, Pads!Freed, Pads!packets, Pads!history
  <2>2. i \notin Pads(A)!Owned /\ Pads(A)!Owned' = Pads(A)!Owned
    BY <1>1, <2>1 DEF PadsIds, Pads!Owned
  <2>3. v2' \in [A -> v1' \cup {Nil}]
    BY <1>1, <2>1, <2>2 DEF PadsIds, Pads!Owned
  <2> QED BY <1>1, <2>1, <2>2, <2>3 DEF PadsIds
<1>7. \/ UNCHANGED <<v1, v2, v8, v16>> \/ Pads(A)!Unplug \/ (\E d \in PadDevs : Pads(A)!Plug(d))
      \/ (\E s \in Pads(A)!Sessions : Pads(A)!Destroy(s)) \/ (\E i \in PadIds : Pads(A)!FreeTask(i))
  BY DEF Pads!Next, Pads!Receive, Pads!BackTimeout, Pads!Upload, Pads!PlugFails, Pads!Press, Pads!TakeNote,
    Pads!StartPoll, Pads!Iterate, Pads!Quit, Pads!packets, Pads!devices, Pads!thread, Pads!history
<1> QED BY <1>2, <1>3, <1>4, <1>5, <1>6, <1>7

\* The devices: each has one id, and only what has an id shows buttons.
PadsDevices(A) ==
    /\ v10 \in [PadIds -> PadDevs \cup {Nil}] /\ v11 \in [PadIds -> SUBSET PadButtons] /\ v15 \subseteq PadIds
    /\ \A i, j \in PadIds : v10[i] = v10[j] /\ v10[i] # Nil => i = j
    /\ \A i \in PadIds \ v1 : v11[i] = {}
    /\ Pads(A)!Goes => v1 = {i \in PadIds : v10[i] # Nil}

\* The invariant says this of the devices.
LEMMA PadsDevicesHold == ASSUME NEW A, Pads(A)!IInv PROVE PadsDevices(A)
BY DEF Pads!IInv, Pads!TypeOK, Pads!ShapesOK, Pads!IdsBelongToOnePad, Pads!IdsHaveOneFate, PadsDevices

\* The buttons: what was pressed, what became HOME, and what a packet says.
PadsButtons(A) ==
    /\ v3 \in [Pads(A)!Sessions -> SUBSET {c[2] : c \in A}] /\ v4 \in [A -> SUBSET PadButtons]
    /\ v5 \subseteq A /\ v6 \subseteq A /\ v9 \subseteq Pads(A)!Sessions
    /\ v7 # Nil => /\ v7.session \in Pads(A)!Sessions /\ v7.active \in SUBSET Pads(A)!PadsOf(v7.session)
                   /\ v7.pad \in Pads(A)!PadsOf(v7.session) /\ v7.pressed \in SUBSET PadButtons
    /\ \A c \in v5 : "back" \notin v4[c]

\* The invariant says this of the buttons.
LEMMA PadsButtonsHold == ASSUME NEW A, Pads(A)!IInv PROVE PadsButtons(A)
BY DEF Pads!IInv, Pads!TypeOK, Pads!ShapesOK, Pads!IdsHaveOneFate, PadsButtons

\* What the host gets to see of the controller of a packet.
LEMMA PadsPressed ==
    ASSUME NEW A, Pads(A)!IInv, Pads(A)!Press
    PROVE  \E c \in A, now \in SUBSET PadButtons :
             /\ v7 # Nil /\ v7' = Nil /\ v3' = [v3 EXCEPT ![v7.session] = v7.active]
             /\ (c \in v5' => "back" \notin now)
             /\ \/ UNCHANGED <<v4, v5, v6, v11>>
                \/ /\ v2[c] # Nil /\ v5' \subseteq v5 /\ v6' \subseteq v6 \cup {c}
                   /\ v11' = [v11 EXCEPT ![v2[c]] = now] /\ v4' = [v4 EXCEPT ![c] = now]
<1> DEFINE c == <<v7.session, v7.pad>>
           now == Pads(A)!Shown(c, v7.pressed)
<1>1. c \in A /\ now \in SUBSET PadButtons
  BY DEF Pads!Press, Pads!IInv, Pads!ShapesOK, Pads!PadsOf, Pads!Shown
<1>2. v7 # Nil /\ v7' = Nil /\ v3' = [v3 EXCEPT ![v7.session] = v7.active]
  BY DEF Pads!Press
<1>3. \/ UNCHANGED <<v4, v5, v6, v11>>
      \/ /\ v2[c] # Nil /\ v5' = (IF "back" \in v7.pressed THEN v5 ELSE v5 \ {c})
         /\ v6' = (IF ("back" \in now) = ("back" \in v4[c]) THEN v6
                   ELSE IF "back" \in now THEN v6 \cup {c} ELSE v6 \ {c})
         /\ v11' = [v11 EXCEPT ![v2[c]] = now] /\ v4' = [v4 EXCEPT ![c] = now]
  BY DEF Pads!Press
<1>4. c \in v5 => "back" \notin now
  BY DEF Pads!Shown
<1>5. c \in v5' /\ "back" \in now => c \in v5
  BY <1>3
<1> HIDE DEF c, now
<1>6. CASE UNCHANGED <<v4, v5, v6, v11>>
  BY <1>1, <1>2, <1>4, <1>5, <1>6
<1>7. CASE ~(UNCHANGED <<v4, v5, v6, v11>>)
  <2>1. v5' \subseteq v5 /\ v6' \subseteq v6 \cup {c}
    BY <1>3, <1>7
  <2> QED BY <1>1, <1>2, <1>3, <1>4, <1>5, <1>7, <2>1
<1> QED BY <1>6, <1>7

\* HOME is pressed and released instead of BACK.
LEMMA PadsTimedOut ==
    ASSUME NEW A, Pads(A)!IInv, NEW c \in A, Pads(A)!BackTimeout(c)
    PROVE  /\ Pads(A)!Goes /\ v6' \subseteq v6 /\ v5' = v5 \cup {c} /\ v4' = [v4 EXCEPT ![c] = v4[c] \ {"back", "home"}]
           /\ v18' \in BOOLEAN /\ (~v18' => v2[c] # Nil)
           /\ v11' = [i \in PadIds |-> IF i = v2[c] THEN v4[c] \ {"back", "home"} ELSE v11[i]]
           /\ UNCHANGED <<v1, v2, v3, v7, v8, v9, v10, v12, v13, v14, v15, v16, v17>>
<1>1. v18' = (v2[c] = Nil)
  BY DEF Pads!BackTimeout
<1>2. v18' \in BOOLEAN /\ (~v18' => v2[c] # Nil)
  BY <1>1, Zenon
<1> QED BY <1>2 DEF Pads!BackTimeout, Pads!HomeOf, Pads!thread

\* What leaves the devices alone, or lets one go.
LEMMA PadsDevicesStay ==
    ASSUME NEW A, PadsDevices(A), UNCHANGED <<v1, v10, v11>>, v15' \subseteq PadIds, Pads(A)!Goes' => Pads(A)!Goes
    PROVE  PadsDevices(A)'
BY DEF PadsDevices

\* free_gamepad() takes the device and the buttons of its id only.
LEMMA PadsDeviceGoes ==
    ASSUME NEW A, Pads(A)!IInv, Pads(A)!Goes, NEW i \in v1, Pads(A)!Freed(i)
    PROVE  PadsDevices(A)'
<1>1. PadsDevices(A) /\ v1 = {j \in PadIds : v10[j] # Nil}
  BY PadsDevicesHold DEF PadsDevices
<1>2. /\ i \in PadIds /\ v1' = v1 \ {i} /\ v10' \in [PadIds -> PadDevs \cup {Nil}]
      /\ v10'[i] = Nil /\ \A j \in PadIds \ {i} : v10'[j] = v10[j]
      /\ v11' \in [PadIds -> SUBSET PadButtons]
      /\ v11'[i] = {} /\ \A j \in PadIds \ {i} : v11'[j] = v11[j]
      /\ v15' \subseteq PadIds
  BY PadsFreed
<1>3. v1' = {j \in PadIds : v10'[j] # Nil}
  BY <1>1, <1>2
<1> QED BY <1>1, <1>2, <1>3 DEF PadsDevices

\* No step gives a device to two ids, or leaves buttons pressed without one.
LEMMA PadsDevicesStep ==
    ASSUME NEW A, Controllers(A), Pads(A)!IInv, Pads(A)!Next
    PROVE  PadsDevices(A)'
<1>1. PadsDevices(A) /\ PadsIds(A) /\ PadsButtons(A)
  BY PadsDevicesHold, PadsIdsHold, PadsButtonsHold
<1>2. ASSUME UNCHANGED <<v1, v10, v11>>, v15' \subseteq PadIds, Pads(A)!Goes' => Pads(A)!Goes
      PROVE  PadsDevices(A)'
  BY <1>1, <1>2, PadsDevicesStay
<1>3. ASSUME Pads(A)!Unplug PROVE PadsDevices(A)'
  <2>1. PICK c \in A :
          /\ Pads(A)!Goes
          /\ \/ UNCHANGED <<v1, v10, v11, v13, v15, v18>>
             \/ v2[c] \in v1 /\ Pads(A)!Freed(v2[c])
    BY <1>3, PadsUnplugged DEF PadsUnplugs
  <2>2. CASE UNCHANGED <<v1, v10, v11, v13, v15, v18>>
    BY <1>1, <1>2, <2>1, <2>2 DEF PadsDevices
  <2>3. CASE v2[c] \in v1 /\ Pads(A)!Freed(v2[c])
    BY <2>1, <2>3, PadsDeviceGoes
  <2> QED BY <2>1, <2>2, <2>3
<1>4. ASSUME NEW d \in PadDevs, Pads(A)!Plug(d) PROVE PadsDevices(A)'
  <2>1. PICK i \in PadIds :
          /\ Pads(A)!Goes /\ i \notin v1 /\ d \notin {v10[j] : j \in PadIds}
          /\ v1' = v1 \cup {i} /\ v10' = [v10 EXCEPT ![i] = d] /\ v11' = v11 /\ v15' = v15
    BY <1>4, PadsPlugged DEF PadsPlugs
  <2>2. d # Nil
    BY PadsAssumption
  <2>3. v10' \in [PadIds -> PadDevs \cup {Nil}] /\ v10'[i] = d /\ \A j \in PadIds \ {i} : v10'[j] = v10[j]
    BY <1>1, <2>1 DEF PadsDevices
  <2>4. v1' = {j \in PadIds : v10'[j] # Nil}
    BY <1>1, <2>1, <2>2, <2>3 DEF PadsDevices
  <2>5. \A j, k \in PadIds : v10'[j] = v10'[k] /\ v10'[j] # Nil => j = k
    BY <1>1, <2>1, <2>3 DEF PadsDevices
  <2> QED BY <1>1, <2>1, <2>3, <2>4, <2>5 DEF PadsDevices
<1>5. ASSUME NEW i \in PadIds, Pads(A)!FreeTask(i) PROVE PadsDevices(A)'
  BY <1>1, <1>5, PadsDeviceGoes DEF Pads!FreeTask, PadsIds
<1>6. ASSUME Pads(A)!Press PROVE PadsDevices(A)'
  <2>1. PICK c \in A, now \in SUBSET PadButtons :
          v11' = v11 \/ (v2[c] # Nil /\ v11' = [v11 EXCEPT ![v2[c]] = now])
    BY <1>6, PadsPressed
  <2>2. UNCHANGED <<v1, v10, v13, v15, v18>>
    BY <1>6 DEF Pads!Press, Pads!thread, Pads!history
  <2>3. CASE v11' = v11
    BY <1>1, <1>2, <2>2, <2>3 DEF PadsDevices, Pads!Goes
  <2>4. CASE v2[c] # Nil /\ v11' = [v11 EXCEPT ![v2[c]] = now]
    <3>1. v2[c] \in v1 /\ v2[c] \in PadIds
      BY <1>1, <2>4 DEF PadsIds
    <3>2. v11' \in [PadIds -> SUBSET PadButtons] /\ \A i \in PadIds \ v1 : v11'[i] = v11[i]
      BY <1>1, <2>4, <3>1 DEF PadsDevices
    <3> QED BY <1>1, <2>2, <3>2 DEF PadsDevices, Pads!Goes
  <2> QED BY <2>1, <2>3, <2>4
<1>7. ASSUME NEW c \in A, Pads(A)!BackTimeout(c) PROVE PadsDevices(A)'
  <2>1. /\ v11' = [i \in PadIds |-> IF i = v2[c] THEN v4[c] \ {"back", "home"} ELSE v11[i]]
        /\ UNCHANGED <<v1, v10, v15>> /\ Pads(A)!Goes
    BY <1>7, PadsTimedOut
  <2>2. v4[c] \ {"back", "home"} \in SUBSET PadButtons
    BY <1>1 DEF PadsButtons
  <2>3. v2[c] \in v1 \cup {Nil} /\ Nil \notin PadIds
    BY <1>1, PadsAssumption DEF PadsIds
  <2>4. v11' \in [PadIds -> SUBSET PadButtons] /\ \A i \in PadIds \ v1 : v11'[i] = v11[i]
    BY <1>1, <2>1, <2>2, <2>3 DEF PadsDevices
  <2> QED BY <1>1, <2>1, <2>4 DEF PadsDevices
<1>8. ASSUME Pads(A)!Quit PROVE PadsDevices(A)'
  BY <1>1, <1>8 DEF Pads!Quit, PadsDevices, Pads!Goes
<1>9. \/ UNCHANGED <<v1, v10, v11>> /\ v15' \subseteq PadIds /\ (Pads(A)!Goes' => Pads(A)!Goes)
      \/ Pads(A)!Unplug \/ (\E d \in PadDevs : Pads(A)!Plug(d)) \/ (\E i \in PadIds : Pads(A)!FreeTask(i))
      \/ Pads(A)!Press \/ (\E c \in A : Pads(A)!BackTimeout(c)) \/ Pads(A)!Quit
  <2>1. ASSUME NEW i \in PadUploads, Pads(A)!Upload(i)
        PROVE  UNCHANGED <<v1, v10, v11>> /\ v15' \subseteq PadIds /\ Pads(A)!Goes
    BY <1>1, <2>1, PadsAssumption DEF Pads!Upload, Pads!devices, PadsDevices
  <2> QED
    BY <1>1, <2>1 DEF Pads!Next, Pads!Receive, Pads!PlugFails, Pads!TakeNote, Pads!Destroy, Pads!StartPoll, Pads!Iterate,
      Pads!packets, Pads!devices, Pads!thread, Pads!history, PadsDevices, Pads!Goes
<1> QED BY <1>2, <1>3, <1>4, <1>5, <1>6, <1>7, <1>8, <1>9

\* No step shows a BACK button that became HOME.
LEMMA PadsButtonsStep ==
    ASSUME NEW A, Controllers(A), Pads(A)!IInv, Pads(A)!Next
    PROVE  PadsButtons(A)'
<1>1. PadsButtons(A)
  BY PadsButtonsHold
<1>2. ASSUME UNCHANGED <<v3, v4, v5, v6, v7>>, v9' \subseteq Pads(A)!Sessions PROVE PadsButtons(A)'
  BY <1>1, <1>2 DEF PadsButtons
<1>3. ASSUME UNCHANGED <<v3, v4, v5, v6, v9>>, v7 # Nil, v7' = Nil \/ v7' = Pads(A)!Onward PROVE PadsButtons(A)'
  <2>1. CASE v7' = Nil
    BY <1>1, <1>3, <2>1 DEF PadsButtons
  <2>2. CASE v7' = Pads(A)!Onward
    BY <1>1, <1>3, <2>2, PadsOnward DEF PadsButtons
  <2> QED BY <1>3, <2>1, <2>2
<1>4. ASSUME Pads(A)!Unplug PROVE PadsButtons(A)'
  <2>1. UNCHANGED <<v3, v4, v5, v6, v9>> /\ v7 # Nil /\ (v7' = Nil \/ v7' = Pads(A)!Onward)
    BY <1>4, PadsUnplugged DEF PadsUnplugs
  <2> QED BY <1>3, <2>1
<1>5. ASSUME NEW d \in PadDevs, Pads(A)!Plug(d) PROVE PadsButtons(A)'
  <2>1. UNCHANGED <<v3, v4, v5, v6, v9>> /\ v7 # Nil /\ v7' = Pads(A)!Onward
    BY <1>5, PadsPlugged DEF PadsPlugs
  <2> QED BY <1>3, <2>1
<1>6. ASSUME Pads(A)!PlugFails PROVE PadsButtons(A)'
  BY <1>3, <1>6 DEF Pads!PlugFails
<1>7. ASSUME NEW s \in Pads(A)!Sessions, NEW p \in Pads(A)!PadsOf(s), NEW want \in SUBSET Pads(A)!PadsOf(s),
             NEW pressed \in SUBSET PadButtons, Pads(A)!Receive(s, want, p, pressed)
      PROVE  PadsButtons(A)'
  BY <1>1, <1>7 DEF Pads!Receive, PadsButtons
<1>8. ASSUME Pads(A)!Press PROVE PadsButtons(A)'
  <2>1. PICK c \in A, now \in SUBSET PadButtons :
          /\ v7 # Nil /\ v7' = Nil /\ v3' = [v3 EXCEPT ![v7.session] = v7.active] /\ (c \in v5' => "back" \notin now)
          /\ \/ UNCHANGED <<v4, v5, v6, v11>>
             \/ /\ v5' \subseteq v5 /\ v6' \subseteq v6 \cup {c} /\ v4' = [v4 EXCEPT ![c] = now]
    BY <1>8, PadsPressed
  <2>2. v9' = v9
    BY <1>8 DEF Pads!Press
  <2>3. v3' \in [Pads(A)!Sessions -> SUBSET {e[2] : e \in A}]
    <3>1. Pads(A)!PadsOf(v7.session) \subseteq {e[2] : e \in A}
      BY DEF Pads!PadsOf
    <3> QED BY <1>1, <2>1, <3>1 DEF PadsButtons
  <2>4. CASE UNCHANGED <<v4, v5, v6, v11>>
    BY <1>1, <2>1, <2>2, <2>3, <2>4 DEF PadsButtons
  <2>5. CASE v5' \subseteq v5 /\ v6' \subseteq v6 \cup {c} /\ v4' = [v4 EXCEPT ![c] = now]
    <3>1. v4' \in [A -> SUBSET PadButtons] /\ v4'[c] = now /\ \A e \in A \ {c} : v4'[e] = v4[e]
      BY <1>1, <2>5 DEF PadsButtons
    <3>2. \A e \in v5' : "back" \notin v4'[e]
      BY <1>1, <2>1, <2>5, <3>1 DEF PadsButtons
    <3> QED BY <1>1, <2>1, <2>2, <2>3, <2>5, <3>1, <3>2 DEF PadsButtons
  <2> QED BY <2>1, <2>4, <2>5
<1>9. ASSUME NEW c \in A, Pads(A)!BackTimeout(c) PROVE PadsButtons(A)'
  <2>1. /\ v6' \subseteq v6 /\ v5' = v5 \cup {c} /\ v4' = [v4 EXCEPT ![c] = v4[c] \ {"back", "home"}]
        /\ UNCHANGED <<v3, v7, v9>>
    BY <1>9, PadsTimedOut
  <2>2. /\ v4' \in [A -> SUBSET PadButtons] /\ "back" \notin v4'[c] /\ \A e \in A \ {c} : v4'[e] = v4[e]
    BY <1>1, <2>1 DEF PadsButtons
  <2> QED BY <1>1, <2>1, <2>2 DEF PadsButtons
<1>10. ASSUME NEW s \in Pads(A)!Sessions, Pads(A)!Destroy(s) PROVE PadsButtons(A)'
  BY <1>1, <1>2, <1>10 DEF Pads!Destroy, PadsButtons
<1>11. CASE \/ (\E i \in PadIds : Pads(A)!FreeTask(i)) \/ (\E i \in PadUploads : Pads(A)!Upload(i))
            \/ Pads(A)!TakeNote \/ Pads(A)!StartPoll \/ Pads(A)!Iterate \/ Pads(A)!Quit
  <2>1. UNCHANGED <<v3, v4, v5, v6, v7, v9>>
    BY <1>11 DEF Pads!FreeTask, Pads!Upload, Pads!TakeNote, Pads!StartPoll, Pads!Iterate, Pads!Quit, Pads!packets
  <2> QED BY <1>1, <1>2, <2>1 DEF PadsButtons
<1> QED BY <1>4, <1>5, <1>6, <1>7, <1>8, <1>9, <1>10, <1>11 DEF Pads!Next

\* What the host sees of a controller that has an id.
LEMMA PadsShownStep ==
    ASSUME NEW A, Controllers(A), Pads(A)!IInv, Pads(A)!Next
    PROVE  Pads(A)!HostShowsThePad'
<1>1. PadsIds(A) /\ PadsDevices(A) /\ PadsButtons(A) /\ PadsButtons(A)' /\ Pads(A)!HostShowsThePad
  BY PadsIdsHold, PadsDevicesHold, PadsButtonsHold, PadsButtonsStep DEF Pads!IInv
<1> SUFFICES ASSUME NEW e \in A, Pads(A)!Goes', v2'[e] # Nil
             PROVE  v11'[v2'[e]] \in {{}, v4'[e]}
  BY <1>1 DEF Pads!HostShowsThePad, PadsButtons
<1>2. Pads(A)!Goes => (v2[e] # Nil => v11[v2[e]] \in {{}, v4[e]})
  BY <1>1 DEF Pads!HostShowsThePad
<1>3. CASE UNCHANGED <<v2, v4, v11>> /\ Pads(A)!Goes
  BY <1>2, <1>3
<1>4. ASSUME Pads(A)!Unplug PROVE v11'[v2'[e]] \in {{}, v4'[e]}
  <2>1. PICK c \in A :
          /\ Pads(A)!Goes
          /\ \/ UNCHANGED <<v2, v4, v11>>
             \/ /\ v2[c] # Nil /\ v2[c] \in v1 /\ Pads(A)!Freed(v2[c])
                /\ v2' = [v2 EXCEPT ![c] = Nil] /\ v4' = v4
    BY <1>4, PadsUnplugged DEF PadsUnplugs
  <2>2. CASE UNCHANGED <<v2, v4, v11>>
    BY <1>3, <2>1, <2>2
  <2>3. CASE v2[c] # Nil /\ v2[c] \in v1 /\ Pads(A)!Freed(v2[c]) /\ v2' = [v2 EXCEPT ![c] = Nil] /\ v4' = v4
    <3>1. \A j \in PadIds \ {v2[c]} : v11'[j] = v11[j]
      BY <2>1, <2>3, PadsFreed
    <3>2. e # c /\ v2'[e] = v2[e] /\ v2[e] # v2[c] /\ v2[e] \in PadIds
      BY <1>1, <2>3 DEF PadsIds
    <3> QED BY <1>2, <2>1, <2>3, <3>1, <3>2
  <2> QED BY <2>1, <2>2, <2>3
<1>5. ASSUME NEW d \in PadDevs, Pads(A)!Plug(d) PROVE v11'[v2'[e]] \in {{}, v4'[e]}
  <2>1. PICK c \in A, i \in PadIds : PadsPlugs(A, d, c, i)
    BY <1>5, PadsPlugged
  <2> USE DEF PadsPlugs
  <2>2. v2'[c] = i /\ (e # c => v2'[e] = v2[e]) /\ v11[i] = {}
    BY <1>1, <2>1 DEF PadsIds, PadsDevices
  <2> QED BY <1>2, <2>1, <2>2
<1>6. ASSUME NEW i \in PadIds, Pads(A)!FreeTask(i) PROVE v11'[v2'[e]] \in {{}, v4'[e]}
  <2>1. i \in v1 /\ Pads(A)!Goes /\ Pads(A)!Freed(i) /\ UNCHANGED <<v2, v4>> /\ i \in v8
    BY <1>1, <1>6 DEF Pads!FreeTask, PadsIds, Pads!packets
  <2>2. v2[e] \in PadIds /\ v2[e] # i
    BY <1>1, <2>1 DEF PadsIds, Pads!Owned
  <2>3. v11'[v2[e]] = v11[v2[e]]
    BY <2>1, <2>2, PadsFreed
  <2> QED BY <1>2, <2>1, <2>3
<1>7. ASSUME Pads(A)!Press PROVE v11'[v2'[e]] \in {{}, v4'[e]}
  <2>1. PICK c \in A, now \in SUBSET PadButtons :
          \/ UNCHANGED <<v4, v5, v6, v11>>
          \/ /\ v2[c] # Nil /\ v11' = [v11 EXCEPT ![v2[c]] = now] /\ v4' = [v4 EXCEPT ![c] = now]
    BY <1>7, PadsPressed
  <2>2. v2' = v2 /\ Pads(A)!Goes
    BY <1>7 DEF Pads!Press
  <2>3. CASE UNCHANGED <<v4, v5, v6, v11>>
    BY <1>3, <2>2, <2>3
  <2>4. CASE v2[c] # Nil /\ v11' = [v11 EXCEPT ![v2[c]] = now] /\ v4' = [v4 EXCEPT ![c] = now]
    <3>1. v2[c] \in PadIds /\ v2[e] \in PadIds /\ (e # c => v2[e] # v2[c])
      BY <1>1, <2>2, <2>4 DEF PadsIds
    <3>2. v11'[v2[c]] = now /\ v4'[c] = now /\ (e # c => v11'[v2[e]] = v11[v2[e]] /\ v4'[e] = v4[e])
      BY <1>1, <2>4, <3>1 DEF PadsDevices, PadsButtons
    <3> QED BY <1>2, <2>2, <3>2
  <2> QED BY <2>1, <2>3, <2>4
<1>8. ASSUME NEW c \in A, Pads(A)!BackTimeout(c) PROVE v11'[v2'[e]] \in {{}, v4'[e]}
  <2>1. /\ Pads(A)!Goes /\ v4' = [v4 EXCEPT ![c] = v4[c] \ {"back", "home"}] /\ v2' = v2
        /\ v11' = [i \in PadIds |-> IF i = v2[c] THEN v4[c] \ {"back", "home"} ELSE v11[i]]
    BY <1>8, PadsTimedOut
  <2>2. v2[e] \in PadIds /\ (e # c => v2[e] # v2[c])
    BY <1>1, <2>1 DEF PadsIds
  <2>3. v4'[c] = v4[c] \ {"back", "home"} /\ (e # c => v4'[e] = v4[e])
    BY <1>1, <2>1 DEF PadsButtons
  <2> QED BY <1>2, <2>1, <2>2, <2>3
<1>9. ASSUME NEW s \in Pads(A)!Sessions, Pads(A)!Destroy(s) PROVE v11'[v2'[e]] \in {{}, v4'[e]}
  <2>1. Pads(A)!Goes /\ v2' = [c \in A |-> IF c[1] = s THEN Nil ELSE v2[c]] /\ UNCHANGED <<v4, v11>>
    BY <1>9 DEF Pads!Destroy, Pads!devices
  <2>2. v2'[e] = v2[e]
    BY <2>1
  <2> QED BY <1>2, <2>1, <2>2
<1>10. ~Pads(A)!Quit
  BY DEF Pads!Quit, Pads!Goes
<1>11. \/ UNCHANGED <<v2, v4, v11>> /\ Pads(A)!Goes
       \/ Pads(A)!Unplug \/ (\E d \in PadDevs : Pads(A)!Plug(d)) \/ (\E i \in PadIds : Pads(A)!FreeTask(i))
       \/ Pads(A)!Press \/ (\E c \in A : Pads(A)!BackTimeout(c)) \/ Pads(A)!Quit
       \/ (\E s \in Pads(A)!Sessions : Pads(A)!Destroy(s))
  BY DEF Pads!Next, Pads!Receive, Pads!PlugFails, Pads!TakeNote, Pads!Upload, Pads!StartPoll, Pads!Iterate,
    Pads!packets, Pads!devices, Pads!thread, Pads!history, Pads!Goes
<1> QED BY <1>3, <1>4, <1>5, <1>6, <1>7, <1>8, <1>9, <1>10, <1>11

\* The notes and the thread that reads them.
PadsThread(A) ==
    /\ v12 \in Seq(Pads(A)!Note) /\ Len(v12) <= PadNotes /\ v17 \in BOOLEAN /\ v18 \in BOOLEAN
    /\ v13 \in {"check", "poll", "stopped"} /\ v14 \subseteq PadDevs

\* The invariant says this of the notes.
LEMMA PadsThreadHold == ASSUME NEW A, Pads(A)!IInv PROVE PadsThread(A)
BY DEF Pads!IInv, Pads!TypeOK, Pads!ShapesOK, PadsThread

\* Every step of the packets adds its note, and the thread reads the oldest.
LEMMA PadsThreadStep ==
    ASSUME NEW A, Controllers(A), Pads(A)!IInv, Pads(A)!Next
    PROVE  PadsThread(A)' /\ Pads(A)!NotesLeadThere'
<1>1. PadsThread(A) /\ PadsIds(A)
  BY PadsThreadHold, PadsIdsHold
<1>2. ASSUME UNCHANGED <<v1, v10, v12, v14, v17>>, v13' \in {"check", "poll", "stopped"}, v18' \in BOOLEAN,
             Pads(A)!Goes' => Pads(A)!Goes
      PROVE  PadsThread(A)' /\ Pads(A)!NotesLeadThere'
  <2>1. PadsThread(A)'
    <3>1. v17' \in BOOLEAN
      BY <1>1, <1>2 DEF PadsThread
    <3> QED BY <1>1, <1>2, <3>1 DEF PadsThread
  <2>2. Pads(A)!NotesLeadThere'
    BY <1>2, PadsNotesStay
  <2> QED BY <2>1, <2>2
<1>3. ASSUME NEW n \in Pads(A)!Note, Pads(A)!Noted(n), UNCHANGED <<v13, v14, v18>>
      PROVE  PadsThread(A)'
  <2>1. v12' \in Seq(Pads(A)!Note) /\ Len(v12') <= PadNotes /\ v17' \in BOOLEAN
    BY <1>3, PadsNoted
  <2>2. v18' \in BOOLEAN
    BY <1>1, <1>3 DEF PadsThread
  <2> QED BY <1>1, <1>3, <2>1, <2>2 DEF PadsThread
<1>4. ASSUME NEW i \in v1, Pads(A)!Goes, Pads(A)!Freed(i), UNCHANGED <<v13, v14, v18>>
      PROVE  PadsThread(A)' /\ Pads(A)!NotesLeadThere'
  BY <1>3, <1>4, PadsFreed, PadsNoteOfEnd
<1>5. ASSUME Pads(A)!Unplug PROVE PadsThread(A)' /\ Pads(A)!NotesLeadThere'
  <2>1. PICK c \in A :
          /\ Pads(A)!Goes /\ UNCHANGED <<v13, v14, v18>>
          /\ \/ UNCHANGED <<v1, v10, v12, v14, v17>>
             \/ v2[c] \in v1 /\ Pads(A)!Freed(v2[c])
    BY <1>5, PadsUnplugged DEF PadsUnplugs
  <2>2. CASE UNCHANGED <<v1, v10, v12, v14, v17>>
    <3>1. v18' \in BOOLEAN
      BY <1>1, <2>1 DEF PadsThread
    <3> QED BY <1>1, <1>2, <2>1, <2>2, <3>1 DEF PadsThread, Pads!Goes
  <2> QED BY <1>4, <2>1, <2>2
<1>6. ASSUME NEW d \in PadDevs, Pads(A)!Plug(d) PROVE PadsThread(A)' /\ Pads(A)!NotesLeadThere'
  <2>1. PICK c \in A, i \in PadIds : PadsPlugs(A, d, c, i)
    BY <1>6, PadsPlugged
  <2> QED BY <1>3, <1>6, <2>1, PadsNoteOfStart DEF PadsPlugs
<1>7. ASSUME NEW i \in PadIds, Pads(A)!FreeTask(i) PROVE PadsThread(A)' /\ Pads(A)!NotesLeadThere'
  BY <1>1, <1>4, <1>7 DEF Pads!FreeTask, PadsIds, Pads!thread, Pads!history
<1>8. ASSUME Pads(A)!TakeNote PROVE PadsThread(A)' /\ Pads(A)!NotesLeadThere'
  <2>1. UNCHANGED <<v13, v17, v18>>
    BY <1>8 DEF Pads!TakeNote, Pads!history
  <2>2. v17' \in BOOLEAN /\ v18' \in BOOLEAN
    BY <1>1, <2>1 DEF PadsThread
  <2> QED BY <1>1, <1>8, <2>1, <2>2, PadsNoteTaken DEF PadsThread
<1>9. ASSUME NEW c \in A, Pads(A)!BackTimeout(c) PROVE PadsThread(A)' /\ Pads(A)!NotesLeadThere'
  <2>1. UNCHANGED <<v1, v10, v12, v13, v14, v17>> /\ v18' \in BOOLEAN /\ Pads(A)!Goes
    BY <1>9, PadsTimedOut
  <2> QED BY <1>1, <1>2, <2>1 DEF PadsThread
<1>10. ASSUME Pads(A)!Quit PROVE PadsThread(A)' /\ Pads(A)!NotesLeadThere'
  <2>1. v12' = <<>> /\ v14' = {} /\ v13' = "stopped" /\ UNCHANGED <<v17, v18>>
    BY <1>10 DEF Pads!Quit, Pads!history
  <2>2. v17' \in BOOLEAN /\ v18' \in BOOLEAN
    BY <1>1, <2>1 DEF PadsThread
  <2>3. v12' \in Seq(Pads(A)!Note) /\ Len(v12') <= PadNotes
    BY <2>1, PadsAssumption
  <2> QED BY <2>1, <2>2, <2>3 DEF PadsThread, Pads!NotesLeadThere, Pads!Goes
<1>11. CASE \/ (\E s \in Pads(A)!Sessions : Pads(A)!Destroy(s) \/
                    \E p \in Pads(A)!PadsOf(s), want \in SUBSET Pads(A)!PadsOf(s), pressed \in SUBSET PadButtons :
                       Pads(A)!Receive(s, want, p, pressed))
            \/ (\E i \in PadUploads : Pads(A)!Upload(i))
            \/ Pads(A)!PlugFails \/ Pads(A)!Press \/ Pads(A)!StartPoll \/ Pads(A)!Iterate
  <2>1. /\ UNCHANGED <<v1, v10, v12, v14, v17, v18>> /\ v13' \in {v13, "check", "poll"}
        /\ Pads(A)!Goes' => Pads(A)!Goes
    BY <1>11 DEF Pads!Receive, Pads!Destroy, Pads!Upload, Pads!PlugFails, Pads!Press, Pads!StartPoll, Pads!Iterate,
      Pads!devices, Pads!thread, Pads!history, Pads!Goes
  <2>2. v18' \in BOOLEAN
    BY <1>1, <2>1 DEF PadsThread
  <2> QED BY <1>1, <1>2, <2>1, <2>2 DEF PadsThread
<1> QED BY <1>5, <1>6, <1>7, <1>8, <1>9, <1>10, <1>11 DEF Pads!Next


\* The parts of the invariant are all of it.
LEMMA PadsAfter ==
    ASSUME NEW A, PadsIds(A)', PadsDevices(A)', PadsButtons(A)', PadsThread(A)',
           Pads(A)!HostShowsThePad', Pads(A)!NotesLeadThere'
    PROVE  Pads(A)!IInv'
<1>1. Pads(A)!TypeOK'
  BY DEF Pads!TypeOK, PadsIds, PadsDevices, PadsButtons, PadsThread
<1>2. Pads(A)!ShapesOK'
  BY DEF Pads!ShapesOK, PadsDevices, PadsButtons, PadsThread
<1>3. Pads(A)!IdsBelongToOnePad'
  BY DEF Pads!IdsBelongToOnePad, PadsIds, PadsDevices
<1>4. Pads(A)!IdsHaveOneFate'
  BY DEF Pads!IdsHaveOneFate, PadsIds, PadsDevices, PadsButtons
<1> QED BY <1>1, <1>2, <1>3, <1>4 DEF Pads!IInv

\* No step of the gamepads breaks the invariant.
LEMMA PadsStep == ASSUME NEW A, Controllers(A), Pads(A)!IInv, Pads(A)!Next PROVE Pads(A)!IInv'
BY PadsIdsStep, PadsDevicesStep, PadsButtonsStep, PadsShownStep, PadsThreadStep, PadsAfter

\* Nor does a step of nobody.
LEMMA PadsStutters == ASSUME NEW A, Pads(A)!IInv, UNCHANGED vars PROVE Pads(A)!IInv'
<1>1. PadsIds(A)'
  BY PadsIdsHold DEF PadsIds, Pads!Owned, vars
<1>2. PadsDevices(A)'
  BY PadsDevicesHold DEF PadsDevices, Pads!Goes, vars
<1>3. PadsButtons(A)'
  BY PadsButtonsHold DEF PadsButtons, vars
<1>4. PadsThread(A)'
  <2>1. v17' \in BOOLEAN /\ v18' \in BOOLEAN
    BY PadsThreadHold DEF PadsThread, vars
  <2> QED BY <2>1, PadsThreadHold DEF PadsThread, vars
<1>5. Pads(A)!HostShowsThePad'
  BY DEF Pads!IInv, Pads!HostShowsThePad, Pads!Goes, vars
<1>6. Pads(A)!NotesLeadThere'
  BY PadsNotesStay DEF vars, Pads!Goes
<1> QED BY <1>1, <1>2, <1>3, <1>4, <1>5, <1>6, PadsAfter

\* The invariant of Gamepads holds always, in both parts.
LEMMA PadsInvariant ==
    Spec => [](/\ part = "pads" => Pads(PadsOfOne)!IInv
               /\ part = "rivals" => Pads(PadsOfTwo)!IInv)
<1> DEFINE Inv == /\ part = "pads" => Pads(PadsOfOne)!IInv
                  /\ part = "rivals" => Pads(PadsOfTwo)!IInv
<1>1. Controllers(PadsOfOne) /\ Controllers(PadsOfTwo)
  BY PadsAssumption DEF Controllers
<1>2. Init => Inv
  BY StartOfAPart, PadsInit
<1>3. Inv /\ [Next]_vars => Inv'
  <2> SUFFICES ASSUME Inv, [Next]_vars PROVE Inv'
    OBVIOUS
  <2>1. CASE part = "pads"
    BY <1>1, <2>1, StepOfAPart, PadsStep, PadsStutters
  <2>2. CASE part = "rivals"
    BY <1>1, <2>2, StepOfAPart, PadsStep, PadsStutters
  <2>3. CASE part # "pads" /\ part # "rivals"
    BY <2>3, StepOfAPart
  <2> QED BY <2>1, <2>2, <2>3
<1> QED BY <1>2, <1>3, PTL DEF Spec

-----------------------------------------------------------------------------
(* VigemPads: the rumble of a target reaches the client it is about.       *)


VigemReport == [target : VigemTargets, of : VigemSessions, old : BOOLEAN]

\* What waits in the task pool are reports.
LEMMA VigemReports == Vigem!ReportsAreOfTheirs => v6 \in Seq(VigemReport) /\ \A k \in DOMAIN v6 : v6[k] \in VigemReport
<1>1. Vigem!ReportsAreOfTheirs => v6 \in Seq(VigemReport)
  BY Zenon DEF Vigem!ReportsAreOfTheirs, VigemReport
<1> QED BY <1>1

\* At the start no place has a target.
LEMMA VigemInit == Vigem!Init => Vigem!IInv
<1> SUFFICES ASSUME Vigem!Init PROVE Vigem!IInv
  OBVIOUS
<1>1. /\ v1 = [n \in VigemNumbers |-> Nil] /\ v2 = v1 /\ v3 = v1
      /\ v4 = {} /\ v5 = {} /\ v6 = <<>> /\ v7 = Nil /\ v8 = FALSE
  BY DEF Vigem!Init
<1>2. Vigem!TypeOK
  <2>1. v8 \in BOOLEAN /\ Len(v6) = 0
    BY <1>1
  <2> QED BY <1>1, <2>1, VigemAssumption DEF Vigem!TypeOK
<1>3. Vigem!ReportsAreOfTheirs
  BY <1>1 DEF Vigem!ReportsAreOfTheirs
<1>4. Vigem!RumbleReachesItsClient
  BY <1>1 DEF Vigem!RumbleReachesItsClient
<1> QED BY <1>2, <1>3, <1>4 DEF Vigem!IInv

\* A target that is new marks the reports that name its address.
LEMMA VigemAged ==
    ASSUME Vigem!IInv, NEW t \in VigemTargets, v6' = Vigem!Aged(t)
    PROVE  /\ v6' \in Seq(VigemReport) /\ Len(v6') = Len(v6) /\ DOMAIN v6' = DOMAIN v6
           /\ \A k \in DOMAIN v6 : v6'[k].target = v6[k].target /\ v6'[k].of = v6[k].of
           /\ \A k \in DOMAIN v6 : ~v6'[k].old => ~v6[k].old /\ v6[k].target # t
<1>1. v6 \in Seq(VigemReport) /\ DOMAIN v6 = 1 .. Len(v6) /\ Len(v6) \in Nat
  BY DEF Vigem!IInv, Vigem!ReportsAreOfTheirs, VigemReport
<1>2. v6' = [k \in DOMAIN v6 |-> [target |-> v6[k].target, of |-> v6[k].of,
                                  old |-> v6[k].old \/ v6[k].target = t]]
  BY DEF Vigem!Aged
<1>3. \A k \in DOMAIN v6 : v6[k] \in VigemReport
  BY <1>1
<1>4. \A k \in DOMAIN v6 : /\ v6'[k].target = v6[k].target /\ v6'[k].of = v6[k].of
                           /\ v6'[k].old = (v6[k].old \/ v6[k].target = t)
  BY <1>2
<1>5. ASSUME NEW k \in DOMAIN v6
      PROVE  (~v6'[k].old => ~v6[k].old /\ v6[k].target # t) /\ (v6[k].old \/ v6[k].target = t) \in BOOLEAN
  BY <1>4, Zenon
<1>6. \A k \in DOMAIN v6 : v6'[k] \in VigemReport
  BY <1>2, <1>3, <1>5 DEF VigemReport
<1>7. v6' \in Seq(VigemReport) /\ Len(v6') = Len(v6)
  BY <1>1, <1>2, <1>6
<1> QED BY <1>1, <1>2, <1>4, <1>5, <1>7

\* A target that is new, in the place of an id that is free.
LEMMA VigemNew ==
    ASSUME Vigem!IInv, NEW n \in VigemNumbers, NEW t \in VigemTargets, Vigem!New(t), v1[n] = Nil,
           v2' = [v2 EXCEPT ![n] = t], v6' = Vigem!Aged(t), UNCHANGED <<v7, v8>>,
           v1' \in [VigemNumbers -> VigemSessions \cup {Nil}], v3' \in [VigemNumbers -> VigemSessions \cup {Nil}],
           \A m \in VigemNumbers \ {n} : v1'[m] = v1[m] /\ v3'[m] = v3[m],
           v1'[n] # Nil => v3'[n] = v1'[n],
           v4' = (IF v1'[n] = Nil THEN v4 ELSE v4 \cup {t}), v5' \subseteq v4'
    PROVE  Vigem!IInv'
<1>1. /\ v1 \in [VigemNumbers -> VigemSessions \cup {Nil}] /\ v2 \in [VigemNumbers -> VigemTargets \cup {Nil}]
      /\ v3 \in [VigemNumbers -> VigemSessions \cup {Nil}] /\ v4 \subseteq VigemTargets /\ Len(v6) <= MaxReports
      /\ v8 \in BOOLEAN
      /\ \A i, j \in VigemNumbers : v2[i] = v2[j] /\ v2[i] # Nil => i = j
      /\ v4 = {v2[i] : i \in {j \in VigemNumbers : v1[j] # Nil}}
      /\ v7 # Nil /\ ~v7.old => v7.queue = v7.of
  BY DEF Vigem!IInv, Vigem!TypeOK, Vigem!RumbleReachesItsClient
<1>2. /\ \A i \in VigemNumbers : v1[i] # Nil => v2[i] # Nil /\ v3[i] = v1[i]
      /\ \A k \in DOMAIN v6, i \in VigemNumbers : ~v6[k].old /\ v2[i] = v6[k].target => v3[i] = v6[k].of
  BY DEF Vigem!IInv, Vigem!ReportsAreOfTheirs
<1>3. /\ v2'[n] = t /\ (\A m \in VigemNumbers \ {n} : v2'[m] = v2[m] /\ v2[m] # t)
      /\ v2' \in [VigemNumbers -> VigemTargets \cup {Nil}] /\ t # Nil
  BY <1>1, VigemAssumption DEF Vigem!New
<1>4. Vigem!TypeOK'
  <2>1. v8' \in BOOLEAN
    BY <1>1
  <2>2. Len(v6') <= MaxReports
    BY <1>1, VigemAged
  <2> QED BY <1>1, <1>3, <2>1, <2>2 DEF Vigem!TypeOK
<1>5. Vigem!ReportsAreOfTheirs'
  <2>1. \A i \in VigemNumbers : v1'[i] # Nil => v2'[i] # Nil /\ v3'[i] = v1'[i]
    BY <1>2, <1>3
  <2>2. v6' \in Seq(VigemReport) /\ DOMAIN v6' = DOMAIN v6
    BY VigemAged
  <2>3. ASSUME NEW k \in DOMAIN v6', NEW i \in VigemNumbers, ~v6'[k].old, v2'[i] = v6'[k].target
        PROVE  v3'[i] = v6'[k].of
    <3>1. ~v6[k].old /\ v6[k].target # t /\ v6'[k].target = v6[k].target /\ v6'[k].of = v6[k].of /\ k \in DOMAIN v6
      BY <2>2, <2>3, VigemAged
    <3>2. i # n
      BY <1>3, <2>3, <3>1
    <3> QED BY <1>2, <1>3, <2>3, <3>1, <3>2
  <2> QED BY <2>1, <2>2, <2>3 DEF Vigem!ReportsAreOfTheirs, VigemReport
<1>6. Vigem!RumbleReachesItsClient'
  <2>1. \A i, j \in VigemNumbers : v2'[i] = v2'[j] /\ v2'[i] # Nil => i = j
    BY <1>1, <1>3
  <2>2. v4' = {v2'[i] : i \in {j \in VigemNumbers : v1'[j] # Nil}}
    <3>1. CASE v1'[n] = Nil
      BY <3>1, <1>1, <1>3
    <3>2. CASE v1'[n] # Nil
      BY <3>2, <1>1, <1>3
    <3> QED BY <3>1, <3>2
  <2>3. v7' # Nil /\ ~v7'.old => v7'.queue = v7'.of
    BY <1>1
  <2> QED BY <2>1, <2>2, <2>3 DEF Vigem!RumbleReachesItsClient
<1> QED BY <1>4, <1>5, <1>6 DEF Vigem!IInv

\* No step of the controllers or the bus breaks the invariant.
LEMMA VigemStep == Vigem!IInv /\ Vigem!Next => Vigem!IInv'
<1> SUFFICES ASSUME Vigem!IInv, Vigem!Next PROVE Vigem!IInv'
  OBVIOUS
<1>1. ASSUME NEW n \in VigemNumbers, NEW s \in VigemSessions, NEW t \in VigemTargets, Vigem!Alloc(n, s, t)
      PROVE  Vigem!IInv'
  <2>1. /\ v1[n] = Nil /\ Vigem!New(t) /\ v1' = [v1 EXCEPT ![n] = s] /\ v2' = [v2 EXCEPT ![n] = t]
        /\ v3' = [v3 EXCEPT ![n] = s] /\ v4' = v4 \cup {t} /\ v5' \in {v5, v5 \cup {t}} /\ v6' = Vigem!Aged(t)
        /\ UNCHANGED <<v7, v8>>
    BY <1>1 DEF Vigem!Alloc
  <2>2. /\ v1 \in [VigemNumbers -> VigemSessions \cup {Nil}] /\ v3 \in [VigemNumbers -> VigemSessions \cup {Nil}]
        /\ v5 \subseteq v4
    BY DEF Vigem!IInv, Vigem!TypeOK
  <2>3. /\ v1' \in [VigemNumbers -> VigemSessions \cup {Nil}] /\ v3' \in [VigemNumbers -> VigemSessions \cup {Nil}]
        /\ \A m \in VigemNumbers \ {n} : v1'[m] = v1[m] /\ v3'[m] = v3[m]
        /\ v1'[n] = s /\ v3'[n] = s /\ s # Nil
    BY <2>1, <2>2, VigemAssumption
  <2>4. v4' = (IF v1'[n] = Nil THEN v4 ELSE v4 \cup {t}) /\ v5' \subseteq v4' /\ (v1'[n] # Nil => v3'[n] = v1'[n])
    BY <2>1, <2>2, <2>3
  <2> QED BY <2>1, <2>3, <2>4, VigemNew
<1>2. ASSUME NEW n \in VigemNumbers, NEW t \in VigemTargets, Vigem!AllocFails(n, t)
      PROVE  Vigem!IInv'
  <2>1. /\ v1[n] = Nil /\ Vigem!New(t) /\ v2' = [v2 EXCEPT ![n] = t] /\ v6' = Vigem!Aged(t)
        /\ UNCHANGED <<v1, v3, v4, v5, v7, v8>>
    BY <1>2 DEF Vigem!AllocFails
  <2>2. /\ v1 \in [VigemNumbers -> VigemSessions \cup {Nil}] /\ v3 \in [VigemNumbers -> VigemSessions \cup {Nil}]
        /\ v5 \subseteq v4
    BY DEF Vigem!IInv, Vigem!TypeOK
  <2> QED BY <2>1, <2>2, VigemNew
<1>3. ASSUME NEW n \in VigemNumbers, Vigem!Free(n) PROVE  Vigem!IInv'
  <2>1. /\ v1[n] # Nil /\ v1' = [v1 EXCEPT ![n] = Nil] /\ v2' = [v2 EXCEPT ![n] = Nil]
        /\ v4' = v4 \ {v2[n]} /\ v5' = v5 \ {v2[n]} /\ UNCHANGED <<v3, v6, v7, v8>>
    BY <1>3 DEF Vigem!Free, Vigem!AfterFree
  <2>2. Vigem!TypeOK /\ Vigem!ReportsAreOfTheirs /\ Vigem!RumbleReachesItsClient
    BY DEF Vigem!IInv
  <2>3. /\ v1'[n] = Nil /\ v2'[n] = Nil /\ \A m \in VigemNumbers \ {n} : v1'[m] = v1[m] /\ v2'[m] = v2[m]
        /\ v1' \in [VigemNumbers -> VigemSessions \cup {Nil}] /\ v2' \in [VigemNumbers -> VigemTargets \cup {Nil}]
    BY <2>1, <2>2 DEF Vigem!TypeOK
  <2>4. Vigem!TypeOK'
    <3>1. v8' \in BOOLEAN
      BY <2>1, <2>2 DEF Vigem!TypeOK
    <3> QED BY <2>1, <2>2, <2>3, <3>1 DEF Vigem!TypeOK
  <2>5. Vigem!ReportsAreOfTheirs'
    <3>1. v6 \in Seq(VigemReport) /\ \A k \in DOMAIN v6 : v6[k].target \in VigemTargets
      BY <2>2, VigemReports DEF VigemReport
    <3>2. \A i \in VigemNumbers : v1'[i] # Nil => v2'[i] # Nil /\ v3'[i] = v1'[i]
      BY <2>1, <2>2, <2>3 DEF Vigem!ReportsAreOfTheirs
    <3>3. \A k \in DOMAIN v6, i \in VigemNumbers : ~v6[k].old /\ v2'[i] = v6[k].target => v3'[i] = v6[k].of
      BY <2>1, <2>2, <2>3, <3>1, VigemAssumption DEF Vigem!ReportsAreOfTheirs
    <3> QED BY <2>1, <3>1, <3>2, <3>3 DEF Vigem!ReportsAreOfTheirs, VigemReport
  <2>6. Vigem!RumbleReachesItsClient'
    <3>1. v2[n] # Nil
      BY <2>1, <2>2 DEF Vigem!ReportsAreOfTheirs
    <3>2. \A i, j \in VigemNumbers : v2'[i] = v2'[j] /\ v2'[i] # Nil => i = j
      BY <2>2, <2>3 DEF Vigem!RumbleReachesItsClient
    <3>3. \A m \in VigemNumbers \ {n} : v2[m] # v2[n]
      BY <2>2, <3>1 DEF Vigem!RumbleReachesItsClient
    <3>4. v4' = {v2'[i] : i \in {j \in VigemNumbers : v1'[j] # Nil}}
      BY <2>1, <2>2, <2>3, <3>3 DEF Vigem!RumbleReachesItsClient
    <3> QED BY <2>1, <2>2, <3>2, <3>4 DEF Vigem!RumbleReachesItsClient
  <2> QED BY <2>4, <2>5, <2>6 DEF Vigem!IInv
<1>4. ASSUME NEW n \in VigemNumbers, Vigem!Notify(n) PROVE  Vigem!IInv'
  <2> DEFINE report == [target |-> v2[n], of |-> v1[n], old |-> FALSE]
  <2>1. v6' = Append(v6, report) /\ Len(v6) < MaxReports /\ v2[n] \in v5 /\ UNCHANGED <<v1, v2, v3, v4, v5, v7, v8>>
    BY <1>4 DEF Vigem!Notify
  <2>2. Vigem!TypeOK /\ Vigem!ReportsAreOfTheirs /\ Vigem!RumbleReachesItsClient
    BY DEF Vigem!IInv
  <2>3. v2[n] \in VigemTargets /\ v1[n] \in VigemSessions /\ v3[n] = v1[n]
    <3>1. PICK m \in VigemNumbers : v1[m] # Nil /\ v2[m] = v2[n]
      BY <2>1, <2>2 DEF Vigem!TypeOK, Vigem!RumbleReachesItsClient
    <3>2. v2[m] # Nil /\ m = n
      BY <2>2, <3>1 DEF Vigem!ReportsAreOfTheirs, Vigem!RumbleReachesItsClient
    <3> QED BY <2>1, <2>2, <3>1, <3>2 DEF Vigem!TypeOK, Vigem!ReportsAreOfTheirs
  <2>4. report \in VigemReport /\ v6 \in Seq(VigemReport)
    BY <2>2, <2>3, VigemReports DEF VigemReport
  <2> HIDE DEF report
  <2>5. /\ v6' \in Seq(VigemReport) /\ Len(v6') = Len(v6) + 1 /\ v6'[Len(v6) + 1] = report
        /\ Len(v6) \in Nat /\ \A k \in 1 .. Len(v6) : v6'[k] = v6[k]
    BY <2>1, <2>4, AppendProperties
  <2>6. Vigem!TypeOK'
    <3>1. v8' \in BOOLEAN
      BY <2>1, <2>2 DEF Vigem!TypeOK
    <3> QED BY <2>1, <2>2, <2>5, <3>1, VigemAssumption DEF Vigem!TypeOK
  <2>7. ASSUME NEW k \in DOMAIN v6', NEW i \in VigemNumbers, ~v6'[k].old, v2'[i] = v6'[k].target
        PROVE  v3'[i] = v6'[k].of
    <3>1. k \in 1 .. (Len(v6) + 1)
      BY <2>5
    <3>2. CASE k = Len(v6) + 1
      <4>1. v2[i] = v2[n] /\ v6'[k].of = v1[n] /\ v2[n] # Nil
        BY <2>1, <2>3, <2>5, <2>7, <3>2, VigemAssumption DEF report
      <4>2. i = n
        BY <2>2, <4>1 DEF Vigem!RumbleReachesItsClient
      <4> QED BY <2>1, <2>3, <4>1, <4>2
    <3>3. CASE k # Len(v6) + 1
      <4>1. k \in 1 .. Len(v6) /\ k \in DOMAIN v6 /\ v6'[k] = v6[k]
        BY <2>4, <2>5, <3>1, <3>3
      <4> QED BY <2>1, <2>2, <2>7, <4>1 DEF Vigem!ReportsAreOfTheirs
    <3> QED BY <3>2, <3>3
  <2>8. Vigem!ReportsAreOfTheirs'
    BY <2>1, <2>2, <2>5, <2>7 DEF Vigem!ReportsAreOfTheirs, VigemReport
  <2>9. Vigem!RumbleReachesItsClient'
    BY <2>1, <2>2 DEF Vigem!RumbleReachesItsClient
  <2> QED BY <2>6, <2>8, <2>9 DEF Vigem!IInv
<1>5. ASSUME NEW n \in VigemNumbers, Vigem!UpdateFails(n) PROVE  Vigem!IInv'
  <2>1. v8' \in BOOLEAN /\ UNCHANGED <<v1, v2, v3, v4, v5, v6, v7>>
    BY <1>5 DEF Vigem!UpdateFails
  <2> QED BY <2>1 DEF Vigem!IInv, Vigem!TypeOK, Vigem!ReportsAreOfTheirs, Vigem!RumbleReachesItsClient
<1>6. ASSUME Vigem!Rumble PROVE  Vigem!IInv'
  <2> DEFINE t == Head(v6)
  <2>1. /\ v6 # <<>> /\ v6' = Tail(v6) /\ UNCHANGED <<v1, v2, v3, v4, v5, v8>>
        /\ \/ v7' = Nil
           \/ \E n \in VigemNumbers : v2[n] = t.target /\ v7' = [queue |-> v3[n], number |-> n, of |-> t.of, old |-> t.old]
    BY <1>6 DEF Vigem!Rumble
  <2>2. Vigem!TypeOK /\ Vigem!ReportsAreOfTheirs /\ Vigem!RumbleReachesItsClient
    BY DEF Vigem!IInv
  <2>3. v6 \in Seq(VigemReport)
    BY <2>2, VigemReports
  <2>4. /\ t = v6[1] /\ 1 \in DOMAIN v6 /\ v6' \in Seq(VigemReport) /\ Len(v6') = Len(v6) - 1 /\ Len(v6) \in Nat
        /\ \A k \in DOMAIN v6' : v6'[k] = v6[k + 1] /\ k + 1 \in DOMAIN v6
    BY <2>1, <2>3
  <2>5. Vigem!TypeOK'
    <3>1. v8' \in BOOLEAN
      BY <2>1, <2>2 DEF Vigem!TypeOK
    <3> QED BY <2>1, <2>2, <2>4, <3>1, VigemAssumption DEF Vigem!TypeOK
  <2>6. Vigem!ReportsAreOfTheirs'
    BY <2>1, <2>2, <2>4 DEF Vigem!ReportsAreOfTheirs, VigemReport
  <2>7. v7' # Nil /\ ~v7'.old => v7'.queue = v7'.of
    BY <2>1, <2>2, <2>4 DEF Vigem!ReportsAreOfTheirs
  <2>8. Vigem!RumbleReachesItsClient'
    BY <2>1, <2>2, <2>7 DEF Vigem!RumbleReachesItsClient
  <2> QED BY <2>5, <2>6, <2>8 DEF Vigem!IInv
<1>7. ASSUME Vigem!Quit PROVE  Vigem!IInv'
  <2>1. /\ v8' \in BOOLEAN /\ v6' = <<>> /\ v5' = {} /\ v7' = v7 /\ v4' = v4 \ {v2[n] : n \in VigemNumbers}
        /\ v2' = [n \in VigemNumbers |-> Nil] /\ v1' = v2' /\ v3' = v2'
    BY <1>7 DEF Vigem!Quit
  <2>2. v4' = {}
    BY <2>1 DEF Vigem!IInv, Vigem!RumbleReachesItsClient
  <2>3. Vigem!TypeOK'
    BY <2>1, <2>2, VigemAssumption DEF Vigem!TypeOK
  <2>4. Vigem!ReportsAreOfTheirs'
    BY <2>1 DEF Vigem!ReportsAreOfTheirs
  <2>5. Vigem!RumbleReachesItsClient'
    BY <2>1, <2>2 DEF Vigem!IInv, Vigem!RumbleReachesItsClient
  <2> QED BY <2>3, <2>4, <2>5 DEF Vigem!IInv
<1> QED BY <1>1, <1>2, <1>3, <1>4, <1>5, <1>6, <1>7 DEF Vigem!Next

\* The invariant of VigemPads holds always.
LEMMA VigemInvariant == Spec => [](part = "vigem" => Vigem!IInv)
<1>1. Init => (part = "vigem" => Vigem!IInv)
  BY StartOfAPart, VigemInit
<1>2. (part = "vigem" => Vigem!IInv) /\ [Next]_vars => (part = "vigem" => Vigem!IInv)'
  <2>1. ASSUME Vigem!IInv, UNCHANGED vars PROVE Vigem!IInv'
    <3>1. v8' \in BOOLEAN
      BY <2>1 DEF vars, Vigem!IInv, Vigem!TypeOK
    <3> QED BY <2>1, <3>1 DEF vars, Vigem!IInv, Vigem!TypeOK, Vigem!ReportsAreOfTheirs,
          Vigem!RumbleReachesItsClient
  <2> QED BY <2>1, StepOfAPart, VigemStep
<1> QED BY <1>1, <1>2, PTL DEF Spec

\* A gamepad that an id or a device address was given to is one controller's, the host shows what
\* that controller holds, and rumble finds its way back: input.cpp, platform/linux/input.cpp and
\* platform/windows/input.cpp, for any clients, controllers, ids and devices.
THEOREM PadsAreTheirOwn == Spec => []GamepadsAreTheirOwn
<1>1. ASSUME NEW A, Pads(A)!IInv
      PROVE  /\ Pads(A)!TypeOK /\ Pads(A)!IdsBelongToOnePad /\ Pads(A)!HostShowsThePad
             /\ Pads(A)!RumbleKnowsTheDevices
  <2>1. ASSUME Pads(A)!Goes, v12 = <<>>, ~v17 PROVE v14 = {v10[i] : i \in v1}
    <3>1. PICK path \in [0 .. Len(v12) -> SUBSET PadDevs] : Pads(A)!Leads(path)
      BY <1>1, <2>1 DEF Pads!IInv, Pads!NotesLeadThere
    <3>2. Len(v12) = 0
      BY <2>1
    <3> QED BY <3>1, <3>2 DEF Pads!Leads, Pads!Present
  <2> QED BY <1>1, <2>1 DEF Pads!IInv, Pads!RumbleKnowsTheDevices
<1>2. /\ part = "pads" => Pads(PadsOfOne)!IInv
      /\ part = "rivals" => Pads(PadsOfTwo)!IInv
      /\ part = "vigem" => Vigem!IInv
      => GamepadsAreTheirOwn
  <2>1. Vigem!IInv => Vigem!TypeOK /\ Vigem!RumbleReachesItsClient
    BY DEF Vigem!IInv
  <2> QED BY <1>1, <2>1 DEF GamepadsAreTheirOwn
<1> QED BY <1>2, PadsInvariant, VigemInvariant, PTL

==============================================================================
