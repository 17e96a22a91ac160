------------------------- MODULE StreamSessionProofs -------------------------
(***************************************************************************)
(* Proofs about StreamSession, for any number of sessions.  That a pointer *)
(* of the control thread is never stale rests on join() waiting for        *)
(* controlEnd; that every session has the broadcast context rests on which *)
(* lives hold a reference, and on one join being under way at a time.      *)
(***************************************************************************)
EXTENDS StreamSession, TLAPS

\* What the rtp and the HTTPS thread work on.
Work ==
    /\ \A s \in Sessions : life[s] \in Starting => busy["rtp"] = s
    /\ \A s \in Sessions : life[s] \in Leaving => \E t \in Callers : busy[t] = s
    /\ \A t \in Callers : busy[t] # Nil => life[busy[t]] \in Starting \cup Leaving
    /\ busy["https"] # Nil => life[busy["https"]] \in Leaving /\ busy["rtp"] # busy["https"]

\* The threads and the state of a session follow its life.
Progress ==
    \A s \in Sessions :
        /\ life[s] \in {"new", "referenced", "mapped", "timed", "failed"} =>
              \A k \in Kinds : thread[s][k] = "none"
        /\ life[s] = "started" => state[s] # "STOPPED"
        /\ life[s] \in Leaving \cup {"freed"} => state[s] = "STOPPING"

\* Which sessions hold a reference to the broadcast context, and which of them
\* the control thread knows.
References ==
    /\ \A s \in Sessions : s \in refs <=> life[s] \in Alive
    /\ ctl = "none" <=> refs = {}
    /\ \A s \in Sessions : life[s] = "ending" => refs = {s}
    /\ ctl = "none" => map = {}
    /\ \A s \in map \cup ctlEnd : life[s] \notin {"new", "referenced", "failed"}
    /\ ctl # "dead" => map \cap ctlEnd = {}
    /\ ctl # "scan" => tardy = {}

\* One thread at a time joins a session (the lock of the slots).
OneJoinAtATime ==
    \A r, s \in Sessions : life[r] \in Leaving /\ life[s] \in Leaving => r = s

IInv == /\ TypeOK /\ Work /\ Progress /\ References
        /\ OneJoinAtATime /\ NotStoppedWhileStarting /\ ThreadsEndBeforeTheSession
-----------------------------------------------------------------------------
USE SessionsAssumption
    DEF Callers, Starting, Leaving, Lives, Alive, InLife, IsFree, Free, Take,
        Stoppable, TardyAfterScan, session, control, caller

\* The initial state satisfies the inductive invariant.
LEMMA InitIInv == Init => IInv
  <1> SUFFICES ASSUME Init PROVE IInv
    OBVIOUS
  <1> USE DEF Init
  <1>1. TypeOK
    BY Zenon DEF TypeOK
  <1>2. Work /\ Progress /\ References
    BY DEF Work, Progress, References
  <1>3. OneJoinAtATime /\ NotStoppedWhileStarting /\ ThreadsEndBeforeTheSession
    BY DEF OneJoinAtATime, NotStoppedWhileStarting, ThreadsEndBeforeTheSession
  <1> QED BY <1>1, <1>2, <1>3 DEF IInv

\* The steps of session::start() preserve the invariant.
LEMMA StartPreserves ==
    ASSUME IInv, NEW r \in Sessions, Start(r) \/ StartFails(r)
    PROVE  IInv'
  <1> USE DEF IInv, TypeOK, Work, Progress, References, OneJoinAtATime,
              NotStoppedWhileStarting, ThreadsEndBeforeTheSession, Stop, CtlStep
  <1>1. ASSUME NEW s \in Sessions, StartRef(s) PROVE IInv'
    BY <1>1, SMTT(60) DEF StartRef, Ending
  <1>2. ASSUME NEW s \in Sessions, StartFails(s) PROVE IInv'
    BY <1>2, SMTT(60) DEF StartFails, Ending
  <1>3. ASSUME NEW s \in Sessions, Emplace(s) PROVE IInv'
    BY <1>3, SMTT(60) DEF Emplace
  <1>4. ASSUME NEW s \in Sessions, SetTimer(s) PROVE IInv'
    BY <1>4, SMTT(60) DEF SetTimer
  <1>5. ASSUME NEW s \in Sessions, Spawn(s) PROVE IInv'
    BY <1>5, SMTT(60) DEF Spawn
  <1>6. ASSUME NEW s \in Sessions, Run(s) PROVE IInv'
    BY <1>6, SMTT(60) DEF Run
  <1> HIDE DEF IInv
  <1> QED BY <1>1, <1>2, <1>3, <1>4, <1>5, <1>6 DEF Start

\* So do the steps of the threads of a session, and the passing of time.
LEMMA ThreadsPreserve ==
    ASSUME IInv, NEW r \in Sessions,
           TimePasses(r) \/ \E k \in Kinds : PingReceived(r, k) \/ ThreadEnds(r, k)
    PROVE  IInv'
  <1> USE DEF IInv, TypeOK, Work, Progress, References, OneJoinAtATime,
              NotStoppedWhileStarting, ThreadsEndBeforeTheSession, Stop, CtlStep
  <1>1. ASSUME NEW s \in Sessions, NEW k \in Kinds, PingReceived(s, k) PROVE IInv'
    BY <1>1, SMTT(60) DEF PingReceived
  <1>2. ASSUME NEW s \in Sessions, NEW k \in Kinds, ThreadEnds(s, k) PROVE IInv'
    BY <1>2, SMTT(60) DEF ThreadEnds
  <1>3. ASSUME NEW s \in Sessions, TimePasses(s) PROVE IInv'
    BY <1>3, SMTT(60) DEF TimePasses
  <1> HIDE DEF IInv
  <1> QED BY <1>1, <1>2, <1>3

\* So do the steps of the control thread.
LEMMA ControlPreserves ==
    ASSUME IInv, Control
    PROVE  IInv'
  <1> USE DEF IInv, TypeOK, Work, Progress, References, OneJoinAtATime,
              NotStoppedWhileStarting, ThreadsEndBeforeTheSession, Stop, CtlStep
  <1>0. CASE CtlCheck
    BY <1>0, SMTT(60) DEF CtlCheck
  <1>1. CASE CtlScan
    BY <1>1, SMTT(60) DEF CtlScan
  <1>2. CASE CtlNoProcess
    BY <1>2, SMTT(60) DEF CtlNoProcess
  <1>3. CASE CtlIdle
    BY <1>3, SMTT(60) DEF CtlIdle
  <1>4. ASSUME NEW s \in Sessions, CtlEvent(s) PROVE IInv'
    BY <1>4, SMTT(60) DEF CtlEvent
  <1>5. CASE CtlShutdown
    BY <1>5, SMTT(60) DEF CtlShutdown
  <1>6. CASE CtlFinal
    BY <1>6, SMTT(60) DEF CtlFinal, Told
  <1> HIDE DEF IInv
  <1> QED BY <1>0, <1>1, <1>2, <1>3, <1>4, <1>5, <1>6 DEF Control

\* The session that leaves has been told to by its one caller, its threads have
\* ended, and the reference it gives back is not the last.
LEMMA JoinAndResetPreserves ==
    ASSUME IInv, NEW t \in Callers, NEW s \in Sessions, JoinAndReset(t, s)
    PROVE  IInv'
  <1> USE DEF JoinAndReset, IInv, TypeOK
  <1>1. (bshut \in BOOLEAN)'
    BY Zenon
  <1>2. TypeOK'
    BY <1>1
  <1>3. Work'
    BY SMTT(30) DEF Work, OneJoinAtATime
  <1>4. Progress' /\ References'
    BY SMTT(30) DEF Progress, References, LastRef
  <1>5. OneJoinAtATime' /\ NotStoppedWhileStarting' /\ ThreadsEndBeforeTheSession'
    BY SMTT(30) DEF OneJoinAtATime, NotStoppedWhileStarting, ThreadsEndBeforeTheSession,
                    Progress, Joinable
  <1> QED BY <1>2, <1>3, <1>4, <1>5

\* end_broadcast() leaves no context and no session that would need one.
LEMMA EndBroadcastPreserves ==
    ASSUME IInv, NEW t \in Callers, NEW s \in Sessions, EndBroadcast(t, s)
    PROVE  IInv'
  <1> USE DEF EndBroadcast, IInv, TypeOK
  <1>1. (bshut \in BOOLEAN)'
    BY Zenon
  <1>2. TypeOK'
    BY <1>1 DEF References
  <1>3. Work'
    BY SMTT(30) DEF Work, OneJoinAtATime
  <1>4. Progress' /\ References'
    BY SMTT(30) DEF Progress, References
  <1>5. OneJoinAtATime' /\ NotStoppedWhileStarting' /\ ThreadsEndBeforeTheSession'
    BY SMTT(30) DEF OneJoinAtATime, NotStoppedWhileStarting, ThreadsEndBeforeTheSession,
                    Progress
  <1> QED BY <1>2, <1>3, <1>4, <1>5

\* So do the other steps that join, free and stop sessions.
LEMMA LeavePreserves ==
    ASSUME IInv,
           ClearAll \/ ClearAllDone \/ \E s \in Sessions, t \in Callers : Reap(t, s) \/ Leave(t, s)
    PROVE  IInv'
  <1> USE DEF IInv, TypeOK, Work, Progress, References, OneJoinAtATime,
              NotStoppedWhileStarting, ThreadsEndBeforeTheSession, Stop, CtlStep
  <1>1. ASSUME NEW t \in Callers, NEW s \in Sessions, Reap(t, s) PROVE IInv'
    BY <1>1, SMTT(60) DEF Reap, Reaps, SlotsLocked
  <1>2. ASSUME NEW s \in Sessions, JoinAndResetLast(s) PROVE IInv'
    BY <1>2, SMTT(60) DEF JoinAndResetLast, Joinable, LastRef
  <1>3. CASE ClearAll
    BY <1>3, SMTT(60) DEF ClearAll
  <1>4. CASE ClearAllDone
    <2>1. (clearing \in BOOLEAN /\ stopped \in BOOLEAN /\ bshut \in BOOLEAN /\ app \in BOOLEAN)'
      BY <1>4, Zenon DEF ClearAllDone
    <2> QED BY <1>4, <2>1, SMTT(60) DEF ClearAllDone, SlotsLocked
  <1> HIDE DEF IInv
  <1> QED BY <1>1, <1>2, <1>3, <1>4, JoinAndResetPreserves, EndBroadcastPreserves DEF Leave

\* So do the application and a broadcast thread that fails.
LEMMA EnvironmentPreserves ==
    ASSUME IInv, AppChanges \/ BroadcastFails
    PROVE  IInv'
  <1> USE DEF IInv, TypeOK, Work, Progress, References, OneJoinAtATime,
              NotStoppedWhileStarting, ThreadsEndBeforeTheSession, Stop, CtlStep
  <1>1. CASE AppChanges
    BY <1>1, SMTT(60) DEF AppChanges
  <1>2. CASE BroadcastFails
    BY <1>2, SMTT(60) DEF BroadcastFails
  <1> HIDE DEF IInv
  <1> QED BY <1>1, <1>2

\* IInv is inductive.
LEMMA NextIInv == IInv /\ [Next]_vars => IInv'
  <1> SUFFICES ASSUME IInv, [Next]_vars PROVE IInv'
    OBVIOUS
  <1>1. ASSUME NEW s \in Sessions, Start(s) \/ StartFails(s) PROVE IInv'
    BY <1>1, StartPreserves
  <1>2. ASSUME NEW s \in Sessions,
               TimePasses(s) \/ \E k \in Kinds : PingReceived(s, k) \/ ThreadEnds(s, k)
        PROVE  IInv'
    BY <1>2, ThreadsPreserve
  <1>3. CASE Control
    BY <1>3, ControlPreserves
  <1>4. CASE \/ ClearAll \/ ClearAllDone
             \/ \E s \in Sessions, t \in Callers : Reap(t, s) \/ Leave(t, s)
    BY <1>4, LeavePreserves
  <1>5. CASE AppChanges \/ BroadcastFails
    BY <1>5, EnvironmentPreserves
  <1>6. CASE UNCHANGED vars
    BY <1>6 DEF IInv, TypeOK, Work, Progress, References, OneJoinAtATime,
                NotStoppedWhileStarting, ThreadsEndBeforeTheSession, vars
  <1> QED BY <1>1, <1>2, <1>3, <1>4, <1>5, <1>6 DEF Next
-----------------------------------------------------------------------------
\* The inductive invariant holds in every reachable state, for any number of
\* sessions.
THEOREM Invariance == Spec => []IInv
  BY InitIInv, NextIInv, PTL DEF Spec

\* Every variable keeps its type.
THEOREM TypeCorrect == Spec => []TypeOK
  <1>1. IInv => TypeOK
    BY DEF IInv
  <1> QED BY <1>1, Invariance, PTL

\* No pointer in the map of a running control thread is stale: join() has not
\* returned for any of its sessions (stream.cpp:731-738, 1313-1319).
THEOREM NoStaleSession == Spec => []ServedSessionsAreAlive
  <1>1. IInv => ServedSessionsAreAlive
    BY DEF IInv, TypeOK, References, ServedSessionsAreAlive, ThreadsEndBeforeTheSession
  <1> QED BY <1>1, Invariance, PTL

\* The broadcast context exists as long as some session does, whatever threads
\* take and give back references (shared_t, thread_safe.h:297-400).
THEOREM ContextOutlivesSessions == Spec => []BroadcastOutlivesSessions
  <1>1. IInv => BroadcastOutlivesSessions
    BY DEF IInv, References, BroadcastOutlivesSessions
  <1> QED BY <1>1, Invariance, PTL

\* A session is freed only after its threads have ended (join,
\* stream.cpp:1313-1319).
THEOREM ThreadsEndFirst == Spec => []ThreadsEndBeforeTheSession
  <1>1. IInv => ThreadsEndBeforeTheSession
    BY DEF IInv
  <1> QED BY <1>1, Invariance, PTL

\* A ping timeout or a packet that comes while start() is under way stops nothing
\* (the compare_exchange of stop, stream.cpp:1302-1311).
THEOREM StartIsNotStopped == Spec => []NotStoppedWhileStarting
  <1>1. IInv => NotStoppedWhileStarting
    BY DEF IInv
  <1> QED BY <1>1, Invariance, PTL
-----------------------------------------------------------------------------
(* StreamSession implements SessionLifecycle.                              *)

\* One session moves and the others stay.
LEMMA OneMoves ==
    ASSUME NEW s \in Sessions, NEW CONSTANT from, NEW CONSTANT to,
           StageOf(s) \in from, StageOf(s)' = to,
           \A r \in Sessions \ {s} : StageOf(r)' = StageOf(r)
    PROVE  Lifecycle!Move(s, from, to)
  BY Zenon DEF Lifecycle!Move, stage

\* Some running sessions stop, which may be none of them.
LEMMA SomeHalt ==
    ASSUME \A r \in Sessions :
              StageOf(r)' = StageOf(r) \/ (StageOf(r) = "running" /\ StageOf(r)' = "stopping")
    PROVE  Lifecycle!Halt
  <1> DEFINE S == {r \in Sessions : StageOf(r) = "running" /\ StageOf(r)' = "stopping"}
  <1>1. S \in SUBSET {s \in Sessions : stage[s] = "running"}
    BY DEF stage
  <1>2. stage' = [s \in Sessions |-> IF s \in S THEN "stopping" ELSE stage[s]]
    BY Zenon DEF stage
  <1> QED BY <1>1, <1>2 DEF Lifecycle!Halt

\* The steps that stop sessions: no session that has not been started is stopped.
LEMMA StopsHalt ==
    ASSUME IInv, NEW S \in SUBSET Sessions, Stop(S),
           \A r \in Sessions :
              \/ life'[r] = life[r]
              \/ life[r] = "started" /\ life'[r] = "joining" /\ r \in S
    PROVE  Lifecycle!Halt
  <1>1. ASSUME NEW r \in Sessions
        PROVE  StageOf(r)' = StageOf(r) \/ (StageOf(r) = "running" /\ StageOf(r)' = "stopping")
    <2>1. /\ life[r] \in Lives
          /\ life[r] = "started" => state[r] \in {"RUNNING", "STOPPING"}
          /\ life[r] \in Leaving => state[r] = "STOPPING"
      BY DEF IInv, TypeOK, Progress
    <2>2. state'[r] = IF r \in S /\ state[r] = "RUNNING" THEN "STOPPING" ELSE state[r]
      BY DEF Stop
    <2>3. \/ life'[r] = life[r]
          \/ life[r] = "started" /\ life'[r] = "joining" /\ r \in S
      OBVIOUS
    <2> QED BY <2>1, <2>2, <2>3 DEF StageOf, StageByLife
  <1> QED BY <1>1, SomeHalt

\* Every step of the program is a step of the lifecycle or leaves it unchanged.
LEMMA StepRefines == IInv /\ IInv' /\ [Next]_vars => [Lifecycle!Next]_stage
  <1> SUFFICES ASSUME IInv, IInv', [Next]_vars PROVE [Lifecycle!Next]_stage
    OBVIOUS
  <1> DEFINE Others(s) == \A r \in Sessions \ {s} : StageOf(r)' = StageOf(r)
  <1> HIDE DEF Others
  <1>1. ASSUME NEW s \in Sessions, StartRef(s) PROVE Lifecycle!Accept(s)
    <2>1. StageOf(s) \in {"none"} /\ StageOf(s)' = "accepted" /\ Others(s)
      BY <1>1 DEF Others, IInv, TypeOK, Progress, StartRef, StageOf, StageByLife
    <2> QED BY <2>1, OneMoves DEF Others, Lifecycle!Accept
  <1>2. ASSUME NEW s \in Sessions, StartFails(s) PROVE Lifecycle!Fail(s)
    <2>1. StageOf(s) \in {"none", "accepted"} /\ StageOf(s)' = "failed" /\ Others(s)
      BY <1>2 DEF Others, IInv, TypeOK, Progress, StartFails, StageOf, StageByLife
    <2> QED BY <2>1, OneMoves DEF Others, Lifecycle!Fail
  <1>3. ASSUME NEW s \in Sessions, Run(s) PROVE Lifecycle!Run(s)
    <2>1. StageOf(s) \in {"accepted"} /\ StageOf(s)' = "running" /\ Others(s)
      BY <1>3 DEF Others, IInv, TypeOK, Progress, Run, StageOf, StageByLife
    <2> QED BY <2>1, OneMoves DEF Others, Lifecycle!Run
  <1>4. ASSUME NEW s \in Sessions, NEW t \in Callers,
               JoinAndReset(t, s) \/ EndBroadcast(t, s)
        PROVE  Lifecycle!Close(s)
    <2>1. StageOf(s) \in {"stopping"} /\ StageOf(s)' = "closed" /\ Others(s)
      <3>1. /\ life[s] \in Leaving /\ life'[s] = "freed" /\ state' = state
            /\ \A r \in Sessions \ {s} : life'[r] = life[r]
        BY <1>4, ZenonT(60) DEF IInv, TypeOK, JoinAndReset, EndBroadcast
      <3>2. state[s] = "STOPPING"
        BY <3>1 DEF IInv, Progress
      <3> QED BY <3>1, <3>2 DEF Others, StageOf, StageByLife
    <2> QED BY <2>1, OneMoves DEF Others, Lifecycle!Close
  <1>5. ASSUME NEW s \in Sessions, NEW t \in Callers, Reap(t, s) PROVE Lifecycle!Halt
    <2>1. /\ {s} \in SUBSET Sessions /\ Stop({s})
          /\ life[s] = "started" /\ life'[s] = "joining"
          /\ \A r \in Sessions \ {s} : life'[r] = life[r]
      BY <1>5 DEF IInv, TypeOK, Reap
    <2> QED BY <2>1, StopsHalt
  <1>6. ASSUME NEW s \in Sessions, NEW k \in Kinds, ThreadEnds(s, k) PROVE Lifecycle!Halt
    <2>1. {s} \in SUBSET Sessions /\ Stop({s}) /\ life' = life
      BY <1>6 DEF ThreadEnds
    <2> QED BY <2>1, StopsHalt
  <1>7. CASE CtlScan
    <2>1. tardy \in SUBSET Sessions
      BY DEF IInv, TypeOK
    <2>2. PICK S \in SUBSET Sessions : S = tardy
      BY <2>1
    <2>3. Stop(S) /\ life' = life
      BY <1>7, <2>2, Zenon DEF CtlScan
    <2> QED BY <2>3, StopsHalt DEF Lifecycle!Next
  <1>8. ASSUME NEW s \in Sessions, CtlEvent(s) PROVE Lifecycle!Halt \/ stage' = stage
    <2>1. CASE Stop({s})
      <3>1. {s} \in SUBSET Sessions /\ life' = life
        BY <1>8 DEF CtlEvent
      <3> QED BY <2>1, <3>1, StopsHalt
    <2>2. CASE UNCHANGED <<state, shut>>
      BY <1>8, <2>2 DEF CtlEvent, stage, StageOf, StageByLife
    <2> QED BY <1>8, <2>1, <2>2 DEF CtlEvent
  <1>9. ASSUME NEW s \in Sessions, NEW k \in Kinds,
               \/ Emplace(s) \/ SetTimer(s) \/ Spawn(s) \/ JoinAndResetLast(s)
               \/ PingReceived(s, k) \/ TimePasses(s)
        PROVE  stage' = stage
    BY <1>9, SMTT(30) DEF IInv, TypeOK, Emplace, SetTimer, Spawn, JoinAndResetLast, PingReceived, TimePasses,
                stage, StageOf, StageByLife
  <1>10. CASE \/ CtlCheck \/ CtlNoProcess \/ CtlIdle \/ CtlShutdown \/ CtlFinal
              \/ ClearAll \/ ClearAllDone \/ AppChanges \/ BroadcastFails \/ UNCHANGED vars
    BY <1>10 DEF CtlCheck, CtlNoProcess, CtlIdle, CtlShutdown, CtlFinal, ClearAll,
                 ClearAllDone, AppChanges, BroadcastFails, vars, stage, StageOf, StageByLife
  <1> QED
    BY KindsAssumption, <1>1, <1>2, <1>3, <1>4, <1>5, <1>6, <1>7, <1>8, <1>9, <1>10
    DEF Next, Start, Control, Leave, Lifecycle!Next

\* StreamSession implements SessionLifecycle, for any number of sessions: none is
\* joined before it is stopped, stopped twice or started again.
THEOREM ImplementsSessionLifecycle == Spec => ImplementsLifecycle
  <1>1. Init => Lifecycle!Init
    BY DEF Init, Lifecycle!Init, stage, StageOf, StageByLife
  <1> QED BY <1>1, StepRefines, Invariance, PTL DEF Spec, ImplementsLifecycle, Lifecycle!Spec
=============================================================================
