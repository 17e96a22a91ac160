---------------------------- MODULE StreamSession ----------------------------
(***************************************************************************)
(* The life of streaming sessions and of the broadcast context they share  *)
(* (namespaces stream and stream::session of src/sunshine/stream.cpp, and  *)
(* shared_t of thread_safe.h), run by these threads:                       *)
(*   "rtp"      rtpThread: start(), and clear(), which joins sessions;     *)
(*   "https"    the HTTPS server: clear(false), which joins sessions;      *)
(*   control    controlBroadcastThread, of the broadcast context;          *)
(*   each session's videoThread and audioThread.                           *)
(* The broadcast context is constructed by the first reference and         *)
(* destroyed with the last, by end_broadcast().  How slots are counted is  *)
(* the subject of RtspServer, which addresses are whose of PingRegistry.   *)
(***************************************************************************)
EXTENDS FiniteSets

CONSTANTS
    Sessions,   \* identities of the sessions accepted in a behaviour
    Kinds,      \* what a session has a thread for: {"video", "audio"}
    Nil         \* not a session

ASSUME SessionsAssumption == IsFiniteSet(Sessions) /\ Nil \notin Sessions
ASSUME KindsAssumption == "video" \in Kinds

VARIABLES
    state,      \* session_t::state
    life,       \* how far start(), join() and reset() of each session are
    thread,     \* the videoThread and the audioThread of each session
    shut,       \* sessions whose shutdown_event is raised
    ctlEnd,     \* sessions whose controlEnd is raised
    late,       \* sessions with now > pingTimeout
    map,        \* _map_addr_session: the sessions the control thread serves
    tardy,      \* sessions it has found to be late and is about to stop
    refs,       \* sessions whose broadcast_ref is held (shared_t::_count)
    ctl,        \* controlBroadcastThread
    bshut,      \* the broadcast_shutdown event is raised
    app,        \* proc::proc.running() # -1
    busy,       \* the session rtpThread and the HTTPS thread work on
    clearing,   \* rtpThread is in clear(all)
    stopped     \* ios.stop() was called: rtpThread accepts no more sessions

session == <<state, life, thread, shut>>
control == <<ctlEnd, late, map, tardy, ctl>>
caller == <<busy, clearing, stopped>>
vars == <<session, control, caller, refs, bshut, app>>

Callers == {"rtp", "https"}

\* In the order a session goes through them; "failed" follows "new" only.
Starting == {"referenced", "mapped", "timed", "spawned"}
Leaving == {"joining", "ending"}
Lives == {"new", "started", "freed", "failed"} \cup Starting \cup Leaving

InLife(s, from, to) == life[s] = from /\ life' = [life EXCEPT ![s] = to]
IsFree(t) == busy[t] = Nil
Free(t) == busy' = [busy EXCEPT ![t] = Nil]
Take(t, s) == IsFree(t) /\ busy' = [busy EXCEPT ![t] = s]
Ending == \E s \in Sessions : life[s] = "ending"      \* shared_t::_lock is held

Init ==
    /\ state = [s \in Sessions |-> "STOPPED"]
    /\ life = [s \in Sessions |-> "new"]
    /\ thread = [s \in Sessions |-> [k \in Kinds |-> "none"]]
    /\ shut = {} /\ ctlEnd = {} /\ late = Sessions /\ map = {}
    /\ tardy = {} /\ refs = {}
    /\ ctl = "none" /\ bshut = FALSE /\ app = TRUE
    /\ busy = [t \in Callers |-> Nil] /\ clearing = FALSE /\ stopped = FALSE
-----------------------------------------------------------------------------
(* The conditions and updates a bug would get wrong, each preceded by the  *)
(* mutants that do.                                                        *)

StoppableAlways(s) == TRUE
Stoppable(s) == state[s] = "RUNNING"

JoinableEarly(s) == \A k \in Kinds : thread[s][k] = "done"
JoinableByControl(s) == s \in ctlEnd
Joinable(s) == (\A k \in Kinds : thread[s][k] = "done") /\ s \in ctlEnd

LastRefEarly(s) == TRUE
LastRef(s) == refs = {s}

TardyAfterScan == {}

SlotsLocked == \E s \in Sessions : life[s] \in Leaving

ToldNobody == {}
Told == map

ReapsOnClear(t, s) == t = "rtp" /\ clearing
Reaps(t, s) == state[s] = "STOPPING" \/ (t = "rtp" /\ clearing)

\* session::stop() of every session of S: only the first of the threads that
\* call it for a RUNNING session raises its shutdown event.
StopTellsOnly(S) == state' = state /\ shut' = shut \cup S
Stop(S) ==
    LET T == {s \in S : Stoppable(s)}
    IN  /\ state' = [s \in Sessions |-> IF s \in T THEN "STOPPING" ELSE state[s]]
        /\ shut' = shut \cup T
-----------------------------------------------------------------------------
(* session::start(), run by rtpThread.                                     *)

\* broadcast.ref(): the first reference constructs the context, whose control
\* thread knows no session yet.
StartRef(s) ==
    /\ ~clearing /\ ~stopped /\ ~Ending
    /\ Take("rtp", s)
    /\ InLife(s, "new", "referenced")
    /\ refs' = refs \cup {s}
    /\ ctl' = IF refs = {} THEN "head" ELSE ctl
    /\ UNCHANGED <<state, thread, shut, ctlEnd, late, map, tardy, clearing, stopped, bshut, app>>

\* start_broadcast() fails: a port is taken.
StartFails(s) ==
    /\ ~clearing /\ ~stopped /\ ~Ending /\ IsFree("rtp")
    /\ refs = {}
    /\ InLife(s, "new", "failed")
    /\ UNCHANGED <<state, thread, shut, control, caller, refs, bshut, app>>

\* The control thread keeps the lock of the map while it scans it.
Emplace(s) ==
    /\ ctl # "scan"
    /\ InLife(s, "referenced", "mapped")
    /\ map' = map \cup {s}
    /\ UNCHANGED <<state, thread, shut, ctlEnd, late, tardy, ctl, caller, refs, bshut, app>>

SetTimer(s) ==
    /\ InLife(s, "mapped", "timed")
    /\ late' = late \ {s}
    /\ UNCHANGED <<state, thread, shut, ctlEnd, map, tardy, ctl, caller, refs, bshut, app>>

\* What the audio thread does before the video thread exists it could do after.
Spawn(s) ==
    /\ InLife(s, "timed", "spawned")
    /\ thread' = [thread EXCEPT ![s] = [k \in Kinds |-> "ping"]]
    /\ UNCHANGED <<state, shut, control, caller, refs, bshut, app>>

Run(s) ==
    /\ InLife(s, "spawned", "started")
    /\ state' = [state EXCEPT ![s] = "RUNNING"]
    /\ Free("rtp")
    /\ UNCHANGED <<thread, shut, control, clearing, stopped, refs, bshut, app>>

Start(s) == StartRef(s) \/ Emplace(s) \/ SetTimer(s) \/ Spawn(s) \/ Run(s)
-----------------------------------------------------------------------------
(* videoThread and audioThread                                             *)

\* recv_ping() has received a PING; the thread captures.
PingReceived(s, k) ==
    /\ thread[s][k] = "ping"
    /\ thread' = [thread EXCEPT ![s][k] = "capture"]
    /\ UNCHANGED <<state, life, shut, control, caller, refs, bshut, app>>

\* recv_ping() has timed out, or capture() has returned: on shutdown_event or
\* because of a failure. The fail_guard calls session::stop().
ThreadEnds(s, k) ==
    /\ thread[s][k] \in {"ping", "capture"}
    /\ thread' = [thread EXCEPT ![s][k] = "done"]
    /\ Stop({s})
    /\ UNCHANGED <<life, control, caller, refs, bshut, app>>
ThreadMustEnd(s, k) == (thread[s][k] = "ping" \/ s \in shut) /\ ThreadEnds(s, k)
-----------------------------------------------------------------------------
(* controlBroadcastThread                                                  *)

CtlStep(from, to) == ctl = from /\ ctl' = to

\* The loop over the map: pingTimeout is read of every session in it, ...
CtlCheck ==
    /\ ~bshut
    /\ CtlStep("head", "scan")
    /\ tardy' = map \cap late
    /\ UNCHANGED <<session, ctlEnd, late, map, caller, refs, bshut, app>>

\* ... those that are late are stopped, and those that are stopping are erased
\* and may be joined.
CtlScan ==
    LET gone == {s \in map : state[s] = "STOPPING" \/ (s \in tardy /\ Stoppable(s))}
    IN  /\ CtlStep("scan", "proc")
        /\ Stop(tardy)
        /\ tardy' = TardyAfterScan
        /\ map' = map \ gone
        /\ ctlEnd' = ctlEnd \cup gone
        /\ UNCHANGED <<life, thread, late, caller, refs, bshut, app>>

CtlNoProcess ==
    /\ ~app
    /\ CtlStep("proc", "final")
    /\ UNCHANGED <<session, ctlEnd, late, map, tardy, caller, refs, bshut, app>>

\* iterate(): 150 ms without an event, or one from an unknown client;
CtlIdle ==
    /\ app
    /\ CtlStep("proc", "head")
    /\ UNCHANGED <<session, ctlEnd, late, map, tardy, caller, refs, bshut, app>>

\* or an event of a client: it restarts the timer, and a DISCONNECT or a packet
\* that is not authentic stops the session.
CtlEvent(s) ==
    /\ app
    /\ CtlStep("proc", "head")
    /\ s \in map
    /\ late' = late \ {s}
    /\ \/ Stop({s})
       \/ UNCHANGED <<state, shut>>
    /\ UNCHANGED <<life, thread, ctlEnd, map, tardy, caller, refs, bshut, app>>

CtlShutdown ==
    /\ bshut
    /\ CtlStep("head", "final")
    /\ UNCHANGED <<session, ctlEnd, late, map, tardy, caller, refs, bshut, app>>

\* After the loop every session in the map is told, and the thread ends.
CtlFinal ==
    /\ CtlStep("final", "dead")
    /\ shut' = shut \cup Told
    /\ ctlEnd' = ctlEnd \cup map
    /\ UNCHANGED <<state, life, thread, late, map, tardy, caller, refs, bshut, app>>

Control == \/ CtlCheck \/ CtlScan \/ CtlNoProcess \/ CtlIdle \/ CtlShutdown \/ CtlFinal
           \/ \E s \in Sessions : CtlEvent(s)
-----------------------------------------------------------------------------
(* clear(), run by rtpThread and by the HTTPS thread under the lock of the *)
(* slots: stop(), join() and reset() of one session.                       *)

Reap(t, s) ==
    /\ ~SlotsLocked
    /\ Take(t, s)
    /\ Reaps(t, s)
    /\ InLife(s, "started", "joining")
    /\ Stop({s})
    /\ UNCHANGED <<thread, control, clearing, stopped, refs, bshut, app>>

\* When join() does not find the session's two connections it raises
\* broadcast_shutdown (PingRegistry). Then the session is destroyed: release() of
\* the last reference calls end_broadcast() with the lock of shared_t held.
JoinAndReset(t, s) ==
    /\ busy[t] = s
    /\ Joinable(s) /\ ~LastRef(s)
    /\ InLife(s, "joining", "freed")
    /\ refs' = refs \ {s}
    /\ bshut' \in {bshut, TRUE}
    /\ Free(t)
    /\ UNCHANGED <<state, thread, shut, control, clearing, stopped, app>>

JoinAndResetLast(s) ==
    /\ Joinable(s) /\ LastRef(s)
    /\ InLife(s, "joining", "ending")
    /\ bshut' = TRUE
    /\ UNCHANGED <<state, thread, shut, control, caller, refs, app>>

EndBroadcast(t, s) ==
    /\ busy[t] = s
    /\ ctl = "dead"
    /\ InLife(s, "ending", "freed")
    /\ refs' = {} /\ map' = {} /\ ctl' = "none" /\ bshut' = FALSE
    /\ Free(t)
    /\ UNCHANGED <<state, thread, shut, ctlEnd, late, tardy, clearing, stopped, app>>

Leave(t, s) == JoinAndReset(t, s) \/ JoinAndResetLast(s) \/ EndBroadcast(t, s)

\* rtpThread sees broadcast_shutdown, or the shutdown of the program: it calls
\* clear(), which joins the session of every slot and stops ios.
ClearAll ==
    /\ IsFree("rtp") /\ ~clearing /\ ~stopped
    /\ clearing' = TRUE
    /\ UNCHANGED <<session, control, busy, stopped, refs, bshut, app>>
SeeBroadcastShutdown == bshut /\ ClearAll

ClearAllDone ==
    /\ clearing /\ ~SlotsLocked
    /\ \A s \in Sessions : life[s] # "started"
    /\ clearing' = FALSE /\ stopped' = TRUE
    /\ UNCHANGED <<session, control, busy, refs, bshut, app>>
-----------------------------------------------------------------------------
\* The client sends nothing for ping_timeout milliseconds.
TimePasses(s) ==
    /\ s \in map \ late      \* pingTimeout is read of the sessions in the map
    /\ late' = late \cup {s}
    /\ UNCHANGED <<session, ctlEnd, map, tardy, ctl, caller, refs, bshut, app>>

\* The application ends; a /launch, which a session is to follow, starts another.
AppChanges ==
    /\ app \/ \E s \in Sessions : life[s] = "new"
    /\ app' = ~app
    /\ UNCHANGED <<session, control, caller, refs, bshut>>

\* A broadcast thread has failed.
BroadcastFails ==
    /\ refs # {} /\ ~bshut /\ bshut' = TRUE
    /\ UNCHANGED <<session, control, caller, refs, app>>

Next ==
    \/ \E s \in Sessions :
          \/ Start(s) \/ StartFails(s) \/ TimePasses(s)
          \/ \E k \in Kinds : PingReceived(s, k) \/ ThreadEnds(s, k)
          \/ \E t \in Callers : Reap(t, s) \/ Leave(t, s)
    \/ Control \/ ClearAll \/ ClearAllDone \/ AppChanges \/ BroadcastFails

\* Every thread runs: a session that has begun to start is started (the lock of
\* the map is free again and again while it waits for it), recv_ping() times out,
\* capture() returns after its shutdown event, the control thread loops, and
\* rtpThread reaps what is stopping. Clients, applications and the HTTPS thread
\* owe nothing.
Fairness ==
    /\ WF_vars(Control)
    /\ WF_vars(SeeBroadcastShutdown) /\ WF_vars(ClearAllDone)
    /\ SF_vars(\E s \in Sessions : life[s] # "new" /\ Start(s))
    /\ SF_vars(\E s \in Sessions : Reap("rtp", s))
    /\ WF_vars(\E s \in Sessions, t \in Callers : Leave(t, s))
    /\ WF_vars(\E s \in Sessions, k \in Kinds : ThreadMustEnd(s, k))

Spec == Init /\ [][Next]_vars /\ Fairness
-----------------------------------------------------------------------------
(* Properties                                                              *)

\* The type of every variable.
TypeOK ==
    /\ state \in [Sessions -> {"STOPPED", "RUNNING", "STOPPING"}]
    /\ life \in [Sessions -> Lives]
    /\ thread \in [Sessions -> [Kinds -> {"none", "ping", "capture", "done"}]]
    /\ shut \subseteq Sessions /\ ctlEnd \subseteq Sessions /\ late \subseteq Sessions
    /\ map \subseteq Sessions /\ tardy \subseteq map /\ refs \subseteq Sessions
    /\ ctl \in {"none", "head", "scan", "proc", "final", "dead"}
    /\ bshut \in BOOLEAN /\ app \in BOOLEAN
    /\ busy \in [Callers -> Sessions \cup {Nil}]
    /\ clearing \in BOOLEAN /\ stopped \in BOOLEAN

Alive == Starting \cup {"started"} \cup Leaving

\* The control thread holds plain pointers: as long as it runs, no session in
\* its map has been joined, let alone freed (join() waits for controlEnd).
ServedSessionsAreAlive ==
    ctl \notin {"none", "dead"} => \A s \in map : life[s] \in Alive \ {"ending"}

\* Every session that is started or not yet freed has the broadcast context,
\* and the context goes with the last of them (shared_t).
BroadcastOutlivesSessions ==
    /\ \A s \in Sessions : life[s] \in Alive => s \in refs /\ ctl # "none"
    /\ ctl # "none" => refs # {}

\* A session's threads use it by pointer: they have ended before it is freed,
\* and none of them is left to raise its events.
ThreadsEndBeforeTheSession ==
    \A s \in Sessions :
        life[s] \in {"ending", "freed"} =>
            (\A k \in Kinds : thread[s][k] = "done") /\ s \in ctlEnd

\* A session is put in the map before its timer is set and its threads exist;
\* no ping timeout, packet or thread can make it STOPPING before start() is done
\* with it, and start() never turns a STOPPING session RUNNING again.
NotStoppedWhileStarting ==
    \A s \in Sessions : state[s] # "STOPPED" => life[s] \notin Starting \cup {"new", "failed"}

\* A session that was put in the map after the control thread had left its loop
\* for good: nobody will ever raise its controlEnd.
Orphan(s) == s \in map \ ctlEnd /\ ctl = "dead"

\* A session that was told to stop is joined and freed by the threads' own doing,
\* unless a session has become an orphan, whose join() never returns.
StoppedSessionsAreFreed ==
    \A s \in Sessions :
        state[s] = "STOPPING" ~> life[s] = "freed" \/ \E o \in Sessions : Orphan(o)

\* When the control thread has ended, because the application has or because of
\* broadcast_shutdown, each session it has told ends as well: one of its threads
\* does and stops it (if not both had ended before start() stored RUNNING, and
\* their stop() was lost).
ToldSessionsEnd ==
    \A s \in Sessions :
        /\ ctl = "dead" /\ s \in map \cap ctlEnd
        /\ life[s] = "started" /\ \E k \in Kinds : thread[s][k] # "done"
        ~> life[s] = "freed" \/ \E o \in Sessions : Orphan(o)

\* The stage of SessionLifecycle that each session is at.
StageByLife == [new |-> "none", referenced |-> "accepted", mapped |-> "accepted",
                timed |-> "accepted", spawned |-> "accepted", failed |-> "failed",
                freed |-> "closed"]
StageOf(s) == IF life[s] \notin {"started"} \cup Leaving THEN StageByLife[life[s]]
              ELSE IF state[s] = "STOPPING" THEN "stopping" ELSE "running"
stage == [s \in Sessions |-> StageOf(s)]
Lifecycle == INSTANCE SessionLifecycle

\* Whatever thread starts, stops and joins a session, it goes through the stages
\* in order: none is joined before it is stopped, stopped twice or restarted.
ImplementsLifecycle == Lifecycle!Spec
=============================================================================
