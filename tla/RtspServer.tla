----------------------------- MODULE RtspServer -----------------------------
(***************************************************************************)
(* The slot accounting of the RTSP server (src/sunshine/rtsp.cpp) under    *)
(* the two threads that run it:                                            *)
(*   "rtp"    rtpThread: handles ANNOUNCE and reaps stopped sessions;      *)
(*   "https"  the single thread of the HTTPS server: /launch and /resume   *)
(*            raise the launch event, /launch, /resume and /cancel call    *)
(*            session_count(), which reaps sessions too.                   *)
(* _session_slots is protected by a lock, launch_event by its own;         *)
(* _slot_count and raised_timeout are plain members, so ++ and -- are a    *)
(* load and a store between which the other thread may run.                *)
(***************************************************************************)
EXTENDS Integers, FiniteSets

CONSTANTS
    Channels,   \* config::stream.channels, the number of slots
    Launches,   \* identities of the launch events raised in a behaviour
    Nil         \* an empty shared_ptr, an event without a value, a free lock

ASSUME ChannelsAssumption == Channels \in Nat \ {0}
ASSUME LaunchesAssumption == IsFiniteSet(Launches) /\ Nil \notin Launches
ASSUME NilAssumption == Nil \notin {"rtp", "https"}

VARIABLES
    slotCount,  \* _slot_count
    slots,      \* _session_slots
    lock,       \* owner of the lock of _session_slots
    pending,    \* launch_event._status
    fresh,      \* raised_timeout > now
    held,       \* the launch_session that cmd_announce has popped
    phase,      \* what has become of each launch and of its session
    pc,         \* control of each thread
    call,       \* of each thread: the argument and the caller of clear()
    pos,        \* of each thread: the slot it looks at
    reg,        \* of each thread: the _slot_count it has loaded
    bshut,      \* the broadcast_shutdown event is raised
    shutdown,   \* the shutdown event is raised
    iosStopped, \* ios.stopped()
    drift       \* history: what overlapping ++/-- have added to _slot_count

counter == <<slotCount, reg, drift>>
slotVars == <<slots, lock>>
events == <<pending, fresh, held>>
stops == <<bshut, shutdown, iosStopped>>
local == <<call, pos>>
vars == <<counter, slotVars, events, stops, local, phase, pc>>

Threads == {"rtp", "https"}
Slots == 1 .. Channels

\* Phases of a session that sits in a slot ("ended": STOPPING, its threads and
\* the control thread are done with it, so that join() does not block).
InSlot == {"STOPPED", "RUNNING", "STOPPING", "ended"}
Phases == InSlot \cup {"unused", "pending", "held", "discarded", "overwritten",
                       "refused", "failed", "closed"}

IsStopping(l) == phase[l] \in {"STOPPING", "ended"}
SetPhase(l, p) == phase' = [phase EXCEPT ![l] = p]
Step(t, from, to) == pc[t] = from /\ pc' = [pc EXCEPT ![t] = to]

Init ==
    /\ slotCount = Channels /\ reg = [t \in Threads |-> 0] /\ drift = 0
    /\ slots = [s \in Slots |-> Nil] /\ lock = Nil
    /\ pending = Nil /\ fresh = FALSE /\ held = Nil
    /\ bshut = FALSE /\ shutdown = FALSE /\ iosStopped = FALSE
    /\ call = [t \in Threads |-> [all |-> FALSE, ret |-> "idle"]]
    /\ pos = [t \in Threads |-> 1]
    /\ phase = [l \in Launches |-> "unused"]
    /\ pc = [rtp |-> "loop", https |-> "idle"]
-----------------------------------------------------------------------------
(* The conditions and updates a bug would get wrong, each preceded by the  *)
(* mutant that does.                                                       *)

LockFreeAlways == TRUE
LockFree == lock = Nil

StatusAfterView == pending
StatusAfterPop == Nil

SamePos(i) == i
NextPos(i) == i + 1

FirstPos == 1

Joinable(l) == phase[l] = "ended"

FirstSlot == 1
FirstEmpty == CHOOSE s \in Slots : /\ slots[s] = Nil
                                   /\ \A r \in Slots : r < s => slots[r] # Nil

Full == slotCount = 0

UndoForgets == [clear_store |-> 1, slot_store |-> 1, undo_store |-> 0, raise_store |-> -1]
GivenBack == [clear_store |-> 1, slot_store |-> 1, undo_store |-> 1, raise_store |-> -1]

LoopEnds == shutdown

ReapsOnlyAll(l, all) == l # Nil /\ all
Reaps(l, all) == l # Nil /\ (all \/ IsStopping(l))
-----------------------------------------------------------------------------
(* _slot_count is not atomic: ++ and -- load it, then store the sum.       *)

LoadedAt == [clear_inc |-> "clear_store", slot_inc |-> "slot_store",
             undo_inc |-> "undo_store", raise_dec |-> "raise_store"]
StoredAt == [clear_store |-> "clear_lock", slot_store |-> "scan",
             undo_store |-> "peek_shutdown", raise_store |-> "raise"]

LoadCount(t) ==
    /\ pc[t] \in DOMAIN LoadedAt
    /\ Step(t, pc[t], LoadedAt[pc[t]])
    /\ reg' = [reg EXCEPT ![t] = slotCount]
    /\ UNCHANGED <<slotCount, drift, slotVars, events, stops, local, phase>>

\* clear(slot) returns after its ++, and releases the lock.
StoreCount(t) ==
    /\ pc[t] \in DOMAIN StoredAt
    /\ Step(t, pc[t], StoredAt[pc[t]])
    /\ slotCount' = reg[t] + GivenBack[pc[t]]
    /\ drift' = drift + (reg[t] - slotCount)
    /\ lock' = IF pc[t] = "undo_store" THEN Nil ELSE lock
    /\ UNCHANGED <<reg, slots, events, stops, local, phase>>
-----------------------------------------------------------------------------
(* clear(all), run by either thread.                                       *)

CallClear(t, from, all, ret) ==
    /\ Step(t, from, "clear_check")
    /\ call' = [call EXCEPT ![t] = [all |-> all, ret |-> ret]]
    /\ UNCHANGED <<counter, slotVars, events, stops, pos, phase>>

\* The test of raised_timeout; the pop(0s) that follows is another step.
ClearCheck(t) ==
    /\ Step(t, "clear_check", IF fresh THEN "clear_lock" ELSE "clear_pop")
    /\ UNCHANGED <<counter, slotVars, events, stops, local, phase>>

ClearPop(t) ==
    /\ Step(t, "clear_pop", IF pending = Nil THEN "clear_lock" ELSE "clear_inc")
    /\ pending' = StatusAfterPop
    /\ phase' = [l \in Launches |-> IF l = pending THEN "discarded" ELSE phase[l]]
    /\ UNCHANGED <<counter, slotVars, fresh, held, stops, local>>

ClearLock(t) ==
    /\ Step(t, "clear_lock", "scan")
    /\ LockFree
    /\ lock' = t
    /\ pos' = [pos EXCEPT ![t] = FirstPos]
    /\ UNCHANGED <<counter, slots, events, stops, call, phase>>

\* One turn of the loop over the slots: skip the slot, or session::stop() it...
ScanSkip(t) ==
    /\ Step(t, "scan", "scan")
    /\ pos[t] \in Slots
    /\ ~Reaps(slots[pos[t]], call[t].all)
    /\ pos' = [pos EXCEPT ![t] = NextPos(@)]
    /\ UNCHANGED <<counter, slotVars, events, stops, call, phase>>

ScanStop(t) ==
    /\ Step(t, "scan", "join")
    /\ pos[t] \in Slots
    /\ Reaps(slots[pos[t]], call[t].all)
    /\ IF IsStopping(slots[pos[t]]) THEN UNCHANGED phase
                                    ELSE SetPhase(slots[pos[t]], "STOPPING")
    /\ UNCHANGED <<counter, slotVars, events, stops, local>>

\* ... join() it, which returns once the session has ended, and reset the slot:
\* with the last reference to the broadcast context end_broadcast() raises
\* broadcast_shutdown and joins the broadcast threads before it resets it.
JoinAndReset(t) ==
    LET last == \A s \in Slots \ {pos[t]} :
                    slots[s] = Nil \/ phase[slots[s]] = "STOPPED"
    IN  /\ Step(t, "join", IF last THEN "end_broadcast" ELSE "slot_inc")
        /\ Joinable(slots[pos[t]])
        /\ SetPhase(slots[pos[t]], "closed")
        /\ slots' = [slots EXCEPT ![pos[t]] = Nil]
        /\ pos' = [pos EXCEPT ![t] = NextPos(@)]
        /\ bshut' = (bshut \/ last)
        /\ UNCHANGED <<counter, lock, events, shutdown, iosStopped, call>>

EndBroadcast(t) ==
    /\ Step(t, "end_broadcast", "slot_inc")
    /\ bshut' = FALSE
    /\ UNCHANGED <<counter, slotVars, events, shutdown, iosStopped, local, phase>>

ClearReturn(t) ==
    /\ Step(t, "scan", call[t].ret)
    /\ pos[t] \notin Slots
    /\ lock' = Nil
    /\ iosStopped' = (iosStopped \/ call[t].all)
    /\ UNCHANGED <<counter, slots, events, bshut, shutdown, local, phase>>

Clear(t) == \/ ClearCheck(t) \/ ClearPop(t) \/ ClearLock(t) \/ ScanSkip(t)
            \/ ScanStop(t) \/ JoinAndReset(t) \/ EndBroadcast(t) \/ ClearReturn(t)
            \/ LoadCount(t) \/ StoreCount(t)
-----------------------------------------------------------------------------
(* rtpThread                                                               *)

Serving == ~shutdown /\ ~iosStopped

\* run_one_for() returns without having run a handler that matters here (or
\* at once when ios is stopped).
RtpIterate ==
    /\ ~LoopEnds
    /\ Step("rtp", "loop", "peek_shutdown")
    /\ UNCHANGED <<counter, slotVars, events, stops, local, phase>>

RtpEnd == LoopEnds /\ CallClear("rtp", "loop", TRUE, "done")

\* handle_accept with an error code: "Stop server".
RtpAcceptError == Serving /\ CallClear("rtp", "loop", TRUE, "peek_shutdown")

RtpReap == CallClear("rtp", "peek_shutdown", bshut, "loop")

\* cmd_announce: without a launch event the client is answered 503 (RtpIterate).
\* The pop() that follows the peek() has no timeout, it waits for a value.
AnnouncePeek ==
    /\ Serving
    /\ pending # Nil
    /\ Step("rtp", "loop", "ann_pop")
    /\ UNCHANGED <<counter, slotVars, events, stops, local, phase>>

AnnouncePop ==
    /\ Step("rtp", "ann_pop", "ann_accept")
    /\ pending # Nil
    /\ held' = pending
    /\ pending' = StatusAfterPop
    /\ SetPhase(pending, "held")
    /\ UNCHANGED <<counter, slotVars, fresh, stops, local>>

\* 400: an argument is missing, or the client wants HEVC while it is disabled;
\* 503: accept() has found no empty slot.
AnnounceRefuse ==
    /\ Step("rtp", "ann_accept", "peek_shutdown")
    /\ SetPhase(held, "refused")
    /\ held' = Nil
    /\ UNCHANGED <<counter, slotVars, pending, fresh, stops, local>>

\* accept(session): the first empty slot.
AnnounceAccept ==
    /\ Step("rtp", "ann_accept", "ann_start")
    /\ LockFree
    /\ \E s \in Slots : slots[s] = Nil
    /\ slots' = [slots EXCEPT ![FirstEmpty] = held]
    /\ pos' = [pos EXCEPT !["rtp"] = FirstEmpty]
    /\ SetPhase(held, "STOPPED")
    /\ held' = Nil
    /\ UNCHANGED <<counter, lock, pending, fresh, stops, call>>

\* session::start(); broadcast.ref() waits while end_broadcast() runs.
AnnounceStart ==
    /\ Step("rtp", "ann_start", "peek_shutdown")
    /\ pc["https"] # "end_broadcast"
    /\ SetPhase(slots[pos["rtp"]], "RUNNING")
    /\ UNCHANGED <<counter, slotVars, events, stops, local>>

\* It fails when start_broadcast() does, which only the first reference calls.
AnnounceStartFails ==
    /\ Step("rtp", "ann_start", "undo_lock")
    /\ pc["https"] # "end_broadcast"
    /\ \A s \in Slots \ {pos["rtp"]} : slots[s] = Nil
    /\ UNCHANGED <<counter, slotVars, events, stops, local, phase>>

\* clear(slot)
UndoAccept ==
    /\ Step("rtp", "undo_lock", "undo_inc")
    /\ LockFree
    /\ lock' = "rtp"
    /\ SetPhase(slots[pos["rtp"]], "failed")
    /\ slots' = [slots EXCEPT ![pos["rtp"]] = Nil]
    /\ UNCHANGED <<counter, events, stops, local>>

RtpStep == \/ RtpIterate \/ RtpEnd \/ RtpReap \/ AnnouncePop \/ AnnounceRefuse
           \/ AnnounceAccept \/ AnnounceStart \/ AnnounceStartFails \/ UndoAccept
           \/ Clear("rtp")
-----------------------------------------------------------------------------
(* The HTTPS thread                                                        *)

Request == CallClear("https", "idle", FALSE, "count")

\* session_count() == channels refuses; /cancel and the requests that are
\* refused for their arguments or for the running process end here as well.
CountAndAnswer ==
    /\ Step("https", "count", "idle")
    /\ UNCHANGED <<counter, slotVars, events, stops, local, phase>>

CountAndLaunch ==
    /\ Step("https", "count", "raise_check")
    /\ ~Full
    /\ \E l \in Launches : phase[l] = "unused"   \* bound: Launches
    /\ UNCHANGED <<counter, slotVars, events, stops, local, phase>>

\* session_raise()
RaiseCheck ==
    LET blocked == fresh /\ pending # Nil
    IN  /\ Step("https", "raise_check", IF blocked THEN "idle" ELSE "raise_dec")
        /\ fresh' = TRUE
        /\ UNCHANGED <<counter, slotVars, pending, held, stops, local, phase>>

\* launch_event.raise() replaces the value that is there.
Raise(l) ==
    /\ Step("https", "raise", "idle")
    /\ phase[l] = "unused"
    /\ pending' = l
    /\ phase' = [m \in Launches |-> IF m = l THEN "pending"
                                    ELSE IF m = pending THEN "overwritten"
                                    ELSE phase[m]]
    /\ UNCHANGED <<counter, slotVars, fresh, held, stops, local>>

HttpsStep == \/ CountAndAnswer \/ CountAndLaunch \/ RaiseCheck
             \/ (\E l \in Launches : Raise(l)) \/ Clear("https")
-----------------------------------------------------------------------------
(* Time, the sessions' own threads, and the process' shutdown.             *)

\* Ten seconds have passed since session_raise().
Expire ==
    /\ fresh
    /\ fresh' = FALSE
    /\ UNCHANGED <<counter, slotVars, pending, held, stops, local, phase, pc>>

\* The client disconnects, times out, or a session thread ends: session::stop().
\* Then its threads return and controlEnd is raised.
SessionStops(l) ==
    /\ \/ phase[l] = "RUNNING" /\ SetPhase(l, "STOPPING")
       \/ phase[l] = "STOPPING" /\ SetPhase(l, "ended")
    /\ UNCHANGED <<counter, slotVars, events, stops, local, pc>>
SessionEnds(l) == phase[l] = "STOPPING" /\ SessionStops(l)

\* A broadcast thread has ended, or join() could not remove a session's
\* connections ("ending all broadcasts"); or the program shuts down.
BroadcastFails ==
    /\ \E s \in Slots : slots[s] # Nil /\ phase[slots[s]] # "STOPPED"
    /\ ~bshut /\ bshut' = TRUE
    /\ UNCHANGED <<counter, slotVars, events, shutdown, iosStopped, local, phase, pc>>

Shutdown ==
    /\ ~shutdown /\ shutdown' = TRUE
    /\ UNCHANGED <<counter, slotVars, events, bshut, iosStopped, local, phase, pc>>

Next == \/ RtpStep \/ RtpAcceptError \/ AnnouncePeek
        \/ Request \/ HttpsStep
        \/ Expire \/ Shutdown \/ BroadcastFails
        \/ \E l \in Launches : SessionStops(l)

\* Both threads keep running and a mutex that is released again and again is
\* eventually taken by a thread that waits for it, ten seconds pass, and the
\* threads of a session that was stopped return (StreamSession says when they
\* do); clients need not send anything and nobody has to stop a session or the
\* program.
Fairness ==
    /\ WF_vars(RtpStep)
    /\ WF_vars(HttpsStep)
    /\ SF_vars(AnnounceAccept \/ AnnounceRefuse)
    /\ SF_vars(UndoAccept)
    /\ \A t \in Threads : SF_vars(ClearLock(t))
    /\ WF_vars(Expire)
    /\ \A l \in Launches : WF_vars(SessionEnds(l))

Spec == Init /\ [][Next]_vars /\ Fairness
-----------------------------------------------------------------------------
(* Properties                                                              *)

Labels == {"clear_check", "clear_pop", "clear_inc", "clear_store", "clear_lock",
           "scan", "join", "end_broadcast", "slot_inc", "slot_store",
           "loop", "peek_shutdown", "done", "ann_pop", "ann_accept", "ann_start",
           "undo_lock", "undo_inc", "undo_store",
           "idle", "count", "raise_check", "raise_dec", "raise_store", "raise"}

\* The type of every variable.
TypeOK ==
    /\ slotCount \in Int
    /\ slots \in [Slots -> Launches \cup {Nil}]
    /\ pending \in Launches \cup {Nil}
    /\ fresh \in BOOLEAN
    /\ phase \in [Launches -> Phases]
    /\ lock \in Threads \cup {Nil}
    /\ pc \in [Threads -> Labels]
    /\ call \in [Threads -> [all : BOOLEAN, ret : {"idle", "loop", "peek_shutdown",
                                                  "done", "count"}]]
    /\ pos \in [Threads -> 1 .. Channels + 1]
    /\ reg \in [Threads -> Int]
    /\ held \in Launches \cup {Nil}
    /\ bshut \in BOOLEAN /\ shutdown \in BOOLEAN /\ iosStopped \in BOOLEAN
    /\ drift \in Int

\* A slot holds a session from accept() to reset(), and no session is lost or
\* held twice: every launch whose session exists is in exactly one slot, every
\* occupied slot holds such a session (accept, clear and clear(slot) of
\* rtsp.cpp, run by two threads).
SlotsHoldSessions ==
    /\ \A l \in Launches : phase[l] \in InSlot <=> \E s \in Slots : slots[s] = l
    /\ \A r, s \in Slots : r # s /\ slots[r] # Nil => slots[r] # slots[s]

\* While a thread joins or resets the session of a slot the slot keeps it:
\* the thread owns the lock and no other thread is past it.
JoinedSlotIsStable ==
    \A t \in Threads :
        pc[t] = "join" => lock = t /\ slots[pos[t]] # Nil /\ IsStopping(slots[pos[t]])

\* One /launch serves at most one ANNOUNCE: the launch that is pending or being
\* answered is no one else's, and the thread that pops it is the only owner.
LaunchHasOneOwner ==
    /\ \A l \in Launches : phase[l] = "pending" <=> pending = l
    /\ \A l \in Launches : phase[l] = "held" <=> held = l
    /\ held # Nil => pc["rtp"] = "ann_accept"

InDebt(t) == IF pc[t] \in {"clear_inc", "clear_store", "slot_inc", "slot_store",
                           "undo_inc", "undo_store", "end_broadcast", "raise"}
             THEN 1 ELSE 0

\* What _slot_count has been charged for: launches that are pending or being
\* answered, sessions in slots, launches whose slot is never given back (they
\* were refused with 400 or 503, or overwritten), and each thread that is on
\* its way to give a slot back or has just paid for the launch it raises.
Charged ==
    LET Uncredited == {"pending", "held", "overwritten", "refused"} \cup InSlot
    IN  Cardinality({l \in Launches : phase[l] \in Uncredited})
          + InDebt("rtp") + InDebt("https")

\* The books of rtsp_server_t: _slot_count is exactly the channels not charged,
\* up to the updates that an overlapping ++ and -- have lost. Every slot that
\* is missing for good is therefore due to a refused ANNOUNCE, an overwritten
\* launch or a lost update, and to nothing else. session_raise() is reached only
\* with session_count() # channels, so the counter never goes below zero and
\* "== channels" never misses "full".
SlotBooks == slotCount = Channels - Charged + drift /\ slotCount >= 0

\* A session leaves its slot only after its threads have ended, and a discarded,
\* refused or closed launch never comes back.
SettledStep ==
    \A l \in Launches :
        /\ phase[l] \in {"closed", "discarded", "refused", "overwritten", "failed"}
             => phase'[l] = phase[l]
        /\ phase'[l] = "closed" => phase[l] \in {"ended", "closed"}
SettledStaysSettled == [][SettledStep]_vars

\* The stage of SessionLifecycle that the session of each launch is at.
StageByPhase == [STOPPED |-> "accepted", RUNNING |-> "running", STOPPING |-> "stopping",
                 ended |-> "stopping", closed |-> "closed", failed |-> "failed"]
StageOf(l) == IF phase[l] \in DOMAIN StageByPhase THEN StageByPhase[phase[l]] ELSE "none"
stage == [l \in Launches |-> StageOf(l)]
Lifecycle == INSTANCE SessionLifecycle WITH Sessions <- Launches

\* A session goes through the stages in order, whichever of the two threads
\* accepts, stops and reaps it, and a launch never makes two sessions.
ImplementsLifecycle == Lifecycle!Spec

\* A stopped session is reaped, unless rtpThread waits for a launch event for
\* good (rtpThread and session_count() call clear(false)).
StoppedSessionsAreReaped ==
    []<>(pc["rtp"] # "ann_pop") =>
        \A l \in Launches : IsStopping(l) ~> phase[l] = "closed"

\* nvhttp is answered: a request that reaps sessions gets its session count. And
\* after the shutdown event rtpThread reaches its end, unless it waits for a
\* launch event.
ThreadsGoOn ==
    /\ pc["https"] # "idle" ~> pc["https"] = "idle"
    /\ shutdown /\ []<>(pc["rtp"] # "ann_pop") ~> pc["rtp"] = "done"

(* What the comments of the code say and the code does not do.             *)

\* rtsp.cpp:715 "cleanup all stopped sessions", said of what rtpThread does
\* after each of its iterations.
AllStoppedSessionsAreReaped ==
    \A l \in Launches : IsStopping(l) ~> phase[l] = "closed"
=============================================================================
