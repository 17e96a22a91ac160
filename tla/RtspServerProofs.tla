-------------------------- MODULE RtspServerProofs --------------------------
(***************************************************************************)
(* Proofs about RtspServer, for every number of channels and every set of  *)
(* launches.  The properties are not inductive by themselves: that a slot  *)
(* keeps its session while it is joined rests on who owns the lock, which  *)
(* labels each thread can be at, and where rtpThread is while a session is *)
(* accepted but not started.  IInv adds just that.  The books of the slots *)
(* need what a thread has loaded and owes at each label.                   *)
(***************************************************************************)
EXTENDS RtspServer, FiniteSetTheorems, WellFoundedInduction, TLAPS

ClearLabels == {"clear_check", "clear_pop", "clear_inc", "clear_store", "clear_lock",
                "scan", "join", "end_broadcast", "slot_inc", "slot_store"}
RtpLabels == {"loop", "peek_shutdown", "done", "ann_pop", "ann_accept", "ann_start",
              "undo_lock", "undo_inc", "undo_store"}
HttpsLabels == {"idle", "count", "raise_check", "raise_dec", "raise_store", "raise"}

\* Which thread can be where, and what clear() was called with.
Control ==
    /\ pc["rtp"] \in ClearLabels \cup RtpLabels
    /\ pc["https"] \in ClearLabels \cup HttpsLabels
    /\ pc["rtp"] \in ClearLabels => call["rtp"].ret \in {"loop", "peek_shutdown", "done"}
    /\ pc["https"] \in ClearLabels => call["https"].ret = "count"
    /\ ~call["https"].all

\* Who is inside a critical section of _session_slots owns its lock.
Locking ==
    \A t \in Threads :
        pc[t] \in {"scan", "join", "end_broadcast", "slot_inc", "slot_store",
                   "undo_inc", "undo_store"} => lock = t

\* The session that is accepted and not started, if any, is in the slot rtpThread
\* looks at.
Starting ==
    /\ pc["rtp"] = "ann_accept" => held # Nil
    /\ pc["rtp"] \in {"ann_start", "undo_lock"} =>
          /\ pos["rtp"] \in Slots
          /\ slots[pos["rtp"]] # Nil
          /\ phase[slots[pos["rtp"]]] = "STOPPED"
    /\ \A l \in Launches : phase[l] = "STOPPED" =>
          pc["rtp"] \in {"ann_start", "undo_lock"} /\ slots[pos["rtp"]] = l

Joining ==
    \A t \in Threads : pc[t] = "join" => pos[t] \in Slots

IInv == /\ TypeOK /\ Control /\ Locking /\ Starting /\ Joining
        /\ SlotsHoldSessions /\ JoinedSlotIsStable /\ LaunchHasOneOwner
-----------------------------------------------------------------------------
USE NilAssumption, LaunchesAssumption, ChannelsAssumption
    DEF FirstPos, NextPos, Threads, Slots, InSlot, Phases, Labels, ClearLabels, RtpLabels, HttpsLabels,
        Step, SetPhase, IsStopping, counter, slotVars, events, stops, local

\* A set of natural numbers that is not empty has a least element: < is well founded
\* (the search loop of accept(), rtsp.cpp:350, stops at the least slot that is empty).
LEMMA LeastElement ==
    ASSUME NEW E, E \subseteq Nat, E # {}
    PROVE  \E m \in E : \A r \in E : m <= r
<1>1. PICK m \in E : \A y \in E : <<y, m>> \notin OpToRel(<, Nat)
  BY WFMin, NatLessThanWellFounded, Zenon
<1>2. ASSUME NEW r \in E PROVE ~(r < m)
  <2>1. r \in Nat /\ m \in Nat
    OBVIOUS
  <2>2. <<r, m>> \notin OpToRel(<, Nat)
    BY <1>1, Zenon
  <2> QED BY <2>1, <2>2, Zenon DEF OpToRel
<1> QED BY <1>2

\* accept() fills an empty slot: the first one is a slot, and it is empty.
LEMMA FirstEmptyIsEmpty ==
    ASSUME \E s \in Slots : slots[s] = Nil
    PROVE  FirstEmpty \in Slots /\ slots[FirstEmpty] = Nil
  <1> DEFINE Empty == {s \in Slots : slots[s] = Nil}
  <1>1. Empty \subseteq Nat /\ Empty # {}
    OBVIOUS
  <1>2. PICK m \in Empty : \A r \in Empty : m <= r
    <2> HIDE DEF Empty
    <2> QED BY <1>1, LeastElement
  <1>3. m \in Slots /\ slots[m] = Nil
    OBVIOUS
  <1>4. ASSUME NEW r \in Slots, r < m PROVE slots[r] # Nil
    <2>1. r \in Empty => m <= r
      BY <1>2
    <2>2. r \in Int /\ m \in Int
      BY <1>3
    <2> QED BY <1>4, <2>1, <2>2
  <1> QED BY <1>3, <1>4 DEF FirstEmpty

\* The initial state satisfies the inductive invariant.
LEMMA InitIInv == Init => IInv
  <1> SUFFICES ASSUME Init PROVE IInv
    OBVIOUS
  <1> USE DEF Init
  <1>1. TypeOK
    <2>1. fresh \in BOOLEAN /\ bshut \in BOOLEAN /\ shutdown \in BOOLEAN /\ iosStopped \in BOOLEAN
      BY Zenon
    <2>2. call \in [Threads -> [all : BOOLEAN, ret : {"idle", "loop", "peek_shutdown",
                                                     "done", "count"}]]
      BY Zenon
    <2> QED BY <2>1, <2>2 DEF TypeOK
  <1>2. Control /\ Locking /\ Starting /\ Joining
    BY DEF Control, Locking, Starting, Joining
  <1>3. SlotsHoldSessions /\ JoinedSlotIsStable /\ LaunchHasOneOwner
    BY DEF SlotsHoldSessions, JoinedSlotIsStable, LaunchHasOneOwner
  <1> QED BY <1>1, <1>2, <1>3 DEF IInv
-----------------------------------------------------------------------------
(* The steps that move a session between the slots and the threads, each   *)
(* with the conjuncts of IInv it could disturb.                            *)

\* The slot is left alone and the position moves on, at most past the last slot.
LEMMA ScanSkipPreserves ==
    ASSUME IInv, NEW t \in Threads, ScanSkip(t)
    PROVE  IInv'
  <1> USE DEF ScanSkip, Reaps, IInv, TypeOK, Control, Locking, Starting, Joining,
              SlotsHoldSessions, JoinedSlotIsStable, LaunchHasOneOwner
  <1>1. TypeOK'
    BY SMTT(30)
  <1>2. Control'
    BY SMTT(30)
  <1>3. Locking'
    BY SMTT(30)
  <1>4. Starting'
    BY SMTT(30)
  <1>5. Joining'
    BY SMTT(30)
  <1>6. SlotsHoldSessions'
    BY SMTT(30)
  <1>7. JoinedSlotIsStable'
    BY SMTT(30)
  <1>8. LaunchHasOneOwner'
    BY SMTT(30)
  <1> QED BY <1>1, <1>2, <1>3, <1>4, <1>5, <1>6, <1>7, <1>8

\* The session to join is in the slot the thread looks at, and is stopping.
LEMMA ScanStopPreserves ==
    ASSUME IInv, NEW t \in Threads, ScanStop(t)
    PROVE  IInv'
  <1> USE DEF ScanStop, Reaps, IInv, TypeOK, Control, Locking, Starting, Joining,
              SlotsHoldSessions, JoinedSlotIsStable, LaunchHasOneOwner
  <1>1. TypeOK'
    BY SMTT(30)
  <1>2. Control'
    BY SMTT(30)
  <1>3. Locking'
    BY SMTT(30)
  <1>4. Starting'
    BY SMTT(30)
  <1>5. Joining'
    BY SMTT(30)
  <1>6. SlotsHoldSessions'
    BY SMTT(30)
  <1>7. JoinedSlotIsStable'
    BY SMTT(30)
  <1>8. LaunchHasOneOwner'
    BY SMTT(30)
  <1> QED BY <1>1, <1>2, <1>3, <1>4, <1>5, <1>6, <1>7, <1>8

\* The session that leaves its slot is in no other one, and the other thread,
\* which does not own the lock, joins none.
LEMMA JoinAndResetPreserves ==
    ASSUME IInv, NEW t \in Threads, JoinAndReset(t)
    PROVE  IInv'
  <1> USE DEF JoinAndReset, Joinable, IInv, TypeOK, Control, Locking, Starting, Joining,
              SlotsHoldSessions, JoinedSlotIsStable, LaunchHasOneOwner
  <1>1. TypeOK'
    BY SMTT(30)
  <1>2. Control'
    BY SMTT(30)
  <1>3. Locking'
    BY SMTT(30)
  <1>4. Starting'
    BY SMTT(30)
  <1>5. Joining'
    BY SMTT(30)
  <1>6. SlotsHoldSessions'
    BY SMTT(30)
  <1>7. JoinedSlotIsStable'
    BY SMTT(30)
  <1>8. LaunchHasOneOwner'
    BY SMTT(30)
  <1> QED BY <1>1, <1>2, <1>3, <1>4, <1>5, <1>6, <1>7, <1>8

\* The launch that becomes a session is in no slot yet, and the slot it gets is
\* empty.
LEMMA AnnounceAcceptPreserves ==
    ASSUME IInv, AnnounceAccept
    PROVE  IInv'
  <1>0. FirstEmpty \in Slots /\ slots[FirstEmpty] = Nil
    BY FirstEmptyIsEmpty DEF AnnounceAccept
  <1> USE DEF AnnounceAccept, LockFree, IInv, TypeOK, Control, Locking, Starting, Joining,
              SlotsHoldSessions, JoinedSlotIsStable, LaunchHasOneOwner
  <1>1. TypeOK'
    BY <1>0, SMTT(30)
  <1>2. Control'
    BY <1>0, SMTT(30)
  <1>3. Locking'
    BY <1>0, SMTT(30)
  <1>4. Starting'
    BY <1>0, SMTT(30)
  <1>5. Joining'
    BY <1>0, SMTT(30)
  <1>6. SlotsHoldSessions'
    BY <1>0, SMTT(30)
  <1>7. JoinedSlotIsStable'
    BY <1>0, SMTT(30)
  <1>8. LaunchHasOneOwner'
    BY <1>0, SMTT(30)
  <1> QED BY <1>1, <1>2, <1>3, <1>4, <1>5, <1>6, <1>7, <1>8

-----------------------------------------------------------------------------
\* The reset of broadcast_shutdown disturbs nothing the invariant speaks of.
LEMMA EndBroadcastPreserves ==
    ASSUME IInv, NEW t \in Threads, EndBroadcast(t)
    PROVE  IInv'
  <1> USE DEF IInv, EndBroadcast
  <1>1. (bshut \in BOOLEAN)'
    BY Zenon
  <1>2. TypeOK'
    BY <1>1 DEF TypeOK
  <1>3. Control' /\ Locking' /\ Starting' /\ Joining'
    BY DEF TypeOK, Control, Locking, Starting, Joining
  <1>4. SlotsHoldSessions' /\ JoinedSlotIsStable' /\ LaunchHasOneOwner'
    BY DEF TypeOK, SlotsHoldSessions, JoinedSlotIsStable, LaunchHasOneOwner
  <1> QED BY <1>2, <1>3, <1>4

\* Every step of clear() preserves the invariant, whichever thread runs it.
LEMMA ClearPreserves ==
    ASSUME IInv, NEW t \in Threads, Clear(t)
    PROVE  IInv'
  <1> USE DEF IInv, TypeOK, Control, Locking, Starting, Joining, SlotsHoldSessions,
              JoinedSlotIsStable, LaunchHasOneOwner, LockFree,
              StatusAfterPop, CallClear
  <1>1. CASE ClearCheck(t)
    BY <1>1, SMTT(60) DEF ClearCheck
  <1>2. CASE ClearPop(t)
    BY <1>2, SMTT(60) DEF ClearPop
  <1>3. CASE ClearLock(t)
    BY <1>3, SMTT(60) DEF ClearLock
  <1>4. CASE ScanSkip(t)
    BY <1>4, ScanSkipPreserves, ZenonT(60)
  <1>5. CASE ScanStop(t)
    BY <1>5, ScanStopPreserves, ZenonT(60)
  <1>6. CASE JoinAndReset(t)
    BY <1>6, JoinAndResetPreserves, ZenonT(60)
  <1>7. CASE EndBroadcast(t)
    BY <1>7, EndBroadcastPreserves, ZenonT(60)
  <1>8. CASE ClearReturn(t)
    BY <1>8, SMTT(60) DEF ClearReturn
  <1>9. CASE LoadCount(t)
    BY <1>9, SMTT(60) DEF LoadCount, LoadedAt
  <1>10. CASE StoreCount(t)
    BY <1>10, SMTT(60) DEF StoreCount, StoredAt, LoadedAt
  <1> HIDE DEF IInv
  <1> QED BY <1>1, <1>2, <1>3, <1>4, <1>5, <1>6, <1>7, <1>8, <1>9, <1>10 DEF Clear

\* So does every step of rtpThread.
LEMMA RtpPreserves ==
    ASSUME IInv, RtpStep \/ RtpAcceptError \/ AnnouncePeek
    PROVE  IInv'
  <1> USE DEF IInv, TypeOK, Control, Locking, Starting, Joining, SlotsHoldSessions,
              JoinedSlotIsStable, LaunchHasOneOwner, LockFree,
              StatusAfterPop, CallClear
  <1>1. CASE RtpIterate
    BY <1>1, SMTT(60) DEF RtpIterate
  <1>2. CASE RtpEnd
    BY <1>2, SMTT(60) DEF RtpEnd
  <1>3. CASE RtpReap
    BY <1>3, SMTT(60) DEF RtpReap
  <1>4. CASE AnnouncePop
    BY <1>4, SMTT(60) DEF AnnouncePop
  <1>5. CASE AnnounceRefuse
    BY <1>5, SMTT(60) DEF AnnounceRefuse
  <1>6. CASE AnnounceAccept
    BY <1>6, AnnounceAcceptPreserves
  <1>7. CASE AnnounceStart
    BY <1>7, SMTT(60) DEF AnnounceStart
  <1>8. CASE AnnounceStartFails
    BY <1>8, SMTT(60) DEF AnnounceStartFails
  <1>9. CASE UndoAccept
    BY <1>9, SMTT(60) DEF UndoAccept
  <1>10. CASE RtpAcceptError
    BY <1>10, SMTT(60) DEF RtpAcceptError
  <1>11. CASE AnnouncePeek
    BY <1>11, SMTT(60) DEF AnnouncePeek
  <1>12. CASE Clear("rtp")
    BY <1>12, ClearPreserves
  <1> HIDE DEF IInv
  <1> QED BY <1>1, <1>2, <1>3, <1>4, <1>5, <1>6, <1>7, <1>8, <1>9, <1>10, <1>11, <1>12 DEF RtpStep

\* So does every step of the HTTPS thread.
LEMMA HttpsPreserves ==
    ASSUME IInv, Request \/ HttpsStep
    PROVE  IInv'
  <1> USE DEF IInv, TypeOK, Control, Locking, Starting, Joining, SlotsHoldSessions,
              JoinedSlotIsStable, LaunchHasOneOwner, LockFree,
              StatusAfterPop, CallClear
  <1>1. CASE Request
    BY <1>1, SMTT(60) DEF Request
  <1>2. CASE CountAndAnswer
    BY <1>2, SMTT(60) DEF CountAndAnswer
  <1>3. CASE CountAndLaunch
    BY <1>3, SMTT(60) DEF CountAndLaunch
  <1>4. CASE RaiseCheck
    BY <1>4, SMTT(60) DEF RaiseCheck
  <1>5. ASSUME NEW l \in Launches, Raise(l) PROVE IInv'
    BY <1>5, SMTT(60) DEF Raise
  <1>6. CASE Clear("https")
    BY <1>6, ClearPreserves
  <1> HIDE DEF IInv
  <1> QED BY <1>1, <1>2, <1>3, <1>4, <1>5, <1>6 DEF HttpsStep

\* The passing of time, the sessions' ends and the shutdown preserve it too.
LEMMA ExpirePreserves ==
    ASSUME IInv, Expire
    PROVE  IInv'
  <1> USE DEF IInv, Expire
  <1>1. (fresh \in BOOLEAN)'
    BY Zenon
  <1>2. TypeOK'
    BY <1>1 DEF TypeOK
  <1>3. Control' /\ Locking' /\ Starting' /\ Joining'
    BY DEF TypeOK, Control, Locking, Starting, Joining
  <1>4. SlotsHoldSessions' /\ JoinedSlotIsStable' /\ LaunchHasOneOwner'
    BY DEF TypeOK, SlotsHoldSessions, JoinedSlotIsStable, LaunchHasOneOwner
  <1> QED BY <1>2, <1>3, <1>4

LEMMA OutsidePreserves ==
    ASSUME IInv, Shutdown \/ BroadcastFails \/ \E l \in Launches : SessionStops(l)
    PROVE  IInv'
  <1> USE DEF IInv, TypeOK, Control, Locking, Starting, Joining, SlotsHoldSessions,
              JoinedSlotIsStable, LaunchHasOneOwner, LockFree,
              StatusAfterPop, CallClear
  <1>1. CASE Shutdown
    BY <1>1, SMTT(60) DEF Shutdown
  <1>2. CASE BroadcastFails
    BY <1>2, SMTT(60) DEF BroadcastFails
  <1>3. ASSUME NEW l \in Launches, SessionStops(l) PROVE IInv'
    BY <1>3, SMTT(60) DEF SessionStops
  <1> HIDE DEF IInv
  <1> QED BY <1>1, <1>2, <1>3

\* IInv is inductive.
LEMMA NextIInv == IInv /\ [Next]_vars => IInv'
  <1> SUFFICES ASSUME IInv, [Next]_vars PROVE IInv'
    OBVIOUS
  <1>1. CASE RtpStep \/ RtpAcceptError \/ AnnouncePeek
    BY <1>1, RtpPreserves
  <1>2. CASE Request \/ HttpsStep
    BY <1>2, HttpsPreserves
  <1>3. CASE Expire
    BY <1>3, ExpirePreserves
  <1>4. CASE Shutdown \/ BroadcastFails \/ \E l \in Launches : SessionStops(l)
    BY <1>4, OutsidePreserves
  <1>5. CASE UNCHANGED vars
    BY <1>5 DEF IInv, TypeOK, Control, Locking, Starting, Joining, SlotsHoldSessions,
                JoinedSlotIsStable, LaunchHasOneOwner, vars
  <1> QED BY <1>1, <1>2, <1>3, <1>4, <1>5 DEF Next
-----------------------------------------------------------------------------
\* The inductive invariant holds in every reachable state, for every number of
\* channels and every set of launches.
THEOREM Invariance == Spec => []IInv
  BY InitIInv, NextIInv, PTL DEF Spec

\* Every variable keeps its type: no thread's slot index leaves the slots by
\* more than one (clear, rtsp.cpp:321-333).
THEOREM TypeCorrect == Spec => []TypeOK
  <1>1. IInv => TypeOK
    BY DEF IInv
  <1> QED BY <1>1, Invariance, PTL

\* Every session that exists is in exactly one slot, whatever the two threads
\* interleave (accept, clear and clear(slot), rtsp.cpp:312-358).
THEOREM SessionsAreInSlots == Spec => []SlotsHoldSessions
  <1>1. IInv => SlotsHoldSessions
    BY DEF IInv
  <1> QED BY <1>1, Invariance, PTL

\* The session a thread joins stays in its slot until that thread resets it
\* (the lock of _session_slots, rtsp.cpp:321-331).
THEOREM JoinIsExclusive == Spec => []JoinedSlotIsStable
  <1>1. IInv => JoinedSlotIsStable
    BY DEF IInv
  <1> QED BY <1>1, Invariance, PTL

\* A launch that is pending or being answered has one owner (launch_event,
\* rtsp.cpp:293-310 and 549-564).
THEOREM LaunchesAreOwned == Spec => []LaunchHasOneOwner
  <1>1. IInv => LaunchHasOneOwner
    BY DEF IInv
  <1> QED BY <1>1, Invariance, PTL

-----------------------------------------------------------------------------
\* What a step of clear() does to the phases: a session is closed only where it
\* is joined, and a launch is discarded only while it is pending.
LEMMA ClearSettles ==
    ASSUME IInv, NEW t \in Threads, Clear(t)
    PROVE  SettledStep
  <1> USE DEF IInv, TypeOK, SettledStep
  <1>1. CASE ClearPop(t)
    BY <1>1 DEF ClearPop, LaunchHasOneOwner
  <1>2. CASE ScanStop(t)
    BY <1>2 DEF ScanStop, Reaps, SlotsHoldSessions
  <1>3. CASE JoinAndReset(t)
    BY <1>3 DEF JoinAndReset, Joinable, Joining, JoinedSlotIsStable
  <1>4. CASE UNCHANGED phase
    BY <1>4
  <1> QED BY <1>1, <1>2, <1>3, <1>4 DEF Clear, ClearCheck, ClearLock, ScanSkip,
             EndBroadcast, ClearReturn, LoadCount, StoreCount

\* The same for rtpThread and for the HTTPS thread.
LEMMA RtpSettles ==
    ASSUME IInv, RtpStep \/ RtpAcceptError \/ AnnouncePeek
    PROVE  SettledStep
  <1> USE DEF IInv, TypeOK, SettledStep
  <1>1. CASE AnnouncePop
    BY <1>1 DEF AnnouncePop, LaunchHasOneOwner
  <1>2. CASE AnnounceRefuse
    BY <1>2 DEF AnnounceRefuse, LaunchHasOneOwner, Starting
  <1>3. CASE AnnounceAccept
    BY <1>3 DEF AnnounceAccept, LaunchHasOneOwner, Starting
  <1>4. CASE AnnounceStart
    BY <1>4 DEF AnnounceStart, Starting
  <1>5. CASE UndoAccept
    BY <1>5 DEF UndoAccept, Starting
  <1>6. CASE Clear("rtp")
    BY <1>6, ClearSettles
  <1>7. CASE UNCHANGED phase
    BY <1>7
  <1> QED BY <1>1, <1>2, <1>3, <1>4, <1>5, <1>6, <1>7
          DEF RtpStep, RtpIterate, RtpEnd, RtpReap, RtpAcceptError, AnnouncePeek,
              AnnounceStartFails, CallClear

LEMMA HttpsSettles ==
    ASSUME IInv, Request \/ HttpsStep
    PROVE  SettledStep
  <1> USE DEF IInv, TypeOK, SettledStep
  <1>1. ASSUME NEW l \in Launches, Raise(l) PROVE SettledStep
    BY <1>1 DEF Raise, LaunchHasOneOwner
  <1>2. CASE Clear("https")
    BY <1>2, ClearSettles
  <1>3. CASE UNCHANGED phase
    BY <1>3
  <1> QED BY <1>1, <1>2, <1>3
          DEF HttpsStep, Request, CountAndAnswer, CountAndLaunch, RaiseCheck, CallClear

\* A launch that is settled stays as it is, and a session is closed only after
\* its threads have ended (join in clear, rtsp.cpp:323-332), in every step of
\* every behaviour.
THEOREM SettledLaunches == Spec => SettledStaysSettled
  <1>1. ASSUME IInv, [Next]_vars PROVE [SettledStep]_vars
    <2>1. CASE RtpStep \/ RtpAcceptError \/ AnnouncePeek
      BY <1>1, <2>1, RtpSettles
    <2>2. CASE Request \/ HttpsStep
      BY <1>1, <2>2, HttpsSettles
    <2>3. CASE Expire \/ Shutdown \/ BroadcastFails
      BY <1>1, <2>3 DEF Expire, Shutdown, BroadcastFails, SettledStep
    <2>4. ASSUME NEW l \in Launches, SessionStops(l) PROVE SettledStep
      BY <1>1, <2>4 DEF SessionStops, SettledStep, IInv, TypeOK
    <2> QED BY <1>1, <2>1, <2>2, <2>3, <2>4 DEF Next
  <1> QED BY <1>1, Invariance, PTL DEF Spec, SettledStaysSettled
-----------------------------------------------------------------------------
(* RtspServer implements SessionLifecycle.                                 *)

\* When one launch changes its phase, its session moves and the others stay.
LEMMA OneMoves ==
    ASSUME IInv, NEW l \in Launches, phase' = [phase EXCEPT ![l] = phase'[l]],
           NEW CONSTANT from, NEW CONSTANT to, StageOf(l) \in from, StageOf(l)' = to
    PROVE  Lifecycle!Move(l, from, to)
  <1>1. \A m \in Launches \ {l} : StageOf(m)' = StageOf(m)
    BY DEF StageOf, IInv, TypeOK
  <1> QED BY <1>1, Zenon DEF Lifecycle!Move, stage

\* A session that stops is one that runs, or it has stopped before.
LEMMA OneHalts ==
    ASSUME IInv, NEW l \in Launches, phase' = [phase EXCEPT ![l] = phase'[l]],
           phase[l] = "RUNNING", phase'[l] = "STOPPING"
    PROVE  Lifecycle!Halt
  <1>1. StageOf(l) \in {"running"} /\ StageOf(l)' = "stopping"
    BY DEF StageOf, StageByPhase
  <1>2. Lifecycle!Move(l, {"running"}, "stopping")
    BY <1>1, OneMoves
  <1>3. {l} \in SUBSET {m \in Launches : stage[m] = "running"}
    BY <1>1 DEF stage
  <1>4. stage' = [m \in Launches |-> IF m \in {l} THEN "stopping" ELSE stage[m]]
    BY <1>2, Zenon DEF Lifecycle!Move, stage
  <1> QED BY <1>3, <1>4 DEF Lifecycle!Halt

\* No session comes or goes with a step that leaves the phase of each as it is,
\* or moves launches that have no session yet or never had one.
LEMMA NoneMoves ==
    ASSUME IInv, \A l \in Launches :
                    phase'[l] = phase[l] \/ {phase[l], phase'[l]} \cap DOMAIN StageByPhase = {}
    PROVE  stage' = stage
  <1>1. \A l \in Launches : StageOf(l)' = StageOf(l)
    BY DEF StageOf
  <1> QED BY <1>1, Zenon DEF stage

\* A step of clear() closes or stops the session it looks at.
LEMMA ClearRefines ==
    ASSUME IInv, NEW t \in Threads, Clear(t)
    PROVE  [Lifecycle!Next]_stage
  <1>1. CASE ClearPop(t)
    BY <1>1, NoneMoves DEF ClearPop, IInv, TypeOK, LaunchHasOneOwner, StageByPhase
  <1>2. CASE ScanStop(t)
    <2>1. PICK l \in Launches : l = slots[pos[t]]
      BY <1>2 DEF ScanStop, Reaps, IInv, TypeOK
    <2>2. phase[l] \in {"RUNNING", "STOPPING", "ended"}
      <3>1. phase[l] \in InSlot
        BY <1>2, <2>1 DEF ScanStop, IInv, SlotsHoldSessions
      <3>2. phase[l] # "STOPPED"
        <4>1. CASE call[t].all
          BY <1>2, <4>1 DEF ScanStop, IInv, Starting, Control
        <4>2. CASE ~call[t].all
          BY <1>2, <2>1, <4>2 DEF ScanStop, Reaps
        <4> QED BY <4>1, <4>2
      <3> QED BY <3>1, <3>2
    <2>3. CASE phase[l] = "RUNNING"
      <3>1. phase' = [phase EXCEPT ![l] = phase'[l]] /\ phase'[l] = "STOPPING"
        BY <1>2, <2>1, <2>3 DEF ScanStop, IInv, TypeOK
      <3> QED BY <2>3, <3>1, OneHalts DEF Lifecycle!Next
    <2>4. CASE phase[l] # "RUNNING"
      <3>1. phase' = phase
        BY <1>2, <2>1, <2>2, <2>4 DEF ScanStop
      <3> QED BY <3>1, NoneMoves
    <2> QED BY <2>3, <2>4
  <1>3. CASE JoinAndReset(t)
    <2>1. PICK l \in Launches : l = slots[pos[t]]
      BY <1>3 DEF JoinAndReset, IInv, TypeOK, Joining, JoinedSlotIsStable
    <2>2. phase[l] = "ended" /\ phase' = [phase EXCEPT ![l] = "closed"]
      BY <1>3, <2>1 DEF JoinAndReset, Joinable
    <2>3. StageOf(l) \in {"stopping"} /\ StageOf(l)' = "closed"
      BY <2>2 DEF StageOf, StageByPhase, IInv, TypeOK
    <2>4. Lifecycle!Close(l)
      <3>1. phase' = [phase EXCEPT ![l] = phase'[l]]
        BY <2>2 DEF IInv, TypeOK
      <3> QED BY <2>3, <3>1, OneMoves DEF Lifecycle!Close
    <2> QED BY <2>4 DEF Lifecycle!Next
  <1>4. CASE UNCHANGED phase
    BY <1>4, NoneMoves
  <1> QED BY <1>1, <1>2, <1>3, <1>4 DEF Clear, ClearCheck, ClearLock, ScanSkip,
             EndBroadcast, ClearReturn, LoadCount, StoreCount

\* rtpThread accepts, starts and gives up the session in the slot it looks at.
LEMMA RtpRefines ==
    ASSUME IInv, RtpStep \/ RtpAcceptError \/ AnnouncePeek
    PROVE  [Lifecycle!Next]_stage
  <1>1. CASE AnnouncePop \/ AnnounceRefuse
    BY <1>1, NoneMoves DEF AnnouncePop, AnnounceRefuse, IInv, TypeOK, Starting,
                           LaunchHasOneOwner, StageByPhase
  <1>2. CASE AnnounceAccept
    <2>1. PICK l \in Launches : l = held
      BY <1>2 DEF AnnounceAccept, IInv, TypeOK, Starting
    <2>2. phase[l] = "held" /\ phase' = [phase EXCEPT ![l] = "STOPPED"]
      BY <1>2, <2>1 DEF AnnounceAccept, IInv, LaunchHasOneOwner
    <2>3. StageOf(l) \in {"none"} /\ StageOf(l)' = "accepted"
      BY <2>2 DEF StageOf, StageByPhase, IInv, TypeOK
    <2>4. phase' = [phase EXCEPT ![l] = phase'[l]]
      BY <2>2 DEF IInv, TypeOK
    <2> QED BY <2>3, <2>4, OneMoves DEF Lifecycle!Accept, Lifecycle!Next
  <1>3. CASE AnnounceStart \/ UndoAccept
    <2>1. PICK l \in Launches : l = slots[pos["rtp"]]
      BY <1>3 DEF AnnounceStart, UndoAccept, IInv, TypeOK, Starting
    <2>2. phase[l] = "STOPPED"
      BY <1>3, <2>1 DEF AnnounceStart, UndoAccept, IInv, Starting
    <2>3. phase' = [phase EXCEPT ![l] = phase'[l]] /\ phase'[l] \in {"RUNNING", "failed"}
      BY <1>3, <2>1 DEF AnnounceStart, UndoAccept, IInv, TypeOK
    <2>4. StageOf(l) = "accepted" /\ StageOf(l)' \in {"running", "failed"}
      BY <2>2, <2>3 DEF StageOf, StageByPhase
    <2>5. Lifecycle!Run(l) \/ Lifecycle!Fail(l)
      <3>1. CASE StageOf(l)' = "running"
        BY <2>3, <2>4, <3>1, OneMoves DEF Lifecycle!Run
      <3>2. CASE StageOf(l)' = "failed"
        BY <2>3, <2>4, <3>2, OneMoves DEF Lifecycle!Fail
      <3> QED BY <2>4, <3>1, <3>2
    <2> QED BY <2>5 DEF Lifecycle!Next
  <1>4. CASE Clear("rtp")
    BY <1>4, ClearRefines
  <1>5. CASE UNCHANGED phase
    BY <1>5, NoneMoves
  <1> QED BY <1>1, <1>2, <1>3, <1>4, <1>5
          DEF RtpStep, RtpIterate, RtpEnd, RtpReap, RtpAcceptError, AnnouncePeek,
              AnnounceStartFails, CallClear

\* The HTTPS thread makes no session.
LEMMA HttpsRefines ==
    ASSUME IInv, Request \/ HttpsStep
    PROVE  [Lifecycle!Next]_stage
  <1>1. ASSUME NEW l \in Launches, Raise(l) PROVE stage' = stage
    BY <1>1, NoneMoves DEF Raise, IInv, TypeOK, LaunchHasOneOwner, StageByPhase
  <1>2. CASE Clear("https")
    BY <1>2, ClearRefines
  <1>3. CASE UNCHANGED phase
    BY <1>3, NoneMoves
  <1> QED BY <1>1, <1>2, <1>3
          DEF HttpsStep, Request, CountAndAnswer, CountAndLaunch, RaiseCheck, CallClear

\* Every step of the program is a step of the lifecycle or leaves it unchanged.
LEMMA StepRefines == IInv /\ [Next]_vars => [Lifecycle!Next]_stage
  <1> SUFFICES ASSUME IInv, [Next]_vars PROVE [Lifecycle!Next]_stage
    OBVIOUS
  <1>1. CASE RtpStep \/ RtpAcceptError \/ AnnouncePeek
    BY <1>1, RtpRefines
  <1>2. CASE Request \/ HttpsStep
    BY <1>2, HttpsRefines
  <1>3. ASSUME NEW l \in Launches, SessionStops(l) PROVE [Lifecycle!Next]_stage
    <2>1. CASE phase[l] = "RUNNING"
      <3>1. phase' = [phase EXCEPT ![l] = phase'[l]] /\ phase'[l] = "STOPPING"
        BY <1>3, <2>1 DEF SessionStops, IInv, TypeOK
      <3> QED BY <2>1, <3>1, OneHalts DEF Lifecycle!Next
    <2>2. CASE phase[l] = "STOPPING"
      <3>1. \A m \in Launches : StageOf(m)' = StageOf(m)
        BY <1>3, <2>2 DEF SessionStops, StageOf, StageByPhase, IInv, TypeOK
      <3> QED BY <3>1, Zenon DEF stage
    <2> QED BY <1>3, <2>1, <2>2 DEF SessionStops
  <1>4. CASE Expire \/ Shutdown \/ BroadcastFails \/ UNCHANGED vars
    BY <1>4, NoneMoves DEF Expire, Shutdown, BroadcastFails, vars
  <1> QED BY <1>1, <1>2, <1>3, <1>4 DEF Next

\* RtspServer implements SessionLifecycle, for any number of channels and launches:
\* whichever thread accepts, stops and reaps a session, it goes through the stages
\* in order.
THEOREM ImplementsSessionLifecycle == Spec => ImplementsLifecycle
  <1>1. Init => Lifecycle!Init
    BY Zenon DEF Init, Lifecycle!Init, stage, StageOf, StageByPhase
  <1> QED BY <1>1, StepRefines, Invariance, PTL DEF Spec, ImplementsLifecycle, Lifecycle!Spec
-----------------------------------------------------------------------------
(* The books of rtsp_server_t.  What a thread owes changes with its label  *)
(* only; which launches are in the books, with their phases; and the count *)
(* is stored as what was loaded before, which drift remembers.             *)

\* The count is never below zero, whichever thread stores what it has loaded: only the
\* HTTPS thread takes a slot, and it has seen that there is one.
Counting ==
    /\ slotCount >= 0
    /\ \A t \in Threads : pc[t] \in {"clear_store", "slot_store", "undo_store"} => reg[t] >= 0
    /\ pc["https"] \in {"raise_check", "raise_dec"} => slotCount >= 1
    /\ pc["https"] = "raise_store" => reg["https"] >= 1

DebtLabels == {"clear_inc", "clear_store", "slot_inc", "slot_store", "undo_inc", "undo_store",
               "end_broadcast", "raise"}
Owes(label) == IF label \in DebtLabels THEN 1 ELSE 0
Debt == InDebt("rtp") + InDebt("https")

\* The launches that a slot has been taken for and not given back.
ChargedPhases == {"pending", "held", "overwritten", "refused"} \cup InSlot
InBooks == {l \in Launches : phase[l] \in ChargedPhases}

Books == slotCount + Cardinality(InBooks) + Debt = Channels + drift

\* The launches in the books can be counted.
LEMMA BooksFinite == IsFiniteSet(InBooks) /\ Cardinality(InBooks) \in Nat
<1>1. IsFiniteSet(InBooks)
  BY FS_Subset DEF InBooks
<1> QED BY <1>1, FS_CardinalityType

\* A thread that goes on owes what it owes at its new label.
LEMMA DebtMoves ==
    ASSUME IInv, NEW t \in Threads, NEW from, NEW to, Step(t, from, to)
    PROVE  Debt \in Int /\ Debt' = Debt - Owes(from) + Owes(to)
<1>1. pc \in [Threads -> Labels]
  BY DEF IInv, TypeOK
<1>2. \A u \in Threads : InDebt(u) = Owes(pc[u]) /\ InDebt(u)' = Owes(pc'[u])
  BY DEF InDebt, Owes, DebtLabels
<1>3. \A p : Owes(p) \in Int
  BY DEF Owes
<1>4. CASE t = "rtp"
  BY <1>1, <1>2, <1>3, <1>4 DEF Debt
<1>5. CASE t = "https"
  BY <1>1, <1>2, <1>3, <1>5 DEF Debt
<1> QED BY <1>4, <1>5

\* What the threads owe depends on where they are only.
LEMMA DebtStays ==
    ASSUME IInv, UNCHANGED pc
    PROVE  Debt' = Debt
BY DEF Debt, InDebt

\* A launch that leaves the books is one less.
LEMMA BooksLose ==
    ASSUME NEW l \in InBooks, InBooks' = InBooks \ {l}
    PROVE  Cardinality(InBooks') = Cardinality(InBooks) - 1
BY BooksFinite, FS_RemoveElement

\* A launch that enters the books is one more.
LEMMA BooksGain ==
    ASSUME NEW l \in Launches, l \notin InBooks, InBooks' = InBooks \cup {l}
    PROVE  Cardinality(InBooks') = Cardinality(InBooks) + 1
BY BooksFinite, FS_AddElement

\* A step that neither takes a slot nor gives one back.
LEMMA BooksStay ==
    ASSUME Books, slotCount' = slotCount, drift' = drift, InBooks' = InBooks, Debt' = Debt
    PROVE  Books'
BY DEF Books

\* A step that leaves the counter alone, and does not come to where it is stored or taken.
LEMMA CountingStays ==
    ASSUME IInv, Counting, NEW t \in Threads, NEW from, NEW to, Step(t, from, to),
           UNCHANGED <<slotCount, reg>>,
           to \notin {"clear_store", "slot_store", "undo_store", "raise_store"},
           to \in {"raise_check", "raise_dec"} => from \in {"raise_check"} \/ slotCount # 0
    PROVE  Counting'
<1>0. slotCount \in Int /\ reg \in [Threads -> Int] /\ pc \in [Threads -> Labels]
  BY DEF IInv, TypeOK
<1>1. from = "raise_check" => t = "https"
  BY DEF IInv, Control
<1>2. to \in {"raise_check", "raise_dec"} => slotCount >= 1
  BY <1>0, <1>1 DEF Counting
<1> QED BY <1>0, <1>2 DEF Counting

HIDE DEF Step

\* Who loads the count owes as much as before, and who stores it has paid.
LEMMA CountBooks ==
    ASSUME IInv, Books, Counting, NEW t \in Threads, LoadCount(t) \/ StoreCount(t)
    PROVE  Books' /\ Counting'
<1>1. InBooks' = InBooks
  BY DEF LoadCount, StoreCount, InBooks
<1>0. slotCount \in Int /\ drift \in Int /\ reg \in [Threads -> Int] /\ pc \in [Threads -> Labels]
  BY DEF IInv, TypeOK
<1>2. CASE LoadCount(t)
  <2>1. pc[t] \in {"clear_inc", "slot_inc", "undo_inc", "raise_dec"}
    BY <1>2 DEF LoadCount, LoadedAt
  <2>2. Owes(pc[t]) = Owes(LoadedAt[pc[t]])
    BY <2>1 DEF LoadedAt, Owes, DebtLabels
  <2>3. Debt' = Debt
    <3>1. Step(t, pc[t], LoadedAt[pc[t]])
      BY <1>2 DEF LoadCount
    <3>2. Owes(pc[t]) \in Int
      BY DEF Owes
    <3> QED BY <2>2, <3>1, <3>2, DebtMoves
  <2>4. Books'
    BY <1>1, <1>2, <2>3, BooksStay DEF LoadCount
  <2>5. Counting'
    BY <1>0, <1>2, <2>1 DEF Step, LoadCount, LoadedAt, Counting
  <2> QED BY <2>4, <2>5
<1>3. CASE StoreCount(t)
  <2>1. pc[t] \in {"clear_store", "slot_store", "undo_store", "raise_store"}
    BY <1>3 DEF StoreCount, StoredAt
  <2>2. Owes(StoredAt[pc[t]]) = Owes(pc[t]) - GivenBack[pc[t]] /\ GivenBack[pc[t]] \in Int
    BY <2>1 DEF StoredAt, Owes, DebtLabels, GivenBack
  <2>3. Debt \in Int /\ Debt' = Debt - GivenBack[pc[t]]
    <3>1. Step(t, pc[t], StoredAt[pc[t]])
      BY <1>3 DEF StoreCount
    <3>2. Owes(pc[t]) \in Int
      BY DEF Owes
    <3> QED BY <2>2, <3>1, <3>2, DebtMoves
  <2>4. Books'
    <3>1. slotCount' = reg[t] + GivenBack[pc[t]] /\ drift' = drift + (reg[t] - slotCount)
      BY <1>3 DEF StoreCount
    <3> QED BY <1>0, <1>1, <2>2, <2>3, <3>1, BooksFinite DEF Books
  <2>5. Counting'
    <3>1. t = "rtp" => pc[t] # "raise_store"
      BY DEF IInv, Control
    <3>2. /\ slotCount' = reg[t] + GivenBack[pc[t]] /\ reg' = reg
          /\ pc' = [pc EXCEPT ![t] = StoredAt[pc[t]]]
      BY <1>3 DEF Step, StoreCount
    <3>3. CASE pc[t] = "raise_store"
      <4>1. t = "https" /\ slotCount' = reg[t] - 1 /\ pc'[t] = "raise" /\ reg[t] >= 1
        BY <1>0, <3>1, <3>2, <3>3 DEF StoredAt, GivenBack, Counting
      <4> QED BY <1>0, <3>2, <4>1 DEF Counting
    <3>4. CASE pc[t] # "raise_store"
      <4>1. /\ slotCount' = reg[t] + 1 /\ reg[t] >= 0
            /\ pc'[t] \in {"clear_lock", "scan", "peek_shutdown"}
        BY <1>0, <2>1, <3>2, <3>4 DEF StoredAt, GivenBack, Counting
      <4> QED BY <1>0, <3>2, <4>1 DEF Counting
    <3> QED BY <3>3, <3>4
  <2> QED BY <2>4, <2>5
<1> QED BY <1>2, <1>3

\* The steps of clear(): a launch that is discarded, or a session that is closed, leaves the
\* books when the thread begins to owe its slot.
LEMMA ClearBooks ==
    ASSUME IInv, Books, Counting, NEW t \in Threads, Clear(t)
    PROVE  Books' /\ Counting'
<1>0. slotCount \in Int /\ drift \in Int /\ phase \in [Launches -> Phases] /\ Debt \in Int
  BY DEF IInv, TypeOK, Debt, InDebt
<1>1. CASE ClearPop(t)
  <2>1. CASE pending = Nil
    <3>1. InBooks' = InBooks
      BY <1>1, <2>1 DEF ClearPop, InBooks
    <3>2. Step(t, "clear_pop", "clear_lock") /\ UNCHANGED counter
      BY <1>1, <2>1 DEF ClearPop
    <3>3. Debt' = Debt
      BY <1>0, <3>2, DebtMoves DEF Owes, DebtLabels
    <3> QED BY <3>1, <3>2, <3>3, BooksStay, CountingStays
  <2>2. CASE pending # Nil
    <3>1. pending \in Launches /\ phase[pending] = "pending"
      BY <2>2 DEF IInv, TypeOK, LaunchHasOneOwner
    <3>2. pending \in InBooks /\ InBooks' = InBooks \ {pending}
      BY <1>1, <3>1 DEF ClearPop, InBooks, ChargedPhases
    <3>3. Step(t, "clear_pop", "clear_inc") /\ UNCHANGED counter
      BY <1>1, <2>2 DEF ClearPop
    <3>4. Debt' = Debt + 1
      BY <1>0, <3>3, DebtMoves DEF Owes, DebtLabels
    <3>5. Cardinality(InBooks') = Cardinality(InBooks) - 1
      BY <3>2, BooksLose
    <3>6. Books'
      BY <1>0, <3>3, <3>4, <3>5, BooksFinite DEF Books
    <3>7. Counting'
      BY <3>3, CountingStays
    <3> QED BY <3>6, <3>7
  <2> QED BY <2>1, <2>2
<1>2. CASE ScanStop(t)
  <2>1. slots[pos[t]] \in Launches /\ phase[slots[pos[t]]] \in InSlot
    BY <1>2 DEF ScanStop, Reaps, IInv, TypeOK, SlotsHoldSessions
  <2>2. InBooks' = InBooks
    BY <1>0, <1>2, <2>1 DEF ScanStop, InBooks, ChargedPhases
  <2>3. Step(t, "scan", "join") /\ UNCHANGED counter
    BY <1>2 DEF ScanStop
  <2>4. Debt' = Debt
    BY <1>0, <2>3, DebtMoves DEF Owes, DebtLabels
  <2> QED BY <2>2, <2>3, <2>4, BooksStay, CountingStays
<1>3. CASE JoinAndReset(t)
  <2> DEFINE l == slots[pos[t]]
  <2>1. l \in Launches /\ phase[l] = "ended"
    BY <1>3 DEF Step, JoinAndReset, Joinable, IInv, TypeOK, Joining, JoinedSlotIsStable
  <2>2. phase' = [phase EXCEPT ![l] = "closed"] /\ UNCHANGED counter
    BY <1>3 DEF JoinAndReset
  <2> HIDE DEF l
  <2>3. l \in InBooks /\ InBooks' = InBooks \ {l}
    BY <1>0, <2>1, <2>2 DEF InBooks, ChargedPhases
  <2>4. PICK to \in {"end_broadcast", "slot_inc"} : Step(t, "join", to)
    BY <1>3 DEF JoinAndReset
  <2>5. Debt' = Debt + 1
    BY <1>0, <2>4, DebtMoves DEF Owes, DebtLabels
  <2>6. Cardinality(InBooks') = Cardinality(InBooks) - 1
    BY <2>3, BooksLose
  <2>7. Books'
    BY <1>0, <2>2, <2>5, <2>6, BooksFinite DEF Books
  <2>8. Counting'
    BY <2>2, <2>4, CountingStays
  <2> QED BY <2>7, <2>8
<1>4. CASE ClearCheck(t) \/ ClearLock(t) \/ ScanSkip(t) \/ EndBroadcast(t) \/ ClearReturn(t)
  <2>1. InBooks' = InBooks /\ UNCHANGED counter
    BY <1>4 DEF ClearCheck, ClearLock, ScanSkip, EndBroadcast, ClearReturn, InBooks
  <2>2. PICK from, to : Step(t, from, to) /\ (from \in DebtLabels <=> to \in DebtLabels)
                        /\ to \notin {"clear_store", "slot_store", "undo_store", "raise_store",
                                      "raise_check", "raise_dec"}
    <3>1. CASE ClearCheck(t)
      BY <3>1 DEF ClearCheck, DebtLabels
    <3>2. CASE ClearLock(t)
      BY <3>2 DEF ClearLock, DebtLabels
    <3>3. CASE ScanSkip(t)
      BY <3>3 DEF ScanSkip, DebtLabels
    <3>4. CASE EndBroadcast(t)
      BY <3>4 DEF EndBroadcast, DebtLabels
    <3>5. CASE ClearReturn(t)
      <4>1. Step(t, "scan", call[t].ret)
        BY <3>5 DEF ClearReturn
      <4>2. call[t].ret \in {"loop", "peek_shutdown", "done", "count"}
        BY <4>1 DEF Step, IInv, Control
      <4> QED BY <4>1, <4>2 DEF DebtLabels
    <3> QED BY <1>4, <3>1, <3>2, <3>3, <3>4, <3>5
  <2>3. Debt' = Debt
    BY <1>0, <2>2, DebtMoves DEF Owes
  <2> QED BY <2>1, <2>2, <2>3, BooksStay, CountingStays
<1>5. CASE LoadCount(t) \/ StoreCount(t)
  BY <1>5, CountBooks
<1> QED BY <1>1, <1>2, <1>3, <1>4, <1>5 DEF Clear

\* The steps of rtpThread: a session that cannot be started leaves the books when rtpThread
\* begins to owe its slot; one that is refused never does.
LEMMA RtpBooks ==
    ASSUME IInv, Books, Counting, RtpStep \/ RtpAcceptError \/ AnnouncePeek
    PROVE  Books' /\ Counting'
<1>0. slotCount \in Int /\ drift \in Int /\ phase \in [Launches -> Phases] /\ Debt \in Int
  BY DEF IInv, TypeOK, Debt, InDebt
<1>1. CASE UndoAccept
  <2> DEFINE l == slots[pos["rtp"]]
  <2>1. l \in Launches /\ phase[l] = "STOPPED"
    BY <1>1 DEF Step, UndoAccept, IInv, TypeOK, Starting
  <2>2. phase' = [phase EXCEPT ![l] = "failed"] /\ UNCHANGED counter
    BY <1>1 DEF UndoAccept
  <2> HIDE DEF l
  <2>3. l \in InBooks /\ InBooks' = InBooks \ {l}
    BY <1>0, <2>1, <2>2 DEF InBooks, ChargedPhases
  <2>4. Step("rtp", "undo_lock", "undo_inc")
    BY <1>1 DEF UndoAccept
  <2>5. Debt' = Debt + 1
    BY <1>0, <2>4, DebtMoves DEF Owes, DebtLabels
  <2>6. Cardinality(InBooks') = Cardinality(InBooks) - 1
    BY <2>3, BooksLose
  <2>7. Books'
    BY <1>0, <2>2, <2>5, <2>6, BooksFinite DEF Books
  <2>8. Counting'
    BY <2>2, <2>4, CountingStays
  <2> QED BY <2>7, <2>8
<1>2. CASE Clear("rtp")
  BY <1>2, ClearBooks
<1>3. CASE \/ RtpIterate \/ RtpEnd \/ RtpReap \/ AnnouncePop \/ AnnounceRefuse \/ AnnounceAccept
           \/ AnnounceStart \/ AnnounceStartFails \/ RtpAcceptError \/ AnnouncePeek
  <2>1. InBooks' = InBooks
    <3>1. CASE AnnouncePop
      BY <1>0, <3>1 DEF Step, AnnouncePop, InBooks, ChargedPhases, IInv, TypeOK, LaunchHasOneOwner
    <3>2. CASE AnnounceRefuse \/ AnnounceAccept
      BY <1>0, <3>2 DEF Step, AnnounceRefuse, AnnounceAccept, InBooks, ChargedPhases, IInv, TypeOK,
        Starting, LaunchHasOneOwner
    <3>3. CASE AnnounceStart
      BY <1>0, <3>3 DEF Step, AnnounceStart, InBooks, ChargedPhases, IInv, TypeOK, Starting
    <3>4. CASE UNCHANGED phase
      BY <3>4 DEF InBooks
    <3> QED BY <1>3, <3>1, <3>2, <3>3, <3>4 DEF RtpIterate, RtpEnd, RtpReap, AnnounceStartFails,
              RtpAcceptError, AnnouncePeek, CallClear
  <2>2. UNCHANGED counter
    BY <1>3 DEF RtpIterate, RtpEnd, RtpReap, AnnouncePop, AnnounceRefuse, AnnounceAccept,
      AnnounceStart, AnnounceStartFails, RtpAcceptError, AnnouncePeek, CallClear
  <2>3. PICK from \in RtpLabels, to \in RtpLabels \cup {"clear_check"} :
          /\ Step("rtp", from, to) /\ from \notin DebtLabels /\ to \notin DebtLabels
    BY <1>3 DEF RtpIterate, RtpEnd, RtpReap, AnnouncePop, AnnounceRefuse, AnnounceAccept,
      AnnounceStart, AnnounceStartFails, RtpAcceptError, AnnouncePeek, CallClear, DebtLabels
  <2>4. Debt' = Debt
    BY <1>0, <2>3, DebtMoves DEF Owes
  <2>5. to \notin {"clear_store", "slot_store", "undo_store", "raise_store", "raise_check", "raise_dec"}
    BY <2>3 DEF DebtLabels
  <2> QED BY <2>1, <2>2, <2>3, <2>4, <2>5, BooksStay, CountingStays
<1> QED BY <1>1, <1>2, <1>3 DEF RtpStep

\* The steps of the HTTPS thread: a launch enters the books that its slot has been taken for.
LEMMA HttpsBooks ==
    ASSUME IInv, Books, Counting, Request \/ HttpsStep
    PROVE  Books' /\ Counting'
<1>0. slotCount \in Int /\ drift \in Int /\ phase \in [Launches -> Phases] /\ Debt \in Int
  BY DEF IInv, TypeOK, Debt, InDebt
<1>1. ASSUME NEW l \in Launches, Raise(l) PROVE Books' /\ Counting'
  <2>1. l \notin InBooks /\ InBooks' = InBooks \cup {l}
    BY <1>0, <1>1 DEF Raise, InBooks, ChargedPhases, IInv, TypeOK, LaunchHasOneOwner
  <2>2. Step("https", "raise", "idle") /\ UNCHANGED counter
    BY <1>1 DEF Raise
  <2>3. Debt' = Debt - 1
    BY <1>0, <2>2, DebtMoves DEF Owes, DebtLabels
  <2>4. Cardinality(InBooks') = Cardinality(InBooks) + 1
    BY <2>1, BooksGain
  <2>5. Books'
    BY <1>0, <2>2, <2>3, <2>4, BooksFinite DEF Books
  <2>6. Counting'
    BY <2>2, CountingStays
  <2> QED BY <2>5, <2>6
<1>2. CASE Clear("https")
  BY <1>2, ClearBooks
<1>3. CASE Request \/ CountAndAnswer \/ CountAndLaunch \/ RaiseCheck
  <2>1. InBooks' = InBooks /\ UNCHANGED counter
    BY <1>3 DEF Request, CountAndAnswer, CountAndLaunch, RaiseCheck, CallClear, InBooks
  <2>2. PICK from, to : /\ Step("https", from, to) /\ from \notin DebtLabels /\ to \notin DebtLabels
                        /\ to # "raise_store"
                        /\ to \in {"raise_check", "raise_dec"} => from \in {"raise_check"} \/ slotCount # 0
    <3>1. CASE Request \/ CountAndAnswer
      BY <3>1 DEF Request, CountAndAnswer, CallClear, DebtLabels
    <3>2. CASE CountAndLaunch
      BY <3>2 DEF CountAndLaunch, Full, DebtLabels
    <3>3. CASE RaiseCheck
      BY <3>3 DEF RaiseCheck, DebtLabels
    <3> QED BY <1>3, <3>1, <3>2, <3>3
  <2>3. Debt' = Debt
    BY <1>0, <2>2, DebtMoves DEF Owes
  <2>4. to \notin {"clear_store", "slot_store", "undo_store", "raise_store"}
    BY <2>2 DEF DebtLabels
  <2> QED BY <2>1, <2>2, <2>3, <2>4, BooksStay, CountingStays
<1> QED BY <1>1, <1>2, <1>3 DEF HttpsStep

\* Every step keeps the books.
LEMMA NextBooks == IInv /\ Books /\ Counting /\ [Next]_vars => Books' /\ Counting'
<1> SUFFICES ASSUME IInv, Books, Counting, [Next]_vars PROVE Books' /\ Counting'
  OBVIOUS
<1>1. CASE RtpStep \/ RtpAcceptError \/ AnnouncePeek
  BY <1>1, RtpBooks
<1>2. CASE Request \/ HttpsStep
  BY <1>2, HttpsBooks
<1>3. CASE Expire \/ Shutdown \/ BroadcastFails \/ UNCHANGED vars
             \/ \E l \in Launches : SessionStops(l)
  <2>1. UNCHANGED <<slotCount, reg, drift, pc>>
    BY <1>3 DEF Expire, Shutdown, BroadcastFails, SessionStops, vars
  <2>2. InBooks' = InBooks
    BY <1>3 DEF Expire, Shutdown, BroadcastFails, SessionStops, vars, InBooks, ChargedPhases, IInv,
      TypeOK
  <2>3. Counting'
    BY <2>1 DEF Counting
  <2> QED BY <2>1, <2>2, <2>3, DebtStays, BooksStay
<1> QED BY <1>1, <1>2, <1>3 DEF Next

\* The slots that are not free are those of launches and sessions that are not settled, of
\* refused and overwritten launches, and of the updates that were lost, and the count is
\* never below zero (_slot_count, rtsp.cpp:286-361).
THEOREM SlotsAreAccounted == Spec => []SlotBooks
<1>1. Init => Books /\ Counting
  <2> SUFFICES ASSUME Init PROVE Books /\ Counting
    OBVIOUS
  <2>1. InBooks = {}
    BY DEF Init, InBooks, ChargedPhases
  <2>2. Cardinality(InBooks) = 0
    BY <2>1, FS_EmptySet
  <2>3. Debt = 0
    BY DEF Init, Debt, InDebt
  <2> QED BY <2>2, <2>3 DEF Init, Books, Counting
<1>2. IInv /\ Books /\ Counting => SlotBooks
  <2> SUFFICES ASSUME IInv, Books, Counting PROVE SlotBooks
    OBVIOUS
  <2>1. Charged = Cardinality(InBooks) + InDebt("rtp") + InDebt("https")
    BY DEF Charged, InBooks, ChargedPhases
  <2>2. slotCount \in Int /\ drift \in Int /\ InDebt("rtp") \in Int /\ InDebt("https") \in Int
    BY DEF IInv, TypeOK, InDebt
  <2> QED BY <2>1, <2>2, BooksFinite DEF Books, Debt, Counting, SlotBooks
<1> QED BY <1>1, <1>2, NextBooks, Invariance, PTL DEF Spec
=============================================================================
