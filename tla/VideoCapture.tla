---------------------------- MODULE VideoCapture ----------------------------
(***************************************************************************)
(* Capturing and encoding in parallel: captureThread(), capture_async()    *)
(* and encode_run() of src/sunshine/video.cpp.  One capture thread, which  *)
(* exists while sessions have a reference to it, gives every image of the  *)
(* display to all sessions; each session encodes in a thread of its own.   *)
(* A session puts its context into a queue, the capture thread takes it    *)
(* from there; a stopped queue ends the capture thread, stopped images end *)
(* a session.  When the display changes, the capture thread waits until    *)
(* nobody else has the old one; but a session looks at reinit_event, finds *)
(* a display and takes it in three steps.                                  *)
(***************************************************************************)
EXTENDS Naturals, FiniteSets

CONSTANTS
    Sessions,       \* calls of capture_async()
    Count,          \* the length of imgs (12), at least 2
    MaxReinits,     \* how often the display changes (a bound)
    Nil, Old        \* no image; an image that is not in imgs: a dummy, or of an old display

VARIABLES
    pc,         \* what each session's thread does
    told,       \* sessions whose shutdown_event is raised
    stopped,    \* sessions whose images are stopped
    slot,       \* the image in each session's images
    inUse,      \* the image each session converts
    refs,       \* holders of a reference to the capture thread
    joiner,     \* the session in end_capture_async(), which has the lock, or Nil
    queue,      \* contexts in capture_ctx_queue
    running,    \* capture_ctx_queue->running()
    ctxs,       \* capture_ctxs
    cap,        \* what the capture thread does
    given,      \* the image that the display fills, or gave to the callback
    disp,       \* the display that the capture thread has, or 0
    wp,         \* the one that display_wp refers to or did, or 0
    has,        \* the display each session has, or 0
    reinit,     \* reinit_event
    reinits,    \* how often the display has changed
    slipped     \* (history) sessions past reinit_event when it was raised, which have not
                \* come back to it

displays == <<disp, wp, has, slipped>>
session == <<pc, told, stopped, slot, inUse, has, slipped>>
thread == <<cap, given, disp, wp, reinit, reinits>>
vars == <<pc, told, stopped, slot, inUse, refs, joiner, queue, running, ctxs, has, slipped, thread>>

Slots == 1..Count
Image == Slots \cup {Nil, Old}

\* Displays are numbered in the order of their opening.
Displays == 0..(MaxReinits + 1)

TypeOK ==
    /\ pc \in [Sessions -> {"new", "raise", "check", "loop", "look", "lock", "start", "encode",
                            "leave", "join", "guard", "done"}]
    /\ told \subseteq Sessions /\ stopped \subseteq Sessions
    /\ slot \in [Sessions -> Image] /\ inUse \in [Sessions -> Image]
    /\ refs \subseteq Sessions /\ joiner \in Sessions \cup {Nil}
    /\ queue \subseteq Sessions /\ running \in BOOLEAN /\ ctxs \subseteq Sessions
    /\ cap \in {"none", "pop", "open", "alloc", "check", "capture", "next", "drain", "take", "spin", "reinit",
                "wait", "reset", "reopen", "realloc", "return", "ended", "undefined"}
    /\ given \in Slots /\ disp \in Displays /\ wp \in Displays /\ has \in [Sessions -> Displays]
    /\ slipped \subseteq Sessions /\ reinit \in BOOLEAN /\ reinits \in 0..MaxReinits

Init ==
    /\ pc = [s \in Sessions |-> "new"] /\ told = {} /\ stopped = {}
    /\ slot = [s \in Sessions |-> Nil] /\ inUse = [s \in Sessions |-> Nil]
    /\ refs = {} /\ joiner = Nil /\ queue = {} /\ running = FALSE /\ ctxs = {}
    /\ cap = "none" /\ given = 1 /\ reinit = FALSE /\ reinits = 0
    /\ disp = 0 /\ wp = 0 /\ has = [s \in Sessions |-> 0] /\ slipped = {}

-----------------------------------------------------------------------------
(* The conditions and updates a bug would get wrong.                       *)

Go(s, where) == pc' = [pc EXCEPT ![s] = where]

\* The local display of a round of capture_async() ends with the round.
LetGo(s) == has' = [has EXCEPT ![s] = 0] /\ slipped' = slipped \ {s}

\* display_wp->expired()
Expired == wp = 0 \/ (disp # wp /\ \A s \in Sessions : has[s] # wp)

\* A session has the lock of display_wp, which nobody assigns meanwhile. (Two sessions only
\* read it, so that it does not matter whether one has to wait for the other.)
Locked == \E s \in Sessions : pc[s] = "lock"

\* Images live as long as the session or the capture thread has them.
SlotLives(s) == pc[s] # "done" \/ s \in ctxs \cup queue
Holds(s, x) == inUse[s] = x \/ (SlotLives(s) /\ slot[s] = x)

\* while(next_img.use_count() > 1) {}
NextSlot == (given % Count) + 1
NextIsFreeAlways == TRUE
NextIsFree == \A s \in Sessions : ~Holds(s, NextSlot)

\* while(display_wp->use_count() != 1)
DisplayIsFree == \A s \in Sessions : has[s] # wp

\* encode_run() goes on
KeepsEncodingThroughReinit(s) == s \notin told /\ s \notin stopped
KeepsEncoding(s) == s \notin told /\ ~reinit /\ s \notin stopped

\* What the fail_guard of captureThread() stops
StopsTaken == ctxs
StopsQueued == queue
Stops == StopsTaken \cup StopsQueued

\* The last session of a capture thread ends it.
IsLast(s) == refs = {s}

\* raise() does nothing to stopped images.
Raised(s, x) == IF s \in stopped THEN slot[s] ELSE x

\* What remains of the images of imgs when imgs is emptied
Outdated(f) == [s \in Sessions |-> IF f[s] = Nil THEN Nil ELSE Old]

-----------------------------------------------------------------------------
(* A session.                                                              *)

\* shutdown_event is raised by the rest of the session.
Tell(s) ==
    /\ s \notin told /\ told' = told \cup {s}
    /\ UNCHANGED <<pc, stopped, slot, inUse, refs, joiner, queue, running, ctxs, has, slipped, thread>>

\* capture_thread_async.ref(), and start_capture_async() for the first reference
TakeRef(s) ==
    /\ pc[s] = "new" /\ joiner = Nil /\ Go(s, "raise") /\ refs' = refs \cup {s}
    /\ IF refs = {} THEN /\ queue' = {} /\ running' = TRUE /\ ctxs' = {}
                         /\ cap' = "pop" /\ reinit' = FALSE /\ disp' = 0 /\ wp' = 0
                    ELSE UNCHANGED <<queue, running, ctxs, cap, reinit, disp, wp>>
    /\ UNCHANGED <<told, stopped, slot, inUse, joiner, given, reinits, has, slipped>>

RaiseContext(s) ==
    /\ pc[s] = "raise" /\ Go(s, "check")
    /\ queue' = IF running THEN queue \cup {s} ELSE queue
    /\ UNCHANGED <<told, stopped, slot, inUse, refs, joiner, running, ctxs, has, slipped, thread>>

CheckQueue(s) ==
    /\ pc[s] = "check" /\ Go(s, IF running THEN "loop" ELSE "leave")
    /\ UNCHANGED <<told, stopped, slot, inUse, refs, joiner, queue, running, ctxs, has, slipped, thread>>

\* The loop of capture_async(): it ends,
Finish(s) ==
    /\ pc[s] = "loop" /\ (s \in told \/ s \in stopped) /\ Go(s, "leave")
    /\ UNCHANGED <<told, stopped, slot, inUse, refs, joiner, queue, running, ctxs, has, slipped, thread>>

\* waits while the display is being reinitialised,
PassReinit(s) ==
    /\ pc[s] = "loop" /\ s \notin told /\ s \notin stopped /\ ~reinit /\ Go(s, "look")
    /\ UNCHANGED <<told, stopped, slot, inUse, refs, joiner, queue, running, ctxs, has, slipped, thread>>

\* begins again if there is no display,
LookForDisplay(s) ==
    /\ pc[s] = "look"
    /\ IF Expired THEN Go(s, "loop") /\ slipped' = slipped \ {s}
                  ELSE Go(s, "lock") /\ UNCHANGED slipped
    /\ UNCHANGED <<told, stopped, slot, inUse, refs, joiner, queue, running, ctxs, has, thread>>

\* or takes it. If the display has expired since, the pointer is null and used all the same.
LockDisplay(s) ==
    /\ pc[s] = "lock"
    /\ IF Expired THEN cap' = "undefined" /\ UNCHANGED <<pc, has>>
                  ELSE Go(s, "start") /\ has' = [has EXCEPT ![s] = wp] /\ UNCHANGED cap
    /\ UNCHANGED <<told, stopped, slot, inUse, refs, joiner, queue, running, ctxs, slipped, given, disp,
                   wp, reinit, reinits>>

\* make_hwdevice() or dummy_img() fails,
NoDevice(s) ==
    /\ pc[s] = "start" /\ Go(s, "leave") /\ LetGo(s)
    /\ UNCHANGED <<told, stopped, slot, inUse, refs, joiner, queue, running, ctxs, thread>>

\* or the dummy is raised, and the encoder starts, or not.
StartEncoder(s) ==
    /\ pc[s] = "start"
    /\ \/ Go(s, "encode") /\ UNCHANGED <<has, slipped>>
       \/ Go(s, "loop") /\ LetGo(s)
    /\ slot' = [slot EXCEPT ![s] = Raised(s, Old)]
    /\ UNCHANGED <<told, stopped, inUse, refs, joiner, queue, running, ctxs, thread>>

\* The loop of encode_run(): it ends,
StopEncoder(s) ==
    /\ pc[s] = "encode" /\ inUse[s] = Nil /\ ~KeepsEncoding(s) /\ Go(s, "loop") /\ LetGo(s)
    /\ UNCHANGED <<told, stopped, slot, inUse, refs, joiner, queue, running, ctxs, thread>>

\* encodes without an image when a key frame is asked for, which may fail,
KeyFrameFails(s) ==
    /\ pc[s] = "encode" /\ inUse[s] = Nil /\ KeepsEncoding(s) /\ Go(s, "loop") /\ LetGo(s)
    /\ UNCHANGED <<told, stopped, slot, inUse, refs, joiner, queue, running, ctxs, thread>>

\* takes an image,
TakeImage(s) ==
    /\ pc[s] = "encode" /\ inUse[s] = Nil /\ KeepsEncoding(s) /\ slot[s] # Nil
    /\ inUse' = [inUse EXCEPT ![s] = slot[s]] /\ slot' = [slot EXCEPT ![s] = Nil]
    /\ UNCHANGED <<pc, told, stopped, refs, joiner, queue, running, ctxs, has, slipped, thread>>

\* converts it, lets it go and encodes, which may fail.
EncodeImage(s) ==
    /\ pc[s] = "encode" /\ inUse[s] # Nil /\ inUse' = [inUse EXCEPT ![s] = Nil]
    /\ \/ Go(s, "encode") /\ UNCHANGED <<has, slipped>>
       \/ Go(s, "loop") /\ LetGo(s)
    /\ UNCHANGED <<told, stopped, slot, refs, joiner, queue, running, ctxs, thread>>

\* ref.release() and, for the last reference, end_capture_async(), which waits
Release(s) ==
    /\ pc[s] = "leave" /\ joiner = Nil /\ refs' = refs \ {s}
    /\ IF IsLast(s) THEN joiner' = s /\ running' = FALSE /\ Go(s, "join")
                    ELSE Go(s, "guard") /\ UNCHANGED <<joiner, running>>
    /\ UNCHANGED <<told, stopped, slot, inUse, queue, ctxs, has, slipped, thread>>

\* until the capture thread has ended.
Join(s) ==
    /\ pc[s] = "join" /\ cap = "ended" /\ cap' = "none" /\ joiner' = Nil /\ Go(s, "guard")
    /\ queue' = {}
    /\ UNCHANGED <<told, stopped, slot, inUse, refs, running, ctxs, given, displays, reinit, reinits>>

\* The fail_guard of capture_async()
Guard(s) ==
    /\ pc[s] = "guard" /\ Go(s, "done")
    /\ stopped' = stopped \cup {s} /\ told' = told \cup {s}
    /\ UNCHANGED <<slot, inUse, refs, joiner, queue, running, ctxs, has, slipped, thread>>

SessionStep(s) ==
    \/ TakeRef(s) \/ RaiseContext(s) \/ CheckQueue(s) \/ Finish(s) \/ PassReinit(s)
    \/ LookForDisplay(s) \/ LockDisplay(s) \/ NoDevice(s) \/ StartEncoder(s) \/ StopEncoder(s)
    \/ TakeImage(s) \/ EncodeImage(s) \/ Release(s) \/ Join(s) \/ Guard(s)

-----------------------------------------------------------------------------
(* The capture thread.                                                     *)

\* capture_ctx_queue->pop() waits for the first context.  A queue that was stopped
\* gives none, and capture_ctxs.front() is then read without there being one.
PopFirst ==
    /\ cap = "pop"
    /\ \/ /\ running
          /\ \E s \in queue : ctxs' = {s} /\ queue' = queue \ {s}
          /\ cap' = "open"
       \/ ~running /\ cap' = "undefined" /\ UNCHANGED <<queue, ctxs>>
    /\ UNCHANGED <<session, refs, joiner, running, given, disp, wp, reinit, reinits>>

\* platf::display(), and display_wp = disp
OpenDisplay ==
    /\ cap = "open"
    /\ \/ disp' = reinits + 1 /\ wp' = reinits + 1 /\ cap' = "alloc"
       \/ cap' = "return" /\ UNCHANGED <<disp, wp>>
    /\ UNCHANGED <<session, refs, joiner, queue, running, ctxs, given, reinit, reinits>>

\* disp->alloc_img() for all of imgs, of the first display
AllocImages ==
    /\ cap = "alloc"
    /\ \/ cap' = "check" /\ UNCHANGED disp
       \/ cap' = "return" /\ disp' = 0
    /\ UNCHANGED <<session, refs, joiner, queue, running, ctxs, given, wp, reinit, reinits>>

\* while(capture_ctx_queue->running()), and a call of disp->capture()
StartCapture ==
    /\ cap = "check"
    /\ IF running THEN cap' = "capture" /\ given' = NextSlot /\ UNCHANGED disp
                  ELSE cap' = "return" /\ disp' = 0 /\ UNCHANGED given
    /\ UNCHANGED <<session, refs, joiner, queue, running, ctxs, wp, reinit, reinits>>

\* The display has changed, or is lost.
LoseDisplay ==
    /\ cap = "capture"
    /\ \/ reinits < MaxReinits /\ reinits' = reinits + 1 /\ cap' = "reinit" /\ UNCHANGED disp
       \/ cap' = "return" /\ disp' = 0 /\ UNCHANGED reinits
    /\ UNCHANGED <<session, refs, joiner, queue, running, ctxs, given, wp, reinit>>

\* The callback: sessions that have stopped are forgotten, the others get the image.
Deliver ==
    /\ cap = "capture" /\ cap' = "next"
    /\ ctxs' = ctxs \ stopped
    /\ slot' = [s \in Sessions |-> IF s \in ctxs' THEN Raised(s, given) ELSE slot[s]]
    /\ UNCHANGED <<pc, told, stopped, inUse, refs, joiner, queue, running, given, displays, reinit,
                   reinits>>

\* It returns nothing when the queue has been stopped,
AfterDelivery ==
    /\ cap = "next"
    /\ IF running THEN cap' = "drain" /\ UNCHANGED disp
                  ELSE cap' = "return" /\ disp' = 0
    /\ UNCHANGED <<session, refs, joiner, queue, running, ctxs, given, wp, reinit, reinits>>

\* and takes the queued contexts: while(peek()). Then it looks at switch_display_event.
PeekQueue ==
    /\ cap = "drain"
    /\ \/ running /\ queue # {} /\ cap' = "take" /\ UNCHANGED reinits
       \/ ~(running /\ queue # {}) /\ cap' = "spin" /\ UNCHANGED reinits
       \/ ~(running /\ queue # {}) /\ reinits < MaxReinits /\ reinits' = reinits + 1 /\ cap' = "reinit"
    /\ UNCHANGED <<session, refs, joiner, queue, running, ctxs, given, disp, wp, reinit>>

\* pop() gives nothing if the queue has been stopped since peek(); the absent context
\* is moved from all the same.
TakeContext ==
    /\ cap = "take"
    /\ IF running THEN \E s \in queue : queue' = queue \ {s} /\ ctxs' = ctxs \cup {s} /\ cap' = "drain"
                  ELSE cap' = "undefined" /\ UNCHANGED <<queue, ctxs>>
    /\ UNCHANGED <<session, refs, joiner, running, given, disp, wp, reinit, reinits>>

\* The next image is given to the display once nobody has it.
NextImage ==
    /\ cap = "spin" /\ NextIsFree /\ cap' = "capture" /\ given' = NextSlot
    /\ UNCHANGED <<session, refs, joiner, queue, running, ctxs, disp, wp, reinit, reinits>>

\* capture_e::reinit: reinit_event is raised, the images are dropped,
Reinit ==
    /\ cap = "reinit" /\ cap' = "wait" /\ reinit' = TRUE
    /\ slipped' = slipped \cup {s \in Sessions : pc[s] \in {"look", "lock"}}
    /\ slot' = Outdated(slot) /\ inUse' = Outdated(inUse)
    /\ UNCHANGED <<pc, told, stopped, refs, joiner, queue, running, ctxs, given, disp, wp, has, reinits>>

\* nobody else has the display,
DisplayReturned ==
    /\ cap = "wait" /\ DisplayIsFree /\ cap' = "reset"
    /\ UNCHANGED <<session, refs, joiner, queue, running, ctxs, given, disp, wp, reinit, reinits>>

\* and it is closed
CloseDisplay ==
    /\ cap = "reset" /\ running /\ cap' = "reopen" /\ disp' = 0
    /\ UNCHANGED <<session, refs, joiner, queue, running, ctxs, given, wp, reinit, reinits>>

\* and opened again, in two attempts at a time, until it is there or the queue is stopped.
\* The rate is read from capture_ctxs.front() again, of which a stale copy remains if there
\* is none.
ReopenDisplay ==
    /\ cap = "reopen"
    /\ \/ ~Locked /\ disp' = reinits + 1 /\ wp' = reinits + 1 /\ cap' = "realloc"
       \/ cap' \in {"reset", "reopen"} /\ UNCHANGED <<disp, wp>>
    /\ UNCHANGED <<session, refs, joiner, queue, running, ctxs, given, reinit, reinits>>

ResetEnds ==
    /\ cap = "reset" /\ ~running /\ cap' = IF disp # 0 THEN "realloc" ELSE "return"
    /\ UNCHANGED <<session, refs, joiner, queue, running, ctxs, given, disp, wp, reinit, reinits>>

ReallocImages ==
    /\ cap = "realloc"
    /\ \/ cap' = "check" /\ reinit' = FALSE /\ UNCHANGED disp
       \/ cap' = "return" /\ disp' = 0 /\ UNCHANGED reinit
    /\ UNCHANGED <<session, refs, joiner, queue, running, ctxs, given, wp, reinits>>

\* The images and round_robin are dropped, and the fail_guard stops the queue and the images
\* of all sessions, taken and queued.
Return ==
    /\ cap = "return" /\ cap' = "ended" /\ running' = FALSE
    /\ stopped' = stopped \cup Stops /\ ctxs' = {}
    /\ slot' = Outdated(slot) /\ inUse' = Outdated(inUse) /\ given' = 1
    /\ UNCHANGED <<pc, told, refs, joiner, queue, displays, reinit, reinits>>

CaptureStep ==
    \/ PopFirst \/ OpenDisplay \/ AllocImages \/ StartCapture \/ Deliver \/ AfterDelivery \/ PeekQueue
    \/ TakeContext \/ NextImage \/ Reinit \/ DisplayReturned \/ CloseDisplay \/ ReopenDisplay \/ ResetEnds
    \/ ReallocImages \/ Return

Next ==
    \/ CaptureStep \/ LoseDisplay
    \/ \E s \in Sessions : SessionStep(s) \/ KeyFrameFails(s) \/ Tell(s)

\* The threads run; the display gives an image, or an error, time after time, and need
\* not come back when it was lost.
Fairness == WF_vars(CaptureStep) /\ \A s \in Sessions : WF_vars(SessionStep(s))

Spec == Init /\ [][Next]_vars /\ Fairness

-----------------------------------------------------------------------------
(* Properties.                                                             *)

Runs == cap \notin {"none", "ended", "undefined"}

\* "the capture thread only runs when other threads have a reference to the capture
\* thread" (video.cpp:401), or wait for its end.
RunsForSomebody == Runs => refs # {} \/ joiner # Nil

\* The display never writes into an image that a session has or will get.
ImageIsNotShared == cap = "capture" => \A s \in Sessions : ~Holds(s, given)

\* A session that waits for images is known to a thread that will raise or stop them.
WaitersAreKnown ==
    cap # "undefined" =>
        \A s \in Sessions : pc[s] \in {"loop", "look", "lock", "start", "encode"} /\ s \notin stopped =>
                                Runs /\ s \in queue \cup ctxs

\* The capture thread is there as long as sessions need it, and no longer.
CaptureServesItsSessions == TypeOK /\ RunsForSomebody /\ WaitersAreKnown

\* A session has the display that display_wp refers to, and none while it is closed and
\* opened again. Sessions that had passed reinit_event when it was raised are excluded, see
\* OldDisplayIsDestroyed.
OldDisplayIsGone ==
    \A s \in Sessions : has[s] # 0 /\ s \notin slipped =>
        has[s] = wp /\ cap \notin {"reset", "reopen", "realloc"}

\* While the display is written to or replaced, no encoder uses the same.
DisplayIsUsedAlone == ImageIsNotShared /\ OldDisplayIsGone

\* Sessions that are told to shut down end, whatever the display does. (Sessions stay told
\* and done, so that this is the same as s \in told ~> pc[s] = "done" for each. Use of an absent
\* context or display, see PopFirst, TakeContext and LockDisplay, is the end of the program.)
ToldSessionsEnd == []<>(cap = "undefined" \/ \A s \in told : pc[s] = "done")

\* "Wait for the other shared_ptr's of display to be destroyed" (video.cpp:677): those that
\* there were are, and the wait ends.
DisplayIsReturned == []<>(cap # "wait")

\* Neither a session nor the capture thread waits for ever.
WaitsEnd == ToldSessionsEnd /\ DisplayIsReturned

\* "Wait for the other shared_ptr's of display to be destroyed" (video.cpp:677): after the
\* wait there are none.
OldDisplayIsDestroyed == cap \in {"reset", "reopen"} => \A s \in Sessions : has[s] = 0

-----------------------------------------------------------------------------
(* The inductive invariant that the safety properties rest on.             *)

\* Who has a reference: the sessions between ref() and release(); the last of them waits in
\* end_capture_async(), and a capture thread is there until it has.
ThreadIsOwned ==
    /\ refs = {s \in Sessions : pc[s] \in {"raise", "check", "loop", "look", "lock", "start", "encode",
                                     "leave"}}
    /\ \A s \in Sessions : pc[s] = "join" <=> joiner = s
    /\ joiner # Nil => refs = {}
    /\ cap = "none" <=> refs = {} /\ joiner = Nil

\* A queue that runs has a thread that reads it, which begins with an empty list of its own;
\* what was raised is in one of them.
ContextsAreKept ==
    /\ running => Runs \/ cap = "undefined"
    /\ cap = "pop" => ctxs = {}
    /\ \A s \in Sessions : pc[s] = "check" /\ running /\ s \notin stopped => s \in queue \cup ctxs

\* When imgs is empty or new, nobody has an image of it.
ImagesAreNew ==
    cap \in {"none", "pop", "open", "alloc", "check", "wait", "reset", "reopen", "realloc", "ended"} =>
        \A s \in Sessions : slot[s] \notin Slots /\ inUse[s] \notin Slots

\* reinit_event keeps the sessions from a display that is replaced, but for those that had
\* passed it.
ReinitIsRaised ==
    cap \in {"wait", "reset", "reopen", "realloc"} =>
        reinit /\ \A s \in Sessions : pc[s] \in {"look", "lock"} => s \in slipped

\* Which displays there are; only a display that has been opened is taken.
DisplaysAreOpen ==
    /\ \A s \in Sessions : has[s] # 0 <=> pc[s] \in {"start", "encode"}
    /\ \A s \in slipped : pc[s] \in {"look", "lock", "start", "encode"}
    /\ cap \in {"pop", "open"} => wp = 0 /\ \A s \in Sessions : has[s] = 0

IInv ==
    /\ TypeOK /\ ThreadIsOwned /\ ContextsAreKept /\ WaitersAreKnown
    /\ ImagesAreNew /\ ImageIsNotShared /\ ReinitIsRaised /\ DisplaysAreOpen /\ OldDisplayIsGone
=============================================================================
