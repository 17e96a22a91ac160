-------------------------- MODULE VideoCaptureSync --------------------------
(***************************************************************************)
(* Capturing and encoding in one thread, for encoders that cannot encode   *)
(* in parallel: captureThreadSync(), encode_run_sync() and the waiting     *)
(* half of capture() in src/sunshine/video.cpp.  A session puts a context  *)
(* with a pointer to an event on its own stack into the queue and waits    *)
(* for the event; the thread takes contexts over, encodes for them, and    *)
(* raises the event of those it lets go.  The thread keeps a reference to  *)
(* its own queue, and ends with its last session or an error.              *)
(***************************************************************************)
EXTENDS Naturals, FiniteSets

CONSTANTS
    Sessions,   \* calls of capture()
    Capacity    \* the length of encode_session_ctx_queue (30)

VARIABLES
    pc,         \* what each session's thread does
    told,       \* sessions whose shutdown_event is raised
    joined,     \* sessions whose join_event is raised
    refs,       \* sessions with a reference to the thread's queue
    queue,      \* contexts in encode_session_ctx_queue
    running,    \* encode_session_ctx_queue.running()
    ctxs,       \* synced_session_ctxs
    synced,     \* synced_sessions
    visited,    \* sessions the callback has done with for this image
    cap,        \* what the thread does
    lost        \* sessions that came after the queue was stopped, or were cleared from it

vars == <<pc, told, joined, refs, queue, running, ctxs, synced, visited, cap, lost>>

TypeOK ==
    /\ pc \in [Sessions -> {"new", "raise", "view", "release", "done"}]
    /\ \A v \in {told, joined, refs, queue, ctxs, synced, visited, lost} : v \subseteq Sessions
    /\ Cardinality(queue) <= Capacity /\ running \in BOOLEAN
    /\ cap \in {"none", "pop", "open", "make", "frame", "drain", "visit", "return", "release"}

Init ==
    /\ pc = [s \in Sessions |-> "new"]
    /\ told = {} /\ joined = {} /\ refs = {} /\ queue = {} /\ running = FALSE /\ ctxs = {}
    /\ synced = {} /\ visited = {} /\ cap = "none" /\ lost = {}

-----------------------------------------------------------------------------
(* The conditions and updates a bug would get wrong.                       *)

\* What remains of synced_session_ctxs when a session is let go
Erased(s) == ctxs \ {s}

\* A context for which no session can be made ends the capture.
AfterFailure == "return"

\* The contexts whose sessions the fail_guard of captureThreadSync() lets go
LetsGoTaken == ctxs
LetsGo == ctxs \cup queue

\* raise() empties a queue that is full.
Queued(s) == IF Cardinality(queue) = Capacity THEN {s} ELSE queue \cup {s}

-----------------------------------------------------------------------------
(* A session: capture().                                                   *)

Go(s, where) == pc' = [pc EXCEPT ![s] = where]

Tell(s) ==
    /\ s \notin told /\ told' = told \cup {s}
    /\ UNCHANGED <<pc, joined, refs, queue, running, ctxs, synced, visited, cap, lost>>

\* capture_thread_sync.ref(): the first reference makes a queue and starts its thread.
TakeRef(s) ==
    /\ pc[s] = "new" /\ Go(s, "raise") /\ refs' = refs \cup {s}
    /\ IF refs = {} /\ cap = "none"
       THEN cap' = "pop" /\ queue' = {} /\ running' = TRUE /\ ctxs' = {} /\ synced' = {}
       ELSE UNCHANGED <<cap, queue, running, ctxs, synced>>
    /\ UNCHANGED <<told, joined, visited, lost>>

RaiseContext(s) ==
    /\ pc[s] = "raise" /\ Go(s, "view")
    /\ queue' = IF running THEN Queued(s) ELSE queue
    /\ lost' = lost \cup ((queue \cup {s}) \ queue')
    /\ UNCHANGED <<told, joined, refs, running, ctxs, synced, visited, cap>>

\* join_event.view()
View(s) ==
    /\ pc[s] = "view" /\ s \in joined /\ Go(s, "release")
    /\ UNCHANGED <<told, joined, refs, queue, running, ctxs, synced, visited, cap, lost>>

Release(s) ==
    /\ pc[s] = "release" /\ Go(s, "done") /\ refs' = refs \ {s}
    /\ UNCHANGED <<told, joined, queue, running, ctxs, synced, visited, cap, lost>>

-----------------------------------------------------------------------------
(* The thread.                                                             *)

\* encode_run_sync() begins: it pops the first context, or has some from before.
PopFirst ==
    /\ cap = "pop" /\ synced' = {} /\ cap' = "open"
    /\ \/ ctxs = {} /\ \E s \in queue : ctxs' = ctxs \cup {s} /\ queue' = queue \ {s}
       \/ ctxs # {} /\ UNCHANGED <<ctxs, queue>>
    /\ UNCHANGED <<pc, told, joined, refs, running, visited, lost>>

\* reset_display() until there is a display. Nobody else stops the queue meanwhile.
OpenDisplay ==
    /\ cap = "open" /\ cap' = "make"
    /\ UNCHANGED <<pc, told, joined, refs, queue, running, ctxs, synced, visited, lost>>

\* alloc_img(), and make_synced_session() for every context, may fail.
MakeSessions ==
    /\ cap = "make"
    /\ \/ cap' = "frame" /\ synced' = ctxs
       \/ cap' = "return" /\ \E made \in SUBSET ctxs : synced' = made
    /\ UNCHANGED <<pc, told, joined, refs, queue, running, ctxs, visited, lost>>

\* disp->capture() gives an image, or comes back with an error or a new display.
Capture ==
    /\ cap = "frame" /\ cap' \in {"drain", "return", "pop"} /\ visited' = {}
    /\ UNCHANGED <<pc, told, joined, refs, queue, running, ctxs, synced, lost>>

\* The callback first takes the queued contexts; a session that cannot be made ends
\* the thread.
TakeContext ==
    /\ cap = "drain"
    /\ \E s \in queue :
         /\ queue' = queue \ {s} /\ ctxs' = ctxs \cup {s}
         /\ \/ synced' = synced \cup {s} /\ UNCHANGED cap
            \/ cap' = AfterFailure /\ UNCHANGED synced
    /\ UNCHANGED <<pc, told, joined, refs, running, visited, lost>>

Drained ==
    /\ cap = "drain" /\ queue = {} /\ cap' = "visit"
    /\ UNCHANGED <<pc, told, joined, refs, queue, running, ctxs, synced, visited, lost>>

\* Then it visits every session. One that was told to shut down is let go; the last one
\* ends the capture.
Visit(s) ==
    /\ cap = "visit" /\ s \in synced \ visited
    /\ IF s \in told
       THEN /\ joined' = joined \cup {s} /\ synced' = synced \ {s} /\ ctxs' = Erased(s)
            /\ cap' = IF synced' = {} THEN "return" ELSE cap
            /\ UNCHANGED <<told, visited>>
       ELSE /\ \/ told' = told \cup {s} /\ UNCHANGED visited    \* convert() or encode() fails
               \/ visited' = visited \cup {s} /\ UNCHANGED told
            /\ UNCHANGED <<joined, synced, ctxs, cap>>
    /\ UNCHANGED <<pc, refs, queue, running, lost>>

\* The callback returns the image, or nothing for switch_display_event.
EndVisit ==
    /\ cap = "visit" /\ visited = synced /\ synced # {}
    /\ cap' \in {"frame", "pop"} /\ visited' = {}
    /\ UNCHANGED <<pc, told, joined, refs, queue, running, ctxs, synced, lost>>

\* The fail_guard of captureThreadSync()
Return ==
    /\ cap = "return" /\ cap' = "release" /\ running' = FALSE
    /\ told' = told \cup LetsGo /\ joined' = joined \cup LetsGo
    /\ ctxs' = {} /\ synced' = {} /\ queue' = {} /\ visited' = {}
    /\ UNCHANGED <<pc, refs, lost>>

\* The thread gives up its own reference.
ThreadEnds ==
    /\ cap = "release" /\ cap' = "none"
    /\ UNCHANGED <<pc, told, joined, refs, queue, running, ctxs, synced, visited, lost>>

Next ==
    \/ PopFirst \/ OpenDisplay \/ MakeSessions \/ Capture \/ TakeContext \/ Drained \/ EndVisit
    \/ Return \/ ThreadEnds
    \/ \E s \in Sessions : Tell(s) \/ TakeRef(s) \/ RaiseContext(s) \/ View(s) \/ Release(s) \/ Visit(s)

Spec == Init /\ [][Next]_vars

-----------------------------------------------------------------------------
(* Properties.                                                             *)

\* join_event is on the stack of the session: "Let waiting thread know it can delete
\* shutdown_event" (video.cpp:1200). The thread has no context of a session that went on.
JoinEventIsAlive == \A s \in queue \cup ctxs : pc[s] = "view" /\ s \notin joined

\* Every context the thread has taken is encoded for, and looked at for its shutdown.
ContextsAreVisited == cap \in {"frame", "drain", "visit"} => synced = ctxs /\ ctxs # {}

\* A session waits for a thread that knows it and will let it go, unless it came when the
\* thread was at its end: then nobody does (see the hazard at video.cpp:1375).
WaitersAreLetGo ==
    \A s \in Sessions : pc[s] = "view" =>
        \/ s \in joined \cup lost
        \/ s \in queue \cup ctxs /\ cap \notin {"none", "release"}

-----------------------------------------------------------------------------
(* The inductive invariant that the proofs of the properties use.         *)

\* A context is in the queue or in the list, and the list is not empty while it is used;
\* the queue runs as long as the thread reads it; only who waits is let go.
ContextsAreKept ==
    /\ queue \cap ctxs = {}
    /\ cap \in {"open", "make", "frame", "drain", "visit"} => ctxs # {}
    /\ running => cap \notin {"none", "release"}
    /\ \A s \in joined : pc[s] \in {"view", "release", "done"}

IInv == TypeOK /\ ContextsAreKept /\ JoinEventIsAlive /\ ContextsAreVisited /\ WaitersAreLetGo
=============================================================================
