---------------------------- MODULE TaskPromise -----------------------------
(***************************************************************************)
(* What util::ThreadPool promises to those who give it tasks: tasks that   *)
(* are ready begin in the order in which they were pushed, ahead of timers; *)
(* timers never before their time, the one that is due first before the     *)
(* others; a cancelled timer never.  A task that can begin while a worker  *)
(* has nothing to do does begin, and workers leave only when they have     *)
(* been told to stop and nothing is left that could begin.                 *)
(***************************************************************************)
EXTENDS Integers, Sequences

CONSTANTS Tasks, Workers, Delays, MaxTime, None

VARIABLES
    queued,   \* tasks that are ready, in order
    delayed,  \* timers: records of a task and the time it is due
    working,  \* what each worker does: a task, nothing ("idle"), or it has left ("gone")
    clock,
    told      \* stop() has been called

vars == <<queued, delayed, working, clock, told>>

Known(t) == \/ \E i \in DOMAIN queued : queued[i] = t
            \/ \E r \in delayed : r.task = t
            \/ \E w \in Workers : working[w] = t
Due(r) == r.at <= clock /\ \A q \in delayed : r.at <= q.at

Init ==
    /\ queued = <<>> /\ delayed = {} /\ clock = 0 /\ told = FALSE
    /\ working = [w \in Workers |-> "idle"]

Push(t) ==
    /\ ~Known(t)
    /\ queued' = Append(queued, t)
    /\ UNCHANGED <<delayed, working, clock, told>>

PushDelayed(t, d) ==
    /\ ~Known(t)
    /\ delayed' = delayed \cup {[at |-> clock + d, task |-> t]}
    /\ UNCHANGED <<queued, working, clock, told>>

Cancel(r) ==
    /\ delayed' = delayed \ {r}
    /\ UNCHANGED <<queued, working, clock, told>>

BeginQueued(w) ==
    /\ working[w] = "idle" /\ queued # <<>>
    /\ working' = [working EXCEPT ![w] = Head(queued)]
    /\ queued' = Tail(queued)
    /\ UNCHANGED <<delayed, clock, told>>

BeginDelayed(w, r) ==
    /\ working[w] = "idle" /\ queued = <<>> /\ Due(r)
    /\ working' = [working EXCEPT ![w] = r.task]
    /\ delayed' = delayed \ {r}
    /\ UNCHANGED <<queued, clock, told>>

Finish(w) ==
    /\ working[w] \in Tasks
    /\ working' = [working EXCEPT ![w] = "idle"]
    /\ UNCHANGED <<queued, delayed, clock, told>>

Leave(w) ==
    /\ told /\ working[w] = "idle"
    /\ queued = <<>> /\ \A r \in delayed : ~Due(r)
    /\ working' = [working EXCEPT ![w] = "gone"]
    /\ UNCHANGED <<queued, delayed, clock, told>>

Stop == told' = TRUE /\ UNCHANGED <<queued, delayed, working, clock>>

Tick == clock' = clock + 1 /\ UNCHANGED <<queued, delayed, working, told>>

Begin == \E w \in Workers : BeginQueued(w) \/ \E r \in delayed : BeginDelayed(w, r)

Next ==
    \/ \E t \in Tasks : Push(t) \/ \E d \in Delays : PushDelayed(t, d)
    \/ \E r \in delayed : Cancel(r)
    \/ Begin
    \/ \E w \in Workers : Finish(w) \/ Leave(w)
    \/ Stop \/ Tick

Safe == Init /\ [][Next]_vars

\* What can begin does, and who can leave does.
Prompt == WF_vars(Begin) /\ \A w \in Workers : WF_vars(Leave(w))

Spec == Safe /\ Prompt
=============================================================================
