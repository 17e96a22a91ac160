------------------------------ MODULE SafeQueue ------------------------------
(***************************************************************************)
(* queue_t and event_t of src/sunshine/thread_safe.h: values that threads  *)
(* raise and others wait for, under one mutex and one condition variable.  *)
(* A queue that is full is emptied before a value is added; an event is a  *)
(* queue of one place, which also has view() and reset().  The waits have  *)
(* no predicate of their own: each looks again when it is woken, and may   *)
(* be woken for no reason.  Values are numbered in the order in which they *)
(* are raised.                                                             *)
(***************************************************************************)
EXTENDS Naturals, Sequences

CONSTANTS
    Waiters,    \* threads that call pop(), pop(delay) and view()
    Limits,     \* values of _max_elements; 1 stands for an event
    MaxRaised   \* how many values are raised (a bound on the histories)

VARIABLES
    limit,      \* _max_elements
    queue,      \* _queue, or _status
    continue,   \* _continue
    asleep,     \* threads in _cv.wait or wait_for that have not been woken
    call,       \* the call each thread is in, or "none"
    result,     \* what its last call has returned: a value, 0 for none
    raised,     \* the number of the value raised last
    popped      \* the number of the value popped last, a history variable

vars == <<limit, queue, continue, asleep, call, result, raised, popped>>

\* The calls that wait; only an event has view() and reset().
Calls == {"pop", "popFor"} \cup IF limit = 1 THEN {"view"} ELSE {}

TypeOK ==
    /\ limit \in Limits
    /\ queue \in Seq(1..raised) /\ Len(queue) <= limit
    /\ continue \in BOOLEAN /\ asleep \subseteq Waiters
    /\ call \in [Waiters -> Calls \cup {"none"}]
    /\ result \in [Waiters -> 0..raised]
    /\ raised \in 0..MaxRaised /\ popped \in 0..raised

Init ==
    /\ limit \in Limits
    /\ queue = <<>> /\ continue = TRUE /\ asleep = {}
    /\ call = [w \in Waiters |-> "none"]
    /\ result = [w \in Waiters |-> 0]
    /\ raised = 0 /\ popped = 0

-----------------------------------------------------------------------------
(* The conditions and updates a bug would get wrong.                       *)

\* raise(): _queue.clear() if it is full, and emplace_back
Added(x) == IF Len(queue) = limit THEN <<x>> ELSE Append(queue, x)

\* _cv.notify_all() in raise() and stop()
WokenOne == IF asleep = {} THEN {} ELSE asleep \ {CHOOSE w \in asleep : TRUE}
Woken == {}
WokenByStop == {}

\* What a call looks at before it waits: pop() and view() find a stop first,
\* pop(delay) a value, once they have waited; all find a stop at the start.
Gives(w) == queue # <<>> /\ (continue \/ call[w] = "popFor")
GivesUp(w) == ~continue /\ ~Gives(w)

\* The front is moved out and erased; view() leaves it.
Rest(w) == IF call[w] = "view" THEN queue ELSE Tail(queue)

-----------------------------------------------------------------------------
Raise ==
    /\ raised < MaxRaised /\ raised' = raised + 1
    /\ IF continue THEN queue' = Added(raised') /\ asleep' = Woken
                   ELSE UNCHANGED <<limit, queue, asleep>>
    /\ UNCHANGED <<limit, continue, call, result, popped>>

\* A call begins, and returns at once if the queue was stopped.
Call(w, c) ==
    /\ call[w] = "none"
    /\ IF continue THEN call' = [call EXCEPT ![w] = c] /\ UNCHANGED result
                   ELSE result' = [result EXCEPT ![w] = 0] /\ UNCHANGED call
    /\ UNCHANGED <<limit, queue, continue, asleep, raised, popped>>

Returns(w, x) ==
    /\ call' = [call EXCEPT ![w] = "none"]
    /\ result' = [result EXCEPT ![w] = x]

\* The loop of a thread that is awake: it returns a value,
Give(w) ==
    /\ call[w] # "none" /\ w \notin asleep /\ Gives(w)
    /\ Returns(w, Head(queue)) /\ queue' = Rest(w)
    /\ popped' = IF call[w] = "view" THEN popped ELSE Head(queue)
    /\ UNCHANGED <<limit, continue, asleep, raised>>

\* or nothing, because the queue has been stopped,
GiveUp(w) ==
    /\ call[w] # "none" /\ w \notin asleep /\ GivesUp(w)
    /\ Returns(w, 0)
    /\ UNCHANGED <<limit, queue, continue, asleep, raised, popped>>

\* or waits.
Sleep(w) ==
    /\ call[w] # "none" /\ w \notin asleep /\ ~Gives(w) /\ ~GivesUp(w)
    /\ asleep' = asleep \cup {w}
    /\ UNCHANGED <<limit, queue, continue, call, result, raised, popped>>

\* wait_for() times out, and pop(delay) does not look again.
Timeout(w) ==
    /\ w \in asleep /\ call[w] = "popFor"
    /\ asleep' = asleep \ {w} /\ Returns(w, 0)
    /\ UNCHANGED <<limit, queue, continue, raised, popped>>

WakeUp(w) ==
    /\ w \in asleep /\ asleep' = asleep \ {w}
    /\ UNCHANGED <<limit, queue, continue, call, result, raised, popped>>

Stop ==
    /\ continue' = FALSE /\ asleep' = WokenByStop
    /\ UNCHANGED <<limit, queue, call, result, raised, popped>>

\* event_t::reset()
Reset ==
    /\ limit = 1
    /\ continue' = TRUE /\ queue' = <<>>
    /\ UNCHANGED <<limit, asleep, call, result, raised, popped>>

Next ==
    \/ Raise \/ Stop \/ Reset
    \/ \E w \in Waiters :
         \/ \E c \in Calls : Call(w, c)
         \/ Give(w) \/ GiveUp(w) \/ Sleep(w) \/ Timeout(w) \/ WakeUp(w)

Spec == Init /\ [][Next]_vars

-----------------------------------------------------------------------------
(* Properties.                                                             *)

\* No wake-up is lost: a thread sleeps only while there is nothing for it, and
\* the queue was not stopped, whoever raised, popped or stopped since it looked.
SleepIsSafe == asleep # {} => queue = <<>> /\ continue

\* What is in the queue are the newest values, without a gap and in order: a full
\* queue loses all of its values or none, and nothing is popped twice.
NewestInOrder ==
    /\ \A i \in 1..(Len(queue) - 1) : queue[i + 1] = queue[i] + 1
    /\ queue # <<>> => queue[1] > popped
    /\ queue # <<>> /\ continue => queue[Len(queue)] = raised

\* A value is popped after those that were popped before it.
PopInOrder == popped' >= popped
PopsInOrder == [][PopInOrder]_vars
=============================================================================
