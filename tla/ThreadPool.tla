----------------------------- MODULE ThreadPool -----------------------------
(***************************************************************************)
(* util::ThreadPool of src/sunshine/thread_pool.h on top of util::TaskPool *)
(* of task_pool.h: a queue of tasks, timers sorted by time, and workers    *)
(* that wait on a condition variable.  What TaskPool does holds            *)
(* _task_mutex throughout and is one step.  ThreadPool's mutex _lock       *)
(* guards the wait: the workers at "ready" and "arm" hold it.  cancel() is *)
(* TaskPool's and takes only _task_mutex.                                  *)
(* A task is pushed by any thread, a worker that runs one included, and    *)
(* again once it has run (key repeat).  Nobody calls delay(), pop(id) or   *)
(* the pushDelayed() that takes a pair; they are left out.                 *)
(***************************************************************************)
EXTENDS Integers, Sequences, FiniteSets, SequencesExt

CONSTANTS
    Tasks,    \* the functions pushed
    Workers,  \* _thread
    Delays,   \* the durations given to pushDelayed()
    MaxTime,  \* bound on the clock
    None      \* a wait without a time

ASSUME WorkersAssumption == IsFiniteSet(Workers) /\ Workers # {}
ASSUME DelaysAssumption == Delays \subseteq Nat /\ MaxTime \in Nat /\ None \notin Nat
ASSUME TasksAssumption == {"idle", "gone", None} \cap Tasks = {}

VARIABLES
    tasks,     \* _tasks
    timers,    \* _timer_tasks: records of a task and its time, the earliest at the back
    now,       \* steady_clock::now()
    cont,      \* _continue
    pc,        \* where each worker is in _main()
    current,   \* the task it runs
    deadline,  \* the time up to which it waits
    notified   \* the workers that _cv has woken

queues == <<tasks, timers>>
workers == <<pc, current, deadline, notified>>
vars == <<queues, now, cont, workers>>

Labels == {"loop", "pop", "run", "lock", "ready", "arm", "wait", "drain", "rest", "ended"}

Init ==
    /\ tasks = <<>> /\ timers = <<>> /\ now = 0 /\ cont = TRUE
    /\ pc = [w \in Workers |-> "loop"]
    /\ current = [w \in Workers |-> None]
    /\ deadline = [w \in Workers |-> None]
    /\ notified = {}
-----------------------------------------------------------------------------
(* The conditions and updates a bug would get wrong, each preceded by the  *)
(* mutant that does.                                                       *)

LockIgnored == {}
Holding == {"ready", "arm"}

\* Before the first timer that is due earlier, or at the end
Place(at) == CHOOSE i \in 1 .. Len(timers) + 1 :
                 /\ i <= Len(timers) => timers[i].at < at
                 /\ \A j \in 1 .. i - 1 : ~(timers[j].at < at)

AnyTime(r) == TRUE
HasCome(r) == r.at <= now

NoTime == None
NextTime == IF timers = <<>> THEN None ELSE Last(timers).at

At(d) == now + d
-----------------------------------------------------------------------------
Waiting == {w \in Workers : pc[w] = "wait"}
Asleep == Waiting \ notified
LockFree == \A w \in Workers : pc[w] \notin Holding
Known(t) == \/ t \in Range(tasks) \/ \E i \in DOMAIN timers : timers[i].task = t
            \/ \E w \in Workers : current[w] = t

\* _cv.notify_one() wakes one of those that wait and have not been woken.
NotifyOne == IF Asleep = {} THEN UNCHANGED notified
                            ELSE \E w \in Asleep : notified' = notified \cup {w}
NotifyAll == notified' = Waiting

Push(t) ==
    /\ LockFree /\ ~Known(t)
    /\ tasks' = Append(tasks, t)
    /\ NotifyOne
    /\ UNCHANGED <<timers, now, cont, pc, current, deadline>>

PushDelayed(t, d) ==
    /\ LockFree /\ ~Known(t) /\ now + d <= MaxTime
    /\ timers' = InsertAt(timers, Place(At(d)), [at |-> At(d), task |-> t])
    /\ NotifyAll
    /\ UNCHANGED <<tasks, now, cont, pc, current, deadline>>

Cancel(i) ==
    /\ timers' = RemoveAt(timers, i)
    /\ UNCHANGED <<tasks, now, cont, workers>>

Stop ==
    /\ LockFree
    /\ cont' = FALSE
    /\ NotifyAll
    /\ UNCHANGED <<queues, now, pc, current, deadline>>

Tick ==
    /\ now < MaxTime
    /\ now' = now + 1
    /\ UNCHANGED <<queues, cont, workers>>
-----------------------------------------------------------------------------
(* A worker in _main()                                                     *)

Step(w, from, to) == pc[w] = from /\ pc' = [pc EXCEPT ![w] = to]

Loop(w) ==
    /\ \/ cont /\ Step(w, "loop", "pop")
       \/ ~cont /\ Step(w, "loop", "drain")
    /\ UNCHANGED <<queues, now, cont, current, deadline, notified>>

\* pop() finds something ...
Ready == tasks # <<>> \/ (timers # <<>> /\ HasCome(Last(timers)))

PopTask(w, from, to) ==
    /\ Step(w, from, to) /\ tasks # <<>>
    /\ current' = [current EXCEPT ![w] = Head(tasks)]
    /\ tasks' = Tail(tasks)
    /\ UNCHANGED <<timers, now, cont, deadline, notified>>

PopTimer(w, from, to) ==
    /\ Step(w, from, to) /\ tasks = <<>> /\ Ready
    /\ current' = [current EXCEPT ![w] = Last(timers).task]
    /\ timers' = Front(timers)
    /\ UNCHANGED <<tasks, now, cont, deadline, notified>>

Pop(w) ==
    \/ PopTask(w, "pop", "run") \/ PopTimer(w, "pop", "run")
    \/ PopTask(w, "drain", "rest") \/ PopTimer(w, "drain", "rest")

\* ... or nothing.
PopNothing(w) ==
    /\ ~Ready
    /\ Step(w, "pop", "lock") \/ Step(w, "drain", "ended")
    /\ UNCHANGED <<queues, now, cont, current, deadline, notified>>

Ran(w) ==
    /\ Step(w, "run", "loop") \/ Step(w, "rest", "drain")
    /\ current' = [current EXCEPT ![w] = None]
    /\ UNCHANGED <<queues, now, cont, deadline, notified>>

Lock(w) ==
    /\ LockFree
    /\ Step(w, "lock", "ready")
    /\ UNCHANGED <<queues, now, cont, current, deadline, notified>>

\* if(ready()) continue;
LookAgain(w) ==
    /\ \/ Ready /\ Step(w, "ready", "loop")
       \/ ~Ready /\ Step(w, "ready", "arm")
    /\ UNCHANGED <<queues, now, cont, current, deadline, notified>>

\* if(!_continue) break; next() and the wait, which releases _lock
Wait(w) ==
    /\ \/ ~cont /\ Step(w, "arm", "drain") /\ UNCHANGED deadline
       \/ /\ cont /\ Step(w, "arm", "wait")
          /\ deadline' = [deadline EXCEPT ![w] = NextTime]
    /\ notified' = notified \ {w}
    /\ UNCHANGED <<queues, now, cont, current>>

\* The wait ends, takes _lock again, and the end of the scope releases it.
WakeUp(w) ==
    /\ LockFree
    /\ Step(w, "wait", "loop")
    /\ notified' = notified \ {w}
    /\ UNCHANGED <<queues, now, cont, current, deadline>>

Wake(w) == (w \in notified \/ (deadline[w] # None /\ deadline[w] <= now)) /\ WakeUp(w)

Work(w) == Loop(w) \/ Pop(w) \/ PopNothing(w) \/ Ran(w) \/ Lock(w) \/ LookAgain(w) \/ Wait(w) \/ Wake(w)

Next ==
    \/ \E t \in Tasks : Push(t) \/ \E d \in Delays : PushDelayed(t, d)
    \/ \E i \in DOMAIN timers : Cancel(i)
    \/ Stop \/ Tick
    \/ \E w \in Workers : Work(w) \/ WakeUp(w)  \* the latter: a spurious wake-up

\* Workers run, and tasks return.
Spec == Init /\ [][Next]_vars /\ \A w \in Workers : WF_vars(Work(w))
-----------------------------------------------------------------------------
(* Properties                                                              *)

\* The type of every variable; a time is one the clock can show.
TypeOK ==
    /\ tasks \in Seq(Tasks)
    /\ timers \in Seq([at : 0 .. MaxTime, task : Tasks])
    /\ now \in 0 .. MaxTime /\ cont \in BOOLEAN
    /\ pc \in [Workers -> Labels]
    /\ current \in [Workers -> Tasks \cup {None}]
    /\ deadline \in [Workers -> (0 .. MaxTime) \cup {None}]
    /\ notified \subseteq Waiting

\* The back of _timer_tasks is the timer that is due first, whatever was inserted,
\* cancelled and popped before, so that pop(), ready() and next() may look there only.
TimersSorted ==
    \A i, j \in DOMAIN timers : i < j => timers[i].at >= timers[j].at

\* A worker sleeps only when it is safe: the pool goes on; it will wake by itself
\* when the first timer is due; and for every task that is ready there is another
\* worker that is awake and on its way to pop(). So no push, timer or stop is missed
\* between the pop() that found nothing and the wait.
Seeking == {w \in Workers : pc[w] \in {"loop", "pop", "lock", "ready"}} \cup (Waiting \cap notified)
SleepIsSafe ==
    \A w \in Asleep :
        /\ cont
        /\ timers # <<>> => deadline[w] # None /\ deadline[w] <= Last(timers).at
        /\ Len(tasks) <= Cardinality(Seeking)

working == [w \in Workers |-> IF pc[w] = "ended" THEN "gone"
                              ELSE IF current[w] = None THEN "idle" ELSE current[w]]

Promise == INSTANCE TaskPromise WITH
    queued <- tasks, delayed <- Range(timers), clock <- now, told <- ~cont

\* Whatever the workers, the clients and the clock do: a task begins once for each
\* push, in order and not before its time, and workers leave when nothing can begin.
KeepsPromise == Promise!Safe

\* A task that can begin while a worker is free does begin, and a worker that can
\* leave does: no wake-up is lost for good, not even one that no client sends.
IsPrompt == Promise!Prompt
=============================================================================
