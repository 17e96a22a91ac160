------------------------------ MODULE X11Capture ------------------------------
(***************************************************************************)
(* Capturing a screen of X11 (x11grab.cpp).  With shared memory a task of  *)
(* the pool looks at the size of the screen every two seconds and pushes   *)
(* itself again; the display that it refers to by a plain pointer cancels  *)
(* it when it is destroyed, and again until it has caught it.  A task is   *)
(* known by its address, which the next one may get.                       *)
(***************************************************************************)
EXTENDS Naturals, Sequences, FiniteSets, Functions

CONSTANTS
    Addresses,    \* of tasks; the lowest that is free is taken
    Layouts,      \* the heights of the connected monitors, from top to bottom
    MaxDisplays, MaxResizes, MaxOthers,   \* bounds
    Nil

VARIABLES
    layout,       \* of the monitors now
    bottom,       \* where the captured rectangle ends
    disp,         \* the display: its number, or Nil
    shm,          \* it uses shared memory
    closing,      \* its destructor runs
    env, xattr,   \* env_height, and what refresh() has seen last
    refreshId,    \* refresh_task_id
    tasks,        \* in the pool: pairs of address and owner, 0 for everybody else
    running,      \* of the pool's thread: Nil, or the task, the step and the address of the next
    grabbing,     \* without shared memory: between refresh() and XGetImage()
    displays, resizes, others,
    undefined     \* history: XGetImage() had no image, or something that is freed was used

vars == <<layout, bottom, disp, shm, closing, env, xattr, refreshId, tasks, running, grabbing, displays,
          resizes, others, undefined>>
poolVars == <<refreshId, tasks, running>>
bounds == <<displays, resizes, others>>

Init ==
    /\ layout \in Layouts /\ bottom = 0 /\ disp = Nil /\ shm = FALSE /\ closing = FALSE /\ env = 0 /\ xattr = 0
    /\ refreshId = Nil /\ tasks = {} /\ running = Nil /\ grabbing = FALSE
    /\ displays = 0 /\ resizes = 0 /\ others = 0 /\ undefined = FALSE

\* Addresses in use: a task is freed when it has run.
InUse == {t[1] : t \in tasks} \cup (IF running = Nil THEN {} ELSE {running.task[1]})
Lowest(S) == CHOOSE a \in S : \A b \in S : a <= b
Fresh == Lowest(Addresses \ InUse)

\* x11_display_names(), and the height of the first monitors; the screen is that of all.
Names == 1 .. Len(layout)
Height(n) == FoldFunctionOnSet(+, 0, layout, 1 .. n)
screen == Height(Len(layout))

\* x11_display(): name 0 is the whole screen.  With shared memory the task has been pushed
\* before the monitor is looked for, so that a display without one must be closed.
Open(withShm, name) ==
    /\ disp = Nil /\ displays < MaxDisplays /\ displays' = displays + 1
    /\ name \in Names \cup {0} \/ withShm
    /\ disp' = displays' /\ shm' = withShm /\ closing' = (name \notin Names \cup {0})
    /\ env' = screen /\ xattr' = screen
    /\ bottom' = IF name \in Names THEN Height(name) ELSE screen
    /\ IF withShm THEN refreshId' = Fresh /\ tasks' = tasks \cup {<<Fresh, disp'>>}
                  ELSE UNCHANGED <<refreshId, tasks>>
    /\ UNCHANGED <<layout, running, grabbing, resizes, others, undefined>>

Rearrange(l) ==
    /\ resizes < MaxResizes /\ resizes' = resizes + 1 /\ layout' = l
    /\ UNCHANGED <<bottom, disp, shm, closing, env, xattr, poolVars, grabbing, displays, others, undefined>>

-----------------------------------------------------------------------------
(* The pool's thread.                                                      *)

PushOther ==
    /\ others < MaxOthers /\ others' = others + 1 /\ tasks' = tasks \cup {<<Fresh, 0>>}
    /\ UNCHANGED <<layout, bottom, disp, shm, closing, env, xattr, refreshId, running, grabbing, displays,
                   resizes, undefined>>
At(task, step, next) == [task |-> task, step |-> step, next |-> next]
Run(t) ==
    /\ running = Nil /\ t \in tasks /\ tasks' = tasks \ {t}
    /\ running' = At(t, IF t[2] = 0 THEN "end" ELSE "refresh", Nil)
    /\ UNCHANGED <<layout, bottom, disp, shm, closing, env, xattr, refreshId, grabbing, bounds, undefined>>
Running(step) == running # Nil /\ running.step = step
Uses == undefined' = (undefined \/ disp # running.task[2])
\* delayed_refresh()
Refresh ==
    /\ Running("refresh") /\ Uses /\ xattr' = screen /\ running' = At(running.task, "push", Nil)
    /\ UNCHANGED <<layout, bottom, disp, shm, closing, env, refreshId, tasks, grabbing, bounds>>
PushDelayed ==
    /\ Running("push") /\ running' = At(running.task, "assign", Fresh)
    /\ tasks' = tasks \cup {<<Fresh, running.task[2]>>}
    /\ UNCHANGED <<layout, bottom, disp, shm, closing, env, xattr, refreshId, grabbing, bounds, undefined>>
Assign ==
    /\ Running("assign") /\ Uses /\ refreshId' = running.next
    /\ running' = At(running.task, "end", running.next)
    /\ UNCHANGED <<layout, bottom, disp, shm, closing, env, xattr, tasks, grabbing, bounds>>
EndTask ==
    /\ Running("end") /\ running' = Nil
    /\ UNCHANGED <<layout, bottom, disp, shm, closing, env, xattr, refreshId, tasks, grabbing, bounds, undefined>>

-----------------------------------------------------------------------------
(* The capture thread.                                                     *)

\* snapshot(): with shared memory the X server refuses what is not on the screen.
SnapshotShm ==
    /\ disp # Nil /\ ~closing /\ shm
    /\ closing' = (xattr # env \/ screen < bottom)
    /\ UNCHANGED <<layout, bottom, disp, shm, env, xattr, poolVars, grabbing, bounds, undefined>>
RefreshPlain ==
    /\ disp # Nil /\ ~closing /\ ~shm /\ ~grabbing
    /\ xattr' = screen /\ closing' = (screen # env) /\ grabbing' = (screen = env)
    /\ UNCHANGED <<layout, bottom, disp, shm, env, poolVars, bounds, undefined>>
GetImage ==
    /\ grabbing /\ grabbing' = FALSE /\ undefined' = (screen < bottom)
    /\ UNCHANGED <<layout, bottom, disp, shm, closing, env, xattr, poolVars, bounds>>
\* Nobody captures any more.
Stop ==
    /\ disp # Nil /\ ~closing /\ ~grabbing /\ closing' = TRUE
    /\ UNCHANGED <<layout, bottom, disp, shm, env, xattr, poolVars, grabbing, bounds, undefined>>

\* ~shm_attr_t(): a task that cannot be cancelled runs, and will have pushed another one.
Cancelled == {t \in tasks : t[1] = refreshId}
Caught == ~shm \/ Cancelled # {}
Destroy ==
    /\ closing /\ Caught /\ disp' = Nil /\ closing' = FALSE
    /\ tasks' = IF shm THEN tasks \ Cancelled ELSE tasks
    /\ UNCHANGED <<layout, bottom, shm, env, xattr, refreshId, running, grabbing, bounds, undefined>>

Next == ~undefined /\
    (\/ PushOther \/ Refresh \/ PushDelayed \/ Assign \/ EndTask \/ SnapshotShm \/ RefreshPlain
     \/ GetImage \/ Stop \/ Destroy
     \/ \E b \in BOOLEAN, n \in 0 .. 2 : Open(b, n)
     \/ \E l \in Layouts : Rearrange(l)
     \/ \E t \in tasks : Run(t))

Spec == Init /\ [][Next]_vars

-----------------------------------------------------------------------------
TypeOK ==
    /\ tasks \subseteq Addresses \X (0 .. MaxDisplays) /\ InUse \subseteq Addresses /\ layout \in Layouts
    /\ running = Nil \/ \E t \in Addresses \X (0 .. MaxDisplays), n \in Addresses \cup {Nil},
                          i \in {"refresh", "push", "assign", "end"} : running = At(t, i, n)
    /\ displays \in 0 .. MaxDisplays /\ others \in 0 .. MaxOthers
    /\ disp = Nil \/ disp \in 1 .. displays

\* ~shm_attr_t(): no task refers to a display that is no more, whether the destructor came
\* before, while or after the task ran and pushed the next one.
RefreshEndsWithItsDisplay ==
    /\ \A t \in tasks : t[2] \in {0, disp}
    /\ running # Nil /\ running.step # "end" => running.task[2] = disp

\* The address that the display remembers, and cancels, is never that of somebody else's
\* task, although addresses are used again.
CancelHitsItsOwn ==
    disp # Nil /\ shm => \A t \in Cancelled : t[2] = disp

\* Only without shared memory can the screen shrink under a display.
OnlyPlainIsUndefined == undefined => ~shm

-----------------------------------------------------------------------------
(* What the properties rest on.                                            *)

\* Tasks are known by their addresses, which are not used twice at a time.
AddressesDiffer ==
    /\ \A t, u \in tasks : t[1] = u[1] => t = u
    /\ running # Nil => \A t \in tasks : t[1] # running.task[1]

\* There is one task for a display with shared memory, which is the one that it remembers,
\* or the one that runs until it has pushed the next, and until that one is remembered.
Mine == {t \in tasks : t[2] = disp}
Refreshing == running # Nil /\ running.step # "end"
OneRefreshes ==
    /\ Refreshing => disp # Nil /\ shm /\ running.task[2] = disp /\ refreshId = running.task[1]
    /\ disp # Nil => Mine = IF ~shm \/ Running("refresh") \/ Running("push") THEN {}
                            ELSE IF Running("assign") THEN {<<running.next, disp>>}
                            ELSE {<<refreshId, disp>>}
    /\ \A t \in tasks : t[2] \in {0, disp}

\* What the display does to itself.
DisplayIsThere ==
    /\ closing => disp # Nil
    /\ grabbing => disp # Nil /\ ~closing /\ ~shm

\* A task of the pool was pushed once for a display, or for somebody else.
TasksAreCounted ==
    /\ IsFiniteSet(tasks)
    /\ Cardinality(tasks) + (IF Running("refresh") \/ Running("push") THEN 1 ELSE 0) <= others + displays

IInv ==
    TypeOK /\ AddressesDiffer /\ OneRefreshes /\ DisplayIsThere /\ TasksAreCounted /\ OnlyPlainIsUndefined
=============================================================================
