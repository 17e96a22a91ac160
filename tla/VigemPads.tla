------------------------------ MODULE VigemPads ------------------------------
(***************************************************************************)
(* The controllers of platform/windows/input.cpp: a target of the ViGEm    *)
(* bus for every id that input.cpp has given out, and the rumble the bus   *)
(* reports on a thread of its own, which the task pool passes to the queue *)
(* of a client later, when the controller may have gone.                   *)
(***************************************************************************)
EXTENDS Naturals, Sequences

CONSTANTS Numbers,   \* ids of input.cpp, places of vigem_t::gamepads
          Targets,   \* addresses of targets
          Sessions,  \* whose rumble queues are given to alloc_gamepad()
          MaxTasks,  \* bound on the reports that wait
          Nil

VARIABLES owner,     \* the session whose controller has this id by input.cpp
          gp,        \* the target of each place
          rumble,    \* the rumble queue of each place
          attached,  \* targets the bus has
          noted,     \* targets whose notifications are registered
          tasks,     \* calls of vigem_t::rumble that wait in the task pool
          raised,    \* the last report that was raised
          ended      \* the program has aborted, or vigem_t is gone

vars == <<owner, gp, rumble, attached, noted, tasks, raised, ended>>

TypeOK ==
    /\ owner \in [Numbers -> Sessions \cup {Nil}] /\ gp \in [Numbers -> Targets \cup {Nil}]
    /\ rumble \in [Numbers -> Sessions \cup {Nil}]
    /\ noted \subseteq attached /\ attached \subseteq Targets
    /\ Len(tasks) <= MaxTasks /\ ended \in BOOLEAN

Init ==
    /\ owner = [n \in Numbers |-> Nil] /\ gp = owner /\ rumble = owner
    /\ attached = {} /\ noted = {} /\ tasks = <<>> /\ raised = Nil /\ ended = FALSE

-----------------------------------------------------------------------------
\* A new target may have the address of one that was freed, which reports may still name.
New(t) == t \notin {gp[n] : n \in Numbers}
Aged(t) ==
    [k \in DOMAIN tasks |-> [target |-> tasks[k].target, of |-> tasks[k].of,
                             old |-> tasks[k].old \/ tasks[k].target = t]]

\* alloc_gamepad_interal(); without notifications there is no rumble.
Alloc(n, s, t) ==
    /\ ~ended /\ owner[n] = Nil /\ New(t)
    /\ owner' = [owner EXCEPT ![n] = s]
    /\ gp' = [gp EXCEPT ![n] = t] /\ rumble' = [rumble EXCEPT ![n] = s]
    /\ attached' = attached \cup {t}
    /\ noted' \in {noted, noted \cup {t}}
    /\ tasks' = Aged(t)
    /\ UNCHANGED <<raised, ended>>

\* The bus refuses: the target stays in its place, the id is given back. (The next one to
\* get the id finds it there, where a build with assertions aborts.)
AllocFails(n, t) ==
    /\ ~ended /\ owner[n] = Nil /\ New(t)
    /\ gp' = [gp EXCEPT ![n] = t] /\ tasks' = Aged(t)
    /\ UNCHANGED <<owner, rumble, attached, noted, raised, ended>>

AfterFree(n) == [gp EXCEPT ![n] = Nil]

\* free_target(): a target that cannot be removed is freed all the same; what becomes of
\* its device is the bus's.
Free(n) ==
    /\ ~ended /\ owner[n] # Nil
    /\ owner' = [owner EXCEPT ![n] = Nil] /\ gp' = AfterFree(n)
    /\ attached' = attached \ {gp[n]} /\ noted' = noted \ {gp[n]}
    /\ UNCHANGED <<rumble, tasks, raised, ended>>

\* x360_notify() or ds4_notify(), on the thread of the bus.
Notify(n) ==
    /\ ~ended /\ gp[n] \in noted /\ Len(tasks) < MaxTasks
    /\ tasks' = Append(tasks, [target |-> gp[n], of |-> owner[n], old |-> FALSE])
    /\ UNCHANGED <<owner, gp, rumble, attached, noted, raised, ended>>

\* vigem_t::rumble(): the first place that has the target; none, if it has gone.
Rumble ==
    /\ ~ended /\ tasks # <<>>
    /\ tasks' = Tail(tasks)
    /\ LET t == Head(tasks)
           at == {n \in Numbers : gp[n] = t.target}
       IN  \/ at = {} /\ raised' = Nil
           \/ \E n \in at : /\ \A m \in at : n <= m
                            /\ raised' = [queue |-> rumble[n], number |-> n, of |-> t.of, old |-> t.old]
    /\ UNCHANGED <<owner, gp, rumble, attached, noted, ended>>

\* gamepad(): a report of a controller that the bus refuses aborts the program.
UpdateFails(n) ==
    /\ ~ended /\ owner[n] # Nil /\ ended' = TRUE
    /\ UNCHANGED <<owner, gp, rumble, attached, noted, tasks, raised>>

\* ~vigem_t: the tasks have been dropped, what is attached is removed.
Quit ==
    /\ ~ended /\ ended' = TRUE /\ tasks' = <<>>
    /\ attached' = attached \ {gp[n] : n \in Numbers} /\ noted' = {}
    /\ gp' = [n \in Numbers |-> Nil] /\ owner' = gp' /\ rumble' = gp'
    /\ UNCHANGED raised

Next ==
    \/ \E n \in Numbers : \/ \E t \in Targets : AllocFails(n, t) \/ \E s \in Sessions : Alloc(n, s, t)
                          \/ Free(n) \/ Notify(n) \/ UpdateFails(n)
    \/ Rumble \/ Quit

Spec == Init /\ [][Next]_vars

-----------------------------------------------------------------------------
\* platform/windows/input.cpp:74-144: the bus has a target for every controller, each its
\* own, and for nothing else; a report reaches the client whose controller it was about,
\* or nobody, though ids and places are used again while it waits - unless a new target
\* got the very address that it names.
RumbleReachesItsClient ==
    /\ \A n, m \in Numbers : gp[n] = gp[m] /\ gp[n] # Nil => n = m
    /\ attached = {gp[n] : n \in {m \in Numbers : owner[m] # Nil}}
    /\ raised # Nil /\ ~raised.old => raised.queue = raised.of

-----------------------------------------------------------------------------
(* The inductive invariant that the proofs of the properties use.         *)

\* A controller has a target and its session's queue. A report that waits is about the
\* controller that has its target, if any has, unless the target is another by now.
ReportsAreOfTheirs ==
    /\ \A n \in Numbers : owner[n] # Nil => gp[n] # Nil /\ rumble[n] = owner[n]
    /\ tasks \in Seq([target : Targets, of : Sessions, old : BOOLEAN])
    /\ \A k \in DOMAIN tasks, n \in Numbers :
         ~tasks[k].old /\ gp[n] = tasks[k].target => rumble[n] = tasks[k].of

IInv == TypeOK /\ ReportsAreOfTheirs /\ RumbleReachesItsClient
=============================================================================
