------------------------------ MODULE Gamepads ------------------------------
(***************************************************************************)
(* Gamepads of several clients: the ids that input.cpp gives them, the     *)
(* HOME button it makes of a BACK button that is held, the uinput devices  *)
(* of platform/linux/input.cpp, and the thread there that is told of each  *)
(* device, for the rumble effects an application uploads to it.            *)
(*                                                                         *)
(* One worker runs the tasks of input.cpp, so that a packet is worked on   *)
(* to its end; the rumble thread runs at the same time.                    *)
(***************************************************************************)
EXTENDS Naturals, Sequences, FiniteSets

CONSTANTS
    All,        \* pairs of an input_t object and the number of a controller
    Ids,        \* places of gamepadMask, numbers
    Devs,       \* addresses of uinput devices
    Buttons,    \* buttons a client may hold, among them "back"
    Uploads,    \* ids for which an application has effects
    Limit,      \* what rumble_queue_queue can hold
    Nil

VARIABLES
    mask,       \* gamepadMask
    id,         \* gamepad_t::id, Nil for -1
    active,     \* input_t::active_gamepad_state
    flags,      \* gamepad_t::gamepad_state.buttonFlags
    forcedUp,   \* gamepads whose back_button_state is UP (nothing sets DOWN)
    timer,      \* gamepads with a back_timeout_id that is pending
    task,       \* the packet that is worked on: how far updateGamepads() has come
    frees,      \* ids for which ~gamepad_t has pushed a task
    gone,       \* sessions that were destroyed
    dev,        \* input_raw_t::gamepads, the device of each id
    host,       \* the buttons the host sees pressed
    notes,      \* rumble_queue_queue
    rumble,     \* where the rumble thread is
    effects,    \* the devices the rumble thread knows
    waiting,    \* ids to which an application uploads an effect
    leaked,     \* history: ids whose gamepad has been given another
    dropped,    \* history: rumble_queue_queue was full
    undefined   \* history: gamepads[-1] was used

packets == <<id, active, flags, forcedUp, timer, task>>
devices == <<mask, dev, host, notes, dropped>>
thread == <<rumble, effects>>
history == <<leaked, undefined>>
vars == <<packets, devices, thread, history, frees, gone, waiting>>

Sessions == {c[1] : c \in All}
PadsOf(s) == {p \in {c[2] : c \in All} : <<s, p>> \in All}

Init ==
    /\ mask = {} /\ id = [c \in All |-> Nil] /\ active = [s \in Sessions |-> {}]
    /\ flags = [c \in All |-> {}] /\ forcedUp = {} /\ timer = {}
    /\ task = Nil /\ frees = {} /\ gone = {}
    /\ dev = [i \in Ids |-> Nil] /\ host = [i \in Ids |-> {}]
    /\ notes = <<>> /\ rumble = "check" /\ effects = {} /\ waiting = {}
    /\ leaked = {} /\ dropped = FALSE /\ undefined = FALSE

Least(S) == CHOOSE x \in S : \A y \in S : x <= y
Goes == ~undefined /\ rumble # "stopped"
-----------------------------------------------------------------------------
\* raise(): a full queue is emptied first.
Noted(n) ==
    /\ notes' = IF Len(notes) = Limit THEN <<n>> ELSE Append(notes, n)
    /\ dropped' = (dropped \/ Len(notes) = Limit)

\* free_gamepad(): the buttons are released, the device removed from the
\* notifications, the id given back.
Freed(i) ==
    /\ Noted([dev |-> dev[i], queue |-> FALSE])
    /\ dev' = [dev EXCEPT ![i] = Nil]
    /\ host' = [host EXCEPT ![i] = {}]
    /\ mask' = mask \ {i}
    /\ waiting' = waiting \ {i}

\* The controllers whose bit changes and has not been dealt with.
ChangedOf(t) ==
    {p \in PadsOf(t.session) : p >= t.next /\ (p \in active[t.session] <=> p \notin t.active)}

\* A task of passthrough() begins.
Receive(s, want, p, pressed) ==
    /\ Goes /\ task = Nil /\ s \notin gone
    /\ task' = [session |-> s, active |-> want, pad |-> p, pressed |-> pressed, next |-> Least(PadsOf(s))]
    /\ UNCHANGED <<id, active, flags, forcedUp, timer, devices, thread, history, frees, gone, waiting>>

Onward ==
    [session |-> task.session, active |-> task.active, pad |-> task.pad, pressed |-> task.pressed,
     next |-> Least(ChangedOf(task)) + 1]

\* Its id is -1 again.
AfterUnplugKept(c) == id
AfterUnplug(c) == [id EXCEPT ![c] = Nil]

\* updateGamepads(): a controller is gone.
Unplug ==
    /\ Goes /\ task # Nil /\ ChangedOf(task) # {}
    /\ LET c == <<task.session, Least(ChangedOf(task))>>
       IN  /\ c[2] \in active[c[1]]
           /\ IF id[c] = Nil
              THEN task' = Nil /\ UNCHANGED <<id, devices, waiting>>
              ELSE /\ Freed(id[c])
                   /\ id' = AfterUnplug(c)
                   /\ task' = Onward
    /\ UNCHANGED <<active, flags, forcedUp, timer, thread, history, frees, gone>>

\* What alloc_id() finds and the platform accepts is given to the controller, whose
\* id may be that of a device already, if an earlier packet has failed.
AfterPlug(c, i) == [id EXCEPT ![c] = i]

\* updateGamepads(): a controller is new.
Plug(d) ==
    /\ Goes /\ task # Nil /\ ChangedOf(task) # {} /\ mask # Ids
    /\ d \notin {dev[j] : j \in Ids}
    /\ LET c == <<task.session, Least(ChangedOf(task))>>
           i == Least(Ids \ mask)
       IN  /\ c[2] \notin active[c[1]]
           /\ mask' = mask \cup {i}
           /\ dev' = [dev EXCEPT ![i] = d]
           /\ Noted([dev |-> d, queue |-> TRUE])
           /\ leaked' = leaked \cup ({id[c]} \ {Nil})
           /\ id' = AfterPlug(c, i)
           /\ task' = Onward
    /\ UNCHANGED <<active, flags, forcedUp, timer, host, thread, undefined, frees, gone, waiting>>

\* All ids are taken, or uinput refuses: the id is free again, the packet is left.
PlugFails ==
    /\ Goes /\ task # Nil /\ ChangedOf(task) # {}
    /\ Least(ChangedOf(task)) \notin active[task.session]
    /\ task' = Nil
    /\ UNCHANGED <<id, active, flags, forcedUp, timer, devices, thread, history, frees, gone, waiting>>

\* What the client holds without the BACK button that HOME was made of.
Shown(c, pressed) == IF c \in forcedUp THEN pressed \ {"back"} ELSE pressed

\* The rest of passthrough(), after updateGamepads().
Press ==
    /\ Goes /\ task # Nil /\ ChangedOf(task) = {}
    /\ task' = Nil
    /\ active' = [active EXCEPT ![task.session] = task.active]
    /\ LET c == <<task.session, task.pad>>
           now == Shown(c, task.pressed)
       IN  IF c[2] \notin task.active \/ id[c] = Nil
           THEN UNCHANGED <<flags, forcedUp, timer, host>>
           ELSE /\ forcedUp' = IF "back" \in task.pressed THEN forcedUp ELSE forcedUp \ {c}
                /\ timer' = IF ("back" \in now) = ("back" \in flags[c]) THEN timer
                            ELSE IF "back" \in now THEN timer \cup {c} ELSE timer \ {c}
                /\ host' = [host EXCEPT ![id[c]] = now]
                /\ flags' = [flags EXCEPT ![c] = now]
    /\ UNCHANGED <<id, mask, dev, notes, dropped, thread, history, frees, gone, waiting>>

\* back_button_timeout: BACK is forced up, HOME pressed and released, on the device
\* of the id the controller has by then.
HomeOf(c) == flags[c] \ {"back", "home"}
BackTimeout(c) ==
    /\ Goes /\ task = Nil /\ c \in timer
    /\ timer' = timer \ {c}
    /\ forcedUp' = forcedUp \cup {c}
    /\ flags' = [flags EXCEPT ![c] = HomeOf(c)]
    /\ undefined' = (id[c] = Nil)
    /\ host' = [i \in Ids |-> IF i = id[c] THEN HomeOf(c) ELSE host[i]]
    /\ UNCHANGED <<id, active, task, mask, dev, notes, dropped, thread, leaked, frees, gone, waiting>>

\* The last reference to an input_t, which its delayed tasks hold too, is dropped:
\* ~gamepad_t pushes a task for each device.
Destroy(s) ==
    /\ Goes /\ s \notin gone
    /\ task # Nil => task.session # s
    /\ \A c \in timer : c[1] # s
    /\ gone' = gone \cup {s}
    /\ frees' = frees \cup ({id[<<s, p>>] : p \in PadsOf(s)} \ {Nil})
    /\ id' = [c \in All |-> IF c[1] = s THEN Nil ELSE id[c]]
    /\ UNCHANGED <<active, flags, forcedUp, timer, task, devices, thread, history, waiting>>

FreeTask(i) ==
    /\ Goes /\ task = Nil /\ i \in frees
    /\ frees' = frees \ {i}
    /\ Freed(i)
    /\ UNCHANGED <<packets, thread, history, gone>>
-----------------------------------------------------------------------------
\* broadcastRumble(): what is known after a note. One of a device that is known
\* removes it, whatever it says.
Known(n) ==
    IF n.dev \in effects THEN effects \ {n.dev}
    ELSE IF n.queue THEN effects \cup {n.dev} ELSE effects

TakeNote ==
    /\ ~undefined /\ rumble = "check" /\ notes # <<>>
    /\ effects' = Known(Head(notes))
    /\ notes' = Tail(notes)
    /\ UNCHANGED <<packets, mask, dev, host, dropped, rumble, history, frees, gone, waiting>>

StartPoll ==
    /\ ~undefined /\ rumble = "check" /\ notes = <<>> /\ effects # {}
    /\ rumble' = "poll"
    /\ UNCHANGED <<packets, devices, effects, history, frees, gone, waiting>>

\* An application uploads an effect, and waits until that has been answered.
Upload(i) ==
    /\ Goes /\ dev[i] # Nil /\ i \notin waiting
    /\ waiting' = waiting \cup {i}
    /\ UNCHANGED <<packets, devices, thread, history, frees, gone>>

\* rumbleIterate(): poll() fills in the revents of copies of polls, but it is polls
\* whose revents are looked at, and they stay zero. So no event is ever read.
Reported(ready) == {}
Iterate ==
    /\ ~undefined /\ rumble = "poll"
    /\ rumble' = "check"
    /\ waiting' = waiting \ Reported({i \in waiting : dev[i] \in effects})
    /\ UNCHANGED <<packets, devices, effects, history, frees, gone>>

\* platf_input.reset(): all devices go, the queue is stopped, the thread joined.
Quit ==
    /\ Goes /\ task = Nil
    /\ rumble' = "stopped"
    /\ dev' = [i \in Ids |-> Nil] /\ host' = [i \in Ids |-> {}]
    /\ notes' = <<>> /\ effects' = {} /\ waiting' = {}
    /\ UNCHANGED <<packets, mask, dropped, history, frees, gone>>

Next ==
    \/ \E s \in Sessions : \/ \E p \in PadsOf(s), want \in SUBSET PadsOf(s), pressed \in SUBSET Buttons :
                                 Receive(s, want, p, pressed)
                           \/ Destroy(s)
    \/ \E d \in Devs : Plug(d)
    \/ \E c \in All : BackTimeout(c)
    \/ \E i \in Ids : FreeTask(i)
    \/ \E i \in Uploads : Upload(i)
    \/ Unplug \/ PlugFails \/ Press \/ TakeNote \/ StartPoll \/ Iterate \/ Quit

\* The rumble thread runs.
Spec == Init /\ [][Next]_vars /\ WF_vars(TakeNote) /\ WF_vars(StartPoll) /\ WF_vars(Iterate)
-----------------------------------------------------------------------------
(* Properties.                                                             *)

TypeOK ==
    /\ mask \subseteq Ids /\ frees \subseteq mask /\ leaked \subseteq mask
    /\ id \in [All -> mask \cup {Nil}] /\ active \in [Sessions -> SUBSET {c[2] : c \in All}]
    /\ forcedUp \subseteq All /\ timer \subseteq All /\ gone \subseteq Sessions
    /\ dev \in [Ids -> Devs \cup {Nil}] /\ rumble \in {"check", "poll", "stopped"}
    /\ effects \subseteq Devs /\ waiting \subseteq Ids

Owned == {id[c] : c \in All} \ {Nil}

\* Every id belongs to one controller, or is about to be freed; one that an earlier
\* failure has lost stays taken, but is never given to two.
IdsBelongToOnePad ==
    /\ \A c, e \in All : id[c] = id[e] /\ id[c] # Nil => c = e
    /\ mask = Owned \cup frees \cup leaked
    /\ Goes => mask = {i \in Ids : dev[i] # Nil}

\* What the host sees of a controller is what its last packet said, or nothing yet; BACK
\* is not shown again for as long as the press that became HOME lasts.
HostShowsThePad ==
    \A c \in All : Goes /\ id[c] # Nil =>
        /\ host[id[c]] \in {{}, flags[c]}
        /\ c \in forcedUp => "back" \notin flags[c]

\* The rumble thread knows the devices that exist, as soon as it has read its notes,
\* although the address of a device that went may be that of the next.
RumbleKnowsTheDevices ==
    Goes /\ notes = <<>> /\ ~dropped => effects = {dev[i] : i \in mask}

\* "VERY important, without this you break the kernel and have to reboot due to dead
\* hanging process" (platform/linux/input.cpp:790): an upload is answered.
UploadsAreAnswered == \A i \in Ids : i \in waiting ~> (i \notin waiting \/ undefined \/ dropped)

-----------------------------------------------------------------------------
(* The inductive invariant that the proofs of the properties use.         *)

Note == [dev : Devs, queue : BOOLEAN]
ShapesOK ==
    /\ flags \in [All -> SUBSET Buttons] /\ host \in [Ids -> SUBSET Buttons]
    /\ notes \in Seq(Note) /\ Len(notes) <= Limit /\ dropped \in BOOLEAN /\ undefined \in BOOLEAN
    /\ task # Nil => /\ task.session \in Sessions /\ task.active \in SUBSET PadsOf(task.session)
                     /\ task.pad \in PadsOf(task.session) /\ task.pressed \in SUBSET Buttons

\* An id has one fate, and a device one id; what is not given out shows nothing.
IdsHaveOneFate ==
    /\ Owned \cap frees = {} /\ Owned \cap leaked = {} /\ frees \cap leaked = {}
    /\ \A i, j \in Ids : dev[i] = dev[j] /\ dev[i] # Nil => i = j
    /\ \A i \in Ids \ mask : host[i] = {}
    /\ \A c \in forcedUp : "back" \notin flags[c]

\* The notes that wait lead from the devices that are known to those that exist: one at a time
\* comes or goes, so that a note of a device that is known is always one of its end.
Present == {dev[i] : i \in mask}
Leads(path) ==
    /\ path[0] = effects /\ path[Len(notes)] = Present
    /\ \A k \in 1 .. Len(notes) :
         LET n == notes[k] IN
         IF n.queue THEN n.dev \notin path[k - 1] /\ path[k] = path[k - 1] \cup {n.dev}
         ELSE n.dev \in path[k - 1] /\ path[k] = path[k - 1] \ {n.dev}
NotesLeadThere == Goes /\ ~dropped => \E path \in [0 .. Len(notes) -> SUBSET Devs] : Leads(path)

IInv ==
    /\ TypeOK /\ ShapesOK /\ IdsBelongToOnePad /\ IdsHaveOneFate /\ HostShowsThePad
    /\ NotesLeadThere
=============================================================================
