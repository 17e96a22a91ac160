---------------------------- MODULE AudioCapture ----------------------------
(***************************************************************************)
(* The audio threads of the sessions and the sink of the host              *)
(* (src/sunshine/audio.cpp, and platform/linux/audio.cpp for PulseAudio).  *)
(* The first session constructs the shared audio context, which creates    *)
(* three virtual sinks; it may replace the default sink, so that the host  *)
(* is quiet.  The last session restores the default sink and removes the   *)
(* virtual ones.  The program may crash at any time; what PulseAudio has   *)
(* been told remains.                                                      *)
(***************************************************************************)
EXTENDS FiniteSets

CONSTANTS
    Sessions,
    HostAudio,  \* sessions whose client wants audio on the host too
    SinkOf,     \* the virtual sink that the channels of a session ask for
    Speakers,   \* the default sink of the host, which has an active port
    Nil         \* no sink

Virtual == {SinkOf[s] : s \in Sessions}
Sinks == Virtual \cup {Speakers}

VARIABLES
    pc,         \* where capture() of each session is
    encoder,    \* its encodeThread
    shut,       \* sessions whose shutdown_event is raised
    control,    \* audio_ctx_t::control is there
    null,       \* all virtual sinks exist: sink_t::null has a value
    host,       \* sink_t::host
    flag,       \* audio_ctx_t::sink_flag
    restore,    \* audio_ctx_t::restore_sink
    default,    \* PulseAudio's default sink
    loaded,     \* the virtual sinks that PulseAudio has
    excused,    \* a history variable: why the default sink may be wrong: a
                \* restoring call failed, the host's sink was not known, or a crash
    crashed     \* a history variable: no session has had a control since a crash

context == <<control, null, host, flag, restore>>
pulse == <<default, loaded>>
history == <<excused, crashed>>
vars == <<pc, encoder, shut, context, pulse, history>>

\* The sessions that hold a reference to the context, and the one that is
\* destroying it, under the lock of shared_t.
Inside == {"ref", "sink", "microphone", "capture", "join", "view", "out"}
Ending == {"restore", "unload"}
Holders == {s \in Sessions : pc[s] \in Inside \cup Ending}
IsEnding == \E s \in Sessions : pc[s] \in Ending

TypeOK ==
    /\ pc \in [Sessions -> {"idle", "done"} \cup Inside \cup Ending]
    /\ encoder \in [Sessions -> {"none", "running", "ended"}]
    /\ shut \subseteq Sessions
    /\ control \in BOOLEAN /\ null \in BOOLEAN /\ host \in {Speakers, Nil}
    /\ flag \in BOOLEAN /\ restore \in BOOLEAN
    /\ default \in Sinks /\ loaded \subseteq Virtual 
    /\ excused \in BOOLEAN /\ crashed \in BOOLEAN

Init ==
    /\ pc = [s \in Sessions |-> "idle"] /\ shut = {}
    /\ encoder = [s \in Sessions |-> "none"]
    /\ control = FALSE /\ null = FALSE /\ host = Nil
    /\ flag = FALSE /\ restore = FALSE
    /\ default = Speakers /\ loaded = {}
    /\ excused = FALSE /\ crashed = FALSE

-----------------------------------------------------------------------------
(* The conditions and updates a bug would get wrong.                       *)

\* sink_flag->exchange(true): only the first to start may change the sink.
IsFirst(s) == ~flag

\* restore_sink = !config.flags[HOST_AUDIO]
MustRestore(s) == s \notin HostAudio

\* What is passed to set_sink at the end.
RestoredChosen == default
Restored == host

\* ~server_t unloads what was loaded by this process and what it has found.
Unloaded == {}

\* The fail_guard of capture() joins the encoder before the reference is dropped.
Joined(s) == encoder[s] = "ended"

-----------------------------------------------------------------------------
Goes(s, from, to) == pc[s] = from /\ pc' = [pc EXCEPT ![s] = to]

\* control_shared.ref(): start_audio_control, which gets a control, and from
\* sink_info() the host's sink, or not.  Virtual sinks that exist are found.
Construct(s) ==
    /\ Holders = {} /\ Goes(s, "idle", "ref")
    /\ flag' = FALSE /\ restore' = FALSE
    /\ \/ control' = FALSE /\ null' = FALSE /\ host' = Nil
          /\ UNCHANGED <<loaded, crashed>>
       \/ \E missing \in SUBSET (Virtual \ loaded) :
            /\ control' = TRUE /\ null' = (missing = {})
            /\ loaded' = Virtual \ missing
            /\ host' \in {Speakers, Nil}
            /\ crashed' = FALSE
    /\ UNCHANGED <<encoder, shut, default, excused>>

Ref(s) ==
    /\ Holders # {} /\ ~IsEnding /\ Goes(s, "idle", "ref")
    /\ UNCHANGED <<encoder, shut, context, pulse, history>>

\* capture(): no control, no audio; the session is left alone until it ends
NoControl(s) ==
    /\ ~control /\ Goes(s, "ref", "view")
    /\ UNCHANGED <<encoder, shut, context, pulse, history>>

\* capture(): the exchange of sink_flag
TakeFlag(s) ==
    /\ control
    /\ flag' = TRUE
    /\ \/ /\ IsFirst(s) /\ restore' = MustRestore(s)
          /\ Goes(s, "ref", IF s \in HostAudio THEN "microphone" ELSE "sink")
       \/ ~IsFirst(s) /\ Goes(s, "ref", "microphone") /\ UNCHANGED restore
    /\ UNCHANGED <<encoder, shut, control, null, host, pulse, history>>

\* capture(): set_sink; if it fails capture() returns at once
SetSink(s) ==
    /\ \/ /\ Goes(s, "sink", "microphone")
          /\ default' = IF null THEN SinkOf[s] ELSE IF host = Nil THEN default ELSE host
       \/ Goes(s, "sink", "out") /\ UNCHANGED default
    /\ UNCHANGED <<encoder, shut, context, loaded, history>>

\* capture(): the encoder thread is started, the microphone is there or not
Microphone(s) ==
    /\ Goes(s, "microphone", "capture") \/ Goes(s, "microphone", "join")
    /\ encoder' = [encoder EXCEPT ![s] = "running"]
    /\ UNCHANGED <<shut, context, pulse, history>>

\* capture(): the loop ends by the event, an error or a reinit
CaptureEnds(s) ==
    /\ Goes(s, "capture", "join")
    /\ UNCHANGED <<encoder, shut, context, pulse, history>>

\* encodeThread ends: its queue is stopped, or it fails
EncoderEnds(s) ==
    /\ encoder[s] = "running" /\ pc[s] \in {"capture", "join"}
    /\ encoder' = [encoder EXCEPT ![s] = "ended"]
    /\ UNCHANGED <<pc, shut, context, pulse, history>>

JoinEncoder(s) ==
    /\ Joined(s) /\ Goes(s, "join", "view")
    /\ UNCHANGED <<encoder, shut, context, pulse, history>>

View(s) ==
    /\ s \in shut /\ Goes(s, "view", "out")
    /\ UNCHANGED <<encoder, shut, context, pulse, history>>

Shutdown(s) ==
    /\ shut' = shut \cup {s}
    /\ UNCHANGED <<pc, encoder, context, pulse, history>>

\* capture() returns: the reference is dropped, and with the last one
\* stop_audio_control and the destructors run
Release(s) ==
    /\ ~IsEnding /\ Goes(s, "out", IF Holders = {s} THEN "restore" ELSE "done")
    /\ UNCHANGED <<encoder, shut, context, pulse, history>>

RestoreSink(s) ==
    /\ Goes(s, "restore", "unload")
    /\ \/ /\ restore /\ Restored # Nil /\ default' = Restored
          /\ excused' = FALSE
       \/ restore /\ excused' = TRUE /\ UNCHANGED default
       \/ ~restore /\ UNCHANGED <<default, excused>>
    /\ UNCHANGED <<encoder, shut, context, loaded, crashed>>

Unload(s) ==
    /\ Goes(s, "unload", "done")
    /\ loaded' = IF control THEN Unloaded ELSE loaded
    /\ control' = FALSE
    /\ UNCHANGED <<encoder, shut, null, host, flag, restore, default, history>>

\* The program is killed, and started again.
Crash ==
    /\ Holders # {}
    /\ pc' = [s \in Sessions |-> "idle"] /\ shut' = {}
    /\ encoder' = [s \in Sessions |-> "none"]
    /\ control' = FALSE /\ null' = FALSE /\ host' = Nil
    /\ flag' = FALSE /\ restore' = FALSE
    /\ excused' = TRUE /\ crashed' = TRUE
    /\ UNCHANGED pulse

Next ==
    \/ \E s \in Sessions :
         \/ Construct(s) \/ Ref(s) \/ NoControl(s) \/ TakeFlag(s) \/ SetSink(s)
         \/ Microphone(s) \/ CaptureEnds(s) \/ EncoderEnds(s) \/ JoinEncoder(s)
         \/ View(s) \/ Shutdown(s) \/ Release(s) \/ RestoreSink(s) \/ Unload(s)
    \/ Crash

Spec == Init /\ [][Next]_vars

-----------------------------------------------------------------------------
(* Properties.                                                             *)

\* Once the last session has gone the host has its sink again, whichever of the
\* sessions changed it, and whether or not others wanted the host to hear it.
HostHasItsSink == Holders = {} /\ ~excused => default = Speakers

\* No virtual sink is left behind: one that exists belongs to a control that will
\* unload it, even if it was left by an earlier process that was killed.
VirtualSinksAreOwned == loaded # {} => crashed \/ (control /\ Holders # {})

\* audio.cpp:156: only the first session may change the default sink, and while
\* it does it is on record that the sink must be restored.
OneChangesTheSink ==
    \A s, t \in Sessions : pc[s] = "sink" /\ pc[t] = "sink" => s = t /\ restore

\* The encoder thread of a session does not outlive its capture().
EncoderIsJoined ==
    \A s \in Sessions : encoder[s] = "running" => pc[s] \in {"capture", "join"}

-----------------------------------------------------------------------------
(* The invariant of the proofs: who destroys the context is the only one   *)
(* that has it, and another default sink is on record until it is restored. *)

EndsAlone == \A s \in Sessions : pc[s] \in Ending => Holders = {s}
ChangeIsOnRecord ==
    /\ \A s \in Sessions : pc[s] = "sink" => flag /\ restore
    /\ ~excused /\ default # Speakers =>
         flag /\ restore /\ Holders # {} /\ \A s \in Sessions : pc[s] # "unload"
IInv ==
    /\ TypeOK /\ EndsAlone /\ ChangeIsOnRecord /\ HostHasItsSink /\ VirtualSinksAreOwned
    /\ OneChangesTheSink /\ EncoderIsJoined
=============================================================================
