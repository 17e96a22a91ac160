------------------------------ MODULE WasapiAudio ------------------------------
(***************************************************************************)
(* Audio of a Windows host (platform/windows/audio.cpp): the sink that a   *)
(* session asks for becomes the default of every role and gets the format  *)
(* that the session wants, a microphone records what the default device    *)
(* plays, whatever its channels, and turns it into the session's channels. *)
(***************************************************************************)
EXTENDS Integers, Sequences

CONSTANTS
    Roles,         \* "console" and others
    Devices, Virtual,  \* devices that play, and the one without speakers
    FrameSize,     \* of what a session gets at once, in samples of each channel
    BufferSize,    \* of the audio engine
    PacketSizes,   \* of the audio engine
    MaxSamples, MaxChanges,  \* bounds
    Nil

VARIABLES
    pc,            \* of the thread that has the sink
    default,       \* the device of each role
    format,        \* the channels of each device
    host,          \* sink_t::host
    wanted,        \* the channels of the session
    heard,         \* channels_in
    packets, event,    \* of the audio engine: the last sample of each; audio_event is set
    buffer,        \* sample_buf up to sample_buf_pos: the numbers of its samples
    recorded, taken, played,  \* the last sample of the engine, of those that were read
                   \* from it, and of the session
    changed, late, cut, \* history: the user has changed the sound; packets came while others
                   \* were read; the buffer was too small
    changes

vars == <<pc, default, format, host, wanted, heard, packets, event, buffer, recorded, taken,
          played, changed, late, cut, changes>>
sinks == <<default, format, host, wanted>>
engine == <<packets, event, recorded, taken>>
history == <<changed, late, cut, changes>>

Counts == {1, 2, 6, 8}
Init ==
    /\ pc = "start" /\ default \in [Roles -> Devices \ {Virtual}]
    /\ format \in [Devices -> Counts] /\ host = Nil /\ wanted \in Counts \ {1} /\ heard = Nil
    /\ packets = <<>> /\ event = FALSE /\ buffer = <<>> /\ recorded = 0 /\ taken = 0
    /\ played = 0 /\ changed = FALSE /\ late = FALSE /\ cut = FALSE /\ changes = 0

-----------------------------------------------------------------------------
(* audio_control_t                                                         *)

Default == default["console"]   \* default_device()

\* sink_info(): the names of the virtual sinks hold their formats.
SinkInfo ==
    /\ pc = "start" /\ host' = Default /\ pc' = "sink"
    /\ UNCHANGED <<default, format, wanted, heard, engine, buffer, played, history>>

\* set_sink(), set_format(): roles fail one by one, and a failure is told.
Endpoints(device, failed) == [r \in Roles |-> IF r \in Roles \ failed THEN device ELSE default[r]]
Formatted == [format EXCEPT ![Virtual] = wanted]
SetSink(failed) ==
    /\ pc = "sink" /\ format' = Formatted
    /\ default' = Endpoints(Virtual, failed)
    /\ pc' = IF failed = {} THEN "microphone" ELSE "restore"
    /\ UNCHANGED <<host, wanted, heard, engine, buffer, played, history>>
SetFormatFails ==
    /\ pc = "sink" /\ pc' = "restore"
    /\ UNCHANGED <<sinks, heard, engine, buffer, played, history>>
\* stop_audio_control(): best effort
Restore(failed) ==
    /\ pc = "restore" /\ default' = Endpoints(host, failed)
    /\ pc' = IF failed = {} THEN "restored" ELSE "end"
    /\ UNCHANGED <<format, host, wanted, heard, engine, buffer, played, history>>

\* The user chooses another device, or other speakers.
Choose(r, d) ==
    /\ changes < MaxChanges /\ pc \notin {"restored", "end"} /\ changes' = changes + 1
    /\ default' = [default EXCEPT ![r] = d] /\ changed' = TRUE
    /\ UNCHANGED <<pc, format, host, wanted, heard, engine, buffer, played, late, cut>>

-----------------------------------------------------------------------------
(* mic_wasapi_t                                                            *)

\* init(): the formats are tried in turn, and the engine takes the device's only.
Accepts(n) == format[Default] = n
Open ==
    /\ pc = "microphone" /\ heard' \in {n \in Counts : Accepts(n)} /\ pc' = "sample"
    /\ UNCHANGED <<sinks, engine, buffer, played, history>>
OpenFails ==
    /\ pc = "microphone" /\ pc' = "restore"
    /\ UNCHANGED <<sinks, heard, engine, buffer, played, history>>

Most(a, b) == IF a < b THEN b ELSE a
Least(a, b) == IF a < b THEN a ELSE b
Capacity == 2 * Most(BufferSize, FrameSize)

\* The engine records, as long as its own buffer has room.
Record(n) ==
    /\ pc \in {"sample", "wait", "fill"} /\ recorded + n <= MaxSamples
    /\ recorded + n - taken <= BufferSize
    /\ packets' = Append(packets, recorded + n) /\ event' = TRUE /\ recorded' = recorded + n
    /\ late' = (late \/ pc = "fill")
    /\ UNCHANGED <<pc, sinks, heard, buffer, taken, played, changed, cut, changes>>

\* sample(): the excess stays in front.
Sample ==
    /\ pc = "sample" /\ Len(buffer) >= FrameSize
    /\ played' = buffer[FrameSize] /\ buffer' = SubSeq(buffer, FrameSize + 1, Len(buffer))
    /\ UNCHANGED <<pc, sinks, heard, engine, history>>
Ask ==
    /\ pc = "sample" /\ Len(buffer) < FrameSize /\ pc' = "wait"
    /\ UNCHANGED <<sinks, heard, engine, buffer, played, history>>
\* _fill_buffer()
Wait ==
    /\ pc = "wait" /\ event /\ event' = FALSE /\ pc' = "fill"
    /\ UNCHANGED <<sinks, heard, packets, recorded, taken, buffer, played, history>>
Timeout ==
    /\ pc = "wait" /\ ~event /\ pc' = "sample"
    /\ UNCHANGED <<sinks, heard, engine, buffer, played, history>>
Copied == Least(Capacity - Len(buffer), Head(packets) - taken)
Fill ==
    /\ pc = "fill" /\ packets # <<>> /\ packets' = Tail(packets) /\ taken' = Head(packets)
    /\ buffer' = buffer \o [i \in 1 .. Copied |-> taken + i]
    /\ cut' = (cut \/ Copied < Head(packets) - taken)
    /\ UNCHANGED <<pc, sinks, heard, event, recorded, played, changed, late, changes>>
Filled ==
    /\ pc = "fill" /\ packets = <<>> /\ pc' = "sample"
    /\ UNCHANGED <<sinks, heard, engine, buffer, played, history>>
\* The device has gone, or the session ends: capture() is over in either case.
Close ==
    /\ pc \in {"sample", "fill"} /\ pc' = "restore" /\ packets' = <<>> /\ event' = FALSE
    /\ UNCHANGED <<sinks, heard, recorded, taken, buffer, played, history>>

Next ==
    \/ SinkInfo \/ SetFormatFails \/ Open \/ OpenFails \/ Sample \/ Ask \/ Wait \/ Timeout
    \/ Fill \/ Filled \/ Close
    \/ \E n \in PacketSizes : Record(n)
    \/ \E failed \in SUBSET Roles : SetSink(failed) \/ Restore(failed)
    \/ \E r \in Roles, d \in Devices : Choose(r, d)

Spec == Init /\ [][Next]_vars

-----------------------------------------------------------------------------
(* audio_pipe_t: an output, what it takes, and how much of it in           *)
(* thousandths.                                                            *)

Names == <<"FL", "FR", "FC", "LFE", "BL", "BR", "SL", "SR">>
Channels(n) == IF n = 1 THEN {"mono"} ELSE {Names[i] : i \in 1 .. n}
Same(n) == {<<c, c, 1000>> : c \in Channels(n)}
Only(n, mix) == {m \in mix : m[1] \in Channels(n)}
MonoTo(n) ==
    IF n = 2 THEN {<<"FL", "mono", 700>>, <<"FR", "mono", 700>>}
    ELSE Only(n, {<<"FL", "mono", 700>>, <<"FR", "mono", 700>>, <<"FC", "mono", 4200>>,
                  <<"LFE", "mono", 70>>, <<"BL", "mono", 400>>, <<"BR", "mono", 400>>,
                  <<"SL", "mono", 500>>, <<"SR", "mono", 500>>})
StereoTo(n) ==
    IF n = 2 THEN Same(2)
    ELSE Only(n, {<<"FL", "FL", 700>>, <<"FR", "FR", 700>>, <<"BL", "FL", 400>>, <<"BR", "FR", 400>>,
                  <<"SL", "FL", 500>>, <<"SR", "FR", 500>>}
                 \cup ({"FC"} \X {"FL", "FR"} \X {350}) \cup ({"LFE"} \X {"FL", "FR"} \X {175}))
ToStereo ==
    {<<"FL", "FL", 1000>>, <<"FL", "BL", 700>>, <<"FL", "BR", 300>>,
     <<"FR", "FR", 1000>>, <<"FR", "BL", 300>>, <<"FR", "BR", 700>>}
    \cup ({"FL", "FR"} \X {"FC"} \X {900}) \cup ({"FL", "FR"} \X {"LFE"} \X {300})
\* Both sides of to_71() take the left back speaker; to_51() takes the sides of its output.
Surround51To(n) ==
    CASE n = 2 -> ToStereo [] n = 6 -> Same(6)
      [] n = 8 -> Same(6) \cup ({"SL"} \X {"FL", "BL"} \X {500}) \cup ({"SR"} \X {"BL", "BR"} \X {500})
Surround71To(n) ==
    CASE n = 2 -> ToStereo \cup {<<"FL", "SL", 1000>>, <<"FR", "SR", 1000>>}
      [] n = 6 -> Same(6) \cup ({"FL", "BL"} \X {"output SL"} \X {300})
                          \cup ({"FR", "BR"} \X {"output SR"} \X {300})
      [] n = 8 -> Same(8)
Mix(in, out) == CASE in = 1 -> MonoTo(out) [] in = 2 -> StereoTo(out)
                  [] in = 6 -> Surround51To(out) [] in = 8 -> Surround71To(out)

-----------------------------------------------------------------------------
Labels == {"start", "sink", "microphone", "sample", "wait", "fill", "restore", "restored", "end"}
TypeOK ==
    /\ pc \in Labels
    /\ default \in [Roles -> Devices] /\ Len(buffer) <= Capacity
    /\ wanted \in Counts \ {1} /\ heard \in Counts \cup {Nil}

Capturing == pc \in {"sample", "wait", "fill"}

\* sample(), _fill_buffer(): a session gets every sample once and in order, although packets
\* and frames have different sizes; the buffer cuts only what came while it was filled.
SamplesFollow ==
    /\ cut => late
    /\ ~cut => /\ \E frames \in 0 .. played : played = frames * FrameSize
               /\ buffer = [i \in 1 .. Len(buffer) |-> played + i]
               /\ Capturing => played + Len(buffer) = taken
    /\ Capturing /\ packets = <<>> => taken = recorded

\* _fill_buffer(): nothing waits in the engine for an event that has been used up.
NothingIsLeft == packets # <<>> => event \/ pc = "fill"

\* set_sink(): a microphone that records the virtual sink has the session's channels, and
\* nobody hears on the host what a session does, in any role, unless the user wants to.
SinkIsTheSessions ==
    /\ pc \in {"microphone", "sample", "wait", "fill"} /\ ~changed => \A r \in Roles : default[r] = Virtual
    /\ heard # Nil /\ ~changed => heard = wanted
    /\ pc = "restored" /\ ~changed => \A r \in Roles : default[r] = host

\* audio_pipe_t: left and right are treated alike, every channel of the session is written,
\* and from the channels of the device only; but the two conversions between 5.1 and 7.1.
Mirror == [c \in {"FL", "FR", "FC", "LFE", "BL", "BR", "SL", "SR", "mono"} |->
    CASE c = "FL" -> "FR" [] c = "FR" -> "FL" [] c = "BL" -> "BR" [] c = "BR" -> "BL"
      [] c = "SL" -> "SR" [] c = "SR" -> "SL" [] OTHER -> c]
ChannelsAreMixed ==
    heard # Nil /\ {heard, wanted} # {6, 8} =>
        /\ {m[1] : m \in Mix(heard, wanted)} = Channels(wanted)
        /\ {m[2] : m \in Mix(heard, wanted)} \subseteq Channels(heard)
        /\ {<<Mirror[m[1]], Mirror[m[2]], m[3]>> : m \in Mix(heard, wanted)} = Mix(heard, wanted)

-----------------------------------------------------------------------------
(* The invariant of the proofs: packets follow on what was read, and there *)
(* is room for all that waits unless more of them come while it is read;   *)
(* the virtual sink has the session's format as long as it is used.        *)

PacketsFollow ==
    Capturing =>
        /\ recorded - taken <= BufferSize
        /\ \A k \in DOMAIN packets : taken < packets[k] /\ packets[k] <= recorded
        /\ \A j, k \in DOMAIN packets : j < k => packets[j] < packets[k]
        /\ packets # <<>> => packets[Len(packets)] = recorded
ThereIsRoom ==
    /\ pc = "wait" => Len(buffer) < FrameSize
    /\ pc = "fill" /\ ~late => Len(buffer) + (recorded - taken) < FrameSize + BufferSize
SamplesAreSafe ==
    /\ pc \in Labels /\ Len(buffer) <= Capacity
    /\ SamplesFollow /\ NothingIsLeft /\ PacketsFollow /\ ThereIsRoom
    /\ recorded \in Nat /\ taken \in Nat /\ played \in Nat /\ packets \in Seq(Nat) /\ buffer \in Seq(Nat)
    /\ taken <= recorded /\ event \in BOOLEAN /\ cut \in BOOLEAN /\ late \in BOOLEAN
    /\ pc \in {"start", "sink", "microphone"} =>
         packets = <<>> /\ taken = recorded /\ played = taken /\ buffer = <<>>
SinksAreSafe ==
    /\ pc \in Labels /\ default \in [Roles -> Devices] /\ format \in [Devices -> Counts]
    /\ wanted \in Counts \ {1} /\ heard \in Counts \cup {Nil} /\ changed \in BOOLEAN
    /\ SinkIsTheSessions
    /\ pc \in {"start", "sink", "microphone"} => heard = Nil
    /\ pc = "microphone" \/ Capturing => format[Virtual] = wanted
    /\ pc # "start" => host \in Devices
IInv == SamplesAreSafe /\ SinksAreSafe
===============================================================================
