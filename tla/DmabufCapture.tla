----------------------------- MODULE DmabufCapture -----------------------------
(***************************************************************************)
(* Capturing frames as DMA buffers on Linux, of the planes of a card       *)
(* (kmsgrab.cpp) or from a compositor of Wayland (wlgrab.cpp, wayland.cpp). *)
(* A frame is a file descriptor: the image that an encoder gets owns it    *)
(* and closes it, and so do the two frames of the compositor's answers.    *)
(***************************************************************************)
EXTENDS Naturals, Sequences, FiniteSets

CONSTANTS
    Outputs,      \* planes or monitors: 1 .. n
    Cursors,      \* planes for a pointer
    Sizes,        \* of a frame; an output that is off has 0
    Images,
    Descriptors,  \* numbers above 0; the lowest that is free is taken
    MaxChanges, MaxPending,   \* bounds
    Nil

VARIABLES
    backend,      \* "kms" or "wlr"
    outputs,      \* their sizes now
    listed,       \* the outputs that the names 0, 1 and so on stood for
    disp,         \* the display, or Nil
    pool, held,   \* images of the capture thread, and of encoders
    fd,           \* of an image, 0 for -1
    file,         \* of a descriptor: the size of its frame, or Nil
    frames, current, got,     \* of dmabuf_t: descriptors, current_frame and its size
    status, asking, pending,  \* of dmabuf_t; snapshot() runs; requests without an answer
    changes,
    stale, undefined  \* history: an image names what is closed; a null pointer was used

vars == <<backend, outputs, listed, disp, pool, held, fd, file, frames, current, got, status,
          asking, pending, changes, stale, undefined>>
world == <<backend, outputs, listed, changes>>
images == <<pool, held, fd>>
dmabuf == <<frames, current, got, status, asking, pending>>

Off == 0
Init ==
    /\ backend \in {"kms", "wlr"} /\ outputs \in [Outputs -> Sizes \cup {Off}] /\ listed = <<>>
    /\ disp = Nil /\ pool = {} /\ held = {} /\ fd = [i \in Images |-> 0]
    /\ file = [d \in Descriptors |-> Nil] /\ asking = FALSE
    /\ frames = <<0, 0>> /\ got = 0 /\ current = 1 /\ status = "ready" /\ pending = 0
    /\ changes = 0 /\ stale = FALSE /\ undefined = FALSE

\* dmabuf_t()
FreshDmabuf ==
    frames' = <<0, 0>> /\ got' = 0 /\ current' = 1 /\ status' = "ready" /\ pending' = 0

\* open(2) and close(2), of a set of numbers.
Free(f) == {d \in Descriptors : f[d] = Nil}
Fresh(f) == CHOOSE d \in Free(f) : \A e \in Free(f) : d <= e
Closed(f, S) == [d \in Descriptors |-> IF d \in S THEN Nil ELSE f[d]]

-----------------------------------------------------------------------------
(* The names of the outputs, and opening one of them.                      *)

Plane(o) == outputs[o] # Off /\ o \notin Cursors
Connected(o) == outputs[o] # Off
IsMonitor(o) == IF backend = "kms" THEN Plane(o) ELSE Connected(o)
\* kms_display_names(), wl_display_names(): the monitors among the first outputs.
MonitorsUpTo ==
    LET names[n \in 0 .. Cardinality(Outputs)] ==
            IF n = 0 THEN <<>>
            ELSE IF IsMonitor(n) THEN Append(names[n - 1], n) ELSE names[n - 1]
    IN  names
Names == MonitorsUpTo[Cardinality(Outputs)]
List ==
    /\ disp = Nil
    /\ listed' = Names
    /\ UNCHANGED <<backend, outputs, changes, disp, images, file, dmabuf, stale, undefined>>

\* display_t::init() counts the planes that are no cursor; wlr_t::init() takes the first
\* monitor when there are not as many, and there must be one.
Before(o) == Cardinality({p \in Outputs : p < o /\ IsMonitor(p)})
At(n) == {o \in Outputs : IsMonitor(o) /\ Before(o) = n}
Found(n) == IF backend = "wlr" /\ At(n) = {} THEN At(0) ELSE At(n)
Opened(o, meant, size, owns, over) ==
    [output |-> o, meant |-> meant, size |-> size, owns |-> owns, over |-> over]
OpenDisplay(n, owns) ==
    /\ disp = Nil /\ n < Len(listed)
    /\ undefined' = (backend = "wlr" /\ At(0) = {})
    /\ \/ Found(n) = {} /\ UNCHANGED <<disp, pool>>
       \/ \E o \in Found(n) :
            /\ disp' = Opened(o, listed[n + 1], outputs[o], owns, FALSE)
            /\ pool' = Images \ held
    /\ FreshDmabuf /\ UNCHANGED <<world, held, fd, file, asking, stale>>

\* The images of the pool and the display go: ~img_descriptor_t(), ~dmabuf_t().
CloseDisplay ==
    /\ disp # Nil /\ ~asking /\ disp' = Nil /\ pool' = {}
    /\ file' = Closed(file, {fd[i] : i \in Images \ held} \cup {frames[1], frames[2]})
    /\ fd' = [i \in Images |-> IF i \in held THEN fd[i] ELSE 0] /\ FreshDmabuf
    /\ UNCHANGED <<world, held, asking, stale, undefined>>

-----------------------------------------------------------------------------
(* kms: display_vram_t and display_ram_t                                   *)

Captures(b) == backend = b /\ disp # Nil /\ ~disp.over
Idle(i) == i \in pool \ held
Over == disp' = Opened(disp.output, disp.meant, disp.size, disp.owns, TRUE)   \* capture() returns

\* snapshot(): the image closes its frame and names the plane's, which refresh() finds to be
\* of another size when it has told the image, while the caller's copy closes it.
Reset(i) == Closed(file, {fd[i]})
Exported(i) == [Reset(i) EXCEPT ![Fresh(Reset(i))] = outputs[disp.output]]
Refreshed(i) ==
    /\ undefined' = (outputs[disp.output] = Off)
    /\ IF outputs[disp.output] = disp.size THEN held' = held \cup {i} /\ UNCHANGED disp
                                           ELSE Over /\ UNCHANGED held
SnapshotVram(i) ==
    /\ Captures("kms") /\ Idle(i) /\ disp.owns /\ Refreshed(i)
    /\ IF undefined' THEN UNCHANGED <<file, fd, stale>>
       ELSE /\ file' = IF outputs[disp.output] = disp.size THEN Exported(i) ELSE Reset(i)
            /\ fd' = [fd EXCEPT ![i] = Fresh(Reset(i))]
            /\ stale' = (stale \/ outputs[disp.output] # disp.size)
    /\ UNCHANGED <<world, pool, dmabuf>>
\* display_ram_t: the frame is copied, and closed at once.
SnapshotRam(i) ==
    /\ Captures("kms") /\ Idle(i) /\ ~disp.owns /\ Refreshed(i)
    /\ UNCHANGED <<world, pool, fd, file, dmabuf, stale>>
\* drmPrimeHandleToFD() fails.
SnapshotFails(i) ==
    /\ Captures("kms") /\ Idle(i) /\ disp.owns /\ outputs[disp.output] # Off
    /\ file' = Reset(i) /\ fd' = [fd EXCEPT ![i] = 0] /\ Over
    /\ UNCHANGED <<world, pool, held, dmabuf, stale, undefined>>

-----------------------------------------------------------------------------
(* wlr: dmabuf_t, whose callbacks run in roundtrip()                       *)

Listen ==
    /\ Captures("wlr") /\ ~asking /\ pool \ held # {} /\ pending < MaxPending
    /\ status' = "waiting" /\ asking' = TRUE /\ pending' = pending + 1
    /\ UNCHANGED <<world, disp, images, file, frames, current, got, stale, undefined>>

NextFrame == 3 - current   \* get_next_frame()
\* frame(), object() and ready(), for this request or one that had timed out
Received == [file EXCEPT ![Fresh(file)] = outputs[disp.output]]
Ready ==
    /\ asking /\ pending > 0 /\ outputs[disp.output] # Off /\ pending' = pending - 1
    /\ frames' = [frames EXCEPT ![NextFrame] = Fresh(file), ![current] = 0]
    /\ file' = Closed(Received, {frames[current]})
    /\ got' = outputs[disp.output]
    /\ current' = NextFrame /\ status' = "ready"
    /\ UNCHANGED <<world, disp, images, asking, stale, undefined>>
Cancel ==
    /\ asking /\ pending > 0 /\ pending' = pending - 1 /\ status' = "reinit"
    /\ frames' = [frames EXCEPT ![NextFrame] = 0] /\ file' = Closed(file, {frames[NextFrame]})
    /\ UNCHANGED <<world, disp, images, got, current, asking, stale, undefined>>
\* The time is looked at before the answer.
Timeout ==
    /\ asking /\ asking' = FALSE
    /\ UNCHANGED <<world, disp, images, file, frames, current, got, status, pending, stale,
                   undefined>>

\* snapshot() after its loop: the image closes what it had and takes the frame over, or the
\* frame is copied and stays with dmabuf_t.
Fits == status = "ready" /\ got = disp.size
Delivered(i) ==
    /\ asking /\ status # "waiting" /\ Idle(i) /\ asking' = FALSE
    /\ IF Fits THEN held' = held \cup {i} /\ UNCHANGED disp ELSE Over /\ UNCHANGED held
AnsweredVram(i) ==
    /\ Delivered(i) /\ disp.owns
    /\ IF Fits THEN /\ file' = Closed(file, {fd[i]})
                    /\ fd' = [fd EXCEPT ![i] = frames[current]]
                    /\ frames' = [frames EXCEPT ![current] = 0]
               ELSE UNCHANGED <<file, fd, frames>>
    /\ UNCHANGED <<world, pool, got, current, status, pending, stale, undefined>>
AnsweredRam(i) ==
    /\ Delivered(i) /\ ~disp.owns
    /\ UNCHANGED <<world, pool, fd, file, frames, got, current, status, pending, stale, undefined>>

-----------------------------------------------------------------------------
(* Encoders, and the rest of the world.                                    *)

\* An image that the capture thread has let go of is destroyed by its last encoder.
Release(i) ==
    /\ i \in held /\ held' = held \ {i}
    /\ IF i \in pool THEN UNCHANGED <<fd, file>>
       ELSE fd' = [fd EXCEPT ![i] = 0] /\ file' = Closed(file, {fd[i]})
    /\ UNCHANGED <<world, disp, pool, dmabuf, stale, undefined>>
Change(o, size) ==
    /\ changes < MaxChanges /\ changes' = changes + 1 /\ outputs' = [outputs EXCEPT ![o] = size]
    /\ listed' = <<>> /\ UNCHANGED <<backend, disp, images, file, dmabuf, stale, undefined>>

Next == ~undefined /\
    (\/ List \/ CloseDisplay \/ Listen \/ Ready \/ Cancel \/ Timeout
     \/ \E n \in 0 .. Cardinality(Outputs), owns \in BOOLEAN : OpenDisplay(n, owns)
     \/ \E i \in Images : SnapshotVram(i) \/ SnapshotRam(i) \/ SnapshotFails(i)
                         \/ AnsweredVram(i) \/ AnsweredRam(i) \/ Release(i)
     \/ \E o \in Outputs, s \in Sizes \cup {Off} : Change(o, s))

Spec == Init /\ [][Next]_vars

-----------------------------------------------------------------------------
TypeOK ==
    /\ outputs \in [Outputs -> Sizes \cup {Off}]
    /\ fd \in [Images -> Descriptors \cup {0}] /\ frames \in [{1, 2} -> Descriptors \cup {0}]
    /\ file \in [Descriptors -> Sizes \cup {Nil}] /\ current \in {1, 2}
    /\ pool \cup held \subseteq Images /\ status \in {"waiting", "ready", "reinit"}
    /\ disp = Nil \/ (disp.output \in Outputs /\ disp.size \in Sizes /\ disp.owns \in BOOLEAN)

\* snapshot(), ready(), cancel() and the destructors: every descriptor that is open has one
\* owner, which will close it, and no owner names one that is closed; until a plane of KMS
\* changes its size.
Owners(d) == {<<"image", i>> : i \in {j \in Images : fd[j] = d}}
        \cup {<<"frame", f>> : f \in {g \in {1, 2} : frames[g] = d}}
DescriptorsHaveOneOwner == ~stale =>
    \A d \in Descriptors : Cardinality(Owners(d)) = IF file[d] = Nil THEN 0 ELSE 1

\* snapshot(): the frame that an encoder works on is open, and of the size that the display
\* was opened with, however many requests the compositor answers at once.
FramesFitTheDisplay ==
    disp # Nil /\ disp.owns => \A i \in held \cap pool : fd[i] # 0 /\ (~stale => file[fd[i]] = disp.size)

\* kms_display_names() and display_t::init() count alike: a name opens the monitor that it
\* stood for, unless one has changed in between.
NamesFindTheirMonitor == disp # Nil => disp.output = disp.meant

-----------------------------------------------------------------------------
(* What the properties rest on.                                            *)

\* What is open has an owner, so that there is a descriptor for the next frame; between two
\* displays dmabuf_t has none.
OpenAreOwned ==
    /\ \A d \in Descriptors : file[d] # Nil => frames[current] = d \/ \E i \in Images : fd[i] = d
    /\ frames[NextFrame] = 0
    /\ disp = Nil => frames[current] = 0

\* What is owned is open, and owned once.
OwnedAreOpen == ~stale =>
    /\ frames[current] # 0 => file[frames[current]] # Nil
    /\ \A i \in Images : fd[i] # 0 =>
        /\ file[fd[i]] # Nil /\ frames[current] # fd[i]
        /\ \A j \in Images : fd[j] = fd[i] => j = i

\* While snapshot() looks for an answer the one that has come is there.
AnswersAreKept ==
    /\ asking => backend = "wlr" /\ disp # Nil
    /\ asking /\ status = "ready" => frames[current] # 0 /\ (~stale => file[frames[current]] = got)

\* The names are those of the monitors that are there now.
NamesAreCurrent == listed = <<>> \/ listed = Names

IInv ==
    /\ TypeOK /\ OpenAreOwned /\ OwnedAreOpen /\ AnswersAreKept /\ FramesFitTheDisplay
    /\ NamesAreCurrent /\ NamesFindTheirMonitor
=============================================================================
