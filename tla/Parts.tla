-------------------------------- MODULE Parts --------------------------------
(***************************************************************************)
(* Components that do not act on each other, side by side: a behaviour is  *)
(* one of the part that its initial state names, and v1, v2 and so on are  *)
(* the variables of that part, in the order of its module.  The parts that *)
(* are proved about take their values from the constants below, which have *)
(* the meaning they have in the part; the values of the others are here.   *)
(***************************************************************************)
EXTENDS Integers, Sequences, FiniteSets

CONSTANTS
    Nil, Torn,
    ControlSessions, AddrOf, Sealed,                    \* ControlServer
    Requests, BufferSize, Needle,                       \* RtspMessages
    AudioSessions, HostAudio, SinkOf, Speakers,         \* AudioCapture
    Roles, Players, VirtualDevice, FrameSize, EngineSize, PacketSizes, MaxSamples, MaxChoices,  \* WasapiAudio
    SyncSessions, SyncCapacity,                         \* VideoCaptureSync
    Waiters, Limits, MaxRaised,                         \* SafeQueue
    MailUsers, MailIds, MaxPosts,                       \* Mail
    StateUsers, StateDevices, MaxJobs,                  \* StateFile
    Tabs, Apps, Bad, Options, Values, Lines, MaxApps, Saves,  \* SavedFiles
    Systems, Ports, MaxSignals, MaxName, Taken,         \* Program
    PairDevices, IdOf, PairCapacity, FreshState,        \* Pairing
    PadsOfOne, PadsOfTwo, PadIds, PadDevs, PadButtons, PadUploads, PadNotes,  \* Gamepads
    VigemNumbers, VigemTargets, VigemSessions, MaxReports,  \* VigemPads
    Encoders, HasQp, Wants, H264Only, SingleSlice, Software, MinThreads, ProbeAnswers, ReplaceHeader,  \* EncoderProbe
    PacketSessions, FrameSizes, Percentages, MinimumParity, VideoSeqs, AudioSeqs, PacketCapacity, PacketMakes,  \* Packetizer
    TaskAddresses, Layouts, MaxDisplays, MaxResizes, MaxOthers,  \* X11Capture
    Outputs, CursorPlanes, OutputSizes, Buffers, Descriptors, OutputChanges, MaxPending,  \* DmabufCapture
    DesktopWidth, PointerWidth, PointerPlaces, PointerShapes, PointerColumns, DesktopChanges  \* DuplicationCapture

ASSUME ControlAssumption == Nil \notin ControlSessions
\* A request has its delimiter.
ASSUME RtspAssumption ==
    /\ BufferSize \in Nat \ {0} /\ Needle \in Nat \ {0}
    /\ \A r \in Requests : r.header \in Nat /\ r.header >= Needle /\ r.payload \in Nat /\ r.length \in Nat
ASSUME WasapiAssumption ==
    /\ "console" \in Roles /\ VirtualDevice \in Players /\ Nil \notin Nat
    /\ FrameSize \in Nat \ {0} /\ EngineSize \in Nat \ {0} /\ PacketSizes \subseteq Nat \ {0}
    /\ MaxSamples \in Nat /\ MaxChoices \in Nat
ASSUME SyncAssumption == IsFiniteSet(SyncSessions) /\ SyncCapacity \in Nat \ {0}
ASSUME QueueAssumption == Limits \subseteq Nat \ {0} /\ MaxRaised \in Nat
ASSUME MailAssumption ==
    Len(MailIds) \in Nat /\ DOMAIN MailIds = 1 .. Len(MailIds) /\ MaxPosts \in Nat /\ Nil \notin Nat
\* What is not there, or not JSON, is neither a user, nor a set of clients, nor a document.
ASSUME StateAssumption ==
    /\ Nil # Torn /\ Nil \notin StateUsers /\ \A D \in SUBSET StateDevices : D # Nil
    /\ \A r \in [creds : StateUsers \cup {Nil}, devices : (SUBSET StateDevices) \cup {Nil}] :
        /\ r # Nil /\ r # Torn
        /\ \A w \in {"creds", "devices"}, i \in {"read", "open", "write", "reload"},
              u \in StateUsers \cup {Nil} :
            [what |-> w, step |-> i, user |-> u, root |-> r] # Nil
\* The command line has numbers only.
ASSUME FilesAssumption ==
    /\ Values \subseteq {"good", "cut", "open", "wild"} /\ MaxApps \in Nat
    /\ \A c \in Lines : \A n \in DOMAIN c : c[n][2] \in {"good", "wild"}
\* There is always another name to try.
ASSUME ProgramAssumption ==
    /\ Ports \in Nat /\ MaxSignals \in Nat /\ MaxName \in Nat
    /\ MaxName \notin Taken["here"] /\ MaxName \notin Taken["network"]
ASSUME PairAssumption ==
    /\ PairCapacity \in Nat \ {0} /\ FreshState \in BOOLEAN
    /\ Nil \notin PairDevices /\ "none" \notin PairDevices /\ Nil # Torn
    /\ \A f \in [{IdOf[d] : d \in PairDevices} -> SUBSET PairDevices] : f # Nil /\ f # Torn
\* A controller is a pair of a session and a number.
ASSUME PadsAssumption ==
    /\ \A C \in {PadsOfOne, PadsOfTwo} : C \subseteq {c[1] : c \in C} \X Nat
    /\ PadIds \subseteq Nat /\ PadUploads \subseteq PadIds /\ Nil \notin PadIds /\ Nil \notin PadDevs /\ PadNotes \in Nat \ {0}
\* Only an encoder with a device is limited to one slice.
ASSUME ProbeAssumption == MinThreads \in Nat /\ Software \cap SingleSlice = {}
ASSUME VigemAssumption == MaxReports \in Nat /\ Nil \notin VigemTargets /\ Nil \notin VigemSessions
\* config.cpp keeps the percentage between 1 and 255; no client demands a negative number of
\* packets; four packets in a row have the same numbers before and after 2^16.
ASSUME PacketsAssumption ==
    /\ FrameSizes \subseteq Nat /\ Percentages \subseteq 1 .. 255
    /\ MinimumParity \in [PacketSessions -> Nat]
    /\ VideoSeqs \in Nat \ {0} /\ AudioSeqs \in Nat \ {0} /\ AudioSeqs % 4 = 0
    /\ PacketMakes \subseteq Nat \X Nat
\* There is memory for all tasks; none is not a task that runs.
ASSUME ScreenAssumption ==
    /\ Nil \notin Nat /\ MaxDisplays \in Nat /\ MaxResizes \in Nat /\ MaxOthers \in Nat
    /\ TaskAddresses \subseteq Nat /\ IsFiniteSet(TaskAddresses)
    /\ Cardinality(TaskAddresses) > MaxDisplays + MaxOthers
    /\ \A a \in TaskAddresses, d \in 0 .. MaxDisplays, n \in TaskAddresses \cup {Nil},
          i \in {"refresh", "push", "assign", "end"} : [task |-> <<a, d>>, step |-> i, next |-> n] # Nil
\* There is a descriptor for every image and both frames; none is not a display.
ASSUME DmabufAssumption ==
    /\ IsFiniteSet(Outputs) /\ Outputs = 1 .. Cardinality(Outputs)
    /\ Nil \notin OutputSizes /\ 0 \notin OutputSizes
    /\ IsFiniteSet(Buffers) /\ IsFiniteSet(Descriptors) /\ Descriptors \subseteq Nat \ {0}
    /\ Cardinality(Descriptors) >= Cardinality(Buffers) + 2
    /\ \A o \in Outputs, z \in OutputSizes, w \in BOOLEAN, e \in BOOLEAN :
        [output |-> o, meant |-> o, size |-> z, owns |-> w, over |-> e] # Nil
\* The spot of a pointer that is shown is on the desktop; none is not what a display knows.
ASSUME DesktopAssumption ==
    /\ DesktopWidth \in Nat /\ PointerWidth \in Nat /\ PointerColumns \in Nat \ {0}
    /\ \A x \in PointerPlaces : x \in Int /\ -PointerWidth <= x /\ 2 * (x - DesktopWidth) <= PointerWidth
    /\ PointerShapes \subseteq Seq({"inverse", "white", "black", "transparent"})
    /\ Nil \notin [picture : Nat \cup {Nil}, place : PointerPlaces \cup {0}, visible : BOOLEAN,
                   shape : PointerShapes \cup {Nil}, over : BOOLEAN]

VARIABLES part, v1, v2, v3, v4, v5, v6, v7, v8, v9, v10, v11, v12, v13, v14, v15, v16, v17, v18

vars == <<part, v1, v2, v3, v4, v5, v6, v7, v8, v9, v10, v11, v12, v13, v14, v15, v16, v17, v18>>

Control == INSTANCE ControlServer WITH
    Sessions <- ControlSessions,
    state <- v1, map <- v2, port <- v3, link <- v4, idr <- v5, served <- v6, rumble <- v7,
    ended <- v8, crowded <- v9

Audio == INSTANCE AudioCapture WITH
    Sessions <- AudioSessions,
    pc <- v1, encoder <- v2, shut <- v3, control <- v4, null <- v5, host <- v6, flag <- v7,
    restore <- v8, default <- v9, loaded <- v10, excused <- v11, crashed <- v12

Sync == INSTANCE VideoCaptureSync WITH
    Sessions <- SyncSessions, Capacity <- SyncCapacity,
    pc <- v1, told <- v2, joined <- v3, refs <- v4, queue <- v5, running <- v6, ctxs <- v7,
    synced <- v8, visited <- v9, cap <- v10, lost <- v11

Queue == INSTANCE SafeQueue WITH
    limit <- v1, queue <- v2, continue <- v3, asleep <- v4, call <- v5, result <- v6,
    raised <- v7, popped <- v8

Mailbox == INSTANCE Mail WITH
    Users <- MailUsers, Ids <- MailIds,
    entry <- v1, held <- v2, dying <- v3, nameOf <- v4, null <- v5

\* The controllers of the two parts differ.
Pads(All) == INSTANCE Gamepads WITH
    Ids <- PadIds, Devs <- PadDevs, Buttons <- PadButtons, Uploads <- PadUploads, Limit <- PadNotes,
    mask <- v1, id <- v2, active <- v3, flags <- v4, forcedUp <- v5, timer <- v6, task <- v7,
    frees <- v8, gone <- v9, dev <- v10, host <- v11, notes <- v12, rumble <- v13,
    effects <- v14, waiting <- v15, leaked <- v16, dropped <- v17, undefined <- v18

Probe == INSTANCE EncoderProbe WITH
    Answers <- ProbeAnswers,
    mode <- v1, wanted <- v2, left <- v3, step <- v4, caps <- v5, got <- v6, answers <- v7,
    wasted <- v8

Pair == INSTANCE Pairing WITH
    Devices <- PairDevices, Capacity <- PairCapacity,
    phase <- v1, sess <- v2, store <- v3, file <- v4, chain <- v5, added <- v6, completed <- v7,
    unsaved <- v8, overflow <- v9, disturbed <- v10, undefined <- v11

Packets == INSTANCE Packetizer WITH
    Sessions <- PacketSessions, Sizes <- FrameSizes, Minimum <- MinimumParity,
    Capacity <- PacketCapacity, Makes <- PacketMakes,
    alive <- v1, video <- v2, audio <- v3, left <- v4, percentage <- v5, lowseq <- v6,
    sequenceNumber <- v7, shards <- v8, base <- v9, frame <- v10, parity <- v11, gap <- v12,
    ended <- v13, undefined <- v14

Files == INSTANCE SavedFiles WITH
    apps <- v1, list <- v2, tab <- v3, conf <- v4, line <- v5, set <- v6, page <- v7, left <- v8

State == INSTANCE StateFile WITH
    Users <- StateUsers, Devices <- StateDevices,
    file <- v1, creds <- v2, clients <- v3, job <- v4, told <- v5, spoiled <- v6, jobs <- v7

Prog == INSTANCE Program WITH
    system <- v1, pc <- v2, told <- v3, server <- v4, pool <- v5, timers <- v6, force <- v7,
    signals <- v8, interrupted <- v9, aborted <- v10, upnp <- v11, mapped <- v12, kept <- v13,
    mdns <- v14, poll <- v15, host <- v16, group <- v17, name <- v18

Screen == INSTANCE X11Capture WITH
    Addresses <- TaskAddresses,
    layout <- v1, bottom <- v2, disp <- v3, shm <- v4, closing <- v5, env <- v6, xattr <- v7,
    refreshId <- v8, tasks <- v9, running <- v10, grabbing <- v11, displays <- v12,
    resizes <- v13, others <- v14, undefined <- v15

Dmabuf == INSTANCE DmabufCapture WITH
    Cursors <- CursorPlanes, Sizes <- OutputSizes, Images <- Buffers, MaxChanges <- OutputChanges,
    backend <- v1, outputs <- v2, listed <- v3, disp <- v4, pool <- v5, held <- v6, fd <- v7,
    file <- v8, frames <- v9, current <- v10, got <- v11, status <- v12, asking <- v13,
    pending <- v14, changes <- v15, stale <- v16, undefined <- v17

Desktop == INSTANCE DuplicationCapture WITH
    Width <- DesktopWidth, Places <- PointerPlaces, Shapes <- PointerShapes,
    Columns <- PointerColumns, MaxChanges <- DesktopChanges,
    kind <- v1, attached <- v2, lost <- v3, acquired <- v4, news <- v5, desktop <- v6,
    wanted <- v7, disp <- v8, hasFrame <- v9, shown <- v10, hidden <- v11, changes <- v12

Wasapi == INSTANCE WasapiAudio WITH
    Devices <- Players, Virtual <- VirtualDevice, BufferSize <- EngineSize, MaxChanges <- MaxChoices,
    pc <- v1, default <- v2, format <- v3, host <- v4, wanted <- v5, heard <- v6, packets <- v7,
    event <- v8, buffer <- v9, recorded <- v10, taken <- v11, played <- v12, changed <- v13,
    late <- v14, cut <- v15, changes <- v16

Rtsp == INSTANCE RtspMessages WITH
    request <- v1, left <- v2, pc <- v3, begin <- v4, crlf <- v5, answer <- v6, split <- v7

Vigem == INSTANCE VigemPads WITH
    Numbers <- VigemNumbers, Targets <- VigemTargets, Sessions <- VigemSessions, MaxTasks <- MaxReports,
    owner <- v1, gp <- v2, rumble <- v3, attached <- v4, noted <- v5, tasks <- v6,
    raised <- v7, ended <- v8

-----------------------------------------------------------------------------
\* A part of n variables does not use the others.
Starts(p, n) ==
    /\ part = p
    /\ n < 6 => v6 = Nil
    /\ n < 7 => v7 = Nil
    /\ n < 8 => v8 = Nil
    /\ n < 9 => v9 = Nil
    /\ n < 10 => v10 = Nil
    /\ n < 11 => v11 = Nil
    /\ n < 12 => v12 = Nil
    /\ n < 13 => v13 = Nil
    /\ n < 14 => v14 = Nil
    /\ n < 15 => v15 = Nil
    /\ n < 16 => v16 = Nil
    /\ n < 17 => v17 = Nil
    /\ n < 18 => v18 = Nil
Only(p, n) ==
    /\ part = p /\ UNCHANGED part
    /\ n < 6 => UNCHANGED v6
    /\ n < 7 => UNCHANGED v7
    /\ n < 8 => UNCHANGED v8
    /\ n < 9 => UNCHANGED v9
    /\ n < 10 => UNCHANGED v10
    /\ n < 11 => UNCHANGED v11
    /\ n < 12 => UNCHANGED v12
    /\ n < 13 => UNCHANGED v13
    /\ n < 14 => UNCHANGED v14
    /\ n < 15 => UNCHANGED v15
    /\ n < 16 => UNCHANGED v16
    /\ n < 17 => UNCHANGED v17
    /\ n < 18 => UNCHANGED v18

Init ==
    \/ Starts("control", 9) /\ Control!Init
    \/ Starts("audio", 12) /\ Audio!Init
    \/ Starts("sync", 11) /\ Sync!Init
    \/ Starts("queue", 8) /\ Queue!Init
    \/ Starts("mail", 5) /\ Mailbox!Init
    \/ Starts("pads", 18) /\ Pads(PadsOfOne)!Init
    \/ Starts("rivals", 18) /\ Pads(PadsOfTwo)!Init
    \/ Starts("probe", 8) /\ Probe!Init
    \/ Starts("pair", 11) /\ Pair!Init
    \/ Starts("packets", 14) /\ Packets!Init
    \/ Starts("files", 8) /\ Files!Init
    \/ Starts("state", 7) /\ State!Init
    \/ Starts("program", 18) /\ Prog!Init
    \/ Starts("screen", 15) /\ Screen!Init
    \/ Starts("dmabuf", 17) /\ Dmabuf!Init
    \/ Starts("desktop", 12) /\ Desktop!Init
    \/ Starts("wasapi", 16) /\ Wasapi!Init
    \/ Starts("rtsp", 7) /\ Rtsp!Init
    \/ Starts("vigem", 8) /\ Vigem!Init

ControlNext == Only("control", 9) /\ Control!Next
AudioNext == Only("audio", 12) /\ Audio!Next
SyncNext == Only("sync", 11) /\ Sync!Next
QueueNext == Only("queue", 8) /\ Queue!Next
MailboxNext == Only("mail", 5) /\ Mailbox!Next
PadsNext == Only("pads", 18) /\ Pads(PadsOfOne)!Next
RivalsNext == Only("rivals", 18) /\ Pads(PadsOfTwo)!Next
ProbeNext == Only("probe", 8) /\ Probe!Next
PairNext == Only("pair", 11) /\ Pair!Next
PacketsNext == Only("packets", 14) /\ Packets!Next
FilesNext == Only("files", 8) /\ Files!Next
StateNext == Only("state", 7) /\ State!Next
ProgNext == Only("program", 18) /\ Prog!Next
ScreenNext == Only("screen", 15) /\ Screen!Next
DmabufNext == Only("dmabuf", 17) /\ Dmabuf!Next
DesktopNext == Only("desktop", 12) /\ Desktop!Next
WasapiNext == Only("wasapi", 16) /\ Wasapi!Next
RtspNext == Only("rtsp", 7) /\ Rtsp!Next
VigemNext == Only("vigem", 8) /\ Vigem!Next

Next == ControlNext \/ AudioNext \/ SyncNext \/ QueueNext \/ MailboxNext \/ PadsNext
    \/ RivalsNext \/ ProbeNext \/ PairNext \/ PacketsNext \/ FilesNext \/ StateNext \/ ProgNext
    \/ ScreenNext \/ DmabufNext \/ DesktopNext \/ WasapiNext \/ RtspNext \/ VigemNext

Spec == Init /\ [][Next]_vars

-----------------------------------------------------------------------------
(* The properties of the parts, whose modules say what they mean.          *)

\* stream.cpp, controlBroadcastThread: a control connection acts for one session only,
\* which is its client's, and a session without one is left alone. rtsp.cpp: the requests
\* that set a session up are acted upon when all of them has arrived.
ClientsControlTheirSessions ==
    /\ part = "control" =>
        /\ Control!TypeOK /\ Control!ControlledByItsClient /\ Control!MessagesActForTheirClient
        /\ Control!RumbleHasAPeer /\ Control!OneSessionPerConnection
    /\ part = "rtsp" => Rtsp!TypeOK /\ Rtsp!RequestsAreHandledWhole

\* audio.cpp: the first session takes the host's sink and the last returns it with
\* everything else that capture() has created; on Windows (platform/windows/audio.cpp) in all
\* roles, and the session gets every sample once, in its own channels.
SinksGoWithTheirSessions ==
    /\ part = "audio" => /\ Audio!TypeOK /\ Audio!HostHasItsSink /\ Audio!VirtualSinksAreOwned
                        /\ Audio!OneChangesTheSink /\ Audio!EncoderIsJoined
    /\ part = "wasapi" => /\ Wasapi!TypeOK /\ Wasapi!SamplesFollow /\ Wasapi!NothingIsLeft
                         /\ Wasapi!SinkIsTheSessions /\ Wasapi!ChannelsAreMixed

\* video.cpp: the one thread that captures and encodes for all sessions neither forgets
\* one of them nor uses what belongs to one that went on.
SyncSessionsAreServed == part = "sync" =>
    /\ Sync!TypeOK /\ Sync!JoinEventIsAlive /\ Sync!ContextsAreVisited /\ Sync!WaitersAreLetGo

\* thread_safe.h: a queue that is full, stopped or waited for by several threads gives
\* what it still has, in order, and lets nobody sleep; all threads that ask the mailbox
\* for a name share one post, although posts go while others are created.
MailIsDelivered ==
    /\ [](part = "queue" => Queue!TypeOK /\ Queue!SleepIsSafe /\ Queue!NewestInOrder)
    /\ [][part = "queue" => Queue!PopInOrder]_vars
    /\ [](part = "mail" => Mailbox!TypeOK /\ Mailbox!OnePostPerName /\ Mailbox!ExpiredEntriesAreErased)
    /\ [][part = "mail" => Mailbox!NullWhileDying]_vars


\* input.cpp and platform/linux/input.cpp: a controller has an id and a device of its own,
\* which show what its client holds, and the rumble thread knows the devices; on Windows
\* (platform/windows/input.cpp) rumble reaches the client whose controller it was for.
GamepadsAreTheirOwn ==
    /\ part = "pads" => /\ Pads(PadsOfOne)!TypeOK /\ Pads(PadsOfOne)!IdsBelongToOnePad /\ Pads(PadsOfOne)!HostShowsThePad
                       /\ Pads(PadsOfOne)!RumbleKnowsTheDevices
    /\ part = "rivals" => /\ Pads(PadsOfTwo)!TypeOK /\ Pads(PadsOfTwo)!IdsBelongToOnePad /\ Pads(PadsOfTwo)!HostShowsThePad
                         /\ Pads(PadsOfTwo)!RumbleKnowsTheDevices
    /\ part = "vigem" => Vigem!TypeOK /\ Vigem!RumbleReachesItsClient

\* video.cpp, init(): what clients are offered has been tried with the settings they get.
OffersWereProbed == part = "probe" =>
    /\ Probe!TypeOK /\ Probe!OfferedWorks /\ Probe!SlicesWork /\ Probe!HeadersAreSeen
    /\ Probe!NothingIsWasted

\* nvhttp.cpp: a client that was told that it is paired is known and accepted until all
\* are unpaired, over restarts too, and one that pairs alone finds its own session.
PairedClientsAreKnown == part = "pair" =>
    /\ Pair!TypeOK /\ Pair!PairedAreKnown /\ Pair!PairedAreAccepted /\ Pair!StoreIsOnDisk
    /\ Pair!OnlyRivalsDisturb

\* stream.cpp, the broadcast threads: a client can put together what it gets, whatever is
\* sent to others: frames are cut without a gap, numbers go on and parity is that of the
\* packets it names.
PacketsAreWhole == part = "packets" =>
    /\ Packets!TypeOK /\ Packets!FramesAreWhole /\ Packets!ParityIsKnown
    /\ Packets!NumbersFollow /\ Packets!ParityIsOfItsPackets

\* The displays of each platform: what is captured belongs to the display that is open, the
\* descriptors, frames and tasks that it needs go with it, and a pointer is where it was told.
DisplaysAreCurrent ==
    /\ part = "screen" => /\ Screen!TypeOK /\ Screen!RefreshEndsWithItsDisplay
                         /\ Screen!CancelHitsItsOwn /\ Screen!OnlyPlainIsUndefined
    /\ part = "dmabuf" => /\ Dmabuf!TypeOK /\ Dmabuf!DescriptorsHaveOneOwner
                         /\ Dmabuf!FramesFitTheDisplay /\ Dmabuf!NamesFindTheirMonitor
    /\ part = "desktop" => /\ Desktop!TypeOK /\ Desktop!FramesAreReturned /\ Desktop!ShownIsCurrent
                          /\ Desktop!PointerIsClipped /\ Desktop!InverseIsOutlined

\* What clients see is what their host shows, from the display to the packets.
MediaIsWhole == PacketsAreWhole /\ DisplaysAreCurrent

\* confighttp.cpp, config.cpp, httpcommon.cpp: what the pages have saved is what the program
\* uses, at once or after its next start, and nothing else is lost by it.
WhatIsSavedIsKept ==
    /\ part = "files" => /\ Files!TypeOK /\ Files!ListIsTheFile /\ Files!EditsAreLocal
                        /\ Files!SettingsAreApplied
    /\ part = "state" => State!TypeOK /\ State!UserIsKept /\ State!ClientsAreKept

\* main.cpp, upnp.cpp, publish.cpp: the servers end together, and before the program ends
\* it has taken back what it had announced.
ProgramEndsWhole == part = "program" =>
    /\ Prog!TypeOK /\ Prog!ServersEndTogether /\ Prog!PortsAreReturned /\ Prog!LoopEndsInTime
    /\ Prog!KeyIsNotTimed /\ Prog!ServiceIsPublished
=============================================================================
