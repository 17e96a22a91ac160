\* All parts.
CONSTANTS
    Nil = Nil
    Torn = Torn
    \* every message is encrypted
    ControlSessions = {"s1", "s2", "s3"}
    AddrOf <- MCAddrOf
    Sealed = TRUE
    Requests <- MCRequests
    BufferSize = 10
    Needle = 4
    \* the queue of contexts can be full
    SyncSessions = {"s1", "s2", "s3"}
    SyncCapacity = 2
    \* an event and a queue of two places
    Waiters = {"a", "b"}
    Limits = {1, 2}
    MaxRaised = 4
    MailUsers = {"a", "b", "c"}
    MailIds <- MCIds
    MaxPosts = 4
    StateUsers = {"u", "v"}
    StateDevices = {"d", "e"}
    MaxJobs = 4
    \* two pages are open; one application cannot be read
    Tabs = {"t1", "t2"}
    Apps = {"a", "b", "bad"}
    Bad = {"bad"}
    Options = {"o", "p"}
    Values = {"good", "cut", "open", "wild"}
    Lines <- MCLines
    MaxApps = 2
    Saves <- MCSaves
    Systems = {"linux", "windows"}
    Ports = 2
    MaxSignals = 2
    MaxName = 3
    Taken <- MCTaken
    PairDevices = {"d1", "d2"}
    IdOf <- MCIdOf
    PairCapacity = 1
    FreshState = FALSE
    PadsOfOne <- MCPadsOfOne
    PadsOfTwo <- MCPadsOfTwo
    PadIds = {1, 2}
    PadDevs = {"d1", "d2"}
    PadButtons = {"back"}
    PadUploads = {1}
    PadNotes = 2
    \* one report may wait while ids, places and an address are used again
    VigemNumbers = {1, 2}
    VigemTargets = {"p", "q"}
    VigemSessions = {"s1", "s2"}
    MaxReports = 1
    Encoders <- MCEncoders
    HasQp <- MCHasQp
    Wants = {{"nvenc", "vaapi", "software"}, {"vaapi"}}
    H264Only = {"software"}
    SingleSlice = {"vaapi"}
    Software = {"software"}
    MinThreads = 2
    ProbeAnswers <- MCAnswers
    ReplaceHeader = FALSE
    \* one session also wants audio on the host
    AudioSessions = {"s1", "s2", "s3"}
    HostAudio = {"s2"}
    SinkOf <- MCSinkOf
    Speakers = "speakers"
    \* the user changes a device once
    Roles = {"console", "talk"}
    Players = {"speakers", "virtual"}
    VirtualDevice = "virtual"
    FrameSize = 3
    EngineSize = 4
    PacketSizes = {2}
    MaxSamples = 12
    MaxChoices = 1
    \* frames around the limits of a packet and of one block, with parity that is rounded, too
    \* large for parity, and too large for 10 bits
    PacketSessions = {"a", "b"}
    FrameSizes = {1000, 1001, 90712, 90713, 257040, 607816, 771120, 3093552}
    Percentages = {1, 20, 255}
    MinimumParity <- MCMinimumParity
    VideoSeqs = 400
    AudioSeqs = 8
    PacketCapacity = 2
    PacketMakes <- MCMakes
    TaskAddresses = {1, 2, 3, 4, 5, 6}
    Layouts <- MCLayouts
    MaxDisplays = 3
    MaxResizes = 2
    MaxOthers = 2
    \* two images are enough for one to stay with an encoder when the display is opened again
    Outputs = {1, 2}
    CursorPlanes = {1}
    OutputSizes = {1, 2}
    Buffers = {"i", "j"}
    Descriptors = {1, 2, 3, 4}
    OutputChanges = 1
    MaxPending = 2
    DesktopWidth = 8
    PointerWidth = 3
    PointerPlaces <- MCPlaces
    PointerShapes <- MCShapes
    PointerColumns = 3
    DesktopChanges = 3
SPECIFICATION Spec
INVARIANTS
    ClientsControlTheirSessions
    SinksGoWithTheirSessions
    SyncSessionsAreServed
    GamepadsAreTheirOwn
    OffersWereProbed
    PairedClientsAreKnown
    MediaIsWhole
    WhatIsSavedIsKept
    ProgramEndsWhole
PROPERTIES
    MailIsDelivered
CHECK_DEADLOCK FALSE
