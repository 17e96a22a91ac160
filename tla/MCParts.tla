------------------------------- MODULE MCParts -------------------------------
(* The values of the constants of Parts that a .cfg cannot write. *)
EXTENDS Parts

\* Two clients share an address.
MCAddrOf == [s \in ControlSessions |-> IF s = "s3" THEN "B" ELSE "A"]

\* Requests without and with a payload: complete, cut short, just fitting, too large, bad.
MCRequests ==
    {[header |-> 6, payload |-> m[1], length |-> m[1] + m[2], command |-> m[3], target |-> m[4],
      parsed |-> m[5]] :
        m \in {<<0, 0, "SETUP", "video", TRUE>>, <<0, 0, "SETUP", "other", TRUE>>,
               <<3, 0, "ANNOUNCE", "", TRUE>>, <<2, 1, "ANNOUNCE", "", TRUE>>,
               <<4, 0, "ANNOUNCE", "", TRUE>>, <<5, 0, "ANNOUNCE", "", TRUE>>,
               <<0, 0, "OPTIONS", "", TRUE>>, <<0, 0, "TEARDOWN", "", TRUE>>,
               <<0, 0, "OPTIONS", "", FALSE>>}}

MCIds == <<"x", "y">>

\* One option may be on the command line.
MCLines == {<<>>, << <<"o", "good">>, <<"o", "wild">> >>}
\* Enough edits to delete an application that another page has deleted.
MCSaves == {<<5, 0>>, <<0, 3>>, <<1, 1>>}

\* A name is taken on this host, and the next one on the network.
MCTaken == [here |-> {0}, network |-> {1}]

\* Two clients that use one id.
MCIdOf == [d \in PairDevices |-> "id"]

\* nvenc has no option qp for HEVC; one encoder knows H.264 only and one makes one slice only.
MCEncoders == <<"nvenc", "vaapi", "software">>
MCHasQp == {<<"nvenc", "h264">>} \cup ({"vaapi", "software"} \X {"h264", "hevc"})
MCAnswers == {{}, {"VUI_PARAMETERS", "NALU_PREFIX_5b"}}

\* Two sessions ask for the same virtual sink.
MCSinkOf == [s \in AudioSessions |-> IF s = "s3" THEN "surround51" ELSE "stereo"]

\* Two controllers of one client; the controllers of two clients.
MCPadsOfOne == {<<"s1", 1>>, <<"s1", 2>>}
MCPadsOfTwo == {<<"s1", 1>>, <<"s2", 1>>}

\* One client demands two packets of parity, others so many that the percentage is raised.
MCMinimumParity == [s \in PacketSessions |-> IF s = "a" THEN 2 ELSE 8]

\* One session may make more than the queue holds, and all of them both kinds.
MCMakes == {<<3, 0>>, <<1, 1>>, <<0, 10>>}

\* A monitor may be added, and the one that is captured grow.
MCLayouts == {<<1>>, <<1, 1>>, <<2>>}

\* The pointer is cut at either side, or beyond the desktop; it may invert what is below.
MCPlaces == {-3, -1, 6, 9}
MCShapes == {<<"transparent", "transparent", "inverse", "transparent", "transparent", "black">>,
             <<"inverse", "white", "transparent", "inverse", "inverse", "inverse">>}
=============================================================================
