---------------------------- MODULE EncoderProbe ----------------------------
(***************************************************************************)
(* How video.cpp finds an encoder and what it can do: init(),              *)
(* validate_encoder(), validate_config() and make_session().  One encoder  *)
(* after another is asked to encode a picture with some settings; what it  *)
(* answers sets capabilities, which decide what make_session() opens the   *)
(* next time, and in the end for clients.  The assumption is that an       *)
(* encoder that is asked the same again answers the same.                  *)
(***************************************************************************)
EXTENDS Naturals, Sequences, FiniteSets

CONSTANTS
    Encoders,      \* the table, in order
    HasQp,         \* pairs of an encoder and a codec that has the option qp
    Wants,         \* sets of encoders that config::video.encoder may allow
    H264Only,      \* encoders with this flag
    SingleSlice,   \* encoders with the flag SINGLE_SLICE_ONLY
    Software,      \* encoders without a device
    MinThreads,    \* config::video.min_threads
    Answers,       \* what validate_config() may return, Failed apart
    ReplaceHeader  \* FORCE_VIDEO_HEADER_REPLACE

VARIABLES
    mode,     \* config::video.hevc_mode
    wanted,   \* the encoders that config::video.encoder allows
    left,     \* encoders
    step,     \* where validate_encoder() is
    caps,     \* the capabilities of h264 and hevc
    got,      \* max_ref_frames and autoselect of the codec that is tested
    answers,  \* what the first encoder has answered so far
    wasted    \* history: encoders that were given up although h264 works

vars == <<mode, wanted, left, step, caps, got, answers, wasted>>

Codecs == {"h264", "hevc"}
Headers == {"VUI_PARAMETERS", "NALU_PREFIX_5b"}
Flags == Headers \cup {"PASSED", "REF_FRAMES_RESTRICT", "REF_FRAMES_AUTOSELECT", "CBR",
                       "DYNAMIC_RANGE", "SLICE"}
Failed == {"-1"}
Front == Head(left)

\* Settings of a client, and of the probe: reference frames, slices, dynamic range.
Ask(r, n, d) == [refs |-> r, slices |-> n, hdr |-> d]
MaxRefFrames == Ask(1, 1, FALSE)
Autoselect == Ask(0, 1, FALSE)
TestOf == [DYNAMIC_RANGE |-> Ask(0, 1, TRUE), SLICE |-> Ask(1, 2, FALSE)]

Restart == /\ caps' = [c \in Codecs |-> Flags] /\ step' = <<"begin", "h264">>
           /\ answers' = <<>>

Init ==
    /\ mode \in 0..3
    /\ wanted \in Wants
    /\ left = Encoders /\ step = <<"begin", "h264">>
    /\ caps = [c \in Codecs |-> Flags] /\ got = <<Failed, Failed>> /\ answers = <<>>
    /\ wasted = {}

-----------------------------------------------------------------------------
\* make_session(): what it refuses before it opens anything.
Refused(c, k) ==
    \/ "PASSED" \notin caps[c]
    \/ k.hdr /\ "DYNAMIC_RANGE" \notin caps[c]
    \/ "CBR" \notin caps[c] /\ <<Front, c>> \notin HasQp

\* make_session(): what it opens.  A processor works on min_threads slices at least.
SlicesOf(n) == IF Front \in Software /\ MinThreads > n THEN MinThreads ELSE n
RefsAsked(c, k) == IF "REF_FRAMES_RESTRICT" \in caps[c] THEN k.refs ELSE 0
Opened(c, k) ==
    [codec |-> c, hdr |-> k.hdr,
     rate |-> IF "CBR" \in caps[c] THEN "cbr" ELSE "qp",
     refs |-> IF k.refs # 0 THEN RefsAsked(c, k)
              ELSE IF "REF_FRAMES_AUTOSELECT" \in caps[c] THEN 0 ELSE 16,
     slices |-> IF "SLICE" \in caps[c] THEN SlicesOf(k.slices) ELSE 1]

\* validate_config() returns r.
Validate(c, k, r) ==
    IF Refused(c, k) THEN r = Failed /\ UNCHANGED answers
    ELSE LET q == Opened(c, k)
         IN  IF q \in DOMAIN answers THEN r = answers[q] /\ UNCHANGED answers
             ELSE answers' = [x \in DOMAIN answers \cup {q} |-> IF x = q THEN r ELSE answers[x]]

\* C's view of the result: -1 has every bit, and is not false.
HasBit(r, f) == r = Failed \/ f \in r
IsTrue(r) == r # {}

Set(c, f, holds) == [caps EXCEPT ![c] = IF holds THEN @ \cup {f} ELSE @ \ {f}]

ForceHevc == mode >= 2
TestHevc == ForceHevc \/ (mode = 0 /\ Front \notin H264Only)

\* fail_guard, and the loop of init(): on to the next encoder.
GiveUp ==
    /\ wasted' = IF \E q \in DOMAIN answers : q.codec = "h264" /\ answers[q] # Failed
                 THEN wasted \cup {Front} ELSE wasted
    /\ left' = Tail(left) /\ Restart /\ UNCHANGED <<mode, wanted, got>>

Keep == UNCHANGED <<mode, wanted, left, wasted>>
-----------------------------------------------------------------------------
Skip ==
    /\ step[1] = "begin" /\ left # <<>> /\ Front \notin wanted
    /\ left' = Tail(left)
    /\ UNCHANGED <<mode, wanted, step, caps, got, answers, wasted>>

Begin ==
    /\ step[1] = "begin" /\ left # <<>> /\ Front \in wanted
    /\ caps' = [h264 |-> Flags, hevc |-> IF TestHevc THEN Flags ELSE Flags \ {"PASSED"}]
    /\ step' = <<"max", "h264">> /\ UNCHANGED <<got, answers>> /\ Keep

Max(c, r) ==
    /\ step = <<"max", c>> /\ Validate(c, MaxRefFrames, r)
    /\ got' = <<r, got[2]>> /\ step' = <<"auto", c>> /\ UNCHANGED caps /\ Keep

Auto(c, r) ==
    /\ step = <<"auto", c>> /\ Validate(c, Autoselect, r)
    /\ got' = <<got[1], r>> /\ step' = <<"decide", c>> /\ UNCHANGED caps /\ Keep

BothFailed == got = <<Failed, Failed>>
CanRetry(c) == <<Front, c>> \in HasQp /\ "CBR" \in caps[c]

\* "It's possible the encoder isn't accepting Constant Bit Rate"
Retry(c) ==
    /\ step = <<"decide", c>> /\ BothFailed /\ CanRetry(c)
    /\ caps' = [caps EXCEPT ![c] = Flags \ {"CBR"}]
    /\ step' = <<"max", c>> /\ UNCHANGED <<got, answers>> /\ Keep

Fail(c) ==
    /\ step = <<"decide", c>> /\ BothFailed /\ ~CanRetry(c)
    /\ c = "h264" \/ ForceHevc
    /\ GiveUp

\* The capabilities that the two answers show.
BaseCaps(c) ==
    (caps[c] \ (Headers \cup {"PASSED", "REF_FRAMES_RESTRICT", "REF_FRAMES_AUTOSELECT"}))
        \cup {f \in Headers : HasBit(got[1], f) /\ HasBit(got[2], f)}
        \cup (IF got[1] # Failed THEN {"REF_FRAMES_RESTRICT"} ELSE {})
        \cup (IF got[2] # Failed THEN {"REF_FRAMES_AUTOSELECT"} ELSE {})
        \cup (IF c = "h264" \/ ~BothFailed THEN {"PASSED"} ELSE {})

Decide(c) ==
    /\ step = <<"decide", c>>
    /\ BothFailed => c = "hevc" /\ ~CanRetry(c) /\ ~ForceHevc
    /\ caps' = [caps EXCEPT ![c] = BaseCaps(c)]
    /\ step' = IF c = "h264" THEN <<"slice", c>> ELSE <<"DYNAMIC_RANGE", "h264">>
    /\ got' = <<Failed, Failed>> /\ UNCHANGED answers /\ Keep

\* h264[SLICE] = validate_config(...), an int that becomes a bool
FirstSlice(r) ==
    /\ step = <<"slice", "h264">> /\ Validate("h264", MaxRefFrames, r)
    /\ caps' = Set("h264", "SLICE", IsTrue(r))
    /\ step' = IF TestHevc THEN <<"max", "hevc">> ELSE <<"DYNAMIC_RANGE", "h264">>
    /\ UNCHANGED got /\ Keep

\* The loop over configs: a flag is what the test of it says.
SupportedAsInt(r) == IsTrue(r)
Supported(r) == r # Failed
AfterFlag(f, c) ==
    IF c = "h264" /\ "PASSED" \in caps["hevc"] THEN <<f, "hevc">>
    ELSE IF f = "DYNAMIC_RANGE" /\ Front \notin SingleSlice THEN <<"SLICE", "h264">>
    ELSE <<"end", "h264">>

TestFlag(f, c, r) ==
    /\ step = <<f, c>> /\ Validate(c, TestOf[f], r)
    /\ caps' = Set(c, f, Supported(r))
    /\ step' = AfterFlag(f, c) /\ UNCHANGED got /\ Keep

\* The rest of validate_encoder() and of init().
Lost == (IF Front \in SingleSlice THEN {"SLICE"} ELSE {})
          \cup (IF ReplaceHeader THEN {"VUI_PARAMETERS"} ELSE {})
ModeOf(hevc) == IF "PASSED" \notin hevc THEN 1 ELSE IF "DYNAMIC_RANGE" \in hevc THEN 3 ELSE 2

Choose ==
    /\ step[1] = "end" /\ ~(mode = 3 /\ "DYNAMIC_RANGE" \notin caps["hevc"])
    /\ caps' = [c \in Codecs |-> caps[c] \ Lost]
    /\ mode' = IF mode = 0 THEN ModeOf(caps["hevc"]) ELSE mode
    /\ step' = <<"chosen", "h264">> /\ UNCHANGED <<wanted, left, got, answers, wasted>>

Reject == step[1] = "end" /\ mode = 3 /\ "DYNAMIC_RANGE" \notin caps["hevc"] /\ GiveUp

Next ==
    \/ Skip \/ Begin \/ Choose \/ Reject
    \/ \E c \in Codecs : Retry(c) \/ Fail(c) \/ Decide(c)
    \/ \E r \in Answers \cup {Failed} :
         \/ \E c \in Codecs : Max(c, r) \/ Auto(c, r)
         \/ FirstSlice(r)
         \/ \E c \in Codecs, f \in DOMAIN TestOf : TestFlag(f, c, r)

Spec == Init /\ [][Next]_vars

-----------------------------------------------------------------------------
(* Properties.                                                             *)

TypeOK ==
    /\ mode \in 0..3 /\ caps \in [Codecs -> SUBSET Flags]
    /\ got \in (Answers \cup {Failed}) \X (Answers \cup {Failed})
    /\ \A q \in DOMAIN answers : answers[q] \in Answers \cup {Failed}

Chosen == step[1] = "chosen"
Works(c, k) ==
    /\ ~Refused(c, k) /\ Opened(c, k) \in DOMAIN answers
    /\ answers[Opened(c, k)] # Failed

Offered == IF mode >= 2 THEN Codecs ELSE {"h264"}

\* validate_config() returned 0 for h264, which FirstSlice took for false.
Emptied == \E q \in DOMAIN answers : q.codec = "h264" /\ answers[q] = {}
\* The test of two slices has then opened one, and failed: clients get one slice, where
\* the tests before had min_threads.
Resliced(c) == c = "h264" /\ Emptied /\ SlicesOf(1) > 1 /\ "SLICE" \notin caps[c]

\* What a client is offered is what the encoder has been seen to do, with the very
\* settings that make_session() will open by the capabilities that were found last:
\* the base settings of each codec, unless it was resliced, and HDR if mode says so.
OfferedWorks ==
    Chosen =>
        /\ \A c \in Offered :
             /\ "REF_FRAMES_RESTRICT" \in caps[c] => Works(c, MaxRefFrames) \/ Resliced(c)
             /\ "REF_FRAMES_AUTOSELECT" \in caps[c] => Works(c, Autoselect) \/ Resliced(c)
             /\ caps[c] \cap {"REF_FRAMES_RESTRICT", "REF_FRAMES_AUTOSELECT"} # {}
        /\ mode = 3 => Works("hevc", TestOf["DYNAMIC_RANGE"])

\* An encoder is asked for more slices only if it has been seen to make them, unless the
\* test of two slices was one of one slice, because of an answer 0.
SlicesWork ==
    Chosen => \A c \in Offered : "SLICE" \in caps[c] => Works(c, TestOf["SLICE"]) \/ Emptied

\* Headers are left as they are only if every packet of that codec had them.
HeadersAreSeen ==
    Chosen => \A c \in Offered, f \in Headers, k \in {MaxRefFrames, Autoselect} :
        f \in caps[c] /\ Works(c, k) => f \in answers[Opened(c, k)]

\* An encoder of h264 is given up only for the sake of HEVC that the user has demanded.
NothingIsWasted == wasted # {} => mode >= 2
-----------------------------------------------------------------------------
(* The invariant of the proofs: what the steps that an encoder has passed  *)
(* say of its capabilities and answers.                                    *)

Testing(c) == step \in {"max", "auto", "decide"} \X {c}
\* The capabilities of a codec are known, but for its flags.
Decided(c) ==
    \/ step[1] \in {"DYNAMIC_RANGE", "SLICE", "end", "chosen"}
    \/ c = "h264" /\ (step[1] = "slice" \/ Testing("hevc"))
FlagTested(f, c) ==
    \/ step[1] \in {"end", "chosen"}
    \/ f = "DYNAMIC_RANGE" /\ step[1] = "SLICE"
    \/ step = <<f, "hevc">> /\ c = "h264"

Answered(q, r) == q \in DOMAIN answers /\ answers[q] = r
Succeeded(q) == q \in DOMAIN answers /\ answers[q] # Failed
\* What is opened with r reference frames and no HDR, while slices are allowed.
Setting(c, r) ==
    [codec |-> c, hdr |-> FALSE, rate |-> IF "CBR" \in caps[c] THEN "cbr" ELSE "qp",
     refs |-> r, slices |-> SlicesOf(1)]
FramesOf == [REF_FRAMES_RESTRICT |-> 1, REF_FRAMES_AUTOSELECT |-> 0]

\* make_session() opens something for every codec, with a rate that the encoder has.
RatesAreThere ==
    \A c \in Codecs : "CBR" \in caps[c] \/ (<<Front, c>> \in HasQp /\ (Testing(c) \/ Decided(c)))

\* While a codec is tested it has all flags, and got is what the answers are.
TestsAreRecorded ==
    \A c \in Codecs : Testing(c) =>
        /\ caps[c] \in {Flags, Flags \ {"CBR"}}
        /\ c = "hevc" => TestHevc
        /\ step[1] \in {"auto", "decide"} => Answered(Setting(c, 1), got[1])
        /\ step[1] = "decide" => Answered(Setting(c, 0), got[2])

\* HEVC waits with all flags, or has not passed.
HevcWaits ==
    /\ step[1] \in {"max", "auto", "decide", "slice"} /\ step[2] = "h264" =>
           caps["hevc"] = IF TestHevc THEN Flags ELSE Flags \ {"PASSED"}
    /\ step[1] = "begin" => answers = <<>> /\ caps = [c \in Codecs |-> Flags]

\* What was decided is what the encoder has done.
DecidedWorks ==
    \A c \in Codecs : Decided(c) /\ "PASSED" \in caps[c] =>
        /\ \E f \in DOMAIN FramesOf : f \in caps[c]
        /\ \A f \in DOMAIN FramesOf : f \in caps[c] =>
             /\ Succeeded(Setting(c, FramesOf[f]))
             /\ \A h \in Headers : h \in caps[c] => h \in answers[Setting(c, FramesOf[f])]

PassedIsNeeded ==
    /\ Decided("h264") => "PASSED" \in caps["h264"]
    /\ Decided("hevc") /\ mode >= 2 => "PASSED" \in caps["hevc"]
    /\ step = <<"SLICE", "hevc">> => "PASSED" \in caps["hevc"]

\* HDR is there if it was tried last; only with HDR is an encoder asked for 16 frames.
RangeWorks ==
    /\ Decided("hevc") /\ FlagTested("DYNAMIC_RANGE", "hevc")
           /\ "PASSED" \in caps["hevc"] /\ "DYNAMIC_RANGE" \in caps["hevc"] =>
         Works("hevc", TestOf["DYNAMIC_RANGE"])
    /\ \A q \in DOMAIN answers : q.refs = 16 => q.hdr
    /\ Chosen /\ mode = 3 => "DYNAMIC_RANGE" \in caps["hevc"]

\* A test of slices that min_threads has made before succeeds again.
SlicesStay ==
    /\ step[1] = "slice" => "SLICE" \in caps["h264"]
    /\ \A c \in Codecs : Decided(c) /\ "PASSED" \in caps[c] /\ SlicesOf(1) > 1 =>
        \/ "SLICE" \in caps[c]
        \/ c = "h264" /\ Emptied /\ Headers \cap caps[c] = {}

\* An answer without anything is taken for a failure.
SlicesTried ==
    /\ Decided("h264") /\ step[1] # "slice" /\ ~FlagTested("SLICE", "h264") => "SLICE" \in caps["h264"] \/ Emptied
    /\ Decided("hevc") /\ ~FlagTested("SLICE", "hevc") /\ "PASSED" \in caps["hevc"] => "SLICE" \in caps["hevc"]
    /\ \A c \in Codecs :
         FlagTested("SLICE", c) /\ {"PASSED", "SLICE"} \subseteq caps[c] /\ Front \notin SingleSlice =>
             Works(c, TestOf["SLICE"]) \/ Emptied
    /\ Chosen /\ Front \in SingleSlice => \A c \in Codecs : "SLICE" \notin caps[c]

\* h264 has failed so far, but for what got says.
Failures ==
    Testing("h264") => \A q \in DOMAIN answers : q.codec = "h264" /\ answers[q] # Failed =>
        \/ step[1] = "auto" /\ got[1] # Failed
        \/ step[1] = "decide" /\ ~BothFailed

StepOK ==
    /\ step \in ({"begin", "slice", "end", "chosen"} \X {"h264"})
                \cup ({"max", "auto", "decide", "DYNAMIC_RANGE", "SLICE"} \X Codecs)
    /\ \A q \in DOMAIN answers : q.codec \in Codecs

IInv ==
    /\ TypeOK /\ StepOK /\ RatesAreThere /\ TestsAreRecorded /\ HevcWaits /\ DecidedWorks
    /\ PassedIsNeeded /\ RangeWorks /\ SlicesTried /\ SlicesStay /\ Failures /\ NothingIsWasted
=============================================================================
