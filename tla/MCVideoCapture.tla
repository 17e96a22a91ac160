---------------------------- MODULE MCVideoCapture ----------------------------
(***************************************************************************)
(* VideoCapture for TLC, and for the proofs, under names that AppProcess   *)
(* does not use.                                                           *)
(***************************************************************************)
EXTENDS Naturals

CONSTANTS CaptureSessions, Count, MaxReinits, NoImage, Old  \* those of VideoCapture

ASSUME CaptureAssumption ==
    /\ NoImage \notin CaptureSessions
    /\ Count \in Nat \ {0} /\ NoImage \notin 1 .. Count /\ Old \notin 1 .. Count
    /\ MaxReinits \in Nat

VARIABLES
    capturePc, captureTold, captureStopped, captureSlot, captureInUse, captureRefs,
    captureJoiner, captureQueue, captureRunning, captureCtxs, captureCap, captureGiven,
    captureDisp, captureWp, captureHas, captureReinit, captureReinits, captureSlipped

Capture == INSTANCE VideoCapture WITH
    Sessions <- CaptureSessions, Nil <- NoImage,
    pc <- capturePc, told <- captureTold, stopped <- captureStopped, slot <- captureSlot,
    inUse <- captureInUse, refs <- captureRefs, joiner <- captureJoiner, queue <-
    captureQueue, running <- captureRunning, ctxs <- captureCtxs, cap <- captureCap, given
    <- captureGiven, disp <- captureDisp, wp <- captureWp, has <- captureHas, reinit <-
    captureReinit, reinits <- captureReinits, slipped <- captureSlipped

CaptureSpec == Capture!Spec

-----------------------------------------------------------------------------
(* The properties of VideoCapture.                                         *)

\* video.cpp, captureThread(): the capture thread is there as long as sessions need it,
\* and no longer.
CaptureServesItsSessions == Capture!CaptureServesItsSessions

\* video.cpp, captureThread() and encode_run(): while an image or the display is written
\* to or replaced, no encoder uses it, except those that were past reinit_event.
DisplayIsUsedAlone == Capture!DisplayIsUsedAlone

\* video.cpp, capture_async() and reinit: neither a session nor the capture thread waits
\* for ever.
WaitsEnd == Capture!WaitsEnd

\* video.cpp:677: once the wait of captureThread() is over, nobody else has the display.
OldDisplayIsDestroyed == Capture!OldDisplayIsDestroyed
=============================================================================
