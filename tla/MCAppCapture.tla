---------------------------- MODULE MCAppCapture ----------------------------
(***************************************************************************)
(* The applications of MCAppProcess and the sessions of MCVideoCapture:    *)
(* two components that do not act on each other, checked by one run of     *)
(* TLC. A behaviour is one of the part that its initial state names.       *)
(***************************************************************************)
EXTENDS MCAppProcess, MCVideoCapture

VARIABLE part
captureVars == <<
    capturePc, captureTold, captureStopped, captureSlot, captureInUse, captureRefs,
    captureJoiner, captureQueue, captureRunning, captureCtxs, captureCap, captureGiven,
    captureDisp, captureWp, captureHas, captureReinit, captureReinits, captureSlipped>>

PartInit == part \in {"app", "capture"} /\ Init /\ Capture!Init

AppNext == part = "app" /\ Next /\ UNCHANGED <<part, captureVars>>
CaptureNext == part = "capture" /\ Capture!Next /\ UNCHANGED <<part, vars>>

\* The fairness of each part, as in its module.
PartFairness ==
    /\ WF_vars(part = "app" /\ ExecuteStep)
    /\ \A t \in Threads : WF_vars(part = "app" /\ TerminateStep(t))
    /\ WF_captureVars(part = "capture" /\ Capture!CaptureStep)
    /\ \A s \in CaptureSessions : WF_captureVars(part = "capture" /\ Capture!SessionStep(s))

PartSpec == PartInit /\ [][AppNext \/ CaptureNext]_<<part, vars, captureVars>> /\ PartFairness
=============================================================================
