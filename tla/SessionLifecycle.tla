-------------------------- MODULE SessionLifecycle --------------------------
(***************************************************************************)
(* What RtspServer and StreamSession agree on about a streaming session    *)
(* (the enumeration state_e of src/sunshine/stream.h and the calls of      *)
(* rtsp.cpp that move a session through it): it is accepted, it runs, it   *)
(* is stopped once, and only then is it closed, that is joined and freed.  *)
(***************************************************************************)
CONSTANT Sessions
VARIABLE stage

Move(s, from, to) == stage[s] \in from /\ stage' = [stage EXCEPT ![s] = to]

Init == stage = [s \in Sessions |-> "none"]

Accept(s) == Move(s, {"none"}, "accepted")
Fail(s) == Move(s, {"none", "accepted"}, "failed")
Run(s) == Move(s, {"accepted"}, "running")
Close(s) == Move(s, {"stopping"}, "closed")

\* clear(all) and a scan of the control thread may stop several at once.
Halt ==
    \E S \in SUBSET {s \in Sessions : stage[s] = "running"} :
        stage' = [s \in Sessions |-> IF s \in S THEN "stopping" ELSE stage[s]]

Next == Halt \/ \E s \in Sessions : Accept(s) \/ Fail(s) \/ Run(s) \/ Close(s)

Spec == Init /\ [][Next]_stage
=============================================================================
