-------------------------- MODULE AppCaptureProofs --------------------------
(***************************************************************************)
(* Proofs about AppProcess and VideoCapture.                               *)
(*                                                                         *)
(* AppProcess, for any applications with any number of prep commands: all  *)
(* the proofs rest on calls not having overlapped.  Then at most one       *)
(* thread is inside a call of proc_t (Alone), and what the state is        *)
(* follows from where that thread is (Places), or that there is none       *)
(* (Quiet).                                                                *)
(*                                                                         *)
(* VideoCapture, for every set of sessions, number of images and of        *)
(* changes of the display.  The properties are not inductive by            *)
(* themselves: a session is known to the capture thread because there is   *)
(* one thread for all references and its queue runs only while somebody    *)
(* reads it (ThreadIsOwned, ContextsAreKept); the first image is given to  *)
(* the display without a look at who has it because imgs is new then       *)
(* (ImagesAreNew); a display that is replaced stays unused because         *)
(* reinit_event is raised before its users are counted, except for the     *)
(* sessions that had passed it (ReinitIsRaised, DisplaysAreOpen).          *)
(* VideoCapture states these parts of its IInv.                            *)
(***************************************************************************)
EXTENDS MCAppProcess, MCVideoCapture, TLAPS

-----------------------------------------------------------------------------
(* Applications.                                                           *)

Terminating == {"term", "undo", "undone"}

\* Where each thread may be, and where its terminate() returns to.
Control ==
    /\ pc["https"] # "over" /\ ret["https"] # "over"
    /\ pc["config"] \in Terminating \cup {"idle"} /\ ret["config"] = "idle"
    /\ pc["main"] \in Terminating \cup {"idle", "over"} /\ ret["main"] # "setup"

\* One call is in progress at a time.
Alone == ~disturbed => \A t, u \in Threads : Inside(t) /\ Inside(u) => t = u

\* What holds at the labels of execute() and terminate().
Places ==
    ~disturbed =>
        /\ pc["https"] \in {"prep", "prepped", "start"} => undoOf = want /\ appId = want
        /\ pc["https"] \in {"setup", "prep", "prepped", "start"} => ~placebo /\ child # "running"
        /\ pc["https"] = "setup" => undoIt = 0
        /\ pc["https"] = "prepped" => undoIt < Preps[want]
        /\ pc["https"] = "start" => undoIt = Preps[want]
        /\ \A t \in Threads :
              /\ pc[t] \in {"undo", "undone"} => ~placebo /\ child # "running" /\ appId = Nil
              /\ pc[t] = "undone" => undoIt # 0

\* What holds between calls: an application runs with all of its prep commands,
\* or has run, or nothing is recorded and no command is in force.
Quiet ==
    ~disturbed /\ (\A t \in Threads : ~Inside(t)) =>
        /\ appId = Nil => ~placebo /\ child # "running" /\ undoIt = 0
        /\ ~placebo /\ child = "none" => appId = Nil
        /\ placebo \/ child = "running" =>
              /\ appId # Nil /\ undoOf = appId /\ undoIt = Preps[appId]
              /\ ~(placebo /\ child = "running")

IInv == TypeOK /\ Control /\ Alone /\ Places /\ Quiet /\ UndoMatchesDo
-----------------------------------------------------------------------------
USE AppsAssumption, PrepsAssumption, BoundAssumption

\* A command is a pair of an application and a position in its list.
LEMMA CommandsAre ==
    ASSUME NEW a, NEW i
    PROVE  <<a, i>> \in Commands <=> a \in Apps /\ i \in 1 .. Preps[a]
  BY DEF Commands

\* ... and nothing else is.
LEMMA CommandIsPair ==
    ASSUME NEW c \in Commands
    PROVE  c[1] \in Apps /\ c[2] \in 1 .. Preps[c[1]] /\ c = <<c[1], c[2]>>
  BY DEF Commands

\* The initial state satisfies the inductive invariant.
LEMMA InitIInv == Init => IInv
  <1> SUFFICES ASSUME Init PROVE IInv
    OBVIOUS
  <1> USE DEF Init
  <1>1. TypeOK
    <2>1. placebo \in BOOLEAN /\ grouped \in BOOLEAN /\ dead \in BOOLEAN /\ disturbed \in BOOLEAN
      BY Zenon
    <2> QED BY <2>1 DEF TypeOK, Threads
  <1>2. Control /\ Alone /\ Places /\ Quiet
    BY DEF Control, Alone, Places, Quiet, Terminating, Inside, Threads
  <1>3. UndoMatchesDo
    BY CommandIsPair DEF UndoMatchesDo, InForce, Threads
  <1> QED BY <1>1, <1>2, <1>3 DEF IInv

\* The steps of terminate() preserve the invariant.
LEMMA TerminatePreserves ==
    ASSUME IInv, NEW t \in Threads, TerminateStep(t)
    PROVE  IInv'
  <1> USE DEF IInv, TypeOK, Control, Terminating, Inside, Threads, Step,
              history, process, iterators
  <1>1. CASE Terminate(t)
    <2> USE <1>1 DEF Terminate, ProcessEnd, PlaceboAfterTerminate
    <2>1. TypeOK'
      <3>1. (/\ placebo \in BOOLEAN /\ grouped \in BOOLEAN
             /\ dead \in BOOLEAN /\ disturbed \in BOOLEAN)'
        BY Zenon
      <3> QED BY <3>1, CommandsAre
    <2>2. Control' /\ Alone'
      BY DEF Alone
    <2>3. Places'
      BY DEF Places, Alone
    <2>4. Quiet'
      BY DEF Quiet, Places, Alone
    <2>5. UndoMatchesDo'
      BY CommandIsPair, CommandsAre DEF UndoMatchesDo, InForce, Places, Alone
    <2> QED BY <2>1, <2>2, <2>3, <2>4, <2>5
  <1>2. CASE UndoRun(t)
    <2> USE <1>2 DEF UndoRun, Undone
    <2>1. TypeOK'
      <3>1. (/\ placebo \in BOOLEAN /\ grouped \in BOOLEAN
             /\ dead \in BOOLEAN /\ disturbed \in BOOLEAN)'
        BY Zenon
      <3> QED BY <3>1, CommandsAre
    <2>2. Control' /\ Alone'
      BY DEF Alone
    <2>3. Places'
      BY DEF Places, Alone
    <2>4. Quiet'
      BY DEF Quiet, Places, Alone
    <2>5. UndoMatchesDo'
      BY CommandIsPair, CommandsAre DEF UndoMatchesDo, InForce, Places, Alone
    <2> QED BY <2>1, <2>2, <2>3, <2>4, <2>5
  <1>3. CASE UndoNext(t)
    <2> USE <1>3 DEF UndoNext, Prev
    <2>1. TypeOK'
      <3>1. (/\ placebo \in BOOLEAN /\ grouped \in BOOLEAN
             /\ dead \in BOOLEAN /\ disturbed \in BOOLEAN)'
        BY Zenon
      <3> QED BY <3>1, CommandsAre DEF Places
    <2>2. Control' /\ Alone'
      BY DEF Alone
    <2>3. Places'
      BY DEF Places, Alone
    <2>4. Quiet'
      BY DEF Quiet, Places, Alone
    <2>5. UndoMatchesDo'
      BY CommandIsPair, CommandsAre DEF UndoMatchesDo, InForce, Places, Alone
    <2> QED BY <2>1, <2>2, <2>3, <2>4, <2>5
  <1>4. CASE Terminated(t)
    <2> USE <1>4 DEF Terminated
    <2>1. TypeOK'
      <3>1. (/\ placebo \in BOOLEAN /\ grouped \in BOOLEAN
             /\ dead \in BOOLEAN /\ disturbed \in BOOLEAN)'
        BY Zenon
      <3> QED BY <3>1, CommandsAre
    <2>2. Control' /\ Alone'
      BY DEF Alone
    <2>3. Places'
      BY DEF Places, Alone
    <2>4. Quiet'
      BY DEF Quiet, Places, Alone
    <2>5. UndoMatchesDo'
      BY CommandIsPair, CommandsAre DEF UndoMatchesDo, InForce, Places, Alone
    <2> QED BY <2>1, <2>2, <2>3, <2>4, <2>5
  <1>5. CASE Abort(t)
    <2> USE <1>5 DEF Abort
    <2>1. TypeOK'
      <3>1. (/\ placebo \in BOOLEAN /\ grouped \in BOOLEAN
             /\ dead \in BOOLEAN /\ disturbed \in BOOLEAN)'
        BY Zenon
      <3> QED BY <3>1, CommandsAre
    <2>2. Control' /\ Alone'
      BY DEF Alone
    <2>3. Places'
      BY DEF Places, Alone
    <2>4. Quiet'
      BY DEF Quiet, Places, Alone
    <2>5. UndoMatchesDo'
      BY CommandIsPair, CommandsAre DEF UndoMatchesDo, InForce, Places, Alone
    <2> QED BY <2>1, <2>2, <2>3, <2>4, <2>5
  <1> HIDE DEF IInv
  <1> QED BY <1>1, <1>2, <1>3, <1>4, <1>5 DEF TerminateStep

\* So do the steps of /launch and execute().
LEMMA ExecutePreserves ==
    ASSUME IInv, ExecuteStep
    PROVE  IInv'
  <1> USE DEF IInv, TypeOK, Control, Terminating, Inside, Threads, Step,
              history, process, iterators
  <1>1. CASE LaunchRefused
    <2> USE <1>1 DEF LaunchRefused
    <2>1. TypeOK'
      <3>1. (/\ placebo \in BOOLEAN /\ grouped \in BOOLEAN
             /\ dead \in BOOLEAN /\ disturbed \in BOOLEAN)'
        BY Zenon
      <3> QED BY <3>1, CommandsAre
    <2>2. Control' /\ Alone'
      BY DEF Alone
    <2>3. Places'
      BY DEF Places, Alone
    <2>4. Quiet'
      BY DEF Quiet, Places, Alone
    <2>5. UndoMatchesDo'
      BY CommandIsPair, CommandsAre DEF UndoMatchesDo, InForce, Places, Alone
    <2> QED BY <2>1, <2>2, <2>3, <2>4, <2>5
  <1>2. CASE Execute
    <2> USE <1>2 DEF Execute, CallTerminate, Running, ResetsGroup
    <2>1. TypeOK'
      <3>1. (/\ placebo \in BOOLEAN /\ grouped \in BOOLEAN
             /\ dead \in BOOLEAN /\ disturbed \in BOOLEAN)'
        BY Zenon
      <3> QED BY <3>1, CommandsAre
    <2>2. Control' /\ Alone'
      BY DEF Alone
    <2>3. Places'
      BY DEF Places, Alone
    <2>4. Quiet'
      BY DEF Quiet, Places, Alone
    <2>5. UndoMatchesDo'
      BY CommandIsPair, CommandsAre DEF UndoMatchesDo, InForce, Places, Alone
    <2> QED BY <2>1, <2>2, <2>3, <2>4, <2>5
  <1>3. CASE Setup
    <2> USE <1>3 DEF Setup
    <2>1. TypeOK'
      <3>1. (/\ placebo \in BOOLEAN /\ grouped \in BOOLEAN
             /\ dead \in BOOLEAN /\ disturbed \in BOOLEAN)'
        BY Zenon
      <3> QED BY <3>1, CommandsAre
    <2>2. Control' /\ Alone'
      BY DEF Alone
    <2>3. Places'
      BY DEF Places, Alone
    <2>4. Quiet'
      BY DEF Quiet, Places, Alone
    <2>5. UndoMatchesDo'
      BY CommandIsPair, CommandsAre DEF UndoMatchesDo, InForce, Places, Alone
    <2> QED BY <2>1, <2>2, <2>3, <2>4, <2>5
  <1>4. CASE PrepRun
    <2> USE <1>4 DEF PrepRun
    <2>1. TypeOK'
      <3>1. (/\ placebo \in BOOLEAN /\ grouped \in BOOLEAN
             /\ dead \in BOOLEAN /\ disturbed \in BOOLEAN)'
        BY Zenon
      <3> QED BY <3>1, CommandsAre
    <2>2. Control' /\ Alone'
      BY DEF Alone
    <2>3. Places'
      BY DEF Places, Alone
    <2>4. Quiet'
      BY DEF Quiet, Places, Alone
    <2>5. UndoMatchesDo'
      BY CommandIsPair, CommandsAre DEF UndoMatchesDo, InForce, Places, Alone
    <2> QED BY <2>1, <2>2, <2>3, <2>4, <2>5
  <1>5. CASE PrepNext
    <2> USE <1>5 DEF PrepNext
    <2>1. TypeOK'
      <3>1. (/\ placebo \in BOOLEAN /\ grouped \in BOOLEAN
             /\ dead \in BOOLEAN /\ disturbed \in BOOLEAN)'
        BY Zenon
      <3> QED BY <3>1, CommandsAre DEF Places
    <2>2. Control' /\ Alone'
      BY DEF Alone
    <2>3. Places'
      BY DEF Places, Alone
    <2>4. Quiet'
      BY DEF Quiet, Places, Alone
    <2>5. UndoMatchesDo'
      BY CommandIsPair, CommandsAre DEF UndoMatchesDo, InForce, Places, Alone
    <2> QED BY <2>1, <2>2, <2>3, <2>4, <2>5
  <1>6. CASE PrepFails
    <2> USE <1>6 DEF PrepFails, Failed
    <2>1. TypeOK'
      <3>1. (/\ placebo \in BOOLEAN /\ grouped \in BOOLEAN
             /\ dead \in BOOLEAN /\ disturbed \in BOOLEAN)'
        BY Zenon
      <3> QED BY <3>1, CommandsAre
    <2>2. Control' /\ Alone'
      BY DEF Alone
    <2>3. Places'
      BY DEF Places, Alone
    <2>4. Quiet'
      BY DEF Quiet, Places, Alone
    <2>5. UndoMatchesDo'
      BY CommandIsPair, CommandsAre DEF UndoMatchesDo, InForce, Places, Alone
    <2> QED BY <2>1, <2>2, <2>3, <2>4, <2>5
  <1>7. CASE PrepDone
    <2> USE <1>7 DEF PrepDone
    <2>1. TypeOK'
      <3>1. (/\ placebo \in BOOLEAN /\ grouped \in BOOLEAN
             /\ dead \in BOOLEAN /\ disturbed \in BOOLEAN)'
        BY Zenon
      <3> QED BY <3>1, CommandsAre
    <2>2. Control' /\ Alone'
      BY DEF Alone
    <2>3. Places'
      BY DEF Places, Alone
    <2>4. Quiet'
      BY DEF Quiet, Places, Alone
    <2>5. UndoMatchesDo'
      BY CommandIsPair, CommandsAre DEF UndoMatchesDo, InForce, Places, Alone
    <2> QED BY <2>1, <2>2, <2>3, <2>4, <2>5
  <1>8. CASE Start
    <2> USE <1>8 DEF Start
    <2>1. TypeOK'
      <3>1. (/\ placebo \in BOOLEAN /\ grouped \in BOOLEAN
             /\ dead \in BOOLEAN /\ disturbed \in BOOLEAN)'
        BY Zenon
      <3> QED BY <3>1, CommandsAre
    <2>2. Control' /\ Alone'
      BY DEF Alone
    <2>3. Places'
      BY DEF Places, Alone
    <2>4. Quiet'
      BY DEF Quiet, Places, Alone
    <2>5. UndoMatchesDo'
      BY CommandIsPair, CommandsAre DEF UndoMatchesDo, InForce, Places, Alone
    <2> QED BY <2>1, <2>2, <2>3, <2>4, <2>5
  <1>9. CASE StartFails
    <2> USE <1>9 DEF StartFails, Failed
    <2>1. TypeOK'
      <3>1. (/\ placebo \in BOOLEAN /\ grouped \in BOOLEAN
             /\ dead \in BOOLEAN /\ disturbed \in BOOLEAN)'
        BY Zenon
      <3> QED BY <3>1, CommandsAre
    <2>2. Control' /\ Alone'
      BY DEF Alone
    <2>3. Places'
      BY DEF Places, Alone
    <2>4. Quiet'
      BY DEF Quiet, Places, Alone
    <2>5. UndoMatchesDo'
      BY CommandIsPair, CommandsAre DEF UndoMatchesDo, InForce, Places, Alone
    <2> QED BY <2>1, <2>2, <2>3, <2>4, <2>5
  <1> HIDE DEF IInv
  <1> QED BY <1>1, <1>2, <1>3, <1>4, <1>5, <1>6, <1>7, <1>8, <1>9 DEF ExecuteStep

\* So does what the clients, the configuration pages, the end of the program and
\* the application itself begin.
LEMMA RequestPreserves ==
    ASSUME IInv,
           (\E a \in Apps : Launch(a)) \/ Cancel \/ CloseApp \/ Refresh \/ Exit \/ AppExits
    PROVE  IInv'
  <1> USE DEF IInv, TypeOK, Control, Terminating, Inside, Threads, Step, May,
              history, process, iterators
  <1>1. ASSUME NEW a \in Apps, Launch(a) PROVE IInv'
    <2> USE <1>1 DEF Launch
    <2>1. TypeOK'
      <3>1. (/\ placebo \in BOOLEAN /\ grouped \in BOOLEAN
             /\ dead \in BOOLEAN /\ disturbed \in BOOLEAN)'
        BY Zenon
      <3> QED BY <3>1, CommandsAre
    <2>2. Control' /\ Alone'
      BY DEF Alone
    <2>3. Places'
      BY DEF Places, Alone
    <2>4. Quiet'
      BY DEF Quiet, Places, Alone
    <2>5. UndoMatchesDo'
      BY CommandIsPair, CommandsAre DEF UndoMatchesDo, InForce, Places, Alone
    <2> QED BY <2>1, <2>2, <2>3, <2>4, <2>5
  <1>2. CASE Cancel
    <2> USE <1>2 DEF Cancel, CallTerminate
    <2>1. TypeOK'
      <3>1. (/\ placebo \in BOOLEAN /\ grouped \in BOOLEAN
             /\ dead \in BOOLEAN /\ disturbed \in BOOLEAN)'
        BY Zenon
      <3> QED BY <3>1, CommandsAre
    <2>2. Control' /\ Alone'
      BY DEF Alone
    <2>3. Places'
      BY DEF Places, Alone
    <2>4. Quiet'
      BY DEF Quiet, Places, Alone
    <2>5. UndoMatchesDo'
      BY CommandIsPair, CommandsAre DEF UndoMatchesDo, InForce, Places, Alone
    <2> QED BY <2>1, <2>2, <2>3, <2>4, <2>5
  <1>3. CASE CloseApp
    <2> USE <1>3 DEF CloseApp, CallTerminate
    <2>1. TypeOK'
      <3>1. (/\ placebo \in BOOLEAN /\ grouped \in BOOLEAN
             /\ dead \in BOOLEAN /\ disturbed \in BOOLEAN)'
        BY Zenon
      <3> QED BY <3>1, CommandsAre
    <2>2. Control' /\ Alone'
      BY DEF Alone
    <2>3. Places'
      BY DEF Places, Alone
    <2>4. Quiet'
      BY DEF Quiet, Places, Alone
    <2>5. UndoMatchesDo'
      BY CommandIsPair, CommandsAre DEF UndoMatchesDo, InForce, Places, Alone
    <2> QED BY <2>1, <2>2, <2>3, <2>4, <2>5
  <1>4. CASE Refresh
    <2> USE <1>4 DEF Refresh
    <2>1. TypeOK'
      <3>1. (/\ placebo \in BOOLEAN /\ grouped \in BOOLEAN
             /\ dead \in BOOLEAN /\ disturbed \in BOOLEAN)'
        BY Zenon
      <3> QED BY <3>1, CommandsAre
    <2>2. Control' /\ Alone'
      BY DEF Alone
    <2>3. Places'
      BY DEF Places, Alone
    <2>4. Quiet'
      BY DEF Quiet, Places, Alone
    <2>5. UndoMatchesDo'
      <3>1. ~disturbed' => ~disturbed /\ ~Inside("https") /\ undoIt = 0
        BY Zenon
      <3>2. ~disturbed' => InForce = 0 /\ InForce' = 0
        BY <3>1 DEF InForce
      <3>3. ~disturbed' => \A c \in Commands : effect[c] = 0
        BY <3>1, <3>2, CommandIsPair DEF UndoMatchesDo
      <3> QED BY <3>2, <3>3, CommandIsPair DEF UndoMatchesDo
    <2> QED BY <2>1, <2>2, <2>3, <2>4, <2>5
  <1>5. CASE Exit
    <2> USE <1>5 DEF Exit, CallTerminate
    <2>1. TypeOK'
      <3>1. (/\ placebo \in BOOLEAN /\ grouped \in BOOLEAN
             /\ dead \in BOOLEAN /\ disturbed \in BOOLEAN)'
        BY Zenon
      <3> QED BY <3>1, CommandsAre
    <2>2. Control' /\ Alone'
      BY DEF Alone
    <2>3. Places'
      BY DEF Places, Alone
    <2>4. Quiet'
      BY DEF Quiet, Places, Alone
    <2>5. UndoMatchesDo'
      BY CommandIsPair, CommandsAre DEF UndoMatchesDo, InForce, Places, Alone
    <2> QED BY <2>1, <2>2, <2>3, <2>4, <2>5
  <1>6. CASE AppExits
    <2> USE <1>6 DEF AppExits
    <2>1. TypeOK'
      <3>1. (/\ placebo \in BOOLEAN /\ grouped \in BOOLEAN
             /\ dead \in BOOLEAN /\ disturbed \in BOOLEAN)'
        BY Zenon
      <3> QED BY <3>1, CommandsAre
    <2>2. Control' /\ Alone'
      BY DEF Alone
    <2>3. Places'
      BY DEF Places, Alone
    <2>4. Quiet'
      BY DEF Quiet, Places, Alone
    <2>5. UndoMatchesDo'
      BY CommandIsPair, CommandsAre DEF UndoMatchesDo, InForce, Places, Alone
    <2> QED BY <2>1, <2>2, <2>3, <2>4, <2>5
  <1> HIDE DEF IInv
  <1> QED BY <1>1, <1>2, <1>3, <1>4, <1>5, <1>6
-----------------------------------------------------------------------------
\* The invariant is inductive, for any applications and any number of prep
\* commands: calls may overlap, but then it promises types only.
THEOREM Invariance == Spec => []IInv
  <1>1. Init => IInv
    BY InitIInv
  <1>2. IInv /\ [Next]_vars => IInv'
    <2> SUFFICES ASSUME IInv, [Next]_vars PROVE IInv'
      OBVIOUS
    <2>1. CASE UNCHANGED vars
      BY <2>1 DEF vars, process, iterators, history, IInv, TypeOK, Control, Alone, Places,
                  Quiet, UndoMatchesDo, InForce, Inside
    <2>2. CASE Next
      BY <2>2, TerminatePreserves, ExecutePreserves, RequestPreserves DEF Next
    <2> QED BY <2>1, <2>2
  <1> QED BY <1>1, <1>2, PTL DEF Spec

\* Every variable keeps its type, and the iterator its list, for any applications.
THEOREM TypeCorrect == Spec => []TypeOK
  <1>1. IInv => TypeOK
    BY DEF IInv
  <1> QED BY <1>1, Invariance, PTL

\* However many prep commands an application has, and whichever of them fails: the
\* do commands that are in force are the first ones of one application, once each.
THEOREM UndoIsExact == Spec => []UndoMatchesDo
  <1>1. IInv => UndoMatchesDo
    BY DEF IInv
  <1> QED BY <1>1, Invariance, PTL

\* An application that runs is the one recorded, with all of its prep commands.
THEOREM RunsPrepared == Spec => []RunningAppIsPrepared
  <1>1. IInv => RunningAppIsPrepared
    BY DEF IInv, Quiet, RunningAppIsPrepared
  <1> QED BY <1>1, Invariance, PTL

\* When nothing is recorded or runs between two calls no command is in force.
THEOREM NothingLeft == Spec => []NothingIsLeftBehind
  <1>1. IInv => NothingIsLeftBehind
    <2> SUFFICES ASSUME IInv, ~disturbed, ~dead, \A t \in Threads : ~Inside(t),
                        appId = Nil \/ (~placebo /\ child = "none")
                 PROVE  /\ ~placebo /\ child # "running" /\ appId = Nil
                        /\ \A c \in Commands : effect[c] = 0
      BY DEF NothingIsLeftBehind
    <2>1. ~placebo /\ child # "running" /\ appId = Nil /\ undoIt = 0
      BY DEF IInv, Quiet
    <2>2. InForce = 0
      BY <2>1 DEF InForce, Inside, IInv, TypeOK, Threads
    <2> QED BY <2>1, <2>2, CommandIsPair DEF IInv, UndoMatchesDo
  <1> QED BY <1>1, Invariance, PTL

-----------------------------------------------------------------------------
(* Capture.                                                                *)

USE CaptureAssumption
    DEF Capture!Slots, Capture!Image, Capture!Displays, Capture!session, Capture!thread, Capture!Runs,
        Capture!Go, Capture!LetGo, Capture!SlotLives, Capture!Holds

\* No thread, no image, no display and nobody who waits
LEMMA CaptureInit == Capture!Init => Capture!IInv
<1> SUFFICES ASSUME Capture!Init PROVE Capture!IInv
  OBVIOUS
<1> USE DEF Capture!Init
<1>1. Capture!TypeOK
  <2>1. captureRunning \in BOOLEAN /\ captureReinit \in BOOLEAN
    BY Zenon
  <2> QED BY <2>1 DEF Capture!TypeOK
<1>2. Capture!ThreadIsOwned /\ Capture!ContextsAreKept /\ Capture!WaitersAreKnown
  BY DEF Capture!ThreadIsOwned, Capture!ContextsAreKept, Capture!WaitersAreKnown
<1>3. Capture!ImagesAreNew /\ Capture!ImageIsNotShared
  BY DEF Capture!ImagesAreNew, Capture!ImageIsNotShared
<1>4. Capture!ReinitIsRaised /\ Capture!DisplaysAreOpen /\ Capture!OldDisplayIsGone
  BY DEF Capture!ReinitIsRaised, Capture!DisplaysAreOpen, Capture!OldDisplayIsGone
<1> QED BY <1>1, <1>2, <1>3, <1>4 DEF Capture!IInv

\* A session's step, the failure of its encoder, or the shutdown of it
LEMMA SessionKeeps ==
    ASSUME NEW s \in CaptureSessions, Capture!IInv,
           Capture!SessionStep(s) \/ Capture!KeyFrameFails(s) \/ Capture!Tell(s)
    PROVE  Capture!IInv'
<1> USE DEF Capture!IInv
<1>0. captureRunning' \in BOOLEAN /\ captureReinit' \in BOOLEAN
  BY Zenon DEF Capture!TypeOK, Capture!SessionStep, Capture!TakeRef, Capture!RaiseContext,
         Capture!CheckQueue, Capture!Finish, Capture!PassReinit, Capture!LookForDisplay,
         Capture!LockDisplay, Capture!NoDevice, Capture!StartEncoder, Capture!StopEncoder,
         Capture!KeyFrameFails, Capture!TakeImage, Capture!EncodeImage, Capture!Release,
         Capture!Join, Capture!Guard, Capture!Tell, Capture!displays
<1>1. CASE Capture!TakeRef(s)
  <2> USE <1>1 DEF Capture!TakeRef, Capture!TypeOK
  <2>1. Capture!TypeOK'
    BY <1>0
  <2>2. Capture!ThreadIsOwned'
    BY DEF Capture!ThreadIsOwned
  <2>3. Capture!ContextsAreKept' /\ Capture!WaitersAreKnown'
    BY DEF Capture!ThreadIsOwned, Capture!ContextsAreKept, Capture!WaitersAreKnown
  <2>4. Capture!ImagesAreNew' /\ Capture!ImageIsNotShared'
    BY DEF Capture!ThreadIsOwned, Capture!ImagesAreNew, Capture!ImageIsNotShared
  <2>5. Capture!ReinitIsRaised' /\ Capture!DisplaysAreOpen'
    BY DEF Capture!ThreadIsOwned, Capture!ReinitIsRaised, Capture!DisplaysAreOpen,
           Capture!OldDisplayIsGone
  <2>6. Capture!OldDisplayIsGone'
    BY DEF Capture!ThreadIsOwned, Capture!ReinitIsRaised, Capture!DisplaysAreOpen,
           Capture!OldDisplayIsGone
  <2> QED BY <2>1, <2>2, <2>3, <2>4, <2>5, <2>6, Zenon
<1>2. CASE Capture!RaiseContext(s)
  <2> USE <1>2 DEF Capture!RaiseContext, Capture!TypeOK
  <2>1. Capture!TypeOK'
    BY <1>0
  <2>2. Capture!ThreadIsOwned'
    BY DEF Capture!ThreadIsOwned
  <2>3. Capture!ContextsAreKept' /\ Capture!WaitersAreKnown'
    BY DEF Capture!ThreadIsOwned, Capture!ContextsAreKept, Capture!WaitersAreKnown
  <2>4. Capture!ImagesAreNew' /\ Capture!ImageIsNotShared'
    BY DEF Capture!ThreadIsOwned, Capture!ImagesAreNew, Capture!ImageIsNotShared
  <2>5. Capture!ReinitIsRaised' /\ Capture!DisplaysAreOpen'
    BY DEF Capture!ThreadIsOwned, Capture!ReinitIsRaised, Capture!DisplaysAreOpen,
           Capture!OldDisplayIsGone
  <2>6. Capture!OldDisplayIsGone'
    BY DEF Capture!ThreadIsOwned, Capture!ReinitIsRaised, Capture!DisplaysAreOpen,
           Capture!OldDisplayIsGone
  <2> QED BY <2>1, <2>2, <2>3, <2>4, <2>5, <2>6, Zenon
<1>3. CASE Capture!CheckQueue(s)
  <2> USE <1>3 DEF Capture!CheckQueue, Capture!TypeOK
  <2>1. Capture!TypeOK'
    BY <1>0
  <2>2. Capture!ThreadIsOwned'
    BY DEF Capture!ThreadIsOwned
  <2>3. Capture!ContextsAreKept' /\ Capture!WaitersAreKnown'
    BY DEF Capture!ThreadIsOwned, Capture!ContextsAreKept, Capture!WaitersAreKnown
  <2>4. Capture!ImagesAreNew' /\ Capture!ImageIsNotShared'
    BY DEF Capture!ThreadIsOwned, Capture!ImagesAreNew, Capture!ImageIsNotShared
  <2>5. Capture!ReinitIsRaised' /\ Capture!DisplaysAreOpen'
    BY DEF Capture!ThreadIsOwned, Capture!ReinitIsRaised, Capture!DisplaysAreOpen,
           Capture!OldDisplayIsGone
  <2>6. Capture!OldDisplayIsGone'
    BY DEF Capture!ThreadIsOwned, Capture!ReinitIsRaised, Capture!DisplaysAreOpen,
           Capture!OldDisplayIsGone
  <2> QED BY <2>1, <2>2, <2>3, <2>4, <2>5, <2>6, Zenon
<1>4. CASE Capture!Finish(s)
  <2> USE <1>4 DEF Capture!Finish, Capture!TypeOK
  <2>1. Capture!TypeOK'
    BY <1>0
  <2>2. Capture!ThreadIsOwned'
    BY DEF Capture!ThreadIsOwned
  <2>3. Capture!ContextsAreKept' /\ Capture!WaitersAreKnown'
    BY DEF Capture!ThreadIsOwned, Capture!ContextsAreKept, Capture!WaitersAreKnown
  <2>4. Capture!ImagesAreNew' /\ Capture!ImageIsNotShared'
    BY DEF Capture!ThreadIsOwned, Capture!ImagesAreNew, Capture!ImageIsNotShared
  <2>5. Capture!ReinitIsRaised' /\ Capture!DisplaysAreOpen'
    BY DEF Capture!ThreadIsOwned, Capture!ReinitIsRaised, Capture!DisplaysAreOpen,
           Capture!OldDisplayIsGone
  <2>6. Capture!OldDisplayIsGone'
    BY DEF Capture!ThreadIsOwned, Capture!ReinitIsRaised, Capture!DisplaysAreOpen,
           Capture!OldDisplayIsGone
  <2> QED BY <2>1, <2>2, <2>3, <2>4, <2>5, <2>6, Zenon
<1>5. CASE Capture!PassReinit(s)
  <2> USE <1>5 DEF Capture!PassReinit, Capture!TypeOK
  <2>1. Capture!TypeOK'
    BY <1>0
  <2>2. Capture!ThreadIsOwned'
    BY DEF Capture!ThreadIsOwned
  <2>3. Capture!ContextsAreKept' /\ Capture!WaitersAreKnown'
    BY DEF Capture!ThreadIsOwned, Capture!ContextsAreKept, Capture!WaitersAreKnown
  <2>4. Capture!ImagesAreNew' /\ Capture!ImageIsNotShared'
    BY DEF Capture!ThreadIsOwned, Capture!ImagesAreNew, Capture!ImageIsNotShared
  <2>5. Capture!ReinitIsRaised' /\ Capture!DisplaysAreOpen'
    BY DEF Capture!ThreadIsOwned, Capture!ReinitIsRaised, Capture!DisplaysAreOpen,
           Capture!OldDisplayIsGone
  <2>6. Capture!OldDisplayIsGone'
    BY DEF Capture!ThreadIsOwned, Capture!ReinitIsRaised, Capture!DisplaysAreOpen,
           Capture!OldDisplayIsGone
  <2> QED BY <2>1, <2>2, <2>3, <2>4, <2>5, <2>6, Zenon
<1>6. CASE Capture!LookForDisplay(s)
  <2> USE <1>6 DEF Capture!LookForDisplay, Capture!Expired, Capture!TypeOK
  <2>1. Capture!TypeOK'
    BY <1>0
  <2>2. Capture!ThreadIsOwned'
    BY DEF Capture!ThreadIsOwned
  <2>3. Capture!ContextsAreKept' /\ Capture!WaitersAreKnown'
    BY DEF Capture!ThreadIsOwned, Capture!ContextsAreKept, Capture!WaitersAreKnown
  <2>4. Capture!ImagesAreNew' /\ Capture!ImageIsNotShared'
    BY DEF Capture!ThreadIsOwned, Capture!ImagesAreNew, Capture!ImageIsNotShared
  <2>5. Capture!ReinitIsRaised' /\ Capture!DisplaysAreOpen'
    BY DEF Capture!ThreadIsOwned, Capture!ReinitIsRaised, Capture!DisplaysAreOpen,
           Capture!OldDisplayIsGone
  <2>6. Capture!OldDisplayIsGone'
    BY DEF Capture!ThreadIsOwned, Capture!ReinitIsRaised, Capture!DisplaysAreOpen,
           Capture!OldDisplayIsGone
  <2> QED BY <2>1, <2>2, <2>3, <2>4, <2>5, <2>6, Zenon
<1>7. CASE Capture!LockDisplay(s)
  <2> USE <1>7 DEF Capture!LockDisplay, Capture!Expired, Capture!TypeOK
  <2>1. Capture!TypeOK'
    BY <1>0
  <2>2. Capture!ThreadIsOwned'
    BY DEF Capture!ThreadIsOwned
  <2>3. Capture!ContextsAreKept' /\ Capture!WaitersAreKnown'
    BY DEF Capture!ThreadIsOwned, Capture!ContextsAreKept, Capture!WaitersAreKnown
  <2>4. Capture!ImagesAreNew' /\ Capture!ImageIsNotShared'
    BY DEF Capture!ThreadIsOwned, Capture!ImagesAreNew, Capture!ImageIsNotShared
  <2>5. Capture!ReinitIsRaised' /\ Capture!DisplaysAreOpen'
    BY DEF Capture!ThreadIsOwned, Capture!ReinitIsRaised, Capture!DisplaysAreOpen,
           Capture!OldDisplayIsGone
  <2>6. Capture!OldDisplayIsGone'
    BY DEF Capture!ThreadIsOwned, Capture!ReinitIsRaised, Capture!DisplaysAreOpen,
           Capture!OldDisplayIsGone
  <2> QED BY <2>1, <2>2, <2>3, <2>4, <2>5, <2>6, Zenon
<1>8. CASE Capture!NoDevice(s)
  <2> USE <1>8 DEF Capture!NoDevice, Capture!TypeOK
  <2>1. Capture!TypeOK'
    BY <1>0
  <2>2. Capture!ThreadIsOwned'
    BY DEF Capture!ThreadIsOwned
  <2>3. Capture!ContextsAreKept' /\ Capture!WaitersAreKnown'
    BY DEF Capture!ThreadIsOwned, Capture!ContextsAreKept, Capture!WaitersAreKnown
  <2>4. Capture!ImagesAreNew' /\ Capture!ImageIsNotShared'
    BY DEF Capture!ThreadIsOwned, Capture!ImagesAreNew, Capture!ImageIsNotShared
  <2>5. Capture!ReinitIsRaised' /\ Capture!DisplaysAreOpen'
    BY DEF Capture!ThreadIsOwned, Capture!ReinitIsRaised, Capture!DisplaysAreOpen,
           Capture!OldDisplayIsGone
  <2>6. Capture!OldDisplayIsGone'
    BY DEF Capture!ThreadIsOwned, Capture!ReinitIsRaised, Capture!DisplaysAreOpen,
           Capture!OldDisplayIsGone
  <2> QED BY <2>1, <2>2, <2>3, <2>4, <2>5, <2>6, Zenon
<1>9. CASE Capture!StartEncoder(s)
  <2> USE <1>9 DEF Capture!StartEncoder, Capture!Raised, Capture!TypeOK
  <2>1. Capture!TypeOK'
    BY <1>0
  <2>2. Capture!ThreadIsOwned'
    BY DEF Capture!ThreadIsOwned
  <2>3. Capture!ContextsAreKept' /\ Capture!WaitersAreKnown'
    BY DEF Capture!ThreadIsOwned, Capture!ContextsAreKept, Capture!WaitersAreKnown
  <2>4. Capture!ImagesAreNew' /\ Capture!ImageIsNotShared'
    BY DEF Capture!ThreadIsOwned, Capture!ImagesAreNew, Capture!ImageIsNotShared
  <2>5. Capture!ReinitIsRaised' /\ Capture!DisplaysAreOpen'
    BY DEF Capture!ThreadIsOwned, Capture!ReinitIsRaised, Capture!DisplaysAreOpen,
           Capture!OldDisplayIsGone
  <2>6. Capture!OldDisplayIsGone'
    BY DEF Capture!ThreadIsOwned, Capture!ReinitIsRaised, Capture!DisplaysAreOpen,
           Capture!OldDisplayIsGone
  <2> QED BY <2>1, <2>2, <2>3, <2>4, <2>5, <2>6, Zenon
<1>10. CASE Capture!StopEncoder(s)
  <2> USE <1>10 DEF Capture!StopEncoder, Capture!KeepsEncoding, Capture!TypeOK
  <2>1. Capture!TypeOK'
    BY <1>0
  <2>2. Capture!ThreadIsOwned'
    BY DEF Capture!ThreadIsOwned
  <2>3. Capture!ContextsAreKept' /\ Capture!WaitersAreKnown'
    BY DEF Capture!ThreadIsOwned, Capture!ContextsAreKept, Capture!WaitersAreKnown
  <2>4. Capture!ImagesAreNew' /\ Capture!ImageIsNotShared'
    BY DEF Capture!ThreadIsOwned, Capture!ImagesAreNew, Capture!ImageIsNotShared
  <2>5. Capture!ReinitIsRaised' /\ Capture!DisplaysAreOpen'
    BY DEF Capture!ThreadIsOwned, Capture!ReinitIsRaised, Capture!DisplaysAreOpen,
           Capture!OldDisplayIsGone
  <2>6. Capture!OldDisplayIsGone'
    BY DEF Capture!ThreadIsOwned, Capture!ReinitIsRaised, Capture!DisplaysAreOpen,
           Capture!OldDisplayIsGone
  <2> QED BY <2>1, <2>2, <2>3, <2>4, <2>5, <2>6, Zenon
<1>11. CASE Capture!KeyFrameFails(s)
  <2> USE <1>11 DEF Capture!KeyFrameFails, Capture!KeepsEncoding, Capture!TypeOK
  <2>1. Capture!TypeOK'
    BY <1>0
  <2>2. Capture!ThreadIsOwned'
    BY DEF Capture!ThreadIsOwned
  <2>3. Capture!ContextsAreKept' /\ Capture!WaitersAreKnown'
    BY DEF Capture!ThreadIsOwned, Capture!ContextsAreKept, Capture!WaitersAreKnown
  <2>4. Capture!ImagesAreNew' /\ Capture!ImageIsNotShared'
    BY DEF Capture!ThreadIsOwned, Capture!ImagesAreNew, Capture!ImageIsNotShared
  <2>5. Capture!ReinitIsRaised' /\ Capture!DisplaysAreOpen'
    BY DEF Capture!ThreadIsOwned, Capture!ReinitIsRaised, Capture!DisplaysAreOpen,
           Capture!OldDisplayIsGone
  <2>6. Capture!OldDisplayIsGone'
    BY DEF Capture!ThreadIsOwned, Capture!ReinitIsRaised, Capture!DisplaysAreOpen,
           Capture!OldDisplayIsGone
  <2> QED BY <2>1, <2>2, <2>3, <2>4, <2>5, <2>6, Zenon
<1>12. CASE Capture!TakeImage(s)
  <2> USE <1>12 DEF Capture!TakeImage, Capture!KeepsEncoding, Capture!TypeOK
  <2>1. Capture!TypeOK'
    BY <1>0
  <2>2. Capture!ThreadIsOwned'
    BY DEF Capture!ThreadIsOwned
  <2>3. Capture!ContextsAreKept' /\ Capture!WaitersAreKnown'
    BY DEF Capture!ThreadIsOwned, Capture!ContextsAreKept, Capture!WaitersAreKnown
  <2>4. Capture!ImagesAreNew' /\ Capture!ImageIsNotShared'
    BY DEF Capture!ThreadIsOwned, Capture!ImagesAreNew, Capture!ImageIsNotShared
  <2>5. Capture!ReinitIsRaised' /\ Capture!DisplaysAreOpen'
    BY DEF Capture!ThreadIsOwned, Capture!ReinitIsRaised, Capture!DisplaysAreOpen,
           Capture!OldDisplayIsGone
  <2>6. Capture!OldDisplayIsGone'
    BY DEF Capture!ThreadIsOwned, Capture!ReinitIsRaised, Capture!DisplaysAreOpen,
           Capture!OldDisplayIsGone
  <2> QED BY <2>1, <2>2, <2>3, <2>4, <2>5, <2>6, Zenon
<1>13. CASE Capture!EncodeImage(s)
  <2> USE <1>13 DEF Capture!EncodeImage, Capture!TypeOK
  <2>1. Capture!TypeOK'
    BY <1>0
  <2>2. Capture!ThreadIsOwned'
    BY DEF Capture!ThreadIsOwned
  <2>3. Capture!ContextsAreKept' /\ Capture!WaitersAreKnown'
    BY DEF Capture!ThreadIsOwned, Capture!ContextsAreKept, Capture!WaitersAreKnown
  <2>4. Capture!ImagesAreNew' /\ Capture!ImageIsNotShared'
    BY DEF Capture!ThreadIsOwned, Capture!ImagesAreNew, Capture!ImageIsNotShared
  <2>5. Capture!ReinitIsRaised' /\ Capture!DisplaysAreOpen'
    BY DEF Capture!ThreadIsOwned, Capture!ReinitIsRaised, Capture!DisplaysAreOpen,
           Capture!OldDisplayIsGone
  <2>6. Capture!OldDisplayIsGone'
    BY DEF Capture!ThreadIsOwned, Capture!ReinitIsRaised, Capture!DisplaysAreOpen,
           Capture!OldDisplayIsGone
  <2> QED BY <2>1, <2>2, <2>3, <2>4, <2>5, <2>6, Zenon
<1>14. CASE Capture!Release(s)
  <2> USE <1>14 DEF Capture!Release, Capture!IsLast, Capture!TypeOK
  <2>1. Capture!TypeOK'
    BY <1>0
  <2>2. Capture!ThreadIsOwned'
    BY DEF Capture!ThreadIsOwned
  <2>3. Capture!ContextsAreKept' /\ Capture!WaitersAreKnown'
    BY DEF Capture!ThreadIsOwned, Capture!ContextsAreKept, Capture!WaitersAreKnown
  <2>4. Capture!ImagesAreNew' /\ Capture!ImageIsNotShared'
    BY DEF Capture!ThreadIsOwned, Capture!ImagesAreNew, Capture!ImageIsNotShared
  <2>5. Capture!ReinitIsRaised' /\ Capture!DisplaysAreOpen'
    BY DEF Capture!ThreadIsOwned, Capture!ReinitIsRaised, Capture!DisplaysAreOpen,
           Capture!OldDisplayIsGone
  <2>6. Capture!OldDisplayIsGone'
    BY DEF Capture!ThreadIsOwned, Capture!ReinitIsRaised, Capture!DisplaysAreOpen,
           Capture!OldDisplayIsGone
  <2> QED BY <2>1, <2>2, <2>3, <2>4, <2>5, <2>6, Zenon
<1>15. CASE Capture!Join(s)
  <2> USE <1>15 DEF Capture!Join, Capture!displays, Capture!TypeOK
  <2>1. Capture!TypeOK'
    BY <1>0
  <2>2. Capture!ThreadIsOwned'
    BY DEF Capture!ThreadIsOwned
  <2>3. Capture!ContextsAreKept' /\ Capture!WaitersAreKnown'
    BY DEF Capture!ThreadIsOwned, Capture!ContextsAreKept, Capture!WaitersAreKnown
  <2>4. Capture!ImagesAreNew' /\ Capture!ImageIsNotShared'
    BY DEF Capture!ThreadIsOwned, Capture!ImagesAreNew, Capture!ImageIsNotShared
  <2>5. Capture!ReinitIsRaised' /\ Capture!DisplaysAreOpen'
    BY DEF Capture!ThreadIsOwned, Capture!ReinitIsRaised, Capture!DisplaysAreOpen,
           Capture!OldDisplayIsGone
  <2>6. Capture!OldDisplayIsGone'
    BY DEF Capture!ThreadIsOwned, Capture!ReinitIsRaised, Capture!DisplaysAreOpen,
           Capture!OldDisplayIsGone
  <2> QED BY <2>1, <2>2, <2>3, <2>4, <2>5, <2>6, Zenon
<1>16. CASE Capture!Guard(s)
  <2> USE <1>16 DEF Capture!Guard, Capture!TypeOK
  <2>1. Capture!TypeOK'
    BY <1>0
  <2>2. Capture!ThreadIsOwned'
    BY DEF Capture!ThreadIsOwned
  <2>3. Capture!ContextsAreKept' /\ Capture!WaitersAreKnown'
    BY DEF Capture!ThreadIsOwned, Capture!ContextsAreKept, Capture!WaitersAreKnown
  <2>4. Capture!ImagesAreNew' /\ Capture!ImageIsNotShared'
    BY DEF Capture!ThreadIsOwned, Capture!ImagesAreNew, Capture!ImageIsNotShared
  <2>5. Capture!ReinitIsRaised' /\ Capture!DisplaysAreOpen'
    BY DEF Capture!ThreadIsOwned, Capture!ReinitIsRaised, Capture!DisplaysAreOpen,
           Capture!OldDisplayIsGone
  <2>6. Capture!OldDisplayIsGone'
    BY DEF Capture!ThreadIsOwned, Capture!ReinitIsRaised, Capture!DisplaysAreOpen,
           Capture!OldDisplayIsGone
  <2> QED BY <2>1, <2>2, <2>3, <2>4, <2>5, <2>6, Zenon
<1>17. CASE Capture!Tell(s)
  <2> USE <1>17 DEF Capture!Tell, Capture!TypeOK
  <2>1. Capture!TypeOK'
    BY <1>0
  <2>2. Capture!ThreadIsOwned'
    BY DEF Capture!ThreadIsOwned
  <2>3. Capture!ContextsAreKept' /\ Capture!WaitersAreKnown'
    BY DEF Capture!ThreadIsOwned, Capture!ContextsAreKept, Capture!WaitersAreKnown
  <2>4. Capture!ImagesAreNew' /\ Capture!ImageIsNotShared'
    BY DEF Capture!ThreadIsOwned, Capture!ImagesAreNew, Capture!ImageIsNotShared
  <2>5. Capture!ReinitIsRaised' /\ Capture!DisplaysAreOpen'
    BY DEF Capture!ThreadIsOwned, Capture!ReinitIsRaised, Capture!DisplaysAreOpen,
           Capture!OldDisplayIsGone
  <2>6. Capture!OldDisplayIsGone'
    BY DEF Capture!ThreadIsOwned, Capture!ReinitIsRaised, Capture!DisplaysAreOpen,
           Capture!OldDisplayIsGone
  <2> QED BY <2>1, <2>2, <2>3, <2>4, <2>5, <2>6, Zenon
<1> QED BY <1>1, <1>2, <1>3, <1>4, <1>5, <1>6, <1>7, <1>8, <1>9, <1>10, <1>11, <1>12, <1>13,
           <1>14, <1>15, <1>16, <1>17, Zenon DEF Capture!SessionStep

\* A step of the capture thread, or of the display
LEMMA ThreadKeeps ==
    ASSUME Capture!IInv, Capture!CaptureStep \/ Capture!LoseDisplay
    PROVE  Capture!IInv'
<1> USE DEF Capture!IInv
<1>0. captureRunning' \in BOOLEAN /\ captureReinit' \in BOOLEAN
  BY Zenon DEF Capture!TypeOK, Capture!CaptureStep, Capture!PopFirst, Capture!OpenDisplay,
         Capture!AllocImages, Capture!StartCapture, Capture!Deliver, Capture!AfterDelivery,
         Capture!PeekQueue, Capture!TakeContext, Capture!NextImage, Capture!Reinit,
         Capture!DisplayReturned, Capture!CloseDisplay, Capture!ReopenDisplay,
         Capture!ResetEnds, Capture!ReallocImages, Capture!Return, Capture!LoseDisplay,
         Capture!displays
<1>1. CASE Capture!PopFirst
  <2> USE <1>1 DEF Capture!PopFirst, Capture!TypeOK
  <2>1. Capture!TypeOK'
    BY <1>0
  <2>2. Capture!ThreadIsOwned'
    BY DEF Capture!ThreadIsOwned
  <2>3. Capture!ContextsAreKept' /\ Capture!WaitersAreKnown'
    BY DEF Capture!ThreadIsOwned, Capture!ContextsAreKept, Capture!WaitersAreKnown
  <2>4. Capture!ImagesAreNew' /\ Capture!ImageIsNotShared'
    BY DEF Capture!ThreadIsOwned, Capture!ImagesAreNew, Capture!ImageIsNotShared
  <2>5. Capture!ReinitIsRaised' /\ Capture!DisplaysAreOpen'
    BY DEF Capture!ThreadIsOwned, Capture!ReinitIsRaised, Capture!DisplaysAreOpen,
           Capture!OldDisplayIsGone
  <2>6. Capture!OldDisplayIsGone'
    BY DEF Capture!ThreadIsOwned, Capture!ReinitIsRaised, Capture!DisplaysAreOpen,
           Capture!OldDisplayIsGone
  <2> QED BY <2>1, <2>2, <2>3, <2>4, <2>5, <2>6, Zenon
<1>2. CASE Capture!OpenDisplay
  <2> USE <1>2 DEF Capture!OpenDisplay, Capture!TypeOK
  <2>1. Capture!TypeOK'
    BY <1>0
  <2>2. Capture!ThreadIsOwned'
    BY DEF Capture!ThreadIsOwned
  <2>3. Capture!ContextsAreKept' /\ Capture!WaitersAreKnown'
    BY DEF Capture!ThreadIsOwned, Capture!ContextsAreKept, Capture!WaitersAreKnown
  <2>4. Capture!ImagesAreNew' /\ Capture!ImageIsNotShared'
    BY DEF Capture!ThreadIsOwned, Capture!ImagesAreNew, Capture!ImageIsNotShared
  <2>5. Capture!ReinitIsRaised' /\ Capture!DisplaysAreOpen'
    BY DEF Capture!ThreadIsOwned, Capture!ReinitIsRaised, Capture!DisplaysAreOpen,
           Capture!OldDisplayIsGone
  <2>6. Capture!OldDisplayIsGone'
    BY DEF Capture!ThreadIsOwned, Capture!ReinitIsRaised, Capture!DisplaysAreOpen,
           Capture!OldDisplayIsGone
  <2> QED BY <2>1, <2>2, <2>3, <2>4, <2>5, <2>6, Zenon
<1>3. CASE Capture!AllocImages
  <2> USE <1>3 DEF Capture!AllocImages, Capture!TypeOK
  <2>1. Capture!TypeOK'
    BY <1>0
  <2>2. Capture!ThreadIsOwned'
    BY DEF Capture!ThreadIsOwned
  <2>3. Capture!ContextsAreKept' /\ Capture!WaitersAreKnown'
    BY DEF Capture!ThreadIsOwned, Capture!ContextsAreKept, Capture!WaitersAreKnown
  <2>4. Capture!ImagesAreNew' /\ Capture!ImageIsNotShared'
    BY DEF Capture!ThreadIsOwned, Capture!ImagesAreNew, Capture!ImageIsNotShared
  <2>5. Capture!ReinitIsRaised' /\ Capture!DisplaysAreOpen'
    BY DEF Capture!ThreadIsOwned, Capture!ReinitIsRaised, Capture!DisplaysAreOpen,
           Capture!OldDisplayIsGone
  <2>6. Capture!OldDisplayIsGone'
    BY DEF Capture!ThreadIsOwned, Capture!ReinitIsRaised, Capture!DisplaysAreOpen,
           Capture!OldDisplayIsGone
  <2> QED BY <2>1, <2>2, <2>3, <2>4, <2>5, <2>6, Zenon
<1>4. CASE Capture!StartCapture
  <2> USE <1>4 DEF Capture!StartCapture, Capture!NextSlot, Capture!TypeOK
  <2>1. Capture!TypeOK'
    BY <1>0
  <2>2. Capture!ThreadIsOwned'
    BY DEF Capture!ThreadIsOwned
  <2>3. Capture!ContextsAreKept' /\ Capture!WaitersAreKnown'
    BY DEF Capture!ThreadIsOwned, Capture!ContextsAreKept, Capture!WaitersAreKnown
  <2>4. Capture!ImagesAreNew' /\ Capture!ImageIsNotShared'
    BY DEF Capture!ThreadIsOwned, Capture!ImagesAreNew, Capture!ImageIsNotShared
  <2>5. Capture!ReinitIsRaised' /\ Capture!DisplaysAreOpen'
    BY DEF Capture!ThreadIsOwned, Capture!ReinitIsRaised, Capture!DisplaysAreOpen,
           Capture!OldDisplayIsGone
  <2>6. Capture!OldDisplayIsGone'
    BY DEF Capture!ThreadIsOwned, Capture!ReinitIsRaised, Capture!DisplaysAreOpen,
           Capture!OldDisplayIsGone
  <2> QED BY <2>1, <2>2, <2>3, <2>4, <2>5, <2>6, Zenon
<1>5. CASE Capture!Deliver
  <2> USE <1>5 DEF Capture!Deliver, Capture!Raised, Capture!displays, Capture!TypeOK
  <2>1. Capture!TypeOK'
    BY <1>0
  <2>2. Capture!ThreadIsOwned'
    BY DEF Capture!ThreadIsOwned
  <2>3. Capture!ContextsAreKept' /\ Capture!WaitersAreKnown'
    BY DEF Capture!ThreadIsOwned, Capture!ContextsAreKept, Capture!WaitersAreKnown
  <2>4. Capture!ImagesAreNew' /\ Capture!ImageIsNotShared'
    BY DEF Capture!ThreadIsOwned, Capture!ImagesAreNew, Capture!ImageIsNotShared
  <2>5. Capture!ReinitIsRaised' /\ Capture!DisplaysAreOpen'
    BY DEF Capture!ThreadIsOwned, Capture!ReinitIsRaised, Capture!DisplaysAreOpen,
           Capture!OldDisplayIsGone
  <2>6. Capture!OldDisplayIsGone'
    BY DEF Capture!ThreadIsOwned, Capture!ReinitIsRaised, Capture!DisplaysAreOpen,
           Capture!OldDisplayIsGone
  <2> QED BY <2>1, <2>2, <2>3, <2>4, <2>5, <2>6, Zenon
<1>6. CASE Capture!AfterDelivery
  <2> USE <1>6 DEF Capture!AfterDelivery, Capture!TypeOK
  <2>1. Capture!TypeOK'
    BY <1>0
  <2>2. Capture!ThreadIsOwned'
    BY DEF Capture!ThreadIsOwned
  <2>3. Capture!ContextsAreKept' /\ Capture!WaitersAreKnown'
    BY DEF Capture!ThreadIsOwned, Capture!ContextsAreKept, Capture!WaitersAreKnown
  <2>4. Capture!ImagesAreNew' /\ Capture!ImageIsNotShared'
    BY DEF Capture!ThreadIsOwned, Capture!ImagesAreNew, Capture!ImageIsNotShared
  <2>5. Capture!ReinitIsRaised' /\ Capture!DisplaysAreOpen'
    BY DEF Capture!ThreadIsOwned, Capture!ReinitIsRaised, Capture!DisplaysAreOpen,
           Capture!OldDisplayIsGone
  <2>6. Capture!OldDisplayIsGone'
    BY DEF Capture!ThreadIsOwned, Capture!ReinitIsRaised, Capture!DisplaysAreOpen,
           Capture!OldDisplayIsGone
  <2> QED BY <2>1, <2>2, <2>3, <2>4, <2>5, <2>6, Zenon
<1>7. CASE Capture!PeekQueue
  <2> USE <1>7 DEF Capture!PeekQueue, Capture!TypeOK
  <2>1. Capture!TypeOK'
    BY <1>0
  <2>2. Capture!ThreadIsOwned'
    BY DEF Capture!ThreadIsOwned
  <2>3. Capture!ContextsAreKept' /\ Capture!WaitersAreKnown'
    BY DEF Capture!ThreadIsOwned, Capture!ContextsAreKept, Capture!WaitersAreKnown
  <2>4. Capture!ImagesAreNew' /\ Capture!ImageIsNotShared'
    BY DEF Capture!ThreadIsOwned, Capture!ImagesAreNew, Capture!ImageIsNotShared
  <2>5. Capture!ReinitIsRaised' /\ Capture!DisplaysAreOpen'
    BY DEF Capture!ThreadIsOwned, Capture!ReinitIsRaised, Capture!DisplaysAreOpen,
           Capture!OldDisplayIsGone
  <2>6. Capture!OldDisplayIsGone'
    BY DEF Capture!ThreadIsOwned, Capture!ReinitIsRaised, Capture!DisplaysAreOpen,
           Capture!OldDisplayIsGone
  <2> QED BY <2>1, <2>2, <2>3, <2>4, <2>5, <2>6, Zenon
<1>8. CASE Capture!TakeContext
  <2> USE <1>8 DEF Capture!TakeContext, Capture!TypeOK
  <2>1. Capture!TypeOK'
    BY <1>0
  <2>2. Capture!ThreadIsOwned'
    BY DEF Capture!ThreadIsOwned
  <2>3. Capture!ContextsAreKept' /\ Capture!WaitersAreKnown'
    BY DEF Capture!ThreadIsOwned, Capture!ContextsAreKept, Capture!WaitersAreKnown
  <2>4. Capture!ImagesAreNew' /\ Capture!ImageIsNotShared'
    BY DEF Capture!ThreadIsOwned, Capture!ImagesAreNew, Capture!ImageIsNotShared
  <2>5. Capture!ReinitIsRaised' /\ Capture!DisplaysAreOpen'
    BY DEF Capture!ThreadIsOwned, Capture!ReinitIsRaised, Capture!DisplaysAreOpen,
           Capture!OldDisplayIsGone
  <2>6. Capture!OldDisplayIsGone'
    BY DEF Capture!ThreadIsOwned, Capture!ReinitIsRaised, Capture!DisplaysAreOpen,
           Capture!OldDisplayIsGone
  <2> QED BY <2>1, <2>2, <2>3, <2>4, <2>5, <2>6, Zenon
<1>9. CASE Capture!NextImage
  <2> USE <1>9 DEF Capture!NextImage, Capture!NextSlot, Capture!NextIsFree, Capture!TypeOK
  <2>1. Capture!TypeOK'
    BY <1>0
  <2>2. Capture!ThreadIsOwned'
    BY DEF Capture!ThreadIsOwned
  <2>3. Capture!ContextsAreKept' /\ Capture!WaitersAreKnown'
    BY DEF Capture!ThreadIsOwned, Capture!ContextsAreKept, Capture!WaitersAreKnown
  <2>4. Capture!ImagesAreNew' /\ Capture!ImageIsNotShared'
    BY DEF Capture!ThreadIsOwned, Capture!ImagesAreNew, Capture!ImageIsNotShared
  <2>5. Capture!ReinitIsRaised' /\ Capture!DisplaysAreOpen'
    BY DEF Capture!ThreadIsOwned, Capture!ReinitIsRaised, Capture!DisplaysAreOpen,
           Capture!OldDisplayIsGone
  <2>6. Capture!OldDisplayIsGone'
    BY DEF Capture!ThreadIsOwned, Capture!ReinitIsRaised, Capture!DisplaysAreOpen,
           Capture!OldDisplayIsGone
  <2> QED BY <2>1, <2>2, <2>3, <2>4, <2>5, <2>6, Zenon
<1>10. CASE Capture!Reinit
  <2> USE <1>10 DEF Capture!Reinit, Capture!Outdated, Capture!TypeOK
  <2>1. Capture!TypeOK'
    BY <1>0
  <2>2. Capture!ThreadIsOwned'
    BY DEF Capture!ThreadIsOwned
  <2>3. Capture!ContextsAreKept' /\ Capture!WaitersAreKnown'
    BY DEF Capture!ThreadIsOwned, Capture!ContextsAreKept, Capture!WaitersAreKnown
  <2>4. Capture!ImagesAreNew' /\ Capture!ImageIsNotShared'
    BY DEF Capture!ThreadIsOwned, Capture!ImagesAreNew, Capture!ImageIsNotShared
  <2>5. Capture!ReinitIsRaised' /\ Capture!DisplaysAreOpen'
    BY DEF Capture!ThreadIsOwned, Capture!ReinitIsRaised, Capture!DisplaysAreOpen,
           Capture!OldDisplayIsGone
  <2>6. Capture!OldDisplayIsGone'
    BY DEF Capture!ThreadIsOwned, Capture!ReinitIsRaised, Capture!DisplaysAreOpen,
           Capture!OldDisplayIsGone
  <2> QED BY <2>1, <2>2, <2>3, <2>4, <2>5, <2>6, Zenon
<1>11. CASE Capture!DisplayReturned
  <2> USE <1>11 DEF Capture!DisplayReturned, Capture!DisplayIsFree, Capture!TypeOK
  <2>1. Capture!TypeOK'
    BY <1>0
  <2>2. Capture!ThreadIsOwned'
    BY DEF Capture!ThreadIsOwned
  <2>3. Capture!ContextsAreKept' /\ Capture!WaitersAreKnown'
    BY DEF Capture!ThreadIsOwned, Capture!ContextsAreKept, Capture!WaitersAreKnown
  <2>4. Capture!ImagesAreNew' /\ Capture!ImageIsNotShared'
    BY DEF Capture!ThreadIsOwned, Capture!ImagesAreNew, Capture!ImageIsNotShared
  <2>5. Capture!ReinitIsRaised' /\ Capture!DisplaysAreOpen'
    BY DEF Capture!ThreadIsOwned, Capture!ReinitIsRaised, Capture!DisplaysAreOpen,
           Capture!OldDisplayIsGone
  <2>6. Capture!OldDisplayIsGone'
    BY DEF Capture!ThreadIsOwned, Capture!ReinitIsRaised, Capture!DisplaysAreOpen,
           Capture!OldDisplayIsGone
  <2> QED BY <2>1, <2>2, <2>3, <2>4, <2>5, <2>6, Zenon
<1>12. CASE Capture!CloseDisplay
  <2> USE <1>12 DEF Capture!CloseDisplay, Capture!TypeOK
  <2>1. Capture!TypeOK'
    BY <1>0
  <2>2. Capture!ThreadIsOwned'
    BY DEF Capture!ThreadIsOwned
  <2>3. Capture!ContextsAreKept' /\ Capture!WaitersAreKnown'
    BY DEF Capture!ThreadIsOwned, Capture!ContextsAreKept, Capture!WaitersAreKnown
  <2>4. Capture!ImagesAreNew' /\ Capture!ImageIsNotShared'
    BY DEF Capture!ThreadIsOwned, Capture!ImagesAreNew, Capture!ImageIsNotShared
  <2>5. Capture!ReinitIsRaised' /\ Capture!DisplaysAreOpen'
    BY DEF Capture!ThreadIsOwned, Capture!ReinitIsRaised, Capture!DisplaysAreOpen,
           Capture!OldDisplayIsGone
  <2>6. Capture!OldDisplayIsGone'
    BY DEF Capture!ThreadIsOwned, Capture!ReinitIsRaised, Capture!DisplaysAreOpen,
           Capture!OldDisplayIsGone
  <2> QED BY <2>1, <2>2, <2>3, <2>4, <2>5, <2>6, Zenon
<1>13. CASE Capture!ReopenDisplay
  <2> USE <1>13 DEF Capture!ReopenDisplay, Capture!Locked, Capture!TypeOK
  <2>1. Capture!TypeOK'
    BY <1>0
  <2>2. Capture!ThreadIsOwned'
    BY DEF Capture!ThreadIsOwned
  <2>3. Capture!ContextsAreKept' /\ Capture!WaitersAreKnown'
    BY DEF Capture!ThreadIsOwned, Capture!ContextsAreKept, Capture!WaitersAreKnown
  <2>4. Capture!ImagesAreNew' /\ Capture!ImageIsNotShared'
    BY DEF Capture!ThreadIsOwned, Capture!ImagesAreNew, Capture!ImageIsNotShared
  <2>5. Capture!ReinitIsRaised' /\ Capture!DisplaysAreOpen'
    BY DEF Capture!ThreadIsOwned, Capture!ReinitIsRaised, Capture!DisplaysAreOpen,
           Capture!OldDisplayIsGone
  <2>6. Capture!OldDisplayIsGone'
    BY DEF Capture!ThreadIsOwned, Capture!ReinitIsRaised, Capture!DisplaysAreOpen,
           Capture!OldDisplayIsGone
  <2> QED BY <2>1, <2>2, <2>3, <2>4, <2>5, <2>6, Zenon
<1>14. CASE Capture!ResetEnds
  <2> USE <1>14 DEF Capture!ResetEnds, Capture!TypeOK
  <2>1. Capture!TypeOK'
    BY <1>0
  <2>2. Capture!ThreadIsOwned'
    BY DEF Capture!ThreadIsOwned
  <2>3. Capture!ContextsAreKept' /\ Capture!WaitersAreKnown'
    BY DEF Capture!ThreadIsOwned, Capture!ContextsAreKept, Capture!WaitersAreKnown
  <2>4. Capture!ImagesAreNew' /\ Capture!ImageIsNotShared'
    BY DEF Capture!ThreadIsOwned, Capture!ImagesAreNew, Capture!ImageIsNotShared
  <2>5. Capture!ReinitIsRaised' /\ Capture!DisplaysAreOpen'
    BY DEF Capture!ThreadIsOwned, Capture!ReinitIsRaised, Capture!DisplaysAreOpen,
           Capture!OldDisplayIsGone
  <2>6. Capture!OldDisplayIsGone'
    BY DEF Capture!ThreadIsOwned, Capture!ReinitIsRaised, Capture!DisplaysAreOpen,
           Capture!OldDisplayIsGone
  <2> QED BY <2>1, <2>2, <2>3, <2>4, <2>5, <2>6, Zenon
<1>15. CASE Capture!ReallocImages
  <2> USE <1>15 DEF Capture!ReallocImages, Capture!TypeOK
  <2>1. Capture!TypeOK'
    BY <1>0
  <2>2. Capture!ThreadIsOwned'
    BY DEF Capture!ThreadIsOwned
  <2>3. Capture!ContextsAreKept' /\ Capture!WaitersAreKnown'
    BY DEF Capture!ThreadIsOwned, Capture!ContextsAreKept, Capture!WaitersAreKnown
  <2>4. Capture!ImagesAreNew' /\ Capture!ImageIsNotShared'
    BY DEF Capture!ThreadIsOwned, Capture!ImagesAreNew, Capture!ImageIsNotShared
  <2>5. Capture!ReinitIsRaised' /\ Capture!DisplaysAreOpen'
    BY DEF Capture!ThreadIsOwned, Capture!ReinitIsRaised, Capture!DisplaysAreOpen,
           Capture!OldDisplayIsGone
  <2>6. Capture!OldDisplayIsGone'
    BY DEF Capture!ThreadIsOwned, Capture!ReinitIsRaised, Capture!DisplaysAreOpen,
           Capture!OldDisplayIsGone
  <2> QED BY <2>1, <2>2, <2>3, <2>4, <2>5, <2>6, Zenon
<1>16. CASE Capture!Return
  <2> USE <1>16 DEF Capture!Return, Capture!Stops, Capture!StopsTaken, Capture!StopsQueued, Capture!Outdated, Capture!displays, Capture!TypeOK
  <2>1. Capture!TypeOK'
    BY <1>0
  <2>2. Capture!ThreadIsOwned'
    BY DEF Capture!ThreadIsOwned
  <2>3. Capture!ContextsAreKept' /\ Capture!WaitersAreKnown'
    BY DEF Capture!ThreadIsOwned, Capture!ContextsAreKept, Capture!WaitersAreKnown
  <2>4. Capture!ImagesAreNew' /\ Capture!ImageIsNotShared'
    BY DEF Capture!ThreadIsOwned, Capture!ImagesAreNew, Capture!ImageIsNotShared
  <2>5. Capture!ReinitIsRaised' /\ Capture!DisplaysAreOpen'
    BY DEF Capture!ThreadIsOwned, Capture!ReinitIsRaised, Capture!DisplaysAreOpen,
           Capture!OldDisplayIsGone
  <2>6. Capture!OldDisplayIsGone'
    BY DEF Capture!ThreadIsOwned, Capture!ReinitIsRaised, Capture!DisplaysAreOpen,
           Capture!OldDisplayIsGone
  <2> QED BY <2>1, <2>2, <2>3, <2>4, <2>5, <2>6, Zenon
<1>17. CASE Capture!LoseDisplay
  <2> USE <1>17 DEF Capture!LoseDisplay, Capture!TypeOK
  <2>1. Capture!TypeOK'
    BY <1>0
  <2>2. Capture!ThreadIsOwned'
    BY DEF Capture!ThreadIsOwned
  <2>3. Capture!ContextsAreKept' /\ Capture!WaitersAreKnown'
    BY DEF Capture!ThreadIsOwned, Capture!ContextsAreKept, Capture!WaitersAreKnown
  <2>4. Capture!ImagesAreNew' /\ Capture!ImageIsNotShared'
    BY DEF Capture!ThreadIsOwned, Capture!ImagesAreNew, Capture!ImageIsNotShared
  <2>5. Capture!ReinitIsRaised' /\ Capture!DisplaysAreOpen'
    BY DEF Capture!ThreadIsOwned, Capture!ReinitIsRaised, Capture!DisplaysAreOpen,
           Capture!OldDisplayIsGone
  <2>6. Capture!OldDisplayIsGone'
    BY DEF Capture!ThreadIsOwned, Capture!ReinitIsRaised, Capture!DisplaysAreOpen,
           Capture!OldDisplayIsGone
  <2> QED BY <2>1, <2>2, <2>3, <2>4, <2>5, <2>6, Zenon
<1> QED BY <1>1, <1>2, <1>3, <1>4, <1>5, <1>6, <1>7, <1>8, <1>9, <1>10, <1>11, <1>12, <1>13,
           <1>14, <1>15, <1>16, <1>17, Zenon DEF Capture!CaptureStep

\* The invariant is inductive.
LEMMA CaptureInvariant == CaptureSpec => []Capture!IInv
<1>1. Capture!Init => Capture!IInv
  BY CaptureInit
<1>2. Capture!IInv /\ [Capture!Next]_(Capture!vars) => Capture!IInv'
  <2> SUFFICES ASSUME Capture!IInv, Capture!Next \/ UNCHANGED Capture!vars
               PROVE  Capture!IInv'
    OBVIOUS
  <2>1. CASE Capture!Next
    BY <2>1, SessionKeeps, ThreadKeeps, Zenon DEF Capture!Next
  <2>2. CASE UNCHANGED Capture!vars
    BY <2>2 DEF Capture!vars, Capture!IInv, Capture!TypeOK, Capture!ThreadIsOwned,
                Capture!ContextsAreKept, Capture!WaitersAreKnown, Capture!ImagesAreNew,
                Capture!ImageIsNotShared, Capture!ReinitIsRaised, Capture!DisplaysAreOpen,
                Capture!OldDisplayIsGone
  <2> QED BY <2>1, <2>2
<1> QED BY <1>1, <1>2, PTL DEF CaptureSpec, Capture!Spec

\* A session that waits for images is known to a capture thread that will raise or stop
\* them, and that thread has somebody to run for (video.cpp:401).
THEOREM CaptureServes == CaptureSpec => []CaptureServesItsSessions
<1>1. Capture!IInv => CaptureServesItsSessions
  BY DEF Capture!IInv, Capture!ThreadIsOwned, CaptureServesItsSessions, Capture!CaptureServesItsSessions,
         Capture!RunsForSomebody
<1> QED BY <1>1, CaptureInvariant, PTL

\* The image that the display fills is in no encoder's hands, and none has a display that is
\* closed and opened again, except in sessions that had passed reinit_event when it was raised
\* (video.cpp:660, 677, 1319).
THEOREM DisplayAlone == CaptureSpec => []DisplayIsUsedAlone
<1>1. Capture!IInv => DisplayIsUsedAlone
  BY DEF Capture!IInv, DisplayIsUsedAlone, Capture!DisplayIsUsedAlone
<1> QED BY <1>1, CaptureInvariant, PTL
=============================================================================
