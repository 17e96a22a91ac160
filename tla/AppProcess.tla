----------------------------- MODULE AppProcess -----------------------------
(***************************************************************************)
(* The application that is streamed and its prep commands: proc_t of       *)
(* src/sunshine/process.cpp.  The one object proc::proc is used, without a *)
(* lock, by                                                                *)
(*   "https"   the HTTPS server: /launch calls execute(), /cancel calls    *)
(*             terminate();                                                *)
(*   "config"  the configuration server: saving or deleting an application *)
(*             calls refresh(), "Force close" calls terminate();           *)
(*   "main"    the end of the program: the destructor calls terminate().   *)
(* Commands take as long as they like, so that threads meet between them.  *)
(* What two overlapping calls do to the iterators is undefined in C++; the *)
(* model has the order of their steps, and only a history variable of it   *)
(* enters the properties that hold. A command without an undo is left out. *)
(***************************************************************************)
EXTENDS Integers

CONSTANTS
    Apps,         \* _apps
    Desktop,      \* application 0, which refresh() inserts
    Placebos,     \* applications without a cmd
    Preps,        \* how many prep commands each application has
    Requests,     \* what is asked for: "launch", "cancel", "close", "refresh", "exit"
    MaxLaunches,  \* bound on the number of launches
    MaxEffect,    \* bound on how often a command is run without being undone
    Nil           \* the app id -1, iterators of no list

ASSUME AppsAssumption == Desktop \in Placebos /\ Placebos \subseteq Apps /\ Nil \notin Apps
ASSUME PrepsAssumption == Preps \in [Apps -> Nat]
ASSUME BoundAssumption == MaxLaunches \in Nat /\ MaxEffect \in Nat \ {0}

VARIABLES
    appId,      \* _app_id
    placebo,    \* an application without a process runs
    child,      \* _process
    grouped,    \* _process_handle is the group of a process
    undoOf,     \* whose prep_cmds _undo_begin and _undo_it point into
    undoIt,     \* _undo_it - _undo_begin
    effect,     \* how often each do command was run, less its undo command
    pc, ret,    \* control of each thread, and where its terminate() returns to
    want,       \* the argument of execute()
    launches,   \* how many launches there have been
    dead,       \* std::abort(), or undefined behaviour
    disturbed   \* history: calls have overlapped, or refresh() has dropped something

process == <<placebo, child, grouped>>
iterators == <<undoOf, undoIt>>
history == <<launches, dead, disturbed>>
vars == <<appId, process, iterators, effect, pc, ret, want, history>>

Threads == {"https", "config", "main"}
Commands == UNION {{a} \X (1 .. Preps[a]) : a \in Apps}

Inside(t) == pc[t] \notin {"idle", "check", "over"}
Step(t, from, to) == ~dead /\ pc[t] = from /\ pc' = [pc EXCEPT ![t] = to]
May(t, r) == r \in Requests /\ pc["main"] = "idle" /\ pc[t] = "idle"

Init ==
    /\ appId = Nil /\ placebo = FALSE /\ child = "none" /\ grouped = FALSE
    /\ undoOf = Nil /\ undoIt = 0
    /\ effect = [c \in Commands |-> 0]
    /\ pc = [t \in Threads |-> "idle"] /\ ret = [t \in Threads |-> "idle"]
    /\ want = Desktop
    /\ launches = 0 /\ dead = FALSE /\ disturbed = FALSE
-----------------------------------------------------------------------------
(* The conditions and updates a bug would get wrong, each preceded by the  *)
(* mutant that does.                                                       *)

PlaceboKept == placebo
PlaceboAfterTerminate == FALSE

UndoneAt(i) == i + 1
Undone(i) == i

Prev(i) == i - 1

FailedReturns == "idle"
FailedGoesOn == "prep"
Failed == "term"
-----------------------------------------------------------------------------
\* proc_t::running()
Running == IF placebo \/ child = "running" THEN appId ELSE Nil

\* A call of terminate() begins, which returns to label r.
CallTerminate(t, from, r) ==
    /\ Step(t, from, "term")
    /\ ret' = [ret EXCEPT ![t] = r]
    /\ disturbed' = (disturbed \/ \E u \in Threads \ {t} : Inside(u))
    /\ UNCHANGED <<launches, dead>>

\* process_end(): a process that runs is terminated with its group.
ProcessEnd ==
    /\ child' = IF child = "running" THEN "none" ELSE child
    /\ grouped' = (grouped /\ child # "running")

\* terminate(): the process first, ...
Terminate(t) ==
    /\ Step(t, "term", "undo")
    /\ placebo' = PlaceboAfterTerminate
    /\ ProcessEnd
    /\ appId' = Nil
    /\ UNCHANGED <<iterators, effect, ret, want, history>>

\* ... then the loop down from _undo_it, ...
UndoRun(t) ==
    /\ Step(t, "undo", "undone")
    /\ undoIt # 0
    /\ <<undoOf, Undone(undoIt)>> \in Commands
    /\ effect[<<undoOf, Undone(undoIt)>>] > -MaxEffect
    /\ effect' = [effect EXCEPT ![<<undoOf, Undone(undoIt)>>] = @ - 1]
    /\ UNCHANGED <<appId, process, iterators, ret, want, history>>

UndoNext(t) ==
    /\ Step(t, "undone", "undo")
    /\ undoIt' = Prev(undoIt)
    /\ UNCHANGED <<appId, process, undoOf, effect, ret, want, history>>

\* ... and the return.
Terminated(t) ==
    /\ Step(t, "undo", ret[t])
    /\ undoIt = 0
    /\ UNCHANGED <<appId, process, iterators, effect, ret, want, history>>

\* An undo command fails: std::abort(). An iterator points outside its list.
Abort(t) ==
    /\ ~dead
    /\ \/ pc[t] = "undo" /\ undoIt # 0
       \/ pc[t] \in {"prep", "prepped", "start"} /\ (undoOf # want \/ undoIt \notin 0 .. Preps[want])
    /\ dead' = TRUE
    /\ UNCHANGED <<appId, process, iterators, effect, pc, ret, want, launches, disturbed>>

TerminateStep(t) == Terminate(t) \/ UndoRun(t) \/ UndoNext(t) \/ Terminated(t) \/ Abort(t)
-----------------------------------------------------------------------------
(* The HTTPS thread                                                        *)

Launch(a) ==
    /\ May("https", "launch") /\ launches < MaxLaunches
    /\ Step("https", "idle", "check")
    /\ launches' = launches + 1
    /\ want' = a
    /\ UNCHANGED <<appId, process, iterators, effect, ret, dead, disturbed>>

LaunchRefused ==
    /\ Running # Nil
    /\ Step("https", "check", "idle")
    /\ UNCHANGED <<appId, process, iterators, effect, ret, want, history>>

\* The first condition of execute(): running() is negated, and 0 is Desktop.
ResetsGroup == Running = Desktop /\ appId # Nil

\* execute() up to its terminate()
Execute ==
    /\ Running = Nil
    /\ CallTerminate("https", "check", "setup")
    /\ grouped' = (grouped /\ ~ResetsGroup)
    /\ appId' = IF ResetsGroup THEN Nil ELSE appId
    /\ UNCHANGED <<placebo, child, iterators, effect, want>>

Setup ==
    /\ Step("https", "setup", "prep")
    /\ appId' = want
    /\ undoOf' = want /\ undoIt' = 0
    /\ UNCHANGED <<process, effect, ret, want, history>>

PrepRun ==
    /\ Step("https", "prep", "prepped")
    /\ undoOf = want /\ undoIt >= 0 /\ undoIt < Preps[want]
    /\ effect[<<want, undoIt + 1>>] < MaxEffect
    /\ effect' = [effect EXCEPT ![<<want, undoIt + 1>>] = @ + 1]
    /\ UNCHANGED <<appId, process, iterators, ret, want, history>>

PrepNext ==
    /\ Step("https", "prepped", "prep")
    /\ undoIt' = undoIt + 1
    /\ UNCHANGED <<appId, process, undoOf, effect, ret, want, history>>

\* A do command cannot be run or returns an error: the fail_guard terminates.
PrepFails ==
    /\ undoOf = want /\ undoIt >= 0 /\ undoIt < Preps[want]
    /\ Step("https", "prep", Failed)
    /\ ret' = [ret EXCEPT !["https"] = "idle"]
    /\ UNCHANGED <<appId, process, iterators, effect, want, history>>

PrepDone ==
    /\ Step("https", "prep", "start")
    /\ undoOf = want /\ undoIt = Preps[want]
    /\ UNCHANGED <<appId, process, iterators, effect, ret, want, history>>

Start ==
    /\ Step("https", "start", "idle")
    /\ undoOf = want
    /\ placebo' = (placebo \/ want \in Placebos)
    /\ child' = IF want \in Placebos THEN child ELSE "running"
    /\ grouped' = (grouped \/ want \notin Placebos)
    /\ UNCHANGED <<appId, iterators, effect, ret, want, history>>

\* The cmd cannot be run; or ec is still that of a detached command, and the cmd
\* runs or there is none.
StartFails ==
    /\ Step("https", "start", Failed)
    /\ undoOf = want
    /\ placebo' = (placebo \/ want \in Placebos)
    /\ \/ UNCHANGED <<child, grouped>>
       \/ want \notin Placebos /\ child' = "running" /\ grouped' = TRUE
    /\ ret' = [ret EXCEPT !["https"] = "idle"]
    /\ UNCHANGED <<appId, iterators, effect, want, history>>

\* /cancel, with no session left
Cancel ==
    /\ May("https", "cancel")
    /\ Running # Nil
    /\ CallTerminate("https", "idle", "idle")
    /\ UNCHANGED <<appId, process, iterators, effect, want>>

ExecuteStep == \/ LaunchRefused \/ Execute \/ Setup \/ PrepRun \/ PrepNext \/ PrepFails
               \/ PrepDone \/ Start \/ StartFails
-----------------------------------------------------------------------------
(* The configuration thread, the end of the program, the application       *)

CloseApp ==
    /\ May("config", "close")
    /\ CallTerminate("config", "idle", "idle")
    /\ UNCHANGED <<appId, process, iterators, effect, want>>

\* proc is replaced by the proc_t that was parsed.
Refresh ==
    /\ ~dead /\ May("config", "refresh")
    /\ appId' = Nil /\ placebo' = FALSE /\ child' = "none" /\ grouped' = FALSE
    /\ undoOf' = Nil /\ undoIt' = 0
    /\ disturbed' = (disturbed \/ Inside("https") \/ undoIt # 0 \/ child = "running")
    /\ UNCHANGED <<effect, pc, ret, want, launches, dead>>

Exit ==
    /\ \A t \in Threads : May(t, "exit")
    /\ CallTerminate("main", "idle", "over")
    /\ UNCHANGED <<appId, process, iterators, effect, want>>

AppExits ==
    /\ ~dead /\ child = "running"
    /\ child' = "exited"
    /\ UNCHANGED <<appId, placebo, grouped, iterators, effect, pc, ret, want, history>>

Next == \/ \E a \in Apps : Launch(a)
        \/ ExecuteStep \/ Cancel \/ CloseApp \/ Refresh \/ Exit \/ AppExits
        \/ \E t \in Threads : TerminateStep(t)

\* Commands return, and a thread that has begun a request goes on with it.
Fairness ==
    /\ WF_vars(ExecuteStep)
    /\ \A t \in Threads : WF_vars(TerminateStep(t))

Spec == Init /\ [][Next]_vars /\ Fairness
-----------------------------------------------------------------------------
(* Properties                                                              *)

\* The type of every variable. The iterator stays in its list as long as no two
\* calls have overlapped.
TypeOK ==
    /\ appId \in Apps \cup {Nil} /\ want \in Apps /\ undoOf \in Apps \cup {Nil}
    /\ placebo \in BOOLEAN /\ grouped \in BOOLEAN
    /\ child \in {"none", "running", "exited"}
    /\ undoIt \in Int
    /\ ~disturbed => undoIt \in 0 .. (IF undoOf = Nil THEN 0 ELSE Preps[undoOf])
    /\ effect \in [Commands -> Int]
    /\ pc \in [Threads -> {"idle", "check", "term", "undo", "undone", "setup", "prep",
                           "prepped", "start", "over"}]
    /\ ret \in [Threads -> {"idle", "setup", "over"}]
    /\ launches \in Nat /\ dead \in BOOLEAN /\ disturbed \in BOOLEAN

\* The commands in force: those below _undo_it, and the one whose do or undo has
\* been run but not yet been counted.
InForce == undoIt + (IF pc["https"] = "prepped" THEN 1 ELSE 0)
                  - (IF \E t \in Threads : pc[t] = "undone" THEN 1 ELSE 0)

\* As long as no two calls have overlapped and refresh() has dropped nothing: the
\* do commands in force, each once, are exactly the first commands of one
\* application, and none of any other. So a command is undone once, in reverse
\* order, and an application starts from a clean slate, whatever fails.
UndoMatchesDo ==
    ~disturbed =>
        \A c \in Commands :
            effect[c] = IF c[1] = undoOf /\ c[2] <= InForce THEN 1 ELSE 0

\* Under the same condition an application that runs has its app id recorded, so
\* that running() does not deny it, and all of its prep commands are in force.
RunningAppIsPrepared ==
    ~disturbed /\ (placebo \/ child = "running") /\ (\A t \in Threads : ~Inside(t)) =>
        /\ appId # Nil /\ undoOf = appId /\ undoIt = Preps[appId]
        /\ ~(placebo /\ child = "running")

\* When no call is in progress and no application is recorded, or none runs or has
\* exited by itself, nothing runs, nothing is recorded and no command is in force: a
\* launch that fails at any point, a cancel, a forced close and the end of the
\* program all leave the host as it was.
NothingIsLeftBehind ==
    /\ ~disturbed /\ ~dead /\ \A t \in Threads : ~Inside(t)
    /\ appId = Nil \/ (~placebo /\ child = "none")
    => /\ ~placebo /\ child # "running" /\ appId = Nil
       /\ \A c \in Commands : effect[c] = 0

\* A request is answered, unless an undo command fails or calls overlap: whoever is inside
\* is not for ever. (The same as Inside(t) ~> ~Inside(t) \/ dead \/ disturbed.)
CallsReturn == \A t \in Threads : []<>(~Inside(t) \/ dead \/ disturbed)

(* What the documentation says and the code does not do.                   *)

\* process.cpp:62 "Ensure starting from a clean slate"
StartsFromCleanSlate ==
    pc["https"] = "prep" /\ undoOf = want /\ undoIt = 0 => \A c \in Commands : effect[c] <= 0
=============================================================================
