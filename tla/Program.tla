------------------------------- MODULE Program -------------------------------
(***************************************************************************)
(* How the program starts and ends (main.cpp): the servers and the RTSP    *)
(* loop, which end together, the signals, which also set a timer that      *)
(* aborts, and what is announced to the network meanwhile: the ports at    *)
(* the router (upnp.cpp) and the service (publish.cpp, by Avahi on Linux,  *)
(* by dnsapi on Windows), both started aside by std::async.                *)
(***************************************************************************)
EXTENDS Naturals, FiniteSets

CONSTANTS
    Systems,     \* "linux", "windows"
    Ports,       \* how many ports are mapped; 0: the flag UPNP is not set
    MaxSignals, MaxName,
    Taken        \* names that somebody on this host or on the network has

VARIABLES
    system,
    pc,          \* of main(): "init", "spawn", "peek", "rtp", "join", "unmap", "unpublish", "guard",
                 \* "enter" (it waits for a key), "done"
    told,        \* the event mail::shutdown
    server,      \* of "http" and "config": "none", "starting", "serving", "ended"
    pool,        \* the task pool works
    timers, force,   \* pending force_shutdown tasks; the one that is remembered
    signals, interrupted, aborted,
    upnp,        \* "none", "starting", "mapping", "mapped", "nothing"
    mapped,      \* how many ports the router has mapped
    kept,        \* history: the router refused to remove a mapping
    mdns,        \* "none", "starting", "asked", "on", "nothing"
    poll,        \* the loop of Avahi: "none", "runs", "quit"
    host,        \* Avahi has its host name
    group, name  \* entries: "none", "empty", "committed", "established"; and their name

vars == <<system, pc, told, server, pool, timers, force, signals, interrupted, aborted, upnp, mapped,
          kept, mdns, poll, host, group, name>>
mainVars == <<pc, told, server, pool, timers, force, signals, interrupted, aborted>>
upnpVars == <<upnp, mapped, kept>>
mdnsVars == <<mdns, poll, host, group, name>>

Servers == {"http", "config"}

Init ==
    /\ system \in Systems
    /\ pc = "init" /\ told = FALSE /\ server = [s \in Servers |-> "none"] /\ pool = TRUE
    /\ timers = {} /\ force = 0 /\ signals = 0 /\ interrupted = FALSE /\ aborted = FALSE
    /\ upnp = "none" /\ mapped = 0 /\ kept = FALSE
    /\ mdns = "none" /\ poll = "none" /\ host = FALSE /\ group = "none" /\ name = 0

-----------------------------------------------------------------------------
(* main()                                                                  *)

Main == UNCHANGED <<system, timers, force, signals, interrupted, aborted>>

\* platf::init(), video::init() and http::init(): one that fails ends the program.
Prepare(ok) ==
    /\ pc = "init" /\ pc' = IF ok THEN "spawn" ELSE "guard"
    /\ UNCHANGED <<told, server, pool, upnpVars, mdnsVars>> /\ Main

Spawn ==
    /\ pc = "spawn" /\ pc' = "peek" /\ upnp' = "starting" /\ mdns' = "starting"
    /\ UNCHANGED <<told, server, pool, mapped, kept, poll, host, group, name>> /\ Main

Peek ==
    /\ pc = "peek"
    /\ IF told THEN pc' = "unmap" /\ UNCHANGED server
       ELSE pc' = "rtp" /\ server' = [s \in Servers |-> "starting"]
    /\ UNCHANGED <<told, pool, upnpVars, mdnsVars>> /\ Main

\* rtpThread(): it ends when it cannot bind, which it tells, or when it is told.
ToldBy(who) == TRUE
RtpEnds(bound) ==
    /\ pc = "rtp" /\ pc' = "join"
    /\ IF bound THEN told /\ UNCHANGED told ELSE told' = ToldBy("rtsp")
    /\ UNCHANGED <<server, pool, upnpVars, mdnsVars>> /\ Main

\* start() of nvhttp.cpp and confighttp.cpp
Bind(s, ok) ==
    /\ server[s] = "starting"
    /\ server' = [server EXCEPT ![s] = IF ok THEN "serving" ELSE "ended"]
    /\ told' = IF ok THEN told ELSE ToldBy(s)
    /\ UNCHANGED <<pc, pool, upnpVars, mdnsVars>> /\ Main
\* accept_and_run() throws: the server waits on until it is told, which it is by this.
Throw(s) ==
    /\ server[s] = "serving" /\ ~told /\ told' = ToldBy(s)
    /\ UNCHANGED <<pc, server, pool, upnpVars, mdnsVars>> /\ Main
Serve(s) ==
    /\ server[s] = "serving" /\ told /\ server' = [server EXCEPT ![s] = "ended"]
    /\ UNCHANGED <<pc, told, pool, upnpVars, mdnsVars>> /\ Main

JoinAll ==
    /\ pc = "join" /\ \A s \in Servers : server[s] = "ended"
    /\ pool' = FALSE /\ pc' = "unmap"
    /\ UNCHANGED <<told, server, upnpVars, mdnsVars>> /\ Main

\* The destructors of sync_upnp and upnp_unmap: unmap() goes backwards and stops at the
\* first port that the router does not remove.
Settled(x) == x \notin {"starting", "mapping", "asked"}
Unmap(n) ==
    /\ pc = "unmap" /\ Settled(upnp) /\ pc' = "unpublish"
    /\ n \in 0 .. mapped /\ (upnp # "mapped" => n = mapped)
    /\ mapped' = n /\ kept' = (kept \/ (upnp = "mapped" /\ n > 0)) /\ upnp' = "nothing"
    /\ UNCHANGED <<told, server, pool, mdnsVars>> /\ Main

\* Of sync_mDNS and mDNS: the loop of Avahi is told to quit and joined; Windows is asked
\* to forget the service, and the program aborts if it does not.
Unpublish(ok) ==
    /\ pc = "unpublish" /\ Settled(mdns) /\ pc' = "guard"
    /\ mdns' = "nothing" /\ poll' = IF mdns = "on" /\ system = "linux" THEN "quit" ELSE poll
    /\ aborted' = (mdns = "on" /\ system = "windows" /\ ~ok)
    /\ UNCHANGED <<system, told, server, pool, timers, force, signals, interrupted, upnpVars, host,
                   group, name>>

\* exit_guard, the first of main()'s variables: the timer that is remembered is cancelled.
CancelledNot == timers
Cancelled == timers \ {force}
Guard ==
    /\ pc = "guard"
    /\ IF interrupted THEN pc' = "enter" /\ timers' = Cancelled /\ UNCHANGED pool
       ELSE pc' = "done" /\ pool' = FALSE /\ UNCHANGED timers
    /\ UNCHANGED <<system, told, server, force, signals, interrupted, aborted, upnpVars, mdnsVars>>
Enter ==
    /\ pc = "enter" /\ pc' = "done" /\ pool' = FALSE
    /\ UNCHANGED <<told, server, upnpVars, mdnsVars>> /\ Main

\* SIGINT and SIGTERM, as long as main() runs.
Signal(int) ==
    /\ pc # "done" /\ signals < MaxSignals /\ signals' = signals + 1
    /\ timers' = timers \cup {signals + 1} /\ force' = signals + 1
    /\ interrupted' = (interrupted \/ int) /\ told' = TRUE
    /\ UNCHANGED <<system, pc, server, pool, aborted, upnpVars, mdnsVars>>

\* Ten seconds have passed.
Abort ==
    /\ pool /\ timers # {} /\ aborted' = TRUE
    /\ UNCHANGED <<system, pc, told, server, pool, timers, force, signals, interrupted, upnpVars, mdnsVars>>

-----------------------------------------------------------------------------
(* upnp.cpp, start()                                                       *)

Upnp == UNCHANGED <<system, mainVars, mdnsVars>>

\* No router, or the flag is not set.
Discover(found) ==
    /\ upnp = "starting" /\ upnp' = IF found /\ Ports > 0 THEN "mapping" ELSE "nothing"
    /\ UNCHANGED <<mapped, kept>> /\ Upnp
MapPort ==
    /\ upnp = "mapping" /\ mapped' = mapped + 1
    /\ upnp' = IF mapped' = Ports THEN "mapped" ELSE "mapping"
    /\ UNCHANGED kept /\ Upnp
\* A port that cannot be mapped: what was mapped is removed, as far as the router does.
RemovedAfterFailure(n) == n
RefusePort(n) ==
    /\ upnp = "mapping" /\ upnp' = "nothing"
    /\ n \in 0 .. mapped /\ mapped' = RemovedAfterFailure(n) /\ kept' = (n > 0)
    /\ Upnp

-----------------------------------------------------------------------------
(* publish.cpp                                                             *)

Mdns == UNCHANGED <<system, mainVars, upnpVars>>

\* Linux: start() runs the loop in a thread of its own, if there is a client.
StartLoop(ok) ==
    /\ system = "linux" /\ mdns = "starting"
    /\ mdns' = IF ok THEN "on" ELSE "nothing"
    /\ poll' = IF ok THEN "runs" ELSE poll
    /\ UNCHANGED <<host, group, name>> /\ Mdns

\* create_services(): another name is tried as long as the one it has is taken here; what
\* fails otherwise ends the loop.
FreeNames(from) == {n \in from .. MaxName : n \notin Taken["here"]}
NameToTake(from) == CHOOSE n \in FreeNames(from) : \A m \in FreeNames(from) : n <= m
CreateServices(ok) ==
    IF ~ok THEN poll' = "quit" /\ group' \in {"none", "empty"} /\ UNCHANGED name
    ELSE /\ name' = IF group \in {"none", "empty"} THEN NameToTake(name) ELSE name
         /\ group' = IF group \in {"none", "empty"} THEN "committed" ELSE group
         /\ UNCHANGED poll

HostRuns(ok) ==
    /\ poll = "runs" /\ ~host /\ host' = TRUE /\ CreateServices(ok)
    /\ UNCHANGED mdns /\ Mdns
\* CLIENT_S_COLLISION and CLIENT_S_REGISTERING: the host gets another name.
HostCollides ==
    /\ poll = "runs" /\ host /\ host' = FALSE
    /\ group' = IF group = "none" THEN group ELSE "empty"
    /\ UNCHANGED <<mdns, poll, name>> /\ Mdns
EntryCollides(ok) ==
    /\ poll = "runs" /\ group = "committed" /\ name \in Taken["network"]
    /\ name' = NameToTake(name + 1)
    /\ IF ok THEN UNCHANGED <<group, poll>> ELSE group' = "empty" /\ poll' = "quit"
    /\ UNCHANGED <<mdns, host>> /\ Mdns
EntryEstablished ==
    /\ poll = "runs" /\ group = "committed" /\ name \notin Taken["network"]
    /\ group' = "established" /\ UNCHANGED <<mdns, poll, host, name>> /\ Mdns
Fails ==
    /\ poll = "runs" /\ poll' = "quit" /\ UNCHANGED <<mdns, host, group, name>> /\ Mdns

\* Windows: service() waits for the answer, whether it could ask or not.
Ask ==
    /\ system = "windows" /\ mdns = "starting" /\ mdns' = "asked"
    /\ UNCHANGED <<poll, host, group, name>> /\ Mdns
Answer(ok) ==
    /\ mdns = "asked" /\ mdns' = IF ok THEN "on" ELSE "nothing"
    /\ UNCHANGED <<poll, host, group, name>> /\ Mdns

Next == ~aborted /\
    (\/ Spawn \/ Peek \/ JoinAll \/ Guard \/ Enter \/ Abort \/ MapPort \/ HostCollides
     \/ EntryEstablished \/ Fails \/ Ask
     \/ \E n \in 0 .. Ports : Unmap(n) \/ RefusePort(n)
     \/ \E s \in Servers : Throw(s) \/ Serve(s)
     \/ \E ok \in BOOLEAN :
          \/ Prepare(ok) \/ RtpEnds(ok) \/ Unpublish(ok) \/ Signal(ok) \/ Discover(ok)
          \/ StartLoop(ok) \/ HostRuns(ok) \/ EntryCollides(ok) \/ Answer(ok)
          \/ \E s \in Servers : Bind(s, ok))

Spec == Init /\ [][Next]_vars

-----------------------------------------------------------------------------
TypeOK ==
    /\ told \in BOOLEAN /\ pool \in BOOLEAN /\ timers \subseteq 1 .. signals /\ force \in 0 .. signals
    /\ server \in [Servers -> {"none", "starting", "serving", "ended"}]
    /\ mapped \in 0 .. Ports /\ name \in 0 .. MaxName

\* rtpThread(), nvhttp::start(), confighttp::start(): they end together; one that cannot
\* go on tells the others, for which main() waits.
ServersEndTogether ==
    (pc = "join" \/ \E s \in Servers : server[s] = "ended") => told

\* upnp.cpp, unmap(): no port stays mapped when the program has ended, unless the router
\* would not remove one.
PortsAreReturned == pc \in {"guard", "enter", "done"} => mapped = 0 \/ kept

\* publish.cpp, ~deinit_t(): the loop of Avahi ends before what it uses.
LoopEndsInTime == pc \in {"guard", "enter", "done"} => poll # "runs"

\* main(), exit_guard: while the program waits for a key after one signal no timer is
\* there to abort it.
KeyIsNotTimed == pc = "enter" /\ signals = 1 => ~pool \/ timers = {}

\* publish.cpp: while the host has its name and nothing has failed, there is an entry for
\* the service, under a name that nobody on this host has, and on the network when it is
\* established.
ServiceIsPublished ==
    poll = "runs" /\ host =>
        /\ group \in {"committed", "established"} /\ name \notin Taken["here"]
        /\ group = "established" => name \notin Taken["network"]

-----------------------------------------------------------------------------
(* The inductive invariant that the proofs of the properties use.         *)

\* What is announced is settled for good once main() has taken it back.
AnnouncementsSettle ==
    /\ upnp \in {"none", "starting", "mapping", "mapped", "nothing"}
    /\ mdns \in {"none", "starting", "asked", "on", "nothing"}
    /\ pc \in {"init", "spawn"} => upnp = "none" /\ mdns = "none"
    /\ pc \in {"unpublish", "guard", "enter", "done"} => upnp \in {"none", "nothing"}
    /\ pc \in {"guard", "enter", "done"} => mdns \in {"none", "nothing"}
    /\ upnp \in {"none", "starting"} => mapped = 0
    /\ upnp = "mapping" => mapped < Ports
    /\ upnp = "nothing" => mapped = 0 \/ kept
    /\ poll = "runs" => mdns = "on" /\ system = "linux"

\* The last timer is the one that is remembered.
TimerIsRemembered ==
    /\ force = signals /\ (interrupted => signals > 0)
    /\ pc = "enter" => interrupted /\ (signals = 1 => timers = {})

\* An entry, which the loop makes, has a name that was free, although the host may be without
\* its own.
EntryIsNamed ==
    /\ group \in {"none", "empty", "committed", "established"}
    /\ mdns \in {"none", "starting"} => ~host /\ group = "none"
    /\ poll = "runs" =>
        /\ group \in {"committed", "established"} => name \notin Taken["here"]
        /\ group = "established" => name \notin Taken["network"]

IInv ==
    /\ TypeOK /\ AnnouncementsSettle /\ TimerIsRemembered /\ EntryIsNamed
    /\ ServersEndTogether /\ ServiceIsPublished
=============================================================================
