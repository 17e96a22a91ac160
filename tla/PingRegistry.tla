---------------------------- MODULE PingRegistry ----------------------------
(***************************************************************************)
(* Which UDP port belongs to which session (src/sunshine/stream.cpp).      *)
(* Clients may have one address in common (a NAT), so that a session has   *)
(* to find out by which ports it is reached:                               *)
(*   - the video and the audio thread of a session register a queue for    *)
(*     its address, and wait for a ping: recv_ping;                        *)
(*   - recvThread gives pings to the queue registered for their address;   *)
(*   - the port of a ping is written into an entry of the table            *)
(*     audio_video_connections, of which start() adds two and join()       *)
(*     removes two.                                                        *)
(* How threads and sessions live and die is the subject of StreamSession:  *)
(* here a session may be stopped at any time, by whomever, and join() does *)
(* not wait for the control thread.  recvThread looks at what was          *)
(* registered only when a datagram arrives, and then at all of it, so that *)
(* a message to it takes effect at once as far as anybody can tell (if no  *)
(* more than thirty are raised between two datagrams).                     *)
(***************************************************************************)
EXTENDS Naturals, Sequences, FiniteSets

CONSTANTS
    Sessions,   \* a session, and the client that has asked for it
    AddrOf,     \* the address of each client
    PortOf,     \* PortOf[c][k]: the port from which c sends to the socket k
    Nil,        \* not a session
    MaxStarts,  \* sessions that start in a behaviour (a bound)
    MaxPings    \* pings that wait in a queue, at most the thirty of its capacity

Streams == {"video", "audio"}
Addrs == {AddrOf[s] : s \in Sessions}
Ports == {PortOf[s][k] : s \in Sessions, k \in Streams}
Unclaimed == 0

ASSUME PingAssumption ==
    /\ IsFiniteSet(Sessions) /\ Nil \notin Sessions
    /\ PortOf \in [Sessions -> [Streams -> Nat \ {Unclaimed}]]
    /\ MaxPings \in 1..30 /\ MaxStarts \in Nat

VARIABLES
    state,      \* the session is new, RUNNING, STOPPING, or was joined
    thread,     \* the video and the audio thread of each session
    connections,\* audio_video_connections: the address and the port of each entry,
                \* by its number; entries are numbered in the order they were added
    peer,       \* the ports in session_t::video.peer and session_t::audio.peer
    registry,   \* peer_to_video_session and peer_to_audio_session
    messages,   \* the queue of pings (their ports) of each waiting thread
    over,       \* the broadcast_shutdown event
    crowded     \* a history variable, see Settled

vars == <<state, thread, connections, peer, registry, messages, over, crowded>>

Entry(a, p) == [addr |-> a, port |-> p]
Live(s) == state[s] \in {"RUNNING", "STOPPING"}
Begun == {s \in Sessions : state[s] # "new"}
Neighbours(s) == {t \in Sessions \ {s} : AddrOf[t] = AddrOf[s]}

TypeOK ==
    /\ state \in [Sessions -> {"new", "RUNNING", "STOPPING", "joined"}]
    /\ thread \in [Sessions -> [Streams ->
                     {"new", "waiting", "pinged", "failed", "streaming", "done"}]]
    /\ DOMAIN connections \subseteq 1..2 * Cardinality(Begun)
    /\ connections \in [DOMAIN connections -> [addr : Addrs, port : Ports \cup {Unclaimed}]]
    /\ peer \in [Sessions -> [Streams -> Ports \cup {Unclaimed}]]
    /\ registry \in [Streams -> [Addrs -> Sessions \cup {Nil}]]
    /\ messages \in [Sessions -> [Streams -> Seq(Ports)]]
    /\ over \in BOOLEAN /\ crowded \in BOOLEAN

Init ==
    /\ state = [s \in Sessions |-> "new"]
    /\ thread = [s \in Sessions |-> [k \in Streams |-> "new"]]
    /\ connections = <<>>
    /\ peer = [s \in Sessions |-> [k \in Streams |-> Unclaimed]]
    /\ registry = [k \in Streams |-> [a \in Addrs |-> Nil]]
    /\ messages = [s \in Sessions |-> [k \in Streams |-> <<>>]]
    /\ over = FALSE /\ crowded = FALSE

-----------------------------------------------------------------------------
(* The conditions and updates a bug would get wrong.                       *)

\* populate_peer_to_session: emplace() does not replace, erase() asks nobody.
Registered(s, k) ==
    IF registry[k][AddrOf[s]] = Nil THEN [registry EXCEPT ![k][AddrOf[s]] = s] ELSE registry

\* The fail_guard of recv_ping.
UnregisteredNever(s, k) == registry
Unregistered(s, k) == [registry EXCEPT ![k][AddrOf[s]] = Nil]

\* The scan of recv_ping ends at an entry that has the port p, of whatever
\* address, and takes the last unclaimed entry of the address before it.
Scanned(p) == {i \in DOMAIN connections :
    \A j \in DOMAIN connections : j <= i => connections[j].port # p}

Candidates(a, p) == {i \in Scanned(p) : connections[i] = Entry(a, Unclaimed)}
LastOf(S) == CHOOSE i \in S : \A j \in S : j <= i

\* join() removes every entry that has the address and a port of the session.
OwnPinged(s, e) ==
    e.addr = AddrOf[s] /\ e.port # Unclaimed /\ \E k \in Streams : e.port = peer[s][k]
Own(s, e) == e.addr = AddrOf[s] /\ \E k \in Streams : e.port = peer[s][k]
Kept(s) == {i \in DOMAIN connections : ~Own(s, connections[i])}
Rest(s) == [i \in Kept(s) |-> connections[i]]

\* start() adds two entries that nobody has claimed, after all there ever were.
NewEntries == LET last == 2 * Cardinality(Begun) IN {last + 1, last + 2}
Extended(s) == [i \in DOMAIN connections \cup NewEntries |->
    IF i \in NewEntries THEN Entry(AddrOf[s], Unclaimed) ELSE connections[i]]

\* The wait of recv_ping ends when no ping has come for ping_timeout.
TimesOutIfAlone(s, k) == messages[s][k] = <<>> /\ registry[k][AddrOf[s]] = s
TimesOut(s, k) == messages[s][k] = <<>>

\* stop(): only a session that runs is told.
Stopped(s) == IF state[s] = "RUNNING" THEN [state EXCEPT ![s] = "STOPPING"] ELSE state

-----------------------------------------------------------------------------
Moves(s, k, from, to) ==
    /\ thread[s][k] = from
    /\ thread' = [thread EXCEPT ![s][k] = to]

\* Nothing of s can be taken for another session's any more: its threads have
\* their ports and are not registered, or it was joined.
Settled(s) == Live(s) => \A k \in Streams : thread[s][k] \in {"streaming", "done"}
                                            /\ peer[s][k] # Unclaimed

\* session::start()
Start(s) ==
    /\ state[s] = "new" /\ ~over
    /\ Cardinality(Begun) < MaxStarts
    /\ state' = [state EXCEPT ![s] = "RUNNING"]
    /\ connections' = Extended(s)
    /\ crowded' = (crowded \/ \E t \in Neighbours(s) : ~Settled(t))
    /\ UNCHANGED <<thread, peer, registry, messages, over>>

\* session::stop(), called by the control thread
Stop(s) ==
    /\ state[s] = "RUNNING" /\ state' = Stopped(s)
    /\ UNCHANGED <<thread, connections, peer, registry, messages, over, crowded>>

\* videoThread, audioThread: recv_ping registers its queue
Register(s, k) ==
    /\ state[s] # "new" /\ Moves(s, k, "new", "waiting")
    /\ registry' = Registered(s, k)
    /\ UNCHANGED <<state, connections, peer, messages, over, crowded>>

\* A ping of c arrives at the socket k: recvThread.  (What is no ping is popped
\* and ignored by recv_ping.)
Ping(c, k) ==
    /\ Live(c)
    /\ LET s == registry[k][AddrOf[c]]
       IN  /\ s # Nil /\ thread[s][k] = "waiting"
           /\ Len(messages[s][k]) < MaxPings
           /\ messages' = [messages EXCEPT ![s][k] = Append(@, PortOf[c][k])]
    /\ UNCHANGED <<state, thread, connections, peer, registry, over, crowded>>

\* recv_ping: an entry is claimed
Claim(s, k) ==
    /\ messages[s][k] # <<>>
    /\ LET p == Head(messages[s][k])
           free == Candidates(AddrOf[s], p)
       IN  /\ free # {}
           /\ Moves(s, k, "waiting", "pinged")
           /\ connections' = [connections EXCEPT ![LastOf(free)] = Entry(AddrOf[s], p)]
           /\ peer' = [peer EXCEPT ![s][k] = p]
    /\ messages' = [messages EXCEPT ![s][k] = <<>>]
    /\ UNCHANGED <<state, registry, over, crowded>>

\* recv_ping: the port is in use, and the wait starts again (continue skips
\* the update of current_time)
Drop(s, k) ==
    /\ thread[s][k] = "waiting" /\ messages[s][k] # <<>>
    /\ Candidates(AddrOf[s], Head(messages[s][k])) = {}
    /\ messages' = [messages EXCEPT ![s][k] = Tail(@)]
    /\ UNCHANGED <<state, thread, connections, peer, registry, over, crowded>>

PingTimeout(s, k) ==
    /\ TimesOut(s, k) /\ Moves(s, k, "waiting", "failed")
    /\ UNCHANGED <<state, connections, peer, registry, messages, over, crowded>>

\* recv_ping returns: capture() begins, or the thread ends
Unregister(s, k) ==
    /\ \/ Moves(s, k, "pinged", "streaming") /\ UNCHANGED state
       \/ Moves(s, k, "failed", "done") /\ state' = Stopped(s)
    /\ registry' = Unregistered(s, k)
    /\ UNCHANGED <<connections, peer, messages, over, crowded>>

\* capture() returns, after its shutdown_event or by itself
StreamEnds(s, k) ==
    /\ Moves(s, k, "streaming", "done") /\ state' = Stopped(s)
    /\ UNCHANGED <<connections, peer, registry, messages, over, crowded>>

\* session::join(), once both threads have ended
Join(s) ==
    /\ state[s] = "STOPPING"
    /\ \A k \in Streams : thread[s][k] = "done"
    /\ connections' = Rest(s)
    /\ over' = (over \/ Cardinality(DOMAIN connections) # Cardinality(Kept(s)) + 2)
    /\ state' = [state EXCEPT ![s] = "joined"]
    /\ UNCHANGED <<thread, peer, registry, messages, crowded>>

Next ==
    \/ \E s \in Sessions : Start(s) \/ Stop(s) \/ Join(s)
    \/ \E s \in Sessions, k \in Streams :
         \/ Register(s, k) \/ Ping(s, k) \/ Claim(s, k) \/ Drop(s, k)
         \/ PingTimeout(s, k) \/ Unregister(s, k) \/ StreamEnds(s, k)

\* Threads run; capture() returns when it is told to, by stop() or, once all
\* broadcasts end, by the control thread.
Fairness ==
    \A s \in Sessions :
      /\ WF_vars(Join(s))
      /\ \A k \in Streams :
           /\ WF_vars(Register(s, k)) /\ WF_vars(PingTimeout(s, k))
           /\ WF_vars(Claim(s, k) \/ Drop(s, k)) /\ WF_vars(Unregister(s, k))
           /\ WF_vars((state[s] = "STOPPING" \/ over) /\ StreamEnds(s, k))

Spec == Init /\ [][Next]_vars /\ Fairness

-----------------------------------------------------------------------------
(* Properties.                                                             *)

EntriesOf(a) == {i \in DOMAIN connections : connections[i].addr = a}
LiveOf(a) == {s \in Sessions : AddrOf[s] = a /\ Live(s)}

Claimed(s) == {peer[s][k] : k \in Streams} \ {Unclaimed}

\* No port is claimed by two sessions of an address, although clients go on sending
\* pings while the next session of their address waits for its own.
ClaimedOnce == \A s, t \in Sessions :
    s # t /\ AddrOf[s] = AddrOf[t] /\ Live(s) /\ Live(t) => Claimed(s) \cap Claimed(t) = {}

\* The table holds two entries for each live session, and the ports that its sessions
\* have claimed.
EntriesMatch == \A a \in Addrs :
    /\ Cardinality(EntriesOf(a)) = 2 * Cardinality(LiveOf(a))
    /\ {connections[i].port : i \in EntriesOf(a)} \ {Unclaimed} = UNION {Claimed(s) : s \in LiveOf(a)}

\* The table is that of the live sessions, no port is two sessions' of one address, and
\* join() finds the two entries of its session, so that it never ends all broadcasts, however
\* far the session has come and whatever stops it.  Sessions of one address may overlap, if
\* each was settled when the next one started.
ConnectionsAreOfSessions == TypeOK /\ (~crowded => ~over /\ ClaimedOnce /\ EntriesMatch)

\* A thread that waits for a ping is the one that recvThread will find, so that the pings
\* of an address reach the stream that waits for them: what one session unregisters is not
\* what another of its address has registered.
PingsReachTheirStream == ~crowded =>
    \A s \in Sessions, k \in Streams : thread[s][k] = "waiting" => registry[k][AddrOf[s]] = s

\* Once clients send no pings any more, a session that is stopping is joined: each
\* of its threads leaves recv_ping, which does not look at the shutdown event,
\* although each ping it could not use has restarted its wait.
StoppingSessionsAreJoined ==
    (\A s \in Sessions, k \in Streams : <>[][~Ping(s, k)]_vars) =>
      \A s \in Sessions : state[s] = "STOPPING" ~> state[s] = "joined"
=============================================================================
