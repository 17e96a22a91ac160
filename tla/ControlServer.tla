---------------------------- MODULE ControlServer ----------------------------
(***************************************************************************)
(* Which control messages act on which session: control_server_t and the   *)
(* callbacks of controlBroadcastThread (src/sunshine/stream.cpp).  All     *)
(* steps but Start and Stop are those of the control thread.  Clients may  *)
(* share an address; ENet tells them apart by port, and get_session gives  *)
(* the first event of a port a session that has none yet.  Messages are    *)
(* encrypted with a key of the session.                                    *)
(***************************************************************************)
EXTENDS Naturals, FiniteSets

CONSTANTS
    Sessions,   \* a session, and the client that has asked for it
    AddrOf,     \* the address of each client (its port is its own)
    Nil,        \* no client
    Sealed      \* all messages are encrypted: controlProtocolType is 13

VARIABLES
    state,      \* session_t::state, or that the session is new
    map,        \* _map_addr_session: the sessions control events may go to
    port,       \* the client whose port a session has in it, or Nil
    link,       \* the ENet connection of each client
    idr,        \* sessions whose idr_events is raised, and for whom
    served,     \* whose input was passed through for which session
    rumble,     \* sessions with something in their rumble_queue
    ended,      \* controlBroadcastThread has ended
    crowded     \* a history variable: see Start

vars == <<state, map, port, link, idr, served, rumble, ended, crowded>>

Pairs == Sessions \X Sessions

TypeOK ==
    /\ state \in [Sessions -> {"new", "RUNNING", "STOPPING"}]
    /\ map \subseteq {s \in Sessions : state[s] # "new"}
    /\ port \in [Sessions -> Sessions \cup {Nil}]
    /\ link \in [Sessions -> {"none", "up", "down"}]
    /\ idr \subseteq Pairs /\ served \subseteq Pairs
    /\ rumble \subseteq Sessions
    /\ ended \in BOOLEAN /\ crowded \in BOOLEAN

Init ==
    /\ state = [s \in Sessions |-> "new"]
    /\ map = {} /\ port = [s \in Sessions |-> Nil]
    /\ link = [c \in Sessions |-> "none"]
    /\ idr = {} /\ served = {} /\ rumble = {}
    /\ ended = FALSE /\ crowded = FALSE

-----------------------------------------------------------------------------
(* The conditions and updates a bug would get wrong.                       *)

\* get_session: the session that has this address and port, or else one of the
\* address that has no port yet, whichever comes last in the multimap.
Known(c) == {s \in map : port[s] = c}
Fresh(c) == {s \in map : AddrOf[s] = AddrOf[c] /\ port[s] = Nil}
SessionsForNew(c) == IF Fresh(c) # {} THEN Fresh(c) ELSE Known(c)
SessionsFor(c) == IF Known(c) # {} THEN Known(c) ELSE Fresh(c)

\* The tag of a message of c is verified with the key of s.
Verifies(c, s) == c = s

\* A session that leaves the map has its connection cut.
Cut(s) == IF port[s] = Nil THEN link ELSE [link EXCEPT ![port[s]] = "down"]

\* An event that no session is found for: its peer is disconnected.
Rejected(c) == [link EXCEPT ![c] = "down"]

Stopped(s) == IF state[s] = "RUNNING" THEN [state EXCEPT ![s] = "STOPPING"] ELSE state

-----------------------------------------------------------------------------
\* emplace_addr_to_session() in session::start().  It is crowded if a session of
\* the address may still be claimed by a client, or its client by a session.
Start(s) ==
    /\ state[s] = "new" /\ ~ended
    /\ state' = [state EXCEPT ![s] = "RUNNING"]
    /\ map' = map \cup {s}
    /\ crowded' = (crowded \/ \E t \in Sessions \ {s} :
                     /\ AddrOf[t] = AddrOf[s] /\ state[t] # "new"
                     /\ link[t] = "none" \/ t \in Fresh(s))
    /\ UNCHANGED <<port, link, idr, served, rumble, ended>>

\* session::stop(), by the session's threads or in clear()
Stop(s) ==
    /\ state[s] = "RUNNING" /\ state' = Stopped(s)
    /\ UNCHANGED <<map, port, link, idr, served, rumble, ended, crowded>>

\* iterate(): the first event of a client
Connect(c) ==
    /\ state[c] # "new" /\ link[c] = "none" /\ ~ended
    /\ \/ SessionsFor(c) = {} /\ link' = Rejected(c) /\ UNCHANGED port
       \/ \E s \in SessionsFor(c) :
            /\ port' = [port EXCEPT ![s] = c]
            /\ link' = [link EXCEPT ![c] = "up"]
    /\ UNCHANGED <<state, map, idr, served, rumble, ended, crowded>>

\* A client goes without ever having connected.
GiveUp(c) ==
    /\ state[c] # "new" /\ link[c] = "none"
    /\ link' = [link EXCEPT ![c] = "down"]
    /\ UNCHANGED <<state, map, port, idr, served, rumble, ended, crowded>>

\* "note" stands for the messages that change nothing (the periodic ping, start
\* A and B, loss statistics, an unknown type, a runt), "idr" for
\* IDX_REQUEST_IDR_FRAME and IDX_INVALIDATE_REF_FRAMES, "sealed" for
\* IDX_ENCRYPTED within IDX_ENCRYPTED.
Types == {"note", "idr", "input"} \cup IF Sealed THEN {"sealed"} ELSE {}

\* A message whose tag is wrong, or that is sealed twice, ends the session.
\* Without Sealed, only input is encrypted.
Refused(c, s, type) ==
    \/ (Sealed \/ type = "input") /\ ~Verifies(c, s)
    \/ type = "sealed"

\* iterate(): ENET_EVENT_TYPE_RECEIVE
Receive(c, type) ==
    /\ link[c] = "up" /\ ~ended
    /\ \E s \in SessionsFor(c) :
         \/ /\ Refused(c, s, type)
            /\ state' = Stopped(s)
            /\ UNCHANGED <<idr, served>>
         \/ /\ ~Refused(c, s, type)
            /\ idr' = IF type = "idr" THEN idr \cup {<<c, s>>} ELSE idr
            /\ served' = IF type = "input" THEN served \cup {<<c, s>>} ELSE served
            /\ UNCHANGED state
    /\ UNCHANGED <<map, port, link, rumble, ended, crowded>>

\* iterate(): ENET_EVENT_TYPE_DISCONNECT
Disconnect(c) ==
    /\ link[c] = "up" /\ ~ended
    /\ \E s \in SessionsFor(c) : state' = Stopped(s)
    /\ link' = [link EXCEPT ![c] = "down"]
    /\ UNCHANGED <<map, port, idr, served, rumble, ended, crowded>>

\* A gamepad that the input of s has created rumbles.
Rumble(s) ==
    /\ \E c \in Sessions : <<c, s>> \in served
    /\ rumble' = rumble \cup {s}
    /\ UNCHANGED <<state, map, port, link, idr, served, ended, crowded>>

\* The loop: a session that is late, or was stopped, leaves the map
Release(s) ==
    /\ s \in map /\ ~ended
    /\ state' = Stopped(s)
    /\ map' = map \ {s} /\ link' = Cut(s)
    /\ UNCHANGED <<port, idr, served, rumble, ended, crowded>>

\* The loop: send_rumble
SendRumble(s) ==
    /\ s \in map /\ ~ended /\ state[s] # "STOPPING" /\ s \in rumble
    /\ rumble' = rumble \ {s}
    /\ UNCHANGED <<state, map, port, link, idr, served, ended, crowded>>

\* The thread leaves its loop and tells the remaining clients so
End ==
    /\ ~ended /\ ended' = TRUE
    /\ UNCHANGED <<state, map, port, link, idr, served, rumble, crowded>>

Next ==
    \/ \E s \in Sessions : \/ Start(s) \/ Stop(s) \/ Connect(s) \/ GiveUp(s) \/ Disconnect(s)
                           \/ Rumble(s) \/ Release(s) \/ SendRumble(s)
                           \/ \E type \in Types : Receive(s, type)
    \/ End

Spec == Init /\ [][Next]_vars

-----------------------------------------------------------------------------
(* Properties.                                                             *)

\* A session is controlled by the client that asked for it only, unless two of
\* an address were without a control connection at once.
ControlledByItsClient == ~crowded => \A s \in Sessions : port[s] \in {s, Nil}

\* What a client presses is passed through for its own session only, whosever
\* session its control connection was given; and with encryption so are its
\* requests for a key frame.
MessagesActForTheirClient ==
    /\ \A p \in served : p[1] = p[2]
    /\ Sealed => \A p \in idr : p[1] = p[2]

\* Rumble is sent to a session that has a peer: session_t::control.peer is null
\* until a client has claimed the session.
RumbleHasAPeer == \A s \in rumble : port[s] # Nil

\* One connection controls one session, which is in the map as long as the
\* connection can be used.
OneSessionPerConnection ==
    \A c \in Sessions : /\ link[c] = "up" => Cardinality(Known(c)) = 1
                        /\ Cardinality({s \in Sessions : port[s] = c}) <= 1

-----------------------------------------------------------------------------
(* The inductive invariant that the proofs of the properties use.         *)

\* A connection claims one session, once, and is up only while that is in the map; input
\* comes through a connection.
ClaimsAreKept ==
    /\ \A s, t \in Sessions : port[s] = port[t] /\ port[s] # Nil => s = t
    /\ \A s, c \in Sessions : port[s] = c => link[c] # "none"
    /\ \A c \in Sessions : link[c] = "up" => \E s \in map : port[s] = c
    /\ \A p \in served : port[p[2]] # Nil

\* A session that may still be claimed can be by its own client only.
ClaimsAreClear ==
    ~crowded =>
        \A s, c \in Sessions :
            s \in map /\ port[s] = Nil /\ AddrOf[s] = AddrOf[c] /\ state[c] # "new" /\ link[c] = "none"
                => s = c

IInv ==
    /\ TypeOK /\ ClaimsAreKept /\ ClaimsAreClear
    /\ ControlledByItsClient /\ MessagesActForTheirClient /\ RumbleHasAPeer
=============================================================================
