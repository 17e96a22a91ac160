------------------------- MODULE PingRegistryProofs -------------------------
(***************************************************************************)
(* Proofs about PingRegistry, for any clients, addresses and ports, as     *)
(* long as each session of an address is settled when the next one starts. *)
(* At most one session of an address is then not settled (Alone), and only *)
(* threads of such a session are registered (Owners), so that a thread     *)
(* that waits for a ping is the one that is registered.                    *)
(* The table of connections is reasoned about by places: those of the two  *)
(* entries that start() has added for a session.  Since the entries of the *)
(* session that is not settled come last of its address and are the only   *)
(* ones unclaimed, it claims its own, and no port that precedes them.      *)
(***************************************************************************)
EXTENDS PingRegistry, FiniteSetTheorems, TLAPS

ThreadStates == {"new", "waiting", "pinged", "failed", "streaming", "done"}

Types ==
    /\ state \in [Sessions -> {"new", "RUNNING", "STOPPING", "joined"}]
    /\ thread \in [Sessions -> [Streams -> ThreadStates]]
    /\ registry \in [Streams -> [Addrs -> Sessions \cup {Nil}]]
    /\ DOMAIN peer = Sessions

\* Who is registered is of the address, and has not returned from recv_ping.
Owners == \A k \in Streams, a \in Addrs : registry[k][a] # Nil =>
    /\ AddrOf[registry[k][a]] = a
    /\ thread[registry[k][a]][k] \in {"waiting", "pinged", "failed"}

\* Threads run only while their session lives.
Lives == \A s \in Sessions, k \in Streams :
    /\ state[s] = "new" => thread[s][k] = "new"
    /\ state[s] = "joined" => thread[s][k] = "done"

\* Of the sessions of an address, one at most is not settled.
Alone == ~crowded => \A s, t \in Sessions :
    s # t /\ AddrOf[s] = AddrOf[t] => Settled(s) \/ Settled(t)

IInv == Types /\ Owners /\ Lives /\ Alone /\ PingsReachTheirStream
-----------------------------------------------------------------------------
USE DEF Live

\* An address of a session is one of Addrs.
LEMMA AddressOfSession == \A s \in Sessions : AddrOf[s] \in Addrs
  BY DEF Addrs

\* A step of one thread leaves the others alone.
LEMMA ThreadMoves ==
    ASSUME Types, NEW s \in Sessions, NEW k \in Streams, NEW from, NEW to \in ThreadStates,
           Moves(s, k, from, to)
    PROVE  /\ thread[s][k] = from
           /\ thread' \in [Sessions -> [Streams -> ThreadStates]]
           /\ thread'[s][k] = to
           /\ \A t \in Sessions, l \in Streams : t # s \/ l # k => thread'[t][l] = thread[t][l]
  <1> USE DEF Types, Moves
  <1>1. thread[s] \in [Streams -> ThreadStates]
    OBVIOUS
  <1>2. [thread[s] EXCEPT ![k] = to] \in [Streams -> ThreadStates]
    BY <1>1
  <1>3. thread' = [thread EXCEPT ![s] = [thread[s] EXCEPT ![k] = to]]
    OBVIOUS
  <1> QED BY <1>1, <1>2, <1>3

\* A change of one place of the registry leaves the others alone.
LEMMA RegistryChanges ==
    ASSUME Types, NEW k \in Streams, NEW a \in Addrs, NEW v \in Sessions \cup {Nil},
           registry' = [registry EXCEPT ![k][a] = v]
    PROVE  /\ registry' \in [Streams -> [Addrs -> Sessions \cup {Nil}]]
           /\ registry'[k][a] = v
           /\ \A l \in Streams, b \in Addrs : l # k \/ b # a => registry'[l][b] = registry[l][b]
  <1> USE DEF Types
  <1>1. registry[k] \in [Addrs -> Sessions \cup {Nil}]
    OBVIOUS
  <1>2. [registry[k] EXCEPT ![a] = v] \in [Addrs -> Sessions \cup {Nil}]
    BY <1>1
  <1>3. registry' = [registry EXCEPT ![k] = [registry[k] EXCEPT ![a] = v]]
    OBVIOUS
  <1> QED BY <1>1, <1>2, <1>3

\* stop() stores nothing but STOPPING, into a session that runs.
LEMMA StopStores ==
    ASSUME Types, NEW s \in Sessions, state' = Stopped(s)
    PROVE  /\ state' \in [Sessions -> {"new", "RUNNING", "STOPPING", "joined"}]
           /\ \A t \in Sessions : \/ state'[t] = state[t]
                                  \/ state[t] = "RUNNING" /\ state'[t] = "STOPPING"
  BY DEF Types, Stopped

\* Nobody is registered and no session lives at the beginning.
LEMMA InitIInv == Init => IInv
  <1> SUFFICES ASSUME Init PROVE IInv
    OBVIOUS
  <1>1. Types
    BY DEF Init, Types, ThreadStates
  <1>2. Owners /\ Lives /\ PingsReachTheirStream
    BY DEF Init, Owners, Lives, PingsReachTheirStream
  <1>3. Alone
    BY DEF Init, Alone, Settled
  <1> QED BY <1>1, <1>2, <1>3 DEF IInv

\* A step of stop() preserves the invariant, and so do steps that change neither states nor
\* threads nor what is registered.
LEMMA StatesPreserve ==
    ASSUME IInv, state' \in [Sessions -> {"new", "RUNNING", "STOPPING", "joined"}],
           \A t \in Sessions : \/ state'[t] = state[t]
                               \/ state[t] = "RUNNING" /\ state'[t] = "STOPPING",
           UNCHANGED <<thread, peer, registry, crowded>>
    PROVE  IInv'
  <1>1. Types'
    BY DEF IInv, Types
  <1>2. Owners'
    BY DEF IInv, Owners
  <1>3. Lives'
    BY DEF IInv, Types, Lives
  <1>4. PingsReachTheirStream'
    BY DEF IInv, PingsReachTheirStream
  <1>5. Alone'
    BY DEF IInv, Alone, Settled
  <1> QED BY <1>1, <1>2, <1>3, <1>4, <1>5 DEF IInv

\* start(): the history variable tells whether the neighbours are settled.
LEMMA StartPreserves == ASSUME IInv, NEW s \in Sessions, Start(s) PROVE IInv'
  <1>1. /\ state[s] = "new" /\ state' \in [Sessions -> {"new", "RUNNING", "STOPPING", "joined"}]
        /\ state'[s] = "RUNNING" /\ \A t \in Sessions : t # s => state'[t] = state[t]
    BY DEF IInv, Start, Types
  <1>2. UNCHANGED <<thread, peer, registry>>
    BY DEF Start
  <1>3. ~crowded' => ~crowded /\ \A t \in Neighbours(s) : Settled(t)
    BY DEF Start
  <1>4. Types'
    BY <1>1, <1>2 DEF IInv, Types
  <1>5. Owners'
    BY <1>2 DEF IInv, Owners
  <1>6. Lives'
    BY <1>1, <1>2 DEF IInv, Lives
  <1>7. PingsReachTheirStream'
    BY <1>2, <1>3 DEF IInv, PingsReachTheirStream
  <1>8. \A t \in Sessions : t # s => (Settled(t) <=> Settled(t)')
    BY <1>1, <1>2 DEF Settled
  <1>9. Alone'
    BY <1>3, <1>8 DEF IInv, Alone, Neighbours
  <1> QED BY <1>4, <1>5, <1>6, <1>7, <1>9 DEF IInv

\* recv_ping registers: what is registered already would be of a second session that is
\* not settled.
LEMMA RegisterPreserves ==
    ASSUME IInv, NEW s \in Sessions, NEW k \in Streams, Register(s, k) PROVE IInv'
  <1>1. state[s] # "new" /\ Moves(s, k, "new", "waiting") /\ UNCHANGED <<state, peer, crowded>>
    BY DEF Register
  <1>2. /\ thread[s][k] = "new" /\ thread'[s][k] = "waiting"
        /\ thread' \in [Sessions -> [Streams -> ThreadStates]]
        /\ \A t \in Sessions, l \in Streams : t # s \/ l # k => thread'[t][l] = thread[t][l]
    BY <1>1, ThreadMoves DEF IInv, ThreadStates
  <1>3. /\ registry' \in [Streams -> [Addrs -> Sessions \cup {Nil}]]
        /\ registry'[k][AddrOf[s]] \in {s, registry[k][AddrOf[s]]}
        /\ registry[k][AddrOf[s]] = Nil => registry'[k][AddrOf[s]] = s
        /\ \A l \in Streams, b \in Addrs :
              l # k \/ b # AddrOf[s] => registry'[l][b] = registry[l][b]
    <2>1. CASE registry[k][AddrOf[s]] = Nil
      <3>1. registry' = [registry EXCEPT ![k][AddrOf[s]] = s]
        BY <2>1 DEF Register, Registered
      <3> QED BY <2>1, <3>1, RegistryChanges, AddressOfSession, ZenonT(60) DEF IInv
    <2>2. CASE registry[k][AddrOf[s]] # Nil
      BY <2>2 DEF Register, Registered, IInv, Types
    <2> QED BY <2>1, <2>2
  <1>4. Live(s) /\ ~Settled(s)
    BY <1>1, <1>2 DEF IInv, Types, Lives, Settled
  <1>5. ASSUME ~crowded PROVE registry[k][AddrOf[s]] = Nil
    <2> SUFFICES ASSUME registry[k][AddrOf[s]] # Nil PROVE FALSE
      OBVIOUS
    <2>1. PICK t \in Sessions : registry[k][AddrOf[s]] = t
      BY AddressOfSession DEF IInv, Types
    <2>2. AddrOf[t] = AddrOf[s] /\ thread[t][k] \in {"waiting", "pinged", "failed"}
      BY <2>1, AddressOfSession DEF IInv, Owners
    <2>3. t # s /\ Live(t)
      BY <1>2, <2>2 DEF IInv, Types, Lives
    <2>4. ~Settled(t)
      BY <2>2, <2>3 DEF Settled
    <2> QED BY <1>4, <1>5, <2>2, <2>3, <2>4 DEF IInv, Alone
  <1>6. Types'
    BY <1>1, <1>2, <1>3 DEF IInv, Types
  <1>7. Owners'
    <2> SUFFICES ASSUME NEW l \in Streams, NEW a \in Addrs, registry'[l][a] # Nil
                 PROVE  /\ AddrOf[registry'[l][a]] = a
                        /\ thread'[registry'[l][a]][l] \in {"waiting", "pinged", "failed"}
      BY DEF Owners
    <2>1. CASE l = k /\ a = AddrOf[s] /\ registry'[l][a] = s
      BY <2>1, <1>2
    <2>2. CASE registry'[l][a] = registry[l][a]
      BY <2>2, <1>2 DEF IInv, Types, Owners
    <2> QED BY <2>1, <2>2, <1>3
  <1>8. Lives'
    BY <1>1, <1>2 DEF IInv, Types, Lives
  <1>9. \A t \in Sessions : t # s => (Settled(t) <=> Settled(t)')
    BY <1>1, <1>2 DEF Settled
  <1>10. Alone'
    BY <1>1, <1>4, <1>9 DEF IInv, Alone
  <1>11. PingsReachTheirStream'
    <2> SUFFICES ASSUME ~crowded', NEW t \in Sessions, NEW l \in Streams, thread'[t][l] = "waiting"
                 PROVE  registry'[l][AddrOf[t]] = t
      BY DEF PingsReachTheirStream
    <2>1. registry[k][AddrOf[s]] = Nil
      BY <1>1, <1>5
    <2>2. CASE t = s /\ l = k
      BY <1>3, <2>1, <2>2
    <2>3. CASE t # s \/ l # k
      <3>1. registry[l][AddrOf[t]] = t
        BY <1>1, <1>2, <2>3 DEF IInv, PingsReachTheirStream
      <3>2. l # k \/ AddrOf[t] # AddrOf[s]
        BY <2>1, <3>1, PingAssumption
      <3> QED BY <1>3, <3>1, <3>2, AddressOfSession
    <2> QED BY <2>2, <2>3
  <1> QED BY <1>6, <1>7, <1>8, <1>10, <1>11 DEF IInv

\* recv_ping claims an entry, or its time is over: it stays registered, and not settled.
LEMMA WaitEndsPreserves ==
    ASSUME IInv, NEW s \in Sessions, NEW k \in Streams, NEW to \in {"pinged", "failed"},
           Moves(s, k, "waiting", to), UNCHANGED <<state, registry, crowded>>,
           DOMAIN peer' = Sessions, \A t \in Sessions : t # s => peer'[t] = peer[t]
    PROVE  IInv'
  <1>1. /\ thread[s][k] = "waiting" /\ thread'[s][k] = to
        /\ thread' \in [Sessions -> [Streams -> ThreadStates]]
        /\ \A t \in Sessions, l \in Streams : t # s \/ l # k => thread'[t][l] = thread[t][l]
    BY ThreadMoves DEF IInv, ThreadStates
  <1>2. Types'
    BY <1>1 DEF IInv, Types
  <1>3. Owners'
    <2> SUFFICES ASSUME NEW l \in Streams, NEW a \in Addrs, registry[l][a] # Nil
                 PROVE  /\ AddrOf[registry[l][a]] = a
                        /\ thread'[registry[l][a]][l] \in {"waiting", "pinged", "failed"}
      BY DEF Owners
    <2>1. registry[l][a] \in Sessions
      BY DEF IInv, Types
    <2>2. /\ AddrOf[registry[l][a]] = a
          /\ thread[registry[l][a]][l] \in {"waiting", "pinged", "failed"}
      BY DEF IInv, Owners
    <2> QED BY <1>1, <2>1, <2>2
  <1>4. Lives'
    BY <1>1 DEF IInv, Lives
  <1>5. Live(s) /\ ~Settled(s)
    BY <1>1 DEF IInv, Types, Lives, Settled
  <1>6. \A t \in Sessions : t # s => (Settled(t) <=> Settled(t)')
    BY <1>1 DEF Settled
  <1>7. Alone'
    BY <1>5, <1>6 DEF IInv, Alone
  <1>8. PingsReachTheirStream'
    BY <1>1 DEF IInv, PingsReachTheirStream
  <1> QED BY <1>2, <1>3, <1>4, <1>7, <1>8 DEF IInv

\* recv_ping claims an entry.
LEMMA ClaimPreserves ==
    ASSUME IInv, NEW s \in Sessions, NEW k \in Streams, Claim(s, k) PROVE IInv'
  <1>1. Moves(s, k, "waiting", "pinged") /\ UNCHANGED <<state, registry, crowded>>
    BY DEF Claim
  <1>2. \E p : peer' = [peer EXCEPT ![s][k] = p]
    BY DEF Claim
  <1>3. DOMAIN peer' = Sessions /\ \A t \in Sessions : t # s => peer'[t] = peer[t]
    BY <1>2 DEF IInv, Types
  <1> QED BY <1>1, <1>3, WaitEndsPreserves

\* recv_ping times out.
LEMMA TimeoutPreserves ==
    ASSUME IInv, NEW s \in Sessions, NEW k \in Streams, PingTimeout(s, k) PROVE IInv'
  <1>1. Moves(s, k, "waiting", "failed") /\ UNCHANGED <<state, registry, crowded, peer>>
    BY DEF PingTimeout
  <1>2. DOMAIN peer' = Sessions /\ \A t \in Sessions : t # s => peer'[t] = peer[t]
    BY <1>1 DEF IInv, Types
  <1> QED BY <1>1, <1>2, WaitEndsPreserves

\* recv_ping unregisters: who else waits would be of a second session that is not settled.
LEMMA UnregisterPreserves ==
    ASSUME IInv, NEW s \in Sessions, NEW k \in Streams, Unregister(s, k) PROVE IInv'
  <1>1. /\ UNCHANGED <<peer, crowded>>
        /\ \/ Moves(s, k, "pinged", "streaming") /\ UNCHANGED state
           \/ Moves(s, k, "failed", "done") /\ state' = Stopped(s)
        /\ registry' = [registry EXCEPT ![k][AddrOf[s]] = Nil]
    BY DEF Unregister, Unregistered
  <1>2. /\ thread[s][k] \in {"pinged", "failed"} /\ thread'[s][k] \in {"streaming", "done"}
        /\ thread' \in [Sessions -> [Streams -> ThreadStates]]
        /\ \A t \in Sessions, l \in Streams : t # s \/ l # k => thread'[t][l] = thread[t][l]
    <2>1. CASE Moves(s, k, "pinged", "streaming")
      BY <2>1, ThreadMoves DEF IInv, ThreadStates
    <2>2. CASE Moves(s, k, "failed", "done")
      BY <2>2, ThreadMoves DEF IInv, ThreadStates
    <2> QED BY <1>1, <2>1, <2>2
  <1>3. /\ state' \in [Sessions -> {"new", "RUNNING", "STOPPING", "joined"}]
        /\ \A t \in Sessions : \/ state'[t] = state[t]
                               \/ state[t] = "RUNNING" /\ state'[t] = "STOPPING"
    BY <1>1, StopStores DEF IInv, Types
  <1>4. /\ registry' \in [Streams -> [Addrs -> Sessions \cup {Nil}]]
        /\ registry'[k][AddrOf[s]] = Nil
        /\ \A l \in Streams, b \in Addrs :
              l # k \/ b # AddrOf[s] => registry'[l][b] = registry[l][b]
    BY <1>1, RegistryChanges, AddressOfSession, ZenonT(60) DEF IInv
  <1>5. Live(s) /\ ~Settled(s)
    BY <1>2 DEF IInv, Types, Lives, Settled
  <1>6. Types'
    BY <1>1, <1>2, <1>3, <1>4 DEF IInv, Types
  <1>7. Owners'
    <2> SUFFICES ASSUME NEW l \in Streams, NEW a \in Addrs, registry'[l][a] # Nil
                 PROVE  /\ AddrOf[registry'[l][a]] = a
                        /\ thread'[registry'[l][a]][l] \in {"waiting", "pinged", "failed"}
      BY DEF Owners
    <2>1. registry'[l][a] = registry[l][a] /\ (l # k \/ a # AddrOf[s])
      BY <1>4
    <2>2. registry[l][a] \in Sessions
      BY <2>1 DEF IInv, Types
    <2>3. /\ AddrOf[registry[l][a]] = a
          /\ thread[registry[l][a]][l] \in {"waiting", "pinged", "failed"}
      BY <2>1 DEF IInv, Owners
    <2>4. registry[l][a] # s \/ l # k
      BY <2>1, <2>3
    <2> QED BY <1>2, <2>1, <2>2, <2>3, <2>4
  <1>8. Lives'
    BY <1>2, <1>3, <1>5 DEF IInv, Lives
  <1>9. \A t \in Sessions : t # s => (Settled(t) <=> Settled(t)')
    BY <1>1, <1>2, <1>3 DEF Settled
  <1>10. Alone'
    BY <1>1, <1>5, <1>9 DEF IInv, Alone
  <1>11. PingsReachTheirStream'
    <2> SUFFICES ASSUME ~crowded', NEW t \in Sessions, NEW l \in Streams, thread'[t][l] = "waiting"
                 PROVE  registry'[l][AddrOf[t]] = t
      BY DEF PingsReachTheirStream
    <2>1. thread[t][l] = "waiting" /\ (t # s \/ l # k)
      BY <1>2
    <2>2. registry[l][AddrOf[t]] = t
      BY <1>1, <2>1 DEF IInv, PingsReachTheirStream
    <2>3. ~(l = k /\ AddrOf[t] = AddrOf[s])
      <3> SUFFICES ASSUME l = k, AddrOf[t] = AddrOf[s] PROVE FALSE
        OBVIOUS
      <3>1. ~Settled(t)
        BY <2>1 DEF IInv, Types, Lives, Settled
      <3> QED BY <1>1, <1>5, <2>1, <3>1 DEF IInv, Alone
    <2> QED BY <1>4, <2>2, <2>3, AddressOfSession
  <1> QED BY <1>6, <1>7, <1>8, <1>10, <1>11 DEF IInv

\* capture() returns: nothing of its session is registered for this stream.
LEMMA StreamEndsPreserves ==
    ASSUME IInv, NEW s \in Sessions, NEW k \in Streams, StreamEnds(s, k) PROVE IInv'
  <1>1. /\ Moves(s, k, "streaming", "done") /\ state' = Stopped(s)
        /\ UNCHANGED <<peer, registry, crowded>>
    BY DEF StreamEnds
  <1>2. /\ thread[s][k] = "streaming" /\ thread'[s][k] = "done"
        /\ thread' \in [Sessions -> [Streams -> ThreadStates]]
        /\ \A t \in Sessions, l \in Streams : t # s \/ l # k => thread'[t][l] = thread[t][l]
    BY <1>1, ThreadMoves DEF IInv, ThreadStates
  <1>3. /\ state' \in [Sessions -> {"new", "RUNNING", "STOPPING", "joined"}]
        /\ \A t \in Sessions : \/ state'[t] = state[t]
                               \/ state[t] = "RUNNING" /\ state'[t] = "STOPPING"
    BY <1>1, StopStores DEF IInv
  <1>4. Types'
    BY <1>1, <1>2, <1>3 DEF IInv, Types
  <1>5. Owners'
    BY <1>1, <1>2 DEF IInv, Types, Owners
  <1>6. Lives'
    BY <1>2, <1>3 DEF IInv, Types, Lives
  <1>7. \A t \in Sessions : Settled(t) => Settled(t)'
    BY <1>1, <1>2, <1>3 DEF Settled
  <1>8. Alone'
    BY <1>1, <1>7 DEF IInv, Alone
  <1>9. PingsReachTheirStream'
    BY <1>1, <1>2 DEF IInv, PingsReachTheirStream
  <1> QED BY <1>4, <1>5, <1>6, <1>8, <1>9 DEF IInv

\* join(): both threads have ended, and a session that was joined is settled.
LEMMA JoinPreserves == ASSUME IInv, NEW s \in Sessions, Join(s) PROVE IInv'
  <1>1. /\ \A k \in Streams : thread[s][k] = "done"
        /\ UNCHANGED <<thread, peer, registry, crowded>>
    BY DEF Join
  <1>2. /\ state' \in [Sessions -> {"new", "RUNNING", "STOPPING", "joined"}]
        /\ state'[s] = "joined" /\ \A t \in Sessions : t # s => state'[t] = state[t]
    BY DEF IInv, Types, Join
  <1>3. Types'
    BY <1>1, <1>2 DEF IInv, Types
  <1>4. Owners'
    BY <1>1 DEF IInv, Owners
  <1>5. Lives'
    BY <1>1, <1>2 DEF IInv, Lives
  <1>6. PingsReachTheirStream'
    BY <1>1 DEF IInv, PingsReachTheirStream
  <1>7. \A t \in Sessions : Settled(t) => Settled(t)'
    BY <1>1, <1>2 DEF Settled
  <1>8. Alone'
    BY <1>1, <1>7 DEF IInv, Alone
  <1> QED BY <1>3, <1>4, <1>5, <1>6, <1>8 DEF IInv

\* Every step preserves the invariant.
LEMMA NextIInv == IInv /\ [Next]_vars => IInv'
  <1> SUFFICES ASSUME IInv, [Next]_vars PROVE IInv'
    OBVIOUS
  <1>1. ASSUME UNCHANGED <<state, thread, peer, registry, crowded>> PROVE IInv'
    BY <1>1, StatesPreserve DEF IInv, Types
  <1>2. CASE UNCHANGED vars
    BY <1>1, <1>2 DEF vars
  <1>3. ASSUME NEW s \in Sessions, Start(s) \/ Stop(s) \/ Join(s) PROVE IInv'
    <2>1. CASE Stop(s)
      <3>1. state' = Stopped(s) /\ UNCHANGED <<thread, peer, registry, crowded>>
        BY <2>1 DEF Stop
      <3> QED BY <3>1, StopStores, StatesPreserve DEF IInv
    <2> QED BY <1>3, <2>1, StartPreserves, JoinPreserves
  <1>4. ASSUME NEW s \in Sessions, NEW k \in Streams,
               \/ Register(s, k) \/ Ping(s, k) \/ Claim(s, k) \/ Drop(s, k)
               \/ PingTimeout(s, k) \/ Unregister(s, k) \/ StreamEnds(s, k)
        PROVE  IInv'
    <2>1. CASE Ping(s, k)
      BY <1>1, <2>1 DEF Ping
    <2>2. CASE Drop(s, k)
      BY <1>1, <2>2 DEF Drop
    <2> QED BY <1>4, <2>1, <2>2, RegisterPreserves, ClaimPreserves, TimeoutPreserves,
               UnregisterPreserves, StreamEndsPreserves
  <1> QED BY <1>2, <1>3, <1>4 DEF Next

\* recvThread finds the thread that waits, for any number of clients, addresses and
\* pings, as long as no two sessions of one address look for their ports at once.
THEOREM PingsFindTheirStream == Spec => []PingsReachTheirStream
  <1>1. Init => IInv
    BY InitIInv
  <1>2. IInv /\ [Next]_vars => IInv'
    BY NextIInv
  <1>3. IInv => PingsReachTheirStream
    BY DEF IInv
  <1> QED BY <1>1, <1>2, <1>3, PTL DEF Spec
-----------------------------------------------------------------------------
(* The table of connections.                                               *)

Tables ==
    /\ DOMAIN connections \subseteq 1..2 * Cardinality(Begun)
    /\ connections \in [DOMAIN connections -> [addr : Addrs, port : Ports \cup {Unclaimed}]]
    /\ peer \in [Sessions -> [Streams -> Ports \cup {Unclaimed}]]
    /\ messages \in [Sessions -> [Streams -> Seq(Ports)]]
    /\ over \in BOOLEAN /\ crowded \in BOOLEAN

\* A stream has no port before its thread has claimed an entry.
PortsComeLast == \A s \in Sessions, k \in Streams :
    thread[s][k] \in {"new", "waiting"} => peer[s][k] = Unclaimed

\* The entries of a live session s are those that start() has added for it, at place[s] and
\* the place after it.
Owned(place) == \A s \in Sessions : Live(s) =>
    place[s] \in DOMAIN connections /\ place[s] + 1 \in DOMAIN connections
AllOwned(place) == \A i \in DOMAIN connections :
    \E s \in Sessions : Live(s) /\ i \in {place[s], place[s] + 1}
Apart(place) == \A s, t \in Sessions : s # t /\ Live(s) /\ Live(t) =>
    place[s] + 1 < place[t] \/ place[t] + 1 < place[s]

\* The entries of a session that is not settled come after those of its neighbours.
Ordered(place) == \A s, t \in Sessions :
    s # t /\ AddrOf[s] = AddrOf[t] /\ Live(s) /\ Live(t) /\ ~Settled(s) => place[t] < place[s]

\* The stream k that was first to claim an entry has the second one of the session.
FilledBy(n, s, k, l) ==
    /\ k # l
    /\ connections[n + 1] = Entry(AddrOf[s], peer[s][k])
    /\ connections[n] = Entry(AddrOf[s], peer[s][l])
    /\ peer[s][k] = Unclaimed => peer[s][l] = Unclaimed
Filled(place) == \A s \in Sessions : Live(s) =>
    \E k, l \in Streams : FilledBy(place[s], s, k, l)

Placed(place) ==
    Owned(place) /\ AllOwned(place) /\ Apart(place) /\ Ordered(place) /\ Filled(place)
HasPlaces == \E place \in [Sessions -> Nat] : Placed(place)

TInv == Tables /\ PortsComeLast /\ (~crowded => ~over /\ ClaimedOnce /\ HasPlaces)

\* The sessions that have begun are finitely many, and each entry has a number.
LEMMA BegunIsFinite == IsFiniteSet(Begun) /\ Cardinality(Begun) \in Nat
  <1>1. Begun \in SUBSET Sessions
    BY DEF Begun
  <1>2. IsFiniteSet(Begun)
    BY <1>1, PingAssumption, FS_Subset
  <1> QED BY <1>2, FS_CardinalityType

\* A change of one place of the messages leaves the others alone.
LEMMA MessagesChange ==
    ASSUME Tables, NEW s \in Sessions, NEW k \in Streams, NEW q \in Seq(Ports),
           messages' = [messages EXCEPT ![s][k] = q]
    PROVE  messages' \in [Sessions -> [Streams -> Seq(Ports)]]
  <1> DEFINE Q == Seq(Ports)
  <1>1. messages \in [Sessions -> [Streams -> Q]] /\ q \in Q
    BY DEF Tables
  <1> HIDE DEF Q
  <1>2. [messages[s] EXCEPT ![k] = q] \in [Streams -> Q]
    BY <1>1
  <1>3. messages' = [messages EXCEPT ![s] = [messages[s] EXCEPT ![k] = q]]
    BY <1>1
  <1>4. messages' \in [Sessions -> [Streams -> Q]]
    BY <1>1, <1>2, <1>3
  <1> QED BY <1>4 DEF Q

\* What is not claimed has no part in ClaimedOnce; a claimed port is a peer.
LEMMA ClaimsOfPeers ==
    ASSUME NEW s \in Sessions, NEW p
    PROVE  p \in Claimed(s) <=> p # Unclaimed /\ \E k \in Streams : peer[s][k] = p
  BY DEF Claimed

\* The first entry is that of the one stream, the second that of the other.
LEMMA FilledCovers ==
    ASSUME NEW place, Filled(place), NEW s \in Sessions, Live(s)
    PROVE  /\ connections[place[s]].addr = AddrOf[s]
           /\ connections[place[s] + 1].addr = AddrOf[s]
           /\ \E k \in Streams : connections[place[s]].port = peer[s][k]
           /\ \E k \in Streams : connections[place[s] + 1].port = peer[s][k]
           /\ \A k \in Streams : peer[s][k] \in
                {connections[place[s]].port, connections[place[s] + 1].port}
  <1>1. PICK k \in Streams, l \in Streams : FilledBy(place[s], s, k, l)
    BY DEF Filled
  <1>2. Streams = {k, l}
    BY <1>1 DEF FilledBy, Streams
  <1> QED BY <1>1, <1>2 DEF FilledBy, Entry

\* Steps that leave the table alone keep the places: a session that was settled remains so.
LEMMA TableStays ==
    ASSUME IInv, TInv, state' \in [Sessions -> {"new", "RUNNING", "STOPPING", "joined"}],
           \A t \in Sessions : \/ state'[t] = state[t]
                               \/ state[t] = "RUNNING" /\ state'[t] = "STOPPING",
           UNCHANGED <<connections, peer, over, crowded>>,
           messages' \in [Sessions -> [Streams -> Seq(Ports)]],
           \A t \in Sessions : Settled(t) => Settled(t)',
           \A t \in Sessions, l \in Streams :
              thread'[t][l] \in {"new", "waiting"} => thread[t][l] \in {"new", "waiting"}
    PROVE  TInv'
  <1>1. \A t \in Sessions : Live(t)' <=> Live(t)
    OBVIOUS
  <1>2. Begun' = Begun
    BY DEF Begun
  <1>3. Tables'
    <2>1. over' \in BOOLEAN /\ crowded' \in BOOLEAN
      BY Zenon DEF TInv, Tables
    <2> QED BY <1>2, <2>1 DEF TInv, Tables
  <1>4. PortsComeLast'
    BY DEF TInv, PortsComeLast
  <1>5. ASSUME ~crowded' PROVE ~over' /\ ClaimedOnce' /\ HasPlaces'
    <2>1. ~over /\ ClaimedOnce /\ HasPlaces
      BY <1>5 DEF TInv
    <2>2. ClaimedOnce'
      <3>1. \A t \in Sessions : Claimed(t)' = Claimed(t)
        BY DEF Claimed
      <3> QED BY <1>1, <2>1, <3>1 DEF ClaimedOnce
    <2>3. PICK place \in [Sessions -> Nat] : Placed(place)
      BY <2>1 DEF HasPlaces
    <2>4. Owned(place)' /\ AllOwned(place)' /\ Apart(place)'
      BY <1>1, <2>3 DEF Placed, Owned, AllOwned, Apart
    <2>5. Ordered(place)'
      BY <1>1, <2>3 DEF Placed, Ordered
    <2>6. Filled(place)'
      BY <1>1, <2>3 DEF Placed, Filled, FilledBy
    <2>7. HasPlaces'
      BY <2>4, <2>5, <2>6 DEF HasPlaces, Placed
    <2> QED BY <2>1, <2>2, <2>7
  <1> QED BY <1>3, <1>4, <1>5 DEF TInv

\* Nothing is in the table at the beginning.
LEMMA InitTInv == Init => TInv
  <1> SUFFICES ASSUME Init PROVE TInv
    OBVIOUS
  <1>1. over \in BOOLEAN /\ crowded \in BOOLEAN /\ ~over
    BY Zenon DEF Init
  <1>2. \A s \in Sessions : ~Live(s)
    BY DEF Init
  <1>3. Tables
    BY <1>1 DEF Init, Tables
  <1>4. PortsComeLast
    BY DEF Init, PortsComeLast
  <1>5. ClaimedOnce
    BY <1>2 DEF ClaimedOnce
  <1>6. Placed([s \in Sessions |-> 0])
    BY <1>2 DEF Init, Placed, Owned, AllOwned, Apart, Ordered, Filled
  <1>7. HasPlaces
    BY <1>6 DEF HasPlaces
  <1> QED BY <1>1, <1>3, <1>4, <1>5, <1>7 DEF TInv

\* start() adds two entries after all others.
LEMMA StartKeepsTable == ASSUME IInv, TInv, NEW s \in Sessions, Start(s) PROVE TInv'
  <1> DEFINE n == 2 * Cardinality(Begun)
  <1>1. /\ state[s] = "new" /\ state' \in [Sessions -> {"new", "RUNNING", "STOPPING", "joined"}]
        /\ state'[s] = "RUNNING" /\ \A t \in Sessions : t # s => state'[t] = state[t]
    BY DEF IInv, Start, Types
  <1>2. UNCHANGED <<thread, peer, messages, over>>
    BY DEF Start
  <1>3. ~crowded' => ~crowded /\ \A t \in Neighbours(s) : Settled(t)
    BY DEF Start
  <1>4. n \in Nat /\ Cardinality(Begun') = Cardinality(Begun) + 1
    <2>1. Begun' = Begun \cup {s} /\ s \notin Begun
      BY <1>1 DEF Begun
    <2> QED BY <2>1, BegunIsFinite, FS_AddElement
  <1>5. /\ DOMAIN connections \subseteq 1..n /\ DOMAIN connections' = DOMAIN connections \cup {n + 1, n + 2}
        /\ connections'[n + 1] = Entry(AddrOf[s], Unclaimed)
        /\ connections'[n + 2] = Entry(AddrOf[s], Unclaimed)
        /\ \A i \in DOMAIN connections : i # n + 1 /\ i # n + 2 /\ connections'[i] = connections[i]
    <2>1. connections' = [i \in DOMAIN connections \cup {n + 1, n + 2} |->
            IF i \in {n + 1, n + 2} THEN Entry(AddrOf[s], Unclaimed) ELSE connections[i]]
      BY DEF Start, Extended, NewEntries
    <2>2. DOMAIN connections \subseteq 1..n
      BY DEF TInv, Tables
    <2> HIDE DEF n
    <2>3. \A i \in DOMAIN connections : i # n + 1 /\ i # n + 2
      BY <1>4, <2>2
    <2> QED BY <2>1, <2>2, <2>3
  <1> HIDE DEF n
  <1>6. Tables'
    <2>1. over' \in BOOLEAN
      BY <1>2, Zenon DEF TInv, Tables
    <2>2. crowded' \in BOOLEAN
      BY Zenon DEF Start, TInv, Tables
    <2>3. DOMAIN connections' \subseteq 1..2 * Cardinality(Begun')
      BY <1>4, <1>5, BegunIsFinite DEF n
    <2>4. connections' \in [DOMAIN connections' -> [addr : Addrs, port : Ports \cup {Unclaimed}]]
      <3>1. Entry(AddrOf[s], Unclaimed) \in [addr : Addrs, port : Ports \cup {Unclaimed}]
        BY AddressOfSession DEF Entry
      <3>2. \A i \in DOMAIN connections' : connections'[i] \in [addr : Addrs, port : Ports \cup {Unclaimed}]
        BY <1>5, <3>1 DEF TInv, Tables
      <3>3. connections' = [i \in DOMAIN connections' |-> connections'[i]]
        BY DEF Start, Extended
      <3> QED BY <3>2, <3>3
    <2> QED BY <1>2, <2>1, <2>2, <2>3, <2>4 DEF TInv, Tables
  <1>7. PortsComeLast'
    BY <1>2 DEF TInv, PortsComeLast
  <1>8. \A k \in Streams : peer[s][k] = Unclaimed
    BY <1>1 DEF IInv, Lives, TInv, PortsComeLast
  <1>9. ASSUME ~crowded' PROVE ~over' /\ ClaimedOnce' /\ HasPlaces'
    <2>1. ~over /\ ClaimedOnce /\ HasPlaces
      BY <1>3, <1>9 DEF TInv
    <2>2. Claimed(s)' = {} /\ \A t \in Sessions : Claimed(t)' = Claimed(t)
      BY <1>2, <1>8 DEF Claimed
    <2>3. ClaimedOnce'
      BY <1>1, <2>1, <2>2 DEF ClaimedOnce
    <2>4. PICK old \in [Sessions -> Nat] : Placed(old)
      BY <2>1 DEF HasPlaces
    <2>5. PICK place \in [Sessions -> Nat] :
            place[s] = n + 1 /\ \A t \in Sessions : t # s => place[t] = old[t]
      <3>1. [old EXCEPT ![s] = n + 1] \in [Sessions -> Nat]
        BY <1>4
      <3> QED BY <3>1
    <2>6. \A t \in Sessions : t # s => place[t] = old[t]
      BY <2>5
    <2>7. \A t \in Sessions : t # s => (Live(t)' <=> Live(t)) /\ (Settled(t)' <=> Settled(t))
      BY <1>1, <1>2 DEF Settled
    <2>8. Live(s)' /\ ~Live(s)
      BY <1>1
    <2>9. \A t \in Sessions : Live(t) =>
            old[t] \in DOMAIN connections /\ old[t] + 1 \in DOMAIN connections /\ old[t] + 1 < n + 1
      BY <1>4, <1>5, <2>4 DEF Placed, Owned
    <2>10. Owned(place)'
      BY <1>4, <1>5, <2>5, <2>6, <2>7, <2>9 DEF Owned
    <2>11. AllOwned(place)'
      <3> SUFFICES ASSUME NEW i \in DOMAIN connections'
                   PROVE  \E t \in Sessions : Live(t)' /\ i \in {place[t], place[t] + 1}
        BY DEF AllOwned
      <3>1. CASE i \in {n + 1, n + 2}
        BY <1>4, <2>5, <2>8, <3>1
      <3>2. CASE i \in DOMAIN connections
        <4>1. PICK t \in Sessions : Live(t) /\ i \in {old[t], old[t] + 1}
          BY <2>4, <3>2 DEF Placed, AllOwned
        <4>2. t # s
          BY <2>8, <4>1
        <4> QED BY <2>6, <2>7, <4>1, <4>2
      <3> QED BY <1>5, <3>1, <3>2
    <2>12. Apart(place)'
      <3> SUFFICES ASSUME NEW t \in Sessions, NEW u \in Sessions, t # u, Live(t)', Live(u)'
                   PROVE  place[t] + 1 < place[u] \/ place[u] + 1 < place[t]
        BY DEF Apart
      <3>1. CASE t # s /\ u # s
        BY <2>4, <2>6, <2>7, <3>1 DEF Placed, Apart
      <3>2. CASE t = s \/ u = s
        BY <2>5, <2>6, <2>7, <2>9, <3>2
      <3> QED BY <3>1, <3>2
    <2>13. Ordered(place)'
      <3> SUFFICES ASSUME NEW t \in Sessions, NEW u \in Sessions, t # u, AddrOf[t] = AddrOf[u],
                          Live(t)', Live(u)', ~Settled(t)'
                   PROVE  place[u] < place[t]
        BY DEF Ordered
      <3>1. CASE t # s /\ u # s
        BY <2>4, <2>6, <2>7, <3>1 DEF Placed, Ordered
      <3>2. CASE t = s
        BY <1>4, <2>4, <2>5, <2>6, <2>7, <2>9, <3>2
      <3>3. CASE u = s
        BY <1>3, <1>9, <2>7, <3>3 DEF Neighbours
      <3> QED BY <3>1, <3>2, <3>3
    <2>14. Filled(place)'
      <3> SUFFICES ASSUME NEW t \in Sessions, Live(t)'
                   PROVE  \E k, l \in Streams : FilledBy(place[t], t, k, l)'
        BY DEF Filled
      <3>1. CASE t = s
        <4>1. FilledBy(place[s], s, "video", "audio")'
          BY <1>2, <1>4, <1>5, <1>8, <2>5 DEF FilledBy, Streams
        <4> QED BY <3>1, <4>1 DEF Streams
      <3>2. CASE t # s
        <4>1. PICK k \in Streams, l \in Streams : FilledBy(old[t], t, k, l)
          BY <2>4, <2>7, <3>2 DEF Placed, Filled
        <4>2. FilledBy(place[t], t, k, l)'
          BY <1>2, <1>5, <2>6, <2>7, <2>9, <3>2, <4>1 DEF FilledBy
        <4> QED BY <4>2
      <3> QED BY <3>1, <3>2
    <2>15. HasPlaces'
      BY <2>5, <2>10, <2>11, <2>12, <2>13, <2>14 DEF HasPlaces, Placed
    <2> QED BY <1>2, <2>1, <2>3, <2>15
  <1> QED BY <1>6, <1>7, <1>9 DEF TInv

\* What a claim takes, if free are the candidates: the second entry of s if it can, and no
\* port of another session.
OwnClaim(place, s, p, free) ==
    /\ LastOf(free) = IF connections[place[s] + 1].port = Unclaimed
                      THEN place[s] + 1 ELSE place[s]
    /\ LastOf(free) \in free
    /\ \A t \in Sessions : t # s /\ AddrOf[t] = AddrOf[s] /\ Live(t) => p \notin Claimed(t)

\* The entry a session claims is its own, the second one first, and no other session of its
\* address has the port.
LEMMA ClaimTakesOwn ==
    ASSUME IInv, TInv, ~crowded, NEW place \in [Sessions -> Nat], Placed(place),
           NEW s \in Sessions, NEW k \in Streams, thread[s][k] = "waiting",
           NEW p, p # Unclaimed, NEW free, free = Candidates(AddrOf[s], p), free # {}
    PROVE  OwnClaim(place, s, p, free)
  <1>1. Live(s) /\ ~Settled(s)
    BY DEF IInv, Types, Lives, Settled
  <1>2. Alone /\ Filled(place) /\ Owned(place) /\ AllOwned(place) /\ Apart(place) /\ Ordered(place)
    BY DEF IInv, Placed
  <1>3. DOMAIN connections \subseteq Nat
    BY BegunIsFinite DEF TInv, Tables
  <1>4. \A i \in free : /\ i \in DOMAIN connections /\ connections[i] = Entry(AddrOf[s], Unclaimed)
                        /\ \A j \in DOMAIN connections : j <= i => connections[j].port # p
    BY DEF Candidates, Scanned
  <1>5. ASSUME NEW i \in free PROVE i \in {place[s], place[s] + 1}
    <2>1. PICK t \in Sessions : Live(t) /\ i \in {place[t], place[t] + 1}
      BY <1>2, <1>4 DEF AllOwned
    <2>2. /\ connections[i].addr = AddrOf[t]
          /\ \E l \in Streams : connections[i].port = peer[t][l]
      BY <1>2, <2>1, FilledCovers
    <2>3. AddrOf[t] = AddrOf[s] /\ \E l \in Streams : peer[t][l] = Unclaimed
      BY <1>4, <2>2 DEF Entry
    <2>4. ~Settled(t)
      BY <2>1, <2>3 DEF Settled
    <2>5. t = s
      BY <1>1, <1>2, <2>3, <2>4 DEF Alone
    <2> QED BY <2>1, <2>5
  <1>6. PICK i \in free : TRUE
    OBVIOUS
  <1>7. place[s] \in Nat /\ place[s] \in DOMAIN connections /\ place[s] + 1 \in DOMAIN connections
    BY <1>1, <1>2 DEF Owned
  <1>8. connections[place[s] + 1].port = Unclaimed => place[s] + 1 \in free
    <2> SUFFICES ASSUME connections[place[s] + 1].port = Unclaimed PROVE place[s] + 1 \in free
      OBVIOUS
    <2>1. connections[place[s] + 1] = Entry(AddrOf[s], Unclaimed)
      <3>1. PICK l \in Streams, m \in Streams : FilledBy(place[s], s, l, m)
        BY <1>1, <1>2 DEF Filled
      <3> QED BY <3>1 DEF FilledBy, Entry
    <2>2. \A j \in DOMAIN connections : j <= place[s] => connections[j].port # p
      BY <1>3, <1>4, <1>5, <1>6, <1>7
    <2>3. \A j \in DOMAIN connections : j <= place[s] + 1 => connections[j].port # p
      BY <1>3, <1>7, <2>1, <2>2 DEF Entry
    <2> QED BY <1>7, <2>1, <2>3 DEF Candidates, Scanned
  <1>9. connections[place[s] + 1].port # Unclaimed => free = {place[s]}
    BY <1>4, <1>5, <1>6 DEF Entry
  <1> DEFINE m == IF connections[place[s] + 1].port = Unclaimed THEN place[s] + 1 ELSE place[s]
  <1>10. m \in free /\ m \in Nat /\ \A j \in free : j \in Nat /\ j <= m
    BY <1>5, <1>7, <1>8, <1>9
  <1>11. LastOf(free) = m
    <2> HIDE DEF m
    <2>1. \A j \in free : (\A l \in free : l <= j) => j = m
      BY <1>10
    <2> QED BY <1>10, <2>1 DEF LastOf
  <1>12. ASSUME NEW t \in Sessions, t # s, AddrOf[t] = AddrOf[s], Live(t) PROVE p \notin Claimed(t)
    <2>1. \A l \in Streams : peer[t][l] \in
                {connections[place[t]].port, connections[place[t] + 1].port}
      BY <1>2, <1>12, FilledCovers
    <2>2. place[t] < place[s]
      BY <1>1, <1>2, <1>12 DEF Ordered
    <2>3. place[t] + 1 < place[s]
      BY <1>1, <1>2, <1>12, <2>2 DEF Apart
    <2>4. place[t] \in DOMAIN connections /\ place[t] + 1 \in DOMAIN connections
      BY <1>2, <1>12 DEF Owned
    <2>5. place[t] <= m /\ place[t] + 1 <= m
      BY <1>7, <2>3
    <2>6. connections[place[t]].port # p /\ connections[place[t] + 1].port # p
      BY <1>4, <1>10, <2>4, <2>5
    <2> QED BY <2>1, <2>6 DEF Claimed
  <1> QED BY <1>10, <1>11, <1>12 DEF OwnClaim

\* recv_ping claims an entry.
LEMMA ClaimKeepsTable ==
    ASSUME IInv, TInv, NEW s \in Sessions, NEW k \in Streams, Claim(s, k) PROVE TInv'
  <1> DEFINE p == Head(messages[s][k])
             free == Candidates(AddrOf[s], p)
             m == LastOf(free)
  <1>1. /\ messages[s][k] # <<>> /\ free # {} /\ Moves(s, k, "waiting", "pinged")
        /\ connections' = [connections EXCEPT ![m] = Entry(AddrOf[s], p)]
        /\ peer' = [peer EXCEPT ![s][k] = p]
        /\ messages' = [messages EXCEPT ![s][k] = <<>>]
        /\ UNCHANGED <<state, registry, over, crowded>>
    BY DEF Claim
  <1>2. p \in Ports /\ p # Unclaimed
    <2>1. messages[s][k] \in Seq(Ports)
      BY DEF TInv, Tables
    <2>2. p \in Ports
      BY <1>1, <2>1
    <2> QED BY <2>2, PingAssumption DEF Ports
  <1> HIDE DEF p, free, m
  <1>3. /\ thread[s][k] = "waiting" /\ thread'[s][k] = "pinged"
        /\ \A t \in Sessions, l \in Streams : t # s \/ l # k => thread'[t][l] = thread[t][l]
    BY <1>1, ThreadMoves DEF IInv, ThreadStates
  <1>4. /\ peer' \in [Sessions -> [Streams -> Ports \cup {Unclaimed}]]
        /\ peer'[s][k] = p
        /\ \A t \in Sessions, l \in Streams : t # s \/ l # k => peer'[t][l] = peer[t][l]
    <2>1. peer \in [Sessions -> [Streams -> Ports \cup {Unclaimed}]]
      BY DEF TInv, Tables
    <2>2. [peer[s] EXCEPT ![k] = p] \in [Streams -> Ports \cup {Unclaimed}]
      BY <1>2, <2>1
    <2>3. peer' = [peer EXCEPT ![s] = [peer[s] EXCEPT ![k] = p]]
      BY <1>1, <2>1
    <2> QED BY <2>1, <2>2, <2>3
  <1>5. Tables'
    <2>1. over' \in BOOLEAN /\ crowded' \in BOOLEAN
      BY <1>1, Zenon DEF TInv, Tables
    <2>2. Entry(AddrOf[s], p) \in [addr : Addrs, port : Ports \cup {Unclaimed}]
      BY <1>2, AddressOfSession DEF Entry
    <2>3. /\ DOMAIN connections' = DOMAIN connections
          /\ connections' \in [DOMAIN connections -> [addr : Addrs, port : Ports \cup {Unclaimed}]]
      BY <1>1, <2>2 DEF TInv, Tables
    <2>4. messages' \in [Sessions -> [Streams -> Seq(Ports)]]
      <3>1. <<>> \in Seq(Ports) /\ Tables
        BY DEF TInv
      <3> QED BY <1>1, <3>1, MessagesChange
    <2>5. Begun' = Begun
      BY <1>1 DEF Begun
    <2> QED BY <1>4, <2>1, <2>3, <2>4, <2>5 DEF TInv, Tables
  <1>6. PortsComeLast'
    BY <1>3, <1>4 DEF TInv, PortsComeLast
  <1>7. ASSUME ~crowded' PROVE ~over' /\ ClaimedOnce' /\ HasPlaces'
    <2>1. ~crowded /\ ~over /\ ClaimedOnce /\ HasPlaces
      BY <1>1, <1>7 DEF TInv
    <2>2. PICK place \in [Sessions -> Nat] : Placed(place)
      BY <2>1 DEF HasPlaces
    <2>3. /\ m = IF connections[place[s] + 1].port = Unclaimed THEN place[s] + 1 ELSE place[s]
          /\ m \in free
          /\ \A t \in Sessions : t # s /\ AddrOf[t] = AddrOf[s] /\ Live(t) => p \notin Claimed(t)
      <3>1. free = Candidates(AddrOf[s], p) /\ m = LastOf(free)
        BY DEF free, m
      <3>2. free # {} /\ p # Unclaimed /\ thread[s][k] = "waiting"
        BY <1>1, <1>2, <1>3
      <3>3. OwnClaim(place, s, p, free)
        BY <2>1, <2>2, <3>1, <3>2, ClaimTakesOwn
      <3> QED BY <3>1, <3>3 DEF OwnClaim
    <2>4. /\ Filled(place) /\ Owned(place) /\ AllOwned(place) /\ Apart(place) /\ Ordered(place)
          /\ Live(s) /\ ~Settled(s)
      BY <1>3, <2>2 DEF IInv, Types, Lives, Settled, Placed
    <2>5. /\ DOMAIN connections' = DOMAIN connections /\ m \in DOMAIN connections
          /\ connections'[m] = Entry(AddrOf[s], p)
          /\ \A i \in DOMAIN connections : i # m => connections'[i] = connections[i]
      BY <1>1, <2>3 DEF free, Candidates, Scanned
    <2>6. /\ \A t \in Sessions : t # s => Claimed(t)' = Claimed(t)
          /\ Claimed(s)' \subseteq Claimed(s) \cup {p}
      BY <1>4 DEF Claimed
    <2>7. ClaimedOnce'
      BY <1>1, <2>1, <2>3, <2>6 DEF ClaimedOnce
    <2>8. Owned(place)' /\ AllOwned(place)' /\ Apart(place)'
      BY <1>1, <2>4, <2>5 DEF Owned, AllOwned, Apart
    <2>9. Ordered(place)'
      <3>1. \A t \in Sessions : t # s => (Settled(t) <=> Settled(t)')
        BY <1>1, <1>3, <1>4 DEF Settled
      <3> QED BY <1>1, <2>4, <3>1 DEF Ordered
    <2>10. Filled(place)'
      <3> SUFFICES ASSUME NEW t \in Sessions, Live(t)'
                   PROVE  \E i, j \in Streams : FilledBy(place[t], t, i, j)'
        BY DEF Filled
      <3>1. PICK i \in Streams, j \in Streams : FilledBy(place[t], t, i, j)
        BY <1>1, <2>4 DEF Filled
      <3>2. place[t] \in DOMAIN connections /\ place[t] + 1 \in DOMAIN connections
        BY <1>1, <2>4 DEF Owned
      <3>3. place[t] \in Nat /\ place[s] \in Nat
        OBVIOUS
      <3>4. CASE t # s
        <4>1. m # place[t] /\ m # place[t] + 1
          BY <1>1, <2>3, <2>4, <3>3, <3>4 DEF Apart
        <4>2. FilledBy(place[t], t, i, j)'
          BY <1>4, <2>5, <3>1, <3>2, <3>4, <4>1 DEF FilledBy
        <4> QED BY <4>2
      <3>5. CASE t = s
        <4>1. peer[s][k] = Unclaimed
          BY <1>3 DEF TInv, PortsComeLast
        <4>2. i # j /\ Streams = {i, j}
          BY <3>1 DEF FilledBy, Streams
        <4>3. /\ connections[place[s] + 1] = Entry(AddrOf[s], peer[s][i])
              /\ connections[place[s]] = Entry(AddrOf[s], peer[s][j])
              /\ peer[s][i] = Unclaimed => peer[s][j] = Unclaimed
          BY <3>1, <3>5 DEF FilledBy
        <4>4. CASE peer[s][i] = Unclaimed
          <5>1. m = place[s] + 1
            BY <2>3, <4>3, <4>4 DEF Entry
          <5>2. PICK l \in Streams : l # k
            BY DEF Streams
          <5>3. peer'[s][l] = Unclaimed
            BY <1>4, <4>2, <4>3, <4>4, <5>2
          <5>4. connections'[place[s]] = Entry(AddrOf[s], Unclaimed)
            BY <2>5, <3>2, <3>3, <3>5, <4>3, <4>4, <5>1
          <5>5. FilledBy(place[s], s, k, l)'
            BY <1>2, <1>4, <2>5, <5>1, <5>2, <5>3, <5>4 DEF FilledBy
          <5> QED BY <3>5, <5>5
        <4>5. CASE peer[s][i] # Unclaimed
          <5>1. m = place[s] /\ k = j
            BY <2>3, <4>1, <4>2, <4>3, <4>5 DEF Entry
          <5>2. connections'[place[s] + 1] = Entry(AddrOf[s], peer[s][i]) /\ peer'[s][i] = peer[s][i]
            BY <1>4, <2>5, <3>2, <3>3, <3>5, <4>2, <4>3, <5>1
          <5>3. FilledBy(place[s], s, i, j)'
            BY <1>4, <2>5, <4>2, <4>5, <5>1, <5>2 DEF FilledBy
          <5> QED BY <3>5, <5>3
        <4> QED BY <4>4, <4>5
      <3> QED BY <3>4, <3>5
    <2>11. HasPlaces'
      BY <2>8, <2>9, <2>10 DEF HasPlaces, Placed
    <2> QED BY <1>1, <2>1, <2>7, <2>11
  <1> QED BY <1>5, <1>6, <1>7 DEF TInv

\* join() finds the two entries of its session, of whatever its threads have claimed.
LEMMA JoinFindsItsEntries ==
    ASSUME IInv, TInv, ~crowded, NEW place \in [Sessions -> Nat], Placed(place),
           NEW s \in Sessions, Live(s), NEW i \in DOMAIN connections
    PROVE  Own(s, connections[i]) <=> i \in {place[s], place[s] + 1}
  <1>1. Alone /\ ClaimedOnce /\ Filled(place) /\ AllOwned(place)
    BY DEF IInv, TInv, Placed
  <1>2. ASSUME i \in {place[s], place[s] + 1} PROVE Own(s, connections[i])
    BY <1>1, <1>2, FilledCovers DEF Own
  <1>3. ASSUME Own(s, connections[i]) PROVE i \in {place[s], place[s] + 1}
    <2>1. PICK t \in Sessions : Live(t) /\ i \in {place[t], place[t] + 1}
      BY <1>1 DEF AllOwned
    <2>2. /\ connections[i].addr = AddrOf[t]
          /\ \E l \in Streams : connections[i].port = peer[t][l]
      BY <1>1, <2>1, FilledCovers
    <2>3. PICK k \in Streams, l \in Streams :
            AddrOf[t] = AddrOf[s] /\ connections[i].port = peer[t][l] /\ peer[s][k] = peer[t][l]
      BY <1>3, <2>2 DEF Own
    <2>4. CASE peer[t][l] = Unclaimed
      <3>1. ~Settled(s) /\ ~Settled(t)
        BY <2>1, <2>3, <2>4 DEF Settled
      <3>2. s = t
        BY <1>1, <2>3, <3>1 DEF Alone
      <3> QED BY <2>1, <3>2
    <2>5. CASE peer[t][l] # Unclaimed
      <3>1. peer[t][l] \in Claimed(s) \cap Claimed(t)
        BY <2>3, <2>5 DEF Claimed
      <3>2. s = t
        BY <1>1, <2>1, <2>3, <3>1 DEF ClaimedOnce
      <3> QED BY <2>1, <3>2
    <2> QED BY <2>4, <2>5
  <1> QED BY <1>2, <1>3

\* join() removes two entries, and no broadcast ends for it.
LEMMA JoinKeepsTable == ASSUME IInv, TInv, NEW s \in Sessions, Join(s) PROVE TInv'
  <1>1. /\ state[s] = "STOPPING" /\ UNCHANGED <<thread, peer, messages, crowded>>
        /\ connections' = [i \in Kept(s) |-> connections[i]]
        /\ Kept(s) \subseteq DOMAIN connections
    BY DEF Join, Rest, Kept
  <1>2. /\ DOMAIN connections' = Kept(s)
        /\ \A i \in Kept(s) : connections'[i] = connections[i]
    BY <1>1
  <1>3. state'[s] = "joined" /\ \A t \in Sessions : t # s => state'[t] = state[t]
    BY DEF IInv, Types, Join
  <1>4. Begun' = Begun
    BY <1>1, <1>3 DEF Begun
  <1>5. Tables'
    <2>1. over' \in BOOLEAN
      BY Zenon DEF Join, TInv, Tables
    <2>2. crowded' \in BOOLEAN
      BY <1>1, Zenon DEF TInv, Tables
    <2>3. connections' \in [Kept(s) -> [addr : Addrs, port : Ports \cup {Unclaimed}]]
      BY <1>1 DEF TInv, Tables
    <2> QED BY <1>1, <1>2, <1>4, <2>1, <2>2, <2>3 DEF TInv, Tables
  <1>6. PortsComeLast'
    BY <1>1 DEF TInv, PortsComeLast
  <1>7. ASSUME ~crowded' PROVE ~over' /\ ClaimedOnce' /\ HasPlaces'
    <2>1. ~crowded /\ ~over /\ ClaimedOnce /\ HasPlaces
      BY <1>1, <1>7 DEF TInv
    <2>2. PICK place \in [Sessions -> Nat] : Placed(place)
      BY <2>1 DEF HasPlaces
    <2>3. Kept(s) = DOMAIN connections \ {place[s], place[s] + 1}
      BY <1>1, <2>1, <2>2, JoinFindsItsEntries DEF Kept
    <2>4. /\ Filled(place) /\ Owned(place) /\ AllOwned(place) /\ Apart(place) /\ Ordered(place)
          /\ place[s] \in Nat /\ Live(s)
      BY <1>1, <2>2 DEF Placed
    <2>5. Cardinality(DOMAIN connections) = Cardinality(Kept(s)) + 2
      <3> DEFINE D == DOMAIN connections
      <3>1. IsFiniteSet(D)
        <4>1. IsFiniteSet(1..2 * Cardinality(Begun))
          BY BegunIsFinite, FS_Interval
        <4>2. D \in SUBSET (1..2 * Cardinality(Begun))
          BY DEF TInv, Tables
        <4> QED BY <4>1, <4>2, FS_Subset
      <3>2. place[s] \in D /\ place[s] + 1 \in D
        BY <2>4 DEF Owned
      <3>3. Kept(s) = (D \ {place[s]}) \ {place[s] + 1}
        BY <2>3
      <3> HIDE DEF D
      <3>4. Cardinality(D) \in Nat
        BY <3>1, FS_CardinalityType
      <3>5. IsFiniteSet(D \ {place[s]}) /\ Cardinality(D \ {place[s]}) = Cardinality(D) - 1
        BY <3>1, <3>2, FS_RemoveElement
      <3>6. place[s] + 1 \in D \ {place[s]}
        BY <2>4, <3>2
      <3>7. Cardinality((D \ {place[s]}) \ {place[s] + 1}) = Cardinality(D \ {place[s]}) - 1
        BY <3>5, <3>6, FS_RemoveElement
      <3>8. Cardinality(D) = Cardinality(Kept(s)) + 2
        BY <3>3, <3>4, <3>5, <3>7
      <3> QED BY <3>8 DEF D
    <2>6. ~over'
      BY <2>1, <2>5, Zenon DEF Join
    <2>7. ~Live(s)' /\ \A t \in Sessions : t # s => (Live(t)' <=> Live(t))
      BY <1>3
    <2>8. \A t \in Sessions : t # s => (Settled(t)' <=> Settled(t))
      BY <1>1, <1>3 DEF Settled
    <2>9. ClaimedOnce'
      <3>1. \A t \in Sessions : Claimed(t)' = Claimed(t)
        BY <1>1 DEF Claimed
      <3> QED BY <2>1, <2>7, <3>1 DEF ClaimedOnce
    <2>10. \A t \in Sessions : t # s /\ Live(t) =>
             place[t] \in Kept(s) /\ place[t] + 1 \in Kept(s)
      BY <2>3, <2>4 DEF Owned, Apart
    <2>11. Owned(place)'
      BY <1>2, <2>7, <2>10 DEF Owned
    <2>12. AllOwned(place)'
      <3> SUFFICES ASSUME NEW i \in Kept(s)
                   PROVE  \E t \in Sessions : Live(t)' /\ i \in {place[t], place[t] + 1}
        BY <1>2 DEF AllOwned
      <3>1. PICK t \in Sessions : Live(t) /\ i \in {place[t], place[t] + 1}
        BY <1>1, <2>4 DEF AllOwned
      <3>2. t # s
        BY <2>3, <3>1
      <3> QED BY <2>7, <3>1, <3>2
    <2>13. Apart(place)'
      BY <2>4, <2>7 DEF Apart
    <2>14. Ordered(place)'
      BY <2>4, <2>7, <2>8 DEF Ordered
    <2>15. Filled(place)'
      <3> SUFFICES ASSUME NEW t \in Sessions, Live(t)'
                   PROVE  \E i, j \in Streams : FilledBy(place[t], t, i, j)'
        BY DEF Filled
      <3>1. t # s /\ Live(t)
        BY <2>7
      <3>2. PICK i \in Streams, j \in Streams : FilledBy(place[t], t, i, j)
        BY <2>4, <3>1 DEF Filled
      <3>3. FilledBy(place[t], t, i, j)'
        BY <1>1, <1>2, <2>10, <3>1, <3>2 DEF FilledBy
      <3> QED BY <3>3
    <2>16. HasPlaces'
      BY <2>11, <2>12, <2>13, <2>14, <2>15 DEF HasPlaces, Placed
    <2> QED BY <2>6, <2>9, <2>16
  <1> QED BY <1>5, <1>6, <1>7 DEF TInv

\* The threads' other steps leave the table alone.
LEMMA ThreadsKeepTable ==
    ASSUME IInv, TInv, NEW s \in Sessions, NEW k \in Streams,
           \/ Register(s, k) \/ Ping(s, k) \/ Drop(s, k)
           \/ PingTimeout(s, k) \/ Unregister(s, k) \/ StreamEnds(s, k)
    PROVE  TInv'
  <1>1. UNCHANGED <<connections, peer, over, crowded>>
    BY DEF Register, Ping, Drop, PingTimeout, Unregister, StreamEnds
  <1>2. /\ state' \in [Sessions -> {"new", "RUNNING", "STOPPING", "joined"}]
        /\ \A t \in Sessions : \/ state'[t] = state[t]
                               \/ state[t] = "RUNNING" /\ state'[t] = "STOPPING"
    <2>1. CASE state' = state
      BY <2>1 DEF IInv, Types
    <2>2. CASE state' = Stopped(s)
      BY <2>2, StopStores DEF IInv
    <2> QED BY <2>1, <2>2 DEF Register, Ping, Drop, PingTimeout, Unregister, StreamEnds
  <1>3. messages' \in [Sessions -> [Streams -> Seq(Ports)]]
    <2>1. CASE messages' = messages
      BY <2>1 DEF TInv, Tables
    <2>2. CASE Ping(s, k)
      <3>1. registry[k][AddrOf[s]] \in Sessions \cup {Nil}
        BY AddressOfSession DEF IInv, Types
      <3>2. PICK t \in Sessions : /\ t = registry[k][AddrOf[s]]
              /\ messages' = [messages EXCEPT ![t][k] = Append(@, PortOf[s][k])]
        BY <2>2, <3>1 DEF Ping
      <3>3. messages[t][k] \in Seq(Ports) /\ PortOf[s][k] \in Ports
        BY DEF TInv, Tables, Ports
      <3>4. Append(messages[t][k], PortOf[s][k]) \in Seq(Ports)
        BY <3>3
      <3>5. messages' = [messages EXCEPT ![t][k] = Append(messages[t][k], PortOf[s][k])]
        BY <3>2
      <3> QED BY <3>4, <3>5, MessagesChange DEF TInv
    <2>3. CASE Drop(s, k)
      <3>1. messages[s][k] \in Seq(Ports) /\ messages[s][k] # <<>>
        BY <2>3 DEF TInv, Tables, Drop
      <3>2. Tail(messages[s][k]) \in Seq(Ports)
        BY <3>1
      <3>3. messages' = [messages EXCEPT ![s][k] = Tail(messages[s][k])]
        BY <2>3 DEF Drop
      <3> QED BY <3>2, <3>3, MessagesChange DEF TInv
    <2> QED BY <2>1, <2>2, <2>3 DEF Register, PingTimeout, Unregister, StreamEnds
  <1>4. \A t \in Sessions, l \in Streams :
          \/ thread'[t][l] = thread[t][l]
          \/ thread[t][l] = "new" /\ thread'[t][l] = "waiting"
          \/ thread[t][l] = "waiting" /\ thread'[t][l] = "failed"
          \/ /\ thread[t][l] \in {"pinged", "failed", "streaming"}
             /\ thread'[t][l] \in {"streaming", "done"}
    <2>1. CASE Register(s, k)
      <3>1. Moves(s, k, "new", "waiting")
        BY <2>1 DEF Register
      <3> QED BY <3>1, ThreadMoves DEF IInv, ThreadStates
    <2>2. CASE PingTimeout(s, k)
      <3>1. Moves(s, k, "waiting", "failed")
        BY <2>2 DEF PingTimeout
      <3> QED BY <3>1, ThreadMoves DEF IInv, ThreadStates
    <2>3. CASE Unregister(s, k)
      <3>1. CASE Moves(s, k, "pinged", "streaming")
        BY <3>1, ThreadMoves DEF IInv, ThreadStates
      <3>2. CASE Moves(s, k, "failed", "done")
        BY <3>2, ThreadMoves DEF IInv, ThreadStates
      <3> QED BY <2>3, <3>1, <3>2 DEF Unregister
    <2>4. CASE StreamEnds(s, k)
      <3>1. Moves(s, k, "streaming", "done")
        BY <2>4 DEF StreamEnds
      <3> QED BY <3>1, ThreadMoves DEF IInv, ThreadStates
    <2>5. CASE Ping(s, k) \/ Drop(s, k)
      BY <2>5 DEF Ping, Drop
    <2> QED BY <2>1, <2>2, <2>3, <2>4, <2>5
  <1>5. \A t \in Sessions : Settled(t) => Settled(t)'
    <2> SUFFICES ASSUME NEW t \in Sessions, Settled(t), Live(t)', NEW l \in Streams
                 PROVE  thread'[t][l] \in {"streaming", "done"} /\ peer'[t][l] # Unclaimed
      BY DEF Settled
    <2>1. Live(t)
      BY <1>2
    <2>2. thread[t][l] \in {"streaming", "done"} /\ peer[t][l] # Unclaimed
      BY <2>1 DEF Settled
    <2> QED BY <1>1, <1>4, <2>2
  <1>6. \A t \in Sessions, l \in Streams :
          thread'[t][l] \in {"new", "waiting"} => thread[t][l] \in {"new", "waiting"}
    BY <1>4
  <1> QED BY <1>1, <1>2, <1>3, <1>5, <1>6, TableStays

\* Every step keeps the table, while the threads keep to IInv.
LEMMA NextTInv == IInv /\ TInv /\ [Next]_vars => TInv'
  <1> SUFFICES ASSUME IInv, TInv, [Next]_vars PROVE TInv'
    OBVIOUS
  <1>1. ASSUME UNCHANGED <<thread, connections, peer, messages, over, crowded>>,
               state' \in [Sessions -> {"new", "RUNNING", "STOPPING", "joined"}],
               \A t \in Sessions : \/ state'[t] = state[t]
                                   \/ state[t] = "RUNNING" /\ state'[t] = "STOPPING"
        PROVE  TInv'
    <2>1. messages' \in [Sessions -> [Streams -> Seq(Ports)]]
      BY <1>1 DEF TInv, Tables
    <2>2. \A t \in Sessions : Settled(t) => Settled(t)'
      BY <1>1 DEF Settled
    <2> QED BY <1>1, <2>1, <2>2, TableStays
  <1>2. CASE UNCHANGED vars
    BY <1>1, <1>2 DEF vars, IInv, Types
  <1>3. ASSUME NEW s \in Sessions, Start(s) \/ Stop(s) \/ Join(s) PROVE TInv'
    <2>1. CASE Stop(s)
      <3>1. /\ state' = Stopped(s)
            /\ UNCHANGED <<thread, connections, peer, messages, over, crowded>>
        BY <2>1 DEF Stop
      <3> QED BY <1>1, <3>1, StopStores DEF IInv
    <2> QED BY <1>3, <2>1, StartKeepsTable, JoinKeepsTable
  <1>4. ASSUME NEW s \in Sessions, NEW k \in Streams,
               \/ Register(s, k) \/ Ping(s, k) \/ Claim(s, k) \/ Drop(s, k)
               \/ PingTimeout(s, k) \/ Unregister(s, k) \/ StreamEnds(s, k)
        PROVE  TInv'
    BY <1>4, ClaimKeepsTable, ThreadsKeepTable
  <1> QED BY <1>2, <1>3, <1>4 DEF Next

\* Places count the entries: two for each live session of an address.
LEMMA PlacesCount ==
    ASSUME NEW place \in [Sessions -> Nat], Placed(place), NEW a
    PROVE  Cardinality(EntriesOf(a)) = 2 * Cardinality(LiveOf(a))
  <1> DEFINE L == LiveOf(a)
             F == {place[s] : s \in L}
             G == {place[s] + 1 : s \in L}
  <1>1. L \in SUBSET Sessions /\ \A s \in L : AddrOf[s] = a /\ Live(s)
    BY DEF LiveOf
  <1>2. IsFiniteSet(L) /\ Cardinality(L) \in Nat
    BY <1>1, PingAssumption, FS_Subset, FS_CardinalityType
  <1>3. \A s, t \in L : s # t => place[s] # place[t] /\ place[s] # place[t] + 1
    <2>1. Apart(place)
      BY DEF Placed
    <2>2. \A s \in L : place[s] \in Nat
      BY <1>1
    <2> QED BY <1>1, <2>1, <2>2 DEF Apart
  <1>4. EntriesOf(a) = F \cup G
    <2>1. ASSUME NEW i \in EntriesOf(a) PROVE i \in F \cup G
      <3>1. i \in DOMAIN connections /\ connections[i].addr = a
        BY <2>1 DEF EntriesOf
      <3>2. PICK s \in Sessions : Live(s) /\ i \in {place[s], place[s] + 1}
        BY <3>1 DEF Placed, AllOwned
      <3>3. AddrOf[s] = a
        BY <3>1, <3>2, FilledCovers DEF Placed
      <3> QED BY <3>2, <3>3 DEF LiveOf
    <2>2. ASSUME NEW s \in L PROVE place[s] \in EntriesOf(a) /\ place[s] + 1 \in EntriesOf(a)
      <3>1. /\ connections[place[s]].addr = a /\ connections[place[s] + 1].addr = a
            /\ place[s] \in DOMAIN connections /\ place[s] + 1 \in DOMAIN connections
        BY <1>1, FilledCovers DEF Placed, Owned
      <3> QED BY <3>1 DEF EntriesOf
    <2> QED BY <2>1, <2>2
  <1>5. IsFiniteSet(F) /\ Cardinality(F) = Cardinality(L)
    <2>1. [s \in L |-> place[s]] \in Bijection(L, F)
      BY <1>3 DEF Bijection, Injection, Surjection, IsInjective
    <2> HIDE DEF F, L
    <2>2. ExistsBijection(L, F)
      BY <2>1 DEF ExistsBijection
    <2> QED BY <1>2, <2>2, FS_Bijection
  <1>6. IsFiniteSet(G) /\ Cardinality(G) = Cardinality(L)
    <2>1. \A s, t \in L : place[s] + 1 = place[t] + 1 => s = t
      <3>1. \A s \in L : place[s] \in Nat
        BY <1>1
      <3> QED BY <1>3, <3>1
    <2>2. [s \in L |-> place[s] + 1] \in Bijection(L, G)
      BY <2>1 DEF Bijection, Injection, Surjection, IsInjective
    <2> HIDE DEF G, L
    <2>3. ExistsBijection(L, G)
      BY <2>2 DEF ExistsBijection
    <2> QED BY <1>2, <2>3, FS_Bijection
  <1>7. F \cap G = {}
    <2>1. \A s \in L : place[s] \in Nat
      BY <1>1
    <2>2. \A s, t \in L : place[s] # place[t] + 1
      BY <1>3, <2>1
    <2> QED BY <2>2
  <1>8. Cardinality(F \cup G) = Cardinality(F) + Cardinality(G) - Cardinality(F \cap G)
    <2> HIDE DEF F, G
    <2> QED BY <1>5, <1>6, FS_Union
  <1>9. Cardinality(F \cap G) = 0
    BY <1>7, FS_EmptySet
  <1> HIDE DEF F, G, L
  <1>10. Cardinality(EntriesOf(a)) = 2 * Cardinality(L)
    BY <1>2, <1>4, <1>5, <1>6, <1>8, <1>9
  <1> QED BY <1>10 DEF L

\* The invariants say what the table promises.
LEMMA TableMatches == IInv /\ TInv => ConnectionsAreOfSessions
  <1> SUFFICES ASSUME IInv, TInv PROVE ConnectionsAreOfSessions
    OBVIOUS
  <1>1. TypeOK
    <2>1. over \in BOOLEAN /\ crowded \in BOOLEAN
      BY Zenon DEF TInv, Tables
    <2> QED BY <2>1 DEF IInv, Types, ThreadStates, TInv, Tables, TypeOK
  <1>2. ASSUME ~crowded PROVE ~over /\ ClaimedOnce /\ EntriesMatch
    <2>1. ~over /\ ClaimedOnce /\ HasPlaces
      BY <1>2 DEF TInv
    <2>2. PICK place \in [Sessions -> Nat] : Placed(place)
      BY <2>1 DEF HasPlaces
    <2>3. ASSUME NEW a \in Addrs
          PROVE  {connections[i].port : i \in EntriesOf(a)} \ {Unclaimed}
                   = UNION {Claimed(s) : s \in LiveOf(a)}
      <3> DEFINE P == {connections[i].port : i \in EntriesOf(a)} \ {Unclaimed}
                 C == UNION {Claimed(s) : s \in LiveOf(a)}
      <3>1. ASSUME NEW p \in P PROVE p \in C
        <4>1. PICK i \in DOMAIN connections :
                connections[i].addr = a /\ p = connections[i].port /\ p # Unclaimed
          BY DEF EntriesOf
        <4>2. PICK s \in Sessions : Live(s) /\ i \in {place[s], place[s] + 1}
          BY <2>2 DEF Placed, AllOwned
        <4>3. AddrOf[s] = a /\ \E k \in Streams : p = peer[s][k]
          BY <2>2, <4>1, <4>2, FilledCovers DEF Placed
        <4>4. s \in LiveOf(a) /\ p \in Claimed(s)
          BY <4>1, <4>2, <4>3 DEF LiveOf, Claimed
        <4> QED BY <4>4
      <3>2. ASSUME NEW p \in C PROVE p \in P
        <4>1. PICK s \in Sessions : AddrOf[s] = a /\ Live(s) /\ p \in Claimed(s)
          BY DEF LiveOf
        <4>2. p # Unclaimed /\ \E k \in Streams : p = peer[s][k]
          BY <4>1 DEF Claimed
        <4>3. /\ place[s] \in DOMAIN connections /\ place[s] + 1 \in DOMAIN connections
              /\ connections[place[s]].addr = a /\ connections[place[s] + 1].addr = a
              /\ p \in {connections[place[s]].port, connections[place[s] + 1].port}
          BY <2>2, <4>1, <4>2, FilledCovers DEF Placed, Owned
        <4> QED BY <4>2, <4>3 DEF EntriesOf
      <3> QED BY <3>1, <3>2
    <2>4. EntriesMatch
      BY <2>2, <2>3, PlacesCount DEF EntriesMatch
    <2> QED BY <2>1, <2>4
  <1> QED BY <1>1, <1>2 DEF ConnectionsAreOfSessions

\* The table is that of the live sessions, and join() never ends all broadcasts, for any number
\* of clients, addresses and pings, as long as no two sessions of one address look for their
\* ports at once.
THEOREM TableIsOfSessions == Spec => []ConnectionsAreOfSessions
  <1>1. Init => IInv /\ TInv
    BY InitIInv, InitTInv
  <1>2. IInv /\ TInv /\ [Next]_vars => IInv' /\ TInv'
    BY NextIInv, NextTInv
  <1>3. IInv /\ TInv => ConnectionsAreOfSessions
    BY TableMatches
  <1> QED BY <1>1, <1>2, <1>3, PTL DEF Spec
=============================================================================
