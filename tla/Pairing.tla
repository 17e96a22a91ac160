------------------------------ MODULE Pairing ------------------------------
(***************************************************************************)
(* Pairing of clients (src/sunshine/nvhttp.cpp): the sessions of clients   *)
(* that are being paired, the PIN the user enters on the web page, the     *)
(* clients that are known, the file they are kept in, and the certificates *)
(* by which the HTTPS server accepts connections.  A client asks for the   *)
(* server's certificate, which waits for the PIN, and then goes through    *)
(* three more requests; it gives up when an answer is wrong.  Many clients *)
(* send one and the same uniqueid.  A handler is one step.                 *)
(***************************************************************************)
EXTENDS Naturals, Sequences, FiniteSets

CONSTANTS
    Devices,     \* clients, each with a certificate of its own
    IdOf,        \* their uniqueid
    Capacity,    \* of add_cert (30)
    FreshState,  \* config::flag::FRESH_STATE
    Torn, Nil    \* a file that cannot be read; nothing, no file

VARIABLES
    phase,      \* of each device
    sess,       \* map_id_sess
    store,      \* map_id_client: the certificates of each uniqueid
    file,       \* what is on the disk
    chain,      \* cert_chain
    added,      \* add_cert
    completed,  \* history: devices that were told that they are paired
    unsaved,    \* history: what is in store could not be written
    overflow,   \* history: add_cert was full
    disturbed,  \* history: a session was not its client's alone, or ended with the program
    undefined   \* history: a session was used that is not there, or no more

vars == <<phase, sess, store, file, chain, added, completed, unsaved, overflow, disturbed, undefined>>

Ids == {IdOf[d] : d \in Devices}
NoCerts == [i \in Ids |-> {}]
CertsOf(s) == UNION {s[i] : i \in Ids}
Waiting(q) == {q[n] : n \in DOMAIN q}

Init ==
    /\ phase = [d \in Devices |-> "idle"] /\ sess = <<>>
    /\ store = NoCerts /\ file = Nil /\ chain = {} /\ added = <<>>
    /\ completed = {} /\ unsaved = FALSE /\ overflow = FALSE /\ disturbed = FALSE
    /\ undefined = FALSE

-----------------------------------------------------------------------------
With(i, s) == [j \in DOMAIN sess \cup {i} |-> IF j = i THEN s ELSE sess[j]]
Without(i) == [j \in DOMAIN sess \ {i} |-> sess[j]]
Turn(d, p) == phase' = [phase EXCEPT ![d] = p]

\* emplace() keeps the session that is there, with its certificate, and only the salt
\* and the response are new.
AfterAsk(d) ==
    LET old == IF IdOf[d] \in DOMAIN sess THEN sess[IdOf[d]]
               ELSE [cert |-> d, salt |-> d, asks |-> d, key |-> Nil, challenge |-> Nil, hash |-> Nil]
    IN  [old EXCEPT !.salt = d, !.asks = d]

\* A key is a device's if it was made of its PIN and its salt.
KeyOf(d, s) == [s EXCEPT !.key = IF s.salt = d THEN d ELSE "none", !.asks = Nil]

\* save_state(): a file that cannot be read is left alone; a write may fail.
Saved(s) ==
    \/ file # Torn /\ file' = s /\ unsaved' = FALSE
    \/ UNCHANGED file /\ unsaved' = TRUE

\* update_id_client(ADD)
StoreWith(d) == [store EXCEPT ![IdOf[d]] = @ \cup {d}]

\* load_state()
LoadedOnePerId(f) == [i \in Ids |-> IF f \in {Nil, Torn} \/ f[i] = {} THEN {}
                                    ELSE {CHOOSE c \in f[i] : TRUE}]
Loaded(f) == IF f \in {Nil, Torn} \/ FreshState THEN NoCerts ELSE f

\* raise(): a full queue is emptied first.
Raised(d) == IF Len(added) = Capacity THEN <<d>> ELSE Append(added, d)

-----------------------------------------------------------------------------
\* pair(), phrase=getservercert: the answer waits for the PIN.
GetServerCert(d) ==
    /\ phase[d] = "idle"
    /\ Turn(d, "waiting") /\ sess' = With(IdOf[d], AfterAsk(d))
    /\ disturbed' = (disturbed \/ AfterAsk(d).cert # d)
    /\ UNCHANGED <<store, file, chain, added, completed, unsaved, overflow, undefined>>

\* pin(): the user enters the PIN that device d shows; it goes to the first session of
\* the map, whichever that is, and the answer to whom that session has to answer.
Pin(d, i) ==
    /\ phase[d] = "waiting" /\ i \in DOMAIN sess
    /\ sess' = With(i, KeyOf(d, sess[i]))
    /\ phase' = [e \in Devices |-> IF e = sess[i].asks /\ phase[e] = "waiting"
                                   THEN "got" ELSE phase[e]]
    /\ disturbed' = (disturbed \/ sess[i].salt # d)
    /\ UNCHANGED <<store, file, chain, added, completed, unsaved, overflow, undefined>>

\* pair() uses what find() has found, whatever it is, and the key, if there is one.
Found(d) == IdOf[d] \in DOMAIN sess /\ sess[IdOf[d]].key # Nil
\* clientpairingsecret(): a hash that is not correct erases the session, which is used
\* after that.
HashIsCorrect(d) == LET s == sess[IdOf[d]] IN s.cert = d /\ s.challenge = d /\ s.hash = d

Challenge(d) ==
    /\ phase[d] = "got" /\ Found(d)
    /\ Turn(d, IF sess[IdOf[d]].key = d THEN "challenged" ELSE "idle")
    /\ sess' = With(IdOf[d], [sess[IdOf[d]] EXCEPT !.challenge = d])
    /\ UNCHANGED <<store, file, chain, added, completed, unsaved, overflow, disturbed, undefined>>

ChallengeResponse(d) ==
    /\ phase[d] = "challenged" /\ Found(d)
    /\ Turn(d, "responded")
    /\ sess' = With(IdOf[d], [sess[IdOf[d]] EXCEPT !.hash = sess[IdOf[d]].key])
    /\ UNCHANGED <<store, file, chain, added, completed, unsaved, overflow, disturbed, undefined>>

PairingSecret(d) ==
    /\ phase[d] = "responded" /\ Found(d) /\ HashIsCorrect(d)
    /\ Turn(d, "idle") /\ sess' = Without(IdOf[d])
    /\ added' = Raised(d) /\ overflow' = (overflow \/ Len(added) = Capacity)
    /\ store' = StoreWith(d)
    /\ IF FreshState THEN UNCHANGED <<file, unsaved>> ELSE Saved(store')
    /\ completed' = completed \cup {d}
    /\ UNCHANGED <<chain, disturbed, undefined>>

Broken(d) ==
    /\ phase[d] \in {"got", "challenged", "responded"}
    /\ Found(d) => phase[d] = "responded" /\ ~HashIsCorrect(d)
    /\ undefined' = TRUE
    /\ UNCHANGED <<phase, sess, store, file, chain, added, completed, unsaved, overflow, disturbed>>

\* A client gives up.
GiveUp(d) ==
    /\ phase[d] # "idle" /\ Turn(d, "idle")
    /\ UNCHANGED <<sess, store, file, chain, added, completed, unsaved, overflow, disturbed, undefined>>

\* https_server.verify: whoever connects, the certificates that were added are taken.
Connect ==
    /\ added # <<>> /\ chain' = chain \cup Waiting(added) /\ added' = <<>>
    /\ UNCHANGED <<phase, sess, store, file, completed, unsaved, overflow, disturbed, undefined>>

\* erase_all_clients(): the store is saved even if it was not loaded.
UnpairAll ==
    /\ store' = NoCerts /\ Saved(store') /\ completed' = {}
    /\ UNCHANGED <<phase, sess, chain, added, overflow, disturbed, undefined>>

\* The program ends, in the middle of a write perhaps, and is started again: cert_chain
\* is filled from the store.
Restart(f) ==
    /\ file' = f /\ store' = Loaded(f) /\ chain' = CertsOf(store') /\ added' = <<>>
    /\ sess' = <<>> /\ disturbed' = (disturbed \/ DOMAIN sess # {}) /\ overflow' = FALSE
    /\ completed' = IF f = Torn \/ FreshState \/ unsaved THEN completed \cap CertsOf(store')
                    ELSE completed
    /\ unsaved' = FALSE
    /\ UNCHANGED <<phase, undefined>>

Next == ~undefined /\
    (\/ \E d \in Devices :
         \/ GetServerCert(d) \/ Challenge(d) \/ ChallengeResponse(d) \/ PairingSecret(d)
         \/ Broken(d) \/ GiveUp(d) \/ \E i \in Ids : Pin(d, i)
     \/ Connect \/ UnpairAll \/ \E f \in {file, Torn} : Restart(f))

Spec == Init /\ [][Next]_vars

-----------------------------------------------------------------------------
\* Sessions are kept under the id of the device whose certificate they have (pair()).
TypeOK ==
    /\ \A i \in DOMAIN sess : IdOf[sess[i].cert] = i /\ sess[i].salt \in Devices
    /\ \A i \in Ids : \A c \in store[i] : IdOf[c] = i
    /\ Len(added) <= Capacity

\* nvhttp.cpp, clientpairingsecret(), load_state(): who was told that it is paired is
\* known until all are unpaired, over restarts too, unless the file was lost.
PairedAreKnown == completed \subseteq CertsOf(store)

\* start(), clientpairingsecret(), add_cert: and is accepted by the HTTPS server, unless
\* so many were paired between two connections that the queue was emptied.
PairedAreAccepted == overflow \/ completed \subseteq chain \cup Waiting(added)

\* save_state(): what a restart would find is what is known.
StoreIsOnDisk == FreshState \/ unsaved \/ file = Torn \/ store = Loaded(file)

\* pair(), pin(): a client that pairs alone may give up and try again whenever it wants:
\* its sessions are there and are its own as long as nobody uses the same id, or has its
\* PIN entered into its session.
OnlyRivalsDisturb == undefined => disturbed

-----------------------------------------------------------------------------
(* The inductive invariant that the proofs of the properties use.         *)

\* While nobody has disturbed another, a session is for one device, which it has been made
\* for, and is as far as that is.
SessionsAreTheirs ==
    ~disturbed =>
        /\ \A i \in DOMAIN sess : sess[i].salt = sess[i].cert /\ sess[i].asks \in {sess[i].cert, Nil}
        /\ \A d \in Devices : phase[d] # "idle" => IdOf[d] \in DOMAIN sess /\ sess[IdOf[d]].cert = d
        /\ \A d \in Devices : phase[d] \in {"got", "challenged", "responded"} => sess[IdOf[d]].key = d
        /\ \A d \in Devices : phase[d] \in {"challenged", "responded"} => sess[IdOf[d]].challenge = d
        /\ \A d \in Devices : phase[d] = "responded" => sess[IdOf[d]].hash = d

\* What is kept of clients is theirs, in the sessions, in the store and on the disk.
CertsAreOfDevices ==
    /\ phase \in [Devices -> {"idle", "waiting", "got", "challenged", "responded"}]
    /\ DOMAIN sess \subseteq Ids
    /\ \A i \in DOMAIN sess :
         sess[i] \in [cert : Devices, salt : Devices, asks : Devices \cup {Nil},
                      key : Devices \cup {Nil, "none"}, challenge : Devices \cup {Nil},
                      hash : Devices \cup {Nil, "none"}]
    /\ store \in [Ids -> SUBSET Devices] /\ added \in Seq(Devices)
    /\ file \in {Nil, Torn} \cup [Ids -> SUBSET Devices]
    /\ file \notin {Nil, Torn} => \A i \in Ids : \A c \in file[i] : IdOf[c] = i

IInv ==
    /\ TypeOK /\ CertsAreOfDevices /\ SessionsAreTheirs
    /\ PairedAreKnown /\ PairedAreAccepted /\ StoreIsOnDisk /\ OnlyRivalsDisturb
=============================================================================
