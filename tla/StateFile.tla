------------------------------ MODULE StateFile ------------------------------
(***************************************************************************)
(* sunshine_state.json, which two threads read, change and write back: the *)
(* one of the configuration pages for its user (httpcommon.cpp) and when   *)
(* all clients are unpaired, the one of the HTTP servers for a new client  *)
(* (nvhttp.cpp, save_state()).  Each must leave alone what the other has   *)
(* in the file; no lock keeps them apart.                                  *)
(***************************************************************************)
EXTENDS Naturals

CONSTANTS
    Users,     \* names with their passwords
    Devices,
    MaxJobs,   \* bounds the saves
    Nil, Torn

VARIABLES
    file,      \* Nil: not there; Torn: no JSON; or what it holds of each writer
    creds,     \* config::sunshine.username, password and salt
    clients,   \* map_id_client
    job,       \* of each thread: what it saves, how far it is, and what it has read
    told,      \* history: the user whose page said it is saved
    spoiled,   \* history: the file was read while it was being replaced, or was not replaced whole
    jobs

vars == <<file, creds, clients, job, told, spoiled, jobs>>

Threads == {"config", "http"}
Other(w) == IF w = "config" THEN "http" ELSE "config"
Empty == [creds |-> Nil, devices |-> Nil]
At(w, step) == job[w] # Nil /\ job[w].step = step
Replacing(w) == At(w, "open") \/ At(w, "write")
Job(what, user) == [what |-> what, step |-> "read", user |-> user, root |-> Empty]

Init ==
    /\ file = Nil /\ creds = Nil /\ clients = {} /\ job = [w \in Threads |-> Nil]
    /\ told = Nil /\ spoiled = FALSE /\ jobs = 0

Begin(w, what, user) ==
    /\ job[w] = Nil /\ jobs < MaxJobs /\ jobs' = jobs + 1
    /\ job' = [job EXCEPT ![w] = Job(what, user)]
    /\ UNCHANGED <<file, creds, told, spoiled>>

\* savePassword(): of the first user, or of one who gives the name and password in effect.
SavePassword(u, current) ==
    /\ creds \in {Nil, current} /\ Begin("config", "creds", u) /\ UNCHANGED clients
\* unpairAll(), pair()
UnpairAll == creds # Nil /\ Begin("config", "devices", Nil) /\ clients' = {}
Pair(d) == d \notin clients /\ Begin("http", "devices", Nil) /\ clients' = clients \cup {d}

\* save_user_creds() changes three values, save_state() replaces its own part.
RootOfAlone(w) ==
    IF job[w].what = "creds" THEN [Empty EXCEPT !.creds = job[w].user]
                             ELSE [Empty EXCEPT !.devices = clients]
RootOf(w) ==
    LET old == IF file = Nil THEN Empty ELSE file
    IN  IF job[w].what = "creds" THEN [old EXCEPT !.creds = job[w].user]
                                 ELSE [old EXCEPT !.devices = clients]
Rest(w) == IF job[w].what = "creds" THEN [job[w] EXCEPT !.step = "reload"] ELSE Nil

\* What cannot be read is not replaced either.
Read(w) ==
    /\ At(w, "read")
    /\ job' = [job EXCEPT ![w] = IF file = Torn THEN Rest(w)
                                 ELSE [@ EXCEPT !.step = "open", !.root = RootOf(w)]]
    /\ spoiled' = (spoiled \/ Replacing(Other(w)))
    /\ UNCHANGED <<file, creds, clients, told, jobs>>

\* write_json() empties the file first.
Open(w) ==
    /\ At(w, "open") /\ job' = [job EXCEPT ![w].step = "write"] /\ file' = Torn
    /\ UNCHANGED <<creds, clients, told, spoiled, jobs>>
Write(w, whole) ==
    /\ At(w, "write") /\ job' = [job EXCEPT ![w] = Rest(w)]
    /\ file' = IF whole THEN job[w].root ELSE Torn
    /\ spoiled' = (spoiled \/ ~whole)
    /\ UNCHANGED <<creds, clients, told, jobs>>

\* reload_user_creds(): get() throws before it has changed anything; the page says that it
\* is saved in any case.
Held(part) == IF file \in {Nil, Torn} THEN Nil ELSE file[part]
Reload ==
    /\ At("config", "reload") /\ job' = [job EXCEPT !["config"] = Nil]
    /\ creds' = IF Held("creds") = Nil THEN creds ELSE Held("creds")
    /\ told' = job["config"].user
    /\ spoiled' = (spoiled \/ At("http", "write"))
    /\ UNCHANGED <<file, clients, jobs>>

\* The program ends at any time; init() and load_state() of the next start.
Restart ==
    /\ job' = [w \in Threads |-> Nil]
    /\ creds' = Held("creds")
    /\ clients' = IF Held("devices") = Nil THEN {} ELSE Held("devices")
    /\ spoiled' = (spoiled \/ \E w \in Threads : At(w, "write"))
    /\ UNCHANGED <<file, told, jobs>>

Next ==
    \/ \E u \in Users, c \in Users \cup {Nil} : SavePassword(u, c)
    \/ \E d \in Devices : Pair(d)
    \/ \E w \in Threads : Read(w) \/ Open(w) \/ \E whole \in BOOLEAN : Write(w, whole)
    \/ UnpairAll \/ Reload \/ Restart

Spec == Init /\ [][Next]_vars

-----------------------------------------------------------------------------
TypeOK ==
    /\ creds \in Users \cup {Nil} /\ clients \subseteq Devices /\ told \in Users \cup {Nil}
    /\ file \in {Nil, Torn} \cup [creds : Users \cup {Nil}, devices : (SUBSET Devices) \cup {Nil}]

\* savePassword(): the user that a page said is saved is the one in effect, and in the file
\* for the next start, whatever the servers write for their clients before and after.
UserIsKept ==
    ~spoiled /\ job["config"] = Nil /\ told # Nil =>
        /\ creds # Nil
        /\ (\A w \in Threads : ~At(w, "write")) => Held("creds") = creds

\* save_state(): the file names all clients once nobody saves, whoever changed its user.
ClientsAreKept ==
    ~spoiled /\ (\A w \in Threads : job[w] = Nil) =>
        clients = IF Held("devices") = Nil THEN {} ELSE Held("devices")

-----------------------------------------------------------------------------
(* The inductive invariant that the proofs of the properties use.         *)

JobOK ==
    job \in [Threads -> {Nil} \cup [what : {"creds", "devices"}, step : {"read", "open", "write", "reload"},
                                    user : Users \cup {Nil},
                                    root : [creds : Users \cup {Nil}, devices : (SUBSET Devices) \cup {Nil}]]]

\* Only the pages save users, and only they reload.
JobsAreTheirs ==
    \A w \in Threads : job[w] # Nil =>
        /\ job[w].what = "creds" => w = "config" /\ job[w].user # Nil
        /\ job[w].step = "reload" => job[w].what = "creds"

\* While nothing has spoiled the file, the two replace it one after the other, and it is torn
\* in between only; it will be what who replaces it has in mind, or stays as it is.
OneReplaces ==
    /\ ~(Replacing("config") /\ Replacing("http"))
    /\ file = Torn <=> \E w \in Threads : At(w, "write")
Coming ==
    IF Replacing("config") THEN job["config"].root
    ELSE IF Replacing("http") THEN job["http"].root
    ELSE IF file = Nil THEN Empty ELSE file

\* What comes has the user in effect, or the one that is being saved, and the clients, unless
\* somebody is about to save those.
UserIsComing ==
    Coming.creds = IF At("config", "open") \/ At("config", "write") \/ At("config", "reload")
                   THEN IF job["config"].what = "creds" THEN job["config"].user ELSE creds
                   ELSE creds
DevicesAreComing ==
    (\A w \in Threads : At(w, "read") => job[w].what # "devices") =>
        clients = IF Coming.devices = Nil THEN {} ELSE Coming.devices

\* Until who saves clients replaces the file, it has the user that was found there.
UserIsLeft == At("http", "open") => job["http"].root.creds = Held("creds")

FollowsSaves ==
    ~spoiled =>
        /\ OneReplaces /\ UserIsComing /\ DevicesAreComing /\ UserIsLeft
        /\ told # Nil => creds # Nil /\ (file # Torn => Held("creds") # Nil)

IInv == TypeOK /\ JobOK /\ JobsAreTheirs /\ FollowsSaves
=============================================================================
