-------------------------------- MODULE Mail --------------------------------
(***************************************************************************)
(* mail_raw_t of src/sunshine/thread_safe.h: events and queues that        *)
(* threads find by a name.  A post exists as long as somebody refers to    *)
(* it; the mailbox has a weak pointer.  When the last reference goes the   *)
(* pointer expires at once, and the destructor of the post then erases     *)
(* the first expired entry it finds, which may be that of another post.    *)
(* In between, whoever asks for the name gets a null pointer.              *)
(***************************************************************************)
EXTENDS Naturals, FiniteSets, Sequences

CONSTANTS
    Users,      \* threads
    Ids,        \* the names, in the order of the map
    Nil,        \* a null pointer
    MaxPosts    \* posts that are created (a bound on the histories)

VARIABLES
    entry,      \* id_to_post: the number of the post of each name, or Nil
    held,       \* the post each user refers to, or Nil
    dying,      \* posts whose destructor has not called cleanup() yet
    nameOf,     \* the names of the posts that were created, by number
    null        \* users that got a null pointer

vars == <<entry, held, dying, nameOf, null>>

Names == {Ids[i] : i \in DOMAIN Ids}
Posts == DOMAIN nameOf
Holders(p) == {u \in Users : held[u] = p}
Expired(p) == p \in Posts /\ Holders(p) = {}

TypeOK ==
    /\ nameOf \in Seq(Names) /\ Len(nameOf) <= MaxPosts
    /\ entry \in [Names -> Posts \cup {Nil}]
    /\ held \in [Users -> Posts \cup {Nil}]
    /\ dying \subseteq Posts /\ null \subseteq Users

Init ==
    /\ entry = [id \in Names |-> Nil] /\ held = [u \in Users |-> Nil]
    /\ dying = {} /\ nameOf = <<>> /\ null = {}

-----------------------------------------------------------------------------
(* The conditions and updates a bug would get wrong.                       *)

\* cleanup() erases the first entry whose pointer has expired.
FirstOf(S) == {Ids[i] : i \in {j \in DOMAIN Ids :
                 Ids[j] \in S /\ \A k \in 1..(j - 1) : Ids[k] \notin S}}
Erased(p) == FirstOf({id \in Names : Expired(entry[id])})

\* event(), queue(): only a name that has no entry gets a new post.
IsMissing(id) == entry[id] = Nil

\* What a user gets of an entry: weak_ptr::lock()
Locked(id) == IF Expired(entry[id]) THEN Nil ELSE entry[id]

-----------------------------------------------------------------------------
Create(u, id) ==
    /\ held[u] = Nil /\ IsMissing(id) /\ Len(nameOf) < MaxPosts
    /\ nameOf' = Append(nameOf, id)
    /\ entry' = [entry EXCEPT ![id] = Len(nameOf')]
    /\ held' = [held EXCEPT ![u] = Len(nameOf')]
    /\ null' = null \ {u}
    /\ UNCHANGED dying

Find(u, id) ==
    /\ held[u] = Nil /\ ~IsMissing(id)
    /\ held' = [held EXCEPT ![u] = Locked(id)]
    /\ null' = IF Locked(id) = Nil THEN null \cup {u} ELSE null \ {u}
    /\ UNCHANGED <<entry, dying, nameOf>>

\* A reference is dropped, and with the last one the post is destroyed.
Drop(u) ==
    /\ held[u] # Nil /\ held' = [held EXCEPT ![u] = Nil]
    /\ dying' = IF Holders(held[u]) = {u} THEN dying \cup {held[u]} ELSE dying
    /\ UNCHANGED <<entry, nameOf, null>>

\* ~post_t: cleanup()
Cleanup(p) ==
    /\ p \in dying /\ dying' = dying \ {p}
    /\ entry' = [id \in Names |-> IF id \in Erased(p) THEN Nil ELSE entry[id]]
    /\ UNCHANGED <<held, nameOf, null>>

Next ==
    \/ \E u \in Users : Drop(u) \/ \E id \in Names : Create(u, id) \/ Find(u, id)
    \/ \E p \in Posts : Cleanup(p)

Spec == Init /\ [][Next]_vars

-----------------------------------------------------------------------------
(* Properties.                                                             *)

\* All who refer to a post of a name refer to the same one, which is the one that
\* others will find: nobody waits for an event that nobody else can raise.
OnePostPerName ==
    \A u \in Users : held[u] # Nil => entry[nameOf[held[u]]] = held[u]

\* Every expired entry is erased in the end: there is a destructor for each, although
\* a destructor may erase the entry of another post.
ExpiredEntriesAreErased ==
    Cardinality({id \in Names : Expired(entry[id])}) <= Cardinality(dying)

\* A null pointer is given only while a destructor has not finished.
NullWhileDying == \A u \in null' \ null : dying # {}
NullOnlyWhileDying == [][NullWhileDying]_vars

-----------------------------------------------------------------------------
(* The inductive invariant that the proofs of the properties use.         *)

\* An entry has the last post that was created for its name; a post that is being destroyed
\* has no user, and its number is not given again.
EntriesAreNamed ==
    /\ \A id \in Names : entry[id] # Nil => nameOf[entry[id]] = id
    /\ \A p \in dying : Holders(p) = {}

IInv == TypeOK /\ EntriesAreNamed /\ OnePostPerName /\ ExpiredEntriesAreErased
=============================================================================
