----------------------------- MODULE ShareLinks -----------------------------
(***************************************************************************)
(* Share links of objects (apps/storage/shares.py): creation, revocation   *)
(* and redemption, against the deletion of the objects behind them.        *)
(*                                                                         *)
(* Rows are locked as PostgreSQL does in READ COMMITTED: SELECT FOR UPDATE *)
(* with its joins takes the link, then the object; obj.delete() cascades   *)
(* in Django, links first, then the object; foreign keys are deferred to   *)
(* the commit.  Who may create or revoke is decided in module Access.      *)
(***************************************************************************)
EXTENDS Naturals, FiniteSets

CONSTANTS
    Procs,        \* requests at one time
    Objects,      \* objects that exist at the start
    Links,        \* tokens, as many as links are created
    Caps,         \* values of max_downloads, None for no cap
    Expiries,     \* values of expires_at, None for no expiry
    MaxTime,      \* bound: clock readings
    MaxRequests,  \* bound: requests in a behaviour
    None

ASSUME ShareLinksAssumption ==
    /\ MaxTime \in Nat /\ MaxRequests \in Nat
    /\ None \notin Procs \cup Objects \cup Links \cup Nat
    /\ Caps \subseteq (Nat \ {0}) \cup {None}
    /\ Expiries \subseteq 1..MaxTime \cup {None}

VARIABLES
    link,      \* ObjectShareLink rows: link[l] is a record, None if there is no such row
    obj,       \* StorageObject rows: the objects that have one
    blob,      \* the objects whose bytes are in the blob store
    linkLock,  \* who has locked the link's row
    objLock,   \* who has locked the object's row
    proc,      \* what each request is about to do
    now,
    asked,     \* requests so far
    granted,   \* history: redemptions that committed, by link
    torn       \* history: objects whose deletion was rolled back without their bytes

rows == <<link, obj, blob>>
locks == <<linkLock, objLock>>
vars == <<rows, locks, proc, now, asked, granted, torn>>

Idle == [at |-> "idle"]

Init ==
    /\ link = [l \in Links |-> None]
    /\ obj = Objects
    /\ blob = Objects
    /\ linkLock = [l \in Links |-> None]
    /\ objLock = [o \in Objects |-> None]
    /\ proc = [p \in Procs |-> Idle]
    /\ now = 0
    /\ asked = 0
    /\ granted = [l \in Links |-> 0]
    /\ torn = {}

LiveLinks == {l \in Links : link[l] # None}

LinksOf(o) == {l \in LiveLinks : link[l].object = o}

\* Mutation: one download more than the cap.
ActiveAtCap(l) ==
    /\ ~link[l].revoked
    /\ link[l].expires_at # None => now < link[l].expires_at
    /\ link[l].max_downloads # None => link[l].download_count =< link[l].max_downloads

\* is_active, without the cap and the expiry that the link does not have.
is_active(l) ==
    /\ ~link[l].revoked
    /\ link[l].expires_at # None => now < link[l].expires_at
    /\ link[l].max_downloads # None => link[l].download_count < link[l].max_downloads

Goto(p, next) == proc' = [proc EXCEPT ![p] = next]

Ask(p, next) ==
    /\ proc[p] = Idle
    /\ asked < MaxRequests
    /\ asked' = asked + 1
    /\ Goto(p, next)
    /\ UNCHANGED <<rows, locks, now, granted, torn>>

\* The transaction ends: whatever it had locked is free.
Free(lock, p) == [r \in DOMAIN lock |-> IF lock[r] = p THEN None ELSE lock[r]]

End(p, next) ==
    /\ Goto(p, next)
    /\ linkLock' = Free(linkLock, p)
    /\ objLock' = Free(objLock, p)

-----------------------------------------------------------------------------
(***************************************************************************)
(* create_share_link                                                       *)
(***************************************************************************)
\* Tokens are drawn at random, so none that any request knows is drawn again.
Token(l) ==
    /\ l \notin LiveLinks /\ granted[l] = 0
    /\ \A p \in Procs : "link" \in DOMAIN proc[p] => proc[p].link # l

\* The bound on Links: one is left for every request about to create one.
Room ==
    Cardinality({p \in Procs : proc[p].at = "insert"}) < Cardinality({l \in Links : Token(l)})

\* Validation, up to the object and the limits that were asked for.
CheckCreate(p, o, cap, expiry) ==
    /\ Room
    /\ o \in obj
    /\ cap # None \/ expiry # None
    /\ expiry # None => expiry > now
    /\ Ask(p, [at |-> "insert", object |-> o, cap |-> cap, expiry |-> expiry])

NewLink(request) ==
    [object |-> request.object, max_downloads |-> request.cap, expires_at |-> request.expiry,
     download_count |-> 0, revoked |-> FALSE]

\* The foreign key waits for whoever has locked the object.
ForeignKeyFree(o) == objLock[o] = None

\* INSERT and commit; the object may be gone.
Insert(p) ==
    /\ proc[p].at = "insert"
    /\ ForeignKeyFree(proc[p].object)
    /\ \/ /\ proc[p].object \in obj
          /\ \E l \in {k \in Links : Token(k)} : link' = [link EXCEPT ![l] = NewLink(proc[p])]
       \/ proc[p].object \notin obj /\ UNCHANGED link
    /\ Goto(p, Idle)
    /\ UNCHANGED <<obj, blob, locks, now, asked, granted, torn>>

-----------------------------------------------------------------------------
(***************************************************************************)
(* revoke_share_link                                                       *)
(***************************************************************************)
\* The link is read without a lock; a revoked one is left as it is.
ReadRevoke(p, l) ==
    /\ ~link[l].revoked
    /\ Ask(p, [at |-> "revoke", link |-> l])

\* save(update_fields=['revoked_at']); an error if the row is gone by then.
Revoke(p) ==
    LET l == proc[p].link
    IN  /\ proc[p].at = "revoke"
        /\ linkLock[l] = None
        /\ link' = IF l \in LiveLinks THEN [link EXCEPT ![l].revoked = TRUE] ELSE link
        /\ Goto(p, Idle)
        /\ UNCHANGED <<obj, blob, locks, now, asked, granted, torn>>

-----------------------------------------------------------------------------
(***************************************************************************)
(* redeem_share_link                                                       *)
(***************************************************************************)
Redeem(p, l) == Ask(p, [at |-> "lock_link", link |-> l])

\* Mutation: the link is read without FOR UPDATE.
ReadLink(p) ==
    LET l == proc[p].link
    IN  /\ proc[p].at = "lock_link"
        /\ Goto(p, IF l \in LiveLinks THEN [proc[p] EXCEPT !.at = "lock_object"] ELSE Idle)
        /\ UNCHANGED <<rows, locks, now, asked, granted, torn>>

\* SELECT ... FOR UPDATE takes the link's row first; 404 if it is gone.
LockLink(p) ==
    LET l == proc[p].link
    IN  /\ proc[p].at = "lock_link"
        /\ linkLock[l] = None
        /\ IF l \in LiveLinks
           THEN /\ linkLock' = [linkLock EXCEPT ![l] = p]
                /\ Goto(p, [proc[p] EXCEPT !.at = "lock_object"])
           ELSE UNCHANGED linkLock /\ Goto(p, Idle)
        /\ UNCHANGED <<rows, objLock, now, asked, granted, torn>>

\* ... and then the object's, joined by select_related.
LockObject(p) ==
    LET o == link[proc[p].link].object
    IN  /\ proc[p].at = "lock_object"
        /\ objLock[o] = None
        /\ IF o \in obj
           THEN /\ objLock' = [objLock EXCEPT ![o] = p]
                /\ Goto(p, [proc[p] EXCEPT !.at = "validate"])
                /\ UNCHANGED linkLock
           ELSE End(p, Idle)
        /\ UNCHANGED <<rows, now, asked, granted, torn>>

\* 410 unless the link is active.
Validate(p) ==
    /\ proc[p].at = "validate"
    /\ IF is_active(proc[p].link)
       THEN Goto(p, [proc[p] EXCEPT !.at = "consume"]) /\ UNCHANGED locks
       ELSE End(p, Idle)
    /\ UNCHANGED <<rows, now, asked, granted, torn>>

\* F('download_count') + 1, last_accessed_at and the commit.
Consume(p) ==
    LET l == proc[p].link
    IN  /\ proc[p].at = "consume"
        /\ link' = [link EXCEPT ![l].download_count = @ + 1]
        /\ granted' = [granted EXCEPT ![l] = @ + 1]
        /\ End(p, [at |-> "download", link |-> l, object |-> link[l].object])
        /\ UNCHANGED <<obj, blob, now, asked, torn>>

\* build_download_response, after the commit: the object may be gone.
Download(p) ==
    /\ proc[p].at = "download"
    /\ Goto(p, Idle)
    /\ UNCHANGED <<rows, locks, now, asked, granted, torn>>

-----------------------------------------------------------------------------
(***************************************************************************)
(* delete_object                                                           *)
(***************************************************************************)
Delete(p, o) ==
    /\ o \in obj
    /\ Ask(p, [at |-> "cascade", object |-> o, links |-> {}, found |-> FALSE])

\* DELETE of the links by request p.
DeleteLinks(p) ==
    /\ \A l \in LinksOf(proc[p].object) : linkLock[l] = None
    /\ linkLock' = [l \in Links |-> IF l \in LinksOf(proc[p].object) THEN p ELSE linkLock[l]]
    /\ Goto(p, [proc[p] EXCEPT !.at = "delete_row", !.links = LinksOf(proc[p].object)])

\* Mutation: the bytes go before the rows.
BlobFirst(p) ==
    /\ proc[p].at = "cascade"
    /\ blob' = blob \ {proc[p].object}
    /\ DeleteLinks(p)
    /\ UNCHANGED <<link, obj, objLock, now, asked, granted, torn>>

\* Mutation: the object is locked before its links.
ObjectFirst(p) ==
    LET o == proc[p].object
    IN  /\ proc[p].at = "cascade"
        /\ \/ objLock[o] = None /\ objLock' = [objLock EXCEPT ![o] = p] /\ UNCHANGED <<linkLock, proc>>
           \/ objLock[o] = p /\ DeleteLinks(p) /\ UNCHANGED objLock
        /\ UNCHANGED <<rows, now, asked, granted, torn>>

\* Django's cascade comes first: it waits for links that are locked.
Cascade(p) ==
    /\ proc[p].at = "cascade"
    /\ DeleteLinks(p)
    /\ UNCHANGED <<rows, objLock, now, asked, granted, torn>>

\* DELETE of the object; another request may have deleted it.
DeleteRow(p) ==
    LET o == proc[p].object
    IN  /\ proc[p].at = "delete_row"
        /\ objLock[o] \in {None, p}
        /\ objLock' = IF o \in obj THEN [objLock EXCEPT ![o] = p] ELSE objLock
        /\ Goto(p, [proc[p] EXCEPT !.at = "delete_blob", !.found = o \in obj])
        /\ UNCHANGED <<rows, linkLock, now, asked, granted, torn>>

\* delete_storage_key, whether or not there was a row to delete.
DeleteBlob(p) ==
    /\ proc[p].at = "delete_blob"
    /\ blob' = blob \ {proc[p].object}
    /\ Goto(p, [proc[p] EXCEPT !.at = "commit"])
    /\ UNCHANGED <<link, obj, locks, now, asked, granted, torn>>

\* Mutation: the foreign key is not checked when the object goes.
Unchecked(p) == {}

\* Links that were created since the cascade.
StillReferencing(p) == LinksOf(proc[p].object) \ proc[p].links

\* The deferred foreign key: a link that was created after the cascade stops
\* the deletion, and the transaction is rolled back.
Commit(p) ==
    LET o == proc[p].object
    IN  /\ proc[p].at = "commit"
        /\ IF proc[p].found /\ StillReferencing(p) # {}
           THEN torn' = torn \cup {o} /\ UNCHANGED <<obj, link>>
           ELSE /\ obj' = obj \ {o}
                /\ link' = [l \in Links |-> IF l \in proc[p].links THEN None ELSE link[l]]
                /\ UNCHANGED torn
        /\ End(p, Idle)
        /\ UNCHANGED <<blob, now, asked, granted>>

Tick ==
    /\ now < MaxTime
    /\ now' = now + 1
    /\ UNCHANGED <<rows, locks, proc, asked, granted, torn>>

-----------------------------------------------------------------------------
Step(p) ==
    \/ Insert(p) \/ Revoke(p)
    \/ LockLink(p) \/ LockObject(p) \/ Validate(p) \/ Consume(p) \/ Download(p)
    \/ Cascade(p) \/ DeleteRow(p) \/ DeleteBlob(p) \/ Commit(p)

Request(p) ==
    \/ \E o \in Objects, cap \in Caps, expiry \in Expiries : CheckCreate(p, o, cap, expiry)
    \/ \E l \in LiveLinks : ReadRevoke(p, l) \/ Redeem(p, l)
    \/ \E o \in Objects : Delete(p, o)

Next == Tick \/ \E p \in Procs : Step(p) \/ Request(p)

\* A request that can go on does so; it need not get a row lock that others
\* take again and again.
Fairness == \A p \in Procs : WF_vars(Step(p))

Spec == Init /\ [][Next]_vars /\ Fairness

-----------------------------------------------------------------------------
(***************************************************************************)
(* Properties                                                              *)
(***************************************************************************)
LinkRows ==
    [object : Objects, max_downloads : Caps, expires_at : Expiries,
     download_count : Nat, revoked : BOOLEAN]

\* The local variables of a request, by what it is about to do.
Creating == [at : {"insert"}, object : Objects, cap : Caps, expiry : Expiries]
Using == [at : {"revoke", "lock_link", "lock_object", "validate", "consume"}, link : Links]
Serving == [at : {"download"}, link : Links, object : Objects]
Deleting ==
    [at : {"cascade", "delete_row", "delete_blob", "commit"}, object : Objects,
     links : SUBSET Links, found : BOOLEAN]

\* The types of all the state.
TypeOK ==
    /\ link \in [Links -> LinkRows \cup {None}]
    /\ obj \subseteq Objects /\ blob \subseteq Objects /\ torn \subseteq Objects
    /\ linkLock \in [Links -> Procs \cup {None}]
    /\ objLock \in [Objects -> Procs \cup {None}]
    /\ proc \in [Procs -> {Idle} \cup Creating \cup Using \cup Serving \cup Deleting]
    /\ now \in 0..MaxTime /\ asked \in 0..MaxRequests
    /\ granted \in [Links -> Nat]

\* Every redemption that was let through is counted, and there are never more
\* of them than max_downloads, however many arrive at once (redeem_share_link).
DownloadsCapped ==
    \A l \in LiveLinks :
        /\ link[l].download_count = granted[l]
        /\ link[l].max_downloads # None => granted[l] =< link[l].max_downloads

\* No redemption gets through after revoke_share_link has returned.
RevokedStaysDead ==
    [][\A l \in LiveLinks : granted[l]' # granted[l] => ~link[l].revoked]_vars

\* The foreign key: a link's object has a row, whatever deletes race with
\* creations (ObjectShareLink.object).
LinksHaveObjects == \A l \in LiveLinks : link[l].object \in obj

\* A redemption that gets through finds the bytes of its object in the blob
\* store, also while the object is being deleted, unless an earlier deletion
\* of it was rolled back after its bytes had gone (delete_object).
RedeemedHasBytes ==
    [][\A l \in LiveLinks : granted[l]' # granted[l] => link[l].object \in blob \cup torn]_vars

\* Every request ends: redemptions and deletes lock links before objects, so
\* they never wait for each other in a circle.
RequestsEnd == \A p \in Procs : proc[p] # Idle ~> proc[p] = Idle

=============================================================================
