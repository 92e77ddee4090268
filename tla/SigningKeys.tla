---------------------------- MODULE SigningKeys ----------------------------
(***************************************************************************)
(* Verification of bearer tokens with the signing keys of identity-service *)
(* (apps/authapi/jwks_client.py and authentication.py): the cache of keys  *)
(* that the threads of one process share, its refresh under a lock, and    *)
(* the lookup of a token's key, which reads the cache without the lock.    *)
(*                                                                         *)
(* A document maps key ids to keys.  identity-service publishes one after  *)
(* another; a fetch takes a snapshot that may be old when it is applied.   *)
(* Time passes only while every thread waits or has nothing to do.         *)
(***************************************************************************)
EXTENDS Naturals, FiniteSets, Sequences, Functions, TLC

CONSTANTS
    Threads,
    Documents,   \* the key sets identity-service publishes, in turn: functions from kid to key
    Tokens,      \* [kid, key, valid]: header, signing key, and expiry, audience and claims in order
    TTL,         \* JWKS_CACHE_TTL in ticks
    FetchTime,   \* longest fetch with its retries, in ticks
    Fallback,    \* JWT_HS256_FALLBACK_SECRET is set and allowed
    Secret,      \* the key that HS256 tokens are signed with
    MaxFaults,   \* bound: fetches that fail, after their retries
    None

Keys == UNION {Range(Documents[n]) : n \in 1..Len(Documents)}

\* The shared secret is no public key; None is neither a key nor a key id.
ASSUME SigningKeysAssumption ==
    /\ TTL \in Nat \ {0} /\ FetchTime \in Nat
    /\ Len(Documents) \in Nat \ {0} /\ MaxFaults \in Nat
    /\ Fallback \in BOOLEAN
    /\ None \notin Threads /\ Secret \notin Keys /\ None \notin Keys \cup {Secret}
    /\ \A n \in 1..Len(Documents) : None \notin DOMAIN Documents[n]

VARIABLES
    rotation,   \* which document identity-service publishes now
    keys,       \* _keys
    age,        \* ticks since _fetched_at, up to TTL
    lock,       \* the thread that has _lock, or None
    thread,     \* the request of each thread
    faults,
    gone,       \* history: ticks since each key was last published
    failed,     \* history: the last fetch failed
    refreshes   \* history: documents applied unforced since the cache was last empty or too old

cache == <<keys, age>>
history == <<gone, failed, refreshes>>
vars == <<rotation, cache, lock, thread, faults, history>>

published == Documents[rotation]

Idle == [at |-> "idle"]

\* Longer ago than any bound of a property.
LongAgo == TTL + FetchTime + 1

\* A process starts with an empty cache (get_jwks_client).
Init ==
    /\ rotation = 1
    /\ keys = <<>>
    /\ age = TTL
    /\ lock = None
    /\ thread = [t \in Threads |-> Idle]
    /\ faults = 0
    /\ gone = [k \in Keys |-> IF k \in Range(published) THEN 0 ELSE LongAgo]
    /\ failed = FALSE
    /\ refreshes = 0

Loaded == DOMAIN keys # {}

Goto(t, l) == thread' = [thread EXCEPT ![t].at = l]

\* The request is over: accepted with a key or refused with 401.
Answer(t, key) == thread' = [thread EXCEPT ![t] = [at |-> "answered", token |-> @.token, key |-> key]]

-----------------------------------------------------------------------------
(***************************************************************************)
(* _refresh                                                                *)
(***************************************************************************)
Fresh == Loaded /\ age < TTL

\* The document has the key that the token names and is signed with.
Has(document, token) ==
    token.kid \in DOMAIN document /\ document[token.kid] = token.key

\* A request; document is the one it has fetched, or 0.  The last two fields are
\* history: it began with its kid in a cache in date; its key is published all
\* along and no fetch of it failed.
NewRequest(token, at) ==
    [at |-> at, token |-> token, force |-> FALSE, wait |-> 0, document |-> 0,
     quick |-> Fresh /\ token.kid \in DOMAIN keys,
     entitled |-> token.valid /\ Has(published, token)]

\* Mutation: the cache is only looked at under the lock.
AlwaysLock(t, token) ==
    /\ thread[t] = Idle
    /\ thread' = [thread EXCEPT ![t] = NewRequest(token, "lock")]
    /\ UNCHANGED <<rotation, cache, lock, faults, history>>

\* authenticate, get_signing_key: the first check of the cache, without the lock.
Authenticate(t, token) ==
    /\ thread[t] = Idle
    /\ thread' = [thread EXCEPT ![t] = NewRequest(token, IF Fresh THEN "lookup" ELSE "lock")]
    /\ UNCHANGED <<rotation, cache, lock, faults, history>>

After(t) == IF thread[t].force THEN "last_lookup" ELSE "lookup"

\* Mutation: the cache is not checked again under the lock.
CheckOnce(t) ==
    /\ thread[t].at = "lock" /\ lock = None
    /\ lock' = t
    /\ Goto(t, "fetch")
    /\ UNCHANGED <<rotation, cache, faults, history>>

\* The check is made again under the lock, except for a forced refresh.
Acquire(t) ==
    /\ thread[t].at = "lock" /\ lock = None
    /\ IF ~thread[t].force /\ Fresh
       THEN Goto(t, "lookup") /\ UNCHANGED lock
       ELSE Goto(t, "fetch") /\ lock' = t
    /\ UNCHANGED <<rotation, cache, faults, history>>

\* _fetch_document: identity-service answers with what it publishes now.
Fetch(t) ==
    /\ thread[t].at = "fetch"
    /\ thread' = [thread EXCEPT ![t].at = "apply", ![t].document = rotation]
    /\ UNCHANGED <<rotation, cache, lock, faults, history>>

\* Every attempt failed: the keys that are cached go on to be used.
FetchFails(t) ==
    /\ thread[t].at = "fetch"
    /\ faults < MaxFaults
    /\ faults' = faults + 1
    /\ thread' = [thread EXCEPT ![t].at = IF Loaded THEN After(t) ELSE "fallback",
                                ![t].entitled = FALSE, ![t].wait = 0]
    /\ lock' = None
    /\ failed' = TRUE
    /\ UNCHANGED <<rotation, cache, gone, refreshes>>

\* Mutation: new keys are added to the old ones.
Merged(n) == Documents[n] @@ keys

\* The document replaces what was cached.
Parsed(n) == Documents[n]

\* The keys, and then the time: a thread that sees the new keys with the old time
\* only checks again under the lock.
apply_document(t) ==
    LET r == thread[t]
    IN  /\ r.at = "apply"
        /\ keys' = Parsed(r.document)
        /\ age' = 0
        /\ lock' = None
        /\ thread' = [thread EXCEPT ![t].at = After(t), ![t].wait = 0, ![t].document = 0]
        /\ failed' = FALSE
        /\ refreshes' = IF DOMAIN Parsed(r.document) = {} THEN 0
                        ELSE IF r.force THEN refreshes ELSE refreshes + 1
        /\ UNCHANGED <<rotation, faults, gone>>

-----------------------------------------------------------------------------
(***************************************************************************)
(* get_signing_key                                                         *)
(***************************************************************************)
\* Mutation: an unknown kid falls back to the only key.
AnyOnlyKey(t) ==
    LET kid == thread[t].token.kid
    IN  /\ thread[t].at \in {"lookup", "last_lookup"}
        /\ \/ kid \in DOMAIN keys /\ Goto(t, "take")
           \/ kid \notin DOMAIN keys /\ Cardinality(DOMAIN keys) = 1 /\ Goto(t, "take_only")
           \/ kid \notin DOMAIN keys /\ Cardinality(DOMAIN keys) # 1 /\ Goto(t, "fallback")
        /\ UNCHANGED <<rotation, cache, lock, faults, history>>

\* Mutation: an unknown kid is refused at once.
NeverForce(t) ==
    LET kid == thread[t].token.kid
    IN  /\ thread[t].at = "lookup"
        /\ \/ kid # None /\ Goto(t, IF kid \in DOMAIN keys THEN "take" ELSE "fallback")
           \/ kid = None /\ Goto(t, IF Cardinality(DOMAIN keys) = 1 THEN "take_only" ELSE "fallback")
        /\ UNCHANGED <<rotation, cache, lock, faults, history>>

\* Is the kid cached?  If not, one forced refresh; then the token is refused.
\* A token without a kid may use the only key there is.
Lookup(t) ==
    LET kid == thread[t].token.kid
        at == thread[t].at
    IN  /\ at \in {"lookup", "last_lookup"}
        /\ \/ kid # None /\ kid \in DOMAIN keys /\ Goto(t, "take")
           \/ /\ kid # None /\ kid \notin DOMAIN keys /\ at = "lookup"
              /\ thread' = [thread EXCEPT ![t].at = "lock", ![t].force = TRUE]
           \/ kid # None /\ kid \notin DOMAIN keys /\ at = "last_lookup" /\ Goto(t, "fallback")
           \/ kid = None /\ Goto(t, IF Cardinality(DOMAIN keys) = 1 THEN "take_only" ELSE "fallback")
        /\ UNCHANGED <<rotation, cache, lock, faults, history>>

\* _decode_token: the signature, then expiry, audience, issuer and claims.
Verify(t, key) ==
    IF key = thread[t].token.key
    THEN Answer(t, IF thread[t].token.valid THEN key ELSE None)
    ELSE Goto(t, "fallback")

\* self._keys is read a second time: the kid may have gone (KeyError).
Take(t) ==
    LET kid == thread[t].token.kid
    IN  /\ thread[t].at = "take"
        /\ IF kid \in DOMAIN keys THEN Verify(t, keys[kid]) ELSE Goto(t, "fallback")
        /\ UNCHANGED <<rotation, cache, lock, faults, history>>

\* ... or be another one.
TakeOnly(t) ==
    /\ thread[t].at = "take_only"
    /\ IF Loaded THEN \E k \in Range(keys) : Verify(t, k) ELSE Goto(t, "fallback")
    /\ UNCHANGED <<rotation, cache, lock, faults, history>>

\* HS256 with the shared secret, where that is allowed; otherwise 401.
TryFallback(t) ==
    LET token == thread[t].token
    IN  /\ thread[t].at = "fallback"
        /\ Answer(t, IF Fallback /\ token.key = Secret /\ token.valid THEN Secret ELSE None)
        /\ UNCHANGED <<rotation, cache, lock, faults, history>>

Respond(t) ==
    /\ thread[t].at = "answered"
    /\ thread' = [thread EXCEPT ![t] = Idle]
    /\ UNCHANGED <<rotation, cache, lock, faults, history>>

-----------------------------------------------------------------------------
(***************************************************************************)
(* identity-service and time                                               *)
(***************************************************************************)
Rotate ==
    /\ rotation < Len(Documents)
    /\ rotation' = rotation + 1
    /\ gone' = [k \in Keys |-> IF k \in Range(Documents[rotation + 1]) THEN 0 ELSE gone[k]]
    /\ thread' = [t \in Threads |->
          IF thread[t].at \notin {"idle", "answered"}
          THEN [thread[t] EXCEPT !.entitled = @ /\ Has(Documents[rotation + 1], thread[t].token)]
          ELSE thread[t]]
    /\ UNCHANGED <<cache, lock, faults, failed, refreshes>>

\* A fetch, with its retries and its transfer, is over after FetchTime ticks.
Waiting(t) ==
    \/ thread[t].at = "idle"
    \/ thread[t].at = "lock" /\ lock # None
    \/ thread[t].at \in {"fetch", "apply"} /\ thread[t].wait < FetchTime

Tick ==
    /\ \A t \in Threads : Waiting(t)
    /\ age' = IF age < TTL THEN age + 1 ELSE TTL
    /\ refreshes' = IF age' = TTL THEN 0 ELSE refreshes
    /\ gone' = [k \in Keys |-> IF k \in Range(published) THEN 0
                              ELSE IF gone[k] = LongAgo THEN LongAgo ELSE gone[k] + 1]
    /\ thread' = [t \in Threads |-> IF thread[t].at \in {"fetch", "apply"}
                                   THEN [thread[t] EXCEPT !.wait = @ + 1] ELSE thread[t]]
    /\ UNCHANGED <<rotation, keys, lock, faults, failed>>

-----------------------------------------------------------------------------
Step(t) == Acquire(t) \/ Lookup(t) \/ Take(t) \/ TakeOnly(t) \/ TryFallback(t) \/ Respond(t)

Next ==
    \/ \E t \in Threads :
        \/ \E token \in Tokens : Authenticate(t, token)
        \/ Fetch(t) \/ FetchFails(t) \/ apply_document(t) \/ Step(t)
    \/ Rotate \/ Tick

\* Threads run; identity-service need not answer a fetch.
Fairness == \A t \in Threads : WF_vars(Step(t))

Spec == Init /\ [][Next]_vars /\ Fairness

-----------------------------------------------------------------------------
(***************************************************************************)
(* Properties                                                              *)
(***************************************************************************)
\* The step answers the request of thread t.
Answers(t) == thread[t].at # "answered" /\ thread'[t].at = "answered"

Requests ==
    [at : {"lookup", "lock", "fetch", "apply", "last_lookup", "take", "take_only", "fallback"},
     token : Tokens, force : BOOLEAN, wait : 0..FetchTime, document : Nat, quick : BOOLEAN,
     entitled : BOOLEAN]

Answered == [at : {"answered"}, token : Tokens, key : Keys \cup {Secret, None}]

\* Types; the cache holds a document that was published, and the thread that has
\* the lock is the one that fetches.
TypeOK ==
    /\ rotation \in 1..Len(Documents)
    /\ keys \in {<<>>} \cup {Documents[n] : n \in 1..rotation}
    /\ age \in 0..TTL
    /\ lock \in Threads \cup {None}
    /\ thread \in [Threads -> {Idle} \cup Requests \cup Answered]
    /\ \A t \in Threads : thread[t].at \in {"fetch", "apply"} <=> lock = t
    /\ gone \in [Keys -> 0..LongAgo]
    /\ faults \in 0..MaxFaults
    /\ failed \in BOOLEAN /\ refreshes \in Nat

\* A token that names a kid is accepted only with a key that identity-service
\* published under that kid, whichever documents replace each other between
\* the reads of the cache; a secret is accepted only where that is configured.
KeyOfKid ==
    \A t \in Threads : thread[t].at = "answered" /\ thread[t].key # None =>
        LET kid == thread[t].token.kid
        IN  IF thread[t].key = Secret THEN Fallback
            ELSE kid # None => \E n \in 1..rotation :
                     kid \in DOMAIN Documents[n] /\ Documents[n][kid] = thread[t].key

\* A key that identity-service has withdrawn is accepted no longer than the TTL
\* and one fetch, unless the last fetch failed.
WithdrawnKeysExpire ==
    [][\A t \in Threads : Answers(t) /\ thread'[t].key \in Keys /\ ~failed =>
        gone[thread'[t].key] =< TTL + FetchTime]_vars

\* A valid token whose key is published from the start of its request to the
\* end is accepted, also during a rotation and from any state of the cache,
\* unless a fetch of that request failed.
PublishedKeysAccepted ==
    [][\A t \in Threads : Answers(t) /\ thread[t].entitled =>
        thread'[t].key = thread[t].token.key]_vars

\* However many threads find the cache too old at once, one of them loads it.
OneRefresh == refreshes =< 1

\* A request whose key is cached and in date is answered even if the fetch of
\* another thread never ends.
CachedKeysDontWait ==
    \A t \in Threads :
        thread[t].at \notin {"idle", "answered"} /\ thread[t].quick
            ~> thread[t].at \in {"idle", "answered"} \/ thread[t].token.kid \notin DOMAIN keys

=============================================================================
