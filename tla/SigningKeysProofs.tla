-------------------------- MODULE SigningKeysProofs --------------------------
(***************************************************************************)
(* Proofs about SigningKeys for any number of threads, any keys and any    *)
(* rotation of them: which keys are accepted, for how long, and how often  *)
(* the cache is loaded.                                                    *)
(***************************************************************************)
EXTENDS SigningKeys, TLAPS

(***************************************************************************)
(* The inductive invariant                                                 *)
(***************************************************************************)

Reading == {"lookup", "last_lookup", "take", "take_only"}

Open(t) == thread[t].at \notin {"idle", "answered"}

\* Only a token without a kid takes the only key.
OnlyKey == \A t \in Threads : thread[t].at = "take_only" => thread[t].token.kid = None

\* A load that was not forced began with a cache that was too old, and nobody
\* else loads it meanwhile; what is loaded counts until it is too old.
Loads ==
    /\ refreshes > 0 => Fresh
    /\ \A t \in Threads : thread[t].at \in {"fetch", "apply"} /\ ~thread[t].force => refreshes = 0

\* A fetched document was published when the request began to wait for it.
Fetched ==
    \A t \in Threads : thread[t].at = "apply" =>
        /\ thread[t].document \in 1..rotation
        /\ \A k \in Range(Documents[thread[t].document]) : gone[k] =< thread[t].wait

\* Keys that are in date were published a fetch before they were loaded.
InDate ==
    /\ \A k \in Range(published) : gone[k] = 0
    /\ age < TTL => \A k \in Range(keys) : gone[k] =< age + FetchTime
    /\ \A t \in Threads : thread[t].at \in Reading => age < TTL \/ failed

IInv == TypeOK /\ OnlyKey /\ KeyOfKid /\ Loads /\ OneRefresh /\ Fetched /\ InDate

\* Documents are applied in the order in which they were published.
InOrder ==
    DOMAIN keys = {} \/ \E m \in 1..rotation :
        /\ keys = Documents[m]
        /\ \A t \in Threads : thread[t].at = "apply" => m =< thread[t].document

\* A request that is entitled to an answer finds its key once it has looked it up
\* or had it fetched.
Entitled ==
    \A t \in Threads : Open(t) /\ thread[t].entitled =>
        /\ thread[t].token.valid /\ Has(published, thread[t].token)
        /\ thread[t].at # "fallback"
        /\ thread[t].at \in {"last_lookup", "take"} => Has(keys, thread[t].token)
        /\ thread[t].at = "apply" /\ thread[t].force => Has(Documents[thread[t].document], thread[t].token)

RotationInv == InOrder /\ Entitled

\* identity-service gives a kid to one key only and publishes a key without a break.
KeysPublishedOnce ==
    \A m, n \in 1..Len(Documents) :
        /\ \A kid \in DOMAIN Documents[m] \cap DOMAIN Documents[n] : Documents[m][kid] = Documents[n][kid]
        /\ \A l \in m..n : DOMAIN Documents[m] \cap DOMAIN Documents[n] \subseteq DOMAIN Documents[l]

(***************************************************************************)
(* Helpers                                                                 *)
(***************************************************************************)

\* What is published, fetched or cached is a key.
LEMMA RangeKeys ==
    ASSUME NEW n \in 1..Len(Documents)
    PROVE  /\ Range(Documents[n]) \subseteq Keys
           /\ \A kid \in DOMAIN Documents[n] : Documents[n][kid] \in Keys
           /\ \A kid \in DOMAIN Documents[n] : Documents[n][kid] \in Range(Documents[n])
BY DEF Keys, Range

\* The cache holds keys that were published under their kids.
LEMMA CachedKeys ==
    ASSUME TypeOK
    PROVE  /\ Range(keys) \subseteq Keys
           /\ \A kid \in DOMAIN keys :
                /\ keys[kid] \in Range(keys)
                /\ \E n \in 1..rotation : kid \in DOMAIN Documents[n] /\ Documents[n][kid] = keys[kid]
<1>1. CASE keys = <<>> BY <1>1 DEF Range
<1>2. CASE keys # <<>>
  <2>1. PICK n \in 1..rotation : keys = Documents[n] BY <1>2 DEF TypeOK
  <2>2. n \in 1..Len(Documents) BY SigningKeysAssumption DEF TypeOK
  <2> QED BY <2>1, <2>2, RangeKeys
<1> QED BY <1>1, <1>2

\* What the new record of thread t has to satisfy in a step that is its own.
Kept(t, v) ==
    /\ v.at \in {"fetch", "apply"} <=> lock' = t
    /\ v.at = "take_only" => v.token.kid = None
    /\ v.at = "answered" /\ v.key # None =>
        IF v.key = Secret THEN Fallback
        ELSE v.token.kid # None => \E n \in 1..rotation :
                 v.token.kid \in DOMAIN Documents[n] /\ Documents[n][v.token.kid] = v.key
    /\ v.at \in {"fetch", "apply"} /\ ~v.force => refreshes = 0
    /\ v.at = "apply" =>
        /\ v.document \in 1..rotation
        /\ \A k \in Range(Documents[v.document]) : gone[k] =< v.wait
    /\ v.at \in Reading => age < TTL \/ failed'

\* A step of thread t that leaves the cache alone.
LEMMA ThreadStep ==
    ASSUME IInv, NEW t \in Threads, NEW v \in {Idle} \cup Requests \cup Answered,
           thread' = [thread EXCEPT ![t] = v],
           UNCHANGED <<rotation, keys, age, gone, refreshes>>,
           lock' = lock \/ (lock \in {None, t} /\ lock' \in {None, t}),
           faults' \in 0..MaxFaults, failed' \in BOOLEAN, failed => failed',
           Kept(t, v)
    PROVE  IInv'
<1>1. thread'[t] = v /\ \A u \in Threads : u # t => thread'[u] = thread[u] BY DEF IInv, TypeOK
<1>2. thread' \in [Threads -> {Idle} \cup Requests \cup Answered] BY DEF IInv, TypeOK
<1>3. \A u \in Threads : thread'[u].at \in {"fetch", "apply"} <=> lock' = u
  BY <1>1, SigningKeysAssumption DEF IInv, TypeOK, Kept
<1>4. TypeOK'
  <2>1. lock' \in Threads \cup {None} BY DEF IInv, TypeOK
  <2> QED BY <1>2, <1>3, <2>1 DEF IInv, TypeOK
<1>5. OnlyKey' BY <1>1 DEF IInv, OnlyKey, Kept
<1>6. KeyOfKid' BY <1>1 DEF IInv, KeyOfKid, Kept
<1>7. Loads' /\ OneRefresh' BY <1>1 DEF IInv, Loads, OneRefresh, Fresh, Loaded, Kept
<1>8. Fetched' BY <1>1 DEF IInv, Fetched, Kept
<1>9. InDate'
  <2>1. \A u \in Threads : thread'[u].at \in Reading => age < TTL \/ failed'
    BY <1>1 DEF IInv, InDate, Kept
  <2> QED BY <2>1 DEF IInv, InDate, published
<1> QED BY <1>4, <1>5, <1>6, <1>7, <1>8, <1>9 DEF IInv

(***************************************************************************)
(* Steps                                                                   *)
(***************************************************************************)

\* A request begins.
LEMMA AuthenticateStep ==
    ASSUME IInv, NEW t \in Threads, NEW token \in Tokens, Authenticate(t, token)
    PROVE  IInv'
<1>1. PICK l \in {"lookup", "lock"} : /\ l = "lookup" => Fresh
                                      /\ thread' = [thread EXCEPT ![t] = NewRequest(token, l)]
  BY DEF Authenticate
<1>2. (Fresh /\ token.kid \in DOMAIN keys) \in BOOLEAN /\ (token.valid /\ Has(published, token)) \in BOOLEAN
  OBVIOUS
<1>3. PICK q \in BOOLEAN : q = (Fresh /\ token.kid \in DOMAIN keys) BY <1>2, Zenon
<1>4. PICK e \in BOOLEAN : e = (token.valid /\ Has(published, token)) BY <1>2, Zenon
<1> DEFINE v == [at |-> l, token |-> token, force |-> FALSE, wait |-> 0, document |-> 0,
                 quick |-> q, entitled |-> e]
<1>5. NewRequest(token, l) = v BY <1>3, <1>4, Zenon DEF NewRequest
<1>6. v \in Requests BY SigningKeysAssumption DEF Requests
<1>7. /\ UNCHANGED <<rotation, keys, age, gone, refreshes, lock, faults, failed>>
      /\ thread[t] = Idle
  BY DEF Authenticate, cache, history
<1>8. v.at = l OBVIOUS
<1>9. lock # t BY <1>7 DEF IInv, TypeOK, Idle
<1> HIDE DEF v
<1>10. Kept(t, v) BY <1>1, <1>7, <1>8, <1>9 DEF Kept, Fresh, Reading
<1> QED BY <1>1, <1>5, <1>6, <1>7, <1>10, ThreadStep DEF IInv, TypeOK

\* A step of an open request to another place.
LEMMA GotoStep ==
    ASSUME IInv, NEW t \in Threads, Open(t), thread[t].at # "fetch", thread[t].at # "apply",
           NEW l \in {"lookup", "lock", "last_lookup", "take", "take_only", "fallback"},
           thread' = [thread EXCEPT ![t].at = l],
           l \in Reading => age < TTL \/ failed,
           l = "take_only" => thread[t].token.kid = None,
           UNCHANGED <<rotation, keys, age, gone, refreshes, lock, faults, failed>>
    PROVE  IInv'
<1> DEFINE v == [thread[t] EXCEPT !.at = l]
<1>1. thread[t] \in Requests BY DEF IInv, TypeOK, Open, Idle, Answered
<1>2. v \in Requests /\ v.at = l /\ v.token = thread[t].token BY <1>1 DEF Requests
<1>3. thread' = [thread EXCEPT ![t] = v] OBVIOUS
<1>4. lock # t BY DEF IInv, TypeOK
<1> HIDE DEF v
<1>5. Kept(t, v) BY <1>2, <1>4 DEF Kept
<1> QED BY <1>2, <1>3, <1>5, ThreadStep DEF IInv, TypeOK

\* The request is answered: with a key that its kid names, with the secret, or not.
LEMMA AnswerStep ==
    ASSUME IInv, NEW t \in Threads, Open(t), thread[t].at # "fetch", thread[t].at # "apply",
           NEW key, Answer(t, key),
           \/ key = None
           \/ key = Secret /\ Fallback
           \/ key \in Range(keys) /\ thread[t].token.kid = None
           \/ thread[t].token.kid \in DOMAIN keys /\ key = keys[thread[t].token.kid],
           UNCHANGED <<rotation, keys, age, gone, refreshes, lock, faults, failed>>
    PROVE  IInv'
<1> DEFINE v == [at |-> "answered", token |-> thread[t].token, key |-> key]
<1>1. thread[t].token \in Tokens BY DEF IInv, TypeOK, Open, Idle, Answered, Requests
<1>2. key \in Keys \cup {Secret, None} BY CachedKeys DEF IInv
<1>3. v \in Answered BY <1>1, <1>2 DEF Answered
<1>4. v.at = "answered" /\ v.token = thread[t].token /\ v.key = key OBVIOUS
<1>5. thread' = [thread EXCEPT ![t] = v] BY DEF Answer
<1>6. lock # t BY DEF IInv, TypeOK
<1> HIDE DEF v
<1>7. Kept(t, v) BY <1>4, <1>6, CachedKeys, SigningKeysAssumption DEF Kept, Reading, IInv
<1> QED BY <1>3, <1>5, <1>7, ThreadStep DEF IInv, TypeOK

\* A thread that waits for the lock gets it.
LEMMA AcquireStep ==
    ASSUME IInv, NEW t \in Threads, Acquire(t)
    PROVE  IInv'
<1>1. /\ thread[t].at = "lock" /\ lock = None
      /\ UNCHANGED <<rotation, keys, age, gone, refreshes, faults, failed>>
  BY DEF Acquire, cache, history
<1>2. thread[t] \in Requests BY <1>1 DEF IInv, TypeOK, Idle, Answered
<1>3. CASE ~thread[t].force /\ Fresh
  <2>1. thread' = [thread EXCEPT ![t].at = "lookup"] /\ UNCHANGED lock BY <1>3 DEF Acquire, Goto
  <2> QED BY <1>1, <1>3, <2>1, GotoStep DEF Open, Fresh
<1>4. CASE ~(~thread[t].force /\ Fresh)
  <2> DEFINE v == [thread[t] EXCEPT !.at = "fetch"]
  <2>1. thread' = [thread EXCEPT ![t] = v] /\ lock' = t BY <1>4 DEF Acquire, Goto
  <2>2. v \in Requests /\ v.at = "fetch" /\ v.force = thread[t].force BY <1>2 DEF Requests
  <2> HIDE DEF v
  <2>3. ~v.force => refreshes = 0 BY <1>4, <2>2 DEF IInv, Loads, TypeOK
  <2>4. Kept(t, v) BY <2>1, <2>2, <2>3 DEF Kept, Reading
  <2> QED BY <1>1, <2>1, <2>2, <2>4, ThreadStep DEF IInv, TypeOK
<1> QED BY <1>3, <1>4

\* identity-service answers with what it publishes: none of it is gone.
LEMMA FetchStep ==
    ASSUME IInv, NEW t \in Threads, Fetch(t)
    PROVE  IInv'
<1> DEFINE v == [thread[t] EXCEPT !.at = "apply", !.document = rotation]
<1>1. /\ thread[t].at = "fetch"
      /\ thread' = [thread EXCEPT ![t] = v]
      /\ UNCHANGED <<rotation, keys, age, gone, refreshes, lock, faults, failed>>
  BY DEF Fetch, cache, history
<1>2. thread[t] \in Requests BY <1>1 DEF IInv, TypeOK, Idle, Answered
<1>3. /\ v \in Requests
      /\ v.at = "apply" /\ v.document = rotation /\ v.force = thread[t].force /\ v.wait = thread[t].wait
  <2>1. rotation \in Nat BY SigningKeysAssumption DEF IInv, TypeOK
  <2> QED BY <1>2, <2>1 DEF Requests
<1> HIDE DEF v
<1>4. rotation \in 1..rotation /\ v.wait \in Nat
  BY <1>3, SigningKeysAssumption DEF IInv, TypeOK, Requests
<1>5. \A k \in Range(Documents[rotation]) : gone[k] =< v.wait
  BY <1>4 DEF IInv, InDate, published
<1>6. lock = t BY <1>1 DEF IInv, TypeOK
<1>7. ~v.force => refreshes = 0 BY <1>1, <1>3 DEF IInv, Loads
<1>8. Kept(t, v) BY <1>1, <1>3, <1>4, <1>5, <1>6, <1>7 DEF Kept, Reading
<1> QED BY <1>1, <1>3, <1>8, ThreadStep DEF IInv, TypeOK

\* The fetch fails.
LEMMA FetchFailsStep ==
    ASSUME IInv, NEW t \in Threads, FetchFails(t)
    PROVE  IInv'
<1>1. /\ thread[t].at = "fetch" /\ lock' = None /\ failed'
      /\ faults < MaxFaults /\ faults' = faults + 1
      /\ UNCHANGED <<rotation, keys, age, gone, refreshes>>
  BY DEF FetchFails, cache
<1>2. failed' \in BOOLEAN BY DEF FetchFails
<1>3. thread[t] \in Requests BY <1>1 DEF IInv, TypeOK, Idle, Answered
<1>4. PICK l \in {"lookup", "last_lookup", "fallback"} :
        thread' = [thread EXCEPT ![t].at = l, ![t].entitled = FALSE, ![t].wait = 0]
  BY DEF FetchFails, After
<1> DEFINE v == [thread[t] EXCEPT !.at = l, !.entitled = FALSE, !.wait = 0]
<1>5. thread' = [thread EXCEPT ![t] = v] BY <1>4
<1>6. v \in Requests /\ v.at = l
  <2>1. 0 \in 0..FetchTime BY SigningKeysAssumption
  <2> QED BY <1>3, <2>1 DEF Requests
<1>7. lock = t BY <1>1 DEF IInv, TypeOK
<1> HIDE DEF v
<1>8. Kept(t, v) BY <1>1, <1>6, SigningKeysAssumption DEF Kept, Reading
<1>9. faults' \in 0..MaxFaults BY <1>1, SigningKeysAssumption DEF IInv, TypeOK
<1> QED BY <1>1, <1>2, <1>5, <1>6, <1>7, <1>8, <1>9, ThreadStep

\* A document replaces the cached one.
LEMMA ApplyStep ==
    ASSUME IInv, NEW t \in Threads, apply_document(t)
    PROVE  IInv'
<1> DEFINE d == thread[t].document
           v == [thread[t] EXCEPT !.at = After(t), !.wait = 0, !.document = 0]
<1>1. /\ thread[t].at = "apply" /\ lock' = None /\ failed' = FALSE
      /\ keys' = Documents[d] /\ age' = 0
      /\ thread' = [thread EXCEPT ![t] = v]
      /\ refreshes' = IF DOMAIN Documents[d] = {} THEN 0
                      ELSE IF thread[t].force THEN refreshes ELSE refreshes + 1
      /\ UNCHANGED <<rotation, gone, faults>>
  BY DEF apply_document, Parsed
<1>2. thread[t] \in Requests BY <1>1 DEF IInv, TypeOK, Idle, Answered
<1>3. v \in Requests /\ v.at \in {"lookup", "last_lookup"}
  <2>1. 0 \in 0..FetchTime BY SigningKeysAssumption
  <2>2. PICK l \in {"lookup", "last_lookup"} : l = After(t) BY DEF After
  <2> QED BY <1>2, <2>1, <2>2 DEF Requests
<1>4. d \in 1..rotation /\ \A k \in Range(Documents[d]) : gone[k] =< thread[t].wait
  BY <1>1 DEF IInv, Fetched
<1>5. thread[t].wait =< FetchTime /\ thread[t].wait \in Nat
  BY <1>2, SigningKeysAssumption DEF Requests
<1>6. lock = t BY <1>1 DEF IInv, TypeOK
<1> HIDE DEF v, d
<1>7. thread'[t] = v /\ \A u \in Threads : u # t => thread'[u] = thread[u]
  BY <1>1 DEF IInv, TypeOK
<1>8. \A u \in Threads : u # t => thread[u].at \notin {"fetch", "apply"}
  BY <1>6 DEF IInv, TypeOK
<1>9. refreshes' \in 0..1
  <2>1. CASE thread[t].force BY <1>1, <2>1 DEF IInv, TypeOK, OneRefresh
  <2>2. CASE ~thread[t].force BY <1>1, <2>2 DEF IInv, Loads
  <2> QED BY <2>1, <2>2
<1>10. refreshes' > 0 => DOMAIN keys' # {} BY <1>1
<1>11. TypeOK'
  <2>1. thread' \in [Threads -> {Idle} \cup Requests \cup Answered] BY <1>1, <1>3 DEF IInv, TypeOK
  <2>2. \A u \in Threads : thread'[u].at \in {"fetch", "apply"} <=> lock' = u
    BY <1>1, <1>3, <1>7, <1>8, SigningKeysAssumption
  <2>3. failed' \in BOOLEAN BY <1>1
  <2>4. keys' \in {<<>>} \cup {Documents[n] : n \in 1..rotation'} BY <1>1, <1>4
  <2>5. age' \in 0..TTL BY <1>1, SigningKeysAssumption
  <2> QED BY <1>1, <1>9, <2>1, <2>2, <2>3, <2>4, <2>5 DEF IInv, TypeOK
<1>12. OnlyKey' BY <1>3, <1>7 DEF IInv, OnlyKey
<1>13. KeyOfKid' BY <1>1, <1>3, <1>7 DEF IInv, KeyOfKid
<1>14. Loads' BY <1>1, <1>3, <1>7, <1>8, <1>10, SigningKeysAssumption DEF Loads, Fresh, Loaded
<1>15. OneRefresh' BY <1>9 DEF OneRefresh
<1>16. Fetched' BY <1>3, <1>7, <1>8 DEF Fetched
<1>17. InDate'
  <2>1. \A k \in Range(Documents[d]) : gone[k] =< FetchTime
    <3>1. \A k \in Range(Documents[d]) : gone[k] \in Nat
      BY <1>4, RangeKeys, SigningKeysAssumption DEF IInv, TypeOK, LongAgo
    <3> QED BY <3>1, <1>4, <1>5, SigningKeysAssumption
  <2>2. \A k \in Range(keys') : gone'[k] =< age' + FetchTime BY <2>1, <1>1, SigningKeysAssumption
  <2>3. age' < TTL BY <1>1, SigningKeysAssumption
  <2> QED BY <2>2, <2>3, <1>1 DEF IInv, InDate, published
<1> QED BY <1>11, <1>12, <1>13, <1>14, <1>15, <1>16, <1>17 DEF IInv

\* A request looks its kid up.
LEMMA LookupStep ==
    ASSUME IInv, NEW t \in Threads, Lookup(t)
    PROVE  IInv'
<1> DEFINE kid == thread[t].token.kid
<1>1. /\ thread[t].at \in {"lookup", "last_lookup"}
      /\ UNCHANGED <<rotation, keys, age, gone, refreshes, lock, faults, failed>>
  BY DEF Lookup, cache, history
<1>2. Open(t) /\ (age < TTL \/ failed) BY <1>1 DEF Open, IInv, InDate, Reading
<1>3. CASE thread' = [thread EXCEPT ![t].at = "lock", ![t].force = TRUE]
  <2> DEFINE v == [thread[t] EXCEPT !.at = "lock", !.force = TRUE]
  <2>1. thread' = [thread EXCEPT ![t] = v] BY <1>3
  <2>2. thread[t] \in Requests BY <1>1 DEF IInv, TypeOK, Idle, Answered
  <2>3. v \in Requests /\ v.at = "lock" BY <2>2 DEF Requests
  <2>4. lock # t BY <1>1 DEF IInv, TypeOK
  <2> HIDE DEF v
  <2>5. Kept(t, v) BY <1>1, <2>3, <2>4 DEF Kept, Reading
  <2> QED BY <1>1, <2>1, <2>3, <2>5, ThreadStep DEF IInv, TypeOK
<1>4. CASE ~(thread' = [thread EXCEPT ![t].at = "lock", ![t].force = TRUE])
  <2>1. PICK l \in {"take", "take_only", "fallback"} :
            /\ thread' = [thread EXCEPT ![t].at = l]
            /\ l = "take_only" => kid = None
    BY <1>4 DEF Lookup, Goto
  <2> QED BY <1>1, <1>2, <2>1, GotoStep
<1> QED BY <1>3, <1>4

\* A request verifies its token with a key of the cache.
LEMMA TakeStep ==
    ASSUME IInv, NEW t \in Threads, Take(t) \/ TakeOnly(t)
    PROVE  IInv'
<1>1. /\ thread[t].at \in {"take", "take_only"}
      /\ UNCHANGED <<rotation, keys, age, gone, refreshes, lock, faults, failed>>
  BY DEF Take, TakeOnly, cache, history
<1>2. Open(t) BY <1>1 DEF Open
<1>3. CASE Goto(t, "fallback") BY <1>1, <1>2, <1>3, GotoStep DEF Goto, Reading
<1>4. CASE ~Goto(t, "fallback")
  <2>1. CASE Take(t)
    <3>1. PICK key : /\ Answer(t, key)
                     /\ \/ key = None
                        \/ thread[t].token.kid \in DOMAIN keys /\ key = keys[thread[t].token.kid]
      BY <1>4, <2>1 DEF Take, Verify
    <3> QED BY <1>1, <1>2, <3>1, AnswerStep
  <2>2. CASE TakeOnly(t)
    <3>1. thread[t].token.kid = None BY <2>2 DEF TakeOnly, IInv, OnlyKey
    <3>2. PICK key : Answer(t, key) /\ (key = None \/ key \in Range(keys))
      BY <1>4, <2>2 DEF TakeOnly, Verify
    <3> QED BY <1>1, <1>2, <3>1, <3>2, AnswerStep
  <2> QED BY <2>1, <2>2
<1> QED BY <1>3, <1>4

\* A request tries the shared secret.
LEMMA FallbackStep ==
    ASSUME IInv, NEW t \in Threads, TryFallback(t)
    PROVE  IInv'
<1>1. /\ thread[t].at = "fallback"
      /\ UNCHANGED <<rotation, keys, age, gone, refreshes, lock, faults, failed>>
  BY DEF TryFallback, cache, history
<1>2. PICK key : Answer(t, key) /\ (key = None \/ (key = Secret /\ Fallback)) BY DEF TryFallback
<1> QED BY <1>1, <1>2, AnswerStep DEF Open

\* A request is over.
LEMMA RespondStep ==
    ASSUME IInv, NEW t \in Threads, Respond(t)
    PROVE  IInv'
<1>1. /\ thread[t].at = "answered" /\ thread' = [thread EXCEPT ![t] = Idle]
      /\ UNCHANGED <<rotation, keys, age, gone, refreshes, lock, faults, failed>>
  BY DEF Respond, cache, history
<1>2. lock # t BY <1>1 DEF IInv, TypeOK
<1>3. Kept(t, Idle) BY <1>1, <1>2 DEF Kept, Idle, Reading
<1> QED BY <1>1, <1>3, ThreadStep DEF IInv, TypeOK

\* What a rotation does to a request: it may no longer be entitled.
LEMMA RotateThread ==
    ASSUME TypeOK, Rotate, NEW t \in Threads
    PROVE  /\ thread'[t] \in {Idle} \cup Requests \cup Answered
           /\ thread'[t].at = thread[t].at
           /\ ~Open(t) => thread'[t] = thread[t]
           /\ Open(t) => /\ thread'[t].token = thread[t].token
                         /\ thread'[t].force = thread[t].force
                         /\ thread'[t].wait = thread[t].wait
                         /\ thread'[t].document = thread[t].document
                         /\ thread'[t].entitled =>
                               thread[t].entitled /\ Has(Documents[rotation + 1], thread[t].token)
<1>1. CASE ~Open(t)
  <2>1. thread'[t] = thread[t] BY <1>1 DEF Rotate, Open
  <2> QED BY <1>1, <2>1 DEF TypeOK
<1>2. CASE Open(t)
  <2>1. (thread[t].entitled /\ Has(Documents[rotation + 1], thread[t].token)) \in BOOLEAN OBVIOUS
  <2>2. PICK b \in BOOLEAN : b = (thread[t].entitled /\ Has(Documents[rotation + 1], thread[t].token))
    BY <2>1, Zenon
  <2>3. thread'[t] = [thread[t] EXCEPT !.entitled = b] BY <1>2, <2>2 DEF Rotate, Open
  <2>4. thread[t] \in Requests BY <1>2 DEF TypeOK, Open, Idle, Answered
  <2>5. thread'[t] \in Requests /\ thread'[t].entitled = b BY <2>3, <2>4 DEF Requests
  <2>6. /\ thread'[t].at = thread[t].at /\ thread'[t].token = thread[t].token
        /\ thread'[t].force = thread[t].force /\ thread'[t].wait = thread[t].wait
        /\ thread'[t].document = thread[t].document
    BY <2>3, <2>4 DEF Requests
  <2>7. thread'[t].entitled => thread[t].entitled /\ Has(Documents[rotation + 1], thread[t].token)
    BY <2>2, <2>5
  <2> QED BY <1>2, <2>5, <2>6, <2>7
<1> QED BY <1>1, <1>2

\* identity-service publishes the next document.
LEMMA RotateStep ==
    ASSUME IInv, Rotate
    PROVE  IInv'
<1>1. /\ rotation < Len(Documents) /\ rotation' = rotation + 1
      /\ gone' = [k \in Keys |-> IF k \in Range(Documents[rotation + 1]) THEN 0 ELSE gone[k]]
      /\ UNCHANGED <<keys, age, lock, faults, failed, refreshes>>
      /\ DOMAIN thread' = Threads
  BY DEF Rotate, cache
<1>2. rotation \in Nat /\ rotation' \in 1..Len(Documents) /\ rotation \in 1..Len(Documents)
  BY <1>1, SigningKeysAssumption DEF IInv, TypeOK
<1>3. \A t \in Threads : /\ thread'[t] \in {Idle} \cup Requests \cup Answered
                         /\ thread'[t].at = thread[t].at
                         /\ ~Open(t) => thread'[t] = thread[t]
                         /\ Open(t) => /\ thread'[t].token = thread[t].token
                                       /\ thread'[t].force = thread[t].force
                                       /\ thread'[t].wait = thread[t].wait
                                       /\ thread'[t].document = thread[t].document
  BY RotateThread DEF IInv
<1>4. gone \in [Keys -> 0..LongAgo] /\ LongAgo \in Nat
  BY SigningKeysAssumption DEF IInv, TypeOK, LongAgo
<1>5. gone' \in [Keys -> 0..LongAgo] /\ \A k \in Keys : gone'[k] =< gone[k] BY <1>1, <1>4
<1>6. TypeOK'
  <2>1. thread' \in [Threads -> {Idle} \cup Requests \cup Answered]
    <3>1. thread' = [t \in Threads |-> thread'[t]] BY <1>1 DEF Rotate
    <3> QED BY <1>3, <3>1
  <2>2. keys \in {<<>>} \cup {Documents[n] : n \in 1..rotation'} BY <1>1, <1>2 DEF IInv, TypeOK
  <2> QED BY <1>1, <1>2, <1>3, <1>5, <2>1, <2>2 DEF IInv, TypeOK, LongAgo
<1>7. OnlyKey' BY <1>3 DEF IInv, OnlyKey, Open
<1>8. KeyOfKid'
  <2> SUFFICES ASSUME NEW t \in Threads, thread[t].at = "answered", thread[t].key # None
               PROVE  IF thread[t].key = Secret THEN Fallback
                      ELSE thread[t].token.kid # None => \E n \in 1..rotation' :
                          /\ thread[t].token.kid \in DOMAIN Documents[n]
                          /\ Documents[n][thread[t].token.kid] = thread[t].key
    BY <1>3 DEF KeyOfKid, Open
  <2>1. 1..rotation \subseteq 1..rotation' BY <1>1, <1>2
  <2> QED BY <2>1 DEF IInv, KeyOfKid
<1>9. Loads' BY <1>1, <1>3 DEF IInv, Loads, Fresh, Loaded, Open
<1>10. OneRefresh' BY <1>1 DEF IInv, OneRefresh
<1>11. Fetched'
  <2> SUFFICES ASSUME NEW t \in Threads, thread[t].at = "apply"
               PROVE  /\ thread[t].document \in 1..rotation'
                      /\ \A k \in Range(Documents[thread[t].document]) : gone'[k] =< thread[t].wait
    BY <1>3 DEF Fetched, Open
  <2>1. /\ thread[t].document \in 1..rotation
        /\ \A k \in Range(Documents[thread[t].document]) : gone[k] =< thread[t].wait
    BY DEF IInv, Fetched
  <2>2. thread[t].wait \in Nat BY SigningKeysAssumption DEF IInv, TypeOK, Requests, Idle, Answered
  <2>3. thread[t].document \in 1..Len(Documents) BY <1>2, <2>1, SigningKeysAssumption
  <2>4. \A k \in Range(Documents[thread[t].document]) : k \in Keys BY <2>3, RangeKeys
  <2> QED BY <1>1, <1>2, <1>4, <1>5, <2>1, <2>2, <2>4
<1>12. InDate'
  <2>1. \A k \in Range(Documents[rotation + 1]) : gone'[k] = 0 BY <1>1, <1>2, RangeKeys
  <2>2. Range(keys) \subseteq Keys BY CachedKeys DEF IInv
  <2>3. age \in Nat BY SigningKeysAssumption DEF IInv, TypeOK
  <2>4. age < TTL => \A k \in Range(keys) : gone'[k] =< age + FetchTime
    BY <1>4, <1>5, <2>2, <2>3, SigningKeysAssumption DEF IInv, InDate
  <2> QED BY <1>1, <1>3, <2>1, <2>4 DEF IInv, InDate, published
<1> QED BY <1>6, <1>7, <1>8, <1>9, <1>10, <1>11, <1>12 DEF IInv

\* What a tick does to a request: a fetch has taken longer.
LEMMA TickThread ==
    ASSUME TypeOK, Tick, NEW t \in Threads
    PROVE  /\ thread[t].at \in {"idle", "lock", "fetch", "apply"}
           /\ thread'[t] \in {Idle} \cup Requests \cup Answered
           /\ thread'[t].at = thread[t].at
           /\ thread[t].at \notin {"fetch", "apply"} => thread'[t] = thread[t]
           /\ thread[t].at \in {"fetch", "apply"} =>
                /\ thread[t].wait \in Nat /\ thread'[t].wait = thread[t].wait + 1
                /\ thread'[t].token = thread[t].token
                /\ thread'[t].force = thread[t].force
                /\ thread'[t].entitled = thread[t].entitled
                /\ thread'[t].document = thread[t].document
<1>1. Waiting(t) BY DEF Tick
<1>2. CASE thread[t].at \notin {"fetch", "apply"}
  <2>1. thread'[t] = thread[t] BY <1>2 DEF Tick
  <2> QED BY <1>1, <1>2, <2>1 DEF TypeOK, Waiting
<1>3. CASE thread[t].at \in {"fetch", "apply"}
  <2>1. thread[t].wait < FetchTime BY <1>1, <1>3 DEF Waiting
  <2>2. thread'[t] = [thread[t] EXCEPT !.wait = @ + 1] BY <1>3 DEF Tick
  <2>3. thread[t] \in Requests BY <1>3 DEF TypeOK, Idle, Answered
  <2>4. thread[t].wait \in Nat /\ thread[t].wait + 1 \in 0..FetchTime
    BY <2>1, <2>3, SigningKeysAssumption DEF Requests
  <2>5. thread'[t] \in Requests BY <2>2, <2>3, <2>4 DEF Requests
  <2>6. /\ thread'[t].wait = thread[t].wait + 1 /\ thread'[t].at = thread[t].at
        /\ thread'[t].token = thread[t].token /\ thread'[t].force = thread[t].force
        /\ thread'[t].document = thread[t].document
    BY <2>2, <2>3 DEF Requests
  <2>7. thread'[t].entitled = thread[t].entitled BY <2>2, <2>3, Zenon DEF Requests
  <2> QED BY <1>3, <2>4, <2>5, <2>6, <2>7
<1> QED BY <1>2, <1>3

\* Time passes while every thread waits.
LEMMA TickStep ==
    ASSUME IInv, Tick
    PROVE  IInv'
<1>1. /\ age' = IF age < TTL THEN age + 1 ELSE TTL
      /\ refreshes' = IF age' = TTL THEN 0 ELSE refreshes
      /\ gone' = [k \in Keys |-> IF k \in Range(published) THEN 0
                                ELSE IF gone[k] = LongAgo THEN LongAgo ELSE gone[k] + 1]
      /\ UNCHANGED <<rotation, keys, lock, faults, failed>>
      /\ thread' = [t \in Threads |-> thread'[t]]
  BY DEF Tick
<1>2. \A t \in Threads : /\ thread[t].at \in {"idle", "lock", "fetch", "apply"}
                         /\ thread'[t] \in {Idle} \cup Requests \cup Answered
                         /\ thread'[t].at = thread[t].at
                         /\ thread[t].at \in {"fetch", "apply"} =>
                               /\ thread[t].wait \in Nat /\ thread'[t].wait = thread[t].wait + 1
                               /\ thread'[t].force = thread[t].force
                               /\ thread'[t].document = thread[t].document
  BY TickThread DEF IInv
<1>3. gone \in [Keys -> 0..LongAgo] /\ LongAgo \in Nat
  BY SigningKeysAssumption DEF IInv, TypeOK, LongAgo
<1>4. gone' \in [Keys -> 0..LongAgo] /\ \A k \in Keys : gone'[k] =< gone[k] + 1 BY <1>1, <1>3
<1>5. age \in Nat /\ age' \in 0..TTL BY <1>1, SigningKeysAssumption DEF IInv, TypeOK
<1>6. refreshes \in Nat /\ refreshes' \in Nat /\ refreshes' =< refreshes BY <1>1 DEF IInv, TypeOK
<1>7. TypeOK'
  <2>1. thread' \in [Threads -> {Idle} \cup Requests \cup Answered] BY <1>1, <1>2
  <2> QED BY <1>1, <1>2, <1>4, <1>5, <1>6, <2>1 DEF IInv, TypeOK, LongAgo
<1>8. OnlyKey' /\ KeyOfKid' BY <1>2 DEF OnlyKey, KeyOfKid
<1>9. Loads'
  <2>1. refreshes' > 0 => Fresh'
    BY <1>1, <1>5, <1>6, SigningKeysAssumption DEF IInv, Loads, Fresh, Loaded
  <2>2. \A t \in Threads : thread'[t].at \in {"fetch", "apply"} /\ ~thread'[t].force => refreshes' = 0
    BY <1>1, <1>2 DEF IInv, Loads
  <2> QED BY <2>1, <2>2 DEF Loads
<1>10. OneRefresh' BY <1>6 DEF IInv, OneRefresh
<1>11. Fetched'
  <2> SUFFICES ASSUME NEW t \in Threads, thread[t].at = "apply"
               PROVE  /\ thread[t].document \in 1..rotation
                      /\ \A k \in Range(Documents[thread[t].document]) : gone'[k] =< thread[t].wait + 1
    BY <1>1, <1>2 DEF Fetched
  <2>1. /\ thread[t].document \in 1..rotation
        /\ \A k \in Range(Documents[thread[t].document]) : gone[k] =< thread[t].wait
    BY DEF IInv, Fetched
  <2>2. thread[t].document \in 1..Len(Documents) BY <2>1, SigningKeysAssumption DEF IInv, TypeOK
  <2>3. \A k \in Range(Documents[thread[t].document]) : k \in Keys BY <2>2, RangeKeys
  <2> QED BY <1>2, <1>3, <1>4, <2>1, <2>3
<1>12. InDate'
  <2>1. \A k \in Range(published) : gone'[k] = 0
    BY <1>1, RangeKeys, SigningKeysAssumption DEF IInv, TypeOK, published
  <2>2. Range(keys) \subseteq Keys BY CachedKeys DEF IInv
  <2>3. age' < TTL => \A k \in Range(keys) : gone'[k] =< age' + FetchTime
    BY <1>1, <1>3, <1>4, <1>5, <2>2, SigningKeysAssumption DEF IInv, InDate
  <2>4. \A t \in Threads : thread'[t].at \notin Reading BY <1>2 DEF Reading
  <2> QED BY <1>1, <2>1, <2>3, <2>4 DEF InDate, published
<1> QED BY <1>7, <1>8, <1>9, <1>10, <1>11, <1>12 DEF IInv

(***************************************************************************)
(* Theorems                                                                *)
(***************************************************************************)

\* A process starts with an empty cache.
LEMMA InitInv == Init => IInv
<1> SUFFICES ASSUME Init PROVE IInv OBVIOUS
<1>1. \A t \in Threads : thread[t] = Idle /\ thread[t].at = "idle" BY DEF Init, Idle
<1>2. LongAgo \in Nat BY SigningKeysAssumption DEF LongAgo
<1>3. TypeOK
  <2>1. thread \in [Threads -> {Idle} \cup Requests \cup Answered] BY DEF Init
  <2>2. failed \in BOOLEAN BY DEF Init
  <2>3. gone \in [Keys -> 0..LongAgo] BY <1>2 DEF Init
  <2> QED BY <1>1, <2>1, <2>2, <2>3, SigningKeysAssumption DEF Init, TypeOK
<1>4. OnlyKey /\ KeyOfKid /\ Fetched BY <1>1 DEF OnlyKey, KeyOfKid, Fetched
<1>5. Loads /\ OneRefresh BY <1>1 DEF Init, Loads, OneRefresh
<1>6. InDate
  <2>1. \A k \in Range(published) : gone[k] = 0
    BY RangeKeys, SigningKeysAssumption DEF Init, published
  <2> QED BY <1>1, <2>1, SigningKeysAssumption DEF Init, InDate, Reading
<1> QED BY <1>3, <1>4, <1>5, <1>6 DEF IInv

\* Every step keeps the inductive invariant.
LEMMA NextInv == IInv /\ [Next]_vars => IInv'
<1> SUFFICES ASSUME IInv, [Next]_vars PROVE IInv' OBVIOUS
<1>1. CASE UNCHANGED vars
  BY <1>1 DEF vars, cache, history, IInv, TypeOK, OnlyKey, KeyOfKid, Loads, OneRefresh, Fetched, InDate,
     Fresh, Loaded, published
<1>2. ASSUME NEW t \in Threads, NEW token \in Tokens, Authenticate(t, token) PROVE IInv'
  BY <1>2, AuthenticateStep
<1>3. ASSUME NEW t \in Threads, Fetch(t) \/ FetchFails(t) \/ apply_document(t) \/ Step(t) PROVE IInv'
  BY <1>3, FetchStep, FetchFailsStep, ApplyStep, AcquireStep, LookupStep, TakeStep, FallbackStep,
     RespondStep DEF Step
<1>4. CASE Rotate BY <1>4, RotateStep
<1>5. CASE Tick BY <1>5, TickStep
<1> QED BY <1>1, <1>2, <1>3, <1>4, <1>5 DEF Next

\* The inductive invariant of the cache, the lock and the requests.
THEOREM Invariance == Spec => []IInv
BY InitInv, NextInv, PTL DEF Spec

\* Types; the cache holds a published document and only the thread that has the
\* lock fetches.
THEOREM TypeCorrect == Spec => []TypeOK
<1>1. IInv => TypeOK BY DEF IInv
<1> QED BY <1>1, Invariance, PTL

\* Whatever documents replace each other while it is read, a token that names a
\* kid is accepted only with a key published under that kid.
THEOREM KidsRespected == Spec => []KeyOfKid
<1>1. IInv => KeyOfKid BY DEF IInv
<1> QED BY <1>1, Invariance, PTL

\* However many threads find the cache too old at once, one of them loads it.
THEOREM LoadedOnce == Spec => []OneRefresh
<1>1. IInv => OneRefresh BY DEF IInv
<1> QED BY <1>1, Invariance, PTL

\* A request is answered by a step of its own, which verified or gave up.
LEMMA AnsweredBy ==
    ASSUME IInv, [Next]_vars, NEW t \in Threads, Answers(t)
    PROVE  Take(t) \/ TakeOnly(t) \/ TryFallback(t)
<1>1. ASSUME NEW u \in Threads, NEW v, thread' = [thread EXCEPT ![u] = v],
             v.at # "answered" \/ thread[u].at = "answered"
      PROVE  FALSE
  BY <1>1 DEF Answers, IInv, TypeOK
<1>2. ASSUME NEW u \in Threads, NEW l, thread' = [thread EXCEPT ![u].at = l], l # "answered",
             thread[u] \in Requests
      PROVE  FALSE
  <2>1. u = t \/ thread'[t] = thread[t] BY <1>2 DEF IInv, TypeOK
  <2>2. thread'[u].at = l BY <1>2 DEF IInv, TypeOK, Requests
  <2> QED BY <1>2, <2>1, <2>2 DEF Answers
<1>3. ~UNCHANGED vars BY DEF Answers, vars
<1>4. ASSUME NEW u \in Threads, NEW token \in Tokens, Authenticate(u, token) PROVE FALSE
  <2>1. PICK l \in {"lookup", "lock"} : thread' = [thread EXCEPT ![u] = NewRequest(token, l)]
    BY <1>4 DEF Authenticate
  <2>2. NewRequest(token, l).at = l BY DEF NewRequest
  <2> QED BY <2>1, <2>2, <1>1
<1>5. ASSUME NEW u \in Threads, Fetch(u) \/ FetchFails(u) \/ apply_document(u) PROVE FALSE
  <2>1. thread[u].at \in {"fetch", "apply"} BY <1>5 DEF Fetch, FetchFails, apply_document
  <2>2. thread[u] \in Requests BY <2>1 DEF IInv, TypeOK, Idle, Answered
  <2>3. u # t => thread'[t] = thread[t] BY <1>5 DEF Fetch, FetchFails, apply_document, IInv, TypeOK
  <2>4. thread'[u].at \in {"apply", "lookup", "last_lookup", "fallback"}
    <3>1. CASE Fetch(u) BY <3>1, <2>2 DEF Fetch, IInv, TypeOK, Requests
    <3>2. CASE FetchFails(u) BY <3>2, <2>2 DEF FetchFails, After, IInv, TypeOK, Requests
    <3>3. CASE apply_document(u) BY <3>3, <2>2 DEF apply_document, After, IInv, TypeOK, Requests
    <3> QED BY <1>5, <3>1, <3>2, <3>3
  <2> QED BY <2>3, <2>4 DEF Answers
<1>6. ASSUME NEW u \in Threads, Acquire(u) PROVE FALSE
  <2>1. thread[u] \in Requests BY <1>6 DEF Acquire, IInv, TypeOK, Idle, Answered
  <2> QED BY <1>2, <1>6, <2>1 DEF Acquire, Goto
<1>7. ASSUME NEW u \in Threads, Lookup(u) PROVE FALSE
  <2>1. thread[u].at \in {"lookup", "last_lookup"} BY <1>7 DEF Lookup
  <2>2. thread[u] \in Requests BY <2>1 DEF IInv, TypeOK, Idle, Answered
  <2>3. CASE thread' = [thread EXCEPT ![u].at = "lock", ![u].force = TRUE]
    BY <2>2, <2>3 DEF IInv, TypeOK, Requests, Answers
  <2>4. CASE ~(thread' = [thread EXCEPT ![u].at = "lock", ![u].force = TRUE])
    <3>1. PICK l \in {"take", "take_only", "fallback"} : thread' = [thread EXCEPT ![u].at = l]
      BY <1>7, <2>4 DEF Lookup, Goto
    <3> QED BY <1>2, <2>2, <3>1
  <2> QED BY <2>3, <2>4
<1>8. ASSUME NEW u \in Threads, Respond(u) PROVE FALSE BY <1>1, <1>8 DEF Respond
<1>9. ~Rotate BY RotateThread DEF IInv, Answers
<1>10. ~Tick BY TickThread DEF IInv, Answers
<1>11. ASSUME NEW u \in Threads, Take(u) \/ TakeOnly(u) \/ TryFallback(u) PROVE u = t
  <2>1. u # t => thread'[t] = thread[t]
    BY <1>11 DEF Take, TakeOnly, TryFallback, Verify, Answer, Goto, IInv, TypeOK
  <2> QED BY <2>1 DEF Answers
<1> QED BY <1>3, <1>4, <1>5, <1>6, <1>7, <1>8, <1>9, <1>10, <1>11 DEF Next, Step

\* What a request is answered with: nothing, the secret, or a key of the cache.
LEMMA AnsweredWith ==
    ASSUME IInv, NEW t \in Threads, Take(t) \/ TakeOnly(t) \/ TryFallback(t), Answers(t)
    PROVE  \/ thread'[t].key \in {None, Secret}
           \/ thread[t].at \in Reading /\ thread'[t].key \in Range(keys)
<1>1. ASSUME NEW key, Answer(t, key) PROVE thread'[t].key = key
  BY <1>1 DEF Answer, IInv, TypeOK
<1>2. ~Goto(t, "fallback")
  <2> SUFFICES ASSUME Goto(t, "fallback") PROVE FALSE OBVIOUS
  <2>1. thread[t] \in Requests
    BY DEF Take, TakeOnly, TryFallback, IInv, TypeOK, Idle, Answered
  <2> QED BY <2>1 DEF Goto, Answers, IInv, TypeOK, Requests
<1>3. CASE Take(t) BY <1>1, <1>2, <1>3, CachedKeys DEF Take, Verify, Reading, IInv
<1>4. CASE TakeOnly(t) BY <1>1, <1>2, <1>4 DEF TakeOnly, Verify, Reading
<1>5. CASE TryFallback(t) BY <1>1, <1>5 DEF TryFallback
<1> QED BY <1>3, <1>4, <1>5

\* Unless the last fetch failed, no key is accepted longer than the TTL and one
\* fetch after identity-service has withdrawn it.
THEOREM WithdrawalsHeeded == Spec => WithdrawnKeysExpire
<1>1. ASSUME IInv, [Next]_vars, NEW t \in Threads, Answers(t), thread'[t].key \in Keys, ~failed
      PROVE  gone[thread'[t].key] =< TTL + FetchTime
  <2>1. Take(t) \/ TakeOnly(t) \/ TryFallback(t) BY <1>1, AnsweredBy
  <2>2. thread[t].at \in Reading /\ thread'[t].key \in Range(keys)
    BY <1>1, <2>1, AnsweredWith, SigningKeysAssumption
  <2>3. age < TTL BY <1>1, <2>2 DEF IInv, InDate
  <2>4. gone[thread'[t].key] =< age + FetchTime BY <1>1, <2>2, <2>3 DEF IInv, InDate
  <2>5. age \in Nat /\ gone[thread'[t].key] \in Nat
    BY <1>1, SigningKeysAssumption DEF IInv, TypeOK, LongAgo
  <2> QED BY <2>3, <2>4, <2>5, SigningKeysAssumption
<1>2. IInv /\ [Next]_vars =>
        [\A t \in Threads : Answers(t) /\ thread'[t].key \in Keys /\ ~failed =>
            gone[thread'[t].key] =< TTL + FetchTime]_vars
  BY <1>1
<1> QED BY <1>2, Invariance, PTL DEF Spec, WithdrawnKeysExpire

(***************************************************************************)
(* Rotations                                                               *)
(***************************************************************************)

\* A key that two documents have is in those between them.
LEMMA KeyStays ==
    ASSUME KeysPublishedOnce, NEW m \in 1..Len(Documents), NEW n \in 1..Len(Documents),
           NEW l \in m..n, NEW token, Has(Documents[m], token), Has(Documents[n], token)
    PROVE  Has(Documents[l], token)
<1>1. l \in 1..Len(Documents) BY SigningKeysAssumption
<1>2. token.kid \in DOMAIN Documents[l] BY DEF KeysPublishedOnce, Has
<1> QED BY <1>1, <1>2 DEF KeysPublishedOnce, Has

\* A kid that is cached names the key it is published with.
LEMMA CachedIsPublished ==
    ASSUME KeysPublishedOnce, TypeOK, InOrder, NEW token, Has(published, token),
           token.kid \in DOMAIN keys
    PROVE  Has(keys, token)
<1>1. PICK m \in 1..rotation : keys = Documents[m] BY DEF InOrder
<1>2. m \in 1..Len(Documents) /\ rotation \in 1..Len(Documents) BY SigningKeysAssumption DEF TypeOK
<1> QED BY <1>1, <1>2 DEF KeysPublishedOnce, Has, published

\* What the new record of a thread has to satisfy while the cache stays.
Promised(v) ==
    /\ v.at = "apply" => v.document = rotation
    /\ v.at \notin {"idle", "answered"} /\ v.entitled =>
        /\ v.token.valid /\ Has(published, v.token)
        /\ v.at # "fallback"
        /\ v.at \in {"last_lookup", "take"} => Has(keys, v.token)
        /\ v.at = "apply" /\ v.force => Has(Documents[v.document], v.token)

\* A step of thread t that leaves the cache alone.
LEMMA PromiseStep ==
    ASSUME IInv, RotationInv, NEW t \in Threads, NEW v, thread' = [thread EXCEPT ![t] = v],
           UNCHANGED <<rotation, keys>>, Promised(v)
    PROVE  RotationInv'
<1>1. thread'[t] = v /\ \A u \in Threads : u # t => thread'[u] = thread[u] BY DEF IInv, TypeOK
<1>2. InOrder'
  <2>1. CASE DOMAIN keys = {} BY <2>1 DEF InOrder
  <2>2. CASE DOMAIN keys # {}
    <3>1. PICK m \in 1..rotation :
            keys = Documents[m] /\ \A u \in Threads : thread[u].at = "apply" => m =< thread[u].document
      BY <2>2 DEF RotationInv, InOrder
    <3>2. \A u \in Threads : thread'[u].at = "apply" => m =< thread'[u].document
      BY <1>1, <3>1, SigningKeysAssumption DEF Promised, IInv, TypeOK
    <3> QED BY <3>1, <3>2 DEF InOrder
  <2> QED BY <2>1, <2>2
<1>3. Entitled' BY <1>1 DEF RotationInv, Entitled, Promised, Open, published
<1> QED BY <1>2, <1>3 DEF RotationInv

\* A request begins, or gets the lock, a document or nothing.
LEMMA PromiseFetch ==
    ASSUME IInv, RotationInv, NEW t \in Threads,
           (\E token \in Tokens : Authenticate(t, token)) \/ Acquire(t) \/ Fetch(t) \/ FetchFails(t)
    PROVE  RotationInv'
<1>1. CASE \E token \in Tokens : Authenticate(t, token)
  <2>1. PICK token \in Tokens : Authenticate(t, token) BY <1>1
  <2>2. PICK l \in {"lookup", "lock"} : thread' = [thread EXCEPT ![t] = NewRequest(token, l)]
    BY <2>1 DEF Authenticate
  <2> DEFINE v == NewRequest(token, l)
  <2>3. v.at = l /\ v.token = token BY DEF NewRequest
  <2>4. v.entitled = (token.valid /\ Has(published, token)) BY Zenon DEF NewRequest
  <2>5. UNCHANGED <<rotation, keys>> BY <2>1 DEF Authenticate, cache
  <2> HIDE DEF v
  <2>6. v.entitled => v.token.valid /\ Has(published, v.token) BY <2>3, <2>4
  <2>7. Promised(v) BY <2>3, <2>6 DEF Promised
  <2> QED BY <2>2, <2>5, <2>7, PromiseStep DEF v
<1>2. CASE Acquire(t)
  <2>1. thread[t].at = "lock" /\ UNCHANGED <<rotation, keys>> BY <1>2 DEF Acquire, cache
  <2>2. thread[t] \in Requests BY <2>1 DEF IInv, TypeOK, Idle, Answered
  <2>3. PICK l \in {"lookup", "fetch"} : thread' = [thread EXCEPT ![t].at = l]
    BY <1>2 DEF Acquire, Goto
  <2> DEFINE v == [thread[t] EXCEPT !.at = l]
  <2>4. v.at = l /\ v.token = thread[t].token /\ v.entitled = thread[t].entitled
    BY <2>2 DEF Requests
  <2>5. thread' = [thread EXCEPT ![t] = v] BY <2>3
  <2> HIDE DEF v
  <2>6. Promised(v) BY <2>1, <2>4 DEF Promised, RotationInv, Entitled, Open
  <2> QED BY <2>1, <2>5, <2>6, PromiseStep
<1>3. CASE Fetch(t)
  <2>1. thread[t].at = "fetch" /\ UNCHANGED <<rotation, keys>> BY <1>3 DEF Fetch, cache
  <2>2. thread[t] \in Requests BY <2>1 DEF IInv, TypeOK, Idle, Answered
  <2> DEFINE v == [thread[t] EXCEPT !.at = "apply", !.document = rotation]
  <2>3. /\ v.at = "apply" /\ v.document = rotation /\ v.token = thread[t].token
        /\ v.entitled = thread[t].entitled
    BY <2>2 DEF Requests
  <2>4. thread' = [thread EXCEPT ![t] = v] BY <1>3 DEF Fetch
  <2> HIDE DEF v
  <2>5. Promised(v) BY <2>1, <2>3 DEF Promised, RotationInv, Entitled, Open, published
  <2> QED BY <2>1, <2>4, <2>5, PromiseStep
<1>4. CASE FetchFails(t)
  <2>1. thread[t].at = "fetch" /\ UNCHANGED <<rotation, keys>> BY <1>4 DEF FetchFails, cache
  <2>2. thread[t] \in Requests BY <2>1 DEF IInv, TypeOK, Idle, Answered
  <2>3. PICK l \in {"lookup", "last_lookup", "fallback"} :
            thread' = [thread EXCEPT ![t].at = l, ![t].entitled = FALSE, ![t].wait = 0]
    BY <1>4 DEF FetchFails, After
  <2> DEFINE v == [thread[t] EXCEPT !.at = l, !.entitled = FALSE, !.wait = 0]
  <2>4. v.at = l /\ ~v.entitled BY <2>2 DEF Requests
  <2>5. thread' = [thread EXCEPT ![t] = v] BY <2>3
  <2> HIDE DEF v
  <2>6. Promised(v) BY <2>4 DEF Promised
  <2> QED BY <2>1, <2>5, <2>6, PromiseStep
<1> QED BY <1>1, <1>2, <1>3, <1>4

\* A document replaces the cached one: it is no older than the cached one, so
\* what is cached and still published is in it.
LEMMA PromiseApply ==
    ASSUME KeysPublishedOnce, IInv, RotationInv, NEW t \in Threads, apply_document(t)
    PROVE  RotationInv'
<1> DEFINE d == thread[t].document
           v == [thread[t] EXCEPT !.at = After(t), !.wait = 0, !.document = 0]
<1>1. /\ thread[t].at = "apply" /\ keys' = Documents[d] /\ UNCHANGED rotation
      /\ thread' = [thread EXCEPT ![t] = v]
  BY DEF apply_document, Parsed
<1>2. thread[t] \in Requests BY <1>1 DEF IInv, TypeOK, Idle, Answered
<1>3. /\ v.at = After(t) /\ v.token = thread[t].token /\ v.force = thread[t].force
      /\ v.entitled = thread[t].entitled
  BY <1>2 DEF Requests
<1>4. d \in 1..rotation BY <1>1 DEF IInv, Fetched
<1>5. lock = t BY <1>1 DEF IInv, TypeOK
<1>6. rotation \in 1..Len(Documents) /\ d \in 1..Len(Documents)
  BY <1>4, SigningKeysAssumption DEF IInv, TypeOK
<1> HIDE DEF v, d
<1>7. thread'[t] = v /\ \A u \in Threads : u # t => thread'[u] = thread[u]
  BY <1>1 DEF IInv, TypeOK
<1>8. \A u \in Threads : u # t => thread[u].at # "apply" BY <1>5 DEF IInv, TypeOK
<1>9. v.at \in {"lookup", "last_lookup"} /\ (v.at = "last_lookup" => v.force) BY <1>3 DEF After
<1>10. InOrder' BY <1>1, <1>4, <1>7, <1>8, <1>9 DEF InOrder
<1>11. ASSUME NEW u \in Threads, u # t, Open(u), thread[u].entitled, thread[u].at \in {"last_lookup", "take"}
       PROVE  Has(Documents[d], thread[u].token)
  <2>1. Has(keys, thread[u].token) /\ Has(Documents[rotation], thread[u].token)
    BY <1>11 DEF RotationInv, Entitled, published
  <2>2. PICK m \in 1..rotation : keys = Documents[m] /\ m =< d
    BY <1>1, <2>1 DEF RotationInv, InOrder, Has, d
  <2>3. m \in 1..Len(Documents) /\ d \in m..rotation BY <1>4, <1>6, <2>2, SigningKeysAssumption
  <2> QED BY <1>6, <2>1, <2>2, <2>3, KeyStays
<1>12. v.entitled => /\ v.token.valid /\ Has(published, v.token)
                     /\ v.force => Has(Documents[d], v.token)
  BY <1>1, <1>3 DEF RotationInv, Entitled, Open, d
<1>13. Entitled'
  BY <1>1, <1>7, <1>8, <1>9, <1>11, <1>12 DEF RotationInv, Entitled, Open, published
<1> QED BY <1>10, <1>13 DEF RotationInv

\* A request looks its kid up.
LEMMA PromiseLookup ==
    ASSUME KeysPublishedOnce, IInv, RotationInv, NEW t \in Threads, Lookup(t)
    PROVE  RotationInv'
<1> DEFINE token == thread[t].token
<1>1. thread[t].at \in {"lookup", "last_lookup"} /\ UNCHANGED <<rotation, keys>> BY DEF Lookup, cache
<1>2. thread[t] \in Requests BY <1>1 DEF IInv, TypeOK, Idle, Answered
<1>3. thread[t].entitled => /\ token.valid /\ Has(published, token)
                            /\ thread[t].at = "last_lookup" => Has(keys, token)
  BY <1>1 DEF RotationInv, Entitled, Open
<1>4. Has(published, token) => token.kid # None
  BY SigningKeysAssumption DEF Has, published, IInv, TypeOK
<1>5. CASE thread' = [thread EXCEPT ![t].at = "lock", ![t].force = TRUE]
  <2> DEFINE v == [thread[t] EXCEPT !.at = "lock", !.force = TRUE]
  <2>1. v.at = "lock" /\ v.token = token /\ v.entitled = thread[t].entitled BY <1>2 DEF Requests
  <2>2. thread' = [thread EXCEPT ![t] = v] BY <1>5
  <2> HIDE DEF v
  <2>3. Promised(v) BY <1>3, <2>1 DEF Promised
  <2> QED BY <1>1, <2>2, <2>3, PromiseStep
<1>6. CASE ~(thread' = [thread EXCEPT ![t].at = "lock", ![t].force = TRUE])
  <2>1. PICK l \in {"take", "take_only", "fallback"} :
            /\ thread' = [thread EXCEPT ![t].at = l]
            /\ l = "take" => token.kid \in DOMAIN keys
            /\ l = "fallback" => token.kid = None \/
                                 (thread[t].at = "last_lookup" /\ token.kid \notin DOMAIN keys)
    BY <1>6 DEF Lookup, Goto
  <2> DEFINE v == [thread[t] EXCEPT !.at = l]
  <2>2. v.at = l /\ v.token = token /\ v.entitled = thread[t].entitled BY <1>2 DEF Requests
  <2>3. thread' = [thread EXCEPT ![t] = v] BY <2>1
  <2>4. Has(published, token) /\ l = "take" => Has(keys, token)
    BY <2>1, CachedIsPublished DEF IInv, RotationInv
  <2> HIDE DEF v
  <2>5. thread[t].entitled => l # "fallback" BY <1>3, <1>4, <2>1 DEF Has
  <2>6. Promised(v) BY <1>3, <2>2, <2>4, <2>5 DEF Promised
  <2> QED BY <1>1, <2>3, <2>6, PromiseStep
<1> QED BY <1>5, <1>6

\* A request that is entitled does not give up when it verifies its token.
LEMMA EntitledVerifies ==
    ASSUME IInv, RotationInv, NEW t \in Threads, Take(t) \/ TakeOnly(t) \/ TryFallback(t),
           thread[t].entitled
    PROVE  Answer(t, thread[t].token.key)
<1>1. thread[t].at \in {"take", "take_only", "fallback"} BY DEF Take, TakeOnly, TryFallback
<1>2. /\ thread[t].token.valid /\ Has(published, thread[t].token)
      /\ thread[t].at # "fallback"
      /\ thread[t].at = "take" => Has(keys, thread[t].token)
  BY <1>1 DEF RotationInv, Entitled, Open
<1>3. thread[t].token.kid # None
  BY <1>2, SigningKeysAssumption DEF Has, published, IInv, TypeOK
<1>4. thread[t].at = "take" BY <1>1, <1>2, <1>3 DEF IInv, OnlyKey
<1>5. Take(t) BY <1>4 DEF TakeOnly, TryFallback
<1> QED BY <1>2, <1>4, <1>5 DEF Take, Verify, Has

\* A request is answered, or has to fall back.
LEMMA PromiseVerify ==
    ASSUME IInv, RotationInv, NEW t \in Threads,
           Take(t) \/ TakeOnly(t) \/ TryFallback(t) \/ Respond(t)
    PROVE  RotationInv'
<1>1. UNCHANGED <<rotation, keys>> BY DEF Take, TakeOnly, TryFallback, Respond, cache
<1>2. ASSUME NEW key, Answer(t, key) PROVE RotationInv'
  <2> DEFINE v == [at |-> "answered", token |-> thread[t].token, key |-> key]
  <2>1. thread' = [thread EXCEPT ![t] = v] BY <1>2 DEF Answer
  <2>2. v.at = "answered" OBVIOUS
  <2> HIDE DEF v
  <2>3. Promised(v) BY <2>2 DEF Promised
  <2> QED BY <1>1, <2>1, <2>3, PromiseStep
<1>3. CASE Respond(t)
  <2>1. Promised(Idle) BY DEF Promised, Idle
  <2> QED BY <1>1, <1>3, <2>1, PromiseStep DEF Respond
<1>4. CASE Take(t) \/ TakeOnly(t) \/ TryFallback(t)
  <2>1. CASE thread[t].entitled BY <1>2, <1>4, <2>1, EntitledVerifies
  <2>2. CASE ~thread[t].entitled /\ Goto(t, "fallback")
    <3>1. thread[t].at \in {"take", "take_only", "fallback"} BY <1>4 DEF Take, TakeOnly, TryFallback
    <3>2. thread[t] \in Requests BY <3>1 DEF IInv, TypeOK, Idle, Answered
    <3> DEFINE v == [thread[t] EXCEPT !.at = "fallback"]
    <3>3. v.at = "fallback" /\ v.entitled = thread[t].entitled BY <3>2 DEF Requests
    <3>4. thread' = [thread EXCEPT ![t] = v] BY <2>2 DEF Goto
    <3> HIDE DEF v
    <3>5. Promised(v) BY <2>2, <3>3 DEF Promised
    <3> QED BY <1>1, <3>4, <3>5, PromiseStep
  <2>3. CASE ~Goto(t, "fallback")
    <3>1. PICK key : Answer(t, key) BY <1>4, <2>3 DEF Take, TakeOnly, TryFallback, Verify
    <3> QED BY <3>1, <1>2
  <2> QED BY <2>1, <2>2, <2>3
<1> QED BY <1>3, <1>4

\* identity-service publishes the next document, or time passes.
LEMMA PromiseOther ==
    ASSUME IInv, RotationInv, Rotate \/ Tick
    PROVE  RotationInv'
<1>1. rotation \in Nat BY SigningKeysAssumption DEF IInv, TypeOK
<1>2. UNCHANGED keys /\ rotation' \in {rotation, rotation + 1} BY DEF Rotate, Tick, cache
<1>3. \A t \in Threads : /\ thread'[t].at = thread[t].at
                         /\ Open(t) /\ thread'[t].entitled => thread[t].entitled
                         /\ Open(t) => thread'[t].token = thread[t].token
                         /\ thread[t].at = "apply" => /\ thread'[t].force = thread[t].force
                                                      /\ thread'[t].document = thread[t].document
  BY RotateThread, TickThread DEF IInv, Open
<1>4. \A t \in Threads : Open(t) /\ thread'[t].entitled => Has(published', thread[t].token)
  <2>1. CASE Rotate BY <2>1, RotateThread DEF IInv, published, Rotate
  <2>2. CASE Tick BY <2>2, <1>3 DEF RotationInv, Entitled, published, Tick
  <2> QED BY <2>1, <2>2
<1>5. InOrder'
  <2>1. CASE DOMAIN keys = {} BY <1>2, <2>1 DEF InOrder
  <2>2. CASE DOMAIN keys # {}
    <3>1. PICK m \in 1..rotation :
            keys = Documents[m] /\ \A u \in Threads : thread[u].at = "apply" => m =< thread[u].document
      BY <2>2 DEF RotationInv, InOrder
    <3>2. m \in 1..rotation' BY <1>1, <1>2
    <3> QED BY <1>2, <1>3, <3>1, <3>2 DEF InOrder
  <2> QED BY <2>1, <2>2
<1>6. Entitled' BY <1>2, <1>3, <1>4 DEF RotationInv, Entitled, Open
<1> QED BY <1>5, <1>6 DEF RotationInv

\* If identity-service publishes every key without a break and under a kid of its
\* own, a valid token whose key is published while its request lasts is accepted,
\* from any state of the cache and whatever fetches overlap, unless its own failed.
THEOREM RotationsSeamless == ASSUME KeysPublishedOnce PROVE Spec => PublishedKeysAccepted
<1>1. Init => RotationInv
  BY DEF Init, RotationInv, InOrder, Entitled, Open, Idle
<1>2. ASSUME IInv, RotationInv, [Next]_vars PROVE RotationInv'
  <2>1. CASE UNCHANGED vars
    BY <1>2, <2>1 DEF vars, cache, RotationInv, InOrder, Entitled, Open, published
  <2>2. CASE Next
    BY <1>2, <2>2, PromiseFetch, PromiseApply, PromiseLookup, PromiseVerify, PromiseOther DEF Next, Step
  <2> QED BY <1>2, <2>1, <2>2
<1>3. ASSUME IInv, RotationInv, [Next]_vars, NEW t \in Threads, Answers(t), thread[t].entitled
      PROVE  thread'[t].key = thread[t].token.key
  <2>1. Take(t) \/ TakeOnly(t) \/ TryFallback(t) BY <1>3, AnsweredBy
  <2>2. Answer(t, thread[t].token.key) BY <1>3, <2>1, EntitledVerifies
  <2> QED BY <1>3, <2>2 DEF Answer, IInv, TypeOK
<1>4. IInv /\ RotationInv /\ [Next]_vars =>
        [\A t \in Threads : Answers(t) /\ thread[t].entitled => thread'[t].key = thread[t].token.key]_vars
  BY <1>3
<1> QED BY <1>1, <1>2, <1>4, Invariance, PTL DEF Spec, PublishedKeysAccepted

=============================================================================
