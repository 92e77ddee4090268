-------------------------- MODULE ShareLinksProofs --------------------------
(***************************************************************************)
(* Proofs about ShareLinks for any number of requests, objects and links:  *)
(* the cap, revocation, the foreign key and the bytes of what is redeemed. *)
(***************************************************************************)
EXTENDS ShareLinks, TLAPS

(***************************************************************************)
(* The inductive invariant                                                 *)
(***************************************************************************)

\* Request p has locked link l: it redeems the link, or deletes its object.
Holds(p, l) ==
    \/ proc[p].at \in {"lock_object", "validate", "consume"} /\ proc[p].link = l
    \/ proc[p].at \in {"delete_row", "delete_blob", "commit"} /\ l \in proc[p].links

\* Whoever has locked a link is alone with it, and the link is there.
HoldersLock ==
    \A p \in Procs, l \in Links : Holds(p, l) => linkLock[l] = p /\ l \in LiveLinks

\* The links that a deletion has locked are links of its object.
CascadeOwn ==
    \A p \in Procs : proc[p].at \in {"delete_row", "delete_blob", "commit"} =>
        \A l \in proc[p].links : link[l].object = proc[p].object

\* A redemption past LockObject has locked the object, which is there.
RedeemersLock ==
    \A p \in Procs : proc[p].at \in {"validate", "consume"} =>
        LET o == link[proc[p].link].object IN objLock[o] = p /\ o \in obj

\* A deletion past DeleteRow has locked the object, or there is none.
DeletersLock ==
    \A p \in Procs : proc[p].at \in {"delete_blob", "commit"} =>
        IF proc[p].found
        THEN objLock[proc[p].object] = p /\ proc[p].object \in obj
        ELSE proc[p].object \notin obj

\* What Validate has found out about the link still holds at Consume, except
\* that the time may have come.
StillActive ==
    \A p \in Procs : proc[p].at = "consume" =>
        LET row == link[proc[p].link]
        IN  ~row.revoked /\ (row.max_downloads # None => row.download_count < row.max_downloads)

\* An object without its bytes has lost them to a deletion that was rolled
\* back, or to one that has not committed and still has the object locked.
BytesKept ==
    \A o \in obj :
        \/ o \in blob \cup torn
        \/ \E p \in Procs : proc[p].at = "commit" /\ proc[p].object = o /\ proc[p].found

LockInv == HoldersLock /\ CascadeOwn /\ RedeemersLock /\ DeletersLock

IInv ==
    /\ TypeOK /\ LockInv
    /\ StillActive /\ BytesKept
    /\ DownloadsCapped /\ LinksHaveObjects

(***************************************************************************)
(* Types                                                                   *)
(***************************************************************************)

\* What a request is about to do tells which local variables it has.
LEMMA LocalVariables ==
    ASSUME TypeOK, NEW p \in Procs
    PROVE  /\ proc[p].at = "insert" => proc[p] \in Creating
           /\ proc[p].at \in {"revoke", "lock_link", "lock_object", "validate", "consume"}
                => proc[p] \in Using
           /\ proc[p].at = "download" => proc[p] \in Serving
           /\ proc[p].at \in {"cascade", "delete_row", "delete_blob", "commit"}
                => proc[p] \in Deleting
BY DEF TypeOK, Idle, Creating, Using, Serving, Deleting

\* The program counter moves within the records of a kind.
LEMMA UsingStep ==
    ASSUME NEW r \in Using, NEW at \in {"lock_object", "validate", "consume"}
    PROVE  LET s == [r EXCEPT !.at = at]
           IN  s \in Using /\ s.at = at /\ s.link = r.link
BY DEF Using

\* A deletion that goes on keeps its object, its links and what it found.
LEMMA DeletingStep ==
    ASSUME NEW r \in Deleting, NEW at \in {"delete_row", "delete_blob", "commit"}
    PROVE  LET s == [r EXCEPT !.at = at]
           IN  /\ s \in Deleting /\ s.at = at /\ s.object = r.object
               /\ s.links = r.links /\ s.found = r.found
BY DEF Deleting

\* The cascade notes the links it deletes.
LEMMA DeletingLinks ==
    ASSUME NEW r \in Deleting, NEW ls \in SUBSET Links
    PROVE  LET s == [r EXCEPT !.at = "delete_row", !.links = ls]
           IN  s \in Deleting /\ s.at = "delete_row" /\ s.object = r.object /\ s.links = ls
BY DEF Deleting

\* DeleteRow notes whether there was a row to delete.
LEMMA DeletingFound ==
    ASSUME NEW r \in Deleting, NEW b \in BOOLEAN
    PROVE  LET s == [r EXCEPT !.at = "delete_blob", !.found = b]
           IN  /\ s \in Deleting /\ s.at = "delete_blob" /\ s.object = r.object
               /\ s.links = r.links /\ s.found = b
BY DEF Deleting

\* Moving one request leaves the others where they are.
LEMMA GotoStep ==
    ASSUME TypeOK, NEW p \in Procs, NEW next, Goto(p, next)
    PROVE  /\ proc'[p] = next
           /\ \A q \in Procs : q # p => proc'[q] = proc[q]
           /\ next \in {Idle} \cup Creating \cup Using \cup Serving \cup Deleting =>
                proc' \in [Procs -> {Idle} \cup Creating \cup Using \cup Serving \cup Deleting]
<1> DEFINE K == {Idle} \cup Creating \cup Using \cup Serving \cup Deleting
<1>1. proc \in [Procs -> K] BY DEF TypeOK
<1>2. proc' = [proc EXCEPT ![p] = next] BY DEF Goto
<1> HIDE DEF K
<1>3. /\ proc'[p] = next
      /\ \A q \in Procs : q # p => proc'[q] = proc[q]
      /\ next \in K => proc' \in [Procs -> K]
  BY <1>1, <1>2
<1> QED BY <1>3 DEF K

\* The end of a transaction frees what it had locked and nothing else.
LEMMA FreeStep ==
    ASSUME NEW D, NEW lock \in [D -> Procs \cup {None}], NEW p \in Procs
    PROVE  /\ Free(lock, p) \in [D -> Procs \cup {None}]
           /\ \A r \in D : lock[r] # p => Free(lock, p)[r] = lock[r]
BY DEF Free

(***************************************************************************)
(* Steps                                                                   *)
(***************************************************************************)

\* A request that only starts, or only ends, without a change of rows and
\* without a lock that others rely on, disturbs no part of the invariant.
LEMMA QuietStep ==
    ASSUME IInv, NEW p \in Procs,
           NEW next \in {Idle} \cup Creating \cup Using \cup Serving \cup Deleting,
           next.at \in {"idle", "insert", "revoke", "lock_link", "cascade"},
           Goto(p, next),
           proc[p].at # "commit",
           UNCHANGED <<rows, granted, torn>>,
           linkLock' \in {linkLock, Free(linkLock, p)},
           objLock' \in {objLock, Free(objLock, p)},
           now' \in 0..MaxTime, asked' \in 0..MaxRequests
    PROVE  IInv'
<1>1. /\ proc'[p] = next
      /\ \A q \in Procs : q # p => proc'[q] = proc[q]
      /\ proc' \in [Procs -> {Idle} \cup Creating \cup Using \cup Serving \cup Deleting]
  BY GotoStep DEF IInv
<1>2. /\ linkLock' \in [Links -> Procs \cup {None}]
      /\ \A l \in Links : linkLock[l] # p => linkLock'[l] = linkLock[l]
  BY FreeStep DEF IInv, TypeOK
<1>3. /\ objLock' \in [Objects -> Procs \cup {None}]
      /\ \A o \in Objects : objLock[o] # p => objLock'[o] = objLock[o]
  BY FreeStep DEF IInv, TypeOK
<1>4. TypeOK' BY <1>1, <1>2, <1>3 DEF IInv, TypeOK, rows, LinkRows
<1>5. LiveLinks' = LiveLinks BY DEF LiveLinks, rows
<1>6. HoldersLock' BY <1>1, <1>2, <1>5 DEF IInv, LockInv, HoldersLock, Holds
<1>7. CascadeOwn' BY <1>1 DEF IInv, LockInv, CascadeOwn, rows
<1>8. RedeemersLock'
  <2> SUFFICES ASSUME NEW q \in Procs, proc'[q].at \in {"validate", "consume"}
               PROVE  LET o == link[proc[q].link].object
                      IN  objLock'[o] = q /\ o \in obj /\ proc'[q] = proc[q]
    BY DEF RedeemersLock, rows
  <2> QED BY <1>1, <1>3 DEF IInv, LockInv, RedeemersLock, TypeOK
<1>9. DeletersLock'
  <2> SUFFICES ASSUME NEW q \in Procs, proc'[q].at \in {"delete_blob", "commit"}
               PROVE  /\ proc'[q] = proc[q]
                      /\ IF proc[q].found
                         THEN objLock'[proc[q].object] = q /\ proc[q].object \in obj
                         ELSE proc[q].object \notin obj
    BY DEF DeletersLock, rows
  <2> QED BY <1>1, <1>3 DEF IInv, LockInv, DeletersLock, TypeOK
<1>10. StillActive' BY <1>1 DEF IInv, StillActive, rows
<1>11. BytesKept' BY <1>1 DEF IInv, BytesKept, rows
<1>12. DownloadsCapped' /\ LinksHaveObjects'
  BY <1>5 DEF IInv, DownloadsCapped, LinksHaveObjects, rows
<1> QED BY <1>4, <1>6, <1>7, <1>8, <1>9, <1>10, <1>11, <1>12 DEF IInv, LockInv

\* A request that starts holds nothing yet.
LEMMA AskStep ==
    ASSUME IInv, NEW p \in Procs, NEW next \in Creating \cup Using \cup Deleting,
           next.at \in {"insert", "revoke", "lock_link", "cascade"},
           Ask(p, next)
    PROVE  IInv'
<1>1. Goto(p, next) /\ UNCHANGED <<rows, locks, now, granted, torn>> BY DEF Ask
<1>2. linkLock' = linkLock /\ objLock' = objLock BY <1>1 DEF locks
<1>3. proc[p].at # "commit" BY DEF Ask, Idle
<1>4. asked' \in 0..MaxRequests /\ now' \in 0..MaxTime
  BY <1>1, ShareLinksAssumption DEF Ask, IInv, TypeOK
<1> QED BY <1>1, <1>2, <1>3, <1>4, QuietStep

\* Every way a request can start keeps the invariant.
LEMMA RequestStep ==
    ASSUME IInv, NEW p \in Procs, Request(p)
    PROVE  IInv'
<1>1. ASSUME NEW o \in Objects, NEW cap \in Caps, NEW expiry \in Expiries,
             CheckCreate(p, o, cap, expiry)
      PROVE  IInv'
  <2> DEFINE r == [at |-> "insert", object |-> o, cap |-> cap, expiry |-> expiry]
  <2>1. r \in Creating /\ r.at = "insert" BY DEF Creating
  <2>2. Ask(p, r) BY <1>1 DEF CheckCreate
  <2> HIDE DEF r
  <2> QED BY <2>1, <2>2, AskStep
<1>2. ASSUME NEW l \in LiveLinks, NEW at \in {"revoke", "lock_link"},
             Ask(p, [at |-> at, link |-> l])
      PROVE  IInv'
  <2> DEFINE r == [at |-> at, link |-> l]
  <2>1. r \in Using /\ r.at = at BY DEF Using, LiveLinks
  <2>2. Ask(p, r) BY <1>2
  <2> HIDE DEF r
  <2> QED BY <2>1, <2>2, AskStep
<1>3. ASSUME NEW o \in Objects, Delete(p, o)
      PROVE  IInv'
  <2> DEFINE r == [at |-> "cascade", object |-> o, links |-> {}, found |-> FALSE]
  <2>1. r \in Deleting /\ r.at = "cascade" BY DEF Deleting
  <2>2. Ask(p, r) BY <1>3 DEF Delete
  <2> HIDE DEF r
  <2> QED BY <2>1, <2>2, AskStep
<1>4. ASSUME NEW l \in LiveLinks, ReadRevoke(p, l) \/ Redeem(p, l)
      PROVE  IInv'
  <2>1. CASE ReadRevoke(p, l) BY <2>1, <1>2 DEF ReadRevoke
  <2>2. CASE Redeem(p, l) BY <2>2, <1>2 DEF Redeem
  <2> QED BY <1>4, <2>1, <2>2
<1> QED BY <1>1, <1>3, <1>4 DEF Request

\* A link is inserted under a token that no request knows.
LEMMA InsertStep ==
    ASSUME IInv, NEW p \in Procs, Insert(p)
    PROVE  IInv'
<1> DEFINE r == proc[p]
<1>1. r \in Creating /\ r.at = "insert" BY LocalVariables DEF IInv, Insert
<1>2. /\ proc'[p] = Idle
      /\ \A q \in Procs : q # p => proc'[q] = proc[q]
      /\ proc' \in [Procs -> {Idle} \cup Creating \cup Using \cup Serving \cup Deleting]
  BY GotoStep DEF IInv, Insert
<1>3. proc'[p].at = "idle" BY <1>2 DEF Idle
<1>4. UNCHANGED <<obj, blob, linkLock, objLock, now, asked, granted, torn>>
  BY DEF Insert, locks
<1>5. CASE r.object \in obj
  <2>1. PICK l \in Links : Token(l) /\ link' = [link EXCEPT ![l] = NewLink(r)]
    BY <1>5 DEF Insert
  <2> DEFINE new == NewLink(r)
  <2>2. /\ new \in LinkRows
        /\ new.object = r.object /\ new.download_count = 0
    BY <1>1 DEF NewLink, LinkRows, Creating
  <2> HIDE DEF new
  <2>3. /\ link'[l] = new
        /\ \A k \in Links : k # l => link'[k] = link[k]
        /\ link' \in [Links -> LinkRows \cup {None}]
    BY <2>1, <2>2 DEF IInv, TypeOK, new
  <2>4. /\ l \notin LiveLinks /\ granted[l] = 0
        /\ \A q \in Procs : "link" \in DOMAIN proc[q] => proc[q].link # l
    BY <2>1 DEF Token
  <2>5. TypeOK' BY <1>2, <1>4, <2>3 DEF IInv, TypeOK, LinkRows
  <2>6. LiveLinks \subseteq LiveLinks' /\ LiveLinks' \subseteq LiveLinks \cup {l}
    BY <2>3, <2>4 DEF LiveLinks
  <2>7. ASSUME NEW q \in Procs, NEW k \in Links, Holds(q, k)' PROVE  Holds(q, k) /\ k # l
    <3>1. Holds(q, k) BY <2>7, <1>2, <1>3 DEF Holds
    <3> QED BY <3>1, <2>4 DEF IInv, LockInv, HoldersLock
  <2>8. HoldersLock' BY <2>7, <2>6, <1>4 DEF IInv, LockInv, HoldersLock
  <2>9. CascadeOwn'
    <3> SUFFICES ASSUME NEW q \in Procs, proc'[q].at \in {"delete_row", "delete_blob", "commit"},
                        NEW k \in proc'[q].links
                 PROVE  link'[k].object = proc'[q].object
      BY DEF CascadeOwn
    <3>1. proc'[q] = proc[q] /\ q # p BY <1>2, <1>3
    <3>2. proc[q] \in Deleting /\ k \in Links BY <3>1, LocalVariables DEF IInv, Deleting
    <3>3. Holds(q, k)' BY DEF Holds
    <3> QED BY <3>1, <3>2, <3>3, <2>7, <2>3 DEF IInv, LockInv, CascadeOwn
  <2>10. ASSUME NEW q \in Procs, proc'[q].at \in {"validate", "consume"}
         PROVE  proc'[q] = proc[q] /\ link'[proc[q].link] = link[proc[q].link]
    <3>1. proc'[q] = proc[q] /\ q # p BY <1>2, <1>3, <2>10
    <3>2. proc[q] \in Using BY <3>1, <2>10, LocalVariables DEF IInv
    <3> QED BY <3>1, <3>2, <2>3, <2>4 DEF Using
  <2>11. RedeemersLock' BY <2>10, <1>4 DEF IInv, LockInv, RedeemersLock
  <2>12. DeletersLock' BY <1>2, <1>3, <1>4 DEF IInv, LockInv, DeletersLock
  <2>13. StillActive' BY <2>10 DEF IInv, StillActive
  <2>14. BytesKept' BY <1>2, <1>4, <1>1 DEF IInv, BytesKept
  <2>15. DownloadsCapped'
    <3> SUFFICES ASSUME NEW k \in LiveLinks'
                 PROVE  /\ link'[k].download_count = granted[k]
                        /\ link'[k].max_downloads # None => granted[k] =< link'[k].max_downloads
      BY <1>4 DEF DownloadsCapped
    <3>1. CASE k = l
      <4>1. new.max_downloads \in Caps BY <2>2 DEF LinkRows
      <4>2. new.max_downloads # None => new.max_downloads \in Nat
        BY <4>1, ShareLinksAssumption
      <4> QED BY <3>1, <4>2, <2>2, <2>3, <2>4
    <3>2. CASE k # l BY <3>2, <2>6, <2>3 DEF IInv, DownloadsCapped, LiveLinks
    <3> QED BY <3>1, <3>2
  <2>16. LinksHaveObjects' BY <2>6, <2>2, <2>3, <1>4, <1>5 DEF IInv, LinksHaveObjects, LiveLinks
  <2> QED BY <2>5, <2>8, <2>9, <2>11, <2>12, <2>13, <2>14, <2>15, <2>16 DEF IInv, LockInv
<1>6. CASE r.object \notin obj
  <2>1. UNCHANGED rows BY <1>6 DEF Insert, rows
  <2>2. Idle.at = "idle" /\ Goto(p, Idle) BY DEF Idle, Insert
  <2>3. now' \in 0..MaxTime /\ asked' \in 0..MaxRequests BY <1>4 DEF IInv, TypeOK
  <2>4. proc[p].at # "commit" BY <1>1
  <2> QED BY <2>1, <2>2, <2>3, <2>4, <1>4, QuietStep
<1> QED BY <1>5, <1>6

\* Revocation waits for the link's lock, so nobody is redeeming the link.
LEMMA RevokeStep ==
    ASSUME IInv, NEW p \in Procs, Revoke(p)
    PROVE  IInv'
<1> DEFINE l == proc[p].link
<1>1. proc[p] \in Using /\ proc[p].at = "revoke" /\ l \in Links
  BY LocalVariables DEF IInv, Revoke, Using
<1>2. /\ proc'[p] = Idle
      /\ \A q \in Procs : q # p => proc'[q] = proc[q]
      /\ proc' \in [Procs -> {Idle} \cup Creating \cup Using \cup Serving \cup Deleting]
  BY GotoStep DEF IInv, Revoke
<1>3. proc'[p].at = "idle" BY <1>2 DEF Idle
<1>4. UNCHANGED <<obj, blob, linkLock, objLock, now, asked, granted, torn>>
  BY DEF Revoke, locks
<1>5. linkLock[l] = None /\ None \notin Procs BY ShareLinksAssumption DEF Revoke
<1> HIDE DEF l
<1>6. CASE l \in LiveLinks
  <2>1. link' = [link EXCEPT ![l].revoked = TRUE] BY <1>6 DEF Revoke, l
  <2>2. link[l] \in LinkRows BY <1>1, <1>6 DEF IInv, TypeOK, LiveLinks
  <2>3. /\ link'[l] = [link[l] EXCEPT !.revoked = TRUE]
        /\ \A k \in Links : k # l => link'[k] = link[k]
        /\ DOMAIN link' = Links
    BY <1>1, <2>1 DEF IInv, TypeOK
  <2>4. /\ link'[l] \in LinkRows
        /\ link'[l].object = link[l].object
        /\ link'[l].download_count = link[l].download_count
        /\ link'[l].max_downloads = link[l].max_downloads
    BY <2>2, <2>3 DEF LinkRows
  <2>5. link' \in [Links -> LinkRows \cup {None}] BY <2>1, <2>3, <2>4 DEF IInv, TypeOK
  <2>6. TypeOK' BY <1>2, <1>4, <2>5 DEF IInv, TypeOK, LinkRows
  <2>7. LiveLinks' \subseteq LiveLinks /\ \A k \in LiveLinks : k # l => k \in LiveLinks'
    BY <1>6, <2>3 DEF LiveLinks
  <2>8. \A k \in Links : link[k] # None => link'[k].object = link[k].object BY <2>3, <2>4
  <2>9. ASSUME NEW q \in Procs, NEW k \in Links, Holds(q, k)'
        PROVE  Holds(q, k) /\ k # l /\ k \in LiveLinks /\ linkLock[k] = q
    <3>1. Holds(q, k) BY <2>9, <1>2, <1>3 DEF Holds
    <3> QED BY <3>1, <1>5 DEF IInv, LockInv, HoldersLock
  <2>10. HoldersLock' BY <2>9, <2>7, <1>4 DEF HoldersLock
  <2>11. CascadeOwn'
    <3> SUFFICES ASSUME NEW q \in Procs, proc'[q].at \in {"delete_row", "delete_blob", "commit"},
                        NEW k \in proc'[q].links
                 PROVE  link'[k].object = proc'[q].object
      BY DEF CascadeOwn
    <3>1. proc'[q] = proc[q] /\ q # p BY <1>2, <1>3
    <3>2. proc[q] \in Deleting /\ k \in Links BY <3>1, LocalVariables DEF IInv, Deleting
    <3>3. Holds(q, k)' BY DEF Holds
    <3> QED BY <3>1, <3>2, <3>3, <2>9, <2>3 DEF IInv, LockInv, CascadeOwn
  <2>12. ASSUME NEW q \in Procs, proc'[q].at \in {"validate", "consume"}
         PROVE  proc'[q] = proc[q] /\ link'[proc[q].link] = link[proc[q].link]
    <3>1. proc'[q] = proc[q] /\ q # p BY <1>2, <1>3, <2>12
    <3>2. proc[q] \in Using BY <3>1, <2>12, LocalVariables DEF IInv
    <3>3. proc[q].link \in Links BY <3>2 DEF Using
    <3>4. Holds(q, proc[q].link)' BY <3>1, <2>12 DEF Holds
    <3> QED BY <3>1, <3>3, <3>4, <2>9, <2>3
  <2>13. RedeemersLock' BY <2>12, <1>4 DEF IInv, LockInv, RedeemersLock
  <2>14. DeletersLock' BY <1>2, <1>3, <1>4 DEF IInv, LockInv, DeletersLock
  <2>15. StillActive' BY <2>12 DEF IInv, StillActive
  <2>16. BytesKept' BY <1>2, <1>4, <1>1 DEF IInv, BytesKept
  <2>17. DownloadsCapped' /\ LinksHaveObjects'
    BY <2>3, <2>4, <2>7, <1>4 DEF IInv, DownloadsCapped, LinksHaveObjects, LiveLinks
  <2> QED BY <2>6, <2>10, <2>11, <2>13, <2>14, <2>15, <2>16, <2>17 DEF IInv, LockInv
<1>7. CASE l \notin LiveLinks
  <2>1. UNCHANGED rows BY <1>7, <1>4 DEF Revoke, rows, l
  <2>2. Idle.at = "idle" /\ Goto(p, Idle) BY DEF Idle, Revoke
  <2>3. now' \in 0..MaxTime /\ asked' \in 0..MaxRequests BY <1>4 DEF IInv, TypeOK
  <2>4. proc[p].at # "commit" BY <1>1
  <2> QED BY <2>1, <2>2, <2>3, <2>4, <1>4, QuietStep
<1> QED BY <1>6, <1>7

\* A request gives up without a change: 404, 410, or the end of a download.
LEMMA GiveUpStep ==
    ASSUME IInv, NEW p \in Procs, proc[p].at # "commit", Goto(p, Idle),
           UNCHANGED <<rows, now, asked, granted, torn>>,
           linkLock' \in {linkLock, Free(linkLock, p)},
           objLock' \in {objLock, Free(objLock, p)}
    PROVE  IInv'
<1>1. Idle.at = "idle" BY DEF Idle
<1>2. now' \in 0..MaxTime /\ asked' \in 0..MaxRequests BY DEF IInv, TypeOK
<1> QED BY <1>1, <1>2, QuietStep

\* No row changes: what says nothing about locks and requests is kept.
LEMMA RowsKept ==
    ASSUME IInv, UNCHANGED <<rows, granted, torn>>
    PROVE  /\ LiveLinks' = LiveLinks
           /\ link' = link /\ obj' = obj /\ blob' = blob
           /\ DownloadsCapped' /\ LinksHaveObjects'
<1>1. LiveLinks' = LiveLinks BY DEF LiveLinks, rows
<1>2. link' = link /\ obj' = obj /\ blob' = blob BY DEF rows
<1>3. DownloadsCapped' /\ LinksHaveObjects'
  BY <1>1, <1>2 DEF IInv, DownloadsCapped, LinksHaveObjects
<1> QED BY <1>1, <1>2, <1>3

\* The redeemer that gets the link's row is alone with it.
LEMMA LockLinkStep ==
    ASSUME IInv, NEW p \in Procs, LockLink(p)
    PROVE  IInv'
<1> DEFINE l == proc[p].link
           next == [proc[p] EXCEPT !.at = "lock_object"]
<1>1. proc[p] \in Using /\ proc[p].at = "lock_link" /\ l \in Links
  BY LocalVariables DEF IInv, LockLink, Using
<1>2. UNCHANGED <<rows, objLock, now, asked, granted, torn>> BY DEF LockLink
<1>3. CASE l \in LiveLinks
  <2>1. linkLock' = [linkLock EXCEPT ![l] = p] /\ Goto(p, next) /\ linkLock[l] = None
    BY <1>3 DEF LockLink
  <2>2. next \in Using /\ next.at = "lock_object" /\ next.link = l BY <1>1, UsingStep
  <2> HIDE DEF l, next
  <2>3. /\ proc'[p] = next
        /\ \A q \in Procs : q # p => proc'[q] = proc[q]
        /\ proc' \in [Procs -> {Idle} \cup Creating \cup Using \cup Serving \cup Deleting]
    BY <2>1, <2>2, GotoStep DEF IInv
  <2>4. /\ linkLock' \in [Links -> Procs \cup {None}]
        /\ linkLock'[l] = p
        /\ \A k \in Links : k # l => linkLock'[k] = linkLock[k]
    BY <1>1, <2>1 DEF IInv, TypeOK
  <2>5. /\ LiveLinks' = LiveLinks
        /\ link' = link /\ obj' = obj /\ blob' = blob
        /\ DownloadsCapped' /\ LinksHaveObjects'
    BY <1>2, RowsKept
  <2>6. TypeOK' BY <2>3, <2>4, <2>5, <1>2 DEF IInv, TypeOK, LinkRows
  <2>7. HoldersLock'
    <3> SUFFICES ASSUME NEW q \in Procs, NEW k \in Links, Holds(q, k)'
                 PROVE  linkLock'[k] = q /\ k \in LiveLinks
      BY <2>5 DEF HoldersLock
    <3>1. CASE q = p BY <3>1, <2>2, <2>3, <2>4, <1>3 DEF Holds
    <3>2. CASE q # p
      <4>1. Holds(q, k) BY <3>2, <2>3 DEF Holds
      <4> QED BY <4>1, <2>1, <2>4, ShareLinksAssumption DEF IInv, LockInv, HoldersLock
    <3> QED BY <3>1, <3>2
  <2>8. CascadeOwn' BY <2>2, <2>3, <2>5 DEF IInv, LockInv, CascadeOwn
  <2>9. RedeemersLock' BY <2>2, <2>3, <2>5, <1>2 DEF IInv, LockInv, RedeemersLock
  <2>10. DeletersLock' BY <2>2, <2>3, <2>5, <1>2 DEF IInv, LockInv, DeletersLock
  <2>11. StillActive' BY <2>2, <2>3, <2>5 DEF IInv, StillActive
  <2>12. BytesKept' BY <1>1, <1>2, <2>3, <2>5 DEF IInv, BytesKept
  <2> QED BY <2>5, <2>6, <2>7, <2>8, <2>9, <2>10, <2>11, <2>12 DEF IInv, LockInv
<1>4. CASE l \notin LiveLinks
  <2>1. UNCHANGED linkLock /\ Goto(p, Idle) BY <1>4 DEF LockLink
  <2> QED BY <1>1, <1>2, <2>1, GiveUpStep
<1> QED BY <1>3, <1>4

\* ... and then with the object's row, or gives up if the object is gone.
LEMMA LockObjectStep ==
    ASSUME IInv, NEW p \in Procs, LockObject(p)
    PROVE  IInv'
<1> DEFINE l == proc[p].link
           o == link[l].object
           next == [proc[p] EXCEPT !.at = "validate"]
<1>1. proc[p] \in Using /\ proc[p].at = "lock_object" /\ l \in Links
  BY LocalVariables DEF IInv, LockObject, Using
<1>2. UNCHANGED <<rows, now, asked, granted, torn>> /\ objLock[o] = None BY DEF LockObject
<1>3. CASE o \in obj
  <2>1. objLock' = [objLock EXCEPT ![o] = p] /\ Goto(p, next) /\ linkLock' = linkLock
    BY <1>3 DEF LockObject
  <2>2. next \in Using /\ next.at = "validate" /\ next.link = l BY <1>1, UsingStep
  <2> HIDE DEF l, next
  <2>3. /\ proc'[p] = next
        /\ \A q \in Procs : q # p => proc'[q] = proc[q]
        /\ proc' \in [Procs -> {Idle} \cup Creating \cup Using \cup Serving \cup Deleting]
    BY <2>1, <2>2, GotoStep DEF IInv
  <2>4. o \in Objects BY <1>3 DEF IInv, TypeOK
  <2>5. /\ objLock' \in [Objects -> Procs \cup {None}]
        /\ objLock'[o] = p
        /\ \A k \in Objects : k # o => objLock'[k] = objLock[k]
    BY <2>1, <2>4 DEF IInv, TypeOK
  <2>6. /\ LiveLinks' = LiveLinks
        /\ link' = link /\ obj' = obj /\ blob' = blob
        /\ DownloadsCapped' /\ LinksHaveObjects'
    BY <1>2, RowsKept
  <2>7. TypeOK' BY <2>1, <2>3, <2>5, <2>6, <1>2 DEF IInv, TypeOK, LinkRows
  <2>8. HoldersLock'
    <3> SUFFICES ASSUME NEW q \in Procs, NEW k \in Links, Holds(q, k)'
                 PROVE  linkLock[k] = q /\ k \in LiveLinks
      BY <2>1, <2>6 DEF HoldersLock
    <3>1. Holds(q, k) BY <1>1, <2>2, <2>3 DEF Holds, l
    <3> QED BY <3>1 DEF IInv, LockInv, HoldersLock
  <2>9. CascadeOwn' BY <2>2, <2>3, <2>6 DEF IInv, LockInv, CascadeOwn
  <2>10. RedeemersLock'
    <3> SUFFICES ASSUME NEW q \in Procs, proc'[q].at \in {"validate", "consume"}
                 PROVE  LET x == link[proc'[q].link].object IN objLock'[x] = q /\ x \in obj
      BY <2>6 DEF RedeemersLock
    <3>1. CASE q = p BY <3>1, <2>2, <2>3, <2>5, <1>3
    <3>2. CASE q # p
      <4> DEFINE x == link[proc[q].link].object
      <4>1. proc'[q] = proc[q] BY <3>2, <2>3
      <4>2. objLock[x] = q /\ x \in obj BY <4>1 DEF IInv, LockInv, RedeemersLock
      <4>3. x # o /\ x \in Objects BY <4>2, <1>2, ShareLinksAssumption DEF IInv, TypeOK
      <4> QED BY <4>1, <4>2, <4>3, <2>5
    <3> QED BY <3>1, <3>2
  <2>11. DeletersLock'
    <3> SUFFICES ASSUME NEW q \in Procs, proc'[q].at \in {"delete_blob", "commit"}
                 PROVE  IF proc'[q].found
                        THEN objLock'[proc'[q].object] = q /\ proc'[q].object \in obj
                        ELSE proc'[q].object \notin obj
      BY <2>6 DEF DeletersLock
    <3>1. proc'[q] = proc[q] BY <2>2, <2>3
    <3>2. IF proc[q].found
          THEN objLock[proc[q].object] = q /\ proc[q].object \in obj
          ELSE proc[q].object \notin obj
      BY <3>1 DEF IInv, LockInv, DeletersLock
    <3> QED BY <3>1, <3>2, <2>5, <1>2, ShareLinksAssumption DEF IInv, TypeOK
  <2>12. StillActive' BY <2>2, <2>3, <2>6 DEF IInv, StillActive
  <2>13. BytesKept' BY <1>1, <1>2, <2>3, <2>6 DEF IInv, BytesKept
  <2> QED BY <2>6, <2>7, <2>8, <2>9, <2>10, <2>11, <2>12, <2>13 DEF IInv, LockInv
<1>4. CASE o \notin obj
  <2>1. End(p, Idle) BY <1>4 DEF LockObject
  <2> QED BY <1>1, <1>2, <2>1, GiveUpStep DEF End
<1> QED BY <1>3, <1>4

\* What is_active says of a locked link is still so at Consume.
LEMMA ValidateStep ==
    ASSUME IInv, NEW p \in Procs, Validate(p)
    PROVE  IInv'
<1> DEFINE l == proc[p].link
           next == [proc[p] EXCEPT !.at = "consume"]
<1>1. proc[p] \in Using /\ proc[p].at = "validate" /\ l \in Links
  BY LocalVariables DEF IInv, Validate, Using
<1>2. UNCHANGED <<rows, now, asked, granted, torn>> BY DEF Validate
<1>3. CASE is_active(l)
  <2>1. linkLock' = linkLock /\ objLock' = objLock /\ Goto(p, next)
    BY <1>3 DEF Validate, locks
  <2>2. next \in Using /\ next.at = "consume" /\ next.link = l BY <1>1, UsingStep
  <2> HIDE DEF l, next
  <2>3. /\ proc'[p] = next
        /\ \A q \in Procs : q # p => proc'[q] = proc[q]
        /\ proc' \in [Procs -> {Idle} \cup Creating \cup Using \cup Serving \cup Deleting]
    BY <2>1, <2>2, GotoStep DEF IInv
  <2>4. /\ LiveLinks' = LiveLinks
        /\ link' = link /\ obj' = obj /\ blob' = blob
        /\ DownloadsCapped' /\ LinksHaveObjects'
    BY <1>2, RowsKept
  <2>5. TypeOK' BY <2>1, <2>3, <2>4, <1>2 DEF IInv, TypeOK, LinkRows
  <2>6. HoldersLock'
    <3> SUFFICES ASSUME NEW q \in Procs, NEW k \in Links, Holds(q, k)'
                 PROVE  linkLock[k] = q /\ k \in LiveLinks
      BY <2>1, <2>4 DEF HoldersLock
    <3>1. Holds(q, k) BY <1>1, <2>2, <2>3 DEF Holds, l
    <3> QED BY <3>1 DEF IInv, LockInv, HoldersLock
  <2>7. CascadeOwn' BY <2>2, <2>3, <2>4 DEF IInv, LockInv, CascadeOwn
  <2>8. RedeemersLock' BY <1>1, <2>1, <2>2, <2>3, <2>4 DEF IInv, LockInv, RedeemersLock, l
  <2>9. DeletersLock' BY <2>1, <2>2, <2>3, <2>4 DEF IInv, LockInv, DeletersLock
  <2>10. StillActive' BY <1>3, <2>2, <2>3, <2>4 DEF IInv, StillActive, is_active
  <2>11. BytesKept' BY <1>1, <1>2, <2>3, <2>4 DEF IInv, BytesKept
  <2> QED BY <2>4, <2>5, <2>6, <2>7, <2>8, <2>9, <2>10, <2>11 DEF IInv, LockInv
<1>4. CASE ~is_active(l)
  <2>1. End(p, Idle) BY <1>4 DEF Validate
  <2> QED BY <1>1, <1>2, <2>1, GiveUpStep DEF End
<1> QED BY <1>3, <1>4

\* The download itself, after the commit, changes no row.
LEMMA DownloadStep ==
    ASSUME IInv, NEW p \in Procs, Download(p)
    PROVE  IInv'
BY GiveUpStep DEF Download, locks

\* A redemption is counted while its link is locked.
LEMMA ConsumeStep ==
    ASSUME IInv, NEW p \in Procs, Consume(p)
    PROVE  IInv'
<1> DEFINE l == proc[p].link
           next == [at |-> "download", link |-> l, object |-> link[l].object]
<1>1. proc[p] \in Using /\ proc[p].at = "consume" /\ l \in Links
  BY LocalVariables DEF IInv, Consume, Using
<1>2. Holds(p, l) BY <1>1 DEF Holds
<1>3. linkLock[l] = p /\ l \in LiveLinks BY <1>1, <1>2 DEF IInv, LockInv, HoldersLock
<1>4. link[l] \in LinkRows BY <1>1, <1>3 DEF IInv, TypeOK, LiveLinks
<1>5. next \in Serving /\ next.at = "download" BY <1>1, <1>4 DEF LinkRows, Serving
<1>6. /\ link' = [link EXCEPT ![l].download_count = @ + 1]
      /\ granted' = [granted EXCEPT ![l] = @ + 1]
      /\ Goto(p, next)
      /\ linkLock' = Free(linkLock, p) /\ objLock' = Free(objLock, p)
      /\ UNCHANGED <<obj, blob, now, asked, torn>>
  BY DEF Consume, End
<1>7. /\ ~link[l].revoked
      /\ link[l].max_downloads # None => link[l].download_count < link[l].max_downloads
  BY <1>1 DEF IInv, StillActive
<1> HIDE DEF l, next
<1>8. /\ proc'[p] = next
      /\ \A q \in Procs : q # p => proc'[q] = proc[q]
      /\ proc' \in [Procs -> {Idle} \cup Creating \cup Using \cup Serving \cup Deleting]
  BY <1>5, <1>6, GotoStep DEF IInv
<1>9. /\ linkLock' \in [Links -> Procs \cup {None}]
      /\ \A k \in Links : linkLock[k] # p => linkLock'[k] = linkLock[k]
  BY <1>6, FreeStep DEF IInv, TypeOK
<1>10. /\ objLock' \in [Objects -> Procs \cup {None}]
       /\ \A o \in Objects : objLock[o] # p => objLock'[o] = objLock[o]
  BY <1>6, FreeStep DEF IInv, TypeOK
<1>11. /\ link'[l] = [link[l] EXCEPT !.download_count = @ + 1]
       /\ \A k \in Links : k # l => link'[k] = link[k]
       /\ DOMAIN link' = Links
  BY <1>1, <1>6 DEF IInv, TypeOK
<1>12. /\ link'[l] \in LinkRows
       /\ link'[l].object = link[l].object
       /\ link'[l].download_count = link[l].download_count + 1
       /\ link'[l].max_downloads = link[l].max_downloads
  BY <1>4, <1>11 DEF LinkRows
<1>13. link' \in [Links -> LinkRows \cup {None}] BY <1>6, <1>11, <1>12 DEF IInv, TypeOK
<1>14. granted' \in [Links -> Nat] /\ granted'[l] = granted[l] + 1
       /\ \A k \in Links : k # l => granted'[k] = granted[k]
  BY <1>1, <1>6 DEF IInv, TypeOK
<1>15. TypeOK' BY <1>6, <1>8, <1>9, <1>10, <1>13, <1>14 DEF IInv, TypeOK, LinkRows
<1>16. LiveLinks' \subseteq LiveLinks /\ \A k \in LiveLinks : k # l => k \in LiveLinks'
  BY <1>3, <1>11 DEF LiveLinks
<1>17. ASSUME NEW q \in Procs, NEW k \in Links, Holds(q, k)'
       PROVE  q # p /\ k # l /\ Holds(q, k) /\ k \in LiveLinks /\ linkLock[k] = q
  <2>1. q # p BY <1>5, <1>8, <1>17 DEF Holds
  <2>2. Holds(q, k) BY <2>1, <1>8, <1>17 DEF Holds
  <2> QED BY <2>1, <2>2, <1>3 DEF IInv, LockInv, HoldersLock
<1>18. HoldersLock' BY <1>9, <1>16, <1>17 DEF HoldersLock
<1>19. CascadeOwn'
  <2> SUFFICES ASSUME NEW q \in Procs, proc'[q].at \in {"delete_row", "delete_blob", "commit"},
                      NEW k \in proc'[q].links
               PROVE  link'[k].object = proc'[q].object
    BY DEF CascadeOwn
  <2>1. proc'[q] = proc[q] /\ q # p BY <1>5, <1>8
  <2>2. proc[q] \in Deleting /\ k \in Links BY <2>1, LocalVariables DEF IInv, Deleting
  <2>3. Holds(q, k)' BY DEF Holds
  <2> QED BY <2>1, <2>2, <2>3, <1>11, <1>17 DEF IInv, LockInv, CascadeOwn
<1>20. ASSUME NEW q \in Procs, proc'[q].at \in {"validate", "consume"}
       PROVE  q # p /\ proc'[q] = proc[q] /\ link'[proc[q].link] = link[proc[q].link]
  <2>1. proc'[q] = proc[q] /\ q # p BY <1>5, <1>8, <1>20
  <2>2. proc[q].link \in Links BY <2>1, <1>20, LocalVariables DEF IInv, Using
  <2>3. Holds(q, proc[q].link)' BY <2>1, <1>20 DEF Holds
  <2> QED BY <2>1, <2>2, <2>3, <1>17, <1>11
<1>21. RedeemersLock'
  <2> SUFFICES ASSUME NEW q \in Procs, proc'[q].at \in {"validate", "consume"}
               PROVE  LET x == link[proc[q].link].object IN objLock'[x] = q /\ x \in obj
    BY <1>20, <1>6 DEF RedeemersLock
  <2> QED BY <1>10, <1>20 DEF IInv, LockInv, RedeemersLock, TypeOK
<1>22. DeletersLock'
  <2> SUFFICES ASSUME NEW q \in Procs, proc'[q].at \in {"delete_blob", "commit"}
               PROVE  /\ proc'[q] = proc[q]
                      /\ IF proc[q].found
                         THEN objLock'[proc[q].object] = q /\ proc[q].object \in obj
                         ELSE proc[q].object \notin obj
    BY <1>6 DEF DeletersLock
  <2>1. proc'[q] = proc[q] /\ q # p BY <1>5, <1>8
  <2> QED BY <2>1, <1>10 DEF IInv, LockInv, DeletersLock, TypeOK
<1>23. StillActive' BY <1>20 DEF IInv, StillActive
<1>24. BytesKept' BY <1>1, <1>6, <1>8 DEF IInv, BytesKept
<1>25. DownloadsCapped'
  <2> SUFFICES ASSUME NEW k \in LiveLinks'
               PROVE  /\ link'[k].download_count = granted'[k]
                      /\ link'[k].max_downloads # None => granted'[k] =< link'[k].max_downloads
    BY DEF DownloadsCapped
  <2>1. CASE k = l
    <3>1. link[l].download_count = granted[l] BY <1>3 DEF IInv, DownloadsCapped
    <3>2. link[l].max_downloads \in Caps /\ link[l].download_count \in Nat
      BY <1>4 DEF LinkRows
    <3>3. link[l].max_downloads # None => link[l].max_downloads \in Nat
      BY <3>2, ShareLinksAssumption
    <3> QED BY <2>1, <3>1, <3>2, <3>3, <1>7, <1>12, <1>14
  <2>2. CASE k # l BY <2>2, <1>11, <1>14, <1>16 DEF IInv, DownloadsCapped, LiveLinks
  <2> QED BY <2>1, <2>2
<1>26. LinksHaveObjects'
  BY <1>6, <1>11, <1>12, <1>16 DEF IInv, LinksHaveObjects, LiveLinks
<1> QED BY <1>15, <1>18, <1>19, <1>21, <1>22, <1>23, <1>24, <1>25, <1>26 DEF IInv, LockInv

\* The cascade locks all the links of the object at once.
LEMMA CascadeStep ==
    ASSUME IInv, NEW p \in Procs, Cascade(p)
    PROVE  IInv'
<1> DEFINE o == proc[p].object
           ls == LinksOf(o)
           next == [proc[p] EXCEPT !.at = "delete_row", !.links = ls]
<1>1. proc[p] \in Deleting /\ proc[p].at = "cascade"
  BY LocalVariables DEF IInv, Cascade
<1>2. /\ ls \subseteq LiveLinks /\ ls \subseteq Links
      /\ \A l \in ls : link[l].object = o
  BY DEF LinksOf, LiveLinks
<1>3. /\ \A l \in ls : linkLock[l] = None
      /\ linkLock' = [l \in Links |-> IF l \in ls THEN p ELSE linkLock[l]]
      /\ Goto(p, next)
      /\ UNCHANGED <<rows, objLock, now, asked, granted, torn>>
  BY DEF Cascade, DeleteLinks
<1>4. next \in Deleting /\ next.at = "delete_row" /\ next.object = o /\ next.links = ls
  BY <1>1, <1>2, DeletingLinks
<1> HIDE DEF o, ls, next
<1>5. /\ proc'[p] = next
      /\ \A q \in Procs : q # p => proc'[q] = proc[q]
      /\ proc' \in [Procs -> {Idle} \cup Creating \cup Using \cup Serving \cup Deleting]
  BY <1>3, <1>4, GotoStep DEF IInv
<1>6. /\ linkLock' \in [Links -> Procs \cup {None}]
      /\ \A l \in ls : linkLock'[l] = p
      /\ \A l \in Links : l \notin ls => linkLock'[l] = linkLock[l]
  BY <1>2, <1>3 DEF IInv, TypeOK
<1>7. /\ LiveLinks' = LiveLinks
      /\ link' = link /\ obj' = obj /\ blob' = blob
      /\ DownloadsCapped' /\ LinksHaveObjects'
  BY <1>3, RowsKept
<1>8. TypeOK' BY <1>3, <1>5, <1>6, <1>7 DEF IInv, TypeOK, LinkRows
<1>9. HoldersLock'
  <2> SUFFICES ASSUME NEW q \in Procs, NEW k \in Links, Holds(q, k)'
               PROVE  linkLock'[k] = q /\ k \in LiveLinks
    BY <1>7 DEF HoldersLock
  <2>1. CASE q = p BY <2>1, <1>2, <1>4, <1>5, <1>6 DEF Holds
  <2>2. CASE q # p
    <3>1. Holds(q, k) BY <2>2, <1>5 DEF Holds
    <3>2. linkLock[k] = q /\ k \in LiveLinks BY <3>1 DEF IInv, LockInv, HoldersLock
    <3> QED BY <3>2, <1>3, <1>6, ShareLinksAssumption
  <2> QED BY <2>1, <2>2
<1>10. CascadeOwn' BY <1>2, <1>4, <1>5, <1>7 DEF IInv, LockInv, CascadeOwn
<1>11. RedeemersLock' BY <1>3, <1>4, <1>5, <1>7 DEF IInv, LockInv, RedeemersLock
<1>12. DeletersLock' BY <1>3, <1>4, <1>5, <1>7 DEF IInv, LockInv, DeletersLock
<1>13. StillActive' BY <1>4, <1>5, <1>7 DEF IInv, StillActive
<1>14. BytesKept' BY <1>1, <1>3, <1>5, <1>7 DEF IInv, BytesKept
<1> QED BY <1>7, <1>8, <1>9, <1>10, <1>11, <1>12, <1>13, <1>14 DEF IInv, LockInv

\* DELETE of the object locks its row, or finds none.
LEMMA DeleteRowStep ==
    ASSUME IInv, NEW p \in Procs, DeleteRow(p)
    PROVE  IInv'
<1> DEFINE o == proc[p].object
           next == [proc[p] EXCEPT !.at = "delete_blob", !.found = o \in obj]
<1>1. proc[p] \in Deleting /\ proc[p].at = "delete_row" /\ o \in Objects
  BY LocalVariables DEF IInv, DeleteRow, Deleting
<1>2. /\ objLock[o] \in {None, p}
      /\ objLock' = IF o \in obj THEN [objLock EXCEPT ![o] = p] ELSE objLock
      /\ Goto(p, next)
      /\ linkLock' = linkLock
      /\ UNCHANGED <<rows, now, asked, granted, torn>>
  BY DEF DeleteRow
<1>3. /\ next \in Deleting /\ next.at = "delete_blob" /\ next.object = o
      /\ next.links = proc[p].links /\ next.found = (o \in obj)
  <2>1. PICK b \in BOOLEAN : b = (o \in obj)
    <3>1. (o \in obj) \in BOOLEAN OBVIOUS
    <3> QED BY <3>1, Zenon
  <2>2. next = [proc[p] EXCEPT !.at = "delete_blob", !.found = b] BY <2>1, Zenon
  <2> HIDE DEF next
  <2> QED BY <1>1, <2>1, <2>2, DeletingFound
<1> HIDE DEF next
<1>4. /\ proc'[p] = next
      /\ \A q \in Procs : q # p => proc'[q] = proc[q]
      /\ proc' \in [Procs -> {Idle} \cup Creating \cup Using \cup Serving \cup Deleting]
  BY <1>2, <1>3, GotoStep DEF IInv
<1>5. /\ objLock' \in [Objects -> Procs \cup {None}]
      /\ o \in obj => objLock'[o] = p
      /\ \A x \in Objects : x # o => objLock'[x] = objLock[x]
  BY <1>1, <1>2 DEF IInv, TypeOK
<1>6. /\ LiveLinks' = LiveLinks
      /\ link' = link /\ obj' = obj /\ blob' = blob
      /\ DownloadsCapped' /\ LinksHaveObjects'
  BY <1>2, RowsKept
<1>7. TypeOK' BY <1>2, <1>4, <1>5, <1>6 DEF IInv, TypeOK, LinkRows
<1>8. HoldersLock'
  <2> SUFFICES ASSUME NEW q \in Procs, NEW k \in Links, Holds(q, k)'
               PROVE  linkLock[k] = q /\ k \in LiveLinks
    BY <1>2, <1>6 DEF HoldersLock
  <2>1. Holds(q, k) BY <1>1, <1>3, <1>4 DEF Holds
  <2> QED BY <2>1 DEF IInv, LockInv, HoldersLock
<1>9. CascadeOwn' BY <1>1, <1>3, <1>4, <1>6 DEF IInv, LockInv, CascadeOwn
<1>10. RedeemersLock'
  <2> SUFFICES ASSUME NEW q \in Procs, proc'[q].at \in {"validate", "consume"}
               PROVE  LET x == link[proc'[q].link].object IN objLock'[x] = q /\ x \in obj
    BY <1>6 DEF RedeemersLock
  <2> DEFINE x == link[proc[q].link].object
  <2>1. proc'[q] = proc[q] /\ q # p BY <1>3, <1>4
  <2>2. objLock[x] = q /\ x \in obj BY <2>1 DEF IInv, LockInv, RedeemersLock
  <2>3. x # o /\ x \in Objects BY <2>1, <2>2, <1>2, ShareLinksAssumption DEF IInv, TypeOK
  <2> QED BY <2>1, <2>2, <2>3, <1>5
<1>11. DeletersLock'
  <2> SUFFICES ASSUME NEW q \in Procs, proc'[q].at \in {"delete_blob", "commit"}
               PROVE  IF proc'[q].found
                      THEN objLock'[proc'[q].object] = q /\ proc'[q].object \in obj
                      ELSE proc'[q].object \notin obj
    BY <1>6 DEF DeletersLock
  <2>1. CASE q = p BY <2>1, <1>3, <1>4, <1>5
  <2>2. CASE q # p
    <3>1. proc'[q] = proc[q] BY <2>2, <1>4
    <3>2. IF proc[q].found
          THEN objLock[proc[q].object] = q /\ proc[q].object \in obj
          ELSE proc[q].object \notin obj
      BY <3>1 DEF IInv, LockInv, DeletersLock
    <3> QED BY <2>2, <3>1, <3>2, <1>5, <1>2, ShareLinksAssumption DEF IInv, TypeOK
  <2> QED BY <2>1, <2>2
<1>12. StillActive' BY <1>3, <1>4, <1>6 DEF IInv, StillActive
<1>13. BytesKept' BY <1>1, <1>2, <1>4, <1>6 DEF IInv, BytesKept
<1> QED BY <1>6, <1>7, <1>8, <1>9, <1>10, <1>11, <1>12, <1>13 DEF IInv, LockInv

\* The bytes go while the deletion has the object's row locked, or after the
\* row has gone.
LEMMA DeleteBlobStep ==
    ASSUME IInv, NEW p \in Procs, DeleteBlob(p)
    PROVE  IInv'
<1> DEFINE o == proc[p].object
           next == [proc[p] EXCEPT !.at = "commit"]
<1>1. proc[p] \in Deleting /\ proc[p].at = "delete_blob"
  BY LocalVariables DEF IInv, DeleteBlob
<1>2. /\ blob' = blob \ {o}
      /\ Goto(p, next)
      /\ UNCHANGED <<link, obj, linkLock, objLock, now, asked, granted, torn>>
  BY DEF DeleteBlob, locks
<1>3. /\ next \in Deleting /\ next.at = "commit" /\ next.object = o
      /\ next.links = proc[p].links /\ next.found = proc[p].found
  BY <1>1, DeletingStep
<1> HIDE DEF next
<1>4. /\ proc'[p] = next
      /\ \A q \in Procs : q # p => proc'[q] = proc[q]
      /\ proc' \in [Procs -> {Idle} \cup Creating \cup Using \cup Serving \cup Deleting]
  BY <1>2, <1>3, GotoStep DEF IInv
<1>5. TypeOK' BY <1>2, <1>4 DEF IInv, TypeOK, LinkRows
<1>6. LiveLinks' = LiveLinks BY <1>2 DEF LiveLinks
<1>7. HoldersLock'
  <2> SUFFICES ASSUME NEW q \in Procs, NEW k \in Links, Holds(q, k)'
               PROVE  linkLock[k] = q /\ k \in LiveLinks
    BY <1>2, <1>6 DEF HoldersLock
  <2>1. Holds(q, k) BY <1>1, <1>3, <1>4 DEF Holds
  <2> QED BY <2>1 DEF IInv, LockInv, HoldersLock
<1>8. CascadeOwn' BY <1>1, <1>2, <1>3, <1>4 DEF IInv, LockInv, CascadeOwn
<1>9. RedeemersLock' BY <1>2, <1>3, <1>4 DEF IInv, LockInv, RedeemersLock
<1>10. DeletersLock' BY <1>1, <1>2, <1>3, <1>4 DEF IInv, LockInv, DeletersLock
<1>11. StillActive' BY <1>2, <1>3, <1>4 DEF IInv, StillActive
<1>12. BytesKept'
  <2> SUFFICES ASSUME NEW x \in obj, x \notin blob' \cup torn
               PROVE  \E q \in Procs : proc'[q].at = "commit" /\ proc'[q].object = x /\ proc'[q].found
    BY <1>2 DEF BytesKept
  <2>1. CASE x = o
    <3>1. proc[p].found BY <1>1, <2>1 DEF IInv, LockInv, DeletersLock
    <3> QED BY <2>1, <3>1, <1>3, <1>4
  <2>2. CASE x # o
    <3>1. PICK q \in Procs : proc[q].at = "commit" /\ proc[q].object = x /\ proc[q].found
      BY <2>2, <1>2 DEF IInv, BytesKept
    <3> QED BY <3>1, <1>1, <1>4
  <2> QED BY <2>1, <2>2
<1>13. DownloadsCapped' /\ LinksHaveObjects'
  BY <1>2, <1>6 DEF IInv, DownloadsCapped, LinksHaveObjects
<1> QED BY <1>5, <1>7, <1>8, <1>9, <1>10, <1>11, <1>12, <1>13 DEF IInv, LockInv

\* The deletion commits with all the links of its object, or is rolled back.
LEMMA CommitStep ==
    ASSUME IInv, NEW p \in Procs, Commit(p)
    PROVE  IInv'
<1> DEFINE o == proc[p].object
           ls == proc[p].links
<1>1. /\ proc[p] \in Deleting /\ proc[p].at = "commit" /\ o \in Objects /\ ls \subseteq Links
      /\ proc[p].found \in BOOLEAN
  BY LocalVariables DEF IInv, Commit, Deleting
<1>2. /\ Goto(p, Idle)
      /\ linkLock' = Free(linkLock, p) /\ objLock' = Free(objLock, p)
      /\ UNCHANGED <<blob, now, asked, granted>>
  BY DEF Commit, End
<1>3. /\ proc'[p] = Idle
      /\ \A q \in Procs : q # p => proc'[q] = proc[q]
      /\ proc' \in [Procs -> {Idle} \cup Creating \cup Using \cup Serving \cup Deleting]
  BY <1>2, GotoStep DEF IInv
<1>4. proc'[p].at = "idle" BY <1>3 DEF Idle
<1>5. /\ linkLock' \in [Links -> Procs \cup {None}]
      /\ \A k \in Links : linkLock[k] # p => linkLock'[k] = linkLock[k]
  BY <1>2, FreeStep DEF IInv, TypeOK
<1>6. /\ objLock' \in [Objects -> Procs \cup {None}]
      /\ \A x \in Objects : objLock[x] # p => objLock'[x] = objLock[x]
  BY <1>2, FreeStep DEF IInv, TypeOK
<1>7. \A l \in ls : linkLock[l] = p /\ link[l].object = o
  BY <1>1 DEF IInv, LockInv, HoldersLock, Holds, CascadeOwn
<1>8. IF proc[p].found THEN objLock[o] = p /\ o \in obj ELSE o \notin obj
  BY <1>1 DEF IInv, LockInv, DeletersLock
<1>9. ASSUME NEW q \in Procs, NEW k \in Links, Holds(q, k)'
      PROVE  q # p /\ k \notin ls /\ Holds(q, k) /\ k \in LiveLinks /\ linkLock[k] = q
  <2>1. q # p BY <1>4, <1>9 DEF Holds
  <2>2. Holds(q, k) BY <2>1, <1>3, <1>9 DEF Holds
  <2> QED BY <2>1, <2>2, <1>7 DEF IInv, LockInv, HoldersLock
<1>10. ASSUME NEW q \in Procs, proc'[q].at \in {"delete_row", "delete_blob", "commit"}
       PROVE  q # p /\ proc'[q] = proc[q] /\ proc[q] \in Deleting
  BY <1>3, <1>4, <1>10, LocalVariables DEF IInv
<1>11. ASSUME NEW q \in Procs, proc'[q].at \in {"validate", "consume"}
       PROVE  /\ q # p /\ proc'[q] = proc[q] /\ proc[q].link \in Links /\ proc[q].link \notin ls
              /\ LET x == link[proc[q].link].object
                 IN  x \in Objects /\ objLock'[x] = q /\ x \in obj /\ (proc[p].found => x # o)
  <2>1. q # p /\ proc'[q] = proc[q] BY <1>3, <1>4, <1>11
  <2>2. proc[q].link \in Links BY <2>1, <1>11, LocalVariables DEF IInv, Using
  <2>3. Holds(q, proc[q].link)' BY <2>1, <1>11 DEF Holds
  <2>4. proc[q].link \notin ls BY <2>1, <2>2, <2>3, <1>9
  <2> DEFINE x == link[proc[q].link].object
  <2>5. objLock[x] = q /\ x \in obj BY <2>1, <1>11 DEF IInv, LockInv, RedeemersLock
  <2>6. x \in Objects BY <2>5 DEF IInv, TypeOK
  <2> QED BY <2>1, <2>2, <2>4, <2>5, <2>6, <1>6, <1>8
<1>12. ASSUME NEW q \in Procs, proc'[q].at \in {"delete_blob", "commit"}
       PROVE  IF proc[q].found
              THEN /\ objLock'[proc[q].object] = q /\ proc[q].object \in obj
                   /\ proc[p].found => proc[q].object # o
              ELSE proc[q].object \notin obj
  <2>1. q # p /\ proc'[q] = proc[q] BY <1>12, <1>10
  <2>2. proc[q].object \in Objects BY <1>12, <1>10 DEF Deleting
  <2> QED BY <2>1, <2>2, <1>6, <1>8, <1>12 DEF IInv, LockInv, DeletersLock
<1>13. CASE proc[p].found /\ StillReferencing(p) # {}
  <2>1. torn' = torn \cup {o} /\ obj' = obj /\ link' = link BY <1>13 DEF Commit
  <2>2. TypeOK' BY <1>1, <1>2, <1>3, <1>5, <1>6, <2>1 DEF IInv, TypeOK, LinkRows
  <2>3. LiveLinks' = LiveLinks BY <2>1 DEF LiveLinks
  <2>4. HoldersLock' BY <1>5, <1>9, <2>3 DEF HoldersLock
  <2>5. CascadeOwn' BY <1>10, <2>1 DEF IInv, LockInv, CascadeOwn
  <2>6. RedeemersLock' BY <1>11, <2>1 DEF RedeemersLock
  <2>7. DeletersLock' BY <1>10, <1>12, <2>1 DEF DeletersLock
  <2>8. StillActive' BY <1>11, <2>1 DEF IInv, StillActive
  <2>9. BytesKept' BY <1>2, <1>3, <2>1 DEF IInv, BytesKept
  <2>10. DownloadsCapped' /\ LinksHaveObjects'
    BY <1>2, <2>1, <2>3 DEF IInv, DownloadsCapped, LinksHaveObjects
  <2> QED BY <2>2, <2>4, <2>5, <2>6, <2>7, <2>8, <2>9, <2>10 DEF IInv, LockInv
<1>14. CASE ~(proc[p].found /\ StillReferencing(p) # {})
  <2>1. /\ obj' = obj \ {o} /\ torn' = torn
        /\ link' = [l \in Links |-> IF l \in ls THEN None ELSE link[l]]
    BY <1>14 DEF Commit
  <2>2. TypeOK' BY <1>2, <1>3, <1>5, <1>6, <2>1 DEF IInv, TypeOK, LinkRows
  <2>3. /\ LiveLinks' = LiveLinks \ ls
        /\ \A k \in Links : k \notin ls => link'[k] = link[k]
    BY <2>1 DEF LiveLinks
  <2>4. HoldersLock' BY <1>5, <1>9, <2>3 DEF HoldersLock
  <2>5. CascadeOwn'
    <3> SUFFICES ASSUME NEW q \in Procs, proc'[q].at \in {"delete_row", "delete_blob", "commit"},
                        NEW k \in proc'[q].links
                 PROVE  link'[k].object = proc'[q].object
      BY DEF CascadeOwn
    <3>1. proc'[q] = proc[q] /\ k \in Links BY <1>10 DEF Deleting
    <3>2. Holds(q, k)' BY DEF Holds
    <3> QED BY <3>1, <3>2, <1>9, <2>3 DEF IInv, LockInv, CascadeOwn
  <2>6. proc[p].found \/ obj' = obj BY <1>8, <2>1
  <2>7. RedeemersLock' BY <1>11, <2>1, <2>3, <2>6 DEF RedeemersLock
  <2>8. DeletersLock' BY <1>10, <1>12, <2>1, <2>6 DEF DeletersLock
  <2>9. StillActive' BY <1>11, <2>3 DEF IInv, StillActive
  <2>10. BytesKept'
    <3> SUFFICES ASSUME NEW x \in obj', x \notin blob \cup torn
                 PROVE  \E q \in Procs : proc'[q].at = "commit" /\ proc'[q].object = x /\ proc'[q].found
      BY <1>2, <2>1 DEF BytesKept
    <3>1. x \in obj /\ x # o BY <2>1
    <3>2. PICK q \in Procs : proc[q].at = "commit" /\ proc[q].object = x /\ proc[q].found
      BY <3>1 DEF IInv, BytesKept
    <3> QED BY <3>1, <3>2, <1>3
  <2>11. DownloadsCapped' BY <1>2, <2>3 DEF IInv, DownloadsCapped, LiveLinks
  <2>12. ASSUME NEW l \in LiveLinks, link[l].object = o PROVE l \in ls
    <3>1. o \in obj BY <2>12 DEF IInv, LinksHaveObjects
    <3>2. proc[p].found BY <3>1, <1>8
    <3>3. StillReferencing(p) = {} BY <3>2, <1>14
    <3> QED BY <3>3, <2>12 DEF StillReferencing, LinksOf
  <2>13. LinksHaveObjects'
    BY <2>1, <2>3, <2>12 DEF IInv, LinksHaveObjects, LiveLinks
  <2> QED BY <2>2, <2>4, <2>5, <2>7, <2>8, <2>9, <2>10, <2>11, <2>13 DEF IInv, LockInv
<1> QED BY <1>13, <1>14

\* Time passes, or nothing happens.
LEMMA IdleStep ==
    ASSUME IInv, UNCHANGED <<rows, locks, proc, granted, torn>>,
           now' \in 0..MaxTime, asked' \in 0..MaxRequests
    PROVE  IInv'
<1>1. UNCHANGED <<link, obj, blob, linkLock, objLock>> BY DEF rows, locks
<1>2. TypeOK' BY <1>1 DEF IInv, TypeOK, LinkRows
<1>3. LiveLinks' = LiveLinks BY <1>1 DEF LiveLinks
<1>4. LockInv'
  BY <1>1, <1>3 DEF IInv, LockInv, HoldersLock, Holds, CascadeOwn, RedeemersLock, DeletersLock
<1>5. StillActive' /\ BytesKept' BY <1>1 DEF IInv, StillActive, BytesKept
<1>6. DownloadsCapped' /\ LinksHaveObjects'
  BY <1>1, <1>3 DEF IInv, DownloadsCapped, LinksHaveObjects
<1> QED BY <1>2, <1>4, <1>5, <1>6 DEF IInv

(***************************************************************************)
(* Theorems                                                                *)
(***************************************************************************)

\* No request has started: nothing is locked and nothing has been granted.
LEMMA InitInv == Init => IInv
<1> SUFFICES ASSUME Init PROVE IInv OBVIOUS
<1>1. TypeOK BY ShareLinksAssumption DEF Init, TypeOK
<1>2. \A p \in Procs : proc[p].at = "idle" BY DEF Init, Idle
<1>3. LockInv
  BY <1>2 DEF LockInv, HoldersLock, Holds, CascadeOwn, RedeemersLock, DeletersLock
<1>4. LiveLinks = {} BY DEF Init, LiveLinks
<1>5. StillActive BY <1>2 DEF StillActive
<1>6. BytesKept BY DEF Init, BytesKept
<1>7. DownloadsCapped /\ LinksHaveObjects BY <1>4 DEF DownloadsCapped, LinksHaveObjects
<1> QED BY <1>1, <1>3, <1>5, <1>6, <1>7 DEF IInv

\* One lemma per action adds up to the step relation.
LEMMA StepInv == IInv /\ [Next]_vars => IInv'
<1> SUFFICES ASSUME IInv, [Next]_vars PROVE IInv' OBVIOUS
<1>1. ASSUME NEW p \in Procs, Step(p) PROVE IInv'
  BY <1>1, InsertStep, RevokeStep, LockLinkStep, LockObjectStep, ValidateStep, ConsumeStep,
     DownloadStep, CascadeStep, DeleteRowStep, DeleteBlobStep, CommitStep DEF Step
<1>2. CASE Tick
  <2>1. now' \in 0..MaxTime /\ asked' \in 0..MaxRequests
    BY <1>2, ShareLinksAssumption DEF Tick, IInv, TypeOK
  <2> QED BY <1>2, <2>1, IdleStep DEF Tick
<1>3. CASE UNCHANGED vars
  <2>1. now' \in 0..MaxTime /\ asked' \in 0..MaxRequests BY <1>3 DEF vars, IInv, TypeOK
  <2> QED BY <1>3, <2>1, IdleStep DEF vars
<1> QED BY <1>1, <1>2, <1>3, RequestStep DEF Next

\* The invariant holds throughout every behaviour of the share-link requests.
THEOREM Invariance == Spec => []IInv
BY InitInv, StepInv, PTL DEF Spec

\* A link is never redeemed more often than its max_downloads, and every
\* redemption is counted, however many arrive at once: redeem_share_link locks
\* the row before it looks at the count.
THEOREM CapKept == Spec => []DownloadsCapped
<1>1. IInv => DownloadsCapped BY DEF IInv
<1> QED BY <1>1, Invariance, PTL

\* No link outlives its object, although create_share_link checks the object
\* before it inserts and delete_object cascades before it commits.
THEOREM ForeignKeyKept == Spec => []LinksHaveObjects
<1>1. IInv => LinksHaveObjects BY DEF IInv
<1> QED BY <1>1, Invariance, PTL

\* Only Consume lets a redemption through, and only of the link that it has
\* locked and validated.
LEMMA OnlyConsume ==
    ASSUME IInv, [Next]_vars, NEW l \in Links, granted'[l] # granted[l]
    PROVE  \E p \in Procs : proc[p].at = "consume" /\ proc[p].link = l
<1>1. ASSUME NEW p \in Procs, Consume(p) PROVE proc[p].at = "consume" /\ proc[p].link = l
  BY <1>1 DEF Consume, IInv, TypeOK
<1>2. ASSUME NEW p \in Procs, Step(p), ~Consume(p) PROVE granted' = granted
  BY <1>2 DEF Step, Insert, Revoke, LockLink, LockObject, Validate, Download, Cascade,
     DeleteRow, DeleteBlob, Commit
<1>3. ASSUME NEW p \in Procs, Request(p) PROVE granted' = granted
  BY <1>3 DEF Request, CheckCreate, ReadRevoke, Redeem, Delete, Ask
<1>4. Tick \/ UNCHANGED vars => granted' = granted BY DEF Tick, vars
<1> QED BY <1>1, <1>2, <1>3, <1>4 DEF Next

\* No redemption gets through once the link has been revoked.
THEOREM RevocationFinal == Spec => RevokedStaysDead
<1> DEFINE A == \A l \in LiveLinks : granted[l]' # granted[l] => ~link[l].revoked
<1>1. IInv /\ [Next]_vars => [A]_vars
  <2> SUFFICES ASSUME IInv, [Next]_vars, NEW l \in LiveLinks, granted[l]' # granted[l]
               PROVE  ~link[l].revoked
    OBVIOUS
  <2>1. l \in Links BY DEF LiveLinks
  <2>2. PICK p \in Procs : proc[p].at = "consume" /\ proc[p].link = l BY <2>1, OnlyConsume
  <2> QED BY <2>2 DEF IInv, StillActive
<1> QED BY <1>1, Invariance, PTL DEF Spec, RevokedStaysDead

\* A redemption that gets through finds the bytes of its object, unless a
\* deletion was rolled back after delete_storage_key.
THEOREM RedemptionServed == Spec => RedeemedHasBytes
<1> DEFINE A == \A l \in LiveLinks : granted[l]' # granted[l] => link[l].object \in blob \cup torn
<1>1. IInv /\ [Next]_vars => [A]_vars
  <2> SUFFICES ASSUME IInv, [Next]_vars, NEW l \in LiveLinks, granted[l]' # granted[l]
               PROVE  link[l].object \in blob \cup torn
    OBVIOUS
  <2>1. l \in Links BY DEF LiveLinks
  <2>2. PICK p \in Procs : proc[p].at = "consume" /\ proc[p].link = l BY <2>1, OnlyConsume
  <2>3. objLock[link[l].object] = p /\ link[l].object \in obj
    BY <2>2 DEF IInv, LockInv, RedeemersLock
  <2>4. ASSUME NEW q \in Procs, proc[q].at = "commit", proc[q].object = link[l].object,
               proc[q].found
        PROVE  FALSE
    BY <2>2, <2>3, <2>4 DEF IInv, LockInv, DeletersLock
  <2> QED BY <2>3, <2>4 DEF IInv, BytesKept
<1> QED BY <1>1, Invariance, PTL DEF Spec, RedeemedHasBytes

=============================================================================
