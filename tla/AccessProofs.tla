---------------------------- MODULE AccessProofs ----------------------------
(***************************************************************************)
(* Proofs about Access for any users, names, folders, grants and requests: *)
(* the types and foreign keys, what decisions, summaries and listings say, *)
(* what a folder's rename leaves as it was, and what an upload opens.      *)
(***************************************************************************)
EXTENDS Access, TLAPS, WellFoundedInduction, FiniteSetTheorems

(***************************************************************************)
(* The rows of a bag of grants                                             *)
(***************************************************************************)

\* What the operations on bags do to the set of rows.
LEMMA RowsOfBags ==
    /\ BagToSet(EmptyBag) = {}
    /\ \A S : BagToSet(SetToBag(S)) = S
    /\ \A B, C : BagToSet(B (+) C) = BagToSet(B) \cup BagToSet(C)
    /\ \A B, C : BagToSet(B (-) C) \subseteq BagToSet(B)
  <1>1. BagToSet(EmptyBag) = {}
    BY DEF BagToSet, EmptyBag, SetToBag
  <1>2. \A S : BagToSet(SetToBag(S)) = S
    BY DEF BagToSet, SetToBag
  <1>3. \A B, C : BagToSet(B (+) C) = BagToSet(B) \cup BagToSet(C)
    BY DEF BagToSet, (+)
  <1>4. \A B, C : BagToSet(B (-) C) \subseteq BagToSet(B)
    BY DEF BagToSet, (-)
  <1>5. QED
    BY <1>1, <1>2, <1>3, <1>4

\* The foreign keys of the grants alone.
Referring(g) == g \in Grants /\ IF g.type = "bucket" THEN g.obj = None ELSE g.obj \in Live

\* A cascade deletes the grants of the deleted objects.
LEMMA CascadeRows ==
    ASSUME NEW objs
    PROVE  BagToSet(Cascade(objs)) = {g \in BagToSet(grants) : g.obj \notin objs}
  BY DEF Cascade, BagToSet

\* The rows that a SELECT of a parent's grants may have yielded.
Selected(parents) == parents \subseteq FolderGrants \X (Nat \ {0})

\* The grants that a new object gets are about it, and of its type.
LEMMA DefaultRows ==
    ASSUME NEW parents, Selected(parents), NEW u \in Users, NEW i \in Ids, NEW n \in Paths,
           NEW g \in BagToSet(ensure_default_private_access(parents, u, i, n))
    PROVE  /\ g \in Grants /\ g.type # "bucket" /\ g.obj = i
           /\ g.type = "folder" <=> Last(n) = Marker
  <1> DEFINE folder == Last(n) = Marker
             type == IF folder THEN "folder" ELSE "object"
             deny == Grant(type, i, Company, Read, "deny", u, None)
             allow == Grant(type, i, u, Admin, "allow", u, None)
  <1>0. /\ type \in {"folder", "object"} /\ (type = "folder" <=> folder)
        /\ Read \in Permissions /\ Admin \in Permissions
    BY DEF Permissions
  <1>1. CASE n # <<Marker>> /\ parents = {}
    <2>1. g \in {deny, allow}
      BY <1>1, RowsOfBags DEF ensure_default_private_access
    <2>2. /\ deny \in Grants /\ deny.type = type /\ deny.obj = i
          /\ allow \in Grants /\ allow.type = type /\ allow.obj = i
      <3> HIDE DEF type
      <3>1. None \in 1..MaxTime \cup {None} /\ Company \in Users \cup {Company, Group}
        OBVIOUS
      <3>2. QED
        BY <1>0, <3>1 DEF Grant, Grants
    <2> HIDE DEF type, deny, allow
    <2>3. QED
      BY <1>0, <2>1, <2>2
  <1>2. CASE n # <<Marker>> /\ parents # {} /\ folder
    <2>1. g \in BagToSet(copy_folder_grants(parents, u, i))
      BY <1>2 DEF ensure_default_private_access
    <2>2. PICK s \in parents : g = [s[1] EXCEPT !.obj = i, !.by = u]
      BY <2>1 DEF copy_folder_grants, BagToSet
    <2>3. s[1] \in Grants /\ s[1].type = "folder"
      BY <2>2 DEF Selected, FolderGrants
    <2>4. QED
      BY <1>2, <2>2, <2>3 DEF Grants
  <1>3. CASE n # <<Marker>> /\ parents # {} /\ ~folder
    BY <1>3, RowsOfBags DEF ensure_default_private_access
  <1>4. CASE n = <<Marker>>
    BY <1>4, RowsOfBags DEF ensure_default_private_access
  <1>5. QED
    BY <1>1, <1>2, <1>3, <1>4

(***************************************************************************)
(* The requests in flight                                                  *)
(***************************************************************************)

\* What a request holds, by its operation.
LEMMA RequestOf ==
    ASSUME NEW r \in Requests
    PROVE  /\ r.op = "upload" => r.user \in Users /\ r.name \in Uploads
           /\ r.op = "creating" => r.user \in Users /\ r.name \in Paths /\ Selected(r.parents)
           /\ r.op = "move" => r.from \in Paths /\ r.to \in Paths
           /\ r.op = "rename" => r.from \in Paths /\ r.to \in Paths /\ \E m \in Renames :
                                    r = [op |-> "rename", from |-> m[1], to |-> m[2]]
           /\ r.op = "renaming" => r.from \in Paths /\ r.to \in Paths /\ r.objs \subseteq Live
           /\ r.op = "delete" => r.objs \subseteq Ids
  BY AccessAssumption DEF Requests, Idle, Selected

\* A request stays well formed as long as the rows it has locked are there.
LEMMA RequestKept ==
    ASSUME NEW r \in Requests, r.op = "renaming" => r.objs \subseteq Live'
    PROVE  r \in Requests'
  BY DEF Requests, Idle

\* A step of p that leaves every locked row in place and grants' rows referring.
LEMMA KeysFrame ==
    ASSUME ForeignKeys, NEW p \in Procs, NEW r \in Requests', proc' = [proc EXCEPT ![p] = r],
           now' \in 0..MaxTime, name' \in [Ids -> Paths \cup {None}],
           \A q \in Procs \ {p} : proc[q].op = "renaming" => proc[q].objs \subseteq Live',
           \A g \in BagToSet(grants') : Referring(g)'
    PROVE  ForeignKeys'
  <1>1. \A q \in Procs : proc'[q] \in Requests'
    BY RequestKept DEF ForeignKeys
  <1>2. proc' \in [Procs -> Requests']
    BY <1>1 DEF ForeignKeys
  <1>3. QED
    BY <1>2 DEF ForeignKeys, Referring

(***************************************************************************)
(* The foreign keys                                                        *)
(***************************************************************************)

LEMMA InitKeys == Init => ForeignKeys
  <1> SUFFICES ASSUME Init PROVE ForeignKeys
    OBVIOUS
  <1>1. BagToSet(grants) = {}
    BY RowsOfBags DEF Init
  <1>2. now \in 0..MaxTime
    BY AccessAssumption DEF Init
  <1>3. QED
    BY <1>1, <1>2 DEF Init, ForeignKeys, Requests

\* A request that begins, or ends without an effect, touches no row.
LEMMA RequestKeys ==
    ASSUME ForeignKeys, NEW p \in Procs, NEW r \in Requests, proc' = [proc EXCEPT ![p] = r],
           UNCHANGED <<name, grants, now>>
    PROVE  ForeignKeys'
  <1>1. Live' = Live
    BY DEF Live
  <1>2. r \in Requests' /\ \A q \in Procs : proc[q].op = "renaming" => proc[q].objs \subseteq Live'
    BY <1>1, RequestOf, RequestKept DEF ForeignKeys
  <1>3. \A g \in BagToSet(grants') : Referring(g)'
    BY <1>1 DEF ForeignKeys, Referring
  <1>4. now' \in 0..MaxTime /\ name' \in [Ids -> Paths \cup {None}]
    BY DEF ForeignKeys
  <1>5. QED
    BY <1>2, <1>3, <1>4, KeysFrame

LEMMA CheckKeys ==
    ASSUME ForeignKeys, NEW p \in Procs, NEW u \in Users,
           \/ \E n \in Uploads : CheckUpload(p, u, n)
           \/ \E m \in Moves : CheckMove(p, u, m[1], m[2])
           \/ \E r \in Renames : CheckRename(p, u, r[1], r[2])
           \/ DeleteObject(p, u) \/ DeletePrefix(p, u) \/ EmptyBucket(p, u)
    PROVE  ForeignKeys'
  <1>1. PICK r : Begin(p, r) /\ r \in Requests
    <2>1. ASSUME NEW n \in Uploads, CheckUpload(p, u, n)
          PROVE  \E r : Begin(p, r) /\ r \in Requests
      BY <2>1 DEF CheckUpload, Requests
    <2>2. ASSUME NEW m \in Moves, CheckMove(p, u, m[1], m[2])
          PROVE  \E r : Begin(p, r) /\ r \in Requests
      BY <2>2 DEF CheckMove, Requests
    <2>3. ASSUME NEW m \in Renames, CheckRename(p, u, m[1], m[2])
          PROVE  \E r : Begin(p, r) /\ r \in Requests
      BY <2>3 DEF CheckRename, Requests
    <2>4. ASSUME NEW objs \in SUBSET Ids, CheckDelete(p, u, objs)
          PROVE  \E r : Begin(p, r) /\ r \in Requests
      BY <2>4 DEF CheckDelete, Requests
    <2>5. /\ \A f : objects_under_prefix(f) \in SUBSET Ids
          /\ Live \in SUBSET Ids /\ \A i \in Live : {i} \in SUBSET Ids
      BY DEF objects_under_prefix, Live
    <2>6. QED
      BY <2>1, <2>2, <2>3, <2>4, <2>5 DEF DeleteObject, DeletePrefix, EmptyBucket
  <1>2. QED
    BY <1>1, RequestKeys DEF Begin

\* A check begins a request of its own, no transaction.
LEMMA ChecksBegin ==
    ASSUME NEW p \in Procs, NEW u \in Users,
           \/ \E n \in Uploads : CheckUpload(p, u, n)
           \/ \E m \in Moves : CheckMove(p, u, m[1], m[2])
           \/ \E r \in Renames : CheckRename(p, u, r[1], r[2])
           \/ DeleteObject(p, u) \/ DeletePrefix(p, u) \/ EmptyBucket(p, u)
    PROVE  \E r : Begin(p, r) /\ r.op \notin {"renaming", "creating"}
  <1> DEFINE Begun == \E r : Begin(p, r) /\ r.op \notin {"renaming", "creating"}
  <1>1. ASSUME NEW n, CheckUpload(p, u, n) PROVE Begun
    BY <1>1 DEF CheckUpload
  <1>2. ASSUME NEW from, NEW to, CheckMove(p, u, from, to) PROVE Begun
    BY <1>2 DEF CheckMove
  <1>3. ASSUME NEW from, NEW to, CheckRename(p, u, from, to) PROVE Begun
    BY <1>3 DEF CheckRename
  <1>4. ASSUME NEW objs, CheckDelete(p, u, objs) PROVE Begun
    BY <1>4 DEF CheckDelete
  <1>5. QED
    BY <1>1, <1>2, <1>3, <1>4 DEF DeleteObject, DeletePrefix, EmptyBucket

LEMMA FailKeys ==
    ASSUME ForeignKeys, NEW p \in Procs, Fail(p)
    PROVE  ForeignKeys'
  <1>1. Idle \in Requests
    BY DEF Requests
  <1>2. QED
    BY <1>1, RequestKeys DEF Fail, End

LEMMA LockFolderKeys ==
    ASSUME ForeignKeys, NEW p \in Procs, LockFolder(p)
    PROVE  ForeignKeys'
  <1> DEFINE r == [op |-> "renaming", objs |-> objects_under_prefix(proc[p].from),
                   from |-> proc[p].from, to |-> proc[p].to]
  <1>1. proc[p] \in Requests /\ proc[p].op = "rename"
    BY DEF LockFolder, ForeignKeys
  <1>2. PICK m \in Renames : proc[p] = [op |-> "rename", from |-> m[1], to |-> m[2]]
    BY <1>1, RequestOf
  <1>3. objects_under_prefix(proc[p].from) \subseteq Live
    BY DEF objects_under_prefix
  <1>4. r \in Requests
    <2>1. proc[p].from \in {x[1] : x \in Renames} /\ proc[p].to \in {x[2] : x \in Renames}
      BY <1>2
    <2>2. QED
      BY <1>3, <2>1 DEF Requests
  <1>5. QED
    BY <1>4, RequestKeys DEF LockFolder

\* What an upload selects are grants on folders.
LEMMA ParentRows ==
    ASSUME ForeignKeys, IsABag(grants), NEW n
    PROVE  Selected(ParentGrants(n))
  BY DEF Selected, ParentGrants, nearest_ancestor_folder_grants, folder_grants_for_prefixes,
         Active, ForeignKeys, FolderGrants, IsABag, BagToSet

LEMMA SelectParentsKeys ==
    ASSUME ForeignKeys, IsABag(grants), NEW p \in Procs, SelectParents(p)
    PROVE  ForeignKeys'
  <1> DEFINE r == [op |-> "creating", user |-> proc[p].user, name |-> proc[p].name,
                   parents |-> ParentGrants(proc[p].name)]
  <1>1. proc[p].user \in Users /\ proc[p].name \in Uploads
    BY RequestOf DEF SelectParents, ForeignKeys
  <1>2. ParentGrants(proc[p].name) \in SUBSET (FolderGrants \X (Nat \ {0}))
    BY ParentRows DEF Selected
  <1>3. r \in Requests
    BY <1>1, <1>2 DEF Requests
  <1>4. QED
    BY <1>3, RequestKeys DEF SelectParents

LEMMA OverwriteKeys ==
    ASSUME ForeignKeys, NEW p \in Procs, Overwrite(p)
    PROVE  ForeignKeys'
  <1>1. Idle \in Requests
    BY DEF Requests
  <1>2. QED
    BY <1>1, RequestKeys DEF Overwrite, End

\* Rows keep referring as long as their objects stay.
LEMMA MoveKeys ==
    ASSUME ForeignKeys, NEW p \in Procs, End(p), UNCHANGED grants,
           name' \in [Ids -> Paths \cup {None}], Live \subseteq Live'
    PROVE  ForeignKeys'
  <1>1. Idle \in Requests'
    BY DEF Requests
  <1>2. \A q \in Procs : proc[q].op = "renaming" => proc[q].objs \subseteq Live'
    BY RequestOf DEF ForeignKeys
  <1>3. \A g \in BagToSet(grants') : Referring(g)'
    BY DEF ForeignKeys, Referring
  <1>4. now' \in 0..MaxTime
    BY DEF ForeignKeys, End
  <1>5. QED
    BY <1>1, <1>2, <1>3, <1>4, KeysFrame DEF End

LEMMA ActMoveKeys ==
    ASSUME ForeignKeys, NEW p \in Procs, ActMove(p)
    PROVE  ForeignKeys'
  <1>1. proc[p].to \in Paths
    BY RequestOf DEF ForeignKeys, ActMove
  <1>2. PICK i \in Named(proc[p].from) : name' = [name EXCEPT ![i] = proc[p].to]
    BY DEF ActMove
  <1>3. name' \in [Ids -> Paths \cup {None}] /\ Live \subseteq Live'
    BY <1>1, <1>2, AccessAssumption DEF ForeignKeys, Live, Named
  <1>4. QED
    BY <1>3, MoveKeys DEF ActMove

\* A renamed path is a path.
LEMMA NewNamePath ==
    ASSUME NEW n \in Paths, NEW from \in Paths, NEW to \in Paths
    PROVE  NewName(n, from, to) \in Paths
  <1>1. SubSeq(n, Len(from) + 1, Len(n)) \in Seq(Segments)
    BY DEF Paths
  <1>2. QED
    BY <1>1 DEF NewName, Paths

LEMMA ActRenameKeys ==
    ASSUME ForeignKeys, NEW p \in Procs, ActRename(p)
    PROVE  ForeignKeys'
  <1>1. proc[p].from \in Paths /\ proc[p].to \in Paths /\ proc[p].objs \subseteq Live
    BY RequestOf DEF ForeignKeys, ActRename
  <1>2. name' = [i \in Ids |-> IF i \in proc[p].objs
                               THEN NewName(name[i], proc[p].from, proc[p].to) ELSE name[i]]
    BY DEF ActRename
  <1>3. \A i \in Ids : /\ name'[i] \in Paths \cup {None}
                       /\ name[i] # None => name'[i] # None
    BY <1>1, <1>2, NewNamePath, AccessAssumption DEF ForeignKeys, Live
  <1>4. name' \in [Ids -> Paths \cup {None}]
    BY <1>2, <1>3
  <1>5. Live \subseteq Live'
    BY <1>3 DEF Live
  <1>6. QED
    BY <1>4, <1>5, MoveKeys DEF ActRename

\* An upload or a grant adds a row under an unused id, and rows about objects
\* that are there by then.
LEMMA AddKeys ==
    ASSUME ForeignKeys, NEW i \in Ids, NEW n \in Paths, name[i] = None,
           name' = [name EXCEPT ![i] = n]
    PROVE  name' \in [Ids -> Paths \cup {None}] /\ Live' = Live \cup {i}
  BY AccessAssumption DEF ForeignKeys, Live

LEMMA ActUploadKeys ==
    ASSUME ForeignKeys, NEW p \in Procs, ActUpload(p)
    PROVE  ForeignKeys'
  <1> DEFINE new(i) ==
          ensure_default_private_access(proc[p].parents, proc[p].user, i, proc[p].name)
  <1>0. /\ proc[p].user \in Users /\ proc[p].name \in Paths /\ Selected(proc[p].parents)
        /\ End(p)
    BY RequestOf DEF ForeignKeys, ActUpload
  <1>1. PICK i \in Unused : /\ name' = [name EXCEPT ![i] = proc[p].name]
                            /\ grants' = grants (+) new(i)
    BY DEF ActUpload
  <1>2. i \in Ids /\ name[i] = None
    BY <1>1 DEF Unused, Live
  <1>3. name' \in [Ids -> Paths \cup {None}] /\ Live' = Live \cup {i}
    BY <1>0, <1>1, <1>2, AddKeys
  <1>4. BagToSet(grants') = BagToSet(grants) \cup BagToSet(new(i))
    BY <1>1, RowsOfBags
  <1>5. \A g \in BagToSet(new(i)) : g \in Grants /\ g.type # "bucket" /\ g.obj = i
    BY <1>0, <1>2, DefaultRows
  <1> HIDE DEF new
  <1>6. \A g \in BagToSet(grants') : Referring(g)'
    BY <1>3, <1>4, <1>5 DEF ForeignKeys, Referring
  <1>7. \A q \in Procs : proc[q].op = "renaming" => proc[q].objs \subseteq Live'
    BY <1>3, RequestOf DEF ForeignKeys
  <1>8. now' \in 0..MaxTime /\ Idle \in Requests'
    BY <1>0 DEF ForeignKeys, End, Requests
  <1>9. QED
    BY <1>0, <1>3, <1>6, <1>7, <1>8, KeysFrame DEF End

\* A deleted row takes its grants with it and is no row a rename has locked.
LEMMA ActDeleteKeys ==
    ASSUME ForeignKeys, NEW p \in Procs, ActDelete(p)
    PROVE  ForeignKeys'
  <1> DEFINE objs == proc[p].objs
  <1>1. /\ objs \subseteq Ids /\ End(p) /\ objs \cap Locked = {}
        /\ name' = [i \in Ids |-> IF i \in objs THEN None ELSE name[i]]
        /\ grants' = Cascade(objs)
    BY RequestOf DEF ForeignKeys, ActDelete
  <1>2. name' \in [Ids -> Paths \cup {None}] /\ Live' = Live \ objs
    BY <1>1 DEF ForeignKeys, Live
  <1>3. \A g \in BagToSet(grants') : Referring(g)'
    BY <1>1, <1>2, CascadeRows DEF ForeignKeys, Referring
  <1>4. ASSUME NEW q \in Procs, proc[q].op = "renaming" PROVE proc[q].objs \subseteq Live'
    <2>1. proc[q].objs \subseteq Live
      BY <1>4, RequestOf DEF ForeignKeys
    <2>2. proc[q].objs \subseteq Locked
      BY <1>4, <2>1 DEF Locked, Live
    <2>3. QED
      BY <1>1, <1>2, <2>1, <2>2
  <1>5. now' \in 0..MaxTime /\ Idle \in Requests'
    BY <1>1 DEF ForeignKeys, End, Requests
  <1>6. QED
    BY <1>1, <1>2, <1>3, <1>4, <1>5, KeysFrame DEF End

\* Requests stay as they are while grants come and go.
LEMMA GrantFrame ==
    ASSUME ForeignKeys, UNCHANGED proc, now' \in 0..MaxTime,
           name' \in [Ids -> Paths \cup {None}], Live \subseteq Live',
           \A g \in BagToSet(grants') : Referring(g)'
    PROVE  ForeignKeys'
  <1>1. \A q \in Procs : proc[q] \in Requests'
    BY RequestOf, RequestKept DEF ForeignKeys
  <1>2. QED
    BY <1>1 DEF ForeignKeys, Referring

LEMMA CreateGrantKeys ==
    ASSUME ForeignKeys, NEW u \in Users, NEW r \in GrantRequests, create_grant(u, r)
    PROVE  ForeignKeys'
  <1> DEFINE g(i) == Grant(r.type, i, r.subject, r.permission, r.effect, u, r.until)
             n == IF r.type = "folder" THEN folder_placeholder_path(r.path) ELSE r.path
  <1>1. /\ r.type \in {"bucket", "folder", "object"} /\ r.path \in Seq(Segments)
        /\ r.subject \in Users \cup {Company, Group} /\ r.permission \in Permissions
        /\ r.effect \in {"allow", "deny"} /\ r.until \in 1..MaxTime \cup {None}
    BY AccessAssumption
  <1>2. \A i \in Ids \cup {None} : g(i) \in Grants /\ g(i).type = r.type /\ g(i).obj = i
    BY <1>1 DEF Grant, Grants
  <1>3. /\ UNCHANGED <<now, proc>>
        /\ \E i \in Ids \cup {None} :
             /\ grants' = grants (+) SetToBag({g(i)})
             /\ \/ r.type = "bucket" /\ i = None /\ UNCHANGED name
                \/ r.type # "bucket" /\ i \in Live /\ UNCHANGED name
                \/ /\ r.type = "folder" /\ i \in Ids /\ name[i] = None
                   /\ name' = [name EXCEPT ![i] = folder_placeholder_path(r.path)]
    BY DEF create_grant, Named, Live, ensure_folder_marker, Unused
  <1>4. PICK i \in Ids \cup {None} :
             /\ grants' = grants (+) SetToBag({g(i)})
             /\ \/ r.type = "bucket" /\ i = None /\ UNCHANGED name
                \/ r.type # "bucket" /\ i \in Live /\ UNCHANGED name
                \/ /\ r.type = "folder" /\ i \in Ids /\ name[i] = None
                   /\ name' = [name EXCEPT ![i] = folder_placeholder_path(r.path)]
    BY <1>3
  <1>5. BagToSet(grants') = BagToSet(grants) \cup {g(i)}
    BY <1>4, RowsOfBags
  <1>6. folder_placeholder_path(r.path) \in Paths
    BY <1>1, AccessAssumption DEF folder_placeholder_path, Paths
  <1>7. /\ name' \in [Ids -> Paths \cup {None}] /\ Live \subseteq Live'
        /\ IF r.type = "bucket" THEN i = None ELSE i \in Live'
    <2>1. CASE UNCHANGED name
      <3>1. (IF r.type = "bucket" THEN i = None ELSE i \in Live)
        BY <1>4, <1>6, <2>1, AccessAssumption DEF ForeignKeys
      <3>2. QED
        BY <2>1, <3>1 DEF ForeignKeys, Live
    <2>2. CASE ~UNCHANGED name
      BY <1>4, <1>6, <2>2, AddKeys
    <2>3. QED
      BY <2>1, <2>2
  <1>8. g(i) \in Grants /\ g(i).type = r.type /\ g(i).obj = i
    BY <1>2
  <1> HIDE DEF g
  <1>9. \A h \in BagToSet(grants') : Referring(h)'
    BY <1>5, <1>7, <1>8 DEF ForeignKeys, Referring
  <1>10. now' \in 0..MaxTime
    BY <1>3 DEF ForeignKeys
  <1>11. QED
    BY <1>3, <1>7, <1>9, <1>10, GrantFrame

LEMMA DeleteGrantKeys ==
    ASSUME ForeignKeys, NEW u \in Users, NEW g \in BagToSet(grants), delete_grant(u, g)
    PROVE  ForeignKeys'
  <1>1. UNCHANGED <<name, now, proc>> /\ grants' = grants (-) SetToBag({g}) /\ Live' = Live
    BY DEF delete_grant, Live
  <1>2. \A h \in BagToSet(grants') : Referring(h)'
    BY <1>1, RowsOfBags DEF ForeignKeys, Referring
  <1>3. now' \in 0..MaxTime /\ name' \in [Ids -> Paths \cup {None}]
    BY <1>1 DEF ForeignKeys
  <1>4. QED
    BY <1>1, <1>2, <1>3, GrantFrame

LEMMA NextKeys == ForeignKeys /\ IsABag(grants) /\ [Next]_vars => ForeignKeys'
  <1> SUFFICES ASSUME ForeignKeys, IsABag(grants), [Next]_vars PROVE ForeignKeys'
    OBVIOUS
  <1>1. CASE Tick \/ UNCHANGED vars
    <2>1. UNCHANGED <<name, grants, proc>> /\ now' \in 0..MaxTime /\ Live' = Live
      BY <1>1, AccessAssumption DEF Tick, vars, ForeignKeys, Live
    <2>2. \A g \in BagToSet(grants') : Referring(g)'
      BY <2>1 DEF ForeignKeys, Referring
    <2>3. name' \in [Ids -> Paths \cup {None}]
      BY <2>1 DEF ForeignKeys
    <2>4. QED
      BY <2>1, <2>2, <2>3, GrantFrame
  <1>2. CASE \E u \in Users, r \in GrantRequests : create_grant(u, r)
    BY <1>2, CreateGrantKeys
  <1>3. CASE \E u \in Users, g \in BagToSet(grants) : delete_grant(u, g)
    BY <1>3, DeleteGrantKeys
  <1>4. ASSUME NEW p \in Procs,
               \/ Fail(p) \/ Overwrite(p) \/ SelectParents(p) \/ ActUpload(p)
               \/ ActMove(p) \/ LockFolder(p) \/ ActRename(p) \/ ActDelete(p)
        PROVE  ForeignKeys'
    BY <1>4, FailKeys, OverwriteKeys, SelectParentsKeys, ActUploadKeys, ActMoveKeys, LockFolderKeys,
       ActRenameKeys, ActDeleteKeys
  <1>5. ASSUME NEW p \in Procs, NEW u \in Users,
               \/ \E n \in Uploads : CheckUpload(p, u, n)
               \/ \E m \in Moves : CheckMove(p, u, m[1], m[2])
               \/ \E r \in Renames : CheckRename(p, u, r[1], r[2])
               \/ DeleteObject(p, u) \/ DeletePrefix(p, u) \/ EmptyBucket(p, u)
        PROVE  ForeignKeys'
    BY <1>5, CheckKeys
  <1>6. QED
    BY <1>1, <1>2, <1>3, <1>4, <1>5 DEF Next

(***************************************************************************)
(* How often a grant is there                                              *)
(***************************************************************************)

\* A set of natural numbers has a least element.
LEMMA Least ==
    ASSUME NEW S \in SUBSET Nat, S # {}
    PROVE  \E x \in S : \A y \in S : x =< y
  <1> DEFINE R == {ss \in Nat \X Nat : ss[1] < ss[2]}
  <1>1. IsWellFoundedOn(R, Nat)
    BY NatLessThanWellFounded, Zenon DEF OpToRel
  <1>2. \A y, x \in Nat : y < x => <<y, x>> \in R
    OBVIOUS
  <1>3. S \subseteq Nat
    OBVIOUS
  <1> HIDE DEF R
  <1>4. PICK x \in S : \A y \in S : ~(<<y, x>> \in R)
    BY <1>1, <1>3, WFMin, Zenon
  <1>5. \A y \in S : x =< y
    <2> SUFFICES ASSUME NEW y \in S PROVE x =< y
      OBVIOUS
    <2>1. x \in Nat /\ y \in Nat
      BY <1>3
    <2>2. ~(y < x)
      BY <1>2, <1>4, <2>1, Zenon
    <2>3. QED
      BY <2>1, <2>2
  <1>6. QED
    BY <1>5

\* A property of 0 that passes from every number to the next is one of all.
LEMMA Inductive ==
    ASSUME NEW S \in SUBSET Nat, 0 \in S, \A n \in S : n + 1 \in S
    PROVE  Nat \subseteq S
  <1> SUFFICES ASSUME Nat \ S # {} PROVE FALSE
    OBVIOUS
  <1>1. PICK n \in Nat \ S : \A k \in Nat \ S : n =< k
    BY Least
  <1>2. n # 0 /\ n - 1 \in Nat /\ n - 1 \notin S
    <2>1. n # 0 /\ n - 1 \in Nat /\ ~(n =< n - 1)
      BY <1>1
    <2>2. QED
      BY <1>1, <2>1
  <1>3. n - 1 \in Nat /\ n - 1 \in Nat \ S
    BY <1>2
  <1>4. QED
    BY <1>1, <1>3

Pick(T) == CHOOSE g \in T : TRUE

\* The equation of the fold in copy_folder_grants.
AddUp(f, T) == IF T = {} THEN 0 ELSE f[T \ {Pick(T)}] + Pick(T)[2]

Copies(S) == CHOOSE f : f = [T \in SUBSET S |-> AddUp(f, T)]

UpTo(S, n) == {T \in SUBSET S : Cardinality(T) =< n}

\* What is taken from a set leaves a smaller one.
LEMMA OneLess ==
    ASSUME NEW S, IsFiniteSet(S), NEW T \in SUBSET S, T # {}
    PROVE  /\ Pick(T) \in T /\ T \ {Pick(T)} \in SUBSET S
           /\ Cardinality(T) \in Nat /\ Cardinality(T \ {Pick(T)}) \in Nat
           /\ Cardinality(T \ {Pick(T)}) + 1 = Cardinality(T)
  <1>1. Pick(T) \in T
    BY DEF Pick
  <1>2. IsFiniteSet(T) /\ IsFiniteSet(T \ {Pick(T)})
    BY FS_Subset
  <1>3. Cardinality(T) \in Nat /\ Cardinality(T \ {Pick(T)}) \in Nat
    BY <1>2, FS_CardinalityType
  <1>4. Cardinality(T \ {Pick(T)}) = Cardinality(T) - 1
    BY <1>1, <1>2, FS_RemoveElement
  <1>5. QED
    BY <1>1, <1>3, <1>4

\* Only the empty set is as small as that.
LEMMA NoneUpToZero ==
    ASSUME NEW S, IsFiniteSet(S), NEW T \in UpTo(S, 0)
    PROVE  T \in SUBSET S /\ T = {}
  <1>1. T \in SUBSET S /\ Cardinality(T) =< 0
    BY DEF UpTo
  <1>2. ASSUME T # {} PROVE FALSE
    <2>1. /\ Cardinality(T) \in Nat /\ Cardinality(T \ {Pick(T)}) \in Nat
          /\ Cardinality(T \ {Pick(T)}) + 1 = Cardinality(T)
      BY <1>1, <1>2, OneLess, Zenon
    <2>2. QED
      BY <1>1, <2>1
  <1>3. QED
    BY <1>1, <1>2

\* The equation has a solution on a finite set.
LEMMA CopiesExist ==
    ASSUME NEW S, IsFiniteSet(S)
    PROVE  Copies(S) = [T \in SUBSET S |-> AddUp(Copies(S), T)]
  <1> DEFINE N == {n \in Nat : \E f : f = [T \in UpTo(S, n) |-> AddUp(f, T)]}
  <1>1. 0 \in N
    <2> DEFINE f == [T \in UpTo(S, 0) |-> 0]
    <2>1. \A T \in UpTo(S, 0) : T = {}
      BY NoneUpToZero
    <2>2. f = [T \in UpTo(S, 0) |-> AddUp(f, T)]
      BY <2>1 DEF AddUp
    <2>3. QED
      BY <2>2
  <1>2. ASSUME NEW n \in N PROVE n + 1 \in N
    <2>1. PICK f : f = [T \in UpTo(S, n) |-> AddUp(f, T)]
      OBVIOUS
    <2> DEFINE h == [T \in UpTo(S, n + 1) |-> AddUp(f, T)]
    <2>2. ASSUME NEW T \in UpTo(S, n + 1) PROVE AddUp(f, T) = AddUp(h, T)
      <3>1. CASE T = {}
        BY <3>1 DEF AddUp
      <3>2. CASE T # {}
        <4>1. T \ {Pick(T)} \in UpTo(S, n) /\ T \ {Pick(T)} \in UpTo(S, n + 1)
          <5>1. T \in SUBSET S /\ Cardinality(T) =< n + 1
            BY DEF UpTo
          <5>2. /\ T \ {Pick(T)} \in SUBSET S
                /\ Cardinality(T \ {Pick(T)}) =< n /\ Cardinality(T \ {Pick(T)}) =< n + 1
            BY <3>2, <5>1, OneLess
          <5>3. QED
            BY <5>2 DEF UpTo
        <4>2. f[T \ {Pick(T)}] = AddUp(f, T \ {Pick(T)})
          BY <2>1, <4>1
        <4>3. h[T \ {Pick(T)}] = AddUp(f, T \ {Pick(T)})
          BY <4>1
        <4>4. QED
          BY <3>2, <4>2, <4>3 DEF AddUp
      <3>3. QED
        BY <3>1, <3>2
    <2>3. h = [T \in UpTo(S, n + 1) |-> AddUp(h, T)]
      <3> HIDE DEF h
      <3>1. h = [T \in UpTo(S, n + 1) |-> AddUp(f, T)]
        BY DEF h
      <3>2. QED
        BY <2>2, <3>1
    <2>4. \E k : k = [T \in UpTo(S, n + 1) |-> AddUp(k, T)]
      <3> HIDE DEF h
      <3>1. QED
        BY <2>3, Zenon
    <2>5. QED
      BY <2>4
  <1>3. Nat \subseteq N
    <2> HIDE DEF N
    <2>1. N \in SUBSET Nat
      BY DEF N
    <2>2. QED
      BY <1>1, <1>2, <2>1, Inductive
  <1>4. UpTo(S, Cardinality(S)) = SUBSET S
    <2>1. ASSUME NEW T \in SUBSET S PROVE Cardinality(T) =< Cardinality(S)
      BY FS_Subset
    <2>2. QED
      BY <2>1 DEF UpTo
  <1>5. Cardinality(S) \in N
    BY <1>3, FS_CardinalityType
  <1>6. \E f : f = [T \in SUBSET S |-> AddUp(f, T)]
    BY <1>4, <1>5
  <1>7. QED
    BY <1>6 DEF Copies

\* Every row that is copied counts.
LEMMA CopiesCounted ==
    ASSUME NEW S, IsFiniteSet(S), S # {}, Selected(S)
    PROVE  FoldSet(LAMBDA s, n : n + s[2], 0, S) \in Nat \ {0}
  <1> DEFINE f == Copies(S)
             Right(T) == f[T] \in Nat /\ (T # {} => f[T] # 0)
             N == {n \in Nat : \A T \in UpTo(S, n) : Right(T)}
  <1>0. f = [T \in SUBSET S |-> AddUp(f, T)]
    BY CopiesExist
  <1> HIDE DEF f
  <1>1. ASSUME NEW T \in SUBSET S, T = {} PROVE Right(T)
    BY <1>0, <1>1 DEF AddUp
  <1>2. ASSUME NEW T \in SUBSET S, T # {}, Right(T \ {Pick(T)}) PROVE Right(T)
    <2>1. f[T] = f[T \ {Pick(T)}] + Pick(T)[2]
      BY <1>0, <1>2 DEF AddUp
    <2>2. Pick(T)[2] \in Nat \ {0}
      BY <1>2, OneLess DEF Selected
    <2>3. QED
      BY <1>2, <2>1, <2>2
  <1> HIDE DEF Right
  <1>3. 0 \in N
    <2>1. ASSUME NEW T \in UpTo(S, 0) PROVE T \in SUBSET S /\ T = {}
      BY NoneUpToZero
    <2>2. QED
      BY <1>1, <2>1
  <1>4. ASSUME NEW n \in N PROVE n + 1 \in N
    <2>1. ASSUME NEW T \in UpTo(S, n + 1) PROVE Right(T)
      <3>1. T \in SUBSET S /\ Cardinality(T) =< n + 1
        BY DEF UpTo
      <3>2. CASE T # {}
        <4>1. T \ {Pick(T)} \in UpTo(S, n)
          BY <3>1, <3>2, OneLess DEF UpTo
        <4>2. QED
          BY <1>2, <3>1, <3>2, <4>1
      <3>3. QED
        BY <1>1, <3>1, <3>2
    <2>2. QED
      BY <2>1
  <1>5. Nat \subseteq N
    <2> HIDE DEF N
    <2>1. N \in SUBSET Nat
      BY DEF N
    <2>2. QED
      BY <1>3, <1>4, <2>1, Inductive
  <1>6. Right(S)
    <2>1. Cardinality(S) \in N
      BY <1>5, FS_CardinalityType
    <2>2. S \in UpTo(S, Cardinality(S))
      BY FS_CardinalityType DEF UpTo
    <2>3. QED
      BY <2>1, <2>2
  <1>7. FoldSet(LAMBDA s, n : n + s[2], 0, S) = f[S]
    BY DEF FoldSet, MapThenFoldSet, Copies, AddUp, Pick, f
  <1>8. QED
    BY <1>6, <1>7 DEF Right

\* A bag of finitely many rows.
FiniteBag(B) == IsABag(B) /\ IsFiniteSet(BagToSet(B))

\* What a new object's transaction has selected is finite as well.
BagInv ==
    /\ FiniteBag(grants)
    /\ \A p \in Procs : proc[p].op = "creating" => IsFiniteSet(proc[p].parents)

\* A finite set is a bag.
LEMMA BagsOfSets ==
    ASSUME NEW S, IsFiniteSet(S)
    PROVE  FiniteBag(SetToBag(S))
  <1>1. IsABag(SetToBag(S)) /\ BagToSet(SetToBag(S)) = S
    BY DEF IsABag, SetToBag, BagToSet
  <1>2. QED
    BY <1>1 DEF FiniteBag

\* The sum of two bags is one.
LEMMA BagsAdd ==
    ASSUME NEW B, NEW C, FiniteBag(B), FiniteBag(C)
    PROVE  FiniteBag(B (+) C)
  <1>1. /\ \A e \in DOMAIN B : B[e] \in Nat /\ B[e] > 0
        /\ \A e \in DOMAIN C : C[e] \in Nat /\ C[e] > 0
    BY DEF FiniteBag, IsABag
  <1>2. IsABag(B (+) C)
    <2> DEFINE sum == [e \in (DOMAIN B) \cup (DOMAIN C) |->
                           (IF e \in DOMAIN B THEN B[e] ELSE 0)
                               + (IF e \in DOMAIN C THEN C[e] ELSE 0)]
    <2>1. \A e \in (DOMAIN B) \cup (DOMAIN C) : sum[e] \in {n \in Nat : n > 0}
      BY <1>1
    <2>2. DOMAIN sum = (DOMAIN B) \cup (DOMAIN C) /\ B (+) C = sum
      BY DEF (+)
    <2>3. QED
      BY <2>1, <2>2 DEF IsABag
  <1>3. IsFiniteSet(BagToSet(B (+) C))
    <2>1. IsFiniteSet(BagToSet(B) \cup BagToSet(C))
      BY FS_Union DEF FiniteBag
    <2>2. BagToSet(B (+) C) = BagToSet(B) \cup BagToSet(C)
      BY RowsOfBags, Zenon
    <2>3. QED
      BY <2>1, <2>2, Zenon
  <1>4. QED
    BY <1>2, <1>3 DEF FiniteBag

\* So is what is left when rows are taken away.
LEMMA BagsTakeAway ==
    ASSUME NEW B, NEW S, FiniteBag(B)
    PROVE  FiniteBag(B (-) SetToBag(S))
  <1> DEFINE C == SetToBag(S)
             left == [e \in DOMAIN B |-> IF e \in DOMAIN C THEN B[e] - C[e] ELSE B[e]]
  <1>1. \A e \in DOMAIN B : left[e] \in Int
    <2>1. \A e \in DOMAIN B : B[e] \in Int
      BY DEF FiniteBag, IsABag
    <2>2. \A e \in DOMAIN C : C[e] = 1
      BY DEF SetToBag
    <2>3. QED
      BY <2>1, <2>2
  <1>2. B (-) C = [e \in {d \in DOMAIN left : left[d] > 0} |-> left[e]]
    BY DEF (-)
  <1>3. IsABag(B (-) C)
    <2> HIDE DEF C
    <2>1. DOMAIN left = DOMAIN B
      OBVIOUS
    <2> HIDE DEF left
    <2>2. \A e \in {d \in DOMAIN left : left[d] > 0} : left[e] \in {n \in Nat : n > 0}
      BY <1>1, <2>1
    <2>3. QED
      BY <1>2, <2>2 DEF IsABag
  <1>4. IsFiniteSet(BagToSet(B (-) C))
    <2>1. BagToSet(B (-) C) \subseteq BagToSet(B)
      BY RowsOfBags
    <2>2. QED
      BY <2>1, FS_Subset DEF FiniteBag
  <1>5. QED
    BY <1>3, <1>4 DEF FiniteBag

\* And what a cascade leaves.
LEMMA BagsCascade ==
    ASSUME FiniteBag(grants), NEW objs
    PROVE  FiniteBag(Cascade(objs))
  <1>1. BagToSet(Cascade(objs)) \subseteq BagToSet(grants)
    BY CascadeRows
  <1>2. IsABag(Cascade(objs))
    BY DEF Cascade, IsABag, FiniteBag, BagToSet
  <1>3. IsFiniteSet(BagToSet(Cascade(objs)))
    BY <1>1, FS_Subset DEF FiniteBag
  <1>4. QED
    BY <1>2, <1>3 DEF FiniteBag

\* The grants that a new object gets: each copy counts the rows it was made of.
LEMMA BagsCopied ==
    ASSUME NEW parents, Selected(parents), IsFiniteSet(parents), NEW i, NEW u
    PROVE  FiniteBag(copy_folder_grants(parents, u, i))
  <1> DEFINE Copy(s) == [s[1] EXCEPT !.obj = i, !.by = u]
             From(h) == {s \in parents : Copy(s) = h}
             H == {Copy(s) : s \in parents}
             fold(h) == FoldSet(LAMBDA s, n : n + s[2], 0, From(h))
             B == copy_folder_grants(parents, u, i)
  <1>1. B = [h \in H |-> fold(h)]
    BY Zenon DEF copy_folder_grants
  <1>2. ASSUME NEW h \in H PROVE fold(h) \in Nat \ {0}
    <2>1. From(h) \in SUBSET parents /\ From(h) # {}
      BY Zenon
    <2> HIDE DEF Copy, From
    <2>2. IsFiniteSet(From(h))
      BY <2>1, FS_Subset
    <2>3. Selected(From(h))
      BY <2>1 DEF Selected
    <2>4. QED
      BY <2>1, <2>2, <2>3, CopiesCounted
  <1>3. IsFiniteSet(H)
    <2> DEFINE f == [s \in parents |-> Copy(s)]
    <2> HIDE DEF Copy
    <2>1. f \in Surjection(parents, H)
      BY DEF Surjection
    <2>2. QED
      BY <2>1, FS_Surjection
  <1> HIDE DEF H, fold, B
  <1>4. DOMAIN B = H /\ \A h \in H : B[h] \in {n \in Nat : n > 0}
    BY <1>1, <1>2
  <1>5. B = [h \in DOMAIN B |-> B[h]]
    BY <1>1
  <1>6. IsABag(B) /\ BagToSet(B) = H
    BY <1>4, <1>5 DEF IsABag, BagToSet
  <1>7. FiniteBag(B)
    BY <1>3, <1>6 DEF FiniteBag
  <1>8. QED
    BY <1>7 DEF B

\* Whatever an upload adds is a bag.
LEMMA DefaultBag ==
    ASSUME NEW parents, Selected(parents), IsFiniteSet(parents), NEW u, NEW i, NEW n
    PROVE  FiniteBag(ensure_default_private_access(parents, u, i, n))
  <1>1. \A a, b : FiniteBag(SetToBag({a, b}))
    <2> TAKE a, b
    <2>1. IsFiniteSet({a}) /\ IsFiniteSet({b}) /\ {a, b} = {a} \cup {b}
      BY FS_Singleton
    <2>2. IsFiniteSet({a, b})
      BY <2>1, FS_Union
    <2>3. QED
      BY <2>2, BagsOfSets
  <1>2. FiniteBag(EmptyBag)
    BY FS_EmptySet, BagsOfSets DEF EmptyBag
  <1>3. FiniteBag(copy_folder_grants(parents, u, i))
    BY BagsCopied
  <1>4. QED
    BY <1>1, <1>2, <1>3 DEF ensure_default_private_access

\* A SELECT yields finitely many rows.
LEMMA ParentsFinite ==
    ASSUME FiniteBag(grants), NEW n
    PROVE  IsFiniteSet(ParentGrants(n))
  <1> DEFINE S == nearest_ancestor_folder_grants(folder_path_from_placeholder(n))
             f == [g \in S |-> <<g, grants[g]>>]
  <1>1. S \subseteq BagToSet(grants)
    BY DEF nearest_ancestor_folder_grants, folder_grants_for_prefixes, Active
  <1>2. IsFiniteSet(S)
    BY <1>1, FS_Subset DEF FiniteBag
  <1>3. ParentGrants(n) = {f[g] : g \in S}
    BY DEF ParentGrants
  <1> HIDE DEF S
  <1>4. f \in Surjection(S, ParentGrants(n))
    BY <1>3 DEF Surjection
  <1>5. QED
    BY <1>2, <1>4, FS_Surjection

\* A step of p that leaves a bag, and no selection that is not finite.
LEMMA BagFrame ==
    ASSUME ForeignKeys, BagInv, FiniteBag(grants'), NEW p \in Procs, NEW r,
           proc' = [proc EXCEPT ![p] = r], r.op = "creating" => IsFiniteSet(r.parents)
    PROVE  BagInv'
  BY DEF BagInv, FiniteBag, ForeignKeys

\* Every step keeps the grants a bag of finitely many rows.
LEMMA NextBag == ForeignKeys /\ BagInv /\ [Next]_vars => BagInv'
  <1> SUFFICES ASSUME ForeignKeys, BagInv, [Next]_vars PROVE BagInv'
    OBVIOUS
  <1>0. FiniteBag(grants) /\ Idle.op # "creating"
    BY DEF BagInv, Idle
  <1>1. ASSUME UNCHANGED proc, FiniteBag(grants') PROVE BagInv'
    BY <1>1 DEF BagInv, FiniteBag
  <1>2. ASSUME NEW u \in Users, NEW r \in GrantRequests, create_grant(u, r)
        PROVE  BagInv'
    <2>1. PICK g : grants' = grants (+) SetToBag({g})
      BY <1>2 DEF create_grant
    <2>2. FiniteBag(SetToBag({g}))
      BY FS_Singleton, BagsOfSets
    <2>3. FiniteBag(grants')
      BY <1>0, <2>1, <2>2, BagsAdd
    <2>4. QED
      BY <1>1, <1>2, <2>3 DEF create_grant
  <1>3. ASSUME NEW u \in Users, NEW g \in BagToSet(grants), delete_grant(u, g)
        PROVE  BagInv'
    <2>1. FiniteBag(grants')
      BY <1>0, <1>3, BagsTakeAway DEF delete_grant
    <2>2. QED
      BY <1>1, <1>3, <2>1 DEF delete_grant
  <1>4. ASSUME NEW p \in Procs, End(p), FiniteBag(grants') PROVE BagInv'
    BY <1>0, <1>4, BagFrame DEF End
  <1>5. ASSUME NEW p \in Procs, ActUpload(p) PROVE BagInv'
    <2>1. PICK i \in Unused : grants' = grants (+)
              ensure_default_private_access(proc[p].parents, proc[p].user, i, proc[p].name)
      BY <1>5 DEF ActUpload
    <2>2. Selected(proc[p].parents) /\ IsFiniteSet(proc[p].parents)
      BY <1>5, RequestOf DEF ActUpload, ForeignKeys, BagInv
    <2>3. FiniteBag(grants')
      BY <1>0, <2>1, <2>2, DefaultBag, BagsAdd
    <2>4. QED
      BY <1>4, <1>5, <2>3 DEF ActUpload
  <1>6. ASSUME NEW p \in Procs, ActDelete(p) PROVE BagInv'
    <2>1. FiniteBag(grants')
      BY <1>0, <1>6, BagsCascade DEF ActDelete
    <2>2. QED
      BY <1>4, <1>6, <2>1 DEF ActDelete
  <1>7. ASSUME NEW p \in Procs, Fail(p) \/ Overwrite(p) \/ ActMove(p) \/ ActRename(p)
        PROVE  BagInv'
    BY <1>0, <1>4, <1>7 DEF Fail, Overwrite, ActMove, ActRename
  <1>8. ASSUME NEW p \in Procs, SelectParents(p) PROVE BagInv'
    <2>1. IsFiniteSet(ParentGrants(proc[p].name))
      BY <1>0, ParentsFinite
    <2>2. QED
      BY <1>0, <1>8, <2>1, BagFrame DEF SelectParents
  <1>9. ASSUME NEW p \in Procs, LockFolder(p) PROVE BagInv'
    BY <1>0, <1>9, BagFrame DEF LockFolder
  <1>10. ASSUME NEW p \in Procs, NEW u \in Users,
               \/ \E n \in Uploads : CheckUpload(p, u, n)
               \/ \E m \in Moves : CheckMove(p, u, m[1], m[2])
               \/ \E r \in Renames : CheckRename(p, u, r[1], r[2])
               \/ DeleteObject(p, u) \/ DeletePrefix(p, u) \/ EmptyBucket(p, u)
        PROVE  BagInv'
    <2>1. PICK r : Begin(p, r) /\ r.op \notin {"renaming", "creating"}
      BY <1>10, ChecksBegin
    <2>2. QED
      BY <1>0, <2>1, BagFrame DEF Begin
  <1>11. Tick \/ UNCHANGED vars => UNCHANGED <<grants, proc>>
    BY DEF Tick, vars
  <1>12. QED
    BY <1>0, <1>1, <1>2, <1>3, <1>5, <1>6, <1>7, <1>8, <1>9, <1>10, <1>11 DEF Next

\* The bucket starts without grants.
LEMMA InitBag == Init => BagInv
  <1>1. FiniteBag(EmptyBag)
    BY FS_EmptySet, BagsOfSets DEF EmptyBag
  <1>2. QED
    BY <1>1 DEF Init, BagInv, Idle

\* Every grant is about an object that exists, or about the bucket, and every
\* row a rename has locked is still there when the rename comes to it,
\* whatever is uploaded, moved, renamed, deleted and granted meanwhile
\* (StorageAccessGrant's foreign key and check constraint, rename_folder's locks).
THEOREM KeysHold == Spec => []ForeignKeys
  <1>1. Init => ForeignKeys /\ BagInv
    BY InitKeys, InitBag
  <1>2. BagInv => IsABag(grants)
    BY DEF BagInv, FiniteBag
  <1>3. QED
    BY <1>1, <1>2, NextKeys, NextBag, PTL DEF Spec

\* Rows, requests and grants have their types, and the table of grants never
\* holds a grant a negative number of times or not at all: however often
\* ensure_default_private_access copies the grants of a parent, and in whatever
\* order grants are added, revoked and cascaded.
THEOREM TypeCorrect == Spec => []TypeOK
  <1>1. BagInv /\ ForeignKeys => TypeOK
    BY DEF BagInv, FiniteBag, TypeOK
  <1>2. BagInv => IsABag(grants)
    BY DEF BagInv, FiniteBag
  <1>3. QED
    BY <1>1, <1>2, InitKeys, InitBag, NextKeys, NextBag, PTL DEF Spec

(***************************************************************************)
(* What summaries and listings say                                         *)
(***************************************************************************)

\* Whom no grant of the user's own concerns, decides by the company's rows.
LEMMA OpenIsOpen ==
    ASSUME ForeignKeys, NEW path, NEW id, NEW v \in Users,
           path_access_summary(path, id) # "restricted",
           ~\E g \in Active : g.subject = v /\ resource_matches_grant(g, path, id)
    PROVE  evaluate_access(v, path, id, Read)
  <1> DEFINE top == Deciding(v, path, id)
             allows == {g \in top : g.effect = "allow"}
  <1>1. \A g \in Active : /\ g.permission \in {0, 1, 2} /\ g.effect \in {"allow", "deny"}
    BY DEF Active, ForeignKeys, Grants, Permissions, Read, Write, Admin
  <1>2. \A g \in top : g \in Active /\ g.subject = Company /\ resource_matches_grant(g, path, id)
    BY DEF Deciding, subject_matches
  <1>3. ~\E g \in Active : /\ resource_matches_grant(g, path, id) /\ g.effect = "deny"
                           /\ g.subject = Company /\ deny_blocks(g.permission, Read)
    BY DEF path_access_summary
  <1>4. ~\E g \in top \ allows : deny_blocks(g.permission, Read)
    BY <1>1, <1>2, <1>3
  <1>5. CASE allows = {}
    <2>1. kind_default_allows(v, Read)
      <3>1. CASE Kind = "company"
        BY <3>1 DEF kind_default_allows, Read, Admin
      <3>2. CASE Kind = "connector"
        BY <3>2 DEF kind_default_allows
      <3>3. QED
        BY <3>1, <3>2, AccessAssumption
    <2>2. QED
      BY <1>4, <1>5, <2>1 DEF evaluate_access
  <1>6. CASE allows # {}
    <2>1. \E g \in allows : permission_at_least(g.permission, Read)
      BY <1>1, <1>2, <1>6 DEF permission_at_least, Read
    <2>2. QED
      BY <1>4, <1>6, <2>1 DEF evaluate_access
  <1>7. QED
    BY <1>5, <1>6

\* What a listing does not show as restricted is open to every member whom no
\* grant of the member's own denies, however the grants of files, folders and
\* the bucket overlap (path_access_summary against evaluate_access).
THEOREM UnrestrictedIsOpen == Spec => []OpenMeansOpen
  <1>1. ForeignKeys => OpenMeansOpen
    BY OpenIsOpen DEF OpenMeansOpen, Users
  <1>2. QED
    BY <1>1, KeysHold, PTL

\* A path lies strictly under each of its proper prefixes.
LEMMA UnderPrefixes ==
    ASSUME NEW n \in Paths, NEW k \in 1..Len(n)
    PROVE  LET f == SubSeq(n, 1, k) IN
           /\ f \in Paths /\ Len(f) = k /\ Front(f) \in Seq(Segments) /\ Len(Front(f)) = k - 1
           /\ IsStrictPrefix(Front(f), n)
  <1> DEFINE f == SubSeq(n, 1, k)
             g == Front(f)
  <1>1. n \in Seq(Segments) /\ Len(n) \in Nat
    BY DEF Paths
  <1>2. f \in Seq(Segments) /\ Len(f) = k /\ \A j \in 1..k : f[j] = n[j]
    BY <1>1
  <1>3. g \in Seq(Segments) /\ Len(g) = k - 1 /\ \A j \in 1..(k - 1) : g[j] = n[j]
    BY <1>2 DEF Front
  <1>4. f # <<>>
    BY <1>2
  <1>5. SubSeq(g, 1, Len(g)) = SubSeq(n, 1, Len(g))
    BY <1>1, <1>3
  <1>6. g # n
    BY <1>3
  <1> HIDE DEF f, g
  <1>7. IsStrictPrefix(g, n)
    BY <1>1, <1>3, <1>5, <1>6 DEF IsStrictPrefix, IsPrefix
  <1>8. QED
    BY <1>2, <1>3, <1>4, <1>7 DEF f, g, Paths

\* A file is listed in its folder exactly when it may be read.
LEMMA FileListed ==
    ASSUME ForeignKeys, NEW u \in Users, NEW i \in Live
    PROVE  [path |-> name[i], id |-> i] \in ObjectList(u, Front(name[i])) <=> Download(u, i)
  <1> DEFINE n == name[i]
             e == [path |-> n, id |-> i]
  <1>1. n \in Paths /\ i \in Ids /\ i # None
    BY AccessAssumption DEF ForeignKeys, Live
  <1>2. n \in Seq(Segments) /\ Len(n) \in 1..Len(n) /\ SubSeq(n, 1, Len(n)) = n
    BY <1>1 DEF Paths
  <1>3. Len(Front(n)) = Len(n) - 1 /\ IsStrictPrefix(Front(n), n)
    BY <1>1, <1>2, UnderPrefixes
  <1>4. i \in objects_under_prefix(Front(n)) /\ Len(n) = Len(Front(n)) + 1
    BY <1>2, <1>3 DEF objects_under_prefix
  <1>5. ASSUME Download(u, i) PROVE e \in ObjectList(u, Front(n))
    BY <1>4, <1>5 DEF Download, CanReach, ObjectList, list_objects
  <1>6. ASSUME e \in ObjectList(u, Front(n)) PROVE Download(u, i)
    <2>1. can_access_bucket(u, Read) /\ e \in list_objects(u, Front(n))
      BY <1>6 DEF ObjectList
    <2>2. evaluate_access(u, n, i, Read)
      BY <1>1, <2>1 DEF list_objects
    <2>3. QED
      BY <2>1, <2>2 DEF Download, CanReach
  <1>7. QED
    BY <1>5, <1>6

\* A file that may be read shows every folder above it.
LEMMA FoldersListed ==
    ASSUME ForeignKeys, NEW u \in Users, NEW i \in Live, Download(u, i),
           NEW k \in 1..(Len(name[i]) - 1)
    PROVE  [path |-> SubSeq(name[i], 1, k), id |-> None]
              \in ObjectList(u, Front(SubSeq(name[i], 1, k)))
  <1> DEFINE n == name[i]
             f == SubSeq(n, 1, k)
  <1>1. n \in Paths /\ i \in Ids
    BY AccessAssumption DEF ForeignKeys, Live
  <1>2. Len(n) \in Nat /\ k \in 1..Len(n) /\ k # Len(n)
    BY <1>1 DEF Paths
  <1>3. Len(Front(f)) = k - 1 /\ IsStrictPrefix(Front(f), n)
    BY <1>1, <1>2, UnderPrefixes
  <1>4. i \in objects_under_prefix(Front(f)) /\ Len(Front(f)) + 1 = k
    BY <1>2, <1>3 DEF objects_under_prefix
  <1>5. can_access_bucket(u, Read) /\ evaluate_access(u, n, i, Read)
    BY DEF Download, CanReach
  <1>6. QED
    BY <1>2, <1>4, <1>5 DEF ObjectList, list_objects

\* Browsing the bucket level by level finds a file exactly when it may be
\* downloaded, through folders that may not be read as well, and PROPFIND shows
\* no file that may not be (list_objects, WebDAVView.propfind,
\* assert_can_access_path), for trees of any depth and any grants.
THEOREM BrowsingComplete == Spec => []BrowsingFindsReadable
  <1>1. ASSUME ForeignKeys PROVE BrowsingFindsReadable
    <2> SUFFICES ASSUME NEW u \in Users, NEW i \in Live
                 PROVE  /\ Download(u, i) <=>
                            /\ [path |-> name[i], id |-> i] \in ObjectList(u, Front(name[i]))
                            /\ \A f \in {SubSeq(name[i], 1, k) : k \in 1..(Len(name[i]) - 1)} :
                                  [path |-> f, id |-> None] \in ObjectList(u, Front(f))
                        /\ [path |-> name[i], id |-> i] \in propfind(u, Front(name[i]))
                              => Download(u, i)
      BY DEF BrowsingFindsReadable
    <2>1. [path |-> name[i], id |-> i] \in ObjectList(u, Front(name[i])) <=> Download(u, i)
      BY <1>1, FileListed
    <2>2. ASSUME Download(u, i), NEW k \in 1..(Len(name[i]) - 1)
          PROVE  [path |-> SubSeq(name[i], 1, k), id |-> None]
                    \in ObjectList(u, Front(SubSeq(name[i], 1, k)))
      BY <1>1, <2>2, FoldersListed
    <2>3. [path |-> name[i], id |-> i] \in propfind(u, Front(name[i])) =>
              [path |-> name[i], id |-> i] \in ObjectList(u, Front(name[i]))
      BY DEF propfind
    <2>4. QED
      BY <2>1, <2>2, <2>3
  <1>2. QED
    BY <1>1, KeysHold, PTL

(***************************************************************************)
(* Decisions level by level                                                *)
(***************************************************************************)

\* The grants that apply, and the depth of a grant's folder.
Matching(u, path, id) ==
    {g \in Active : subject_matches(g, u) /\ resource_matches_grant(g, path, id)}

Depth(g) == Len(folder_path_from_placeholder(name[g.obj]))

\* The place of a grant's subject and of the grant in the levels of a path of
\* length n.
SubjectRank(g) == IF g.subject = Company THEN 2 ELSE 1

Rank(g, n) ==
    CASE g.type = "object" -> SubjectRank(g)
      [] g.type = "folder" -> 2 + 2 * (n - Depth(g)) + SubjectRank(g)
      [] g.type = "bucket" -> 4 + 2 * n + SubjectRank(g)

\* The name of a folder grant's folder is a path, perhaps the empty one.
LEMMA FolderPath ==
    ASSUME NEW n \in Paths
    PROVE  folder_path_from_placeholder(n) \in Seq(Segments)
  <1>1. n \in Seq(Segments) /\ Len(n) \in Nat \ {0}
    BY DEF Paths
  <1>2. Front(n) \in Seq(Segments)
    BY <1>1 DEF Front
  <1>3. QED
    BY <1>1, <1>2 DEF folder_path_from_placeholder

\* A prefix is the beginning of its own length.
LEMMA PrefixOf ==
    ASSUME NEW f \in Seq(Segments), NEW path \in Seq(Segments)
    PROVE  /\ IsPrefix(f, path) <=> Len(f) =< Len(path) /\ f = SubSeq(path, 1, Len(f))
           /\ \A d \in 0..Len(path) : f = SubSeq(path, 1, d) => Len(f) = d
  <1>1. SubSeq(f, 1, Len(f)) = f
    OBVIOUS
  <1>2. \A d \in 0..Len(path) : Len(SubSeq(path, 1, d)) = d
    OBVIOUS
  <1>3. QED
    BY <1>1, <1>2 DEF IsPrefix

\* What is known of a grant that applies: its kind, its place, its weight.
LEMMA MatchingGrant ==
    ASSUME ForeignKeys, NEW u \in Users, NEW path \in Seq(Segments), NEW id,
           NEW g \in Matching(u, path, id)
    PROVE  /\ g \in Active /\ g \in Grants
           /\ g.subject \in {u, Company} /\ u # Company
           /\ SubjectRank(g) \in {1, 2}
           /\ \/ /\ g.type = "object" /\ (g.obj = id \/ name[g.obj] = path)
                 /\ Rank(g, Len(path)) = SubjectRank(g)
                 /\ grant_specificity(g) = 10005 - 2 * SubjectRank(g)
              \/ /\ g.type = "folder" /\ Depth(g) \in 0..Len(path)
                 /\ folder_path_from_placeholder(name[g.obj]) = SubSeq(path, 1, Depth(g))
                 /\ Rank(g, Len(path)) = 2 + 2 * (Len(path) - Depth(g)) + SubjectRank(g)
                 /\ grant_specificity(g) = 1005 + 10 * Depth(g) - 2 * SubjectRank(g)
              \/ /\ g.type = "bucket"
                 /\ Rank(g, Len(path)) = 4 + 2 * Len(path) + SubjectRank(g)
                 /\ grant_specificity(g) = 15 - 2 * SubjectRank(g)
  <1>1. /\ g \in Active /\ g \in Grants /\ g.subject \in {u, Company}
        /\ resource_matches_grant(g, path, id)
        /\ IF g.type = "bucket" THEN g.obj = None ELSE g.obj \in Live
    BY DEF Matching, Active, ForeignKeys, subject_matches
  <1>2. u # Company /\ u # Group /\ Company # Group
    BY AccessAssumption
  <1>3. SubjectRank(g) \in {1, 2}
    BY DEF SubjectRank
  <1>4. (CASE g.subject = Company -> 1 [] g.subject = Group -> 2 [] OTHER -> 3)
           = 5 - 2 * SubjectRank(g)
    BY <1>1, <1>2 DEF SubjectRank
  <1>5. g.type \in {"bucket", "folder", "object"}
    BY <1>1 DEF Grants
  <1>6. CASE g.type = "object"
    <2>1. g.obj = id \/ name[g.obj] = path
      BY <1>1, <1>6 DEF resource_matches_grant
    <2>2. grant_specificity(g) = 1000 * 10 + (5 - 2 * SubjectRank(g))
      BY <1>4, <1>6 DEF grant_specificity
    <2>3. Rank(g, Len(path)) = SubjectRank(g)
      BY <1>6 DEF Rank
    <2>4. QED
      BY <1>1, <1>2, <1>3, <1>6, <2>1, <2>2, <2>3
  <1>7. CASE g.type = "folder"
    <2>1. name[g.obj] \in Paths
      BY <1>1, <1>7 DEF ForeignKeys, Live
    <2>2. folder_path_from_placeholder(name[g.obj]) \in Seq(Segments)
      BY <2>1, FolderPath
    <2>3. IsPrefix(folder_path_from_placeholder(name[g.obj]), path)
      BY <1>1, <1>7 DEF resource_matches_grant, folder_matches
    <2>4. /\ Depth(g) \in 0..Len(path)
          /\ folder_path_from_placeholder(name[g.obj]) = SubSeq(path, 1, Depth(g))
      BY <2>2, <2>3, PrefixOf DEF Depth
    <2>5. grant_specificity(g) = (100 + Depth(g)) * 10 + (5 - 2 * SubjectRank(g))
      BY <1>4, <1>7 DEF grant_specificity, Depth
    <2>6. Rank(g, Len(path)) = 2 + 2 * (Len(path) - Depth(g)) + SubjectRank(g)
      BY <1>7 DEF Rank
    <2>7. grant_specificity(g) = 1005 + 10 * Depth(g) - 2 * SubjectRank(g)
      BY <1>3, <2>4, <2>5
    <2>8. QED
      BY <1>1, <1>2, <1>3, <1>7, <2>4, <2>6, <2>7
  <1>8. CASE g.type = "bucket"
    <2>1. grant_specificity(g) = 1 * 10 + (5 - 2 * SubjectRank(g))
      BY <1>4, <1>8 DEF grant_specificity
    <2>2. Rank(g, Len(path)) = 4 + 2 * Len(path) + SubjectRank(g)
      BY <1>8 DEF Rank
    <2>3. QED
      BY <1>1, <1>2, <1>3, <1>8, <2>1, <2>2
  <1>9. QED
    BY <1>5, <1>6, <1>7, <1>8

\* The weight of the code orders the grants as the levels do, as long as no
\* path is so deep that a folder outweighs an object.
LEMMA RankOrder ==
    ASSUME ForeignKeys, NEW u \in Users, NEW path \in Seq(Segments), Len(path) < 900, NEW id,
           NEW g \in Matching(u, path, id), NEW h \in Matching(u, path, id)
    PROVE  /\ Rank(g, Len(path)) \in 1..(2 * Len(path) + 6)
           /\ grant_specificity(h) =< grant_specificity(g)
                 <=> Rank(g, Len(path)) =< Rank(h, Len(path))
  <1> DEFINE n == Len(path)
             Place(s, r, w) ==
                \/ r = s /\ w = 10005 - 2 * s
                \/ \E d \in 0..n : r = 2 + 2 * (n - d) + s /\ w = 1005 + 10 * d - 2 * s
                \/ r = 4 + 2 * n + s /\ w = 15 - 2 * s
  <1>1. n \in Nat /\ n < 900
    OBVIOUS
  <1>2. ASSUME NEW k \in Matching(u, path, id)
        PROVE  SubjectRank(k) \in {1, 2} /\ Place(SubjectRank(k), Rank(k, n), grant_specificity(k))
    BY <1>2, MatchingGrant
  <1> HIDE DEF n
  <1>3. ASSUME NEW s \in {1, 2}, NEW r, NEW w, Place(s, r, w)
        PROVE  r \in 1..(2 * n + 6) /\ w \in Int
    BY <1>1, <1>3
  <1>4. ASSUME NEW s \in {1, 2}, NEW r, NEW w, Place(s, r, w),
               NEW t \in {1, 2}, NEW q, NEW v, Place(t, q, v)
        PROVE  v =< w <=> r =< q
    <2>1. CASE r = s /\ w = 10005 - 2 * s
      BY <1>1, <1>4, <2>1
    <2>2. ASSUME NEW d \in 0..n, r = 2 + 2 * (n - d) + s, w = 1005 + 10 * d - 2 * s
          PROVE  v =< w <=> r =< q
      <3>1. CASE q = t /\ v = 10005 - 2 * t
        BY <1>1, <2>2, <3>1
      <3>2. ASSUME NEW e \in 0..n, q = 2 + 2 * (n - e) + t, v = 1005 + 10 * e - 2 * t
            PROVE  v =< w <=> r =< q
        BY <1>1, <2>2, <3>2
      <3>3. CASE q = 4 + 2 * n + t /\ v = 15 - 2 * t
        BY <1>1, <2>2, <3>3
      <3>4. QED
        BY <1>4, <3>1, <3>2, <3>3
    <2>3. CASE r = 4 + 2 * n + s /\ w = 15 - 2 * s
      BY <1>1, <1>4, <2>3
    <2>4. QED
      BY <1>4, <2>1, <2>2, <2>3
  <1> HIDE DEF Place
  <1>5. /\ Rank(g, n) \in 1..(2 * n + 6)
        /\ grant_specificity(h) =< grant_specificity(g) <=> Rank(g, n) =< Rank(h, n)
    BY <1>2, <1>3, <1>4
  <1>6. QED
    BY <1>5 DEF n


\* Two entries, a sequence and two entries in a row.
LEMMA Concatenation ==
    ASSUME NEW S, NEW a \in S, NEW b \in S, NEW c \in S, NEW d \in S, NEW mid \in Seq(S),
           NEW all, all = <<a, b>> \o mid \o <<c, d>>
    PROVE  /\ Len(all) = Len(mid) + 4
           /\ all[1] = a /\ all[2] = b
           /\ \A k \in 1..Len(mid) : all[k + 2] = mid[k]
           /\ all[Len(mid) + 3] = c /\ all[Len(mid) + 4] = d
  <1> DEFINE front == <<a, b>> \o mid
  <1>1. <<a, b>> \in Seq(S) /\ <<c, d>> \in Seq(S) /\ Len(<<a, b>>) = 2 /\ Len(<<c, d>>) = 2
    OBVIOUS
  <1>2. /\ front \in Seq(S) /\ Len(front) = Len(mid) + 2 /\ front[1] = a /\ front[2] = b
        /\ \A k \in 1..Len(mid) : front[k + 2] = mid[k]
    BY <1>1
  <1> HIDE DEF front
  <1>3. Len(mid) \in Nat
    OBVIOUS
  <1>4. /\ Len(front \o <<c, d>>) = Len(mid) + 4
        /\ \A k \in 1..(Len(mid) + 2) : (front \o <<c, d>>)[k] = front[k]
        /\ (front \o <<c, d>>)[Len(mid) + 3] = c /\ (front \o <<c, d>>)[Len(mid) + 4] = d
    BY <1>1, <1>2, <1>3
  <1>5. QED
    BY <1>2, <1>3, <1>4 DEF front

\* Each level of the documentation is the grants of one rank.
LEMMA LevelsByRank ==
    ASSUME ForeignKeys, NEW u \in Users, NEW path \in Seq(Segments), NEW id
    PROVE  /\ Len(Levels(u, path, id)) = 2 * Len(path) + 6
           /\ \A k \in 1..(2 * Len(path) + 6) :
                Levels(u, path, id)[k] = {g \in Matching(u, path, id) : Rank(g, Len(path)) = k}
  <1> DEFINE n == Len(path)
             M == Matching(u, path, id)
             Subject(r) == IF r = 1 THEN u ELSE Company
             mid == [k \in 1..(2 * n + 2) |->
                        InFolder(path, n - (k - 1) \div 2, IF k % 2 = 1 THEN u ELSE Company)]
             L == Levels(u, path, id)
  <1>1. n \in Nat
    OBVIOUS
  <1>2. u # Company
    BY AccessAssumption
  <1>3. ASSUME NEW g \in Active, NEW r \in {1, 2}, g.subject = Subject(r)
        PROVE  SubjectRank(g) = r /\ subject_matches(g, u)
    BY <1>2, <1>3 DEF SubjectRank, subject_matches
  <1>4. ASSUME NEW g \in M PROVE g.subject = Subject(SubjectRank(g))
    BY <1>2, <1>4, MatchingGrant DEF SubjectRank
  <1>5. \A r \in {1, 2} : OnObject(path, id, Subject(r)) = {g \in M : Rank(g, n) = r}
    <2> SUFFICES ASSUME NEW r \in {1, 2}
                 PROVE  OnObject(path, id, Subject(r)) = {g \in M : Rank(g, n) = r}
      OBVIOUS
    <2>1. ASSUME NEW g \in OnObject(path, id, Subject(r)) PROVE g \in M /\ Rank(g, n) = r
      <3>1. /\ g \in Active /\ g.type = "object" /\ g.subject = Subject(r)
            /\ g.obj = id \/ name[g.obj] = path
        BY <2>1 DEF OnObject
      <3>2. resource_matches_grant(g, path, id)
        BY <3>1 DEF resource_matches_grant
      <3>3. QED
        BY <1>3, <3>1, <3>2 DEF Matching, Rank
    <2>2. ASSUME NEW g \in M, Rank(g, n) = r PROVE g \in OnObject(path, id, Subject(r))
      <3>1. SubjectRank(g) = r /\ g.type = "object" /\ (g.obj = id \/ name[g.obj] = path)
        BY <1>1, <2>2, MatchingGrant
      <3>2. QED
        BY <1>4, <3>1, MatchingGrant DEF OnObject
    <2>3. QED
      BY <2>1, <2>2
  <1>6. \A r \in {1, 2}, d \in 0..n :
            InFolder(path, d, Subject(r)) = {g \in M : Rank(g, n) = 2 + 2 * (n - d) + r}
    <2> SUFFICES ASSUME NEW r \in {1, 2}, NEW d \in 0..n
                 PROVE  InFolder(path, d, Subject(r))
                           = {g \in M : Rank(g, n) = 2 + 2 * (n - d) + r}
      OBVIOUS
    <2>1. ASSUME NEW g \in InFolder(path, d, Subject(r))
          PROVE  g \in M /\ Rank(g, n) = 2 + 2 * (n - d) + r
      <3>1. /\ g \in Active /\ g.type = "folder" /\ g.subject = Subject(r)
            /\ folder_path_from_placeholder(name[g.obj]) = SubSeq(path, 1, d)
        BY <2>1 DEF InFolder
      <3>2. SubSeq(path, 1, d) \in Seq(Segments) /\ Len(SubSeq(path, 1, d)) = d /\ d =< n
        BY <1>1
      <3>3. IsPrefix(SubSeq(path, 1, d), path) /\ Depth(g) = d
        BY <3>1, <3>2, PrefixOf DEF Depth
      <3>4. resource_matches_grant(g, path, id)
        BY <3>1, <3>3 DEF resource_matches_grant, folder_matches
      <3>5. QED
        BY <1>3, <3>1, <3>3, <3>4 DEF Matching, Rank
    <2>2. ASSUME NEW g \in M, Rank(g, n) = 2 + 2 * (n - d) + r
          PROVE  g \in InFolder(path, d, Subject(r))
      <3> DEFINE s == SubjectRank(g)
                 e == Depth(g)
      <3>1. s \in {1, 2} /\ g \in Active
        BY MatchingGrant
      <3>2. 2 + 2 * (n - d) + r \in 3..(2 * n + 4)
        BY <1>1
      <3>3. /\ g.type = "folder" /\ e \in 0..n
            /\ folder_path_from_placeholder(name[g.obj]) = SubSeq(path, 1, e)
            /\ Rank(g, n) = 2 + 2 * (n - e) + s
        <4>1. ~(Rank(g, n) = s) /\ ~(Rank(g, n) = 4 + 2 * n + s)
          BY <1>1, <2>2, <3>1, <3>2
        <4>2. QED
          BY <4>1, MatchingGrant
      <3> HIDE DEF s, e, n
      <3>4. s = r /\ e = d
        BY <1>1, <2>2, <3>1, <3>3
      <3>5. QED
        BY <1>4, <3>1, <3>3, <3>4 DEF InFolder, s
    <2>3. QED
      BY <2>1, <2>2
  <1>7. \A r \in {1, 2} : OnBucket(Subject(r)) = {g \in M : Rank(g, n) = 4 + 2 * n + r}
    <2> SUFFICES ASSUME NEW r \in {1, 2}
                 PROVE  OnBucket(Subject(r)) = {g \in M : Rank(g, n) = 4 + 2 * n + r}
      OBVIOUS
    <2>1. ASSUME NEW g \in OnBucket(Subject(r)) PROVE g \in M /\ Rank(g, n) = 4 + 2 * n + r
      <3>1. g \in Active /\ g.type = "bucket" /\ g.subject = Subject(r)
        BY <2>1 DEF OnBucket
      <3>2. resource_matches_grant(g, path, id)
        BY <3>1 DEF resource_matches_grant
      <3>3. QED
        BY <1>3, <3>1, <3>2 DEF Matching, Rank
    <2>2. ASSUME NEW g \in M, Rank(g, n) = 4 + 2 * n + r PROVE g \in OnBucket(Subject(r))
      <3>1. SubjectRank(g) = r /\ g.type = "bucket"
        BY <1>1, <2>2, MatchingGrant
      <3>2. QED
        BY <1>4, <3>1, MatchingGrant DEF OnBucket
    <2>3. QED
      BY <2>1, <2>2
  <1>8. /\ mid \in Seq(SUBSET Active) /\ Len(mid) = 2 * n + 2
        /\ OnObject(path, id, u) \in SUBSET Active /\ OnObject(path, id, Company) \in SUBSET Active
        /\ OnBucket(u) \in SUBSET Active /\ OnBucket(Company) \in SUBSET Active
    BY <1>1 DEF InFolder, OnObject, OnBucket
  <1>9. L = <<OnObject(path, id, u), OnObject(path, id, Company)>> \o mid
               \o <<OnBucket(u), OnBucket(Company)>>
    BY DEF Levels
  <1> HIDE DEF mid, L
  <1>10. /\ Len(L) = 2 * n + 6
         /\ L[1] = OnObject(path, id, u) /\ L[2] = OnObject(path, id, Company)
         /\ \A k \in 1..(2 * n + 2) : L[k + 2] = mid[k]
         /\ L[2 * n + 5] = OnBucket(u) /\ L[2 * n + 6] = OnBucket(Company)
    <2>1. /\ Len(L) = Len(mid) + 4
          /\ L[1] = OnObject(path, id, u) /\ L[2] = OnObject(path, id, Company)
          /\ \A k \in 1..Len(mid) : L[k + 2] = mid[k]
          /\ L[Len(mid) + 3] = OnBucket(u) /\ L[Len(mid) + 4] = OnBucket(Company)
      <3> DEFINE S == SUBSET Active
      <3>1. /\ mid \in Seq(S)
            /\ OnObject(path, id, u) \in S /\ OnObject(path, id, Company) \in S
            /\ OnBucket(u) \in S /\ OnBucket(Company) \in S
        BY <1>8
      <3> HIDE DEF S
      <3>2. QED
        BY <1>9, <3>1, Concatenation
    <2>2. QED
      BY <1>1, <1>8, <2>1
  <1>11. \A k \in 1..(2 * n + 2) : mid[k] = {g \in M : Rank(g, n) = k + 2}
    <2> SUFFICES ASSUME NEW k \in 1..(2 * n + 2) PROVE mid[k] = {g \in M : Rank(g, n) = k + 2}
      OBVIOUS
    <2>1. PICK j \in 0..n, r \in {1, 2} : k = 2 * j + r
      <3>1. k = 2 * ((k - 1) \div 2) + 1 \/ k = 2 * ((k - 1) \div 2) + 2
        BY <1>1
      <3>2. (k - 1) \div 2 \in 0..n
        BY <1>1
      <3>3. QED
        BY <3>1, <3>2
    <2>2. (k - 1) \div 2 = j /\ (k % 2 = 1 <=> r = 1)
      BY <1>1, <2>1
    <2>3. mid[k] = InFolder(path, n - j, Subject(r))
      BY <2>2 DEF mid
    <2>4. PICK d \in 0..n : d = n - j
      BY <1>1
    <2>5. 2 + 2 * (n - d) + r = k + 2
      BY <1>1, <2>1, <2>4
    <2>6. InFolder(path, d, Subject(r)) = {g \in M : Rank(g, n) = 2 + 2 * (n - d) + r}
      BY <1>6
    <2>7. QED
      BY <2>3, <2>4, <2>5, <2>6
  <1>12. \A k \in 1..(2 * n + 6) : L[k] = {g \in M : Rank(g, n) = k}
    <2> SUFFICES ASSUME NEW k \in 1..(2 * n + 6) PROVE L[k] = {g \in M : Rank(g, n) = k}
      OBVIOUS
    <2>1. \/ k = 1 \/ k = 2 \/ k = 2 * n + 5 \/ k = 2 * n + 6
          \/ k - 2 \in 1..(2 * n + 2) /\ (k - 2) + 2 = k
      BY <1>1
    <2>2. CASE k \in {1, 2}
      BY <1>5, <1>10, <2>2
    <2>3. CASE k - 2 \in 1..(2 * n + 2) /\ (k - 2) + 2 = k
      BY <1>10, <1>11, <2>3
    <2>4. CASE k = 2 * n + 5
      <3>1. 4 + 2 * n + 1 = k
        BY <1>1, <2>4
      <3>2. QED
        BY <1>7, <1>10, <2>4, <3>1
    <2>5. CASE k = 2 * n + 6
      <3>1. 4 + 2 * n + 2 = k
        BY <1>1, <2>5
      <3>2. QED
        BY <1>7, <1>10, <2>5, <3>1
    <2>6. QED
      BY <2>1, <2>2, <2>3, <2>4, <2>5
  <1>13. QED
    BY <1>10, <1>12 DEF L

\* The first level that is not empty holds the grants of most weight.
LEMMA FirstLevelDecides ==
    ASSUME ForeignKeys, NEW u \in Users, NEW path \in Seq(Segments), Len(path) < 900, NEW id
    PROVE  LET k == SelectInSeq(Levels(u, path, id), LAMBDA level : level # {})
           IN  Deciding(u, path, id) = IF k = 0 THEN {} ELSE Levels(u, path, id)[k]
  <1> DEFINE n == Len(path)
             M == Matching(u, path, id)
             L == Levels(u, path, id)
             I == {k \in 1..Len(L) : L[k] # {}}
             kk == IF I # {} THEN Min(I) ELSE 0
  <1>1. SelectInSeq(L, LAMBDA level : level # {}) = kk
    BY DEF SelectInSeq
  <1>2. n \in Nat
    OBVIOUS
  <1>3. Len(L) = 2 * n + 6 /\ \A k \in 1..(2 * n + 6) : L[k] = {g \in M : Rank(g, n) = k}
    BY LevelsByRank
  <1>4. \A g \in M : Rank(g, n) \in 1..(2 * n + 6)
    BY RankOrder
  <1>5. \A g, h \in M : grant_specificity(h) =< grant_specificity(g) <=> Rank(g, n) =< Rank(h, n)
    BY RankOrder
  <1>6. Deciding(u, path, id) = {g \in M : \A h \in M : grant_specificity(h) =< grant_specificity(g)}
    BY DEF Deciding, Matching
  <1>7. Deciding(u, path, id) = {g \in M : \A h \in M : Rank(g, n) =< Rank(h, n)}
    BY <1>5, <1>6
  <1> HIDE DEF n, M, L
  <1>8. I = {k \in 1..(2 * n + 6) : \E g \in M : Rank(g, n) = k}
    BY <1>2, <1>3
  <1>9. CASE I = {}
    <2>1. M = {}
      BY <1>4, <1>8, <1>9
    <2>2. kk = 0
      BY <1>9
    <2>3. QED
      BY <1>1, <1>7, <2>1, <2>2 DEF L
  <1>10. CASE I # {}
    <2>1. I \in SUBSET Nat
      BY <1>2, <1>3
    <2> HIDE DEF I
    <2>2. \E x \in I : \A y \in I : x =< y
      BY <1>10, <2>1, Least
    <2>3. Min(I) \in I /\ \A y \in I : Min(I) =< y
      BY <2>2 DEF Min
    <2>4. kk = Min(I)
      BY <1>10
    <2>5. PICK m \in I : m = kk
      BY <2>3, <2>4
    <2>6. \A y \in I : m =< y
      BY <2>3, <2>4, <2>5
    <2> HIDE DEF kk
    <2>7. m \in 1..(2 * n + 6) /\ m # 0 /\ \E g \in M : Rank(g, n) = m
      BY <1>2, <1>8
    <2>8. L[m] = {g \in M : Rank(g, n) = m}
      BY <1>3, <2>7
    <2>9. \A h \in M : Rank(h, n) \in I
      BY <1>4, <1>8
    <2>10. {g \in M : Rank(g, n) = m} = {g \in M : \A h \in M : Rank(g, n) =< Rank(h, n)}
      <3>1. ASSUME NEW g \in M, Rank(g, n) = m PROVE \A h \in M : Rank(g, n) =< Rank(h, n)
        BY <2>6, <2>9, <3>1
      <3>2. ASSUME NEW g \in M, \A h \in M : Rank(g, n) =< Rank(h, n) PROVE Rank(g, n) = m
        <4>1. Rank(g, n) \in 1..(2 * n + 6) /\ m =< Rank(g, n)
          BY <1>4, <2>6, <2>9
        <4>2. Rank(g, n) =< m
          BY <2>7, <3>2
        <4>3. QED
          BY <1>2, <2>7, <4>1, <4>2
      <3>3. QED
        BY <3>1, <3>2
    <2>11. QED
      BY <1>1, <1>7, <2>5, <2>7, <2>8, <2>10 DEF L
  <1>11. QED
    BY <1>9, <1>10

\* Permission ranks have a maximum.
LEMMA Strongest ==
    ASSUME NEW A \in SUBSET Permissions, A # {}
    PROVE  Max(A) \in A /\ \A y \in A : Max(A) >= y
  <1>1. \A x \in A : x \in {0, 1, 2}
    BY DEF Permissions, Read, Write, Admin
  <1>2. \E x \in A : \A y \in A : x >= y
    <2>1. CASE 2 \in A
      BY <1>1, <2>1
    <2>2. CASE 2 \notin A /\ 1 \in A
      BY <1>1, <2>2
    <2>3. CASE 2 \notin A /\ 1 \notin A
      BY <1>1, <2>3
    <2>4. QED
      BY <2>1, <2>2, <2>3
  <1>3. QED
    BY <1>2 DEF Max

\* Names as short as the database column makes them: max_length of
\* StorageObject.name is 1024, so a name has at most 512 segments.
ShortNames == \A i \in Live : Len(name[i]) < 900

\* A place a request may be about is a path, as short as the names.
LEMMA PlacePaths ==
    ASSUME ForeignKeys, ShortNames, NEW t \in Places
    PROVE  t[1] \in Seq(Segments) /\ Len(t[1]) < 900
  <1>1. \A i \in Live : name[i] \in Seq(Segments) /\ Len(name[i]) \in Nat /\ Len(name[i]) < 900
    BY DEF ForeignKeys, ShortNames, Live, Paths
  <1>2. ASSUME NEW f \in Folders PROVE f \in Seq(Segments) /\ Len(f) < 900
    <2>1. PICK i \in Live : \E k \in 1..(Len(name[i]) - 1) : f = SubSeq(name[i], 1, k)
      BY <1>2 DEF Folders
    <2>2. QED
      BY <1>1, <2>1
  <1>3. <<>> \in Seq(Segments) /\ Len(<<>>) < 900
    OBVIOUS
  <1>4. CASE \E i \in Live : t = <<name[i], i>>
    BY <1>1, <1>4
  <1>5. CASE \E f \in Folders \cup {<<>>} : t = <<f, None>>
    <2>1. PICK f \in Folders \cup {<<>>} : t = <<f, None>>
      BY <1>5
    <2>2. CASE f \in Folders
      BY <1>2, <2>1, <2>2
    <2>3. CASE f = <<>>
      BY <1>3, <2>1, <2>3
    <2>4. QED
      BY <2>2, <2>3
  <1>6. QED
    BY <1>4, <1>5 DEF Places

\* One decision, level by level.
LEMMA OneDecision ==
    ASSUME ForeignKeys, Kind = "company", NEW u \in Users, NEW path \in Seq(Segments),
           Len(path) < 900, NEW id, NEW r \in Permissions
    PROVE  LET top == Deciding(u, path, id)
               allowed == {g.permission : g \in {h \in top : h.effect = "allow"}}
               denied == {g.permission : g \in {h \in top : h.effect = "deny"}}
           IN  evaluate_access(u, path, id, r) =
                   /\ \A d \in denied : r < d
                   /\ IF allowed = {} THEN r < Admin \/ u \in Owners ELSE r =< Max(allowed)
  <1> DEFINE top == Deciding(u, path, id)
             allows == {h \in top : h.effect = "allow"}
             denies == {h \in top : h.effect = "deny"}
             allowed == {g.permission : g \in allows}
             denied == {g.permission : g \in denies}
  <1>1. \A g \in top : g.permission \in Permissions /\ g.effect \in {"allow", "deny"}
    BY DEF Deciding, Active, ForeignKeys, Grants
  <1>2. r \in {0, 1, 2} /\ \A g \in top : g.permission \in {0, 1, 2}
    BY <1>1 DEF Permissions, Read, Write, Admin
  <1>3. (~\E g \in top \ allows : deny_blocks(g.permission, r)) <=> \A d \in denied : r < d
    <2>1. \A g : g \in top \ allows <=> g \in denies
      BY <1>1
    <2>2. (\A d \in denied : r < d) <=> \A g \in denies : r < g.permission
      OBVIOUS
    <2>3. \A g \in denies : deny_blocks(g.permission, r) <=> ~(r < g.permission)
      BY <1>2 DEF deny_blocks
    <2> HIDE DEF denied, denies, allows, top
    <2>4. QED
      BY <2>1, <2>2, <2>3
  <1>4. allows = {} <=> allowed = {}
    OBVIOUS
  <1>5. kind_default_allows(u, r) <=> r < Admin \/ u \in Owners
    BY <1>2 DEF kind_default_allows, Admin
  <1>6. ASSUME allowed # {}
        PROVE  (\E g \in allows : permission_at_least(g.permission, r)) <=> r =< Max(allowed)
    <2>1. allowed \in SUBSET Permissions
      BY <1>1
    <2> DEFINE m == Max(allowed)
    <2>2. m \in allowed /\ \A y \in allowed : m >= y
      BY <1>6, <2>1, Strongest
    <2> HIDE DEF m
    <2>3. \E g \in allows : g.permission = m
      BY <2>2
    <2>4. \A g \in allows : m >= g.permission /\ g.permission \in {0, 1, 2}
      BY <1>2, <2>2
    <2> HIDE DEF allowed, allows, top
    <2>5. QED
      BY <1>2, <2>3, <2>4 DEF permission_at_least, m
  <1>7. evaluate_access(u, path, id, r) <=>
            /\ ~\E g \in top \ allows : deny_blocks(g.permission, r)
            /\ IF allows = {} THEN kind_default_allows(u, r)
               ELSE \E g \in allows : permission_at_least(g.permission, r)
    BY DEF evaluate_access
  <1>8. evaluate_access(u, path, id, r) \in BOOLEAN
    BY DEF evaluate_access
  <1> HIDE DEF allows, denies, allowed, denied, top
  <1>9. evaluate_access(u, path, id, r) <=>
            /\ \A d \in denied : r < d
            /\ IF allowed = {} THEN r < Admin \/ u \in Owners ELSE r =< Max(allowed)
    BY <1>3, <1>4, <1>5, <1>6, <1>7
  <1>10. QED
    BY <1>8, <1>9 DEF top, allows, denies, allowed, denied

\* Access is decided level by level, as the documentation lists the levels: in a
\* company bucket, for every tree, every set of grants and every time, the first
\* level with a grant decides (evaluate_access, grant_specificity).
THEOREM DecidedByLevel ==
    ASSUME Kind = "company"
    PROVE  Spec /\ []ShortNames => []DecisionsByLevel
  <1>1. ForeignKeys /\ ShortNames => DecisionsByLevel
    <2> SUFFICES ASSUME ForeignKeys, ShortNames,
                        NEW u \in Users, NEW t \in Places, NEW r \in Permissions
                 PROVE  LET levels == Levels(u, t[1], t[2])
                            k == SelectInSeq(levels, LAMBDA level : level # {})
                            first == IF k = 0 THEN {} ELSE levels[k]
                            allowed == {g.permission : g \in {h \in first : h.effect = "allow"}}
                            denied == {g.permission : g \in {h \in first : h.effect = "deny"}}
                        IN  evaluate_access(u, t[1], t[2], r) =
                                /\ \A d \in denied : r < d
                                /\ IF allowed = {} THEN r < Admin \/ u \in Owners
                                   ELSE r =< Max(allowed)
      BY DEF DecisionsByLevel
    <2> DEFINE levels == Levels(u, t[1], t[2])
               k == SelectInSeq(levels, LAMBDA level : level # {})
               first == IF k = 0 THEN {} ELSE levels[k]
               allowed(s) == {g.permission : g \in {h \in s : h.effect = "allow"}}
               denied(s) == {g.permission : g \in {h \in s : h.effect = "deny"}}
    <2>1. t[1] \in Seq(Segments) /\ Len(t[1]) < 900
      BY PlacePaths
    <2>2. Deciding(u, t[1], t[2]) = first
      BY <2>1, FirstLevelDecides
    <2>3. evaluate_access(u, t[1], t[2], r) =
              /\ \A d \in denied(Deciding(u, t[1], t[2])) : r < d
              /\ IF allowed(Deciding(u, t[1], t[2])) = {} THEN r < Admin \/ u \in Owners
                 ELSE r =< Max(allowed(Deciding(u, t[1], t[2])))
      BY <2>1, OneDecision
    <2> HIDE DEF first
    <2>4. evaluate_access(u, t[1], t[2], r) =
              /\ \A d \in denied(first) : r < d
              /\ IF allowed(first) = {} THEN r < Admin \/ u \in Owners ELSE r =< Max(allowed(first))
      BY <2>2, <2>3
    <2>5. QED
      BY <2>4 DEF first
  <1>2. QED
    BY <1>1, KeysHold, PTL

(***************************************************************************)
(* A renamed folder                                                        *)
(***************************************************************************)

Renaming(p) == proc[p].op = "renaming"

\* The unique constraint on names.
UniqueNames == \A i, j \in Live : name[i] = name[j] => i = j

\* What a rename has locked stays in its folder, and no other rename has it.
LockedInside ==
    \A p \in Procs : Renaming(p) =>
        /\ \A i \in proc[p].objs : IsStrictPrefix(proc[p].from, name[i])
        /\ \A q \in Procs : Renaming(q) /\ q # p => proc[p].objs \cap proc[q].objs = {}

RenameInv == UniqueNames /\ LockedInside

\* A prefix entry by entry.
LEMMA PrefixEntries ==
    ASSUME NEW s \in Seq(Segments), NEW t \in Seq(Segments)
    PROVE  IsPrefix(s, t) <=> Len(s) =< Len(t) /\ \A k \in 1..Len(s) : s[k] = t[k]
  <1>1. ASSUME IsPrefix(s, t) PROVE Len(s) =< Len(t) /\ \A k \in 1..Len(s) : s[k] = t[k]
    <2>1. Len(s) =< Len(t) /\ SubSeq(s, 1, Len(s)) = SubSeq(t, 1, Len(s))
      BY <1>1 DEF IsPrefix
    <2>2. \A k \in 1..Len(s) : SubSeq(s, 1, Len(s))[k] = s[k] /\ SubSeq(t, 1, Len(s))[k] = t[k]
      BY <2>1
    <2>3. QED
      BY <2>1, <2>2
  <1>2. ASSUME Len(s) =< Len(t), \A k \in 1..Len(s) : s[k] = t[k] PROVE IsPrefix(s, t)
    <2>1. SubSeq(s, 1, Len(s)) = SubSeq(t, 1, Len(s))
      BY <1>2
    <2>2. QED
      BY <1>2, <2>1 DEF IsPrefix
  <1>3. QED
    BY <1>1, <1>2

\* Sequences that are alike entry by entry are equal.
LEMMA SameEntries ==
    ASSUME NEW s \in Seq(Segments), NEW t \in Seq(Segments), Len(s) = Len(t),
           \A k \in 1..Len(s) : s[k] = t[k]
    PROVE  s = t
  OBVIOUS

\* The entries of two sequences in a row.
LEMMA RowEntries ==
    ASSUME NEW a \in Seq(Segments), NEW x \in Seq(Segments), NEW ax, ax = a \o x
    PROVE  /\ ax \in Seq(Segments) /\ Len(ax) = Len(a) + Len(x)
           /\ \A k \in 1..Len(a) : ax[k] = a[k]
           /\ \A k \in 1..Len(x) : ax[Len(a) + k] = x[k]
  OBVIOUS

\* Every place in the row is one of the first or one of the second sequence.
LEMMA RowPlaces ==
    ASSUME NEW m \in Nat, NEW n \in Nat, NEW k \in 1..(m + n), k \notin 1..m
    PROVE  \E j \in 1..n : k = m + j
  <1>1. k - m \in 1..n /\ k = m + (k - m)
    OBVIOUS
  <1>2. QED
    BY <1>1

\* What comes after a common beginning decides.
LEMMA CommonBeginning ==
    ASSUME NEW a \in Seq(Segments), NEW x \in Seq(Segments), NEW y \in Seq(Segments)
    PROVE  /\ IsPrefix(a \o x, a \o y) <=> IsPrefix(x, y)
           /\ a \o x = a \o y => x = y
  <1> DEFINE ax == a \o x
             ay == a \o y
  <1>0. ax = a \o x /\ ay = a \o y
    OBVIOUS
  <1> HIDE DEF ax, ay
  <1>1. /\ ax \in Seq(Segments) /\ Len(ax) = Len(a) + Len(x)
        /\ \A k \in 1..Len(a) : ax[k] = a[k]
        /\ \A k \in 1..Len(x) : ax[Len(a) + k] = x[k]
    BY <1>0, RowEntries
  <1>2. /\ ay \in Seq(Segments) /\ Len(ay) = Len(a) + Len(y)
        /\ \A k \in 1..Len(a) : ay[k] = a[k]
        /\ \A k \in 1..Len(y) : ay[Len(a) + k] = y[k]
    BY <1>0, RowEntries
  <1>3. Len(a) \in Nat /\ Len(x) \in Nat /\ Len(y) \in Nat
    OBVIOUS
  <1>4. ASSUME IsPrefix(ax, ay) PROVE IsPrefix(x, y)
    <2>1. Len(ax) =< Len(ay) /\ \A k \in 1..Len(ax) : ax[k] = ay[k]
      BY <1>1, <1>2, <1>4, PrefixEntries
    <2>2. Len(x) =< Len(y)
      BY <1>1, <1>2, <1>3, <2>1
    <2>3. ASSUME NEW k \in 1..Len(x) PROVE x[k] = y[k]
      <3>1. Len(a) + k \in 1..Len(ax) /\ k \in 1..Len(y)
        BY <1>1, <1>3, <2>2
      <3>2. QED
        BY <1>1, <1>2, <2>1, <3>1
    <2>4. QED
      BY <2>2, <2>3, PrefixEntries
  <1>5. ASSUME IsPrefix(x, y) PROVE IsPrefix(ax, ay)
    <2>1. Len(x) =< Len(y) /\ \A k \in 1..Len(x) : x[k] = y[k]
      BY <1>5, PrefixEntries
    <2>2. Len(ax) =< Len(ay)
      BY <1>1, <1>2, <1>3, <2>1
    <2>3. ASSUME NEW k \in 1..Len(ax) PROVE ax[k] = ay[k]
      <3>1. CASE k \in 1..Len(a)
        BY <1>1, <1>2, <3>1
      <3>2. ASSUME NEW j \in 1..Len(x), k = Len(a) + j PROVE ax[k] = ay[k]
        <4>1. j \in 1..Len(y)
          BY <1>3, <2>1
        <4>2. QED
          BY <1>1, <1>2, <2>1, <3>2, <4>1
      <3>3. k \in 1..(Len(a) + Len(x))
        BY <1>1
      <3>4. CASE k \notin 1..Len(a)
        <4>1. \E j \in 1..Len(x) : k = Len(a) + j
          BY <1>3, <3>3, <3>4, RowPlaces
        <4>2. QED
          BY <3>2, <4>1
      <3>5. QED
        BY <3>1, <3>4
    <2>4. QED
      BY <1>1, <1>2, <2>2, <2>3, PrefixEntries
  <1>6. ASSUME ax = ay PROVE x = y
    <2>1. Len(x) = Len(y)
      BY <1>1, <1>2, <1>3, <1>6
    <2>2. \A k \in 1..Len(x) : x[k] = y[k]
      BY <1>1, <1>2, <1>6, <2>1
    <2>3. QED
      BY <2>1, <2>2, SameEntries
  <1>7. QED
    BY <1>0, <1>4, <1>5, <1>6

\* A name in a folder is the folder and a rest, which a rename keeps.
LEMMA NameInFolder ==
    ASSUME NEW n \in Paths, NEW from \in Paths, NEW to \in Paths, IsStrictPrefix(from, n)
    PROVE  \E rest \in Paths : n = from \o rest /\ NewName(n, from, to) = to \o rest
  <1> DEFINE rest == SubSeq(n, Len(from) + 1, Len(n))
             whole == from \o rest
  <1>1. n \in Seq(Segments) /\ from \in Seq(Segments) /\ Len(n) \in Nat /\ Len(from) \in Nat
    BY DEF Paths
  <1>2. Len(from) =< Len(n) /\ \A k \in 1..Len(from) : from[k] = n[k]
    BY <1>1, PrefixEntries DEF IsStrictPrefix
  <1>3. Len(from) # Len(n)
    BY <1>1, <1>2, SameEntries DEF IsStrictPrefix
  <1>4. /\ rest \in Seq(Segments) /\ Len(rest) = Len(n) - Len(from)
        /\ \A k \in 1..Len(rest) : rest[k] = n[Len(from) + k]
    BY <1>1, <1>2
  <1>5. NewName(n, from, to) = to \o rest
    BY DEF NewName
  <1> HIDE DEF rest
  <1>6. rest \in Paths
    <2>1. Len(rest) # 0
      BY <1>1, <1>2, <1>3, <1>4
    <2>2. rest # <<>>
      BY <2>1
    <2>3. QED
      BY <1>4, <2>2 DEF Paths
  <1>10. whole = from \o rest
    OBVIOUS
  <1> HIDE DEF whole
  <1>7. /\ whole \in Seq(Segments) /\ Len(whole) = Len(from) + Len(rest)
        /\ \A k \in 1..Len(from) : whole[k] = from[k]
        /\ \A k \in 1..Len(rest) : whole[Len(from) + k] = rest[k]
    BY <1>1, <1>4, <1>10, RowEntries
  <1>8. Len(whole) = Len(n) /\ \A k \in 1..Len(whole) : whole[k] = n[k]
    <2>1. Len(whole) = Len(n)
      BY <1>1, <1>4, <1>7
    <2>2. ASSUME NEW k \in 1..Len(whole) PROVE whole[k] = n[k]
      <3>1. CASE k \in 1..Len(from)
        BY <1>2, <1>7, <3>1
      <3>2. ASSUME NEW j \in 1..Len(rest), k = Len(from) + j PROVE whole[k] = n[k]
        BY <1>4, <1>7, <3>2
      <3>3. k \in 1..(Len(from) + Len(rest)) /\ Len(rest) \in Nat
        BY <1>4, <1>7
      <3>4. CASE k \notin 1..Len(from)
        <4>1. \E j \in 1..Len(rest) : k = Len(from) + j
          BY <1>1, <3>3, <3>4, RowPlaces
        <4>2. QED
          BY <3>2, <4>1
      <3>5. QED
        BY <3>1, <3>4
    <2>3. QED
      BY <2>1, <2>2
  <1>9. whole = n
    BY <1>1, <1>7, <1>8, SameEntries
  <1>11. QED
    BY <1>5, <1>6, <1>9, <1>10

\* The entries of a name without its last.
LEMMA FrontEntries ==
    ASSUME NEW s \in Seq(Segments), Len(s) # 0
    PROVE  /\ Front(s) \in Seq(Segments) /\ Len(Front(s)) = Len(s) - 1
           /\ \A k \in 1..(Len(s) - 1) : Front(s)[k] = s[k]
  <1>1. PICK m \in 0..Len(s) : m = Len(s) - 1
    <2>1. Len(s) \in Nat /\ Len(s) # 0
      OBVIOUS
    <2>2. Len(s) - 1 \in 0..Len(s)
      BY <2>1
    <2>3. QED
      BY <2>2
  <1>2. Front(s) = SubSeq(s, 1, m)
    BY <1>1 DEF Front
  <1>3. /\ SubSeq(s, 1, m) \in Seq(Segments) /\ Len(SubSeq(s, 1, m)) = m
        /\ \A k \in 1..m : SubSeq(s, 1, m)[k] = s[k]
    OBVIOUS
  <1>4. QED
    BY <1>1, <1>2, <1>3

\* The folder of a marker, behind a common beginning.
LEMMA FolderBehind ==
    ASSUME NEW a \in Seq(Segments), NEW rest \in Paths
    PROVE  /\ folder_path_from_placeholder(rest) \in Seq(Segments)
           /\ folder_path_from_placeholder(a \o rest) = a \o folder_path_from_placeholder(rest)
  <1> DEFINE all == a \o rest
             n == Len(rest)
  <1>1. rest \in Seq(Segments) /\ n \in Nat \ {0} /\ Len(a) \in Nat
    BY DEF Paths
  <1>2. all = a \o rest
    OBVIOUS
  <1> HIDE DEF all
  <1>3. /\ all \in Seq(Segments) /\ Len(all) = Len(a) + n
        /\ \A k \in 1..Len(a) : all[k] = a[k]
        /\ \A k \in 1..n : all[Len(a) + k] = rest[k]
    BY <1>1, <1>2, RowEntries
  <1>4. Last(all) = Last(rest)
    BY <1>1, <1>3 DEF Last
  <1>5. Front(all) = a \o Front(rest)
    <2> DEFINE f == Front(all)
               g == Front(rest)
               h == a \o g
    <2>1. f \in Seq(Segments) /\ Len(f) = Len(all) - 1 /\ \A k \in 1..(Len(all) - 1) : f[k] = all[k]
      <3>1. Len(all) # 0
        BY <1>1, <1>3
      <3>2. QED
        BY <1>3, <3>1, FrontEntries
    <2>2. g \in Seq(Segments) /\ Len(g) = n - 1 /\ \A k \in 1..(n - 1) : g[k] = rest[k]
      BY <1>1, FrontEntries
    <2>3. h = a \o g
      OBVIOUS
    <2> HIDE DEF f, g, h
    <2>4. /\ h \in Seq(Segments) /\ Len(h) = Len(a) + (n - 1)
          /\ \A k \in 1..Len(a) : h[k] = a[k]
          /\ \A k \in 1..(n - 1) : h[Len(a) + k] = g[k]
      <3>1. /\ h \in Seq(Segments) /\ Len(h) = Len(a) + Len(g)
            /\ \A k \in 1..Len(a) : h[k] = a[k]
            /\ \A k \in 1..Len(g) : h[Len(a) + k] = g[k]
        <4>1. g \in Seq(Segments)
          BY <2>2
        <4>2. QED
          BY <2>3, <4>1, RowEntries
      <3>2. QED
        BY <2>2, <3>1
    <2>5. Len(f) = Len(h)
      BY <1>1, <1>3, <2>1, <2>4
    <2>6. ASSUME NEW k \in 1..Len(f) PROVE f[k] = h[k]
      <3>1. CASE k \in 1..Len(a)
        BY <1>1, <1>3, <2>1, <2>4, <3>1
      <3>2. CASE k \notin 1..Len(a)
        <4>1. k \in 1..(Len(a) + (n - 1)) /\ n - 1 \in Nat
          BY <1>1, <1>3, <2>1
        <4>2. PICK j \in 1..(n - 1) : k = Len(a) + j
          BY <1>1, <3>2, <4>1, RowPlaces
        <4>3. f[k] = all[k] /\ j \in 1..n
          BY <1>1, <2>1
        <4>4. QED
          BY <1>3, <2>2, <2>4, <4>2, <4>3
      <3>3. QED
        BY <3>1, <3>2
    <2>7. f = h
      BY <2>1, <2>4, <2>5, <2>6, SameEntries
    <2>8. QED
      BY <2>3, <2>7 DEF f, g
  <1>6. QED
    BY <1>2, <1>4, <1>5, FolderPath DEF folder_path_from_placeholder

\* What is over what in a folder, and how deep, after the folder's rename.
LEMMA FolderMoves ==
    ASSUME NEW from \in Paths, NEW to \in Paths, NEW m \in Paths, NEW n \in Paths,
           IsStrictPrefix(from, m), IsStrictPrefix(from, n)
    PROVE  LET m2 == NewName(m, from, to)
               n2 == NewName(n, from, to)
           IN  /\ m = n <=> m2 = n2
               /\ folder_matches(folder_path_from_placeholder(m), n)
                    <=> folder_matches(folder_path_from_placeholder(m2), n2)
               /\ Len(folder_path_from_placeholder(m2))
                    = Len(folder_path_from_placeholder(m)) + (Len(to) - Len(from))
  <1> DEFINE folder(x) == folder_path_from_placeholder(x)
  <1>0. from \in Seq(Segments) /\ to \in Seq(Segments) /\ Len(from) \in Nat /\ Len(to) \in Nat
    BY DEF Paths
  <1>1. PICK x \in Paths : m = from \o x /\ NewName(m, from, to) = to \o x
    BY NameInFolder
  <1>2. PICK y \in Paths : n = from \o y /\ NewName(n, from, to) = to \o y
    BY NameInFolder
  <1>3. x \in Seq(Segments) /\ y \in Seq(Segments) /\ folder(x) \in Seq(Segments)
    BY FolderBehind DEF Paths
  <1>4. folder(from \o x) = from \o folder(x) /\ folder(to \o x) = to \o folder(x)
    BY <1>0, FolderBehind
  <1>5. /\ IsPrefix(from \o folder(x), from \o y) <=> IsPrefix(folder(x), y)
        /\ IsPrefix(to \o folder(x), to \o y) <=> IsPrefix(folder(x), y)
    BY <1>0, <1>3, CommonBeginning
  <1>6. (from \o x = from \o y => x = y) /\ (to \o x = to \o y => x = y)
    BY <1>0, <1>3, CommonBeginning
  <1>7. /\ Len(folder(x)) \in Nat
        /\ Len(from \o folder(x)) = Len(from) + Len(folder(x))
        /\ Len(to \o folder(x)) = Len(to) + Len(folder(x))
    <2> HIDE DEF folder
    <2>1. QED
      BY <1>0, <1>3
  <1> HIDE DEF folder
  <1>8. m = n <=> NewName(m, from, to) = NewName(n, from, to)
    BY <1>1, <1>2, <1>6
  <1>9. IsPrefix(folder(m), n) <=> IsPrefix(folder(NewName(m, from, to)), NewName(n, from, to))
    BY <1>1, <1>2, <1>4, <1>5
  <1>10. Len(folder(NewName(m, from, to))) = Len(folder(m)) + (Len(to) - Len(from))
    <2>1. Len(folder(NewName(m, from, to))) = Len(to) + Len(folder(x))
      BY <1>1, <1>4, <1>7
    <2>2. Len(folder(m)) = Len(from) + Len(folder(x))
      BY <1>1, <1>4, <1>7
    <2>3. QED
      BY <1>0, <1>7, <2>1, <2>2
  <1>11. QED
    BY <1>8, <1>9, <1>10 DEF folder, folder_matches

\* A step that begins no rename and moves nothing that one has locked.
LEMMA RenameFrame ==
    ASSUME RenameInv, UniqueNames',
           \A q \in Procs : Renaming(q)' => proc'[q] = proc[q],
           \A q \in Procs : Renaming(q)' => \A i \in proc[q].objs : name'[i] = name[i]
    PROVE  RenameInv'
  BY DEF RenameInv, LockedInside, Renaming

\* A new row gets a name that no row has, and no rename has locked it.
LEMMA NewRowNames ==
    ASSUME ForeignKeys, RenameInv, NEW i \in Ids, name[i] = None, NEW n \in Paths, Named(n) = {},
           name' = [name EXCEPT ![i] = n],
           \A q \in Procs : Renaming(q)' => proc'[q] = proc[q]
    PROVE  RenameInv'
  <1>1. Live' = Live \cup {i} /\ \A j \in Live : name'[j] = name[j] /\ name[j] # n
    BY AddKeys DEF Named, Live, ForeignKeys
  <1>2. name'[i] = n
    BY DEF ForeignKeys
  <1>3. UniqueNames'
    BY <1>1, <1>2 DEF RenameInv, UniqueNames
  <1>4. \A q \in Procs : Renaming(q)' => \A j \in proc[q].objs : name'[j] = name[j]
    BY <1>1, RequestOf DEF Renaming, ForeignKeys
  <1>5. QED
    BY <1>3, <1>4, RenameFrame

\* A step that changes no name.
LEMMA SameNames ==
    ASSUME RenameInv, UNCHANGED name, \A q \in Procs : Renaming(q)' => proc'[q] = proc[q]
    PROVE  RenameInv'
  <1>1. UniqueNames'
    BY DEF RenameInv, UniqueNames, Live
  <1>2. QED
    BY <1>1, RenameFrame

\* A request that ends is no rename any more.
LEMMA EndsRename ==
    ASSUME ForeignKeys, NEW p \in Procs, End(p)
    PROVE  \A q \in Procs : Renaming(q)' => q # p /\ Renaming(q) /\ proc'[q] = proc[q]
  BY DEF ForeignKeys, End, Renaming, Idle

LEMMA InitNames == Init => RenameInv
  BY DEF Init, RenameInv, UniqueNames, LockedInside, Renaming, Live, Idle

\* An upload adds a row.
LEMMA ActUploadNames ==
    ASSUME ForeignKeys, RenameInv, NEW p \in Procs, ActUpload(p)
    PROVE  RenameInv'
  <1>1. proc[p].name \in Paths /\ End(p)
    BY RequestOf DEF ForeignKeys, ActUpload
  <1>2. \A q \in Procs : Renaming(q)' => proc'[q] = proc[q]
    BY <1>1, EndsRename
  <1>3. PICK i \in Unused : Named(proc[p].name) = {} /\ name' = [name EXCEPT ![i] = proc[p].name]
    BY DEF ActUpload
  <1>4. i \in Ids /\ name[i] = None
    BY <1>3 DEF Unused, Live
  <1>5. QED
    BY <1>1, <1>2, <1>3, <1>4, NewRowNames

\* Selecting grants is no rename.
LEMMA SelectParentsNames ==
    ASSUME ForeignKeys, RenameInv, NEW p \in Procs, SelectParents(p)
    PROVE  RenameInv'
  <1>1. \A q \in Procs : Renaming(q)' => proc'[q] = proc[q]
    BY DEF SelectParents, Renaming, ForeignKeys
  <1>2. QED
    BY <1>1, SameNames DEF SelectParents

\* A folder grant may add a marker.
LEMMA CreateGrantNames ==
    ASSUME ForeignKeys, RenameInv, NEW u \in Users, NEW r \in GrantRequests, create_grant(u, r)
    PROVE  RenameInv'
  <1>1. \A q \in Procs : Renaming(q)' => proc'[q] = proc[q]
    BY DEF create_grant
  <1>2. CASE UNCHANGED name
    BY <1>1, <1>2, SameNames
  <1>3. CASE ~UNCHANGED name
    <2> DEFINE n == folder_placeholder_path(r.path)
    <2>1. PICK i \in Ids : ensure_folder_marker(i, r.path)
      BY <1>3 DEF create_grant
    <2>2. name[i] = None /\ Named(n) = {} /\ name' = [name EXCEPT ![i] = n]
      BY <2>1 DEF ensure_folder_marker, Unused, Live
    <2>3. n \in Paths
      BY AccessAssumption DEF folder_placeholder_path, Paths
    <2> HIDE DEF n
    <2>4. QED
      BY <1>1, <2>2, <2>3, NewRowNames
  <1>4. QED
    BY <1>2, <1>3

\* A move takes a row that no rename has locked to a name that is free.
LEMMA ActMoveNames ==
    ASSUME ForeignKeys, RenameInv, NEW p \in Procs, ActMove(p)
    PROVE  RenameInv'
  <1>1. proc[p].to \in Paths /\ End(p)
    BY RequestOf DEF ForeignKeys, ActMove
  <1>2. PICK i \in Named(proc[p].from) :
            i \notin Locked /\ Named(proc[p].to) = {} /\ name' = [name EXCEPT ![i] = proc[p].to]
    BY DEF ActMove
  <1>3. i \in Live /\ i \in Ids /\ Live' = Live
    BY <1>1, <1>2, AccessAssumption DEF ForeignKeys, Named, Live
  <1>4. \A j \in Live : name[j] # proc[p].to /\ name'[j] = IF j = i THEN proc[p].to ELSE name[j]
    BY <1>2, <1>3 DEF ForeignKeys, Named, Live
  <1>5. UniqueNames'
    BY <1>3, <1>4 DEF RenameInv, UniqueNames
  <1>6. \A q \in Procs : Renaming(q)' => Renaming(q) /\ proc'[q] = proc[q]
    BY <1>1, EndsRename
  <1>7. ASSUME NEW q \in Procs, Renaming(q)', NEW j \in proc[q].objs PROVE name'[j] = name[j]
    <2>1. j \in Live /\ j # i
      BY <1>2, <1>3, <1>6, <1>7, RequestOf DEF Renaming, Locked, ForeignKeys
    <2>2. QED
      BY <1>4, <2>1
  <1>8. QED
    BY <1>5, <1>6, <1>7, RenameFrame

\* A deletion takes names away, of rows that no rename has locked.
LEMMA ActDeleteNames ==
    ASSUME ForeignKeys, RenameInv, NEW p \in Procs, ActDelete(p)
    PROVE  RenameInv'
  <1> DEFINE objs == proc[p].objs
  <1>1. /\ objs \subseteq Ids /\ End(p) /\ objs \cap Locked = {}
        /\ name' = [i \in Ids |-> IF i \in objs THEN None ELSE name[i]]
    BY RequestOf DEF ForeignKeys, ActDelete
  <1>2. Live' = Live \ objs /\ \A i \in Live' : name'[i] = name[i]
    BY <1>1 DEF Live
  <1>3. UniqueNames'
    BY <1>2 DEF RenameInv, UniqueNames
  <1>4. \A q \in Procs : Renaming(q)' => Renaming(q) /\ proc'[q] = proc[q]
    BY <1>1, EndsRename
  <1>5. ASSUME NEW q \in Procs, Renaming(q)', NEW j \in proc[q].objs PROVE name'[j] = name[j]
    <2>1. j \in Ids /\ j \in Locked
      BY <1>4, <1>5, RequestOf DEF Renaming, Locked, ForeignKeys, Live
    <2>2. QED
      BY <1>1, <2>1
  <1>6. QED
    BY <1>3, <1>4, <1>5, RenameFrame

\* rename_folder locks rows in its folder that no other rename has locked.
LEMMA LockFolderNames ==
    ASSUME ForeignKeys, RenameInv, NEW p \in Procs, LockFolder(p)
    PROVE  RenameInv'
  <1> DEFINE objs == objects_under_prefix(proc[p].from)
  <1>1. /\ objs \cap Locked = {} /\ UNCHANGED name
        /\ proc' = [proc EXCEPT ![p] = [op |-> "renaming", objs |-> objs,
                                        from |-> proc[p].from, to |-> proc[p].to]]
    BY DEF LockFolder
  <1>2. /\ proc'[p].objs = objs /\ proc'[p].from = proc[p].from
        /\ \A q \in Procs : q # p => proc'[q] = proc[q]
    BY <1>1 DEF ForeignKeys
  <1>3. \A i \in objs : IsStrictPrefix(proc[p].from, name[i])
    BY DEF objects_under_prefix
  <1>4. \A q \in Procs : Renaming(q) => proc[q].objs \subseteq Locked
    BY RequestOf DEF Renaming, Locked, ForeignKeys, Live
  <1>5. UniqueNames'
    BY <1>1 DEF RenameInv, UniqueNames, Live
  <1> HIDE DEF objs
  <1>6. ASSUME NEW q \in Procs, Renaming(q)'
        PROVE  /\ \A i \in proc'[q].objs : IsStrictPrefix(proc'[q].from, name'[i])
               /\ \A o \in Procs : Renaming(o)' /\ o # q => proc'[q].objs \cap proc'[o].objs = {}
    <2>1. CASE q = p
      BY <1>1, <1>2, <1>3, <1>4, <2>1 DEF Renaming
    <2>2. CASE q # p
      BY <1>1, <1>2, <1>4, <1>6, <2>2 DEF Renaming, RenameInv, LockedInside
    <2>3. QED
      BY <2>1, <2>2
  <1>7. QED
    BY <1>5, <1>6 DEF RenameInv, LockedInside

\* The rows of a renamed folder keep their names apart from each other and get
\* names that no row had.
LEMMA ActRenameNames ==
    ASSUME ForeignKeys, RenameInv, NEW p \in Procs, ActRename(p)
    PROVE  /\ RenameInv'
           /\ Live' = Live
           /\ \A i \in proc[p].objs : /\ i \in Live /\ IsStrictPrefix(proc[p].from, name[i])
                                      /\ name'[i] = NewName(name[i], proc[p].from, proc[p].to)
                                      /\ \A j \in Live : name[j] # name'[i]
           /\ \A i \in Live \ proc[p].objs : name'[i] = name[i]
  <1> DEFINE objs == proc[p].objs
             new(i) == NewName(name[i], proc[p].from, proc[p].to)
  <1>1. Renaming(p) /\ proc[p].from \in Paths /\ proc[p].to \in Paths /\ objs \subseteq Live
    BY RequestOf DEF ForeignKeys, ActRename, Renaming
  <1>2. /\ name' = [i \in Ids |-> IF i \in objs THEN new(i) ELSE name[i]]
        /\ \A i \in objs : Named(new(i)) = {}
    BY DEF ActRename
  <1>3. \A i \in Live : i \in Ids /\ name[i] \in Paths
    BY DEF ForeignKeys, Live
  <1>4. \A i \in objs : new(i) \in Paths /\ IsStrictPrefix(proc[p].from, name[i])
    BY <1>1, <1>3, NewNamePath DEF RenameInv, LockedInside
  <1>5. Live' = Live
    BY <1>1, <1>2, <1>4, AccessAssumption DEF Live
  <1>6. \A i \in objs, j \in objs : new(i) = new(j) => name[i] = name[j]
    BY <1>1, <1>3, <1>4, FolderMoves
  <1>7. \A i \in objs, j \in Live : name[j] # new(i)
    BY <1>2 DEF Named
  <1>8. \A i \in Live : name'[i] = IF i \in objs THEN new(i) ELSE name[i]
    BY <1>2, <1>3
  <1> HIDE DEF new
  <1>9. UniqueNames'
    BY <1>5, <1>6, <1>7, <1>8 DEF RenameInv, UniqueNames
  <1>10. \A q \in Procs : Renaming(q)' => q # p /\ Renaming(q) /\ proc'[q] = proc[q]
    BY EndsRename DEF ActRename
  <1>11. ASSUME NEW q \in Procs, Renaming(q)', NEW j \in proc[q].objs PROVE name'[j] = name[j]
    <2>1. j \in Live /\ j \notin objs
      BY <1>1, <1>10, <1>11, RequestOf DEF Renaming, RenameInv, LockedInside, ForeignKeys
    <2>2. QED
      BY <1>8, <2>1
  <1>12. RenameInv'
    BY <1>9, <1>10, <1>11, RenameFrame
  <1>13. QED
    BY <1>1, <1>4, <1>5, <1>7, <1>8, <1>12 DEF new

LEMMA NextNames == ForeignKeys /\ RenameInv /\ [Next]_vars => RenameInv'
  <1> SUFFICES ASSUME ForeignKeys, RenameInv, [Next]_vars PROVE RenameInv'
    OBVIOUS
  <1>1. CASE Tick \/ UNCHANGED vars
    BY <1>1, SameNames DEF Tick, vars
  <1>2. CASE \E u \in Users, r \in GrantRequests : create_grant(u, r)
    BY <1>2, CreateGrantNames
  <1>3. CASE \E u \in Users, g \in BagToSet(grants) : delete_grant(u, g)
    BY <1>3, SameNames DEF delete_grant
  <1>4. ASSUME NEW p \in Procs, Fail(p) \/ Overwrite(p) PROVE RenameInv'
    BY <1>4, EndsRename, SameNames DEF Fail, Overwrite
  <1>5. ASSUME NEW p \in Procs,
               \/ SelectParents(p) \/ ActUpload(p)
               \/ ActMove(p) \/ LockFolder(p) \/ ActRename(p) \/ ActDelete(p)
        PROVE  RenameInv'
    BY <1>5, SelectParentsNames, ActUploadNames, ActMoveNames, LockFolderNames, ActRenameNames,
       ActDeleteNames
  <1>6. ASSUME NEW p \in Procs, NEW u \in Users,
               \/ \E n \in Uploads : CheckUpload(p, u, n)
               \/ \E m \in Moves : CheckMove(p, u, m[1], m[2])
               \/ \E r \in Renames : CheckRename(p, u, r[1], r[2])
               \/ DeleteObject(p, u) \/ DeletePrefix(p, u) \/ EmptyBucket(p, u)
        PROVE  RenameInv'
    <2>1. PICK r : Begin(p, r) /\ r.op \notin {"renaming", "creating"}
      BY <1>6, ChecksBegin
    <2>2. \A q \in Procs : Renaming(q)' => proc'[q] = proc[q]
      BY <2>1 DEF Begin, Renaming, ForeignKeys
    <2>3. QED
      BY <2>1, <2>2, SameNames DEF Begin
  <1>7. QED
    BY <1>1, <1>2, <1>3, <1>4, <1>5, <1>6 DEF Next

\* The same grants apply to what a rename moves, before and after it.
LEMMA RenameMatches ==
    ASSUME ForeignKeys, RenameInv, NEW p \in Procs, ActRename(p), OuterGrants(p) = {},
           NEW i \in proc[p].objs, NEW g \in Active
    PROVE  /\ resource_matches_grant(g, name[i], i) <=> resource_matches_grant(g, name[i], i)'
           /\ g.type = "folder" /\ resource_matches_grant(g, name[i], i) =>
                /\ g.obj \in proc[p].objs
                /\ Depth(g)' = Depth(g) + (Len(proc[p].to) - Len(proc[p].from))
  <1> DEFINE objs == proc[p].objs
             from == proc[p].from
             to == proc[p].to
  <1>1. /\ Live' = Live
        /\ \A j \in objs : /\ j \in Live /\ IsStrictPrefix(from, name[j])
                           /\ name'[j] = NewName(name[j], from, to)
                           /\ \A k \in Live : name[k] # name'[j]
        /\ \A j \in Live \ objs : name'[j] = name[j]
    BY ActRenameNames
  <1>2. from \in Paths /\ to \in Paths /\ \A j \in Live : name[j] \in Paths
    BY RequestOf DEF ForeignKeys, ActRename, Live
  <1>3. /\ g.type \in {"bucket", "folder", "object"}
        /\ IF g.type = "bucket" THEN g.obj = None ELSE g.obj \in Live
    BY DEF Active, ForeignKeys, Grants
  <1>4. CASE g.type = "bucket"
    BY <1>4 DEF resource_matches_grant
  <1>5. CASE g.type = "object"
    <2>1. (g.obj = i \/ name[g.obj] = name[i]) <=> (g.obj = i \/ name'[g.obj] = name'[i])
      <3>1. CASE g.obj \in objs
        BY <1>1, <1>2, <3>1, FolderMoves
      <3>2. CASE g.obj \notin objs
        BY <1>1, <1>3, <1>5, <3>2 DEF RenameInv, UniqueNames
      <3>3. QED
        BY <3>1, <3>2
    <2>2. QED
      BY <1>5, <2>1 DEF resource_matches_grant
  <1>6. CASE g.type = "folder"
    <2> DEFINE folder(n) == folder_path_from_placeholder(n)
    <2>1. /\ resource_matches_grant(g, name[i], i) <=> folder_matches(folder(name[g.obj]), name[i])
          /\ resource_matches_grant(g, name[i], i)'
                <=> folder_matches(folder(name'[g.obj]), name'[i])
          /\ \A n : resource_matches_grant(g, n, i) <=> folder_matches(folder(name[g.obj]), n)
      BY <1>6 DEF resource_matches_grant, folder_path_from_placeholder, folder_matches
    <2>2. CASE g.obj \in objs
      <3>1. /\ folder_matches(folder(name[g.obj]), name[i])
                  <=> folder_matches(folder(name'[g.obj]), name'[i])
            /\ Len(folder(name'[g.obj])) = Len(folder(name[g.obj])) + (Len(to) - Len(from))
        <4>1. /\ name[g.obj] \in Paths /\ name[i] \in Paths
              /\ IsStrictPrefix(from, name[g.obj]) /\ IsStrictPrefix(from, name[i])
              /\ name'[g.obj] = NewName(name[g.obj], from, to)
              /\ name'[i] = NewName(name[i], from, to)
          BY <1>1, <1>2, <2>2
        <4> HIDE DEF folder, from, to
        <4>2. /\ folder_matches(folder(name[g.obj]), name[i])
                    <=> folder_matches(folder(NewName(name[g.obj], from, to)), NewName(name[i], from, to))
              /\ Len(folder(NewName(name[g.obj], from, to)))
                    = Len(folder(name[g.obj])) + (Len(to) - Len(from))
          BY <1>2, <4>1, FolderMoves DEF folder
        <4>3. QED
          BY <4>1, <4>2
      <3>2. Depth(g) = Len(folder(name[g.obj])) /\ Depth(g)' = Len(folder(name'[g.obj]))
        BY DEF Depth, folder_path_from_placeholder
      <3>3. QED
        BY <2>1, <2>2, <3>1, <3>2
    <2>3. CASE g.obj \notin objs
      <3>1. /\ ~resource_matches_grant(g, name[i], i)
            /\ ~resource_matches_grant(g, NewName(name[i], from, to), i)
        BY <1>6, <2>3 DEF OuterGrants
      <3>2. name'[g.obj] = name[g.obj] /\ name'[i] = NewName(name[i], from, to)
        BY <1>1, <1>3, <1>6, <2>3
      <3> HIDE DEF folder
      <3>3. QED
        BY <2>1, <3>1, <3>2
    <2>4. QED
      BY <2>2, <2>3
  <1>7. QED
    BY <1>3, <1>4, <1>5, <1>6

\* The part of a grant's weight that its subject makes.
SubjectWeight(g) == CASE g.subject = Company -> 1 [] g.subject = Group -> 2 [] OTHER -> 3

\* The weight of a grant before and after a step.
LEMMA Weight ==
    ASSUME NEW g
    PROVE  /\ SubjectWeight(g) \in {1, 2, 3}
           /\ g.type = "object" => /\ grant_specificity(g) = 10000 + SubjectWeight(g)
                                   /\ grant_specificity(g)' = 10000 + SubjectWeight(g)
           /\ g.type = "folder" => /\ grant_specificity(g) = (100 + Depth(g)) * 10 + SubjectWeight(g)
                                   /\ grant_specificity(g)' = (100 + Depth(g)') * 10 + SubjectWeight(g)
           /\ g.type = "bucket" => /\ grant_specificity(g) = 10 + SubjectWeight(g)
                                   /\ grant_specificity(g)' = 10 + SubjectWeight(g)
  <1>1. SubjectWeight(g) \in {1, 2, 3}
    BY DEF SubjectWeight
  <1>2. ASSUME g.type = "object"
        PROVE  /\ grant_specificity(g) = 1000 * 10 + SubjectWeight(g)
               /\ grant_specificity(g)' = 1000 * 10 + SubjectWeight(g)
    BY <1>2 DEF grant_specificity, SubjectWeight
  <1>3. ASSUME g.type = "folder"
        PROVE  /\ grant_specificity(g) = (100 + Depth(g)) * 10 + SubjectWeight(g)
               /\ grant_specificity(g)' = (100 + Depth(g)') * 10 + SubjectWeight(g)
    BY <1>3 DEF grant_specificity, SubjectWeight, Depth
  <1>4. ASSUME g.type = "bucket"
        PROVE  /\ grant_specificity(g) = 1 * 10 + SubjectWeight(g)
               /\ grant_specificity(g)' = 1 * 10 + SubjectWeight(g)
    BY <1>4 DEF grant_specificity, SubjectWeight
  <1>5. QED
    BY <1>1, <1>2, <1>3, <1>4

\* The grants that apply weigh as much against each other as before a rename.
LEMMA RenameOrder ==
    ASSUME ForeignKeys, ForeignKeys', ShortNames, ShortNames', RenameInv, NEW p \in Procs,
           ActRename(p), OuterGrants(p) = {}, NEW i \in proc[p].objs, NEW u \in Users,
           NEW g \in Matching(u, name[i], i), NEW h \in Matching(u, name[i], i)
    PROVE  grant_specificity(h) =< grant_specificity(g)
              <=> grant_specificity(h)' =< grant_specificity(g)'
  <1> DEFINE shift == Len(proc[p].to) - Len(proc[p].from)
             Light(d) == d \in Nat /\ d < 900
  <1>1. i \in Live /\ i \in Live' /\ name[i] \in Seq(Segments) /\ name'[i] \in Seq(Segments)
    BY ActRenameNames DEF ForeignKeys, Live, Paths
  <1>2. Len(name[i]) \in Nat /\ Len(name[i]) < 900 /\ Len(name'[i]) \in Nat /\ Len(name'[i]) < 900
    BY <1>1 DEF ShortNames
  <1>3. shift \in Int
    BY RequestOf DEF ForeignKeys, ActRename, Paths
  <1>4. ASSUME NEW k \in Matching(u, name[i], i)
        PROVE  /\ k.type \in {"bucket", "folder", "object"}
               /\ k.type = "folder" => Light(Depth(k)) /\ Light(Depth(k)') /\ Depth(k)' = Depth(k) + shift
    <2>1. k \in Active /\ k \in Grants /\ resource_matches_grant(k, name[i], i)
      BY DEF Matching, Active, ForeignKeys
    <2>2. k.type \in {"bucket", "folder", "object"}
      BY <2>1 DEF Grants
    <2>3. ASSUME k.type = "folder"
          PROVE  Light(Depth(k)) /\ Light(Depth(k)') /\ Depth(k)' = Depth(k) + shift
      <3>1. /\ resource_matches_grant(k, name[i], i)' /\ k.obj \in proc[p].objs
            /\ Depth(k)' = Depth(k) + shift
        BY <2>1, <2>3, RenameMatches
      <3>2. k.obj \in Live /\ name[k.obj] \in Paths /\ name'[k.obj] \in Paths
        BY <3>1, ActRenameNames DEF ForeignKeys, Live
      <3> DEFINE f == folder_path_from_placeholder(name[k.obj])
                 f2 == folder_path_from_placeholder(name'[k.obj])
      <3>3. f \in Seq(Segments) /\ f2 \in Seq(Segments)
        BY <3>2, FolderPath
      <3>4. Depth(k) = Len(f) /\ Depth(k)' = Len(f2)
        BY DEF Depth, folder_path_from_placeholder
      <3>5. IsPrefix(f, name[i])
        BY <2>1, <2>3 DEF resource_matches_grant, folder_matches
      <3>6. IsPrefix(f2, name'[i])
        BY <2>3, <3>1 DEF resource_matches_grant, folder_matches, folder_path_from_placeholder
      <3> HIDE DEF f, f2
      <3>7. Len(f) \in Nat /\ Len(f) =< Len(name[i]) /\ Len(f2) \in Nat /\ Len(f2) =< Len(name'[i])
        BY <3>3, <3>5, <3>6 DEF IsPrefix
      <3>8. Light(Depth(k)) /\ Light(Depth(k)')
        BY <1>2, <3>4, <3>7
      <3>9. QED
        BY <3>1, <3>8
    <2>4. QED
      BY <2>2, <2>3
  <1> HIDE DEF shift
  <1> DEFINE s == SubjectWeight(g)
             t == SubjectWeight(h)
  <1>5. s \in {1, 2, 3} /\ t \in {1, 2, 3}
    BY Weight
  <1>6. CASE g.type = "folder"
    <2>1. /\ grant_specificity(g) = (100 + Depth(g)) * 10 + s
          /\ grant_specificity(g)' = (100 + Depth(g)') * 10 + s
          /\ Light(Depth(g)) /\ Light(Depth(g)') /\ Depth(g)' = Depth(g) + shift
      BY <1>4, <1>6, Weight
    <2>2. CASE h.type = "folder"
      <3>1. /\ grant_specificity(h) = (100 + Depth(h)) * 10 + t
            /\ grant_specificity(h)' = (100 + Depth(h)') * 10 + t
            /\ Light(Depth(h)) /\ Light(Depth(h)') /\ Depth(h)' = Depth(h) + shift
        BY <1>4, <2>2, Weight
      <3>2. QED
        BY <1>3, <1>5, <2>1, <3>1
    <2>3. CASE h.type # "folder"
      <3>1. \/ grant_specificity(h) = 10000 + t /\ grant_specificity(h)' = 10000 + t
            \/ grant_specificity(h) = 10 + t /\ grant_specificity(h)' = 10 + t
        BY <1>4, <2>3, Weight
      <3>2. QED
        BY <1>3, <1>5, <2>1, <3>1
    <2>4. QED
      BY <2>2, <2>3
  <1>7. CASE g.type # "folder"
    <2>1. \/ grant_specificity(g) = 10000 + s /\ grant_specificity(g)' = 10000 + s
          \/ grant_specificity(g) = 10 + s /\ grant_specificity(g)' = 10 + s
      BY <1>4, <1>7, Weight
    <2>2. CASE h.type = "folder"
      <3>1. /\ grant_specificity(h) = (100 + Depth(h)) * 10 + t
            /\ grant_specificity(h)' = (100 + Depth(h)') * 10 + t
            /\ Light(Depth(h)) /\ Light(Depth(h)')
        BY <1>4, <2>2, Weight
      <3>2. QED
        BY <1>5, <2>1, <3>1
    <2>3. CASE h.type # "folder"
      <3>1. grant_specificity(h)' = grant_specificity(h)
        BY <1>4, <2>3, Weight
      <3>2. QED
        BY <2>1, <3>1
    <2>4. QED
      BY <2>2, <2>3
  <1>8. QED
    BY <1>6, <1>7

\* What a rename moves is decided on as before.
LEMMA RenameDecides ==
    ASSUME ForeignKeys, ForeignKeys', ShortNames, ShortNames', RenameInv, NEW p \in Procs,
           ActRename(p), OuterGrants(p) = {}, NEW i \in proc[p].objs, NEW u \in Users, NEW r
    PROVE  evaluate_access(u, name[i], i, r)' = evaluate_access(u, name[i], i, r)
  <1> DEFINE M == Matching(u, name[i], i)
  <1>1. Active' = Active
    BY DEF ActRename, End, Active
  <1>2. M' = M
    <2>1. \A g \in Active : subject_matches(g, u)' <=> subject_matches(g, u)
      BY DEF subject_matches
    <2>2. \A g \in Active :
              resource_matches_grant(g, name[i], i) <=> resource_matches_grant(g, name[i], i)'
      BY RenameMatches
    <2>3. QED
      BY <1>1, <2>1, <2>2 DEF Matching
  <1>3. \A g, h \in M : grant_specificity(h) =< grant_specificity(g)
                           <=> grant_specificity(h)' =< grant_specificity(g)'
    BY RenameOrder
  <1>4. /\ Deciding(u, name[i], i)
             = {g \in M : \A h \in M : grant_specificity(h) =< grant_specificity(g)}
        /\ Deciding(u, name[i], i)'
             = {g \in M' : \A h \in M' : grant_specificity(h)' =< grant_specificity(g)'}
    BY DEF Deciding, Matching
  <1> HIDE DEF M
  <1>5. Deciding(u, name[i], i)' = Deciding(u, name[i], i)
    BY <1>2, <1>3, <1>4
  <1>6. QED
    BY <1>5 DEF evaluate_access, deny_blocks, kind_default_allows, permission_at_least

\* A renamed folder keeps its access: who could do what with a file or a folder
\* in it can do the same after the rename, where no other folder's grants come
\* in, whatever was uploaded, granted or revoked since rename_folder locked its rows.
THEOREM RenamesKeepAccess == Spec /\ []ShortNames => RenameKeepsAccess
  <1> DEFINE A == \A p \in Procs : ActRename(p) /\ OuterGrants(p) = {} =>
                    \A u \in Users, i \in proc[p].objs, r \in Permissions :
                        (evaluate_access(u, name[i], i, r))' = evaluate_access(u, name[i], i, r)
  <1>1. Init => RenameInv
    BY InitNames
  <1>2. ForeignKeys /\ RenameInv /\ [Next]_vars => RenameInv'
    BY NextNames
  <1>3. ForeignKeys /\ ForeignKeys' /\ ShortNames /\ ShortNames' /\ RenameInv => [A]_vars
    BY RenameDecides
  <1>4. QED
    BY <1>1, <1>2, <1>3, KeysHold, PTL DEF Spec, RenameKeepsAccess

(***************************************************************************)
(* What an upload opens                                                    *)
(***************************************************************************)

\* No segment is the marker's.
Plain(f) == \A k \in 1..Len(f) : f[k] # Marker

\* Nobody uses .emptyFolderPlaceholder as the name of a folder, or moves a
\* marker by itself: markers are the service's own, though it does not check that.
PlainFolders ==
    /\ \A n \in Uploads : Plain(Front(n))
    /\ \A m \in Moves : Last(m[1]) # Marker /\ Plain(Front(m[2]))
    /\ \A r \in Renames : Plain(r[2])
    /\ \A r \in GrantRequests : r.type = "folder" => Plain(r.path)

\* Markers are the last segments of names, and folder grants are on them.
MarkerInv ==
    /\ \A i \in Live : Plain(Front(name[i]))
    /\ \A g \in BagToSet(grants) : g.type = "folder" => Last(name[g.obj]) = Marker

\* The name of a marker.
LEMMA MarkerName ==
    ASSUME NEW f \in Seq(Segments)
    PROVE  /\ folder_placeholder_path(f) \in Paths
           /\ Last(folder_placeholder_path(f)) = Marker
           /\ Front(folder_placeholder_path(f)) = f
           /\ Len(folder_placeholder_path(f)) = Len(f) + 1
  <1> DEFINE n == Append(f, Marker)
  <1>1. Marker \in Segments
    BY AccessAssumption
  <1>2. n \in Seq(Segments) /\ Len(n) = Len(f) + 1 /\ n[Len(f) + 1] = Marker
    BY <1>1
  <1>3. SubSeq(n, 1, Len(f)) = f
    BY <1>1
  <1>4. n \in Paths /\ Last(n) = Marker /\ Front(n) = f
    <2> HIDE DEF n
    <2>1. Len(n) - 1 = Len(f) /\ Len(n) = Len(f) + 1 /\ n # <<>>
      BY <1>2
    <2>2. Front(n) = f
      BY <1>3, <2>1, Zenon DEF Front
    <2>3. Last(n) = Marker
      BY <1>2, <2>1, Zenon DEF Last
    <2>4. QED
      BY <1>2, <2>1, <2>2, <2>3 DEF Paths
  <1>5. QED
    BY <1>2, <1>4 DEF folder_placeholder_path

\* A name that ends with the marker is the folder it marks and the marker.
LEMMA MarkedFolder ==
    ASSUME NEW n \in Paths, Last(n) = Marker
    PROVE  /\ folder_path_from_placeholder(n) = Front(n)
           /\ Front(n) \in Seq(Segments)
           /\ n = folder_placeholder_path(Front(n))
           /\ Len(n) = Len(Front(n)) + 1
  <1>1. n \in Seq(Segments) /\ Len(n) \in Nat \ {0}
    BY DEF Paths
  <1>2. Front(n) \in Seq(Segments) /\ Len(Front(n)) = Len(n) - 1
    <2>1. Len(n) - 1 \in 0..Len(n)
      BY <1>1
    <2>2. \A d \in 0..Len(n) : SubSeq(n, 1, d) \in Seq(Segments) /\ Len(SubSeq(n, 1, d)) = d
      BY <1>1
    <2>3. QED
      BY <2>1, <2>2, Zenon DEF Front
  <1>3. \A k \in 1..(Len(n) - 1) : Front(n)[k] = n[k]
    BY <1>1 DEF Front
  <1>4. n = Append(Front(n), Marker)
    <2> DEFINE m == Append(Front(n), Marker)
    <2>1. Marker \in Segments
      BY AccessAssumption
    <2>2. m \in Seq(Segments) /\ Len(m) = Len(n) /\ m[Len(n)] = Marker
      BY <1>1, <1>2, <2>1
    <2>3. \A k \in 1..(Len(n) - 1) : m[k] = Front(n)[k]
      BY <1>2, <2>1
    <2>4. n[Len(n)] = Marker
      BY DEF Last
    <2> HIDE DEF m
    <2>5. \A k \in 1..Len(n) : m[k] = n[k]
      BY <1>1, <1>3, <2>2, <2>3, <2>4
    <2>6. m = n
      BY <1>1, <2>2, <2>5, SameEntries
    <2>7. QED
      BY <2>6 DEF m
  <1>5. QED
    BY <1>1, <1>2, <1>4 DEF folder_path_from_placeholder, folder_placeholder_path

\* The new name of what is in a renamed folder.
LEMMA MarkerMoves ==
    ASSUME NEW n \in Paths, NEW from \in Paths, NEW to \in Paths, IsStrictPrefix(from, n),
           Plain(to), Plain(Front(n))
    PROVE  Plain(Front(NewName(n, from, to))) /\ Last(NewName(n, from, to)) = Last(n)
  <1> DEFINE m == NewName(n, from, to)
  <1>1. PICK rest \in Paths : n = from \o rest /\ m = to \o rest
    BY NameInFolder
  <1>2. from \in Seq(Segments) /\ to \in Seq(Segments) /\ rest \in Seq(Segments)
        /\ Len(from) \in Nat /\ Len(to) \in Nat /\ Len(rest) \in Nat \ {0}
    BY DEF Paths
  <1>3. /\ n \in Seq(Segments) /\ Len(n) = Len(from) + Len(rest)
        /\ \A k \in 1..Len(rest) : n[Len(from) + k] = rest[k]
    BY <1>1, <1>2, RowEntries
  <1>4. /\ m \in Seq(Segments) /\ Len(m) = Len(to) + Len(rest)
        /\ \A k \in 1..Len(to) : m[k] = to[k]
        /\ \A k \in 1..Len(rest) : m[Len(to) + k] = rest[k]
    BY <1>1, <1>2, RowEntries
  <1> HIDE DEF m
  <1>5. Last(m) = Last(n)
    BY <1>2, <1>3, <1>4 DEF Last
  <1>6. /\ Len(Front(n)) = Len(n) - 1 /\ \A k \in 1..(Len(n) - 1) : Front(n)[k] = n[k]
        /\ Len(Front(m)) = Len(m) - 1 /\ \A k \in 1..(Len(m) - 1) : Front(m)[k] = m[k]
    BY <1>2, <1>3, <1>4 DEF Front
  <1>7. ASSUME NEW k \in 1..(Len(m) - 1) PROVE m[k] # Marker
    <2>1. CASE k \in 1..Len(to)
      BY <1>4, <2>1 DEF Plain
    <2>2. CASE k \notin 1..Len(to)
      <3>1. k \in 1..(Len(to) + Len(rest))
        BY <1>2, <1>4
      <3>2. PICK j \in 1..Len(rest) : k = Len(to) + j
        BY <1>2, <2>2, <3>1, RowPlaces
      <3>3. Len(from) + j \in 1..(Len(n) - 1)
        BY <1>2, <1>3, <1>4, <3>2
      <3>4. m[k] = n[Len(from) + j]
        BY <1>3, <1>4, <3>2
      <3>5. QED
        BY <1>6, <3>3, <3>4 DEF Plain
    <2>3. QED
      BY <2>1, <2>2
  <1>8. Plain(Front(m))
    BY <1>6, <1>7 DEF Plain
  <1>9. QED
    BY <1>5, <1>8 DEF m

\* An empty bucket has no markers.
LEMMA InitMarkers == Init => MarkerInv
  <1> SUFFICES ASSUME Init PROVE MarkerInv
    OBVIOUS
  <1>1. BagToSet(grants) = {} /\ Live = {}
    BY RowsOfBags DEF Init, Live
  <1>2. QED
    BY <1>1 DEF MarkerInv

\* No new row and no new grant.
LEMMA SameMarkers ==
    ASSUME MarkerInv, UNCHANGED name, BagToSet(grants') \subseteq BagToSet(grants)
    PROVE  MarkerInv'
  BY DEF MarkerInv, Live

\* A new row for a name that only ends with the marker, and grants on it.
LEMMA NewRowMarkers ==
    ASSUME ForeignKeys, MarkerInv, NEW i \in Ids, name[i] = None, NEW n \in Paths, Plain(Front(n)),
           name' = [name EXCEPT ![i] = n],
           \A g \in BagToSet(grants') \ BagToSet(grants) :
               g.type = "folder" => g.obj = i /\ Last(n) = Marker
    PROVE  MarkerInv'
  <1>1. /\ Live' = Live \cup {i} /\ i \notin Live /\ name'[i] = n
        /\ \A j \in Live : name'[j] = name[j]
    BY AddKeys DEF ForeignKeys, Live
  <1>2. \A j \in Live' : Plain(Front(name'[j]))
    BY <1>1 DEF MarkerInv
  <1>3. ASSUME NEW g \in BagToSet(grants'), g.type = "folder" PROVE Last(name'[g.obj]) = Marker
    <2>1. CASE g \in BagToSet(grants)
      <3>1. g.obj \in Live /\ Last(name[g.obj]) = Marker
        BY <1>3, <2>1 DEF ForeignKeys, MarkerInv
      <3>2. QED
        BY <1>1, <3>1
    <2>2. CASE g \notin BagToSet(grants)
      BY <1>1, <1>3, <2>2
    <2>3. QED
      BY <2>1, <2>2
  <1>4. QED
    BY <1>2, <1>3 DEF MarkerInv

\* An upload adds a row and grants of its own on it.
LEMMA ActUploadMarkers ==
    ASSUME PlainFolders, ForeignKeys, MarkerInv, NEW p \in Procs, ActUpload(p)
    PROVE  MarkerInv'
  <1> DEFINE n == proc[p].name
             new(i) == ensure_default_private_access(proc[p].parents, proc[p].user, i, n)
  <1>1. /\ n \in Paths /\ n \in Uploads /\ proc[p].user \in Users /\ Selected(proc[p].parents)
    BY AccessAssumption DEF ForeignKeys, ActUpload, Requests, Idle, Selected
  <1>2. PICK i \in Unused : name' = [name EXCEPT ![i] = n] /\ grants' = grants (+) new(i)
    BY DEF ActUpload
  <1>3. i \in Ids /\ name[i] = None
    BY <1>2 DEF Unused, Live
  <1>4. BagToSet(grants') = BagToSet(grants) \cup BagToSet(new(i))
    BY <1>2, RowsOfBags
  <1>5. \A g \in BagToSet(new(i)) : g.obj = i /\ (g.type = "folder" => Last(n) = Marker)
    BY <1>1, <1>3, DefaultRows
  <1>6. Plain(Front(n))
    BY <1>1 DEF PlainFolders
  <1> HIDE DEF n, new
  <1>7. QED
    BY <1>1, <1>2, <1>3, <1>4, <1>5, <1>6, NewRowMarkers

\* A folder grant is put on a marker, that is there or new.
LEMMA CreateGrantMarkers ==
    ASSUME PlainFolders, ForeignKeys, MarkerInv, NEW u \in Users, NEW r \in GrantRequests,
           create_grant(u, r)
    PROVE  MarkerInv'
  <1> DEFINE n == IF r.type = "folder" THEN folder_placeholder_path(r.path) ELSE r.path
             row(i) == Grant(r.type, i, r.subject, r.permission, r.effect, u, r.until)
  <1>1. \A i : BagToSet(grants (+) SetToBag({row(i)})) = BagToSet(grants) \cup {row(i)}
    BY RowsOfBags
  <1>2. \A i : row(i).type = r.type /\ row(i).obj = i
    BY DEF Grant
  <1>3. \/ /\ UNCHANGED name
           /\ \E i : /\ r.type = "folder" => i \in Named(n)
                     /\ BagToSet(grants') = BagToSet(grants) \cup {row(i)}
        \/ /\ r.type = "folder"
           /\ \E i \in Ids : /\ ensure_folder_marker(i, r.path)
                             /\ BagToSet(grants') = BagToSet(grants) \cup {row(i)}
    BY <1>1 DEF create_grant
  <1>4. r.type = "folder" => /\ r.path \in Seq(Segments) /\ n = folder_placeholder_path(r.path)
                             /\ n \in Paths /\ Last(n) = Marker /\ Plain(Front(n))
    BY AccessAssumption, MarkerName DEF PlainFolders
  <1> HIDE DEF n, row
  <1>5. CASE /\ UNCHANGED name
             /\ \E i : /\ r.type = "folder" => i \in Named(n)
                       /\ BagToSet(grants') = BagToSet(grants) \cup {row(i)}
    <2>1. PICK i : /\ r.type = "folder" => i \in Named(n)
                   /\ BagToSet(grants') = BagToSet(grants) \cup {row(i)}
      BY <1>5
    <2>2. r.type = "folder" => Last(name[i]) = Marker
      BY <1>4, <2>1 DEF Named
    <2>3. QED
      BY <1>2, <1>5, <2>1, <2>2 DEF MarkerInv, Live
  <1>6. CASE /\ r.type = "folder"
             /\ \E i \in Ids : /\ ensure_folder_marker(i, r.path)
                               /\ BagToSet(grants') = BagToSet(grants) \cup {row(i)}
    <2>1. PICK i \in Ids : /\ ensure_folder_marker(i, r.path)
                           /\ BagToSet(grants') = BagToSet(grants) \cup {row(i)}
      BY <1>6
    <2>2. name[i] = None /\ name' = [name EXCEPT ![i] = n]
      BY <1>4, <1>6, <2>1 DEF ensure_folder_marker, Unused, Live
    <2>3. \A g \in BagToSet(grants') \ BagToSet(grants) : g.obj = i
      BY <1>2, <2>1
    <2>4. QED
      BY <1>4, <1>6, <2>2, <2>3, NewRowMarkers
  <1>7. QED
    BY <1>3, <1>5, <1>6

\* A move takes no marker, and nothing that a folder grant is on.
LEMMA ActMoveMarkers ==
    ASSUME PlainFolders, ForeignKeys, MarkerInv, NEW p \in Procs, ActMove(p)
    PROVE  MarkerInv'
  <1>1. /\ proc[p].to \in Paths
        /\ \E m \in Moves : proc[p] = [op |-> "move", from |-> m[1], to |-> m[2]]
    BY RequestOf DEF ForeignKeys, ActMove, Requests, Idle
  <1>2. Last(proc[p].from) # Marker /\ Plain(Front(proc[p].to))
    BY <1>1 DEF PlainFolders
  <1>3. PICK i \in Named(proc[p].from) : name' = [name EXCEPT ![i] = proc[p].to]
    BY DEF ActMove
  <1>4. /\ i \in Live /\ Live' = Live /\ grants' = grants /\ name[i] = proc[p].from
        /\ \A j \in Live : name'[j] = IF j = i THEN proc[p].to ELSE name[j]
    BY <1>1, <1>3, AccessAssumption DEF ForeignKeys, Named, Live, ActMove
  <1>5. \A j \in Live' : Plain(Front(name'[j]))
    BY <1>2, <1>4 DEF MarkerInv
  <1>6. ASSUME NEW g \in BagToSet(grants), g.type = "folder" PROVE Last(name'[g.obj]) = Marker
    <2>1. g.obj \in Live /\ Last(name[g.obj]) = Marker
      BY <1>6 DEF ForeignKeys, MarkerInv
    <2>2. g.obj # i
      BY <1>2, <1>4, <2>1
    <2>3. QED
      BY <1>4, <2>1, <2>2
  <1>7. QED
    BY <1>4, <1>5, <1>6 DEF MarkerInv

\* A rename changes what comes before the last segment, to plain names.
LEMMA ActRenameMarkers ==
    ASSUME PlainFolders, ForeignKeys, RenameInv, MarkerInv, NEW p \in Procs, ActRename(p)
    PROVE  MarkerInv'
  <1>1. proc[p].from \in Paths /\ proc[p].to \in Paths /\ Plain(proc[p].to)
    <2>1. proc[p].from \in Paths /\ proc[p].to \in Paths
      BY RequestOf DEF ForeignKeys, ActRename
    <2>2. \E r \in Renames : proc[p].to = r[2]
      BY DEF ForeignKeys, ActRename, Requests, Idle
    <2>3. QED
      BY <2>1, <2>2 DEF PlainFolders
  <1>2. /\ Live' = Live /\ grants' = grants
        /\ \A i \in proc[p].objs : /\ i \in Live /\ IsStrictPrefix(proc[p].from, name[i])
                                   /\ name'[i] = NewName(name[i], proc[p].from, proc[p].to)
        /\ \A i \in Live \ proc[p].objs : name'[i] = name[i]
    BY ActRenameNames DEF ActRename
  <1>3. ASSUME NEW i \in Live PROVE Plain(Front(name'[i])) /\ Last(name'[i]) = Last(name[i])
    <2>1. name[i] \in Paths /\ Plain(Front(name[i]))
      BY DEF ForeignKeys, Live, MarkerInv
    <2>2. CASE i \in proc[p].objs
      BY <1>1, <1>2, <2>1, <2>2, MarkerMoves
    <2>3. CASE i \notin proc[p].objs
      BY <1>2, <2>1, <2>3
    <2>4. QED
      BY <2>2, <2>3
  <1>4. \A g \in BagToSet(grants) : g.type = "folder" => g.obj \in Live
    BY DEF ForeignKeys
  <1>5. QED
    BY <1>2, <1>3, <1>4 DEF MarkerInv

\* What a deletion leaves keeps its name.
LEMMA ActDeleteMarkers ==
    ASSUME ForeignKeys, MarkerInv, NEW p \in Procs, ActDelete(p)
    PROVE  MarkerInv'
  <1> DEFINE objs == proc[p].objs
  <1>1. /\ name' = [i \in Ids |-> IF i \in objs THEN None ELSE name[i]]
        /\ BagToSet(grants') = {g \in BagToSet(grants) : g.obj \notin objs}
    BY CascadeRows DEF ActDelete
  <1>2. Live' = Live \ objs /\ \A i \in Live' : name'[i] = name[i]
    BY <1>1 DEF Live
  <1>3. \A g \in BagToSet(grants') : g.type = "folder" => g.obj \in Live' /\ g \in BagToSet(grants)
    BY <1>1, <1>2 DEF ForeignKeys
  <1>4. QED
    BY <1>2, <1>3 DEF MarkerInv

\* Every step keeps markers at the end of names and folder grants on them.
LEMMA NextMarkers ==
    ASSUME PlainFolders
    PROVE  ForeignKeys /\ RenameInv /\ MarkerInv /\ [Next]_vars => MarkerInv'
  <1> SUFFICES ASSUME ForeignKeys, RenameInv, MarkerInv, [Next]_vars PROVE MarkerInv'
    OBVIOUS
  <1>1. CASE UNCHANGED <<name, grants>>
    BY <1>1, SameMarkers
  <1>2. CASE \E u \in Users, r \in GrantRequests : create_grant(u, r)
    BY <1>2, CreateGrantMarkers
  <1>3. ASSUME NEW u \in Users, NEW g \in BagToSet(grants), delete_grant(u, g)
        PROVE  MarkerInv'
    <2>1. UNCHANGED name /\ grants' = grants (-) SetToBag({g})
      BY <1>3 DEF delete_grant
    <2>2. QED
      BY <2>1, RowsOfBags, SameMarkers
  <1>4. ASSUME NEW p \in Procs, ActUpload(p) \/ ActMove(p) \/ ActRename(p) \/ ActDelete(p)
        PROVE  MarkerInv'
    BY <1>4, ActUploadMarkers, ActMoveMarkers, ActRenameMarkers, ActDeleteMarkers
  <1>5. ASSUME NEW p \in Procs, Fail(p) \/ Overwrite(p) \/ SelectParents(p) \/ LockFolder(p)
        PROVE  UNCHANGED <<name, grants>>
    BY <1>5 DEF Fail, Overwrite, SelectParents, LockFolder
  <1>6. ASSUME NEW p \in Procs, NEW u \in Users,
               \/ \E n \in Uploads : CheckUpload(p, u, n)
               \/ \E m \in Moves : CheckMove(p, u, m[1], m[2])
               \/ \E r \in Renames : CheckRename(p, u, r[1], r[2])
               \/ DeleteObject(p, u) \/ DeletePrefix(p, u) \/ EmptyBucket(p, u)
        PROVE  UNCHANGED <<name, grants>>
    BY <1>6 DEF CheckUpload, CheckMove, CheckRename, DeleteObject, DeletePrefix, EmptyBucket,
                CheckDelete, Begin
  <1>7. Tick \/ UNCHANGED vars => UNCHANGED <<name, grants>>
    BY DEF Tick, vars
  <1>8. QED
    BY <1>1, <1>2, <1>3, <1>4, <1>5, <1>6, <1>7 DEF Next

\* Beginnings of one path are beginnings of each other.
LEMMA PrefixChain ==
    ASSUME NEW a \in Seq(Segments), NEW b \in Seq(Segments), NEW s \in Seq(Segments)
    PROVE  /\ IsPrefix(a, s) /\ IsPrefix(b, s) /\ Len(a) =< Len(b) => IsPrefix(a, b)
           /\ IsPrefix(a, s) /\ IsPrefix(b, s) /\ Len(a) = Len(b) => a = b
           /\ IsPrefix(a, b) /\ IsPrefix(b, s) => IsPrefix(a, s)
  <1>1. Len(a) \in Nat /\ Len(b) \in Nat /\ Len(s) \in Nat
    OBVIOUS
  <1>2. /\ IsPrefix(a, s) <=> Len(a) =< Len(s) /\ \A k \in 1..Len(a) : a[k] = s[k]
        /\ IsPrefix(b, s) <=> Len(b) =< Len(s) /\ \A k \in 1..Len(b) : b[k] = s[k]
        /\ IsPrefix(a, b) <=> Len(a) =< Len(b) /\ \A k \in 1..Len(a) : a[k] = b[k]
    BY PrefixEntries
  <1>3. Len(a) =< Len(b) => \A k \in 1..Len(a) : k \in 1..Len(b)
    BY <1>1
  <1>4. IsPrefix(a, s) /\ IsPrefix(b, s) /\ Len(a) =< Len(b) => IsPrefix(a, b)
    BY <1>2, <1>3
  <1>5. IsPrefix(a, s) /\ IsPrefix(b, s) /\ Len(a) = Len(b) => a = b
    BY <1>1, <1>2, SameEntries
  <1>6. IsPrefix(a, b) /\ IsPrefix(b, s) => IsPrefix(a, s)
    BY <1>1, <1>2, <1>3
  <1>7. QED
    BY <1>4, <1>5, <1>6

\* A beginning as long as the whole is the whole.
LEMMA WholePrefix ==
    ASSUME NEW a \in Seq(Segments), NEW s \in Seq(Segments), IsPrefix(a, s), Len(a) = Len(s)
    PROVE  a = s
  <1>1. \A k \in 1..Len(a) : a[k] = s[k]
    BY PrefixEntries
  <1>2. QED
    BY <1>1, SameEntries

\* A beginning of a marker's name is the name or a beginning of its folder.
LEMMA MarkerPrefix ==
    ASSUME NEW f \in Seq(Segments), NEW a \in Seq(Segments)
    PROVE  /\ IsPrefix(f, folder_placeholder_path(f))
           /\ IsPrefix(a, folder_placeholder_path(f)) =>
                  IsPrefix(a, f) \/ a = folder_placeholder_path(f)
  <1> DEFINE n == folder_placeholder_path(f)
  <1>1. /\ n \in Seq(Segments) /\ Len(n) = Len(f) + 1 /\ Len(f) \in Nat /\ Len(a) \in Nat
    BY MarkerName DEF Paths
  <1>2. IsPrefix(f, n)
    <2>1. Marker \in Segments
      BY AccessAssumption
    <2>2. \A k \in 1..Len(f) : n[k] = f[k]
      BY <2>1 DEF folder_placeholder_path
    <2> HIDE DEF n
    <2>3. QED
      BY <1>1, <2>2, PrefixEntries
  <1> HIDE DEF n
  <1>3. ASSUME IsPrefix(a, n) PROVE IsPrefix(a, f) \/ a = n
    <2>1. Len(a) =< Len(n)
      BY <1>3 DEF IsPrefix
    <2>2. CASE Len(a) =< Len(f)
      BY <1>1, <1>2, <1>3, <2>2, PrefixChain
    <2>3. CASE Len(a) = Len(n)
      <3>1. IsPrefix(n, n)
        BY <1>1, PrefixEntries
      <3>2. QED
        BY <1>1, <1>3, <2>3, <3>1, PrefixChain
    <2>4. QED
      BY <1>1, <2>1, <2>2, <2>3
  <1>4. QED
    BY <1>2, <1>3 DEF n

\* A request to read is refused by a deciding grant that denies reading, and by
\* nothing else: the bucket's default lets everyone read.
ReadDenied(u, path, id) ==
    \E g \in Deciding(u, path, id) : g.effect = "deny" /\ g.permission = Read

\* What a refusal to read comes from.
LEMMA ReadDecision ==
    ASSUME ForeignKeys, NEW u, NEW path, NEW id
    PROVE  evaluate_access(u, path, id, Read) <=> ~ReadDenied(u, path, id)
  <1> DEFINE top == Deciding(u, path, id)
  <1>1. \A g \in top : g.effect \in {"allow", "deny"} /\ g.permission \in {0, 1, 2}
    BY DEF Deciding, Active, ForeignKeys, Grants, Permissions, Read, Write, Admin
  <1>2. kind_default_allows(u, Read)
    <2>1. Kind = "company" \/ Kind = "connector"
      BY AccessAssumption
    <2>2. Read # Admin
      BY DEF Read, Admin
    <2>3. QED
      BY <2>1, <2>2 DEF kind_default_allows
  <1>3. \A g \in top : permission_at_least(g.permission, Read)
    BY <1>1 DEF permission_at_least, Read
  <1>4. \A g \in top : deny_blocks(g.permission, Read) <=> g.permission = Read
    BY <1>1 DEF deny_blocks, Read
  <1> HIDE DEF top
  <1>5. evaluate_access(u, path, id, Read) <=>
            ~\E g \in top \ {h \in top : h.effect = "allow"} : deny_blocks(g.permission, Read)
    <2> DEFINE allows == {g \in top : g.effect = "allow"}
    <2>1. evaluate_access(u, path, id, Read) <=>
              /\ ~\E g \in top \ allows : deny_blocks(g.permission, Read)
              /\ IF allows = {} THEN kind_default_allows(u, Read)
                 ELSE \E g \in allows : permission_at_least(g.permission, Read)
      BY DEF evaluate_access, top
    <2>2. IF allows = {} THEN kind_default_allows(u, Read)
          ELSE \E g \in allows : permission_at_least(g.permission, Read)
      BY <1>2, <1>3
    <2>3. QED
      BY <2>1, <2>2
  <1>6. QED
    BY <1>1, <1>4, <1>5 DEF ReadDenied, top

\* What an upload of p adds: the row j and the grants G on it.
Adds(p, j, G) ==
    /\ j \in Ids /\ name[j] = None /\ Named(proc[p].name) = {}
    /\ name' = [name EXCEPT ![j] = proc[p].name]
    /\ now' = now /\ Selected(proc[p].parents)
    /\ G = BagToSet(ensure_default_private_access(proc[p].parents, proc[p].user, j, proc[p].name))
    /\ BagToSet(grants') = BagToSet(grants) \cup G

\* An upload adds.
LEMMA UploadAdds ==
    ASSUME ForeignKeys, NEW p \in Procs, ActUpload(p)
    PROVE  /\ proc[p].user \in Users /\ proc[p].name \in Paths
           /\ \E j, G : Adds(p, j, G)
  <1> DEFINE new(j) ==
          ensure_default_private_access(proc[p].parents, proc[p].user, j, proc[p].name)
  <1>1. /\ proc[p].user \in Users /\ proc[p].name \in Paths /\ Selected(proc[p].parents)
    BY RequestOf DEF ForeignKeys, ActUpload
  <1>2. now' = now
    BY DEF ActUpload, End
  <1>3. PICK j \in Unused : /\ Named(proc[p].name) = {}
                            /\ name' = [name EXCEPT ![j] = proc[p].name]
                            /\ grants' = grants (+) new(j)
    BY DEF ActUpload
  <1>4. j \in Ids /\ name[j] = None
    BY <1>3 DEF Unused, Live
  <1>5. BagToSet(grants') = BagToSet(grants) \cup BagToSet(new(j))
    BY <1>3, RowsOfBags
  <1>6. Adds(p, j, BagToSet(new(j)))
    BY <1>1, <1>2, <1>3, <1>4, <1>5 DEF Adds
  <1>7. QED
    BY <1>1, <1>6

\* The grants that were there say what they said, with the weight they had.
LEMMA OldGrantsStay ==
    ASSUME ForeignKeys, NEW p \in Procs, NEW j, NEW G, Adds(p, j, G), proc[p].user \in Users,
           proc[p].name \in Paths
    PROVE  /\ j \notin Live /\ name'[j] = proc[p].name /\ Live' = Live \cup {j}
           /\ \A i \in Live : name'[i] = name[i] /\ name[i] # proc[p].name
           /\ \A g \in G : g \in Grants /\ g.obj = j /\ g.type # "bucket"
           /\ \A g \in Active' : g \in Active \/ g \in G
           /\ \A g \in Active :
                 /\ g \in Active' /\ grant_specificity(g)' = grant_specificity(g)
                 /\ g.type # "bucket" => g.obj \in Live
                 /\ g.obj \in Live \/ g.obj = None
                 /\ \A i \in Live : resource_matches_grant(g, name[i], i)'
                                        <=> resource_matches_grant(g, name[i], i)
  <1>1. /\ j \notin Live /\ name'[j] = proc[p].name /\ Live' = Live \cup {j}
        /\ \A i \in Live : name'[i] = name[i] /\ name[i] # proc[p].name
    BY AddKeys DEF Adds, ForeignKeys, Live, Named
  <1>2. \A g \in G : g \in Grants /\ g.obj = j /\ g.type # "bucket"
    BY DefaultRows DEF Adds
  <1>3. \A g \in Active' : g \in Active \/ g \in G
    BY DEF Active, Adds
  <1>4. ASSUME NEW g \in Active
        PROVE  /\ g \in Active' /\ grant_specificity(g)' = grant_specificity(g)
               /\ g.type # "bucket" => g.obj \in Live
               /\ g.obj \in Live \/ g.obj = None
               /\ \A i \in Live : resource_matches_grant(g, name[i], i)'
                                      <=> resource_matches_grant(g, name[i], i)
    <2>1. g \in Active'
      BY DEF Active, Adds
    <2>2. /\ g.type \in {"bucket", "folder", "object"}
          /\ g.type # "bucket" => g.obj \in Live
          /\ g.obj \in Live \/ g.obj = None
      BY DEF Active, ForeignKeys, Grants
    <2>3. g.type # "bucket" => name'[g.obj] = name[g.obj]
      BY <1>1, <2>2
    <2>4. grant_specificity(g)' = grant_specificity(g)
      BY <2>2, <2>3, Weight DEF Depth
    <2>5. \A i \in Live : resource_matches_grant(g, name[i], i)'
                              <=> resource_matches_grant(g, name[i], i)
      BY <1>1, <2>2, <2>3 DEF resource_matches_grant
    <2>6. QED
      BY <2>1, <2>2, <2>4, <2>5
  <1>5. QED
    BY <1>1, <1>2, <1>3, <1>4

\* Weights are numbers, and a folder's depth is one.
Weighed == \A g \in Active : grant_specificity(g) \in Nat /\ (g.type = "folder" => Depth(g) \in Nat)

\* The foreign keys give every grant a weight.
LEMMA WeightsCount == ForeignKeys => Weighed
  <1> SUFFICES ASSUME ForeignKeys, NEW g \in Active
               PROVE  grant_specificity(g) \in Nat /\ (g.type = "folder" => Depth(g) \in Nat)
    BY DEF Weighed
  <1>1. g.type \in {"bucket", "folder", "object"}
    BY DEF Active, ForeignKeys, Grants
  <1>2. ASSUME g.type = "folder" PROVE Depth(g) \in Nat
    <2>1. name[g.obj] \in Paths
      BY <1>2 DEF ForeignKeys, Active, Live
    <2>2. folder_path_from_placeholder(name[g.obj]) \in Seq(Segments)
      BY <2>1, FolderPath
    <2>3. QED
      BY <2>2 DEF Depth
  <1>3. QED
    BY <1>1, <1>2, Weight

\* The same after a step.
LEMMA WeightsCountNext == ForeignKeys' => Weighed'
  BY WeightsCount, PTL

\* The refusals of objects that are there.
LEMMA ReadsDecided ==
    ForeignKeys => \A u \in Users, i \in Live :
        evaluate_access(u, name[i], i, Read) <=> ~ReadDenied(u, name[i], i)
  BY ReadDecision

\* The same after a step.
LEMMA ReadsDecidedNext ==
    ForeignKeys' => (\A u \in Users, i \in Live :
        evaluate_access(u, name[i], i, Read) <=> ~ReadDenied(u, name[i], i))'
  BY ReadsDecided, PTL

\* An upload of p leaves d, which denied u to read object i, without effect.
Opened(p, j, G, u, i, d) ==
    /\ ForeignKeys /\ ForeignKeys'
    /\ Adds(p, j, G) /\ proc[p].user \in Users /\ proc[p].name \in Paths
    /\ u \in Users /\ i \in Live
    /\ d \in Deciding(u, name[i], i) /\ d.effect = "deny" /\ d.permission = Read
    /\ evaluate_access(u, name[i], i, Read)'

\* Then a new grant outweighs d, and no grant that denies reading is on top.
LEMMA Overruled ==
    ASSUME NEW p \in Procs, NEW j, NEW G, NEW u, NEW i, NEW d, Opened(p, j, G, u, i, d)
    PROVE  /\ d \in Matching(u, name[i], i)
           /\ \A g \in Matching(u, name[i], i) : grant_specificity(g) =< grant_specificity(d)
           /\ \A g \in Matching(u, name[i], i)' :
                 \/ g \in G
                 \/ /\ g \in Matching(u, name[i], i)
                    /\ grant_specificity(g)' = grant_specificity(g)
           /\ \A g \in Matching(u, name[i], i)' : grant_specificity(g)' \in Nat
           /\ \A g \in Matching(u, name[i], i) : grant_specificity(g) \in Nat
           /\ \E h \in G : /\ h \in Matching(u, name[i], i)'
                           /\ grant_specificity(d) < grant_specificity(h)'
           /\ \A g \in Matching(u, name[i], i)' : g.effect = "deny" /\ g.permission = Read =>
                 \E h \in Matching(u, name[i], i)' :
                     ~(grant_specificity(h)' =< grant_specificity(g)')
  <1> DEFINE M == Matching(u, name[i], i)
  <1>0. /\ ForeignKeys /\ ForeignKeys' /\ u \in Users /\ i \in Live
        /\ Adds(p, j, G) /\ proc[p].user \in Users /\ proc[p].name \in Paths
        /\ d \in Deciding(u, name[i], i) /\ d.effect = "deny" /\ d.permission = Read
        /\ evaluate_access(u, name[i], i, Read)'
    BY DEF Opened
  <1>1. d \in M /\ \A g \in M : grant_specificity(g) =< grant_specificity(d)
    BY <1>0 DEF Deciding, Matching
  <1>2. \A g \in M : g \in Active /\ grant_specificity(g) \in Nat
    BY <1>0, WeightsCount DEF Matching, Weighed
  <1>3. \A g \in M' : g \in Active' /\ grant_specificity(g)' \in Nat
    BY <1>0, WeightsCountNext DEF Matching, Weighed
  <1>4. i \in Live'
    BY <1>0, OldGrantsStay
  <1>5. ASSUME NEW g \in Active PROVE g \in M' <=> g \in M
    <2>1. /\ g \in Active'
          /\ resource_matches_grant(g, name[i], i)' <=> resource_matches_grant(g, name[i], i)
      BY <1>0, OldGrantsStay
    <2>2. subject_matches(g, u)' <=> subject_matches(g, u)
      BY DEF subject_matches
    <2>3. QED
      BY <2>1, <2>2 DEF Matching
  <1>6. \A g \in M' : g \in G \/ (g \in M /\ grant_specificity(g)' = grant_specificity(g))
    BY <1>0, <1>3, <1>5, OldGrantsStay
  <1>7. ~ReadDenied(u, name[i], i)'
    BY <1>0, <1>4, ReadsDecidedNext
  <1>8. Deciding(u, name[i], i)'
            = {g \in M' : \A h \in M' : grant_specificity(h)' =< grant_specificity(g)'}
    BY DEF Deciding, Matching
  <1>9. d \in M' /\ grant_specificity(d)' = grant_specificity(d)
    BY <1>0, <1>1, <1>2, <1>5, OldGrantsStay
  <1> HIDE DEF M
  <1>10. \A g \in M' : g.effect = "deny" /\ g.permission = Read =>
             \E h \in M' : ~(grant_specificity(h)' =< grant_specificity(g)')
    BY <1>7, <1>8 DEF ReadDenied
  <1>11. PICK h \in M' : ~(grant_specificity(h)' =< grant_specificity(d)')
    BY <1>0, <1>9, <1>10
  <1>12. h \in G /\ grant_specificity(d) < grant_specificity(h)'
    <2>1. h \in G
      BY <1>1, <1>6, <1>9, <1>11
    <2>2. grant_specificity(d) \in Nat /\ grant_specificity(h)' \in Nat
      BY <1>1, <1>2, <1>3
    <2>3. QED
      BY <1>9, <1>11, <2>1, <2>2
  <1>13. QED
    BY <1>1, <1>2, <1>3, <1>6, <1>10, <1>12 DEF M

\* A new file's grants are about the file alone.
LEMMA FilesOpenNothing ==
    ASSUME NEW p \in Procs, NEW j, NEW G, NEW u, NEW i, NEW d, Opened(p, j, G, u, i, d)
    PROVE  Last(proc[p].name) = Marker
  <1> SUFFICES ASSUME Last(proc[p].name) # Marker PROVE FALSE
    OBVIOUS
  <1>1. PICK h \in G : h \in Matching(u, name[i], i)'
    BY Overruled
  <1>2. /\ j # i /\ h.obj = j /\ name'[j] # name'[i] /\ h.type \in {"object", "folder"}
    BY OldGrantsStay DEF Opened, Grants
  <1>3. h.type # "folder"
    BY <1>1, DefaultRows DEF Opened, Adds
  <1>4. h.type = "object" => h.obj = i \/ name'[h.obj] = name'[i]
    BY <1>1 DEF Matching, resource_matches_grant
  <1>5. QED
    BY <1>2, <1>3, <1>4

\* What is known of a new folder's grants over an object that was there.
LEMMA NewFolderGrant ==
    ASSUME NEW p \in Procs, NEW j, NEW G, NEW u, NEW i, NEW d, Opened(p, j, G, u, i, d),
           NEW h \in G, h \in Matching(u, name[i], i)'
    PROVE  /\ h.obj = j /\ h.type = "folder" /\ h.subject \in {u, Company}
           /\ Front(proc[p].name) \in Seq(Segments)
           /\ proc[p].name = folder_placeholder_path(Front(proc[p].name))
           /\ folder_path_from_placeholder(proc[p].name) = Front(proc[p].name)
           /\ IsPrefix(Front(proc[p].name), name[i])
           /\ grant_specificity(h)' = (100 + Len(Front(proc[p].name))) * 10 + SubjectWeight(h)
  <1> DEFINE n == proc[p].name
  <1>1. /\ n \in Paths /\ Last(n) = Marker
    BY FilesOpenNothing DEF Opened
  <1>2. /\ Front(n) \in Seq(Segments) /\ n = folder_placeholder_path(Front(n))
        /\ folder_path_from_placeholder(n) = Front(n)
    BY <1>1, MarkedFolder
  <1>3. /\ h.obj = j /\ h.type \in {"object", "folder"} /\ name'[j] = n /\ name'[i] = name[i]
        /\ j # i /\ name[i] # n
    BY OldGrantsStay DEF Opened, Grants
  <1>4. h.subject \in {u, Company} /\ resource_matches_grant(h, name[i], i)'
    BY DEF Matching, subject_matches
  <1>5. h.type = "folder"
    BY <1>3, <1>4 DEF resource_matches_grant
  <1>6. IsPrefix(Front(n), name[i])
    BY <1>2, <1>3, <1>4, <1>5 DEF resource_matches_grant, folder_matches
  <1>7. Depth(h)' = Len(Front(n))
    BY <1>2, <1>3 DEF Depth
  <1>8. grant_specificity(h)' = (100 + Len(Front(n))) * 10 + SubjectWeight(h)
    BY <1>5, <1>7, Weight
  <1>9. QED
    BY <1>2, <1>3, <1>4, <1>5, <1>6, <1>8

\* A grant over an object that weighs no more than one on folder f, which the
\* object is in: it is on the bucket or on f or a folder above f.
LEMMA LighterGrants ==
    ASSUME ForeignKeys, MarkerInv, NEW u \in Users, NEW i \in Live,
           NEW g \in Matching(u, name[i], i), NEW f \in Seq(Segments), IsPrefix(f, name[i]),
           Len(f) < 899, grant_specificity(g) < (100 + Len(f)) * 10 + 3
    PROVE  \/ g.type = "bucket"
           \/ /\ g.type = "folder" /\ g.obj \in Live /\ Depth(g) =< Len(f) /\ Depth(g) \in Nat
              /\ Front(name[g.obj]) \in Seq(Segments)
              /\ folder_path_from_placeholder(name[g.obj]) = Front(name[g.obj])
              /\ name[g.obj] = folder_placeholder_path(Front(name[g.obj]))
              /\ Len(name[g.obj]) = Len(Front(name[g.obj])) + 1
              /\ Depth(g) = Len(Front(name[g.obj]))
              /\ IsPrefix(Front(name[g.obj]), name[i])
              /\ IsPrefix(Front(name[g.obj]), f)
  <1>1. /\ g.type \in {"bucket", "folder", "object"} /\ g \in BagToSet(grants)
        /\ resource_matches_grant(g, name[i], i) /\ name[i] \in Seq(Segments)
    BY DEF Matching, Active, ForeignKeys, Grants, Live, Paths
  <1>2. Len(f) \in Nat /\ SubjectWeight(g) \in {1, 2, 3}
    BY Weight
  <1>3. g.type # "object"
    <2>1. g.type = "object" => grant_specificity(g) = 10000 + SubjectWeight(g)
      BY Weight
    <2>2. QED
      BY <1>2, <2>1
  <1>4. ASSUME g.type = "folder"
        PROVE  /\ g.obj \in Live /\ Depth(g) =< Len(f) /\ Depth(g) \in Nat
               /\ Front(name[g.obj]) \in Seq(Segments)
               /\ folder_path_from_placeholder(name[g.obj]) = Front(name[g.obj])
               /\ name[g.obj] = folder_placeholder_path(Front(name[g.obj]))
               /\ Len(name[g.obj]) = Len(Front(name[g.obj])) + 1
               /\ Depth(g) = Len(Front(name[g.obj]))
               /\ IsPrefix(Front(name[g.obj]), name[i])
               /\ IsPrefix(Front(name[g.obj]), f)
    <2>1. g.obj \in Live /\ name[g.obj] \in Paths /\ Last(name[g.obj]) = Marker
      BY <1>1, <1>4 DEF ForeignKeys, Live, MarkerInv
    <2>2. /\ Front(name[g.obj]) \in Seq(Segments)
          /\ folder_path_from_placeholder(name[g.obj]) = Front(name[g.obj])
          /\ name[g.obj] = folder_placeholder_path(Front(name[g.obj]))
          /\ Len(name[g.obj]) = Len(Front(name[g.obj])) + 1
      BY <2>1, MarkedFolder
    <2>3. Depth(g) = Len(Front(name[g.obj])) /\ Depth(g) \in Nat
      BY <2>2 DEF Depth
    <2>4. IsPrefix(Front(name[g.obj]), name[i])
      BY <1>1, <1>4, <2>2 DEF resource_matches_grant, folder_matches
    <2>5. grant_specificity(g) = (100 + Depth(g)) * 10 + SubjectWeight(g)
      BY <1>4, Weight
    <2>6. Depth(g) =< Len(f)
      BY <1>2, <2>3, <2>5
    <2>7. IsPrefix(Front(name[g.obj]), f)
      BY <1>1, <2>2, <2>3, <2>4, <2>6, PrefixChain
    <2>8. QED
      BY <2>1, <2>2, <2>3, <2>4, <2>6, <2>7
  <1>5. QED
    BY <1>1, <1>3, <1>4

\* A folder of its own shuts out everyone but who made it, and for these nothing
\* is opened that they could write before.
LEMMA PrivateFolderOpensNothing ==
    ASSUME NEW p \in Procs, NEW j, NEW G, NEW u, NEW i, NEW d, Opened(p, j, G, u, i, d),
           MarkerInv, MarkerInv', ShortNames', proc[p].parents = {}
    PROVE  u = proc[p].user /\ ~CanReach(u, proc[p].name, None, Write)
  <1> DEFINE n == proc[p].name
             f == Front(proc[p].name)
             M == Matching(u, name[i], i)
             deny == Grant("folder", j, Company, Read, "deny", proc[p].user, None)
             allow == Grant("folder", j, proc[p].user, Admin, "allow", proc[p].user, None)
  <1>0. /\ ForeignKeys /\ Adds(p, j, G) /\ proc[p].user \in Users /\ n \in Paths
        /\ u \in Users /\ i \in Live /\ name[i] \in Seq(Segments)
        /\ d.effect = "deny" /\ d.permission = Read
    BY DEF Opened, ForeignKeys, Live, Paths
  <1>1. PICK h \in G : h \in M' /\ grant_specificity(d) < grant_specificity(h)'
    BY Overruled
  <1>2. /\ h.obj = j /\ h.type = "folder" /\ h.subject \in {u, Company}
        /\ f \in Seq(Segments) /\ n = folder_placeholder_path(f)
        /\ folder_path_from_placeholder(n) = f /\ IsPrefix(f, name[i])
        /\ grant_specificity(h)' = (100 + Len(f)) * 10 + SubjectWeight(h)
    BY <1>1, NewFolderGrant
  <1>3. G = {deny, allow}
    <2>1. Last(n) = Marker
      BY FilesOpenNothing
    <2>2. n # <<Marker>>
      BY <1>0, <1>1, RowsOfBags DEF Adds, ensure_default_private_access
    <2>3. QED
      BY <1>0, <2>1, <2>2, RowsOfBags DEF Adds, ensure_default_private_access
  <1>4. /\ d \in M /\ \A g \in M : grant_specificity(g) =< grant_specificity(d)
        /\ \A g \in M : grant_specificity(g) \in Nat
        /\ \A g \in M' : g \in G \/ (g \in M /\ grant_specificity(g)' = grant_specificity(g))
        /\ \A g \in M' : grant_specificity(g)' \in Nat
        /\ \A g \in M' : g.effect = "deny" /\ g.permission = Read =>
               \E k \in M' : ~(grant_specificity(k)' =< grant_specificity(g)')
    BY Overruled
  <1> HIDE DEF M
  <1>5. u = proc[p].user
    <2> SUFFICES ASSUME u # proc[p].user PROVE FALSE
      OBVIOUS
    <2>1. \A g \in G : g \in M' => g = deny
      <3>1. \A g \in G : g \in M' => g.subject \in {u, Company}
        BY NewFolderGrant DEF M
      <3>2. allow.subject = proc[p].user /\ proc[p].user # Company
        BY <1>0, AccessAssumption DEF Grant
      <3>3. allow \notin M'
        BY <1>3, <3>1, <3>2
      <3>4. QED
        BY <1>3, <3>3
    <2>2. h = deny /\ h.effect = "deny" /\ h.permission = Read
      BY <1>1, <2>1 DEF Grant
    <2>3. PICK k \in M' : ~(grant_specificity(k)' =< grant_specificity(h)')
      BY <1>1, <1>4, <2>2
    <2>4. k # h
      BY <1>1, <1>4, <2>3
    <2>5. k \in M /\ grant_specificity(k)' = grant_specificity(k)
      BY <1>4, <2>1, <2>2, <2>4
    <2>6. grant_specificity(k) =< grant_specificity(d)
      BY <1>4, <2>5
    <2>7. QED
      BY <1>1, <1>4, <2>3, <2>5, <2>6
  <1>6. Len(f) < 899 /\ Len(f) \in Nat
    <2>1. j \in Live' /\ name'[j] = n
      BY <1>0, OldGrantsStay
    <2>2. Len(n) < 900
      BY <2>1 DEF ShortNames
    <2>3. Len(n) = Len(f) + 1 /\ Len(f) \in Nat
      BY <1>2, MarkerName
    <2>4. QED
      BY <2>2, <2>3
  <1>7. \A g \in M : grant_specificity(g) < (100 + Len(f)) * 10 + 3
    <2>1. SubjectWeight(h) \in {1, 2, 3}
      BY Weight
    <2>2. grant_specificity(d) < (100 + Len(f)) * 10 + 3
      BY <1>1, <1>2, <1>4, <1>6, <2>1
    <2>3. QED
      BY <1>4, <1>6, <2>2
  <1>8. d \in Matching(u, n, None)
    <2>1. d \in Active /\ subject_matches(d, u)
      BY <1>4 DEF M, Matching
    <2>2. d.type = "bucket" => resource_matches_grant(d, n, None)
      BY DEF resource_matches_grant
    <2>3. ASSUME d.type = "folder" PROVE resource_matches_grant(d, n, None)
      <3>1. /\ Front(name[d.obj]) \in Seq(Segments) /\ IsPrefix(Front(name[d.obj]), f)
            /\ folder_path_from_placeholder(name[d.obj]) = Front(name[d.obj])
        BY <1>0, <1>2, <1>4, <1>6, <1>7, <2>3, LighterGrants DEF M
      <3>2. IsPrefix(f, n) /\ n \in Seq(Segments)
        BY <1>0, <1>2, MarkerPrefix DEF Paths
      <3>3. IsPrefix(Front(name[d.obj]), n)
        BY <1>2, <3>1, <3>2, PrefixChain
      <3>4. QED
        BY <2>3, <3>1, <3>3 DEF resource_matches_grant, folder_matches
    <2>4. d.type \in {"bucket", "folder"}
      BY <1>0, <1>2, <1>4, <1>6, <1>7, LighterGrants DEF M
    <2>5. QED
      BY <2>1, <2>2, <2>3, <2>4 DEF Matching
  <1>9. ASSUME NEW g \in Matching(u, n, None) PROVE g \in M
    <2>1. /\ g \in Active /\ subject_matches(g, u) /\ resource_matches_grant(g, n, None)
          /\ g \in BagToSet(grants) /\ g.type \in {"bucket", "folder", "object"}
          /\ g.type # "bucket" => g.obj \in Live /\ name[g.obj] \in Paths
      BY <1>0 DEF Matching, Active, ForeignKeys, Grants, Live
    <2>2. g.type # "object"
      <3>1. ASSUME g.type = "object" PROVE g.obj = None \/ name[g.obj] = n
        BY <2>1, <3>1 DEF resource_matches_grant
      <3>2. \A k \in Live : k # None /\ name[k] # n
        BY <1>0, AccessAssumption, OldGrantsStay DEF Live
      <3>3. QED
        BY <2>1, <3>1, <3>2
    <2>3. ASSUME g.type = "folder" PROVE resource_matches_grant(g, name[i], i)
      <3> DEFINE b == Front(name[g.obj])
      <3>1. /\ Last(name[g.obj]) = Marker /\ Plain(b)
        BY <2>1, <2>3 DEF MarkerInv
      <3>2. /\ folder_path_from_placeholder(name[g.obj]) = b /\ b \in Seq(Segments)
        BY <2>1, <2>3, <3>1, MarkedFolder
      <3>3. IsPrefix(b, n)
        BY <2>1, <2>3, <3>2 DEF resource_matches_grant, folder_matches
      <3>4. b # n
        <4>1. Last(n) = Marker /\ Len(n) \in 1..Len(n)
          BY <1>0, FilesOpenNothing DEF Paths
        <4>2. ~Plain(n)
          BY <4>1 DEF Plain, Last
        <4>3. QED
          BY <3>1, <4>2
      <3> HIDE DEF b
      <3>5. IsPrefix(b, f)
        BY <1>2, <3>2, <3>3, <3>4, MarkerPrefix
      <3>6. IsPrefix(b, name[i])
        BY <1>0, <1>2, <3>2, <3>5, PrefixChain
      <3>7. QED
        BY <2>3, <3>2, <3>6 DEF resource_matches_grant, folder_matches
    <2>4. g.type = "bucket" => resource_matches_grant(g, name[i], i)
      BY DEF resource_matches_grant
    <2>5. QED
      BY <2>1, <2>2, <2>3, <2>4 DEF M, Matching
  <1>10. d \in Deciding(u, n, None)
    BY <1>4, <1>8, <1>9 DEF Deciding, Matching
  <1>11. ~evaluate_access(u, n, None, Write)
    BY <1>0, <1>10 DEF evaluate_access, deny_blocks, Read, Write
  <1>12. QED
    BY <1>5, <1>11 DEF CanReach

\* The weight of a folder grant.
LEMMA FolderWeight ==
    ASSUME NEW g, g.type = "folder"
    PROVE  grant_specificity(g) = (100 + Depth(g)) * 10 + SubjectWeight(g)
  BY Weight

\* A folder below folders with grants repeats the nearest of them, as long as what
\* they say to u is what was selected: where a copy outweighs d, d is one of the
\* nearest and has a copy of its own on top.
LEMMA NestedFolderOpensNothing ==
    ASSUME NEW p \in Procs, NEW j, NEW G, NEW u, NEW i, NEW d, Opened(p, j, G, u, i, d),
           MarkerInv, ShortNames', proc[p].parents # {},
           SpeakTo(u, proc[p].parents) = SpeakTo(u, ParentGrants(proc[p].name))
    PROVE  FALSE
  <1> DEFINE n == proc[p].name
             f == Front(proc[p].name)
             M == Matching(u, name[i], i)
             above == folder_grants_for_prefixes(ancestor_folder_prefixes(f))
             S == nearest_ancestor_folder_grants(f)
             R == {t[1] : t \in proc[p].parents}
             Alike(e, g) == /\ e.subject = g.subject /\ e.permission = g.permission
                            /\ e.effect = g.effect /\ e.until = g.until
                            /\ SubjectWeight(e) = SubjectWeight(g)
  <1>0. /\ ForeignKeys /\ ForeignKeys' /\ Adds(p, j, G) /\ proc[p].user \in Users /\ n \in Paths
        /\ u \in Users /\ i \in Live /\ name[i] \in Seq(Segments)
        /\ d.effect = "deny" /\ d.permission = Read
    BY DEF Opened, ForeignKeys, Live, Paths
  <1>1. PICK h \in G : h \in M' /\ grant_specificity(d) < grant_specificity(h)'
    BY Overruled
  <1>2. /\ h.obj = j /\ h.type = "folder" /\ h.subject \in {u, Company}
        /\ f \in Seq(Segments) /\ n = folder_placeholder_path(f)
        /\ folder_path_from_placeholder(n) = f /\ IsPrefix(f, name[i])
        /\ grant_specificity(h)' = (100 + Len(f)) * 10 + SubjectWeight(h)
    BY <1>1, NewFolderGrant
  <1>3. (\A e \in G : \E g \in R : Alike(e, g)) /\ (\A g \in R : \E e \in G : Alike(e, g))
    <2> DEFINE copy(g) == [g EXCEPT !.obj = j, !.by = proc[p].user]
    <2>1. Last(n) = Marker
      BY FilesOpenNothing
    <2>2. n # <<Marker>>
      BY <1>0, <1>1, RowsOfBags DEF Adds, ensure_default_private_access
    <2>3. G = BagToSet(copy_folder_grants(proc[p].parents, proc[p].user, j))
      BY <1>0, <2>1, <2>2 DEF Adds, ensure_default_private_access
    <2>4. G = {copy(g) : g \in R}
      <3>1. G = {[t[1] EXCEPT !.obj = j, !.by = proc[p].user] : t \in proc[p].parents}
        BY <2>3, Zenon DEF copy_folder_grants, BagToSet
      <3>2. @ = {copy(g) : g \in R}
        BY Zenon
      <3>3. QED
        BY <3>1, <3>2
    <2>5. \A g \in R : g \in Grants
      BY <1>0 DEF Adds, Selected, FolderGrants
    <2>6. \A g \in Grants : Alike(copy(g), g)
      BY DEF Grants, SubjectWeight
    <2> HIDE DEF copy, Alike, R
    <2>7. QED
      BY <2>4, <2>5, <2>6
  <1>a. \A g : g.subject \in {u, Company} => (g \in R <=> g \in S)
    <2>1. SpeakTo(u, proc[p].parents) = {g \in R : g.subject \in {u, Company}}
      BY DEF SpeakTo, subject_matches
    <2>2. SpeakTo(u, ParentGrants(n)) = {g \in S : g.subject \in {u, Company}}
      <3>1. ParentGrants(n) = {<<g, grants[g]>> : g \in S}
        BY <1>2 DEF ParentGrants
      <3> HIDE DEF S
      <3>2. \A g : (\E t \in ParentGrants(n) : t[1] = g) <=> g \in S
        <4>1. ASSUME NEW t \in ParentGrants(n) PROVE t[1] \in S
          BY <3>1
        <4>2. ASSUME NEW g \in S PROVE <<g, grants[g]>> \in ParentGrants(n) /\ <<g, grants[g]>>[1] = g
          BY <3>1
        <4>3. QED
          BY <4>1, <4>2, Zenon
      <3>3. \A g : g \in SpeakTo(u, ParentGrants(n))
                      <=> g.subject \in {u, Company} /\ \E t \in ParentGrants(n) : t[1] = g
        BY DEF SpeakTo, subject_matches
      <3>4. QED
        BY <3>2, <3>3
    <2>3. QED
      BY <2>1, <2>2
  <1>4. /\ d \in M /\ \A g \in M : grant_specificity(g) =< grant_specificity(d)
        /\ \A g \in M : grant_specificity(g) \in Nat
        /\ \A g \in M' : g \in G \/ (g \in M /\ grant_specificity(g)' = grant_specificity(g))
        /\ \A g \in M' : grant_specificity(g)' \in Nat
        /\ \A g \in M' : g.effect = "deny" /\ g.permission = Read =>
               \E k \in M' : ~(grant_specificity(k)' =< grant_specificity(g)')
    BY Overruled
  <1>5. Len(f) < 899 /\ Len(f) \in Nat
    <2>1. j \in Live' /\ name'[j] = n
      BY <1>0, OldGrantsStay
    <2>2. Len(n) < 900
      BY <2>1 DEF ShortNames
    <2>3. Len(n) = Len(f) + 1 /\ Len(f) \in Nat
      BY <1>2, MarkerName
    <2>4. QED
      BY <2>2, <2>3
  <1>6. ASSUME NEW g \in S
        PROVE  /\ g \in Active /\ g \in Grants /\ g.type = "folder" /\ g.obj \in Live
               /\ \E k \in 1..(Len(f) - 1) : name[g.obj] = folder_placeholder_path(SubSeq(f, 1, k))
               /\ \A k \in above : Len(name[k.obj]) =< Len(name[g.obj])
    <2>1. /\ g \in Active /\ g.type = "folder"
          /\ \E k \in 1..(Len(f) - 1) : name[g.obj] = folder_placeholder_path(SubSeq(f, 1, k))
          /\ \A k \in above : Len(name[k.obj]) =< Len(name[g.obj])
      BY DEF nearest_ancestor_folder_grants, folder_grants_for_prefixes, ancestor_folder_prefixes
    <2>2. g \in Grants /\ g.obj \in Live
      BY <1>0, <2>1 DEF Active, ForeignKeys
    <2>3. QED
      BY <2>1, <2>2
  <1>7. ASSUME NEW g \in S
        PROVE  /\ grant_specificity(g) = (100 + Depth(g)) * 10 + SubjectWeight(g)
               /\ Depth(g) \in 1..(Len(f) - 1) /\ Len(name[g.obj]) = Depth(g) + 1
               /\ resource_matches_grant(g, name[i], i)
    <2>1. PICK k \in 1..(Len(f) - 1) : name[g.obj] = folder_placeholder_path(SubSeq(f, 1, k))
      BY <1>6
    <2>2. /\ SubSeq(f, 1, k) \in Seq(Segments) /\ Len(SubSeq(f, 1, k)) = k
          /\ IsPrefix(SubSeq(f, 1, k), f)
      <3>1. SubSeq(f, 1, k) \in Seq(Segments) /\ Len(SubSeq(f, 1, k)) = k
        BY <1>2
      <3>2. \A l \in 1..k : SubSeq(f, 1, k)[l] = f[l]
        BY <1>2
      <3>3. k =< Len(f)
        BY <1>5
      <3>4. IsPrefix(SubSeq(f, 1, k), f)
        BY <1>2, <3>1, <3>2, <3>3, PrefixEntries, Zenon
      <3>5. QED
        BY <3>1, <3>4
    <2>3. folder_path_from_placeholder(name[g.obj]) = SubSeq(f, 1, k) /\ Len(name[g.obj]) = k + 1
      BY <2>1, <2>2, MarkerName DEF folder_path_from_placeholder
    <2>4. Depth(g) = k
      BY <2>2, <2>3 DEF Depth
    <2>5. IsPrefix(SubSeq(f, 1, k), name[i])
      BY <1>0, <1>2, <2>2, PrefixChain
    <2>6. resource_matches_grant(g, name[i], i)
      BY <1>6, <2>3, <2>5 DEF resource_matches_grant, folder_matches
    <2>7. grant_specificity(g) = (100 + Depth(g)) * 10 + SubjectWeight(g)
      <3>1. g.type = "folder"
        BY <1>6
      <3>2. QED
        BY <3>1, FolderWeight
    <2>8. QED
      BY <2>3, <2>4, <2>6, <2>7
  <1> HIDE DEF M, S, R, above, Alike
  <1>8. PICK s \in S : Alike(h, s)
    BY <1>2, <1>3, <1>a DEF Alike
  <1>9. s \in M
    BY <1>2, <1>6, <1>7, <1>8 DEF M, Matching, subject_matches, Alike
  <1>10. grant_specificity(s) =< grant_specificity(d)
    BY <1>4, <1>9
  <1>11. /\ SubjectWeight(h) \in {1, 2, 3} /\ SubjectWeight(s) \in {1, 2, 3}
         /\ SubjectWeight(d) \in {1, 2, 3}
    BY Weight
  <1>12. grant_specificity(d) < (100 + Len(f)) * 10 + 3
    BY <1>1, <1>2, <1>4, <1>5, <1>11
  <1>13. d.type # "bucket"
    <2>1. d.type = "bucket" => grant_specificity(d) = 10 + SubjectWeight(d)
      BY Weight
    <2>2. QED
      BY <1>7, <1>10, <1>11, <2>1
  <1>14. /\ d.type = "folder" /\ d.obj \in Live /\ Depth(d) =< Len(f) /\ Depth(d) \in Nat
         /\ Front(name[d.obj]) \in Seq(Segments)
         /\ name[d.obj] = folder_placeholder_path(Front(name[d.obj]))
         /\ Len(name[d.obj]) = Len(Front(name[d.obj])) + 1
         /\ Depth(d) = Len(Front(name[d.obj]))
         /\ IsPrefix(Front(name[d.obj]), f)
    BY <1>0, <1>2, <1>4, <1>5, <1>12, <1>13, LighterGrants DEF M
  <1>15. Depth(d) # Len(f)
    <2>1. Depth(d) = Len(f) => Front(name[d.obj]) = f
      BY <1>2, <1>14, WholePrefix
    <2>2. name[d.obj] # n
      BY <1>0, <1>14, OldGrantsStay
    <2>3. QED
      BY <1>2, <1>14, <2>1, <2>2
  <1>16. Depth(s) =< Depth(d)
    <2>1. grant_specificity(d) = (100 + Depth(d)) * 10 + SubjectWeight(d)
      BY <1>14, FolderWeight
    <2>2. QED
      BY <1>7, <1>10, <1>11, <1>14, <2>1
  <1>17. d \in above
    <2>1. d \in Active
      BY <1>4 DEF M, Matching
    <2>2. Depth(d) \in 1..(Len(f) - 1)
      BY <1>5, <1>7, <1>14, <1>15, <1>16
    <2>3. Front(name[d.obj]) = SubSeq(f, 1, Depth(d))
      BY <1>2, <1>14, PrefixOf
    <2>4. Front(name[d.obj]) \in ancestor_folder_prefixes(f)
      BY <2>2, <2>3 DEF ancestor_folder_prefixes
    <2>5. QED
      BY <1>14, <2>1, <2>4 DEF above, folder_grants_for_prefixes
  <1>18. Depth(d) = Depth(s)
    BY <1>6, <1>7, <1>14, <1>16, <1>17
  <1>19. d \in S
    <2>1. S = {g \in above : \A k \in above : Len(name[k.obj]) =< Len(name[g.obj])}
      BY DEF S, above, nearest_ancestor_folder_grants
    <2>2. Len(name[d.obj]) = Len(name[s.obj])
      BY <1>7, <1>14, <1>18
    <2>3. QED
      BY <1>6, <1>17, <2>1, <2>2
  <1>20. PICK e \in G : Alike(e, d)
    <2>1. d.subject \in {u, Company}
      BY <1>4 DEF M, Matching, subject_matches
    <2>2. QED
      BY <1>3, <1>a, <1>19, <2>1
  <1>21. e \in M' /\ e.effect = "deny" /\ e.permission = Read
    <2>1. /\ e \in Grants /\ e.obj = j /\ name'[j] = n /\ name'[i] = name[i]
      BY <1>0, OldGrantsStay
    <2>2. e.type = "folder"
      BY <1>0, <2>1, FilesOpenNothing, DefaultRows DEF Adds
    <2>3. e \in Active'
      <3>1. e.until = None \/ e.until > now
        BY <1>6, <1>19, <1>20 DEF Active, Alike
      <3>2. QED
        BY <1>0, <3>1 DEF Active, Adds
    <2>4. e.subject \in {u, Company}
      BY <1>4, <1>20 DEF M, Matching, subject_matches, Alike
    <2>5. resource_matches_grant(e, name[i], i)'
      BY <1>2, <2>1, <2>2 DEF resource_matches_grant, folder_matches
    <2>6. subject_matches(e, u)'
      BY <2>4 DEF subject_matches
    <2>7. e \in M'
      BY <2>3, <2>5, <2>6 DEF M, Matching
    <2>8. QED
      BY <1>0, <1>20, <2>7 DEF Alike
  <1>22. PICK k \in M' : ~(grant_specificity(k)' =< grant_specificity(e)')
    BY <1>4, <1>21
  <1>23. grant_specificity(e)' = (100 + Len(f)) * 10 + SubjectWeight(d)
    <2>1. grant_specificity(e)' = (100 + Len(f)) * 10 + SubjectWeight(e)
      BY <1>21, NewFolderGrant DEF M
    <2>2. QED
      BY <1>20, <2>1 DEF Alike
  <1>24. grant_specificity(d) = (100 + Depth(d)) * 10 + SubjectWeight(d)
    BY <1>7, <1>19
  <1>25. CASE k \in G
    <2>2. /\ k.subject \in {u, Company}
          /\ grant_specificity(k)' = (100 + Len(f)) * 10 + SubjectWeight(k)
      BY <1>22, <1>25, NewFolderGrant DEF M
    <2>1. PICK g \in S : Alike(k, g)
      BY <1>3, <1>a, <1>25, <2>2 DEF Alike
    <2>3. g \in M
      BY <1>6, <1>7, <2>1, <2>2 DEF M, Matching, subject_matches, Alike
    <2>4. grant_specificity(g) =< grant_specificity(d)
      BY <1>4, <2>3
    <2>5. Depth(g) = Depth(d)
      <3>1. Len(name[g.obj]) =< Len(name[d.obj]) /\ Len(name[d.obj]) =< Len(name[g.obj])
        <4>1. \A a \in S : a \in above
          BY DEF S, nearest_ancestor_folder_grants, above
        <4>2. QED
          BY <1>6, <1>17, <1>19, <2>1, <4>1
      <3>2. QED
        BY <1>7, <1>19, <3>1
    <2>6. SubjectWeight(g) \in {1, 2, 3} /\ SubjectWeight(k) = SubjectWeight(g)
      BY <2>1, Weight DEF Alike
    <2>7. SubjectWeight(g) =< SubjectWeight(d)
      <3>1. grant_specificity(g) = (100 + Depth(g)) * 10 + SubjectWeight(g)
        BY <1>7
      <3>2. QED
        BY <1>11, <1>14, <1>24, <2>4, <2>5, <2>6, <3>1
    <2>8. QED
      BY <1>5, <1>11, <1>22, <1>23, <2>2, <2>6, <2>7
  <1>26. CASE k \notin G
    <2>1. k \in M /\ grant_specificity(k)' = grant_specificity(k)
      BY <1>4, <1>22, <1>26
    <2>2. grant_specificity(k) =< grant_specificity(d) /\ grant_specificity(k) \in Nat
      BY <1>4, <2>1
    <2>3. QED
      BY <1>5, <1>11, <1>14, <1>22, <1>23, <1>24, <2>1, <2>2
  <1>27. QED
    BY <1>25, <1>26

\* The step of an upload: nothing new is readable.
LEMMA UploadOpensNothing ==
    ASSUME ForeignKeys, ForeignKeys', MarkerInv, MarkerInv', ShortNames',
           NEW p \in Procs, ActUpload(p), NEW u \in Users, NEW i \in Live,
           evaluate_access(u, name[i], i, Read)', ~evaluate_access(u, name[i], i, Read),
           SpeakTo(u, proc[p].parents) = SpeakTo(u, ParentGrants(proc[p].name))
    PROVE  u = proc[p].user /\ ~CanReach(u, proc[p].name, None, Write)
  <1>1. PICK j, G : Adds(p, j, G)
    BY UploadAdds
  <1>2. PICK d \in Deciding(u, name[i], i) : d.effect = "deny" /\ d.permission = Read
    BY ReadDecision DEF ReadDenied
  <1>3. Opened(p, j, G, u, i, d)
    BY <1>1, <1>2, UploadAdds DEF Opened
  <1>4. QED
    BY <1>3, PrivateFolderOpensNothing, NestedFolderOpensNothing

\* An upload opens nothing that was there before, whatever is uploaded, granted and
\* revoked while it is under way, to nobody but an uploader whose own right to the
\* path was withdrawn since the check and users for whom the parent's grants have
\* changed since they were selected (ensure_default_private_access).
THEOREM UploadsOpenNothing ==
    ASSUME PlainFolders
    PROVE  Spec /\ []ShortNames => UploadsNeverWiden
  <1> DEFINE A == \A p \in Procs : ActUpload(p) =>
                    \A u \in Users, i \in Live :
                        (evaluate_access(u, name[i], i, Read))' =>
                            \/ evaluate_access(u, name[i], i, Read)
                            \/ u = proc[p].user /\ ~CanReach(u, proc[p].name, None, Write)
                            \/ SpeakTo(u, proc[p].parents)
                                    # SpeakTo(u, ParentGrants(proc[p].name))
  <1>1. Init => RenameInv /\ MarkerInv
    BY InitNames, InitMarkers
  <1>2. ForeignKeys /\ RenameInv /\ MarkerInv /\ [Next]_vars => RenameInv' /\ MarkerInv'
    BY NextNames, NextMarkers
  <1>3. ForeignKeys /\ ForeignKeys' /\ MarkerInv /\ MarkerInv' /\ ShortNames' => [A]_vars
    BY UploadOpensNothing
  <1>4. QED
    BY <1>1, <1>2, <1>3, KeysHold, PTL DEF Spec, UploadsNeverWiden

=============================================================================
