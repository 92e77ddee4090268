------------------------------- MODULE Access -------------------------------
(***************************************************************************)
(* Access grants of one company's bucket (apps/storage/access.py and       *)
(* grants.py): which row decides, the grants that new folders and files    *)
(* get, and the requests that change rows or grants.                       *)
(*                                                                         *)
(* An object's name is the sequence of its segments; a folder is an object *)
(* whose last segment is Marker (.emptyFolderPlaceholder).  A request is   *)
(* checked in one step and acts in a later one, as in the views: nothing   *)
(* is locked in between.  Two transactions take two steps: rename_folder,  *)
(* as uploads do not wait for its row locks, and an upload, as grants may  *)
(* change between its SELECT of the parent's and its COMMIT.               *)
(***************************************************************************)
EXTENDS Integers, FiniteSets, SequencesExt

CONSTANTS
    Members,      \* ordinary users of the company
    Owners,       \* company owners and staff
    Company,      \* the subject of a grant to the whole company
    Group,        \* a group subject: stored, never evaluated
    Kind,         \* the bucket's kind, "company" or "connector"
    Segments,     \* what names are made of between slashes
    Marker,       \* the last segment of a folder marker's name
    Uploads,      \* names that requests upload
    Moves,        \* <<from, to>> names of objects that requests move
    Renames,      \* <<from, to>> paths of folders that requests rename
    GrantRequests, \* [type, path, subject, permission, effect, until] for create_grant
    Ids,          \* object ids, as many as there are objects at one time
    Procs,        \* concurrent requests
    MaxRequests,  \* requests in a behaviour
    MaxTime,      \* clock readings, for expires_at
    None

Users == Members \cup Owners

\* _PERMISSION_RANK
Read == 0
Write == 1
Admin == 2
Permissions == {Read, Write, Admin}

Paths == Seq(Segments) \ {<<>>}

\* Company and Group are subject types of their own, no user ids.
ASSUME AccessAssumption ==
    /\ {Company, Group} \cap Users = {} /\ Company # Group
    /\ Kind \in {"company", "connector"}
    /\ Marker \in Segments
    /\ Uploads \subseteq Paths
    /\ Moves \subseteq Paths \X Paths /\ Renames \subseteq Paths \X Paths
    /\ MaxTime \in Nat
    /\ \A r \in GrantRequests :
        r \in [type : {"bucket", "folder", "object"}, path : Seq(Segments),
              subject : Users \cup {Company, Group}, permission : Permissions,
              effect : {"allow", "deny"}, until : 1..MaxTime \cup {None}]
    /\ None \notin Ids \cup Nat \cup Paths

VARIABLES
    name,   \* StorageObject: id -> name, None while there is no such row
    grants, \* StorageAccessGrant: a bag, rows alike but for their id
    now,
    proc,   \* what each request has checked and still has to do
    asked   \* how many requests there were

vars == <<name, grants, now, proc, asked>>

Idle == [op |-> "idle"]

folder_placeholder_path(f) == Append(f, Marker)

folder_path_from_placeholder(n) == IF Last(n) = Marker THEN Front(n) ELSE n

Live == {i \in Ids : name[i] # None}

Named(n) == {i \in Live : name[i] = n}

\* IsStrictPrefix: names that start with the folder and a slash.
objects_under_prefix(f) == {i \in Live : IsStrictPrefix(f, name[i])}

\* The folders that exist, with or without a marker.
Folders == UNION {{SubSeq(name[i], 1, k) : k \in 1..(Len(name[i]) - 1)} : i \in Live}

-----------------------------------------------------------------------------
(***************************************************************************)
(* evaluate_access                                                         *)
(***************************************************************************)
\* _active_grants_qs
Active == {g \in BagToSet(grants) : g.until = None \/ g.until > now}

permission_at_least(granted, required) == granted >= required

\* Mutation: a deny stops short of its own permission.
DenyBlocksAbove(denied, required) == required > denied

\* Deny read blocks everything, deny write blocks write and admin.
deny_blocks(denied, required) == required >= denied

folder_matches(prefix, path) == IsPrefix(prefix, path)

resource_matches_grant(g, path, id) ==
    CASE g.type = "bucket" -> TRUE
      [] g.type = "folder" -> folder_matches(folder_path_from_placeholder(name[g.obj]), path)
      [] g.type = "object" -> g.obj = id \/ name[g.obj] = path

subject_matches(g, u) == g.subject \in {u, Company}

grant_specificity(g) ==
    LET subject == CASE g.subject = Company -> 1 [] g.subject = Group -> 2 [] OTHER -> 3
        resource ==
            CASE g.type = "object" -> 1000
              [] g.type = "folder" -> 100 + Len(folder_path_from_placeholder(name[g.obj]))
              [] g.type = "bucket" -> 1
    IN  resource * 10 + subject

kind_default_allows(u, required) ==
    CASE Kind = "company" -> required = Admin => u \in Owners
      [] Kind = "connector" -> required = Read

Deciding(u, path, id) ==
    LET matching == {g \in Active : subject_matches(g, u) /\ resource_matches_grant(g, path, id)}
    IN  {g \in matching : \A h \in matching : grant_specificity(h) =< grant_specificity(g)}

\* Path <<>> is the bucket itself; id is None where the caller passes no object.
evaluate_access(u, path, id, required) ==
    LET top == Deciding(u, path, id)
        allows == {g \in top : g.effect = "allow"}
    IN  /\ ~\E g \in top \ allows : deny_blocks(g.permission, required)
        /\ IF allows = {} THEN kind_default_allows(u, required)
           ELSE \E g \in allows : permission_at_least(g.permission, required)

can_access_bucket(u, required) == evaluate_access(u, <<>>, None, required)

\* get_accessible_bucket and then assert_can_access_path, as every object view does.
CanReach(u, path, id, required) ==
    /\ can_access_bucket(u, required)
    /\ evaluate_access(u, path, id, required)

-----------------------------------------------------------------------------
(***************************************************************************)
(* What listings say                                                       *)
(***************************************************************************)
\* Mutation: a deny counts on the path's own row only.
SummaryOfRow(path, id) ==
    IF \E g \in Active : g.obj = id /\ g.effect = "deny" /\ g.subject = Company
    THEN "restricted" ELSE Kind

path_access_summary(path, id) ==
    LET matching == {g \in Active : resource_matches_grant(g, path, id)}
        company_deny(g) == g.effect = "deny" /\ g.subject = Company
    IN  IF \E g \in matching : company_deny(g) /\ deny_blocks(g.permission, Read)
        THEN "restricted"
        ELSE IF \E g \in matching : ~company_deny(g) THEN "limited"
        ELSE Kind

\* Mutation: a child folder is listed only if its own path may be read.
ListOpenFolders(u, prefix) ==
    LET seen == {i \in objects_under_prefix(prefix) : evaluate_access(u, name[i], i, Read)}
        depth == Len(prefix) + 1
        files == {i \in seen : Len(name[i]) = depth}
    IN  {[path |-> name[i], id |-> i] : i \in files}
            \cup {f \in {[path |-> SubSeq(name[i], 1, depth), id |-> None] : i \in seen \ files} :
                      evaluate_access(u, f.path, None, Read)}

\* One level of the tree: files with their ids, child folders with id None.
list_objects(u, prefix) ==
    LET seen == {i \in objects_under_prefix(prefix) : evaluate_access(u, name[i], i, Read)}
        depth == Len(prefix) + 1
        files == {i \in seen : Len(name[i]) = depth}
    IN  {[path |-> name[i], id |-> i] : i \in files}
            \cup {[path |-> SubSeq(name[i], 1, depth), id |-> None] : i \in seen \ files}

\* The listing over REST, of any prefix in a bucket that may be read.
ObjectList(u, prefix) == IF can_access_bucket(u, Read) THEN list_objects(u, prefix) ELSE {}

\* The listing over WebDAV hides markers, and needs the right to read the folder.
propfind(u, prefix) ==
    IF Named(prefix) = {} /\ (prefix = <<>> \/ evaluate_access(u, prefix, None, Read))
    THEN {e \in ObjectList(u, prefix) : Last(e.path) # Marker}
    ELSE {}

\* GET, over REST and over WebDAV.
Download(u, i) == CanReach(u, name[i], i, Read)

-----------------------------------------------------------------------------
(***************************************************************************)
(* Grants that creation leaves                                             *)
(***************************************************************************)
ancestor_folder_prefixes(path) == {SubSeq(path, 1, k) : k \in 1..(Len(path) - 1)}

\* Active folder grants on the markers of a set of folders.
folder_grants_for_prefixes(fs) ==
    {g \in Active : /\ g.type = "folder"
                    /\ name[g.obj] \in {folder_placeholder_path(f) : f \in fs}}

\* The grants of the deepest ancestor that has some.
nearest_ancestor_folder_grants(path) ==
    LET above == folder_grants_for_prefixes(ancestor_folder_prefixes(path))
    IN  {g \in above : \A h \in above : Len(name[h.obj]) =< Len(name[g.obj])}

\* nearest_private_ancestor_folder(path) is not None.
UnderPrivateFolder(path) ==
    \E g \in folder_grants_for_prefixes(ancestor_folder_prefixes(path)) :
        g.effect = "deny" /\ g.subject = Company /\ deny_blocks(g.permission, Read)

Grant(type, obj, subject, permission, effect, by, until) ==
    [type |-> type, obj |-> obj, subject |-> subject, permission |-> permission,
     effect |-> effect, by |-> by, until |-> until]

\* What a SELECT of a new object's parent yields: rows, and how many there are alike.
ParentGrants(n) ==
    {<<g, grants[g]>> : g \in nearest_ancestor_folder_grants(folder_path_from_placeholder(n))}

\* Mutation: the effect is not copied, and is allow by default.
CopyAsAllow(parents, u, i) ==
    SetToBag({[s[1] EXCEPT !.obj = i, !.by = u, !.effect = "allow"] : s \in parents})

\* Every row of the parent, with the new marker and its creator.
copy_folder_grants(parents, u, i) ==
    LET Copy(s) == [s[1] EXCEPT !.obj = i, !.by = u]
        From(h) == {s \in parents : Copy(s) = h}
    IN  [h \in {Copy(s) : s \in parents} |-> FoldSet(LAMBDA s, n : n + s[2], 0, From(h))]

\* The grants of a new object: nested folders copy the nearest grants above
\* them, nested files inherit them by path, a marker in the bucket's root has
\* none, and everything else is private.
ensure_default_private_access(parents, u, i, n) ==
    LET folder == Last(n) = Marker
        type == IF folder THEN "folder" ELSE "object"
        private == {Grant(type, i, Company, Read, "deny", u, None),
                    Grant(type, i, u, Admin, "allow", u, None)}
    IN  CASE n = <<Marker>> -> EmptyBag
          [] n # <<Marker>> /\ parents = {} -> SetToBag(private)
          [] n # <<Marker>> /\ parents # {} /\ folder -> copy_folder_grants(parents, u, i)
          [] parents # {} /\ ~folder -> EmptyBag

\* Fresh UUIDs: no row has them, and no request will delete them for an earlier row's.
Unused == {i \in Ids \ Live : \A p \in Procs : proc[p].op = "delete" => i \notin proc[p].objs}

\* Objects whose rows a rename has locked.
Locked == {i \in Ids : \E p \in Procs : proc[p].op = "renaming" /\ i \in proc[p].objs}

-----------------------------------------------------------------------------
(***************************************************************************)
(* Requests.  A Check step is the view up to its last access check, an Act *)
(* step the transaction behind it.                                         *)
(***************************************************************************)
Ask == asked < MaxRequests /\ asked' = asked + 1

Ready(p) == proc[p] = Idle /\ Ask

Begin(p, request) ==
    /\ proc' = [proc EXCEPT ![p] = request]
    /\ UNCHANGED <<name, grants, now>>

End(p) == proc' = [proc EXCEPT ![p] = Idle] /\ UNCHANGED <<now, asked>>

\* A request is refused, or its process dies, before it changes anything.
Fail(p) ==
    /\ proc[p] # Idle
    /\ End(p)
    /\ UNCHANGED <<name, grants>>

CheckUpload(p, u, n) ==
    /\ Ready(p)
    /\ CanReach(u, n, None, Write)
    /\ Begin(p, [op |-> "upload", user |-> u, name |-> n])

\* An overwrite leaves the name and the grants as they are.
Overwrite(p) ==
    /\ proc[p].op = "upload" /\ Named(proc[p].name) # {}
    /\ End(p)
    /\ UNCHANGED <<name, grants>>

\* A new object's transaction up to the SELECT of its parent's grants.  Nobody
\* else sees its row yet.
SelectParents(p) ==
    /\ proc[p].op = "upload" /\ Named(proc[p].name) = {}
    /\ proc' = [proc EXCEPT ![p] = [op |-> "creating", user |-> proc[p].user, name |-> proc[p].name,
                                    parents |-> ParentGrants(proc[p].name)]]
    /\ UNCHANGED <<name, grants, now, asked>>

\* The COMMIT of the row and its grants.  Of several transactions that use one
\* name the first to commit succeeds, as the others wait for it or have failed.
ActUpload(p) ==
    /\ proc[p].op = "creating" /\ Named(proc[p].name) = {}
    /\ \E i \in Unused :
        /\ name' = [name EXCEPT ![i] = proc[p].name]
        /\ grants' = grants (+)
            ensure_default_private_access(proc[p].parents, proc[p].user, i, proc[p].name)
    /\ End(p)

CheckMove(p, u, from, to) ==
    /\ Ready(p) /\ from # to
    /\ CanReach(u, from, None, Write) /\ CanReach(u, to, None, Write)
    /\ Begin(p, [op |-> "move", from |-> from, to |-> to])

ActMove(p) ==
    /\ proc[p].op = "move"
    /\ Named(proc[p].from) \cap Locked = {}
    /\ Named(proc[p].to) = {}
    /\ \E i \in Named(proc[p].from) : name' = [name EXCEPT ![i] = proc[p].to]
    /\ UNCHANGED grants
    /\ End(p)

CheckRename(p, u, from, to) ==
    /\ Ready(p) /\ ~IsPrefix(from, to)
    /\ CanReach(u, from, None, Write) /\ CanReach(u, to, None, Write)
    /\ Begin(p, [op |-> "rename", from |-> from, to |-> to])

\* rename_folder up to its checks: the rows of the folder are locked.
LockFolder(p) ==
    LET objs == objects_under_prefix(proc[p].from)
    IN  /\ proc[p].op = "rename"
        /\ objs # {} /\ objs \cap Locked = {}
        /\ objects_under_prefix(proc[p].to) \cup Named(proc[p].to) = {}
        /\ proc' = [proc EXCEPT ![p] = [op |-> "renaming", objs |-> objs,
                                        from |-> proc[p].from, to |-> proc[p].to]]
        /\ UNCHANGED <<name, grants, now, asked>>

NewName(n, from, to) == to \o SubSeq(n, Len(from) + 1, Len(n))

\* Mutation: markers stay where they are.
RenameFiles(p) ==
    /\ proc[p].op = "renaming"
    /\ name' = [i \in Ids |-> IF i \in proc[p].objs /\ Last(name[i]) # Marker
                             THEN NewName(name[i], proc[p].from, proc[p].to) ELSE name[i]]
    /\ UNCHANGED grants
    /\ End(p)

\* The rest of rename_folder: every name is rewritten, unless one is taken by now.
ActRename(p) ==
    /\ proc[p].op = "renaming"
    /\ LET objs == proc[p].objs
           new == [i \in objs |-> NewName(name[i], proc[p].from, proc[p].to)]
       IN  /\ \A i \in objs : Named(new[i]) = {}
           /\ name' = [i \in Ids |-> IF i \in objs THEN new[i] ELSE name[i]]
    /\ UNCHANGED grants
    /\ End(p)

\* Every object that a request would delete is checked before the first one goes.
CheckDelete(p, u, objs) ==
    /\ Ready(p) /\ objs # {}
    /\ \A i \in objs : CanReach(u, name[i], i, Write)
    /\ Begin(p, [op |-> "delete", objs |-> objs])

DeleteObject(p, u) == \E i \in Live : CheckDelete(p, u, {i})

DeletePrefix(p, u) == \E f \in Folders : CheckDelete(p, u, objects_under_prefix(f))

EmptyBucket(p, u) == CheckDelete(p, u, Live)

\* Mutation: the grants of deleted rows stay.
NoCascade(objs) == grants

\* What ON DELETE CASCADE leaves of the grants.
Cascade(objs) == [g \in {h \in BagToSet(grants) : h.obj \notin objs} |-> grants[g]]

\* Rows go by primary key, wherever they are by now, and their grants with them.
ActDelete(p) ==
    /\ proc[p].op = "delete"
    /\ proc[p].objs \cap Locked = {}
    /\ name' = [i \in Ids |-> IF i \in proc[p].objs THEN None ELSE name[i]]
    /\ grants' = Cascade(proc[p].objs)
    /\ End(p)

\* _assert_can_manage_resource
CanManage(u, path, admin) ==
    /\ can_access_bucket(u, Read)
    /\ u \in Owners \/ evaluate_access(u, path, None, IF admin THEN Admin ELSE Write)

\* A new marker for a folder that has none, without grants of its own.
ensure_folder_marker(i, folder) ==
    /\ Named(folder_placeholder_path(folder)) = {}
    /\ i \in Unused
    /\ name' = [name EXCEPT ![i] = folder_placeholder_path(folder)]

\* The target of a folder grant is its marker, added if it is missing.
create_grant(u, r) ==
    LET n == IF r.type = "folder" THEN folder_placeholder_path(r.path) ELSE r.path
        row(i) == Grant(r.type, i, r.subject, r.permission, r.effect, u, r.until)
        Add(i) == grants' = grants (+) SetToBag({row(i)})
    IN  /\ Ask
        /\ CanManage(u, r.path, r.effect = "deny" \/ r.permission = Admin)
        /\ r.effect = "allow" /\ r.subject = Company => ~UnderPrivateFolder(r.path)
        /\ \/ r.type = "bucket" /\ Add(None) /\ UNCHANGED name
           \/ r.type # "bucket" /\ (\E i \in Named(n) : Add(i)) /\ UNCHANGED name
           \/ r.type = "folder" /\ \E i \in Ids : ensure_folder_marker(i, r.path) /\ Add(i)
        /\ UNCHANGED <<now, proc>>

resource_path(g) ==
    CASE g.type = "bucket" -> <<>>
      [] g.type = "folder" -> folder_path_from_placeholder(name[g.obj])
      [] g.type = "object" -> name[g.obj]

delete_grant(u, g) ==
    LET path == resource_path(g)
    IN  /\ Ask
        /\ u \in Owners \/ (g.by = u /\ CanManage(u, path, g.effect = "deny"))
        /\ g.effect = "deny" /\ g.subject = Company /\ g.permission = Read
             => ~UnderPrivateFolder(path)
        /\ grants' = grants (-) SetToBag({g})
        /\ UNCHANGED <<name, now, proc>>

Tick ==
    /\ now < MaxTime
    /\ now' = now + 1
    /\ UNCHANGED <<name, grants, proc, asked>>

-----------------------------------------------------------------------------
Init ==
    /\ name = [i \in Ids |-> None]
    /\ grants = EmptyBag
    /\ now = 0
    /\ proc = [p \in Procs |-> Idle]
    /\ asked = 0

Next ==
    \/ Tick
    \/ \E u \in Users, r \in GrantRequests : create_grant(u, r)
    \/ \E u \in Users, g \in BagToSet(grants) : delete_grant(u, g)
    \/ \E p \in Procs :
        \/ Fail(p) \/ Overwrite(p) \/ SelectParents(p) \/ ActUpload(p)
        \/ ActMove(p) \/ LockFolder(p) \/ ActRename(p) \/ ActDelete(p)
        \/ \E u \in Users :
            \/ \E n \in Uploads : CheckUpload(p, u, n)
            \/ \E m \in Moves : CheckMove(p, u, m[1], m[2])
            \/ \E r \in Renames : CheckRename(p, u, r[1], r[2])
            \/ DeleteObject(p, u) \/ DeletePrefix(p, u) \/ EmptyBucket(p, u)

Spec == Init /\ [][Next]_vars

-----------------------------------------------------------------------------
(***************************************************************************)
(* Properties                                                              *)
(***************************************************************************)
Grants ==
    [type : {"bucket", "folder", "object"}, obj : Ids \cup {None},
     subject : Users \cup {Company, Group}, permission : Permissions, effect : {"allow", "deny"},
     by : Users, until : 1..MaxTime \cup {None}]

FolderGrants == {g \in Grants : g.type = "folder"}

Requests ==
    [op : {"upload"}, user : Users, name : Uploads]
        \cup [op : {"creating"}, user : Users, name : Uploads,
              parents : SUBSET (FolderGrants \X (Nat \ {0}))]
        \cup {[op |-> "move", from |-> m[1], to |-> m[2]] : m \in Moves}
        \cup {[op |-> "rename", from |-> r[1], to |-> r[2]] : r \in Renames}
        \cup [op : {"renaming"}, from : {r[1] : r \in Renames}, to : {r[2] : r \in Renames},
              objs : SUBSET Live]
        \cup [op : {"delete"}, objs : SUBSET Ids]
        \cup {Idle}

\* The foreign keys, beside the types: a grant's object exists, and bucket
\* grants alone have none (the check constraint of StorageAccessGrant).  A row
\* that rename_folder has locked stays.
ForeignKeys ==
    /\ now \in 0..MaxTime
    /\ name \in [Ids -> Paths \cup {None}]
    /\ \A g \in BagToSet(grants) :
        g \in Grants /\ IF g.type = "bucket" THEN g.obj = None ELSE g.obj \in Live
    /\ proc \in [Procs -> Requests]

\* Types of the rows, the requests and the grants, with their foreign keys
\* (StorageObject, StorageAccessGrant).
TypeOK == IsABag(grants) /\ ForeignKeys

\* No request is in flight.  The formulas about decisions read the name, grants
\* and now alone, and any value of these occurs in a quiet state, because every
\* request may fail.
Quiet == \A p \in Procs : proc[p] = Idle

\* Everything a request may be about, with the id where there is an object.
Places == {<<name[i], i>> : i \in Live} \cup {<<f, None>> : f \in Folders \cup {<<>>}}

\* The grants to s on a folder of a path, on the object there, on the bucket.
InFolder(path, k, s) ==
    {g \in Active : /\ g.type = "folder" /\ g.subject = s
                    /\ folder_path_from_placeholder(name[g.obj]) = SubSeq(path, 1, k)}

OnObject(path, id, s) ==
    {g \in Active : g.type = "object" /\ g.subject = s /\ (g.obj = id \/ name[g.obj] = path)}

OnBucket(s) == {g \in Active : g.type = "bucket" /\ g.subject = s}

\* The levels of a path, most specific first, as the documentation lists them;
\* the folder of depth 0 is that of a marker in the bucket's root.
Levels(u, path, id) ==
    LET n == Len(path)
    IN  <<OnObject(path, id, u), OnObject(path, id, Company)>>
            \o [k \in 1..(2 * n + 2) |->
                   InFolder(path, n - (k - 1) \div 2, IF k % 2 = 1 THEN u ELSE Company)]
            \o <<OnBucket(u), OnBucket(Company)>>

\* evaluate_access is the walk down the levels: the first level with a grant
\* decides, by its strongest allow below its weakest deny, so that who may
\* administer may write and read, however grants of one level disagree.
DecisionsByLevel ==
    Quiet => \A u \in Users, t \in Places, r \in Permissions :
        LET levels == Levels(u, t[1], t[2])
            k == SelectInSeq(levels, LAMBDA level : level # {})
            first == IF k = 0 THEN {} ELSE levels[k]
            allowed == {g.permission : g \in {h \in first : h.effect = "allow"}}
            denied == {g.permission : g \in {h \in first : h.effect = "deny"}}
        IN  evaluate_access(u, t[1], t[2], r) =
                /\ \A d \in denied : r < d
                /\ IF allowed = {} THEN r < Admin \/ u \in Owners ELSE r =< Max(allowed)

\* A listed file or folder not shown as restricted is open: every member reads
\* it whom no grant of its own denies.
OpenMeansOpen ==
    Quiet => \A u \in Users, f \in Folders \cup {<<>>} : \A e \in list_objects(u, f) :
        path_access_summary(e.path, e.id) # "restricted" =>
            \A v \in Members :
                \/ evaluate_access(v, e.path, e.id, Read)
                \/ \E g \in Active : g.subject = v /\ resource_matches_grant(g, e.path, e.id)

\* Browsing from the bucket down finds every object that may be downloaded, in
\* folders that may not be read as well, and nothing else; and what PROPFIND
\* shows may be downloaded (list_objects, WebDAVView.propfind, assert_can_access_path).
BrowsingFindsReadable ==
    Quiet => \A u \in Users, i \in Live :
        LET path == name[i]
            folders == {SubSeq(path, 1, k) : k \in 1..(Len(path) - 1)}
        IN  /\ Download(u, i) <=>
                /\ [path |-> path, id |-> i] \in ObjectList(u, Front(path))
                /\ \A f \in folders : [path |-> f, id |-> None] \in ObjectList(u, Front(f))
            /\ [path |-> path, id |-> i] \in propfind(u, Front(path)) => Download(u, i)

\* The rows among some of a parent's that speak to a user.
SpeakTo(u, parents) == {s[1] : s \in {t \in parents : subject_matches(t[1], u)}}

\* An upload never lets anyone read an object that was there before, except an
\* uploader whose own right to the path was withdrawn since the check, and users
\* for whom the parent's grants have changed since the upload selected them
\* (copy_folder_grants).
UploadsNeverWiden ==
    [][\A p \in Procs : ActUpload(p) =>
        \A u \in Users, i \in Live :
            (evaluate_access(u, name[i], i, Read))' =>
                \/ evaluate_access(u, name[i], i, Read)
                \/ u = proc[p].user /\ ~CanReach(u, proc[p].name, None, Write)
                \/ SpeakTo(u, proc[p].parents) # SpeakTo(u, ParentGrants(proc[p].name))]_vars

\* Grants of folders that stay, over what a rename moves, before or after it.
OuterGrants(p) ==
    {g \in Active :
        /\ g.type = "folder" /\ g.obj \notin proc[p].objs
        /\ \E i \in proc[p].objs :
            \/ resource_matches_grant(g, name[i], i)
            \/ resource_matches_grant(g, NewName(name[i], proc[p].from, proc[p].to), i)}

\* A renamed folder keeps its access: where no other folder's grants apply, what
\* moved is open to the same users for the same actions, whatever was uploaded,
\* granted or revoked since the rows were locked.
RenameKeepsAccess ==
    [][\A p \in Procs : ActRename(p) /\ OuterGrants(p) = {} =>
        \A u \in Users, i \in proc[p].objs, r \in Permissions :
            (evaluate_access(u, name[i], i, r))' = evaluate_access(u, name[i], i, r)]_vars

=============================================================================
