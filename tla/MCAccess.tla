------------------------------ MODULE MCAccess ------------------------------
(***************************************************************************)
(* An instance of Access for TLC: a folder, a folder in it, a file in that.*)
(***************************************************************************)
EXTENDS Access

CONSTANT m1

Top == <<"a">>
Nested == <<"a", "c">>
File == <<"a", "c", "x">>

TreeUploads == {folder_placeholder_path(Top), folder_placeholder_path(Nested), File}
TreeMoves == {<<File, <<"x">>>>}
TreeRenames == {<<Top, <<"b">>>>}

Request(type, path, subject, permission, effect, until) ==
    [type |-> type, path |-> path, subject |-> subject, permission |-> permission,
     effect |-> effect, until |-> until]

\* The company is shut out of the folder for a time, let into the nested folder
\* or kept from writing there, or shut out of the bucket; a member is invited
\* to the file.
TreeRequests ==
    {Request("folder", Top, Company, Read, "deny", 1),
     Request("folder", Nested, Company, Read, "allow", None),
     Request("folder", Nested, Company, Write, "deny", None),
     Request("bucket", <<>>, Company, Read, "deny", None),
     Request("object", File, m1, Write, "allow", None)}

Interchangeable == Permutations(Ids) \cup Permutations(Procs)

=============================================================================
