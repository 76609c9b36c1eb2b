------------------------------- MODULE Avatars -------------------------------
(***************************************************************************)
(* The avatar of one user of the old tree: PATCH /me/avatar writes a file, *)
(* commits its path to the user row and then deletes the file of the path  *)
(* that it had loaded.  Every avatar of a user has the same path.          *)
(***************************************************************************)
EXTENDS FiniteSets

CONSTANTS
    Uploads,   \* PATCH /me/avatar
    NoFile     \* no file at the path

ASSUME NoFileAssumption == NoFile \notin Uploads

VARIABLES
    upload,    \* where each upload is
    before,    \* the image_path that an upload has loaded: "none" or "path"
    path,      \* image_path of the user row
    file       \* the upload whose picture is in the file, or NoFile

avatarVars == <<upload, before, path, file>>

AvatarInit ==
    /\ upload = [u \in Uploads |-> "idle"] /\ before = [u \in Uploads |-> "none"]
    /\ path = "none" /\ file = NoFile

\* The name of the file is the name of the user, and so is its directory's.
AvatarPath == "path"

Turns(u, s) == upload' = [upload EXCEPT ![u] = s]

\* get_current_user, then the await of the upload's bytes.
LoadPath(u) ==
    /\ upload[u] = "idle"
    /\ before' = [before EXCEPT ![u] = path]
    /\ Turns(u, "loaded")
    /\ UNCHANGED <<path, file>>

\* process_upload refuses with a 422, or file_storage.save writes the file.
SaveFile(u) ==
    /\ upload[u] = "loaded"
    /\ \/ Turns(u, "refused") /\ UNCHANGED file
       \/ Turns(u, "saved") /\ file' = u
    /\ UNCHANGED <<before, path>>

CommitPath(u) ==
    /\ upload[u] = "saved"
    /\ path' = AvatarPath
    /\ Turns(u, "committed")
    /\ UNCHANGED <<before, file>>

\* The old path is the new one.
DeleteOld(u) ==
    /\ upload[u] = "committed"
    /\ file' = IF before[u] = AvatarPath THEN NoFile ELSE file
    /\ Turns(u, "done")
    /\ UNCHANGED <<before, path>>

UpdateAvatar(u) == LoadPath(u) \/ SaveFile(u) \/ CommitPath(u) \/ DeleteOld(u)

\* The process may die between the file and the row, and between the row and the file.
UploadDies(u) ==
    /\ upload[u] \in {"loaded", "saved", "committed"}
    /\ Turns(u, "dead")
    /\ UNCHANGED <<before, path, file>>

AvatarNext == \E u \in Uploads : UpdateAvatar(u) \/ UploadDies(u)

AvatarSpec == AvatarInit /\ [][AvatarNext]_avatarVars

-----------------------------------------------------------------------------
(* Correctness.                                                            *)

\* The row names a file that is gone only after an upload that replaced another.
LostByReplacement ==
    path = AvatarPath /\ file = NoFile =>
        \E u \in Uploads : upload[u] = "done" /\ before[u] = AvatarPath

\* An avatar that an upload has answered for stays until another is written: no
\* upload deletes the file of the row.
AvatarStays == (\A u \in Uploads : upload[u] \in {"idle", "done"}) /\ path = AvatarPath => file # NoFile
=============================================================================
