------------------------------- MODULE Packages -------------------------------
(***************************************************************************)
(* Scenario packages on disk: the bundled examples, which are read only,   *)
(* and the user's directory, which the server writes                       *)
(* (gatekeeper/scenarios.py, core/package.py, the package endpoints of     *)
(* gatekeeper/api.py).                                                     *)
(*                                                                         *)
(* A directory tells of each file which version it is of, if it is there.  *)
(* A save stages a whole version beside the old one, has the loader accept *)
(* it, removes the old directory file by file and renames the staged one,  *)
(* without giving up the event loop: only the death of the process comes   *)
(* between, or the eyes of another one.  An upload of a folder removes     *)
(* what is in its place, writes file by file, and waits for the next file  *)
(* (one past 1 MB is read in a thread) while others run.                   *)
(***************************************************************************)
EXTENDS Naturals

CONSTANTS
    Name,       \* scenario names
    Version,    \* the packages an editor or an upload may hold
    None,
    File,       \* the files of packages
    Manifest,   \* the one that is project.json
    Holds,      \* version -> its files
    Shipped,    \* name -> its bundled example, or None
    Sound       \* the directories the loader accepts

Directory == [File -> Version \cup {None}]
Nothing == [f \in File |-> None]
Whole(v) == [f \in File |-> IF f \in Holds[v] THEN v ELSE None]

ASSUME PackagesAssumption ==
    /\ None \notin Version /\ Manifest \in File
    /\ Holds \in [Version -> SUBSET File]
    /\ Shipped \in [Name -> Version \cup {None}]
    /\ Sound \subseteq Directory
    /\ \A d \in Sound : d[Manifest] # None

VARIABLES
    user,       \* name -> the user's directory
    saving,     \* the write under way, which holds the event loop, or None
    upload,     \* the folder upload under way, or None
    torn,       \* history: names with a removal or an upload that has not come to its end
    crossed     \* history: names written by a save and an upload at a time

packageVars == <<user, saving, upload, torn, crossed>>

\* a path names the user's directory or the examples
Path == {"user", "examples"} \X Name
At(path) ==
    IF path[1] = "user" THEN user[path[2]]
    ELSE IF Shipped[path[2]] = None THEN Nothing ELSE Whole(Shipped[path[2]])

Loads(directory) == directory \in Sound

PackagesInit ==
    /\ user = [n \in Name |-> Nothing]
    /\ saving = None /\ upload = None /\ torn = {} /\ crossed = {}

Uploading(n) == upload # None /\ upload.name = n

\* what a write under way puts in the place of what it removes: a staged version, the
\* files of an upload, or nothing
Write(n, v, by) == [name |-> n, version |-> v, by |-> by]

\* write_scenario and import_zip refuse what does not load, and nothing has changed
\* by then; version None stands for delete_scenario
StartSave(n, v) ==
    /\ saving = None
    /\ v = None => user[n][Manifest] # None
    /\ v # None => Loads(Whole(v))
    /\ saving' = Write(n, v, "save")
    /\ crossed' = IF Uploading(n) THEN crossed \cup {n} ELSE crossed
    /\ UNCHANGED <<user, upload, torn>>

\* what is there goes before anything of the upload has been looked at
StartUpload(n, v) ==
    /\ saving = None /\ upload = None
    /\ saving' = Write(n, v, "upload")
    /\ UNCHANGED <<user, upload, torn, crossed>>

\* bug: the staged files are copied over the old ones, one by one
OverwriteFile ==
    /\ saving # None
    /\ \E f \in File :
          /\ user[saving.name][f] \notin {None, saving.version}
          /\ user' = [user EXCEPT ![saving.name][f] =
                         IF saving.version = None THEN None ELSE Whole(saving.version)[f]]
    /\ torn' = torn \cup {saving.name}
    /\ UNCHANGED <<saving, upload, crossed>>

\* rmtree of the old directory: one file after the other, in no order the code fixes
RemoveFile ==
    /\ saving # None
    /\ \E f \in File :
          /\ user[saving.name][f] # None
          /\ user' = [user EXCEPT ![saving.name][f] = None]
    /\ torn' = torn \cup {saving.name}
    /\ UNCHANGED <<saving, upload, crossed>>

\* the staged directory is renamed into the place of the old one; a deletion is over
PutInPlace ==
    /\ saving # None /\ saving.by = "save" /\ user[saving.name] = Nothing
    /\ user' = IF saving.version = None THEN user
               ELSE [user EXCEPT ![saving.name] = Whole(saving.version)]
    /\ torn' = torn \ {saving.name}
    /\ crossed' = IF Uploading(saving.name) THEN crossed ELSE crossed \ {saving.name}
    /\ saving' = None /\ UNCHANGED upload

\* the place is empty, and the files of the upload begin to arrive
OpenUpload ==
    /\ saving # None /\ saving.by = "upload" /\ user[saving.name] = Nothing
    /\ upload' = [name |-> saving.name, version |-> saving.version, left |-> Holds[saving.version]]
    /\ torn' = torn \cup {saving.name} /\ crossed' = crossed \ {saving.name}
    /\ saving' = None /\ UNCHANGED user

UploadFile(f) ==
    /\ saving = None /\ upload # None /\ f \in upload.left
    /\ user' = [user EXCEPT ![upload.name][f] = upload.version]
    /\ upload' = [upload EXCEPT !.left = @ \ {f}]
    /\ UNCHANGED <<saving, torn, crossed>>

\* all files are there and the package is loaded; what does not load is removed
EndUpload ==
    /\ saving = None /\ upload # None /\ upload.left = {}
    /\ upload' = None
    /\ IF Loads(user[upload.name])
       THEN torn' = torn \ {upload.name} /\ UNCHANGED saving
       ELSE saving' = Write(upload.name, None, "save") /\ UNCHANGED torn
    /\ UNCHANGED <<user, crossed>>

\* a change somebody asks the server for, and the steps it takes
AskPackages ==
    \E n \in Name : \/ \E v \in Version \cup {None} : StartSave(n, v)
                    \/ \E v \in Version : StartUpload(n, v)
WritePackages == RemoveFile \/ PutInPlace \/ OpenUpload \/ EndUpload \/ \E f \in File : UploadFile(f)

\* the process dies: what was under way stays as it is
DropWrites == saving' = None /\ upload' = None /\ UNCHANGED <<user, torn, crossed>>

\* What loads is of one version, never a mixture of two, whenever the process died; and
\* it is all of that version, unless a removal or an upload is under way or was cut off
\* there (the loader takes a project.json with part of its agents).  Only a write that
\* lands amid an upload of the same name may mix ("Writes to a temp dir then swaps, so a
\* bad edit never corrupts the existing package", scenarios.py:89).
LoadsOneVersion ==
    \A n \in Name \ crossed : Loads(user[n]) =>
        \E v \in Version :
            /\ \A f \in File : user[n][f] \in {Whole(v)[f], None}
            /\ n \notin torn => user[n] = Whole(v)
===============================================================================
