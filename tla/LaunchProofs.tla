----------------------------- MODULE LaunchProofs -----------------------------
(***************************************************************************)
(* Proofs about Launch for every set of packages, providers, realms and    *)
(* bounds: what loads is of one version, no run is on a substitute nobody  *)
(* agreed to, powers beyond the realm ran by consent, parameters are       *)
(* bound, and a replay runs the models of the run it repeats.              *)
(***************************************************************************)
EXTENDS Launch, SequenceTheorems, TLAPS

-----------------------------------------------------------------------------
(* Packages.  Under a name that is not crossed there are files of one      *)
(* version, all of them unless the name is torn; of an upload under way    *)
(* there are exactly the files that arrived.                               *)

\* files of one version, all of them if whole
Of(directory, whole) ==
    \E v \in Version :
        /\ \A f \in File : directory[f] \in {Whole(v)[f], None}
        /\ whole => directory = Whole(v)

InOrder(n) == user[n] = Nothing \/ Of(user[n], n \notin torn)

Arrived(u) == [f \in File |-> IF f \in u.left THEN None ELSE Whole(u.version)[f]]

PackagesInv ==
    /\ user \in [Name -> Directory]
    /\ saving # None => /\ saving.name \in Name /\ saving.version \in Version \cup {None}
                        /\ saving.by = "upload" => saving.version \in Version /\ upload = None
    /\ upload # None => /\ upload \in [name : Name, version : Version, left : SUBSET File]
                        /\ upload.left \subseteq Holds[upload.version]
                        /\ upload.name \notin crossed =>
                              /\ upload.name \in torn
                              /\ user[upload.name] = Arrived(upload)
                              /\ saving # None => saving.name # upload.name
    /\ \A n \in Name \ crossed : InOrder(n)

LEMMA WholeIsDirectory == \A v \in Version : Whole(v) \in Directory
  BY DEF Whole, Directory

LEMMA NothingIsDirectory == Nothing \in Directory
  BY DEF Nothing, Directory

LEMMA StartSaveInv ==
    ASSUME PackagesInv, NEW n \in Name, NEW v \in Version \cup {None}, StartSave(n, v)
    PROVE  PackagesInv'
<1>1. /\ saving' = [name |-> n, version |-> v, by |-> "save"]
      /\ UNCHANGED <<user, upload, torn>>
  BY DEF StartSave, Write
<1>2. crossed' = IF Uploading(n) THEN crossed \cup {n} ELSE crossed
  BY DEF StartSave
<1>3. saving'.name = n /\ saving'.version = v /\ saving'.by = "save"
  BY <1>1 DEF StartSave
<1>4. ASSUME upload' # None, upload'.name \notin crossed'
      PROVE  /\ upload'.name \in torn' /\ user'[upload'.name] = Arrived(upload)
             /\ saving' # None => saving'.name # upload'.name
  BY <1>1, <1>2, <1>3, <1>4 DEF PackagesInv, Uploading
<1>5. \A m \in Name \ crossed' : InOrder(m)'
  BY <1>1, <1>2 DEF PackagesInv, InOrder
<1>6. QED
  BY <1>1, <1>2, <1>3, <1>4, <1>5 DEF PackagesInv, Arrived

LEMMA StartUploadInv ==
    ASSUME PackagesInv, NEW n \in Name, NEW v \in Version, StartUpload(n, v)
    PROVE  PackagesInv'
<1>1. /\ saving' = [name |-> n, version |-> v, by |-> "upload"] /\ upload = None
      /\ UNCHANGED <<user, upload, torn, crossed>>
  BY DEF StartUpload, Write
<1>2. saving'.name = n /\ saving'.version = v
  BY <1>1
<1>3. \A m \in Name \ crossed' : InOrder(m)'
  BY <1>1 DEF PackagesInv, InOrder
<1>4. QED
  BY <1>1, <1>2, <1>3 DEF PackagesInv

\* the directories with one file of one of them set
FileSet(d, n, f, x) == [d EXCEPT ![n][f] = x]

LEMMA FileUpdate ==
    ASSUME NEW d \in [Name -> Directory], NEW n \in Name, NEW f \in File,
           NEW x \in Version \cup {None}
    PROVE  /\ FileSet(d, n, f, x) \in [Name -> Directory]
           /\ \A m \in Name \ {n} : FileSet(d, n, f, x)[m] = d[m]
           /\ \A g \in File : FileSet(d, n, f, x)[n][g] = IF g = f THEN x ELSE d[n][g]
<1>1. d[n] \in Directory
  OBVIOUS
<1>2. [d[n] EXCEPT ![f] = x] \in Directory
  BY <1>1 DEF Directory
<1>3. \A g \in File : [d[n] EXCEPT ![f] = x][g] = IF g = f THEN x ELSE d[n][g]
  BY <1>1 DEF Directory
<1>4. FileSet(d, n, f, x) = [d EXCEPT ![n] = [d[n] EXCEPT ![f] = x]]
  BY DEF FileSet
<1>5. QED
  BY <1>2, <1>3, <1>4

LEMMA RemoveFileInv == PackagesInv /\ RemoveFile => PackagesInv'
<1> SUFFICES ASSUME PackagesInv, RemoveFile PROVE PackagesInv'
  OBVIOUS
<1> DEFINE n == saving.name
<1>1. PICK f \in File : user' = FileSet(user, n, f, None)
  BY DEF RemoveFile, FileSet
<1>2. /\ saving # None /\ n \in Name /\ user \in [Name -> Directory] /\ torn' = torn \cup {n}
      /\ UNCHANGED <<saving, upload, crossed>>
  BY DEF PackagesInv, RemoveFile
<1> HIDE DEF n
<1>3. /\ user' \in [Name -> Directory] /\ \A m \in Name \ {n} : user'[m] = user[m]
      /\ \A g \in File : user'[n][g] = IF g = f THEN None ELSE user[n][g]
  <2>1. None \in Version \cup {None} /\ user \in [Name -> Directory] /\ n \in Name /\ f \in File
    BY <1>2
  <2>2. QED
    BY ONLY <1>1, <2>1, FileUpdate
<1>4. ASSUME NEW m \in Name \ crossed' PROVE InOrder(m)'
  <2>1. InOrder(m)
    BY <1>2 DEF PackagesInv
  <2>2. CASE m # n
    BY <1>2, <1>3, <2>1, <2>2 DEF InOrder, Of
  <2>3. CASE m = n /\ user[n] = Nothing
    <3>1. user'[n] \in Directory /\ \A g \in File : user'[n][g] = None
      BY <1>2, <1>3, <2>3 DEF Nothing
    <3>2. user'[n] = Nothing
      BY <3>1 DEF Directory, Nothing
    <3>3. QED
      BY <2>3, <3>2 DEF InOrder
  <2>4. CASE m = n /\ Of(user[n], n \notin torn)
    <3>1. PICK v \in Version : \A g \in File : user[n][g] \in {Whole(v)[g], None}
      BY <2>4 DEF Of
    <3>2. \A g \in File : user'[n][g] \in {Whole(v)[g], None}
      BY <1>3, <3>1
    <3>3. Of(user'[n], n \notin torn')
      BY <1>2, <3>2 DEF Of
    <3>4. QED
      BY <2>4, <3>3 DEF InOrder
  <2>5. QED
    BY <2>1, <2>2, <2>3, <2>4 DEF InOrder
<1>5. ASSUME upload' # None, upload'.name \notin crossed'
      PROVE  /\ upload'.name \in torn' /\ user'[upload'.name] = Arrived(upload)
             /\ saving'.name # upload'.name
  <2>1. upload.name \in Name /\ upload.name # n
    BY <1>2, <1>5 DEF PackagesInv, n
  <2>2. QED
    BY <1>2, <1>3, <1>5, <2>1 DEF PackagesInv, n
<1>6. QED
  BY <1>2, <1>3, <1>4, <1>5 DEF PackagesInv, n, Arrived

LEMMA PutInPlaceInv == PackagesInv /\ PutInPlace => PackagesInv'
<1> SUFFICES ASSUME PackagesInv, PutInPlace PROVE PackagesInv'
  OBVIOUS
<1> DEFINE n == saving.name
           v == saving.version
<1>1. /\ n \in Name /\ v \in Version \cup {None} /\ user \in [Name -> Directory]
      /\ saving # None /\ saving' = None /\ upload' = upload /\ torn' = torn \ {n}
      /\ crossed' = IF Uploading(n) THEN crossed ELSE crossed \ {n}
      /\ user[n] = Nothing
      /\ user' = IF v = None THEN user ELSE [user EXCEPT ![n] = Whole(v)]
  BY DEF PackagesInv, PutInPlace
<1>2. Uploading(n) => n \in crossed
  BY <1>1 DEF PackagesInv, Uploading
<1> HIDE DEF n, v
<1>3. /\ user' \in [Name -> Directory] /\ \A m \in Name \ {n} : user'[m] = user[m]
      /\ user'[n] = Nothing \/ (v \in Version /\ user'[n] = Whole(v))
  BY <1>1, WholeIsDirectory
<1>4. ASSUME NEW m \in Name \ crossed' PROVE InOrder(m)'
  <2>1. CASE m # n
    <3>1. InOrder(m)
      BY <1>1, <2>1 DEF PackagesInv
    <3>2. QED
      BY <1>1, <1>3, <2>1, <3>1 DEF InOrder, Of
  <2>2. CASE m = n
    BY <1>3, <2>2 DEF InOrder, Of
  <2>3. QED
    BY <2>1, <2>2
<1>5. ASSUME upload' # None
      PROVE  /\ upload' \in [name : Name, version : Version, left : SUBSET File]
             /\ upload'.left \subseteq Holds[upload'.version]
             /\ upload'.name \notin crossed' =>
                   upload'.name \in torn' /\ user'[upload'.name] = Arrived(upload)
  <2>1. /\ upload' = upload /\ upload \in [name : Name, version : Version, left : SUBSET File]
        /\ upload.left \subseteq Holds[upload.version]
    BY <1>1, <1>5 DEF PackagesInv
  <2>2. ASSUME upload.name \notin crossed'
        PROVE  upload.name \in torn' /\ user'[upload.name] = Arrived(upload)
    <3>1. upload # None /\ upload.name # n
      BY <1>1, <1>2, <1>5, <2>1, <2>2 DEF Uploading
    <3>2. upload.name \in torn /\ user[upload.name] = Arrived(upload)
      BY <1>1, <2>2, <3>1 DEF PackagesInv
    <3>3. QED
      BY <1>1, <1>3, <2>1, <3>1, <3>2
  <2>3. QED
    BY <2>1, <2>2
<1>6. QED
  BY <1>1, <1>2, <1>3, <1>4, <1>5 DEF PackagesInv, Arrived

LEMMA OpenUploadInv == PackagesInv /\ OpenUpload => PackagesInv'
<1> SUFFICES ASSUME PackagesInv, OpenUpload PROVE PackagesInv'
  OBVIOUS
<1> DEFINE n == saving.name
           v == saving.version
           u == [name |-> n, version |-> v, left |-> Holds[v]]
<1>1. /\ n \in Name /\ v \in Version /\ user \in [Name -> Directory]
      /\ upload' = u /\ saving' = None /\ user' = user /\ user[n] = Nothing
      /\ torn' = torn \cup {n} /\ crossed' = crossed \ {n} /\ Holds[v] \in SUBSET File
  BY PackagesAssumption DEF PackagesInv, OpenUpload, PackagesAssumption
<1>2. Arrived(u) = Nothing
  BY DEF Arrived, Whole, Nothing
<1>3. /\ u \in [name : Name, version : Version, left : SUBSET File] /\ u.name = n
      /\ u.left \subseteq Holds[u.version] /\ Arrived(u) = Arrived(upload')
  BY <1>1
<1>4. ASSUME NEW m \in Name \ crossed' PROVE InOrder(m)'
  <2>1. CASE m # n
    <3>1. InOrder(m)
      BY <1>1, <2>1 DEF PackagesInv
    <3>2. QED
      BY <1>1, <2>1, <3>1 DEF InOrder
  <2>2. CASE m = n
    BY <1>1, <2>2 DEF InOrder
  <2>3. QED
    BY <2>1, <2>2
<1> HIDE DEF u, n, v
<1>5. user'[upload'.name] = Arrived(upload') /\ upload'.name \in torn'
  BY <1>1, <1>2, <1>3
<1>6. QED
  BY <1>1, <1>3, <1>4, <1>5 DEF PackagesInv, Arrived

LEMMA UploadFileInv ==
    ASSUME PackagesInv, NEW f \in File, UploadFile(f)
    PROVE  PackagesInv'
<1> DEFINE n == upload.name
           v == upload.version
<1>1. /\ n \in Name /\ v \in Version /\ user \in [Name -> Directory]
      /\ upload.left \subseteq Holds[v] /\ upload \in [name : Name, version : Version, left : SUBSET File]
      /\ saving = None /\ UNCHANGED <<saving, torn, crossed>> /\ f \in upload.left
      /\ user' = [user EXCEPT ![n][f] = v]
      /\ upload' = [upload EXCEPT !.left = upload.left \ {f}]
      /\ n \notin crossed => n \in torn /\ user[n] = Arrived(upload)
  BY DEF PackagesInv, UploadFile
<1> HIDE DEF n, v
<1>2. /\ user' \in [Name -> Directory] /\ \A m \in Name \ {n} : user'[m] = user[m]
      /\ \A g \in File : user'[n][g] = IF g = f THEN v ELSE user[n][g]
  <2>1. v \in Version \cup {None} /\ user \in [Name -> Directory] /\ n \in Name /\ f \in File
    BY <1>1
  <2>2. user' = FileSet(user, n, f, v)
    BY <1>1 DEF FileSet
  <2>3. QED
    BY ONLY <2>1, <2>2, FileUpdate
<1>3. /\ upload' \in [name : Name, version : Version, left : SUBSET File]
      /\ upload'.name = n /\ upload'.version = v /\ upload'.left = upload.left \ {f}
  BY <1>1 DEF n, v
<1>4. ASSUME n \notin crossed PROVE user'[n] = Arrived(upload') /\ Of(user'[n], FALSE)
  <2>1. \A g \in File : user[n][g] = IF g \in upload.left THEN None ELSE Whole(v)[g]
    BY <1>1, <1>4 DEF Arrived, v
  <2>2. Whole(v)[f] = v
    BY <1>1 DEF Whole
  <2>3. \A g \in File : user'[n][g] = IF g \in upload'.left THEN None ELSE Whole(v)[g]
    BY <1>2, <1>3, <2>1, <2>2
  <2>4. user'[n] \in Directory
    BY <1>1, <1>2
  <2>5. user'[n] = Arrived(upload')
    BY <1>3, <2>3, <2>4 DEF Arrived, Directory
  <2>6. QED
    BY <1>1, <2>3, <2>5 DEF Of
<1>5. ASSUME NEW m \in Name \ crossed' PROVE InOrder(m)'
  <2>1. InOrder(m)
    BY <1>1 DEF PackagesInv
  <2>2. QED
    BY <1>1, <1>2, <1>4, <2>1 DEF InOrder, Of
<1>6. QED
  BY <1>1, <1>2, <1>3, <1>4, <1>5 DEF PackagesInv, Arrived

LEMMA EndUploadInv == PackagesInv /\ EndUpload => PackagesInv'
<1> SUFFICES ASSUME PackagesInv, EndUpload PROVE PackagesInv'
  OBVIOUS
<1> DEFINE n == upload.name
           v == upload.version
<1>1. /\ n \in Name /\ v \in Version /\ user \in [Name -> Directory] /\ upload' = None
      /\ UNCHANGED <<user, crossed>> /\ upload.left = {}
      /\ n \notin crossed => user[n] = Arrived(upload)
      /\ torn' \in {torn, torn \ {n}}
  BY DEF PackagesInv, EndUpload
<1>2. saving' = None \/ saving' = [name |-> n, version |-> None, by |-> "save"]
  BY DEF EndUpload, Write
<1>3. saving' # None =>
         saving'.name = n /\ saving'.version = None /\ saving'.by = "save"
  BY <1>2
<1>4. n \notin crossed => user[n] = Whole(v)
  BY <1>1 DEF Arrived, Whole
<1> HIDE DEF n, v
<1>5. ASSUME NEW m \in Name \ crossed' PROVE InOrder(m)'
  <2>1. InOrder(m)
    BY <1>1 DEF PackagesInv
  <2>2. CASE m = n
    <3>1. user'[n] = Whole(v) /\ Of(user'[n], TRUE)
      BY <1>1, <1>4, <2>2 DEF Of, Whole
    <3>2. QED
      BY <2>2, <3>1 DEF InOrder, Of
  <2>3. CASE m # n
    BY <1>1, <2>1, <2>3 DEF InOrder, Of
  <2>4. QED
    BY <2>2, <2>3
<1>6. QED
  BY <1>1, <1>3, <1>5 DEF PackagesInv

LEMMA PackagesStep ==
    ASSUME PackagesInv,
           AskPackages \/ WritePackages \/ DropWrites \/ UNCHANGED packageVars
    PROVE  PackagesInv'
<1>1. CASE AskPackages
  BY <1>1, StartSaveInv, StartUploadInv DEF AskPackages
<1>2. CASE WritePackages
  BY <1>2, RemoveFileInv, PutInPlaceInv, OpenUploadInv, UploadFileInv, EndUploadInv
     DEF WritePackages
<1>3. CASE DropWrites
  BY <1>3 DEF DropWrites, PackagesInv, InOrder
<1>4. CASE UNCHANGED packageVars
  BY <1>4 DEF packageVars, PackagesInv, InOrder, Arrived
<1>5. QED
  BY <1>1, <1>2, <1>3, <1>4

\* what every step of Launch does to the packages
LEMMA NextOnPackages ==
    [Next]_vars => AskPackages \/ WritePackages \/ DropWrites \/ UNCHANGED packageVars
<1> SUFFICES ASSUME [Next]_vars
             PROVE  AskPackages \/ WritePackages \/ DropWrites \/ UNCHANGED packageVars
  OBVIOUS
<1>1. CASE Launches
  BY <1>1 DEF Launches, Create, Up, Replay, Latest, Start, packageVars
<1>2. CASE Steps
  BY <1>2 DEF Steps, Begins, Refused, Provisions, Runs, Concludes, packageVars
<1>3. CASE Settings
  BY <1>3 DEF Settings, SetProvider, SetModelConfig, Sync, Look, Change, packageVars
<1>4. CASE AskForPackages \/ WritesPackages
  BY <1>4 DEF AskForPackages, WritesPackages
<1>5. CASE Life
  BY <1>5 DEF Life, StartClosing, Close, Crash, Boot, Reap, Killed, packageVars
<1>6. CASE UNCHANGED vars
  BY <1>6 DEF vars
<1>7. QED
  BY <1>1, <1>2, <1>3, <1>4, <1>5, <1>6 DEF Next

LEMMA PackagesAlways == Spec => []PackagesInv
<1>1. Init => PackagesInv
  BY NothingIsDirectory DEF Init, PackagesInit, PackagesInv, InOrder
<1>2. PackagesInv /\ [Next]_vars => PackagesInv'
  BY NextOnPackages, PackagesStep
<1>3. QED
  BY <1>1, <1>2, PTL DEF Spec

\* What loads is of one version, and all of it unless a removal or an upload is under
\* way or was cut off there, for every set of files, versions and whatever the loader
\* accepts, wherever the process dies; but for a name that was written amid an upload
\* of it (scenarios.py:173-176, api.py:579-602).
THEOREM OneVersionLoaded == Spec => []LoadsOneVersion
<1>1. PackagesInv => LoadsOneVersion
  <2> SUFFICES ASSUME PackagesInv, NEW n \in Name \ crossed, user[n] \in Sound
               PROVE  Of(user[n], n \notin torn)
    BY DEF LoadsOneVersion, Loads, Of
  <2>1. user[n][Manifest] # None /\ Manifest \in File
    BY PackagesAssumption DEF PackagesAssumption
  <2>2. user[n] # Nothing
    BY <2>1 DEF Nothing
  <2>3. QED
    BY <2>2 DEF PackagesInv, InOrder
<1>2. QED
  BY <1>1, PackagesAlways, PTL

-----------------------------------------------------------------------------
(* Runs.  What holds of a run from the task it starts as to its record.    *)

IsProject(p) ==
    /\ p = [turns |-> p.turns, wakes |-> p.wakes, effects |-> p.effects, prose |-> p.prose,
            decl |-> p.decl, cap |-> p.cap, model |-> p.model, risky |-> p.risky,
            perRound |-> p.perRound, source |-> p.source]
    /\ p.model = [a \in DOMAIN p.model |-> p.model[a]]

\* powers beyond the realm, by consent
Consented(x) ==
    x.project.risky \/ (x.by = "api" /\ x.project.effects) => "elevated" \in x.yes

\* a run of a package has a fitting value for each parameter, and no hole in its prose
Binds(kind, p, values, takes, yes) ==
    kind \in {"create", "up"} =>
        /\ p.prose = <<>> /\ DOMAIN values = DOMAIN takes
        /\ \A n \in DOMAIN takes : Fits(values[n], takes[n], yes)

\* a replay has the models and the prose of the first run of the realm it repeats
Repeats(x) ==
    x.kind = "replay" =>
        /\ x.of \in Realm /\ log[x.of] # <<>>
        /\ x.project.model = log[x.of][1].project.model
        /\ x.project.prose = log[x.of][1].project.prose

AgreedTo(x) == x.asked \notin {None, x.provider} => "provider" \in x.yes

OfRun(x) == /\ IsProject(x.project) /\ Consented(x) /\ Repeats(x)
            /\ Binds(x.kind, x.project, x.values, x.takes, x.yes)

\* past its start a run has a provider that was agreed to, and a model for each agent
Modelled(p) == \A a \in DOMAIN p.model : p.model[a] # None
Begun(x)    == AgreedTo(x) /\ Modelled(x.project)

IsTask(t) ==
    t = [by |-> t.by, kind |-> t.kind, project |-> t.project, values |-> t.values,
         takes |-> t.takes, yes |-> t.yes, of |-> t.of, sees |-> t.sees,
         at |-> t.at, provider |-> t.provider, asked |-> t.asked]

TaskOK(t) == IsTask(t) /\ OfRun(t) /\ (t.at # "queued" => Begun(t))

Recorded == UNION {{log[r][i] : i \in 1..Len(log[r])} : r \in Realm}

TablesTyped == saved \in [Provider -> Profile \cup {None}] /\ stored \in Provider \cup {None}

RunsInv ==
    /\ TablesTyped
    /\ log \in [Realm -> Seq(Recorded)]
    /\ \A e \in Recorded : OfRun(e) /\ Begun(e)
    /\ task = [r \in Realm |-> task[r]]
    /\ \A r \in Realm : task[r] # None => TaskOK(task[r])

\* Projects: what the operations on one change and keep

LEMMA ReadProject == ASSUME NEW path, NEW package PROVE IsProject(Read(path, package))
<1> DEFINE p == Read(path, package)
<1>1. p.model = [a \in DOMAIN p.model |-> p.model[a]]
  BY DEF Read
<1>2. QED
  BY <1>1 DEF IsProject, Read

LEMMA BoundKeeps ==
    ASSUME NEW p, IsProject(p)
    PROVE  /\ IsProject(Bound(p))
           /\ Bound(p).risky = p.risky /\ Bound(p).effects = p.effects
           /\ Bound(p).prose = <<>>
<1> DEFINE x == <<>>
           q == Bound(p)
<1>1. q = [p EXCEPT !.prose = x, !.decl = x, !.source = None]
  BY DEF Bound
<1> HIDE DEF x, q
<1>2. q = [turns |-> p.turns, wakes |-> p.wakes, effects |-> p.effects, prose |-> x,
           decl |-> x, cap |-> p.cap, model |-> p.model, risky |-> p.risky,
           perRound |-> p.perRound, source |-> None]
  BY <1>1 DEF IsProject
<1>3. QED
  BY <1>2 DEF IsProject, q, x

LEMMA AppliedKeeps ==
    ASSUME NEW p, NEW supplied, IsProject(p)
    PROVE  /\ IsProject(Applied(p, supplied))
           /\ Applied(p, supplied).risky = p.risky /\ Applied(p, supplied).prose = <<>>
  BY BoundKeeps DEF Applied

LEMMA TurnedKeeps ==
    ASSUME NEW p, NEW override, IsProject(p)
    PROVE  /\ IsProject(Turned(p, override))
           /\ Turned(p, override).risky = p.risky /\ Turned(p, override).effects = p.effects
           /\ Turned(p, override).prose = p.prose
  BY DEF IsProject, Turned

LEMMA RestoredKeeps ==
    ASSUME NEW p, IsProject(p)
    PROVE  /\ IsProject(Restored(p)) /\ Restored(p).model = p.model
           /\ Restored(p).risky = p.risky /\ Restored(p).effects = p.effects
           /\ Restored(p).prose = p.prose
  BY DEF IsProject, Restored

\* resolving a project only names a model where an agent has none
LEMMA AsRunKeeps ==
    ASSUME NEW p, NEW profile, IsProject(p)
    PROVE  /\ IsProject(AsRun(p, profile)) /\ AsRun(p, profile).prose = p.prose
           /\ AsRun(p, profile).risky = p.risky /\ AsRun(p, profile).effects = p.effects
           /\ AsRun(p, profile).model =
                 [a \in DOMAIN p.model |-> IF p.model[a] = None THEN profile.model ELSE p.model[a]]
<1> DEFINE a == Resolved(p, profile)
           b == Paced(a, profile)
           c == Lifted(b, profile)
           m == [x \in DOMAIN p.model |-> IF p.model[x] = None THEN profile.model ELSE p.model[x]]
           Keeps(q, r) == /\ IsProject(r) /\ r.risky = q.risky /\ r.effects = q.effects
                          /\ r.prose = q.prose
<1>1. Keeps(p, a) /\ a.model = m
  <2>1. m = [x \in DOMAIN m |-> m[x]]
    OBVIOUS
  <2> HIDE DEF m
  <2>2. a = [turns |-> p.turns, wakes |-> p.wakes, effects |-> p.effects, prose |-> p.prose,
             decl |-> p.decl, cap |-> p.cap, model |-> m, risky |-> p.risky,
             perRound |-> p.perRound, source |-> p.source]
    <3>1. a = [p EXCEPT !.model = m]
      BY DEF Resolved, m
    <3>2. QED
      BY ONLY <3>1, IsProject(p) DEF IsProject
  <2> HIDE DEF a
  <2>3. QED
    BY ONLY <2>1, <2>2 DEF IsProject
<1> HIDE DEF a, m
<1>2. Keeps(a, b) /\ b.model = a.model
  <2>1. CASE b = a
    BY <1>1, <2>1
  <2>2. CASE b = [a EXCEPT !.turns = profile.turn]
    BY <1>1, <2>2 DEF IsProject
  <2>3. QED
    BY <2>1, <2>2 DEF Paced
<1> HIDE DEF b
<1>3. Keeps(b, c) /\ c.model = b.model
  <2>1. ASSUME NEW caps, NEW d, d = [b EXCEPT !.cap = caps]
        PROVE  Keeps(b, d) /\ d.model = b.model
    BY <1>2, <2>1 DEF IsProject
  <2>2. QED
    BY <2>1 DEF Lifted
<1>4. AsRun(p, profile) = c
  BY DEF AsRun, a, b
<1> HIDE DEF c
<1>5. QED
  BY <1>1, <1>2, <1>3, <1>4 DEF m

\* the values a launch goes on with fit the parameters
LEMMA ResolveFits ==
    ASSUME NEW p, NEW supplied, NEW yes, Bindable(p.prose, p.decl, supplied, "holes" \in yes)
    PROVE  LET values == Resolve(p.prose, p.decl, supplied)
               takes  == Takes(p)
           IN  /\ DOMAIN values = DOMAIN takes
               /\ \A n \in DOMAIN takes : Fits(values[n], takes[n], yes)
<1> DEFINE values == Resolve(p.prose, p.decl, supplied)
           names  == Names(p.prose)
           Def(n) == DefaultOf(p.prose, p.decl, n)
           Dec(n) == Declared(p.decl, n)
<1>1. DOMAIN values = names /\ DOMAIN Takes(p) = names
  BY DEF Resolve, Takes
<1>2. \A n \in names : Takes(p)[n].default = Def(n) /\ Takes(p)[n].spec = Dec(n)
  BY DEF Takes
<1>3. ASSUME NEW n \in names
      PROVE  IF values[n] = Empty
             THEN Def(n) = Empty \/ (Def(n) = Unset /\ "holes" \in yes)
             ELSE /\ values[n] = Def(n) \/ ~Problem(values[n], Dec(n))
                  /\ Dec(n).choices # Unset => values[n] \in Dec(n).choices
  <2> HIDE DEF Def, Dec
  <2>1. CASE n \in DOMAIN supplied /\ supplied[n] # Empty
    <3>1. values[n] = supplied[n]
      BY <2>1 DEF Resolve
    <3>2. ~Problem(supplied[n], Dec(n))
      BY <2>1 DEF Bindable, Problems, Dec
    <3>3. Dec(n).choices # Unset => supplied[n] \in Dec(n).choices
      BY <2>1, <3>2 DEF Problem
    <3>4. QED
      BY <2>1, <3>1, <3>2, <3>3
  <2>2. CASE ~(n \in DOMAIN supplied /\ supplied[n] # Empty) /\ Def(n) # Unset
    <3>1. values[n] = Def(n)
      BY <2>2 DEF Resolve, Def
    <3>2. Dec(n).choices # Unset => Def(n) \in Dec(n).choices
      BY <2>2 DEF Bindable, ScanFails, Def, Dec
    <3>3. QED
      BY <3>1, <3>2
  <2>3. CASE ~(n \in DOMAIN supplied /\ supplied[n] # Empty) /\ Def(n) = Unset
    <3>1. values[n] = Empty
      BY <2>3 DEF Resolve, Def
    <3>2. n \in Missing(p.prose, p.decl, supplied)
      BY <2>3 DEF Missing, Def
    <3>3. "holes" \in yes
      BY <3>2 DEF Bindable
    <3>4. QED
      BY <2>3, <3>1, <3>3
  <2>4. QED
    BY <2>1, <2>2, <2>3
<1> HIDE DEF values, names, Def, Dec
<1>4. \A n \in DOMAIN Takes(p) : Fits(values[n], Takes(p)[n], yes)
  BY <1>1, <1>2, <1>3 DEF Fits
<1>5. QED
  BY <1>1, <1>4 DEF values

\* the provider a process resolves is one it has a profile of
LEMMA ChosenHasProfile ==
    ASSUME TablesTyped, NEW profiles
    PROVE  /\ Table(Chosen(profiles), profiles) \in Profile
           /\ ~FellBack(profiles) /\ stored # None => Chosen(profiles) = stored
<1>1. Default \in Provider \ PlugIn /\ Seed \in [Provider -> Profile]
  BY LaunchAssumption DEF LaunchAssumption
<1>2. ASSUME NEW q \in Provider PROVE Table(q, profiles) \in Profile \cup {None}
  BY <1>1 DEF Table, TablesTyped
<1>3. Table(Default, profiles) \in Profile
  BY <1>1 DEF Table, TablesTyped
<1>4. CASE stored = None \/ FellBack(profiles)
  BY <1>3, <1>4 DEF Chosen
<1>5. CASE ~(stored = None \/ FellBack(profiles))
  <2>1. Chosen(profiles) = stored /\ stored \in Provider /\ Table(stored, profiles) # None
    BY <1>5 DEF Chosen, FellBack, TablesTyped
  <2>2. QED
    BY <1>2, <2>1
<1>6. QED
  BY <1>4, <1>5

\* Steps.  One that appends nothing keeps the invariant if its tasks are in order.

LEMMA NothingRecorded ==
    ASSUME RunsInv, log' = log, TablesTyped', task' = [r \in Realm |-> task'[r]],
           \A r \in Realm : task'[r] # None => TaskOK(task'[r])
    PROVE  RunsInv'
<1>1. Recorded' = Recorded
  BY DEF Recorded
<1>2. ASSUME NEW x PROVE (Repeats(x) <=> Repeats(x)')
  BY DEF Repeats
<1>3. \A e \in Recorded' : (OfRun(e) /\ Begun(e))'
  BY <1>1, <1>2 DEF RunsInv, OfRun, Begun
<1>4. \A r \in Realm : task'[r] # None => TaskOK(task[r])'
  BY <1>2 DEF TaskOK, OfRun
<1>5. log' \in [Realm -> Seq(Recorded')]
  BY <1>1 DEF RunsInv
<1>6. QED
  BY <1>3, <1>4, <1>5 DEF RunsInv

LEMMA TasksDropped ==
    ASSUME RunsInv, log' = log, TablesTyped', task' = [r \in Realm |-> task'[r]],
           \A r \in Realm : task'[r] \in {task[r], None}
    PROVE  RunsInv'
<1>1. \A r \in Realm : task'[r] # None => TaskOK(task'[r])
  BY DEF RunsInv
<1>2. QED
  BY ONLY <1>1, NothingRecorded, RunsInv, log' = log, TablesTyped',
          task' = [r \in Realm |-> task'[r]]

LEMMA TaskStarted ==
    ASSUME RunsInv, NEW r \in Realm, NEW t, TaskOK(t), Start(r, t)
    PROVE  RunsInv'
<1>1. task' = [task EXCEPT ![r] = t] /\ log' = log /\ saved' = saved /\ stored' = stored
  BY DEF Start, records, platform
<1>2. \A q \in Realm : task'[q] # None => TaskOK(task'[q])
  BY <1>1 DEF RunsInv
<1>3. task' = [q \in Realm |-> task'[q]]
  BY <1>1 DEF RunsInv
<1>4. TablesTyped'
  BY <1>1 DEF RunsInv, TablesTyped
<1>5. QED
  BY ONLY <1>1, <1>2, <1>3, <1>4, RunsInv, NothingRecorded

\* a new task is in order if its project, consents and values are
LEMMA NewTaskOK ==
    ASSUME NEW by, NEW kind, NEW p, NEW values, NEW takes, NEW yes, NEW of, NEW sees,
           IsProject(p),
           p.risky \/ (by = "api" /\ p.effects) => "elevated" \in yes,
           Binds(kind, p, values, takes, yes),
           kind = "replay" => /\ of \in Realm /\ log[of] # <<>>
                              /\ p.model = log[of][1].project.model
                              /\ p.prose = log[of][1].project.prose
    PROVE  TaskOK(Task(by, kind, p, values, takes, yes, of, sees))
<1> DEFINE t == Task(by, kind, p, values, takes, yes, of, sees)
<1>1. /\ IsTask(t) /\ t.project = p /\ t.by = by /\ t.kind = kind /\ t.values = values
      /\ t.takes = takes /\ t.yes = yes /\ t.of = of /\ t.at = "queued"
  BY DEF Task, IsTask
<1> HIDE DEF t
<1>2. Consented(t) /\ Repeats(t)
  BY <1>1 DEF Consented, Repeats
<1>3. QED
  BY <1>1, <1>2 DEF TaskOK, OfRun, t

LEMMA CreateInv ==
    ASSUME RunsInv, NEW r \in Realm, NEW path, NEW supplied, NEW override, NEW yes,
           Create(r, path, supplied, override, yes)
    PROVE  RunsInv'
<1> DEFINE p == Read(path, At(path))
           q == Turned(Bound(p), override)
<1>1. IsProject(p)
  BY ReadProject
<1>2. IsProject(q) /\ q.risky = p.risky /\ q.effects = p.effects /\ q.prose = <<>>
  BY <1>1, BoundKeeps, TurnedKeeps
<1> DEFINE values == Resolve(p.prose, p.decl, supplied)
<1> HIDE DEF p, q, values
<1>3. /\ Bindable(p.prose, p.decl, supplied, "holes" \in yes) /\ Cleared(p, yes)
      /\ Start(r, Task("api", "create", q, values, Takes(p), yes, None, found))
  BY DEF Create, p, q, values
<1>4. p.risky \/ p.effects => "elevated" \in yes
  BY <1>3 DEF Cleared, ToolsWork, NeedsConsent, GrantsWork, Elevated
<1>5. Binds("create", q, values, Takes(p), yes)
  BY <1>2, <1>3, ResolveFits DEF values, Binds
<1>6. TaskOK(Task("api", "create", q, values, Takes(p), yes, None, found))
  BY <1>2, <1>4, <1>5, NewTaskOK
<1>7. QED
  BY <1>3, <1>6, TaskStarted

LEMMA UpInv ==
    ASSUME RunsInv, NEW r \in Realm, NEW path, NEW supplied, NEW yes,
           Up(r, path, supplied, yes)
    PROVE  RunsInv'
<1> DEFINE p == Read(path, At(path))
           q == Applied(p, supplied)
           agreed == Confirmed(yes)
           values == Resolve(p.prose, p.decl, supplied)
<1>1. IsProject(p)
  BY ReadProject
<1>2. IsProject(q) /\ q.risky = p.risky /\ q.prose = <<>>
  BY <1>1, AppliedKeeps
<1>3. \A c \in {"holes", "elevated"} : c \in agreed <=> c \in yes
  BY DEF Confirmed
<1> HIDE DEF p, q, agreed, values
<1>4. /\ Bindable(p.prose, p.decl, supplied, "holes" \in yes) /\ UpCleared(p, yes)
      /\ Start(r, Task("cli", "up", q, values, Takes(p), agreed, None, plugged))
  BY DEF Up, p, q, agreed, values
<1>5. p.risky => "elevated" \in agreed
  BY <1>3, <1>4 DEF UpCleared, GrantsWork, Elevated
<1>6. Bindable(p.prose, p.decl, supplied, "holes" \in agreed)
  <2>1. ("holes" \in agreed) = ("holes" \in yes)
    BY <1>3
  <2>2. QED
    BY <1>4, <2>1
<1>7. Binds("up", q, values, Takes(p), agreed)
  BY <1>2, <1>6, ResolveFits DEF values, Binds
<1>8. TaskOK(Task("cli", "up", q, values, Takes(p), agreed, None, plugged))
  BY <1>2, <1>5, <1>7, NewTaskOK
<1>9. QED
  BY <1>4, <1>8, TaskStarted

\* what the first record of a realm is
LEMMA FirstRecord ==
    ASSUME RunsInv, NEW r \in Realm, log[r] # <<>>
    PROVE  1 \in 1..Len(log[r]) /\ OfRun(log[r][1]) /\ Begun(log[r][1])
<1>1. log[r] \in Seq(Recorded)
  BY DEF RunsInv
<1>2. 1 \in 1..Len(log[r])
  BY <1>1, EmptySeq, LenProperties
<1>3. log[r][1] \in Recorded
  BY <1>2 DEF Recorded
<1>4. QED
  BY <1>2, <1>3 DEF RunsInv

LEMMA ReplayInv ==
    ASSUME RunsInv, NEW r \in Realm, NEW new \in Realm, NEW yes, Replay(r, new, yes)
    PROVE  RunsInv'
<1> DEFINE f == log[r][1].project
           p == Restored(f)
<1>1. log[r] # <<>>
  BY DEF Replay
<1>2. IsProject(f)
  BY <1>1, FirstRecord DEF OfRun
<1>3. /\ IsProject(p) /\ p.model = f.model /\ p.prose = f.prose
  BY <1>2, RestoredKeeps
<1> HIDE DEF p
<1>4. /\ Cleared(p, yes)
      /\ Start(new, Task("api", "replay", p, <<>>, Takes(p), yes, r, found))
  BY DEF Replay, p
<1>5. p.risky \/ p.effects => "elevated" \in yes
  BY <1>4 DEF Cleared, ToolsWork, NeedsConsent, GrantsWork, Elevated
<1>6. Binds("replay", p, <<>>, Takes(p), yes)
  BY DEF Binds
<1>7. TaskOK(Task("api", "replay", p, <<>>, Takes(p), yes, r, found))
  BY <1>1, <1>3, <1>5, <1>6, NewTaskOK
<1>8. QED
  BY <1>4, <1>7, TaskStarted

LEMMA LatestInv ==
    ASSUME RunsInv, NEW r \in Realm, NEW new \in Realm, NEW yes, Latest(r, new, yes)
    PROVE  RunsInv'
<1>1. PICK path : \E p \in {Read(path, At(path))} :
          /\ Cleared(p, yes)
          /\ Start(new, Task("api", "latest", p, <<>>, Takes(p), yes, r, found))
  BY DEF Latest
<1> DEFINE p == Read(path, At(path))
<1>2. IsProject(p)
  BY ReadProject
<1> HIDE DEF p
<1>3. /\ Cleared(p, yes)
      /\ Start(new, Task("api", "latest", p, <<>>, Takes(p), yes, r, found))
  BY <1>1 DEF p
<1>4. p.risky \/ p.effects => "elevated" \in yes
  BY <1>3 DEF Cleared, ToolsWork, NeedsConsent, GrantsWork, Elevated
<1>5. Binds("latest", p, <<>>, Takes(p), yes)
  BY DEF Binds
<1>6. TaskOK(Task("api", "latest", p, <<>>, Takes(p), yes, r, found))
  BY <1>2, <1>4, <1>5, NewTaskOK
<1>7. QED
  BY <1>3, <1>6, TaskStarted

\* a task at its start, resolved
Provisioned(t, name, choice, run) ==
    [t EXCEPT !.at = "provisioning", !.provider = name, !.asked = choice, !.project = run]

LEMMA ProvisionedTask ==
    ASSUME NEW t, NEW name, NEW choice, NEW run, NEW u, IsTask(t),
           u = Provisioned(t, name, choice, run)
    PROVE  /\ IsTask(u) /\ u.project = run /\ u.at = "provisioning" /\ u.provider = name
           /\ u.asked = choice /\ u.by = t.by /\ u.kind = t.kind /\ u.values = t.values
           /\ u.takes = t.takes /\ u.yes = t.yes /\ u.of = t.of
<1>1. u = [by |-> t.by, kind |-> t.kind, project |-> run, values |-> t.values,
           takes |-> t.takes, yes |-> t.yes, of |-> t.of, sees |-> t.sees,
           at |-> "provisioning", provider |-> name, asked |-> choice]
  BY DEF IsTask, Provisioned
<1>2. QED
  BY ONLY <1>1 DEF IsTask

\* the provider is resolved here: what it is, the caller has agreed to
LEMMA BeginsInv == ASSUME RunsInv, NEW r \in Realm, Begins(r) PROVE RunsInv'
<1> DEFINE t       == task[r]
           name    == Chosen(t.sees)
           profile == Table(name, t.sees)
           run     == AsRun(t.project, profile)
           u       == Provisioned(t, name, stored, run)
<1>1. t # None /\ ProviderAgreed(t.sees, t.yes)
  BY DEF Begins, GoesOn
<1>2. TaskOK(t)
  BY <1>1 DEF RunsInv
<1>3. profile \in Profile /\ (~FellBack(t.sees) /\ stored # None => name = stored)
  BY ChosenHasProfile DEF RunsInv
<1>4. profile.model # None
  BY <1>3, LaunchAssumption DEF LaunchAssumption
<1>5. /\ IsProject(run) /\ run.risky = t.project.risky /\ run.effects = t.project.effects
      /\ run.prose = t.project.prose
      /\ run.model = [a \in DOMAIN t.project.model |->
                         IF t.project.model[a] = None THEN profile.model ELSE t.project.model[a]]
  BY <1>2, AsRunKeeps DEF TaskOK, OfRun
<1>6. task' = [task EXCEPT ![r] = u]
  BY DEF Begins, Provisioned
<1>7. log' = log /\ saved' = saved /\ stored' = stored
  BY DEF Begins, platform
<1> HIDE DEF name, profile, run
<1>8. /\ IsTask(u) /\ u.project = run /\ u.at = "provisioning" /\ u.provider = name
      /\ u.asked = stored /\ u.by = t.by /\ u.kind = t.kind /\ u.values = t.values
      /\ u.takes = t.takes /\ u.yes = t.yes /\ u.of = t.of
  BY <1>2, ProvisionedTask DEF TaskOK
<1> HIDE DEF u
<1>9. AgreedTo(u)
  BY <1>1, <1>3, <1>8 DEF AgreedTo, ProviderAgreed
<1>10. Consented(u) /\ Binds(u.kind, u.project, u.values, u.takes, u.yes)
  BY <1>2, <1>5, <1>8 DEF TaskOK, OfRun, Consented, Binds
<1>11. Repeats(u)
  <2> SUFFICES ASSUME u.kind = "replay"
               PROVE  /\ u.of \in Realm /\ log[u.of] # <<>>
                      /\ u.project.model = log[u.of][1].project.model
                      /\ u.project.prose = log[u.of][1].project.prose
    BY DEF Repeats
  <2>1. /\ t.of \in Realm /\ log[t.of] # <<>>
        /\ t.project.model = log[t.of][1].project.model
        /\ t.project.prose = log[t.of][1].project.prose
    BY <1>2, <1>8 DEF TaskOK, OfRun, Repeats
  <2>2. \A a \in DOMAIN t.project.model : t.project.model[a] # None
    BY <2>1, FirstRecord DEF Begun, Modelled
  <2>3. t.project.model = [a \in DOMAIN t.project.model |-> t.project.model[a]]
    BY <1>2 DEF TaskOK, OfRun, IsProject
  <2>4. run.model = t.project.model
    BY <1>5, <2>2, <2>3
  <2>5. QED
    BY <1>5, <1>8, <2>1, <2>4
<1>12. TaskOK(u)
  <2>1. Modelled(u.project)
    BY <1>4, <1>5, <1>8 DEF Modelled
  <2>2. QED
    BY <1>5, <1>8, <1>9, <1>10, <1>11, <2>1 DEF TaskOK, OfRun, Begun
<1>13. task' = [q \in Realm |-> task'[q]]
  BY <1>6 DEF RunsInv
<1>14. \A q \in Realm : task'[q] # None => TaskOK(task'[q])
  BY <1>6, <1>12 DEF RunsInv
<1>15. TablesTyped'
  BY <1>7 DEF RunsInv, TablesTyped
<1>16. QED
  BY ONLY <1>7, <1>13, <1>14, <1>15, RunsInv, NothingRecorded

\* a task that only moves on is the same run
LEMMA MovedOn ==
    ASSUME NEW t, NEW stage, IsTask(t), NEW u, u = [t EXCEPT !.at = stage]
    PROVE  /\ IsTask(u) /\ u.project = t.project /\ u.by = t.by /\ u.kind = t.kind
           /\ u.values = t.values /\ u.takes = t.takes /\ u.yes = t.yes /\ u.of = t.of
           /\ u.provider = t.provider /\ u.asked = t.asked
  BY DEF IsTask

LEMMA ProvisionsInv == ASSUME RunsInv, NEW r \in Realm, Provisions(r) PROVE RunsInv'
<1> DEFINE t == task[r]
           u == [t EXCEPT !.at = "born"]
<1>1. t # None /\ t.at = "provisioning"
  BY DEF Provisions, GoesOn
<1>2. TaskOK(t)
  BY <1>1 DEF RunsInv
<1>3. task' = [task EXCEPT ![r] = u] /\ log' = log /\ saved' = saved /\ stored' = stored
  BY DEF Provisions, platform
<1>4. /\ IsTask(u) /\ u.project = t.project /\ u.by = t.by /\ u.kind = t.kind
      /\ u.values = t.values /\ u.takes = t.takes /\ u.yes = t.yes /\ u.of = t.of
      /\ u.provider = t.provider /\ u.asked = t.asked
  BY <1>2, MovedOn DEF TaskOK
<1> HIDE DEF u
<1>5. TaskOK(u)
  BY <1>1, <1>2, <1>4 DEF TaskOK, OfRun, Begun, AgreedTo, Consented, Repeats
<1>6. \A q \in Realm : task'[q] # None => TaskOK(task'[q])
  BY <1>3, <1>5 DEF RunsInv
<1>7. task' = [q \in Realm |-> task'[q]]
  BY <1>3 DEF RunsInv
<1>8. TablesTyped'
  BY <1>3 DEF RunsInv, TablesTyped
<1>9. QED
  BY ONLY <1>3, <1>6, <1>7, <1>8, RunsInv, NothingRecorded

\* a sequence is over any set that holds its elements
LEMMA SeqOver ==
    ASSUME NEW S, NEW T, NEW s \in Seq(S), \A i \in 1..Len(s) : s[i] \in T
    PROVE  s \in Seq(T)
<1>1. Len(s) \in Nat /\ s \in [1..Len(s) -> S]
  BY LenProperties
<1>2. s \in [1..Len(s) -> T]
  BY <1>1
<1>3. QED
  BY <1>1, <1>2, SeqDef

\* the record of a run is written; the first record of a realm stays the first
LEMMA RunsRealmInv == ASSUME RunsInv, NEW r \in Realm, Runs(r) PROVE RunsInv'
<1> DEFINE t == task[r]
           e == Ran(t)
<1>1. t # None /\ t.at = "born"
  BY DEF Runs, GoesOn
<1>2. TaskOK(t)
  BY <1>1 DEF RunsInv
<1>3. /\ task' = [task EXCEPT ![r].at = "running"] /\ log' = [log EXCEPT ![r] = Append(@, e)]
      /\ saved' = saved /\ stored' = stored
  BY DEF Runs, platform
<1>4. /\ e.project = t.project /\ e.by = t.by /\ e.kind = t.kind /\ e.values = t.values
      /\ e.takes = t.takes /\ e.yes = t.yes /\ e.of = t.of /\ e.provider = t.provider
      /\ e.asked = t.asked
  BY DEF Ran
<1> HIDE DEF e
<1>5. OfRun(e) /\ Begun(e)
  BY <1>1, <1>2, <1>4 DEF TaskOK, OfRun, Begun, AgreedTo, Consented, Repeats
<1>6. ASSUME NEW q \in Realm
      PROVE  /\ log[q] \in Seq(Recorded) /\ log'[q] \in Seq(Recorded \cup {e})
             /\ \A i \in 1..Len(log'[q]) :
                   \/ i \in 1..Len(log[q]) /\ log'[q][i] = log[q][i]
                   \/ q = r /\ log'[q][i] = e
             /\ log[q] # <<>> => log'[q] # <<>> /\ log'[q][1] = log[q][1]
  <2>1. log[q] \in Seq(Recorded)
    BY DEF RunsInv
  <2>2. log[q] \in Seq(Recorded \cup {e}) /\ Len(log[q]) \in Nat
    BY <2>1, SeqMonotonic, LenProperties
  <2>3. CASE q # r
    <3>1. log'[q] = log[q]
      BY <1>3, <2>3 DEF RunsInv
    <3>2. QED
      BY <2>1, <2>2, <2>3, <3>1
  <2>4. CASE q = r
    <3>1. log'[q] = Append(log[q], e)
      BY <1>3, <2>4 DEF RunsInv
    <3>2. /\ log'[q] \in Seq(Recorded \cup {e}) /\ log'[q] # <<>>
          /\ Len(log'[q]) = Len(log[q]) + 1
          /\ \A i \in 1..Len(log[q]) : log'[q][i] = log[q][i]
          /\ log'[q][Len(log[q]) + 1] = e
      BY ONLY <2>2, <3>1, AppendProperties
    <3>3. log[q] # <<>> => 1 \in 1..Len(log[q])
      BY <2>1, EmptySeq, LenProperties
    <3>4. \A i \in 1..Len(log'[q]) : i \in 1..Len(log[q]) \/ i = Len(log[q]) + 1
      BY <2>2, <3>2
    <3>5. QED
      BY <2>1, <2>4, <3>2, <3>3, <3>4
  <2>5. QED
    BY <2>3, <2>4
<1>7. ASSUME NEW x, Repeats(x) PROVE Repeats(x)'
  BY <1>6, <1>7 DEF Repeats
<1>8. ASSUME NEW x \in Recorded' PROVE x \in Recorded \cup {e}
  <2>1. PICK q \in Realm : \E i \in 1..Len(log'[q]) : x = log'[q][i]
    BY DEF Recorded
  <2>2. PICK i \in 1..Len(log'[q]) : x = log'[q][i]
    BY <2>1
  <2>3. CASE i \in 1..Len(log[q]) /\ log'[q][i] = log[q][i]
    BY <2>2, <2>3 DEF Recorded
  <2>4. CASE log'[q][i] = e
    BY <2>2, <2>4
  <2>5. QED
    BY <1>6, <2>2, <2>3, <2>4
<1>9. ASSUME NEW x \in Recorded' PROVE (OfRun(x) /\ Begun(x))'
  <2>1. OfRun(x) /\ Begun(x)
    BY <1>5, <1>8 DEF RunsInv
  <2>2. QED
    BY <1>7, <2>1 DEF OfRun, Begun
<1>10. ASSUME NEW q \in Realm PROVE log'[q] \in Seq(Recorded')
  <2>1. \A i \in 1..Len(log'[q]) : log'[q][i] \in Recorded'
    BY DEF Recorded
  <2>2. QED
    BY ONLY <1>6, <2>1, SeqOver
<1>11. log' \in [Realm -> Seq(Recorded')]
  <2>1. log' = [q \in Realm |-> log'[q]]
    BY <1>3 DEF RunsInv
  <2>2. QED
    BY ONLY <1>10, <2>1
<1>12. task' = [q \in Realm |-> task'[q]]
  BY <1>3 DEF RunsInv
<1>13. ASSUME NEW q \in Realm, task'[q] # None PROVE TaskOK(task[q])'
  <2>1. CASE q # r
    <3>1. task'[q] = task[q]
      BY <1>3, <2>1 DEF RunsInv
    <3>2. TaskOK(task[q])
      BY <1>13, <3>1 DEF RunsInv
    <3>3. QED
      BY <1>7, <3>1, <3>2 DEF TaskOK, OfRun
  <2>2. CASE q = r
    <3> DEFINE u == [t EXCEPT !.at = "running"]
    <3>1. task'[q] = u
      BY <1>3, <2>2 DEF RunsInv
    <3>2. IsTask(t)
      BY <1>2 DEF TaskOK
    <3>3. /\ IsTask(u) /\ u.project = t.project /\ u.by = t.by /\ u.kind = t.kind
          /\ u.values = t.values /\ u.takes = t.takes /\ u.yes = t.yes /\ u.of = t.of
          /\ u.provider = t.provider /\ u.asked = t.asked
      BY <3>2, MovedOn
    <3> HIDE DEF u
    <3>4. OfRun(u) /\ Begun(u)
      BY <1>1, <1>2, <3>3 DEF TaskOK, OfRun, Begun, AgreedTo, Consented, Repeats
    <3>5. QED
      BY <1>7, <3>1, <3>3, <3>4 DEF TaskOK, OfRun, Begun
  <2>3. QED
    BY <2>1, <2>2
<1>14. TablesTyped'
  BY <1>3 DEF RunsInv, TablesTyped
<1>15. QED
  BY ONLY <1>9, <1>11, <1>12, <1>13, <1>14 DEF RunsInv

LEMMA RunsStep == RunsInv /\ [Next]_vars => RunsInv'
<1> SUFFICES ASSUME RunsInv, [Next]_vars PROVE RunsInv'
  OBVIOUS
<1>1. CASE Launches
  BY <1>1, CreateInv, UpInv, ReplayInv, LatestInv DEF Launches
<1>2. CASE \E r \in Realm : Begins(r) \/ Provisions(r) \/ Runs(r)
  BY <1>2, BeginsInv, ProvisionsInv, RunsRealmInv
<1> DEFINE Drops == /\ log' = log /\ task' = [r \in Realm |-> task'[r]]
                    /\ \A r \in Realm : task'[r] \in {task[r], None}
<1>3. ASSUME task' = task, log' = log PROVE Drops
  BY <1>3 DEF RunsInv
<1>4. ASSUME NEW r \in Realm, task' = [task EXCEPT ![r] = None], log' = log PROVE Drops
  BY <1>4 DEF RunsInv
<1>5. UNCHANGED <<stored, saved>> => TablesTyped'
  BY DEF RunsInv, TablesTyped
<1>6. CASE \E r \in Realm : Refused(r) \/ Concludes(r) \/ Killed(r)
  <2>1. PICK r \in Realm : /\ task' = [task EXCEPT ![r] = None] /\ log' = log
                           /\ UNCHANGED <<stored, saved>>
    BY <1>6 DEF Refused, Concludes, Killed, records, platform
  <2>2. QED
    BY <1>4, <1>5, <2>1, TasksDropped
<1>7. CASE Crash
  <2>1. /\ task' = [r \in Realm |-> IF r \in Active THEN None ELSE task[r]]
        /\ log' = log /\ UNCHANGED <<stored, saved>>
    BY <1>7 DEF Crash, records, platform
  <2>2. Drops
    BY <2>1
  <2>3. QED
    BY <1>5, <2>1, <2>2, TasksDropped
<1>8. CASE Settings
  <2>1. task' = task /\ log' = log
    BY <1>8 DEF Settings, SetProvider, SetModelConfig, Sync, Look, Change, records
  <2>2. TablesTyped'
    <3>1. CASE \E q \in Provider : SetProvider(q)
      BY <3>1 DEF SetProvider, RunsInv, TablesTyped
    <3>2. CASE \E q \in Provider, f \in Profile : SetModelConfig(q, f)
      <4>1. PICK q \in Provider, f \in Profile : SetModelConfig(q, f)
        BY <3>2
      <4>2. \A p \in Provider : Table(p, found) \in Profile \cup {None}
        BY LaunchAssumption DEF LaunchAssumption, Table, RunsInv, TablesTyped
      <4>3. QED
        BY <4>1, <4>2 DEF SetModelConfig, RunsInv, TablesTyped
    <3>3. CASE Sync \/ Look
      BY <1>5, <3>3 DEF Sync, Look
    <3>4. QED
      BY <1>8, <3>1, <3>2, <3>3 DEF Settings
  <2>3. QED
    BY <1>3, <2>1, <2>2, TasksDropped
<1>9. CASE AskForPackages \/ WritesPackages
  <2>1. task' = task /\ log' = log /\ UNCHANGED <<stored, saved>>
    BY <1>9 DEF AskForPackages, WritesPackages, records, platform
  <2>2. QED
    BY <1>3, <1>5, <2>1, TasksDropped
<1>10. CASE StartClosing \/ Close \/ Boot \/ Reap
  <2>1. task' = task /\ log' = log /\ UNCHANGED <<stored, saved>>
    BY <1>10 DEF StartClosing, Close, Boot, Reap, records, platform
  <2>2. QED
    BY <1>3, <1>5, <2>1, TasksDropped
<1>11. CASE UNCHANGED vars
  <2>1. task' = task /\ log' = log /\ UNCHANGED <<stored, saved>>
    BY <1>11 DEF vars, records, platform
  <2>2. QED
    BY <1>3, <1>5, <2>1, TasksDropped
<1>12. QED
  BY <1>1, <1>2, <1>6, <1>7, <1>8, <1>9, <1>10, <1>11 DEF Next, Steps, Life

LEMMA RunsAlways == Spec => []RunsInv
<1>1. Init => RunsInv
  <2> SUFFICES ASSUME Init PROVE RunsInv
    OBVIOUS
  <2>1. \A r \in Realm : log[r] = <<>> /\ task[r] = None
    BY DEF Init
  <2>2. Recorded = {}
    BY <2>1 DEF Recorded
  <2>3. QED
    BY <2>1, <2>2 DEF Init, RunsInv, TablesTyped
<1>2. QED
  BY <1>1, RunsStep, PTL DEF Spec

\* every record the properties speak of is one the invariant speaks of
LEMMA LoggedIsRecorded == RunsInv => \A k \in Logged : Entry(k) \in Recorded
<1> SUFFICES ASSUME RunsInv, NEW k \in Logged PROVE Entry(k) \in Recorded
  OBVIOUS
<1>1. k[1] \in Realm /\ k[2] \in 1..MaxLaunches /\ k[2] <= Len(log[k[1]])
  BY DEF Logged
<1>2. Len(log[k[1]]) \in Nat
  BY <1>1, LenProperties DEF RunsInv
<1>3. k[2] \in 1..Len(log[k[1]])
  BY <1>1, <1>2, LaunchAssumption DEF LaunchAssumption
<1>4. QED
  BY <1>1, <1>3 DEF Recorded, Entry

\* No run is on a provider other than the one the settings named when it began unless
\* its caller agreed, for any number of realms, providers, runs, changes and crashes
\* (api.py:124).
THEOREM SubstitutesAgreed == Spec => []NoSilentSubstitute
<1>1. RunsInv => NoSilentSubstitute
  BY LoggedIsRecorded DEF NoSilentSubstitute, RunsInv, Begun, AgreedTo
<1>2. QED
  BY <1>1, RunsAlways, PTL

\* Powers beyond the realm run by consent whatever way the run came about (api.py:1216).
THEOREM PowersConsented == Spec => []ConsentedOnly
<1>1. RunsInv => ConsentedOnly
  BY LoggedIsRecorded DEF ConsentedOnly, RunsInv, OfRun, Consented
<1>2. QED
  BY <1>1, RunsAlways, PTL

\* A replay runs the models of the run it repeats, whatever became of the provider
\* and its tables in between (api.py:1480).
THEOREM ReplaysRepeat == Spec => []ReplayKeepsModels
<1>1. RunsInv => ReplayKeepsModels
  BY LoggedIsRecorded DEF ReplayKeepsModels, RunsInv, OfRun, Repeats
<1>2. QED
  BY <1>1, RunsAlways, PTL

\* A run of a package has a fitting value for each parameter the package takes and no
\* placeholder left, and a replay has the prose of the run it repeats, for all texts,
\* declarations and values supplied (api.py:115, params.py:297).
THEOREM ParametersFilled == Spec => []ParametersHold
<1>1. ASSUME RunsInv, NEW k \in Logged
      PROVE  LET e == Entry(k)
             IN  /\ e.kind \in {"create", "up"} =>
                       /\ e.project.prose = <<>> /\ DOMAIN e.values = DOMAIN e.takes
                       /\ \A n \in DOMAIN e.takes : Fits(e.values[n], e.takes[n], e.yes)
                 /\ e.kind = "replay" => e.project.prose = log[e.of][1].project.prose
  <2>1. OfRun(Entry(k))
    BY <1>1, LoggedIsRecorded DEF RunsInv
  <2>2. QED
    BY <2>1 DEF OfRun, Binds, Repeats
<1>2. RunsInv => ParametersHold
  BY <1>1 DEF ParametersHold
<1>3. QED
  BY <1>2, RunsAlways, PTL
===============================================================================
