----------------------------- MODULE StoreProofs -----------------------------
(***************************************************************************)
(* Proofs about Store: however often Longwatch starts, saves and crashes,  *)
(* and whatever step a loss of power interrupts.                           *)
(*                                                                         *)
(* The argument is about every copy of a document that a start may find:   *)
(* the one in place, those that a loss of power may bring back, and the    *)
(* temporary file once it may take their place.                            *)
(***************************************************************************)
EXTENDS Store, TLAPS

FileFields == {"doc", "whole", "synced", "own"}
Places == {"current", "legacy"}
Saving == {"create", "write", "sync", "persist"}

\* The records have their fields.
Shapes ==
  /\ DOMAIN disk = {"dirs", "file", "temporary", "maybe"}
  /\ DOMAIN disk.file = Places
  /\ DOMAIN prog = {"kind", "at", "dir", "settings", "version", "loaded", "starts", "saves"}
  /\ DOMAIN saved = {"lost", "settings"}
  /\ prog.dir \in Places /\ prog.kind \in Kinds

\* What Longwatch wrote is whole, on the disk and of a version it can read.
Sound(f) ==
  /\ DOMAIN f = FileFields
  /\ f.own => f.whole /\ f.synced /\ f.doc.version <= CurrentVersion[prog.kind]

CopiesSound ==
  /\ \A dir \in Places : Sound(disk.file[dir])
  /\ \A f \in disk.maybe : Sound(f)

VersionCurrent ==
  prog.at \in {"running"} \cup Saving => prog.version = CurrentVersion[prog.kind]

TemporaryReady ==
  /\ prog.at = "sync" =>
       /\ DOMAIN disk.temporary = FileFields
       /\ disk.temporary.whole
       /\ disk.temporary.doc.version <= CurrentVersion[prog.kind]
  /\ prog.at = "persist" => Sound(disk.temporary)

StoreInv == Shapes /\ CopiesSound /\ VersionCurrent /\ TemporaryReady

-----------------------------------------------------------------------------
LEMMA NoFileSound == Sound(NoFile) /\ ~NoFile.own
  BY DEF Sound, NoFile, FileFields

LEMMA VersionType ==
  ASSUME prog.kind \in Kinds
  PROVE  CurrentVersion[prog.kind] \in Int
  BY DEF Kinds, CurrentVersion

LEMMA WrittenVersion ==
  ASSUME NEW kind, NEW s, NEW version
  PROVE  Written(kind, s, version).version = version
  BY DEF Written

LEMMA StartInv == StoreInit => StoreInv
<1> SUFFICES ASSUME NEW kind \in Kinds, NEW dirs \in {{}, {"current"}, {"legacy"}},
                    NEW f \in Found(kind), StoreStart(kind, dirs, f)
             PROVE  StoreInv
  BY DEF StoreInit
<1>1. DOMAIN f = FileFields /\ ~f.own
  <2>1. CASE f = NoFile
    BY <2>1, NoFileSound DEF Sound
  <2>2. CASE f = [NoFile EXCEPT !.doc = [version |-> 0]]
    BY <2>2 DEF NoFile, FileFields
  <2>3. CASE f = File([version |-> CurrentVersion[kind] + 1], FALSE)
    BY <2>3 DEF File, FileFields
  <2>4. CASE \E d \in Docs[kind] : f = File(d, FALSE)
    BY <2>4 DEF File, FileFields
  <2> QED
    BY <2>1, <2>2, <2>3, <2>4 DEF Found
<1>2. /\ disk = [dirs |-> dirs, temporary |-> NoFile, maybe |-> {},
                 file |-> [current |-> IF dirs = {"current"} THEN f ELSE NoFile,
                           legacy |-> IF dirs = {"legacy"} THEN f ELSE NoFile]]
      /\ prog = [kind |-> kind, at |-> "off", dir |-> "current", settings |-> Unknown,
                 version |-> 0, loaded |-> FALSE, starts |-> 0, saves |-> 0]
      /\ DOMAIN saved = {"lost", "settings"}
  BY DEF StoreStart
<1>3. \A dir \in Places : disk.file[dir] \in {f, NoFile}
  BY <1>2 DEF Places
<1>4. Shapes /\ VersionCurrent /\ TemporaryReady
  BY <1>2 DEF Shapes, VersionCurrent, TemporaryReady, Places, Saving
<1>5. CopiesSound
  BY <1>1, <1>2, <1>3, NoFileSound DEF CopiesSound, Sound
<1> QED
  BY <1>2, <1>4, <1>5 DEF StoreInv

\* Steps of the program that leave the disk alone.
LEMMA ProgramKeeps ==
  ASSUME StoreInv, disk' = disk, DOMAIN saved' = {"lost", "settings"},
         DOMAIN prog' = DOMAIN prog, prog'.kind = prog.kind, prog'.dir \in Places,
         VersionCurrent', prog'.at \notin {"sync", "persist"}
  PROVE  StoreInv'
  BY DEF StoreInv, Shapes, CopiesSound, Sound, TemporaryReady

LEMMA DiscoverInv == StoreInv /\ Discover => StoreInv'
<1> SUFFICES ASSUME StoreInv, Discover PROVE StoreInv'
  OBVIOUS
<1>1. PICK place \in Places :
        prog' = [prog EXCEPT !.at = "loading", !.dir = place, !.starts = @ + 1]
  BY DEF Discover, Places
<1>2. /\ DOMAIN prog' = DOMAIN prog /\ prog'.at = "loading" /\ prog'.dir = place
      /\ prog'.kind = prog.kind /\ saved' = saved
  BY <1>1 DEF StoreInv, Shapes, Discover
<1>3. VersionCurrent' /\ TemporaryReady'
  BY <1>2 DEF VersionCurrent, TemporaryReady, Saving
<1>4. /\ DOMAIN disk' = DOMAIN disk /\ DOMAIN disk'.file = Places
      /\ disk'.maybe = disk.maybe
      /\ \A dir \in Places : disk'.file[dir] \in {disk.file["current"], disk.file["legacy"], NoFile}
  <2> DEFINE moved == [current |-> disk.file.legacy, legacy |-> NoFile]
  <2>1. CASE disk' = [disk EXCEPT !.dirs = {"current"}, !.file = moved]
    <3>1. disk'.file = moved /\ DOMAIN disk' = DOMAIN disk /\ disk'.maybe = disk.maybe
      <4> HIDE DEF moved
      <4> QED
        BY <2>1 DEF StoreInv, Shapes
    <3>2. DOMAIN moved = Places /\ \A dir \in Places : moved[dir] \in {disk.file["legacy"], NoFile}
      BY DEF Places
    <3> QED
      BY <3>1, <3>2
  <2>2. CASE disk' = disk \/ disk' = [disk EXCEPT !.dirs = @ \cup {"current"}]
    <3>1. disk'.file = disk.file /\ DOMAIN disk' = DOMAIN disk /\ disk'.maybe = disk.maybe
      BY <2>2 DEF StoreInv, Shapes
    <3> QED
      BY <3>1 DEF StoreInv, Shapes, Places
  <2> QED
    BY <2>1, <2>2 DEF Discover
<1>5. CopiesSound'
  BY <1>2, <1>4, NoFileSound DEF StoreInv, CopiesSound, Sound, Places
<1> QED
  BY <1>2, <1>3, <1>4, <1>5 DEF StoreInv, Shapes

\* A step that ends running or writing what it has, after reading the document.
LEMMA LoadInv ==
  ASSUME StoreInv, Load \/ LoadDefault \/ LoadTranscript \/ LoadFails
  PROVE  StoreInv'
<1>1. /\ DOMAIN prog' = DOMAIN prog /\ prog'.kind = prog.kind /\ prog'.dir = prog.dir
      /\ prog'.at \in {"running", "create", "off"}
      /\ prog'.at # "off" => prog'.version = CurrentVersion[prog.kind]
      /\ disk' = disk /\ saved' = saved
  <2>1. CASE Load
    BY <2>1 DEF Load, Running, Bumped, StoreInv, Shapes
  <2>2. CASE LoadDefault
    BY <2>2 DEF LoadDefault, Running, StoreInv, Shapes
  <2>3. CASE LoadTranscript
    <3>1. prog.kind = "state"
      BY <2>3 DEF LoadTranscript, Transcript
    <3> QED
      BY <2>3, <3>1 DEF LoadTranscript, Bumped, StoreInv, Shapes
  <2>4. CASE LoadFails
    BY <2>4 DEF LoadFails, StoreInv, Shapes
  <2> QED
    BY <2>1, <2>2, <2>3, <2>4
<1>2. VersionCurrent'
  BY <1>1 DEF VersionCurrent, Saving
<1> QED
  BY <1>1, <1>2, ProgramKeeps DEF StoreInv, Shapes

LEMMA QuarantineInv == StoreInv /\ Quarantine => StoreInv'
<1> SUFFICES ASSUME StoreInv, Quarantine PROVE StoreInv'
  OBVIOUS
<1>1. /\ DOMAIN prog' = DOMAIN prog /\ prog'.kind = prog.kind /\ prog'.dir = prog.dir
      /\ prog'.at = "running" /\ prog'.version = CurrentVersion[prog.kind]
      /\ DOMAIN saved' = DOMAIN saved
  BY DEF Quarantine, Running, StoreInv, Shapes
<1>2. /\ DOMAIN disk' = DOMAIN disk /\ DOMAIN disk'.file = Places
      /\ disk'.maybe = disk.maybe \cup {Here}
      /\ \A dir \in Places : disk'.file[dir] \in {disk.file[dir], NoFile}
  BY DEF Quarantine, StoreInv, Shapes
<1>3. CopiesSound'
  BY <1>1, <1>2, NoFileSound DEF StoreInv, Shapes, CopiesSound, Sound, Here
<1>4. VersionCurrent' /\ TemporaryReady'
  BY <1>1 DEF VersionCurrent, TemporaryReady
<1> QED
  BY <1>1, <1>2, <1>3, <1>4 DEF StoreInv, Shapes

LEMMA ChangeInv == StoreInv /\ Change => StoreInv'
<1> SUFFICES ASSUME StoreInv, Change PROVE StoreInv'
  OBVIOUS
<1>1. /\ DOMAIN prog' = DOMAIN prog /\ prog'.kind = prog.kind /\ prog'.dir = prog.dir
      /\ prog'.at = "create" /\ prog'.version = prog.version /\ prog.at = "running"
      /\ disk' = disk /\ saved' = saved
  BY DEF Change, StoreInv, Shapes
<1>2. VersionCurrent'
  BY <1>1 DEF VersionCurrent, StoreInv
<1> QED
  BY <1>1, <1>2, ProgramKeeps DEF StoreInv, Shapes

\* The steps of a save only touch the temporary file, until it is renamed.
LEMMA TemporaryKeeps ==
  ASSUME StoreInv, saved' = saved, DOMAIN disk' = DOMAIN disk,
         disk'.file = disk.file, disk'.maybe = disk.maybe,
         DOMAIN prog' = DOMAIN prog, prog'.kind = prog.kind, prog'.dir = prog.dir,
         prog'.version = prog.version, prog.at \in {"running"} \cup Saving, TemporaryReady'
  PROVE  StoreInv'
  BY DEF StoreInv, Shapes, CopiesSound, Sound, VersionCurrent

LEMMA SaveInv ==
  ASSUME StoreInv, CreateTemporary \/ WriteTemporary \/ SyncTemporary \/ SaveFails
  PROVE  StoreInv'
<1>1. /\ DOMAIN prog' = DOMAIN prog /\ prog'.kind = prog.kind /\ prog'.dir = prog.dir
      /\ prog'.version = prog.version /\ prog.at \in Saving /\ saved' = saved
      /\ DOMAIN disk' = DOMAIN disk /\ disk'.file = disk.file /\ disk'.maybe = disk.maybe
  BY ZenonT(40) DEF CreateTemporary, WriteTemporary, SyncTemporary, SaveFails, Saving, StoreInv, Shapes
<1>2. CASE CreateTemporary \/ SaveFails
  <2>1. prog'.at \in {"write", "running"}
    BY <1>2 DEF CreateTemporary, SaveFails, StoreInv, Shapes
  <2> QED
    BY <1>1, <2>1, TemporaryKeeps DEF TemporaryReady
<1>3. CASE WriteTemporary
  <2> DEFINE doc == Written(prog.kind, prog.settings, prog.version)
             f == [File(doc, TRUE) EXCEPT !.synced = FALSE]
  <2>1. prog'.at = "sync" /\ disk'.temporary = f
    BY <1>3 DEF WriteTemporary, StoreInv, Shapes
  <2>2. DOMAIN f = FileFields /\ f.whole /\ f.doc = doc
    <3> HIDE DEF doc
    <3> QED
      BY DEF File, FileFields
  <2>3. doc.version = CurrentVersion[prog.kind]
    BY <1>1, WrittenVersion DEF StoreInv, VersionCurrent
  <2>4. CurrentVersion[prog.kind] \in Int
    BY VersionType DEF StoreInv, Shapes
  <2> HIDE DEF f, doc
  <2>5. TemporaryReady'
    BY <1>1, <2>1, <2>2, <2>3, <2>4 DEF TemporaryReady
  <2> QED
    BY <1>1, <2>5, TemporaryKeeps
<1>4. CASE SyncTemporary
  <2> DEFINE t == disk.temporary
  <2>1. prog'.at = "persist" /\ prog.at = "sync" /\ disk'.temporary = [t EXCEPT !.synced = TRUE]
    BY <1>4 DEF SyncTemporary, SyncAll, StoreInv, Shapes
  <2>2. /\ DOMAIN t = FileFields /\ t.whole
        /\ t.doc.version <= CurrentVersion[prog.kind]
    BY <2>1 DEF StoreInv, TemporaryReady
  <2> HIDE DEF t
  <2>3. /\ DOMAIN disk'.temporary = FileFields /\ disk'.temporary.whole
        /\ disk'.temporary.synced /\ disk'.temporary.doc = t.doc
    BY <2>1, <2>2 DEF FileFields
  <2>4. TemporaryReady'
    BY <1>1, <2>1, <2>2, <2>3 DEF TemporaryReady, Sound
  <2> QED
    BY <1>1, <2>4, TemporaryKeeps
<1> QED
  BY <1>2, <1>3, <1>4

LEMMA PersistInv == StoreInv /\ Persist => StoreInv'
<1> SUFFICES ASSUME StoreInv, Persist PROVE StoreInv'
  OBVIOUS
<1>1. /\ DOMAIN prog' = DOMAIN prog /\ prog'.kind = prog.kind /\ prog'.dir = prog.dir
      /\ prog'.version = prog.version /\ prog.at = "persist" /\ prog'.at = "running"
      /\ DOMAIN saved' = {"lost", "settings"}
  BY DEF Persist, StoreInv, Shapes
<1>2. /\ DOMAIN disk' = DOMAIN disk /\ DOMAIN disk'.file = Places
      /\ disk'.maybe = disk.maybe \cup {Here}
      /\ \A dir \in Places : disk'.file[dir] \in {disk.file[dir], disk.temporary}
  BY DEF Persist, StoreInv, Shapes
<1>3. CopiesSound'
  BY <1>1, <1>2 DEF StoreInv, Shapes, CopiesSound, TemporaryReady, Sound, Here
<1>4. VersionCurrent' /\ TemporaryReady'
  BY <1>1 DEF StoreInv, VersionCurrent, TemporaryReady, Saving
<1> QED
  BY <1>1, <1>2, <1>3, <1>4 DEF StoreInv, Shapes

LEMMA ExitInv == StoreInv /\ (Exit \/ Flush) => StoreInv'
<1> SUFFICES ASSUME StoreInv, Exit \/ Flush PROVE StoreInv'
  OBVIOUS
<1>1. CASE Exit
  <2>1. /\ DOMAIN prog' = DOMAIN prog /\ prog'.kind = prog.kind /\ prog'.dir = prog.dir
        /\ prog'.at = "off" /\ saved' = saved
        /\ DOMAIN disk' = DOMAIN disk /\ disk'.file = disk.file /\ disk'.maybe = disk.maybe
    BY <1>1 DEF Exit, StoreInv, Shapes
  <2> QED
    BY <2>1 DEF StoreInv, Shapes, CopiesSound, Sound, VersionCurrent, TemporaryReady, Saving
<1>2. CASE Flush
  <2>1. /\ prog' = prog /\ saved' = saved /\ DOMAIN disk' = DOMAIN disk
        /\ disk'.file = disk.file /\ disk'.maybe = {} /\ disk'.temporary = disk.temporary
    BY <1>2 DEF Flush, StoreInv, Shapes
  <2> QED
    BY <2>1 DEF StoreInv, Shapes, CopiesSound, Sound, VersionCurrent, TemporaryReady
<1> QED
  BY <1>1, <1>2

\* What a loss of power leaves of a copy that Longwatch wrote is that copy.
LEMMA PowerLossInv == StoreInv /\ PowerLoss => StoreInv'
<1> SUFFICES ASSUME StoreInv, PowerLoss PROVE StoreInv'
  OBVIOUS
<1>0. PICK f \in {Here} \cup disk.maybe :
        \E torn \in {f, [f EXCEPT !.whole = f.synced /\ f.whole]} :
          disk' = [disk EXCEPT !.file[prog.dir] = torn, !.temporary = NoFile, !.maybe = {}]
  BY DEF PowerLoss
<1>1. PICK torn \in {f, [f EXCEPT !.whole = f.synced /\ f.whole]} :
        disk' = [disk EXCEPT !.file[prog.dir] = torn, !.temporary = NoFile, !.maybe = {}]
  BY <1>0
<1>2. Sound(f)
  BY DEF StoreInv, Shapes, CopiesSound, Here
<1>3. Sound(torn)
  <2>1. CASE torn = f
    BY <1>2, <2>1
  <2>2. CASE torn = [f EXCEPT !.whole = f.synced /\ f.whole]
    <3> DEFINE w == f.synced /\ f.whole
    <3>1. f.own => w
      BY <1>2 DEF Sound
    <3> HIDE DEF w
    <3>2. /\ DOMAIN torn = FileFields /\ torn.own = f.own /\ torn.doc = f.doc
          /\ torn.synced = f.synced /\ torn.whole = w
      BY <1>2, <2>2 DEF Sound, FileFields, w
    <3> QED
      BY <1>2, <3>1, <3>2 DEF Sound
  <2> QED
    BY <2>1, <2>2
<1>4. /\ DOMAIN prog' = DOMAIN prog /\ prog'.kind = prog.kind /\ prog'.dir = prog.dir
      /\ prog'.at = "off" /\ DOMAIN saved' = DOMAIN saved
  BY DEF PowerLoss, StoreInv, Shapes
<1>5. /\ DOMAIN disk' = DOMAIN disk /\ DOMAIN disk'.file = Places /\ disk'.maybe = {}
      /\ \A dir \in Places : disk'.file[dir] \in {disk.file[dir], torn}
  BY <1>1 DEF StoreInv, Shapes
<1>6. CopiesSound'
  BY <1>3, <1>4, <1>5 DEF StoreInv, CopiesSound, Sound
<1>7. VersionCurrent' /\ TemporaryReady'
  BY <1>4 DEF VersionCurrent, TemporaryReady, Saving
<1> QED
  BY <1>4, <1>5, <1>6, <1>7 DEF StoreInv, Shapes

LEMMA StutterInv == StoreInv /\ UNCHANGED storeVars => StoreInv'
  BY DEF storeVars, StoreInv, Shapes, CopiesSound, Sound, VersionCurrent, TemporaryReady

LEMMA StoreStep == StoreInv /\ [StoreNext]_storeVars => StoreInv'
  BY DiscoverInv, LoadInv, QuarantineInv, ChangeInv, SaveInv, PersistInv, ExitInv,
     PowerLossInv, StutterInv
  DEF StoreNext

\* A start finds what Longwatch wrote whole and of a version that it reads,
\* wherever a crash or a loss of power fell: no copy takes the place of the
\* document before it is synced.
THEOREM DocumentWholeCorrect == StoreSpec => []DocumentWhole
<1>1. StoreInv => DocumentWhole
  BY DEF StoreInv, Shapes, CopiesSound, Sound, DocumentWhole, Readable
<1> QED
  BY StartInv, StoreStep, <1>1, PTL DEF StoreSpec
-----------------------------------------------------------------------------
\* What a start brings back.

\* The directory that a start takes the document from.
Home == IF "current" \in disk.dirs THEN "current" ELSE "legacy"
AtHome ==
  /\ disk.dirs \subseteq Places
  /\ prog.at # "off" => disk.dirs # {} /\ prog.dir = Home

\* Settings that come back as they are when they are written and read again.
Stable(kind, s) == Migrate(kind, Written(kind, s, CurrentVersion[kind])) = s
SavesStable ==
  /\ prog.at \in Saving => Stable(prog.kind, prog.settings)
  /\ prog.at \in {"sync", "persist"} =>
       /\ disk.temporary.whole
       /\ disk.temporary.doc = Written(prog.kind, prog.settings, prog.version)

\* The document means what the last save left, and so does what was read of it.
DocumentMeans ==
  ~saved.lost /\ saved.settings # Unknown =>
    /\ disk.dirs # {}
    /\ Readable(disk.file[Home])
    /\ Migrate(prog.kind, disk.file[Home].doc) = saved.settings
    /\ prog.loaded => prog.settings = saved.settings

StickInv == AtHome /\ SavesStable /\ DocumentMeans

LEMMA SettingsStable ==
  ASSUME NEW kind \in Kinds, NEW s \in Settings[kind] PROVE Stable(kind, s)
<1>1. CASE kind = "config"
  <2>1. s \in [limit : {3, 5}, phrase : BOOLEAN, dir : {Null, "d1"},
               default : {Null, "d2"}, sessions : {1, 2}]
    BY <1>1 DEF Settings
  <2> DEFINE d == Written(kind, s, 3)
  <2>2. /\ d.version = 3 /\ d.limit = s.limit /\ d.phrase = s.phrase /\ d.dir = s.dir
        /\ d.default = s.default /\ d.sessions = s.sessions
    BY <1>1 DEF Written
  <2> HIDE DEF d
  <2>3. /\ NonBlank(s.dir) = s.dir /\ NonBlank(s.default) = s.default
        /\ s.default # Absent /\ s.sessions # 0
    BY <2>1 DEF NonBlank, Null, Blank, Absent
  <2>4. MigrateConfig(d) =
          [limit |-> s.limit, phrase |-> s.phrase, dir |-> s.dir, default |-> s.default,
           sessions |-> s.sessions]
    BY <2>1, <2>2, <2>3 DEF MigrateConfig
  <2>5. s = [limit |-> s.limit, phrase |-> s.phrase, dir |-> s.dir, default |-> s.default,
             sessions |-> s.sessions]
    BY <2>1
  <2>6. CurrentVersion[kind] = 3
    BY <1>1 DEF CurrentVersion
  <2> QED
    BY <1>1, <2>4, <2>5, <2>6 DEF Stable, Migrate, d
<1>2. CASE kind = "state"
  <2>1. s \in [thread : {"t1", "t2", Null}]
    BY <1>2 DEF Settings
  <2> QED
    BY <1>2, <2>1 DEF Stable, Migrate, MigrateState, Written
<1>3. CASE kind = "scheduler"
  <2>1. s \in [tasks : {<< >>, <<"b">>, <<"a", "b">>}]
    BY <1>3 DEF Settings
  <2>2. s.tasks # NoKey
    BY <2>1 DEF NoKey, Absent
  <2>3. Written(kind, s, CurrentVersion[kind]).tasks = s.tasks
    BY <1>3 DEF Written
  <2>4. Migrate(kind, Written(kind, s, CurrentVersion[kind])) = [tasks |-> s.tasks]
    BY <1>3, <2>2, <2>3 DEF Migrate, MigrateScheduler
  <2> QED
    BY <2>1, <2>4 DEF Stable
<1> QED
  BY <1>1, <1>2, <1>3 DEF Kinds

LEMMA StateStable == ASSUME NEW d PROVE Stable("state", Migrate("state", d))
  BY DEF Stable, Migrate, MigrateState, Written

LEMMA StartStick == StoreInit => StickInv
<1> SUFFICES ASSUME NEW kind \in Kinds, NEW dirs \in {{}, {"current"}, {"legacy"}},
                    NEW f \in Found(kind), dirs = {} => f = NoFile, StoreStart(kind, dirs, f)
             PROVE  StickInv
  BY DEF StoreInit
<1>1. /\ disk.dirs = dirs /\ prog.at = "off" /\ prog.loaded = FALSE /\ prog.kind = kind
      /\ disk.file = [current |-> IF dirs = {"current"} THEN f ELSE NoFile,
                      legacy |-> IF dirs = {"legacy"} THEN f ELSE NoFile]
      /\ saved.settings = IF f.whole /\ f.doc \in Docs[kind] THEN Meant(kind, f.doc)
                          ELSE Unknown
  BY DEF StoreStart
<1>2. ASSUME saved.settings # Unknown
      PROVE  disk.dirs # {} /\ Readable(disk.file[Home])
             /\ Migrate(prog.kind, disk.file[Home].doc) = saved.settings
  <2>1. /\ f.whole /\ kind = "scheduler" /\ f.doc \in SchedulerDocs
        /\ f.doc.version \in {0, 1} /\ f.doc.tasks = NoKey /\ f.doc.messages # NoKey
        /\ saved.settings = [tasks |-> f.doc.messages]
    BY <1>1, <1>2 DEF Meant, Docs
  <2>2. dirs # {}
    BY <2>1 DEF NoFile
  <2>3. disk.file[Home] = f
    BY <1>1, <2>2 DEF Home
  <2>4. Readable(f)
    BY <1>1, <2>1 DEF Readable, CurrentVersion
  <2>5. Migrate(kind, f.doc) = saved.settings
    BY <2>1 DEF Migrate, MigrateScheduler
  <2> QED
    BY <1>1, <2>2, <2>3, <2>4, <2>5
<1> QED
  BY <1>1, <1>2 DEF StickInv, AtHome, SavesStable, DocumentMeans, Saving, Places

\* Steps that leave the documents in place, and what is known of them, alone.
LEMMA DocumentKept ==
  ASSUME StoreInv, StickInv, disk'.dirs = disk.dirs, disk'.file = disk.file,
         prog'.kind = prog.kind, prog'.dir = prog.dir, prog.at # "off" \/ prog'.at = "off",
         saved' = saved, prog'.loaded => prog.loaded /\ prog'.settings = prog.settings,
         SavesStable'
  PROVE  StickInv'
<1>1. AtHome'
  BY DEF StickInv, AtHome, Home
<1>2. DocumentMeans'
  BY DEF StickInv, DocumentMeans, Home, Readable
<1> QED
  BY <1>1, <1>2 DEF StickInv

LEMMA DiscoverStick == StoreInv /\ StickInv /\ Discover => StickInv'
<1> SUFFICES ASSUME StoreInv, StickInv, Discover PROVE StickInv'
  OBVIOUS
<1>1. PICK place \in Places :
        /\ prog' = [prog EXCEPT !.at = "loading", !.dir = place, !.starts = @ + 1]
        /\ place = "legacy" <=> ~Has("current") /\ Has("legacy") /\ disk' = disk
  <2>1. CASE ~Has("current") /\ Has("legacy")
    <3>1. CASE /\ disk' = [disk EXCEPT !.dirs = {"current"},
                            !.file = [current |-> disk.file.legacy, legacy |-> NoFile]]
               /\ prog' = [prog EXCEPT !.at = "loading", !.dir = "current", !.starts = @ + 1]
      <4>1. disk'.dirs = {"current"}
        BY <3>1 DEF StoreInv, Shapes
      <4>2. disk' # disk
        BY <2>1, <4>1 DEF Has
      <4> QED
        BY <3>1, <4>2 DEF Places
    <3>2. CASE /\ disk' = disk
               /\ prog' = [prog EXCEPT !.at = "loading", !.dir = "legacy", !.starts = @ + 1]
      BY <2>1, <3>2 DEF Places
    <3> QED
      BY <2>1, <3>1, <3>2 DEF Discover
  <2>2. CASE ~(~Has("current") /\ Has("legacy"))
    BY <2>2 DEF Discover, Places
  <2> QED
    BY <2>1, <2>2
<1>2. /\ prog'.at = "loading" /\ prog'.dir = place /\ prog'.kind = prog.kind /\ saved' = saved
      /\ prog'.loaded = prog.loaded /\ prog'.settings = prog.settings
  BY <1>1 DEF StoreInv, Shapes, Discover
<1>3. /\ disk'.dirs # {} /\ disk'.dirs \subseteq Places /\ place = Home'
      /\ disk.dirs # {} => disk'.file[Home'] = disk.file[Home]
  <2>1. CASE ~Has("current") /\ Has("legacy")
    <3>1. CASE disk' = [disk EXCEPT !.dirs = {"current"},
                          !.file = [current |-> disk.file.legacy, legacy |-> NoFile]]
      <4>1. disk'.dirs = {"current"}
        BY <3>1 DEF StoreInv, Shapes
      <4>2. disk'.file = [current |-> disk.file.legacy, legacy |-> NoFile]
        BY <3>1 DEF StoreInv, Shapes
      <4>3. disk' # disk
        BY <2>1, <4>1 DEF Has
      <4>4. place = "current"
        BY <1>1, <4>3 DEF Places
      <4>5. Home' = "current" /\ Home = "legacy"
        BY <2>1, <4>1 DEF Home, Has
      <4> QED
        BY <4>1, <4>2, <4>4, <4>5 DEF Places
    <3>2. CASE disk' = disk
      <4>1. place = "legacy" /\ Home = "legacy" /\ Home' = "legacy"
        BY <1>1, <2>1, <3>2 DEF Home, Has
      <4> QED
        BY <2>1, <3>2, <4>1 DEF Has, StickInv, AtHome
    <3> QED
      BY <2>1, <3>1, <3>2 DEF Discover
  <2>2. CASE ~(~Has("current") /\ Has("legacy"))
    <3>1. place = "current" /\ disk' = [disk EXCEPT !.dirs = @ \cup {"current"}]
      BY <1>1, <2>2 DEF Discover, Places
    <3>2. disk'.dirs = disk.dirs \cup {"current"} /\ disk'.file = disk.file
      BY <3>1 DEF StoreInv, Shapes
    <3>3. disk.dirs # {} => "current" \in disk.dirs
      BY <2>2 DEF Has, StickInv, AtHome, Places
    <3> QED
      BY <3>1, <3>2, <3>3 DEF Home, StickInv, AtHome, Places
  <2> QED
    BY <2>1, <2>2
<1>4. AtHome' /\ SavesStable'
  BY <1>2, <1>3 DEF AtHome, SavesStable, Saving
<1>5. DocumentMeans'
  BY <1>2, <1>3 DEF StickInv, DocumentMeans, Readable
<1> QED
  BY <1>4, <1>5 DEF StickInv

LEMMA LoadStick ==
  ASSUME StoreInv, StickInv, Load \/ LoadDefault \/ LoadTranscript
  PROVE  StickInv'
<1>1. /\ prog.at = "loading" /\ disk' = disk /\ saved' = saved
      /\ prog'.kind = prog.kind /\ prog'.dir = prog.dir
      /\ prog'.at \in {"running", "create"}
      /\ prog'.at = "create" => Stable(prog'.kind, prog'.settings)
  <2>1. CASE Load
    BY <2>1 DEF Load, Running, StoreInv, Shapes
  <2>2. CASE LoadDefault
    BY <2>2 DEF LoadDefault, Running, StoreInv, Shapes
  <2>3. CASE LoadTranscript
    <3>1. prog.kind = "state"
      BY <2>3 DEF LoadTranscript, Transcript
    <3>2. prog'.settings = Migrate("state", Here.doc) /\ prog'.kind = "state"
      BY <2>3, <3>1 DEF LoadTranscript, StoreInv, Shapes
    <3>3. Stable(prog'.kind, prog'.settings)
      BY <3>2, StateStable
    <3> QED
      BY <2>3, <3>3 DEF LoadTranscript, StoreInv, Shapes
  <2> QED
    BY <2>1, <2>2, <2>3
<1>2. AtHome'
  BY <1>1 DEF StickInv, AtHome, Home
<1>3. SavesStable'
  BY <1>1 DEF SavesStable, Saving
<1>4. ASSUME ~saved.lost, saved.settings # Unknown
      PROVE  prog'.settings = saved.settings
  <2>1. /\ Readable(Here) /\ Migrate(prog.kind, Here.doc) = saved.settings
    BY <1>1, <1>4 DEF StickInv, DocumentMeans, AtHome, Here
  <2>2. CASE Load
    <3>1. prog'.settings = Migrate(prog.kind, Here.doc)
      BY <2>2 DEF Load, Running, StoreInv, Shapes
    <3> QED
      BY <2>1, <3>1
  <2>3. CASE LoadDefault
    BY <2>1, <2>3 DEF LoadDefault, Readable, NoFile
  <2>4. CASE LoadTranscript
    <3>1. prog.kind = "state" /\ prog'.settings = Migrate("state", Here.doc)
      BY <2>4 DEF LoadTranscript, Transcript, StoreInv, Shapes
    <3> QED
      BY <2>1, <3>1
  <2> QED
    BY <2>2, <2>3, <2>4
<1>5. DocumentMeans'
  BY <1>1, <1>4 DEF StickInv, DocumentMeans, Home, Readable
<1> QED
  BY <1>2, <1>3, <1>5 DEF StickInv

\* What could not be read was no save of this release, and is not used.
LEMMA QuarantineStick == StoreInv /\ StickInv /\ Quarantine => StickInv'
<1> SUFFICES ASSUME StoreInv, StickInv, Quarantine PROVE StickInv'
  OBVIOUS
<1>1. /\ prog.at = "loading" /\ prog'.at = "running" /\ prog'.dir = prog.dir
      /\ saved'.settings = Unknown /\ disk'.dirs = disk.dirs
  BY DEF Quarantine, Running, StoreInv, Shapes
<1> QED
  BY <1>1 DEF StickInv, AtHome, Home, SavesStable, Saving, DocumentMeans

\* Steps of a save before the rename, what ends it early, and the end of the process.
LEMMA KeepsStick ==
  ASSUME StoreInv, StickInv,
         LoadFails \/ Change \/ CreateTemporary \/ SaveFails \/ Exit \/ Flush
  PROVE  StickInv'
<1>1. /\ disk'.dirs = disk.dirs /\ disk'.file = disk.file /\ saved' = saved
      /\ prog'.kind = prog.kind /\ prog'.dir = prog.dir
      /\ prog.at # "off" \/ prog'.at = "off"
      /\ prog'.loaded => prog.loaded /\ prog'.settings = prog.settings
  <2>1. CASE LoadFails
    BY <2>1 DEF LoadFails, StoreInv, Shapes
  <2>2. CASE Change
    <3>1. prog'.loaded = FALSE /\ prog'.kind = prog.kind /\ prog'.dir = prog.dir
      BY <2>2 DEF Change, StoreInv, Shapes
    <3> QED
      BY <2>2, <3>1 DEF Change
  <2>3. CASE CreateTemporary
    BY <2>3 DEF CreateTemporary, StoreInv, Shapes
  <2>4. CASE SaveFails
    BY <2>4 DEF SaveFails, StoreInv, Shapes
  <2>5. CASE Exit
    <3>1. prog'.loaded = FALSE
      BY <2>5 DEF Exit, StoreInv, Shapes
    <3> QED
      BY <2>5, <3>1 DEF Exit, StoreInv, Shapes
  <2>6. CASE Flush
    <3>1. prog' = prog /\ saved' = saved /\ disk'.dirs = disk.dirs /\ disk'.file = disk.file
      BY <2>6 DEF Flush, StoreInv, Shapes
    <3> QED
      BY <3>1
  <2> QED
    BY <2>1, <2>2, <2>3, <2>4, <2>5, <2>6
<1>2. SavesStable'
  <2>1. CASE LoadFails \/ SaveFails \/ Exit
    <3>1. prog'.at \in {"off", "running"}
      BY <2>1 DEF LoadFails, SaveFails, Exit, StoreInv, Shapes
    <3> QED
      BY <3>1 DEF SavesStable, Saving
  <2>2. CASE Change
    <3>1. PICK s \in Settings[prog.kind] :
            prog' = [prog EXCEPT !.at = "create", !.settings = s, !.loaded = FALSE,
                                 !.saves = @ + 1]
      BY <2>2 DEF Change
    <3>2. prog'.at = "create" /\ prog'.settings = s
      BY <3>1 DEF StoreInv, Shapes
    <3>3. Stable(prog.kind, s)
      BY SettingsStable DEF StoreInv, Shapes
    <3> QED
      BY <1>1, <3>2, <3>3 DEF SavesStable
  <2>3. CASE CreateTemporary
    <3>1. prog.at = "create" /\ prog'.at = "write" /\ prog'.settings = prog.settings
      BY <2>3 DEF CreateTemporary, StoreInv, Shapes
    <3> QED
      BY <1>1, <3>1 DEF StickInv, SavesStable, Saving
  <2>4. CASE Flush
    <3>1. prog' = prog /\ disk'.temporary = disk.temporary
      BY <2>4 DEF Flush, StoreInv, Shapes
    <3> QED
      BY <3>1 DEF StickInv, SavesStable
  <2> QED
    BY <2>1, <2>2, <2>3, <2>4
<1> QED
  BY <1>1, <1>2, DocumentKept

LEMMA WriteStick == StoreInv /\ StickInv /\ WriteTemporary => StickInv'
<1> SUFFICES ASSUME StoreInv, StickInv, WriteTemporary PROVE StickInv'
  OBVIOUS
<1> DEFINE doc == Written(prog.kind, prog.settings, prog.version)
           f == [File(doc, TRUE) EXCEPT !.synced = FALSE]
<1>1. /\ prog.at = "write" /\ prog'.at = "sync" /\ disk' = [disk EXCEPT !.temporary = f]
      /\ prog'.kind = prog.kind /\ prog'.dir = prog.dir /\ prog'.loaded = prog.loaded
      /\ prog'.settings = prog.settings /\ prog'.version = prog.version /\ saved' = saved
  BY DEF WriteTemporary, StoreInv, Shapes
<1>2. f.doc = doc /\ f.whole
  <2> HIDE DEF doc
  <2> QED
    BY DEF File
<1>3. /\ disk'.temporary.whole
      /\ disk'.temporary.doc = Written(prog'.kind, prog'.settings, prog'.version)
  <2>1. doc = Written(prog'.kind, prog'.settings, prog'.version)
    BY <1>1
  <2> HIDE DEF f, doc
  <2> QED
    BY <1>1, <1>2, <2>1 DEF StoreInv, Shapes
<1> HIDE DEF f, doc
<1>4. disk'.dirs = disk.dirs /\ disk'.file = disk.file
  BY <1>1 DEF StoreInv, Shapes
<1>5. SavesStable'
  BY <1>1, <1>3 DEF StickInv, SavesStable, Saving
<1> QED
  BY <1>1, <1>4, <1>5, DocumentKept

LEMMA SyncStick == StoreInv /\ StickInv /\ SyncTemporary => StickInv'
<1> SUFFICES ASSUME StoreInv, StickInv, SyncTemporary PROVE StickInv'
  OBVIOUS
<1> DEFINE t == disk.temporary
<1>1. /\ prog.at = "sync" /\ prog'.at = "persist"
      /\ disk' = [disk EXCEPT !.temporary = [t EXCEPT !.synced = TRUE]]
      /\ prog'.kind = prog.kind /\ prog'.dir = prog.dir /\ prog'.loaded = prog.loaded
      /\ prog'.settings = prog.settings /\ prog'.version = prog.version /\ saved' = saved
  BY DEF SyncTemporary, SyncAll, StoreInv, Shapes
<1>2. DOMAIN t = FileFields
  BY <1>1 DEF StoreInv, TemporaryReady
<1>3. t.whole /\ t.doc = Written(prog.kind, prog.settings, prog.version)
  BY <1>1 DEF StickInv, SavesStable
<1> HIDE DEF t
<1>4. disk'.temporary.doc = t.doc /\ disk'.temporary.whole = t.whole
  BY <1>1, <1>2 DEF StoreInv, Shapes, FileFields
<1>5. disk'.dirs = disk.dirs /\ disk'.file = disk.file
  BY <1>1 DEF StoreInv, Shapes
<1>6. SavesStable'
  BY <1>1, <1>3, <1>4 DEF StickInv, SavesStable, Saving
<1> QED
  BY <1>1, <1>5, <1>6, DocumentKept

\* The rename puts what was saved where the next start looks for it.
LEMMA PersistStick == StoreInv /\ StickInv /\ Persist => StickInv'
<1> SUFFICES ASSUME StoreInv, StickInv, Persist PROVE StickInv'
  OBVIOUS
<1>1. /\ prog.at = "persist" /\ prog'.at = "running"
      /\ prog'.kind = prog.kind /\ prog'.dir = prog.dir /\ prog'.settings = prog.settings
  BY DEF Persist, StoreInv, Shapes
<1>2. saved'.settings = prog.settings
  BY DEF Persist
<1>3. disk'.dirs = disk.dirs /\ disk'.file = [disk.file EXCEPT ![prog.dir] = disk.temporary]
  BY DEF Persist, StoreInv, Shapes
<1>4. disk.dirs # {} /\ prog.dir = Home /\ Home' = Home
  BY <1>1, <1>3 DEF StickInv, AtHome, Home
<1>5. disk'.file[Home'] = disk.temporary
  BY <1>3, <1>4 DEF StoreInv, Shapes
<1>6. disk.temporary.whole /\ disk.temporary.doc.version <= CurrentVersion[prog.kind]
  <2>1. /\ disk.temporary.doc = Written(prog.kind, prog.settings, prog.version)
        /\ prog.version = CurrentVersion[prog.kind]
    BY <1>1 DEF StickInv, SavesStable, StoreInv, VersionCurrent, Saving
  <2>2. disk.temporary.doc.version = CurrentVersion[prog.kind]
    BY <2>1, WrittenVersion
  <2>3. disk.temporary.whole
    BY <1>1 DEF StickInv, SavesStable
  <2> QED
    BY <2>2, <2>3, VersionType DEF StoreInv, Shapes
<1>7. Migrate(prog.kind, disk.temporary.doc) = prog.settings
  BY <1>1 DEF StickInv, SavesStable, Stable, StoreInv, VersionCurrent, Saving
<1>8. AtHome' /\ SavesStable'
  BY <1>1, <1>3, <1>4 DEF StickInv, AtHome, SavesStable, Saving
<1>9. DocumentMeans'
  BY <1>1, <1>2, <1>3, <1>4, <1>5, <1>6, <1>7 DEF DocumentMeans, Readable
<1> QED
  BY <1>8, <1>9 DEF StickInv

LEMMA PowerLossStick == StoreInv /\ StickInv /\ PowerLoss => StickInv'
<1> SUFFICES ASSUME StoreInv, StickInv, PowerLoss PROVE StickInv'
  OBVIOUS
<1>1. prog'.at = "off" /\ saved'.lost = TRUE /\ disk'.dirs = disk.dirs
  BY DEF PowerLoss, StoreInv, Shapes
<1> QED
  BY <1>1 DEF StickInv, AtHome, Home, SavesStable, Saving, DocumentMeans

LEMMA StutterStick == StoreInv /\ StickInv /\ UNCHANGED storeVars => StickInv'
  BY DEF storeVars, StickInv, AtHome, Home, SavesStable, DocumentMeans, Readable

\* A start brings back the settings, the state or the queue that the last save
\* left, in whichever directory they are, and migrates them no second time: a
\* save is in place where the next start looks, and reading it changes nothing.
THEOREM SettingsStickCorrect == StoreSpec => []SettingsStick
<1>1. StoreInv /\ StickInv /\ [StoreNext]_storeVars => StickInv'
  BY DiscoverStick, LoadStick, QuarantineStick, KeepsStick, WriteStick, SyncStick,
     PersistStick, PowerLossStick, StutterStick
  DEF StoreNext
<1>2. StickInv => SettingsStick
  BY DEF StickInv, DocumentMeans, SettingsStick
<1> QED
  BY StartInv, StoreStep, StartStick, <1>1, <1>2, PTL DEF StoreSpec
=============================================================================
