------------------------------- MODULE Store --------------------------------
(***************************************************************************)
(* ConfigStore in src/src/config.rs: one of the three documents (the       *)
(* settings, the state of a session, the scheduler's queue) through        *)
(* starts, saves and crashes, and the migration of what older releases     *)
(* wrote.                                                                  *)
(***************************************************************************)
EXTENDS Integers, Sequences

CONSTANTS MaxSave,  \* bound: saves
          MaxStart  \* bound: starts

ASSUME StoreAssumption == MaxSave \in Nat /\ MaxStart \in Nat \ {0}

VARIABLES
  disk,   \* the directories, the document, the temporary file
  prog,   \* Longwatch: where it is and what it believes
  saved   \* history: what the last save left, and whether power was lost since

storeVars == <<disk, prog, saved>>

Kinds == {"config", "state", "scheduler"}

\* Keys of a document may be absent, null or blank; settings never are blank.
Absent == "absent"
Null   == "null"
Blank  == "blank"
NoKey  == <<Absent>>

\* CONFIG_VERSION, STATE_VERSION, SCHEDULER_STATE_VERSION
CurrentVersion == [config |-> 3, state |-> 1, scheduler |-> 2]

\* What tells documents apart: the limit on empty replies, whether the phrase
\* for high demand is listed, the working directory and the default one, the
\* number of sessions (0 where the key is absent); the thread of a session and
\* its transcript; the tasks that wait, and the messages that waited before there
\* were tasks.
ConfigDocs ==
  [version : 0..3, limit : {3, 4}, phrase : BOOLEAN, dir : {Absent, Blank, "d1"},
   default : {Absent, Blank, "d2"}, sessions : {0, 2}]
StateDocs     == [version : 0..1, thread : {"t1", Null}, conversation : BOOLEAN]
SchedulerDocs == [version : 0..2, tasks : {NoKey, <<"a">>}, messages : {NoKey, <<"b", "c">>}]
Docs == [config |-> ConfigDocs, state |-> StateDocs, scheduler |-> SchedulerDocs]

\* QueueConfig, PersistedQueueState, PersistedSchedulerState: what the user or a
\* worker may come to have.
Settings ==
  [config |-> [limit : {3, 5}, phrase : BOOLEAN, dir : {Null, "d1"},
               default : {Null, "d2"}, sessions : {1, 2}],
   state |-> [thread : {"t1", "t2", Null}],
   scheduler |-> [tasks : {<< >>, <<"b">>, <<"a", "b">>}]]
Defaults ==
  [config |-> [limit |-> 5, phrase |-> TRUE, dir |-> Null, default |-> Null, sessions |-> 1],
   state |-> [thread |-> Null],
   scheduler |-> [tasks |-> << >>]]

Unknown == [unknown |-> TRUE]

\* own is history: this release wrote it.
File(doc, own) == [doc |-> doc, whole |-> TRUE, synced |-> TRUE, own |-> own]
NoFile == [doc |-> [version |-> -1], whole |-> FALSE, synced |-> TRUE, own |-> FALSE]

-----------------------------------------------------------------------------
\* Migrations.

NonBlank(x) == IF x \in {Blank, Absent} THEN Null ELSE x

\* Mutant of Bumped: the version stays what it was.
BumpedNot(kind, d) == d.version

\* What is in memory, and what is saved next, is of the current version.
Bumped(kind, d) == CurrentVersion[kind]

\* migrate_config: blank means none; the default directory used to be the last
\* task's; one session unless the document says otherwise; and documents before
\* version 2 learn the phrase and the new limit.
MigrateConfig(d) ==
  [limit    |-> IF d.version \in {0, 1} /\ d.limit = 3 THEN 5 ELSE d.limit,
   phrase   |-> d.phrase \/ d.version \in {0, 1},
   dir      |-> NonBlank(d.dir),
   default  |-> NonBlank(IF d.default = Absent THEN d.dir ELSE d.default),
   sessions |-> IF d.sessions = 0 THEN 1 ELSE d.sessions]

\* migrate_state; the transcript is discarded.
MigrateState(d) == [thread |-> d.thread]

\* migrate_scheduler_state: messages become tasks, unless there are tasks.
MigrateScheduler(d) ==
  [tasks |-> CASE d.tasks # NoKey -> d.tasks
               [] d.tasks = NoKey /\ d.version \in {0, 1} /\ d.messages # NoKey -> d.messages
               [] OTHER -> << >>]

Migrate(kind, d) ==
  CASE kind = "config" -> MigrateConfig(d)
    [] kind = "state"  -> MigrateState(d)
    [] OTHER           -> MigrateScheduler(d)

\* What save_config, save_state and save_scheduler_state write: every key.
Written(kind, s, version) ==
  CASE kind = "config" -> [version |-> version, limit |-> s.limit, phrase |-> s.phrase,
                           dir |-> s.dir, default |-> s.default, sessions |-> s.sessions]
    [] kind = "state"  -> [version |-> version, thread |-> s.thread, conversation |-> FALSE]
    [] OTHER           -> [version |-> version, tasks |-> s.tasks, messages |-> NoKey]

\* The messages of an older release were the user's: its tasks if it had any.
Meant(kind, d) ==
  IF kind = "scheduler" /\ d.version \in {0, 1} /\ d.tasks = NoKey /\ d.messages # NoKey
  THEN [tasks |-> d.messages] ELSE Unknown

-----------------------------------------------------------------------------
\* Start.

Here == disk.file[prog.dir]
Has(dir) == dir \in disk.dirs

\* discover: the directory of an older release is renamed, or used as it is.
Discover ==
  /\ prog.at = "off" /\ prog.starts < MaxStart
  /\ IF ~Has("current") /\ Has("legacy")
     THEN \/ /\ disk' = [disk EXCEPT !.dirs = {"current"},
                          !.file = [current |-> disk.file.legacy, legacy |-> NoFile]]
             /\ prog' = [prog EXCEPT !.at = "loading", !.dir = "current", !.starts = @ + 1]
          \/ /\ prog' = [prog EXCEPT !.at = "loading", !.dir = "legacy", !.starts = @ + 1]
             /\ UNCHANGED disk
     ELSE /\ disk' = [disk EXCEPT !.dirs = @ \cup {"current"}]
          /\ prog' = [prog EXCEPT !.at = "loading", !.dir = "current", !.starts = @ + 1]
  /\ UNCHANGED saved

\* is_recoverable_document_error: what cannot be parsed or is of another version.
Readable(f) == f.whole /\ f.doc.version <= CurrentVersion[prog.kind]

Running(settings, version) ==
  prog' = [prog EXCEPT !.at = "running", !.settings = settings, !.version = version,
                       !.loaded = TRUE]

Transcript(f) == prog.kind = "state" /\ f.doc.conversation

Load ==
  /\ prog.at = "loading" /\ Here # NoFile /\ Readable(Here) /\ ~Transcript(Here)
  /\ Running(Migrate(prog.kind, Here.doc), Bumped(prog.kind, Here.doc))
  /\ UNCHANGED <<disk, saved>>

LoadDefault ==
  /\ prog.at = "loading" /\ Here = NoFile
  /\ Running(Defaults[prog.kind], CurrentVersion[prog.kind])
  /\ UNCHANGED <<disk, saved>>

\* load_state writes a state that came with a transcript again, without it.
LoadTranscript ==
  /\ prog.at = "loading" /\ Here # NoFile /\ Readable(Here) /\ Transcript(Here)
  /\ prog' = [prog EXCEPT !.at = "create", !.settings = Migrate("state", Here.doc),
                          !.version = Bumped("state", Here.doc), !.loaded = TRUE]
  /\ UNCHANGED <<disk, saved>>

\* quarantine_invalid_document: the document is kept under another name.
Quarantine ==
  /\ prog.at = "loading" /\ Here # NoFile /\ ~Readable(Here)
  /\ disk' = [disk EXCEPT !.file[prog.dir] = NoFile, !.maybe = @ \cup {Here}]
  /\ saved' = [saved EXCEPT !.settings = Unknown]
  /\ Running(Defaults[prog.kind], CurrentVersion[prog.kind])

\* The document cannot be opened or renamed: Longwatch does not start.
LoadFails ==
  /\ prog.at = "loading" /\ Here # NoFile
  /\ prog' = [prog EXCEPT !.at = "off"]
  /\ UNCHANGED <<disk, saved>>

-----------------------------------------------------------------------------
\* atomic_write_json

\* The settings, the state or the queue change and are saved.
Change ==
  /\ prog.at = "running" /\ prog.saves < MaxSave
  /\ \E s \in Settings[prog.kind] :
       prog' = [prog EXCEPT !.at = "create", !.settings = s, !.loaded = FALSE, !.saves = @ + 1]
  /\ UNCHANGED <<disk, saved>>

CreateTemporary ==
  /\ prog.at = "create"
  /\ disk' = [disk EXCEPT !.temporary = [NoFile EXCEPT !.own = TRUE]]
  /\ prog' = [prog EXCEPT !.at = "write"]
  /\ UNCHANGED saved

WriteTemporary ==
  /\ prog.at = "write"
  /\ disk' = [disk EXCEPT !.temporary =
               [File(Written(prog.kind, prog.settings, prog.version), TRUE)
                  EXCEPT !.synced = FALSE]]
  /\ prog' = [prog EXCEPT !.at = "sync"]
  /\ UNCHANGED saved

\* Mutant of SyncAll: the data may still be in memory when the name is changed.
SyncAllNot == disk.temporary

SyncAll == [disk.temporary EXCEPT !.synced = TRUE]

SyncTemporary ==
  /\ prog.at = "sync"
  /\ disk' = [disk EXCEPT !.temporary = SyncAll]
  /\ prog' = [prog EXCEPT !.at = "persist"]
  /\ UNCHANGED saved

\* The directory is not synced: a loss of power may bring the old file back.
Persist ==
  /\ prog.at = "persist"
  /\ disk' = [disk EXCEPT !.file[prog.dir] = disk.temporary, !.temporary = NoFile,
                          !.maybe = @ \cup {Here}]
  /\ prog' = [prog EXCEPT !.at = "running"]
  /\ saved' = [settings |-> prog.settings, lost |-> FALSE]

\* Any step may fail, and the temporary file goes; the program goes on with what
\* it has in memory (persist_config, load_state).
SaveFails ==
  /\ prog.at \in {"create", "write", "sync", "persist"}
  /\ disk' = [disk EXCEPT !.temporary = NoFile]
  /\ prog' = [prog EXCEPT !.at = "running"]
  /\ UNCHANGED saved

-----------------------------------------------------------------------------
\* The end of the process, asked for or not, and of the machine.

Exit ==
  /\ prog.at # "off"
  /\ prog' = [prog EXCEPT !.at = "off", !.loaded = FALSE]
  /\ disk' = [disk EXCEPT !.temporary = NoFile]
  /\ UNCHANGED saved

\* The system writes the directory in its own time.
Flush ==
  /\ disk.maybe # {}
  /\ disk' = [disk EXCEPT !.maybe = {}]
  /\ UNCHANGED <<prog, saved>>

PowerLoss ==
  /\ prog.at # "off"
  /\ \E f \in {Here} \cup disk.maybe :
       \E torn \in {f, [f EXCEPT !.whole = f.synced /\ f.whole]} :
         disk' = [disk EXCEPT !.file[prog.dir] = torn, !.temporary = NoFile, !.maybe = {}]
  /\ prog' = [prog EXCEPT !.at = "off", !.loaded = FALSE]
  /\ saved' = [saved EXCEPT !.lost = TRUE]

\* What an older release, a newer one or an editor may have left.
Found(kind) ==
  {NoFile, [NoFile EXCEPT !.doc = [version |-> 0]],
   File([version |-> CurrentVersion[kind] + 1], FALSE)}
    \cup {File(d, FALSE) : d \in Docs[kind]}

StoreStart(kind, dirs, f) ==
  /\ disk = [dirs |-> dirs, temporary |-> NoFile, maybe |-> {},
             file |-> [current |-> IF dirs = {"current"} THEN f ELSE NoFile,
                       legacy |-> IF dirs = {"legacy"} THEN f ELSE NoFile]]
  /\ prog = [kind |-> kind, at |-> "off", dir |-> "current", settings |-> Unknown,
             version |-> 0, loaded |-> FALSE, starts |-> 0, saves |-> 0]
  /\ saved = [lost |-> FALSE,
              settings |-> IF f.whole /\ f.doc \in Docs[kind] THEN Meant(kind, f.doc)
                           ELSE Unknown]

StoreInit ==
  \E kind \in Kinds, dirs \in {{}, {"current"}, {"legacy"}} : \E f \in Found(kind) :
    (dirs = {} => f = NoFile) /\ StoreStart(kind, dirs, f)

StoreNext ==
  \/ Discover \/ Load \/ LoadDefault \/ LoadTranscript \/ Quarantine \/ LoadFails
  \/ Change \/ CreateTemporary \/ WriteTemporary \/ SyncTemporary \/ Persist \/ SaveFails
  \/ Exit \/ Flush \/ PowerLoss

StoreSpec == StoreInit /\ [][StoreNext]_storeVars

-----------------------------------------------------------------------------
\* Properties.

\* A document that Longwatch wrote can be read when it starts, whatever step a
\* crash or a loss of power interrupted: only what others wrote is quarantined
\* (atomic_write_json, is_recoverable_document_error).
DocumentWhole ==
  \A dir \in DOMAIN disk.file : disk.file[dir].own => Readable(disk.file[dir])

\* A start brings back what the last save left, also in the directory of an
\* older release, and does not migrate it again: a limit of 3 stays 3, a phrase
\* that was taken out stays out, no default directory stays none; and messages
\* that an older release had queued become tasks.  Only a loss of power may
\* bring older settings back (discover, migrate_config, migrate_scheduler_state).
SettingsStick ==
  prog.at = "running" /\ prog.loaded /\ ~saved.lost /\ saved.settings # Unknown
    => prog.settings = saved.settings
=============================================================================
