----------------------------- MODULE FileStore -----------------------------
(***************************************************************************)
(* The four stores that keep one record in a file: state.FileStore         *)
(* (internal/state/file_store.go), and dkg.KeyStore, dkg.SessionStore and  *)
(* dkg.BeastSessionStore (internal/tss/dkg).  A save writes and syncs      *)
(* <path>.tmp, syncs the directory, renames <path> to <path>.bak and then  *)
(* <path>.tmp to <path>, and syncs the directory again; the two session    *)
(* stores never sync the directory.  The mutex lets one save or load run   *)
(* at a time.  Until the directory is synced a power loss may undo         *)
(* renames, the latest first; a process that is killed loses none.         *)
(***************************************************************************)
CONSTANTS
    LastStates,     \* the records: <<Height, Round>> pairs, key shares, sessions
    NotFound,       \* ErrNotFound; no save under way
    Absent,         \* there is no such file
    Bad             \* readFile fails: short, bad magic or length, CRC, or sealed
                    \* with a key that the process does not have

VARIABLES
    store,      \* which of the stores this is
    dir,        \* the files <path> and <path>.bak
    tmp,        \* the file <path>.tmp
    onDisk,     \* the directories a power loss may leave
    pc, arg,    \* the save under way
    acked,      \* the last state saved with a nil return and a synced directory
    later,      \* the states whose save began since
    before,     \* what could be loaded when the last save began
    returned,   \* the last state saved with a nil return, or found after a power loss
    begun,      \* the states whose save began since
    rot         \* "none", "fresh", or "healed" by a synced save since

fileVars == <<store, dir, tmp, onDisk, pc, arg, acked, later, before, returned,
              begun, rot>>

ASSUME FileAssumption ==
    /\ NotFound \notin LastStates /\ Absent \notin LastStates
    /\ Bad \notin LastStates /\ Absent # Bad /\ NotFound # Bad /\ NotFound # Absent

Stores == {"last_state", "key_share", "session", "beast_session"}

\* The stores whose writer syncs the directory.
Syncing == {"last_state", "key_share"}

Content == LastStates \cup {Absent, Bad}
Directory == [main : Content, bak : Content]

FileTypeOK ==
    /\ store \in Stores
    /\ dir \in Directory /\ tmp \in Content
    /\ onDisk \subseteq Directory /\ dir \in onDisk
    /\ pc \in {"idle", "write", "backup", "promote", "sync"}
    /\ arg \in LastStates \cup {NotFound}
    /\ arg = NotFound <=> pc = "idle"
    /\ pc \in {"backup", "promote"} => tmp = arg
    /\ acked \in LastStates \cup {NotFound}
    /\ later \subseteq LastStates
    /\ before \in LastStates \cup {NotFound}
    /\ returned \in LastStates \cup {NotFound}
    /\ begun \subseteq LastStates
    /\ rot \in {"none", "fresh", "healed"}

FileInit ==
    /\ store \in Stores
    /\ dir = [main |-> Absent, bak |-> Absent] /\ tmp = Absent
    /\ onDisk = {dir}
    /\ pc = "idle" /\ arg = NotFound
    /\ acked = NotFound /\ later = {} /\ before = NotFound
    /\ returned = NotFound /\ begun = {}
    /\ rot = "none"
----------------------------------------------------------------------------
(* LoadLastState *)

\* Faulty variant: there is no fallback.
LoadedNoBackup(d) == IF d.main \in LastStates THEN d.main ELSE NotFound

\* The main file, the backup when readFile fails on it, or ErrNotFound.
Loaded(d) ==
    IF d.main \in LastStates THEN d.main
    ELSE IF d.bak \in LastStates THEN d.bak ELSE NotFound
----------------------------------------------------------------------------
(* SaveLastState: writeFileAtomic under the mutex *)

saveVars == <<store, acked, later, before, returned, begun, rot>>

Save(s) ==
    /\ pc = "idle" /\ pc' = "write" /\ arg' = s
    /\ later' = later \cup {s} /\ begun' = begun \cup {s} /\ before' = Loaded(dir)
    /\ UNCHANGED <<store, dir, tmp, onDisk, acked, returned, rot>>

ReturnError == pc' = "idle" /\ arg' = NotFound

\* Opening, writing, syncing or closing the temporary file fails.
WriteFails ==
    /\ pc = "write" /\ ReturnError
    /\ tmp' \in {tmp, Bad, arg}
    /\ UNCHANGED <<dir, onDisk, saveVars>>

\* d.Sync, where the store has it: afterwards the directory is as it stands,
\* if it worked.
DirSync == (store \in Syncing /\ onDisk' = {dir}) \/ UNCHANGED onDisk

WriteTmp ==
    /\ pc = "write" /\ pc' = "backup"
    /\ tmp' = arg
    /\ DirSync
    /\ UNCHANGED <<dir, arg, saveVars>>

\* Faulty variant: the old file is removed instead of renamed.
BackupRemoves ==
    /\ pc = "backup" /\ pc' = "promote"
    /\ dir' = [dir EXCEPT !.main = Absent]
    /\ onDisk' = onDisk \cup {dir'}
    /\ UNCHANGED <<tmp, arg, saveVars>>

\* The rename is attempted when there is a main file; its error is ignored.
Backup ==
    /\ pc = "backup" /\ pc' = "promote"
    /\ \/ UNCHANGED dir
       \/ dir.main # Absent /\ dir' = [main |-> Absent, bak |-> dir.main]
    /\ onDisk' = onDisk \cup {dir'}
    /\ UNCHANGED <<tmp, arg, saveVars>>

Promote ==
    /\ pc = "promote" /\ pc' = "sync"
    /\ dir' = [dir EXCEPT !.main = tmp] /\ tmp' = Absent
    /\ onDisk' = onDisk \cup {dir'}
    /\ UNCHANGED <<arg, saveVars>>

PromoteFails ==
    /\ pc = "promote" /\ ReturnError
    /\ UNCHANGED <<dir, tmp, onDisk, saveVars>>

\* The nil return.  Whether the directory was synced, the caller never knows.
ReturnNil ==
    /\ pc = "sync" /\ pc' = "idle" /\ arg' = NotFound
    /\ returned' = arg /\ begun' = {}
    /\ \/ /\ store \in Syncing /\ onDisk' = {dir}
          /\ acked' = arg /\ later' = {}
          /\ rot' = IF rot = "fresh" THEN "healed" ELSE rot
       \/ UNCHANGED <<onDisk, acked, later, rot>>
    /\ UNCHANGED <<store, dir, tmp, before>>

WriteStep == WriteFails \/ WriteTmp \/ Backup \/ Promote \/ PromoteFails \/ ReturnNil

\* The same for the four stores.
SaveLastState == store = "last_state" /\ \E s \in LastStates : Save(s)
WriteFileAtomic == store = "last_state" /\ WriteStep
KeyStoreSave == store = "key_share" /\ \E s \in LastStates : Save(s)
KeyStoreWriteAtomic == store = "key_share" /\ WriteStep
SessionStoreSave == store = "session" /\ \E s \in LastStates : Save(s)
WriteSess == store = "session" /\ WriteStep
BeastSessionStoreSave == store = "beast_session" /\ \E s \in LastStates : Save(s)
WriteBeastSession == store = "beast_session" /\ WriteStep
----------------------------------------------------------------------------
(* The environment *)

\* The process is killed, wherever it is.
Killed ==
    /\ pc # "idle" /\ pc' = "idle" /\ arg' = NotFound
    /\ UNCHANGED <<dir, tmp, onDisk, saveVars>>

PowerLoss ==
    /\ dir' \in onDisk /\ onDisk' = {dir'}
    /\ pc' = "idle" /\ arg' = NotFound
    /\ returned' = Loaded(dir') /\ begun' = {}
    /\ UNCHANGED <<store, tmp, acked, later, before, rot>>

\* The main file rots at rest; LoadLastState falls back to the backup.
Rot ==
    /\ pc = "idle" /\ onDisk = {dir} /\ dir.main \in LastStates
    /\ rot = "none" /\ rot' = "fresh"
    /\ dir' = [dir EXCEPT !.main = Bad] /\ onDisk' = {dir'}
    /\ UNCHANGED <<store, tmp, pc, arg, acked, later, before, returned, begun>>

FileNext ==
    \/ SaveLastState \/ WriteFileAtomic
    \/ KeyStoreSave \/ KeyStoreWriteAtomic
    \/ SessionStoreSave \/ WriteSess
    \/ BeastSessionStoreSave \/ WriteBeastSession
    \/ Killed \/ PowerLoss \/ Rot

FileSpec == FileInit /\ [][FileNext]_fileVars
----------------------------------------------------------------------------
(* Properties *)

Store == INSTANCE LastStateStore WITH
    value <- Loaded(dir), saving <- arg,
    durable <- {Loaded(d) : d \in onDisk}

\* Until the main file rots, each store implements the atomic one: the rename
\* of the temporary file is the one step that changes what can be loaded.
ImplementsStore ==
    /\ Store!StoreInit
    /\ [][rot' = "none" => Store!StoreNext]_(Store!storeVars)

\* With no rot, a restart loads the last state that was acknowledged with a
\* synced directory, or one whose save began later: an acknowledged state is
\* never rolled back, and never lost with a save that fails or is cut short.
RecoversAcked ==
    rot = "none" => \A d \in onDisk : Loaded(d) \in {acked} \cup later

\* A rotten main file costs atomicity only until the next save completes
\* with its directory synced: from then on a save that is cut short leaves
\* the old state or its own.
AtomicOnceHealed ==
    rot # "fresh" /\ arg # NotFound => Loaded(dir) \in {before, arg}

\* With no rot, a process that is killed and restarted loads the last state
\* whose save returned nil, or one whose save began later; the session stores,
\* which never sync their directory, can lose it in a power loss only.  The
\* DKG runner and the engine resume from it.
KillKeepsReturned == rot = "none" => Loaded(dir) \in {returned} \cup begun
=============================================================================
