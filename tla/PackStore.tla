----------------------------- MODULE PackStore -----------------------------
(***************************************************************************)
(* The directory of one installed language pack, and the `typeclaw pack     *)
(* install` processes that replace its files one at a time, each file       *)
(* through a temporary file, a sync and a rename.  A process may fail or    *)
(* die between any two steps, and the machine may lose power.               *)
(*                                                                         *)
(* Abstracted data: the content of a file is the version of the pack it was *)
(* copied from.  The file system is the one the code relies on: bytes are   *)
(* safe once the file was synced, a rename replaces a name at once, and a   *)
(* name is sure to survive a power loss once the directory it is in was     *)
(* synced.  That goes for the name of the pack's own directory too: it is in *)
(* the install root, which the code never syncs.                            *)
(***************************************************************************)
EXTENDS Integers, Sequences

CONSTANTS
    Version,        \* packs that may be installed in this directory
    Installer,      \* processes; a process identifier is reused after a death
    MaxAttempts,    \* names tried for a temporary file (100 in the code)
    MaxInstalls,    \* bound: installs that are started
    MaxAccidents,   \* bound: deaths, losses of power and refused syncs
    Absent,         \* the content of a name that is not there
    Torn            \* content that is no version of the file

ASSUME StoreAssumption ==
    /\ Absent \notin Version /\ Torn \notin Version /\ Absent # Torn
    /\ MaxAttempts \in Nat

PackFile == {"ngrams", "dict", "dict_prefix", "manifest"}

VARIABLES
    file,           \* the content each name of the pack shows
    durable,        \* the content it shows after a power loss the directory survives
    directory,      \* "absent", "new" (since the last loss of power) or "kept"
    unsynced,       \* whether the last sync of the directory was refused
    spoiled,        \* power was lost then, and no install has succeeded alone since
    leftover,       \* temporary files in the directory: <<process, file, attempt>>
    installer,      \* what each process is doing
    installed,      \* the version of the last install, when it was alone and succeeded
    installs, accidents

diskVars  == <<file, durable, directory, unsynced>>
storeVars == <<diskVars, spoiled, leftover, installer, installed, installs, accidents>>

-----------------------------------------------------------------------------
(* Reading a pack                                                           *)

\* LanguagePack::from_pack_dir on a directory that does not change meanwhile:
\* every file is there and decodes.
FromPackDir(content) == \A f \in PackFile : content[f] \in Version

-----------------------------------------------------------------------------
(* install_pack                                                             *)

\* Mistake: the manifest is written before what it describes.
InstallOrderManifestFirst == <<"manifest", "ngrams", "dict", "dict_prefix">>

\* Mistake: one artifact is forgotten.
InstallOrderWithoutPrefix == <<"ngrams", "dict", "manifest">>

InstallOrder == <<"ngrams", "dict", "dict_prefix", "manifest">>

Idle == [step |-> "idle", version |-> Absent, next |-> 1,
         attempt |-> 0, temp |-> Absent, alone |-> FALSE]

Active(i)  == installer[i].step # "idle"
Current(i) == InstallOrder[installer[i].next]

\* An install ends, well or badly; nothing undoes the files it has replaced.
Finish(i, result) ==
    /\ installer' = [installer EXCEPT ![i] = Idle]
    /\ installed' = result

\* The configuration, the source manifest and the source pack are read and
\* valid; the target directory is created when it is not there.
InstallPack(i, v) ==
    /\ ~Active(i)
    /\ installs < MaxInstalls
    /\ installs' = installs + 1
    /\ installer' =
          [j \in Installer |->
              IF j = i THEN [Idle EXCEPT !.step = "write", !.version = v,
                                         !.alone = \A k \in Installer : ~Active(k)]
              ELSE [installer[j] EXCEPT !.alone = FALSE]]
    /\ installed' = Absent
    /\ directory' = IF directory = "absent" THEN "new" ELSE directory
    /\ UNCHANGED <<file, durable, unsynced, spoiled, leftover, accidents>>

\* Mistake: a temporary file that is already there is opened as it is.
FreeAttemptsAny(i) == 1..MaxAttempts

\* The names of temporary files that create_new can still create.
FreeAttempts(i) == {a \in 1..MaxAttempts : <<i, Current(i), a>> \notin leftover}

\* create_temp_file takes the first name nobody has; the copy is then written
\* and synced.  What the file holds matters only once it is renamed: a death
\* before that leaves it behind, complete or not.
WriteTemp(i) ==
    /\ installer[i].step = "write"
    /\ \E a \in FreeAttempts(i) :
          LET temp == <<i, Current(i), a>>
          IN /\ \A b \in FreeAttempts(i) : a <= b
             /\ installer' = [installer EXCEPT
                   ![i].step = "rename",
                   ![i].attempt = a,
                   ![i].temp = IF temp \in leftover THEN Torn
                               ELSE installer[i].version]
             /\ leftover' = leftover \cup {temp}
    /\ UNCHANGED <<diskVars, spoiled, installed, installs, accidents>>

RenameTemp(i) ==
    /\ installer[i].step = "rename"
    /\ file' = [file EXCEPT ![Current(i)] = installer[i].temp]
    /\ leftover' = leftover \ {<<i, Current(i), installer[i].attempt>>}
    /\ installer' = [installer EXCEPT ![i].step = "sync"]
    /\ UNCHANGED <<durable, directory, unsynced, spoiled, installed, installs, accidents>>

\* Mistake: the renames are left to the system to write back.
DurableAfterSyncLazy == durable

\* The sync of the directory covers every name in it.
DurableAfterSync == file

\* sync_parent_best_effort: a sync that is refused is a warning, and the install
\* goes on as after one that is not.
SyncParent(i) ==
    /\ installer[i].step = "sync"
    /\ \/ /\ durable' = DurableAfterSync
          /\ unsynced' = FALSE
          /\ UNCHANGED accidents
       \/ /\ accidents < MaxAccidents
          /\ accidents' = accidents + 1
          /\ unsynced' = TRUE
          /\ UNCHANGED durable
    /\ installer' = [installer EXCEPT
          ![i].step = IF installer[i].next = Len(InstallOrder) THEN "verify" ELSE "write",
          ![i].next = IF installer[i].next = Len(InstallOrder) THEN @ ELSE @ + 1]
    /\ UNCHANGED <<file, directory, spoiled, leftover, installed, installs>>

\* The installed pack is loaded before success is reported.
VerifyInstalled(i) ==
    /\ installer[i].step = "verify"
    /\ IF installer[i].alone /\ FromPackDir(file)
       THEN Finish(i, installer[i].version) /\ spoiled' = FALSE
       ELSE Finish(i, Absent) /\ UNCHANGED spoiled
    /\ UNCHANGED <<diskVars, leftover, installs, accidents>>

\* An error while creating, writing or renaming: the temporary file, if any, is
\* removed and the install is given up.  So it is when no name is free.
StepFails(i) ==
    /\ installer[i].step \in {"write", "rename"}
    /\ Finish(i, Absent)
    /\ leftover' = IF installer[i].step = "write" THEN leftover
                   ELSE leftover \ {<<i, Current(i), installer[i].attempt>>}
    /\ UNCHANGED <<diskVars, spoiled, installs, accidents>>

-----------------------------------------------------------------------------
(* Accidents                                                                *)

\* The process dies; its temporary file stays.
ProcessDies(i) ==
    /\ Active(i)
    /\ accidents < MaxAccidents
    /\ accidents' = accidents + 1
    /\ Finish(i, Absent)
    /\ UNCHANGED <<diskVars, spoiled, leftover, installs>>

\* A rename that was not synced may or may not have reached the disk, each on
\* its own.
DirectorySurvives ==
    /\ directory' = IF directory = "new" THEN "kept" ELSE directory
    /\ \E lost \in SUBSET {f \in PackFile : durable[f] # file[f]} :
          file' = [f \in PackFile |->
                      IF f \in lost THEN durable[f] ELSE file[f]]
    /\ UNCHANGED leftover

\* Nor may the name of a directory that was created since the last loss of
\* power; all that is in it goes with it.
DirectoryIsLost ==
    /\ directory = "new"
    /\ directory' = "absent"
    /\ file' = [f \in PackFile |-> Absent]
    /\ leftover' = {}

\* Every process dies, and the disk shows what has reached it.
PowerLoss ==
    /\ accidents < MaxAccidents
    /\ accidents' = accidents + 1
    /\ installer' = [i \in Installer |-> Idle]
    /\ DirectorySurvives \/ DirectoryIsLost
    /\ durable' = file'
    /\ unsynced' = FALSE
    /\ spoiled' = (spoiled \/ unsynced)
    /\ UNCHANGED <<installed, installs>>

-----------------------------------------------------------------------------

\* The directory does not exist yet, or holds a pack.
StoreInit ==
    /\ \E c \in Version \cup {Absent} :
          /\ file = [f \in PackFile |-> c]
          /\ durable = file
          /\ installed = c
          /\ directory = IF c = Absent THEN "absent" ELSE "kept"
    /\ unsynced = FALSE
    /\ spoiled = FALSE
    /\ leftover = {}
    /\ installer = [i \in Installer |-> Idle]
    /\ installs = 0
    /\ accidents = 0

InstallerNext(i) ==
    \/ \E v \in Version : InstallPack(i, v)
    \/ WriteTemp(i)
    \/ RenameTemp(i)
    \/ SyncParent(i)
    \/ VerifyInstalled(i)
    \/ StepFails(i)
    \/ ProcessDies(i)

StoreNext == PowerLoss \/ \E i \in Installer : InstallerNext(i)

StoreSpec == StoreInit /\ [][StoreNext]_storeVars

-----------------------------------------------------------------------------
(* Properties                                                               *)

\* A pack whose manifest is there (what `pack list` lists) has all its files,
\* whole, at every moment: between the steps of installs that run at the same
\* time, after one that failed or died, after a sync that was refused, and after
\* a loss of power, unless that followed a sync that was refused.
ListedPackLoads ==
    ~spoiled /\ file["manifest"] # Absent => FromPackDir(file)

\* What `pack install` reported stays true, or is gone as a whole: when an
\* install that was alone has succeeded and no other has begun, every file of the
\* directory is of that version, whatever earlier installs had left there.  So
\* it is after a loss of power, but that a directory no earlier install had left
\* may not be there at all, and that a refused sync voids the promise.
ReportedInstallLasts ==
    ~spoiled /\ installed # Absent =>
        \/ \A f \in PackFile : file[f] = installed
        \/ directory = "absent" /\ \A f \in PackFile : file[f] = Absent

=============================================================================
