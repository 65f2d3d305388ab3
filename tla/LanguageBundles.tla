-------------------------- MODULE LanguageBundles --------------------------
(***************************************************************************)
(* A host process that builds engines from an installed pack through the C  *)
(* ABI, while PackStore's processes may be replacing the pack.  The files   *)
(* are read one after the other; a bundle that loaded is kept in a map for   *)
(* the life of the process (cached_language_bundle), which is locked to     *)
(* look and to insert, but not to load.                                     *)
(*                                                                         *)
(* One key of the map is modelled: keys do not interact.                    *)
(***************************************************************************)
EXTENDS PackStore

CONSTANTS
    Thread,         \* threads of the host, each building one engine per process
    NoBundle        \* no entry in the map, no bundle of an engine

ASSUME BundlesAssumption == NoBundle \notin Thread

VARIABLES
    cache,          \* NoBundle or the thread whose bundle is kept for the key
    thread          \* what each thread is doing

hostVars   == <<cache, thread>>
bundleVars == <<storeVars, hostVars>>

\* A bundle is told from another by the thread that loaded it.
Unread == [f \in PackFile |-> Absent]
AtRest == [step |-> "idle", content |-> Unread, quiet |-> FALSE, bundle |-> NoBundle]

Installing == \E i \in Installer : Active(i)

\* from_pack_dir reads the manifest first, then the three artifacts.
ReadOrder == <<"manifest", "ngrams", "dict", "dict_prefix">>

-----------------------------------------------------------------------------
(* typeclaw_engine_new_from_pack_dir                                        *)

\* new_engine_or_error: an engine, or null when its config is invalid.
NewEngineOrError(t, bundle, valid) ==
    thread' = [thread EXCEPT ![t] =
                  IF valid THEN [AtRest EXCEPT !.step = "engine", !.bundle = bundle]
                           ELSE AtRest]

\* The load fails: null, and the map stays as it was.  The host may ask again.
LoadFails(t) == thread' = [thread EXCEPT ![t] = AtRest]

\* cached_language_bundle, the first look under the lock.
LookUp(t, valid) ==
    /\ thread[t].step = "idle"
    /\ IF cache # NoBundle
       THEN NewEngineOrError(t, cache, valid)
       ELSE thread' = [thread EXCEPT ![t].step = "manifest", ![t].quiet = ~Installing]
    /\ UNCHANGED <<cache, storeVars>>

\* One file of the pack is read.  A file that is missing ends the load, and so
\* does one that does not decode, once all are read; nothing relates the three
\* artifacts and the manifest to each other.
ReadPackFile(t, k) ==
    LET f    == ReadOrder[k]
        read == [thread[t].content EXCEPT ![f] = file[f]]
        last == k = Len(ReadOrder)
    IN /\ thread[t].step = f
       /\ IF file[f] = Absent \/ (last /\ ~FromPackDir(read))
          THEN LoadFails(t)
          ELSE thread' = [thread EXCEPT
                  ![t].content = read,
                  ![t].step = IF last THEN "insert" ELSE ReadOrder[k + 1]]
       /\ UNCHANGED <<cache, storeVars>>

\* Mistake: every load is kept, the last one wins.
InsertedLastWins(t) == t

\* The entry of the key after the second look: an entry that another thread
\* has made meanwhile is kept.
Inserted(t) == IF cache # NoBundle THEN cache ELSE t

Insert(t, valid) ==
    /\ thread[t].step = "insert"
    /\ cache' = Inserted(t)
    /\ NewEngineOrError(t, Inserted(t), valid)
    /\ UNCHANGED storeVars

HostRestarts ==
    /\ accidents < MaxAccidents
    /\ accidents' = accidents + 1
    /\ cache' = NoBundle
    /\ thread' = [t \in Thread |-> AtRest]
    /\ UNCHANGED <<diskVars, spoiled, leftover, installer, installed, installs>>

-----------------------------------------------------------------------------

BundlesInit ==
    /\ StoreInit
    /\ cache = NoBundle
    /\ thread = [t \in Thread |-> AtRest]

ThreadNext(t) ==
    \/ \E valid \in BOOLEAN : LookUp(t, valid) \/ Insert(t, valid)
    \/ \E k \in 1..Len(ReadOrder) : ReadPackFile(t, k)

\* PackStore's processes take their steps, and a loss of power stops the host.
StoreStep ==
    \/ /\ \E i \in Installer : InstallerNext(i)
       /\ thread' = [t \in Thread |-> [thread[t] EXCEPT !.quiet = @ /\ ~Installing']]
       /\ UNCHANGED cache
    \/ /\ PowerLoss
       /\ cache' = NoBundle
       /\ thread' = [t \in Thread |-> AtRest]
BundlesNext == StoreStep \/ HostRestarts \/ \E t \in Thread : ThreadNext(t)

BundlesSpec == BundlesInit /\ [][BundlesNext]_bundleVars

-----------------------------------------------------------------------------
(* Properties                                                               *)

\* However many threads build engines from one pack at once, and whatever is
\* installed meanwhile, all engines of a process share one bundle.
OneBundlePerKey ==
    \A t \in Thread : thread[t].step = "engine" => thread[t].bundle = cache

\* A bundle read while nothing was being installed, of a directory whose last
\* install was alone and successful, is one version of the pack, and so is
\* what is read after a later failure or restart, or a loss of power that did
\* not follow a refused sync: a load never sees what is left of a lost directory.
QuietLoadIsOneVersion ==
    \A t \in Thread :
        thread[t].step = "insert" /\ thread[t].quiet /\ installed # Absent /\ ~spoiled =>
            thread[t].content = [f \in PackFile |-> installed]

=============================================================================
