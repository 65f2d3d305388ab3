------------------------ MODULE LanguageBundlesProofs -----------------------
(***************************************************************************)
(* The store of packs: a pack that is listed always loads, and an install that*)
(* was reported stays or is gone as a whole, unless power is lost after a sync *)
(* that was refused, for every number of install processes, versions,      *)
(* temporary names, installs and accidents.  The bundles read from it: the *)
(* engines of a host process share one bundle, and a load that no install  *)
(* disturbs reads one version, for every number of threads, deaths and restarts.*)
(***************************************************************************)
EXTENDS LanguageBundles, TLAPS

-----------------------------------------------------------------------------
(* The inductive invariant                                                  *)

Content == Version \cup {Absent}

InstallerState == [step : {"idle", "write", "rename", "sync", "verify"},
                   version : Content, next : 1..4, attempt : 0..MaxAttempts,
                   temp : Content, alone : BOOLEAN]

StoreTypeOK ==
    /\ file \in [PackFile -> Content]
    /\ durable \in [PackFile -> Content]
    /\ directory \in {"absent", "new", "kept"}
    /\ unsynced \in BOOLEAN
    /\ spoiled \in BOOLEAN
    /\ installer \in [Installer -> InstallerState]
    /\ installed \in Content

\* A name is there, and will be after a loss of power if no sync was refused.
There(f) == file[f] # Absent /\ (~unsynced => durable[f] # Absent)

\* So it is, with the content c.
Holds(f, c) == file[f] = c /\ (~unsynced => durable[f] = c)

\* What an active installer may rely on: it copies a version, and the files it
\* is past are there.
Progressing(i) ==
    Active(i) =>
        /\ installer[i].version \in Version
        /\ installer[i].step = "rename" => installer[i].temp = installer[i].version
        /\ \A k \in 1..4 : k < installer[i].next => There(InstallOrder[k])
        /\ installer[i].step = "sync" => file[Current(i)] # Absent

\* A name that survives a loss of power is there; once the manifest is there
\* the artifacts are.
Ordered ==
    /\ \A f \in PackFile : durable[f] # Absent => file[f] # Absent
    /\ ~spoiled /\ file["manifest"] # Absent =>
          \A f \in PackFile : f # "manifest" => There(f)

\* An installer that was alone all along has made what it is past its own.
Alone(i) ==
    Active(i) /\ installer[i].alone =>
        /\ \A j \in Installer : Active(j) => j = i
        /\ \A k \in 1..4 :
              k < installer[i].next => Holds(InstallOrder[k], installer[i].version)
        /\ installer[i].step = "sync" => file[Current(i)] = installer[i].version
        /\ installer[i].step = "verify" =>
              \A f \in PackFile : Holds(f, installer[i].version)

\* A reported install is all there is, on the disk too, or its directory is
\* gone with all that was in it; and nobody is at work.
Reported ==
    installed # Absent =>
        /\ \A i \in Installer : ~Active(i)
        /\ ~spoiled => \/ \A f \in PackFile : Holds(f, installed)
                       \/ /\ directory = "absent"
                          /\ \A f \in PackFile : file[f] = Absent /\ durable[f] = Absent

StoreInv ==
    /\ StoreTypeOK
    /\ \A i \in Installer : Progressing(i)
    /\ Ordered
    /\ \A i \in Installer : Alone(i)
    /\ Reported

-----------------------------------------------------------------------------
(* The order of the files                                                   *)

\* The manifest is the last of the four.
LEMMA OrderOfFiles ==
    /\ Len(InstallOrder) = 4
    /\ \A k \in 1..4 : InstallOrder[k] \in PackFile
    /\ \A k \in 1..4 : InstallOrder[k] = "manifest" <=> k = 4
    /\ \A f \in PackFile : \E k \in 1..4 : InstallOrder[k] = f
BY DEF InstallOrder, PackFile

\* An installer at rest is a state of an installer, and is not active.
LEMMA IdleState == Idle \in InstallerState /\ Idle.step = "idle"
BY StoreAssumption DEF Idle, InstallerState, Content

\* The invariant holds before anything is installed.
LEMMA StoreInitSound == StoreInit => StoreInv
<1> SUFFICES ASSUME StoreInit PROVE StoreInv
  OBVIOUS
<1>1. PICK c \in Content : file = [f \in PackFile |-> c] /\ durable = file /\ installed = c
  BY DEF StoreInit, Content
<1>2. \A i \in Installer : installer[i] = Idle
  BY DEF StoreInit
<1>3. StoreTypeOK
  BY <1>1, IdleState DEF StoreTypeOK, StoreInit
<1>4. \A i \in Installer : ~Active(i)
  BY <1>2, IdleState DEF Active
<1> QED
  BY <1>1, <1>3, <1>4 DEF StoreInv, Progressing, Alone, Reported, Ordered, PackFile,
                          There, Holds

-----------------------------------------------------------------------------
(* Each step preserves the invariant                                        *)

\* A new install finds only what the directory holds; installs that were at
\* work are no longer alone.
LEMMA InstallPackSound ==
    ASSUME StoreInv, NEW i \in Installer, NEW v \in Version, InstallPack(i, v)
    PROVE  StoreInv'
<1>1. /\ file' = file /\ durable' = durable /\ installed' = Absent
      /\ unsynced' = unsynced /\ spoiled' = spoiled
      /\ directory' \in {directory, "new"}
  BY DEF InstallPack
<1> DEFINE nobody == \A k \in Installer : ~Active(k)
           started == [Idle EXCEPT !.step = "write", !.version = v, !.alone = nobody]
<1>3. installer'[i] = started
  BY DEF InstallPack
<1>10. nobody \in BOOLEAN /\ (nobody => \A k \in Installer : ~Active(k))
  OBVIOUS
<1> HIDE DEF nobody
<1>2. /\ started \in InstallerState
      /\ started.step = "write" /\ started.version = v /\ started.next = 1
      /\ started.alone = nobody
  <2>1. Idle \in InstallerState /\ Idle.next = 1
    BY IdleState DEF Idle
  <2>2. v \in Content
    BY DEF Content
  <2>3. started \in InstallerState
    BY <1>10, <2>1, <2>2, Zenon DEF InstallerState
  <2>4. ASSUME NEW b
        PROVE  LET r == [Idle EXCEPT !.step = "write", !.version = v, !.alone = b]
               IN  r.step = "write" /\ r.version = v /\ r.next = 1 /\ r.alone = b
    BY <2>1 DEF InstallerState
  <2> QED
    BY <2>3, <2>4, Zenon
<1> HIDE DEF started
<1>4. \A j \in Installer : j # i =>
         /\ installer'[j] = [installer[j] EXCEPT !.alone = FALSE]
         /\ installer[j] \in InstallerState
  BY DEF InstallPack, StoreInv, StoreTypeOK
<1>5. ASSUME NEW j \in Installer, j # i
      PROVE  /\ installer'[j] \in InstallerState
             /\ installer'[j].step = installer[j].step
             /\ installer'[j].version = installer[j].version
             /\ installer'[j].next = installer[j].next
             /\ installer'[j].temp = installer[j].temp
             /\ installer'[j].alone = FALSE
  BY <1>4, <1>5 DEF InstallerState
<1>6. installer' \in [Installer -> InstallerState]
  <2>1. installer' = [j \in Installer |-> installer'[j]]
    BY DEF InstallPack
  <2> QED
    BY <2>1, <1>2, <1>3, <1>5
<1>7. StoreTypeOK'
  BY <1>1, <1>6 DEF StoreInv, StoreTypeOK, Content
<1>8. ASSUME NEW j \in Installer PROVE Progressing(j)'
  <2>1. CASE j = i
    BY <2>1, <1>2, <1>3 DEF Progressing, Active
  <2>2. CASE j # i
    BY <2>2, <1>1, <1>5 DEF Progressing, Active, Current, StoreInv, There
  <2> QED
    BY <2>1, <2>2
<1>9. ASSUME NEW j \in Installer PROVE Alone(j)'
  <2>1. CASE j = i
    <3>1. started.alone => \A k \in Installer : Active(k)' => k = j
      BY <2>1, <1>2, <1>5, <1>10 DEF Active
    <3> QED
      BY <2>1, <3>1, <1>2, <1>3 DEF Alone
  <2>2. CASE j # i
    BY <2>2, <1>5 DEF Alone
  <2> QED
    BY <2>1, <2>2
<1> QED
  BY <1>1, <1>7, <1>8, <1>9 DEF StoreInv, Ordered, Reported, There

\* What a step of one installer leaves of the others.
LEMMA OneInstallerSteps ==
    ASSUME StoreInv, NEW i \in Installer, NEW s \in InstallerState,
           installer' = [installer EXCEPT ![i] = s]
    PROVE  /\ installer' \in [Installer -> InstallerState]
           /\ installer'[i] = s
           /\ \A j \in Installer : j # i => installer'[j] = installer[j]
BY DEF StoreInv, StoreTypeOK

\* An installer that is alone is the only one to step.
LEMMA AloneMeansAlone ==
    ASSUME StoreInv, NEW i \in Installer, Active(i), NEW j \in Installer, j # i
    PROVE  ~(Active(j) /\ installer[j].alone)
BY DEF StoreInv, Alone

\* A temporary file is new, so it holds the version that is copied into it.
LEMMA WriteTempSound ==
    ASSUME StoreInv, NEW i \in Installer, WriteTemp(i)
    PROVE  StoreInv'
<1>1. /\ file' = file /\ durable' = durable /\ installed' = installed
      /\ directory' = directory /\ unsynced' = unsynced /\ spoiled' = spoiled
      /\ installer[i].step = "write" /\ Active(i)
  BY DEF WriteTemp, Active, diskVars
<1>2. PICK a \in FreeAttempts(i) :
         installer' = [installer EXCEPT
            ![i].step = "rename", ![i].attempt = a,
            ![i].temp = IF <<i, Current(i), a>> \in leftover THEN Torn
                        ELSE installer[i].version]
  BY DEF WriteTemp
<1> DEFINE s == [installer[i] EXCEPT !.step = "rename", !.attempt = a,
                                     !.temp = installer[i].version]
<1>3. a \in 1..MaxAttempts /\ <<i, Current(i), a>> \notin leftover
  BY DEF FreeAttempts
<1>4. installer' = [installer EXCEPT ![i] = s]
  BY <1>2, <1>3
<1>5. installer[i] \in InstallerState
  BY DEF StoreInv, StoreTypeOK
<1>6. /\ s.step = "rename" /\ s.temp = installer[i].version
      /\ s.version = installer[i].version /\ s.next = installer[i].next
      /\ s.alone = installer[i].alone
  BY <1>5 DEF InstallerState
<1>7. a \in 0..MaxAttempts
  BY <1>3, StoreAssumption
<1>8. s \in InstallerState
  BY <1>5, <1>7, Zenon DEF InstallerState
<1> HIDE DEF s
<1>9. /\ installer' \in [Installer -> InstallerState]
      /\ installer'[i] = s
      /\ \A j \in Installer : j # i => installer'[j] = installer[j]
  BY <1>4, <1>8, OneInstallerSteps
<1>10. \A j \in Installer : Active(j)' <=> Active(j)
  BY <1>1, <1>6, <1>9 DEF Active
<1>11. StoreTypeOK'
  BY <1>1, <1>9 DEF StoreInv, StoreTypeOK
<1>12. ASSUME NEW j \in Installer PROVE Progressing(j)'
  BY <1>1, <1>6, <1>9, <1>10 DEF Progressing, Active, Current, StoreInv, There
<1>13. ASSUME NEW j \in Installer PROVE Alone(j)'
  BY <1>1, <1>6, <1>9, <1>10 DEF Alone, Active, Current, StoreInv, Holds
<1> QED
  BY <1>1, <1>10, <1>11, <1>12, <1>13 DEF StoreInv, Ordered, Reported, There, Holds

\* A rename shows the version that was copied; the manifest appears when the
\* artifacts are safe.
LEMMA RenameTempSound ==
    ASSUME StoreInv, NEW i \in Installer, RenameTemp(i)
    PROVE  StoreInv'
<1> DEFINE f == Current(i)
           s == [installer[i] EXCEPT !.step = "sync"]
<1>1. /\ durable' = durable /\ installed' = installed
      /\ directory' = directory /\ unsynced' = unsynced /\ spoiled' = spoiled
      /\ installer[i].step = "rename" /\ Active(i)
      /\ installer' = [installer EXCEPT ![i] = s]
  BY DEF RenameTemp, Active
<1>2. installer[i] \in InstallerState
  BY DEF StoreInv, StoreTypeOK
<1>3. installer[i].next \in 1..4 /\ installer[i].version \in Version
  BY <1>1, <1>2 DEF InstallerState, StoreInv, Progressing
<1>4. f \in PackFile /\ (f = "manifest" => installer[i].next = 4)
  BY <1>3, OrderOfFiles DEF Current
<1>5. file' = [file EXCEPT ![f] = installer[i].version]
  BY <1>1 DEF RenameTemp, StoreInv, Progressing
<1>6. /\ s.step = "sync" /\ s.temp = installer[i].temp
      /\ s.version = installer[i].version /\ s.next = installer[i].next
      /\ s.alone = installer[i].alone
  BY <1>2 DEF InstallerState
<1>7. s \in InstallerState
  BY <1>2, Zenon DEF InstallerState
<1> HIDE DEF s
<1>8. /\ installer' \in [Installer -> InstallerState]
      /\ installer'[i] = s
      /\ \A j \in Installer : j # i => installer'[j] = installer[j]
  BY <1>1, <1>7, OneInstallerSteps
<1>9. \A j \in Installer : Active(j)' <=> Active(j)
  BY <1>1, <1>6, <1>8 DEF Active
<1>10. /\ file' \in [PackFile -> Content]
       /\ file'[f] = installer[i].version /\ file'[f] # Absent
       /\ \A g \in PackFile : g # f => file'[g] = file[g]
  BY <1>3, <1>4, <1>5, StoreAssumption DEF StoreInv, StoreTypeOK, Content
<1>11. Current(i)' = f
  BY <1>6, <1>8 DEF Current
<1> HIDE DEF f
<1>12. StoreTypeOK'
  BY <1>1, <1>8, <1>10 DEF StoreInv, StoreTypeOK
<1>13. ASSUME NEW j \in Installer PROVE Progressing(j)'
  <2>1. CASE j = i
    <3>1. \A k \in 1..4 : k < installer[i].next => There(InstallOrder[k])'
      BY <1>1, <1>10, OrderOfFiles DEF Progressing, StoreInv, There
    <3> QED
      BY <2>1, <3>1, <1>1, <1>3, <1>6, <1>8, <1>10, <1>11 DEF Progressing, StoreInv
  <2>2. CASE j # i
    <3>1. Current(j)' = Current(j) /\ (Active(j) => Current(j) \in PackFile)
      BY <2>2, <1>8, OrderOfFiles DEF Current, StoreInv, StoreTypeOK, InstallerState
    <3> QED
      BY <2>2, <3>1, <1>1, <1>8, <1>9, <1>10, OrderOfFiles DEF Progressing, StoreInv, There
  <2> QED
    BY <2>1, <2>2
<1>14. Ordered'
  <2>1. \A g \in PackFile : durable[g] # Absent => file'[g] # Absent
    BY <1>10 DEF StoreInv, Ordered
  <2>2. f = "manifest" => \A g \in PackFile : g # "manifest" => There(g)
    <3> SUFFICES ASSUME f = "manifest", NEW g \in PackFile, g # "manifest"
                 PROVE  There(g)
      OBVIOUS
    <3>1. PICK k \in 1..4 : InstallOrder[k] = g
      BY OrderOfFiles
    <3>2. k # 4
      BY <3>1, OrderOfFiles
    <3> QED
      BY <3>1, <3>2, <1>1, <1>4 DEF StoreInv, Progressing
  <2>3. f # "manifest" => file'["manifest"] = file["manifest"]
    BY <1>10 DEF PackFile
  <2>4. \A g \in PackFile : There(g) => There(g)'
    BY <1>1, <1>10 DEF There
  <2> QED
    BY <2>1, <2>2, <2>3, <2>4, <1>1 DEF StoreInv, Ordered
<1>15. ASSUME NEW j \in Installer PROVE Alone(j)'
  <2>1. CASE j = i
    <3> SUFFICES ASSUME Active(i)', installer'[i].alone
                 PROVE  Alone(i)'
      BY <2>1 DEF Alone
    <3>1. Alone(i) /\ installer[i].alone
      BY <1>6, <1>8 DEF StoreInv
    <3>2. \A k \in 1..4 : k < installer[i].next =>
             Holds(InstallOrder[k], installer[i].version)'
      BY <3>1, <1>1, <1>6, <1>8, <1>10, OrderOfFiles DEF Alone, Holds
    <3> QED
      BY <3>1, <3>2, <1>1, <1>6, <1>8, <1>9, <1>10, <1>11 DEF Alone
  <2>2. CASE j # i
    BY <2>2, <1>1, <1>8, <1>9, AloneMeansAlone DEF Alone
  <2> QED
    BY <2>1, <2>2
<1>16. Reported'
  BY <1>1 DEF StoreInv, Reported
<1> QED
  BY <1>12, <1>13, <1>14, <1>15, <1>16 DEF StoreInv

\* The sync makes safe whatever the directory shows, other installers' work
\* too.  When it is refused nothing is safe until the next one.
LEMMA SyncParentSound ==
    ASSUME StoreInv, NEW i \in Installer, SyncParent(i)
    PROVE  StoreInv'
<1> DEFINE last == installer[i].next = 4
           s == [installer[i] EXCEPT
                    !.step = IF last THEN "verify" ELSE "write",
                    !.next = IF last THEN @ ELSE @ + 1]
<1>1. /\ file' = file /\ installed' = installed
      /\ directory' = directory /\ spoiled' = spoiled
      /\ \/ durable' = file /\ unsynced' = FALSE
         \/ durable' = durable /\ unsynced' = TRUE
      /\ installer[i].step = "sync" /\ Active(i)
  BY DEF SyncParent, DurableAfterSync, Active
<1>2. installer' = [installer EXCEPT ![i] = s]
  BY OrderOfFiles DEF SyncParent
<1>3. installer[i] \in InstallerState /\ installer[i].next \in 1..4
  BY DEF StoreInv, StoreTypeOK, InstallerState
<1>4. /\ s.step = (IF last THEN "verify" ELSE "write")
      /\ s.next = (IF last THEN 4 ELSE installer[i].next + 1)
      /\ s.version = installer[i].version /\ s.temp = installer[i].temp
      /\ s.alone = installer[i].alone
  BY <1>3 DEF InstallerState
<1>5. s \in InstallerState
  <2>1. (IF last THEN installer[i].next ELSE installer[i].next + 1) \in 1..4
    BY <1>3
  <2>2. (IF last THEN "verify" ELSE "write") \in {"idle", "write", "rename", "sync", "verify"}
    OBVIOUS
  <2> QED
    BY <1>3, <2>1, <2>2, Zenon DEF InstallerState
<1> HIDE DEF s
<1>6. /\ installer' \in [Installer -> InstallerState]
      /\ installer'[i] = s
      /\ \A j \in Installer : j # i => installer'[j] = installer[j]
  BY <1>2, <1>5, OneInstallerSteps
<1>7. \A j \in Installer : Active(j)' <=> Active(j)
  BY <1>1, <1>4, <1>6 DEF Active
<1>8. StoreTypeOK'
  BY <1>1, <1>6 DEF StoreInv, StoreTypeOK
<1>9. \A k \in 1..4 : k < s.next => k < installer[i].next \/ k = installer[i].next
  BY <1>3, <1>4
<1>10. ASSUME NEW j \in Installer PROVE Progressing(j)'
  <2>1. \A f \in PackFile : file[f] # Absent => There(f)'
    BY <1>1 DEF There
  <2>2. CASE j = i
    <3>1. \A k \in 1..4 : k < s.next => There(InstallOrder[k])'
      BY <2>1, <1>1, <1>9, OrderOfFiles DEF StoreInv, Progressing, Current, There
    <3> QED
      BY <2>2, <3>1, <1>1, <1>4, <1>6 DEF Progressing, StoreInv
  <2>3. CASE j # i
    BY <2>1, <2>3, <1>1, <1>6, <1>7, OrderOfFiles DEF Progressing, Current, StoreInv, There
  <2> QED
    BY <2>2, <2>3
<1>11. Ordered'
  BY <1>1 DEF StoreInv, Ordered, There
<1>12. ASSUME NEW j \in Installer PROVE Alone(j)'
  <2>1. CASE j = i
    <3> SUFFICES ASSUME Active(i)', installer'[i].alone
                 PROVE  Alone(i)'
      BY <2>1 DEF Alone
    <3>1. Alone(i) /\ installer[i].alone
      BY <1>4, <1>6 DEF StoreInv
    <3>2. \A k \in 1..4 : k < s.next => file[InstallOrder[k]] = installer[i].version
      BY <3>1, <1>1, <1>9 DEF Alone, Current, Holds
    <3>3. last => \A g \in PackFile : file[g] = installer[i].version
      <4> SUFFICES ASSUME last, NEW g \in PackFile
                   PROVE  file[g] = installer[i].version
        OBVIOUS
      <4>1. PICK k \in 1..4 : InstallOrder[k] = g
        BY OrderOfFiles
      <4> QED
        BY <4>1, <3>1, <1>1, <1>3 DEF Alone, Current, Holds
    <3>4. \A g \in PackFile : \A c : file[g] = c => Holds(g, c)'
      BY <1>1 DEF Holds
    <3> QED
      BY <3>1, <3>2, <3>3, <3>4, <1>1, <1>4, <1>6, <1>7, OrderOfFiles DEF Alone
  <2>2. CASE j # i
    BY <2>2, <1>1, <1>6, <1>7, AloneMeansAlone DEF Alone
  <2> QED
    BY <2>1, <2>2
<1>13. Reported'
  BY <1>1 DEF StoreInv, Reported, Holds
<1> QED
  BY <1>8, <1>10, <1>11, <1>12, <1>13 DEF StoreInv

\* An install that ends leaves the files as they are.  It may be reported only
\* when it was alone and every file is of its version.
LEMMA FinishSound ==
    ASSUME StoreInv, NEW i \in Installer, Active(i), NEW result,
           Finish(i, result), UNCHANGED diskVars,
           \/ result = Absent /\ spoiled' = spoiled
           \/ /\ result = installer[i].version /\ spoiled' = FALSE
              /\ installer[i].alone /\ installer[i].step = "verify"
    PROVE  StoreInv'
<1>1. /\ installer' = [installer EXCEPT ![i] = Idle]
      /\ installed' = result /\ file' = file /\ durable' = durable
      /\ directory' = directory /\ unsynced' = unsynced
  BY DEF Finish, diskVars
<1>2. /\ installer' \in [Installer -> InstallerState]
      /\ installer'[i] = Idle
      /\ \A j \in Installer : j # i => installer'[j] = installer[j]
  BY <1>1, IdleState, OneInstallerSteps
<1>3. ~Active(i)' /\ \A j \in Installer : j # i => (Active(j)' <=> Active(j))
  BY <1>2, IdleState DEF Active
<1>4. installer[i].version \in Version /\ installer[i].version # Absent
  BY StoreAssumption DEF StoreInv, Progressing
<1>5. StoreTypeOK'
  BY <1>1, <1>2, <1>4 DEF StoreInv, StoreTypeOK, Content
<1>6. ASSUME NEW j \in Installer PROVE Progressing(j)' /\ Alone(j)'
  <2>1. CASE j = i
    BY <2>1, <1>3 DEF Progressing, Alone
  <2>2. CASE j # i
    BY <2>2, <1>1, <1>2, <1>3 DEF StoreInv, Progressing, Alone, Current, There, Holds
  <2> QED
    BY <2>1, <2>2
<1>7. Reported'
  <2>1. CASE result = Absent
    BY <2>1, <1>1 DEF Reported
  <2>2. CASE result # Absent
    BY <2>2, <1>1, <1>3 DEF StoreInv, Alone, Reported, Holds
  <2> QED
    BY <2>1, <2>2
<1>8. Ordered'
  <2>1. CASE result = Absent
    BY <2>1, <1>1, <1>4 DEF StoreInv, Ordered, There
  <2>2. CASE result # Absent
    BY <2>2, <1>1, <1>4 DEF StoreInv, Alone, Ordered, There, Holds
  <2> QED
    BY <2>1, <2>2
<1> QED
  BY <1>5, <1>6, <1>7, <1>8 DEF StoreInv

\* Success is reported of an install that was alone, and of no other.
LEMMA VerifyInstalledSound ==
    ASSUME StoreInv, NEW i \in Installer, VerifyInstalled(i)
    PROVE  StoreInv'
<1> DEFINE result == IF installer[i].alone /\ FromPackDir(file)
                     THEN installer[i].version ELSE Absent
<1>1. /\ Active(i) /\ Finish(i, result) /\ UNCHANGED diskVars
      /\ installer[i].step = "verify"
      /\ spoiled' = IF installer[i].alone /\ FromPackDir(file) THEN FALSE ELSE spoiled
  BY DEF VerifyInstalled, Active
<1> QED
  BY <1>1, FinishSound

\* A failure or a death reports nothing.
LEMMA GivenUpSound ==
    ASSUME StoreInv, NEW i \in Installer, StepFails(i) \/ ProcessDies(i)
    PROVE  StoreInv'
<1>1. Active(i) /\ Finish(i, Absent) /\ UNCHANGED <<diskVars, spoiled>>
  BY DEF StepFails, ProcessDies, Active
<1> QED
  BY <1>1, FinishSound

\* Whatever part of the renames reached the disk, the manifest did not reach it
\* before the artifacts, and a directory that is lost takes all of them along.
LEMMA PowerLossSound ==
    ASSUME StoreInv, PowerLoss
    PROVE  StoreInv'
<1>1. /\ durable' = file' /\ installed' = installed /\ unsynced' = FALSE
      /\ spoiled' = (spoiled \/ unsynced)
      /\ installer' = [i \in Installer |-> Idle]
  BY DEF PowerLoss
<1>2. \A i \in Installer : ~Active(i)'
  BY <1>1, IdleState DEF Active
<1>3. CASE DirectorySurvives
  <2>1. PICK lost \in SUBSET {f \in PackFile : durable[f] # file[f]} :
           file' = [f \in PackFile |-> IF f \in lost THEN durable[f] ELSE file[f]]
    BY <1>3 DEF DirectorySurvives
  <2>2. \A f \in PackFile : file'[f] = file[f] \/ file'[f] = durable[f]
    BY <2>1
  <2>3. directory' = IF directory = "new" THEN "kept" ELSE directory
    BY <1>3 DEF DirectorySurvives
  <2>4. StoreTypeOK'
    BY <1>1, <2>1, <2>3, IdleState DEF StoreInv, StoreTypeOK
  <2>5. Ordered'
    BY <1>1, <2>2 DEF StoreInv, StoreTypeOK, Ordered, PackFile, There
  <2>6. Reported'
    BY <1>1, <1>2, <2>2, <2>3 DEF StoreInv, StoreTypeOK, Reported, Holds
  <2> QED
    BY <1>2, <2>4, <2>5, <2>6 DEF StoreInv, Progressing, Alone
<1>4. CASE DirectoryIsLost
  <2>1. directory' = "absent" /\ file' = [f \in PackFile |-> Absent]
    BY <1>4 DEF DirectoryIsLost
  <2>2. \A f \in PackFile : file'[f] = Absent
    BY <2>1
  <2>3. StoreTypeOK'
    BY <1>1, <2>1, IdleState DEF StoreInv, StoreTypeOK, Content
  <2>4. Ordered' /\ Reported'
    BY <1>1, <1>2, <2>1, <2>2 DEF Ordered, PackFile, Reported
  <2> QED
    BY <1>2, <2>3, <2>4 DEF StoreInv, Progressing, Alone
<1> QED
  BY <1>3, <1>4 DEF PowerLoss

\* What the invariant says of the store depends on these variables only.
LEMMA StoreInvKept ==
    ASSUME StoreInv, UNCHANGED <<diskVars, spoiled, installer, installed>>
    PROVE  StoreInv'
BY DEF diskVars, StoreInv, StoreTypeOK, Progressing, Ordered, Alone,
       Reported, Active, Current, There, Holds

\* Every step of the store, and of what leaves it alone.
LEMMA StoreStepSound ==
    ASSUME StoreInv, [StoreNext]_storeVars
    PROVE  StoreInv'
<1>1. CASE UNCHANGED storeVars
  BY <1>1, StoreInvKept DEF storeVars
<1>2. CASE PowerLoss
  BY <1>2, PowerLossSound
<1>3. ASSUME NEW i \in Installer, InstallerNext(i) PROVE StoreInv'
  BY <1>3, InstallPackSound, WriteTempSound, RenameTempSound, SyncParentSound,
     VerifyInstalledSound, GivenUpSound DEF InstallerNext
<1> QED
  BY <1>1, <1>2, <1>3 DEF StoreNext

-----------------------------------------------------------------------------
(* Theorems                                                                 *)

\* The invariant of a pack directory holds however many processes install into
\* it, fail, die or lose power, with the directory itself or without it.
THEOREM StoreInvariance == StoreSpec => []StoreInv
<1>1. StoreInv /\ [StoreNext]_storeVars => StoreInv'
  BY StoreStepSound
<1> QED
  BY StoreInitSound, <1>1, PTL DEF StoreSpec

\* A pack whose manifest is there loads: the artifacts are renamed into place
\* and synced before the manifest (install_pack, atomic::copy).  Only a loss of
\* power after a refused sync (sync_parent_best_effort) is excepted.
THEOREM ListedPacksLoad == StoreSpec => []ListedPackLoads
<1>1. StoreInv => ListedPackLoads
  BY DEF StoreInv, Ordered, StoreTypeOK, Content, ListedPackLoads, FromPackDir, PackFile,
         There
<1> QED
  BY StoreInvariance, <1>1, PTL

\* What an install that was alone has reported is what the directory holds
\* until another begins (install_pack's last check); a loss of power may take it
\* only together with its directory, whose own name nothing syncs, and mixes
\* versions only after a refused sync.
THEOREM ReportedInstallsLast == StoreSpec => []ReportedInstallLasts
<1>1. StoreInv => ReportedInstallLasts
  BY DEF StoreInv, Reported, ReportedInstallLasts, Holds
<1> QED
  BY StoreInvariance, <1>1, PTL

-----------------------------------------------------------------------------
(* The bundles                                                              *)

-----------------------------------------------------------------------------
(* The inductive invariant                                                  *)

ThreadState == [step : PackFile \cup {"idle", "insert", "engine"},
                content : [PackFile -> Content],
                quiet : BOOLEAN, bundle : Thread \cup {NoBundle}]

BundlesTypeOK ==
    /\ thread \in [Thread -> ThreadState]
    /\ cache \in Thread \cup {NoBundle}

\* The files a thread has read before the step it is at.
HasRead(t, k) ==
    \/ thread[t].step = "insert"
    \/ \E m \in 1..4 : k < m /\ thread[t].step = ReadOrder[m]

Loading(t) == thread[t].step \notin {"idle", "engine"}

\* An engine's bundle is in the map for good.
Shared ==
    \A t \in Thread :
        thread[t].step = "engine" => cache # NoBundle /\ thread[t].bundle = cache

\* A load that has been quiet so far has read what the directory still shows,
\* and found each file there.
QuietReads(t) ==
    Loading(t) /\ thread[t].quiet =>
        /\ ~Installing
        /\ \A k \in 1..4 :
              HasRead(t, k) => /\ thread[t].content[ReadOrder[k]] = file[ReadOrder[k]]
                               /\ file[ReadOrder[k]] # Absent

BundlesInv ==
    /\ StoreInv
    /\ BundlesTypeOK
    /\ Shared
    /\ \A t \in Thread : QuietReads(t)

-----------------------------------------------------------------------------
(* Helpers                                                                  *)

\* The four files are read once each.
LEMMA OrderOfReading ==
    /\ Len(ReadOrder) = 4
    /\ \A k \in 1..4 : ReadOrder[k] \in PackFile
    /\ \A k, m \in 1..4 : ReadOrder[k] = ReadOrder[m] => k = m
    /\ \A f \in PackFile : \E k \in 1..4 : ReadOrder[k] = f
BY DEF ReadOrder, PackFile

\* No file's name is the name of another step of a thread.
LEMMA FilesAreNoSteps == PackFile \cap {"idle", "insert", "engine"} = {}
BY DEF PackFile

\* A thread at rest, or with an engine, is a state of a thread and reads nothing.
LEMMA AtRestState ==
    ASSUME NEW b \in Thread \cup {NoBundle}
    PROVE  LET engine == [AtRest EXCEPT !.step = "engine", !.bundle = b]
           IN  /\ AtRest \in ThreadState /\ AtRest.step = "idle"
               /\ engine \in ThreadState
               /\ engine.step = "engine" /\ engine.bundle = b
<1>1. Unread \in [PackFile -> Content]
  BY DEF Unread, Content
<1>2. AtRest \in ThreadState
  BY <1>1, Zenon DEF AtRest, ThreadState
<1>3. AtRest.step = "idle"
  BY DEF AtRest
<1>4. [AtRest EXCEPT !.step = "engine", !.bundle = b] \in ThreadState
  BY <1>2, Zenon DEF ThreadState
<1>5. /\ [AtRest EXCEPT !.step = "engine", !.bundle = b].step = "engine"
      /\ [AtRest EXCEPT !.step = "engine", !.bundle = b].bundle = b
  BY <1>2 DEF ThreadState
<1> QED
  BY <1>2, <1>3, <1>4, <1>5

\* Nothing has been read, and no engine built, when the host starts.
LEMMA FreshHostSound ==
    ASSUME StoreInv', cache' = NoBundle, thread' = [t \in Thread |-> AtRest]
    PROVE  BundlesInv'
<1>1. AtRest \in ThreadState /\ AtRest.step = "idle"
  BY AtRestState
<1>2. \A t \in Thread : thread'[t] = AtRest
  OBVIOUS
<1> QED
  BY <1>1, <1>2 DEF BundlesInv, BundlesTypeOK, Shared, QuietReads, Loading

-----------------------------------------------------------------------------
(* Each step preserves the invariant                                        *)

\* A thread's own step: what it must leave true of itself.
LEMMA OneThreadSteps ==
    ASSUME BundlesInv, NEW t \in Thread, NEW s \in ThreadState,
           thread' = [thread EXCEPT ![t] = s], UNCHANGED <<cache, storeVars>>,
           s.step = "engine" => cache # NoBundle /\ s.bundle = cache,
           QuietReads(t)'
    PROVE  BundlesInv'
<1>1. /\ \A u \in Thread : u # t => thread'[u] = thread[u]
      /\ thread'[t] = s
      /\ thread' \in [Thread -> ThreadState]
  BY DEF BundlesInv, BundlesTypeOK
<1>2. /\ file' = file /\ installer' = installer /\ cache' = cache
      /\ durable' = durable /\ installed' = installed
  BY DEF storeVars, diskVars
<1>3. StoreInv'
  BY StoreInvKept DEF BundlesInv, storeVars
<1>4. \A u \in Thread : QuietReads(u)'
  BY <1>1, <1>2 DEF BundlesInv, QuietReads, Loading, HasRead, Installing, Active
<1> QED
  BY <1>1, <1>2, <1>3, <1>4 DEF BundlesInv, BundlesTypeOK, Shared

\* Looking up the map starts a load, or finds the bundle everybody has.
LEMMA LookUpSound ==
    ASSUME BundlesInv, NEW t \in Thread, NEW valid \in BOOLEAN, LookUp(t, valid)
    PROVE  BundlesInv'
<1>1. thread[t] \in ThreadState /\ thread[t].step = "idle" /\ UNCHANGED <<cache, storeVars>>
  BY DEF LookUp, BundlesInv, BundlesTypeOK
<1>2. CASE cache # NoBundle /\ valid
  <2> DEFINE s == [AtRest EXCEPT !.step = "engine", !.bundle = cache]
  <2>1. s \in ThreadState /\ s.step = "engine" /\ s.bundle = cache
    BY AtRestState DEF BundlesInv, BundlesTypeOK
  <2>2. thread' = [thread EXCEPT ![t] = s]
    BY <1>2 DEF LookUp, NewEngineOrError
  <2> HIDE DEF s
  <2>3. thread'[t] = s
    BY <2>2 DEF BundlesInv, BundlesTypeOK
  <2>4. QuietReads(t)'
    BY <2>1, <2>3 DEF QuietReads, Loading
  <2> QED
    BY <1>1, <1>2, <2>1, <2>2, <2>4, OneThreadSteps
<1>3. CASE cache # NoBundle /\ ~valid
  <2>1. AtRest \in ThreadState /\ AtRest.step = "idle"
    BY AtRestState
  <2>2. thread' = [thread EXCEPT ![t] = AtRest]
    BY <1>3 DEF LookUp, NewEngineOrError
  <2>3. thread'[t] = AtRest
    BY <2>2 DEF BundlesInv, BundlesTypeOK
  <2>4. QuietReads(t)'
    BY <2>1, <2>3 DEF QuietReads, Loading
  <2> QED
    BY <1>1, <2>1, <2>2, <2>4, OneThreadSteps
<1>4. CASE cache = NoBundle
  <2> DEFINE quiet == ~Installing
             s == [thread[t] EXCEPT !.step = "manifest", !.quiet = quiet]
  <2>1. thread' = [thread EXCEPT ![t] = s]
    BY <1>4 DEF LookUp
  <2>2. quiet \in BOOLEAN /\ (quiet => ~Installing)
    OBVIOUS
  <2> HIDE DEF quiet
  <2>3. s \in ThreadState
    BY <1>1, <2>2, Zenon DEF ThreadState, PackFile
  <2>4. s.step = "manifest" /\ s.quiet = quiet
    <3>1. ASSUME NEW b
          PROVE  LET r == [thread[t] EXCEPT !.step = "manifest", !.quiet = b]
                 IN  r.step = "manifest" /\ r.quiet = b
      BY <1>1 DEF ThreadState
    <3> QED
      BY <3>1, Zenon
  <2> HIDE DEF s
  <2>5. thread'[t] = s
    BY <2>1 DEF BundlesInv, BundlesTypeOK
  <2>6. \A k \in 1..4 : ~HasRead(t, k)'
    BY <2>4, <2>5 DEF HasRead, ReadOrder
  <2>7. QuietReads(t)'
    BY <1>1, <2>2, <2>4, <2>5, <2>6 DEF QuietReads, Installing, Active, storeVars, diskVars
  <2> QED
    BY <1>1, <2>1, <2>3, <2>4, <2>7, OneThreadSteps
<1> QED
  BY <1>2, <1>3, <1>4

\* A file that is read is the file the directory shows at that moment.
LEMMA ReadPackFileSound ==
    ASSUME BundlesInv, NEW t \in Thread, NEW k \in 1..4, ReadPackFile(t, k)
    PROVE  BundlesInv'
<1> DEFINE f    == ReadOrder[k]
           read == [thread[t].content EXCEPT ![f] = file[f]]
           next == IF k = 4 THEN "insert" ELSE ReadOrder[k + 1]
           s    == [thread[t] EXCEPT !.content = read, !.step = next]
<1>1. /\ thread[t] \in ThreadState /\ thread[t].step = f
      /\ f \in PackFile /\ UNCHANGED <<cache, storeVars>>
      /\ thread[t].content \in [PackFile -> Content]
      /\ file \in [PackFile -> Content]
  BY OrderOfReading DEF ReadPackFile, BundlesInv, BundlesTypeOK, StoreInv, StoreTypeOK,
                        ThreadState
<1>2. \/ thread' = [thread EXCEPT ![t] = AtRest]
      \/ thread' = [thread EXCEPT ![t] = s] /\ file[f] # Absent
  <2>1. \/ LoadFails(t)
        \/ /\ thread' = [thread EXCEPT
                 ![t].content = read,
                 ![t].step = IF k = Len(ReadOrder) THEN "insert" ELSE ReadOrder[k + 1]]
           /\ file[f] # Absent
    BY Zenon DEF ReadPackFile
  <2>2. ASSUME thread' = [thread EXCEPT
              ![t].content = read,
              ![t].step = IF k = Len(ReadOrder) THEN "insert" ELSE ReadOrder[k + 1]]
        PROVE  thread' = [thread EXCEPT ![t] = s]
    <3> HIDE DEF read
    <3>1. (IF k = Len(ReadOrder) THEN "insert" ELSE ReadOrder[k + 1]) = next
      BY OrderOfReading
    <3> HIDE DEF next
    <3>2. thread' = [thread EXCEPT ![t].content = read, ![t].step = next]
      BY <2>2, <3>1, Zenon
    <3>3. thread \in [Thread -> ThreadState]
      BY DEF BundlesInv, BundlesTypeOK
    <3> QED
      BY <3>2, <3>3
  <2> QED
    BY <2>1, <2>2, Zenon DEF LoadFails
<1>3. CASE thread' = [thread EXCEPT ![t] = AtRest]
  <2>1. AtRest \in ThreadState /\ AtRest.step = "idle"
    BY AtRestState
  <2>2. thread'[t] = AtRest
    BY <1>3 DEF BundlesInv, BundlesTypeOK
  <2>3. QuietReads(t)'
    BY <2>1, <2>2 DEF QuietReads, Loading
  <2> QED
    BY <1>1, <1>3, <2>1, <2>3, OneThreadSteps
<1>4. CASE thread' = [thread EXCEPT ![t] = s] /\ file[f] # Absent
  <2>1. read \in [PackFile -> Content] /\ read[f] = file[f]
        /\ \A g \in PackFile : g # f => read[g] = thread[t].content[g]
    BY <1>1
  <2>2. /\ next \in PackFile \cup {"insert"}
        /\ next = "insert" => k = 4
        /\ \A m \in 1..4 : next = ReadOrder[m] => k + 1 = m
    BY OrderOfReading, FilesAreNoSteps
  <2> HIDE DEF read, next
  <2>3. s \in ThreadState
    BY <1>1, <2>1, <2>2, Zenon DEF ThreadState
  <2>4. s.step = next /\ s.content = read /\ s.quiet = thread[t].quiet
    BY <1>1 DEF ThreadState
  <2>5. next \notin {"idle", "engine"}
    BY <2>2, FilesAreNoSteps
  <2> HIDE DEF s
  <2>6. thread'[t] = s
    BY <1>4 DEF BundlesInv, BundlesTypeOK
  <2>7. ASSUME Loading(t)', thread'[t].quiet
        PROVE  /\ ~Installing'
               /\ \A m \in 1..4 : HasRead(t, m)' =>
                     /\ thread'[t].content[ReadOrder[m]] = file'[ReadOrder[m]]
                     /\ file'[ReadOrder[m]] # Absent
    <3>1. Loading(t) /\ thread[t].quiet
      BY <1>1, <2>4, <2>6, <2>7, FilesAreNoSteps DEF Loading
    <3>2. ~Installing /\ file' = file /\ (Installing' <=> Installing)
      BY <1>1, <3>1 DEF BundlesInv, QuietReads, Installing, Active, storeVars, diskVars
    <3>3. ASSUME NEW m \in 1..4, HasRead(t, m)'
          PROVE  read[ReadOrder[m]] = file[ReadOrder[m]] /\ file[ReadOrder[m]] # Absent
      <4>1. m <= k
        BY <2>2, <2>4, <2>6, <3>3 DEF HasRead
      <4>2. CASE m = k
        BY <1>4, <2>1, <4>2
      <4>3. CASE m < k
        <5>1. HasRead(t, m) /\ ReadOrder[m] # f /\ ReadOrder[m] \in PackFile
          BY <1>1, <4>3, OrderOfReading DEF HasRead
        <5> QED
          BY <5>1, <2>1, <3>1 DEF BundlesInv, QuietReads
      <4> QED
        BY <4>1, <4>2, <4>3
    <3> QED
      BY <2>4, <2>6, <3>2, <3>3
  <2>8. QuietReads(t)'
    BY <2>7 DEF QuietReads
  <2> QED
    BY <1>1, <1>4, <2>3, <2>4, <2>5, <2>8, OneThreadSteps
<1> QED
  BY <1>2, <1>3, <1>4

\* A bundle that others have is kept; otherwise nobody has an engine yet.
LEMMA InsertSound ==
    ASSUME BundlesInv, NEW t \in Thread, NEW valid \in BOOLEAN, Insert(t, valid)
    PROVE  BundlesInv'
<1> DEFINE b == Inserted(t)
           engine == [AtRest EXCEPT !.step = "engine", !.bundle = b]
           s == IF valid THEN engine ELSE AtRest
<1>1. /\ cache' = b /\ UNCHANGED storeVars
      /\ thread' = [thread EXCEPT ![t] = s]
  BY DEF Insert, NewEngineOrError
<1>2. /\ b \in Thread /\ b # NoBundle
      /\ cache # NoBundle => b = cache
  BY BundlesAssumption DEF Inserted, BundlesInv, BundlesTypeOK
<1> HIDE DEF b
<1>3. /\ AtRest \in ThreadState /\ AtRest.step = "idle"
      /\ engine \in ThreadState /\ engine.step = "engine" /\ engine.bundle = b
  BY <1>2, AtRestState
<1> HIDE DEF engine
<1>4. /\ \A u \in Thread : u # t => thread'[u] = thread[u]
      /\ thread'[t] = s
      /\ thread' \in [Thread -> ThreadState]
  BY <1>1, <1>3 DEF BundlesInv, BundlesTypeOK
<1>5. /\ file' = file /\ installer' = installer
      /\ durable' = durable /\ installed' = installed
  BY <1>1 DEF storeVars, diskVars
<1>6. StoreInv'
  BY <1>1, StoreInvKept DEF BundlesInv, storeVars
<1>7. BundlesTypeOK'
  BY <1>1, <1>2, <1>4 DEF BundlesTypeOK
<1>8. ASSUME NEW u \in Thread, thread'[u].step = "engine"
      PROVE  cache' # NoBundle /\ thread'[u].bundle = cache'
  <2>1. CASE u = t
    BY <2>1, <1>1, <1>2, <1>3, <1>4, <1>8
  <2>2. CASE u # t
    BY <2>2, <1>1, <1>2, <1>4, <1>8 DEF BundlesInv, Shared
  <2> QED
    BY <2>1, <2>2
<1>9. ASSUME NEW u \in Thread PROVE QuietReads(u)'
  <2>1. CASE u = t
    BY <2>1, <1>3, <1>4 DEF QuietReads, Loading
  <2>2. CASE u # t
    BY <2>2, <1>4, <1>5 DEF BundlesInv, QuietReads, Loading, HasRead, Installing, Active
  <2> QED
    BY <2>1, <2>2
<1> QED
  BY <1>6, <1>7, <1>8, <1>9 DEF BundlesInv, Shared

\* A host that restarts, of its own or with the machine.
LEMMA HostRestartsSound ==
    ASSUME BundlesInv, HostRestarts
    PROVE  BundlesInv'
<1>1. StoreInv'
  BY StoreInvKept DEF HostRestarts, BundlesInv
<1> QED
  BY <1>1, FreshHostSound DEF HostRestarts

\* Install processes change a file only while somebody installs, and no load is
\* quiet then.
LEMMA StoreStepKeepsHost ==
    ASSUME BundlesInv, StoreStep
    PROVE  BundlesInv'
<1>1. StoreInv'
  BY StoreStepSound DEF BundlesInv, StoreStep, StoreNext
<1>2. CASE PowerLoss /\ cache' = NoBundle /\ thread' = [t \in Thread |-> AtRest]
  BY <1>1, <1>2, FreshHostSound
<1>3. ASSUME NEW i \in Installer, InstallerNext(i), UNCHANGED cache,
             thread' = [t \in Thread |->
                [thread[t] EXCEPT !.quiet = thread[t].quiet /\ ~Installing']]
      PROVE  BundlesInv'
  <2> DEFINE still(t) == thread[t].quiet /\ ~Installing'
  <2>1. ASSUME NEW t \in Thread
        PROVE  /\ thread'[t] \in ThreadState
               /\ thread'[t].step = thread[t].step
               /\ thread'[t].content = thread[t].content
               /\ thread'[t].bundle = thread[t].bundle
               /\ thread'[t].quiet => thread[t].quiet /\ ~Installing'
    <3> DEFINE q == still(t)
    <3>1. thread[t] \in ThreadState
      BY DEF BundlesInv, BundlesTypeOK
    <3>2. thread'[t] = [thread[t] EXCEPT !.quiet = q]
      BY <1>3, Zenon
    <3>3. q \in BOOLEAN /\ (q => thread[t].quiet /\ ~Installing')
      OBVIOUS
    <3> HIDE DEF q
    <3>4. [thread[t] EXCEPT !.quiet = q] \in ThreadState
      BY <3>1, <3>3, Zenon DEF ThreadState
    <3>5. ASSUME NEW b, NEW r, r = [thread[t] EXCEPT !.quiet = b]
          PROVE  /\ r.step = thread[t].step /\ r.content = thread[t].content
                 /\ r.bundle = thread[t].bundle /\ r.quiet = b
      BY <3>1, <3>5 DEF ThreadState
    <3>6. /\ thread'[t].step = thread[t].step /\ thread'[t].content = thread[t].content
          /\ thread'[t].bundle = thread[t].bundle /\ thread'[t].quiet = q
      BY <3>2, <3>5, Zenon
    <3>7. thread'[t] \in ThreadState
      BY <3>2, <3>4
    <3>8. thread'[t].quiet => thread[t].quiet /\ ~Installing'
      BY <3>3, <3>6, Zenon
    <3> QED
      BY <3>6, <3>7, <3>8, Zenon
  <2>2. BundlesTypeOK'
    <3>1. thread' = [t \in Thread |-> thread'[t]]
      BY <1>3
    <3> QED
      BY <1>3, <2>1, <3>1 DEF BundlesInv, BundlesTypeOK
  <2>3. ~Installing => file' = file
    BY <1>3 DEF Installing, Active, InstallerNext, InstallPack, WriteTemp, RenameTemp,
                SyncParent, VerifyInstalled, StepFails, ProcessDies
  <2>4. ASSUME NEW t \in Thread PROVE QuietReads(t)'
    <3>1. CASE Loading(t)' /\ thread'[t].quiet
      BY <2>1, <2>3, <3>1 DEF BundlesInv, QuietReads, Loading, HasRead
    <3>2. CASE ~(Loading(t)' /\ thread'[t].quiet)
      BY <3>2 DEF QuietReads
    <3> QED
      BY <3>1, <3>2
  <2>5. Shared'
    BY <1>3, <2>1 DEF BundlesInv, Shared
  <2> QED
    BY <1>1, <2>2, <2>4, <2>5 DEF BundlesInv
<1> QED
  BY <1>2, <1>3 DEF StoreStep

\* Every step of the host and of the store.
LEMMA BundlesStepSound ==
    ASSUME BundlesInv, [BundlesNext]_bundleVars
    PROVE  BundlesInv'
<1>1. CASE UNCHANGED bundleVars
  <2>1. StoreInv'
    BY <1>1, StoreInvKept DEF bundleVars, storeVars, BundlesInv
  <2> QED
    BY <1>1, <2>1 DEF bundleVars, hostVars, storeVars, diskVars, BundlesInv, BundlesTypeOK,
                      Shared, QuietReads, Loading, HasRead, Installing, Active
<1>2. CASE StoreStep
  BY <1>2, StoreStepKeepsHost
<1>3. CASE HostRestarts
  BY <1>3, HostRestartsSound
<1>4. ASSUME NEW t \in Thread, ThreadNext(t) PROVE BundlesInv'
  BY <1>4, LookUpSound, ReadPackFileSound, InsertSound, OrderOfReading DEF ThreadNext
<1> QED
  BY <1>1, <1>2, <1>3, <1>4 DEF BundlesNext

-----------------------------------------------------------------------------
(* Theorems                                                                 *)

\* The invariant of a host whose packs are being replaced.
THEOREM BundlesInvariance == BundlesSpec => []BundlesInv
<1>1. BundlesInit => BundlesInv
  <2> SUFFICES ASSUME BundlesInit PROVE BundlesInv
    OBVIOUS
  <2>1. StoreInv
    BY StoreInitSound DEF BundlesInit
  <2>2. AtRest \in ThreadState /\ AtRest.step = "idle"
    BY AtRestState
  <2>3. \A t \in Thread : thread[t] = AtRest
    BY DEF BundlesInit
  <2> QED
    BY <2>1, <2>2, <2>3 DEF BundlesInit, BundlesInv, BundlesTypeOK, Shared, QuietReads, Loading
<1>2. BundlesInv /\ [BundlesNext]_bundleVars => BundlesInv'
  BY BundlesStepSound
<1> QED
  BY <1>1, <1>2, PTL DEF BundlesSpec

\* All engines of a process that use one key share one bundle, whichever of the
\* threads that loaded it at once was first (cached_language_bundle).
THEOREM EnginesShareTheBundle == BundlesSpec => []OneBundlePerKey
<1>1. BundlesInv => OneBundlePerKey
  BY DEF BundlesInv, Shared, OneBundlePerKey
<1> QED
  BY BundlesInvariance, <1>1, PTL

\* A load that no install disturbed, of a directory whose last install was
\* alone and reported, has read that version and nothing else.
THEOREM QuietLoadsAreWhole == BundlesSpec => []QuietLoadIsOneVersion
<1>1. BundlesInv => QuietLoadIsOneVersion
  <2> SUFFICES ASSUME BundlesInv, NEW t \in Thread,
                      thread[t].step = "insert", thread[t].quiet, installed # Absent, ~spoiled
               PROVE  thread[t].content = [f \in PackFile |-> installed]
    BY DEF QuietLoadIsOneVersion
  <2>1. \A k \in 1..4 : /\ thread[t].content[ReadOrder[k]] = file[ReadOrder[k]]
                         /\ file[ReadOrder[k]] # Absent
    BY DEF BundlesInv, QuietReads, Loading, HasRead
  <2>2. \A f \in PackFile : thread[t].content[f] = installed
    <3>1. \A f \in PackFile : thread[t].content[f] = file[f] /\ file[f] # Absent
      BY <2>1, OrderOfReading
    <3>2. \A f \in PackFile : file[f] = installed
      BY <3>1 DEF BundlesInv, StoreInv, Reported, Holds, PackFile
    <3> QED
      BY <3>1, <3>2
  <2>3. thread[t].content \in [PackFile -> Content]
    BY DEF BundlesInv, BundlesTypeOK, ThreadState
  <2> QED
    BY <2>2, <2>3
<1> QED
  BY BundlesInvariance, <1>1, PTL

=============================================================================
