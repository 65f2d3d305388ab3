--------------------------- MODULE DownloadProofs ---------------------------
(***************************************************************************)
(* What the builder accepts, for any versions, sizes and bounds.  A file that *)
(* matches its pins is a matter of one step.  That an interrupted download    *)
(* never passes for a complete one is not: the partial file has to be a prefix *)
(* of what the server holds across runs, and the blocks before and after the  *)
(* interruption have to add up to the announced length.                      *)
(***************************************************************************)
EXTENDS Download, TLAPS

\* A partial file holds the first blocks of version v.
PrefixOf(content, v) ==
    /\ content \in Seq({v})
    /\ Len(content) <= Size(v)

\* A response in progress: the blocks written and those to come make up the
\* file of the server, and so do those resumed from and those announced.
CopyingWhole ==
    /\ PrefixOf(partial, server)
    /\ body \in Seq({server})
    /\ Len(partial) + Len(body) = Size(server)
    /\ announced # Absent => resume_from + announced = Size(server)

\* While the file on the server stays the same, whatever is on the disk is the
\* beginning of it.
PartialInv ==
    /\ integrity \in DownloadIntegrity
    /\ server \in Version
    /\ changes \in Nat
    /\ changes = 0 =>
          /\ partial # Absent => PrefixOf(partial, server)
          /\ step = "request" => resume_from = IF partial = Absent THEN 0 ELSE Len(partial)
          /\ step = "copy" => CopyingWhole

LEMMA PrefixElements ==
    ASSUME NEW v, NEW content \in Seq({v})
    PROVE  /\ Len(content) \in Nat
           /\ content = [i \in 1..Len(content) |-> v]
<1>1. /\ Len(content) \in Nat /\ DOMAIN content = 1..Len(content)
      /\ \A i \in 1..Len(content) : content[i] = v
  OBVIOUS
<1>. QED  BY <1>1

LEMMA WholeTyped ==
    ASSUME NEW v \in Version
    PROVE  /\ Whole(v) \in Seq({v})
           /\ Len(Whole(v)) = Size(v)
<1>1. Size(v) \in Nat
  BY SizeAssumption
<1>2. Whole(v) \in [1..Size(v) -> {v}]
  BY DEF Whole
<1>3. Whole(v) \in Seq({v})
  BY <1>1, <1>2
<1>. QED  BY <1>1, <1>2, <1>3

\* The rest of a file, from the block after the first n.
LEMMA RestTyped ==
    ASSUME NEW v \in Version, NEW n \in Nat, n < Size(v)
    PROVE  /\ SubSeq(Whole(v), n + 1, Size(v)) \in Seq({v})
           /\ Len(SubSeq(Whole(v), n + 1, Size(v))) = Size(v) - n
<1>1. Size(v) \in Nat
  BY SizeAssumption
<1>. DEFINE w == Whole(v)
<1>2. w \in Seq({v}) /\ Len(w) = Size(v)
  BY WholeTyped
<1>. HIDE DEF w
<1>3. \A i \in (n + 1)..Size(v) : w[i] \in {v}
  BY <1>1, <1>2
<1>4. SubSeq(w, n + 1, Size(v)) \in Seq({v})
  BY <1>1, <1>2, <1>3
<1>5. Len(SubSeq(w, n + 1, Size(v))) = Size(v) - n
  BY <1>1, <1>2
<1>. QED  BY <1>4, <1>5 DEF w

\* A prefix of full length is the whole file.
LEMMA FullPrefix ==
    ASSUME NEW v \in Version, NEW content, PrefixOf(content, v),
           Len(content) = Size(v)
    PROVE  content = Whole(v)
  BY PrefixElements DEF PrefixOf, Whole

\* A prefix of one file that is all of another, and is not empty, tells that
\* the two are the same version.
LEMMA SamePrefix ==
    ASSUME NEW v \in Version, NEW content, PrefixOf(content, v),
           Len(content) > 0, content = Whole(Pinned)
    PROVE  content = Whole(v)
<1>1. Len(content) \in Nat /\ content = [i \in 1..Len(content) |-> v]
  BY PrefixElements DEF PrefixOf
<1>2. 1 \in DOMAIN content /\ content[1] = v
  BY <1>1
<1>3. content[1] = Pinned
  BY <1>2 DEF Whole
<1>. QED  BY <1>2, <1>3

-----------------------------------------------------------------------------

LEMMA PartialInvInit == Init => PartialInv
<1>1. Init => PrefixOf(<<>>, server)
  BY SizeAssumption DEF Init, PrefixOf
<1>. QED  BY <1>1 DEF Init, PartialInv

LEMMA PartialInvStep == PartialInv /\ [Next]_vars => PartialInv'
<1>. SUFFICES ASSUME PartialInv, [Next]_vars
              PROVE  PartialInv'
  OBVIOUS
<1>1. CASE DownloadWithCache
  <2>1. UNCHANGED <<integrity, server, changes>>
    BY <1>1 DEF DownloadWithCache
  <2>2. partial' \in {partial, Absent} /\ step' # "copy"
    BY <1>1 DEF DownloadWithCache, UseCached, RecoverComplete, Request, Outcome
  <2>3. step' = "request" => resume_from' = IF partial' = Absent THEN 0 ELSE Len(partial')
    BY <1>1 DEF DownloadWithCache, UseCached, RecoverComplete, Request, Outcome
  <2>. QED  BY <2>1, <2>2, <2>3 DEF PartialInv, PrefixOf
<1>2. CASE Respond
  <2>1. UNCHANGED <<integrity, server, changes>> /\ step = "request"
    BY <1>2 DEF Respond
  <2>2. server \in Version /\ Size(server) \in Nat
    BY SizeAssumption DEF PartialInv
  <2>3. CASE Resumed
    <3>1. /\ resume_from > 0 /\ resume_from < Size(server)
          /\ body' = SubSeq(Whole(server), resume_from + 1, Size(server))
          /\ announced' \in {Len(body'), Absent}
          /\ step' = "copy"
          /\ UNCHANGED <<partial, resume_from>>
      BY <2>3 DEF Resumed, Serve
    <3>. SUFFICES ASSUME changes = 0
                  PROVE  /\ partial # Absent => PrefixOf(partial, server)
                         /\ CopyingWhole'
      BY <2>1, <3>1 DEF PartialInv, PrefixOf
    <3>2. partial # Absent /\ resume_from = Len(partial) /\ PrefixOf(partial, server)
      BY <2>1, <3>1 DEF PartialInv
    <3>3. resume_from \in Nat
      BY <3>2, PrefixElements DEF PrefixOf
    <3>4. body' \in Seq({server}) /\ Len(body') = Size(server) - resume_from
      BY <2>2, <3>1, <3>3, RestTyped
    <3>. QED  BY <2>1, <2>2, <3>1, <3>2, <3>3, <3>4 DEF CopyingWhole, PrefixOf
  <2>4. CASE Restarted
    <3>1. /\ body' = Whole(server) /\ partial' = <<>> /\ resume_from' = 0
          /\ announced' \in {Len(body'), Absent}
          /\ step' = "copy"
      BY <2>4 DEF Restarted, Serve
    <3>2. body' \in Seq({server}) /\ Len(body') = Size(server)
      BY <2>2, <3>1, WholeTyped
    <3>3. PrefixOf(partial, server)'
      BY <2>1, <2>2, <3>1 DEF PrefixOf
    <3>4. CopyingWhole'
      BY <2>1, <2>2, <3>1, <3>2, <3>3 DEF CopyingWhole
    <3>. QED  BY <2>1, <3>1, <3>3, <3>4 DEF PartialInv
  <2>5. CASE Unsatisfiable
    BY <2>1, <2>5 DEF Unsatisfiable, Outcome, PartialInv, PrefixOf
  <2>. QED  BY <1>2, <2>3, <2>4, <2>5 DEF Respond
<1>3. CASE CopyBlock
  <2>1. /\ UNCHANGED <<integrity, server, announced, resume_from, step, changes>>
        /\ step = "copy" /\ body # <<>>
        /\ partial' = Append(partial, Head(body)) /\ body' = Tail(body)
    BY <1>3 DEF CopyBlock
  <2>. SUFFICES ASSUME changes = 0
                PROVE  CopyingWhole'
    BY <2>1 DEF PartialInv, CopyingWhole
  <2>2. CopyingWhole /\ Size(server) \in Nat
    BY <2>1, SizeAssumption DEF PartialInv
  <2>3. /\ Head(body) \in {server} /\ Tail(body) \in Seq({server})
        /\ Len(Tail(body)) = Len(body) - 1 /\ Len(body) > 0 /\ Len(body) \in Nat
    BY <2>1, <2>2 DEF CopyingWhole
  <2>4. /\ partial' \in Seq({server}) /\ Len(partial') = Len(partial) + 1
        /\ Len(partial) \in Nat
    BY <2>1, <2>2, <2>3 DEF CopyingWhole, PrefixOf
  <2>. QED  BY <2>1, <2>2, <2>3, <2>4 DEF CopyingWhole, PrefixOf
<1>4. CASE EndOfBody
  <2>1. /\ UNCHANGED <<integrity, server, changes>>
        /\ partial' = Absent /\ step' \in {"ok", "failed"}
    BY <1>4 DEF EndOfBody, Outcome
  <2>. QED  BY <2>1 DEF PartialInv
<1>5. CASE Interrupted
  BY <1>5 DEF Interrupted, Outcome, PartialInv, PrefixOf
<1>6. CASE BuildAgain
  BY <1>6 DEF BuildAgain, Outcome, PartialInv, PrefixOf
<1>7. CASE ServerChanges
  BY <1>7 DEF ServerChanges, PartialInv
<1>8. CASE UNCHANGED vars
  BY <1>8 DEF vars, PartialInv, PrefixOf, CopyingWhole
<1>. QED  BY <1>1, <1>2, <1>3, <1>4, <1>5, <1>6, <1>7, <1>8 DEF Next, Builder

LEMMA PartialInvariance == Spec => []PartialInv
  BY PartialInvInit, PartialInvStep, PTL DEF Spec

-----------------------------------------------------------------------------

\* download_with_cache ends well with the pinned file only: with the cached
\* file, the recovered one or the one just received, each verified against the
\* checksum before it is taken, whatever is on the disk and on the server.
THEOREM OnlyPinnedFilesAreAccepted == Spec => []AcceptedFileMatchesPin
<1>1. Init => AcceptedFileMatchesPin
  BY DEF Init, AcceptedFileMatchesPin
<1>2. AcceptedFileMatchesPin /\ [Next]_vars => AcceptedFileMatchesPin'
  <2>. SUFFICES ASSUME AcceptedFileMatchesPin, [Next]_vars, integrity'.sha256, step' = "ok"
                PROVE  dest' = Whole(Pinned)
    BY DEF AcceptedFileMatchesPin
  <2>1. CASE DownloadWithCache
    <3>1. integrity' = integrity
      BY <2>1 DEF DownloadWithCache
    <3>2. CASE UseCached
      BY <3>1, <3>2 DEF UseCached, Outcome, VerifyFileIntegrity
    <3>3. CASE RecoverComplete
      BY <3>1, <3>3 DEF RecoverComplete, Outcome, VerifyFileIntegrity
    <3>. QED  BY <2>1, <3>2, <3>3 DEF DownloadWithCache, Request
  <2>2. CASE EndOfBody
    BY <2>2 DEF EndOfBody, Outcome, PinsMatch, VerifyFileIntegrity
  <2>3. CASE ServerChanges \/ UNCHANGED vars
    BY <2>3 DEF ServerChanges, vars, AcceptedFileMatchesPin
  <2>4. CASE Respond \/ CopyBlock \/ BuildAgain \/ Interrupted
    BY <2>4 DEF Respond, Resumed, Restarted, Unsatisfiable, Serve, CopyBlock,
                BuildAgain, Interrupted, Outcome
  <2>. QED  BY <2>1, <2>2, <2>3, <2>4 DEF Next, Builder
<1>. QED  BY <1>1, <1>2, PTL DEF Spec

\* A file enters the cache when its copy or its recovery ends: by PartialInv it
\* is a prefix of the server's file then, and the announced length (written ==
\* resume_from + Content-Length) or the checksum makes it all of it.
THEOREM CachedFilesAreWhole == Spec => CachedFileIsWhole
<1>1. PartialInv /\ [Next]_vars =>
        [dest' # dest /\ changes = 0 /\ announced # Absent => dest' = Whole(server)]_vars
  <2>. SUFFICES ASSUME PartialInv, Next, dest' # dest, changes = 0, announced # Absent
                PROVE  dest' = Whole(server)
    BY DEF vars
  <2>1. server \in Version /\ Size(server) \in Nat
    BY SizeAssumption DEF PartialInv
  <2>2. CASE DownloadWithCache
    <3>1. CompletePartial /\ VerifyFileIntegrity(partial) /\ dest' = partial
      BY <2>2 DEF DownloadWithCache, UseCached, Request, RecoverComplete
    <3>2. PrefixOf(partial, server) /\ Len(partial) > 0
      BY <3>1 DEF PartialInv, CompletePartial
    <3>3. integrity.sha256
      BY <3>1 DEF PartialInv, CompletePartial, DownloadIntegrity
    <3>4. partial = Whole(Pinned)
      BY <3>1, <3>3 DEF VerifyFileIntegrity
    <3>. QED  BY <2>1, <3>1, <3>2, <3>4, SamePrefix
  <2>3. CASE EndOfBody
    <3>1. step = "copy" /\ dest' = partial /\ LengthMatches
      BY <2>3 DEF EndOfBody
    <3>2. CopyingWhole
      BY <3>1 DEF PartialInv
    <3>3. Len(partial) = Size(server) /\ PrefixOf(partial, server)
      BY <3>1, <3>2 DEF CopyingWhole, LengthMatches
    <3>. QED  BY <2>1, <3>1, <3>3, FullPrefix
  <2>4. CASE Respond \/ CopyBlock \/ BuildAgain \/ Interrupted \/ ServerChanges
    BY <2>4 DEF Respond, CopyBlock, BuildAgain, Interrupted, ServerChanges
  <2>. QED  BY <2>2, <2>3, <2>4 DEF Next, Builder
<1>. QED  BY <1>1, PartialInvariance, PTL DEF Spec, CachedFileIsWhole

=============================================================================
