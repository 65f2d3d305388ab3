------------------------------ MODULE Download ------------------------------
(***************************************************************************)
(* download_with_cache of the data builder: one cached source file, its      *)
(* partial file, and a server whose file may change and whose connection    *)
(* may break at any point.  The builder is run again after it fails; it may  *)
(* die between any two steps.                                               *)
(*                                                                         *)
(* Abstracted data: a file is the sequence of the versions its blocks come  *)
(* from; SHA-256 tells any two contents apart.                              *)
(***************************************************************************)
EXTENDS Integers, Sequences

CONSTANTS
    Version,        \* versions of the file the server may hold
    Size(_),        \* their number of blocks
    Pinned,         \* the version the integrity data describes
    MaxChanges,     \* bound: replacements of the file on the server
    MaxFaults,      \* bound: failed requests, broken connections and deaths
    Absent

ASSUME SizeAssumption == \A v \in Version : Size(v) \in Nat

Whole(v) == [i \in 1..Size(v) |-> v]

\* DownloadIntegrity: both for embedded sources, at most the checksum for those
\* of a pack specification.
DownloadIntegrity == {[size |-> TRUE, sha256 |-> TRUE],
                      [size |-> FALSE, sha256 |-> TRUE],
                      [size |-> FALSE, sha256 |-> FALSE]}

VARIABLES
    integrity,      \* which pins this source has
    dest, partial,  \* the cached file and its partial file
    server,         \* the version the server holds
    body,           \* what the response has still to deliver
    announced,      \* the Content-Length of the response, or Absent
    resume_from,    \* the blocks the partial file held before the response
    step,           \* where download_with_cache is, or how it ended
    changes, faults

vars == <<integrity, dest, partial, server, body, announced, resume_from, step,
          changes, faults>>

-----------------------------------------------------------------------------

\* verify_file_integrity.
VerifyFileIntegrity(content) ==
    /\ integrity.size => Len(content) = Size(Pinned)
    /\ integrity.sha256 => content = Whole(Pinned)

Outcome(o) == step' = o /\ UNCHANGED <<body, announced, resume_from>>

\* A cached file is verified each time, and never replaced.
UseCached ==
    /\ dest # Absent
    /\ Outcome(IF VerifyFileIntegrity(dest) THEN "ok" ELSE "failed")
    /\ UNCHANGED <<dest, partial>>

\* Mistake: a partial file of the pinned size is resumed like any other.
CompletePartialResumed == FALSE

\* A partial file of the pinned size was complete when the builder stopped; an
\* empty one is started afresh.
CompletePartial ==
    /\ partial # Absent /\ Len(partial) > 0
    /\ integrity.size /\ Len(partial) = Size(Pinned)

RecoverComplete ==
    IF VerifyFileIntegrity(partial)
    THEN dest' = partial /\ partial' = Absent /\ Outcome("ok")
    ELSE UNCHANGED <<dest, partial>> /\ Outcome("failed")

\* prepare_partial_download: where to resume, after removing what is too long.
Request ==
    LET tooLong == partial # Absent /\ integrity.size /\ Len(partial) > Size(Pinned)
    IN /\ partial' = IF tooLong THEN Absent ELSE partial
       /\ resume_from' = IF partial' = Absent THEN 0 ELSE Len(partial')
       /\ step' = "request"
       /\ UNCHANGED <<dest, body, announced>>

DownloadWithCache ==
    /\ step \in {"start", "failed"}
    /\ \/ UseCached
       \/ dest = Absent /\ CompletePartial /\ RecoverComplete
       \/ dest = Absent /\ ~CompletePartial /\ Request
    /\ UNCHANGED <<integrity, server, changes, faults>>

-----------------------------------------------------------------------------
(* The response                                                             *)

\* The body of a response, with or without a Content-Length.
Serve(content) ==
    /\ body' = content
    /\ announced' \in {Len(content), Absent}
    /\ step' = "copy"

\* 206 to a Range request: the partial file is continued.
Resumed ==
    /\ resume_from > 0
    /\ resume_from < Size(server)
    /\ Serve(SubSeq(Whole(server), resume_from + 1, Size(server)))
    /\ UNCHANGED <<partial, resume_from>>

\* 200: a first request, or a server without Range; the copy starts afresh.
Restarted ==
    /\ partial' = <<>>
    /\ resume_from' = 0
    /\ Serve(Whole(server))

\* 416: a Range beyond the end is an error, and the partial file stays.
Unsatisfiable ==
    /\ resume_from >= Size(server)
    /\ resume_from > 0
    /\ Outcome("failed")
    /\ UNCHANGED partial

Respond ==
    /\ step = "request"
    /\ Resumed \/ Restarted \/ Unsatisfiable
    /\ UNCHANGED <<integrity, dest, server, changes, faults>>

\* copy_and_sha256: one block more.
CopyBlock ==
    /\ step = "copy"
    /\ body # <<>>
    /\ partial' = Append(partial, Head(body))
    /\ body' = Tail(body)
    /\ UNCHANGED <<integrity, dest, server, announced, resume_from, step, changes, faults>>

\* Mistake: Content-Length is not compared.
LengthMatchesUnchecked == TRUE

LengthMatches == announced = Absent \/ Len(partial) = resume_from + announced

\* Mistake: only the size of a complete download is compared.
PinsMatchSizeOnly == integrity.size => Len(partial) = Size(Pinned)

\* The checksum covers the blocks resumed from and those received.
PinsMatch == VerifyFileIntegrity(partial)

\* The end of the body, or what looks like it: a connection that is closed
\* early.  A file that does not match what was announced or pinned is removed.
EndOfBody ==
    /\ step = "copy"
    /\ IF body = <<>> THEN faults' = faults
       ELSE faults < MaxFaults /\ faults' = faults + 1
    /\ partial' = Absent
    /\ IF LengthMatches /\ PinsMatch
       THEN dest' = partial /\ Outcome("ok")
       ELSE dest' = dest /\ Outcome("failed")
    /\ UNCHANGED <<integrity, server, changes>>

\* A request that fails, a read error, or the death of the builder.
Interrupted ==
    /\ step \in {"request", "copy"}
    /\ faults < MaxFaults
    /\ faults' = faults + 1
    /\ Outcome("failed")
    /\ UNCHANGED <<integrity, dest, partial, server, changes>>

\* The next build; after an error it is DownloadWithCache itself.
BuildAgain ==
    /\ step = "ok"
    /\ Outcome("start")
    /\ UNCHANGED <<integrity, dest, partial, server, changes, faults>>

ServerChanges ==
    /\ changes < MaxChanges
    /\ changes' = changes + 1
    /\ server' \in Version \ {server}
    /\ UNCHANGED <<integrity, dest, partial, body, announced, resume_from, step, faults>>

-----------------------------------------------------------------------------

Init ==
    /\ integrity \in DownloadIntegrity
    /\ dest = Absent
    /\ partial = Absent
    /\ server \in Version
    /\ body = <<>>
    /\ announced = Absent
    /\ resume_from = 0
    /\ step = "start"
    /\ changes = 0
    /\ faults = 0

Builder == DownloadWithCache \/ Respond \/ CopyBlock \/ EndOfBody \/ BuildAgain

Next == Builder \/ Interrupted \/ ServerChanges

\* A build that was started goes on, and one that failed is run again.
Spec == Init /\ [][Next]_vars /\ WF_vars(Builder)

-----------------------------------------------------------------------------
(* Properties                                                               *)

\* Whatever was left by interrupted runs, and however the file on the server
\* changed between them, a build goes on only with the file whose checksum
\* was pinned.
AcceptedFileMatchesPin == step = "ok" /\ integrity.sha256 => dest = Whole(Pinned)

\* Without a checksum a cached file may join blocks of two versions, but while
\* the file on the server stays the same, and its length is announced, an
\* interrupted download never passes for a complete one.
CachedFileIsWhole ==
    [][dest' # dest /\ changes = 0 /\ announced # Absent => dest' = Whole(server)]_vars

\* A source pinned by size and checksum that the server always held is in the
\* cache in the end, however often its download was interrupted, and at
\* whatever block.  After a change on the server it may not: a partial file of
\* the pinned size with another content is neither accepted nor removed.  Nor may
\* a source without a pinned size: the request to go on with a partial file that
\* is complete is answered by an error, each time.
PinnedDownloadCompletes ==
    integrity.size /\ [](server = Pinned) => <>(step = "ok")

=============================================================================
