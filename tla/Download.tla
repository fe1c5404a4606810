------------------------------ MODULE Download ------------------------------
(***************************************************************************)
(* One asset of the download cache: the threads that fetch it, the part    *)
(* they fetch it into, the note beside the part that says where its bytes  *)
(* come from, and the cleaning of the cache that takes no notice of them.  *)
(*                                                                         *)
(* Files are inodes, so that a thread goes on writing a file that was      *)
(* renamed or removed under it.  A chunk is the source that gave it, the   *)
(* edition that source had then, and its place: two sources, and two       *)
(* editions, never give the same bytes.  One answer is of one edition.     *)
(***************************************************************************)
EXTENDS Integers, Sequences, FiniteSets

CONSTANTS
  Runs,      \* the threads that may ensure this dependency
  Sources,   \* the upstream URL and its mirror
  Upstream,  \* the source whose bytes have the pinned sha256
  Pinned,    \* whether links.yaml or the manifest pins a sha256
  Chunks,    \* length of the asset
  MaxEditions, \* bound: what a source has behind its URL, one after another
  Evicts,    \* whether the periodic collection may run
  None       \* no file, no source

VARIABLES
  data,       \* contents of the inodes
  part,       \* the inode that .part names, 0 = no file
  marker,     \* the source that .part.src names
  cache,      \* the inode the asset is cached as, 0 = no file
  edition,    \* which edition each source has now
  run,        \* where each thread stands
  installed   \* the bytes the dependency was last installed from

vars == <<data, part, marker, cache, edition, run, installed>>

Inodes == 1..(Cardinality(Runs) + 2)
Chunk(s, e, i) == [src |-> s, edition |-> e, place |-> i]
Asset(s) == [i \in 1..Chunks |-> Chunk(s, 1, i)]

\* ed: the edition the answer is of; pos: the next chunk the server sends; at: where
\* it is written, 0 = appended
Idle == [pc |-> "idle", src |-> None, ed |-> 0, fd |-> 0, pos |-> 0, at |-> 0]

Init ==
  /\ data = [i \in Inodes |-> <<>>]
  /\ part = 0 /\ marker = None /\ cache = 0
  /\ edition = [s \in Sources |-> 1]
  /\ run = [r \in Runs |-> Idle]
  /\ installed = <<>>

Held == {part, cache} \union {run[r].fd : r \in Runs}
Unused == CHOOSE i \in Inodes : i \notin Held

Goto(r, pc) == run' = [run EXCEPT ![r].pc = pc]
GiveUp(r) == run' = [run EXCEPT ![r] = Idle]

\* What an unpinned URL such as .../trixie/latest/... leads to is replaced (links.yaml).
Change(s) ==
  /\ edition[s] < MaxEditions
  /\ edition' = [edition EXCEPT ![s] = @ + 1]
  /\ UNCHANGED <<data, part, marker, cache, run, installed>>

(***************************************************************************)
(* run reaches the dependency: a cached file is used, otherwise a source   *)
(* is picked, the fastest that answers.                                    *)
(***************************************************************************)
Begin(r) ==
  /\ run[r].pc = "idle"
  /\ \/ cache # 0 /\ Goto(r, "verify")
     \/ /\ cache = 0
        /\ \E s \in Sources : run' = [run EXCEPT ![r].pc = "settle", ![r].src = s]
  /\ UNCHANGED <<data, part, marker, cache, installed, edition>>

SettleAnyPart(r) ==     \* mutant: the note beside the part is not compared
  /\ run[r].pc = "settle"
  /\ run' = [run EXCEPT ![r].pc = "mark", ![r].pos = IF part = 0 THEN 0 ELSE Len(data[part])]
  /\ UNCHANGED <<data, part, marker, cache, installed, edition>>

(***************************************************************************)
(* download_with_resume, in the steps a crash can fall between.  A part is *)
(* kept only beside the note that it came from the source just picked.     *)
(***************************************************************************)
Settle(r) ==
  /\ run[r].pc = "settle"
  /\ part' = IF marker = run[r].src THEN part ELSE 0
  /\ run' = [run EXCEPT ![r].pc = "mark",
                        ![r].pos = IF part' = 0 THEN 0 ELSE Len(data[part])]
  /\ UNCHANGED <<data, marker, cache, installed, edition>>

Mark(r) ==
  /\ run[r].pc = "mark"
  /\ marker' = run[r].src
  /\ Goto(r, "request")
  /\ UNCHANGED <<data, part, cache, installed, edition>>

\* Opened(f): .part names f, whatever it was, with the contents d.
Opened(r, d, first, at) ==
  LET f == IF part # 0 THEN part ELSE Unused
  IN  /\ part' = f
      /\ data' = [data EXCEPT ![f] = IF part # 0 /\ d = "kept" THEN @ ELSE <<>>]
      /\ run' = [run EXCEPT ![r].pc = "read", ![r].fd = f, ![r].ed = edition[run[r].src],
                            ![r].pos = first, ![r].at = at]

(***************************************************************************)
(* The answer: 206 goes on where the part ends, whatever the source has by *)
(* now (only a Range is sent, nothing is compared); 200 starts again,      *)
(* anything else gives up; past the end there is no range to send.         *)
(***************************************************************************)
Request(r) ==
  /\ run[r].pc = "request"
  /\ \/ /\ run[r].pos \in 1..(Chunks - 1)
        /\ Opened(r, "kept", run[r].pos + 1, 0)
     \/ Opened(r, "truncated", 1, 1)
     \/ GiveUp(r) /\ UNCHANGED <<part, data>>
  /\ UNCHANGED <<marker, cache, installed, edition>>

(***************************************************************************)
(* One chunk arrives, at the place the file was opened for; a thread that  *)
(* writes past the end of a file another truncated leaves a hole.          *)
(***************************************************************************)
Written(f, at, c) ==
  IF at = 0 THEN Append(f, c)
  ELSE [i \in 1..(IF at > Len(f) THEN at ELSE Len(f)) |->
          IF i = at THEN c ELSE IF i <= Len(f) THEN f[i] ELSE Chunk(None, 0, i)]

Read(r) ==
  /\ run[r].pc = "read" /\ run[r].pos <= Chunks
  /\ \/ /\ data' = [data EXCEPT ![run[r].fd] =
                      Written(@, run[r].at, Chunk(run[r].src, run[r].ed, run[r].pos))]
        /\ run' = [run EXCEPT ![r].pos = @ + 1,
                              ![r].at = IF @ = 0 THEN 0 ELSE @ + 1]
     \/ GiveUp(r) /\ UNCHANGED data
  /\ UNCHANGED <<part, marker, cache, installed, edition>>

\* The stream ended: what .part names now becomes the cached asset.
Land(r) ==
  /\ run[r].pc = "read" /\ run[r].pos > Chunks
  /\ IF part # 0
       THEN /\ cache' = part /\ part' = 0
            /\ run' = [run EXCEPT ![r].pc = "unmark", ![r].fd = 0]
       ELSE GiveUp(r) /\ UNCHANGED <<cache, part>>
  /\ UNCHANGED <<data, marker, installed, edition>>

Unmark(r) ==
  /\ run[r].pc = "unmark"
  /\ marker' = None
  /\ Goto(r, "verify")
  /\ UNCHANGED <<data, part, cache, installed, edition>>

VerifyPresence(r) ==    \* mutant: a cached file is good enough
  /\ run[r].pc = "verify"
  /\ IF cache # 0 THEN Goto(r, "install") ELSE GiveUp(r)
  /\ UNCHANGED <<data, part, marker, cache, installed, edition>>

(***************************************************************************)
(* verify_cached: a mismatch is an error and the cache is kept.            *)
(***************************************************************************)
Verify(r) ==
  /\ run[r].pc = "verify"
  /\ IF cache # 0 /\ (Pinned => data[cache] = Asset(Upstream))
       THEN Goto(r, "install")
       ELSE GiveUp(r)
  /\ UNCHANGED <<data, part, marker, cache, installed, edition>>

Install(r) ==
  /\ run[r].pc = "install"
  /\ installed' = IF cache # 0 THEN data[cache] ELSE installed
  /\ GiveUp(r)
  /\ UNCHANGED <<data, part, marker, cache, edition>>

(***************************************************************************)
(* Entries leave the cache: all at once when the user empties it, which is *)
(* refused while dependencies are being ensured; one by one when storage   *)
(* collects, which asks nobody.                                            *)
(***************************************************************************)
EmptyCache ==
  /\ \A r \in Runs : run[r].pc = "idle"
  /\ part' = 0 /\ marker' = None /\ cache' = 0
  /\ UNCHANGED <<data, run, installed, edition>>

Evict ==
  /\ Evicts
  /\ \/ part # 0 /\ part' = 0 /\ UNCHANGED <<marker, cache>>
     \/ marker # None /\ marker' = None /\ UNCHANGED <<part, cache>>
     \/ cache # 0 /\ cache' = 0 /\ UNCHANGED <<part, marker>>
  /\ UNCHANGED <<data, run, installed, edition>>

\* The process dies; the files stay.
Crash ==
  /\ run' = [r \in Runs |-> Idle]
  /\ run # run'
  /\ UNCHANGED <<data, part, marker, cache, installed, edition>>

Step(r) ==
  Begin(r) \/ Settle(r) \/ Mark(r) \/ Request(r) \/ Read(r) \/ Land(r)
    \/ Unmark(r) \/ Verify(r) \/ Install(r)

Next == (\E r \in Runs : Step(r)) \/ (\E s \in Sources : Change(s)) \/ EmptyCache \/ Evict \/ Crash
Spec == Init /\ [][Next]_vars

-----------------------------------------------------------------------------
TypeOK ==
  /\ DOMAIN data = Inodes
  /\ {part, cache} \subseteq Inodes \union {0}
  /\ marker \in Sources \union {None}
  /\ \A r \in Runs :
       /\ run[r].pc \in {"idle", "settle", "mark", "request", "read", "unmark",
                         "verify", "install"}
       /\ run[r].fd \in Inodes \union {0}

\* All of one source's bytes, each in its place, and of one edition unless the source
\* changed: then of editions that follow each other.
Whole(f) ==
  \E s \in Sources :
    /\ DOMAIN f = 1..Chunks
    /\ \A i \in 1..Chunks : f[i] = Chunk(s, f[i].edition, i) /\ f[i].edition \in 1..edition[s]
    /\ \A i, j \in 1..Chunks : i <= j => f[i].edition <= f[j].edition

(***************************************************************************)
(* part_path: a half-written file is never taken for the cached one; and   *)
(* part_source_marker: bytes of two sources are never joined.  Whatever is *)
(* interrupted or picked from another source, a cached asset is all of one *)
(* source's bytes.  Two editions of it may be joined, where it changed     *)
(* between a request and the resume: a resume cannot tell.                 *)
(***************************************************************************)
CacheIsWhole == cache # 0 => Whole(data[cache])

(***************************************************************************)
(* What is installed is whole in that sense, and of a pinned dependency it *)
(* is the pinned asset, of one edition, however the cached file came about.*)
(***************************************************************************)
InstalledIsWhole ==
  installed # <<>> => Whole(installed) /\ (Pinned => installed = Asset(Upstream))
=============================================================================
