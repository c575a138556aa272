---------------------------- MODULE SourceCache ----------------------------
(***************************************************************************)
(* The cache of pinned sources and tools.  Seven functions fill it, each   *)
(* with one pinned thing: sources.obtain and obtain_files, jdk.obtain,     *)
(* ndk.obtain, binder_reference.prepare and binder_aidl.fetch_file.  Every *)
(* build script calls some of them, scripts run at the same time share the *)
(* cache, and nothing locks it.                                            *)
(*                                                                         *)
(* A file, and a tree of files, is a number of blocks, each missing, good  *)
(* (as pinned) or bad.  A name holds a file; a process that has the file   *)
(* open keeps it when it is renamed, which is what the values of fd are    *)
(* for.  A download truncates what it opens.                               *)
(***************************************************************************)
EXTENDS Naturals

CONSTANTS Processes,     \* the processes that share the cache
          Kinds,         \* which of the seven functions to consider
          Blocks,        \* the number of blocks of a file
          TroubleLimit   \* how many failures, crashes and changes there are

(* What is particular to each function:                                    *)
(*   first     it looks for the installation before anything else;         *)
(*   archive   it goes by way of an archive in the download cache;         *)
(*   shared    it downloads to archive.part, the same for all processes,   *)
(*             and not to a temporary of its own;                          *)
(*   verified  it verifies the download before the rename, and takes a     *)
(*             short download for a failure;                               *)
(*   staged    what it compares the files it is about to install with: the *)
(*             pins, only one of the pins, or nothing;                     *)
(*   recheck   what it compares an installation with: the pins, only one   *)
(*             of them, or the record made when it was installed;          *)
(*   always    it makes that comparison after its own installation too;    *)
(*   replaces  the installation replaces one that is there.                *)
SourcesObtain ==
  [first |-> FALSE, archive |-> TRUE, shared |-> TRUE, verified |-> TRUE,
   staged |-> "none", recheck |-> "one", always |-> TRUE, replaces |-> FALSE]
ObtainFiles ==
  [first |-> TRUE, archive |-> TRUE, shared |-> TRUE, verified |-> TRUE,
   staged |-> "pins", recheck |-> "pins", always |-> FALSE, replaces |-> FALSE]
ObtainRawFiles ==
  [first |-> TRUE, archive |-> FALSE, shared |-> FALSE, verified |-> TRUE,
   staged |-> "pins", recheck |-> "pins", always |-> FALSE, replaces |-> FALSE]
JdkObtain ==
  [first |-> TRUE, archive |-> TRUE, shared |-> FALSE, verified |-> TRUE,
   staged |-> "none", recheck |-> "record", always |-> FALSE, replaces |-> FALSE]
NdkObtain ==
  [first |-> TRUE, archive |-> TRUE, shared |-> TRUE, verified |-> FALSE,
   staged |-> "one", recheck |-> "one", always |-> FALSE, replaces |-> FALSE]
ReferencePrepare ==
  [first |-> FALSE, archive |-> TRUE, shared |-> TRUE, verified |-> TRUE,
   staged |-> "pins", recheck |-> "pins", always |-> TRUE, replaces |-> FALSE]
FetchFile ==
  [first |-> TRUE, archive |-> FALSE, shared |-> FALSE, verified |-> TRUE,
   staged |-> "pins", recheck |-> "pins", always |-> FALSE, replaces |-> TRUE]

Functions ==
  [sources |-> SourcesObtain, selection |-> ObtainFiles,
   raw |-> ObtainRawFiles, jdk |-> JdkObtain, ndk |-> NdkObtain,
   reference |-> ReferencePrepare, aidl |-> FetchFile]

ASSUME CacheAssumption ==
  /\ Kinds \subseteq DOMAIN Functions
  /\ Blocks \in Nat \ {0}
  /\ TroubleLimit \in Nat

VARIABLES kind,      \* the function at work
          part,      \* archive.part
          archive,   \* the archive in the download cache
          installed, \* the installation
          record,    \* the digests recorded with it
          fd,        \* where the file that a process is writing is now
          at,        \* how many blocks it has written
          stage,     \* a process's own temporary file or directory
          pc,        \* where a process is
          got,       \* what the function returned
          overlap,   \* a download and another use of the cache have met
          changed,   \* an installed file was changed
          trouble    \* how many failures, crashes and changes there were

vars == <<kind, part, archive, installed, record, fd, at, stage, pc, got,
          overlap, changed, trouble>>

The == Functions[kind]
File == [1..Blocks -> {"none", "good", "bad"}]
Absent == [b \in {} |-> "none"]
Empty == [b \in 1..Blocks |-> "none"]
Pinned == [b \in 1..Blocks |-> "good"]

Downloading == {"write", "verify part", "rename"}
Places == {"idle", "look", "open", "verify", "extract", "install",
           "check", "done"} \union Downloading

Init ==
  /\ kind \in Kinds
  /\ part = Absent /\ archive = Absent
  /\ installed = Absent /\ record = Absent
  /\ fd = [p \in Processes |-> "closed"]
  /\ at = [p \in Processes |-> 0]
  /\ stage = [p \in Processes |-> Empty]
  /\ pc = [p \in Processes |-> "idle"]
  /\ got = [p \in Processes |-> Absent]
  /\ overlap = FALSE /\ changed = FALSE /\ trouble = 0

Matches(tree, how) ==
  /\ how = "pins" => tree = Pinned
  /\ how = "one" => tree[1] = "good"
  /\ how = "record" => tree = record

Move(p, place) == pc' = [pc EXCEPT ![p] = place]

(* The function raises; its file is closed and its temporaries are gone.   *)
Raise(p) == Move(p, "idle") /\ fd' = [fd EXCEPT ![p] = "closed"]

-----------------------------------------------------------------------------
(* The function is called, for the first time or after it raised.          *)
Start(p) ==
  /\ pc[p] = "idle"
  /\ Move(p, IF The.first /\ installed # Absent THEN "check"
             ELSE IF The.archive THEN "look" ELSE "open")
  /\ UNCHANGED <<kind, part, archive, installed, record, fd, at, stage, got,
                 overlap, changed, trouble>>

FindArchive(p) ==
  /\ pc[p] = "look"
  /\ Move(p, IF archive # Absent THEN "verify" ELSE "open")
  /\ overlap' = (overlap \/ \E q \in Processes \ {p} : pc[q] \in Downloading)
  /\ UNCHANGED <<kind, part, archive, installed, record, fd, at, stage, got,
                 changed, trouble>>

OpenExclusive(p) ==
  /\ pc[p] = "open"
  /\ IF The.shared
     THEN /\ part = Absent
          /\ part' = Empty /\ fd' = [fd EXCEPT ![p] = "part"]
          /\ UNCHANGED stage
     ELSE /\ stage' = [stage EXCEPT ![p] = Empty]
          /\ fd' = [fd EXCEPT ![p] = "own"]
          /\ UNCHANGED part
  /\ at' = [at EXCEPT ![p] = 0]
  /\ Move(p, "write")
  /\ overlap' = (overlap \/ \E q \in Processes \ {p} : pc[q] \notin {"idle", "done"})
  /\ UNCHANGED <<kind, archive, installed, record, got, changed, trouble>>

(* open("wb"): a part that is there, of a process that is at work or was   *)
(* killed, is truncated.                                                   *)
Open(p) ==
  /\ pc[p] = "open"
  /\ IF The.shared
     THEN /\ part' = Empty /\ fd' = [fd EXCEPT ![p] = "part"]
          /\ UNCHANGED stage
     ELSE /\ stage' = [stage EXCEPT ![p] = Empty]
          /\ fd' = [fd EXCEPT ![p] = "own"]
          /\ UNCHANGED part
  /\ at' = [at EXCEPT ![p] = 0]
  /\ Move(p, "write")
  /\ overlap' = (overlap \/ \E q \in Processes \ {p} : pc[q] \notin {"idle", "done"})
  /\ UNCHANGED <<kind, archive, installed, record, got, changed, trouble>>

(* A block arrives, as pinned or not, and goes where the file is that the  *)
(* process opened.                                                         *)
Put(p, b, v) ==
  /\ part' = IF fd[p] = "part" THEN [part EXCEPT ![b] = v] ELSE part
  /\ archive' = IF fd[p] = "archive" THEN [archive EXCEPT ![b] = v] ELSE archive
  /\ stage' = IF fd[p] = "own" THEN [stage EXCEPT ![p][b] = v] ELSE stage

Write(p) ==
  /\ pc[p] = "write" /\ at[p] < Blocks
  /\ \/ Put(p, at[p] + 1, "good") /\ UNCHANGED trouble
     \/ /\ trouble < TroubleLimit
        /\ Put(p, at[p] + 1, "bad") /\ trouble' = trouble + 1
  /\ at' = [at EXCEPT ![p] = @ + 1]
  /\ UNCHANGED <<kind, installed, record, fd, pc, got, overlap, changed>>

(* The download ends: all of it, or, as urlopen reports it to ndk.obtain,  *)
(* what came before the connection was lost.                               *)
Close(p) ==
  /\ pc[p] = "write"
  /\ at[p] = Blocks \/ (~The.verified /\ trouble < TroubleLimit)
  /\ trouble' = IF at[p] = Blocks THEN trouble ELSE trouble + 1
  /\ Move(p, IF The.verified THEN "verify part" ELSE "rename")
  /\ fd' = [fd EXCEPT ![p] = "closed"]
  /\ UNCHANGED <<kind, part, archive, installed, record, at, stage, got,
                 overlap, changed>>

(* The download fails; gh writes the server's error instead of the file.   *)
Fail(p) ==
  /\ pc[p] = "write" /\ trouble < TroubleLimit
  /\ trouble' = trouble + 1
  /\ \/ UNCHANGED <<part, archive, stage>>
     \/ The.verified /\ at[p] = 0 /\ Put(p, 1, "bad")
  /\ Raise(p)
  /\ UNCHANGED <<kind, installed, record, at, got, overlap, changed>>

VerifyPartSkipped(p) ==
  /\ pc[p] = "verify part"
  /\ Move(p, IF The.archive THEN "rename" ELSE "install") /\ UNCHANGED fd
  /\ UNCHANGED <<kind, part, archive, installed, record, at, stage, got,
                 overlap, changed, trouble>>

(* Of what the name says now, which need not be what this process wrote.   *)
VerifyPart(p) ==
  /\ pc[p] = "verify part"
  /\ IF (IF The.shared THEN part ELSE stage[p]) = Pinned
     THEN Move(p, IF The.archive THEN "rename" ELSE "install") /\ UNCHANGED fd
     ELSE Raise(p)
  /\ UNCHANGED <<kind, part, archive, installed, record, at, stage, got,
                 overlap, changed, trouble>>

(* The file that was open under the old name is now open under the new     *)
(* one, and a file that had the new name has none.                         *)
Rename(p) ==
  /\ pc[p] = "rename"
  /\ IF The.shared /\ part = Absent
     THEN Raise(p) /\ UNCHANGED <<part, archive>>
     ELSE /\ archive' = IF The.shared THEN part ELSE stage[p]
          /\ part' = IF The.shared THEN Absent ELSE part
          /\ fd' = [q \in Processes |->
                      IF fd[q] = "archive" THEN "gone"
                      ELSE IF fd[q] = "part" THEN "archive" ELSE fd[q]]
          /\ Move(p, "verify")
  /\ UNCHANGED <<kind, installed, record, at, stage, got, overlap, changed, trouble>>

VerifyArchiveSkipped(p) ==
  /\ pc[p] = "verify"
  /\ Move(p, IF ~The.first /\ installed # Absent THEN "check" ELSE "extract")
  /\ at' = [at EXCEPT ![p] = 0] /\ stage' = [stage EXCEPT ![p] = Empty]
  /\ UNCHANGED fd
  /\ UNCHANGED <<kind, part, archive, installed, record, got, overlap, changed,
                 trouble>>

VerifyArchive(p) ==
  /\ pc[p] = "verify"
  /\ IF archive = Pinned
     THEN /\ Move(p, IF ~The.first /\ installed # Absent THEN "check" ELSE "extract")
          /\ at' = [at EXCEPT ![p] = 0] /\ stage' = [stage EXCEPT ![p] = Empty]
          /\ UNCHANGED fd
     ELSE Raise(p) /\ UNCHANGED <<at, stage>>
  /\ UNCHANGED <<kind, part, archive, installed, record, got, overlap, changed,
                 trouble>>

(* A block of the archive is unpacked into the stage.                      *)
Extract(p) ==
  /\ pc[p] = "extract" /\ at[p] < Blocks
  /\ stage' = [stage EXCEPT ![p][at[p] + 1] = archive[at[p] + 1]]
  /\ at' = [at EXCEPT ![p] = @ + 1]
  /\ UNCHANGED <<kind, part, archive, installed, record, fd, pc, got, overlap,
                 changed, trouble>>

(* The unpacker notices, as it may, that the archive is damaged.           *)
ExtractRaises(p) ==
  /\ pc[p] = "extract" /\ at[p] < Blocks /\ archive[at[p] + 1] # "good"
  /\ Raise(p)
  /\ UNCHANGED <<kind, part, archive, installed, record, at, stage, got,
                 overlap, changed, trouble>>

VerifyStage(p) ==
  /\ pc[p] = "extract" /\ at[p] = Blocks
  /\ IF Matches(stage[p], The.staged)
     THEN Move(p, "install") /\ UNCHANGED fd
     ELSE Raise(p)
  /\ UNCHANGED <<kind, part, archive, installed, record, at, stage, got,
                 overlap, changed, trouble>>

Return(p, tree) == Move(p, "done") /\ got' = [got EXCEPT ![p] = tree]

(* replace() of a directory raises when another process was first.         *)
Install(p) ==
  /\ pc[p] = "install"
  /\ IF installed = Absent \/ The.replaces
     THEN /\ installed' = stage[p] /\ record' = stage[p] /\ UNCHANGED fd
          /\ IF The.always THEN Move(p, "check") /\ UNCHANGED got
                           ELSE Return(p, stage[p])
     ELSE Raise(p) /\ UNCHANGED <<installed, record, got>>
  /\ UNCHANGED <<kind, part, archive, at, stage, overlap, changed, trouble>>

CheckSkipped(p) ==
  /\ pc[p] = "check"
  /\ Return(p, installed) /\ UNCHANGED fd
  /\ UNCHANGED <<kind, part, archive, installed, record, at, stage, overlap,
                 changed, trouble>>

Check(p) ==
  /\ pc[p] = "check"
  /\ IF Matches(installed, The.recheck)
     THEN Return(p, installed) /\ UNCHANGED fd
     ELSE Raise(p) /\ UNCHANGED got
  /\ UNCHANGED <<kind, part, archive, installed, record, at, stage, overlap,
                 changed, trouble>>

(* A process is killed, with the tools it runs.                            *)
Crash(p) ==
  /\ pc[p] \notin {"idle", "done"} /\ trouble < TroubleLimit
  /\ trouble' = trouble + 1
  /\ Raise(p)
  /\ UNCHANGED <<kind, part, archive, installed, record, at, stage, got,
                 overlap, changed>>

(* An installed file is changed by something else.                         *)
Change(b) ==
  /\ installed # Absent /\ trouble < TroubleLimit
  /\ trouble' = trouble + 1
  /\ installed' = [installed EXCEPT ![b] = "bad"]
  /\ changed' = TRUE
  /\ UNCHANGED <<kind, part, archive, record, fd, at, stage, pc, got, overlap>>

Step(p) ==
  \/ Start(p) \/ FindArchive(p) \/ Open(p) \/ Write(p) \/ Close(p)
  \/ VerifyPart(p) \/ Rename(p) \/ VerifyArchive(p) \/ Extract(p)
  \/ ExtractRaises(p) \/ VerifyStage(p) \/ Install(p) \/ Check(p)

Next ==
  \/ \E p \in Processes : Step(p) \/ Fail(p) \/ Crash(p)
  \/ \E b \in 1..Blocks : Change(b)

Spec == Init /\ [][Next]_vars

(* A function that is called does not stop by itself, and one that raised  *)
(* is called again: nothing else promises that a build ends.               *)
FairSpec == Spec /\ \A p \in Processes : WF_vars(Step(p))

-----------------------------------------------------------------------------
TypeOK ==
  /\ kind \in Kinds
  /\ part \in File \union {Absent} /\ archive \in File \union {Absent}
  /\ installed \in File \union {Absent} /\ record \in File \union {Absent}
  /\ fd \in [Processes -> {"closed", "own", "part", "archive", "gone"}]
  /\ at \in [Processes -> 0..Blocks]
  /\ stage \in [Processes -> File]
  /\ pc \in [Processes -> Places]
  /\ got \in [Processes -> File \union {Absent}]
  /\ overlap \in BOOLEAN /\ changed \in BOOLEAN
  /\ trouble \in 0..TroubleLimit

(* The archive in the download cache is always whole and as pinned, if the *)
(* function verifies what it downloads before the rename: always for a     *)
(* download of its own, and for archive.part as long as no download met    *)
(* another use.                                                            *)
ArchivePinned ==
  (The.verified /\ (The.shared => ~overlap)) => archive \in {Absent, Pinned}

(* An installation is never there in part, whatever process is killed      *)
(* wherever: it is as pinned, unless it was changed later; where the files *)
(* are not verified before they are installed and the download is shared   *)
(* (sources.obtain, ndk.obtain), unless a download met another use.        *)
InstalledPinned ==
  (~changed /\ (The.shared /\ The.staged # "pins" => ~overlap))
    => installed \in {Absent, Pinned}

(* What five of the functions return is as pinned at that moment, even if  *)
(* somebody changed the cache before and whichever downloads met.  The two *)
(* that check one file (sources.obtain, ndk.obtain) promise as much only   *)
(* of a cache that was left alone and in which no downloads met, and       *)
(* otherwise no more than that file.                                       *)
ReturnedPinned ==
  \A p \in Processes :
    got[p] # Absent =>
      /\ got[p][1] = "good"
      /\ (The.recheck # "one" \/ (~overlap /\ ~changed)) => got[p] = Pinned

(* Everyone gets what is pinned in the end, however often a download fails *)
(* or a process is killed: no half of a download, no stage and no archive  *)
(* left behind stands in the way.  Excepted are an installation that was   *)
(* changed, downloads that meet in archive.part, and an archive that       *)
(* ndk.obtain renamed before it was whole.                                 *)
EveryoneObtains ==
  \A p \in Processes :
    \/ <>(got[p] # Absent)
    \/ <>changed
    \/ <>(The.shared /\ overlap)
    \/ <>(~The.verified /\ archive \notin {Absent, Pinned})
=============================================================================
