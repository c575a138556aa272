------------------------- MODULE SourceCacheProofs -------------------------
(***************************************************************************)
(* Proofs about SourceCache, for any number of processes and blocks and    *)
(* any number of failures: the types, ArchivePinned, InstalledPinned and   *)
(* ReturnedPinned.                                                         *)
(*                                                                         *)
(* None of the three is inductive.  What is in the cache depends on what a *)
(* process is about to put there, so the invariant says what each process  *)
(* holds at each place (Downloads, Unpacked, Staged), and, for the shared  *)
(* part, that a process that downloads is alone as long as no overlap was  *)
(* noted (Alone, OpenFiles).                                               *)
(***************************************************************************)
EXTENDS SourceCache, TLAPS

(* No two users of archive.part have met.                                  *)
Quiet == The.shared => ~overlap

(* The files about to be installed are as pinned.                          *)
Trusted == (The.shared /\ The.staged # "pins") => ~overlap

(* Places where a process does not touch the archive or the part.         *)
Calm == {"idle", "done", "look", "check"}

Present == \A p \in Processes : pc[p] = "extract" => archive # Absent

Alone ==
  (The.shared /\ ~overlap) =>
    \A p, q \in Processes :
      (p # q /\ pc[p] \in Downloading) => pc[q] \in Calm

OpenFiles ==
  Quiet =>
    \A p \in Processes :
      /\ fd[p] \in {"closed", "own", "part"}
      /\ fd[p] = "part" => The.shared /\ pc[p] = "write"

Downloads ==
  (Quiet /\ The.verified) =>
    /\ archive \in {Absent, Pinned}
    /\ \A p \in Processes :
         pc[p] = "rename" => (IF The.shared THEN part ELSE stage[p]) = Pinned

Unpacked ==
  Quiet =>
    \A p \in Processes :
      pc[p] = "extract" =>
        archive = Pinned /\ \A b \in 1..at[p] : stage[p][b] = "good"

Staged ==
  \A p \in Processes :
    pc[p] = "install" =>
      /\ Trusted => stage[p] = Pinned
      /\ The.staged = "one" => stage[p][1] = "good"

Recorded == The.recheck = "record" => record \in {Absent, Pinned}

Typed == TypeOK /\ Present

Inv ==
  /\ Typed /\ Alone /\ OpenFiles /\ Downloads /\ Unpacked /\ Staged /\ Recorded
  /\ InstalledPinned /\ ReturnedPinned

-----------------------------------------------------------------------------
(* The attributes of the seven functions that the argument rests on.       *)
LEMMA Attributes ==
  ASSUME kind \in Kinds
  PROVE  /\ The.shared \in BOOLEAN /\ The.verified \in BOOLEAN
         /\ The.archive \in BOOLEAN /\ The.first \in BOOLEAN
         /\ The.shared => The.archive /\ ~The.replaces
         /\ ~The.shared => The.verified
         /\ ~The.archive => The.staged = "pins" /\ ~The.shared
         /\ The.recheck \in {"pins", "one", "record"}
         /\ The.staged \in {"pins", "one", "none"}
         /\ The.recheck = "one" <=> The.shared /\ The.staged # "pins"
         /\ The.recheck = "record" => ~The.shared
         /\ The.staged = "none" => The.always \/ ~The.shared
<1>1. kind \in {"sources", "selection", "raw", "jdk", "ndk", "reference", "aidl"}
  BY CacheAssumption DEF Functions
<1>2. CASE kind = "sources" BY <1>2 DEF The, Functions, SourcesObtain
<1>3. CASE kind = "selection" BY <1>3 DEF The, Functions, ObtainFiles
<1>4. CASE kind = "raw" BY <1>4 DEF The, Functions, ObtainRawFiles
<1>5. CASE kind = "jdk" BY <1>5 DEF The, Functions, JdkObtain
<1>6. CASE kind = "ndk" BY <1>6 DEF The, Functions, NdkObtain
<1>7. CASE kind = "reference" BY <1>7 DEF The, Functions, ReferencePrepare
<1>8. CASE kind = "aidl" BY <1>8 DEF The, Functions, FetchFile
<1> QED BY <1>1, <1>2, <1>3, <1>4, <1>5, <1>6, <1>7, <1>8

(* Files: the empty one and the pinned one are files, no file is absent,   *)
(* and a file with good blocks only is the pinned one.                     *)
LEMMA Files ==
  /\ Empty \in File /\ Pinned \in File /\ Absent \notin File
  /\ Absent # Pinned /\ Absent # Empty
  /\ \A b \in 1..Blocks : Pinned[b] = "good"
  /\ \A f \in File : (\A b \in 1..Blocks : f[b] = "good") => f = Pinned
<1>1. 1 \in 1..Blocks /\ 1 \notin {} BY CacheAssumption
<1>2. Empty \in File /\ Pinned \in File BY DEF Empty, Pinned, File
<1>3. \A f \in File : DOMAIN f = 1..Blocks BY DEF File
<1>4. DOMAIN Absent = {} BY DEF Absent
<1>5. Absent \notin File BY <1>1, <1>3, <1>4
<1>6. \A b \in 1..Blocks : Pinned[b] = "good" BY DEF Pinned
<1>7. ASSUME NEW f \in File, \A b \in 1..Blocks : f[b] = "good"
      PROVE  f = Pinned
  BY <1>7 DEF File, Pinned
<1> QED BY <1>2, <1>5, <1>6, <1>7

LEMMA FileValues ==
  \A f \in File : \A b \in 1..Blocks : f[b] \in {"none", "good", "bad"}
BY DEF File

(* Writing a block leaves a file a file, and what is absent absent.        *)
LEMMA FileExcept ==
  ASSUME NEW f \in File \union {Absent}, NEW b \in 1..Blocks,
         NEW v \in {"none", "good", "bad"}
  PROVE  /\ f \in File => [f EXCEPT ![b] = v] \in File
         /\ [f EXCEPT ![b] = v] \in File \union {Absent}
<1>1. CASE f \in File BY <1>1 DEF File
<1>2. CASE f = Absent
  <2>1. [f EXCEPT ![b] = v] = f BY <1>2 DEF Absent
  <2> QED BY <2>1, <1>2, Files
<1> QED BY <1>1, <1>2

-----------------------------------------------------------------------------
(* What a write does to the three places a file can be in.                 *)
LEMMA PutTyped ==
  ASSUME TypeOK, NEW p \in Processes, NEW b \in 1..Blocks,
         NEW v \in {"none", "good", "bad"}, Put(p, b, v)
  PROVE  /\ part' \in File \union {Absent} /\ archive' \in File \union {Absent}
         /\ archive # Absent => archive' # Absent
         /\ stage' \in [Processes -> File]
         /\ \A q \in Processes \ {p} : stage'[q] = stage[q]
<1> USE DEF TypeOK, Put
<1>1. part' \in File \union {Absent} BY FileExcept
<1>2. /\ archive' \in File \union {Absent}
      /\ archive # Absent => archive' # Absent
  <2>1. CASE fd[p] # "archive" BY <2>1
  <2>2. CASE fd[p] = "archive"
    <3>1. archive' = [archive EXCEPT ![b] = v] BY <2>2
    <3>2. archive \in File => [archive EXCEPT ![b] = v] \in File
      BY FileExcept
    <3>3. [archive EXCEPT ![b] = v] \in File \union {Absent} BY FileExcept
    <3> QED BY <3>1, <3>2, <3>3, Files
  <2> QED BY <2>1, <2>2
<1>3. stage[p] \in File OBVIOUS
<1>4. [stage[p] EXCEPT ![b] = v] \in File BY <1>3, FileExcept
<1>5. stage' \in [Processes -> File] BY <1>4
<1>6. \A q \in Processes \ {p} : stage'[q] = stage[q] OBVIOUS
<1> QED BY <1>1, <1>2, <1>5, <1>6

(* Every step keeps the types, and that what is being unpacked is there.   *)
LEMMA TypedStep ==
  ASSUME Typed, Next
  PROVE  Typed'
<1> USE DEF Typed, Move, Raise
<1>1. ASSUME NEW p \in Processes, Start(p) PROVE Typed'
  BY <1>1 DEF Start, TypeOK, Present, Places, Downloading
<1>2. ASSUME NEW p \in Processes, FindArchive(p) PROVE Typed'
  BY <1>2 DEF FindArchive, TypeOK, Present, Places, Downloading
<1>3. ASSUME NEW p \in Processes, Open(p) PROVE Typed'
  <2> USE <1>3 DEF Open
  <2>1. at' \in [Processes -> 0..Blocks] BY CacheAssumption DEF TypeOK
  <2>2. part' \in File \union {Absent} /\ stage' \in [Processes -> File]
    BY Files DEF TypeOK
  <2>3. /\ pc' \in [Processes -> Places]
        /\ fd' \in [Processes -> {"closed", "own", "part", "archive", "gone"}]
    BY DEF TypeOK, Places, Downloading
  <2>4. Present' BY DEF TypeOK, Present
  <2> QED BY <2>1, <2>2, <2>3, <2>4 DEF TypeOK
<1>4. ASSUME NEW p \in Processes, Write(p) PROVE Typed'
  <2> USE <1>4 DEF Write
  <2>1. at[p] \in Nat /\ at[p] + 1 \in 1..Blocks BY CacheAssumption DEF TypeOK
  <2>2. PICK v \in {"good", "bad"} : Put(p, at[p] + 1, v) OBVIOUS
  <2>3. v \in {"none", "good", "bad"} OBVIOUS
  <2>4. /\ part' \in File \union {Absent} /\ archive' \in File \union {Absent}
        /\ archive # Absent => archive' # Absent
        /\ stage' \in [Processes -> File]
    BY <2>1, <2>2, <2>3, PutTyped
  <2>5. at' \in [Processes -> 0..Blocks] BY <2>1 DEF TypeOK
  <2>6. trouble' \in 0..TroubleLimit BY CacheAssumption DEF TypeOK
  <2>7. Present' BY <2>4 DEF Present
  <2> QED BY <2>4, <2>5, <2>6, <2>7 DEF TypeOK
<1>5. ASSUME NEW p \in Processes, Close(p) PROVE Typed'
  <2>1. trouble' \in 0..TroubleLimit
    <3>1. CASE at[p] = Blocks BY <3>1, <1>5 DEF Close, TypeOK
    <3>2. CASE at[p] # Blocks
      <4>1. trouble < TroubleLimit /\ trouble' = trouble + 1 BY <3>2, <1>5 DEF Close
      <4> QED BY <4>1, CacheAssumption DEF TypeOK
    <3> QED BY <3>1, <3>2
  <2> QED BY <2>1, <1>5 DEF Close, TypeOK, Present, Places, Downloading
<1>6. ASSUME NEW p \in Processes, Fail(p) PROVE Typed'
  <2> USE <1>6 DEF Fail
  <2>1. 1 \in 1..Blocks BY CacheAssumption
  <2>2. "bad" \in {"none", "good", "bad"} OBVIOUS
  <2>3. /\ part' \in File \union {Absent} /\ archive' \in File \union {Absent}
        /\ archive # Absent => archive' # Absent
        /\ stage' \in [Processes -> File]
    <3>1. CASE UNCHANGED <<part, archive, stage>> BY <3>1 DEF TypeOK
    <3>2. CASE Put(p, 1, "bad") BY <3>2, <2>1, <2>2, PutTyped
    <3> QED BY <3>1, <3>2
  <2>4. /\ pc' \in [Processes -> Places]
        /\ fd' \in [Processes -> {"closed", "own", "part", "archive", "gone"}]
    BY DEF TypeOK, Places
  <2>5. trouble' \in 0..TroubleLimit BY CacheAssumption DEF TypeOK
  <2>6. Present' BY <2>3 DEF Present, TypeOK
  <2> QED BY <2>3, <2>4, <2>5, <2>6 DEF TypeOK
<1>7. ASSUME NEW p \in Processes, VerifyPart(p) PROVE Typed'
  BY <1>7 DEF VerifyPart, TypeOK, Present, Places, Downloading
<1>8. ASSUME NEW p \in Processes, Rename(p) PROVE Typed'
  <2> USE <1>8 DEF Rename
  <2>1. archive' \in File \union {Absent} /\ part' \in File \union {Absent}
    BY DEF TypeOK
  <2>2. /\ pc' \in [Processes -> Places]
        /\ fd' \in [Processes -> {"closed", "own", "part", "archive", "gone"}]
    BY DEF TypeOK, Places
  <2>3. Present' BY Files DEF TypeOK, Present
  <2> QED BY <2>1, <2>2, <2>3 DEF TypeOK
<1>9. ASSUME NEW p \in Processes, VerifyArchive(p) PROVE Typed'
  <2> USE <1>9 DEF VerifyArchive
  <2>1. at' \in [Processes -> 0..Blocks] BY CacheAssumption DEF TypeOK
  <2>2. stage' \in [Processes -> File] BY Files DEF TypeOK
  <2>3. /\ pc' \in [Processes -> Places]
        /\ fd' \in [Processes -> {"closed", "own", "part", "archive", "gone"}]
    BY DEF TypeOK, Places
  <2>4. Present' BY Files DEF TypeOK, Present
  <2> QED BY <2>1, <2>2, <2>3, <2>4 DEF TypeOK
<1>10. ASSUME NEW p \in Processes, Extract(p) PROVE Typed'
  <2> USE <1>10 DEF Extract
  <2>1. at[p] \in Nat /\ at[p] + 1 \in 1..Blocks BY CacheAssumption DEF TypeOK
  <2>2. archive \in File BY DEF TypeOK, Present
  <2>3. archive[at[p] + 1] \in {"none", "good", "bad"} BY <2>1, <2>2, FileValues
  <2>4. stage[p] \in File BY DEF TypeOK
  <2>5. [stage[p] EXCEPT ![at[p] + 1] = archive[at[p] + 1]] \in File
    BY <2>1, <2>3, <2>4, FileExcept
  <2>6. stage' \in [Processes -> File] BY <2>5 DEF TypeOK
  <2>7. at' \in [Processes -> 0..Blocks] BY <2>1 DEF TypeOK
  <2> QED BY <2>6, <2>7 DEF TypeOK, Present
<1>11. ASSUME NEW p \in Processes, ExtractRaises(p) PROVE Typed'
  BY <1>11 DEF ExtractRaises, TypeOK, Present, Places, Downloading
<1>12. ASSUME NEW p \in Processes, VerifyStage(p) PROVE Typed'
  BY <1>12 DEF VerifyStage, TypeOK, Present, Places, Downloading
<1>13. ASSUME NEW p \in Processes, Install(p) PROVE Typed'
  <2>1. stage[p] \in File BY DEF TypeOK
  <2>2. /\ installed' \in File \union {Absent} /\ record' \in File \union {Absent}
        /\ got' \in [Processes -> File \union {Absent}]
    BY <2>1, <1>13 DEF Install, Return, TypeOK
  <2> QED BY <2>2, <1>13 DEF Install, Return, TypeOK, Present, Places
<1>14. ASSUME NEW p \in Processes, Check(p) PROVE Typed'
  BY <1>14 DEF Check, Return, TypeOK, Present, Places, Downloading
<1>15. ASSUME NEW p \in Processes, Crash(p) PROVE Typed'
  <2>1. trouble' \in 0..TroubleLimit BY <1>15, CacheAssumption DEF Crash, TypeOK
  <2> QED BY <2>1, <1>15 DEF Crash, TypeOK, Present, Places, Downloading
<1>16. ASSUME NEW b \in 1..Blocks, Change(b) PROVE Typed'
  <2> USE <1>16 DEF Change
  <2>1. installed \in File \union {Absent} /\ "bad" \in {"none", "good", "bad"}
    BY DEF TypeOK
  <2>2. installed' \in File \union {Absent} BY <2>1, FileExcept
  <2>3. trouble' \in 0..TroubleLimit BY CacheAssumption DEF TypeOK
  <2> QED BY <2>2, <2>3 DEF TypeOK, Present
<1> QED
  BY <1>1, <1>2, <1>3, <1>4, <1>5, <1>6, <1>7, <1>8, <1>9, <1>10, <1>11, <1>12, <1>13, <1>14, <1>15, <1>16 DEF Next, Step

LEMMA KindKept ==
  ASSUME Next
  PROVE  The' = The /\ kind' = kind
BY DEF The, Next, Step, Start, FindArchive, Open, Write, Close, Fail, VerifyPart, Rename, VerifyArchive, Extract, ExtractRaises, VerifyStage, Install, Check, Crash, Change

-----------------------------------------------------------------------------
(* Who downloads is alone, as long as no overlap was noted: a process that *)
(* moves without starting a download or turning to the archive keeps that. *)
LEMMA AloneMoved ==
  ASSUME Alone, The' = The, overlap' = overlap, NEW p \in Processes,
         \A q \in Processes \ {p} : pc'[q] = pc[q],
         pc'[p] \in Downloading => pc[p] \in Downloading,
         pc[p] \in Calm => pc'[p] \in Calm
  PROVE  Alone'
BY DEF Alone

(* Every step keeps it.                                                    *)
LEMMA AloneStep ==
  ASSUME Inv, Next
  PROVE  Alone'
<1> USE KindKept, Attributes, Files DEF Inv, Typed, TypeOK, Move, Raise
<1>1. ASSUME NEW p \in Processes, Start(p) PROVE Alone'
  <2>1. CASE ~The.shared BY <2>1 DEF Alone
  <2>2. CASE The.shared
    <3>1. pc[p] \in Calm /\ pc'[p] \in Calm /\ pc'[p] \notin Downloading
      BY <1>1, <2>2 DEF Start, Calm, Downloading
    <3>2. overlap' = overlap /\ \A q \in Processes \ {p} : pc'[q] = pc[q]
      BY <1>1 DEF Start
    <3> QED BY <3>1, <3>2, AloneMoved
  <2> QED BY <2>1, <2>2
<1>2. ASSUME NEW p \in Processes, FindArchive(p) PROVE Alone'
  <2> SUFFICES ASSUME The.shared, ~overlap', NEW q \in Processes, NEW r \in Processes,
                      q # r, pc'[q] \in Downloading
               PROVE  pc'[r] \in Calm
    BY DEF Alone
  <2> QED BY <1>2 DEF FindArchive, Alone, Downloading, Calm
<1>3. ASSUME NEW p \in Processes, Open(p) PROVE Alone'
  <2> SUFFICES ASSUME The.shared, ~overlap', NEW q \in Processes, NEW r \in Processes,
                      q # r, pc'[q] \in Downloading
               PROVE  pc'[r] \in Calm
    BY DEF Alone
  <2> QED BY <1>3 DEF Open, Alone, Downloading, Calm
<1>4. ASSUME NEW p \in Processes, Write(p) PROVE Alone'
  BY <1>4, AloneMoved DEF Write, Put, Downloading, Calm
<1>5. ASSUME NEW p \in Processes, Close(p) PROVE Alone'
  BY <1>5, AloneMoved DEF Close, Downloading, Calm
<1>6. ASSUME NEW p \in Processes, Fail(p) PROVE Alone'
  BY <1>6, AloneMoved DEF Fail, Put, Downloading, Calm
<1>7. ASSUME NEW p \in Processes, VerifyPart(p) PROVE Alone'
  BY <1>7, AloneMoved DEF VerifyPart, Downloading, Calm
<1>8. ASSUME NEW p \in Processes, Rename(p) PROVE Alone'
  BY <1>8, AloneMoved DEF Rename, Downloading, Calm
<1>9. ASSUME NEW p \in Processes, VerifyArchive(p) PROVE Alone'
  BY <1>9, AloneMoved DEF VerifyArchive, Downloading, Calm
<1>10. ASSUME NEW p \in Processes, Extract(p) PROVE Alone'
  BY <1>10, AloneMoved DEF Extract, Downloading, Calm
<1>11. ASSUME NEW p \in Processes, ExtractRaises(p) PROVE Alone'
  BY <1>11, AloneMoved DEF ExtractRaises, Downloading, Calm
<1>12. ASSUME NEW p \in Processes, VerifyStage(p) PROVE Alone'
  BY <1>12, AloneMoved DEF VerifyStage, Downloading, Calm
<1>13. ASSUME NEW p \in Processes, Install(p) PROVE Alone'
  BY <1>13, AloneMoved DEF Install, Return, Downloading, Calm
<1>14. ASSUME NEW p \in Processes, Check(p) PROVE Alone'
  BY <1>14, AloneMoved DEF Check, Return, Downloading, Calm
<1>15. ASSUME NEW p \in Processes, Crash(p) PROVE Alone'
  BY <1>15, AloneMoved DEF Crash, Downloading, Calm
<1>16. ASSUME NEW b \in 1..Blocks, Change(b) PROVE Alone'
  BY <1>16 DEF Change, Alone
<1> QED
  BY <1>1, <1>2, <1>3, <1>4, <1>5, <1>6, <1>7, <1>8, <1>9, <1>10, <1>11, <1>12, <1>13, <1>14, <1>15, <1>16 DEF Next, Step

(* The file that a process writes is still where it opened it.             *)
LEMMA OpenFilesStep ==
  ASSUME Inv, Next
  PROVE  OpenFiles'
<1> USE KindKept, Attributes, Files DEF Inv, Typed, TypeOK, Move, Raise
<1>1. ASSUME NEW p \in Processes, Start(p) PROVE OpenFiles'
  BY <1>1 DEF Start, OpenFiles, Quiet
<1>2. ASSUME NEW p \in Processes, FindArchive(p) PROVE OpenFiles'
  BY <1>2 DEF FindArchive, OpenFiles, Quiet
<1>3. ASSUME NEW p \in Processes, Open(p) PROVE OpenFiles'
  BY <1>3 DEF Open, OpenFiles, Quiet
<1>4. ASSUME NEW p \in Processes, Write(p) PROVE OpenFiles'
  BY <1>4 DEF Write, Put, OpenFiles, Quiet
<1>5. ASSUME NEW p \in Processes, Close(p) PROVE OpenFiles'
  BY <1>5 DEF Close, OpenFiles, Quiet
<1>6. ASSUME NEW p \in Processes, Fail(p) PROVE OpenFiles'
  BY <1>6 DEF Fail, Put, OpenFiles, Quiet
<1>7. ASSUME NEW p \in Processes, VerifyPart(p) PROVE OpenFiles'
  BY <1>7 DEF VerifyPart, OpenFiles, Quiet
<1>8. ASSUME NEW p \in Processes, Rename(p) PROVE OpenFiles'
  <2> USE <1>8 DEF Rename
  <2>1. CASE The.shared /\ part = Absent BY <2>1 DEF OpenFiles, Quiet
  <2>2. CASE ~The.shared BY <2>2 DEF OpenFiles, Quiet
  <2>3. CASE The.shared /\ part # Absent /\ ~overlap
    <3>1. \A q \in Processes : fd[q] \in {"closed", "own"}
      BY <2>3 DEF OpenFiles, Quiet, Alone, Downloading, Calm
    <3> QED BY <3>1, <2>3 DEF OpenFiles, Quiet
  <2> QED BY <2>1, <2>2, <2>3 DEF OpenFiles, Quiet
<1>9. ASSUME NEW p \in Processes, VerifyArchive(p) PROVE OpenFiles'
  BY <1>9 DEF VerifyArchive, OpenFiles, Quiet
<1>10. ASSUME NEW p \in Processes, Extract(p) PROVE OpenFiles'
  BY <1>10 DEF Extract, OpenFiles, Quiet
<1>11. ASSUME NEW p \in Processes, ExtractRaises(p) PROVE OpenFiles'
  BY <1>11 DEF ExtractRaises, OpenFiles, Quiet
<1>12. ASSUME NEW p \in Processes, VerifyStage(p) PROVE OpenFiles'
  BY <1>12 DEF VerifyStage, OpenFiles, Quiet
<1>13. ASSUME NEW p \in Processes, Install(p) PROVE OpenFiles'
  BY <1>13 DEF Install, Return, OpenFiles, Quiet
<1>14. ASSUME NEW p \in Processes, Check(p) PROVE OpenFiles'
  BY <1>14 DEF Check, Return, OpenFiles, Quiet
<1>15. ASSUME NEW p \in Processes, Crash(p) PROVE OpenFiles'
  BY <1>15 DEF Crash, OpenFiles, Quiet
<1>16. ASSUME NEW b \in 1..Blocks, Change(b) PROVE OpenFiles'
  BY <1>16 DEF Change, OpenFiles, Quiet
<1> QED
  BY <1>1, <1>2, <1>3, <1>4, <1>5, <1>6, <1>7, <1>8, <1>9, <1>10, <1>11, <1>12, <1>13, <1>14, <1>15, <1>16 DEF Next, Step

(* A write spoils neither what another process is about to rename nor what *)
(* another one is unpacking.                                               *)
LEMMA PutKeeps ==
  ASSUME Inv, NEW p \in Processes, NEW b, NEW v, Put(p, b, v), pc[p] = "write",
         The' = The, overlap' = overlap, pc'[p] \in {"write", "idle"},
         \A q \in Processes \ {p} : pc'[q] = pc[q] /\ at'[q] = at[q]
  PROVE  Downloads' /\ Unpacked'
<1>1. Quiet' => archive' = archive BY DEF Inv, OpenFiles, Quiet, Put
<1>2. \A q \in Processes \ {p} : stage'[q] = stage[q]
  BY DEF Inv, Typed, TypeOK, Put
<1>3. (Quiet' /\ The.shared) => \A q \in Processes \ {p} : pc[q] \in Calm
  BY DEF Inv, Alone, Quiet, Downloading
<1>4. Quiet' /\ ~The.shared => part' = part BY DEF Inv, OpenFiles, Quiet, Put
<1>5. Downloads'
  BY <1>1, <1>2, <1>3, <1>4 DEF Inv, Downloads, Quiet, Calm
<1>6. Unpacked'
  BY <1>1, <1>2 DEF Inv, Unpacked, Quiet
<1> QED BY <1>5, <1>6

(* What is about to be renamed is as pinned.                               *)
LEMMA DownloadsStep ==
  ASSUME Inv, Next
  PROVE  Downloads'
<1> USE KindKept, Attributes, Files DEF Inv, Typed, TypeOK, Move, Raise
<1>1. ASSUME NEW p \in Processes, Start(p) PROVE Downloads'
  BY <1>1 DEF Start, Downloads, Quiet
<1>2. ASSUME NEW p \in Processes, FindArchive(p) PROVE Downloads'
  BY <1>2 DEF FindArchive, Downloads, Quiet
<1>3. ASSUME NEW p \in Processes, Open(p) PROVE Downloads'
  BY <1>3 DEF Open, Downloads, Quiet
<1>4. ASSUME NEW p \in Processes, Write(p) PROVE Downloads'
  <2>1. \A q \in Processes \ {p} : pc'[q] = pc[q] /\ at'[q] = at[q] BY <1>4 DEF Write
  <2>2. pc[p] = "write" /\ pc'[p] \in {"write", "idle"} /\ overlap' = overlap
    BY <1>4 DEF Write
  <2>3. CASE \E b, v : Put(p, b, v) BY <2>1, <2>2, <2>3, PutKeeps
  <2> QED BY <2>3, <1>4 DEF Write
<1>5. ASSUME NEW p \in Processes, Close(p) PROVE Downloads'
  BY <1>5 DEF Close, Downloads, Quiet
<1>6. ASSUME NEW p \in Processes, Fail(p) PROVE Downloads'
  <2>1. \A q \in Processes \ {p} : pc'[q] = pc[q] /\ at'[q] = at[q] BY <1>6 DEF Fail
  <2>2. pc[p] = "write" /\ pc'[p] \in {"write", "idle"} /\ overlap' = overlap
    BY <1>6 DEF Fail
  <2>3. CASE \E b, v : Put(p, b, v) BY <2>1, <2>2, <2>3, PutKeeps
  <2>4. CASE UNCHANGED <<part, archive, stage>> BY <2>2, <2>4, <1>6 DEF Fail, Downloads, Quiet
  <2> QED BY <2>3, <2>4, <1>6 DEF Fail
<1>7. ASSUME NEW p \in Processes, VerifyPart(p) PROVE Downloads'
  <2>1. /\ part' = part /\ archive' = archive /\ stage' = stage /\ overlap' = overlap
        /\ \A q \in Processes \ {p} : pc'[q] = pc[q]
    BY <1>7 DEF VerifyPart
  <2>2. pc'[p] = "rename" => (IF The.shared THEN part ELSE stage[p]) = Pinned
    BY <1>7 DEF VerifyPart
  <2> QED BY <2>1, <2>2 DEF Downloads, Quiet
<1>8. ASSUME NEW p \in Processes, Rename(p) PROVE Downloads'
  <2> USE <1>8 DEF Rename
  <2>1. CASE The.shared /\ part = Absent BY <2>1 DEF Downloads, Quiet
  <2>2. CASE ~The.shared BY <2>2 DEF Downloads, Quiet
  <2>3. CASE The.shared /\ part # Absent /\ ~overlap
    <3>1. \A q \in Processes \ {p} : pc[q] \in Calm
      BY <2>3 DEF Alone, Downloading
    <3>2. \A q \in Processes : pc'[q] # "rename" BY <3>1, <2>3 DEF Calm
    <3>3. The.verified => archive' = Pinned BY <2>3 DEF Downloads, Quiet
    <3> QED BY <3>2, <3>3 DEF Downloads
  <2> QED BY <2>1, <2>2, <2>3 DEF Downloads, Quiet
<1>9. ASSUME NEW p \in Processes, VerifyArchive(p) PROVE Downloads'
  BY <1>9 DEF VerifyArchive, Downloads, Quiet
<1>10. ASSUME NEW p \in Processes, Extract(p) PROVE Downloads'
  BY <1>10 DEF Extract, Downloads, Quiet
<1>11. ASSUME NEW p \in Processes, ExtractRaises(p) PROVE Downloads'
  BY <1>11 DEF ExtractRaises, Downloads, Quiet
<1>12. ASSUME NEW p \in Processes, VerifyStage(p) PROVE Downloads'
  BY <1>12 DEF VerifyStage, Downloads, Quiet
<1>13. ASSUME NEW p \in Processes, Install(p) PROVE Downloads'
  BY <1>13 DEF Install, Return, Downloads, Quiet
<1>14. ASSUME NEW p \in Processes, Check(p) PROVE Downloads'
  BY <1>14 DEF Check, Return, Downloads, Quiet
<1>15. ASSUME NEW p \in Processes, Crash(p) PROVE Downloads'
  BY <1>15 DEF Crash, Downloads, Quiet
<1>16. ASSUME NEW b \in 1..Blocks, Change(b) PROVE Downloads'
  BY <1>16 DEF Change, Downloads, Quiet
<1> QED
  BY <1>1, <1>2, <1>3, <1>4, <1>5, <1>6, <1>7, <1>8, <1>9, <1>10, <1>11, <1>12, <1>13, <1>14, <1>15, <1>16 DEF Next, Step

(* What was unpacked so far is as pinned.                                  *)
LEMMA UnpackedStep ==
  ASSUME Inv, Next
  PROVE  Unpacked'
<1> USE KindKept, Attributes, Files DEF Inv, Typed, TypeOK, Move, Raise
<1>1. ASSUME NEW p \in Processes, Start(p) PROVE Unpacked'
  BY <1>1 DEF Start, Unpacked, Quiet
<1>2. ASSUME NEW p \in Processes, FindArchive(p) PROVE Unpacked'
  BY <1>2 DEF FindArchive, Unpacked, Quiet
<1>3. ASSUME NEW p \in Processes, Open(p) PROVE Unpacked'
  BY <1>3 DEF Open, Unpacked, Quiet
<1>4. ASSUME NEW p \in Processes, Write(p) PROVE Unpacked'
  <2>1. \A q \in Processes \ {p} : pc'[q] = pc[q] /\ at'[q] = at[q] BY <1>4 DEF Write
  <2>2. pc[p] = "write" /\ pc'[p] \in {"write", "idle"} /\ overlap' = overlap
    BY <1>4 DEF Write
  <2>3. CASE \E b, v : Put(p, b, v) BY <2>1, <2>2, <2>3, PutKeeps
  <2> QED BY <2>3, <1>4 DEF Write
<1>5. ASSUME NEW p \in Processes, Close(p) PROVE Unpacked'
  BY <1>5 DEF Close, Unpacked, Quiet
<1>6. ASSUME NEW p \in Processes, Fail(p) PROVE Unpacked'
  <2>1. \A q \in Processes \ {p} : pc'[q] = pc[q] /\ at'[q] = at[q] BY <1>6 DEF Fail
  <2>2. pc[p] = "write" /\ pc'[p] \in {"write", "idle"} /\ overlap' = overlap
    BY <1>6 DEF Fail
  <2>3. CASE \E b, v : Put(p, b, v) BY <2>1, <2>2, <2>3, PutKeeps
  <2>4. CASE UNCHANGED <<part, archive, stage>> BY <2>2, <2>4, <1>6 DEF Fail, Unpacked, Quiet
  <2> QED BY <2>3, <2>4, <1>6 DEF Fail
<1>7. ASSUME NEW p \in Processes, VerifyPart(p) PROVE Unpacked'
  <2>1. /\ archive' = archive /\ stage' = stage /\ at' = at /\ overlap' = overlap
        /\ pc'[p] # "extract" /\ \A q \in Processes \ {p} : pc'[q] = pc[q]
    BY <1>7 DEF VerifyPart
  <2> QED BY <2>1 DEF Unpacked, Quiet
<1>8. ASSUME NEW p \in Processes, Rename(p) PROVE Unpacked'
  <2> USE <1>8 DEF Rename
  <2>1. /\ stage' = stage /\ at' = at /\ overlap' = overlap
        /\ pc'[p] # "extract" /\ \A q \in Processes \ {p} : pc'[q] = pc[q]
    OBVIOUS
  <2>2. CASE The.shared /\ part = Absent BY <2>1, <2>2 DEF Unpacked, Quiet
  <2>3. CASE ~The.shared
    <3>1. archive' = Pinned BY <2>3 DEF Downloads, Quiet
    <3> QED BY <2>1, <3>1, <2>3 DEF Unpacked, Quiet
  <2>4. CASE The.shared /\ ~overlap
    <3>1. \A q \in Processes \ {p} : pc[q] \in Calm
      BY <2>4 DEF Alone, Downloading
    <3> QED BY <2>1, <3>1 DEF Unpacked, Calm
  <2> QED BY <2>1, <2>2, <2>3, <2>4 DEF Unpacked, Quiet
<1>9. ASSUME NEW p \in Processes, VerifyArchive(p) PROVE Unpacked'
  BY <1>9 DEF VerifyArchive, Unpacked, Quiet
<1>10. ASSUME NEW p \in Processes, Extract(p) PROVE Unpacked'
  <2> USE <1>10 DEF Extract
  <2>1. /\ archive' = archive /\ pc' = pc /\ overlap' = overlap
        /\ \A q \in Processes \ {p} : stage'[q] = stage[q] /\ at'[q] = at[q]
    OBVIOUS
  <2>2. at[p] \in Nat /\ at[p] + 1 \in 1..Blocks /\ at'[p] = at[p] + 1
    BY CacheAssumption
  <2>3. ASSUME Quiet PROVE \A b \in 1..at'[p] : stage'[p][b] = "good"
    <3>1. archive[at[p] + 1] = "good" BY <2>2, <2>3 DEF Unpacked
    <3>2. \A b \in 1..at[p] : stage[p][b] = "good" BY <2>3 DEF Unpacked
    <3>3. stage[p] \in File /\ DOMAIN stage[p] = 1..Blocks BY DEF File
    <3>4. stage'[p] = [stage[p] EXCEPT ![at[p] + 1] = "good"] BY <3>1
    <3> QED BY <3>2, <3>3, <3>4, <2>2, CacheAssumption
  <2> QED BY <2>1, <2>3 DEF Unpacked, Quiet
<1>11. ASSUME NEW p \in Processes, ExtractRaises(p) PROVE Unpacked'
  BY <1>11 DEF ExtractRaises, Unpacked, Quiet
<1>12. ASSUME NEW p \in Processes, VerifyStage(p) PROVE Unpacked'
  BY <1>12 DEF VerifyStage, Unpacked, Quiet
<1>13. ASSUME NEW p \in Processes, Install(p) PROVE Unpacked'
  BY <1>13 DEF Install, Return, Unpacked, Quiet
<1>14. ASSUME NEW p \in Processes, Check(p) PROVE Unpacked'
  BY <1>14 DEF Check, Return, Unpacked, Quiet
<1>15. ASSUME NEW p \in Processes, Crash(p) PROVE Unpacked'
  BY <1>15 DEF Crash, Unpacked, Quiet
<1>16. ASSUME NEW b \in 1..Blocks, Change(b) PROVE Unpacked'
  BY <1>16 DEF Change, Unpacked, Quiet
<1> QED
  BY <1>1, <1>2, <1>3, <1>4, <1>5, <1>6, <1>7, <1>8, <1>9, <1>10, <1>11, <1>12, <1>13, <1>14, <1>15, <1>16 DEF Next, Step

(* What is about to be installed is as pinned.                             *)
LEMMA StagedStep ==
  ASSUME Inv, Next
  PROVE  Staged'
<1> USE KindKept, Attributes, Files DEF Inv, Typed, TypeOK, Move, Raise
<1>1. ASSUME NEW p \in Processes, Start(p) PROVE Staged'
  BY <1>1 DEF Start, Staged, Trusted
<1>2. ASSUME NEW p \in Processes, FindArchive(p) PROVE Staged'
  BY <1>2 DEF FindArchive, Staged, Trusted
<1>3. ASSUME NEW p \in Processes, Open(p) PROVE Staged'
  BY <1>3 DEF Open, Staged, Trusted
<1>4. ASSUME NEW p \in Processes, Write(p) PROVE Staged'
  BY <1>4 DEF Write, Put, Staged, Trusted
<1>5. ASSUME NEW p \in Processes, Close(p) PROVE Staged'
  BY <1>5 DEF Close, Staged, Trusted
<1>6. ASSUME NEW p \in Processes, Fail(p) PROVE Staged'
  BY <1>6 DEF Fail, Put, Staged, Trusted
<1>7. ASSUME NEW p \in Processes, VerifyPart(p) PROVE Staged'
  <2>1. /\ stage' = stage /\ overlap' = overlap
        /\ \A q \in Processes \ {p} : pc'[q] = pc[q]
    BY <1>7 DEF VerifyPart
  <2>2. pc'[p] = "install" => stage[p] = Pinned /\ The.staged = "pins"
    BY <1>7 DEF VerifyPart
  <2> QED BY <2>1, <2>2 DEF Staged, Trusted
<1>8. ASSUME NEW p \in Processes, Rename(p) PROVE Staged'
  BY <1>8 DEF Rename, Staged, Trusted
<1>9. ASSUME NEW p \in Processes, VerifyArchive(p) PROVE Staged'
  BY <1>9 DEF VerifyArchive, Staged, Trusted
<1>10. ASSUME NEW p \in Processes, Extract(p) PROVE Staged'
  BY <1>10 DEF Extract, Staged, Trusted
<1>11. ASSUME NEW p \in Processes, ExtractRaises(p) PROVE Staged'
  BY <1>11 DEF ExtractRaises, Staged, Trusted
<1>12. ASSUME NEW p \in Processes, VerifyStage(p) PROVE Staged'
  <2> USE <1>12 DEF VerifyStage
  <2>1. /\ stage' = stage /\ overlap' = overlap
        /\ \A q \in Processes \ {p} : pc'[q] = pc[q]
    OBVIOUS
  <2>2. (pc'[p] = "install" /\ Trusted) => stage[p] = Pinned
    <3>1. CASE The.staged = "pins" BY <3>1 DEF Matches
    <3>2. CASE Quiet BY <3>2 DEF Unpacked
    <3> QED BY <3>1, <3>2 DEF Trusted, Quiet
  <2>3. (pc'[p] = "install" /\ The.staged = "one") => stage[p][1] = "good"
    BY DEF Matches
  <2> QED BY <2>1, <2>2, <2>3 DEF Staged, Trusted
<1>13. ASSUME NEW p \in Processes, Install(p) PROVE Staged'
  BY <1>13 DEF Install, Return, Staged, Trusted
<1>14. ASSUME NEW p \in Processes, Check(p) PROVE Staged'
  BY <1>14 DEF Check, Return, Staged, Trusted
<1>15. ASSUME NEW p \in Processes, Crash(p) PROVE Staged'
  BY <1>15 DEF Crash, Staged, Trusted
<1>16. ASSUME NEW b \in 1..Blocks, Change(b) PROVE Staged'
  BY <1>16 DEF Change, Staged, Trusted
<1> QED
  BY <1>1, <1>2, <1>3, <1>4, <1>5, <1>6, <1>7, <1>8, <1>9, <1>10, <1>11, <1>12, <1>13, <1>14, <1>15, <1>16 DEF Next, Step

(* The record that jdk.obtain makes is that of the pinned files.           *)
LEMMA RecordedStep ==
  ASSUME Inv, Next
  PROVE  Recorded'
<1> USE KindKept, Attributes, Files DEF Inv, Typed, TypeOK, Move, Raise
<1>1. ASSUME NEW p \in Processes, Start(p) PROVE Recorded'
  BY <1>1 DEF Start, Recorded
<1>2. ASSUME NEW p \in Processes, FindArchive(p) PROVE Recorded'
  BY <1>2 DEF FindArchive, Recorded
<1>3. ASSUME NEW p \in Processes, Open(p) PROVE Recorded'
  BY <1>3 DEF Open, Recorded
<1>4. ASSUME NEW p \in Processes, Write(p) PROVE Recorded'
  BY <1>4 DEF Write, Put, Recorded
<1>5. ASSUME NEW p \in Processes, Close(p) PROVE Recorded'
  BY <1>5 DEF Close, Recorded
<1>6. ASSUME NEW p \in Processes, Fail(p) PROVE Recorded'
  BY <1>6 DEF Fail, Put, Recorded
<1>7. ASSUME NEW p \in Processes, VerifyPart(p) PROVE Recorded'
  BY <1>7 DEF VerifyPart, Recorded
<1>8. ASSUME NEW p \in Processes, Rename(p) PROVE Recorded'
  BY <1>8 DEF Rename, Recorded
<1>9. ASSUME NEW p \in Processes, VerifyArchive(p) PROVE Recorded'
  BY <1>9 DEF VerifyArchive, Recorded
<1>10. ASSUME NEW p \in Processes, Extract(p) PROVE Recorded'
  BY <1>10 DEF Extract, Recorded
<1>11. ASSUME NEW p \in Processes, ExtractRaises(p) PROVE Recorded'
  BY <1>11 DEF ExtractRaises, Recorded
<1>12. ASSUME NEW p \in Processes, VerifyStage(p) PROVE Recorded'
  BY <1>12 DEF VerifyStage, Recorded
<1>13. ASSUME NEW p \in Processes, Install(p) PROVE Recorded'
  BY <1>13 DEF Install, Return, Staged, Trusted, Recorded
<1>14. ASSUME NEW p \in Processes, Check(p) PROVE Recorded'
  BY <1>14 DEF Check, Return, Recorded
<1>15. ASSUME NEW p \in Processes, Crash(p) PROVE Recorded'
  BY <1>15 DEF Crash, Recorded
<1>16. ASSUME NEW b \in 1..Blocks, Change(b) PROVE Recorded'
  BY <1>16 DEF Change, Recorded
<1> QED
  BY <1>1, <1>2, <1>3, <1>4, <1>5, <1>6, <1>7, <1>8, <1>9, <1>10, <1>11, <1>12, <1>13, <1>14, <1>15, <1>16 DEF Next, Step

(* What is installed is as pinned.                                         *)
LEMMA InstalledPinnedStep ==
  ASSUME Inv, Next
  PROVE  InstalledPinned'
<1> USE KindKept, Attributes, Files DEF Inv, Typed, TypeOK, Move, Raise
<1>1. ASSUME NEW p \in Processes, Start(p) PROVE InstalledPinned'
  BY <1>1 DEF Start, InstalledPinned
<1>2. ASSUME NEW p \in Processes, FindArchive(p) PROVE InstalledPinned'
  BY <1>2 DEF FindArchive, InstalledPinned
<1>3. ASSUME NEW p \in Processes, Open(p) PROVE InstalledPinned'
  BY <1>3 DEF Open, InstalledPinned
<1>4. ASSUME NEW p \in Processes, Write(p) PROVE InstalledPinned'
  BY <1>4 DEF Write, Put, InstalledPinned
<1>5. ASSUME NEW p \in Processes, Close(p) PROVE InstalledPinned'
  BY <1>5 DEF Close, InstalledPinned
<1>6. ASSUME NEW p \in Processes, Fail(p) PROVE InstalledPinned'
  BY <1>6 DEF Fail, Put, InstalledPinned
<1>7. ASSUME NEW p \in Processes, VerifyPart(p) PROVE InstalledPinned'
  BY <1>7 DEF VerifyPart, InstalledPinned
<1>8. ASSUME NEW p \in Processes, Rename(p) PROVE InstalledPinned'
  BY <1>8 DEF Rename, InstalledPinned
<1>9. ASSUME NEW p \in Processes, VerifyArchive(p) PROVE InstalledPinned'
  BY <1>9 DEF VerifyArchive, InstalledPinned
<1>10. ASSUME NEW p \in Processes, Extract(p) PROVE InstalledPinned'
  BY <1>10 DEF Extract, InstalledPinned
<1>11. ASSUME NEW p \in Processes, ExtractRaises(p) PROVE InstalledPinned'
  BY <1>11 DEF ExtractRaises, InstalledPinned
<1>12. ASSUME NEW p \in Processes, VerifyStage(p) PROVE InstalledPinned'
  BY <1>12 DEF VerifyStage, InstalledPinned
<1>13. ASSUME NEW p \in Processes, Install(p) PROVE InstalledPinned'
  BY <1>13 DEF Install, Return, Staged, Trusted, InstalledPinned
<1>14. ASSUME NEW p \in Processes, Check(p) PROVE InstalledPinned'
  BY <1>14 DEF Check, Return, InstalledPinned
<1>15. ASSUME NEW p \in Processes, Crash(p) PROVE InstalledPinned'
  BY <1>15 DEF Crash, InstalledPinned
<1>16. ASSUME NEW b \in 1..Blocks, Change(b) PROVE InstalledPinned'
  BY <1>16 DEF Change, InstalledPinned
<1> QED
  BY <1>1, <1>2, <1>3, <1>4, <1>5, <1>6, <1>7, <1>8, <1>9, <1>10, <1>11, <1>12, <1>13, <1>14, <1>15, <1>16 DEF Next, Step

(* What is returned is as pinned, or the file that was checked is.         *)
LEMMA ReturnedPinnedStep ==
  ASSUME Inv, Next
  PROVE  ReturnedPinned'
<1> USE KindKept, Attributes, Files DEF Inv, Typed, TypeOK, Move, Raise
<1>1. ASSUME NEW p \in Processes, Start(p) PROVE ReturnedPinned'
  BY <1>1 DEF Start, ReturnedPinned
<1>2. ASSUME NEW p \in Processes, FindArchive(p) PROVE ReturnedPinned'
  BY <1>2 DEF FindArchive, ReturnedPinned
<1>3. ASSUME NEW p \in Processes, Open(p) PROVE ReturnedPinned'
  BY <1>3 DEF Open, ReturnedPinned
<1>4. ASSUME NEW p \in Processes, Write(p) PROVE ReturnedPinned'
  BY <1>4 DEF Write, Put, ReturnedPinned
<1>5. ASSUME NEW p \in Processes, Close(p) PROVE ReturnedPinned'
  BY <1>5 DEF Close, ReturnedPinned
<1>6. ASSUME NEW p \in Processes, Fail(p) PROVE ReturnedPinned'
  BY <1>6 DEF Fail, Put, ReturnedPinned
<1>7. ASSUME NEW p \in Processes, VerifyPart(p) PROVE ReturnedPinned'
  BY <1>7 DEF VerifyPart, ReturnedPinned
<1>8. ASSUME NEW p \in Processes, Rename(p) PROVE ReturnedPinned'
  BY <1>8 DEF Rename, ReturnedPinned
<1>9. ASSUME NEW p \in Processes, VerifyArchive(p) PROVE ReturnedPinned'
  BY <1>9 DEF VerifyArchive, ReturnedPinned
<1>10. ASSUME NEW p \in Processes, Extract(p) PROVE ReturnedPinned'
  BY <1>10 DEF Extract, ReturnedPinned
<1>11. ASSUME NEW p \in Processes, ExtractRaises(p) PROVE ReturnedPinned'
  BY <1>11 DEF ExtractRaises, ReturnedPinned
<1>12. ASSUME NEW p \in Processes, VerifyStage(p) PROVE ReturnedPinned'
  BY <1>12 DEF VerifyStage, ReturnedPinned
<1>13. ASSUME NEW p \in Processes, Install(p) PROVE ReturnedPinned'
  <2>1. Pinned[1] = "good"
    BY CacheAssumption
  <2>2. ASSUME ~The.always, pc[p] = "install"
        PROVE  /\ stage[p][1] = "good"
               /\ (The.recheck # "one" \/ (~overlap /\ ~changed)) => stage[p] = Pinned
    <3>1. Trusted => stage[p] = Pinned
      BY <2>2 DEF Staged
    <3>2. The.staged = "one" => stage[p][1] = "good"
      BY <2>2 DEF Staged
    <3>3. Trusted <=> (The.recheck = "one" => ~overlap)
      BY DEF Trusted
    <3>4. The.recheck = "one" => The.staged = "one"
      BY <2>2
    <3> QED BY <2>1, <3>1, <3>2, <3>3, <3>4
  <2> QED BY <1>13, <2>2 DEF Install, Return, ReturnedPinned
<1>14. ASSUME NEW p \in Processes, Check(p) PROVE ReturnedPinned'
  <2>1. Pinned[1] = "good"
    BY CacheAssumption
  <2>2. ASSUME Matches(installed, The.recheck), installed # Absent
        PROVE  /\ installed[1] = "good"
               /\ (The.recheck # "one" \/ (~overlap /\ ~changed)) => installed = Pinned
    <3>1. CASE The.recheck = "pins"
      BY <2>1, <2>2, <3>1 DEF Matches
    <3>2. CASE The.recheck = "record"
      BY <2>1, <2>2, <3>2 DEF Matches, Recorded
    <3>3. CASE The.recheck = "one"
      BY <2>2, <3>3 DEF Matches, InstalledPinned
    <3> QED BY <3>1, <3>2, <3>3
  <2> QED BY <1>14, <2>2 DEF Check, Return, ReturnedPinned
<1>15. ASSUME NEW p \in Processes, Crash(p) PROVE ReturnedPinned'
  BY <1>15 DEF Crash, ReturnedPinned
<1>16. ASSUME NEW b \in 1..Blocks, Change(b) PROVE ReturnedPinned'
  BY <1>16 DEF Change, ReturnedPinned
<1> QED
  BY <1>1, <1>2, <1>3, <1>4, <1>5, <1>6, <1>7, <1>8, <1>9, <1>10, <1>11, <1>12, <1>13, <1>14, <1>15, <1>16 DEF Next, Step

-----------------------------------------------------------------------------
(* Stuttering changes nothing.                                             *)
LEMMA Stutter ==
  ASSUME Inv, UNCHANGED vars
  PROVE  Inv'
<1>1. The' = The BY DEF vars, The
<1>2. Typed' BY DEF Inv, Typed, TypeOK, Present, vars
<1>3. Alone' /\ OpenFiles' /\ Downloads'
  BY <1>1 DEF Inv, Alone, OpenFiles, Downloads, Quiet, vars
<1>4. Unpacked' /\ Staged' /\ Recorded'
  BY <1>1 DEF Inv, Unpacked, Staged, Recorded, Quiet, Trusted, vars
<1>5. InstalledPinned' /\ ReturnedPinned'
  BY <1>1 DEF Inv, InstalledPinned, ReturnedPinned, vars
<1> QED BY <1>2, <1>3, <1>4, <1>5 DEF Inv

(* The empty cache satisfies the invariant.                                *)
LEMMA InitInv == Init => Inv
<1> SUFFICES ASSUME Init PROVE Inv OBVIOUS
<1>1. Typed
  <2>1. at \in [Processes -> 0..Blocks] /\ trouble \in 0..TroubleLimit
    BY CacheAssumption DEF Init
  <2>2. stage \in [Processes -> File] BY Files DEF Init
  <2> QED BY <2>1, <2>2 DEF Init, Typed, TypeOK, Present, Places
<1>2. Alone /\ OpenFiles /\ Downloads
  BY DEF Init, Alone, OpenFiles, Downloads, Downloading
<1>3. Unpacked /\ Staged /\ Recorded /\ InstalledPinned /\ ReturnedPinned
  BY DEF Init, Unpacked, Staged, Recorded, InstalledPinned, ReturnedPinned
<1> QED BY <1>1, <1>2, <1>3 DEF Inv

(* The inductive invariant holds in every reachable state of the cache.    *)
THEOREM Invariance == Spec => []Inv
<1>1. Inv /\ [Next]_vars => Inv'
  <2> SUFFICES ASSUME Inv, [Next]_vars PROVE Inv' OBVIOUS
  <2>1. CASE Next
    <3>1. Typed' BY <2>1, TypedStep DEF Inv
    <3> QED
      BY <2>1, <3>1, AloneStep, OpenFilesStep, DownloadsStep, UnpackedStep,
         StagedStep, RecordedStep, InstalledPinnedStep, ReturnedPinnedStep
      DEF Inv
  <2>2. CASE UNCHANGED vars BY <2>2, Stutter
  <2> QED BY <2>1, <2>2
<1> QED BY InitInv, <1>1, PTL DEF Spec

(* Every variable keeps its type.                                          *)
THEOREM TypeCorrect == Spec => []TypeOK
<1>1. Inv => TypeOK BY DEF Inv, Typed
<1> QED BY Invariance, <1>1, PTL

(* The archive in the download cache is whole and as pinned wherever the   *)
(* download is verified before the rename, for any number of processes:    *)
(* with a temporary of one's own (jdk.obtain) whatever the others do, with *)
(* archive.part as long as no download met another use of the cache.       *)
THEOREM ArchiveIsPinned == Spec => []ArchivePinned
<1>1. Inv => ArchivePinned
  BY Attributes DEF Inv, Typed, TypeOK, Downloads, Quiet, ArchivePinned
<1> QED BY Invariance, <1>1, PTL

(* Until an installed file is changed, no process, killed or overtaken     *)
(* anywhere, leaves a part of an installation, or a damaged one, where     *)
(* obtain_files, jdk.obtain, prepare or fetch_file look for one; nor where *)
(* sources.obtain and ndk.obtain do, as long as no download met another    *)
(* use of the cache.                                                       *)
THEOREM InstallationIsPinned == Spec => []InstalledPinned
<1>1. Inv => InstalledPinned BY DEF Inv
<1> QED BY Invariance, <1>1, PTL

(* What obtain_files, jdk.obtain, prepare and fetch_file return is as      *)
(* pinned when they return it, whether the cache was changed before or     *)
(* downloads met in it.  Of what sources.obtain and ndk.obtain return that *)
(* holds for a cache that was left alone and in which no downloads met; in *)
(* any other, the one file they check is good, and nothing is said of the  *)
(* rest.                                                                   *)
THEOREM ReturnIsPinned == Spec => []ReturnedPinned
<1>1. Inv => ReturnedPinned BY DEF Inv
<1> QED BY Invariance, <1>1, PTL
=============================================================================
