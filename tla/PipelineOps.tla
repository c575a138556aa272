---------------------------- MODULE PipelineOps ----------------------------
(***************************************************************************)
(* The vocabulary of the build, link, acceptance and packaging scripts.    *)
(* A script under src/scripts is a sequential program; what it does to the *)
(* files it shares with other scripts, and to the record (the JSON report) *)
(* it is putting together, is one of the operations below.  A script is a  *)
(* sequence of operations, and Pipeline has an action for each kind.       *)
(***************************************************************************)
EXTENDS Sequences

(* What the script looks at, for its record: git rev-parse HEAD; git       *)
(* status --porcelain; the digest, under the name key, of a group of       *)
(* project files as the working tree has them now; the digests of files.   *)
(* The key "held" is for project files (the pins) parsed into memory.      *)
Revision == [op |-> "revision"]
Status == [op |-> "status"]
Record(key, group) == [op |-> "record", key |-> key, group |-> group]
Digest(files) == [op |-> "digest", files |-> files]

(* What it writes.  Make: a tool writes out from groups of project files   *)
(* and from other files; if the tool fails the script raises.  Compile:    *)
(* the same, but a failure goes to the record.  Held: from the pins in     *)
(* memory as well.  Once: as Held, but a file that is there must be the    *)
(* same already.  Copy, Unlink, and Save of the record.                    *)
(* Draft: a file in a directory of this run alone.  Pack: an archive of    *)
(* drafts.  Retain: one more run directory beside those that are there.    *)
Make(out, groups, ins) ==
  [op |-> "make", out |-> out, groups |-> groups, ins |-> ins]
Compile(out, groups, ins) ==
  [op |-> "compile", out |-> out, groups |-> groups, ins |-> ins]
Held(out, groups, ins) ==
  [op |-> "held", out |-> out, groups |-> groups, ins |-> ins]
Once(out, groups, ins) ==
  [op |-> "once", out |-> out, groups |-> groups, ins |-> ins]
Copy(from, out) == [op |-> "copy", from |-> from, out |-> out]
Unlink(file) == [op |-> "unlink", file |-> file]
Save(report) == [op |-> "save", out |-> report]
Draft(name, groups) == [op |-> "draft", name |-> name, groups |-> groups]
Pack(out, names) == [op |-> "pack", out |-> out, names |-> names]
Retain(file) == [op |-> "retain", file |-> file]

(* A process run on files, that passes or fails; the record keeps which.   *)
Execute(files) == [op |-> "execute", files |-> files]

(* A gate: checks made in turn, the first that does not hold raises.       *)
Gate(checks) == [op |-> "check", all |-> checks]
(* The tree was clean; nothing this script compiled or executed failed.    *)
Clean == [check |-> "clean"]
Succeeded == [check |-> "succeeded"]
(* The report exists and has the named qualities.                          *)
Require(report, what) ==
  [check |-> "require", report |-> report, what |-> what]
(* The files have the digests the report has for them; or a file has the   *)
(* digest the report has for another; or reports agree on digests.         *)
Verify(files, report) ==
  [check |-> "verify", files |-> files, report |-> report]
VerifyAs(file, name, report) ==
  [check |-> "verify as", file |-> file, name |-> name, report |-> report]
Equal(files, one, other) ==
  [check |-> "equal", files |-> files, one |-> one, other |-> other]
Same(one, name, other, othername) ==
  [check |-> "same", one |-> one, name |-> name, other |-> other,
   othername |-> othername]
(* The files still have the digests of the script's own record.            *)
Unaltered(files) == [check |-> "unaltered", files |-> files]
(* What a file was made from is what the script's own record has.          *)
Embedded(file, name) ==
  [check |-> "embedded", file |-> file, name |-> name]
(* Each signed file wraps the ELF files that are on disk.                  *)
Wraps(files, elfs) == [check |-> "wraps", files |-> files, elfs |-> elfs]
(* What an archive holds is what the report has digests of.                *)
Inside(file, report) ==
  [check |-> "inside", file |-> file, report |-> report]
(* The project files of the report, of some groups, are those of the       *)
(* commit HEAD was at, or those of the working tree; what the report's     *)
(* script held in memory is the working tree's; a generated file is what   *)
(* the working tree's group says it must be.                               *)
Git(report) == [check |-> "git", report |-> report]
Tree(report, groups) ==
  [check |-> "tree", report |-> report, groups |-> groups]
Parsed(report, group) ==
  [check |-> "parsed", report |-> report, group |-> group]
Fresh(file, group) == [check |-> "fresh", file |-> file, group |-> group]
(* Exactly one retained run directory exists.                              *)
Alone(file) == [check |-> "alone", file |-> file]
=============================================================================
