------------------------------ MODULE Pipeline ------------------------------
(***************************************************************************)
(* The scripts of src/scripts at work on one checkout.  A developer edits  *)
(* project files, commits and takes edits back at any moment, also while a *)
(* script runs, and starts scripts, in the order of their chain or again.  *)
(* A script may be killed, or a tool it runs may fail, at any operation.   *)
(* Scripts share files and nothing else: what one leaves for another is    *)
(* its outputs and its report, and all that stands between an edit, a      *)
(* crash or a stale file and the shipped app is what the next script       *)
(* checks.                                                                 *)
(***************************************************************************)
EXTENDS Naturals, ParserScripts

CONSTANTS Chains,        \* the chains of scripts to consider
          AgainLimit,    \* how often a script is started again
          EditLimit,     \* how often a group of project files is edited
          CommitLimit,   \* how many commits there are
          StopLimit,     \* how often a script or a tool fails
          TroubleLimit   \* how many of these there are in all, commits and
                         \* restores in the middle of a script included

ASSUME LimitsAssumption ==
  /\ Chains \subseteq {"guest", "suite", "service", "linux", "parser"}
  /\ {AgainLimit, EditLimit, CommitLimit, StopLimit, TroubleLimit} \subseteq Nat

VARIABLES chain,    \* the scripts in use
          commits,  \* the project files of every commit, HEAD's last
          work,     \* the project files of the working tree
          disk,     \* the contents of every shared file
          run,      \* the script that is running, and its record
          passed,   \* what has been executed successfully
          used      \* how much of each limit is used up; whether, while
                    \* a script ran, HEAD moved (moved), also just before
                    \* a reading of the status (parted), and whether an
                    \* edit was taken back then (undone)

vars == <<chain, commits, work, disk, run, passed, used>>

Programs ==
  [guest |-> GuestPrograms, suite |-> SuitePrograms,
   service |-> ServicePrograms, linux |-> LinuxPrograms,
   parser |-> ParserPrograms]
Orders ==
  [guest |-> GuestOrder, suite |-> SuiteOrder, service |-> ServiceOrder,
   linux |-> LinuxOrder, parser |-> ParserOrder]

Groups == {"unit", "layout", "pin"}
Edited ==
  [guest |-> {"unit", "layout"}, suite |-> {"unit", "layout"},
   service |-> {"unit", "pin"}, linux |-> {"unit"}, parser |-> {"unit", "pin"}]

(* The files a chain's scripts write.                                      *)
Outputs(p) ==
  UNION {{p[i][key] : key \in {"out", "file"} \intersect DOMAIN p[i]} :
           i \in DOMAIN p}
Files ==
  [c \in DOMAIN Programs |->
     UNION {Outputs(Programs[c][s]) : s \in DOMAIN Programs[c]}]

(* The contents of a file: nothing, part of it, what a tool made from      *)
(* versions of project files and from files, a report, run directories.    *)
(* A digest is taken to be the contents.                                   *)
Absent == [kind |-> "absent"]
Partial == [kind |-> "partial"]
Built(from, of) == [kind |-> "built", from |-> from, of |-> of]
NoRecord ==
  [kind |-> "report", commit |-> 0, dirty |-> FALSE, passed |-> TRUE,
   sources |-> <<>>, files |-> <<>>]

Idle == [script |-> "none", pc |-> 0, rep |-> NoRecord]
head == Len(commits)
Program == Programs[chain][run.script]
Op == Program[run.pc]
At(kinds) == run # Idle /\ Op.op \in kinds
Trouble ==
  used.again + used.edit + used.stop
  + (IF used.moved THEN 1 ELSE 0) + (IF used.undone THEN 1 ELSE 0)
Restricted(f, S) == [x \in S |-> f[x]]
Over(new, old) ==
  [x \in DOMAIN new \union DOMAIN old |->
     IF x \in DOMAIN new THEN new[x] ELSE old[x]]
With(old, x, value) == Over([y \in {x} |-> value], old)
Whole(file) == disk[file].kind \notin {"absent", "partial"}

(* The script goes on with its record, or ends.                            *)
Advance(rep) ==
  run' = IF run.pc = Len(Program) THEN Idle
         ELSE [run EXCEPT !.pc = @ + 1, !.rep = rep]

Init ==
  /\ chain \in Chains
  /\ commits = <<[g \in Groups |-> 0]>>
  /\ work = [g \in Groups |-> 0]
  /\ disk = [f \in Files[chain] |-> Absent]
  /\ run = Idle
  /\ passed = {}
  /\ used = [start |-> 0, again |-> 0, edit |-> 0, stop |-> 0,
             moved |-> FALSE, parted |-> FALSE, undone |-> FALSE]

-----------------------------------------------------------------------------
(* The developer                                                           *)

(* Where the developer can matter: nothing runs, or the next operation     *)
(* reads project files or HEAD.  Between two operations that read neither, *)
(* what the developer does may as well come later.                         *)
Noticed ==
  \/ run = Idle
  \/ At({"revision", "status", "record", "check"})
  \/ At({"make", "compile", "held", "once", "draft"}) /\ Op.groups # {}

Edit(g) ==
  /\ used.edit < EditLimit /\ Trouble < TroubleLimit /\ Noticed
  /\ used' = [used EXCEPT !.edit = @ + 1]
  /\ work' = [work EXCEPT ![g] = used.edit + 1]
  /\ UNCHANGED <<chain, commits, disk, run, passed>>

Commit ==
  /\ head < CommitLimit /\ work # commits[head] /\ Noticed
  /\ run # Idle => Trouble < TroubleLimit
  /\ commits' = Append(commits, work)
  /\ used' = [used EXCEPT !.moved = @ \/ run # Idle, !.parted = @ \/ At({"status"})]
  /\ UNCHANGED <<chain, work, disk, run, passed>>

Restore ==
  /\ work # commits[head] /\ Noticed
  /\ run # Idle => Trouble < TroubleLimit
  /\ work' = commits[head]
  /\ used' = [used EXCEPT !.undone = @ \/ run # Idle]
  /\ UNCHANGED <<chain, commits, disk, run, passed>>

Start(s) ==
  /\ run = Idle
  /\ run' = [script |-> s, pc |-> 1, rep |-> NoRecord]
  /\ \/ /\ used.start < Len(Orders[chain])
        /\ s = Orders[chain][used.start + 1]
        /\ used' = [used EXCEPT !.start = @ + 1]
     \/ /\ used.again < AgainLimit /\ Trouble < TroubleLimit
        /\ \E i \in 1..used.start : Orders[chain][i] = s
        /\ used' = [used EXCEPT !.again = @ + 1]
  /\ UNCHANGED <<chain, commits, work, disk, passed>>

-----------------------------------------------------------------------------
(* The operations of a script                                              *)

(* What the record becomes when the script looks at something, or makes a  *)
(* file of its own.                                                        *)
Drafted ==
  Built([g \in Op.groups |-> IF g = "held" THEN run.rep.sources[g] ELSE work[g]],
        <<>>)

Observed(rep) ==
  CASE Op.op = "revision" -> [rep EXCEPT !.commit = head]
    [] Op.op = "status" -> [rep EXCEPT !.dirty = work # commits[head]]
    [] Op.op = "record" -> [rep EXCEPT !.sources = With(@, Op.key, work[Op.group])]
    [] Op.op = "digest" -> [rep EXCEPT !.files = Over(Restricted(disk, Op.files), @)]
    [] Op.op = "draft" -> [rep EXCEPT !.files = With(@, Op.name, Drafted)]

Observe ==
  /\ At({"revision", "status", "record", "digest", "draft"})
  /\ At({"digest"}) => \A f \in Op.files : disk[f] # Absent
  /\ Advance(Observed(run.rep))
  /\ UNCHANGED <<chain, commits, work, disk, passed, used>>

FromHeld == With(Restricted(work, Op.groups), "pin", run.rep.sources["held"])

Produced ==
  CASE Op.op \in {"make", "compile"} ->
         Built(Restricted(work, Op.groups), Restricted(disk, Op.ins))
    [] Op.op \in {"held", "once"} ->
         Built(FromHeld, Restricted(disk, Op.ins))
    [] Op.op = "pack" -> Built(<<>>, Restricted(run.rep.files, Op.names))
    [] Op.op = "copy" -> disk[Op.from]
    [] Op.op = "save" -> run.rep

Writes == {"make", "compile", "held", "once", "pack", "copy", "save"}

Produce ==
  /\ At(Writes)
  /\ At({"once"}) => disk[Op.out] \in {Absent, Produced}
  /\ disk' = [disk EXCEPT ![Op.out] = Produced]
  /\ Advance(run.rep)
  /\ UNCHANGED <<chain, commits, work, passed, used>>

CompileFails ==
  /\ At({"compile"}) /\ used.stop < StopLimit /\ Trouble < TroubleLimit
  /\ used' = [used EXCEPT !.stop = @ + 1]
  /\ Advance([run.rep EXCEPT !.passed = FALSE])
  /\ UNCHANGED <<chain, commits, work, disk, passed>>

(* A file is removed, or one more run directory made; of those, a reader   *)
(* only asks whether there is exactly one.                                 *)
Change ==
  /\ At({"unlink", "retain"})
  /\ disk' = [disk EXCEPT ![Op.file] =
       IF Op.op = "unlink" THEN Absent
       ELSE [kind |-> "roots", many |-> disk[Op.file] # Absent]]
  /\ Advance(run.rep)
  /\ UNCHANGED <<chain, commits, work, passed, used>>

Run(ok) ==
  /\ At({"execute"})
  /\ ok \/ (used.stop < StopLimit /\ Trouble < TroubleLimit)
  /\ passed' =
       IF ok THEN passed \union {Restricted(disk, Op.files)} ELSE passed
  /\ used' = IF ok THEN used ELSE [used EXCEPT !.stop = @ + 1]
  /\ Advance([run.rep EXCEPT !.passed = ok])
  /\ UNCHANGED <<chain, commits, work, disk>>

-----------------------------------------------------------------------------
(* The checks                                                              *)

Sources(report) == disk[report].sources
Lists(report, f) == Whole(report) /\ f \in DOMAIN disk[report].files

Has(report, quality) ==
  CASE quality = "commit" -> disk[report].commit = run.rep.commit
    [] quality = "clean" -> ~disk[report].dirty
    [] quality = "passed" -> disk[report].passed
    [] quality = "sources" -> DOMAIN Sources(report) # {}
    [] quality = "client" ->
         /\ {"client", "unit"} \subseteq DOMAIN Sources(report)
         /\ Sources(report)["client"] = Sources(report)["unit"]

Holds(c) ==
  CASE c.check = "clean" -> ~run.rep.dirty
    [] c.check = "succeeded" -> run.rep.passed
    [] c.check = "require" ->
         Whole(c.report) /\ \A q \in c.what : Has(c.report, q)
    [] c.check = "verify" ->
         \A f \in c.files :
            Lists(c.report, f) /\ disk[f] = disk[c.report].files[f]
    [] c.check = "verify as" ->
         Lists(c.report, c.name) /\ disk[c.file] = disk[c.report].files[c.name]
    [] c.check = "equal" ->
         \A f \in c.files : /\ Lists(c.one, f) /\ Lists(c.other, f)
                             /\ disk[c.one].files[f] = disk[c.other].files[f]
    [] c.check = "same" ->
         /\ Lists(c.one, c.name) /\ Lists(c.other, c.othername)
         /\ disk[c.one].files[c.name] = disk[c.other].files[c.othername]
    [] c.check = "unaltered" -> \A f \in c.files : disk[f] = run.rep.files[f]
    [] c.check = "embedded" -> disk[c.file].of[c.name] = run.rep.files[c.name]
    [] c.check = "wraps" ->
         \A f \in c.files : Whole(f) /\ disk[f].of = Restricted(disk, c.elfs)
    [] c.check = "inside" ->
         \A f \in DOMAIN disk[c.file].of :
            Lists(c.report, f) /\ disk[c.report].files[f] = disk[c.file].of[f]
    [] c.check = "git" ->
         \A g \in Groups \intersect DOMAIN Sources(c.report) :
            Sources(c.report)[g] = commits[run.rep.commit][g]
    [] c.check = "tree" ->
         \A g \in c.groups \intersect DOMAIN Sources(c.report) :
            Sources(c.report)[g] = work[g]
    [] c.check = "parsed" -> Sources(c.report)["held"] = work[c.group]
    [] c.check = "fresh" ->
         Whole(c.file) /\ disk[c.file].from[c.group] = work[c.group]
    [] c.check = "alone" -> disk[c.file] = [kind |-> "roots", many |-> FALSE]

AllHold ==
  \A i \in DOMAIN Op.all :
     (\A j \in 1..i-1 : Holds(Op.all[j])) => Holds(Op.all[i])

Check ==
  /\ At({"check"}) /\ AllHold
  /\ Advance(run.rep)
  /\ UNCHANGED <<chain, commits, work, disk, passed, used>>

(* The script raises: a check does not hold, the files that are there are  *)
(* not what it generated, or a file to digest is missing.                  *)
Refuse ==
  /\ \/ At({"check"}) /\ ~AllHold
     \/ At({"once"}) /\ disk[Op.out] \notin {Absent, Produced}
     \/ At({"digest"}) /\ \E f \in Op.files : disk[f] = Absent
  /\ run' = Idle
  /\ UNCHANGED <<chain, commits, work, disk, passed, used>>

(* The script is killed or a tool fails, before an operation that leaves a *)
(* trace or half way through writing its file.                             *)
Stop ==
  /\ At(Writes \union {"unlink", "retain", "execute"})
  /\ used.stop < StopLimit /\ Trouble < TroubleLimit
  /\ used' = [used EXCEPT !.stop = @ + 1]
  /\ run' = Idle
  /\ \/ UNCHANGED disk
     \/ At(Writes) /\ disk' = [disk EXCEPT ![Op.out] = Partial]
  /\ UNCHANGED <<chain, commits, work, passed>>

Next ==
  \/ \E g \in Edited[chain] : Edit(g)
  \/ Commit
  \/ Restore
  \/ \E s \in DOMAIN Programs[chain] : Start(s)
  \/ Observe
  \/ Produce
  \/ CompileFails
  \/ Change
  \/ \E ok \in BOOLEAN : Run(ok)
  \/ Check
  \/ Refuse
  \/ Stop

Spec == Init /\ [][Next]_vars

-----------------------------------------------------------------------------
(* What an app that embeds the guest, the libc suite or the services takes *)
(* over: the manifest of the bundle staged last.                           *)
Staged(c) == chain \in c /\ Whole("staged")

(* HEAD moved, and edits were taken back, only between scripts.  A script  *)
(* reads HEAD once, before, between or after the files it compiles, and    *)
(* the digests it records are compared with that commit only: it does not  *)
(* notice a commit, or an edit taken back, while it runs.                  *)
Steady == ~used.moved /\ ~used.undone

(* Whatever was edited, killed or run again before, the ART, ICU and       *)
(* libcore code that art_bundle.prepare stages was compiled, adapted and   *)
(* laid out from the project files of the commit the manifest names: the   *)
(* three links compare each report's digests with git show.  (Not claimed: *)
(* libc, whose report has no project_sources, libcore's own layout, and    *)
(* anything once a commit or a restore fell into a running script.)        *)
StagedFromRevision ==
  Staged({"guest"}) /\ Steady =>
    LET lib == disk["staged"].files
        at == commits[disk["staged"].commit]
        art == lib["libart.so"].of
        icu == lib["libicu.so"].of
    IN /\ art["art.o"].from["unit"] = at["unit"]
       /\ art["art.o"].of["art.units"].from["unit"] = at["unit"]
       /\ art["art.o"].of["art.units"].of["art.gen"].from["unit"] = at["unit"]
       /\ art["art.ld"].from["layout"] = at["layout"]
       /\ icu["icu.client"].from["unit"] = at["unit"]
       /\ icu["icu.ld"].from["layout"] = at["layout"]
       /\ lib["libcore.so"].of["core.client"].from["unit"] = at["unit"]

(* Every staged library was linked against the very libraries staged with  *)
(* it, though each link reads them from a directory that any producer may  *)
(* have written again since, and no one check compares them all.           *)
LinkedTogether ==
  Staged({"guest"}) =>
    LET lib == disk["staged"].files
        Uses(user, S) == \A f \in S : lib[user].of[f] = lib[f]
    IN /\ Uses("libart.so", {"libc.so"})
       /\ Uses("libicu.so", {"libc.so", "libart.so"})
       /\ Uses("libcore.so", {"libc.so", "libart.so", "libicu.so"})

Frameworks ==
  [guest |-> {<<"libc.mac", "libc.ios">>, <<"libart.mac", "libart.ios">>,
              <<"libicu.mac", "libicu.ios">>, <<"libcore.mac", "libcore.ios">>},
   suite |-> {<<"libc.mac", "libc.ios">>},
   service |-> {<<"service.mac", "service.ios">>}]

(* The device frameworks staged for the app are never executed before they *)
(* ship; but one successful execution on the Mac ran, all at once, the     *)
(* frameworks packaged from the same ELF files, those ELF files are the    *)
(* staged ones, and the staged DEX is the one that ran.                    *)
ShippedExecuted ==
  Staged({"guest", "suite", "service"}) =>
    LET shipped == disk["staged"].files
    IN \E e \in passed :
         /\ \A f \in Frameworks[chain] :
              /\ f[1] \in DOMAIN e
              /\ e[f[1]].of = shipped[f[2]].of
              /\ \A lib \in DOMAIN shipped[f[2]].of :
                   shipped[f[2]].of[lib] = shipped[lib]
         /\ \A f \in DOMAIN e \intersect DOMAIN shipped : e[f] = shipped[f]

(* The build-info describes the archive that is there, and says clean.     *)
Described ==
  /\ chain \in DOMAIN Frameworks /\ Whole("info") /\ ~disk["info"].dirty
  /\ disk["info"].files["ipa"] = disk["ipa"]
CompiledFromInfo ==
  disk["ipa"].of["app"].from["unit"] = commits[disk["info"].commit]["unit"]
SameCommit == disk["ipa"].of["app"].of["staged"].commit = disk["info"].commit

(* build.ios reads HEAD for the bundle, and HEAD and then the status again *)
(* when the archive is there, and never compares the two revisions;        *)
(* commits and edits fall in between, and an older archive or build-info   *)
(* survives a crash.  Still, a clean build-info that has the digest of the *)
(* archive, and names the commit that the manifest in the archive names,   *)
(* tells the truth: the app in it was compiled from that commit.  Excepted *)
(* are an edit that is taken back under a running script, and a commit     *)
(* just between the commands that read HEAD and the status.                *)
ArchiveHonest ==
  Described /\ SameCommit /\ ~used.undone /\ ~used.parted
    => CompiledFromInfo

(* Of the producers that delete their record first: while a record exists, *)
(* every file it vouches for is on disk with the digest it has there.  So  *)
(* a crash between an output and its record never leaves an old record     *)
(* beside new files.                                                       *)
RecordMeansWhole ==
  chain = "service" =>
    \A r \in DOMAIN Vouched : Whole(r) =>
      \A f \in Vouched[r] : disk[f] = disk[r].files[f]

(* The service image that service_bundle.prepare stages was compiled from  *)
(* the pins and the project files of the commit its manifest names, by     *)
(* way of generated sources that are of that commit too, and the service   *)
(* manager and the Binder library use one generation of the bindings, if   *)
(* no commit and no restore fell into a running script.                    *)
ServiceFromRevision ==
  Staged({"service"}) /\ Steady =>
    LET of == disk["staged"].files["libservice.so"].of
        at == commits[disk["staged"].commit]
        service == of["service.a"].of["service.o"]
        binder == of["binder.a"].of["binder.o"]
        vintf == of["vintf.a"].of["vintf.o"]
    IN /\ \A object \in {service, binder, vintf} : object.from["pin"] = at["pin"]
       /\ service.from["unit"] = at["unit"]
       /\ service.of["aidl.gen"] = binder.of["aidl.gen"]
       /\ service.of["aidl.gen"].from["pin"] = at["pin"]
       /\ vintf.of["xsd.gen"].from["pin"] = at["pin"]

(* The virtual machine test_art_startup starts has one ART in it: what the *)
(* harness, ICU and libcore were linked against are the copies it loads,   *)
(* although each build took its copy at a different time.                  *)
LinuxTogether ==
  \A e \in passed : "art.harness" \in DOMAIN e =>
    /\ e["art.harness"].of["libart.so"] = e["core.libart"]
    /\ e["libcore.so"].of["core.libart"] = e["core.libart"]
    /\ e["libcore.so"].of["core.libicu"] = e["core.libicu"]
    /\ e["core.libicu"].of["icu.libart"] = e["core.libart"]

(* The signed parser that test_kernel_config_guest executes successfully   *)
(* has been executed by the Linux caller, successfully, with the same      *)
(* parser and regex objects: a later build of the parser never stands in   *)
(* for the one the reference ran.                                          *)
ParserReferenced ==
  \A e \in passed : "kc.mac" \in DOMAIN e =>
    LET linked == e["kc.mac"].of["libkc.so"].of
    IN \E l \in passed : /\ "parser.ref" \in DOMAIN l
                          /\ \A o \in {"parser.o", "regex.o"} :
                               l["parser.ref"].of[o] = linked[o]

Ends == run # Idle /\ run' = Idle

(* No false alarm: with no edit, no failure and no second run of a script, *)
(* no script of any chain refuses what the scripts before it left; every   *)
(* check finds the record it reads, with the digest it expects.            *)
UntroubledPasses ==
  [][(Ends /\ used'.again + used'.edit + used'.stop = 0)
       => run.pc = Len(Program)]_vars
=============================================================================
