---------------------------- MODULE GuestScripts ----------------------------
(***************************************************************************)
(* The scripts that build the ART guest: Bionic, the objects of ART, ICU   *)
(* and libcore, the three signed links, the class library, the execution   *)
(* of the result and the iOS app that embeds it.  Files:                   *)
(*   x.o objects, x.client the project's own caller object, x.src the      *)
(*   corresponding-source bundle, x.build, x.link and x.rep the reports,   *)
(*   libx.so the ELF, libx.mac and libx.ios the signed frameworks.         *)
(* libc stands for libc, libm and libdl, which are checked alike; one ICU  *)
(* and one libcore library stand for the six of each; the class library    *)
(* stands for itself and the managed fixture, checked alike.  Groups of    *)
(* project files: "unit" is what compilers and the adaptation of sources   *)
(* read, "layout" the linker script.  Reports no script reads              *)
(* (build-inputs.json) and the scripts' own text, fixed while they run,    *)
(* are left out.                                                           *)
(***************************************************************************)
EXTENDS PipelineOps

(* build_bionic: upstream sources are adapted and generated by the         *)
(* project's rules, compiled, and linked to one relocatable object, which  *)
(* alone is digested.  The report has no commit.                           *)
BionicAdapted == Make("bionic.gen", {"unit"}, {})
BionicObjects == Make("bionic.objs", {"unit"}, {"bionic.gen"})
BionicLink == Make("bionic.o", {}, {"bionic.objs"})
BuildBionic ==
  <<BionicAdapted, BionicObjects, BionicLink, Digest({"bionic.o"}),
    Save("bionic.rep")>>

(* test_bionic_startup: libc.so, its frameworks, their acceptance.  The    *)
(* report has no project_sources and no dirty flag.                        *)
BionicStartup ==
  <<Gate(<<Verify({"bionic.o"}, "bionic.rep")>>),
    Make("libc.so", {"unit", "layout"}, {"bionic.o"}), Revision,
    Make("libc.mac", {}, {"libc.so"}), Make("libc.ios", {}, {"libc.so"}),
    Digest({"libc.so", "libc.mac", "libc.ios"}), Execute({"libc.mac"}),
    Gate(<<Succeeded>>), Save("libc.rep")>>

(* preserve_sources, source_bundle: the bundle of project files is written *)
(* and digested, then each project file is digested again.                 *)
Preserve(bundle, ins) ==
  <<Make(bundle, {"unit"}, ins), Digest({bundle}), Record("unit", "unit")>>

(* build_art_runtime --all: upstream headers are adapted by the project's  *)
(* rules, and units generated from them, before HEAD is read; then the     *)
(* bundle, and the objects.                                                *)
RuntimeAdapted == Make("art.gen", {"unit"}, {})
RuntimeUnits == Make("art.units", {"unit"}, {"art.gen"})
RuntimeObjects ==
  <<Compile("art.o", {"unit"}, {"art.units"}), Digest({"art.o"})>>
RuntimeCompile ==
  <<RuntimeAdapted, RuntimeUnits, Revision>> \o Preserve("art.src", {"art.units"})
  \o RuntimeObjects

(* --native-guest: the bundle is written again, now with the assembly the  *)
(* compiler produced for adaptation.                                       *)
BuildArtRuntime ==
  RuntimeCompile \o Preserve("art.src", {"art.units"})
  \o <<Save("art.build"), Gate(<<Succeeded>>)>>

(* The project's own caller, compiled after the upstream objects, with its *)
(* source digested then.                                                   *)
Caller(client, report) ==
  <<Compile(client, {"unit"}, {}), Record("client", "unit"),
    Digest({client}), Save(report), Gate(<<Succeeded>>)>>

(* build_art_native_libraries --all: upstream objects, then the caller.    *)
NativeObjects ==
  <<Compile("icu.o", {}, {}), Digest({"icu.o"}), Save("icu.build"),
    Gate(<<Succeeded>>)>>
BuildArtNativeLibraries ==
  <<Revision>> \o Preserve("icu.src", {}) \o NativeObjects \o Caller("icu.client", "icu.build")

(* build_art_libcore --all: needs the runtime's record and bundle; HEAD is *)
(* read after the bundle is written.  Some units are compiled with the     *)
(* include paths of the runtime's record, so with its adapted headers.     *)
LibcoreInputs ==
  Gate(<<Require("art.build", {"passed"}), Verify({"art.src"}, "art.build")>>)
LibcoreBundle ==
  <<Make("core.src", {"unit"}, {"art.src"}), Revision, Digest({"core.src"}),
    Record("unit", "unit")>>
LibcoreObjects ==
  <<Compile("core.o", {"unit"}, {"art.gen"}), Digest({"core.o"}),
    Save("core.build"), Gate(<<Succeeded>>)>>
BuildArtLibcore ==
  <<LibcoreInputs>> \o LibcoreBundle \o LibcoreObjects \o Caller("core.client", "core.build")

(* dynamic_bundle.prepare for one target: the framework is linked from the *)
(* ELF, checked and signed.                                                *)
Framework(elf, signed) == Make(signed, {}, {elf})

(* One library of a guest link: the ELF, then each framework, the report   *)
(* saved after each.                                                       *)
Sign(elf, mac, ios, report) ==
  <<Digest({elf}), Save(report),
    Framework(elf, mac), Digest({mac}), Save(report),
    Framework(elf, ios), Digest({ios}), Save(report)>>

(* link_art_guest                                                          *)
LinkArtChecks ==
  <<Require("art.build", {"commit", "passed"}), Git("art.build"),
    Verify({"art.src", "art.o"}, "art.build"),
    Require("libc.rep", {"commit", "passed"}), Git("libc.rep"),
    Verify({"libc.so"}, "libc.rep")>>
LinkArtLayout ==
  <<Make("art.ld", {"layout"}, {}),
    Make("libart.so", {}, {"art.o", "art.ld", "libc.so"})>>
LinkArtSource ==
  <<Make("artlink.src", {"layout"}, {"art.src"}), Digest({"libc.so"}),
    Record("layout", "layout"), Digest({"artlink.src"})>>
LinkArtGuest ==
  <<Revision, Status, Gate(LinkArtChecks)>> \o LinkArtLayout \o LinkArtSource
  \o Sign("libart.so", "libart.mac", "libart.ios", "art.link")

(* link_icu_guest                                                          *)
IcuUnsourced == <<Git("art.link")>>
IcuSources == <<Git("icu.build"), Git("art.link")>>
LinkIcuChecks ==
  <<Require("icu.build", {"commit", "passed"}),
    Require("art.link", {"commit", "clean"})>>
  \o IcuSources
  \o <<Verify({"icu.src", "icu.o"}, "icu.build"),
       Verify({"artlink.src"}, "art.link"),
       Require("icu.build", {"client"}), Verify({"icu.client"}, "icu.build"),
       Verify({"libart.so", "libc.so"}, "art.link")>>
LinkIcuLayout ==
  <<Make("icu.ld", {"layout"}, {}), Digest({"libart.so", "libc.so"}),
    Make("libicu.so", {},
         {"icu.o", "icu.client", "icu.ld", "libart.so", "libc.so"})>>

(* The corresponding source comes last, and the report is saved with it.   *)
LinkIcuUnrecorded ==
  <<Make("iculink.src", {"layout"}, {"icu.src", "artlink.src"}),
    Record("layout", "layout"), Digest({"iculink.src"})>>
LinkIcuSource ==
  <<Make("iculink.src", {"layout"}, {"icu.src", "artlink.src"}),
    Record("layout", "layout"), Digest({"iculink.src"}), Save("icu.link")>>
LinkIcuGuest ==
  <<Revision, Status, Gate(LinkIcuChecks)>> \o LinkIcuLayout
  \o Sign("libicu.so", "libicu.mac", "libicu.ios", "icu.link") \o LinkIcuSource

(* link_libcore_guest                                                      *)
LinkLibcoreChecks ==
  <<Clean, Require("core.build", {"commit", "sources"}),
    Require("art.link", {"commit", "sources"}),
    Require("icu.link", {"commit", "sources"}),
    Git("core.build"), Git("art.link"), Git("icu.link"),
    Require("art.link", {"clean"}), Require("icu.link", {"clean"}),
    Require("core.build", {"passed"}),
    Verify({"core.src", "core.o"}, "core.build"),
    Verify({"iculink.src"}, "icu.link"),
    Verify({"artlink.src"}, "art.link"),
    Require("core.build", {"client"}), Verify({"core.client"}, "core.build"),
    Verify({"libart.so", "libc.so"}, "art.link"),
    Verify({"libart.so", "libc.so", "libicu.so"}, "icu.link")>>
LinkLibcoreLayout ==
  <<Make("core.ld", {"layout"}, {}),
    Digest({"libart.so", "libc.so", "libicu.so"}),
    Make("libcore.so", {}, {"core.o", "core.client", "core.ld",
                            "libart.so", "libc.so", "libicu.so"})>>
LinkLibcoreSource ==
  <<Make("corelink.src", {"layout"},
         {"core.src", "iculink.src", "artlink.src"}),
    Record("layout", "layout"), Digest({"corelink.src"}), Save("core.link")>>
LinkLibcoreGuest ==
  <<Revision, Status, Gate(LinkLibcoreChecks)>> \o LinkLibcoreLayout
  \o Sign("libcore.so", "libcore.mac", "libcore.ios", "core.link") \o LinkLibcoreSource

(* build_art_classlib: compiled in an attempt directory of its own from    *)
(* the selection parsed first; the bundle is shared, the result comes last.*)
BuildArtClasslib ==
  <<Record("held", "unit"), Draft("dex", {"held"}), Draft("dex.src", {"unit"}),
    Revision, Record("unit", "unit"), Pack("dex.zip", {"dex", "dex.src"}),
    Digest({"dex.zip"}), Save("dex.result")>>

(* prepare_classlib, prepare_fixture: the bundle is the result's, what it  *)
(* holds is what the report lists, and the project files are unchanged.    *)
PreparedDex ==
  <<Verify({"dex.zip"}, "dex.result"), Inside("dex.zip", "dex.result"),
    Tree("dex.result", {"unit"})>>

Libraries == {"libc.so", "libart.so", "libicu.so", "libcore.so"}
MacLibraries == {"libc.mac", "libart.mac", "libicu.mac", "libcore.mac"}
IosLibraries == {"libc.ios", "libart.ios", "libicu.ios", "libcore.ios"}

(* test_icu_guest with --classlib-dir: the signed runtime executes in a    *)
(* run directory of its own.                                               *)
RuntimeUnlinked == Verify({"libart.so", "libart.mac"}, "art.link")
RuntimeArt == Verify({"libc.so", "libart.so", "libart.mac"}, "art.link")
RuntimeChecks ==
  <<Require("icu.link", {"commit", "clean"}),
    Require("art.link", {"commit", "clean"}),
    Require("core.link", {"commit", "clean"}), Require("libc.rep", {"commit"}),
    Equal({"libart.so", "libc.so"}, "art.link", "icu.link"),
    Equal({"libart.so", "libc.so"}, "art.link", "core.link"),
    Equal({"libicu.so"}, "icu.link", "core.link"), RuntimeArt,
    Verify({"libc.mac"}, "libc.rep"),
    Verify({"libicu.so", "libicu.mac"}, "icu.link"),
    Verify({"libcore.so", "libcore.mac"}, "core.link")>>
RuntimeGuest ==
  <<Revision, Gate(RuntimeChecks), Retain("root"),
    Gate(PreparedDex \o <<Require("dex.result", {"commit"})>>),
    Copy("dex.zip", "root.dex"),
    Digest(Libraries \union MacLibraries \union {"root.dex"}),
    Execute(MacLibraries \union {"root.dex"}), Save("runtime.rep"),
    Gate(<<Succeeded>>)>>

(* art_bundle.prepare, with HEAD as build.ios reads it for the call: what  *)
(* was executed, its acceptance, and the device frameworks of the same     *)
(* links.                                                                  *)
AcceptanceMentioned == Require("runtime.rep", {"commit"})
Acceptance == Require("runtime.rep", {"commit", "passed"})
ArtBundleChecks ==
  <<Require("libc.rep", {"commit"}), Require("art.link", {"commit", "clean"}),
    Require("icu.link", {"commit", "clean"}),
    Require("core.link", {"commit", "clean"}),
    Acceptance,
    Equal({"libicu.so"}, "icu.link", "runtime.rep"),
    Equal({"libcore.so"}, "core.link", "runtime.rep"),
    Verify(Libraries \union MacLibraries, "runtime.rep"),
    Verify({"libc.mac", "libc.ios"}, "libc.rep"),
    Verify({"libart.mac", "libart.ios"}, "art.link"),
    Verify({"libicu.mac", "libicu.ios"}, "icu.link"),
    Verify({"libcore.mac", "libcore.ios"}, "core.link"),
    Wraps({"libc.mac", "libc.ios"}, {"libc.so"}),
    Wraps({"libart.mac", "libart.ios"}, {"libart.so"}),
    Wraps({"libicu.mac", "libicu.ios"}, {"libicu.so"}),
    Wraps({"libcore.mac", "libcore.ios"}, {"libcore.so"}),
    Alone("root"), Verify({"root.dex"}, "runtime.rep")>>
ArtBundle ==
  <<Revision, Gate(ArtBundleChecks),
    Digest(Libraries \union IosLibraries \union {"root.dex"}),
    Save("staged")>>

(* build.ios: the app is made anew from the working tree and the staged    *)
(* files, which it must hold unchanged; the archive is replaced, and only  *)
(* then the build described.                                               *)
IosApp == <<Digest({"staged"}), Unlink("app"), Make("app", {"unit"}, {"staged"})>>
VerifyEmbedded == Gate(<<Embedded("app", "staged")>>)
IosArchive ==
  <<Make("ipa", {}, {"app"}), Revision, Status, Digest({"ipa"}), Save("info")>>
IosBuildEarly ==
  <<Revision, Status>> \o IosApp
  \o <<VerifyEmbedded, Make("ipa", {}, {"app"}), Digest({"ipa"}), Save("info")>>
IosBuild == IosApp \o <<VerifyEmbedded>> \o IosArchive

(* bionic_bundle.prepare with the suite's acceptance, for an app that      *)
(* embeds the libc suite alone.                                            *)
BionicBundle ==
  <<Revision, Gate(<<Require("libc.rep", {"commit", "passed"}),
                     Verify({"libc.so", "libc.ios"}, "libc.rep"),
                     Wraps({"libc.ios"}, {"libc.so"})>>),
    Digest({"libc.so", "libc.ios"}), Save("staged")>>

GuestPrograms ==
  [bionic |-> BuildBionic, startup |-> BionicStartup,
   runtime |-> BuildArtRuntime, icu |-> BuildArtNativeLibraries,
   libcore |-> BuildArtLibcore, link_art |-> LinkArtGuest,
   link_icu |-> LinkIcuGuest, link_libcore |-> LinkLibcoreGuest,
   classlib |-> BuildArtClasslib, execute |-> RuntimeGuest,
   ios |-> ArtBundle \o IosBuild]
GuestOrder ==
  <<"bionic", "startup", "runtime", "icu", "libcore", "link_art", "link_icu",
    "link_libcore", "classlib", "execute", "ios">>

SuitePrograms ==
  [bionic |-> BuildBionic, startup |-> BionicStartup,
   ios |-> BionicBundle \o IosBuild]
SuiteOrder == <<"bionic", "startup", "ios">>
=============================================================================
