--------------------------- MODULE PipelineProofs ---------------------------
(* What the scripts link, ship, execute and record, for every sequence of     *)
(* commits, edits, runs, failures and kills, of any length.                   *)
(*                                                                            *)
(* Placed says what running a script is.  Knows says what a running script    *)
(* knows of files that none of its later operations touched: its record has   *)
(* their digests, it made them from what is there, its checks still hold.     *)
(* Honest says that every record that is there tells the truth about the      *)
(* files it lists, whatever became of them since.  The lemmas follow this     *)
(* order: the scripts as lists of operations, a step, what is known of one    *)
(* operation, what the scripts write and save, what their gates check, what   *)
(* their records say; then why the last scripts of the chains execute, link   *)
(* and ship only what fits together, and why a record never outlives what it  *)
(* vouches for.  The second half is about time: Dates says in which order a   *)
(* running script read HEAD, the versions its files were made from and its    *)
(* own digests of the project, and Traced what a record that survived the     *)
(* checks therefore says of where its files come from; both as long as no     *)
(* commit and no restore falls into a running script (Steady).  Shipping and  *)
(* Told, about the archive and its description, do without that.              *)
EXTENDS Pipeline, FiniteSetTheorems, TLAPS

-----------------------------------------------------------------------------
(* What the scripts do, operation by operation.                            *)

\* The operations of BuildBionic, in order.
LEMMA BuildBionicIs ==
  /\ DOMAIN BuildBionic = 1..5 /\ Len(BuildBionic) = 5
  /\ BuildBionic[1] = Make("bionic.gen", {"unit"}, {})
  /\ BuildBionic[2] = Make("bionic.objs", {"unit"}, {"bionic.gen"})
  /\ BuildBionic[3] = Make("bionic.o", {}, {"bionic.objs"})
  /\ BuildBionic[4] = Digest({"bionic.o"})
  /\ BuildBionic[5] = Save("bionic.rep")
  BY DEF BionicAdapted, BionicLink, BionicObjects, BuildBionic

\* The operations of BionicStartup, in order.
LEMMA BionicStartupIs ==
  /\ DOMAIN BionicStartup = 1..9 /\ Len(BionicStartup) = 9
  /\ BionicStartup[1] = Gate(<<Verify({"bionic.o"}, "bionic.rep")>>)
  /\ BionicStartup[2] = Make("libc.so", {"unit", "layout"}, {"bionic.o"})
  /\ BionicStartup[3] = Revision
  /\ BionicStartup[4] = Make("libc.mac", {}, {"libc.so"})
  /\ BionicStartup[5] = Make("libc.ios", {}, {"libc.so"})
  /\ BionicStartup[6] = Digest({"libc.so", "libc.mac", "libc.ios"})
  /\ BionicStartup[7] = Execute({"libc.mac"})
  /\ BionicStartup[8] = Gate(<<Succeeded>>)
  /\ BionicStartup[9] = Save("libc.rep")
  BY DEF BionicStartup

\* The operations of BuildArtRuntime, in order.
LEMMA BuildArtRuntimeIs ==
  /\ DOMAIN BuildArtRuntime = 1..13 /\ Len(BuildArtRuntime) = 13
  /\ BuildArtRuntime[1] = Make("art.gen", {"unit"}, {})
  /\ BuildArtRuntime[2] = Make("art.units", {"unit"}, {"art.gen"})
  /\ BuildArtRuntime[3] = Revision
  /\ BuildArtRuntime[4] = Make("art.src", {"unit"}, {"art.units"})
  /\ BuildArtRuntime[5] = Digest({"art.src"})
  /\ BuildArtRuntime[6] = Record("unit", "unit")
  /\ BuildArtRuntime[7] = Compile("art.o", {"unit"}, {"art.units"})
  /\ BuildArtRuntime[8] = Digest({"art.o"})
  /\ BuildArtRuntime[9] = Make("art.src", {"unit"}, {"art.units"})
  /\ BuildArtRuntime[10] = Digest({"art.src"})
  /\ BuildArtRuntime[11] = Record("unit", "unit")
  /\ BuildArtRuntime[12] = Save("art.build")
  /\ BuildArtRuntime[13] = Gate(<<Succeeded>>)
  BY DEF BuildArtRuntime, Preserve, RuntimeAdapted, RuntimeCompile,
     RuntimeObjects, RuntimeUnits

\* The operations of BuildArtNativeLibraries, in order.
LEMMA BuildArtNativeLibrariesIs ==
  /\ DOMAIN BuildArtNativeLibraries = 1..13 /\ Len(BuildArtNativeLibraries) = 13
  /\ BuildArtNativeLibraries[1] = Revision
  /\ BuildArtNativeLibraries[2] = Make("icu.src", {"unit"}, {})
  /\ BuildArtNativeLibraries[3] = Digest({"icu.src"})
  /\ BuildArtNativeLibraries[4] = Record("unit", "unit")
  /\ BuildArtNativeLibraries[5] = Compile("icu.o", {}, {})
  /\ BuildArtNativeLibraries[6] = Digest({"icu.o"})
  /\ BuildArtNativeLibraries[7] = Save("icu.build")
  /\ BuildArtNativeLibraries[8] = Gate(<<Succeeded>>)
  /\ BuildArtNativeLibraries[9] = Compile("icu.client", {"unit"}, {})
  /\ BuildArtNativeLibraries[10] = Record("client", "unit")
  /\ BuildArtNativeLibraries[11] = Digest({"icu.client"})
  /\ BuildArtNativeLibraries[12] = Save("icu.build")
  /\ BuildArtNativeLibraries[13] = Gate(<<Succeeded>>)
  BY DEF BuildArtNativeLibraries, Caller, NativeObjects, Preserve

\* The operations of BuildArtLibcore, in order.
LEMMA BuildArtLibcoreIs ==
  /\ DOMAIN BuildArtLibcore = 1..14 /\ Len(BuildArtLibcore) = 14
  /\ BuildArtLibcore[1] = Gate(<<Require("art.build", {"passed"}),
        Verify({"art.src"}, "art.build")>>)
  /\ BuildArtLibcore[2] = Make("core.src", {"unit"}, {"art.src"})
  /\ BuildArtLibcore[3] = Revision
  /\ BuildArtLibcore[4] = Digest({"core.src"})
  /\ BuildArtLibcore[5] = Record("unit", "unit")
  /\ BuildArtLibcore[6] = Compile("core.o", {"unit"}, {"art.gen"})
  /\ BuildArtLibcore[7] = Digest({"core.o"})
  /\ BuildArtLibcore[8] = Save("core.build")
  /\ BuildArtLibcore[9] = Gate(<<Succeeded>>)
  /\ BuildArtLibcore[10] = Compile("core.client", {"unit"}, {})
  /\ BuildArtLibcore[11] = Record("client", "unit")
  /\ BuildArtLibcore[12] = Digest({"core.client"})
  /\ BuildArtLibcore[13] = Save("core.build")
  /\ BuildArtLibcore[14] = Gate(<<Succeeded>>)
  BY DEF BuildArtLibcore, Caller, LibcoreBundle, LibcoreInputs, LibcoreObjects

\* The operations of LinkArtGuest, in order.
LEMMA LinkArtGuestIs ==
  /\ DOMAIN LinkArtGuest = 1..17 /\ Len(LinkArtGuest) = 17
  /\ LinkArtGuest[1] = Revision
  /\ LinkArtGuest[2] = Status
  /\ LinkArtGuest[3] = Gate(LinkArtChecks)
  /\ LinkArtGuest[4] = Make("art.ld", {"layout"}, {})
  /\ LinkArtGuest[5] = Make("libart.so", {}, {"art.o", "art.ld", "libc.so"})
  /\ LinkArtGuest[6] = Make("artlink.src", {"layout"}, {"art.src"})
  /\ LinkArtGuest[7] = Digest({"libc.so"})
  /\ LinkArtGuest[8] = Record("layout", "layout")
  /\ LinkArtGuest[9] = Digest({"artlink.src"})
  /\ LinkArtGuest[10] = Digest({"libart.so"})
  /\ LinkArtGuest[11] = Save("art.link")
  /\ LinkArtGuest[12] = Make("libart.mac", {}, {"libart.so"})
  /\ LinkArtGuest[13] = Digest({"libart.mac"})
  /\ LinkArtGuest[14] = Save("art.link")
  /\ LinkArtGuest[15] = Make("libart.ios", {}, {"libart.so"})
  /\ LinkArtGuest[16] = Digest({"libart.ios"})
  /\ LinkArtGuest[17] = Save("art.link")
  BY DEF Framework, LinkArtGuest, LinkArtLayout, LinkArtSource, Sign

\* The operations of LinkIcuGuest, in order.
LEMMA LinkIcuGuestIs ==
  /\ DOMAIN LinkIcuGuest = 1..18 /\ Len(LinkIcuGuest) = 18
  /\ LinkIcuGuest[1] = Revision
  /\ LinkIcuGuest[2] = Status
  /\ LinkIcuGuest[3] = Gate(LinkIcuChecks)
  /\ LinkIcuGuest[4] = Make("icu.ld", {"layout"}, {})
  /\ LinkIcuGuest[5] = Digest({"libart.so", "libc.so"})
  /\ LinkIcuGuest[6] = Make("libicu.so", {}, {"icu.o", "icu.client",
        "icu.ld", "libart.so", "libc.so"})
  /\ LinkIcuGuest[7] = Digest({"libicu.so"})
  /\ LinkIcuGuest[8] = Save("icu.link")
  /\ LinkIcuGuest[9] = Make("libicu.mac", {}, {"libicu.so"})
  /\ LinkIcuGuest[10] = Digest({"libicu.mac"})
  /\ LinkIcuGuest[11] = Save("icu.link")
  /\ LinkIcuGuest[12] = Make("libicu.ios", {}, {"libicu.so"})
  /\ LinkIcuGuest[13] = Digest({"libicu.ios"})
  /\ LinkIcuGuest[14] = Save("icu.link")
  /\ LinkIcuGuest[15] = Make("iculink.src", {"layout"}, {"icu.src",
        "artlink.src"})
  /\ LinkIcuGuest[16] = Record("layout", "layout")
  /\ LinkIcuGuest[17] = Digest({"iculink.src"})
  /\ LinkIcuGuest[18] = Save("icu.link")
  BY DEF Framework, LinkIcuGuest, LinkIcuLayout, LinkIcuSource, Sign

\* The operations of LinkLibcoreGuest, in order.
LEMMA LinkLibcoreGuestIs ==
  /\ DOMAIN LinkLibcoreGuest = 1..18 /\ Len(LinkLibcoreGuest) = 18
  /\ LinkLibcoreGuest[1] = Revision
  /\ LinkLibcoreGuest[2] = Status
  /\ LinkLibcoreGuest[3] = Gate(LinkLibcoreChecks)
  /\ LinkLibcoreGuest[4] = Make("core.ld", {"layout"}, {})
  /\ LinkLibcoreGuest[5] = Digest({"libart.so", "libc.so", "libicu.so"})
  /\ LinkLibcoreGuest[6] = Make("libcore.so", {}, {"core.o", "core.client",
        "core.ld", "libart.so", "libc.so", "libicu.so"})
  /\ LinkLibcoreGuest[7] = Digest({"libcore.so"})
  /\ LinkLibcoreGuest[8] = Save("core.link")
  /\ LinkLibcoreGuest[9] = Make("libcore.mac", {}, {"libcore.so"})
  /\ LinkLibcoreGuest[10] = Digest({"libcore.mac"})
  /\ LinkLibcoreGuest[11] = Save("core.link")
  /\ LinkLibcoreGuest[12] = Make("libcore.ios", {}, {"libcore.so"})
  /\ LinkLibcoreGuest[13] = Digest({"libcore.ios"})
  /\ LinkLibcoreGuest[14] = Save("core.link")
  /\ LinkLibcoreGuest[15] = Make("corelink.src", {"layout"}, {"core.src",
        "iculink.src", "artlink.src"})
  /\ LinkLibcoreGuest[16] = Record("layout", "layout")
  /\ LinkLibcoreGuest[17] = Digest({"corelink.src"})
  /\ LinkLibcoreGuest[18] = Save("core.link")
  BY DEF Framework, LinkLibcoreGuest, LinkLibcoreLayout, LinkLibcoreSource, Sign

\* The operations of BuildArtClasslib, in order.
LEMMA BuildArtClasslibIs ==
  /\ DOMAIN BuildArtClasslib = 1..8 /\ Len(BuildArtClasslib) = 8
  /\ BuildArtClasslib[1] = Record("held", "unit")
  /\ BuildArtClasslib[2] = Draft("dex", {"held"})
  /\ BuildArtClasslib[3] = Draft("dex.src", {"unit"})
  /\ BuildArtClasslib[4] = Revision
  /\ BuildArtClasslib[5] = Record("unit", "unit")
  /\ BuildArtClasslib[6] = Pack("dex.zip", {"dex", "dex.src"})
  /\ BuildArtClasslib[7] = Digest({"dex.zip"})
  /\ BuildArtClasslib[8] = Save("dex.result")
  BY DEF BuildArtClasslib

\* The operations of RuntimeGuest, in order.
LEMMA RuntimeGuestIs ==
  /\ DOMAIN RuntimeGuest = 1..9 /\ Len(RuntimeGuest) = 9
  /\ RuntimeGuest[1] = Revision
  /\ RuntimeGuest[2] = Gate(RuntimeChecks)
  /\ RuntimeGuest[3] = Retain("root")
  /\ RuntimeGuest[4] = Gate(PreparedDex \o <<Require("dex.result",
        {"commit"})>>)
  /\ RuntimeGuest[5] = Copy("dex.zip", "root.dex")
  /\ RuntimeGuest[6] = Digest(Libraries \union MacLibraries \union
        {"root.dex"})
  /\ RuntimeGuest[7] = Execute(MacLibraries \union {"root.dex"})
  /\ RuntimeGuest[8] = Save("runtime.rep")
  /\ RuntimeGuest[9] = Gate(<<Succeeded>>)
  BY DEF RuntimeGuest

GuestIos == ArtBundle \o IosBuild

\* The operations of GuestIos, in order.
LEMMA GuestIosIs ==
  /\ DOMAIN GuestIos = 1..13 /\ Len(GuestIos) = 13
  /\ GuestIos[1] = Revision
  /\ GuestIos[2] = Gate(ArtBundleChecks)
  /\ GuestIos[3] = Digest(Libraries \union IosLibraries
        \union {"root.dex"})
  /\ GuestIos[4] = Save("staged")
  /\ GuestIos[5] = Digest({"staged"})
  /\ GuestIos[6] = Unlink("app")
  /\ GuestIos[7] = Make("app", {"unit"}, {"staged"})
  /\ GuestIos[8] = Gate(<<Embedded("app", "staged")>>)
  /\ GuestIos[9] = Make("ipa", {}, {"app"})
  /\ GuestIos[10] = Revision
  /\ GuestIos[11] = Status
  /\ GuestIos[12] = Digest({"ipa"})
  /\ GuestIos[13] = Save("info")
  BY DEF GuestIos, ArtBundle, IosApp, IosArchive, IosBuild, VerifyEmbedded

SuiteIos == BionicBundle \o IosBuild

\* The operations of SuiteIos, in order.
LEMMA SuiteIosIs ==
  /\ DOMAIN SuiteIos = 1..13 /\ Len(SuiteIos) = 13
  /\ SuiteIos[1] = Revision
  /\ SuiteIos[2] = Gate(<<Require("libc.rep", {"commit",
        "passed"}), Verify({"libc.so", "libc.ios"}, "libc.rep"),
        Wraps({"libc.ios"}, {"libc.so"})>>)
  /\ SuiteIos[3] = Digest({"libc.so", "libc.ios"})
  /\ SuiteIos[4] = Save("staged")
  /\ SuiteIos[5] = Digest({"staged"})
  /\ SuiteIos[6] = Unlink("app")
  /\ SuiteIos[7] = Make("app", {"unit"}, {"staged"})
  /\ SuiteIos[8] = Gate(<<Embedded("app", "staged")>>)
  /\ SuiteIos[9] = Make("ipa", {}, {"app"})
  /\ SuiteIos[10] = Revision
  /\ SuiteIos[11] = Status
  /\ SuiteIos[12] = Digest({"ipa"})
  /\ SuiteIos[13] = Save("info")
  BY DEF SuiteIos, BionicBundle, IosApp, IosArchive, IosBuild, VerifyEmbedded

\* The operations of BinderAidl, in order.
LEMMA BinderAidlIs ==
  /\ DOMAIN BinderAidl = 1..8 /\ Len(BinderAidl) = 8
  /\ BinderAidl[1] = Record("held", "pin")
  /\ BinderAidl[2] = Unlink("aidl.rep")
  /\ BinderAidl[3] = Once("aidl.gen", {}, {})
  /\ BinderAidl[4] = Revision
  /\ BinderAidl[5] = Record("unit", "unit")
  /\ BinderAidl[6] = Record("pin", "pin")
  /\ BinderAidl[7] = Digest({"aidl.gen"})
  /\ BinderAidl[8] = Save("aidl.rep")
  BY DEF BinderAidl

\* The operations of Xsdc, in order.
LEMMA XsdcIs ==
  /\ DOMAIN Xsdc = 1..10 /\ Len(Xsdc) = 10
  /\ Xsdc[1] = Unlink("xsd.rep")
  /\ Xsdc[2] = Record("held", "pin")
  /\ Xsdc[3] = Held("xsd.gen", {}, {})
  /\ Xsdc[4] = Make("xsd.src", {"unit", "pin"}, {"xsd.gen"})
  /\ Xsdc[5] = Record("pin", "pin")
  /\ Xsdc[6] = Digest({"xsd.gen", "xsd.src"})
  /\ Xsdc[7] = Record("unit", "unit")
  /\ Xsdc[8] = Revision
  /\ Xsdc[9] = Save("xsd.rep")
  /\ Xsdc[10] = Gate(VerifyGeneration)
  BY DEF Xsdc

\* The operations of BuildBinder, in order.
LEMMA BuildBinderIs ==
  /\ DOMAIN BuildBinder = 1..14 /\ Len(BuildBinder) = 14
  /\ BuildBinder[1] = Gate(VerifyAidl)
  /\ BuildBinder[2] = Unlink("binder.rep")
  /\ BuildBinder[3] = Record("held", "pin")
  /\ BuildBinder[4] = Held("binder.o", {}, {"aidl.gen"})
  /\ BuildBinder[5] = Digest({"binder.o"})
  /\ BuildBinder[6] = Unlink("binder.a")
  /\ BuildBinder[7] = Make("binder.a", {}, {"binder.o"})
  /\ BuildBinder[8] = Digest({"binder.a"})
  /\ BuildBinder[9] = Revision
  /\ BuildBinder[10] = Make("binder.src", {"unit", "pin"}, {"aidl.gen"})
  /\ BuildBinder[11] = Digest({"binder.src"})
  /\ BuildBinder[12] = Record("unit", "unit")
  /\ BuildBinder[13] = Record("pin", "pin")
  /\ BuildBinder[14] = Save("binder.rep")
  BY DEF Archive, BuildBinder, BundleSources

\* The operations of BuildVintf, in order.
LEMMA BuildVintfIs ==
  /\ DOMAIN BuildVintf = 1..15 /\ Len(BuildVintf) = 15
  /\ BuildVintf[1] = Unlink("vintf.rep")
  /\ BuildVintf[2] = Gate(VerifyGeneration)
  /\ BuildVintf[3] = Record("held", "pin")
  /\ BuildVintf[4] = Held("vintf.o", {}, {"xsd.gen"})
  /\ BuildVintf[5] = Digest({"vintf.o"})
  /\ BuildVintf[6] = Unlink("vintf.a")
  /\ BuildVintf[7] = Make("vintf.a", {}, {"vintf.o"})
  /\ BuildVintf[8] = Digest({"vintf.a"})
  /\ BuildVintf[9] = Revision
  /\ BuildVintf[10] = Gate(VerifyGeneration \o <<Verify({"xsd.src"},
        "xsd.rep")>>)
  /\ BuildVintf[11] = Make("vintf.src", {"unit", "pin"}, {"xsd.gen",
        "xsd.src"})
  /\ BuildVintf[12] = Digest({"vintf.src"})
  /\ BuildVintf[13] = Record("unit", "unit")
  /\ BuildVintf[14] = Record("pin", "pin")
  /\ BuildVintf[15] = Save("vintf.rep")
  BY DEF Archive, BuildVintf, VintfSources, VintfStart

\* The operations of BuildServicemanager, in order.
LEMMA BuildServicemanagerIs ==
  /\ DOMAIN BuildServicemanager = 1..15 /\ Len(BuildServicemanager) = 15
  /\ BuildServicemanager[1] = Unlink("service.rep")
  /\ BuildServicemanager[2] = Gate(VerifyAidl)
  /\ BuildServicemanager[3] = Record("held", "pin")
  /\ BuildServicemanager[4] = Held("service.o", {"unit"}, {"aidl.gen"})
  /\ BuildServicemanager[5] = Digest({"service.o"})
  /\ BuildServicemanager[6] = Unlink("service.a")
  /\ BuildServicemanager[7] = Make("service.a", {}, {"service.o"})
  /\ BuildServicemanager[8] = Digest({"service.a"})
  /\ BuildServicemanager[9] = Revision
  /\ BuildServicemanager[10] = Status
  /\ BuildServicemanager[11] = Make("service.src", {"unit", "pin"},
        {"aidl.gen"})
  /\ BuildServicemanager[12] = Digest({"service.src"})
  /\ BuildServicemanager[13] = Record("unit", "unit")
  /\ BuildServicemanager[14] = Record("pin", "pin")
  /\ BuildServicemanager[15] = Save("service.rep")
  BY DEF Archive, BuildServicemanager, BundleSources

\* The operations of BuildKernelConfig, in order.
LEMMA BuildKernelConfigIs ==
  /\ DOMAIN BuildKernelConfig = 1..14 /\ Len(BuildKernelConfig) = 14
  /\ BuildKernelConfig[1] = Unlink("parser.rep")
  /\ BuildKernelConfig[2] = Record("held", "pin")
  /\ BuildKernelConfig[3] = Held("regex.o", {}, {})
  /\ BuildKernelConfig[4] = Held("parser.o", {"unit"}, {})
  /\ BuildKernelConfig[5] = Digest({"regex.o", "parser.o"})
  /\ BuildKernelConfig[6] = Make("parser.ref", {}, {"parser.o", "regex.o"})
  /\ BuildKernelConfig[7] = Make("parser.src", {"unit", "pin"}, {})
  /\ BuildKernelConfig[8] = Revision
  /\ BuildKernelConfig[9] = Status
  /\ BuildKernelConfig[10] = Digest({"parser.ref"})
  /\ BuildKernelConfig[11] = Record("unit", "unit")
  /\ BuildKernelConfig[12] = Record("pin", "pin")
  /\ BuildKernelConfig[13] = Digest({"parser.src"})
  /\ BuildKernelConfig[14] = Save("parser.rep")
  BY DEF BuildKernelConfig

\* The operations of ServiceGuest, in order.
LEMMA ServiceGuestIs ==
  /\ DOMAIN ServiceGuest = 1..14 /\ Len(ServiceGuest) = 14
  /\ ServiceGuest[1] = Revision
  /\ ServiceGuest[2] = Status
  /\ ServiceGuest[3] = Gate(ServiceChecks)
  /\ ServiceGuest[4] = Make("libservice.so", {"unit"}, {"service.a",
        "binder.a", "vintf.a", "regex.o", "libc.so"})
  /\ ServiceGuest[5] = Gate(<<Verify({"parser.src"}, "parser.rep")>>)
  /\ ServiceGuest[6] = Make("service.mac", {}, ServiceLibraries)
  /\ ServiceGuest[7] = Make("service.ios", {}, ServiceLibraries)
  /\ ServiceGuest[8] = Make("svc.src", {"unit"}, {"service.src",
        "binder.src", "vintf.src", "parser.src"})
  /\ ServiceGuest[9] = Digest({"svc.src"})
  /\ ServiceGuest[10] = Record("unit", "unit")
  /\ ServiceGuest[11] = Digest(ServiceLibraries \union {"service.mac",
        "service.ios"})
  /\ ServiceGuest[12] = Execute({"service.mac"})
  /\ ServiceGuest[13] = Save("service.guest")
  /\ ServiceGuest[14] = Gate(<<Succeeded>>)
  BY DEF ServiceGuest

ServiceIos == ServiceBundle \o IosBuild

\* The operations of ServiceIos, in order.
LEMMA ServiceIosIs ==
  /\ DOMAIN ServiceIos = 1..13 /\ Len(ServiceIos) = 13
  /\ ServiceIos[1] = Revision
  /\ ServiceIos[2] = Gate(ServiceBundleChecks)
  /\ ServiceIos[3] = Digest(ServiceLibraries \union
        {"service.ios"})
  /\ ServiceIos[4] = Save("staged")
  /\ ServiceIos[5] = Digest({"staged"})
  /\ ServiceIos[6] = Unlink("app")
  /\ ServiceIos[7] = Make("app", {"unit"}, {"staged"})
  /\ ServiceIos[8] = Gate(<<Embedded("app", "staged")>>)
  /\ ServiceIos[9] = Make("ipa", {}, {"app"})
  /\ ServiceIos[10] = Revision
  /\ ServiceIos[11] = Status
  /\ ServiceIos[12] = Digest({"ipa"})
  /\ ServiceIos[13] = Save("info")
  BY DEF ServiceIos, IosApp, IosArchive, IosBuild, ServiceBundle, VerifyEmbedded

\* The operations of LinuxRuntime, in order.
LEMMA LinuxRuntimeIs ==
  /\ DOMAIN LinuxRuntime = 1..14 /\ Len(LinuxRuntime) = 14
  /\ LinuxRuntime[1] = Make("art.gen", {"unit"}, {})
  /\ LinuxRuntime[2] = Make("art.units", {"unit"}, {"art.gen"})
  /\ LinuxRuntime[3] = Revision
  /\ LinuxRuntime[4] = Make("art.src", {"unit"}, {"art.units"})
  /\ LinuxRuntime[5] = Digest({"art.src"})
  /\ LinuxRuntime[6] = Record("unit", "unit")
  /\ LinuxRuntime[7] = Compile("art.o", {"unit"}, {"art.units"})
  /\ LinuxRuntime[8] = Digest({"art.o"})
  /\ LinuxRuntime[9] = Save("art.build")
  /\ LinuxRuntime[10] = Gate(<<Succeeded, Unaltered({"art.o"})>>)
  /\ LinuxRuntime[11] = Make("libart.so", {}, {"art.o"})
  /\ LinuxRuntime[12] = Make("art.harness", {"unit"}, {"libart.so"})
  /\ LinuxRuntime[13] = Digest({"libart.so", "art.harness"})
  /\ LinuxRuntime[14] = Save("art.build")
  BY DEF LinuxRuntime, Preserve, RuntimeAdapted, RuntimeCompile, RuntimeLink,
     RuntimeObjects, RuntimeUnits

\* The operations of LinuxNative, in order.
LEMMA LinuxNativeIs ==
  /\ DOMAIN LinuxNative = 1..17 /\ Len(LinuxNative) = 17
  /\ LinuxNative[1] = Revision
  /\ LinuxNative[2] = Gate(<<Require("art.build", {}), Verify({"libart.so",
        "art.src"}, "art.build")>>)
  /\ LinuxNative[3] = Copy("libart.so", "icu.libart")
  /\ LinuxNative[4] = Make("icu.src", {"unit"}, {"art.src"})
  /\ LinuxNative[5] = Digest({"icu.src"})
  /\ LinuxNative[6] = Record("unit", "unit")
  /\ LinuxNative[7] = Compile("icu.o", {}, {})
  /\ LinuxNative[8] = Digest({"icu.o"})
  /\ LinuxNative[9] = Save("icu.build")
  /\ LinuxNative[10] = Gate(<<Succeeded>>)
  /\ LinuxNative[11] = Gate(<<Unaltered({"icu.o"})>>)
  /\ LinuxNative[12] = Make("libicu.so", {}, {"icu.o", "icu.libart"})
  /\ LinuxNative[13] = Make("icu.harness", {"unit"}, {"libicu.so"})
  /\ LinuxNative[14] = Execute({"icu.harness"})
  /\ LinuxNative[15] = Gate(<<Succeeded>>)
  /\ LinuxNative[16] = Digest({"libicu.so", "icu.libart", "icu.harness"})
  /\ LinuxNative[17] = Save("icu.build")
  BY DEF LinuxNative, NativeBundle, NativeLink, NativeObjects, Preserve

\* The operations of LinuxLibcore, in order.
LEMMA LinuxLibcoreIs ==
  /\ DOMAIN LinuxLibcore = 1..21 /\ Len(LinuxLibcore) = 21
  /\ LinuxLibcore[1] = Gate(<<Require("art.build", {"passed"}),
        Verify({"art.src"}, "art.build")>>)
  /\ LinuxLibcore[2] = Gate(<<Require("icu.build", {}), Require("art.build",
        {}), Verify({"icu.src"}, "icu.build"), VerifyAs("icu.libart",
     "libart.so", "art.build"), Verify({"libicu.so", "icu.libart",
     "icu.harness"}, "icu.build")>>)
  /\ LinuxLibcore[3] = Copy("icu.libart", "core.libart")
  /\ LinuxLibcore[4] = Copy("libicu.so", "core.libicu")
  /\ LinuxLibcore[5] = Make("core.src", {"unit"}, {"art.src"})
  /\ LinuxLibcore[6] = Revision
  /\ LinuxLibcore[7] = Digest({"core.src"})
  /\ LinuxLibcore[8] = Record("unit", "unit")
  /\ LinuxLibcore[9] = Compile("core.o", {"unit"}, {"art.gen"})
  /\ LinuxLibcore[10] = Digest({"core.o"})
  /\ LinuxLibcore[11] = Save("core.build")
  /\ LinuxLibcore[12] = Gate(<<Succeeded>>)
  /\ LinuxLibcore[13] = Gate(<<Unaltered({"core.o"})>>)
  /\ LinuxLibcore[14] = Save("core.build")
  /\ LinuxLibcore[15] = Make("libcore.so", {}, {"core.o", "core.libart",
        "core.libicu"})
  /\ LinuxLibcore[16] = Save("core.build")
  /\ LinuxLibcore[17] = Make("core.harness", {"unit"}, {"libcore.so",
        "core.libicu"})
  /\ LinuxLibcore[18] = Execute({"core.harness"})
  /\ LinuxLibcore[19] = Gate(<<Succeeded>>)
  /\ LinuxLibcore[20] = Digest({"libcore.so", "core.libart", "core.libicu",
        "core.harness"})
  /\ LinuxLibcore[21] = Save("core.build")
  BY DEF LibcoreBundle, LibcoreDependencies, LibcoreInputs, LibcoreLink,
     LibcoreObjects, LinuxLibcore

\* The operations of BuildManagedFixture, in order.
LEMMA BuildManagedFixtureIs ==
  /\ DOMAIN BuildManagedFixture = 1..7 /\ Len(BuildManagedFixture) = 7
  /\ BuildManagedFixture[1] = Draft("dex", {"unit"})
  /\ BuildManagedFixture[2] = Draft("dex.src", {"unit"})
  /\ BuildManagedFixture[3] = Revision
  /\ BuildManagedFixture[4] = Record("unit", "unit")
  /\ BuildManagedFixture[5] = Pack("dex.zip", {"dex", "dex.src"})
  /\ BuildManagedFixture[6] = Digest({"dex.zip"})
  /\ BuildManagedFixture[7] = Save("dex.result")
  BY DEF BuildManagedFixture

\* The operations of ArtStartup, in order.
LEMMA ArtStartupIs ==
  /\ DOMAIN ArtStartup = 1..7 /\ Len(ArtStartup) = 7
  /\ ArtStartup[1] = Gate(StartupChecks)
  /\ ArtStartup[2] = Revision
  /\ ArtStartup[3] = Gate(<<Require("art.build", {"commit"}),
        Require("icu.build", {"commit"}), Require("core.build", {"commit"}),
     Require("dex.result", {"commit"})>>)
  /\ ArtStartup[4] = Digest(StartupInputs \union {"art.harness", "dex.zip"})
  /\ ArtStartup[5] = Execute(StartupInputs \union {"art.harness", "dex.zip"})
  /\ ArtStartup[6] = Save("start.rep")
  /\ ArtStartup[7] = Gate(<<Succeeded>>)
  BY DEF ArtStartup

\* The operations of ParserReference, in order.
LEMMA ParserReferenceIs ==
  /\ DOMAIN ParserReference = 1..7 /\ Len(ParserReference) = 7
  /\ ParserReference[1] = Revision
  /\ ParserReference[2] = Status
  /\ ParserReference[3] = Gate(<<Clean>> \o VerifyParserBuild)
  /\ ParserReference[4] = Execute({"parser.ref"})
  /\ ParserReference[5] = Digest({"parser.rep", "parser.o", "regex.o",
        "parser.ref", "parser.src"})
  /\ ParserReference[6] = Save("kcref.rep")
  /\ ParserReference[7] = Gate(<<Succeeded>>)
  BY DEF ParserReference

\* The operations of ParserGuest, in order.
LEMMA ParserGuestIs ==
  /\ DOMAIN ParserGuest = 1..13 /\ Len(ParserGuest) = 13
  /\ ParserGuest[1] = Revision
  /\ ParserGuest[2] = Status
  /\ ParserGuest[3] = Gate(<<Clean>> \o VerifyParserBuild \o VerifyReference
        \o ParserDependencies)
  /\ ParserGuest[4] = Make("libkc.so", {"layout"}, {"parser.o", "regex.o",
        "libc.so", "libart.so"})
  /\ ParserGuest[5] = Make("kc.mac", {}, {"libkc.so"})
  /\ ParserGuest[6] = Make("kc.ios", {}, {"libkc.so"})
  /\ ParserGuest[7] = Make("kc.src", {"unit", "layout"}, {"parser.src",
        "artlink.src", "kcref.rep"})
  /\ ParserGuest[8] = Digest({"kcref.rep", "parser.rep"})
  /\ ParserGuest[9] = Record("unit", "unit")
  /\ ParserGuest[10] = Digest({"kc.src", "libkc.so", "kc.mac", "kc.ios"})
  /\ ParserGuest[11] = Execute({"kc.mac", "libc.mac", "libart.mac"})
  /\ ParserGuest[12] = Save("kc.rep")
  /\ ParserGuest[13] = Gate(<<Succeeded>>)
  BY DEF ParserGuest

\* The scripts of the guest chain.
LEMMA GuestProgramsAre ==
  /\ DOMAIN GuestPrograms = {"bionic", "startup", "runtime", "icu",
       "libcore", "link_art", "link_icu", "link_libcore", "classlib",
     "execute", "ios"}
  /\ GuestPrograms["bionic"] = BuildBionic
  /\ GuestPrograms["startup"] = BionicStartup
  /\ GuestPrograms["runtime"] = BuildArtRuntime
  /\ GuestPrograms["icu"] = BuildArtNativeLibraries
  /\ GuestPrograms["libcore"] = BuildArtLibcore
  /\ GuestPrograms["link_art"] = LinkArtGuest
  /\ GuestPrograms["link_icu"] = LinkIcuGuest
  /\ GuestPrograms["link_libcore"] = LinkLibcoreGuest
  /\ GuestPrograms["classlib"] = BuildArtClasslib
  /\ GuestPrograms["execute"] = RuntimeGuest
  /\ GuestPrograms["ios"] = GuestIos
  BY DEF GuestPrograms, GuestIos

\* None of them is empty.
LEMMA GuestLengths ==
  \A s \in DOMAIN GuestPrograms :
    Len(GuestPrograms[s]) \in Nat \ {0}
<1>1. Len(BuildBionic) \in Nat \ {0}
  BY BuildBionicIs
<1>2. Len(BionicStartup) \in Nat \ {0}
  BY BionicStartupIs
<1>3. Len(BuildArtRuntime) \in Nat \ {0}
  BY BuildArtRuntimeIs
<1>4. Len(BuildArtNativeLibraries) \in Nat \ {0}
  BY BuildArtNativeLibrariesIs
<1>5. Len(BuildArtLibcore) \in Nat \ {0}
  BY BuildArtLibcoreIs
<1>6. Len(LinkArtGuest) \in Nat \ {0}
  BY LinkArtGuestIs
<1>7. Len(LinkIcuGuest) \in Nat \ {0}
  BY LinkIcuGuestIs
<1>8. Len(LinkLibcoreGuest) \in Nat \ {0}
  BY LinkLibcoreGuestIs
<1>9. Len(BuildArtClasslib) \in Nat \ {0}
  BY BuildArtClasslibIs
<1>10. Len(RuntimeGuest) \in Nat \ {0}
  BY RuntimeGuestIs
<1>11. Len(GuestIos) \in Nat \ {0}
  BY GuestIosIs
<1> DEFINE S == {BuildBionic, BionicStartup, BuildArtRuntime,
           BuildArtNativeLibraries, BuildArtLibcore, LinkArtGuest,
     LinkIcuGuest, LinkLibcoreGuest, BuildArtClasslib, RuntimeGuest,
     GuestIos}
<1>12. \A s \in DOMAIN GuestPrograms : GuestPrograms[s] \in S
  BY GuestProgramsAre
<1>13. \A x \in S : Len(x) \in Nat \ {0}
  BY <1>1, <1>2, <1>3, <1>4, <1>5, <1>6, <1>7, <1>8, <1>9, <1>10, <1>11, Zenon
<1> QED BY <1>12, <1>13

\* The scripts of the suite chain.
LEMMA SuiteProgramsAre ==
  /\ DOMAIN SuitePrograms = {"bionic", "startup", "ios"}
  /\ SuitePrograms["bionic"] = BuildBionic
  /\ SuitePrograms["startup"] = BionicStartup
  /\ SuitePrograms["ios"] = SuiteIos
  BY DEF SuitePrograms, SuiteIos

\* None of them is empty.
LEMMA SuiteLengths ==
  \A s \in DOMAIN SuitePrograms :
    Len(SuitePrograms[s]) \in Nat \ {0}
<1>1. Len(BuildBionic) \in Nat \ {0}
  BY BuildBionicIs
<1>2. Len(BionicStartup) \in Nat \ {0}
  BY BionicStartupIs
<1>3. Len(SuiteIos) \in Nat \ {0}
  BY SuiteIosIs
<1> DEFINE S == {BuildBionic, BionicStartup, SuiteIos}
<1>4. \A s \in DOMAIN SuitePrograms : SuitePrograms[s] \in S
  BY SuiteProgramsAre
<1>5. \A x \in S : Len(x) \in Nat \ {0}
  BY <1>1, <1>2, <1>3, Zenon
<1> QED BY <1>4, <1>5

\* The scripts of the service chain.
LEMMA ServiceProgramsAre ==
  /\ DOMAIN ServicePrograms = {"bionic", "startup", "aidl", "xsdc",
       "binder", "vintf", "servicemanager", "parser", "execute", "ios"}
  /\ ServicePrograms["bionic"] = BuildBionic
  /\ ServicePrograms["startup"] = BionicStartup
  /\ ServicePrograms["aidl"] = BinderAidl
  /\ ServicePrograms["xsdc"] = Xsdc
  /\ ServicePrograms["binder"] = BuildBinder
  /\ ServicePrograms["vintf"] = BuildVintf
  /\ ServicePrograms["servicemanager"] = BuildServicemanager
  /\ ServicePrograms["parser"] = BuildKernelConfig
  /\ ServicePrograms["execute"] = ServiceGuest
  /\ ServicePrograms["ios"] = ServiceIos
  BY DEF ServicePrograms, ServiceIos

\* None of them is empty.
LEMMA ServiceLengths ==
  \A s \in DOMAIN ServicePrograms :
    Len(ServicePrograms[s]) \in Nat \ {0}
<1>1. Len(BuildBionic) \in Nat \ {0}
  BY BuildBionicIs
<1>2. Len(BionicStartup) \in Nat \ {0}
  BY BionicStartupIs
<1>3. Len(BinderAidl) \in Nat \ {0}
  BY BinderAidlIs
<1>4. Len(Xsdc) \in Nat \ {0}
  BY XsdcIs
<1>5. Len(BuildBinder) \in Nat \ {0}
  BY BuildBinderIs
<1>6. Len(BuildVintf) \in Nat \ {0}
  BY BuildVintfIs
<1>7. Len(BuildServicemanager) \in Nat \ {0}
  BY BuildServicemanagerIs
<1>8. Len(BuildKernelConfig) \in Nat \ {0}
  BY BuildKernelConfigIs
<1>9. Len(ServiceGuest) \in Nat \ {0}
  BY ServiceGuestIs
<1>10. Len(ServiceIos) \in Nat \ {0}
  BY ServiceIosIs
<1> DEFINE S == {BuildBionic, BionicStartup, BinderAidl, Xsdc, BuildBinder,
           BuildVintf, BuildServicemanager, BuildKernelConfig, ServiceGuest,
     ServiceIos}
<1>11. \A s \in DOMAIN ServicePrograms : ServicePrograms[s] \in S
  BY ServiceProgramsAre
<1>12. \A x \in S : Len(x) \in Nat \ {0}
  BY <1>1, <1>2, <1>3, <1>4, <1>5, <1>6, <1>7, <1>8, <1>9, <1>10, Zenon
<1> QED BY <1>11, <1>12

\* The scripts of the linux chain.
LEMMA LinuxProgramsAre ==
  /\ DOMAIN LinuxPrograms = {"runtime", "icu", "libcore", "fixture", "execute"}
  /\ LinuxPrograms["runtime"] = LinuxRuntime
  /\ LinuxPrograms["icu"] = LinuxNative
  /\ LinuxPrograms["libcore"] = LinuxLibcore
  /\ LinuxPrograms["fixture"] = BuildManagedFixture
  /\ LinuxPrograms["execute"] = ArtStartup
  BY DEF LinuxPrograms

\* None of them is empty.
LEMMA LinuxLengths ==
  \A s \in DOMAIN LinuxPrograms :
    Len(LinuxPrograms[s]) \in Nat \ {0}
<1>1. Len(LinuxRuntime) \in Nat \ {0}
  BY LinuxRuntimeIs
<1>2. Len(LinuxNative) \in Nat \ {0}
  BY LinuxNativeIs
<1>3. Len(LinuxLibcore) \in Nat \ {0}
  BY LinuxLibcoreIs
<1>4. Len(BuildManagedFixture) \in Nat \ {0}
  BY BuildManagedFixtureIs
<1>5. Len(ArtStartup) \in Nat \ {0}
  BY ArtStartupIs
<1> DEFINE S == {LinuxRuntime, LinuxNative, LinuxLibcore,
           BuildManagedFixture, ArtStartup}
<1>6. \A s \in DOMAIN LinuxPrograms : LinuxPrograms[s] \in S
  BY LinuxProgramsAre
<1>7. \A x \in S : Len(x) \in Nat \ {0}
  BY <1>1, <1>2, <1>3, <1>4, <1>5, Zenon
<1> QED BY <1>6, <1>7

\* The scripts of the parser chain.
LEMMA ParserProgramsAre ==
  /\ DOMAIN ParserPrograms = {"parser", "reference", "bionic", "startup",
       "runtime", "link_art", "guest"}
  /\ ParserPrograms["parser"] = BuildKernelConfig
  /\ ParserPrograms["reference"] = ParserReference
  /\ ParserPrograms["bionic"] = BuildBionic
  /\ ParserPrograms["startup"] = BionicStartup
  /\ ParserPrograms["runtime"] = BuildArtRuntime
  /\ ParserPrograms["link_art"] = LinkArtGuest
  /\ ParserPrograms["guest"] = ParserGuest
  BY DEF ParserPrograms

\* None of them is empty.
LEMMA ParserLengths ==
  \A s \in DOMAIN ParserPrograms :
    Len(ParserPrograms[s]) \in Nat \ {0}
<1>1. Len(BuildKernelConfig) \in Nat \ {0}
  BY BuildKernelConfigIs
<1>2. Len(ParserReference) \in Nat \ {0}
  BY ParserReferenceIs
<1>3. Len(BuildBionic) \in Nat \ {0}
  BY BuildBionicIs
<1>4. Len(BionicStartup) \in Nat \ {0}
  BY BionicStartupIs
<1>5. Len(BuildArtRuntime) \in Nat \ {0}
  BY BuildArtRuntimeIs
<1>6. Len(LinkArtGuest) \in Nat \ {0}
  BY LinkArtGuestIs
<1>7. Len(ParserGuest) \in Nat \ {0}
  BY ParserGuestIs
<1> DEFINE S == {BuildKernelConfig, ParserReference, BuildBionic,
           BionicStartup, BuildArtRuntime, LinkArtGuest, ParserGuest}
<1>8. \A s \in DOMAIN ParserPrograms : ParserPrograms[s] \in S
  BY ParserProgramsAre
<1>9. \A x \in S : Len(x) \in Nat \ {0}
  BY <1>1, <1>2, <1>3, <1>4, <1>5, <1>6, <1>7, Zenon
<1> QED BY <1>8, <1>9

\* No script is empty.
LEMMA Lengths ==
  ASSUME NEW c \in DOMAIN Programs, NEW s \in DOMAIN Programs[c]
  PROVE Len(Programs[c][s]) \in Nat \ {0}
  BY GuestLengths, SuiteLengths, ServiceLengths, LinuxLengths,
     ParserLengths DEF Programs

-----------------------------------------------------------------------------
(* What a script is doing                                                  *)

(* The operation writes the file, removes it or puts one of that name into *)
(* the record.                                                             *)
Touches(o, f) ==
  \/ o.op \in Writes /\ o.out = f
  \/ o.op \in {"unlink", "retain"} /\ o.file = f
  \/ o.op = "draft" /\ o.name = f

(* The running script has executed its operation i, and none after it that *)
(* touches the file.                                                       *)
Done(i) == i \in 1..(run.pc - 1)
Since(i, f) == \A j \in (i + 1)..(run.pc - 1) : ~Touches(Program[j], f)

(* What holds of a running script and its files, whatever it is.           *)
Placed ==
  /\ chain \in DOMAIN Programs
  /\ disk = [f \in Files[chain] |-> disk[f]]
  /\ run # Idle =>
       /\ run = [script |-> run.script, pc |-> run.pc, rep |-> run.rep]
       /\ run.script \in DOMAIN Programs[chain]
       /\ Len(Program) \in Nat /\ run.pc \in 1..Len(Program)
       /\ run.rep = [kind |-> "report", commit |-> run.rep.commit,
                     dirty |-> run.rep.dirty, passed |-> run.rep.passed,
                     sources |-> run.rep.sources, files |-> run.rep.files]

(* One operation: what it does to the files and to the record.             *)
Moved ==
  /\ run'.script = run.script
  /\ run'.pc = run.pc + 1
  /\ UNCHANGED <<chain, commits, work>>
Kept == \A f \in Files[chain] : ~Touches(Op, f) => disk'[f] = disk[f]
Written ==
  /\ (/\ Op.op \in Writes /\ Op.out \in Files[chain]
      /\ Op.op = "compile" => run'.rep.passed)
       => disk'[Op.out] = Produced
  /\ Op.op = "unlink" /\ Op.file \in Files[chain] => disk'[Op.file] = Absent
Noted ==
  /\ run'.rep.commit = IF Op.op = "revision" THEN head ELSE run.rep.commit
  /\ run'.rep.dirty =
       IF Op.op = "status" THEN work # commits[head] ELSE run.rep.dirty
  /\ run'.rep.sources =
       IF Op.op = "record" THEN With(run.rep.sources, Op.key, work[Op.group])
       ELSE run.rep.sources
  /\ run'.rep.files =
       IF Op.op = "digest" THEN Over(Restricted(disk, Op.files), run.rep.files)
       ELSE IF Op.op = "draft" THEN With(run.rep.files, Op.name, Drafted)
       ELSE run.rep.files
Judged ==
  /\ Op.op = "check" => AllHold
  /\ Op.op \notin {"compile", "execute"} => run'.rep.passed = run.rep.passed
  /\ Op.op = "compile" => run'.rep.passed \in {run.rep.passed, FALSE}
  /\ Op.op = "execute" /\ run'.rep.passed => Restricted(disk, Op.files) \in passed'
  /\ passed \subseteq passed'

\* Every nonempty set of naturals has a least member.
LEMMA LeastNatural ==
  ASSUME NEW S \in SUBSET Nat, S # {}
  PROVE \E m \in S : \A n \in S : m <= n
<1> DEFINE below == {1..n : n \in S}
<1>1. below \subseteq FiniteSubsetsOf(Nat) /\ below # {}
  <2>1. ASSUME NEW n \in S PROVE 1..n \in FiniteSubsetsOf(Nat)
    <3>1. IsFiniteSet(1..n) /\ 1..n \subseteq Nat
      BY FS_Interval
    <3> QED BY <3>1 DEF FiniteSubsetsOf
  <2> QED BY <2>1
<1>2. PICK x \in below : \A y \in below : ~(<<y, x>> \in StrictSubsetOrdering(Nat))
  BY <1>1, FS_StrictSubsetOrderingWellFounded, WFMin
<1>3. PICK m \in S : x = 1..m
  BY <1>2
<1>4. ASSUME NEW n \in S, n < m PROVE FALSE
  <2>1. 1..n \in below /\ 1..n \subseteq 1..m /\ m \in 1..m /\ m \notin 1..n
    BY <1>4
  <2>2. 1..n # 1..m /\ 1..n \subseteq Nat /\ 1..m \subseteq Nat
    BY <2>1
  <2>3. <<1..n, 1..m>> \in StrictSubsetOrdering(Nat)
    BY <2>1, <2>2, Zenon DEF StrictSubsetOrdering
  <2> QED BY <2>1, <2>3, <1>2, <1>3
<1> QED BY <1>3, <1>4

\* Of conditions looked at in turn, each unless an earlier one fails, all hold.
LEMMA InTurn ==
  ASSUME NEW n \in Nat, NEW Good,
         \A i \in 1..n : (\A j \in 1..(i - 1) : j \in Good) => i \in Good
  PROVE 1..n \subseteq Good
<1> DEFINE bad == (1..n) \ Good
<1>1. ASSUME bad # {} PROVE FALSE
  <2>1. PICK m \in bad : \A i \in bad : m <= i
    BY <1>1, LeastNatural, bad \in SUBSET Nat
  <2>2. \A j \in 1..(m - 1) : j \in 1..n /\ ~(m <= j)
    BY <2>1
  <2>3. \A j \in 1..(m - 1) : j \in Good
    BY <2>1, <2>2
  <2> QED BY <2>1, <2>3
<1> QED BY <1>1

\* At first no script runs.
LEMMA PlacedFirst == ASSUME Init PROVE Placed
<1>1. chain \in DOMAIN Programs
  BY LimitsAssumption DEF Init, Programs
<1> QED BY <1>1 DEF Init, Placed

\* A script that advances is over or at its next operation.
LEMMA AdvanceFacts ==
  ASSUME Placed, run # Idle, NEW rep, Advance(rep)
  PROVE \/ run' = Idle
        \/ /\ run'.script = run.script /\ run'.pc = run.pc + 1
           /\ run'.rep = rep
           /\ run' = [script |-> run.script, pc |-> run.pc + 1, rep |-> rep]
           /\ run.pc + 1 \in 1..Len(Program)
<1>1. Len(Program) \in Nat /\ run.pc \in 1..Len(Program)
  BY DEF Placed
<1>2. CASE run.pc = Len(Program)
  BY <1>2 DEF Advance
<1>3. CASE run.pc # Len(Program)
  <2>1. run.pc + 1 \in 1..Len(Program)
    BY <1>1, <1>3
  <2>2. run' = [run EXCEPT !.pc = @ + 1, !.rep = rep]
    BY <1>3 DEF Advance
  <2>3. run = [script |-> run.script, pc |-> run.pc, rep |-> run.rep]
    BY DEF Placed
  <2> QED BY <2>1, <2>2, <2>3
<1> QED BY <1>2, <1>3

\* A step of a script keeps the shapes of run and disk.
LEMMA AdvancePlaced ==
  ASSUME Placed, run # Idle, NEW rep, Advance(rep), chain' = chain,
         disk' = [f \in Files[chain] |-> disk'[f]],
         rep = [kind |-> "report", commit |-> rep.commit, dirty |-> rep.dirty,
                passed |-> rep.passed, sources |-> rep.sources, files |-> rep.files]
  PROVE Placed'
<1>1. CASE run' = Idle
  BY <1>1 DEF Placed
<1>2. CASE run' # Idle
  <2>1. /\ run'.script = run.script /\ run'.pc = run.pc + 1 /\ run'.rep = rep
        /\ run' = [script |-> run.script, pc |-> run.pc + 1, rep |-> rep]
        /\ run.pc + 1 \in 1..Len(Program)
    BY <1>2, AdvanceFacts
  <2>2. Program' = Program
    BY <2>1 DEF Program
  <2> QED BY <2>1, <2>2 DEF Placed
<1> QED BY <1>1, <1>2

\* What an observation leaves in the record.
LEMMA ObservedFacts ==
  ASSUME Placed, run # Idle, NEW rep, rep = Observed(run.rep),
         At({"revision", "status", "record", "digest", "draft"})
  PROVE /\ rep = [kind |-> "report", commit |-> rep.commit,
                  dirty |-> rep.dirty, passed |-> run.rep.passed,
                  sources |-> rep.sources, files |-> rep.files]
        /\ rep.commit = IF Op.op = "revision" THEN head ELSE run.rep.commit
        /\ rep.dirty = IF Op.op = "status" THEN work # commits[head] ELSE run.rep.dirty
        /\ rep.sources =
             IF Op.op = "record" THEN With(run.rep.sources, Op.key, work[Op.group])
             ELSE run.rep.sources
        /\ rep.files =
             IF Op.op = "digest" THEN Over(Restricted(disk, Op.files), run.rep.files)
             ELSE IF Op.op = "draft" THEN With(run.rep.files, Op.name, Drafted)
             ELSE run.rep.files
  BY DEF Placed, Observed, At

\* The kinds of steps.
LEMMA NextCases ==
  ASSUME Next
  PROVE \/ \E g \in Edited[chain] : Edit(g)
        \/ Commit \/ Restore
        \/ \E s \in DOMAIN Programs[chain] : Start(s)
        \/ Observe \/ Produce \/ CompileFails \/ Change
        \/ \E ok \in BOOLEAN : Run(ok)
        \/ Check \/ Refuse \/ Stop
  BY DEF Next

\* A step leaves everything placed.
LEMMA PlacedKept ==
  ASSUME Placed, Next PROVE Placed'
<1>1. ASSUME NEW g \in Edited[chain], Edit(g) PROVE Placed'
  BY <1>1 DEF Edit, Placed, Program
<1>2. CASE Commit \/ Restore
  BY <1>2 DEF Commit, Restore, Placed, Program
<1>3. ASSUME NEW s \in DOMAIN Programs[chain], Start(s) PROVE Placed'
  <2>1. /\ run'.script = s /\ run'.pc = 1 /\ run'.rep = NoRecord
        /\ UNCHANGED <<chain, disk>>
        /\ run' = [script |-> s, pc |-> 1, rep |-> NoRecord]
    BY <1>3 DEF Start
  <2>2. Len(Programs[chain][s]) \in Nat \ {0}
    BY Lengths DEF Placed
  <2>3. Program' = Programs[chain][s]
    BY <2>1 DEF Program
  <2>4. Len(Program') \in Nat /\ run'.pc \in 1..Len(Program')
    BY <2>1, <2>2, <2>3
  <2> QED BY <2>1, <2>4 DEF Placed, NoRecord
<1>4. CASE Observe
  <2>1. run # Idle /\ Advance(Observed(run.rep)) /\ UNCHANGED <<chain, disk>>
    BY <1>4 DEF Observe, At
  <2>2. disk' = [f \in Files[chain] |-> disk'[f]]
    BY <2>1 DEF Placed
  <2> QED BY <1>4, <2>1, <2>2, AdvancePlaced, ObservedFacts DEF Observe
<1>5. CASE Produce \/ Change
  <2>1. run # Idle /\ Advance(run.rep) /\ chain' = chain
    BY <1>5 DEF Produce, Change, At
  <2>2. disk' = [f \in Files[chain] |-> disk'[f]]
    BY <1>5 DEF Produce, Change, Placed
  <2> QED BY <2>1, <2>2, AdvancePlaced DEF Placed
<1>6. CASE CompileFails \/ \E ok \in BOOLEAN : Run(ok)
  <2>1. PICK ok : /\ run # Idle /\ Advance([run.rep EXCEPT !.passed = ok])
                  /\ UNCHANGED <<chain, disk>>
    BY <1>6 DEF CompileFails, Run, At
  <2>2. disk' = [f \in Files[chain] |-> disk'[f]]
    BY <2>1 DEF Placed
  <2> QED BY <2>1, <2>2, AdvancePlaced DEF Placed
<1>7. CASE Check
  <2>1. run # Idle /\ Advance(run.rep) /\ UNCHANGED <<chain, disk>>
    BY <1>7 DEF Check, At
  <2>2. disk' = [f \in Files[chain] |-> disk'[f]]
    BY <2>1 DEF Placed
  <2> QED BY <2>1, <2>2, AdvancePlaced DEF Placed
<1>8. CASE Refuse
  BY <1>8 DEF Refuse, Placed
<1>9. CASE Stop
  <2>1. disk' = [f \in Files[chain] |-> disk'[f]] /\ run' = Idle /\ chain' = chain
    BY <1>9 DEF Stop, Placed
  <2> QED BY <2>1 DEF Placed
<1> QED BY <1>1, <1>2, <1>3, <1>4, <1>5, <1>6, <1>7, <1>8, <1>9, NextCases

\* While a script runs, a step is the developer's or its next operation,
\* whose effects are these.
LEMMA Running ==
  ASSUME Placed, Next, run # Idle, run' # Idle
  PROVE \/ /\ UNCHANGED <<chain, disk, run, passed>>
           /\ Commit \/ Restore \/ \E g \in Edited[chain] : Edit(g)
        \/ Moved /\ Kept /\ Written /\ Noted /\ Judged
<1>1. ASSUME NEW g \in Edited[chain], Edit(g)
      PROVE UNCHANGED <<chain, disk, run, passed>>
  BY <1>1 DEF Edit
<1>2. ~Refuse /\ ~Stop /\ \A s : ~Start(s)
  BY DEF Refuse, Stop, Start
<1>3. Commit \/ Restore => UNCHANGED <<chain, disk, run, passed>>
  BY DEF Commit, Restore
<1>4. CASE Observe
  <2>1. At({"revision", "status", "record", "digest", "draft"})
        /\ Advance(Observed(run.rep)) /\ UNCHANGED <<chain, commits, work, disk, passed>>
    BY <1>4 DEF Observe
  <2>2. Moved /\ run'.rep = Observed(run.rep)
    BY <2>1, AdvanceFacts DEF Moved
  <2>3. Noted /\ run'.rep.passed = run.rep.passed
    BY <2>1, <2>2, ObservedFacts DEF Noted, At
  <2>4. Kept /\ Written /\ Judged
    BY <2>1, <2>3 DEF Kept, Written, Judged, At, Writes
  <2> QED BY <2>2, <2>3, <2>4
<1>5. CASE Produce
  <2>1. At(Writes) /\ Advance(run.rep) /\ UNCHANGED <<chain, commits, work, passed>>
        /\ disk' = [disk EXCEPT ![Op.out] = Produced]
    BY <1>5 DEF Produce
  <2>2. Moved /\ run'.rep = run.rep
    BY <2>1, AdvanceFacts DEF Moved, At
  <2>3. Noted /\ Judged
    BY <2>1, <2>2 DEF Noted, Judged, At, Writes
  <2>4. Kept /\ Written
    BY <2>1, <2>3 DEF Kept, Written, At, Touches, Placed, Writes
  <2> QED BY <2>2, <2>3, <2>4
<1>6. CASE CompileFails
  <2>1. At({"compile"}) /\ Advance([run.rep EXCEPT !.passed = FALSE])
        /\ UNCHANGED <<chain, commits, work, disk, passed>>
    BY <1>6 DEF CompileFails
  <2>2. Moved /\ run'.rep = [run.rep EXCEPT !.passed = FALSE]
    BY <2>1, AdvanceFacts DEF Moved, At
  <2>3. Noted /\ Judged
    BY <2>1, <2>2 DEF Noted, Judged, At, Writes, Placed
  <2>4. Kept /\ Written
    BY <2>1, <2>2, <2>3 DEF Kept, Written, At, Writes, Placed
  <2> QED BY <2>2, <2>3, <2>4
<1>7. CASE Change
  <2>1. At({"unlink", "retain"}) /\ Advance(run.rep)
        /\ UNCHANGED <<chain, commits, work, passed>>
        /\ disk' = [disk EXCEPT ![Op.file] =
             IF Op.op = "unlink" THEN Absent
             ELSE [kind |-> "roots", many |-> disk[Op.file] # Absent]]
    BY <1>7 DEF Change
  <2>2. Moved /\ run'.rep = run.rep
    BY <2>1, AdvanceFacts DEF Moved, At
  <2>3. Noted /\ Judged
    BY <2>1, <2>2 DEF Noted, Judged, At
  <2>4. Kept /\ Written
    BY <2>1, <2>3 DEF Kept, Written, At, Touches, Placed, Writes
  <2> QED BY <2>2, <2>3, <2>4
<1>8. ASSUME NEW ok \in BOOLEAN, Run(ok) PROVE Moved /\ Kept /\ Written /\ Noted /\ Judged
  <2>1. At({"execute"}) /\ Advance([run.rep EXCEPT !.passed = ok])
        /\ UNCHANGED <<chain, commits, work, disk>>
        /\ passed' = IF ok THEN passed \union {Restricted(disk, Op.files)} ELSE passed
    BY <1>8 DEF Run
  <2>2. Moved /\ run'.rep = [run.rep EXCEPT !.passed = ok]
    BY <2>1, AdvanceFacts DEF Moved, At
  <2>3. Noted
    BY <2>1, <2>2 DEF Noted, At, Placed
  <2>5. Judged
    BY <2>1, <2>2 DEF Judged, At, Placed
  <2>4. Kept /\ Written
    BY <2>1, <2>3 DEF Kept, Written, At, Writes
  <2> QED BY <2>2, <2>3, <2>4, <2>5
<1>9. CASE Check
  <2>1. At({"check"}) /\ AllHold /\ Advance(run.rep)
        /\ UNCHANGED <<chain, commits, work, disk, passed>>
    BY <1>9 DEF Check
  <2>2. Moved /\ run'.rep = run.rep
    BY <2>1, AdvanceFacts DEF Moved, At
  <2>3. Noted /\ Judged
    BY <2>1, <2>2 DEF Noted, Judged, At
  <2>4. Kept /\ Written
    BY <2>1, <2>3 DEF Kept, Written, At, Writes
  <2> QED BY <2>2, <2>3, <2>4
<1> QED BY <1>1, <1>2, <1>3, <1>4, <1>5, <1>6, <1>7, <1>8, <1>9, NextCases

-----------------------------------------------------------------------------
(* What a script knows about the files and its record from the operations  *)
(* it has executed, as long as nothing touched the files since.            *)

(* What a check reads, of the checks that only read files and the record's *)
(* commit.                                                                 *)
Lasting == {"require", "verify", "verify as", "equal", "same", "wraps"}
Reads(c) ==
  CASE c.check = "require" -> {c.report}
    [] c.check = "verify" -> c.files \union {c.report}
    [] c.check = "verify as" -> {c.file, c.report}
    [] c.check \in {"equal", "same"} -> {c.one, c.other}
    [] c.check = "wraps" -> c.files \union c.elfs

(* What the record says of a file is what the file is.                     *)
Digested ==
  \A i, f :
    (/\ Done(i) /\ Program[i].op = "digest" /\ f \in Program[i].files
     /\ f \in Files[chain] /\ Since(i, f))
      => f \in DOMAIN run.rep.files /\ run.rep.files[f] = disk[f]

(* The record says nothing of other files.                                 *)
Listed ==
  \A f \in DOMAIN run.rep.files :
    \E i : /\ Done(i)
           /\ \/ Program[i].op = "digest" /\ f \in Program[i].files
              \/ Program[i].op = "draft" /\ f = Program[i].name

(* A file that was made was made from the files that are there.            *)
MadeOf(i) ==
  LET out == Program[i].out
      ins == Program[i].ins
  IN /\ disk[out] = [kind |-> "built", from |-> disk[out].from, of |-> disk[out].of]
     /\ disk[out].of = [x \in ins |-> disk[out].of[x]]
     /\ \A x \in ins : (x \in Files[chain] /\ x # out /\ Since(i, x))
                          => disk[out].of[x] = disk[x]
Compiled(i) ==
  Program[i].op = "compile" =>
    run.rep.passed /\ \A j \in (i + 1)..(run.pc - 1) : Program[j].op # "execute"
Made ==
  \A i :
    (/\ Done(i) /\ Program[i].op \in {"make", "held", "once", "compile"} /\ Compiled(i)
     /\ Program[i].out \in Files[chain] /\ Since(i, Program[i].out))
      => MadeOf(i)

Copied ==
  \A i :
    (/\ Done(i) /\ Program[i].op = "copy" /\ Program[i].from # Program[i].out
     /\ {Program[i].from, Program[i].out} \subseteq Files[chain]
     /\ Since(i, Program[i].from) /\ Since(i, Program[i].out))
      => disk[Program[i].out] = disk[Program[i].from]

Removed ==
  \A i :
    (/\ Done(i) /\ Program[i].op = "unlink" /\ Program[i].file \in Files[chain]
     /\ Since(i, Program[i].file))
      => disk[Program[i].file] = Absent

Checked ==
  \A i, k :
    (/\ Done(i) /\ Program[i].op = "check" /\ k \in DOMAIN Program[i].all
     /\ \E n \in Nat : DOMAIN Program[i].all = 1..n
     /\ Program[i].all[k].check \in Lasting
     /\ Reads(Program[i].all[k]) \subseteq Files[chain]
     /\ \A f \in Reads(Program[i].all[k]) : Since(i, f)
     /\ Program[i].all[k].check = "require" =>
          \A j \in (i + 1)..(run.pc - 1) : Program[j].op # "revision")
      => Holds(Program[i].all[k])

(* The last execution is of the files that are there.                      *)
Executed ==
  \A i :
    (/\ Done(i) /\ Program[i].op = "execute" /\ run.rep.passed
     /\ Program[i].files \subseteq Files[chain]
     /\ \A f \in Program[i].files : Since(i, f)
     /\ \A j \in (i + 1)..(run.pc - 1) : Program[j].op # "execute")
      => Restricted(disk, Program[i].files) \in passed

Knows ==
  run # Idle =>
    /\ Digested /\ Listed /\ Made /\ Copied /\ Removed /\ Checked /\ Executed

\* A check that held goes on to hold as long as what it reads stays.
LEMMA HoldsKept ==
  ASSUME NEW c, c.check \in Lasting, Holds(c),
         \A f \in Reads(c) : disk'[f] = disk[f],
         c.check = "require" => run'.rep.commit = run.rep.commit
  PROVE Holds(c)'
<1>1. CASE c.check = "require"
  BY <1>1 DEF Holds, Reads, Has, Whole, Sources
<1>2. CASE c.check = "verify"
  BY <1>2 DEF Holds, Reads, Lists, Whole
<1>3. CASE c.check = "verify as"
  BY <1>3 DEF Holds, Reads, Lists, Whole
<1>4. CASE c.check = "equal"
  BY <1>4 DEF Holds, Reads, Lists, Whole
<1>5. CASE c.check = "same"
  BY <1>5 DEF Holds, Reads, Lists, Whole
<1>6. CASE c.check = "wraps"
  <2>1. \A f \in c.files : disk'[f] = disk[f]
    BY <1>6 DEF Reads
  <2>2. Restricted(disk, c.elfs)' = Restricted(disk, c.elfs)
    BY <1>6 DEF Reads, Restricted
  <2>3. Holds(c)' <=> \A f \in c.files : Whole(f)' /\ disk'[f].of = Restricted(disk, c.elfs)'
    BY <1>6 DEF Holds
  <2>4. \A f \in c.files : Whole(f) /\ disk[f].of = Restricted(disk, c.elfs)
    BY <1>6 DEF Holds
  <2> HIDE <1>6
  <2> QED BY <2>1, <2>2, <2>3, <2>4 DEF Whole
<1> QED BY <1>1, <1>2, <1>3, <1>4, <1>5, <1>6 DEF Lasting

\* What a step adds to what a script has executed.
LEMMA MovedSince ==
  ASSUME Placed, run # Idle, Moved
  PROVE /\ Program' = Program /\ Files[chain]' = Files[chain]
        /\ Program[run.pc] = Op
        /\ \A i : Done(i)' <=> (Done(i) \/ i = run.pc)
        /\ \A i, f : Done(i) /\ Since(i, f)' => Since(i, f) /\ ~Touches(Op, f)
<1>1. Program' = Program /\ Files[chain]' = Files[chain]
  BY DEF Moved, Program
<1>2. run.pc \in Nat \ {0} /\ run'.pc = run.pc + 1
  BY DEF Placed, Moved
<1>3. \A i : Done(i)' <=> (Done(i) \/ i = run.pc)
  BY <1>2 DEF Done
<1>4. ASSUME NEW i, NEW f, Done(i), Since(i, f)' PROVE Since(i, f) /\ ~Touches(Op, f)
  <2>1. (i + 1)..(run.pc - 1) \subseteq (i + 1)..(run'.pc - 1)
        /\ run.pc \in (i + 1)..(run'.pc - 1)
    BY <1>2, <1>4 DEF Done
  <2> QED BY <1>1, <1>4, <2>1 DEF Since, Op
<1> QED BY <1>1, <1>3, <1>4 DEF Op

\* Where a gate lets a script pass, each of its checks holds.
LEMMA AllHoldMeans ==
  ASSUME AllHold, NEW n \in Nat, DOMAIN Op.all = 1..n, NEW k \in 1..n
  PROVE Holds(Op.all[k])
<1> DEFINE Good == {i \in 1..n : Holds(Op.all[i])}
<1>1. \A i \in 1..n : (\A j \in 1..(i - 1) : j \in Good) => i \in Good
  BY DEF AllHold
<1> HIDE DEF Good
<1>2. 1..n \subseteq Good
  BY <1>1, InTurn
<1> QED BY <1>2 DEF Good

\* A step that leaves the scripts and the files alone leaves what is known.
LEMMA KnowsStill ==
  ASSUME Knows, UNCHANGED <<chain, disk, run, passed>>
  PROVE Knows'
<1> SUFFICES ASSUME run # Idle
             PROVE /\ Digested' /\ Listed' /\ Made' /\ Copied' /\ Removed'
                   /\ Checked' /\ Executed'
  BY DEF Knows
<1>1. Digested /\ Listed /\ Made /\ Copied /\ Removed /\ Checked /\ Executed
  BY DEF Knows
<1>2. Program' = Program /\ Files[chain]' = Files[chain]
      /\ (\A i : Done(i)' <=> Done(i)) /\ (\A i, f : Since(i, f)' <=> Since(i, f))
  BY DEF Program, Done, Since
<1>3. \A c : c.check \in Lasting /\ Holds(c) => Holds(c)'
  BY HoldsKept
<1>4. Digested' /\ Listed'
  BY <1>1, <1>2 DEF Digested, Listed
<1>5. Made'
  BY <1>1, <1>2 DEF Made, MadeOf, Compiled
<1>6. Copied' /\ Removed'
  BY <1>1, <1>2 DEF Copied, Removed
<1>7. Checked'
  BY <1>1, <1>2, <1>3 DEF Checked
<1>8. Executed'
  BY <1>1, <1>2 DEF Executed, Restricted
<1> QED BY <1>4, <1>5, <1>6, <1>7, <1>8

\* Every step keeps what a running script knows.
LEMMA KnowsKept ==
  ASSUME Placed, Knows, Next PROVE Knows'
<1> SUFFICES ASSUME run' # Idle
             PROVE /\ Digested' /\ Listed' /\ Made' /\ Copied' /\ Removed'
                   /\ Checked' /\ Executed'
  BY DEF Knows
<1>a. CASE run = Idle
  <2>1. Commit \/ Restore \/ (\E g \in Edited[chain] : Edit(g))
        \/ \E s \in DOMAIN Programs[chain] : Start(s)
    BY <1>a, NextCases DEF Observe, Produce, CompileFails, Change, Run, Check,
         Refuse, Stop, At
  <2>2. run'.pc = 1 /\ run'.rep = NoRecord
    BY <1>a, <2>1 DEF Commit, Restore, Edit, Start
  <2>3. \A i : ~Done(i)'
    BY <2>2 DEF Done
  <2>4. DOMAIN run'.rep.files = {}
    BY <2>2 DEF NoRecord
  <2> QED BY <2>3, <2>4 DEF Digested, Listed, Made, Copied, Removed, Checked, Executed
<1>b. CASE UNCHANGED <<chain, disk, run, passed>>
  BY <1>b, KnowsStill DEF Knows
<1>c. CASE run # Idle /\ Moved /\ Kept /\ Written /\ Noted /\ Judged
  <2>1. Digested /\ Listed /\ Made /\ Copied /\ Removed /\ Checked /\ Executed
    BY <1>c DEF Knows
  <2>2. /\ Program' = Program /\ Files[chain]' = Files[chain]
        /\ Program[run.pc] = Op
        /\ \A i : Done(i)' <=> (Done(i) \/ i = run.pc)
        /\ \A i, f : Done(i) /\ Since(i, f)' => Since(i, f) /\ ~Touches(Op, f)
    BY <1>c, MovedSince
  <2>3. \A i, f : (Done(i) /\ Since(i, f)' /\ f \in Files[chain])
                   => Since(i, f) /\ disk'[f] = disk[f]
    BY <1>c, <2>2 DEF Kept
  <2>4. Digested'
    <3> SUFFICES ASSUME NEW i, NEW f, Done(i)', Program[i].op = "digest",
                        f \in Program[i].files, f \in Files[chain], Since(i, f)'
                 PROVE f \in DOMAIN run'.rep.files /\ run'.rep.files[f] = disk'[f]
      BY <2>2 DEF Digested
    <3>1. CASE i = run.pc
      <4>1. Op.op = "digest" /\ f \in Op.files /\ disk'[f] = disk[f]
        BY <3>1, <1>c, <2>2 DEF Kept, Touches, Writes
      <4>2. run'.rep.files = Over(Restricted(disk, Op.files), run.rep.files)
        BY <4>1, <1>c DEF Noted
      <4> QED BY <4>1, <4>2 DEF Over, Restricted
    <3>2. CASE Done(i)
      <4>1. f \in DOMAIN run.rep.files /\ run.rep.files[f] = disk[f] /\ disk'[f] = disk[f]
            /\ ~Touches(Op, f)
        BY <3>2, <2>1, <2>2, <2>3 DEF Digested
      <4>2. CASE Op.op = "digest"
        BY <4>1, <4>2, <1>c DEF Noted, Over, Restricted
      <4>3. CASE Op.op = "draft"
        BY <4>1, <4>3, <1>c DEF Noted, Over, With, Touches
      <4>4. CASE Op.op \notin {"digest", "draft"}
        BY <4>1, <4>4, <1>c DEF Noted
      <4> QED BY <4>2, <4>3, <4>4
    <3> QED BY <3>1, <3>2, <2>2
  <2>5. Listed'
    <3> SUFFICES ASSUME NEW f \in DOMAIN run'.rep.files
                 PROVE \E i : /\ Done(i) \/ i = run.pc
                              /\ \/ Program[i].op = "digest" /\ f \in Program[i].files
                                 \/ Program[i].op = "draft" /\ f = Program[i].name
      BY <2>2 DEF Listed
    <3>1. CASE f \in DOMAIN run.rep.files
      BY <3>1, <2>1 DEF Listed
    <3>2. CASE f \notin DOMAIN run.rep.files
      <4>1. \/ Op.op = "digest" /\ f \in Op.files
            \/ Op.op = "draft" /\ f = Op.name
        BY <3>2, <1>c DEF Noted, Over, With, Restricted
      <4> QED BY <4>1, <2>2
    <3> QED BY <3>1, <3>2
  <2>6. Made'
    <3> SUFFICES ASSUME NEW i, Done(i)', Compiled(i)',
                        Program[i].op \in {"make", "held", "once", "compile"},
                        Program[i].out \in Files[chain], Since(i, Program[i].out)'
                 PROVE MadeOf(i)'
      BY <2>2 DEF Made
    <3>1. CASE i = run.pc
      <4>1. disk'[Op.out] = Produced
        BY <3>1, <1>c, <2>2 DEF Written, Writes, Compiled
      <4>2. \E from : Produced = Built(from, Restricted(disk, Op.ins))
        BY <3>1, <2>2 DEF Produced
      <4>3. \A x \in Op.ins : x \in Files[chain] /\ x # Op.out => disk'[x] = disk[x]
        BY <3>1, <1>c, <2>2 DEF Kept, Touches, Writes
      <4>4. PICK from : disk'[Op.out] = Built(from, Restricted(disk, Op.ins))
        BY <4>1, <4>2
      <4>5. /\ disk'[Op.out].kind = "built" /\ disk'[Op.out].from = from
            /\ disk'[Op.out] = [kind |-> "built", from |-> from, of |-> disk'[Op.out].of]
            /\ disk'[Op.out].of = [x \in Op.ins |-> disk[x]]
        BY <4>4 DEF Built, Restricted
      <4> QED BY <3>1, <2>2, <4>3, <4>5 DEF MadeOf
    <3>2. CASE Done(i)
      <4>0. Compiled(i)
        <5>1. run.pc \in (i + 1)..(run'.pc - 1)
              /\ (i + 1)..(run.pc - 1) \subseteq (i + 1)..(run'.pc - 1)
          BY <3>2, <1>c DEF Moved, Placed, Done
        <5> QED BY <5>1, <1>c, <2>2 DEF Compiled, Judged
      <4>1. MadeOf(i) /\ disk'[Program[i].out] = disk[Program[i].out]
        BY <3>2, <4>0, <2>1, <2>2, <2>3 DEF Made
      <4>2. Program'[i] = Program[i]
        BY <3>2, <2>2
      <4>3. \A x : (x \in Files[chain] /\ Since(i, x)') => Since(i, x) /\ disk'[x] = disk[x]
        BY <3>2, <2>3
      <4> HIDE DEF Since, Done
      <4> QED BY <4>1, <4>2, <4>3, <2>2 DEF MadeOf
    <3> QED BY <3>1, <3>2, <2>2
  <2>7. Copied'
    <3> SUFFICES ASSUME NEW i, Done(i)', Program[i].op = "copy",
                        Program[i].from # Program[i].out,
                        {Program[i].from, Program[i].out} \subseteq Files[chain],
                        Since(i, Program[i].from)', Since(i, Program[i].out)'
                 PROVE disk'[Program[i].out] = disk'[Program[i].from]
      BY <2>2 DEF Copied
    <3>1. CASE i = run.pc
      <4>1. disk'[Op.out] = disk[Op.from]
        BY <3>1, <1>c, <2>2 DEF Written, Writes, Produced
      <4>2. disk'[Op.from] = disk[Op.from]
        BY <3>1, <1>c, <2>2 DEF Kept, Touches, Writes
      <4> QED BY <3>1, <2>2, <4>1, <4>2
    <3>2. CASE Done(i)
      BY <3>2, <2>1, <2>2, <2>3 DEF Copied
    <3> QED BY <3>1, <3>2, <2>2
  <2>8. Removed'
    <3> SUFFICES ASSUME NEW i, Done(i)', Program[i].op = "unlink",
                        Program[i].file \in Files[chain], Since(i, Program[i].file)'
                 PROVE disk'[Program[i].file] = Absent
      BY <2>2 DEF Removed
    <3>1. CASE i = run.pc
      BY <3>1, <1>c, <2>2 DEF Written
    <3>2. CASE Done(i)
      BY <3>2, <2>1, <2>2, <2>3 DEF Removed
    <3> QED BY <3>1, <3>2, <2>2
  <2>9. Checked'
    <3> SUFFICES ASSUME NEW i, NEW k, NEW c, Done(i)', Program[i].op = "check",
                        k \in DOMAIN Program[i].all, c = Program[i].all[k],
                        \E n \in Nat : DOMAIN Program[i].all = 1..n,
                        c.check \in Lasting, Reads(c) \subseteq Files[chain],
                        \A f \in Reads(c) : Since(i, f)',
                        c.check = "require" =>
                          \A j \in (i + 1)..(run'.pc - 1) : Program[j].op # "revision"
                 PROVE Holds(c)'
      BY <2>2 DEF Checked
    <3>1. CASE i = run.pc
      <4>1. Op.op = "check" /\ AllHold
        BY <3>1, <1>c, <2>2 DEF Judged
      <4>2. Holds(c)
        BY <4>1, <3>1, <2>2, AllHoldMeans
      <4>3. \A f \in Reads(c) : disk'[f] = disk[f]
        BY <4>1, <1>c DEF Kept, Touches, Writes
      <4>4. run'.rep.commit = run.rep.commit
        BY <4>1, <1>c DEF Noted
      <4> QED BY <4>2, <4>3, <4>4, HoldsKept
    <3>2. CASE Done(i)
      <4>0. run.pc \in (i + 1)..(run'.pc - 1)
            /\ (i + 1)..(run.pc - 1) \subseteq (i + 1)..(run'.pc - 1)
        BY <3>2, <1>c DEF Moved, Placed, Done
      <4>1. c.check = "require" =>
              /\ Op.op # "revision"
              /\ \A j \in (i + 1)..(run.pc - 1) : Program[j].op # "revision"
        BY <4>0, <2>2
      <4>2. \A f \in Reads(c) : Since(i, f) /\ disk'[f] = disk[f]
        BY <3>2, <2>3
      <4>3. Holds(c)
        BY <3>2, <4>1, <4>2, <2>1 DEF Checked
      <4>4. c.check = "require" => run'.rep.commit = run.rep.commit
        BY <4>1, <1>c DEF Noted
      <4> QED BY <4>2, <4>3, <4>4, HoldsKept
    <3> QED BY <3>1, <3>2, <2>2
  <2>10. Executed'
    <3> SUFFICES ASSUME NEW i, Done(i)', Program[i].op = "execute", run'.rep.passed,
                        Program[i].files \subseteq Files[chain],
                        \A f \in Program[i].files : Since(i, f)',
                        \A j \in (i + 1)..(run'.pc - 1) : Program[j].op # "execute"
                 PROVE Restricted(disk', Program[i].files) \in passed'
      BY <2>2 DEF Executed, Restricted
    <3>1. CASE i = run.pc
      <4>1. Op.op = "execute" /\ \A f \in Op.files : disk'[f] = disk[f]
        BY <3>1, <1>c, <2>2 DEF Kept, Touches, Writes
      <4>2. Restricted(disk', Op.files) = Restricted(disk, Op.files)
        BY <4>1 DEF Restricted
      <4> QED BY <4>1, <4>2, <3>1, <1>c, <2>2 DEF Judged
    <3>2. CASE Done(i)
      <4>0. run.pc \in (i + 1)..(run'.pc - 1)
            /\ (i + 1)..(run.pc - 1) \subseteq (i + 1)..(run'.pc - 1)
        BY <3>2, <1>c DEF Moved, Placed, Done
      <4>1. Op.op # "execute" /\ \A j \in (i + 1)..(run.pc - 1) : Program[j].op # "execute"
        BY <4>0, <2>2
      <4>2. \A f \in Program[i].files : Since(i, f) /\ disk'[f] = disk[f]
        BY <3>2, <2>3
      <4>3. Restricted(disk', Program[i].files) = Restricted(disk, Program[i].files)
        BY <4>2 DEF Restricted
      <4>4. run.rep.passed
        BY <4>1, <1>c DEF Judged
      <4>5. Restricted(disk, Program[i].files) \in passed
        BY <3>2, <4>1, <4>2, <4>4, <2>1 DEF Executed
      <4> QED BY <4>3, <4>5, <1>c DEF Judged
    <3> QED BY <3>1, <3>2, <2>2
  <2> QED BY <2>4, <2>5, <2>6, <2>7, <2>8, <2>9, <2>10
<1> QED BY <1>a, <1>b, <1>c, Running

\* Every script, at every moment, knows what it has learnt.
THEOREM ScriptsKnow == Spec => [](Placed /\ Knows)
<1>1. Init => Placed /\ Knows
  BY PlacedFirst DEF Init, Knows
<1>2. Placed /\ Knows /\ [Next]_vars => (Placed /\ Knows)'
  <2>1. ASSUME Placed, Knows, UNCHANGED vars PROVE Placed' /\ Knows'
    BY <2>1, KnowsStill DEF vars, Placed, Program
  <2> QED BY <2>1, PlacedKept, KnowsKept
<1> QED BY <1>1, <1>2, PTL DEF Spec
-----------------------------------------------------------------------------
(* The same, one operation at a time.  Of a file that no operation after   *)
(* the running script's i-th touches:                                      *)
Still(i, f) == Done(i) /\ f \in Files[chain] /\ Since(i, f)

\* The record has the digest of the file.
LEMMA KnowDigest ==
  ASSUME Knows, run # Idle, NEW i, NEW S, Program[i] = Digest(S),
         NEW f \in S, Still(i, f)
  PROVE f \in DOMAIN run.rep.files /\ run.rep.files[f] = disk[f]
<1>1. Digested
  BY DEF Knows
<1>2. Program[i].op = "digest" /\ Program[i].files = S
  BY DEF Digest
<1> QED BY <1>1, <1>2 DEF Digested, Still

\* It was made from the files that are there.
LEMMA KnowMade ==
  ASSUME Knows, run # Idle, NEW i, Compiled(i), Still(i, Program[i].out),
         Program[i].op \in {"make", "held", "once", "compile"}
  PROVE MadeOf(i)
  BY DEF Knows, Made, Still

\* What make, held, once or compile wrote was made from what is there.
LEMMA KnowMake ==
  ASSUME Knows, run # Idle, NEW i, NEW out, NEW groups, NEW ins,
         Program[i] = Make(out, groups, ins), Still(i, out)
  PROVE /\ Whole(out) /\ disk[out].kind = "built"
        /\ \A x \in ins : (x # out /\ Still(i, x)) => disk[out].of[x] = disk[x]
        /\ (\A x \in ins : x # out /\ Still(i, x)) => disk[out].of = Restricted(disk, ins)
<1>1. Program[i].op = "make" /\ Program[i].out = out /\ Program[i].ins = ins
  BY DEF Make
<1>2. MadeOf(i)
  BY <1>1, KnowMade DEF Compiled
<1> QED BY <1>1, <1>2 DEF MadeOf, Still, Restricted, Whole

\* The same of held.
LEMMA KnowHeld ==
  ASSUME Knows, run # Idle, NEW i, NEW out, NEW groups, NEW ins,
         Program[i] = Held(out, groups, ins), Still(i, out)
  PROVE /\ Whole(out) /\ disk[out].kind = "built"
        /\ \A x \in ins : (x # out /\ Still(i, x)) => disk[out].of[x] = disk[x]
        /\ (\A x \in ins : x # out /\ Still(i, x)) => disk[out].of = Restricted(disk, ins)
<1>1. Program[i].op = "held" /\ Program[i].out = out /\ Program[i].ins = ins
  BY DEF Held
<1>2. MadeOf(i)
  BY <1>1, KnowMade DEF Compiled
<1> QED BY <1>1, <1>2 DEF MadeOf, Still, Restricted, Whole

\* The same of once.
LEMMA KnowOnce ==
  ASSUME Knows, run # Idle, NEW i, NEW out, NEW groups, NEW ins,
         Program[i] = Once(out, groups, ins), Still(i, out)
  PROVE /\ Whole(out) /\ disk[out].kind = "built"
        /\ \A x \in ins : (x # out /\ Still(i, x)) => disk[out].of[x] = disk[x]
        /\ (\A x \in ins : x # out /\ Still(i, x)) => disk[out].of = Restricted(disk, ins)
<1>1. Program[i].op = "once" /\ Program[i].out = out /\ Program[i].ins = ins
  BY DEF Once
<1>2. MadeOf(i)
  BY <1>1, KnowMade DEF Compiled
<1> QED BY <1>1, <1>2 DEF MadeOf, Still, Restricted, Whole

\* The same of compile, if all went well since.
LEMMA KnowCompile ==
  ASSUME Knows, run # Idle, NEW i, NEW out, NEW groups, NEW ins,
         Program[i] = Compile(out, groups, ins), Still(i, out),
         run.rep.passed, \A j \in (i + 1)..(run.pc - 1) : Program[j].op # "execute"
  PROVE /\ Whole(out) /\ disk[out].kind = "built"
        /\ \A x \in ins : (x # out /\ Still(i, x)) => disk[out].of[x] = disk[x]
        /\ (\A x \in ins : x # out /\ Still(i, x)) => disk[out].of = Restricted(disk, ins)
<1>1. Program[i].op = "compile" /\ Program[i].out = out /\ Program[i].ins = ins
  BY DEF Compile
<1>2. MadeOf(i)
  BY <1>1, KnowMade DEF Compiled
<1> QED BY <1>1, <1>2 DEF MadeOf, Still, Restricted, Whole

\* It is a copy.
LEMMA KnowCopy ==
  ASSUME Knows, run # Idle, NEW i, NEW from, NEW out, from # out,
         Program[i] = Copy(from, out), Still(i, from), Still(i, out)
  PROVE disk[out] = disk[from]
<1>1. Copied
  BY DEF Knows
<1>2. Program[i].op = "copy" /\ Program[i].from = from /\ Program[i].out = out
  BY DEF Copy
<1> QED BY <1>1, <1>2 DEF Copied, Still

\* It is absent.
LEMMA KnowUnlink ==
  ASSUME Knows, run # Idle, NEW i, NEW f, Program[i] = Unlink(f), Still(i, f)
  PROVE disk[f] = Absent
<1>1. Removed
  BY DEF Knows
<1>2. Program[i].op = "unlink" /\ Program[i].file = f
  BY DEF Unlink
<1> QED BY <1>1, <1>2 DEF Removed, Still

\* It was executed, if the record says passed.
LEMMA KnowExecute ==
  ASSUME Knows, run # Idle, NEW i, NEW S, Program[i] = Execute(S), Done(i),
         run.rep.passed, \A f \in S : Still(i, f),
         \A j \in (i + 1)..(run.pc - 1) : Program[j].op # "execute"
  PROVE Restricted(disk, S) \in passed
<1>1. Executed
  BY DEF Knows
<1>2. Program[i].op = "execute" /\ Program[i].files = S
  BY DEF Execute
<1>3. S \subseteq Files[chain] /\ \A f \in S : Since(i, f)
  BY DEF Still
<1> QED BY <1>1, <1>2, <1>3 DEF Executed

\* The gate's checks still hold.
Passes(i, c) ==
  /\ Done(i) /\ Program[i].op = "check"
  /\ \E n \in Nat : DOMAIN Program[i].all = 1..n
  /\ \E k \in DOMAIN Program[i].all : Program[i].all[k] = c

\* A check that passed still holds.
LEMMA KnowCheck ==
  ASSUME Knows, run # Idle, NEW i, NEW c, Passes(i, c), c.check \in Lasting,
         \A f \in Reads(c) : Still(i, f),
         c.check = "require" =>
           \A j \in (i + 1)..(run.pc - 1) : Program[j].op # "revision"
  PROVE Holds(c)
<1>1. Checked
  BY DEF Knows
<1>2. PICK k \in DOMAIN Program[i].all : Program[i].all[k] = c
  BY DEF Passes
<1>3. Reads(c) \subseteq Files[chain] /\ \A f \in Reads(c) : Since(i, f)
  BY DEF Still
<1> QED BY <1>1, <1>2, <1>3 DEF Checked, Passes

\* Verified files still are as their report says.
LEMMA KnowVerify ==
  ASSUME Knows, run # Idle, NEW i, NEW S, NEW r, Passes(i, Verify(S, r)),
         Still(i, r), \A f \in S : Still(i, f)
  PROVE \A f \in S : /\ Whole(r) /\ f \in DOMAIN disk[r].files
                     /\ disk[f] = disk[r].files[f]
<1> DEFINE c == Verify(S, r)
<1>1. c.check = "verify" /\ c.files = S /\ c.report = r
  BY DEF Verify
<1>2. Reads(c) = S \union {r}
  BY <1>1 DEF Reads
<1>3. Holds(c)
  <2> HIDE DEF c
  <2>1. Passes(i, c)
    BY DEF c
  <2> QED BY <2>1, <1>1, <1>2, KnowCheck DEF Lasting
<1> QED BY <1>1, <1>3 DEF Holds, Lists

\* Two reports still agree.
LEMMA KnowEqual ==
  ASSUME Knows, run # Idle, NEW i, NEW S, NEW one, NEW other,
         Passes(i, Equal(S, one, other)), Still(i, one), Still(i, other)
  PROVE \A f \in S : /\ Whole(one) /\ f \in DOMAIN disk[one].files
                     /\ Whole(other) /\ f \in DOMAIN disk[other].files
                     /\ disk[one].files[f] = disk[other].files[f]
<1> DEFINE c == Equal(S, one, other)
<1>1. c.check = "equal" /\ c.files = S /\ c.one = one /\ c.other = other
  BY DEF Equal
<1>2. Reads(c) = {one, other}
  BY <1>1 DEF Reads
<1>3. Holds(c)
  <2> HIDE DEF c
  <2>1. Passes(i, c)
    BY DEF c
  <2> QED BY <2>1, <1>1, <1>2, KnowCheck DEF Lasting
<1> QED BY <1>1, <1>3 DEF Holds, Lists

\* A report still has the qualities that were required.
LEMMA KnowRequire ==
  ASSUME Knows, run # Idle, NEW i, NEW r, NEW S, Passes(i, Require(r, S)), Still(i, r),
         \A j \in (i + 1)..(run.pc - 1) : Program[j].op # "revision"
  PROVE Whole(r) /\ \A q \in S : Has(r, q)
<1> DEFINE c == Require(r, S)
<1>1. c.check = "require" /\ c.what = S /\ c.report = r
  BY DEF Require
<1>2. Reads(c) = {r}
  BY <1>1 DEF Reads
<1>3. Holds(c)
  <2> HIDE DEF c
  <2>1. Passes(i, c)
    BY DEF c
  <2> QED BY <2>1, <1>1, <1>2, KnowCheck DEF Lasting
<1> QED BY <1>1, <1>3 DEF Holds

\* A signed file that was found to wrap the ELF files there still does.
LEMMA KnowWraps ==
  ASSUME Knows, run # Idle, NEW i, NEW S, NEW elfs, Passes(i, Wraps(S, elfs)),
         \A f \in S \union elfs : Still(i, f)
  PROVE \A f \in S : Whole(f) /\ disk[f].of = Restricted(disk, elfs)
<1> DEFINE c == Wraps(S, elfs)
<1>1. c.check = "wraps" /\ c.files = S /\ c.elfs = elfs
  BY DEF Wraps
<1>2. Reads(c) = S \union elfs
  BY <1>1 DEF Reads
<1>3. Holds(c)
  <2> HIDE DEF c
  <2>1. Passes(i, c)
    BY DEF c
  <2> QED BY <2>1, <1>1, <1>2, KnowCheck DEF Lasting
<1> QED BY <1>1, <1>3 DEF Holds

\* The reports agree on the digests of two files.
LEMMA KnowSame ==
  ASSUME Knows, run # Idle, NEW i, NEW one, NEW name, NEW other, NEW othername,
         Passes(i, Same(one, name, other, othername)), Still(i, one), Still(i, other)
  PROVE disk[one].files[name] = disk[other].files[othername]
<1> DEFINE c == Same(one, name, other, othername)
<1>1. /\ c.check = "same" /\ c.one = one /\ c.other = other
      /\ c.name = name /\ c.othername = othername
  BY DEF Same
<1>2. Reads(c) = {one, other}
  BY <1>1 DEF Reads
<1>3. Holds(c)
  <2> HIDE DEF c
  <2>1. Passes(i, c)
    BY DEF c
  <2> QED BY <2>1, <1>1, <1>2, KnowCheck DEF Lasting
<1> QED BY <1>1, <1>3 DEF Holds

-----------------------------------------------------------------------------
(* Which files the scripts write, and when they save their records.        *)

\* The files BuildBionic writes.
LEMMA BuildBionicOutputs ==
  {"bionic.gen", "bionic.o", "bionic.objs", "bionic.rep"}
    \subseteq Outputs(BuildBionic)
  BY BuildBionicIs DEF Outputs, Make, Save

\* The files BionicStartup writes.
LEMMA BionicStartupOutputs ==
  {"libc.ios", "libc.mac", "libc.rep", "libc.so"}
    \subseteq Outputs(BionicStartup)
  BY BionicStartupIs DEF Outputs, Make, Save

\* The files BuildArtRuntime writes.
LEMMA BuildArtRuntimeOutputs ==
  {"art.build", "art.gen", "art.o", "art.src", "art.units"}
    \subseteq Outputs(BuildArtRuntime)
  BY BuildArtRuntimeIs DEF Outputs, Compile, Make, Save

\* The files BuildArtNativeLibraries writes.
LEMMA BuildArtNativeLibrariesOutputs ==
  {"icu.build", "icu.client", "icu.o", "icu.src"}
    \subseteq Outputs(BuildArtNativeLibraries)
  BY BuildArtNativeLibrariesIs DEF Outputs, Compile, Make, Save

\* The files BuildArtLibcore writes.
LEMMA BuildArtLibcoreOutputs ==
  {"core.build", "core.client", "core.o", "core.src"}
    \subseteq Outputs(BuildArtLibcore)
  BY BuildArtLibcoreIs DEF Outputs, Compile, Make, Save

\* The files LinkArtGuest writes.
LEMMA LinkArtGuestOutputs ==
  {"art.ld", "art.link", "artlink.src", "libart.ios", "libart.mac",
   "libart.so"}
    \subseteq Outputs(LinkArtGuest)
  BY LinkArtGuestIs DEF Outputs, Make, Save

\* The files LinkIcuGuest writes.
LEMMA LinkIcuGuestOutputs ==
  {"icu.ld", "icu.link", "iculink.src", "libicu.ios", "libicu.mac",
   "libicu.so"}
    \subseteq Outputs(LinkIcuGuest)
  BY LinkIcuGuestIs DEF Outputs, Make, Save

\* The files LinkLibcoreGuest writes.
LEMMA LinkLibcoreGuestOutputs ==
  {"core.ld", "core.link", "corelink.src", "libcore.ios", "libcore.mac",
   "libcore.so"}
    \subseteq Outputs(LinkLibcoreGuest)
  BY LinkLibcoreGuestIs DEF Outputs, Make, Save

\* The files BuildArtClasslib writes.
LEMMA BuildArtClasslibOutputs ==
  {"dex.result", "dex.zip"}
    \subseteq Outputs(BuildArtClasslib)
  BY BuildArtClasslibIs DEF Outputs, Pack, Save

\* The files RuntimeGuest writes.
LEMMA RuntimeGuestOutputs ==
  {"root", "root.dex", "runtime.rep"}
    \subseteq Outputs(RuntimeGuest)
  BY RuntimeGuestIs DEF Outputs, Copy, Retain, Save

\* The files GuestIos writes.
LEMMA GuestIosOutputs ==
  {"app", "info", "ipa", "staged"}
    \subseteq Outputs(GuestIos)
  BY GuestIosIs DEF Outputs, Make, Save, Unlink

\* The files SuiteIos writes.
LEMMA SuiteIosOutputs ==
  {"app", "info", "ipa", "staged"}
    \subseteq Outputs(SuiteIos)
  BY SuiteIosIs DEF Outputs, Make, Save, Unlink

\* The files BinderAidl writes.
LEMMA BinderAidlOutputs ==
  {"aidl.gen", "aidl.rep"}
    \subseteq Outputs(BinderAidl)
  BY BinderAidlIs DEF Outputs, Once, Save, Unlink

\* The files Xsdc writes.
LEMMA XsdcOutputs ==
  {"xsd.gen", "xsd.rep", "xsd.src"}
    \subseteq Outputs(Xsdc)
  BY XsdcIs DEF Outputs, Held, Make, Save, Unlink

\* The files BuildBinder writes.
LEMMA BuildBinderOutputs ==
  {"binder.a", "binder.o", "binder.rep", "binder.src"}
    \subseteq Outputs(BuildBinder)
  BY BuildBinderIs DEF Outputs, Held, Make, Save, Unlink

\* The files BuildVintf writes.
LEMMA BuildVintfOutputs ==
  {"vintf.a", "vintf.o", "vintf.rep", "vintf.src"}
    \subseteq Outputs(BuildVintf)
  BY BuildVintfIs DEF Outputs, Held, Make, Save, Unlink

\* The files BuildServicemanager writes.
LEMMA BuildServicemanagerOutputs ==
  {"service.a", "service.o", "service.rep", "service.src"}
    \subseteq Outputs(BuildServicemanager)
  BY BuildServicemanagerIs DEF Outputs, Held, Make, Save, Unlink

\* The files BuildKernelConfig writes.
LEMMA BuildKernelConfigOutputs ==
  {"parser.o", "parser.ref", "parser.rep", "parser.src", "regex.o"}
    \subseteq Outputs(BuildKernelConfig)
  BY BuildKernelConfigIs DEF Outputs, Held, Make, Save, Unlink

\* The files ServiceGuest writes.
LEMMA ServiceGuestOutputs ==
  {"libservice.so", "service.guest", "service.ios", "service.mac", "svc.src"}
    \subseteq Outputs(ServiceGuest)
  BY ServiceGuestIs DEF Outputs, Make, Save

\* The files ServiceIos writes.
LEMMA ServiceIosOutputs ==
  {"app", "info", "ipa", "staged"}
    \subseteq Outputs(ServiceIos)
  BY ServiceIosIs DEF Outputs, Make, Save, Unlink

\* The files LinuxRuntime writes.
LEMMA LinuxRuntimeOutputs ==
  {"art.build", "art.gen", "art.harness", "art.o", "art.src", "art.units",
   "libart.so"}
    \subseteq Outputs(LinuxRuntime)
  BY LinuxRuntimeIs DEF Outputs, Compile, Make, Save

\* The files LinuxNative writes.
LEMMA LinuxNativeOutputs ==
  {"icu.build", "icu.harness", "icu.libart", "icu.o", "icu.src", "libicu.so"}
    \subseteq Outputs(LinuxNative)
  BY LinuxNativeIs DEF Outputs, Compile, Copy, Make, Save

\* The files LinuxLibcore writes.
LEMMA LinuxLibcoreOutputs ==
  {"core.build", "core.harness", "core.libart", "core.libicu", "core.o",
   "core.src", "libcore.so"}
    \subseteq Outputs(LinuxLibcore)
  BY LinuxLibcoreIs DEF Outputs, Compile, Copy, Make, Save

\* The files BuildManagedFixture writes.
LEMMA BuildManagedFixtureOutputs ==
  {"dex.result", "dex.zip"}
    \subseteq Outputs(BuildManagedFixture)
  BY BuildManagedFixtureIs DEF Outputs, Pack, Save

\* The files ArtStartup writes.
LEMMA ArtStartupOutputs ==
  {"start.rep"}
    \subseteq Outputs(ArtStartup)
  BY ArtStartupIs DEF Outputs, Save

\* The files ParserReference writes.
LEMMA ParserReferenceOutputs ==
  {"kcref.rep"}
    \subseteq Outputs(ParserReference)
  BY ParserReferenceIs DEF Outputs, Save

\* The files ParserGuest writes.
LEMMA ParserGuestOutputs ==
  {"kc.ios", "kc.mac", "kc.rep", "kc.src", "libkc.so"}
    \subseteq Outputs(ParserGuest)
  BY ParserGuestIs DEF Outputs, Make, Save

\* The files of the guest chain.
LEMMA GuestFiles ==
  {"app", "art.build", "art.gen", "art.ld", "art.link", "art.o", "art.src",
   "art.units", "artlink.src", "bionic.gen", "bionic.o", "bionic.objs",
   "bionic.rep", "core.build", "core.client", "core.ld", "core.link", "core.o",
   "core.src", "corelink.src", "dex.result", "dex.zip", "icu.build",
   "icu.client", "icu.ld", "icu.link", "icu.o", "icu.src", "iculink.src",
   "info", "ipa", "libart.ios", "libart.mac", "libart.so", "libc.ios",
   "libc.mac", "libc.rep", "libc.so", "libcore.ios", "libcore.mac",
   "libcore.so", "libicu.ios", "libicu.mac", "libicu.so", "root", "root.dex",
   "runtime.rep", "staged"}
    \subseteq Files["guest"]
<1>1. "guest" \in DOMAIN Programs /\ Programs["guest"] = GuestPrograms
  BY DEF Programs
<1>2. \A s \in DOMAIN GuestPrograms : Outputs(GuestPrograms[s]) \subseteq Files["guest"]
  BY <1>1 DEF Files
<1>3. Outputs(BuildBionic) \subseteq Files["guest"]
  BY <1>2, GuestProgramsAre
<1>4. Outputs(BionicStartup) \subseteq Files["guest"]
  BY <1>2, GuestProgramsAre
<1>5. Outputs(BuildArtRuntime) \subseteq Files["guest"]
  BY <1>2, GuestProgramsAre
<1>6. Outputs(BuildArtNativeLibraries) \subseteq Files["guest"]
  BY <1>2, GuestProgramsAre
<1>7. Outputs(BuildArtLibcore) \subseteq Files["guest"]
  BY <1>2, GuestProgramsAre
<1>8. Outputs(LinkArtGuest) \subseteq Files["guest"]
  BY <1>2, GuestProgramsAre
<1>9. Outputs(LinkIcuGuest) \subseteq Files["guest"]
  BY <1>2, GuestProgramsAre
<1>10. Outputs(LinkLibcoreGuest) \subseteq Files["guest"]
  BY <1>2, GuestProgramsAre
<1>11. Outputs(BuildArtClasslib) \subseteq Files["guest"]
  BY <1>2, GuestProgramsAre
<1>12. Outputs(RuntimeGuest) \subseteq Files["guest"]
  BY <1>2, GuestProgramsAre
<1>13. Outputs(GuestIos) \subseteq Files["guest"]
  BY <1>2, GuestProgramsAre
<1> QED BY <1>3, <1>4, <1>5, <1>6, <1>7, <1>8, <1>9, <1>10, <1>11, <1>12,
    <1>13, BuildBionicOutputs, BionicStartupOutputs, BuildArtRuntimeOutputs,
    BuildArtNativeLibrariesOutputs, BuildArtLibcoreOutputs,
    LinkArtGuestOutputs, LinkIcuGuestOutputs, LinkLibcoreGuestOutputs,
    BuildArtClasslibOutputs, RuntimeGuestOutputs, GuestIosOutputs

\* The files of the suite chain.
LEMMA SuiteFiles ==
  {"app", "bionic.gen", "bionic.o", "bionic.objs", "bionic.rep", "info", "ipa",
   "libc.ios", "libc.mac", "libc.rep", "libc.so", "staged"}
    \subseteq Files["suite"]
<1>1. "suite" \in DOMAIN Programs /\ Programs["suite"] = SuitePrograms
  BY DEF Programs
<1>2. \A s \in DOMAIN SuitePrograms : Outputs(SuitePrograms[s]) \subseteq Files["suite"]
  BY <1>1 DEF Files
<1>3. Outputs(BuildBionic) \subseteq Files["suite"]
  BY <1>2, SuiteProgramsAre
<1>4. Outputs(BionicStartup) \subseteq Files["suite"]
  BY <1>2, SuiteProgramsAre
<1>5. Outputs(SuiteIos) \subseteq Files["suite"]
  BY <1>2, SuiteProgramsAre
<1> QED BY <1>3, <1>4, <1>5, BuildBionicOutputs, BionicStartupOutputs,
    SuiteIosOutputs

\* The files of the service chain.
LEMMA ServiceFiles ==
  {"aidl.gen", "aidl.rep", "app", "binder.a", "binder.o", "binder.rep",
   "binder.src", "bionic.gen", "bionic.o", "bionic.objs", "bionic.rep", "info",
   "ipa", "libc.ios", "libc.mac", "libc.rep", "libc.so", "libservice.so",
   "parser.o", "parser.ref", "parser.rep", "parser.src", "regex.o",
   "service.a", "service.guest", "service.ios", "service.mac", "service.o",
   "service.rep", "service.src", "staged", "svc.src", "vintf.a", "vintf.o",
   "vintf.rep", "vintf.src", "xsd.gen", "xsd.rep", "xsd.src"}
    \subseteq Files["service"]
<1>1. "service" \in DOMAIN Programs /\ Programs["service"] = ServicePrograms
  BY DEF Programs
<1>2. \A s \in DOMAIN ServicePrograms : Outputs(ServicePrograms[s]) \subseteq Files["service"]
  BY <1>1 DEF Files
<1>3. Outputs(BuildBionic) \subseteq Files["service"]
  BY <1>2, ServiceProgramsAre
<1>4. Outputs(BionicStartup) \subseteq Files["service"]
  BY <1>2, ServiceProgramsAre
<1>5. Outputs(BinderAidl) \subseteq Files["service"]
  BY <1>2, ServiceProgramsAre
<1>6. Outputs(Xsdc) \subseteq Files["service"]
  BY <1>2, ServiceProgramsAre
<1>7. Outputs(BuildBinder) \subseteq Files["service"]
  BY <1>2, ServiceProgramsAre
<1>8. Outputs(BuildVintf) \subseteq Files["service"]
  BY <1>2, ServiceProgramsAre
<1>9. Outputs(BuildServicemanager) \subseteq Files["service"]
  BY <1>2, ServiceProgramsAre
<1>10. Outputs(BuildKernelConfig) \subseteq Files["service"]
  BY <1>2, ServiceProgramsAre
<1>11. Outputs(ServiceGuest) \subseteq Files["service"]
  BY <1>2, ServiceProgramsAre
<1>12. Outputs(ServiceIos) \subseteq Files["service"]
  BY <1>2, ServiceProgramsAre
<1> QED BY <1>3, <1>4, <1>5, <1>6, <1>7, <1>8, <1>9, <1>10, <1>11, <1>12,
    BuildBionicOutputs, BionicStartupOutputs, BinderAidlOutputs, XsdcOutputs,
    BuildBinderOutputs, BuildVintfOutputs, BuildServicemanagerOutputs,
    BuildKernelConfigOutputs, ServiceGuestOutputs, ServiceIosOutputs

\* The files of the linux chain.
LEMMA LinuxFiles ==
  {"art.build", "art.gen", "art.harness", "art.o", "art.src", "art.units",
   "core.build", "core.harness", "core.libart", "core.libicu", "core.o",
   "core.src", "dex.result", "dex.zip", "icu.build", "icu.harness",
   "icu.libart", "icu.o", "icu.src", "libart.so", "libcore.so", "libicu.so",
   "start.rep"}
    \subseteq Files["linux"]
<1>1. "linux" \in DOMAIN Programs /\ Programs["linux"] = LinuxPrograms
  BY DEF Programs
<1>2. \A s \in DOMAIN LinuxPrograms : Outputs(LinuxPrograms[s]) \subseteq Files["linux"]
  BY <1>1 DEF Files
<1>3. Outputs(LinuxRuntime) \subseteq Files["linux"]
  BY <1>2, LinuxProgramsAre
<1>4. Outputs(LinuxNative) \subseteq Files["linux"]
  BY <1>2, LinuxProgramsAre
<1>5. Outputs(LinuxLibcore) \subseteq Files["linux"]
  BY <1>2, LinuxProgramsAre
<1>6. Outputs(BuildManagedFixture) \subseteq Files["linux"]
  BY <1>2, LinuxProgramsAre
<1>7. Outputs(ArtStartup) \subseteq Files["linux"]
  BY <1>2, LinuxProgramsAre
<1> QED BY <1>3, <1>4, <1>5, <1>6, <1>7, LinuxRuntimeOutputs,
    LinuxNativeOutputs, LinuxLibcoreOutputs, BuildManagedFixtureOutputs,
    ArtStartupOutputs

\* The files of the parser chain.
LEMMA ParserFiles ==
  {"art.build", "art.gen", "art.ld", "art.link", "art.o", "art.src",
   "art.units", "artlink.src", "bionic.gen", "bionic.o", "bionic.objs",
   "bionic.rep", "kc.ios", "kc.mac", "kc.rep", "kc.src", "kcref.rep",
   "libart.ios", "libart.mac", "libart.so", "libc.ios", "libc.mac", "libc.rep",
   "libc.so", "libkc.so", "parser.o", "parser.ref", "parser.rep", "parser.src",
   "regex.o"}
    \subseteq Files["parser"]
<1>1. "parser" \in DOMAIN Programs /\ Programs["parser"] = ParserPrograms
  BY DEF Programs
<1>2. \A s \in DOMAIN ParserPrograms : Outputs(ParserPrograms[s]) \subseteq Files["parser"]
  BY <1>1 DEF Files
<1>3. Outputs(BuildKernelConfig) \subseteq Files["parser"]
  BY <1>2, ParserProgramsAre
<1>4. Outputs(ParserReference) \subseteq Files["parser"]
  BY <1>2, ParserProgramsAre
<1>5. Outputs(BuildBionic) \subseteq Files["parser"]
  BY <1>2, ParserProgramsAre
<1>6. Outputs(BionicStartup) \subseteq Files["parser"]
  BY <1>2, ParserProgramsAre
<1>7. Outputs(BuildArtRuntime) \subseteq Files["parser"]
  BY <1>2, ParserProgramsAre
<1>8. Outputs(LinkArtGuest) \subseteq Files["parser"]
  BY <1>2, ParserProgramsAre
<1>9. Outputs(ParserGuest) \subseteq Files["parser"]
  BY <1>2, ParserProgramsAre
<1> QED BY <1>3, <1>4, <1>5, <1>6, <1>7, <1>8, <1>9, BuildKernelConfigOutputs,
    ParserReferenceOutputs, BuildBionicOutputs, BionicStartupOutputs,
    BuildArtRuntimeOutputs, LinkArtGuestOutputs, ParserGuestOutputs

(* The operation writes the file, or adds to it.                           *)
Results(o, f) ==
  \/ o.op \in Writes /\ o.out = f
  \/ o.op = "retain" /\ o.file = f
Reports ==   {"aidl.rep", "art.build", "art.link", "binder.rep", "bionic.rep",
   "core.build", "core.link", "dex.result", "icu.build", "icu.link", "info",
   "kc.rep", "kcref.rep", "libc.rep", "parser.rep", "runtime.rep",
   "service.guest", "service.rep", "staged", "start.rep", "vintf.rep",
   "xsd.rep"}

\* The reports of BuildBionic.
LEMMA BuildBionicSaves ==
  \A f \in Reports, i \in DOMAIN BuildBionic : Results(BuildBionic[i], f) =>
    /\ BuildBionic[i].op = "save"
    /\ f = "bionic.rep" /\ i = 5
  BY BuildBionicIs DEF Reports, Results, Writes, Digest, Make, Save

\* The reports of BionicStartup.
LEMMA BionicStartupSaves ==
  \A f \in Reports, i \in DOMAIN BionicStartup : Results(BionicStartup[i], f)
     =>
    /\ BionicStartup[i].op = "save"
    /\ f = "libc.rep" /\ i = 9
  BY BionicStartupIs DEF Reports, Results, Writes, Digest, Execute, Gate, Make,
     Revision, Save

\* The reports of BuildArtRuntime.
LEMMA BuildArtRuntimeSaves ==
  \A f \in Reports, i \in DOMAIN BuildArtRuntime : Results(BuildArtRuntime[i],
     f) =>
    /\ BuildArtRuntime[i].op = "save"
    /\ f = "art.build" /\ i = 12
  BY BuildArtRuntimeIs DEF Reports, Results, Writes, Compile, Digest, Gate,
     Make, Record, Revision, Save

\* The reports of BuildArtNativeLibraries.
LEMMA BuildArtNativeLibrariesSaves ==
  \A f \in Reports, i \in DOMAIN BuildArtNativeLibraries :
     Results(BuildArtNativeLibraries[i], f) =>
    /\ BuildArtNativeLibraries[i].op = "save"
    /\ f = "icu.build" /\ i \in {7, 12}
  BY BuildArtNativeLibrariesIs DEF Reports, Results, Writes, Compile, Digest,
     Gate, Make, Record, Revision, Save

\* The reports of BuildArtLibcore.
LEMMA BuildArtLibcoreSaves ==
  \A f \in Reports, i \in DOMAIN BuildArtLibcore : Results(BuildArtLibcore[i],
     f) =>
    /\ BuildArtLibcore[i].op = "save"
    /\ f = "core.build" /\ i \in {8, 13}
  BY BuildArtLibcoreIs DEF Reports, Results, Writes, Compile, Digest, Gate,
     Make, Record, Revision, Save

\* The reports of LinkArtGuest.
LEMMA LinkArtGuestSaves ==
  \A f \in Reports, i \in DOMAIN LinkArtGuest : Results(LinkArtGuest[i], f) =>
    /\ LinkArtGuest[i].op = "save"
    /\ f = "art.link" /\ i \in {11, 14, 17}
  BY LinkArtGuestIs DEF Reports, Results, Writes, Digest, Gate, Make, Record,
     Revision, Save, Status

\* The reports of LinkIcuGuest.
LEMMA LinkIcuGuestSaves ==
  \A f \in Reports, i \in DOMAIN LinkIcuGuest : Results(LinkIcuGuest[i], f) =>
    /\ LinkIcuGuest[i].op = "save"
    /\ f = "icu.link" /\ i \in {8, 11, 14, 18}
  BY LinkIcuGuestIs DEF Reports, Results, Writes, Digest, Gate, Make, Record,
     Revision, Save, Status

\* The reports of LinkLibcoreGuest.
LEMMA LinkLibcoreGuestSaves ==
  \A f \in Reports, i \in DOMAIN LinkLibcoreGuest :
     Results(LinkLibcoreGuest[i], f) =>
    /\ LinkLibcoreGuest[i].op = "save"
    /\ f = "core.link" /\ i \in {8, 11, 14, 18}
  BY LinkLibcoreGuestIs DEF Reports, Results, Writes, Digest, Gate, Make,
     Record, Revision, Save, Status

\* The reports of BuildArtClasslib.
LEMMA BuildArtClasslibSaves ==
  \A f \in Reports, i \in DOMAIN BuildArtClasslib :
     Results(BuildArtClasslib[i], f) =>
    /\ BuildArtClasslib[i].op = "save"
    /\ f = "dex.result" /\ i = 8
  BY BuildArtClasslibIs DEF Reports, Results, Writes, Digest, Draft, Pack,
     Record, Revision, Save

\* The reports of RuntimeGuest.
LEMMA RuntimeGuestSaves ==
  \A f \in Reports, i \in DOMAIN RuntimeGuest : Results(RuntimeGuest[i], f) =>
    /\ RuntimeGuest[i].op = "save"
    /\ f = "runtime.rep" /\ i = 8
  BY RuntimeGuestIs DEF Reports, Results, Writes, Copy, Digest, Execute, Gate,
     Retain, Revision, Save

\* The reports of GuestIos.
LEMMA GuestIosSaves ==
  \A f \in Reports, i \in DOMAIN GuestIos : Results(GuestIos[i], f) =>
    /\ GuestIos[i].op = "save"
    /\ \/ f = "staged" /\ i = 4
       \/ f = "info" /\ i = 13
  BY GuestIosIs DEF Reports, Results, Writes, Digest, Gate, Make, Revision,
     Save, Status, Unlink

\* The reports of SuiteIos.
LEMMA SuiteIosSaves ==
  \A f \in Reports, i \in DOMAIN SuiteIos : Results(SuiteIos[i], f) =>
    /\ SuiteIos[i].op = "save"
    /\ \/ f = "staged" /\ i = 4
       \/ f = "info" /\ i = 13
  BY SuiteIosIs DEF Reports, Results, Writes, Digest, Gate, Make, Revision,
     Save, Status, Unlink

\* The reports of BinderAidl.
LEMMA BinderAidlSaves ==
  \A f \in Reports, i \in DOMAIN BinderAidl : Results(BinderAidl[i], f) =>
    /\ BinderAidl[i].op = "save"
    /\ f = "aidl.rep" /\ i = 8
  BY BinderAidlIs DEF Reports, Results, Writes, Digest, Once, Record, Revision,
     Save, Unlink

\* The reports of Xsdc.
LEMMA XsdcSaves ==
  \A f \in Reports, i \in DOMAIN Xsdc : Results(Xsdc[i], f) =>
    /\ Xsdc[i].op = "save"
    /\ f = "xsd.rep" /\ i = 9
  BY XsdcIs DEF Reports, Results, Writes, Digest, Gate, Held, Make, Record,
     Revision, Save, Unlink

\* The reports of BuildBinder.
LEMMA BuildBinderSaves ==
  \A f \in Reports, i \in DOMAIN BuildBinder : Results(BuildBinder[i], f) =>
    /\ BuildBinder[i].op = "save"
    /\ f = "binder.rep" /\ i = 14
  BY BuildBinderIs DEF Reports, Results, Writes, Digest, Gate, Held, Make,
     Record, Revision, Save, Unlink

\* The reports of BuildVintf.
LEMMA BuildVintfSaves ==
  \A f \in Reports, i \in DOMAIN BuildVintf : Results(BuildVintf[i], f) =>
    /\ BuildVintf[i].op = "save"
    /\ f = "vintf.rep" /\ i = 15
  BY BuildVintfIs DEF Reports, Results, Writes, Digest, Gate, Held, Make,
     Record, Revision, Save, Unlink

\* The reports of BuildServicemanager.
LEMMA BuildServicemanagerSaves ==
  \A f \in Reports, i \in DOMAIN BuildServicemanager :
     Results(BuildServicemanager[i], f) =>
    /\ BuildServicemanager[i].op = "save"
    /\ f = "service.rep" /\ i = 15
  BY BuildServicemanagerIs DEF Reports, Results, Writes, Digest, Gate, Held,
     Make, Record, Revision, Save, Status, Unlink

\* The reports of BuildKernelConfig.
LEMMA BuildKernelConfigSaves ==
  \A f \in Reports, i \in DOMAIN BuildKernelConfig :
     Results(BuildKernelConfig[i], f) =>
    /\ BuildKernelConfig[i].op = "save"
    /\ f = "parser.rep" /\ i = 14
  BY BuildKernelConfigIs DEF Reports, Results, Writes, Digest, Held, Make,
     Record, Revision, Save, Status, Unlink

\* The reports of ServiceGuest.
LEMMA ServiceGuestSaves ==
  \A f \in Reports, i \in DOMAIN ServiceGuest : Results(ServiceGuest[i], f) =>
    /\ ServiceGuest[i].op = "save"
    /\ f = "service.guest" /\ i = 13
  BY ServiceGuestIs DEF Reports, Results, Writes, Digest, Execute, Gate, Make,
     Record, Revision, Save, Status

\* The reports of ServiceIos.
LEMMA ServiceIosSaves ==
  \A f \in Reports, i \in DOMAIN ServiceIos : Results(ServiceIos[i], f) =>
    /\ ServiceIos[i].op = "save"
    /\ \/ f = "staged" /\ i = 4
       \/ f = "info" /\ i = 13
  BY ServiceIosIs DEF Reports, Results, Writes, Digest, Gate, Make, Revision,
     Save, Status, Unlink

\* The reports of LinuxRuntime.
LEMMA LinuxRuntimeSaves ==
  \A f \in Reports, i \in DOMAIN LinuxRuntime : Results(LinuxRuntime[i], f) =>
    /\ LinuxRuntime[i].op = "save"
    /\ f = "art.build" /\ i \in {9, 14}
  BY LinuxRuntimeIs DEF Reports, Results, Writes, Compile, Digest, Gate, Make,
     Record, Revision, Save

\* The reports of LinuxNative.
LEMMA LinuxNativeSaves ==
  \A f \in Reports, i \in DOMAIN LinuxNative : Results(LinuxNative[i], f) =>
    /\ LinuxNative[i].op = "save"
    /\ f = "icu.build" /\ i \in {9, 17}
  BY LinuxNativeIs DEF Reports, Results, Writes, Compile, Copy, Digest,
     Execute, Gate, Make, Record, Revision, Save

\* The reports of LinuxLibcore.
LEMMA LinuxLibcoreSaves ==
  \A f \in Reports, i \in DOMAIN LinuxLibcore : Results(LinuxLibcore[i], f) =>
    /\ LinuxLibcore[i].op = "save"
    /\ f = "core.build" /\ i \in {11, 14, 16, 21}
  BY LinuxLibcoreIs DEF Reports, Results, Writes, Compile, Copy, Digest,
     Execute, Gate, Make, Record, Revision, Save

\* The reports of BuildManagedFixture.
LEMMA BuildManagedFixtureSaves ==
  \A f \in Reports, i \in DOMAIN BuildManagedFixture :
     Results(BuildManagedFixture[i], f) =>
    /\ BuildManagedFixture[i].op = "save"
    /\ f = "dex.result" /\ i = 7
  BY BuildManagedFixtureIs DEF Reports, Results, Writes, Digest, Draft, Pack,
     Record, Revision, Save

\* The reports of ArtStartup.
LEMMA ArtStartupSaves ==
  \A f \in Reports, i \in DOMAIN ArtStartup : Results(ArtStartup[i], f) =>
    /\ ArtStartup[i].op = "save"
    /\ f = "start.rep" /\ i = 6
  BY ArtStartupIs DEF Reports, Results, Writes, Digest, Execute, Gate,
     Revision, Save

\* The reports of ParserReference.
LEMMA ParserReferenceSaves ==
  \A f \in Reports, i \in DOMAIN ParserReference : Results(ParserReference[i],
     f) =>
    /\ ParserReference[i].op = "save"
    /\ f = "kcref.rep" /\ i = 6
  BY ParserReferenceIs DEF Reports, Results, Writes, Digest, Execute, Gate,
     Revision, Save, Status

\* The reports of ParserGuest.
LEMMA ParserGuestSaves ==
  \A f \in Reports, i \in DOMAIN ParserGuest : Results(ParserGuest[i], f) =>
    /\ ParserGuest[i].op = "save"
    /\ f = "kc.rep" /\ i = 12
  BY ParserGuestIs DEF Reports, Results, Writes, Digest, Execute, Gate, Make,
     Record, Revision, Save, Status

\* Who saves which report, and when.
LEMMA GuestSaves ==
  ASSUME Placed, chain = "guest", run # Idle,
         NEW f \in Reports, Results(Op, f)
  PROVE /\ Op.op = "save"
        /\ \/ Program = BuildBionic /\ f = "bionic.rep" /\ run.pc = 5
           \/ Program = BionicStartup /\ f = "libc.rep" /\ run.pc = 9
           \/ Program = BuildArtRuntime /\ f = "art.build" /\ run.pc = 12
           \/ Program = BuildArtNativeLibraries /\ f = "icu.build" /\ run.pc \in
              {7, 12}
           \/ Program = BuildArtLibcore /\ f = "core.build" /\ run.pc \in {8, 13}
           \/ Program = LinkArtGuest /\ f = "art.link" /\ run.pc \in {11, 14, 17}
           \/ Program = LinkIcuGuest /\ f = "icu.link" /\ run.pc \in {8, 11, 14,
              18}
           \/ Program = LinkLibcoreGuest /\ f = "core.link" /\ run.pc \in {8, 11,
              14, 18}
           \/ Program = BuildArtClasslib /\ f = "dex.result" /\ run.pc = 8
           \/ Program = RuntimeGuest /\ f = "runtime.rep" /\ run.pc = 8
           \/ Program = GuestIos /\ f = "staged" /\ run.pc = 4
           \/ Program = GuestIos /\ f = "info" /\ run.pc = 13
<1>1. run.script \in DOMAIN GuestPrograms /\ Program =
     GuestPrograms[run.script]
  BY DEF Placed, Program, Programs
<1>2. Program \in {BuildBionic, BionicStartup, BuildArtRuntime,
     BuildArtNativeLibraries, BuildArtLibcore, LinkArtGuest, LinkIcuGuest,
     LinkLibcoreGuest, BuildArtClasslib, RuntimeGuest, GuestIos}
  BY <1>1, GuestProgramsAre
<1>3. run.pc \in 1..Len(Program) /\ Op = Program[run.pc]
  BY DEF Placed, Op
<1>4. CASE Program = BuildBionic
  BY <1>4, <1>3, BuildBionicSaves, BuildBionicIs
<1>5. CASE Program = BionicStartup
  BY <1>5, <1>3, BionicStartupSaves, BionicStartupIs
<1>6. CASE Program = BuildArtRuntime
  BY <1>6, <1>3, BuildArtRuntimeSaves, BuildArtRuntimeIs
<1>7. CASE Program = BuildArtNativeLibraries
  BY <1>7, <1>3, BuildArtNativeLibrariesSaves, BuildArtNativeLibrariesIs
<1>8. CASE Program = BuildArtLibcore
  BY <1>8, <1>3, BuildArtLibcoreSaves, BuildArtLibcoreIs
<1>9. CASE Program = LinkArtGuest
  BY <1>9, <1>3, LinkArtGuestSaves, LinkArtGuestIs
<1>10. CASE Program = LinkIcuGuest
  BY <1>10, <1>3, LinkIcuGuestSaves, LinkIcuGuestIs
<1>11. CASE Program = LinkLibcoreGuest
  BY <1>11, <1>3, LinkLibcoreGuestSaves, LinkLibcoreGuestIs
<1>12. CASE Program = BuildArtClasslib
  BY <1>12, <1>3, BuildArtClasslibSaves, BuildArtClasslibIs
<1>13. CASE Program = RuntimeGuest
  BY <1>13, <1>3, RuntimeGuestSaves, RuntimeGuestIs
<1>14. CASE Program = GuestIos
  BY <1>14, <1>3, GuestIosSaves, GuestIosIs
<1> QED BY <1>2, <1>4, <1>5, <1>6, <1>7, <1>8, <1>9, <1>10, <1>11, <1>12,
     <1>13, <1>14

\* Who saves which report, and when.
LEMMA SuiteSaves ==
  ASSUME Placed, chain = "suite", run # Idle,
         NEW f \in Reports, Results(Op, f)
  PROVE /\ Op.op = "save"
        /\ \/ Program = BuildBionic /\ f = "bionic.rep" /\ run.pc = 5
           \/ Program = BionicStartup /\ f = "libc.rep" /\ run.pc = 9
           \/ Program = SuiteIos /\ f = "staged" /\ run.pc = 4
           \/ Program = SuiteIos /\ f = "info" /\ run.pc = 13
<1>1. run.script \in DOMAIN SuitePrograms /\ Program =
     SuitePrograms[run.script]
  BY DEF Placed, Program, Programs
<1>2. Program \in {BuildBionic, BionicStartup, SuiteIos}
  BY <1>1, SuiteProgramsAre
<1>3. run.pc \in 1..Len(Program) /\ Op = Program[run.pc]
  BY DEF Placed, Op
<1>4. CASE Program = BuildBionic
  BY <1>4, <1>3, BuildBionicSaves, BuildBionicIs
<1>5. CASE Program = BionicStartup
  BY <1>5, <1>3, BionicStartupSaves, BionicStartupIs
<1>6. CASE Program = SuiteIos
  BY <1>6, <1>3, SuiteIosSaves, SuiteIosIs
<1> QED BY <1>2, <1>4, <1>5, <1>6

\* Who saves which report, and when.
LEMMA ServiceSaves ==
  ASSUME Placed, chain = "service", run # Idle,
         NEW f \in Reports, Results(Op, f)
  PROVE /\ Op.op = "save"
        /\ \/ Program = BuildBionic /\ f = "bionic.rep" /\ run.pc = 5
           \/ Program = BionicStartup /\ f = "libc.rep" /\ run.pc = 9
           \/ Program = BinderAidl /\ f = "aidl.rep" /\ run.pc = 8
           \/ Program = Xsdc /\ f = "xsd.rep" /\ run.pc = 9
           \/ Program = BuildBinder /\ f = "binder.rep" /\ run.pc = 14
           \/ Program = BuildVintf /\ f = "vintf.rep" /\ run.pc = 15
           \/ Program = BuildServicemanager /\ f = "service.rep" /\ run.pc = 15
           \/ Program = BuildKernelConfig /\ f = "parser.rep" /\ run.pc = 14
           \/ Program = ServiceGuest /\ f = "service.guest" /\ run.pc = 13
           \/ Program = ServiceIos /\ f = "staged" /\ run.pc = 4
           \/ Program = ServiceIos /\ f = "info" /\ run.pc = 13
<1>1. run.script \in DOMAIN ServicePrograms /\ Program =
     ServicePrograms[run.script]
  BY DEF Placed, Program, Programs
<1>2. Program \in {BuildBionic, BionicStartup, BinderAidl, Xsdc, BuildBinder,
     BuildVintf, BuildServicemanager, BuildKernelConfig, ServiceGuest,
     ServiceIos}
  BY <1>1, ServiceProgramsAre
<1>3. run.pc \in 1..Len(Program) /\ Op = Program[run.pc]
  BY DEF Placed, Op
<1>4. CASE Program = BuildBionic
  BY <1>4, <1>3, BuildBionicSaves, BuildBionicIs
<1>5. CASE Program = BionicStartup
  BY <1>5, <1>3, BionicStartupSaves, BionicStartupIs
<1>6. CASE Program = BinderAidl
  BY <1>6, <1>3, BinderAidlSaves, BinderAidlIs
<1>7. CASE Program = Xsdc
  BY <1>7, <1>3, XsdcSaves, XsdcIs
<1>8. CASE Program = BuildBinder
  BY <1>8, <1>3, BuildBinderSaves, BuildBinderIs
<1>9. CASE Program = BuildVintf
  BY <1>9, <1>3, BuildVintfSaves, BuildVintfIs
<1>10. CASE Program = BuildServicemanager
  BY <1>10, <1>3, BuildServicemanagerSaves, BuildServicemanagerIs
<1>11. CASE Program = BuildKernelConfig
  BY <1>11, <1>3, BuildKernelConfigSaves, BuildKernelConfigIs
<1>12. CASE Program = ServiceGuest
  BY <1>12, <1>3, ServiceGuestSaves, ServiceGuestIs
<1>13. CASE Program = ServiceIos
  BY <1>13, <1>3, ServiceIosSaves, ServiceIosIs
<1> QED BY <1>2, <1>4, <1>5, <1>6, <1>7, <1>8, <1>9, <1>10, <1>11, <1>12, <1>13

\* Who saves which report, and when.
LEMMA LinuxSaves ==
  ASSUME Placed, chain = "linux", run # Idle,
         NEW f \in Reports, Results(Op, f)
  PROVE /\ Op.op = "save"
        /\ \/ Program = LinuxRuntime /\ f = "art.build" /\ run.pc \in {9, 14}
           \/ Program = LinuxNative /\ f = "icu.build" /\ run.pc \in {9, 17}
           \/ Program = LinuxLibcore /\ f = "core.build" /\ run.pc \in {11, 14,
              16, 21}
           \/ Program = BuildManagedFixture /\ f = "dex.result" /\ run.pc = 7
           \/ Program = ArtStartup /\ f = "start.rep" /\ run.pc = 6
<1>1. run.script \in DOMAIN LinuxPrograms /\ Program =
     LinuxPrograms[run.script]
  BY DEF Placed, Program, Programs
<1>2. Program \in {LinuxRuntime, LinuxNative, LinuxLibcore,
     BuildManagedFixture, ArtStartup}
  BY <1>1, LinuxProgramsAre
<1>3. run.pc \in 1..Len(Program) /\ Op = Program[run.pc]
  BY DEF Placed, Op
<1>4. CASE Program = LinuxRuntime
  BY <1>4, <1>3, LinuxRuntimeSaves, LinuxRuntimeIs
<1>5. CASE Program = LinuxNative
  BY <1>5, <1>3, LinuxNativeSaves, LinuxNativeIs
<1>6. CASE Program = LinuxLibcore
  BY <1>6, <1>3, LinuxLibcoreSaves, LinuxLibcoreIs
<1>7. CASE Program = BuildManagedFixture
  BY <1>7, <1>3, BuildManagedFixtureSaves, BuildManagedFixtureIs
<1>8. CASE Program = ArtStartup
  BY <1>8, <1>3, ArtStartupSaves, ArtStartupIs
<1> QED BY <1>2, <1>4, <1>5, <1>6, <1>7, <1>8

\* Who saves which report, and when.
LEMMA ParserSaves ==
  ASSUME Placed, chain = "parser", run # Idle,
         NEW f \in Reports, Results(Op, f)
  PROVE /\ Op.op = "save"
        /\ \/ Program = BuildKernelConfig /\ f = "parser.rep" /\ run.pc = 14
           \/ Program = ParserReference /\ f = "kcref.rep" /\ run.pc = 6
           \/ Program = BuildBionic /\ f = "bionic.rep" /\ run.pc = 5
           \/ Program = BionicStartup /\ f = "libc.rep" /\ run.pc = 9
           \/ Program = BuildArtRuntime /\ f = "art.build" /\ run.pc = 12
           \/ Program = LinkArtGuest /\ f = "art.link" /\ run.pc \in {11, 14, 17}
           \/ Program = ParserGuest /\ f = "kc.rep" /\ run.pc = 12
<1>1. run.script \in DOMAIN ParserPrograms /\ Program =
     ParserPrograms[run.script]
  BY DEF Placed, Program, Programs
<1>2. Program \in {BuildKernelConfig, ParserReference, BuildBionic,
     BionicStartup, BuildArtRuntime, LinkArtGuest, ParserGuest}
  BY <1>1, ParserProgramsAre
<1>3. run.pc \in 1..Len(Program) /\ Op = Program[run.pc]
  BY DEF Placed, Op
<1>4. CASE Program = BuildKernelConfig
  BY <1>4, <1>3, BuildKernelConfigSaves, BuildKernelConfigIs
<1>5. CASE Program = ParserReference
  BY <1>5, <1>3, ParserReferenceSaves, ParserReferenceIs
<1>6. CASE Program = BuildBionic
  BY <1>6, <1>3, BuildBionicSaves, BuildBionicIs
<1>7. CASE Program = BionicStartup
  BY <1>7, <1>3, BionicStartupSaves, BionicStartupIs
<1>8. CASE Program = BuildArtRuntime
  BY <1>8, <1>3, BuildArtRuntimeSaves, BuildArtRuntimeIs
<1>9. CASE Program = LinkArtGuest
  BY <1>9, <1>3, LinkArtGuestSaves, LinkArtGuestIs
<1>10. CASE Program = ParserGuest
  BY <1>10, <1>3, ParserGuestSaves, ParserGuestIs
<1> QED BY <1>2, <1>4, <1>5, <1>6, <1>7, <1>8, <1>9, <1>10

-----------------------------------------------------------------------------
(* What the gates check.                                                   *)

\* The checks of ParserReference, operation 3.
LEMMA ParserReferenceGate3 ==
  ASSUME Program = ParserReference, Done(3)
  PROVE /\ Passes(3, Clean)
        /\ Passes(3, Require("parser.rep", {"commit", "clean"}))
        /\ Passes(3, Parsed("parser.rep", "pin"))
        /\ Passes(3, Tree("parser.rep", {"unit", "pin"}))
        /\ Passes(3, Verify({"parser.o", "regex.o"}, "parser.rep"))
        /\ Passes(3, Fresh("regex.o", "pin"))
        /\ Passes(3, Verify({"parser.ref", "parser.src"}, "parser.rep"))
<1> DEFINE checks == <<Clean>> \o VerifyParserBuild
<1>1. /\ DOMAIN checks = 1..7
      /\ checks[1] = Clean
      /\ checks[2] = Require("parser.rep", {"commit", "clean"})
      /\ checks[3] = Parsed("parser.rep", "pin")
      /\ checks[4] = Tree("parser.rep", {"unit", "pin"})
      /\ checks[5] = Verify({"parser.o", "regex.o"}, "parser.rep")
      /\ checks[6] = Fresh("regex.o", "pin")
      /\ checks[7] = Verify({"parser.ref", "parser.src"}, "parser.rep")
  BY DEF VerifyParserBuild
<1>2. Program[3] = Gate(checks)
  BY ParserReferenceIs
<1>3. Program[3].op = "check" /\ Program[3].all = checks
  BY <1>2 DEF Gate
<1> HIDE DEF checks
<1>4. \A k \in 1..7 : Passes(3, checks[k])
  BY <1>1, <1>3 DEF Passes
<1> QED BY <1>1, <1>4

\* The checks of ParserGuest, operation 3.
LEMMA ParserGuestGate3 ==
  ASSUME Program = ParserGuest, Done(3)
  PROVE /\ Passes(3, Clean)
        /\ Passes(3, Require("parser.rep", {"commit", "clean"}))
        /\ Passes(3, Parsed("parser.rep", "pin"))
        /\ Passes(3, Tree("parser.rep", {"unit", "pin"}))
        /\ Passes(3, Verify({"parser.o", "regex.o"}, "parser.rep"))
        /\ Passes(3, Fresh("regex.o", "pin"))
        /\ Passes(3, Verify({"parser.ref", "parser.src"}, "parser.rep"))
        /\ Passes(3, Require("kcref.rep", {"commit"}))
        /\ Passes(3, Verify({"parser.rep"}, "kcref.rep"))
        /\ Passes(3, Equal({"parser.o", "regex.o", "parser.ref", "parser.src"},
           "parser.rep", "kcref.rep"))
        /\ Passes(3, Require("kcref.rep", {"passed"}))
        /\ Passes(3, Require("art.link", {"commit", "clean"}))
        /\ Passes(3, Require("libc.rep", {"commit"}))
        /\ Passes(3, Tree("parser.rep", {"unit", "pin"}))
        /\ Passes(3, Tree("art.link", {"layout"}))
        /\ Passes(3, Verify({"artlink.src", "libc.so", "libart.so",
           "libart.mac"}, "art.link"))
        /\ Passes(3, Verify({"libc.mac"}, "libc.rep"))
<1> DEFINE checks == <<Clean>> \o VerifyParserBuild \o VerifyReference \o
     ParserDependencies
<1>1. /\ DOMAIN checks = 1..17
      /\ checks[1] = Clean
      /\ checks[2] = Require("parser.rep", {"commit", "clean"})
      /\ checks[3] = Parsed("parser.rep", "pin")
      /\ checks[4] = Tree("parser.rep", {"unit", "pin"})
      /\ checks[5] = Verify({"parser.o", "regex.o"}, "parser.rep")
      /\ checks[6] = Fresh("regex.o", "pin")
      /\ checks[7] = Verify({"parser.ref", "parser.src"}, "parser.rep")
      /\ checks[8] = Require("kcref.rep", {"commit"})
      /\ checks[9] = Verify({"parser.rep"}, "kcref.rep")
      /\ checks[10] = Equal({"parser.o", "regex.o", "parser.ref",
         "parser.src"}, "parser.rep", "kcref.rep")
      /\ checks[11] = Require("kcref.rep", {"passed"})
      /\ checks[12] = Require("art.link", {"commit", "clean"})
      /\ checks[13] = Require("libc.rep", {"commit"})
      /\ checks[14] = Tree("parser.rep", {"unit", "pin"})
      /\ checks[15] = Tree("art.link", {"layout"})
      /\ checks[16] = Verify({"artlink.src", "libc.so", "libart.so",
         "libart.mac"}, "art.link")
      /\ checks[17] = Verify({"libc.mac"}, "libc.rep")
  BY DEF ParserDependencies, VerifyParserBuild, VerifyReference
<1>2. Program[3] = Gate(checks)
  BY ParserGuestIs
<1>3. Program[3].op = "check" /\ Program[3].all = checks
  BY <1>2 DEF Gate
<1> HIDE DEF checks
<1>4. \A k \in 1..17 : Passes(3, checks[k])
  BY <1>1, <1>3 DEF Passes
<1> QED BY <1>1, <1>4

\* The checks of GuestIos, operation 2.
LEMMA GuestIosGate2 ==
  ASSUME Program = GuestIos, Done(2)
  PROVE /\ Passes(2, Require("libc.rep", {"commit"}))
        /\ Passes(2, Require("art.link", {"commit", "clean"}))
        /\ Passes(2, Require("icu.link", {"commit", "clean"}))
        /\ Passes(2, Require("core.link", {"commit", "clean"}))
        /\ Passes(2, Require("runtime.rep", {"commit", "passed"}))
        /\ Passes(2, Equal({"libicu.so"}, "icu.link", "runtime.rep"))
        /\ Passes(2, Equal({"libcore.so"}, "core.link", "runtime.rep"))
        /\ Passes(2, Verify(Libraries \union MacLibraries, "runtime.rep"))
        /\ Passes(2, Verify({"libc.mac", "libc.ios"}, "libc.rep"))
        /\ Passes(2, Verify({"libart.mac", "libart.ios"}, "art.link"))
        /\ Passes(2, Verify({"libicu.mac", "libicu.ios"}, "icu.link"))
        /\ Passes(2, Verify({"libcore.mac", "libcore.ios"}, "core.link"))
        /\ Passes(2, Wraps({"libc.mac", "libc.ios"}, {"libc.so"}))
        /\ Passes(2, Wraps({"libart.mac", "libart.ios"}, {"libart.so"}))
        /\ Passes(2, Wraps({"libicu.mac", "libicu.ios"}, {"libicu.so"}))
        /\ Passes(2, Wraps({"libcore.mac", "libcore.ios"}, {"libcore.so"}))
        /\ Passes(2, Alone("root"))
        /\ Passes(2, Verify({"root.dex"}, "runtime.rep"))
<1> DEFINE checks == ArtBundleChecks
<1>1. /\ DOMAIN checks = 1..18
      /\ checks[1] = Require("libc.rep", {"commit"})
      /\ checks[2] = Require("art.link", {"commit", "clean"})
      /\ checks[3] = Require("icu.link", {"commit", "clean"})
      /\ checks[4] = Require("core.link", {"commit", "clean"})
      /\ checks[5] = Require("runtime.rep", {"commit", "passed"})
      /\ checks[6] = Equal({"libicu.so"}, "icu.link", "runtime.rep")
      /\ checks[7] = Equal({"libcore.so"}, "core.link", "runtime.rep")
      /\ checks[8] = Verify(Libraries \union MacLibraries, "runtime.rep")
      /\ checks[9] = Verify({"libc.mac", "libc.ios"}, "libc.rep")
      /\ checks[10] = Verify({"libart.mac", "libart.ios"}, "art.link")
      /\ checks[11] = Verify({"libicu.mac", "libicu.ios"}, "icu.link")
      /\ checks[12] = Verify({"libcore.mac", "libcore.ios"}, "core.link")
      /\ checks[13] = Wraps({"libc.mac", "libc.ios"}, {"libc.so"})
      /\ checks[14] = Wraps({"libart.mac", "libart.ios"}, {"libart.so"})
      /\ checks[15] = Wraps({"libicu.mac", "libicu.ios"}, {"libicu.so"})
      /\ checks[16] = Wraps({"libcore.mac", "libcore.ios"}, {"libcore.so"})
      /\ checks[17] = Alone("root")
      /\ checks[18] = Verify({"root.dex"}, "runtime.rep")
  BY DEF Acceptance, ArtBundleChecks
<1>2. Program[2] = Gate(checks)
  BY GuestIosIs
<1>3. Program[2].op = "check" /\ Program[2].all = checks
  BY <1>2 DEF Gate
<1> HIDE DEF checks
<1>4. \A k \in 1..18 : Passes(2, checks[k])
  BY <1>1, <1>3 DEF Passes
<1> QED BY <1>1, <1>4

\* The checks of SuiteIos, operation 2.
LEMMA SuiteIosGate2 ==
  ASSUME Program = SuiteIos, Done(2)
  PROVE /\ Passes(2, Require("libc.rep", {"commit", "passed"}))
        /\ Passes(2, Verify({"libc.so", "libc.ios"}, "libc.rep"))
        /\ Passes(2, Wraps({"libc.ios"}, {"libc.so"}))
<1> DEFINE checks == <<Require("libc.rep", {"commit", "passed"}),
     Verify({"libc.so", "libc.ios"}, "libc.rep"), Wraps({"libc.ios"},
     {"libc.so"})>>
<1>1. /\ DOMAIN checks = 1..3
      /\ checks[1] = Require("libc.rep", {"commit", "passed"})
      /\ checks[2] = Verify({"libc.so", "libc.ios"}, "libc.rep")
      /\ checks[3] = Wraps({"libc.ios"}, {"libc.so"})
  OBVIOUS
<1>2. Program[2] = Gate(checks)
  BY SuiteIosIs
<1>3. Program[2].op = "check" /\ Program[2].all = checks
  BY <1>2 DEF Gate
<1> HIDE DEF checks
<1>4. \A k \in 1..3 : Passes(2, checks[k])
  BY <1>1, <1>3 DEF Passes
<1> QED BY <1>1, <1>4

\* The checks of ServiceIos, operation 2.
LEMMA ServiceIosGate2 ==
  ASSUME Program = ServiceIos, Done(2)
  PROVE /\ Passes(2, Require("service.guest", {"passed", "clean", "commit"}))
        /\ Passes(2, Tree("service.guest", {"unit"}))
        /\ Passes(2, Verify({"svc.src"} \union ServiceLibraries,
           "service.guest"))
        /\ Passes(2, Verify({"service.mac", "service.ios"}, "service.guest"))
        /\ Passes(2, Wraps({"service.mac", "service.ios"}, ServiceLibraries))
<1> DEFINE checks == ServiceBundleChecks
<1>1. /\ DOMAIN checks = 1..5
      /\ checks[1] = Require("service.guest", {"passed", "clean", "commit"})
      /\ checks[2] = Tree("service.guest", {"unit"})
      /\ checks[3] = Verify({"svc.src"} \union ServiceLibraries,
         "service.guest")
      /\ checks[4] = Verify({"service.mac", "service.ios"}, "service.guest")
      /\ checks[5] = Wraps({"service.mac", "service.ios"}, ServiceLibraries)
  BY DEF ServiceBundleChecks, ServiceRevision
<1>2. Program[2] = Gate(checks)
  BY ServiceIosIs
<1>3. Program[2].op = "check" /\ Program[2].all = checks
  BY <1>2 DEF Gate
<1> HIDE DEF checks
<1>4. \A k \in 1..5 : Passes(2, checks[k])
  BY <1>1, <1>3 DEF Passes
<1> QED BY <1>1, <1>4

\* The checks of ServiceGuest, operation 3.
LEMMA ServiceGuestGate3 ==
  ASSUME Program = ServiceGuest, Done(3)
  PROVE /\ Passes(3, Clean)
        /\ Passes(3, Require("service.rep", {"commit", "clean"}))
        /\ Passes(3, Tree("service.rep", {"unit", "pin"}))
        /\ Passes(3, Verify({"service.o", "service.a", "service.src"},
           "service.rep"))
        /\ Passes(3, Require("binder.rep", {"commit", "clean"}))
        /\ Passes(3, Tree("binder.rep", {"unit", "pin"}))
        /\ Passes(3, Verify({"binder.o", "binder.a", "binder.src"},
           "binder.rep"))
        /\ Passes(3, Require("vintf.rep", {"commit", "clean"}))
        /\ Passes(3, Tree("vintf.rep", {"unit", "pin"}))
        /\ Passes(3, Verify({"vintf.o", "vintf.a", "vintf.src"}, "vintf.rep"))
        /\ Passes(3, Require("parser.rep", {"commit"}))
        /\ Passes(3, Parsed("parser.rep", "pin"))
        /\ Passes(3, Fresh("regex.o", "pin"))
        /\ Passes(3, Require("libc.rep", {"commit"}))
        /\ Passes(3, Tree("parser.rep", {"unit", "pin"}))
        /\ Passes(3, Verify({"libc.so", "libc.mac"}, "libc.rep"))
<1> DEFINE checks == ServiceChecks
<1>1. /\ DOMAIN checks = 1..16
      /\ checks[1] = Clean
      /\ checks[2] = Require("service.rep", {"commit", "clean"})
      /\ checks[3] = Tree("service.rep", {"unit", "pin"})
      /\ checks[4] = Verify({"service.o", "service.a", "service.src"},
         "service.rep")
      /\ checks[5] = Require("binder.rep", {"commit", "clean"})
      /\ checks[6] = Tree("binder.rep", {"unit", "pin"})
      /\ checks[7] = Verify({"binder.o", "binder.a", "binder.src"},
         "binder.rep")
      /\ checks[8] = Require("vintf.rep", {"commit", "clean"})
      /\ checks[9] = Tree("vintf.rep", {"unit", "pin"})
      /\ checks[10] = Verify({"vintf.o", "vintf.a", "vintf.src"}, "vintf.rep")
      /\ checks[11] = Require("parser.rep", {"commit"})
      /\ checks[12] = Parsed("parser.rep", "pin")
      /\ checks[13] = Fresh("regex.o", "pin")
      /\ checks[14] = Require("libc.rep", {"commit"})
      /\ checks[15] = Tree("parser.rep", {"unit", "pin"})
      /\ checks[16] = Verify({"libc.so", "libc.mac"}, "libc.rep")
  BY DEF Producer, ServiceChecks
<1>2. Program[3] = Gate(checks)
  BY ServiceGuestIs
<1>3. Program[3].op = "check" /\ Program[3].all = checks
  BY <1>2 DEF Gate
<1> HIDE DEF checks
<1>4. \A k \in 1..16 : Passes(3, checks[k])
  BY <1>1, <1>3 DEF Passes
<1> QED BY <1>1, <1>4

\* The checks of RuntimeGuest, operation 2.
LEMMA RuntimeGuestGate2 ==
  ASSUME Program = RuntimeGuest, Done(2)
  PROVE /\ Passes(2, Require("icu.link", {"commit", "clean"}))
        /\ Passes(2, Require("art.link", {"commit", "clean"}))
        /\ Passes(2, Require("core.link", {"commit", "clean"}))
        /\ Passes(2, Require("libc.rep", {"commit"}))
        /\ Passes(2, Equal({"libart.so", "libc.so"}, "art.link", "icu.link"))
        /\ Passes(2, Equal({"libart.so", "libc.so"}, "art.link", "core.link"))
        /\ Passes(2, Equal({"libicu.so"}, "icu.link", "core.link"))
        /\ Passes(2, Verify({"libc.so", "libart.so", "libart.mac"},
           "art.link"))
        /\ Passes(2, Verify({"libc.mac"}, "libc.rep"))
        /\ Passes(2, Verify({"libicu.so", "libicu.mac"}, "icu.link"))
        /\ Passes(2, Verify({"libcore.so", "libcore.mac"}, "core.link"))
<1> DEFINE checks == RuntimeChecks
<1>1. /\ DOMAIN checks = 1..11
      /\ checks[1] = Require("icu.link", {"commit", "clean"})
      /\ checks[2] = Require("art.link", {"commit", "clean"})
      /\ checks[3] = Require("core.link", {"commit", "clean"})
      /\ checks[4] = Require("libc.rep", {"commit"})
      /\ checks[5] = Equal({"libart.so", "libc.so"}, "art.link", "icu.link")
      /\ checks[6] = Equal({"libart.so", "libc.so"}, "art.link", "core.link")
      /\ checks[7] = Equal({"libicu.so"}, "icu.link", "core.link")
      /\ checks[8] = Verify({"libc.so", "libart.so", "libart.mac"}, "art.link")
      /\ checks[9] = Verify({"libc.mac"}, "libc.rep")
      /\ checks[10] = Verify({"libicu.so", "libicu.mac"}, "icu.link")
      /\ checks[11] = Verify({"libcore.so", "libcore.mac"}, "core.link")
  BY DEF RuntimeArt, RuntimeChecks
<1>2. Program[2] = Gate(checks)
  BY RuntimeGuestIs
<1>3. Program[2].op = "check" /\ Program[2].all = checks
  BY <1>2 DEF Gate
<1> HIDE DEF checks
<1>4. \A k \in 1..11 : Passes(2, checks[k])
  BY <1>1, <1>3 DEF Passes
<1> QED BY <1>1, <1>4

\* The checks of LinkArtGuest, operation 3.
LEMMA LinkArtGuestGate3 ==
  ASSUME Program = LinkArtGuest, Done(3)
  PROVE /\ Passes(3, Require("art.build", {"commit", "passed"}))
        /\ Passes(3, Git("art.build"))
        /\ Passes(3, Verify({"art.src", "art.o"}, "art.build"))
        /\ Passes(3, Require("libc.rep", {"commit", "passed"}))
        /\ Passes(3, Git("libc.rep"))
        /\ Passes(3, Verify({"libc.so"}, "libc.rep"))
<1> DEFINE checks == LinkArtChecks
<1>1. /\ DOMAIN checks = 1..6
      /\ checks[1] = Require("art.build", {"commit", "passed"})
      /\ checks[2] = Git("art.build")
      /\ checks[3] = Verify({"art.src", "art.o"}, "art.build")
      /\ checks[4] = Require("libc.rep", {"commit", "passed"})
      /\ checks[5] = Git("libc.rep")
      /\ checks[6] = Verify({"libc.so"}, "libc.rep")
  BY DEF LinkArtChecks
<1>2. Program[3] = Gate(checks)
  BY LinkArtGuestIs
<1>3. Program[3].op = "check" /\ Program[3].all = checks
  BY <1>2 DEF Gate
<1> HIDE DEF checks
<1>4. \A k \in 1..6 : Passes(3, checks[k])
  BY <1>1, <1>3 DEF Passes
<1> QED BY <1>1, <1>4

\* The checks of LinkIcuGuest, operation 3.
LEMMA LinkIcuGuestGate3 ==
  ASSUME Program = LinkIcuGuest, Done(3)
  PROVE /\ Passes(3, Require("icu.build", {"commit", "passed"}))
        /\ Passes(3, Require("art.link", {"commit", "clean"}))
        /\ Passes(3, Git("icu.build"))
        /\ Passes(3, Git("art.link"))
        /\ Passes(3, Verify({"icu.src", "icu.o"}, "icu.build"))
        /\ Passes(3, Verify({"artlink.src"}, "art.link"))
        /\ Passes(3, Require("icu.build", {"client"}))
        /\ Passes(3, Verify({"icu.client"}, "icu.build"))
        /\ Passes(3, Verify({"libart.so", "libc.so"}, "art.link"))
<1> DEFINE checks == LinkIcuChecks
<1>1. /\ DOMAIN checks = 1..9
      /\ checks[1] = Require("icu.build", {"commit", "passed"})
      /\ checks[2] = Require("art.link", {"commit", "clean"})
      /\ checks[3] = Git("icu.build")
      /\ checks[4] = Git("art.link")
      /\ checks[5] = Verify({"icu.src", "icu.o"}, "icu.build")
      /\ checks[6] = Verify({"artlink.src"}, "art.link")
      /\ checks[7] = Require("icu.build", {"client"})
      /\ checks[8] = Verify({"icu.client"}, "icu.build")
      /\ checks[9] = Verify({"libart.so", "libc.so"}, "art.link")
  BY DEF IcuSources, LinkIcuChecks
<1>2. Program[3] = Gate(checks)
  BY LinkIcuGuestIs
<1>3. Program[3].op = "check" /\ Program[3].all = checks
  BY <1>2 DEF Gate
<1> HIDE DEF checks
<1>4. \A k \in 1..9 : Passes(3, checks[k])
  BY <1>1, <1>3 DEF Passes
<1> QED BY <1>1, <1>4

\* The checks of LinkLibcoreGuest, operation 3.
LEMMA LinkLibcoreGuestGate3 ==
  ASSUME Program = LinkLibcoreGuest, Done(3)
  PROVE /\ Passes(3, Clean)
        /\ Passes(3, Require("core.build", {"commit", "sources"}))
        /\ Passes(3, Require("art.link", {"commit", "sources"}))
        /\ Passes(3, Require("icu.link", {"commit", "sources"}))
        /\ Passes(3, Git("core.build"))
        /\ Passes(3, Git("art.link"))
        /\ Passes(3, Git("icu.link"))
        /\ Passes(3, Require("art.link", {"clean"}))
        /\ Passes(3, Require("icu.link", {"clean"}))
        /\ Passes(3, Require("core.build", {"passed"}))
        /\ Passes(3, Verify({"core.src", "core.o"}, "core.build"))
        /\ Passes(3, Verify({"iculink.src"}, "icu.link"))
        /\ Passes(3, Verify({"artlink.src"}, "art.link"))
        /\ Passes(3, Require("core.build", {"client"}))
        /\ Passes(3, Verify({"core.client"}, "core.build"))
        /\ Passes(3, Verify({"libart.so", "libc.so"}, "art.link"))
        /\ Passes(3, Verify({"libart.so", "libc.so", "libicu.so"}, "icu.link"))
<1> DEFINE checks == LinkLibcoreChecks
<1>1. /\ DOMAIN checks = 1..17
      /\ checks[1] = Clean
      /\ checks[2] = Require("core.build", {"commit", "sources"})
      /\ checks[3] = Require("art.link", {"commit", "sources"})
      /\ checks[4] = Require("icu.link", {"commit", "sources"})
      /\ checks[5] = Git("core.build")
      /\ checks[6] = Git("art.link")
      /\ checks[7] = Git("icu.link")
      /\ checks[8] = Require("art.link", {"clean"})
      /\ checks[9] = Require("icu.link", {"clean"})
      /\ checks[10] = Require("core.build", {"passed"})
      /\ checks[11] = Verify({"core.src", "core.o"}, "core.build")
      /\ checks[12] = Verify({"iculink.src"}, "icu.link")
      /\ checks[13] = Verify({"artlink.src"}, "art.link")
      /\ checks[14] = Require("core.build", {"client"})
      /\ checks[15] = Verify({"core.client"}, "core.build")
      /\ checks[16] = Verify({"libart.so", "libc.so"}, "art.link")
      /\ checks[17] = Verify({"libart.so", "libc.so", "libicu.so"}, "icu.link")
  BY DEF LinkLibcoreChecks
<1>2. Program[3] = Gate(checks)
  BY LinkLibcoreGuestIs
<1>3. Program[3].op = "check" /\ Program[3].all = checks
  BY <1>2 DEF Gate
<1> HIDE DEF checks
<1>4. \A k \in 1..17 : Passes(3, checks[k])
  BY <1>1, <1>3 DEF Passes
<1> QED BY <1>1, <1>4

\* The checks of ArtStartup, operation 1.
LEMMA ArtStartupGate1 ==
  ASSUME Program = ArtStartup, Done(1)
  PROVE /\ Passes(1, Require("art.build", {"passed"}))
        /\ Passes(1, Tree("art.build", {"unit"}))
        /\ Passes(1, Verify({"art.src", "libart.so", "art.harness"},
           "art.build"))
        /\ Passes(1, Require("icu.build", {"passed"}))
        /\ Passes(1, Tree("icu.build", {"unit"}))
        /\ Passes(1, Verify({"icu.src", "libicu.so", "icu.libart"},
           "icu.build"))
        /\ Passes(1, Require("core.build", {"passed"}))
        /\ Passes(1, Tree("core.build", {"unit"}))
        /\ Passes(1, Verify({"core.src"} \union StartupInputs, "core.build"))
        /\ Passes(1, Same("core.build", "core.libart", "art.build",
           "libart.so"))
        /\ Passes(1, Verify({"dex.zip"}, "dex.result"))
        /\ Passes(1, Inside("dex.zip", "dex.result"))
        /\ Passes(1, Tree("dex.result", {"unit"}))
<1> DEFINE checks == StartupChecks
<1>1. /\ DOMAIN checks = 1..13
      /\ checks[1] = Require("art.build", {"passed"})
      /\ checks[2] = Tree("art.build", {"unit"})
      /\ checks[3] = Verify({"art.src", "libart.so", "art.harness"},
         "art.build")
      /\ checks[4] = Require("icu.build", {"passed"})
      /\ checks[5] = Tree("icu.build", {"unit"})
      /\ checks[6] = Verify({"icu.src", "libicu.so", "icu.libart"},
         "icu.build")
      /\ checks[7] = Require("core.build", {"passed"})
      /\ checks[8] = Tree("core.build", {"unit"})
      /\ checks[9] = Verify({"core.src"} \union StartupInputs, "core.build")
      /\ checks[10] = Same("core.build", "core.libart", "art.build",
         "libart.so")
      /\ checks[11] = Verify({"dex.zip"}, "dex.result")
      /\ checks[12] = Inside("dex.zip", "dex.result")
      /\ checks[13] = Tree("dex.result", {"unit"})
  BY DEF OneArt, PreparedDex, StartupChecks, VerifyBuild
<1>2. Program[1] = Gate(checks)
  BY ArtStartupIs
<1>3. Program[1].op = "check" /\ Program[1].all = checks
  BY <1>2 DEF Gate
<1> HIDE DEF checks
<1>4. \A k \in 1..13 : Passes(1, checks[k])
  BY <1>1, <1>3 DEF Passes
<1> QED BY <1>1, <1>4

\* The checks of LinuxLibcore, operation 2.
LEMMA LinuxLibcoreGate2 ==
  ASSUME Program = LinuxLibcore, Done(2)
  PROVE /\ Passes(2, Require("icu.build", {}))
        /\ Passes(2, Require("art.build", {}))
        /\ Passes(2, Verify({"icu.src"}, "icu.build"))
        /\ Passes(2, VerifyAs("icu.libart", "libart.so", "art.build"))
        /\ Passes(2, Verify({"libicu.so", "icu.libart", "icu.harness"},
           "icu.build"))
<1> DEFINE checks == <<Require("icu.build", {}), Require("art.build", {}),
     Verify({"icu.src"}, "icu.build"), VerifyAs("icu.libart", "libart.so",
     "art.build"), Verify({"libicu.so", "icu.libart", "icu.harness"},
     "icu.build")>>
<1>1. /\ DOMAIN checks = 1..5
      /\ checks[1] = Require("icu.build", {})
      /\ checks[2] = Require("art.build", {})
      /\ checks[3] = Verify({"icu.src"}, "icu.build")
      /\ checks[4] = VerifyAs("icu.libart", "libart.so", "art.build")
      /\ checks[5] = Verify({"libicu.so", "icu.libart", "icu.harness"},
         "icu.build")
  OBVIOUS
<1>2. Program[2] = Gate(checks)
  BY LinuxLibcoreIs
<1>3. Program[2].op = "check" /\ Program[2].all = checks
  BY <1>2 DEF Gate
<1> HIDE DEF checks
<1>4. \A k \in 1..5 : Passes(2, checks[k])
  BY <1>1, <1>3 DEF Passes
<1> QED BY <1>1, <1>4

\* The checks of LinuxNative, operation 2.
LEMMA LinuxNativeGate2 ==
  ASSUME Program = LinuxNative, Done(2)
  PROVE /\ Passes(2, Require("art.build", {}))
        /\ Passes(2, Verify({"libart.so", "art.src"}, "art.build"))
<1> DEFINE checks == <<Require("art.build", {}), Verify({"libart.so",
     "art.src"}, "art.build")>>
<1>1. /\ DOMAIN checks = 1..2
      /\ checks[1] = Require("art.build", {})
      /\ checks[2] = Verify({"libart.so", "art.src"}, "art.build")
  OBVIOUS
<1>2. Program[2] = Gate(checks)
  BY LinuxNativeIs
<1>3. Program[2].op = "check" /\ Program[2].all = checks
  BY <1>2 DEF Gate
<1> HIDE DEF checks
<1>4. \A k \in 1..2 : Passes(2, checks[k])
  BY <1>1, <1>3 DEF Passes
<1> QED BY <1>1, <1>4

-----------------------------------------------------------------------------
(* What a step changes                                                     *)

\* A record changes only when it is saved, removed or left half written.
LEMMA ReportChanges ==
  ASSUME Placed, Next, NEW r \in Reports, r \in Files[chain],
         disk'[r] # disk[r], disk'[r] \notin {Absent, Partial}
  PROVE /\ run # Idle /\ Results(Op, r)
        /\ Op.op # "retain" => disk'[r] = Produced
        /\ UNCHANGED <<chain, commits, passed>>
<1>1. CASE Produce
  BY <1>1 DEF Produce, Placed, At, Results
<1>2. CASE Change
  BY <1>2 DEF Change, Placed, At, Results
<1>3. CASE Stop
  BY <1>3 DEF Stop, Placed, At
<1>4. CASE ~Produce /\ ~Change /\ ~Stop
  BY <1>4, NextCases DEF Edit, Commit, Restore, Start, Observe, CompileFails, Run,
     Check, Refuse
<1> QED BY <1>1, <1>2, <1>3, <1>4

\* What was executed stays executed; what is added is the files of the
\* operation.
LEMMA PassedChanges ==
  ASSUME Placed, Next
  PROVE /\ passed \subseteq passed'
        /\ \A e \in passed' :
             \/ e \in passed
             \/ run # Idle /\ Op.op = "execute" /\ e = Restricted(disk, Op.files)
  BY NextCases DEF Edit, Commit, Restore, Start, Observe, Produce, CompileFails, Change,
     Run, Check, Refuse, Stop, At

\* A checkout stays what it was taken for.
LEMMA ChainKept == ASSUME Next PROVE chain' = chain
  BY NextCases DEF Edit, Commit, Restore, Start, Observe, Produce, CompileFails, Change,
     Run, Check, Refuse, Stop

\* What the running script writes is a file of its chain.
LEMMA OwnFiles == ASSUME Placed, run # Idle PROVE Outputs(Program) \subseteq Files[chain]
  BY DEF Placed, Program, Files

-----------------------------------------------------------------------------
(* What a record says, which stays true whatever becomes of the files.     *)

(* The record's out was made from the record's files; the files were       *)
(* executed, all at once.                                                  *)
Packed(files, out, ins) == files[out].of = Restricted(files, ins)
Uses(files, out, ins) == \A x \in ins : files[out].of[x] = files[x]
Ran(files, S) == \E e \in passed : DOMAIN e = S /\ \A f \in S : e[f] = files[f]

LibcTrue(rec) ==
  /\ Packed(rec.files, "libc.mac", {"libc.so"})
  /\ rec.passed => Ran(rec.files, {"libc.mac"})

Together(files) ==
  /\ Uses(files, "libart.so", {"libc.so"})
  /\ Uses(files, "libicu.so", {"libc.so", "libart.so"})
  /\ Uses(files, "libcore.so", {"libc.so", "libart.so", "libicu.so"})

Shipped(files) ==
  \E e \in passed :
    /\ \A f \in Frameworks[chain] :
         /\ f[1] \in DOMAIN e
         /\ e[f[1]].of = files[f[2]].of
         /\ \A lib \in DOMAIN files[f[2]].of : files[f[2]].of[lib] = files[lib]
    /\ \A f \in DOMAIN e \intersect DOMAIN files : e[f] = files[f]

(* The builds of the Linux reference save their record early and often.    *)
LinuxTrue(r, files) ==
  /\ r = "art.build" /\ "art.harness" \in DOMAIN files =>
       Uses(files, "art.harness", {"libart.so"})
  /\ r = "icu.build" /\ "libicu.so" \in DOMAIN files =>
       Uses(files, "libicu.so", {"icu.libart"})
  /\ r = "core.build" /\ "libcore.so" \in DOMAIN files =>
       /\ Uses(files, "libcore.so", {"core.libart", "core.libicu"})
       /\ files["core.libicu"].of["icu.libart"] = files["core.libart"]

Objects == {"parser.o", "regex.o"}
ReferenceRan(files) ==
  \E l \in passed : /\ "parser.ref" \in DOMAIN l
                    /\ \A o \in Objects : l["parser.ref"].of[o] = files[o]

Truth(r, rec) ==
  /\ r = "libc.rep" => LibcTrue(rec)
  /\ r = "art.link" => Uses(rec.files, "libart.so", {"libc.so"})
  /\ r = "icu.link" => Uses(rec.files, "libicu.so", {"libc.so", "libart.so"})
  /\ r = "core.link" =>
       Uses(rec.files, "libcore.so", {"libc.so", "libart.so", "libicu.so"})
  /\ r = "runtime.rep" =>
       /\ Together(rec.files)
       /\ rec.passed => Ran(rec.files, MacLibraries \union {"root.dex"})
  /\ r = "service.guest" /\ rec.passed => Ran(rec.files, {"service.mac"})
  /\ r = "staged" =>
       /\ chain = "guest" => Together(rec.files)
       /\ Shipped(rec.files)
  /\ r = "parser.rep" /\ chain = "parser" => Uses(rec.files, "parser.ref", Objects)
  /\ r = "kcref.rep" /\ rec.passed => ReferenceRan(rec.files)
  /\ chain = "linux" => LinuxTrue(r, rec.files)

(* Every record there is tells the truth.                                  *)
Honest ==
  \A r \in Reports \intersect Files[chain] : \A rec :
    (disk[r] = rec /\ Whole(r)) => Truth(r, rec)

\* What was true of a record is true of it after any step.
LEMMA TruthStays ==
  ASSUME NEW r, NEW rec, Truth(r, rec), passed \subseteq passed', chain' = chain
  PROVE Truth(r, rec)'
<1>1. Shipped(rec.files) => Shipped(rec.files)'
  BY DEF Shipped
<1>2. ReferenceRan(rec.files) => ReferenceRan(rec.files)'
  BY DEF ReferenceRan
<1>3. \A S : Ran(rec.files, S) => Ran(rec.files, S)'
  BY DEF Ran
<1> QED BY <1>1, <1>2, <1>3
     DEF Truth, LibcTrue, Together, Uses, Packed, LinuxTrue

-----------------------------------------------------------------------------
(* Every record is true when it is saved.                                  *)

\* What was just executed was executed by the record's digests too.
LEMMA RanOf ==
  ASSUME NEW files, NEW S, Restricted(disk, S) \in passed, \A f \in S : files[f] = disk[f]
  PROVE Ran(files, S)
  BY DEF Ran, Restricted

\* The record of a libc whose signed image was executed.
LEMMA LibcSaved ==
  ASSUME Placed, Knows, run # Idle, Program = BionicStartup, run.pc = 9
  PROVE LibcTrue(run.rep)
<1>1. /\ Still(4, "libc.so") /\ Still(4, "libc.mac")
      /\ Still(6, "libc.so") /\ Still(6, "libc.mac") /\ Still(7, "libc.mac")
      /\ \A j \in 8..8 : Program[j].op # "execute"
  BY BionicStartupIs, BionicStartupOutputs, OwnFiles
     DEF Still, Done, Since, Touches, Writes, Gate, Make, Revision, Digest, Execute, Save
<1>2. /\ run.rep.files["libc.so"] = disk["libc.so"]
      /\ run.rep.files["libc.mac"] = disk["libc.mac"]
  BY <1>1, KnowDigest, BionicStartupIs
<1>3. disk["libc.mac"].of = Restricted(disk, {"libc.so"})
  BY <1>1, KnowMake, BionicStartupIs
<1>4. run.rep.passed => Restricted(disk, {"libc.mac"}) \in passed
  <2>1. Program[7] = Execute({"libc.mac"}) /\ Done(7) /\ run.pc - 1 = 8
    BY <1>1, BionicStartupIs DEF Still
  <2> QED BY <2>1, <1>1, KnowExecute
<1> QED BY <1>2, <1>3, <1>4 DEF LibcTrue, Packed, Ran, Restricted

\* Every save of the record of the ART link.
LEMMA ArtLinkSaved ==
  ASSUME Placed, Knows, run # Idle, chain \in {"guest", "parser"}, Program = LinkArtGuest,
         run.pc \in {11, 14, 17}
  PROVE Uses(run.rep.files, "libart.so", {"libc.so"})
<1> DEFINE ins == {"libc.so"}
<1>1. /\ \A x \in ins : Still(5, x) /\ Still(7, x) /\ x # "libart.so"
      /\ Still(5, "libart.so") /\ Still(10, "libart.so")
  BY LinkArtGuestIs, GuestFiles, ParserFiles
     DEF Still, Done, Since, Touches, Writes, Gate, Make, Revision, Status, Record,
         Digest, Execute, Save
<1>2. \A x \in ins : run.rep.files[x] = disk[x]
  <2>1. Program[7] = Digest(ins)
    BY LinkArtGuestIs
  <2> QED BY <2>1, <1>1, KnowDigest
<1>3. run.rep.files["libart.so"] = disk["libart.so"]
  BY <1>1, KnowDigest, LinkArtGuestIs
<1>4. \A x \in ins : disk["libart.so"].of[x] = disk[x]
  <2>1. PICK from : Program[5] = Make("libart.so", {}, from) /\ ins \subseteq from
    BY LinkArtGuestIs
  <2> QED BY <2>1, <1>1, KnowMake
<1> QED BY <1>2, <1>3, <1>4 DEF Uses

\* Every save of the record of the ICU link.
LEMMA IcuLinkSaved ==
  ASSUME Placed, Knows, run # Idle, chain \in {"guest"}, Program = LinkIcuGuest,
         run.pc \in {8, 11, 14, 18}
  PROVE Uses(run.rep.files, "libicu.so", {"libc.so", "libart.so"})
<1> DEFINE ins == {"libc.so", "libart.so"}
<1>1. /\ \A x \in ins : Still(6, x) /\ Still(5, x) /\ x # "libicu.so"
      /\ Still(6, "libicu.so") /\ Still(7, "libicu.so")
  BY LinkIcuGuestIs, GuestFiles
     DEF Still, Done, Since, Touches, Writes, Gate, Make, Revision, Status, Record,
         Digest, Execute, Save
<1>2. \A x \in ins : run.rep.files[x] = disk[x]
  <2>1. Program[5] = Digest(ins)
    BY LinkIcuGuestIs
  <2> QED BY <2>1, <1>1, KnowDigest
<1>3. run.rep.files["libicu.so"] = disk["libicu.so"]
  BY <1>1, KnowDigest, LinkIcuGuestIs
<1>4. \A x \in ins : disk["libicu.so"].of[x] = disk[x]
  <2>1. PICK from : Program[6] = Make("libicu.so", {}, from) /\ ins \subseteq from
    BY LinkIcuGuestIs
  <2> QED BY <2>1, <1>1, KnowMake
<1> QED BY <1>2, <1>3, <1>4 DEF Uses

\* Every save of the record of the libcore link.
LEMMA LibcoreLinkSaved ==
  ASSUME Placed, Knows, run # Idle, chain \in {"guest"}, Program = LinkLibcoreGuest,
         run.pc \in {8, 11, 14, 18}
  PROVE Uses(run.rep.files, "libcore.so", {"libc.so", "libart.so", "libicu.so"})
<1> DEFINE ins == {"libc.so", "libart.so", "libicu.so"}
<1>1. /\ \A x \in ins : Still(6, x) /\ Still(5, x) /\ x # "libcore.so"
      /\ Still(6, "libcore.so") /\ Still(7, "libcore.so")
  BY LinkLibcoreGuestIs, GuestFiles
     DEF Still, Done, Since, Touches, Writes, Gate, Make, Revision, Status, Record,
         Digest, Execute, Save
<1>2. \A x \in ins : run.rep.files[x] = disk[x]
  <2>1. Program[5] = Digest(ins)
    BY LinkLibcoreGuestIs
  <2> QED BY <2>1, <1>1, KnowDigest
<1>3. run.rep.files["libcore.so"] = disk["libcore.so"]
  BY <1>1, KnowDigest, LinkLibcoreGuestIs
<1>4. \A x \in ins : disk["libcore.so"].of[x] = disk[x]
  <2>1. PICK from : Program[6] = Make("libcore.so", {}, from) /\ ins \subseteq from
    BY LinkLibcoreGuestIs
  <2> QED BY <2>1, <1>1, KnowMake
<1> QED BY <1>2, <1>3, <1>4 DEF Uses

\* The record of the executed runtime: no one check compares all libraries,
\* but the links' reports agree and each is true.
LEMMA RuntimeSaved ==
  ASSUME Placed, Knows, Honest, run # Idle, chain = "guest", Program = RuntimeGuest,
         run.pc = 8
  PROVE /\ Together(run.rep.files)
        /\ run.rep.passed => Ran(run.rep.files, MacLibraries \union {"root.dex"})
<1> DEFINE all == Libraries \union MacLibraries \union {"root.dex"}
           links == {"art.link", "icu.link", "core.link"}
<1>1. /\ \A x \in Libraries \union MacLibraries \union links : Still(2, x)
      /\ \A x \in all : Still(6, x)
      /\ \A x \in MacLibraries \union {"root.dex"} : Still(7, x)
      /\ \A j \in 8..7 : Program[j].op # "execute"
      /\ links \subseteq Reports
  <2>1. /\ \A j \in 3..7, x \in Libraries \union MacLibraries \union links :
              ~Touches(Program[j], x)
        /\ \A j \in 7..7, x \in all : ~Touches(Program[j], x)
    BY RuntimeGuestIs
       DEF Touches, Writes, Libraries, MacLibraries, Gate, Retain, Copy, Digest, Execute
  <2>2. all \union links \subseteq Files[chain] /\ links \subseteq Reports
    BY GuestFiles DEF Libraries, MacLibraries, Reports
  <2>3. Done(2) /\ Done(6) /\ Done(7)
    BY DEF Done
  <2> QED BY <2>1, <2>2, <2>3 DEF Still, Since
<1>2. /\ Passes(2, Equal({"libart.so", "libc.so"}, "art.link", "icu.link"))
      /\ Passes(2, Equal({"libart.so", "libc.so"}, "art.link", "core.link"))
      /\ Passes(2, Equal({"libicu.so"}, "icu.link", "core.link"))
      /\ Passes(2, Verify({"libc.so", "libart.so", "libart.mac"}, "art.link"))
      /\ Passes(2, Verify({"libicu.so", "libicu.mac"}, "icu.link"))
      /\ Passes(2, Verify({"libcore.so", "libcore.mac"}, "core.link"))
  <2>1. Done(2)
    BY <1>1 DEF Still
  <2> QED BY <2>1, RuntimeGuestGate2
<1>3. \A x \in all : run.rep.files[x] = disk[x]
  <2>1. Program[6] = Digest(all)
    BY RuntimeGuestIs
  <2> QED BY <2>1, <1>1, KnowDigest
<1>4. /\ disk["art.link"].files["libart.so"] = disk["icu.link"].files["libart.so"]
      /\ disk["art.link"].files["libc.so"] = disk["icu.link"].files["libc.so"]
      /\ disk["art.link"].files["libart.so"] = disk["core.link"].files["libart.so"]
      /\ disk["art.link"].files["libc.so"] = disk["core.link"].files["libc.so"]
      /\ disk["icu.link"].files["libicu.so"] = disk["core.link"].files["libicu.so"]
  BY <1>1, <1>2, KnowEqual
<1>5. /\ \A r \in links : Whole(r)
      /\ disk["libart.so"] = disk["art.link"].files["libart.so"]
      /\ disk["libc.so"] = disk["art.link"].files["libc.so"]
      /\ disk["libicu.so"] = disk["icu.link"].files["libicu.so"]
      /\ disk["libcore.so"] = disk["core.link"].files["libcore.so"]
  <2>1. \A r \in links : Still(2, r)
    BY <1>1
  <2>2. \A x \in Libraries \union MacLibraries : Still(2, x)
    BY <1>1
  <2>3. \A r \in links : Whole(r)
    BY <2>1, <1>2, KnowEqual
  <2>4. /\ disk["libart.so"] = disk["art.link"].files["libart.so"]
        /\ disk["libc.so"] = disk["art.link"].files["libc.so"]
    <3>1. \A x \in {"libc.so", "libart.so", "libart.mac"} : Still(2, x)
      BY <2>2 DEF Libraries, MacLibraries
    <3> QED BY <3>1, <2>1, <1>2, KnowVerify
  <2>5. disk["libicu.so"] = disk["icu.link"].files["libicu.so"]
    <3>1. \A x \in {"libicu.so", "libicu.mac"} : Still(2, x)
      BY <2>2 DEF Libraries, MacLibraries
    <3> QED BY <3>1, <2>1, <1>2, KnowVerify
  <2>6. disk["libcore.so"] = disk["core.link"].files["libcore.so"]
    <3>1. \A x \in {"libcore.so", "libcore.mac"} : Still(2, x)
      BY <2>2 DEF Libraries, MacLibraries
    <3> QED BY <3>1, <2>1, <1>2, KnowVerify
  <2> QED BY <2>3, <2>4, <2>5, <2>6
<1>6. \A r \in links : Truth(r, disk[r])
  BY <1>1, <1>5 DEF Honest, Still
<1>7. Together(disk)
  <2>1. /\ Uses(disk["art.link"].files, "libart.so", {"libc.so"})
        /\ Uses(disk["icu.link"].files, "libicu.so", {"libc.so", "libart.so"})
        /\ Uses(disk["core.link"].files, "libcore.so",
                {"libc.so", "libart.so", "libicu.so"})
    BY <1>6 DEF Truth
  <2> QED BY <2>1, <1>4, <1>5 DEF Together, Uses
<1>8. Together(run.rep.files)
  BY <1>7, <1>3 DEF Together, Uses, Libraries
<1>9. run.rep.passed => Ran(run.rep.files, MacLibraries \union {"root.dex"})
  <2> DEFINE S == MacLibraries \union {"root.dex"}
  <2>1. Program[7] = Execute(S) /\ Done(7) /\ run.pc - 1 = 7
    BY RuntimeGuestIs DEF Done
  <2>2. run.rep.passed => Restricted(disk, S) \in passed
    BY <2>1, <1>1, KnowExecute
  <2>3. \A f \in S : run.rep.files[f] = disk[f]
    BY <1>3
  <2> QED BY <2>2, <2>3, RanOf
<1> QED BY <1>8, <1>9

\* The manifest of the guest: what was executed on the Mac wraps the very ELF
\* files the device frameworks wrap, because both do wrap the ones staged.
LEMMA GuestStaged ==
  ASSUME Placed, Knows, Honest, run # Idle, chain = "guest", Program = GuestIos,
         run.pc = 4
  PROVE Together(run.rep.files) /\ Shipped(run.rep.files)
<1> DEFINE files == run.rep.files
           root == {"root.dex"}
           r == disk["runtime.rep"]
<1>1. /\ \A x \in Libraries \union MacLibraries \union IosLibraries \union root :
             Still(2, x)
      /\ \A x \in Libraries \union IosLibraries \union root : Still(3, x)
      /\ Still(2, "runtime.rep") /\ "runtime.rep" \in Reports
      /\ \A j \in 3..3 : Program[j].op # "revision"
  BY GuestIosIs, GuestFiles
     DEF Still, Done, Since, Touches, Writes, Libraries, MacLibraries, IosLibraries,
         Reports, Gate, Revision, Digest, Save
<1>2. /\ Passes(2, Require("runtime.rep", {"commit", "passed"}))
      /\ Passes(2, Verify(Libraries \union MacLibraries, "runtime.rep"))
      /\ Passes(2, Verify(root, "runtime.rep"))
      /\ Passes(2, Wraps({"libc.mac", "libc.ios"}, {"libc.so"}))
      /\ Passes(2, Wraps({"libart.mac", "libart.ios"}, {"libart.so"}))
      /\ Passes(2, Wraps({"libicu.mac", "libicu.ios"}, {"libicu.so"}))
      /\ Passes(2, Wraps({"libcore.mac", "libcore.ios"}, {"libcore.so"}))
  <2>1. Done(2)
    BY <1>1 DEF Still
  <2> QED BY <2>1, GuestIosGate2
<1>3. /\ DOMAIN files \subseteq Libraries \union IosLibraries \union root
      /\ \A x \in Libraries \union IosLibraries \union root : files[x] = disk[x]
  <2>1. Program[3] = Digest(Libraries \union IosLibraries \union root)
    BY GuestIosIs
  <2>2. \A x \in Libraries \union IosLibraries \union root : files[x] = disk[x]
    BY <2>1, <1>1, KnowDigest
  <2>3. \A i : Done(i) => i \in 1..3
    BY DEF Done
  <2>4. \A i \in 1..3 : /\ Program[i].op # "draft"
                        /\ Program[i].op = "digest" => i = 3
    BY GuestIosIs DEF Gate, Revision, Digest
  <2>5. Program[3].files = Libraries \union IosLibraries \union root
    BY <2>1 DEF Digest
  <2>6. Listed
    BY DEF Knows
  <2> QED BY <2>2, <2>3, <2>4, <2>5, <2>6 DEF Listed
<1>4. Whole("runtime.rep") /\ r.passed
  <2>1. Whole("runtime.rep") /\ Has("runtime.rep", "passed")
    BY <1>1, <1>2, KnowRequire
  <2> QED BY <2>1 DEF Has
<1>5. /\ \A x \in Libraries \union MacLibraries : disk[x] = r.files[x]
      /\ \A x \in root : disk[x] = r.files[x]
  BY <1>1, <1>2, KnowVerify
<1>6. Together(r.files) /\ Ran(r.files, MacLibraries \union root)
  BY <1>1, <1>4 DEF Honest, Truth, Still
<1>7. Together(files)
  BY <1>3, <1>5, <1>6 DEF Together, Uses, Libraries
<1>8. PICK e \in passed : /\ DOMAIN e = MacLibraries \union root
                          /\ \A f \in MacLibraries \union root : e[f] = disk[f]
  BY <1>5, <1>6 DEF Ran
<1>9. /\ \A f \in {"libc.mac", "libc.ios"} : disk[f].of = Restricted(disk, {"libc.so"})
      /\ \A f \in {"libart.mac", "libart.ios"} :
            disk[f].of = Restricted(disk, {"libart.so"})
      /\ \A f \in {"libicu.mac", "libicu.ios"} :
            disk[f].of = Restricted(disk, {"libicu.so"})
      /\ \A f \in {"libcore.mac", "libcore.ios"} :
            disk[f].of = Restricted(disk, {"libcore.so"})
  <2>1. /\ \A f \in {"libc.mac", "libc.ios"} \union {"libc.so"} : Still(2, f)
        /\ \A f \in {"libart.mac", "libart.ios"} \union {"libart.so"} : Still(2, f)
        /\ \A f \in {"libicu.mac", "libicu.ios"} \union {"libicu.so"} : Still(2, f)
        /\ \A f \in {"libcore.mac", "libcore.ios"} \union {"libcore.so"} : Still(2, f)
    BY <1>1 DEF Libraries, MacLibraries, IosLibraries
  <2> QED BY <2>1, <1>2, KnowWraps
<1>10. \A f \in Frameworks["guest"] :
         /\ f[1] \in MacLibraries /\ f[2] \in IosLibraries
         /\ \E elf \in Libraries : /\ disk[f[1]].of = Restricted(disk, {elf})
                                   /\ disk[f[2]].of = Restricted(disk, {elf})
  BY <1>9 DEF Frameworks, Libraries, MacLibraries, IosLibraries
<1>11. \A f \in Frameworks["guest"] :
         /\ f[1] \in DOMAIN e
         /\ e[f[1]].of = files[f[2]].of
         /\ \A lib \in DOMAIN files[f[2]].of : files[f[2]].of[lib] = files[lib]
  <2> TAKE f \in Frameworks["guest"]
  <2>1. PICK elf \in Libraries : /\ disk[f[1]].of = Restricted(disk, {elf})
                                 /\ disk[f[2]].of = Restricted(disk, {elf})
    BY <1>10
  <2>2. /\ files[f[2]] = disk[f[2]] /\ files[elf] = disk[elf]
        /\ f[1] \in DOMAIN e /\ e[f[1]] = disk[f[1]]
    BY <1>3, <1>8, <1>10
  <2>3. DOMAIN disk[f[2]].of = {elf} /\ disk[f[2]].of[elf] = disk[elf]
    BY <2>1 DEF Restricted
  <2> QED BY <2>1, <2>2, <2>3
<1>12. \A f \in DOMAIN e \intersect DOMAIN files : e[f] = files[f]
  <2>1. MacLibraries \intersect (Libraries \union IosLibraries \union root) = {}
    BY DEF MacLibraries, Libraries, IosLibraries
  <2> QED BY <2>1, <1>3, <1>8
<1> QED BY <1>7, <1>11, <1>12 DEF Shipped

\* The manifest of the libc suite.
LEMMA SuiteStaged ==
  ASSUME Placed, Knows, Honest, run # Idle, chain = "suite", Program = SuiteIos,
         run.pc = 4
  PROVE Shipped(run.rep.files)
<1> DEFINE files == run.rep.files
           r == disk["libc.rep"]
<1>1. /\ \A x \in {"libc.so", "libc.ios"} : Still(2, x) /\ Still(3, x)
      /\ Still(2, "libc.rep") /\ "libc.rep" \in Reports
      /\ \A j \in 3..3 : Program[j].op # "revision"
  BY SuiteIosIs, SuiteFiles
     DEF Still, Done, Since, Touches, Writes, Reports, Gate, Revision, Digest, Save
<1>2. /\ Passes(2, Require("libc.rep", {"commit", "passed"}))
      /\ Passes(2, Verify({"libc.so", "libc.ios"}, "libc.rep"))
      /\ Passes(2, Wraps({"libc.ios"}, {"libc.so"}))
  <2>1. Done(2)
    BY <1>1 DEF Still
  <2> QED BY <2>1, SuiteIosGate2
<1>3. /\ DOMAIN files \subseteq {"libc.so", "libc.ios"}
      /\ \A x \in {"libc.so", "libc.ios"} : files[x] = disk[x]
  <2>1. Program[3] = Digest({"libc.so", "libc.ios"})
    BY SuiteIosIs
  <2>2. \A x \in {"libc.so", "libc.ios"} : files[x] = disk[x]
    BY <2>1, <1>1, KnowDigest
  <2>3. \A i : Done(i) => i \in 1..3
    BY DEF Done
  <2>4. \A i \in 1..3 : /\ Program[i].op # "draft"
                        /\ Program[i].op = "digest" => i = 3
    BY SuiteIosIs DEF Gate, Revision, Digest
  <2>5. Program[3].files = {"libc.so", "libc.ios"}
    BY <2>1 DEF Digest
  <2>6. Listed
    BY DEF Knows
  <2> QED BY <2>2, <2>3, <2>4, <2>5, <2>6 DEF Listed
<1>4. Whole("libc.rep") /\ r.passed
  <2>1. Whole("libc.rep") /\ Has("libc.rep", "passed")
    BY <1>1, <1>2, KnowRequire
  <2> QED BY <2>1 DEF Has
<1>5. \A x \in {"libc.so", "libc.ios"} : disk[x] = r.files[x]
  BY <1>1, <1>2, KnowVerify
<1>6. LibcTrue(r)
  BY <1>1, <1>4 DEF Honest, Truth, Still
<1>7. PICK e \in passed : DOMAIN e = {"libc.mac"} /\ e["libc.mac"] = r.files["libc.mac"]
  BY <1>4, <1>6 DEF LibcTrue, Ran
<1>8. disk["libc.ios"].of = Restricted(disk, {"libc.so"})
  <2>1. \A f \in {"libc.ios"} \union {"libc.so"} : Still(2, f)
    BY <1>1
  <2> QED BY <2>1, <1>2, KnowWraps
<1>9. r.files["libc.mac"].of = Restricted(disk, {"libc.so"})
  BY <1>5, <1>6 DEF LibcTrue, Packed, Restricted
<1>10. Frameworks["suite"] = {<<"libc.mac", "libc.ios">>}
  BY DEF Frameworks
<1>11. \A f \in Frameworks["suite"] :
         /\ f[1] \in DOMAIN e
         /\ e[f[1]].of = files[f[2]].of
         /\ \A lib \in DOMAIN files[f[2]].of : files[f[2]].of[lib] = files[lib]
  BY <1>3, <1>7, <1>8, <1>9, <1>10 DEF Restricted
<1>12. \A f \in DOMAIN e \intersect DOMAIN files : e[f] = files[f]
  BY <1>3, <1>7
<1> QED BY <1>11, <1>12 DEF Shipped

\* The record of the executed services.
LEMMA ServiceSaved ==
  ASSUME Placed, Knows, run # Idle, Program = ServiceGuest, run.pc = 13, run.rep.passed
  PROVE Ran(run.rep.files, {"service.mac"})
<1>1. /\ Still(11, "service.mac") /\ Still(12, "service.mac")
      /\ \A j \in 13..12 : Program[j].op # "execute"
  BY ServiceGuestIs, ServiceGuestOutputs, OwnFiles
     DEF Still, Done, Since, Touches, Writes, Digest, Execute, Save
<1>2. run.rep.files["service.mac"] = disk["service.mac"]
  <2>1. Program[11] = Digest(ServiceLibraries \union {"service.mac", "service.ios"})
    BY ServiceGuestIs
  <2> QED BY <2>1, <1>1, KnowDigest
<1>3. Restricted(disk, {"service.mac"}) \in passed
  <2>1. Program[12] = Execute({"service.mac"}) /\ Done(12) /\ run.pc - 1 = 12
    BY <1>1, ServiceGuestIs DEF Still
  <2> QED BY <2>1, <1>1, KnowExecute
<1> QED BY <1>2, <1>3, RanOf

\* The manifest of the services.
LEMMA ServiceStaged ==
  ASSUME Placed, Knows, Honest, run # Idle, chain = "service", Program = ServiceIos,
         run.pc = 4
  PROVE Shipped(run.rep.files)
<1> DEFINE files == run.rep.files
           r == disk["service.guest"]
           own == ServiceLibraries \union {"service.ios"}
           signed == {"service.mac", "service.ios"}
<1>1. /\ \A x \in ServiceLibraries \union signed \union {"svc.src"} : Still(2, x)
      /\ \A x \in own : Still(3, x)
      /\ Still(2, "service.guest") /\ "service.guest" \in Reports
      /\ \A j \in 3..3 : Program[j].op # "revision"
  BY ServiceIosIs, ServiceFiles
     DEF Still, Done, Since, Touches, Writes, ServiceLibraries, Reports, Gate, Revision,
         Digest, Save
<1>2. /\ Passes(2, Require("service.guest", {"passed", "clean", "commit"}))
      /\ Passes(2, Verify(signed, "service.guest"))
      /\ Passes(2, Wraps(signed, ServiceLibraries))
  <2>1. Done(2)
    BY <1>1 DEF Still
  <2> QED BY <2>1, ServiceIosGate2
<1>3. DOMAIN files \subseteq own /\ \A x \in own : files[x] = disk[x]
  <2>1. Program[3] = Digest(own)
    BY ServiceIosIs
  <2>2. \A x \in own : files[x] = disk[x]
    BY <2>1, <1>1, KnowDigest
  <2>3. \A i : Done(i) => i \in 1..3
    BY DEF Done
  <2>4. \A i \in 1..3 : /\ Program[i].op # "draft"
                        /\ Program[i].op = "digest" => i = 3
    BY ServiceIosIs DEF Gate, Revision, Digest
  <2>5. Program[3].files = own
    BY <2>1 DEF Digest
  <2>6. Listed
    BY DEF Knows
  <2> QED BY <2>2, <2>3, <2>4, <2>5, <2>6 DEF Listed
<1>4. Whole("service.guest") /\ r.passed
  <2>1. Whole("service.guest") /\ Has("service.guest", "passed")
    BY <1>1, <1>2, KnowRequire
  <2> QED BY <2>1 DEF Has
<1>5. \A x \in signed : disk[x] = r.files[x]
  BY <1>1, <1>2, KnowVerify
<1>6. Ran(r.files, {"service.mac"})
  BY <1>1, <1>4 DEF Honest, Truth, Still
<1>7. PICK e \in passed : DOMAIN e = {"service.mac"} /\ e["service.mac"] = disk["service.mac"]
  BY <1>5, <1>6 DEF Ran
<1>8. \A f \in signed : disk[f].of = Restricted(disk, ServiceLibraries)
  <2>1. \A f \in signed \union ServiceLibraries : Still(2, f)
    BY <1>1
  <2>2. Passes(2, Wraps(signed, ServiceLibraries)) /\ Knows /\ run # Idle
    BY <1>2
  <2> HIDE DEF signed
  <2> QED BY ONLY <2>1, <2>2, KnowWraps
<1>9. disk["service.ios"].of = Restricted(files, ServiceLibraries)
  BY <1>3, <1>8 DEF Restricted
<1>10. Frameworks["service"] = {<<"service.mac", "service.ios">>}
  BY DEF Frameworks
<1>11. \A f \in Frameworks["service"] :
         /\ f[1] \in DOMAIN e
         /\ e[f[1]].of = files[f[2]].of
         /\ \A lib \in DOMAIN files[f[2]].of : files[f[2]].of[lib] = files[lib]
  BY <1>3, <1>7, <1>8, <1>9, <1>10 DEF Restricted
<1>12. \A f \in DOMAIN e \intersect DOMAIN files : e[f] = files[f]
  BY <1>3, <1>7 DEF ServiceLibraries
<1> QED BY <1>11, <1>12 DEF Shipped

\* The record of the parser: the reference is of the objects it lists.
LEMMA BuildSaved ==
  ASSUME Knows, chain = "parser", run # Idle, Program = BuildKernelConfig, run.pc = 14
  PROVE Uses(run.rep.files, "parser.ref", Objects)
<1>1. /\ \A f \in Objects : Still(5, f) /\ Still(6, f)
      /\ Still(6, "parser.ref") /\ Still(10, "parser.ref")
  BY BuildKernelConfigIs, ParserFiles
     DEF Still, Done, Since, Touches, Writes, Objects, Make, Save, Digest, Record,
         Revision, Status
<1>2. \A f \in Objects : run.rep.files[f] = disk[f]
  BY <1>1, KnowDigest, BuildKernelConfigIs DEF Objects
<1>3. run.rep.files["parser.ref"] = disk["parser.ref"]
  BY <1>1, KnowDigest, BuildKernelConfigIs
<1>4. \A f \in Objects : disk["parser.ref"].of[f] = disk[f]
  <2>1. Program[6] = Make("parser.ref", {}, Objects)
    BY BuildKernelConfigIs DEF Objects
  <2>2. \A f \in Objects : f # "parser.ref"
    BY DEF Objects
  <2> QED BY <2>1, <2>2, <1>1, KnowMake
<1> QED BY <1>2, <1>3, <1>4 DEF Uses

\* When the result is saved, the reference that is there has been executed,
\* and is of the objects that are there.
LEMMA ResultSaved ==
  ASSUME Knows, Honest, chain = "parser", run # Idle, Program = ParserReference,
         run.pc = 6, run.rep.passed
  PROVE ReferenceRan(run.rep.files)
<1>1. /\ \A f \in Objects : Still(3, f) /\ Still(5, f)
      /\ Still(3, "parser.ref") /\ Still(4, "parser.ref") /\ Still(3, "parser.rep")
      /\ Still(3, "parser.src") /\ "parser.rep" \in Reports
      /\ \A j \in 5..5 : Program[j].op # "execute"
  BY ParserReferenceIs, ParserFiles
     DEF Still, Done, Since, Touches, Writes, Objects, Save, Digest, Execute, Reports
<1>2. \A f \in Objects : run.rep.files[f] = disk[f]
  BY <1>1, KnowDigest, ParserReferenceIs DEF Objects
<1>3. /\ Passes(3, Verify(Objects, "parser.rep"))
      /\ Passes(3, Verify({"parser.ref", "parser.src"}, "parser.rep"))
  BY <1>1, ParserReferenceGate3 DEF Still, Objects
<1>4. \A f \in Objects : Whole("parser.rep") /\ disk[f] = disk["parser.rep"].files[f]
  BY <1>1, <1>3, KnowVerify
<1>5. /\ Whole("parser.rep")
      /\ disk["parser.ref"] = disk["parser.rep"].files["parser.ref"]
  BY <1>1, <1>3, KnowVerify
<1>6. \A o \in Objects : disk["parser.ref"].of[o] = disk[o]
  <2>1. Uses(disk["parser.rep"].files, "parser.ref", Objects)
    BY <1>1, <1>5 DEF Honest, Truth, Still
  <2> QED BY <2>1, <1>4, <1>5 DEF Uses
<1>7. Restricted(disk, {"parser.ref"}) \in passed
  <2>1. Program[4] = Execute({"parser.ref"}) /\ run.pc - 1 = 5 /\ Done(4)
    BY <1>1, ParserReferenceIs DEF Still
  <2> QED BY <2>1, <1>1, KnowExecute
<1> QED BY <1>2, <1>6, <1>7 DEF ReferenceRan, Restricted

\* The records of the Linux builds.
LEMMA HarnessSaved ==
  ASSUME Placed, Knows, run # Idle, chain = "linux", Program = LinuxRuntime,
         run.pc \in {9, 14}
  PROVE LinuxTrue("art.build", run.rep.files)
<1>1. ASSUME "art.harness" \in DOMAIN run.rep.files
      PROVE Uses(run.rep.files, "art.harness", {"libart.so"})
  <2>1. run.pc = 14
    BY <1>1, LinuxRuntimeIs DEF Knows, Listed, Done, Make, Revision, Digest, Record,
       Compile, Draft
  <2>2. /\ Still(12, "libart.so") /\ Still(12, "art.harness")
        /\ Still(13, "libart.so") /\ Still(13, "art.harness")
    BY <2>1, LinuxRuntimeIs, LinuxFiles
       DEF Still, Done, Since, Touches, Writes, Digest, Save, Make
  <2>3. /\ run.rep.files["libart.so"] = disk["libart.so"]
        /\ run.rep.files["art.harness"] = disk["art.harness"]
    BY <2>2, KnowDigest, LinuxRuntimeIs
  <2>4. disk["art.harness"].of["libart.so"] = disk["libart.so"]
    BY <2>2, KnowMake, LinuxRuntimeIs
  <2> QED BY <2>3, <2>4 DEF Uses
<1> QED BY <1>1 DEF LinuxTrue

\* Every save of the record of the Linux ICU libraries.
LEMMA NativeSaved ==
  ASSUME Placed, Knows, run # Idle, chain = "linux", Program = LinuxNative,
         run.pc \in {9, 17}
  PROVE LinuxTrue("icu.build", run.rep.files)
<1>1. ASSUME "libicu.so" \in DOMAIN run.rep.files
      PROVE Uses(run.rep.files, "libicu.so", {"icu.libart"})
  <2>1. run.pc = 17
    BY <1>1, LinuxNativeIs DEF Knows, Listed, Done, Make, Revision, Digest, Record,
       Compile, Draft, Gate, Copy
  <2>2. /\ Still(12, "icu.libart") /\ Still(12, "libicu.so")
        /\ Still(16, "icu.libart") /\ Still(16, "libicu.so")
    BY <2>1, LinuxNativeIs, LinuxFiles
       DEF Still, Done, Since, Touches, Writes, Digest, Save, Make, Gate, Execute
  <2>3. /\ run.rep.files["libicu.so"] = disk["libicu.so"]
        /\ run.rep.files["icu.libart"] = disk["icu.libart"]
    BY <2>2, KnowDigest, LinuxNativeIs
  <2>4. disk["libicu.so"].of["icu.libart"] = disk["icu.libart"]
    BY <2>2, KnowMake, LinuxNativeIs
  <2> QED BY <2>3, <2>4 DEF Uses
<1> QED BY <1>1 DEF LinuxTrue

\* The last one copies what the others verified.
LEMMA LibcoreSaved ==
  ASSUME Placed, Knows, Honest, run # Idle, chain = "linux", Program = LinuxLibcore,
         run.pc \in {11, 14, 16, 21}
  PROVE LinuxTrue("core.build", run.rep.files)
<1> DEFINE ins == {"core.libart", "core.libicu"}
           native == {"libicu.so", "icu.libart", "icu.harness"}
<1>1. ASSUME "libcore.so" \in DOMAIN run.rep.files
      PROVE /\ Uses(run.rep.files, "libcore.so", ins)
            /\ run.rep.files["core.libicu"].of["icu.libart"]
                 = run.rep.files["core.libart"]
  <2>1. run.pc = 21
    <3>1. PICK i : /\ Done(i)
                   /\ \/ Program[i].op = "digest" /\ "libcore.so" \in Program[i].files
                      \/ Program[i].op = "draft" /\ "libcore.so" = Program[i].name
      BY <1>1 DEF Knows, Listed
    <3>2. i \in 1..20
      BY <3>1 DEF Done
    <3>3. \A k \in 1..16 : /\ Program[k].op # "draft"
                           /\ Program[k].op = "digest" => "libcore.so" \notin Program[k].files
      BY LinuxLibcoreIs DEF Make, Revision, Digest, Record, Compile, Gate, Copy, Save
    <3> QED BY <3>1, <3>2, <3>3 DEF Done
  <2>a. \A j \in 3..20 : /\ \A x \in native \union {"icu.build"} : ~Touches(Program[j], x)
                         /\ j > 3 => ~Touches(Program[j], "core.libart")
                         /\ j > 4 => ~Touches(Program[j], "core.libicu")
                         /\ j > 15 => ~Touches(Program[j], "libcore.so")
    BY LinuxLibcoreIs
       DEF Touches, Writes, Digest, Save, Make, Gate, Execute, Copy, Revision, Record,
           Compile
  <2>b. /\ native \union ins \union {"icu.build", "libcore.so"} \subseteq Files[chain]
        /\ "icu.build" \in Reports
    BY LinuxFiles DEF Reports
  <2>c. Done(2) /\ Done(3) /\ Done(4) /\ Done(15) /\ Done(20)
    BY <2>1 DEF Done
  <2>2. /\ \A x \in ins : Still(15, x) /\ Still(20, x)
        /\ Still(15, "libcore.so") /\ Still(20, "libcore.so")
        /\ Still(3, "icu.libart") /\ Still(3, "core.libart")
        /\ Still(4, "libicu.so") /\ Still(4, "core.libicu")
        /\ \A x \in native : Still(2, x)
        /\ Still(2, "icu.build") /\ "icu.build" \in Reports
    BY <2>1, <2>a, <2>b, <2>c DEF Still, Since
  <2>3. /\ run.rep.files["libcore.so"] = disk["libcore.so"]
        /\ \A x \in ins : run.rep.files[x] = disk[x]
    BY <2>2, KnowDigest, LinuxLibcoreIs
  <2>4. \A x \in ins : disk["libcore.so"].of[x] = disk[x]
    BY <2>2, KnowMake, LinuxLibcoreIs
  <2>5. disk["core.libart"] = disk["icu.libart"] /\ disk["core.libicu"] = disk["libicu.so"]
    BY <2>2, KnowCopy, LinuxLibcoreIs
  <2>6. Passes(2, Verify(native, "icu.build"))
    BY <2>2, LinuxLibcoreGate2 DEF Still
  <2>7. \A x \in native : Whole("icu.build") /\ disk[x] = disk["icu.build"].files[x]
                          /\ x \in DOMAIN disk["icu.build"].files
    BY <2>2, <2>6, KnowVerify
  <2>8. disk["libicu.so"].of["icu.libart"] = disk["icu.libart"]
    <3>1. LinuxTrue("icu.build", disk["icu.build"].files)
      BY <2>2, <2>7 DEF Honest, Truth, Still
    <3> QED BY <3>1, <2>7 DEF LinuxTrue, Uses
  <2> QED BY <2>3, <2>4, <2>5, <2>8 DEF Uses
<1> QED BY <1>1 DEF LinuxTrue

-----------------------------------------------------------------------------
(* So every record that is there is true, whatever is edited, killed or    *)
(* run again.                                                              *)

\* The record a script puts together is true when it is saved.
LEMMA SavedIsTrue ==
  ASSUME Placed, Knows, Honest, run # Idle, NEW r \in Reports, Results(Op, r)
  PROVE Op.op = "save" /\ Truth(r, run.rep)
<1>1. chain \in {"guest", "suite", "service", "linux", "parser"}
  BY DEF Placed, Programs
<1>2. CASE chain = "guest"
  BY <1>2, GuestSaves, LibcSaved, ArtLinkSaved, IcuLinkSaved, LibcoreLinkSaved,
     RuntimeSaved, GuestStaged DEF Truth
<1>3. CASE chain = "suite"
  BY <1>3, SuiteSaves, LibcSaved, SuiteStaged DEF Truth
<1>4. CASE chain = "service"
  BY <1>4, ServiceSaves, LibcSaved, ServiceSaved, ServiceStaged DEF Truth
<1>5. CASE chain = "linux"
  BY <1>5, LinuxSaves, HarnessSaved, NativeSaved, LibcoreSaved DEF Truth, LinuxTrue
<1>6. CASE chain = "parser"
  BY <1>6, ParserSaves, LibcSaved, ArtLinkSaved, BuildSaved, ResultSaved DEF Truth
<1> QED BY <1>1, <1>2, <1>3, <1>4, <1>5, <1>6

\* Every step keeps the records true.
LEMMA HonestKept ==
  ASSUME Placed, Knows, Honest, Next
  PROVE Honest'
<1>1. chain' = chain /\ passed \subseteq passed'
  BY ChainKept, PassedChanges
<1> SUFFICES ASSUME NEW r \in Reports, r \in Files[chain], NEW rec, disk'[r] = rec,
                    Whole(r)'
             PROVE Truth(r, rec)'
  BY <1>1 DEF Honest
<1>2. CASE disk'[r] = disk[r]
  <2>1. Truth(r, rec)
    BY <1>2 DEF Honest, Whole
  <2> QED BY <2>1, <1>1, TruthStays
<1>3. CASE disk'[r] # disk[r]
  <2>1. disk'[r] \notin {Absent, Partial}
    BY DEF Whole, Absent, Partial
  <2>2. run # Idle /\ Results(Op, r) /\ (Op.op # "retain" => disk'[r] = Produced)
    BY <2>1, <1>3, ReportChanges
  <2>3. Op.op = "save" /\ Truth(r, run.rep)
    BY <2>2, SavedIsTrue
  <2>4. rec = run.rep
    BY <2>2, <2>3 DEF Produced
  <2>5. Truth(r, rec)
    BY <2>3, <2>4
  <2> QED BY <2>5, <1>1, TruthStays
<1> QED BY <1>2, <1>3

\* No record ever lies.
THEOREM RecordsAreTrue == Spec => []Honest
<1>1. Init => Honest
  <2> SUFFICES ASSUME Init PROVE Honest
    OBVIOUS
  <2>1. \A r \in Files[chain] : ~Whole(r)
    BY DEF Init, Whole, Absent
  <2> QED BY <2>1 DEF Honest
<1>2. Placed /\ Knows /\ Honest /\ [Next]_vars => Honest'
  <2>1. ASSUME Honest, UNCHANGED vars PROVE Honest'
    <3> SUFFICES ASSUME NEW r \in Reports, r \in Files[chain], NEW rec, disk'[r] = rec,
                        Whole(r)'
                 PROVE Truth(r, rec)'
      BY <2>1 DEF Honest, vars
    <3>1. Truth(r, rec)
      BY <2>1 DEF Honest, Whole, vars
    <3> QED BY <2>1, <3>1, TruthStays DEF vars
  <2> QED BY <2>1, HonestKept
<1> QED BY <1>1, <1>2, ScriptsKnow, PTL DEF Spec

\* Every staged library was linked against the very libraries staged with
\* it, though each link reads them from directories other scripts write.
THEOREM LinkedTogetherAlways == Spec => []LinkedTogether
<1>1. Placed /\ Honest => LinkedTogether
  BY GuestFiles DEF LinkedTogether, Honest, Truth, Staged, Together, Uses, Reports
<1> QED BY <1>1, ScriptsKnow, RecordsAreTrue, PTL

\* What ships wraps what one successful execution ran, all at once.
THEOREM ShippedWasExecuted == Spec => []ShippedExecuted
<1>1. Placed /\ Honest => ShippedExecuted
  <2> SUFFICES ASSUME Placed, Honest, Staged({"guest", "suite", "service"})
               PROVE Shipped(disk["staged"].files)
    BY DEF ShippedExecuted, Shipped
  <2>1. "staged" \in Reports \intersect Files[chain]
    BY GuestFiles, SuiteFiles, ServiceFiles DEF Staged, Reports
  <2> QED BY <2>1 DEF Honest, Truth, Staged
<1> QED BY <1>1, ScriptsKnow, RecordsAreTrue, PTL

-----------------------------------------------------------------------------
(* What the scripts execute.                                               *)

(* Executing these is what the last scripts of two chains are for.         *)
Targets == {"art.harness", "kc.mac"}

\* BuildBionic executes none of them.
LEMMA BuildBionicExecutes ==
  \A i \in DOMAIN BuildBionic :
    BuildBionic[i].op = "execute" => Targets \intersect BuildBionic[i].files =
     {}
  BY BuildBionicIs DEF Targets, Digest, Make, Save

\* BionicStartup executes none of them.
LEMMA BionicStartupExecutes ==
  \A i \in DOMAIN BionicStartup :
    BionicStartup[i].op = "execute" => Targets \intersect
     BionicStartup[i].files = {}
  BY BionicStartupIs DEF Targets, Digest, Execute, Gate, Make, Revision, Save

\* BuildArtRuntime executes none of them.
LEMMA BuildArtRuntimeExecutes ==
  \A i \in DOMAIN BuildArtRuntime :
    BuildArtRuntime[i].op = "execute" => Targets \intersect
     BuildArtRuntime[i].files = {}
  BY BuildArtRuntimeIs DEF Targets, Compile, Digest, Gate, Make, Record,
     Revision, Save

\* BuildArtNativeLibraries executes none of them.
LEMMA BuildArtNativeLibrariesExecutes ==
  \A i \in DOMAIN BuildArtNativeLibraries :
    BuildArtNativeLibraries[i].op = "execute" => Targets \intersect
     BuildArtNativeLibraries[i].files = {}
  BY BuildArtNativeLibrariesIs DEF Targets, Compile, Digest, Gate, Make,
     Record, Revision, Save

\* BuildArtLibcore executes none of them.
LEMMA BuildArtLibcoreExecutes ==
  \A i \in DOMAIN BuildArtLibcore :
    BuildArtLibcore[i].op = "execute" => Targets \intersect
     BuildArtLibcore[i].files = {}
  BY BuildArtLibcoreIs DEF Targets, Compile, Digest, Gate, Make, Record,
     Revision, Save

\* LinkArtGuest executes none of them.
LEMMA LinkArtGuestExecutes ==
  \A i \in DOMAIN LinkArtGuest :
    LinkArtGuest[i].op = "execute" => Targets \intersect LinkArtGuest[i].files
     = {}
  BY LinkArtGuestIs DEF Targets, Digest, Gate, Make, Record, Revision, Save,
     Status

\* LinkIcuGuest executes none of them.
LEMMA LinkIcuGuestExecutes ==
  \A i \in DOMAIN LinkIcuGuest :
    LinkIcuGuest[i].op = "execute" => Targets \intersect LinkIcuGuest[i].files
     = {}
  BY LinkIcuGuestIs DEF Targets, Digest, Gate, Make, Record, Revision, Save,
     Status

\* LinkLibcoreGuest executes none of them.
LEMMA LinkLibcoreGuestExecutes ==
  \A i \in DOMAIN LinkLibcoreGuest :
    LinkLibcoreGuest[i].op = "execute" => Targets \intersect
     LinkLibcoreGuest[i].files = {}
  BY LinkLibcoreGuestIs DEF Targets, Digest, Gate, Make, Record, Revision,
     Save, Status

\* BuildArtClasslib executes none of them.
LEMMA BuildArtClasslibExecutes ==
  \A i \in DOMAIN BuildArtClasslib :
    BuildArtClasslib[i].op = "execute" => Targets \intersect
     BuildArtClasslib[i].files = {}
  BY BuildArtClasslibIs DEF Targets, Digest, Draft, Pack, Record, Revision,
     Save

\* RuntimeGuest executes none of them.
LEMMA RuntimeGuestExecutes ==
  \A i \in DOMAIN RuntimeGuest :
    RuntimeGuest[i].op = "execute" => Targets \intersect RuntimeGuest[i].files
     = {}
<1> DEFINE S == MacLibraries \union {"root.dex"}
<1>1. Targets \intersect S = {}
  BY DEF Targets, MacLibraries
<1> HIDE DEF S
<1>2. \A i \in DOMAIN RuntimeGuest : RuntimeGuest[i].op = "execute" =>
     RuntimeGuest[i].files = S
  BY RuntimeGuestIs DEF S, Copy, Digest, Execute, Gate, Retain, Revision, Save
<1> QED BY <1>1, <1>2

\* GuestIos executes none of them.
LEMMA GuestIosExecutes ==
  \A i \in DOMAIN GuestIos :
    GuestIos[i].op = "execute" => Targets \intersect GuestIos[i].files = {}
  BY GuestIosIs DEF Targets, Digest, Gate, Make, Revision, Save, Status, Unlink

\* SuiteIos executes none of them.
LEMMA SuiteIosExecutes ==
  \A i \in DOMAIN SuiteIos :
    SuiteIos[i].op = "execute" => Targets \intersect SuiteIos[i].files = {}
  BY SuiteIosIs DEF Targets, Digest, Gate, Make, Revision, Save, Status, Unlink

\* BinderAidl executes none of them.
LEMMA BinderAidlExecutes ==
  \A i \in DOMAIN BinderAidl :
    BinderAidl[i].op = "execute" => Targets \intersect BinderAidl[i].files = {}
  BY BinderAidlIs DEF Targets, Digest, Once, Record, Revision, Save, Unlink

\* Xsdc executes none of them.
LEMMA XsdcExecutes ==
  \A i \in DOMAIN Xsdc :
    Xsdc[i].op = "execute" => Targets \intersect Xsdc[i].files = {}
  BY XsdcIs DEF Targets, Digest, Gate, Held, Make, Record, Revision, Save,
     Unlink

\* BuildBinder executes none of them.
LEMMA BuildBinderExecutes ==
  \A i \in DOMAIN BuildBinder :
    BuildBinder[i].op = "execute" => Targets \intersect BuildBinder[i].files =
     {}
  BY BuildBinderIs DEF Targets, Digest, Gate, Held, Make, Record, Revision,
     Save, Unlink

\* BuildVintf executes none of them.
LEMMA BuildVintfExecutes ==
  \A i \in DOMAIN BuildVintf :
    BuildVintf[i].op = "execute" => Targets \intersect BuildVintf[i].files = {}
  BY BuildVintfIs DEF Targets, Digest, Gate, Held, Make, Record, Revision,
     Save, Unlink

\* BuildServicemanager executes none of them.
LEMMA BuildServicemanagerExecutes ==
  \A i \in DOMAIN BuildServicemanager :
    BuildServicemanager[i].op = "execute" => Targets \intersect
     BuildServicemanager[i].files = {}
  BY BuildServicemanagerIs DEF Targets, Digest, Gate, Held, Make, Record,
     Revision, Save, Status, Unlink

\* BuildKernelConfig executes none of them.
LEMMA BuildKernelConfigExecutes ==
  \A i \in DOMAIN BuildKernelConfig :
    BuildKernelConfig[i].op = "execute" => Targets \intersect
     BuildKernelConfig[i].files = {}
  BY BuildKernelConfigIs DEF Targets, Digest, Held, Make, Record, Revision,
     Save, Status, Unlink

\* ServiceGuest executes none of them.
LEMMA ServiceGuestExecutes ==
  \A i \in DOMAIN ServiceGuest :
    ServiceGuest[i].op = "execute" => Targets \intersect ServiceGuest[i].files
     = {}
  BY ServiceGuestIs DEF Targets, Digest, Execute, Gate, Make, Record, Revision,
     Save, Status

\* ServiceIos executes none of them.
LEMMA ServiceIosExecutes ==
  \A i \in DOMAIN ServiceIos :
    ServiceIos[i].op = "execute" => Targets \intersect ServiceIos[i].files = {}
  BY ServiceIosIs DEF Targets, Digest, Gate, Make, Revision, Save, Status,
     Unlink

\* LinuxRuntime executes none of them.
LEMMA LinuxRuntimeExecutes ==
  \A i \in DOMAIN LinuxRuntime :
    LinuxRuntime[i].op = "execute" => Targets \intersect LinuxRuntime[i].files
     = {}
  BY LinuxRuntimeIs DEF Targets, Compile, Digest, Gate, Make, Record, Revision,
     Save

\* LinuxNative executes none of them.
LEMMA LinuxNativeExecutes ==
  \A i \in DOMAIN LinuxNative :
    LinuxNative[i].op = "execute" => Targets \intersect LinuxNative[i].files =
     {}
  BY LinuxNativeIs DEF Targets, Compile, Copy, Digest, Execute, Gate, Make,
     Record, Revision, Save

\* LinuxLibcore executes none of them.
LEMMA LinuxLibcoreExecutes ==
  \A i \in DOMAIN LinuxLibcore :
    LinuxLibcore[i].op = "execute" => Targets \intersect LinuxLibcore[i].files
     = {}
  BY LinuxLibcoreIs DEF Targets, Compile, Copy, Digest, Execute, Gate, Make,
     Record, Revision, Save

\* BuildManagedFixture executes none of them.
LEMMA BuildManagedFixtureExecutes ==
  \A i \in DOMAIN BuildManagedFixture :
    BuildManagedFixture[i].op = "execute" => Targets \intersect
     BuildManagedFixture[i].files = {}
  BY BuildManagedFixtureIs DEF Targets, Digest, Draft, Pack, Record, Revision,
     Save

\* The only execution of ArtStartup.
LEMMA ArtStartupExecutes ==
  \A i \in DOMAIN ArtStartup : ArtStartup[i].op = "execute" => i = 5
  BY ArtStartupIs DEF Digest, Execute, Gate, Revision, Save, StartupInputs

\* ParserReference executes none of them.
LEMMA ParserReferenceExecutes ==
  \A i \in DOMAIN ParserReference :
    ParserReference[i].op = "execute" => Targets \intersect
     ParserReference[i].files = {}
  BY ParserReferenceIs DEF Targets, Digest, Execute, Gate, Revision, Save,
     Status

\* The only execution of ParserGuest.
LEMMA ParserGuestExecutes ==
  \A i \in DOMAIN ParserGuest : ParserGuest[i].op = "execute" => i = 11
  BY ParserGuestIs DEF Digest, Execute, Gate, Make, Record, Revision, Save,
     Status

\* Executions in the guest chain.
LEMMA GuestExecutes ==
  ASSUME Placed, chain = "guest", run # Idle, Op.op = "execute"
  PROVE Targets \intersect Op.files = {}
<1>1. run.script \in DOMAIN GuestPrograms /\ Program =
     GuestPrograms[run.script]
  BY DEF Placed, Program, Programs
<1>2. Program \in {BuildBionic, BionicStartup, BuildArtRuntime,
     BuildArtNativeLibraries, BuildArtLibcore, LinkArtGuest, LinkIcuGuest,
     LinkLibcoreGuest, BuildArtClasslib, RuntimeGuest, GuestIos}
  BY <1>1, GuestProgramsAre
<1>3. run.pc \in 1..Len(Program) /\ Op = Program[run.pc]
  BY DEF Placed, Op
<1>4. CASE Program = BuildBionic
  BY <1>4, <1>3, BuildBionicExecutes, BuildBionicIs
<1>5. CASE Program = BionicStartup
  BY <1>5, <1>3, BionicStartupExecutes, BionicStartupIs
<1>6. CASE Program = BuildArtRuntime
  BY <1>6, <1>3, BuildArtRuntimeExecutes, BuildArtRuntimeIs
<1>7. CASE Program = BuildArtNativeLibraries
  BY <1>7, <1>3, BuildArtNativeLibrariesExecutes, BuildArtNativeLibrariesIs
<1>8. CASE Program = BuildArtLibcore
  BY <1>8, <1>3, BuildArtLibcoreExecutes, BuildArtLibcoreIs
<1>9. CASE Program = LinkArtGuest
  BY <1>9, <1>3, LinkArtGuestExecutes, LinkArtGuestIs
<1>10. CASE Program = LinkIcuGuest
  BY <1>10, <1>3, LinkIcuGuestExecutes, LinkIcuGuestIs
<1>11. CASE Program = LinkLibcoreGuest
  BY <1>11, <1>3, LinkLibcoreGuestExecutes, LinkLibcoreGuestIs
<1>12. CASE Program = BuildArtClasslib
  BY <1>12, <1>3, BuildArtClasslibExecutes, BuildArtClasslibIs
<1>13. CASE Program = RuntimeGuest
  BY <1>13, <1>3, RuntimeGuestExecutes, RuntimeGuestIs
<1>14. CASE Program = GuestIos
  BY <1>14, <1>3, GuestIosExecutes, GuestIosIs
<1> QED BY <1>2, <1>4, <1>5, <1>6, <1>7, <1>8, <1>9, <1>10, <1>11, <1>12,
     <1>13, <1>14

\* Executions in the suite chain.
LEMMA SuiteExecutes ==
  ASSUME Placed, chain = "suite", run # Idle, Op.op = "execute"
  PROVE Targets \intersect Op.files = {}
<1>1. run.script \in DOMAIN SuitePrograms /\ Program =
     SuitePrograms[run.script]
  BY DEF Placed, Program, Programs
<1>2. Program \in {BuildBionic, BionicStartup, SuiteIos}
  BY <1>1, SuiteProgramsAre
<1>3. run.pc \in 1..Len(Program) /\ Op = Program[run.pc]
  BY DEF Placed, Op
<1>4. CASE Program = BuildBionic
  BY <1>4, <1>3, BuildBionicExecutes, BuildBionicIs
<1>5. CASE Program = BionicStartup
  BY <1>5, <1>3, BionicStartupExecutes, BionicStartupIs
<1>6. CASE Program = SuiteIos
  BY <1>6, <1>3, SuiteIosExecutes, SuiteIosIs
<1> QED BY <1>2, <1>4, <1>5, <1>6

\* Executions in the service chain.
LEMMA ServiceExecutes ==
  ASSUME Placed, chain = "service", run # Idle, Op.op = "execute"
  PROVE Targets \intersect Op.files = {}
<1>1. run.script \in DOMAIN ServicePrograms /\ Program =
     ServicePrograms[run.script]
  BY DEF Placed, Program, Programs
<1>2. Program \in {BuildBionic, BionicStartup, BinderAidl, Xsdc, BuildBinder,
     BuildVintf, BuildServicemanager, BuildKernelConfig, ServiceGuest,
     ServiceIos}
  BY <1>1, ServiceProgramsAre
<1>3. run.pc \in 1..Len(Program) /\ Op = Program[run.pc]
  BY DEF Placed, Op
<1>4. CASE Program = BuildBionic
  BY <1>4, <1>3, BuildBionicExecutes, BuildBionicIs
<1>5. CASE Program = BionicStartup
  BY <1>5, <1>3, BionicStartupExecutes, BionicStartupIs
<1>6. CASE Program = BinderAidl
  BY <1>6, <1>3, BinderAidlExecutes, BinderAidlIs
<1>7. CASE Program = Xsdc
  BY <1>7, <1>3, XsdcExecutes, XsdcIs
<1>8. CASE Program = BuildBinder
  BY <1>8, <1>3, BuildBinderExecutes, BuildBinderIs
<1>9. CASE Program = BuildVintf
  BY <1>9, <1>3, BuildVintfExecutes, BuildVintfIs
<1>10. CASE Program = BuildServicemanager
  BY <1>10, <1>3, BuildServicemanagerExecutes, BuildServicemanagerIs
<1>11. CASE Program = BuildKernelConfig
  BY <1>11, <1>3, BuildKernelConfigExecutes, BuildKernelConfigIs
<1>12. CASE Program = ServiceGuest
  BY <1>12, <1>3, ServiceGuestExecutes, ServiceGuestIs
<1>13. CASE Program = ServiceIos
  BY <1>13, <1>3, ServiceIosExecutes, ServiceIosIs
<1> QED BY <1>2, <1>4, <1>5, <1>6, <1>7, <1>8, <1>9, <1>10, <1>11, <1>12, <1>13

\* Executions in the linux chain.
LEMMA LinuxExecutes ==
  ASSUME Placed, chain = "linux", run # Idle, Op.op = "execute"
  PROVE \/ Program = ArtStartup /\ run.pc = 5
        \/ Targets \intersect Op.files = {}
<1>1. run.script \in DOMAIN LinuxPrograms /\ Program =
     LinuxPrograms[run.script]
  BY DEF Placed, Program, Programs
<1>2. Program \in {LinuxRuntime, LinuxNative, LinuxLibcore,
     BuildManagedFixture, ArtStartup}
  BY <1>1, LinuxProgramsAre
<1>3. run.pc \in 1..Len(Program) /\ Op = Program[run.pc]
  BY DEF Placed, Op
<1>4. CASE Program = LinuxRuntime
  BY <1>4, <1>3, LinuxRuntimeExecutes, LinuxRuntimeIs
<1>5. CASE Program = LinuxNative
  BY <1>5, <1>3, LinuxNativeExecutes, LinuxNativeIs
<1>6. CASE Program = LinuxLibcore
  BY <1>6, <1>3, LinuxLibcoreExecutes, LinuxLibcoreIs
<1>7. CASE Program = BuildManagedFixture
  BY <1>7, <1>3, BuildManagedFixtureExecutes, BuildManagedFixtureIs
<1>8. CASE Program = ArtStartup
  BY <1>8, <1>3, ArtStartupExecutes, ArtStartupIs
<1> QED BY <1>2, <1>4, <1>5, <1>6, <1>7, <1>8

\* Executions in the parser chain.
LEMMA ParserExecutes ==
  ASSUME Placed, chain = "parser", run # Idle, Op.op = "execute"
  PROVE \/ Program = ParserGuest /\ run.pc = 11
        \/ Targets \intersect Op.files = {}
<1>1. run.script \in DOMAIN ParserPrograms /\ Program =
     ParserPrograms[run.script]
  BY DEF Placed, Program, Programs
<1>2. Program \in {BuildKernelConfig, ParserReference, BuildBionic,
     BionicStartup, BuildArtRuntime, LinkArtGuest, ParserGuest}
  BY <1>1, ParserProgramsAre
<1>3. run.pc \in 1..Len(Program) /\ Op = Program[run.pc]
  BY DEF Placed, Op
<1>4. CASE Program = BuildKernelConfig
  BY <1>4, <1>3, BuildKernelConfigExecutes, BuildKernelConfigIs
<1>5. CASE Program = ParserReference
  BY <1>5, <1>3, ParserReferenceExecutes, ParserReferenceIs
<1>6. CASE Program = BuildBionic
  BY <1>6, <1>3, BuildBionicExecutes, BuildBionicIs
<1>7. CASE Program = BionicStartup
  BY <1>7, <1>3, BionicStartupExecutes, BionicStartupIs
<1>8. CASE Program = BuildArtRuntime
  BY <1>8, <1>3, BuildArtRuntimeExecutes, BuildArtRuntimeIs
<1>9. CASE Program = LinkArtGuest
  BY <1>9, <1>3, LinkArtGuestExecutes, LinkArtGuestIs
<1>10. CASE Program = ParserGuest
  BY <1>10, <1>3, ParserGuestExecutes, ParserGuestIs
<1> QED BY <1>2, <1>4, <1>5, <1>6, <1>7, <1>8, <1>9, <1>10

\* The virtual machine is started with one ART in it.
LEMMA StartedTogether ==
  ASSUME Placed, Knows, Honest, run # Idle, chain = "linux", Program = ArtStartup,
         run.pc = 5
  PROVE /\ disk["art.harness"].of["libart.so"] = disk["core.libart"]
        /\ disk["libcore.so"].of["core.libart"] = disk["core.libart"]
        /\ disk["libcore.so"].of["core.libicu"] = disk["core.libicu"]
        /\ disk["core.libicu"].of["icu.libart"] = disk["core.libart"]
<1> DEFINE art == {"art.src", "libart.so", "art.harness"}
           core == {"core.src"} \union StartupInputs
           a == disk["art.build"].files
           c == disk["core.build"].files
<1>1. /\ \A x \in art \union core : Still(1, x)
      /\ Still(1, "art.build") /\ "art.build" \in Reports
      /\ Still(1, "core.build") /\ "core.build" \in Reports
  BY ArtStartupIs, LinuxFiles
     DEF Still, Done, Since, Touches, Writes, StartupInputs, Digest, Gate, Revision, Reports
<1>2. /\ Passes(1, Verify(art, "art.build"))
      /\ Passes(1, Verify(core, "core.build"))
      /\ Passes(1, Same("core.build", "core.libart", "art.build", "libart.so"))
  <2>1. Done(1)
    BY <1>1 DEF Still
  <2> QED BY <2>1, ArtStartupGate1
<1>3. \A x \in art : Whole("art.build") /\ x \in DOMAIN a /\ disk[x] = a[x]
  BY <1>1, <1>2, KnowVerify
<1>4. \A x \in core : Whole("core.build") /\ x \in DOMAIN c /\ disk[x] = c[x]
  <2>1. /\ \A x \in core : Still(1, x)
        /\ Still(1, "core.build") /\ Passes(1, Verify(core, "core.build"))
    BY <1>1, <1>2
  <2> HIDE DEF core
  <2> QED BY <2>1, KnowVerify
<1>5. c["core.libart"] = a["libart.so"]
  BY <1>1, <1>2, KnowSame
<1>6. LinuxTrue("art.build", a) /\ LinuxTrue("core.build", c)
  BY <1>1, <1>3, <1>4 DEF Honest, Truth, Still
<1>7. {"libcore.so", "core.libart", "core.libicu"} \subseteq core
  BY DEF StartupInputs
<1> QED BY <1>3, <1>4, <1>5, <1>6, <1>7 DEF LinuxTrue, Uses

\* The virtual machine has one ART in it.
THEOREM OneArtAlways == Spec => []LinuxTogether
<1> DEFINE Good(e) ==
      "art.harness" \in DOMAIN e =>
        /\ e["art.harness"].of["libart.so"] = e["core.libart"]
        /\ e["libcore.so"].of["core.libart"] = e["core.libart"]
        /\ e["libcore.so"].of["core.libicu"] = e["core.libicu"]
        /\ e["core.libicu"].of["icu.libart"] = e["core.libart"]
<1>1. Init => LinuxTogether
  BY DEF Init, LinuxTogether
<1>2. ASSUME Placed, Knows, Honest, LinuxTogether, [Next]_vars PROVE LinuxTogether'
  <2>1. CASE UNCHANGED vars
    BY <1>2, <2>1 DEF vars, LinuxTogether
  <2>2. CASE Next
    <3> SUFFICES ASSUME NEW e \in passed' PROVE Good(e)
      BY DEF LinuxTogether
    <3>1. CASE e \in passed
      BY <1>2, <3>1 DEF LinuxTogether
    <3>2. CASE run # Idle /\ Op.op = "execute" /\ e = Restricted(disk, Op.files)
      <4> SUFFICES ASSUME "art.harness" \in DOMAIN e PROVE Good(e)
        OBVIOUS
      <4>1. "art.harness" \in Op.files
        BY <3>2 DEF Restricted
      <4>2. chain \in {"guest", "suite", "service", "linux", "parser"}
        BY <1>2 DEF Placed, Programs
      <4>3. CASE chain = "linux" /\ Program = ArtStartup /\ run.pc = 5
        <5> DEFINE all == StartupInputs \union {"art.harness", "dex.zip"}
        <5>1. Op = Execute(all)
          BY <4>3, ArtStartupIs DEF Op
        <5>2. Op.files = all
          BY <5>1 DEF Execute
        <5>3. /\ e["art.harness"] = disk["art.harness"]
              /\ e["libcore.so"] = disk["libcore.so"]
              /\ e["core.libart"] = disk["core.libart"]
              /\ e["core.libicu"] = disk["core.libicu"]
          BY <3>2, <5>2 DEF Restricted, StartupInputs
        <5> QED BY <1>2, <3>2, <4>3, <5>3, StartedTogether
      <4>4. CASE chain = "parser" /\ Program = ParserGuest /\ run.pc = 11
        BY <4>1, <4>4, ParserGuestIs DEF Op, Execute
      <4>5. CASE Targets \intersect Op.files = {}
        BY <4>1, <4>5 DEF Targets
      <4> QED BY <1>2, <3>2, <4>2, <4>3, <4>4, <4>5, GuestExecutes, SuiteExecutes,
                 ServiceExecutes, LinuxExecutes, ParserExecutes
    <3> QED BY <1>2, <2>2, <3>1, <3>2, PassedChanges
  <2> QED BY <1>2, <2>1, <2>2
<1> QED BY <1>1, <1>2, ScriptsKnow, RecordsAreTrue, PTL DEF Spec

\* The signed parser is of the objects the Linux caller executed.
LEMMA GuestReferenced ==
  ASSUME Placed, Knows, Honest, run # Idle, chain = "parser", Program = ParserGuest,
         run.pc = 11
  PROVE ReferenceRan(disk["kc.mac"].of["libkc.so"].of)
<1> DEFINE ref == Objects \union {"parser.ref", "parser.src"}
           linked == disk["kc.mac"].of["libkc.so"].of
<1>1. /\ \A f \in Objects : Still(3, f) /\ Still(4, f) /\ f # "libkc.so"
      /\ Still(4, "libkc.so") /\ Still(5, "libkc.so") /\ Still(5, "kc.mac")
      /\ Still(3, "kcref.rep") /\ "kcref.rep" \in Reports /\ Still(3, "parser.rep")
      /\ \A j \in 4..10 : Program[j].op # "revision"
  BY ParserGuestIs, ParserFiles
     DEF Still, Done, Since, Touches, Writes, Objects, Make, Digest, Record, Reports, Gate
<1>2. /\ Passes(3, Verify(Objects, "parser.rep"))
      /\ Passes(3, Equal({"parser.o", "regex.o", "parser.ref", "parser.src"},
                         "parser.rep", "kcref.rep"))
      /\ Passes(3, Require("kcref.rep", {"passed"}))
  <2>1. Done(3)
    BY <1>1 DEF Still
  <2> QED BY <2>1, ParserGuestGate3 DEF Objects
<1>3. \A f \in Objects : linked[f] = disk[f]
  <2>1. disk["kc.mac"].of["libkc.so"] = disk["libkc.so"]
    BY <1>1, KnowMake, ParserGuestIs
  <2>2. PICK ins : /\ Program[4] = Make("libkc.so", {"layout"}, ins)
                   /\ Objects \subseteq ins
    BY ParserGuestIs DEF Objects
  <2>3. \A f \in Objects : disk["libkc.so"].of[f] = disk[f]
    BY <2>2, <1>1, KnowMake
  <2> QED BY <2>1, <2>3
<1>4. \A f \in Objects : disk[f] = disk["parser.rep"].files[f]
  BY <1>1, <1>2, KnowVerify
<1>5. \A f \in Objects : disk["parser.rep"].files[f] = disk["kcref.rep"].files[f]
  BY <1>1, <1>2, KnowEqual DEF Objects
<1>6. Whole("kcref.rep") /\ disk["kcref.rep"].passed
  <2>1. Whole("kcref.rep") /\ Has("kcref.rep", "passed")
    BY <1>1, <1>2, KnowRequire
  <2> QED BY <2>1 DEF Has
<1>7. ReferenceRan(disk["kcref.rep"].files)
  BY <1>1, <1>6 DEF Honest, Truth, Still
<1> QED BY <1>3, <1>4, <1>5, <1>7 DEF ReferenceRan

\* No parser runs signed that the Linux caller has not run.
THEOREM ReferenceComesFirst == Spec => []ParserReferenced
<1> DEFINE Good(e) ==
      "kc.mac" \in DOMAIN e => ReferenceRan(e["kc.mac"].of["libkc.so"].of)
<1>1. Init => ParserReferenced
  BY DEF Init, ParserReferenced
<1>2. ASSUME Placed, Knows, Honest, ParserReferenced, [Next]_vars
      PROVE ParserReferenced'
  <2>1. CASE UNCHANGED vars
    BY <1>2, <2>1 DEF vars, ParserReferenced
  <2>2. CASE Next
    <3> SUFFICES ASSUME NEW e \in passed' PROVE Good(e)'
      BY DEF ParserReferenced, ReferenceRan, Objects
    <3>1. CASE Good(e)
      BY <1>2, <2>2, <3>1, PassedChanges DEF ReferenceRan
    <3>2. CASE e \in passed
      <4>1. Good(e)
        BY <1>2, <3>2 DEF ParserReferenced, ReferenceRan, Objects
      <4> QED BY <4>1, <3>1
    <3>3. CASE run # Idle /\ Op.op = "execute" /\ e = Restricted(disk, Op.files)
      <4> SUFFICES ASSUME "kc.mac" \in DOMAIN e PROVE Good(e)
        BY <3>1
      <4>1. "kc.mac" \in Op.files
        BY <3>3 DEF Restricted
      <4>2. chain \in {"guest", "suite", "service", "linux", "parser"}
        BY <1>2 DEF Placed, Programs
      <4>3. CASE chain = "parser" /\ Program = ParserGuest /\ run.pc = 11
        <5>1. e["kc.mac"] = disk["kc.mac"]
          BY <3>3, <4>1 DEF Restricted
        <5> QED BY <1>2, <3>3, <4>3, <5>1, GuestReferenced
      <4>4. CASE chain = "linux" /\ Program = ArtStartup /\ run.pc = 5
        BY <4>1, <4>4, ArtStartupIs DEF Op, Execute, StartupInputs
      <4>5. CASE Targets \intersect Op.files = {}
        BY <4>1, <4>5 DEF Targets
      <4> QED BY <1>2, <3>3, <4>2, <4>3, <4>4, <4>5, GuestExecutes, SuiteExecutes,
                 ServiceExecutes, LinuxExecutes, ParserExecutes
    <3> QED BY <1>2, <2>2, <3>2, <3>3, PassedChanges
  <2> QED BY <1>2, <2>1, <2>2
<1> QED BY <1>1, <1>2, ScriptsKnow, RecordsAreTrue, PTL DEF Spec

-----------------------------------------------------------------------------
(* The producers of the service chain delete their record before they      *)
(* write a file it vouches for.                                            *)

\* What each record vouches for, one by one.
LEMMA VouchedAre ==
  /\ Vouched["aidl.rep"] = {"aidl.gen"}
  /\ Vouched["xsd.rep"] = {"xsd.gen", "xsd.src"}
  /\ Vouched["binder.rep"] = {"binder.o", "binder.a", "binder.src"}
  /\ Vouched["vintf.rep"] = {"vintf.o", "vintf.a", "vintf.src"}
  /\ Vouched["service.rep"] = {"service.o", "service.a", "service.src"}
  /\ Vouched["parser.rep"] = {"regex.o", "parser.o", "parser.ref",
     "parser.src"}
  BY DEF Vouched, VouchingReports

\* BuildBionic touches no file a record vouches for.
LEMMA BuildBionicVouches ==
  ASSUME Placed, chain = "service", run # Idle, Program = BuildBionic,
         NEW r \in VouchingReports, NEW f \in Vouched[r], Touches(Op, f)
  PROVE FALSE
<1>1. \A i \in DOMAIN BuildBionic : Touches(BuildBionic[i], f) => f \in
     {"bionic.gen", "bionic.o", "bionic.objs", "bionic.rep"}
  BY BuildBionicIs DEF Touches, Writes, Digest, Make, Save
<1>2. run.pc \in DOMAIN BuildBionic /\ Op = BuildBionic[run.pc]
  BY BuildBionicIs DEF Placed, Op
<1> QED BY <1>1, <1>2, VouchedAre DEF VouchingReports

\* BionicStartup touches no file a record vouches for.
LEMMA BionicStartupVouches ==
  ASSUME Placed, chain = "service", run # Idle, Program = BionicStartup,
         NEW r \in VouchingReports, NEW f \in Vouched[r], Touches(Op, f)
  PROVE FALSE
<1>1. \A i \in DOMAIN BionicStartup : Touches(BionicStartup[i], f) => f \in
     {"libc.ios", "libc.mac", "libc.rep", "libc.so"}
  BY BionicStartupIs DEF Touches, Writes, Digest, Execute, Gate, Make,
     Revision, Save
<1>2. run.pc \in DOMAIN BionicStartup /\ Op = BionicStartup[run.pc]
  BY BionicStartupIs DEF Placed, Op
<1> QED BY <1>1, <1>2, VouchedAre DEF VouchingReports

\* When BinderAidl touches a file, its record is gone.
LEMMA BinderAidlVouches ==
  ASSUME Placed, Knows, chain = "service", run # Idle, Program = BinderAidl,
         NEW r \in VouchingReports, NEW f \in Vouched[r], Touches(Op, f)
  PROVE disk[r] = Absent
<1>1. \A i \in DOMAIN BinderAidl : Touches(BinderAidl[i], f) => f \in
     {"aidl.gen", "aidl.rep"} /\ (f # "aidl.rep" => i > 2)
  BY BinderAidlIs DEF Touches, Writes, Digest, Once, Record, Revision, Save,
     Unlink
<1>2. run.pc \in DOMAIN BinderAidl /\ Op = BinderAidl[run.pc]
  BY BinderAidlIs DEF Placed, Op
<1>3. r = "aidl.rep" /\ f # "aidl.rep"
  BY <1>1, <1>2, VouchedAre DEF VouchingReports
<1>4. Still(2, "aidl.rep")
  <2>1. run.pc > 2
    BY <1>1, <1>2, <1>3
  <2>2. \A i \in 3..7 : ~Touches(Program[i], "aidl.rep")
    BY BinderAidlIs DEF Touches, Writes, Digest, Once, Record, Revision, Save,
       Unlink
  <2>3. run.pc \in 3..8
    BY <1>1, <1>2, <1>3, <2>1, BinderAidlIs
  <2> QED BY <2>1, <2>2, <2>3, ServiceFiles DEF Still, Done, Since
<1> QED BY <1>3, <1>4, KnowUnlink, BinderAidlIs

\* When BinderAidl saves its record, it is true.
LEMMA BinderAidlVouching ==
  ASSUME Placed, Knows, chain = "service", run # Idle, Program = BinderAidl,
         run.pc = 8
  PROVE \A f \in Vouched["aidl.rep"] : run.rep.files[f] = disk[f]
<1>1. /\ Still(7, "aidl.gen")
  <2>1. Still(7, "aidl.gen")
    BY BinderAidlIs, ServiceFiles DEF Still, Done, Since, Touches, Writes,
       Digest, Save
  <2> QED BY <2>1
<1>2. /\ run.rep.files["aidl.gen"] = disk["aidl.gen"]
  BY <1>1, KnowDigest, BinderAidlIs
<1> QED BY <1>2, VouchedAre

\* When Xsdc touches a file, its record is gone.
LEMMA XsdcVouches ==
  ASSUME Placed, Knows, chain = "service", run # Idle, Program = Xsdc,
         NEW r \in VouchingReports, NEW f \in Vouched[r], Touches(Op, f)
  PROVE disk[r] = Absent
<1>1. \A i \in DOMAIN Xsdc : Touches(Xsdc[i], f) => f \in {"xsd.gen",
     "xsd.rep", "xsd.src"} /\ (f # "xsd.rep" => i > 1)
  BY XsdcIs DEF Touches, Writes, Digest, Gate, Held, Make, Record, Revision,
     Save, Unlink
<1>2. run.pc \in DOMAIN Xsdc /\ Op = Xsdc[run.pc]
  BY XsdcIs DEF Placed, Op
<1>3. r = "xsd.rep" /\ f # "xsd.rep"
  BY <1>1, <1>2, VouchedAre DEF VouchingReports
<1>4. Still(1, "xsd.rep")
  <2>1. run.pc > 1
    BY <1>1, <1>2, <1>3
  <2>2. \A i \in 2..8 : ~Touches(Program[i], "xsd.rep")
    BY XsdcIs DEF Touches, Writes, Digest, Gate, Held, Make, Record, Revision,
       Save, Unlink
  <2>3. run.pc \in 2..9
    BY <1>1, <1>2, <1>3, <2>1, XsdcIs DEF Gate, Touches, Writes, Save
  <2> QED BY <2>1, <2>2, <2>3, ServiceFiles DEF Still, Done, Since
<1> QED BY <1>3, <1>4, KnowUnlink, XsdcIs

\* When Xsdc saves its record, it is true.
LEMMA XsdcVouching ==
  ASSUME Placed, Knows, chain = "service", run # Idle, Program = Xsdc,
         run.pc = 9
  PROVE \A f \in Vouched["xsd.rep"] : run.rep.files[f] = disk[f]
<1>1. /\ Still(6, "xsd.gen")
      /\ Still(6, "xsd.src")
  <2>1. Still(6, "xsd.gen")
    BY XsdcIs, ServiceFiles DEF Still, Done, Since, Touches, Writes, Digest,
       Gate, Record, Revision, Save
  <2>2. Still(6, "xsd.src")
    BY XsdcIs, ServiceFiles DEF Still, Done, Since, Touches, Writes, Digest,
       Gate, Record, Revision, Save
  <2> QED BY <2>1, <2>2
<1>2. /\ run.rep.files["xsd.gen"] = disk["xsd.gen"]
      /\ run.rep.files["xsd.src"] = disk["xsd.src"]
  BY <1>1, KnowDigest, XsdcIs
<1> QED BY <1>2, VouchedAre

\* When BuildBinder touches a file, its record is gone.
LEMMA BuildBinderVouches ==
  ASSUME Placed, Knows, chain = "service", run # Idle, Program = BuildBinder,
         NEW r \in VouchingReports, NEW f \in Vouched[r], Touches(Op, f)
  PROVE disk[r] = Absent
<1>1. \A i \in DOMAIN BuildBinder : Touches(BuildBinder[i], f) => f \in
     {"binder.a", "binder.o", "binder.rep", "binder.src"} /\ (f # "binder.rep"
     => i > 2)
  BY BuildBinderIs DEF Touches, Writes, Digest, Gate, Held, Make, Record,
     Revision, Save, Unlink
<1>2. run.pc \in DOMAIN BuildBinder /\ Op = BuildBinder[run.pc]
  BY BuildBinderIs DEF Placed, Op
<1>3. r = "binder.rep" /\ f # "binder.rep"
  BY <1>1, <1>2, VouchedAre DEF VouchingReports
<1>4. Still(2, "binder.rep")
  <2>1. run.pc > 2
    BY <1>1, <1>2, <1>3
  <2>2. \A i \in 3..13 : ~Touches(Program[i], "binder.rep")
    BY BuildBinderIs DEF Touches, Writes, Digest, Gate, Held, Make, Record,
       Revision, Save, Unlink
  <2>3. run.pc \in 3..14
    BY <1>1, <1>2, <1>3, <2>1, BuildBinderIs
  <2> QED BY <2>1, <2>2, <2>3, ServiceFiles DEF Still, Done, Since
<1> QED BY <1>3, <1>4, KnowUnlink, BuildBinderIs

\* When BuildBinder saves its record, it is true.
LEMMA BuildBinderVouching ==
  ASSUME Placed, Knows, chain = "service", run # Idle, Program = BuildBinder,
         run.pc = 14
  PROVE \A f \in Vouched["binder.rep"] : run.rep.files[f] = disk[f]
<1>1. /\ Still(5, "binder.o")
      /\ Still(8, "binder.a")
      /\ Still(11, "binder.src")
  <2>1. Still(5, "binder.o")
    BY BuildBinderIs, ServiceFiles DEF Still, Done, Since, Touches, Writes,
       Digest, Make, Record, Revision, Save, Unlink
  <2>2. Still(8, "binder.a")
    BY BuildBinderIs, ServiceFiles DEF Still, Done, Since, Touches, Writes,
       Digest, Make, Record, Revision, Save
  <2>3. Still(11, "binder.src")
    BY BuildBinderIs, ServiceFiles DEF Still, Done, Since, Touches, Writes,
       Digest, Record, Save
  <2> QED BY <2>1, <2>2, <2>3
<1>2. /\ run.rep.files["binder.o"] = disk["binder.o"]
      /\ run.rep.files["binder.a"] = disk["binder.a"]
      /\ run.rep.files["binder.src"] = disk["binder.src"]
  BY <1>1, KnowDigest, BuildBinderIs
<1> QED BY <1>2, VouchedAre

\* When BuildVintf touches a file, its record is gone.
LEMMA BuildVintfVouches ==
  ASSUME Placed, Knows, chain = "service", run # Idle, Program = BuildVintf,
         NEW r \in VouchingReports, NEW f \in Vouched[r], Touches(Op, f)
  PROVE disk[r] = Absent
<1>1. \A i \in DOMAIN BuildVintf : Touches(BuildVintf[i], f) => f \in
     {"vintf.a", "vintf.o", "vintf.rep", "vintf.src"} /\ (f # "vintf.rep" => i
     > 1)
  BY BuildVintfIs DEF Touches, Writes, Digest, Gate, Held, Make, Record,
     Revision, Save, Unlink
<1>2. run.pc \in DOMAIN BuildVintf /\ Op = BuildVintf[run.pc]
  BY BuildVintfIs DEF Placed, Op
<1>3. r = "vintf.rep" /\ f # "vintf.rep"
  BY <1>1, <1>2, VouchedAre DEF VouchingReports
<1>4. Still(1, "vintf.rep")
  <2>1. run.pc > 1
    BY <1>1, <1>2, <1>3
  <2>2. \A i \in 2..14 : ~Touches(Program[i], "vintf.rep")
    BY BuildVintfIs, SMTT(30) DEF Touches, Writes, Digest, Gate, Held, Make, Record,
       Revision, Save, Unlink
  <2>3. run.pc \in 2..15
    BY <1>1, <1>2, <1>3, <2>1, BuildVintfIs
  <2>4. Done(1) /\ Since(1, "vintf.rep")
    BY <2>2, <2>3 DEF Done, Since
  <2>5. "vintf.rep" \in Files[chain]
    BY ServiceFiles
  <2> QED BY <2>4, <2>5 DEF Still
<1> QED BY <1>3, <1>4, KnowUnlink, BuildVintfIs

\* When BuildVintf saves its record, it is true.
LEMMA BuildVintfVouching ==
  ASSUME Placed, Knows, chain = "service", run # Idle, Program = BuildVintf,
         run.pc = 15
  PROVE \A f \in Vouched["vintf.rep"] : run.rep.files[f] = disk[f]
<1>1. /\ Still(5, "vintf.o")
      /\ Still(8, "vintf.a")
      /\ Still(12, "vintf.src")
  <2>1. \A i \in 6..14 : ~Touches(Program[i], "vintf.o")
    BY BuildVintfIs, SMTT(30) DEF Touches, Writes, Digest, Gate, Make, Record, Revision, Save,
       Unlink
  <2>2. \A i \in 9..14 : ~Touches(Program[i], "vintf.a")
    BY BuildVintfIs, SMTT(30) DEF Touches, Writes, Digest, Gate, Make, Record, Revision, Save
  <2>3. \A i \in 13..14 : ~Touches(Program[i], "vintf.src")
    BY BuildVintfIs DEF Touches, Writes, Digest, Record, Save
  <2>4. {"vintf.o", "vintf.a", "vintf.src"} \subseteq Files[chain]
    BY ServiceFiles
  <2>5. /\ Done(5) /\ Done(8) /\ Done(12)
        /\ 6..14 = 5 + 1..run.pc - 1
        /\ 9..14 = 8 + 1..run.pc - 1
        /\ 13..14 = 12 + 1..run.pc - 1
    BY DEF Done
  <2> QED BY <2>1, <2>2, <2>3, <2>4, <2>5 DEF Still, Since
<1>2. /\ run.rep.files["vintf.o"] = disk["vintf.o"]
      /\ run.rep.files["vintf.a"] = disk["vintf.a"]
      /\ run.rep.files["vintf.src"] = disk["vintf.src"]
  BY <1>1, KnowDigest, BuildVintfIs
<1> QED BY <1>2, VouchedAre

\* When BuildServicemanager touches a file, its record is gone.
LEMMA BuildServicemanagerVouches ==
  ASSUME Placed, Knows, chain = "service", run # Idle, Program =
     BuildServicemanager,
         NEW r \in VouchingReports, NEW f \in Vouched[r], Touches(Op, f)
  PROVE disk[r] = Absent
<1>1. \A i \in DOMAIN BuildServicemanager : Touches(BuildServicemanager[i], f)
     => f \in {"service.a", "service.o", "service.rep", "service.src"} /\ (f #
     "service.rep" => i > 1)
  BY BuildServicemanagerIs DEF Touches, Writes, Digest, Gate, Held, Make,
     Record, Revision, Save, Status, Unlink
<1>2. run.pc \in DOMAIN BuildServicemanager /\ Op = BuildServicemanager[run.pc]
  BY BuildServicemanagerIs DEF Placed, Op
<1>3. r = "service.rep" /\ f # "service.rep"
  BY <1>1, <1>2, VouchedAre DEF VouchingReports
<1>4. Still(1, "service.rep")
  <2>1. run.pc > 1
    BY <1>1, <1>2, <1>3
  <2>2. \A i \in 2..14 : ~Touches(Program[i], "service.rep")
    BY BuildServicemanagerIs DEF Touches, Writes, Digest, Gate, Held, Make,
       Record, Revision, Save, Status, Unlink
  <2>3. run.pc \in 2..15
    BY <1>1, <1>2, <1>3, <2>1, BuildServicemanagerIs
  <2> QED BY <2>1, <2>2, <2>3, ServiceFiles DEF Still, Done, Since
<1> QED BY <1>3, <1>4, KnowUnlink, BuildServicemanagerIs

\* When BuildServicemanager saves its record, it is true.
LEMMA BuildServicemanagerVouching ==
  ASSUME Placed, Knows, chain = "service", run # Idle, Program =
     BuildServicemanager,
         run.pc = 15
  PROVE \A f \in Vouched["service.rep"] : run.rep.files[f] = disk[f]
<1>1. /\ Still(5, "service.o")
      /\ Still(8, "service.a")
      /\ Still(12, "service.src")
  <2>1. Still(5, "service.o")
    BY BuildServicemanagerIs, ServiceFiles DEF Still, Done, Since, Touches,
       Writes, Digest, Make, Record, Revision, Save, Status, Unlink
  <2>2. Still(8, "service.a")
    BY BuildServicemanagerIs, ServiceFiles DEF Still, Done, Since, Touches,
       Writes, Digest, Make, Record, Revision, Save, Status
  <2>3. Still(12, "service.src")
    BY BuildServicemanagerIs, ServiceFiles DEF Still, Done, Since, Touches,
       Writes, Digest, Record, Save
  <2> QED BY <2>1, <2>2, <2>3
<1>2. /\ run.rep.files["service.o"] = disk["service.o"]
      /\ run.rep.files["service.a"] = disk["service.a"]
      /\ run.rep.files["service.src"] = disk["service.src"]
  BY <1>1, KnowDigest, BuildServicemanagerIs
<1> QED BY <1>2, VouchedAre

\* When BuildKernelConfig touches a file, its record is gone.
LEMMA BuildKernelConfigVouches ==
  ASSUME Placed, Knows, chain = "service", run # Idle, Program =
     BuildKernelConfig,
         NEW r \in VouchingReports, NEW f \in Vouched[r], Touches(Op, f)
  PROVE disk[r] = Absent
<1>1. \A i \in DOMAIN BuildKernelConfig : Touches(BuildKernelConfig[i], f) => f
     \in {"parser.o", "parser.ref", "parser.rep", "parser.src", "regex.o"} /\
     (f # "parser.rep" => i > 1)
  BY BuildKernelConfigIs DEF Touches, Writes, Digest, Held, Make, Record,
     Revision, Save, Status, Unlink
<1>2. run.pc \in DOMAIN BuildKernelConfig /\ Op = BuildKernelConfig[run.pc]
  BY BuildKernelConfigIs DEF Placed, Op
<1>3. r = "parser.rep" /\ f # "parser.rep"
  BY <1>1, <1>2, VouchedAre DEF VouchingReports
<1>4. Still(1, "parser.rep")
  <2>1. run.pc > 1
    BY <1>1, <1>2, <1>3
  <2>2. \A i \in 2..13 : ~Touches(Program[i], "parser.rep")
    BY BuildKernelConfigIs DEF Touches, Writes, Digest, Held, Make, Record,
       Revision, Save, Status, Unlink
  <2>3. run.pc \in 2..14
    BY <1>1, <1>2, <1>3, <2>1, BuildKernelConfigIs
  <2> QED BY <2>1, <2>2, <2>3, ServiceFiles DEF Still, Done, Since
<1> QED BY <1>3, <1>4, KnowUnlink, BuildKernelConfigIs

\* When BuildKernelConfig saves its record, it is true.
LEMMA BuildKernelConfigVouching ==
  ASSUME Placed, Knows, chain = "service", run # Idle, Program =
     BuildKernelConfig,
         run.pc = 14
  PROVE \A f \in Vouched["parser.rep"] : run.rep.files[f] = disk[f]
<1>1. /\ Still(5, "regex.o")
      /\ Still(5, "parser.o")
      /\ Still(10, "parser.ref")
      /\ Still(13, "parser.src")
  <2>1. Still(5, "regex.o")
    BY BuildKernelConfigIs, ServiceFiles DEF Still, Done, Since, Touches,
       Writes, Digest, Make, Record, Revision, Save, Status
  <2>2. Still(5, "parser.o")
    BY BuildKernelConfigIs, ServiceFiles DEF Still, Done, Since, Touches,
       Writes, Digest, Make, Record, Revision, Save, Status
  <2>3. Still(10, "parser.ref")
    BY BuildKernelConfigIs, ServiceFiles DEF Still, Done, Since, Touches,
       Writes, Digest, Record, Save
  <2>4. Still(13, "parser.src")
    BY BuildKernelConfigIs, ServiceFiles DEF Still, Done, Since, Touches,
       Writes, Digest, Save
  <2> QED BY <2>1, <2>2, <2>3, <2>4
<1>2. /\ run.rep.files["regex.o"] = disk["regex.o"]
      /\ run.rep.files["parser.o"] = disk["parser.o"]
      /\ run.rep.files["parser.ref"] = disk["parser.ref"]
      /\ run.rep.files["parser.src"] = disk["parser.src"]
  BY <1>1, KnowDigest, BuildKernelConfigIs
<1> QED BY <1>2, VouchedAre

\* ServiceGuest touches no file a record vouches for.
LEMMA ServiceGuestVouches ==
  ASSUME Placed, chain = "service", run # Idle, Program = ServiceGuest,
         NEW r \in VouchingReports, NEW f \in Vouched[r], Touches(Op, f)
  PROVE FALSE
<1>1. \A i \in DOMAIN ServiceGuest : Touches(ServiceGuest[i], f) => f \in
     {"libservice.so", "service.guest", "service.ios", "service.mac",
     "svc.src"}
  BY ServiceGuestIs DEF Touches, Writes, Digest, Execute, Gate, Make, Record,
     Revision, Save, Status
<1>2. run.pc \in DOMAIN ServiceGuest /\ Op = ServiceGuest[run.pc]
  BY ServiceGuestIs DEF Placed, Op
<1> QED BY <1>1, <1>2, VouchedAre DEF VouchingReports

\* ServiceIos touches no file a record vouches for.
LEMMA ServiceIosVouches ==
  ASSUME Placed, chain = "service", run # Idle, Program = ServiceIos,
         NEW r \in VouchingReports, NEW f \in Vouched[r], Touches(Op, f)
  PROVE FALSE
<1>1. \A i \in DOMAIN ServiceIos : Touches(ServiceIos[i], f) => f \in {"app",
     "info", "ipa", "staged"}
  BY ServiceIosIs DEF Touches, Writes, Digest, Gate, Make, Revision, Save,
     Status, Unlink
<1>2. run.pc \in DOMAIN ServiceIos /\ Op = ServiceIos[run.pc]
  BY ServiceIosIs DEF Placed, Op
<1> QED BY <1>1, <1>2, VouchedAre DEF VouchingReports

\* So whoever touches a vouched file does it while there is no record.
LEMMA VouchedTouched ==
  ASSUME Placed, Knows, chain = "service", run # Idle,
         NEW r \in VouchingReports, NEW f \in Vouched[r], Touches(Op, f)
  PROVE disk[r] = Absent
<1>1. run.script \in DOMAIN ServicePrograms /\ Program =
     ServicePrograms[run.script]
  BY DEF Placed, Program, Programs
<1>2. Program \in {BuildBionic, BionicStartup, BinderAidl, Xsdc, BuildBinder,
     BuildVintf, BuildServicemanager, BuildKernelConfig, ServiceGuest,
     ServiceIos}
  BY <1>1, ServiceProgramsAre
<1> QED BY <1>2, BuildBionicVouches, BionicStartupVouches, BinderAidlVouches,
        XsdcVouches, BuildBinderVouches, BuildVintfVouches,
        BuildServicemanagerVouches, BuildKernelConfigVouches,
        ServiceGuestVouches, ServiceIosVouches

\* And whoever saves such a record has digests of what is there.
LEMMA VouchedSaved ==
  ASSUME Placed, Knows, chain = "service", run # Idle,
         NEW r \in VouchingReports, Results(Op, r)
  PROVE Op.op = "save" /\ \A f \in Vouched[r] : run.rep.files[f] = disk[f]
<1>1. r \in Reports
  BY DEF VouchingReports, Reports
<1> QED BY <1>1, ServiceSaves, BinderAidlVouching, XsdcVouching,
        BuildBinderVouching, BuildVintfVouching, BuildServicemanagerVouching,
        BuildKernelConfigVouching DEF VouchingReports

\* A file changes only by the operation that touches it.
LEMMA FileChanges ==
  ASSUME Placed, Next, NEW f \in Files[chain], disk'[f] # disk[f]
  PROVE /\ run # Idle /\ Touches(Op, f)
<1>1. CASE Produce
  BY <1>1 DEF Produce, Placed, At, Touches
<1>2. CASE Change
  BY <1>2 DEF Change, Placed, At, Touches
<1>3. CASE Stop
  BY <1>3 DEF Stop, Placed, At, Touches
<1>4. CASE ~Produce /\ ~Change /\ ~Stop
  BY <1>4, NextCases DEF Edit, Commit, Restore, Start, Observe, CompileFails, Run,
     Check, Refuse
<1> QED BY <1>1, <1>2, <1>3, <1>4

\* While a record exists, every file it vouches for is there as it says.
THEOREM RecordsAreOfWholeFiles == Spec => []RecordMeansWhole
<1>1. Init => RecordMeansWhole
  <2> SUFFICES ASSUME Init, chain = "service", NEW r \in VouchingReports PROVE ~Whole(r)
    BY DEF RecordMeansWhole, Vouched
  <2>1. r \in Files[chain]
    BY ServiceFiles DEF VouchingReports
  <2> QED BY <2>1 DEF Init, Whole, Absent
<1>2. ASSUME Placed, Knows, RecordMeansWhole, [Next]_vars PROVE RecordMeansWhole'
  <2>1. CASE UNCHANGED vars
    BY <1>2, <2>1 DEF vars, RecordMeansWhole, Whole
  <2>2. CASE Next
    <3>1. chain' = chain
      BY <2>2, ChainKept
    <3> SUFFICES ASSUME chain = "service", NEW r \in VouchingReports, Whole(r)',
                        NEW f \in Vouched[r]
                 PROVE disk'[f] = disk'[r].files[f]
      BY <3>1 DEF RecordMeansWhole, Vouched
    <3>2. /\ r \in Files[chain] /\ f \in Files[chain] /\ r \in Reports
          /\ f \notin Reports
      BY ServiceFiles, VouchedAre DEF VouchingReports, Reports
    <3>3. CASE disk'[r] = disk[r] /\ disk'[f] = disk[f]
      <4>1. r \in DOMAIN Vouched
        BY DEF Vouched
      <4>2. Whole(r)
        BY <3>3 DEF Whole
      <4> QED BY <1>2, <3>3, <4>1, <4>2 DEF RecordMeansWhole
    <3>4. CASE disk'[r] = disk[r] /\ disk'[f] # disk[f]
      <4>1. disk[r] = Absent
        BY <1>2, <2>2, <3>2, <3>4, FileChanges, VouchedTouched
      <4> QED BY <3>4, <4>1 DEF Whole, Absent
    <3>5. CASE disk'[r] # disk[r]
      <4>1. disk'[r] \notin {Absent, Partial}
        BY DEF Whole, Absent, Partial
      <4>2. run # Idle /\ Results(Op, r) /\ (Op.op # "retain" => disk'[r] = Produced)
        BY <1>2, <2>2, <3>2, <3>5, <4>1, ReportChanges
      <4>3. Op.op = "save" /\ run.rep.files[f] = disk[f]
        BY <1>2, <4>2, VouchedSaved
      <4>4. disk'[r] = run.rep
        BY <4>2, <4>3 DEF Produced
      <4>5. disk'[f] = disk[f]
        <5>1. ~Touches(Op, f)
          BY <3>2, <4>2, <4>3 DEF Touches, Results
        <5> QED BY <1>2, <2>2, <3>2, <5>1, FileChanges
      <4> QED BY <4>3, <4>4, <4>5
    <3> QED BY <3>3, <3>4, <3>5
  <2> QED BY <1>2, <2>1, <2>2
<1> QED BY <1>1, <1>2, ScriptsKnow, PTL DEF Spec

-----------------------------------------------------------------------------
(* When the project files were read.  A version is a number, and an edit   *)
(* makes a number that was never there; so of versions read by a script,   *)
(* one after the other, and the commit they were checked against, the      *)
(* order of the numbers is the order of the readings.                      *)
Shaped(u) ==
  /\ u = [start |-> u.start, again |-> u.again, edit |-> u.edit, stop |-> u.stop,
          moved |-> u.moved, parted |-> u.parted, undone |-> u.undone]
  /\ u.moved \in BOOLEAN /\ u.parted \in BOOLEAN /\ u.undone \in BOOLEAN
Numbered ==
  /\ Shaped(used) /\ used.edit \in Nat
  /\ work \in [Groups -> Nat]
  /\ \A g \in Groups : work[g] <= used.edit
  /\ commits \in Seq([Groups -> Nat]) /\ head > 0
  /\ \A g \in Groups : commits[head][g] <= work[g]

\* What a step that is no edit leaves of the edits.
LEMMA EditsCount ==
  ASSUME Numbered, Next, \A g \in Edited[chain] : ~Edit(g)
  PROVE Shaped(used') /\ used'.edit = used.edit
<1>1. \/ used' = used
      \/ \E key \in {"start", "again", "stop"} : used' = [used EXCEPT ![key] = @ + 1]
      \/ \E m \in BOOLEAN, p \in BOOLEAN : used' = [used EXCEPT !.moved = m, !.parted = p]
      \/ \E u \in BOOLEAN : used' = [used EXCEPT !.undone = u]
  <2>1. CASE Commit
    <3>1. \E m \in BOOLEAN, p \in BOOLEAN : used' = [used EXCEPT !.moved = m, !.parted = p]
      BY <2>1 DEF Commit
    <3> QED BY <3>1
  <2>2. CASE Restore
    <3>1. \E u \in BOOLEAN : used' = [used EXCEPT !.undone = u]
      BY <2>2 DEF Restore
    <3> QED BY <3>1
  <2>3. CASE ~Commit /\ ~Restore
    BY <2>3, NextCases DEF Start, Observe, Produce, CompileFails, Change, Run, Check,
       Refuse, Stop
  <2> QED BY <2>1, <2>2, <2>3
<1>2. Shaped(used)
  BY DEF Numbered
<1>3. CASE used' = used
  BY <1>2, <1>3
<1>4. ASSUME NEW key \in {"start", "again", "stop"}, used' = [used EXCEPT ![key] = @ + 1]
      PROVE Shaped(used') /\ used'.edit = used.edit
  BY <1>2, <1>4 DEF Shaped
<1>5. ASSUME NEW m \in BOOLEAN, NEW p \in BOOLEAN,
             used' = [used EXCEPT !.moved = m, !.parted = p]
      PROVE Shaped(used') /\ used'.edit = used.edit
  BY <1>2, <1>5 DEF Shaped
<1>6. ASSUME NEW u \in BOOLEAN, used' = [used EXCEPT !.undone = u]
      PROVE Shaped(used') /\ used'.edit = used.edit
  BY <1>2, <1>6 DEF Shaped
<1> QED BY <1>1, <1>3, <1>4, <1>5, <1>6

\* An edit makes a version that is newer than all.
LEMMA EditsGrow ==
  ASSUME Numbered, Placed, NEW g \in Edited[chain], Edit(g)
  PROVE /\ g \in Groups /\ used'.edit = used.edit + 1 /\ Shaped(used')
        /\ work' = [work EXCEPT ![g] = used.edit + 1]
        /\ \A h \in Groups : work[h] <= work'[h]
<1>1. g \in Groups
  BY DEF Placed, Programs, Edited, Groups
<1>2. /\ used' = [used EXCEPT !.edit = @ + 1]
      /\ work' = [work EXCEPT ![g] = used.edit + 1]
  BY DEF Edit
<1>3. /\ Shaped(used) /\ used.edit \in Nat /\ work \in [Groups -> Nat]
      /\ \A h \in Groups : work[h] <= used.edit
  BY DEF Numbered
<1>4. Shaped(used') /\ used'.edit = used.edit + 1
  BY <1>2, <1>3 DEF Shaped
<1>5. \A h \in Groups : work[h] \in Nat /\ work[h] <= work'[h]
  BY <1>1, <1>2, <1>3
<1> QED BY <1>1, <1>2, <1>4, <1>5

\* What a step remembers of commits and restores while a script runs.
LEMMA FlagsStay ==
  ASSUME Numbered, Next
  PROVE /\ used.moved => used'.moved
        /\ used.parted => used'.parted
        /\ used.undone => used'.undone
        /\ Commit /\ run # Idle => used'.moved
        /\ Commit /\ At({"status"}) => used'.parted
        /\ Restore /\ run # Idle => used'.undone
<1>1. Shaped(used)
  BY DEF Numbered
<1>2. /\ Commit /\ run # Idle => used'.moved
      /\ Commit /\ At({"status"}) => used'.parted
      /\ Restore /\ run # Idle => used'.undone
  BY <1>1 DEF Commit, Restore, Shaped
<1>3. CASE Commit \/ Restore
  BY <1>1, <1>2, <1>3 DEF Commit, Restore, Shaped
<1>4. CASE ~Commit /\ ~Restore
  <2>1. \/ used' = used
        \/ \E key \in {"start", "again", "edit", "stop"} :
             used' = [used EXCEPT ![key] = @ + 1]
    BY <1>4, NextCases DEF Edit, Start, Observe, Produce, CompileFails, Change, Run, Check,
       Refuse, Stop
  <2> QED BY <1>1, <1>4, <2>1 DEF Shaped
<1> QED BY <1>2, <1>3, <1>4

\* As long as the developer stays out of running scripts, no step of one is
\* a commit or a restore.
LEMMA SteadyStays ==
  ASSUME Numbered, Next, Steady'
  PROVE Steady /\ (run # Idle => ~Commit /\ ~Restore)
  BY FlagsStay DEF Steady

\* Every step keeps the versions in order.
LEMMA NumberedKept ==
  ASSUME Numbered, Placed, Next PROVE Numbered'
<1>1. ASSUME NEW g \in Edited[chain], Edit(g) PROVE Numbered'
  <2>1. commits' = commits
    BY <1>1 DEF Edit
  <2>2. commits[head] \in [Groups -> Nat]
    BY DEF Numbered, head
  <2>3. used'.edit \in Nat /\ work' \in [Groups -> Nat]
        /\ \A h \in Groups : work'[h] <= used'.edit
    <3>1. /\ used.edit \in Nat /\ work \in [Groups -> Nat]
          /\ \A h \in Groups : work[h] \in Nat /\ work[h] <= used.edit
      BY DEF Numbered
    <3>2. /\ used'.edit = used.edit + 1 /\ work' = [work EXCEPT ![g] = used.edit + 1]
      BY <1>1, EditsGrow
    <3>3. work' \in [Groups -> Nat] /\ used'.edit \in Nat
      <4>1. used'.edit \in Nat /\ used.edit + 1 \in Nat
        BY <3>1, <3>2
      <4>2. \A n \in Nat : [work EXCEPT ![g] = n] \in [Groups -> Nat]
        BY <3>1
      <4> QED BY <4>1, <4>2, <3>2
    <3>4. ASSUME NEW h \in Groups PROVE work'[h] <= used'.edit
      <4>1. work'[h] = IF h = g THEN used.edit + 1 ELSE work[h]
        BY <3>1, <3>2
      <4> QED BY <4>1, <3>1, <3>2
    <3> QED BY <3>3, <3>4
  <2>4. \A h \in Groups : commits[head][h] <= work'[h]
    BY <1>1, <2>2, <2>3, EditsGrow DEF Numbered
  <2> QED BY <1>1, <2>1, <2>3, <2>4, EditsGrow DEF Numbered, head
<1>2. CASE \A g \in Edited[chain] : ~Edit(g)
  <2>1. used'.edit = used.edit /\ Shaped(used')
    BY <1>2, EditsCount
  <2>2. commits[head] \in [Groups -> Nat] /\ \A g \in Groups : commits[head][g] <= used.edit
    BY DEF Numbered, head
  <2>3. CASE Commit
    <3>1. commits' = Append(commits, work) /\ work' = work
      BY <2>3 DEF Commit
    <3>2. /\ commits' \in Seq([Groups -> Nat]) /\ Len(commits') = Len(commits) + 1
          /\ commits'[Len(commits) + 1] = work
      BY <3>1 DEF Numbered
    <3> QED BY <2>1, <3>1, <3>2 DEF Numbered, head
  <2>4. CASE Restore
    BY <2>1, <2>2, <2>4 DEF Restore, Numbered, head
  <2>5. CASE UNCHANGED <<work, commits>>
    BY <2>1, <2>5 DEF Numbered, head
  <2> QED BY <1>2, <2>3, <2>4, <2>5, NextCases
       DEF Start, Observe, Produce, CompileFails, Change, Run, Check, Refuse, Stop
<1> QED BY <1>1, <1>2

(* The versions in a record that is there are numbers of edits made.       *)
Stamps(rep) == \A x \in DOMAIN rep.sources : rep.sources[x] \in 0..used.edit
Stamped ==
  chain = "service" =>
    /\ \A r \in Reports \intersect Files[chain] : Whole(r) => Stamps(disk[r])
    /\ run # Idle => Stamps(run.rep)

\* What the scripts of the service chain record is of the three groups.
LEMMA ServiceRecords ==
  ASSUME Placed, chain = "service", run # Idle, Op.op = "record"
  PROVE Op.group \in Groups
<1>1. run.script \in DOMAIN ServicePrograms /\ Program = ServicePrograms[run.script]
  BY DEF Placed, Program, Programs
<1>2. Program \in {BuildBionic, BionicStartup, BinderAidl, Xsdc, BuildBinder,
         BuildVintf, BuildServicemanager, BuildKernelConfig, ServiceGuest,
         ServiceIos}
  BY <1>1, ServiceProgramsAre
<1>3. run.pc \in 1..Len(Program) /\ Op = Program[run.pc]
  BY DEF Placed, Op
<1>4. CASE Program = BuildBionic
  <2>1. \A i \in DOMAIN BuildBionic : BuildBionic[i].op = "record" => BuildBionic[i].group \in Groups
    BY BuildBionicIs DEF Groups, Digest, Make, Save
  <2> QED BY <2>1, <1>3, <1>4, BuildBionicIs
<1>5. CASE Program = BionicStartup
  <2>1. \A i \in DOMAIN BionicStartup : BionicStartup[i].op = "record" => BionicStartup[i].group \in Groups
    BY BionicStartupIs DEF Groups, Digest, Execute, Gate, Make, Revision, Save
  <2> QED BY <2>1, <1>3, <1>5, BionicStartupIs
<1>6. CASE Program = BinderAidl
  <2>1. \A i \in DOMAIN BinderAidl : BinderAidl[i].op = "record" => BinderAidl[i].group \in Groups
    BY BinderAidlIs DEF Groups, Digest, Once, Record, Revision, Save, Unlink
  <2> QED BY <2>1, <1>3, <1>6, BinderAidlIs
<1>7. CASE Program = Xsdc
  <2>1. \A i \in DOMAIN Xsdc : Xsdc[i].op = "record" => Xsdc[i].group \in Groups
    BY XsdcIs DEF Groups, Digest, Gate, Held, Make, Record, Revision, Save,
       Unlink
  <2> QED BY <2>1, <1>3, <1>7, XsdcIs
<1>8. CASE Program = BuildBinder
  <2>1. \A i \in DOMAIN BuildBinder : BuildBinder[i].op = "record" => BuildBinder[i].group \in Groups
    BY BuildBinderIs DEF Groups, Digest, Gate, Held, Make, Record, Revision,
       Save, Unlink
  <2> QED BY <2>1, <1>3, <1>8, BuildBinderIs
<1>9. CASE Program = BuildVintf
  <2>1. \A i \in DOMAIN BuildVintf : BuildVintf[i].op = "record" => BuildVintf[i].group \in Groups
    BY BuildVintfIs DEF Groups, Digest, Gate, Held, Make, Record, Revision,
       Save, Unlink
  <2> QED BY <2>1, <1>3, <1>9, BuildVintfIs
<1>10. CASE Program = BuildServicemanager
  <2>1. \A i \in DOMAIN BuildServicemanager : BuildServicemanager[i].op = "record" => BuildServicemanager[i].group \in Groups
    BY BuildServicemanagerIs DEF Groups, Digest, Gate, Held, Make, Record,
       Revision, Save, Status, Unlink
  <2> QED BY <2>1, <1>3, <1>10, BuildServicemanagerIs
<1>11. CASE Program = BuildKernelConfig
  <2>1. \A i \in DOMAIN BuildKernelConfig : BuildKernelConfig[i].op = "record" => BuildKernelConfig[i].group \in Groups
    BY BuildKernelConfigIs DEF Groups, Digest, Held, Make, Record, Revision,
       Save, Status, Unlink
  <2> QED BY <2>1, <1>3, <1>11, BuildKernelConfigIs
<1>12. CASE Program = ServiceGuest
  <2>1. \A i \in DOMAIN ServiceGuest : ServiceGuest[i].op = "record" => ServiceGuest[i].group \in Groups
    BY ServiceGuestIs DEF Groups, Digest, Execute, Gate, Make, Record,
       Revision, Save, Status
  <2> QED BY <2>1, <1>3, <1>12, ServiceGuestIs
<1>13. CASE Program = ServiceIos
  <2>1. \A i \in DOMAIN ServiceIos : ServiceIos[i].op = "record" => ServiceIos[i].group \in Groups
    BY ServiceIosIs DEF Groups, Digest, Gate, Make, Revision, Save, Status,
       Unlink
  <2> QED BY <2>1, <1>3, <1>13, ServiceIosIs
<1> QED BY <1>2, <1>4, <1>5, <1>6, <1>7, <1>8, <1>9, <1>10, <1>11, <1>12, <1>13

\* The versions in a record stay numbers of edits made.
LEMMA StampsStay ==
  ASSUME Numbered, NEW rep, Stamps(rep), used'.edit \in Nat, used.edit <= used'.edit
  PROVE Stamps(rep)'
<1>1. used.edit \in Nat /\ 0..used.edit \subseteq 0..used'.edit
  BY DEF Numbered
<1> QED BY <1>1 DEF Stamps

\* Every step keeps them.
LEMMA StampedKept ==
  ASSUME Numbered, Placed, Knows, Honest, Stamped, Next PROVE Stamped'
<1>1. chain' = chain /\ Files[chain]' = Files[chain]
  BY ChainKept
<1> SUFFICES ASSUME chain = "service"
             PROVE /\ \A r \in Reports \intersect Files[chain] :
                        Whole(r)' => Stamps(disk[r])'
                   /\ run' # Idle => Stamps(run.rep)'
  BY <1>1 DEF Stamped
<1>2. /\ \A r \in Reports \intersect Files[chain] : Whole(r) => Stamps(disk[r])
      /\ run # Idle => Stamps(run.rep)
  BY DEF Stamped
<1>3. used.edit \in Nat /\ used'.edit \in Nat /\ used.edit <= used'.edit
  BY EditsCount, EditsGrow DEF Numbered
<1>4. ASSUME NEW r \in Reports, r \in Files[chain], Whole(r)' PROVE Stamps(disk[r])'
  <2>1. CASE disk'[r] = disk[r]
    <3>1. Stamps(disk[r])
      BY <1>2, <1>4, <2>1 DEF Whole
    <3>2. \A rep : Stamps(rep) => Stamps(rep)'
      BY <1>3, StampsStay
    <3> QED BY <2>1, <3>1, <3>2 DEF Stamps
  <2>2. CASE disk'[r] # disk[r]
    <3>1. disk'[r] \notin {Absent, Partial}
      BY <1>4 DEF Whole, Absent, Partial
    <3>2. run # Idle /\ Results(Op, r) /\ (Op.op # "retain" => disk'[r] = Produced)
      BY <1>4, <2>2, <3>1, ReportChanges
    <3>3. Op.op = "save"
      BY <3>2, SavedIsTrue
    <3>4. disk'[r] = run.rep
      BY <3>2, <3>3 DEF Produced
    <3>5. Stamps(run.rep)
      BY <1>2, <3>2
    <3> QED BY <1>3, <3>4, <3>5 DEF Stamps
  <2> QED BY <2>1, <2>2
<1>5. ASSUME run' # Idle PROVE Stamps(run.rep)'
  <2>1. CASE run = Idle
    <3>1. Commit \/ Restore \/ (\E g \in Edited[chain] : Edit(g))
          \/ \E s \in DOMAIN Programs[chain] : Start(s)
      BY <2>1, NextCases DEF Observe, Produce, CompileFails, Change, Run, Check,
           Refuse, Stop, At
    <3>2. run'.rep = NoRecord
      BY <1>5, <2>1, <3>1 DEF Commit, Restore, Edit, Start
    <3> QED BY <3>2 DEF Stamps, NoRecord
  <2>2. CASE run # Idle /\ run' = run
    BY <1>2, <1>3, <2>2 DEF Stamps
  <2>3. CASE run # Idle /\ Moved /\ Noted
    <3>1. CASE Op.op = "record"
      <4>1. Op.group \in Groups
        BY <2>3, <3>1, ServiceRecords
      <4>2. work[Op.group] \in 0..used.edit
        BY <4>1 DEF Numbered
      <4>3. \A x \in DOMAIN run'.rep.sources :
              \/ run'.rep.sources[x] = work[Op.group]
              \/ x \in DOMAIN run.rep.sources
                 /\ run'.rep.sources[x] = run.rep.sources[x]
        BY <2>3, <3>1 DEF Noted, With, Over
      <4> QED BY <1>2, <1>3, <2>3, <4>2, <4>3 DEF Stamps
    <3>2. CASE Op.op # "record"
      BY <1>2, <1>3, <2>3, <3>2 DEF Stamps, Noted
    <3> QED BY <3>1, <3>2
  <2> QED BY <1>5, <2>1, <2>2, <2>3, Running
<1> QED BY <1>4, <1>5

(* The record has what the operation recorded; it has what the operation   *)
(* found of the working tree.                                              *)
Recorded(k) ==
  /\ Done(k) /\ Program[k].op = "record"
  /\ \A j \in (k + 1)..(run.pc - 1) :
       ~(Program[j].op = "record" /\ Program[j].key = Program[k].key)
Judging(k) ==
  /\ Done(k) /\ Program[k].op = "status"
  /\ \A j \in (k + 1)..(run.pc - 1) : Program[j].op # "status"

(* The version v of the group was in the working tree at or before the     *)
(* operation i of the running script, and no older than HEAD: what is      *)
(* recorded later is no older, and if later the tree is clean, it is       *)
(* HEAD's.                                                                 *)
Dated(i, g, v) ==
  /\ v \in Nat /\ commits[head][g] <= v /\ v <= work[g]
  /\ \A k : (Recorded(k) /\ k > i /\ Program[k].group = g)
               => v <= run.rep.sources[Program[k].key]
  /\ \A k : (Judging(k) /\ k > i /\ ~run.rep.dirty) => v = commits[head][g]

(* The versions recorded, compiled, parsed or looked at are dated.         *)
Recording ==
  \A k, g : (Recorded(k) /\ Program[k].group = g /\ g \in Groups) =>
    /\ Program[k].key \in DOMAIN run.rep.sources
    /\ \A v : v = run.rep.sources[Program[k].key] => Dated(k, g, v)
Using ==
  \A i :
    (/\ Done(i) /\ Program[i].op \in {"make", "compile"} /\ Compiled(i)
     /\ Program[i].out \in Files[chain] /\ Since(i, Program[i].out))
      => \A g \in Program[i].groups \intersect Groups : \A v :
           v = disk[Program[i].out].from[g] => Dated(i, g, v)

PinOnly(v) == [g \in {"pin"} |-> v]
Holding ==
  \A i, k :
    (/\ Done(i) /\ Program[i].op \in {"held", "once"} /\ Program[i].groups \subseteq {"unit"}
     /\ Program[i].out \in Files[chain] /\ Since(i, Program[i].out)
     /\ Recorded(k) /\ k < i /\ Program[k].key = "held" /\ Program[k].group = "pin")
      => LET from == disk[Program[i].out].from
         IN /\ from["pin"] = run.rep.sources["held"]
            /\ Program[i].groups = {} => from = PinOnly(run.rep.sources["held"])
            /\ \A g \in Program[i].groups : \A v : v = from[g] => Dated(i, g, v)

(* What a check compared with the working tree, if it is there still.      *)
Looking ==
  \A i, c : Passes(i, c) =>
    /\ (/\ c.check = "parsed" /\ c.group \in Groups
        /\ c.report \in Files[chain] /\ Since(i, c.report))
         => \A v : v = Sources(c.report)["held"] => Dated(i, c.group, v)
    /\ (/\ c.check = "fresh" /\ c.group \in Groups
        /\ c.file \in Files[chain] /\ Since(i, c.file))
         => \A v : v = disk[c.file].from[c.group] => Dated(i, c.group, v)
    /\ (/\ c.check = "tree" /\ c.report \in Files[chain] /\ Since(i, c.report))
         => \A g \in c.groups \intersect Groups \intersect DOMAIN Sources(c.report) :
              \A v : v = Sources(c.report)[g] => Dated(i, g, v)

(* A clean tree was HEAD's.  An edit since makes versions no report that   *)
(* was there had seen: one that has the tree's version has HEAD's.         *)
Unseen ==
  \A k : (chain = "service" /\ Judging(k) /\ ~run.rep.dirty) =>
    \A r \in Reports \intersect Files[chain] : (Whole(r) /\ Since(k, r)) =>
      \A x \in DOMAIN Sources(r), g \in Groups :
        Sources(r)[x] = work[g] => Sources(r)[x] = commits[head][g]
Compared ==
  \A i, k, c :
    (/\ chain = "service" /\ Judging(k) /\ ~run.rep.dirty /\ Passes(i, c) /\ k < i
     /\ c.check = "tree" /\ c.report \in Reports \intersect Files[chain]
     /\ Since(k, c.report) /\ Whole(c.report))
      => \A g \in c.groups \intersect Groups \intersect DOMAIN Sources(c.report) :
           Sources(c.report)[g] = commits[head][g]

(* A record that was saved and not touched since names HEAD.               *)
Saving ==
  \A i, k :
    (/\ Done(i) /\ Program[i].op = "save" /\ Program[i].out \in Files[chain]
     /\ Since(i, Program[i].out) /\ Done(k) /\ Program[k].op = "revision" /\ k < i)
      => Whole(Program[i].out) /\ disk[Program[i].out].commit = head

(* HEAD is where it was read, and what was compared with git show holds.   *)
Revised == \A i : (Done(i) /\ Program[i].op = "revision") => run.rep.commit = head
Shown ==
  \A i, c :
    (/\ Passes(i, c) /\ c.check = "git" /\ c.report \in Files[chain] /\ Since(i, c.report)
     /\ \A j \in (i + 1)..(run.pc - 1) : Program[j].op # "revision")
      => Holds(c)

(* All this while the developer stays out of running scripts.              *)
Dates ==
  run # Idle =>
    /\ Recording /\ Using /\ Holding /\ Looking /\ Unseen /\ Compared /\ Saving
    /\ Revised /\ Shown

\* The operations of a script that are done stay done.
LEMMA MovedOn ==
  ASSUME Placed, run # Idle, Moved
  PROVE /\ \A k : Recorded(k)' =>
             \/ k = run.pc /\ Op.op = "record"
             \/ Recorded(k) /\ ~(Op.op = "record" /\ Op.key = Program[k].key)
        /\ \A k : Judging(k)' => \/ k = run.pc /\ Op.op = "status"
                                 \/ Judging(k) /\ Op.op # "status"
        /\ \A i, c : Passes(i, c)' => \/ i = run.pc /\ Passes(i, c)'
                                      \/ Passes(i, c)
        /\ \A i : (Done(i) /\ Compiled(i)') =>
             (Program[i].op = "compile" => Op.op # "execute")
<1>1. /\ Program' = Program /\ Program[run.pc] = Op
      /\ \A i : Done(i)' <=> (Done(i) \/ i = run.pc)
  BY MovedSince
<1>2. run.pc \in Nat \ {0} /\ run'.pc = run.pc + 1
  BY DEF Placed, Moved
<1>3. \A k : Done(k) => /\ run.pc \in (k + 1)..(run'.pc - 1)
                        /\ (k + 1)..(run.pc - 1) \subseteq (k + 1)..(run'.pc - 1)
  BY <1>2 DEF Done
<1>4. \A k : Recorded(k)' =>
        \/ k = run.pc /\ Op.op = "record"
        \/ Recorded(k) /\ ~(Op.op = "record" /\ Op.key = Program[k].key)
  BY <1>1, <1>3 DEF Recorded
<1>5. \A k : Judging(k)' => \/ k = run.pc /\ Op.op = "status"
                            \/ Judging(k) /\ Op.op # "status"
  BY <1>1, <1>3 DEF Judging
<1>6. \A i, c : Passes(i, c)' => i = run.pc \/ Passes(i, c)
  BY <1>1 DEF Passes
<1>7. \A i : (Done(i) /\ Compiled(i)') => (Program[i].op = "compile" => Op.op # "execute")
  BY <1>1, <1>3 DEF Compiled
<1> QED BY <1>4, <1>5, <1>6, <1>7

\* A dated version stays dated.
LEMMA DatedStays ==
  ASSUME Numbered, Placed, Recording, run # Idle, Next,
         (Moved /\ Noted) \/ \E h \in Edited[chain] : Edit(h),
         NEW i \in Nat, NEW g \in Groups, NEW v, Dated(i, g, v)
  PROVE Dated(i, g, v)'
<1>1. work[g] \in Nat /\ commits[head][g] \in Nat
  BY DEF Numbered, head
<1>2. CASE \E h \in Edited[chain] : Edit(h)
  <2>0. UNCHANGED <<chain, commits, disk, run, passed>>
    BY <1>2 DEF Edit
  <2>1. work[g] <= work'[g] /\ work'[g] \in Nat
    BY <1>2, EditsGrow, NumberedKept DEF Numbered
  <2>2. head' = head /\ Program' = Program /\ commits' = commits /\ run' = run
    BY <2>0 DEF head, Program
  <2>3. /\ \A k : Recorded(k)' <=> Recorded(k)
        /\ \A k : Judging(k)' <=> Judging(k)
    BY <2>2 DEF Recorded, Judging, Done
  <2>4. v <= work'[g]
    BY <1>1, <2>1 DEF Dated
  <2> QED BY <2>2, <2>3, <2>4 DEF Dated
<1>3. CASE Moved /\ Noted
  <2>1. UNCHANGED <<work, commits, head>> /\ Program' = Program /\ Program[run.pc] = Op
    BY <1>3, MovedSince DEF Moved, head
  <2>2. v \in Nat /\ commits[head][g] <= v /\ v <= work[g]
    BY DEF Dated
  <2>3. ASSUME NEW k, Recorded(k)', k > i, Program[k].group = g
        PROVE v <= run'.rep.sources[Program[k].key]
    <3>1. CASE k = run.pc /\ Op.op = "record"
      <4>1. run'.rep.sources = With(run.rep.sources, Op.key, work[Op.group])
        BY <1>3, <3>1 DEF Noted
      <4>2. run'.rep.sources[Op.key] = work[g]
        BY <2>1, <2>3, <3>1, <4>1 DEF With, Over
      <4> QED BY <2>1, <2>2, <3>1, <4>2
    <3>2. CASE Recorded(k) /\ ~(Op.op = "record" /\ Op.key = Program[k].key)
      <4>1. Program[k].key \in DOMAIN run.rep.sources
        BY <2>3, <3>2 DEF Recording
      <4>2. run'.rep.sources[Program[k].key] = run.rep.sources[Program[k].key]
        BY <1>3, <3>2, <4>1 DEF Noted, With, Over
      <4> QED BY <2>3, <3>2, <4>2 DEF Dated
    <3> QED BY <1>3, <2>3, <3>1, <3>2, MovedOn
  <2>4. ASSUME NEW k, Judging(k)', k > i, ~run'.rep.dirty
        PROVE v = commits[head][g]
    <3>1. CASE k = run.pc /\ Op.op = "status"
      <4>1. work = commits[head]
        BY <1>3, <2>4, <3>1 DEF Noted
      <4> QED BY <1>1, <2>2, <4>1
    <3>2. CASE Judging(k) /\ Op.op # "status"
      <4>1. ~run.rep.dirty
        BY <1>3, <2>4, <3>2 DEF Noted
      <4> QED BY <2>4, <3>2, <4>1 DEF Dated
    <3> QED BY <1>3, <2>4, <3>1, <3>2, MovedOn
  <2> QED BY <2>1, <2>2, <2>3, <2>4 DEF Dated
<1> QED BY <1>2, <1>3

\* A version read by the operation that is executed now is dated.
LEMMA DatedNow ==
  ASSUME Numbered, Placed, run # Idle, Moved, NEW i, i = run.pc, NEW g \in Groups,
         NEW v, v = work[g]
  PROVE Dated(i, g, v)'
<1>1. work[g] \in Nat /\ commits[head][g] \in Nat /\ commits[head][g] <= work[g]
  BY DEF Numbered, head
<1>2. UNCHANGED <<work, commits, head>>
  BY DEF Moved, head
<1>3. \A k : Done(k)' => ~(k > run.pc)
  <2>1. run.pc \in Nat \ {0} /\ run'.pc = run.pc + 1
    BY DEF Placed, Moved
  <2> QED BY <2>1 DEF Done
<1> QED BY <1>1, <1>2, <1>3 DEF Dated, Recorded, Judging

\* An edit leaves the dates.
LEMMA DatesEdited ==
  ASSUME Numbered, Stamped, Placed, Dates, Next, run # Idle, NEW h \in Edited[chain],
         Edit(h), UNCHANGED <<chain, commits, disk, run, passed>>
  PROVE Dates'
<1>1. /\ Recording /\ Using /\ Holding /\ Looking /\ Unseen /\ Compared /\ Saving
      /\ Revised /\ Shown
  BY DEF Dates
<1>2. /\ Program' = Program /\ Files[chain]' = Files[chain] /\ head' = head
      /\ \A i : Done(i)' <=> Done(i)
      /\ \A i, f : Since(i, f)' <=> Since(i, f)
  BY DEF Program, Done, Since, head
<1>3. /\ \A k : Recorded(k)' <=> Recorded(k)
      /\ \A k : Judging(k)' <=> Judging(k)
      /\ \A i, c : Passes(i, c)' <=> Passes(i, c)
      /\ \A i : Compiled(i)' <=> Compiled(i)
      /\ \A i : Done(i) => i \in Nat
  BY <1>2 DEF Recorded, Judging, Passes, Compiled, Done
<1>4. \A i \in Nat, g \in Groups : \A v : Dated(i, g, v) => Dated(i, g, v)'
  BY <1>1, DatedStays
<1>5. Recording'
  BY <1>1, <1>2, <1>3, <1>4 DEF Recording, Recorded
<1>6. Using'
  BY <1>1, <1>2, <1>3, <1>4 DEF Using
<1>7. Holding'
  <2>1. {"unit"} \subseteq Groups
    BY DEF Groups
  <2> QED BY <1>1, <1>2, <1>3, <1>4, <2>1 DEF Holding
<1>8. Looking'
  <2> SUFFICES ASSUME NEW i, NEW c, Passes(i, c)
               PROVE /\ (/\ c.check = "parsed" /\ c.group \in Groups
                         /\ c.report \in Files[chain] /\ Since(i, c.report))
                          => \A v : v = Sources(c.report)["held"]
                                      => Dated(i, c.group, v)'
                     /\ (/\ c.check = "fresh" /\ c.group \in Groups
                         /\ c.file \in Files[chain] /\ Since(i, c.file))
                          => \A v : v = disk[c.file].from[c.group]
                                      => Dated(i, c.group, v)'
                     /\ (/\ c.check = "tree" /\ c.report \in Files[chain]
                         /\ Since(i, c.report))
                          => \A g \in c.groups \intersect Groups
                                      \intersect DOMAIN Sources(c.report) :
                               \A v : v = Sources(c.report)[g] => Dated(i, g, v)'
    BY <1>2, <1>3 DEF Looking, Sources
  <2>1. i \in Nat
    BY <1>3 DEF Passes
  <2> QED BY <1>1, <1>4, <2>1 DEF Looking
<1>9. Unseen'
  <2> SUFFICES ASSUME NEW k, chain = "service", Judging(k), ~run.rep.dirty,
                      NEW r \in Reports \intersect Files[chain], Whole(r), Since(k, r),
                      NEW x \in DOMAIN Sources(r), NEW g \in Groups,
                      Sources(r)[x] = work'[g]
               PROVE Sources(r)[x] = commits[head][g]
    BY <1>2, <1>3 DEF Unseen, Sources, Whole
  <2>1. Sources(r)[x] \in 0..used.edit
    BY DEF Stamped, Stamps, Sources
  <2>2. /\ work' = [work EXCEPT ![h] = used.edit + 1] /\ work \in [Groups -> Nat]
        /\ used.edit \in Nat
    BY EditsGrow DEF Numbered
  <2>3. work'[g] = IF g = h THEN used.edit + 1 ELSE work[g]
    BY <2>2
  <2>4. g # h
    BY <2>1, <2>2, <2>3
  <2>5. Sources(r)[x] = work[g]
    BY <2>3, <2>4
  <2> QED BY <2>5, <1>1 DEF Unseen
<1>10. Compared' /\ Saving' /\ Revised'
  BY <1>1, <1>2, <1>3 DEF Compared, Saving, Revised, Sources, Whole
<1>11. Shown'
  <2>1. \A c : c.check = "git" /\ Holds(c) => Holds(c)'
    BY DEF Holds, Sources
  <2> QED BY <1>1, <1>2, <1>3, <2>1 DEF Shown
<1> QED BY <1>5, <1>6, <1>7, <1>8, <1>9, <1>10, <1>11 DEF Dates

-----------------------------------------------------------------------------
(* An operation keeps them too.                                            *)

\* What is recorded.
LEMMA RecordingMoved ==
  ASSUME Numbered, Placed, Dates, Next, run # Idle, run' # Idle, Moved, Noted
  PROVE Recording'
<1>1. Recording
  BY DEF Dates
<1>2. Program' = Program /\ Program[run.pc] = Op
  BY MovedSince
<1> SUFFICES ASSUME NEW k, Recorded(k)', NEW g \in Groups, Program[k].group = g
             PROVE /\ Program[k].key \in DOMAIN run'.rep.sources
                   /\ \A v : v = run'.rep.sources[Program[k].key] => Dated(k, g, v)'
  BY <1>2 DEF Recording
<1>3. CASE k = run.pc /\ Op.op = "record"
  <2>1. run'.rep.sources = With(run.rep.sources, Op.key, work[Op.group])
    BY <1>3 DEF Noted
  <2>2. /\ Op.key \in DOMAIN run'.rep.sources
        /\ run'.rep.sources[Op.key] = work[g]
    BY <1>2, <1>3, <2>1 DEF With, Over
  <2> QED BY <1>2, <1>3, <2>2, DatedNow
<1>4. CASE Recorded(k) /\ ~(Op.op = "record" /\ Op.key = Program[k].key)
  <2>1. /\ Program[k].key \in DOMAIN run.rep.sources
        /\ \A v : v = run.rep.sources[Program[k].key] => Dated(k, g, v)
    BY <1>1, <1>4 DEF Recording
  <2>2. /\ Program[k].key \in DOMAIN run'.rep.sources
        /\ run'.rep.sources[Program[k].key] = run.rep.sources[Program[k].key]
    BY <1>4, <2>1 DEF Noted, With, Over
  <2>3. k \in Nat
    BY <1>4 DEF Recorded, Done
  <2> QED BY <1>1, <2>1, <2>2, <2>3, DatedStays
<1> QED BY <1>3, <1>4, MovedOn

\* What is compiled.
LEMMA UsingMoved ==
  ASSUME Numbered, Placed, Dates, Next, run # Idle, run' # Idle,
         Moved, Kept, Written, Noted, Judged
  PROVE Using'
<1>1. Recording /\ Using
  BY DEF Dates
<1>2. /\ Program' = Program /\ Files[chain]' = Files[chain] /\ Program[run.pc] = Op
      /\ \A i : Done(i)' <=> (Done(i) \/ i = run.pc)
      /\ \A i, f : Done(i) /\ Since(i, f)' => Since(i, f) /\ ~Touches(Op, f)
  BY MovedSince
<1> SUFFICES ASSUME NEW i, Done(i)', Program[i].op \in {"make", "compile"}, Compiled(i)',
                    Program[i].out \in Files[chain], Since(i, Program[i].out)',
                    NEW g \in Program[i].groups, g \in Groups,
                    NEW v, v = disk'[Program[i].out].from[g]
             PROVE Dated(i, g, v)'
  BY <1>2 DEF Using
<1>3. CASE i = run.pc
  <2>1. Op.op = "compile" => run'.rep.passed
    BY <1>2, <1>3 DEF Compiled
  <2>2. disk'[Op.out] = Produced
    BY <1>2, <1>3, <2>1 DEF Written, Writes
  <2>3. Produced = Built(Restricted(work, Op.groups), Restricted(disk, Op.ins))
    BY <1>2, <1>3 DEF Produced
  <2>4. v = work[g]
    BY <1>2, <1>3, <2>2, <2>3 DEF Built, Restricted
  <2> QED BY <1>3, <2>4, DatedNow
<1>4. CASE Done(i)
  <2>1. Since(i, Program[i].out) /\ disk'[Program[i].out] = disk[Program[i].out]
    BY <1>2, <1>4 DEF Kept
  <2>2. Compiled(i)
    <3>1. run.pc \in (i + 1)..(run'.pc - 1)
          /\ (i + 1)..(run.pc - 1) \subseteq (i + 1)..(run'.pc - 1)
      BY <1>4 DEF Moved, Placed, Done
    <3> QED BY <3>1, <1>2 DEF Compiled, Judged
  <2>3. Dated(i, g, v)
    BY <1>1, <1>4, <2>1, <2>2 DEF Using
  <2>4. i \in Nat
    BY <1>4 DEF Done
  <2> QED BY <1>1, <2>3, <2>4, DatedStays
<1> QED BY <1>2, <1>3, <1>4

\* What is made from the pins in memory.
LEMMA HoldingMoved ==
  ASSUME Numbered, Placed, Dates, Next, run # Idle, run' # Idle,
         Moved, Kept, Written, Noted, Judged
  PROVE Holding'
<1>1. Recording /\ Holding
  BY DEF Dates
<1>2. /\ Program' = Program /\ Files[chain]' = Files[chain] /\ Program[run.pc] = Op
      /\ \A i : Done(i)' <=> (Done(i) \/ i = run.pc)
      /\ \A i, f : Done(i) /\ Since(i, f)' => Since(i, f) /\ ~Touches(Op, f)
  BY MovedSince
<1> SUFFICES ASSUME NEW i, NEW k, Done(i)', Program[i].op \in {"held", "once"},
                    Program[i].groups \subseteq {"unit"},
                    Program[i].out \in Files[chain], Since(i, Program[i].out)',
                    Recorded(k)', k < i, Program[k].key = "held",
                    Program[k].group = "pin"
             PROVE LET from == disk'[Program[i].out].from
                   IN /\ from["pin"] = run'.rep.sources["held"]
                      /\ Program[i].groups = {} => from = PinOnly(run'.rep.sources["held"])
                      /\ \A g \in Program[i].groups : \A v : v = from[g] => Dated(i, g, v)'
  BY <1>2 DEF Holding, PinOnly
<1>3. /\ Recorded(k) /\ ~(Op.op = "record" /\ Op.key = "held")
      /\ "held" \in DOMAIN run.rep.sources
      /\ run'.rep.sources["held"] = run.rep.sources["held"]
  <2>1. run.pc \in Nat \ {0} /\ run'.pc = run.pc + 1
    BY DEF Placed, Moved
  <2>2. i <= run.pc
    BY <1>2, <2>1 DEF Done
  <2>3. Recorded(k) /\ ~(Op.op = "record" /\ Op.key = "held")
    <3>1. k \in Nat /\ i \in Nat
      BY <1>2, <2>1 DEF Recorded, Done
    <3>2. k # run.pc
      BY <2>1, <2>2, <3>1
    <3> QED BY <3>2, MovedOn
  <2>4. "held" \in DOMAIN run.rep.sources
    BY <1>1, <2>3 DEF Recording, Groups
  <2> QED BY <2>3, <2>4 DEF Noted, With, Over
<1>4. CASE i = run.pc
  <2>1. disk'[Op.out] = Produced
    BY <1>2, <1>4 DEF Written, Writes
  <2>2. Produced = Built(FromHeld, Restricted(disk, Op.ins))
    BY <1>2, <1>4 DEF Produced
  <2>3. disk'[Op.out].from = FromHeld
    BY <2>1, <2>2 DEF Built
  <2>4. FromHeld["pin"] = run.rep.sources["held"]
    BY DEF FromHeld, With, Over
  <2>5. Op.groups = {} => FromHeld = PinOnly(run.rep.sources["held"])
    BY DEF FromHeld, With, Over, Restricted, PinOnly
  <2>6. \A g \in Op.groups : g \in Groups /\ FromHeld[g] = work[g]
    BY <1>2, <1>4 DEF FromHeld, With, Over, Restricted, Groups
  <2>7. ASSUME NEW g \in Op.groups, NEW v, v = work[g] PROVE Dated(i, g, v)'
    BY <1>4, <2>6, <2>7, DatedNow
  <2> QED BY <1>2, <1>3, <1>4, <2>3, <2>4, <2>5, <2>6, <2>7
<1>5. CASE Done(i)
  <2>1. Since(i, Program[i].out) /\ disk'[Program[i].out] = disk[Program[i].out]
    BY <1>2, <1>5 DEF Kept
  <2>2. LET from == disk[Program[i].out].from
        IN /\ from["pin"] = run.rep.sources["held"]
           /\ Program[i].groups = {} => from = PinOnly(run.rep.sources["held"])
           /\ \A g \in Program[i].groups : \A v : v = from[g] => Dated(i, g, v)
    BY <1>1, <1>3, <1>5, <2>1 DEF Holding
  <2>3. i \in Nat /\ {"unit"} \subseteq Groups
    BY <1>5 DEF Done, Groups
  <2> QED BY <1>1, <1>3, <2>1, <2>2, <2>3, DatedStays
<1> QED BY <1>2, <1>4, <1>5

\* What checks compared with the working tree.
LEMMA LookingMoved ==
  ASSUME Numbered, Placed, Dates, Next, run # Idle, run' # Idle,
         Moved, Kept, Written, Noted, Judged
  PROVE Looking'
<1>1. Recording /\ Looking
  BY DEF Dates
<1>2. /\ Program' = Program /\ Files[chain]' = Files[chain] /\ Program[run.pc] = Op
      /\ \A i : Done(i)' <=> (Done(i) \/ i = run.pc)
      /\ \A i, f : Done(i) /\ Since(i, f)' => Since(i, f) /\ ~Touches(Op, f)
  BY MovedSince
<1>3. \A f \in Files[chain] : Op.op = "check" => disk'[f] = disk[f]
  BY DEF Kept, Touches, Writes
<1>4. ASSUME NEW i, NEW c, Passes(i, c)', i = run.pc
      PROVE Op.op = "check" /\ Holds(c)
  BY <1>2, <1>4, AllHoldMeans DEF Passes, Judged
<1>5. ASSUME NEW i, NEW c, Passes(i, c)' PROVE i = run.pc \/ (Passes(i, c) /\ i \in Nat)
  <2>1. i = run.pc \/ Passes(i, c)
    BY <1>5, MovedOn
  <2>2. Passes(i, c) => i \in Nat
    BY DEF Passes, Done
  <2> QED BY <2>1, <2>2
<1>6. ASSUME NEW i, NEW c, Passes(i, c)', c.check = "parsed", NEW g \in Groups,
             g = c.group, c.report \in Files[chain], Since(i, c.report)',
             NEW v, v = disk'[c.report].sources["held"]
      PROVE Dated(i, g, v)'
  <2>1. CASE i = run.pc
    BY <1>3, <1>4, <1>6, <2>1, DatedNow DEF Holds, Sources
  <2>2. CASE Passes(i, c) /\ i \in Nat
    <3>1. Since(i, c.report) /\ disk'[c.report] = disk[c.report]
      BY <1>2, <1>6, <2>2 DEF Kept, Passes
    <3>2. Dated(i, g, v)
      BY <1>1, <1>6, <2>2, <3>1 DEF Looking, Sources
    <3> QED BY <1>1, <2>2, <3>2, DatedStays
  <2> QED BY <1>5, <1>6, <2>1, <2>2
<1>7. ASSUME NEW i, NEW c, Passes(i, c)', c.check = "fresh", NEW g \in Groups,
             g = c.group, c.file \in Files[chain], Since(i, c.file)',
             NEW v, v = disk'[c.file].from[g]
      PROVE Dated(i, g, v)'
  <2>1. CASE i = run.pc
    BY <1>3, <1>4, <1>7, <2>1, DatedNow DEF Holds
  <2>2. CASE Passes(i, c) /\ i \in Nat
    <3>1. Since(i, c.file) /\ disk'[c.file] = disk[c.file]
      BY <1>2, <1>7, <2>2 DEF Kept, Passes
    <3>2. Dated(i, g, v)
      BY <1>1, <1>7, <2>2, <3>1 DEF Looking
    <3> QED BY <1>1, <2>2, <3>2, DatedStays
  <2> QED BY <1>5, <1>7, <2>1, <2>2
<1>8. ASSUME NEW i, NEW c, Passes(i, c)', c.check = "tree", c.report \in Files[chain],
             Since(i, c.report)', NEW g \in c.groups, g \in Groups,
             g \in DOMAIN disk'[c.report].sources, NEW v, v = disk'[c.report].sources[g]
      PROVE Dated(i, g, v)'
  <2>1. CASE i = run.pc
    BY <1>3, <1>4, <1>8, <2>1, DatedNow DEF Holds, Sources
  <2>2. CASE Passes(i, c) /\ i \in Nat
    <3>1. Since(i, c.report) /\ disk'[c.report] = disk[c.report]
      BY <1>2, <1>8, <2>2 DEF Kept, Passes
    <3>2. Dated(i, g, v)
      BY <1>1, <1>8, <2>2, <3>1 DEF Looking, Sources
    <3>3. g \in Groups
      BY <1>8
    <3> QED BY <1>1, <2>2, <3>2, <3>3, DatedStays
  <2>3. i = run.pc \/ (Passes(i, c) /\ i \in Nat)
    <3>1. Passes(i, c)'
      BY <1>8
    <3> QED BY <3>1, <1>5
  <2> QED BY <2>1, <2>2, <2>3
<1> QED BY <1>2, <1>6, <1>7, <1>8 DEF Looking, Sources

\* What a clean tree had not seen.
LEMMA UnseenMoved ==
  ASSUME Numbered, Placed, Dates, run # Idle, Moved, Kept, Noted
  PROVE Unseen'
<1>1. Unseen
  BY DEF Dates
<1>2. /\ Program' = Program /\ Files[chain]' = Files[chain] /\ Program[run.pc] = Op
      /\ \A i, f : Done(i) /\ Since(i, f)' => Since(i, f) /\ ~Touches(Op, f)
      /\ UNCHANGED <<chain, commits, head, work>>
  BY MovedSince DEF Moved, head
<1> SUFFICES ASSUME NEW k, chain = "service", Judging(k)', ~run'.rep.dirty,
                    NEW r \in Reports \intersect Files[chain], Whole(r)', Since(k, r)',
                    NEW x \in DOMAIN disk'[r].sources, NEW g \in Groups,
                    disk'[r].sources[x] = work[g]
             PROVE disk'[r].sources[x] = commits[head][g]
  BY <1>2 DEF Unseen, Sources
<1>3. CASE k = run.pc /\ Op.op = "status"
  <2>1. work = commits[head]
    BY <1>3 DEF Noted
  <2> QED BY <2>1
<1>4. CASE Judging(k) /\ Op.op # "status"
  <2>1. ~run.rep.dirty /\ Since(k, r) /\ disk'[r] = disk[r]
    BY <1>2, <1>4 DEF Noted, Kept, Judging
  <2> QED BY <1>1, <1>4, <2>1 DEF Unseen, Sources, Whole
<1> QED BY <1>3, <1>4, MovedOn

\* What was compared with a tree that had been clean.
LEMMA ComparedMoved ==
  ASSUME Numbered, Placed, Dates, run # Idle, Moved, Kept, Noted, Judged
  PROVE Compared'
<1>1. Unseen /\ Compared
  BY DEF Dates
<1>2. /\ Program' = Program /\ Files[chain]' = Files[chain] /\ Program[run.pc] = Op
      /\ \A i : Done(i)' <=> (Done(i) \/ i = run.pc)
      /\ \A i, f : Done(i) /\ Since(i, f)' => Since(i, f) /\ ~Touches(Op, f)
      /\ UNCHANGED <<chain, commits, head, work>>
  BY MovedSince DEF Moved, head
<1> SUFFICES ASSUME NEW i, NEW k, NEW c, chain = "service", Judging(k)',
                    ~run'.rep.dirty, Passes(i, c)', k < i, c.check = "tree",
                    c.report \in Reports \intersect Files[chain], Since(k, c.report)',
                    Whole(c.report)', NEW g \in c.groups, g \in Groups,
                    g \in DOMAIN disk'[c.report].sources
             PROVE disk'[c.report].sources[g] = commits[head][g]
  BY <1>2 DEF Compared, Sources
<1>3. Judging(k) /\ Op.op # "status" /\ (i = run.pc \/ Passes(i, c))
  <2>1. run.pc \in Nat \ {0} /\ run'.pc = run.pc + 1
    BY DEF Placed, Moved
  <2>2. i <= run.pc
    BY <1>2, <2>1 DEF Done, Passes
  <2>3. k \in Nat /\ i \in Nat
    BY <1>2, <2>1 DEF Judging, Passes, Done
  <2>4. k # run.pc
    BY <2>1, <2>2, <2>3
  <2> QED BY <2>4, MovedOn
<1>4. ~run.rep.dirty /\ Since(k, c.report) /\ disk'[c.report] = disk[c.report]
  BY <1>2, <1>3 DEF Noted, Kept, Judging
<1>5. CASE i = run.pc
  <2>1. Holds(c)
    BY <1>2, <1>5, AllHoldMeans DEF Passes, Judged
  <2>2. disk[c.report].sources[g] = work[g]
    BY <1>4, <2>1 DEF Holds, Sources
  <2> QED BY <1>1, <1>3, <1>4, <2>2 DEF Unseen, Sources, Whole
<1>6. CASE Passes(i, c)
  BY <1>1, <1>3, <1>4, <1>6 DEF Compared, Sources, Whole
<1> QED BY <1>3, <1>5, <1>6

\* What is saved.
LEMMA SavingMoved ==
  ASSUME Numbered, Placed, Dates, run # Idle, Moved, Kept, Written, Noted
  PROVE Saving'
<1>1. Saving /\ Revised
  BY DEF Dates
<1>2. /\ Program' = Program /\ Files[chain]' = Files[chain] /\ Program[run.pc] = Op
      /\ \A i : Done(i)' <=> (Done(i) \/ i = run.pc)
      /\ \A i, f : Done(i) /\ Since(i, f)' => Since(i, f) /\ ~Touches(Op, f)
      /\ head' = head
  BY MovedSince DEF Moved, head
<1>3. run.pc \in Nat \ {0} /\ run'.pc = run.pc + 1
  BY DEF Placed, Moved
<1> SUFFICES ASSUME NEW i, NEW k, Done(i)', Program[i].op = "save",
                    Program[i].out \in Files[chain], Since(i, Program[i].out)',
                    Done(k)', Program[k].op = "revision", k < i
             PROVE /\ disk'[Program[i].out].kind \notin {"absent", "partial"}
                   /\ disk'[Program[i].out].commit = head
  BY <1>2 DEF Saving, Whole
<1>4. Done(k)
  BY <1>2, <1>3 DEF Done
<1>5. CASE i = run.pc
  <2>1. disk'[Op.out] = run.rep
    BY <1>2, <1>5 DEF Written, Writes, Produced
  <2>2. run.rep.kind = "report" /\ run.rep.commit = head
    BY <1>1, <1>4 DEF Placed, Revised
  <2>3. Program[i].out = Op.out
    BY <1>2, <1>5
  <2> QED BY <2>1, <2>2, <2>3
<1>6. CASE Done(i)
  <2>1. Since(i, Program[i].out) /\ disk'[Program[i].out] = disk[Program[i].out]
    BY <1>2, <1>6 DEF Kept
  <2> QED BY <1>1, <1>4, <1>6, <2>1 DEF Saving, Whole
<1> QED BY <1>2, <1>5, <1>6

\* What was read of HEAD.
LEMMA RevisedMoved ==
  ASSUME Placed, Dates, run # Idle, Moved, Noted
  PROVE Revised'
<1>1. /\ Program' = Program /\ Program[run.pc] = Op
      /\ \A i : Done(i)' <=> (Done(i) \/ i = run.pc)
  BY MovedSince
<1>2. head' = head
  BY DEF Moved, head
<1> QED BY <1>1, <1>2 DEF Dates, Revised, Noted

\* What was compared with git show.
LEMMA ShownMoved ==
  ASSUME Placed, Dates, run # Idle, Moved, Kept, Noted, Judged
  PROVE Shown'
<1>1. Shown
  BY DEF Dates
<1>2. /\ Program' = Program /\ Files[chain]' = Files[chain] /\ Program[run.pc] = Op
      /\ \A i : Done(i)' <=> (Done(i) \/ i = run.pc)
      /\ \A i, f : Done(i) /\ Since(i, f)' => Since(i, f) /\ ~Touches(Op, f)
      /\ commits' = commits
  BY MovedSince DEF Moved
<1> SUFFICES ASSUME NEW i, NEW c, Passes(i, c)', c.check = "git",
                    c.report \in Files[chain], Since(i, c.report)',
                    \A j \in (i + 1)..(run'.pc - 1) : Program[j].op # "revision"
             PROVE Holds(c)'
  BY <1>2 DEF Shown
<1>3. ASSUME disk'[c.report] = disk[c.report], run'.rep.commit = run.rep.commit, Holds(c)
      PROVE Holds(c)'
  BY <1>2, <1>3 DEF Holds, Sources
<1>4. CASE i = run.pc
  <2>1. Op.op = "check"
    BY <1>2, <1>4 DEF Passes
  <2>2. Holds(c)
    BY <1>2, <1>4, AllHoldMeans DEF Passes, Judged
  <2>3. disk'[c.report] = disk[c.report] /\ run'.rep.commit = run.rep.commit
    BY <2>1 DEF Kept, Noted, Touches, Writes
  <2> QED BY <1>3, <2>2, <2>3
<1>5. CASE Passes(i, c)
  <2>0. Done(i)
    BY <1>5 DEF Passes
  <2>1. run.pc \in (i + 1)..(run'.pc - 1)
        /\ (i + 1)..(run.pc - 1) \subseteq (i + 1)..(run'.pc - 1)
    BY <2>0 DEF Moved, Placed, Done
  <2>2. Op.op # "revision" /\ \A j \in (i + 1)..(run.pc - 1) : Program[j].op # "revision"
    BY <1>2, <2>1
  <2>3. Since(i, c.report) /\ disk'[c.report] = disk[c.report]
        /\ run'.rep.commit = run.rep.commit
    BY <1>2, <2>0, <2>2 DEF Kept, Noted
  <2>4. Holds(c)
    BY <1>1, <1>5, <2>2, <2>3 DEF Shown
  <2> QED BY <1>3, <2>3, <2>4
<1> QED BY <1>4, <1>5, MovedOn

\* Every step keeps the dates, unless the developer gets into a script.
LEMMA DatesKept ==
  ASSUME Numbered, Stamped, Placed, Dates, Next, Steady' PROVE Dates'
<1> SUFFICES ASSUME run' # Idle
             PROVE /\ Recording' /\ Using' /\ Holding' /\ Looking' /\ Unseen'
                   /\ Compared' /\ Saving' /\ Revised' /\ Shown'
  BY DEF Dates
<1>1. CASE run = Idle
  <2>1. Commit \/ Restore \/ (\E g \in Edited[chain] : Edit(g))
        \/ \E s \in DOMAIN Programs[chain] : Start(s)
    BY <1>1, NextCases DEF Observe, Produce, CompileFails, Change, Run, Check,
         Refuse, Stop, At
  <2>2. run'.pc = 1
    BY <1>1, <2>1 DEF Commit, Restore, Edit, Start
  <2>3. /\ \A i : ~Done(i)' /\ ~Recorded(i)' /\ ~Judging(i)'
        /\ \A i, c : ~Passes(i, c)'
    BY <2>2 DEF Done, Recorded, Judging, Passes
  <2> QED BY <2>3 DEF Recording, Using, Holding, Looking, Unseen, Compared, Saving,
                      Revised, Shown
<1>2. ASSUME run # Idle, NEW g \in Edited[chain], Edit(g) PROVE Dates'
  <2>1. UNCHANGED <<chain, commits, disk, run, passed>>
    BY <1>2 DEF Edit
  <2> QED BY <1>2, <2>1, DatesEdited
<1>3. CASE run # Idle /\ Moved /\ Kept /\ Written /\ Noted /\ Judged
  BY <1>3, RecordingMoved, UsingMoved, HoldingMoved, LookingMoved, UnseenMoved,
     ComparedMoved, SavingMoved, RevisedMoved, ShownMoved
<1>4. run # Idle => ~Commit /\ ~Restore
  BY SteadyStays
<1> QED BY <1>1, <1>2, <1>3, <1>4, Running DEF Dates

\* The versions of project files are always ordered as they were read, until
\* a commit or a restore falls into a running script.
THEOREM VersionsAreOrdered == Spec => [](Numbered /\ Stamped /\ (Steady => Dates))
<1>1. Init => Numbered /\ Stamped /\ Dates
  <2> SUFFICES ASSUME Init PROVE Numbered /\ Stamped /\ Dates
    OBVIOUS
  <2>1. commits = <<work>> /\ work \in [Groups -> Nat] /\ \A g \in Groups : work[g] = 0
    BY DEF Init
  <2>2. commits \in Seq([Groups -> Nat]) /\ Len(commits) = 1 /\ commits[1] = work
    BY <2>1
  <2>3. Numbered
    <3>1. Shaped(used) /\ used.edit = 0
      BY DEF Init, Shaped
    <3> QED BY <2>1, <2>2, <3>1 DEF Numbered, head
  <2>4. Stamped /\ Dates
    BY DEF Init, Stamped, Dates, Whole, Absent
  <2> QED BY <2>3, <2>4
<1>2. Placed /\ Knows /\ Honest /\ Numbered /\ Stamped /\ (Steady => Dates) /\ [Next]_vars
        => (Numbered /\ Stamped /\ (Steady => Dates))'
  <2>1. ASSUME Numbered, Stamped, Steady => Dates, UNCHANGED vars
        PROVE (Numbered /\ Stamped /\ (Steady => Dates))'
    <3>1. /\ UNCHANGED <<chain, commits, work, disk, run, passed, used, head>>
          /\ Program' = Program /\ Files[chain]' = Files[chain]
          /\ \A i : Done(i)' <=> Done(i)
          /\ \A i, f : Since(i, f)' <=> Since(i, f)
      BY <2>1 DEF vars, Program, Done, Since, head
    <3>2. /\ \A k : Recorded(k)' <=> Recorded(k)
          /\ \A k : Judging(k)' <=> Judging(k)
          /\ \A i, c : Passes(i, c)' <=> Passes(i, c)
          /\ \A i : Compiled(i)' <=> Compiled(i)
      BY <3>1 DEF Recorded, Judging, Passes, Compiled
    <3>3. \A i, g, v : Dated(i, g, v)' <=> Dated(i, g, v)
      BY <3>1, <3>2 DEF Dated
    <3>4. Numbered' /\ Stamped' /\ Steady' = Steady
      BY <2>1, <3>1 DEF Numbered, Stamped, Stamps, Whole, Steady
    <3>5. (Recording /\ Using)' <=> Recording /\ Using
      BY <3>1, <3>2, <3>3 DEF Recording, Using
    <3>6. Holding' <=> Holding
      BY <3>1, <3>2, <3>3 DEF Holding, PinOnly
    <3>7. Looking' <=> Looking
      BY <3>1, <3>2, <3>3 DEF Looking, Sources
    <3>8. (Unseen /\ Compared)' <=> Unseen /\ Compared
      BY <3>1, <3>2 DEF Unseen, Compared, Sources, Whole
    <3>9. (Saving /\ Revised)' <=> Saving /\ Revised
      BY <3>1 DEF Saving, Revised, Whole
    <3>10. Shown' <=> Shown
      <4>1. \A c : c.check = "git" => (Holds(c)' <=> Holds(c))
        BY <3>1 DEF Holds, Sources
      <4> QED BY <3>1, <3>2, <4>1 DEF Shown
    <3> QED BY <2>1, <3>1, <3>4, <3>5, <3>6, <3>7, <3>8, <3>9, <3>10 DEF Dates
  <2>2. ASSUME Placed, Knows, Honest, Numbered, Stamped, Steady => Dates, Next
        PROVE (Numbered /\ Stamped /\ (Steady => Dates))'
    BY <2>2, NumberedKept, StampedKept, DatesKept, SteadyStays
  <2> QED BY <2>1, <2>2
<1> QED BY <1>1, <1>2, ScriptsKnow, RecordsAreTrue, PTL DEF Spec

-----------------------------------------------------------------------------
(* What a record says of where its files come from.                        *)

(* The version was read after the commit of the record was made, and       *)
(* before what the record has under the key.                               *)
Within(rec, g, key, v) ==
  /\ key \in DOMAIN rec.sources
  /\ v \in Nat /\ commits[rec.commit][g] <= v /\ v <= rec.sources[key]
Named(rec) == rec.commit \in DOMAIN commits

Adapted(object) ==
  {object.from["unit"], object.of["art.units"].from["unit"],
   object.of["art.units"].of["art.gen"].from["unit"]}
ArtFrom(lib, at) == \A v \in Adapted(lib.of["art.o"]) : v = at["unit"]
LibcoreFrom(lib, at) ==
  /\ ArtFrom(lib.of["libart.so"], at)
  /\ lib.of["libart.so"].of["art.ld"].from["layout"] = at["layout"]
  /\ lib.of["libicu.so"].of["icu.client"].from["unit"] = at["unit"]
  /\ lib.of["libicu.so"].of["icu.ld"].from["layout"] = at["layout"]
  /\ lib.of["core.client"].from["unit"] = at["unit"]

Clients == [x \in {"icu.build", "core.build"} |->
              IF x = "icu.build" THEN "icu.client" ELSE "core.client"]
GuestOrigin(r, rec) ==
  LET at == commits[rec.commit]
      files == rec.files
  IN /\ r = "art.build" /\ rec.passed =>
          /\ Named(rec)
          /\ \A v \in Adapted(files["art.o"]) : Within(rec, "unit", "unit", v)
     /\ r \in DOMAIN Clients /\ rec.passed /\ Clients[r] \in DOMAIN files =>
          /\ Named(rec)
          /\ Within(rec, "unit", "client", files[Clients[r]].from["unit"])
     /\ r = "art.link" =>
          /\ Named(rec) /\ ArtFrom(files["libart.so"], at)
          /\ Within(rec, "layout", "layout",
                    files["libart.so"].of["art.ld"].from["layout"])
     /\ r = "icu.link" /\ "iculink.src" \in DOMAIN files =>
          /\ Named(rec)
          /\ files["libicu.so"].of["icu.client"].from["unit"] = at["unit"]
          /\ Within(rec, "layout", "layout",
                    files["libicu.so"].of["icu.ld"].from["layout"])
     /\ r \in {"core.link", "staged"} =>
          Named(rec) /\ LibcoreFrom(files["libcore.so"], at)

(* The bindings are generated from the pins and from nothing else.         *)
Bindings(v) == Built(PinOnly(v), [x \in {} |-> x])
Bound(rec, object) ==
  \E v : object.of["aidl.gen"] = Bindings(v) /\ Within(rec, "pin", "pin", v)
ServiceFrom(lib, at) ==
  LET service == lib.of["service.a"].of["service.o"]
      binder == lib.of["binder.a"].of["binder.o"]
      vintf == lib.of["vintf.a"].of["vintf.o"]
  IN /\ \A object \in {service, binder, vintf} : object.from["pin"] = at["pin"]
     /\ service.from["unit"] = at["unit"]
     /\ service.of["aidl.gen"] = Bindings(at["pin"])
     /\ binder.of["aidl.gen"] = Bindings(at["pin"])
     /\ vintf.of["xsd.gen"].from["pin"] = at["pin"]

ServiceOrigin(r, rec) ==
  LET service == rec.files["service.a"].of["service.o"]
      binder == rec.files["binder.a"].of["binder.o"]
      vintf == rec.files["vintf.a"].of["vintf.o"]
      at == commits[rec.commit]
  IN /\ r = "aidl.rep" => rec.files["aidl.gen"] = Bindings(rec.sources["held"])
     /\ r = "binder.rep" =>
          Named(rec) /\ Within(rec, "pin", "pin", binder.from["pin"]) /\ Bound(rec, binder)
     /\ r = "vintf.rep" =>
          /\ Named(rec) /\ Within(rec, "pin", "pin", vintf.from["pin"])
          /\ Within(rec, "pin", "pin", vintf.of["xsd.gen"].from["pin"])
     /\ r = "service.rep" =>
          /\ Named(rec) /\ Within(rec, "pin", "pin", service.from["pin"])
          /\ Within(rec, "unit", "unit", service.from["unit"]) /\ Bound(rec, service)
     /\ (r = "service.guest" /\ ~rec.dirty) \/ r = "staged" =>
          Named(rec) /\ ServiceFrom(rec.files["libservice.so"], at)

Origin(r, rec) ==
  /\ chain = "guest" => GuestOrigin(r, rec)
  /\ chain = "service" => ServiceOrigin(r, rec)

(* Every record there is says where its files come from.                   *)
Traced ==
  \A r \in Reports \intersect Files[chain] : \A rec :
    (disk[r] = rec /\ Whole(r)) => Origin(r, rec)

\* What was read no earlier than a commit, and no later than what is of that
\* commit, is of that commit.
LEMMA WithinExact ==
  ASSUME Numbered, NEW rec, Named(rec), NEW g \in Groups, NEW key, NEW v,
         Within(rec, g, key, v), rec.sources[key] = commits[rec.commit][g]
  PROVE v = commits[rec.commit][g]
<1>1. commits[rec.commit] \in [Groups -> Nat]
  BY DEF Numbered, Named
<1>2. commits[rec.commit][g] \in Nat
  BY <1>1
<1> QED BY <1>2 DEF Within

\* A record keeps its commit, which keeps its project files.
LEMMA CommitsStay ==
  ASSUME Numbered, Next
  PROVE \A n \in DOMAIN commits : n \in DOMAIN commits' /\ commits'[n] = commits[n]
<1>1. CASE Commit
  <2>1. commits' = Append(commits, work) /\ commits \in Seq([Groups -> Nat])
        /\ work \in [Groups -> Nat]
    BY <1>1 DEF Commit, Numbered
  <2> QED BY <2>1
<1>2. CASE ~Commit
  BY <1>2, NextCases DEF Edit, Restore, Start, Observe, Produce, CompileFails, Change,
     Run, Check, Refuse, Stop
<1> QED BY <1>1, <1>2

\* So what is said of its origin stays true.
LEMMA OriginStays ==
  ASSUME NEW r, NEW rec, Origin(r, rec), chain' = chain,
         \A n \in DOMAIN commits : n \in DOMAIN commits' /\ commits'[n] = commits[n]
  PROVE Origin(r, rec)'
<1>1. Named(rec) => Named(rec)' /\ commits'[rec.commit] = commits[rec.commit]
  BY DEF Named
<1>2. \A g, key, v : Named(rec) /\ Within(rec, g, key, v) => Within(rec, g, key, v)'
  BY <1>1 DEF Within
<1>3. ASSUME chain = "guest" PROVE GuestOrigin(r, rec)'
  <2>1. GuestOrigin(r, rec)
    BY <1>3 DEF Origin
  <2>2. r = "art.build" /\ rec.passed =>
          /\ Named(rec)'
          /\ \A v \in Adapted(rec.files["art.o"]) : Within(rec, "unit", "unit", v)'
    BY <1>1, <1>2, <2>1 DEF GuestOrigin
  <2>3. r \in DOMAIN Clients /\ rec.passed /\ Clients[r] \in DOMAIN rec.files =>
          /\ Named(rec)'
          /\ \A v : v = rec.files[Clients[r]].from["unit"]
                     => Within(rec, "unit", "client", v)'
    BY <1>1, <1>2, <2>1 DEF GuestOrigin
  <2>4. r = "art.link" =>
          /\ Named(rec)' /\ ArtFrom(rec.files["libart.so"], commits'[rec.commit])
          /\ \A v : v = rec.files["libart.so"].of["art.ld"].from["layout"]
                     => Within(rec, "layout", "layout", v)'
    BY <1>1, <1>2, <2>1 DEF GuestOrigin
  <2>5. r = "icu.link" /\ "iculink.src" \in DOMAIN rec.files =>
          /\ Named(rec)'
          /\ rec.files["libicu.so"].of["icu.client"].from["unit"]
               = commits'[rec.commit]["unit"]
          /\ \A v : v = rec.files["libicu.so"].of["icu.ld"].from["layout"]
                     => Within(rec, "layout", "layout", v)'
    BY <1>1, <1>2, <2>1 DEF GuestOrigin
  <2>6. r \in {"core.link", "staged"} =>
          Named(rec)' /\ LibcoreFrom(rec.files["libcore.so"], commits'[rec.commit])
    BY <1>1, <2>1 DEF GuestOrigin
  <2>7. r \in DOMAIN Clients => r \in {"icu.build", "core.build"}
    BY DEF Clients
  <2> QED BY <2>2, <2>3, <2>4, <2>5, <2>6 DEF GuestOrigin, Within, Named, Adapted,
       ArtFrom, LibcoreFrom, Clients
<1>4. \A object : Named(rec) /\ Bound(rec, object) => Bound(rec, object)'
  BY <1>2 DEF Bound, Bindings, Built, PinOnly
<1>5. ASSUME chain = "service" PROVE ServiceOrigin(r, rec)'
  <2>1. ServiceOrigin(r, rec)
    BY <1>5 DEF Origin
  <2>2. \A object, lib, v : /\ Bound(rec, object)' <=> \E x :
                                  /\ object.of["aidl.gen"] = Bindings(x)
                                  /\ Within(rec, "pin", "pin", x)'
                           /\ Bindings(v)' = Bindings(v)
    BY DEF Bound, Bindings, Built, PinOnly
  <2>3. r = "binder.rep" => \A object : object = rec.files["binder.a"].of["binder.o"] =>
          /\ Named(rec)' /\ Bound(rec, object)'
          /\ \A v : v = object.from["pin"] => Within(rec, "pin", "pin", v)'
    BY <1>1, <1>2, <1>4, <2>1 DEF ServiceOrigin
  <2>4. r = "vintf.rep" => \A object : object = rec.files["vintf.a"].of["vintf.o"] =>
          /\ Named(rec)'
          /\ \A v : v \in {object.from["pin"], object.of["xsd.gen"].from["pin"]}
                     => Within(rec, "pin", "pin", v)'
    BY <1>1, <1>2, <2>1 DEF ServiceOrigin
  <2>5. r = "service.rep" => \A object : object = rec.files["service.a"].of["service.o"] =>
          /\ Named(rec)' /\ Bound(rec, object)'
          /\ \A v : v = object.from["pin"] => Within(rec, "pin", "pin", v)'
          /\ \A v : v = object.from["unit"] => Within(rec, "unit", "unit", v)'
    BY <1>1, <1>2, <1>4, <2>1 DEF ServiceOrigin
  <2>6. (r = "service.guest" /\ ~rec.dirty) \/ r = "staged" =>
          Named(rec)' /\ ServiceFrom(rec.files["libservice.so"], commits'[rec.commit])
    BY <1>1, <2>1 DEF ServiceOrigin
  <2>7. r = "aidl.rep" => rec.files["aidl.gen"] = Bindings(rec.sources["held"])
    BY <2>1 DEF ServiceOrigin
  <2> QED BY <2>2, <2>3, <2>4, <2>5, <2>6, <2>7
       DEF ServiceOrigin, ServiceFrom, Within, Named, Bindings, Built, PinOnly
<1> QED BY <1>3, <1>5 DEF Origin

\* A dated version lies between HEAD and what the record has of it.
LEMMA DatedWithin ==
  ASSUME Numbered, Dates, run # Idle, NEW n, Done(n), Program[n] = Revision,
         NEW i, NEW g \in Groups, NEW v, Dated(i, g, v),
         NEW k, NEW key, Program[k] = Record(key, g), Recorded(k), k > i
  PROVE Named(run.rep) /\ Within(run.rep, g, key, v)
<1>1. Program[n].op = "revision" /\ Program[k].group = g /\ Program[k].key = key
  BY DEF Revision, Record
<1>2. run.rep.commit = head /\ head \in DOMAIN commits
  BY <1>1 DEF Dates, Revised, Numbered, head
<1>3. key \in DOMAIN run.rep.sources
  BY <1>1 DEF Dates, Recording
<1> QED BY <1>1, <1>2, <1>3 DEF Dated, Within, Named

\* The version a tool read is dated.
LEMMA MadeDated ==
  ASSUME Dates, run # Idle, NEW i, NEW out, NEW groups, NEW ins,
         Program[i] = Make(out, groups, ins), Still(i, out), NEW g \in groups, g \in Groups,
         NEW v, v = disk[out].from[g]
  PROVE Dated(i, g, v)
<1>1. /\ Program[i].op = "make" /\ Program[i].out = out /\ Program[i].groups = groups
      /\ Compiled(i)
  BY DEF Make, Compiled
<1> QED BY <1>1 DEF Dates, Using, Still

\* So is the version a compiler read, if nothing failed.
LEMMA CompiledDated ==
  ASSUME Dates, run # Idle, NEW i, NEW out, NEW groups, NEW ins,
         Program[i] = Compile(out, groups, ins), Still(i, out), NEW g \in groups,
         g \in Groups, run.rep.passed,
         \A j \in (i + 1)..(run.pc - 1) : Program[j].op # "execute",
         NEW v, v = disk[out].from[g]
  PROVE Dated(i, g, v)
<1>1. /\ Program[i].op = "compile" /\ Program[i].out = out /\ Program[i].groups = groups
      /\ Compiled(i)
  BY DEF Compile, Compiled
<1> QED BY <1>1 DEF Dates, Using, Still

\* So are the pins that were parsed, and what was read beside them.
LEMMA HeldDated ==
  ASSUME Dates, run # Idle, NEW i, NEW k, NEW out, NEW groups,
         Program[i].op \in {"held", "once"}, Program[i].out = out,
         Program[i].groups = groups, Still(i, out), groups \subseteq {"unit"},
         Recorded(k), Program[k] = Record("held", "pin"), k < i
  PROVE /\ disk[out].from["pin"] = run.rep.sources["held"]
        /\ \A v : v = disk[out].from["pin"] => Dated(k, "pin", v)
        /\ groups = {} => disk[out].from = PinOnly(run.rep.sources["held"])
        /\ \A g \in groups : \A v : v = disk[out].from[g] => Dated(i, g, v)
<1>1. Program[k].key = "held" /\ Program[k].group = "pin" /\ "pin" \in Groups
  BY DEF Record, Groups
<1>2. /\ disk[out].from["pin"] = run.rep.sources["held"]
      /\ groups = {} => disk[out].from = PinOnly(run.rep.sources["held"])
      /\ \A g \in groups : \A v : v = disk[out].from[g] => Dated(i, g, v)
  BY <1>1 DEF Dates, Holding, Still
<1>3. \A v : v = run.rep.sources["held"] => Dated(k, "pin", v)
  BY <1>1 DEF Dates, Recording
<1> QED BY <1>2, <1>3

-----------------------------------------------------------------------------
(* Every record of the guest says it when it is saved.                     *)

\* The record of the ART objects, if all were compiled.
LEMMA RuntimeTraced ==
  ASSUME Numbered, Placed, Knows, Dates, chain = "guest", run # Idle,
         Program = BuildArtRuntime, run.pc = 12, run.rep.passed
  PROVE /\ Named(run.rep)
        /\ \A v \in Adapted(run.rep.files["art.o"]) : Within(run.rep, "unit", "unit", v)
<1>1. /\ Still(1, "art.gen") /\ Still(2, "art.gen") /\ Still(2, "art.units")
      /\ Still(7, "art.units") /\ Still(7, "art.o") /\ Still(8, "art.o")
      /\ Recorded(11) /\ Done(3)
      /\ \A j \in (7 + 1)..(run.pc - 1) : Program[j].op # "execute"
  BY BuildArtRuntimeIs, GuestFiles
     DEF Still, Recorded, Done, Since, Touches, Writes, Gate, Make, Compile, Revision,
         Record, Digest, Save
<1>2. /\ Program[1] = Make("art.gen", {"unit"}, {}) /\ Program[3] = Revision
      /\ Program[2] = Make("art.units", {"unit"}, {"art.gen"})
      /\ Program[7] = Compile("art.o", {"unit"}, {"art.units"})
      /\ Program[8] = Digest({"art.o"}) /\ Program[11] = Record("unit", "unit")
  BY BuildArtRuntimeIs
<1>3. run.rep.files["art.o"] = disk["art.o"]
  BY <1>1, <1>2, KnowDigest
<1>4. disk["art.o"].of["art.units"] = disk["art.units"]
  BY <1>1, <1>2, KnowCompile
<1>5. disk["art.units"].of["art.gen"] = disk["art.gen"]
  BY <1>1, <1>2, KnowMake
<1>6. "unit" \in Groups
  BY DEF Groups
<1>7. /\ \A v : v = disk["art.gen"].from["unit"] => Dated(1, "unit", v)
      /\ \A v : v = disk["art.units"].from["unit"] => Dated(2, "unit", v)
  BY <1>1, <1>2, <1>6, MadeDated
<1>8. \A v : v = disk["art.o"].from["unit"] => Dated(7, "unit", v)
  BY <1>1, <1>2, <1>6, CompiledDated
<1>9. \A i \in {1, 2, 7} : \A v :
        Dated(i, "unit", v) => Named(run.rep) /\ Within(run.rep, "unit", "unit", v)
  BY <1>1, <1>2, <1>6, DatedWithin
<1>10. Adapted(run.rep.files["art.o"]) =
         {disk["art.o"].from["unit"], disk["art.units"].from["unit"],
          disk["art.gen"].from["unit"]}
  BY <1>3, <1>4, <1>5 DEF Adapted
<1> QED BY <1>7, <1>8, <1>9, <1>10

\* The records of the two builds with a caller of their own.  Before it is
\* compiled the record is saved without it.
LEMMA NativeTraced ==
  ASSUME Numbered, Placed, Knows, Dates, chain = "guest", run # Idle,
         Program = BuildArtNativeLibraries, run.pc \in {7, 12}, run.rep.passed,
         "icu.client" \in DOMAIN run.rep.files
  PROVE /\ Named(run.rep)
        /\ Within(run.rep, "unit", "client", run.rep.files["icu.client"].from["unit"])
<1>1. run.pc = 12
  <2>1. PICK i : /\ Done(i)
                 /\ \/ Program[i].op = "digest" /\ "icu.client" \in Program[i].files
                    \/ Program[i].op = "draft" /\ "icu.client" = Program[i].name
    BY DEF Knows, Listed
  <2>2. \A j \in 1..6 : /\ Program[j].op # "draft"
                        /\ Program[j].op = "digest" => "icu.client" \notin Program[j].files
    BY BuildArtNativeLibrariesIs DEF Revision, Make, Digest, Record, Compile
  <2> QED BY <2>1, <2>2 DEF Done
<1>2. /\ Still(9, "icu.client") /\ Still(11, "icu.client") /\ Recorded(10) /\ Done(1)
      /\ \A j \in (9 + 1)..(run.pc - 1) : Program[j].op # "execute"
  BY <1>1, BuildArtNativeLibrariesIs, GuestFiles
     DEF Still, Recorded, Done, Since, Touches, Writes, Gate, Make, Compile, Revision,
         Record, Digest, Save
<1>3. /\ Program[1] = Revision /\ Program[9] = Compile("icu.client", {"unit"}, {})
      /\ Program[10] = Record("client", "unit") /\ Program[11] = Digest({"icu.client"})
      /\ "unit" \in Groups
  BY BuildArtNativeLibrariesIs DEF Groups
<1>4. run.rep.files["icu.client"] = disk["icu.client"]
  BY <1>2, <1>3, KnowDigest
<1>5. \A v : v = disk["icu.client"].from["unit"] => Dated(9, "unit", v)
  BY <1>2, <1>3, CompiledDated
<1>6. \A v : Dated(9, "unit", v) =>
        Named(run.rep) /\ Within(run.rep, "unit", "client", v)
  BY <1>2, <1>3, DatedWithin
<1> QED BY <1>4, <1>5, <1>6

\* The same of libcore.
LEMMA LibcoreTraced ==
  ASSUME Numbered, Placed, Knows, Dates, chain = "guest", run # Idle,
         Program = BuildArtLibcore, run.pc \in {8, 13}, run.rep.passed,
         "core.client" \in DOMAIN run.rep.files
  PROVE /\ Named(run.rep)
        /\ Within(run.rep, "unit", "client", run.rep.files["core.client"].from["unit"])
<1>1. run.pc = 13
  <2>1. PICK i : /\ Done(i)
                 /\ \/ Program[i].op = "digest" /\ "core.client" \in Program[i].files
                    \/ Program[i].op = "draft" /\ "core.client" = Program[i].name
    BY DEF Knows, Listed
  <2>2. \A j \in 1..7 : /\ Program[j].op # "draft"
                        /\ Program[j].op = "digest" => "core.client" \notin Program[j].files
    BY BuildArtLibcoreIs DEF Gate, Revision, Make, Digest, Record, Compile
  <2> QED BY <2>1, <2>2 DEF Done
<1>2. /\ Still(10, "core.client") /\ Still(12, "core.client") /\ Recorded(11) /\ Done(3)
      /\ \A j \in (10 + 1)..(run.pc - 1) : Program[j].op # "execute"
  BY <1>1, BuildArtLibcoreIs, GuestFiles
     DEF Still, Recorded, Done, Since, Touches, Writes, Gate, Make, Compile, Revision,
         Record, Digest, Save
<1>3. /\ Program[3] = Revision /\ Program[10] = Compile("core.client", {"unit"}, {})
      /\ Program[11] = Record("client", "unit") /\ Program[12] = Digest({"core.client"})
      /\ "unit" \in Groups
  BY BuildArtLibcoreIs DEF Groups
<1>4. run.rep.files["core.client"] = disk["core.client"]
  BY <1>2, <1>3, KnowDigest
<1>5. \A v : v = disk["core.client"].from["unit"] => Dated(10, "unit", v)
  BY <1>2, <1>3, CompiledDated
<1>6. \A v : Dated(10, "unit", v) =>
        Named(run.rep) /\ Within(run.rep, "unit", "client", v)
  BY <1>2, <1>3, DatedWithin
<1> QED BY <1>4, <1>5, <1>6

\* The record of a script that read HEAD names HEAD.
LEMMA HeadNamed ==
  ASSUME Numbered, Dates, run # Idle, NEW n, Done(n), Program[n] = Revision
  PROVE run.rep.commit = head /\ head \in DOMAIN commits /\ Named(run.rep)
  BY DEF Revision, Dates, Revised, Numbered, Named, head

\* The project files of a report still are those of its commit.
LEMMA KnowGit ==
  ASSUME Dates, run # Idle, NEW i, NEW r, Passes(i, Git(r)), Still(i, r),
         \A j \in (i + 1)..(run.pc - 1) : Program[j].op # "revision"
  PROVE \A g \in Groups \intersect DOMAIN disk[r].sources :
          disk[r].sources[g] = commits[run.rep.commit][g]
<1> DEFINE c == Git(r)
<1>1. c.check = "git" /\ c.report = r
  BY DEF Git
<1>2. Holds(c)
  <2> HIDE DEF c
  <2>1. Passes(i, c)
    BY DEF c
  <2> QED BY <2>1, <1>1 DEF Dates, Shown, Still
<1> QED BY <1>1, <1>2 DEF Holds, Sources

\* What a record has within its commit and its project files is of the
\* commit, once these have been compared with it.
LEMMA GitExact ==
  ASSUME Numbered, Dates, run # Idle, NEW i, NEW r, Passes(i, Git(r)), Still(i, r),
         \A j \in (i + 1)..(run.pc - 1) : Program[j].op # "revision",
         disk[r].commit = run.rep.commit, Named(run.rep),
         NEW g \in Groups, NEW v, Within(disk[r], g, g, v)
  PROVE v = commits[run.rep.commit][g]
<1>1. g \in DOMAIN disk[r].sources
  BY DEF Within
<1>2. disk[r].sources[g] = commits[disk[r].commit][g]
  BY <1>1, KnowGit
<1>3. Named(disk[r])
  BY DEF Named
<1> QED BY <1>2, <1>3, WithinExact

\* A caller's versions, once they have been compared with the commit.
LEMMA ClientExact ==
  ASSUME Numbered, Knows, Dates, run # Idle, NEW i, NEW r, Passes(i, Git(r)), Still(i, r),
         Passes(i, Require(r, {"client"})),
         \A j \in (i + 1)..(run.pc - 1) : Program[j].op # "revision",
         disk[r].commit = run.rep.commit, Named(run.rep),
         NEW v, Within(disk[r], "unit", "client", v)
  PROVE v = commits[run.rep.commit]["unit"]
<1>1. Has(r, "client")
  BY KnowRequire
<1>2. /\ "unit" \in DOMAIN disk[r].sources /\ "unit" \in Groups
      /\ disk[r].sources["client"] = disk[r].sources["unit"]
  BY <1>1 DEF Has, Sources, Groups
<1>3. disk[r].sources["client"] = commits[disk[r].commit]["unit"]
  BY <1>2, KnowGit
<1>4. Named(disk[r])
  BY DEF Named
<1> QED BY <1>2, <1>3, <1>4, WithinExact

\* What a record that is there says of its origin.
LEMMA GuestRecord ==
  ASSUME Traced, chain = "guest", NEW r \in Reports, r \in Files[chain], Whole(r)
  PROVE GuestOrigin(r, disk[r])
  BY DEF Traced, Origin

\* Every save of the record of the ART link.
LEMMA ArtLinkTraced ==
  ASSUME Numbered, Placed, Knows, Dates, Traced, chain = "guest", run # Idle,
         Program = LinkArtGuest, run.pc \in {11, 14, 17}
  PROVE LET rec == run.rep
            lib == rec.files["libart.so"]
        IN /\ Named(rec) /\ ArtFrom(lib, commits[rec.commit])
           /\ Within(rec, "layout", "layout", lib.of["art.ld"].from["layout"])
<1> DEFINE lib == run.rep.files["libart.so"]
           b == disk["art.build"]
<1>1. /\ Still(3, "art.build") /\ Still(3, "art.src") /\ Still(3, "art.o")
      /\ Still(5, "art.o") /\ Still(5, "art.ld") /\ Still(4, "art.ld")
      /\ Still(5, "libart.so") /\ Still(10, "libart.so")
      /\ Recorded(8) /\ Done(1) /\ "art.build" \in Reports
      /\ \A j \in (3 + 1)..(run.pc - 1) : Program[j].op # "revision"
  BY LinkArtGuestIs, GuestFiles
     DEF Still, Recorded, Done, Since, Touches, Writes, Gate, Make, Revision, Status,
         Record, Digest, Save, Reports
<1>2. /\ Program[1] = Revision /\ Program[4] = Make("art.ld", {"layout"}, {})
      /\ Program[5] = Make("libart.so", {}, {"art.o", "art.ld", "libc.so"})
      /\ Program[8] = Record("layout", "layout") /\ Program[10] = Digest({"libart.so"})
      /\ {"layout", "unit"} \subseteq Groups
  BY LinkArtGuestIs DEF Groups
<1>3. /\ Passes(3, Require("art.build", {"commit", "passed"}))
      /\ Passes(3, Git("art.build"))
      /\ Passes(3, Verify({"art.src", "art.o"}, "art.build"))
  BY <1>1, LinkArtGuestGate3 DEF Still
<1>4. Named(run.rep)
  BY <1>1, <1>2, HeadNamed
<1>5. lib = disk["libart.so"]
  BY <1>1, <1>2, KnowDigest
<1>6. lib.of["art.o"] = disk["art.o"] /\ lib.of["art.ld"] = disk["art.ld"]
  BY <1>1, <1>2, <1>5, KnowMake
<1>7. Whole("art.build") /\ b.commit = run.rep.commit /\ b.passed
  <2>1. Whole("art.build") /\ \A q \in {"commit", "passed"} : Has("art.build", q)
    BY <1>1, <1>3, KnowRequire
  <2> QED BY <2>1 DEF Has
<1>8. disk["art.o"] = b.files["art.o"]
  BY <1>1, <1>3, KnowVerify
<1>9. \A v \in Adapted(b.files["art.o"]) : Within(b, "unit", "unit", v)
  BY <1>1, <1>7, GuestRecord DEF GuestOrigin, Still
<1>10. \A v \in Adapted(b.files["art.o"]) : v = commits[run.rep.commit]["unit"]
  BY <1>1, <1>2, <1>3, <1>4, <1>7, <1>9, GitExact
<1>11. ArtFrom(lib, commits[run.rep.commit])
  BY <1>6, <1>8, <1>10 DEF ArtFrom
<1>12. \A v : v = disk["art.ld"].from["layout"] => Dated(4, "layout", v)
  BY <1>1, <1>2, MadeDated
<1>13. \A v : Dated(4, "layout", v) => Within(run.rep, "layout", "layout", v)
  BY <1>1, <1>2, DatedWithin
<1> QED BY <1>4, <1>6, <1>11, <1>12, <1>13

\* The record of the ICU link, once it has the corresponding source.
LEMMA IcuLinkTraced ==
  ASSUME Numbered, Placed, Knows, Dates, Traced, chain = "guest", run # Idle,
         Program = LinkIcuGuest, run.pc \in {8, 11, 14, 18},
         "iculink.src" \in DOMAIN run.rep.files
  PROVE LET rec == run.rep
            lib == rec.files["libicu.so"]
        IN /\ Named(rec)
           /\ lib.of["icu.client"].from["unit"] = commits[rec.commit]["unit"]
           /\ Within(rec, "layout", "layout", lib.of["icu.ld"].from["layout"])
<1> DEFINE lib == run.rep.files["libicu.so"]
           b == disk["icu.build"]
<1>0. run.pc = 18
  <2>1. PICK i : /\ Done(i)
                 /\ \/ Program[i].op = "digest" /\ "iculink.src" \in Program[i].files
                    \/ Program[i].op = "draft" /\ "iculink.src" = Program[i].name
    BY DEF Knows, Listed
  <2>2. \A j \in 1..13 : /\ Program[j].op # "draft"
                         /\ Program[j].op = "digest" => "iculink.src" \notin Program[j].files
    BY LinkIcuGuestIs DEF Gate, Revision, Status, Make, Digest, Save
  <2> QED BY <2>1, <2>2 DEF Done
<1>1. /\ Still(3, "icu.build") /\ Still(3, "icu.client")
      /\ Still(6, "icu.client") /\ Still(6, "icu.ld") /\ Still(4, "icu.ld")
      /\ Still(6, "libicu.so") /\ Still(7, "libicu.so")
      /\ Recorded(16) /\ Done(1) /\ "icu.build" \in Reports
      /\ \A j \in (3 + 1)..(run.pc - 1) : Program[j].op # "revision"
  <2>1. Still(3, "icu.build") /\ Still(3, "icu.client") /\ Still(6, "icu.client")
    BY <1>0, LinkIcuGuestIs, GuestFiles
       DEF Still, Recorded, Done, Since, Touches, Writes, Gate, Make, Revision, Status,
           Record, Digest, Save, Reports
  <2>2. Still(6, "icu.ld") /\ Still(4, "icu.ld")
    BY <1>0, LinkIcuGuestIs, GuestFiles
       DEF Still, Recorded, Done, Since, Touches, Writes, Gate, Make, Revision, Status,
           Record, Digest, Save, Reports
  <2>3. Still(6, "libicu.so") /\ Still(7, "libicu.so")
    BY <1>0, LinkIcuGuestIs, GuestFiles
       DEF Still, Recorded, Done, Since, Touches, Writes, Gate, Make, Revision, Status,
           Record, Digest, Save, Reports
  <2>4. /\ Recorded(16) /\ Done(1) /\ "icu.build" \in Reports
        /\ \A j \in (3 + 1)..(run.pc - 1) : Program[j].op # "revision"
    BY <1>0, LinkIcuGuestIs, GuestFiles
       DEF Still, Recorded, Done, Since, Touches, Writes, Gate, Make, Revision, Status,
           Record, Digest, Save, Reports
  <2> QED BY <2>1, <2>2, <2>3, <2>4
<1>2. /\ Program[1] = Revision /\ Program[4] = Make("icu.ld", {"layout"}, {})
      /\ Program[6] = Make("libicu.so", {},
           {"icu.o", "icu.client", "icu.ld", "libart.so", "libc.so"})
      /\ Program[16] = Record("layout", "layout") /\ Program[7] = Digest({"libicu.so"})
      /\ {"layout", "unit"} \subseteq Groups
  BY LinkIcuGuestIs DEF Groups
<1>3. /\ Passes(3, Require("icu.build", {"commit", "passed"}))
      /\ Passes(3, Git("icu.build")) /\ Passes(3, Require("icu.build", {"client"}))
      /\ Passes(3, Verify({"icu.client"}, "icu.build"))
  BY <1>1, LinkIcuGuestGate3 DEF Still
<1>4. Named(run.rep)
  BY <1>1, <1>2, HeadNamed
<1>5. lib = disk["libicu.so"]
  BY <1>1, <1>2, KnowDigest
<1>6. lib.of["icu.client"] = disk["icu.client"] /\ lib.of["icu.ld"] = disk["icu.ld"]
  BY <1>1, <1>2, <1>5, KnowMake
<1>7. Whole("icu.build") /\ b.commit = run.rep.commit /\ b.passed
  <2>1. Whole("icu.build") /\ \A q \in {"commit", "passed"} : Has("icu.build", q)
    BY <1>1, <1>3, KnowRequire
  <2> QED BY <2>1 DEF Has
<1>8. "icu.client" \in DOMAIN b.files /\ disk["icu.client"] = b.files["icu.client"]
  BY <1>1, <1>3, KnowVerify
<1>9. Within(b, "unit", "client", b.files["icu.client"].from["unit"])
  BY <1>1, <1>7, <1>8, GuestRecord DEF GuestOrigin, Clients, Still
<1>10. disk["icu.client"].from["unit"] = commits[run.rep.commit]["unit"]
  BY <1>1, <1>3, <1>4, <1>7, <1>8, <1>9, ClientExact
<1>11. \A v : v = disk["icu.ld"].from["layout"] => Dated(4, "layout", v)
  BY <1>1, <1>2, MadeDated
<1>12. \A v : Dated(4, "layout", v) => Within(run.rep, "layout", "layout", v)
  BY <1>1, <1>2, DatedWithin
<1> QED BY <1>4, <1>6, <1>10, <1>11, <1>12

\* Every save of the record of the libcore link.
LEMMA LibcoreLinkTraced ==
  ASSUME Numbered, Placed, Knows, Dates, Traced, chain = "guest", run # Idle,
         Program = LinkLibcoreGuest, run.pc \in {8, 11, 14, 18}
  PROVE LET rec == run.rep
        IN Named(rec) /\ LibcoreFrom(rec.files["libcore.so"], commits[rec.commit])
<1> DEFINE lib == run.rep.files["libcore.so"]
           at == commits[run.rep.commit]
           read == {"core.build", "art.link", "icu.link"}
<1>1. /\ \A r \in read : Still(3, r) /\ r \in Reports
      /\ Still(3, "core.client") /\ Still(3, "iculink.src")
      /\ Still(3, "libc.so") /\ Still(3, "libart.so") /\ Still(3, "libicu.so")
      /\ Still(6, "core.client") /\ Still(6, "libart.so") /\ Still(6, "libicu.so")
      /\ Still(6, "libcore.so") /\ Still(7, "libcore.so") /\ Done(1)
      /\ \A j \in (3 + 1)..(run.pc - 1) : Program[j].op # "revision"
  BY LinkLibcoreGuestIs, GuestFiles
     DEF Still, Done, Since, Touches, Writes, Gate, Make, Revision, Status,
         Record, Digest, Save, Reports
<1>2. /\ Program[1] = Revision
      /\ Program[6] = Make("libcore.so", {}, {"core.o", "core.client", "core.ld",
                                              "libart.so", "libc.so", "libicu.so"})
      /\ Program[7] = Digest({"libcore.so"}) /\ {"layout", "unit"} \subseteq Groups
  BY LinkLibcoreGuestIs DEF Groups
<1>3. /\ Passes(3, Require("core.build", {"commit", "sources"}))
      /\ Passes(3, Require("art.link", {"commit", "sources"}))
      /\ Passes(3, Require("icu.link", {"commit", "sources"}))
      /\ Passes(3, Git("core.build")) /\ Passes(3, Git("art.link"))
      /\ Passes(3, Git("icu.link"))
      /\ Passes(3, Require("core.build", {"passed"}))
      /\ Passes(3, Verify({"iculink.src"}, "icu.link"))
      /\ Passes(3, Require("core.build", {"client"}))
      /\ Passes(3, Verify({"core.client"}, "core.build"))
      /\ Passes(3, Verify({"libart.so", "libc.so"}, "art.link"))
      /\ Passes(3, Verify({"libart.so", "libc.so", "libicu.so"}, "icu.link"))
  BY <1>1, LinkLibcoreGuestGate3 DEF Still
<1>4. Named(run.rep)
  BY <1>1, <1>2, HeadNamed
<1>5. lib = disk["libcore.so"]
  BY <1>1, <1>2, KnowDigest
<1>6. /\ lib.of["core.client"] = disk["core.client"]
      /\ lib.of["libart.so"] = disk["libart.so"]
      /\ lib.of["libicu.so"] = disk["libicu.so"]
  BY <1>1, <1>2, <1>5, KnowMake
<1>7. \A r \in read : Whole(r) /\ disk[r].commit = run.rep.commit
  <2>1. \A r \in read : Whole(r) /\ \A q \in {"commit", "sources"} : Has(r, q)
    BY <1>1, <1>3, KnowRequire
  <2> QED BY <2>1 DEF Has
<1>8. disk["core.build"].passed
  <2>1. Has("core.build", "passed")
    BY <1>1, <1>3, KnowRequire
  <2> QED BY <2>1 DEF Has
<1>9. /\ "core.client" \in DOMAIN disk["core.build"].files
      /\ disk["core.client"] = disk["core.build"].files["core.client"]
      /\ "iculink.src" \in DOMAIN disk["icu.link"].files
      /\ disk["libart.so"] = disk["art.link"].files["libart.so"]
      /\ disk["libicu.so"] = disk["icu.link"].files["libicu.so"]
  BY <1>1, <1>3, KnowVerify
<1>10. GuestOrigin("core.build", disk["core.build"])
       /\ GuestOrigin("art.link", disk["art.link"])
       /\ GuestOrigin("icu.link", disk["icu.link"])
  BY <1>1, <1>7, GuestRecord DEF Still
<1>11. disk["core.client"].from["unit"] = at["unit"]
  <2>1. Within(disk["core.build"], "unit", "client", disk["core.client"].from["unit"])
    BY <1>8, <1>9, <1>10 DEF GuestOrigin, Clients
  <2> QED BY <2>1, <1>1, <1>3, <1>4, <1>7, ClientExact
<1>12. ArtFrom(disk["libart.so"], at)
       /\ disk["libart.so"].of["art.ld"].from["layout"] = at["layout"]
  <2>1. /\ ArtFrom(disk["libart.so"], at)
        /\ Within(disk["art.link"], "layout", "layout",
                  disk["libart.so"].of["art.ld"].from["layout"])
    BY <1>7, <1>9, <1>10 DEF GuestOrigin
  <2> QED BY <2>1, <1>1, <1>2, <1>3, <1>4, <1>7, GitExact
<1>13. /\ disk["libicu.so"].of["icu.client"].from["unit"] = at["unit"]
       /\ disk["libicu.so"].of["icu.ld"].from["layout"] = at["layout"]
  <2>1. /\ disk["libicu.so"].of["icu.client"].from["unit"] = at["unit"]
        /\ Within(disk["icu.link"], "layout", "layout",
                  disk["libicu.so"].of["icu.ld"].from["layout"])
    BY <1>7, <1>9, <1>10 DEF GuestOrigin
  <2> QED BY <2>1, <1>1, <1>2, <1>3, <1>4, <1>7, GitExact
<1>14. LibcoreFrom(lib, at)
  BY <1>6, <1>11, <1>12, <1>13 DEF LibcoreFrom
<1> QED BY <1>4, <1>14

\* The manifest of the guest: the executed runtime has the libcore of the link
\* whose commit is HEAD's.
LEMMA GuestTraced ==
  ASSUME Numbered, Placed, Knows, Dates, Traced, run # Idle, chain = "guest",
         Program = GuestIos, run.pc = 4
  PROVE LET rec == run.rep
        IN Named(rec) /\ LibcoreFrom(rec.files["libcore.so"], commits[rec.commit])
<1> DEFINE own == Libraries \union IosLibraries \union {"root.dex"}
<1>1. /\ Still(2, "core.link") /\ Still(2, "runtime.rep") /\ Still(3, "libcore.so")
      /\ \A f \in Libraries \union MacLibraries : Still(2, f)
      /\ "core.link" \in Reports /\ Done(1) /\ "libcore.so" \in own
      /\ "libcore.so" \in Libraries \union MacLibraries
      /\ \A j \in (2 + 1)..(run.pc - 1) : Program[j].op # "revision"
  BY GuestIosIs, GuestFiles
     DEF Still, Done, Since, Touches, Writes, Libraries, MacLibraries, IosLibraries,
         Reports, Gate, Revision, Digest, Save
<1>2. Program[1] = Revision /\ Program[3] = Digest(own)
  BY GuestIosIs
<1>3. /\ Passes(2, Require("core.link", {"commit", "clean"}))
      /\ Passes(2, Equal({"libcore.so"}, "core.link", "runtime.rep"))
      /\ Passes(2, Verify(Libraries \union MacLibraries, "runtime.rep"))
  BY <1>1, GuestIosGate2 DEF Still
<1>4. Named(run.rep)
  BY <1>1, <1>2, HeadNamed
<1>5. run.rep.files["libcore.so"] = disk["libcore.so"]
  BY <1>1, <1>2, KnowDigest
<1>6. Whole("core.link") /\ disk["core.link"].commit = run.rep.commit
  <2>1. Whole("core.link") /\ \A q \in {"commit", "clean"} : Has("core.link", q)
    BY <1>1, <1>3, KnowRequire
  <2> QED BY <2>1 DEF Has
<1>7. disk["core.link"].files["libcore.so"] = disk["runtime.rep"].files["libcore.so"]
  BY <1>1, <1>3, KnowEqual
<1>8. disk["libcore.so"] = disk["runtime.rep"].files["libcore.so"]
  BY <1>1, <1>3, KnowVerify
<1>9. GuestOrigin("core.link", disk["core.link"])
  BY <1>1, <1>6, GuestRecord DEF Still
<1> QED BY <1>4, <1>5, <1>6, <1>7, <1>8, <1>9 DEF GuestOrigin

-----------------------------------------------------------------------------
(* Every record of the services says it when it is saved.                  *)

\* The checks of BuildBinder, operation 1.
LEMMA BuildBinderGate1 ==
  ASSUME Program = BuildBinder, Done(1)
  PROVE /\ Passes(1, Require("aidl.rep", {}))
        /\ Passes(1, Parsed("aidl.rep", "pin"))
        /\ Passes(1, Verify({"aidl.gen"}, "aidl.rep"))
<1> DEFINE checks == VerifyAidl
<1>1. /\ DOMAIN checks = 1..3
      /\ checks[1] = Require("aidl.rep", {})
      /\ checks[2] = Parsed("aidl.rep", "pin")
      /\ checks[3] = Verify({"aidl.gen"}, "aidl.rep")
  BY DEF VerifyAidl
<1>2. Program[1] = Gate(checks)
  BY BuildBinderIs
<1>3. Program[1].op = "check" /\ Program[1].all = checks
  BY <1>2 DEF Gate
<1> HIDE DEF checks
<1>4. \A k \in 1..3 : Passes(1, checks[k])
  BY <1>1, <1>3 DEF Passes
<1> QED BY <1>1, <1>4

\* The checks of BuildServicemanager, operation 2.
LEMMA BuildServicemanagerGate2 ==
  ASSUME Program = BuildServicemanager, Done(2)
  PROVE /\ Passes(2, Require("aidl.rep", {}))
        /\ Passes(2, Parsed("aidl.rep", "pin"))
        /\ Passes(2, Verify({"aidl.gen"}, "aidl.rep"))
<1> DEFINE checks == VerifyAidl
<1>1. /\ DOMAIN checks = 1..3
      /\ checks[1] = Require("aidl.rep", {})
      /\ checks[2] = Parsed("aidl.rep", "pin")
      /\ checks[3] = Verify({"aidl.gen"}, "aidl.rep")
  BY DEF VerifyAidl
<1>2. Program[2] = Gate(checks)
  BY BuildServicemanagerIs
<1>3. Program[2].op = "check" /\ Program[2].all = checks
  BY <1>2 DEF Gate
<1> HIDE DEF checks
<1>4. \A k \in 1..3 : Passes(2, checks[k])
  BY <1>1, <1>3 DEF Passes
<1> QED BY <1>1, <1>4

\* The checks of BuildVintf, operation 2.
LEMMA BuildVintfGate2 ==
  ASSUME Program = BuildVintf, Done(2)
  PROVE /\ Passes(2, Require("xsd.rep", {}))
        /\ Passes(2, Tree("xsd.rep", {"pin"}))
        /\ Passes(2, Parsed("xsd.rep", "pin"))
        /\ Passes(2, Fresh("xsd.gen", "pin"))
<1> DEFINE checks == VerifyGeneration
<1>1. /\ DOMAIN checks = 1..4
      /\ checks[1] = Require("xsd.rep", {})
      /\ checks[2] = Tree("xsd.rep", {"pin"})
      /\ checks[3] = Parsed("xsd.rep", "pin")
      /\ checks[4] = Fresh("xsd.gen", "pin")
  BY DEF VerifyGeneration
<1>2. Program[2] = Gate(checks)
  BY BuildVintfIs
<1>3. Program[2].op = "check" /\ Program[2].all = checks
  BY <1>2 DEF Gate
<1> HIDE DEF checks
<1>4. \A k \in 1..4 : Passes(2, checks[k])
  BY <1>1, <1>3 DEF Passes
<1> QED BY <1>1, <1>4

\* The record of the bindings.
LEMMA AidlTraced ==
  ASSUME Placed, Knows, Dates, chain = "service", run # Idle,
         Program = BinderAidl, run.pc = 8
  PROVE run.rep.files["aidl.gen"] = Bindings(run.rep.sources["held"])
<1>1. Still(3, "aidl.gen") /\ Still(7, "aidl.gen") /\ Recorded(1)
  BY BinderAidlIs, ServiceFiles
     DEF Still, Recorded, Done, Since, Touches, Writes, Unlink, Once, Revision, Record,
         Digest, Save
<1>2. /\ Program[1] = Record("held", "pin") /\ Program[3] = Once("aidl.gen", {}, {})
      /\ Program[7] = Digest({"aidl.gen"})
  BY BinderAidlIs
<1>3. run.rep.files["aidl.gen"] = disk["aidl.gen"]
  BY <1>1, <1>2, KnowDigest
<1>4. disk["aidl.gen"].from = PinOnly(run.rep.sources["held"])
  <2>1. /\ Program[3].op \in {"held", "once"} /\ Program[3].out = "aidl.gen"
        /\ Program[3].groups = {} /\ {} \subseteq {"unit"} /\ 1 < 3
    BY <1>2 DEF Once
  <2> QED BY <2>1, <1>1, <1>2, HeldDated
<1>5. MadeOf(3) /\ Program[3].out = "aidl.gen" /\ Program[3].ins = {}
  <2>1. Program[3].op = "once" /\ Program[3].out = "aidl.gen" /\ Program[3].ins = {}
    BY <1>2 DEF Once
  <2> QED BY <2>1, <1>1, KnowMade DEF Compiled
<1>6. /\ disk["aidl.gen"] = [kind |-> "built", from |-> disk["aidl.gen"].from,
                             of |-> disk["aidl.gen"].of]
      /\ disk["aidl.gen"].of = [x \in {} |-> disk["aidl.gen"].of[x]]
  BY <1>5 DEF MadeOf
<1>7. disk["aidl.gen"].of = [x \in {} |-> x]
  BY <1>6
<1> QED BY <1>3, <1>4, <1>6, <1>7 DEF Bindings, Built

\* The objects a script archives, compiled from the pins it parsed first.
LEMMA ArchiveTraced ==
  ASSUME Numbered, Knows, Dates, run # Idle,
         NEW h, Program[h] = Record("held", "pin"), Recorded(h),
         NEW i, NEW object, NEW groups, NEW ins, Program[i] = Held(object, groups, ins),
         Still(i, object), h < i, groups \subseteq {"unit"},
         NEW a, NEW archive, Program[a] = Make(archive, {}, {object}), object # archive,
         Still(a, object), Still(a, archive),
         NEW d, Program[d] = Digest({archive}), Still(d, archive),
         NEW n, Program[n] = Revision, Done(n),
         NEW p, Program[p] = Record("pin", "pin"), Recorded(p), h < p
  PROVE /\ Named(run.rep)
        /\ run.rep.files[archive].of[object] = disk[object]
        /\ Within(run.rep, "pin", "pin", disk[object].from["pin"])
<1>1. run.rep.files[archive] = disk[archive]
  BY KnowDigest
<1>2. disk[archive].of[object] = disk[object]
  BY KnowMake
<1>3. "pin" \in Groups /\ p > h
  <2>1. p \in Nat /\ h \in Nat
    BY DEF Recorded, Done, Still
  <2> QED BY <2>1 DEF Groups
<1>4. \A v : v = disk[object].from["pin"] => Dated(h, "pin", v)
  <2>1. /\ Program[i].op \in {"held", "once"} /\ Program[i].out = object
        /\ Program[i].groups = groups
    BY DEF Held
  <2>2. Program[h].key = "held" /\ Program[h].group = "pin" /\ "pin" \in Groups
    BY DEF Record, Groups
  <2>3. disk[object].from["pin"] = run.rep.sources["held"]
    BY <2>1, <2>2 DEF Dates, Holding, Still
  <2>4. \A v : v = run.rep.sources["held"] => Dated(h, "pin", v)
    BY <2>2 DEF Dates, Recording
  <2> QED BY <2>3, <2>4
<1>5. \A v : Dated(h, "pin", v) => Named(run.rep) /\ Within(run.rep, "pin", "pin", v)
  BY <1>3, DatedWithin
<1> QED BY <1>1, <1>2, <1>4, <1>5

\* What was compiled with verified bindings has bindings from the pins.
LEMMA BindingsTraced ==
  ASSUME Numbered, Knows, Dates, Traced, run # Idle, chain = "service",
         NEW c, Passes(c, Parsed("aidl.rep", "pin")),
         Passes(c, Verify({"aidl.gen"}, "aidl.rep")),
         Still(c, "aidl.rep"), Still(c, "aidl.gen"),
         NEW i, NEW object, NEW groups, Program[i] = Held(object, groups, {"aidl.gen"}),
         object # "aidl.gen", Still(i, object), Still(i, "aidl.gen"),
         NEW n, Program[n] = Revision, Done(n),
         NEW p, Program[p] = Record("pin", "pin"), Recorded(p), p > c
  PROVE Bound(run.rep, disk[object])
<1>1. disk[object].of["aidl.gen"] = disk["aidl.gen"]
  BY KnowHeld
<1>2. Whole("aidl.rep") /\ disk["aidl.gen"] = disk["aidl.rep"].files["aidl.gen"]
  BY KnowVerify
<1>3. disk["aidl.rep"].files["aidl.gen"] = Bindings(disk["aidl.rep"].sources["held"])
  <2>1. "aidl.rep" \in Reports \intersect Files[chain]
    BY DEF Reports, Still
  <2> QED BY <2>1, <1>2 DEF Traced, Origin, ServiceOrigin
<1>4. \A v : v = disk["aidl.rep"].sources["held"] => Dated(c, "pin", v)
  <2> DEFINE parsed == Parsed("aidl.rep", "pin")
  <2>1. /\ parsed.check = "parsed" /\ parsed.report = "aidl.rep" /\ parsed.group = "pin"
        /\ "pin" \in Groups
    BY DEF Parsed, Groups
  <2>2. Passes(c, parsed)
    OBVIOUS
  <2> HIDE DEF parsed
  <2> QED BY <2>1, <2>2 DEF Dates, Looking, Still, Sources
<1>5. \A v : Dated(c, "pin", v) => Within(run.rep, "pin", "pin", v)
  BY DatedWithin DEF Groups
<1> QED BY <1>1, <1>2, <1>3, <1>4, <1>5 DEF Bound

\* The record of the Binder library.
LEMMA BinderTraced ==
  ASSUME Numbered, Placed, Knows, Dates, Traced, chain = "service", run # Idle,
         Program = BuildBinder, run.pc = 14
  PROVE LET binder == run.rep.files["binder.a"].of["binder.o"]
        IN /\ Named(run.rep) /\ Within(run.rep, "pin", "pin", binder.from["pin"])
           /\ Bound(run.rep, binder)
<1>1. /\ Still(1, "aidl.rep") /\ Still(1, "aidl.gen") /\ Still(4, "aidl.gen")
      /\ Still(4, "binder.o") /\ Still(7, "binder.o") /\ Still(7, "binder.a")
      /\ Still(8, "binder.a") /\ Recorded(3) /\ Recorded(13) /\ Done(9)
  BY BuildBinderIs, ServiceFiles
     DEF Still, Recorded, Done, Since, Touches, Writes, Gate, Unlink, Held, Make,
         Revision, Record, Digest, Save
<1>2. /\ Program[3] = Record("held", "pin")
      /\ Program[4] = Held("binder.o", {}, {"aidl.gen"})
      /\ Program[7] = Make("binder.a", {}, {"binder.o"})
      /\ Program[8] = Digest({"binder.a"}) /\ Program[9] = Revision
      /\ Program[13] = Record("pin", "pin")
  BY BuildBinderIs
<1>3. /\ Passes(1, Parsed("aidl.rep", "pin"))
      /\ Passes(1, Verify({"aidl.gen"}, "aidl.rep"))
  BY <1>1, BuildBinderGate1 DEF Still
<1>4. Bound(run.rep, disk["binder.o"])
  <2>1. "binder.o" # "aidl.gen" /\ 13 > 1
    OBVIOUS
  <2> QED BY <1>1, <1>2, <1>3, <2>1, BindingsTraced
<1>5. /\ Named(run.rep)
      /\ run.rep.files["binder.a"].of["binder.o"] = disk["binder.o"]
      /\ Within(run.rep, "pin", "pin", disk["binder.o"].from["pin"])
  <2>1. "binder.o" # "binder.a" /\ 3 < 4 /\ 3 < 13 /\ {} \subseteq {"unit"}
    OBVIOUS
  <2> QED BY <1>1, <1>2, <2>1, ArchiveTraced
<1> QED BY <1>4, <1>5

\* The record of the service manager.
LEMMA ManagerTraced ==
  ASSUME Numbered, Placed, Knows, Dates, Traced, chain = "service", run # Idle,
         Program = BuildServicemanager, run.pc = 15
  PROVE LET service == run.rep.files["service.a"].of["service.o"]
        IN /\ Named(run.rep) /\ Within(run.rep, "pin", "pin", service.from["pin"])
           /\ Within(run.rep, "unit", "unit", service.from["unit"])
           /\ Bound(run.rep, service)
<1>1. /\ Still(2, "aidl.rep") /\ Still(2, "aidl.gen") /\ Still(4, "aidl.gen")
      /\ Still(4, "service.o") /\ Still(7, "service.o") /\ Still(7, "service.a")
      /\ Still(8, "service.a") /\ Recorded(3) /\ Recorded(13) /\ Recorded(14) /\ Done(9)
  BY BuildServicemanagerIs, ServiceFiles
     DEF Still, Recorded, Done, Since, Touches, Writes, Gate, Unlink, Held, Make,
         Revision, Status, Record, Digest, Save
<1>2. /\ Program[3] = Record("held", "pin")
      /\ Program[4] = Held("service.o", {"unit"}, {"aidl.gen"})
      /\ Program[7] = Make("service.a", {}, {"service.o"})
      /\ Program[8] = Digest({"service.a"}) /\ Program[9] = Revision
      /\ Program[13] = Record("unit", "unit") /\ Program[14] = Record("pin", "pin")
  BY BuildServicemanagerIs
<1>3. /\ Passes(2, Parsed("aidl.rep", "pin"))
      /\ Passes(2, Verify({"aidl.gen"}, "aidl.rep"))
  BY <1>1, BuildServicemanagerGate2 DEF Still
<1>4. Bound(run.rep, disk["service.o"])
  <2>1. "service.o" # "aidl.gen" /\ 14 > 2
    OBVIOUS
  <2> QED BY <1>1, <1>2, <1>3, <2>1, BindingsTraced
<1>5. /\ Named(run.rep)
      /\ run.rep.files["service.a"].of["service.o"] = disk["service.o"]
      /\ Within(run.rep, "pin", "pin", disk["service.o"].from["pin"])
  <2>1. "service.o" # "service.a" /\ 3 < 4 /\ 3 < 14 /\ {"unit"} \subseteq {"unit"}
    OBVIOUS
  <2> QED BY <1>1, <1>2, <2>1, ArchiveTraced
<1>6. \A v : v = disk["service.o"].from["unit"] => Dated(4, "unit", v)
  <2>1. /\ Program[4].op \in {"held", "once"} /\ Program[4].out = "service.o"
        /\ Program[4].groups = {"unit"} /\ 3 < 4 /\ {"unit"} \subseteq {"unit"}
    BY <1>2 DEF Held
  <2> QED BY <1>1, <1>2, <2>1, HeldDated
<1>7. \A v : Dated(4, "unit", v) => Within(run.rep, "unit", "unit", v)
  <2>1. 13 > 4 /\ "unit" \in Groups
    BY DEF Groups
  <2> QED BY <1>1, <1>2, <2>1, DatedWithin
<1> QED BY <1>4, <1>5, <1>6, <1>7

\* The record of the VINTF library.
LEMMA VintfTraced ==
  ASSUME Numbered, Placed, Knows, Dates, chain = "service", run # Idle,
         Program = BuildVintf, run.pc = 15
  PROVE LET vintf == run.rep.files["vintf.a"].of["vintf.o"]
        IN /\ Named(run.rep) /\ Within(run.rep, "pin", "pin", vintf.from["pin"])
           /\ Within(run.rep, "pin", "pin", vintf.of["xsd.gen"].from["pin"])
<1>1. /\ Still(2, "xsd.gen") /\ Still(4, "xsd.gen")
      /\ Still(4, "vintf.o") /\ Still(7, "vintf.o") /\ Still(7, "vintf.a")
      /\ Still(8, "vintf.a") /\ Recorded(3) /\ Recorded(14) /\ Done(9)
  <2>1. PICK last : Program[10] = Gate(last)
    BY BuildVintfIs
  <2>2. /\ Program[3] = Record("held", "pin")
        /\ Program[4] = Held("vintf.o", {}, {"xsd.gen"})
        /\ Program[5] = Digest({"vintf.o"}) /\ Program[6] = Unlink("vintf.a")
        /\ Program[7] = Make("vintf.a", {}, {"vintf.o"}) /\ Program[8] = Digest({"vintf.a"})
        /\ Program[9] = Revision
        /\ Program[11] = Make("vintf.src", {"unit", "pin"}, {"xsd.gen", "xsd.src"})
        /\ Program[12] = Digest({"vintf.src"}) /\ Program[13] = Record("unit", "unit")
        /\ Program[14] = Record("pin", "pin")
        /\ run # Idle /\ run.pc = 15 /\ chain = "service"
    BY BuildVintfIs
  <2>3. Still(2, "xsd.gen") /\ Still(4, "xsd.gen")
    BY ONLY <2>1, <2>2, ServiceFiles
       DEF Still, Done, Since, Touches, Writes, Gate, Held, Unlink, Make, Revision,
           Record, Digest
  <2>4. Still(4, "vintf.o") /\ Still(7, "vintf.o")
    BY ONLY <2>1, <2>2, ServiceFiles
       DEF Still, Done, Since, Touches, Writes, Gate, Held, Unlink, Make, Revision,
           Record, Digest
  <2>5. Still(7, "vintf.a") /\ Still(8, "vintf.a")
    BY ONLY <2>1, <2>2, ServiceFiles
       DEF Still, Done, Since, Touches, Writes, Gate, Held, Unlink, Make, Revision,
           Record, Digest
  <2>6. Recorded(3) /\ Recorded(14) /\ Done(9)
    BY ONLY <2>1, <2>2
       DEF Recorded, Done, Gate, Held, Unlink, Make, Revision, Record, Digest
  <2> QED BY <2>3, <2>4, <2>5, <2>6
<1>2. /\ Program[3] = Record("held", "pin")
      /\ Program[4] = Held("vintf.o", {}, {"xsd.gen"})
      /\ Program[7] = Make("vintf.a", {}, {"vintf.o"})
      /\ Program[8] = Digest({"vintf.a"}) /\ Program[9] = Revision
      /\ Program[14] = Record("pin", "pin")
  BY BuildVintfIs
<1>3. /\ Named(run.rep)
      /\ run.rep.files["vintf.a"].of["vintf.o"] = disk["vintf.o"]
      /\ Within(run.rep, "pin", "pin", disk["vintf.o"].from["pin"])
  <2>1. "vintf.o" # "vintf.a" /\ 3 < 4 /\ 3 < 14 /\ {} \subseteq {"unit"}
    OBVIOUS
  <2> QED BY <1>1, <1>2, <2>1, ArchiveTraced
<1>4. disk["vintf.o"].of["xsd.gen"] = disk["xsd.gen"]
  BY <1>1, <1>2, KnowHeld
<1>5. \A v : v = disk["xsd.gen"].from["pin"] => Dated(2, "pin", v)
  <2> DEFINE fresh == Fresh("xsd.gen", "pin")
  <2>1. /\ fresh.check = "fresh" /\ fresh.file = "xsd.gen" /\ fresh.group = "pin"
        /\ "pin" \in Groups
    BY DEF Fresh, Groups
  <2>2. Passes(2, fresh)
    BY <1>1, BuildVintfGate2 DEF Still
  <2> HIDE DEF fresh
  <2> QED BY <2>1, <2>2, <1>1 DEF Dates, Looking, Still
<1>6. \A v : Dated(2, "pin", v) => Within(run.rep, "pin", "pin", v)
  <2>1. 14 > 2 /\ "pin" \in Groups
    BY DEF Groups
  <2> QED BY <1>1, <1>2, <2>1, DatedWithin
<1> QED BY <1>3, <1>4, <1>5, <1>6

\* What a record has within its commit and its project files is of the
\* commit, if the tree was found clean, second, and then to be what the
\* record says, third.
LEMMA TreeExact ==
  ASSUME Numbered, Dates, chain = "service", run # Idle, ~run.rep.dirty, Judging(2),
         NEW r \in Reports, r \in Files[chain], Since(2, r), Whole(r),
         NEW groups, Passes(3, Tree(r, groups)), Named(disk[r]), disk[r].commit = head,
         NEW g \in Groups, g \in groups, NEW v, Within(disk[r], g, g, v)
  PROVE v = commits[head][g]
<1> DEFINE c == Tree(r, groups)
<1>1. c.check = "tree" /\ c.report = r /\ c.groups = groups /\ Passes(3, c)
  BY DEF Tree
<1> HIDE DEF c
<1>2. g \in DOMAIN disk[r].sources
  BY DEF Within
<1>3. disk[r].sources[g] = commits[head][g]
  BY <1>1, <1>2 DEF Dates, Compared, Sources
<1> QED BY <1>3, WithinExact

\* The record of the executed services, if the tree was clean.
LEMMA ServiceTraced ==
  ASSUME Numbered, Placed, Knows, Dates, Traced, chain = "service", run # Idle,
         Program = ServiceGuest, run.pc = 13, ~run.rep.dirty
  PROVE LET rec == run.rep
        IN Named(rec) /\ ServiceFrom(rec.files["libservice.so"], commits[rec.commit])
<1> DEFINE lib == disk["libservice.so"]
           at == commits[head]
           s == disk["service.rep"]
           b == disk["binder.rep"]
           v == disk["vintf.rep"]
           service == s.files["service.a"].of["service.o"]
           binder == b.files["binder.a"].of["binder.o"]
           vintf == v.files["vintf.a"].of["vintf.o"]
           producers == {"service.rep", "binder.rep", "vintf.rep"}
           archives == {"service.a", "binder.a", "vintf.a"}
           ins == {"service.a", "binder.a", "vintf.a", "regex.o", "libc.so"}
           own == ServiceLibraries \union {"service.mac", "service.ios"}
<1>1. /\ \A r \in producers : Still(3, r) /\ Since(2, r) /\ r \in Reports
      /\ \A f \in archives : Still(3, f) /\ Still(4, f) /\ f \in ins /\ f # "libservice.so"
      /\ \A f \in {"service.o", "service.src", "binder.o", "binder.src",
                   "vintf.o", "vintf.src"} : Still(3, f)
      /\ Still(4, "libservice.so") /\ Still(11, "libservice.so")
      /\ "libservice.so" \in own /\ Done(1) /\ Judging(2)
      /\ \A j \in (3 + 1)..(run.pc - 1) : Program[j].op # "revision"
  <2>1. \A r \in producers : Still(3, r) /\ Since(2, r) /\ r \in Reports
    BY ServiceGuestIs, ServiceFiles
       DEF Still, Judging, Done, Since, Touches, Writes, Gate, Make, Revision, Status,
           Record, Digest, Execute, Save, Reports, ServiceLibraries
  <2>2. \A f \in archives : Still(3, f) /\ Still(4, f) /\ f \in ins /\ f # "libservice.so"
    BY ServiceGuestIs, ServiceFiles
       DEF Still, Judging, Done, Since, Touches, Writes, Gate, Make, Revision, Status,
           Record, Digest, Execute, Save, Reports, ServiceLibraries
  <2>3. \A f \in {"service.o", "service.src", "binder.o", "binder.src",
                 "vintf.o", "vintf.src"} : Still(3, f)
    BY ServiceGuestIs, ServiceFiles
       DEF Still, Judging, Done, Since, Touches, Writes, Gate, Make, Revision, Status,
           Record, Digest, Execute, Save, Reports, ServiceLibraries
  <2>4. /\ Still(4, "libservice.so") /\ Still(11, "libservice.so")
        /\ "libservice.so" \in own /\ Done(1) /\ Judging(2)
        /\ \A j \in (3 + 1)..(run.pc - 1) : Program[j].op # "revision"
    BY ServiceGuestIs, ServiceFiles
       DEF Still, Judging, Done, Since, Touches, Writes, Gate, Make, Revision, Status,
           Record, Digest, Execute, Save, Reports, ServiceLibraries
  <2> QED BY <2>1, <2>2, <2>3, <2>4
<1>2. /\ Program[1] = Revision /\ Program[4] = Make("libservice.so", {"unit"}, ins)
      /\ Program[11] = Digest(own) /\ {"pin", "unit"} \subseteq Groups
  BY ServiceGuestIs DEF Groups
<1>3. /\ \A r \in producers : /\ Passes(3, Require(r, {"commit", "clean"}))
                              /\ Passes(3, Tree(r, {"unit", "pin"}))
      /\ Passes(3, Verify({"service.o", "service.a", "service.src"}, "service.rep"))
      /\ Passes(3, Verify({"binder.o", "binder.a", "binder.src"}, "binder.rep"))
      /\ Passes(3, Verify({"vintf.o", "vintf.a", "vintf.src"}, "vintf.rep"))
  <2>1. Done(3)
    BY <1>1 DEF Still
  <2> QED BY <2>1, ServiceGuestGate3
<1>4. Named(run.rep) /\ run.rep.commit = head
  BY <1>1, <1>2, HeadNamed
<1>5. run.rep.files["libservice.so"] = lib
  BY <1>1, <1>2, KnowDigest
<1>6. \A f \in archives : lib.of[f] = disk[f]
  BY <1>1, <1>2, KnowMake
<1>7. \A r \in producers : Whole(r) /\ disk[r].commit = head
  <2> TAKE r \in producers
  <2>1. Whole(r) /\ \A q \in {"commit", "clean"} : Has(r, q)
    BY <1>1, <1>3, KnowRequire
  <2> QED BY <2>1, <1>4 DEF Has
<1>8. /\ disk["service.a"] = s.files["service.a"]
      /\ disk["binder.a"] = b.files["binder.a"]
      /\ disk["vintf.a"] = v.files["vintf.a"]
  <2>1. \A f \in {"service.o", "service.a", "service.src"} : Still(3, f)
    BY <1>1
  <2>2. \A f \in {"binder.o", "binder.a", "binder.src"} : Still(3, f)
    BY <1>1
  <2>3. \A f \in {"vintf.o", "vintf.a", "vintf.src"} : Still(3, f)
    BY <1>1
  <2>4. disk["service.a"] = s.files["service.a"]
    BY <2>1, <1>1, <1>3, KnowVerify
  <2>5. disk["binder.a"] = b.files["binder.a"]
    BY <2>2, <1>1, <1>3, KnowVerify
  <2>6. disk["vintf.a"] = v.files["vintf.a"]
    BY <2>3, <1>1, <1>3, KnowVerify
  <2> QED BY <2>4, <2>5, <2>6
<1>9. \A r \in producers : r \in Files[chain] /\ ServiceOrigin(r, disk[r])
  BY <1>1, <1>7 DEF Traced, Origin, Still
<1>10. ASSUME NEW r \in producers, NEW g \in {"unit", "pin"}, NEW n, Named(disk[r]),
              Within(disk[r], g, g, n)
       PROVE n = at[g]
  <2>1. /\ g \in Groups /\ r \in Reports
        /\ r \in Files[chain] /\ Since(2, r) /\ Whole(r) /\ disk[r].commit = head
        /\ Passes(3, Tree(r, {"unit", "pin"})) /\ Judging(2)
    BY <1>1, <1>2, <1>3, <1>7, <1>9
  <2>2. /\ Numbered /\ Dates /\ chain = "service" /\ run # Idle /\ ~run.rep.dirty
        /\ g \in {"unit", "pin"} /\ Named(disk[r]) /\ Within(disk[r], g, g, n)
    BY <1>10
  <2>3. n = commits[head][g]
    BY ONLY <2>1, <2>2, TreeExact
  <2> QED BY <2>3
<1>11. /\ Named(b) /\ Within(b, "pin", "pin", binder.from["pin"]) /\ Bound(b, binder)
  BY <1>9 DEF ServiceOrigin
<1>12. /\ Named(s) /\ Within(s, "pin", "pin", service.from["pin"])
       /\ Within(s, "unit", "unit", service.from["unit"]) /\ Bound(s, service)
  BY <1>9 DEF ServiceOrigin
<1>13. /\ Named(v) /\ Within(v, "pin", "pin", vintf.from["pin"])
       /\ Within(v, "pin", "pin", vintf.of["xsd.gen"].from["pin"])
  BY <1>9 DEF ServiceOrigin
<1>14. binder.from["pin"] = at["pin"] /\ binder.of["aidl.gen"] = Bindings(at["pin"])
  BY <1>10, <1>11 DEF Bound
<1>15. /\ service.from["pin"] = at["pin"] /\ service.from["unit"] = at["unit"]
       /\ service.of["aidl.gen"] = Bindings(at["pin"])
  BY <1>10, <1>12 DEF Bound
<1>16. vintf.from["pin"] = at["pin"] /\ vintf.of["xsd.gen"].from["pin"] = at["pin"]
  BY <1>10, <1>13
<1>17. /\ lib.of["service.a"].of["service.o"] = service
       /\ lib.of["binder.a"].of["binder.o"] = binder
       /\ lib.of["vintf.a"].of["vintf.o"] = vintf
  BY <1>6, <1>8
<1> HIDE DEF lib, at, service, binder, vintf
<1>18. ServiceFrom(lib, at)
  BY <1>14, <1>15, <1>16, <1>17 DEF ServiceFrom
<1> QED BY <1>4, <1>5, <1>18 DEF lib, at

\* The manifest of the services.
LEMMA ServicesTraced ==
  ASSUME Numbered, Placed, Knows, Dates, Traced, run # Idle, chain = "service",
         Program = ServiceIos, run.pc = 4
  PROVE LET rec == run.rep
        IN Named(rec) /\ ServiceFrom(rec.files["libservice.so"], commits[rec.commit])
<1> DEFINE r == disk["service.guest"]
           own == ServiceLibraries \union {"service.ios"}
           verified == {"svc.src"} \union ServiceLibraries
<1>1. /\ \A f \in verified : Still(2, f)
      /\ Still(3, "libservice.so") /\ Still(2, "service.guest") /\ Done(1)
      /\ "service.guest" \in Reports /\ "libservice.so" \in own
      /\ "libservice.so" \in verified
      /\ \A j \in (2 + 1)..(run.pc - 1) : Program[j].op # "revision"
  BY ServiceIosIs, ServiceFiles
     DEF Still, Done, Since, Touches, Writes, ServiceLibraries, Reports, Gate, Revision,
         Digest, Save
<1>2. Program[1] = Revision /\ Program[3] = Digest(own)
  BY ServiceIosIs
<1>3. /\ Passes(2, Require("service.guest", {"passed", "clean", "commit"}))
      /\ Passes(2, Verify(verified, "service.guest"))
  <2>1. Done(2)
    BY <1>1 DEF Still
  <2> QED BY <2>1, ServiceIosGate2
<1>4. Named(run.rep)
  BY <1>1, <1>2, HeadNamed
<1>5. run.rep.files["libservice.so"] = disk["libservice.so"]
  BY <1>1, <1>2, KnowDigest
<1>6. Whole("service.guest") /\ ~r.dirty /\ r.commit = run.rep.commit
  <2>1. Whole("service.guest")
        /\ \A q \in {"passed", "clean", "commit"} : Has("service.guest", q)
    BY <1>1, <1>3, KnowRequire
  <2> QED BY <2>1 DEF Has
<1>7. disk["libservice.so"] = r.files["libservice.so"]
  <2>1. Passes(2, Verify(verified, "service.guest")) /\ Knows /\ run # Idle
    BY <1>3
  <2>2. \A f \in verified : Still(2, f)
    BY <1>1
  <2>3. Still(2, "service.guest") /\ "libservice.so" \in verified
    BY <1>1
  <2> HIDE DEF verified
  <2> QED BY ONLY <2>1, <2>2, <2>3, KnowVerify
<1>8. ServiceOrigin("service.guest", r)
  BY <1>1, <1>6 DEF Traced, Origin, Still
<1> QED BY <1>4, <1>5, <1>6, <1>7, <1>8 DEF ServiceOrigin

-----------------------------------------------------------------------------
(* So every record that is there says where its files come from.           *)

\* The record a script of the guest chain puts together does.
LEMMA GuestSavesTraced ==
  ASSUME Numbered, Placed, Knows, Honest, Dates, Traced, run # Idle, chain = "guest",
         NEW r \in Reports, Results(Op, r), r # "info"
  PROVE GuestOrigin(r, run.rep)
<1> DEFINE rec == run.rep
<1>1. ASSUME r = "art.build", rec.passed
      PROVE Named(rec) /\ \A v \in Adapted(rec.files["art.o"]) : Within(rec, "unit", "unit", v)
  <2>1. Program = BuildArtRuntime /\ run.pc = 12
    BY <1>1, GuestSaves
  <2> QED BY <1>1, <2>1, RuntimeTraced
<1>2. ASSUME r = "icu.build", rec.passed, "icu.client" \in DOMAIN rec.files
      PROVE /\ Named(rec)
            /\ Within(rec, "unit", "client", rec.files["icu.client"].from["unit"])
  <2>1. Program = BuildArtNativeLibraries /\ run.pc \in {7, 12}
    BY <1>2, GuestSaves
  <2> QED BY <1>2, <2>1, NativeTraced
<1>3. ASSUME r = "core.build", rec.passed, "core.client" \in DOMAIN rec.files
      PROVE /\ Named(rec)
            /\ Within(rec, "unit", "client", rec.files["core.client"].from["unit"])
  <2>1. Program = BuildArtLibcore /\ run.pc \in {8, 13}
    BY <1>3, GuestSaves
  <2> QED BY <1>3, <2>1, LibcoreTraced
<1>4. ASSUME r = "art.link"
      PROVE /\ Named(rec) /\ ArtFrom(rec.files["libart.so"], commits[rec.commit])
            /\ Within(rec, "layout", "layout",
                      rec.files["libart.so"].of["art.ld"].from["layout"])
  <2>1. Program = LinkArtGuest /\ run.pc \in {11, 14, 17}
    BY <1>4, GuestSaves
  <2> QED BY <2>1, ArtLinkTraced
<1>5. ASSUME r = "icu.link", "iculink.src" \in DOMAIN rec.files
      PROVE /\ Named(rec)
            /\ rec.files["libicu.so"].of["icu.client"].from["unit"]
                 = commits[rec.commit]["unit"]
            /\ Within(rec, "layout", "layout",
                      rec.files["libicu.so"].of["icu.ld"].from["layout"])
  <2>1. Program = LinkIcuGuest /\ run.pc \in {8, 11, 14, 18}
    BY <1>5, GuestSaves
  <2> QED BY <1>5, <2>1, IcuLinkTraced
<1>6. ASSUME r = "core.link"
      PROVE Named(rec) /\ LibcoreFrom(rec.files["libcore.so"], commits[rec.commit])
  <2>1. Program = LinkLibcoreGuest /\ run.pc \in {8, 11, 14, 18}
    BY <1>6, GuestSaves
  <2> QED BY <2>1, LibcoreLinkTraced
<1>7. ASSUME r = "staged"
      PROVE Named(rec) /\ LibcoreFrom(rec.files["libcore.so"], commits[rec.commit])
  <2>1. Program = GuestIos /\ run.pc = 4
    BY <1>7, GuestSaves
  <2> QED BY <2>1, GuestTraced
<1> HIDE DEF rec
<1>8. GuestOrigin(r, rec)
  <2>1. /\ DOMAIN Clients = {"icu.build", "core.build"}
        /\ Clients["icu.build"] = "icu.client" /\ Clients["core.build"] = "core.client"
    BY DEF Clients
  <2> QED BY <1>1, <1>2, <1>3, <1>4, <1>5, <1>6, <1>7, <2>1 DEF GuestOrigin
<1> QED BY <1>8 DEF rec

\* So does the record a script of the service chain puts together.
LEMMA ServiceSavesTraced ==
  ASSUME Numbered, Placed, Knows, Honest, Dates, Traced, run # Idle, chain = "service",
         NEW r \in Reports, Results(Op, r), r # "info"
  PROVE ServiceOrigin(r, run.rep)
<1> DEFINE rec == run.rep
<1>1. ASSUME r = "aidl.rep"
      PROVE rec.files["aidl.gen"] = Bindings(rec.sources["held"])
  <2>1. Program = BinderAidl /\ run.pc = 8
    BY <1>1, ServiceSaves
  <2> QED BY <2>1, AidlTraced
<1>2. ASSUME r = "binder.rep"
      PROVE LET binder == rec.files["binder.a"].of["binder.o"]
            IN /\ Named(rec) /\ Within(rec, "pin", "pin", binder.from["pin"])
               /\ Bound(rec, binder)
  <2>1. Program = BuildBinder /\ run.pc = 14
    BY <1>2, ServiceSaves
  <2> QED BY <2>1, BinderTraced
<1>3. ASSUME r = "vintf.rep"
      PROVE LET vintf == rec.files["vintf.a"].of["vintf.o"]
            IN /\ Named(rec) /\ Within(rec, "pin", "pin", vintf.from["pin"])
               /\ Within(rec, "pin", "pin", vintf.of["xsd.gen"].from["pin"])
  <2>1. Program = BuildVintf /\ run.pc = 15
    BY <1>3, ServiceSaves
  <2> QED BY <2>1, VintfTraced
<1>4. ASSUME r = "service.rep"
      PROVE LET service == rec.files["service.a"].of["service.o"]
            IN /\ Named(rec) /\ Within(rec, "pin", "pin", service.from["pin"])
               /\ Within(rec, "unit", "unit", service.from["unit"])
               /\ Bound(rec, service)
  <2>1. Program = BuildServicemanager /\ run.pc = 15
    BY <1>4, ServiceSaves
  <2> QED BY <2>1, ManagerTraced
<1>5. ASSUME r = "service.guest", ~rec.dirty
      PROVE Named(rec) /\ ServiceFrom(rec.files["libservice.so"], commits[rec.commit])
  <2>1. Program = ServiceGuest /\ run.pc = 13
    BY <1>5, ServiceSaves
  <2> QED BY <1>5, <2>1, ServiceTraced
<1>6. ASSUME r = "staged"
      PROVE Named(rec) /\ ServiceFrom(rec.files["libservice.so"], commits[rec.commit])
  <2>1. Program = ServiceIos /\ run.pc = 4
    BY <1>6, ServiceSaves
  <2> QED BY <2>1, ServicesTraced
<1> HIDE DEF rec
<1>7. ServiceOrigin(r, rec)
  BY <1>1, <1>2, <1>3, <1>4, <1>5, <1>6 DEF ServiceOrigin
<1> QED BY <1>7 DEF rec

\* So does any other record of theirs.
LEMMA SavedIsTraced ==
  ASSUME Numbered, Placed, Knows, Honest, Dates, Traced, run # Idle,
         NEW r \in Reports, Results(Op, r)
  PROVE Op.op = "save" /\ Origin(r, run.rep)
<1>1. Op.op = "save"
  BY SavedIsTrue
<1>2. r = "info" => GuestOrigin(r, run.rep) /\ ServiceOrigin(r, run.rep)
  BY DEF GuestOrigin, ServiceOrigin, Clients
<1>3. chain = "guest" => GuestOrigin(r, run.rep)
  BY <1>2, GuestSavesTraced
<1>4. chain = "service" => ServiceOrigin(r, run.rep)
  BY <1>2, ServiceSavesTraced
<1> QED BY <1>1, <1>3, <1>4 DEF Origin

\* Every step keeps what the records say.
LEMMA TracedKept ==
  ASSUME Numbered, Placed, Knows, Honest, Dates, Traced, Next
  PROVE Traced'
<1>1. chain' = chain
  BY ChainKept
<1>2. \A n \in DOMAIN commits : n \in DOMAIN commits' /\ commits'[n] = commits[n]
  BY CommitsStay
<1> SUFFICES ASSUME NEW r \in Reports, r \in Files[chain], NEW rec, disk'[r] = rec,
                    Whole(r)'
             PROVE Origin(r, rec)'
  BY <1>1 DEF Traced
<1>3. CASE disk'[r] = disk[r]
  <2>1. Origin(r, rec)
    BY <1>3 DEF Traced, Whole
  <2> QED BY <2>1, <1>1, <1>2, OriginStays
<1>4. CASE disk'[r] # disk[r]
  <2>1. disk'[r] \notin {Absent, Partial}
    BY DEF Whole, Absent, Partial
  <2>2. run # Idle /\ Results(Op, r) /\ (Op.op # "retain" => disk'[r] = Produced)
    BY <2>1, <1>4, ReportChanges
  <2>3. Op.op = "save" /\ Origin(r, run.rep)
    BY <2>2, SavedIsTraced
  <2>4. rec = run.rep
    BY <2>2, <2>3 DEF Produced
  <2>5. Origin(r, rec)
    BY <2>3, <2>4
  <2> QED BY <2>5, <1>1, <1>2, OriginStays
<1> QED BY <1>3, <1>4

\* No record claims a commit its files are not of: what it says of the
\* versions its files were made from, dated by its own digests, is so, until
\* a commit or a restore falls into a running script.
THEOREM RecordsAreDated == Spec => [](Steady => Traced)
<1>1. Init => (Steady => Traced)
  <2> SUFFICES ASSUME Init PROVE Traced
    OBVIOUS
  <2>1. \A r \in Files[chain] : ~Whole(r)
    BY DEF Init, Whole, Absent
  <2> QED BY <2>1 DEF Traced
<1>2. Placed /\ Knows /\ Honest /\ (Numbered /\ Stamped /\ (Steady => Dates))
        /\ (Steady => Traced) /\ [Next]_vars
      => (Steady => Traced)'
  <2>1. ASSUME Traced, UNCHANGED vars PROVE Traced'
    <3>1. /\ chain' = chain
          /\ \A n \in DOMAIN commits : n \in DOMAIN commits' /\ commits'[n] = commits[n]
      BY <2>1 DEF vars
    <3> SUFFICES ASSUME NEW r \in Reports, r \in Files[chain], NEW rec, disk'[r] = rec,
                        Whole(r)'
                 PROVE Origin(r, rec)'
      BY <2>1 DEF Traced, vars
    <3>2. Origin(r, rec)
      BY <2>1 DEF Traced, Whole, vars
    <3> QED BY <3>1, <3>2, OriginStays
  <2>2. ASSUME Placed, Knows, Honest, Numbered, Stamped, Steady => Dates,
               Steady => Traced, Next, Steady'
        PROVE Traced'
    BY <2>2, SteadyStays, TracedKept
  <2>3. ASSUME UNCHANGED vars, Steady' PROVE Steady
    BY <2>3 DEF vars, Steady
  <2> QED BY <2>1, <2>2, <2>3
<1> QED BY <1>1, <1>2, ScriptsKnow, RecordsAreTrue, VersionsAreOrdered, PTL DEF Spec

\* The staged ART, ICU and libcore code was compiled, adapted and laid out
\* from the project files of the commit the manifest names.
THEOREM StagedIsFromRevision == Spec => []StagedFromRevision
<1>1. Honest /\ (Steady => Traced) => StagedFromRevision
  <2> SUFFICES ASSUME Honest, Traced, Staged({"guest"}) PROVE StagedFromRevision
    BY DEF StagedFromRevision
  <2> DEFINE lib == disk["staged"].files
             at == commits[disk["staged"].commit]
  <2>1. /\ chain = "guest" /\ Whole("staged")
        /\ "staged" \in Reports /\ "staged" \in Files[chain]
    BY GuestFiles DEF Staged, Reports
  <2>2. GuestOrigin("staged", disk["staged"])
    BY <2>1, GuestRecord
  <2>3. LibcoreFrom(lib["libcore.so"], at)
    BY <2>2 DEF GuestOrigin
  <2>4. Together(lib)
    BY <2>1 DEF Honest, Truth, Staged
  <2>5. /\ lib["libcore.so"].of["libart.so"] = lib["libart.so"]
        /\ lib["libcore.so"].of["libicu.so"] = lib["libicu.so"]
    BY <2>4 DEF Together, Uses
  <2> HIDE DEF lib, at
  <2>6. /\ ArtFrom(lib["libart.so"], at)
        /\ lib["libart.so"].of["art.ld"].from["layout"] = at["layout"]
        /\ lib["libicu.so"].of["icu.client"].from["unit"] = at["unit"]
        /\ lib["libicu.so"].of["icu.ld"].from["layout"] = at["layout"]
        /\ lib["libcore.so"].of["core.client"].from["unit"] = at["unit"]
    BY <2>3, <2>5 DEF LibcoreFrom
  <2>7. LET art == lib["libart.so"].of["art.o"]
        IN \A v \in {art.from["unit"], art.of["art.units"].from["unit"],
                     art.of["art.units"].of["art.gen"].from["unit"]} : v = at["unit"]
    BY <2>6 DEF ArtFrom, Adapted
  <2> QED BY <2>6, <2>7 DEF StagedFromRevision, lib, at
<1> QED BY <1>1, RecordsAreTrue, RecordsAreDated, PTL

\* The staged service image was compiled from the pins and the project
\* files of the commit its manifest names, and from one generation of the
\* bindings.
THEOREM ServiceIsFromRevision == Spec => []ServiceFromRevision
<1>1. (Steady => Traced) => ServiceFromRevision
  <2> SUFFICES ASSUME Traced, Staged({"service"}) PROVE ServiceFromRevision
    BY DEF ServiceFromRevision
  <2> DEFINE lib == disk["staged"].files["libservice.so"]
             at == commits[disk["staged"].commit]
  <2>1. /\ chain = "service" /\ Whole("staged")
        /\ "staged" \in Reports /\ "staged" \in Files[chain]
    BY ServiceFiles DEF Staged, Reports
  <2>2. ServiceOrigin("staged", disk["staged"])
    BY <2>1 DEF Traced, Origin
  <2>3. ServiceFrom(lib, at)
    BY <2>2 DEF ServiceOrigin
  <2>4. Bindings(at["pin"]).from["pin"] = at["pin"]
    BY DEF Bindings, Built, PinOnly
  <2> HIDE DEF lib, at
  <2>5. LET service == lib.of["service.a"].of["service.o"]
            binder == lib.of["binder.a"].of["binder.o"]
            vintf == lib.of["vintf.a"].of["vintf.o"]
        IN /\ \A object \in {service, binder, vintf} : object.from["pin"] = at["pin"]
           /\ service.from["unit"] = at["unit"]
           /\ service.of["aidl.gen"] = binder.of["aidl.gen"]
           /\ service.of["aidl.gen"].from["pin"] = at["pin"]
           /\ vintf.of["xsd.gen"].from["pin"] = at["pin"]
    BY <2>3, <2>4 DEF ServiceFrom
  <2> QED BY <2>5 DEF ServiceFromRevision, lib, at
<1> QED BY <1>1, RecordsAreDated, PTL
-----------------------------------------------------------------------------
(* An app and its description, whatever the developer does meanwhile: the  *)
(* bundle staged by build.ios, the app that embeds it and the archive are  *)
(* of one call, and HEAD goes only forward.                                *)
Shipping ==
  (run # Idle /\ Program \in {GuestIos, SuiteIos, ServiceIos}) =>
    /\ run.pc > 1 => run.rep.commit \in 1..head
    /\ run.pc > 4 => disk["staged"].commit \in 1..head
    /\ (run.pc > 7 /\ ~used.undone /\ disk["staged"].commit = head) =>
         \A v : v = disk["app"].from["unit"] =>
           v \in Nat /\ commits[head]["unit"] <= v /\ v <= work["unit"]
    /\ run.pc = 11 /\ ~used.parted => run.rep.commit = head
    /\ (/\ run.pc > 11 /\ ~run.rep.dirty /\ ~used.undone /\ ~used.parted
        /\ disk["staged"].commit = run.rep.commit)
         => disk["app"].from["unit"] = commits[run.rep.commit]["unit"]

\* What build.ios does, and what it does not touch.
LEMMA IosOperations ==
  ASSUME Program \in {GuestIos, SuiteIos, ServiceIos}
  PROVE /\ Len(Program) = 13
        /\ Program[1] = Revision /\ Program[4] = Save("staged")
        /\ Program[5] = Digest({"staged"}) /\ Program[6] = Unlink("app")
        /\ Program[7] = Make("app", {"unit"}, {"staged"})
        /\ Program[8] = Gate(<<Embedded("app", "staged")>>)
        /\ Program[9] = Make("ipa", {}, {"app"}) /\ Program[10] = Revision
        /\ Program[11] = Status /\ Program[12] = Digest({"ipa"})
        /\ \A j \in 2..9 : Program[j].op # "revision"
        /\ \A j \in 5..12 : ~Touches(Program[j], "staged")
        /\ \A j \in 8..12 : ~Touches(Program[j], "app")
        /\ \A j \in 10..12 : ~Touches(Program[j], "ipa")
        /\ Program[11].op = "status" /\ Program[12].op = "digest"
<1>1. /\ Len(Program) = 13
      /\ Program[1] = Revision /\ Program[4] = Save("staged")
      /\ Program[5] = Digest({"staged"}) /\ Program[6] = Unlink("app")
      /\ Program[7] = Make("app", {"unit"}, {"staged"})
      /\ Program[8] = Gate(<<Embedded("app", "staged")>>)
      /\ Program[9] = Make("ipa", {}, {"app"}) /\ Program[10] = Revision
      /\ Program[11] = Status /\ Program[12] = Digest({"ipa"})
      /\ Program[2].op = "check" /\ Program[3].op = "digest"
  <2>1. CASE Program = GuestIos
    BY <2>1, GuestIosIs DEF Gate, Digest
  <2>2. CASE Program = SuiteIos
    BY <2>2, SuiteIosIs DEF Gate, Digest
  <2>3. CASE Program = ServiceIos
    BY <2>3, ServiceIosIs DEF Gate, Digest
  <2> QED BY <2>1, <2>2, <2>3
<1>2. /\ \A j \in 2..9 : Program[j].op # "revision"
      /\ \A j \in 5..12 : ~Touches(Program[j], "staged")
      /\ \A j \in 8..12 : ~Touches(Program[j], "app")
      /\ \A j \in 10..12 : ~Touches(Program[j], "ipa")
      /\ Program[11].op = "status" /\ Program[12].op = "digest"
  BY <1>1 DEF Touches, Writes, Gate, Make, Revision, Status, Digest, Save, Unlink
<1> QED BY <1>1, <1>2

\* What it writes are files of its chain.
LEMMA IosFiles ==
  ASSUME Placed, run # Idle, Program \in {GuestIos, SuiteIos, ServiceIos}
  PROVE {"staged", "app", "ipa"} \subseteq Files[chain]
<1>1. Outputs(Program) \subseteq Files[chain]
  BY OwnFiles
<1>2. {"staged", "app", "ipa"} \subseteq Outputs(Program)
  BY GuestIosOutputs, SuiteIosOutputs, ServiceIosOutputs
<1> QED BY <1>1, <1>2

\* A version of HEAD stays its version.
LEMMA HeadsStay ==
  ASSUME Numbered, Next, NEW n \in 1..head
  PROVE n \in 1..head' /\ commits'[n] = commits[n]
<1>1. n \in DOMAIN commits /\ DOMAIN commits = 1..head
  BY DEF Numbered, head
<1>2. commits' \in Seq([Groups -> Nat]) \/ commits' = commits
  <2>1. CASE Commit
    BY <2>1 DEF Commit, Numbered
  <2>2. CASE ~Commit
    BY <2>2, NextCases DEF Edit, Restore, Start, Observe, Produce, CompileFails, Change,
       Run, Check, Refuse, Stop
  <2> QED BY <2>1, <2>2
<1>3. DOMAIN commits' = 1..head'
  BY <1>2 DEF Numbered, head
<1> QED BY <1>1, <1>3, CommitsStay

\* What the developer does keeps it.
LEMMA ShippingStays ==
  ASSUME Numbered, Placed, Shipping, Next, run # Idle, UNCHANGED <<chain, disk, run, passed>>,
         Commit \/ Restore \/ \E g \in Edited[chain] : Edit(g)
  PROVE Shipping'
<1>1. Program' = Program
  BY DEF Program
<1> SUFFICES ASSUME Program \in {GuestIos, SuiteIos, ServiceIos}
             PROVE Shipping'
  BY <1>1 DEF Shipping
<1>2. /\ run.pc > 1 => run.rep.commit \in 1..head
      /\ run.pc > 4 => disk["staged"].commit \in 1..head
      /\ (run.pc > 7 /\ ~used.undone /\ disk["staged"].commit = head) =>
           \A v : v = disk["app"].from["unit"] =>
             v \in Nat /\ commits[head]["unit"] <= v /\ v <= work["unit"]
      /\ run.pc = 11 /\ ~used.parted => run.rep.commit = head
      /\ (/\ run.pc > 11 /\ ~run.rep.dirty /\ ~used.undone /\ ~used.parted
          /\ disk["staged"].commit = run.rep.commit)
           => disk["app"].from["unit"] = commits[run.rep.commit]["unit"]
  BY DEF Shipping
<1>3. run.pc \in 1..13 /\ head \in Nat
  <2>1. head \in Nat
    BY DEF Numbered, head
  <2>2. Len(Program) = 13
    BY IosOperations
  <2> QED BY <2>1, <2>2 DEF Placed
<1>4. \A n \in 1..head : n \in 1..head' /\ commits'[n] = commits[n]
  BY HeadsStay
<1>5. /\ ~used'.undone => ~used.undone /\ ~Restore
      /\ ~used'.parted => ~used.parted /\ ~(Commit /\ At({"status"}))
  BY FlagsStay
<1>6. Commit => head' = head + 1
  BY DEF Commit, Numbered, head
<1>7. ~Commit => commits' = commits /\ head' = head
  BY DEF Restore, Edit, head
<1>8. /\ run.pc > 1 => run.rep.commit \in 1..head'
      /\ run.pc > 4 => disk["staged"].commit \in 1..head'
  BY <1>2, <1>4
<1>9. ASSUME run.pc > 7, ~used'.undone, disk["staged"].commit = head',
             NEW v, v = disk["app"].from["unit"]
      PROVE v \in Nat /\ commits'[head']["unit"] <= v /\ v <= work'["unit"]
  <2>1. disk["staged"].commit \in 1..head
    BY <1>2, <1>3, <1>9
  <2>2. ~Commit /\ ~Restore
    BY <1>3, <1>5, <1>6, <1>9, <2>1
  <2>3. v \in Nat /\ commits[head]["unit"] <= v /\ v <= work["unit"]
    BY <1>2, <1>5, <1>7, <1>9, <2>2
  <2>4. work["unit"] \in Nat /\ work'["unit"] \in Nat /\ work["unit"] <= work'["unit"]
    <3>1. "unit" \in Groups
      BY DEF Groups
    <3> QED BY <2>2, <3>1, EditsGrow, NumberedKept DEF Numbered
  <2> QED BY <1>7, <2>2, <2>3, <2>4
<1>10. ASSUME run.pc = 11, ~used'.parted PROVE run.rep.commit = head'
  <2>1. At({"status"})
    BY <1>10, IosOperations DEF At, Op
  <2> QED BY <1>2, <1>5, <1>7, <1>10, <2>1
<1>11. ASSUME run.pc > 11, ~run.rep.dirty, ~used'.undone, ~used'.parted,
              disk["staged"].commit = run.rep.commit
       PROVE disk["app"].from["unit"] = commits'[run.rep.commit]["unit"]
  BY <1>2, <1>3, <1>4, <1>5, <1>11
<1> QED BY <1>8, <1>9, <1>10, <1>11 DEF Shipping

\* So does what build.ios does.
LEMMA ShippingMoved ==
  ASSUME Numbered, Placed, Shipping, Next, run # Idle, run' # Idle, Placed',
         Moved, Kept, Written, Noted
  PROVE Shipping'
<1>1. Program' = Program /\ Program[run.pc] = Op /\ head' = head
      /\ Files[chain]' = Files[chain]
  BY MovedSince DEF Moved, head
<1> SUFFICES ASSUME Program \in {GuestIos, SuiteIos, ServiceIos}
             PROVE Shipping'
  BY <1>1 DEF Shipping
<1>2. /\ run.pc > 1 => run.rep.commit \in 1..head
      /\ run.pc > 4 => disk["staged"].commit \in 1..head
      /\ (run.pc > 7 /\ ~used.undone /\ disk["staged"].commit = head) =>
           \A v : v = disk["app"].from["unit"] =>
             v \in Nat /\ commits[head]["unit"] <= v /\ v <= work["unit"]
      /\ run.pc = 11 /\ ~used.parted => run.rep.commit = head
      /\ (/\ run.pc > 11 /\ ~run.rep.dirty /\ ~used.undone /\ ~used.parted
          /\ disk["staged"].commit = run.rep.commit)
           => disk["app"].from["unit"] = commits[run.rep.commit]["unit"]
  BY DEF Shipping
<1>3. run.pc \in 1..12 /\ run'.pc = run.pc + 1 /\ head \in Nat \ {0}
  <2>1. run'.pc \in 1..13 /\ run'.pc = run.pc + 1 /\ run.pc \in 1..13
    BY <1>1, IosOperations DEF Placed, Moved
  <2>2. head \in Nat \ {0}
    BY DEF Numbered, head
  <2> QED BY <2>1, <2>2
<1>4. "staged" \in Files[chain] /\ "app" \in Files[chain]
  BY IosFiles
<1>5. UNCHANGED <<chain, commits, work>>
  BY DEF Moved
<1>6. /\ ~used'.undone => ~used.undone
      /\ ~used'.parted => ~used.parted
  BY FlagsStay
<1>7. run'.rep.commit = IF run.pc \in {1, 10} THEN head
                        ELSE IF run.pc \in 2..9 \union {11, 12} THEN run.rep.commit
                        ELSE run'.rep.commit
  BY <1>1, IosOperations DEF Noted, Revision
<1>8. run'.rep.commit \in 1..head
  BY <1>2, <1>3, <1>7
<1>9. /\ run.pc > 4 => disk'["staged"] = disk["staged"]
      /\ run.pc > 7 => disk'["app"] = disk["app"]
  BY <1>1, <1>3, <1>4, IosOperations DEF Kept
<1>10. run'.pc > 4 => disk'["staged"].commit \in 1..head
  <2>1. CASE run.pc = 4
    <3>1. disk'["staged"] = run.rep
      BY <1>1, <1>4, <2>1, IosOperations DEF Written, Writes, Produced, Save
    <3> QED BY <1>2, <2>1, <3>1
  <2> QED BY <1>2, <1>3, <1>9, <2>1
<1>11. ASSUME run'.pc > 7, ~used'.undone, disk'["staged"].commit = head,
              NEW v, v = disk'["app"].from["unit"]
       PROVE v \in Nat /\ commits[head]["unit"] <= v /\ v <= work["unit"]
  <2>1. CASE run.pc = 7
    <3>0. Op.op = "make" /\ Op.out = "app" /\ Op.groups = {"unit"}
      BY <1>1, <2>1, IosOperations DEF Make
    <3>1. disk'["app"] = Produced
      BY <1>4, <3>0 DEF Written, Writes
    <3>2. Produced = Built(Restricted(work, {"unit"}), Restricted(disk, Op.ins))
      BY <3>0 DEF Produced
    <3>3. v = work["unit"]
      BY <1>11, <3>1, <3>2 DEF Built, Restricted
    <3>4. "unit" \in Groups
      BY DEF Groups
    <3>5. work["unit"] \in Nat /\ commits[head]["unit"] <= work["unit"]
      BY <3>4 DEF Numbered
    <3> QED BY <3>3, <3>5
  <2>2. CASE run.pc > 7
    <3>1. /\ run.pc > 4 /\ disk'["staged"] = disk["staged"] /\ disk'["app"] = disk["app"]
          /\ ~used.undone
      BY <1>3, <1>6, <1>9, <1>11, <2>2
    <3> QED BY <1>2, <1>11, <2>2, <3>1
  <2> QED BY <1>3, <1>11, <2>1, <2>2
<1>12. run'.pc = 11 => run'.rep.commit = head
  BY <1>3, <1>7
<1>13. ASSUME run'.pc > 11, ~run'.rep.dirty, ~used'.undone, ~used'.parted,
              disk'["staged"].commit = run'.rep.commit
       PROVE disk'["app"].from["unit"] = commits[run'.rep.commit]["unit"]
  <2>1. run'.rep.commit = run.rep.commit
    BY <1>3, <1>7, <1>13
  <2>2. CASE run.pc = 11
    <3>1. work = commits[head]
      BY <1>1, <1>13, <2>2, IosOperations DEF Noted
    <3>2. run.rep.commit = head
      BY <1>2, <1>6, <1>13, <2>2
    <3>3. \A v : v = disk["app"].from["unit"] =>
            v \in Nat /\ commits[head]["unit"] <= v /\ v <= work["unit"]
      BY <1>2, <1>6, <1>9, <1>13, <2>1, <2>2, <3>2
    <3>4. work["unit"] \in Nat
      BY DEF Numbered, Groups
    <3> QED BY <1>9, <2>1, <2>2, <3>1, <3>2, <3>3, <3>4
  <2>3. CASE run.pc = 12
    <3>1. ~run.rep.dirty
      BY <1>1, <1>13, <2>3, IosOperations DEF Noted
    <3> QED BY <1>2, <1>6, <1>9, <1>13, <2>1, <2>3, <3>1
  <2> QED BY <1>3, <1>13, <2>2, <2>3
<1> QED BY <1>5, <1>1, <1>8, <1>10, <1>11, <1>12, <1>13 DEF Shipping

\* Every step keeps it.
LEMMA ShippingKept ==
  ASSUME Numbered, Placed, Shipping, Next PROVE Shipping'
<1> SUFFICES ASSUME run' # Idle PROVE Shipping'
  BY DEF Shipping
<1>1. CASE run = Idle
  <2>1. Commit \/ Restore \/ (\E g \in Edited[chain] : Edit(g))
        \/ \E s \in DOMAIN Programs[chain] : Start(s)
    BY <1>1, NextCases DEF Observe, Produce, CompileFails, Change, Run, Check,
         Refuse, Stop, At
  <2>2. run'.pc = 1
    BY <1>1, <2>1 DEF Commit, Restore, Edit, Start
  <2> QED BY <2>2 DEF Shipping
<1>2. CASE run # Idle
  BY <1>2, Running, ShippingStays, ShippingMoved, PlacedKept
<1> QED BY <1>1, <1>2

(* A description that says clean, and names the commit of the bundle, is   *)
(* of an app compiled from that commit.                                    *)
Told ==
  (chain \in DOMAIN Frameworks /\ Whole("info")) =>
    \A rec, app :
      (/\ rec = disk["info"] /\ app = rec.files["ipa"].of["app"]
       /\ ~rec.dirty /\ ~used.undone /\ ~used.parted)
        => /\ rec.commit \in 1..head
           /\ app.of["staged"].commit = rec.commit
                => app.from["unit"] = commits[rec.commit]["unit"]

\* That is what build.ios saves.
LEMMA BuildTold ==
  ASSUME Placed, Knows, Shipping, run # Idle,
         Program \in {GuestIos, SuiteIos, ServiceIos}, run.pc = 13,
         ~run.rep.dirty, ~used.undone, ~used.parted
  PROVE LET app == run.rep.files["ipa"].of["app"]
        IN /\ run.rep.commit \in 1..head
           /\ app.of["staged"].commit = run.rep.commit
                => app.from["unit"] = commits[run.rep.commit]["unit"]
<1>1. {"staged", "app", "ipa"} \subseteq Files[chain]
  BY IosFiles
<1>2. \A i : Done(i) <=> i \in 1..12
  BY DEF Done
<1>3. /\ Still(7, "staged") /\ Still(7, "app")
      /\ Still(9, "app") /\ Still(9, "ipa") /\ Still(12, "ipa")
  BY IosOperations, <1>1, <1>2 DEF Still, Since
<1>4. run.rep.files["ipa"] = disk["ipa"]
  BY IosOperations, <1>3, KnowDigest
<1>5. disk["ipa"].of["app"] = disk["app"]
  BY IosOperations, <1>3, KnowMake
<1>6. disk["app"].of["staged"] = disk["staged"]
  BY IosOperations, <1>3, KnowMake
<1> QED BY <1>4, <1>5, <1>6 DEF Shipping

\* Every step keeps what the description says.
LEMMA ToldKept ==
  ASSUME Numbered, Placed, Knows, Honest, Shipping, Told, Next PROVE Told'
<1>1. chain' = chain
  BY ChainKept
<1> SUFFICES ASSUME chain \in DOMAIN Frameworks, Whole("info")', NEW rec, NEW app,
                    rec = disk'["info"], app = rec.files["ipa"].of["app"],
                    ~rec.dirty, ~used'.undone, ~used'.parted
             PROVE /\ rec.commit \in 1..head'
                   /\ app.of["staged"].commit = rec.commit
                        => app.from["unit"] = commits'[rec.commit]["unit"]
  BY <1>1 DEF Told, Frameworks
<1>2. DOMAIN Frameworks = {"guest", "suite", "service"}
  BY DEF Frameworks
<1>3. "info" \in Reports /\ "info" \in Files[chain]
  BY <1>2, GuestFiles, SuiteFiles, ServiceFiles DEF Reports
<1>4. ~used.undone /\ ~used.parted
  BY FlagsStay
<1>5. /\ rec.commit \in 1..head
      /\ app.of["staged"].commit = rec.commit
           => app.from["unit"] = commits[rec.commit]["unit"]
  <2>1. CASE disk'["info"] = disk["info"]
    BY <1>4, <2>1 DEF Told, Whole
  <2>2. CASE disk'["info"] # disk["info"]
    <3>1. disk'["info"] \notin {Absent, Partial}
      BY DEF Whole, Absent, Partial
    <3>2. /\ run # Idle /\ Results(Op, "info")
          /\ (Op.op # "retain" => disk'["info"] = Produced)
      BY <1>3, <2>2, <3>1, ReportChanges
    <3>3. Op.op = "save" /\ Program \in {GuestIos, SuiteIos, ServiceIos} /\ run.pc = 13
      BY <1>2, <1>3, <3>2, GuestSaves, SuiteSaves, ServiceSaves
    <3>4. rec = run.rep
      BY <3>2, <3>3 DEF Produced
    <3> QED BY <1>4, <3>2, <3>3, <3>4, BuildTold
  <2> QED BY <2>1, <2>2
<1> QED BY <1>5, HeadsStay

\* A clean build-info that has the digest of the archive that is there, and
\* names the commit of the bundle in it, tells the truth about the app.
THEOREM ArchiveIsHonest == Spec => []ArchiveHonest
<1>1. Init => Shipping /\ Told
  <2> SUFFICES ASSUME Init PROVE Shipping /\ Told
    OBVIOUS
  <2>1. Shipping
    BY DEF Init, Shipping
  <2>2. chain \in DOMAIN Frameworks => "info" \in Files[chain]
    BY GuestFiles, SuiteFiles, ServiceFiles DEF Frameworks
  <2>3. Told
    BY <2>2 DEF Init, Told, Whole, Absent
  <2> QED BY <2>1, <2>3
<1>2. Placed /\ Knows /\ Honest /\ (Numbered /\ Stamped /\ (Steady => Dates))
        /\ Shipping /\ Told /\ [Next]_vars
      => (Shipping /\ Told)'
  <2>1. ASSUME Shipping, Told, UNCHANGED vars PROVE (Shipping /\ Told)'
    <3>1. Shipping' = Shipping
      BY <2>1 DEF vars, Shipping, Program, head
    <3>2. Told' = Told
      BY <2>1 DEF vars, Told, Whole, head
    <3> QED BY <2>1, <3>1, <3>2
  <2>2. ASSUME Placed, Knows, Honest, Numbered, Shipping, Told, Next
        PROVE Shipping' /\ Told'
    BY <2>2, ShippingKept, ToldKept
  <2> QED BY <2>1, <2>2
<1>3. Told => ArchiveHonest
  BY DEF Told, ArchiveHonest, Described, SameCommit, CompiledFromInfo
<1> QED BY <1>1, <1>2, <1>3, ScriptsKnow, RecordsAreTrue, VersionsAreOrdered, PTL DEF Spec
=============================================================================
