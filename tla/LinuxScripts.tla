---------------------------- MODULE LinuxScripts ----------------------------
(***************************************************************************)
(* The native Linux reference: the same objects linked with the host's     *)
(* libraries in three directories, each of which takes copies of what the  *)
(* one before it built, and the start of the virtual machine on the last.  *)
(* icu.libart is the copy of libart.so beside ICU, core.libart and         *)
(* core.libicu are the copies beside libcore.                              *)
(***************************************************************************)
EXTENDS ServiceScripts

(* build_art_runtime --link                                                *)
RuntimeLink ==
  <<Save("art.build"), Gate(<<Succeeded, Unaltered({"art.o"})>>),
    Make("libart.so", {}, {"art.o"}),
    Make("art.harness", {"unit"}, {"libart.so"}),
    Digest({"libart.so", "art.harness"}),
    Save("art.build")>>
LinuxRuntime == RuntimeCompile \o RuntimeLink

(* build_art_native_libraries --link: libart.so is copied when the bundle  *)
(* is written, long before it is linked against.                           *)
NativeBundle ==
  <<Gate(<<Require("art.build", {}),
           Verify({"libart.so", "art.src"}, "art.build")>>),
    Copy("libart.so", "icu.libart")>>
  \o Preserve("icu.src", {"art.src"})
NativeLink ==
  <<Gate(<<Unaltered({"icu.o"})>>),
    Make("libicu.so", {}, {"icu.o", "icu.libart"}),
    Make("icu.harness", {"unit"}, {"libicu.so"}), Execute({"icu.harness"}),
    Gate(<<Succeeded>>), Digest({"libicu.so", "icu.libart", "icu.harness"}),
    Save("icu.build")>>
LinuxNative == <<Revision>> \o NativeBundle \o NativeObjects \o NativeLink

(* build_art_libcore --link: every shared object beside ICU is copied; the   *)
(* record is saved before each link too.                                   *)
LibcoreDependencies ==
  <<Gate(<<Require("icu.build", {}), Require("art.build", {}),
           Verify({"icu.src"}, "icu.build"),
           VerifyAs("icu.libart", "libart.so", "art.build"),
           Verify({"libicu.so", "icu.libart", "icu.harness"}, "icu.build")>>),
    Copy("icu.libart", "core.libart"), Copy("libicu.so", "core.libicu")>>
LibcoreLink ==
  <<Gate(<<Unaltered({"core.o"})>>), Save("core.build"),
    Make("libcore.so", {}, {"core.o", "core.libart", "core.libicu"}),
    Save("core.build"),
    Make("core.harness", {"unit"}, {"libcore.so", "core.libicu"}),
    Execute({"core.harness"}), Gate(<<Succeeded>>),
    Digest({"libcore.so", "core.libart", "core.libicu", "core.harness"}),
    Save("core.build")>>
LinuxLibcore ==
  <<LibcoreInputs>> \o LibcoreDependencies \o LibcoreBundle
  \o LibcoreObjects \o LibcoreLink

(* build_art_managed_fixture: compiled in an attempt directory of its own. *)
BuildManagedFixture ==
  <<Draft("dex", {"unit"}), Draft("dex.src", {"unit"}), Revision,
    Record("unit", "unit"), Pack("dex.zip", {"dex", "dex.src"}),
    Digest({"dex.zip"}), Save("dex.result")>>

(* test_art_startup.verify_build                                           *)
VerifyBuild(report, files) ==
  <<Require(report, {"passed"}), Tree(report, {"unit"}),
    Verify(files, report)>>

StartupInputs == {"libcore.so", "core.libart", "core.libicu"}

(* test_art_startup: the three builds, one ART between them, the DEX, and  *)
(* all of this revision.  (The result it also saves before the run, with   *)
(* nothing started, is read by no script.)                                 *)
AnyArt == <<>>
OneArt == <<Same("core.build", "core.libart", "art.build", "libart.so")>>
StartupChecks ==
  VerifyBuild("art.build", {"art.src", "libart.so", "art.harness"})
  \o VerifyBuild("icu.build", {"icu.src", "libicu.so", "icu.libart"})
  \o VerifyBuild("core.build", {"core.src"} \union StartupInputs)
  \o OneArt \o PreparedDex
ArtStartup ==
  <<Gate(StartupChecks), Revision,
    Gate(<<Require("art.build", {"commit"}), Require("icu.build", {"commit"}),
           Require("core.build", {"commit"}),
           Require("dex.result", {"commit"})>>),
    Digest(StartupInputs \union {"art.harness", "dex.zip"}),
    Execute(StartupInputs \union {"art.harness", "dex.zip"}),
    Save("start.rep"), Gate(<<Succeeded>>)>>

LinuxPrograms ==
  [runtime |-> LinuxRuntime, icu |-> LinuxNative, libcore |-> LinuxLibcore,
   fixture |-> BuildManagedFixture, execute |-> ArtStartup]
LinuxOrder == <<"runtime", "icu", "libcore", "fixture", "execute">>
=============================================================================
