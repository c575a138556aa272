--------------------------- MODULE ServiceScripts ---------------------------
(***************************************************************************)
(* The scripts that build the native service manager: the AIDL and XSD     *)
(* generators, the Binder, VINTF, service and parser objects, the signed   *)
(* execution and the iOS app that embeds it.  Files are named as in        *)
(* GuestScripts; x.gen is generated source, x.a an archive.  The group     *)
(* "pin" is what third_party's selections say, which a script parses into  *)
(* memory and whose files it digests again for its record; "unit" is the   *)
(* project's other sources.  libc stands for all the libraries of the      *)
(* dependency producers.                                                   *)
(***************************************************************************)
EXTENDS GuestScripts

(* binder_aidl: the old record goes before the compiler runs; an output    *)
(* directory that holds other bindings is refused.                         *)
BinderAidl ==
  <<Record("held", "pin"), Unlink("aidl.rep"), Once("aidl.gen", {}, {}), Revision,
    Record("unit", "unit"), Record("pin", "pin"), Digest({"aidl.gen"}),
    Save("aidl.rep")>>

(* verify_aidl: the record is of the pinned generation as the tree has it, *)
(* and the generated files are the record's.                               *)
VerifyAidl ==
  <<Require("aidl.rep", {}), Parsed("aidl.rep", "pin"),
    Verify({"aidl.gen"}, "aidl.rep")>>

(* xsdc.verify_generation: the record and the generated files are the      *)
(* pinned ones.                                                            *)
VerifyGeneration ==
  <<Require("xsd.rep", {}), Tree("xsd.rep", {"pin"}), Parsed("xsd.rep", "pin"),
    Fresh("xsd.gen", "pin")>>

(* xsdc.prepare                                                            *)
Xsdc ==
  <<Unlink("xsd.rep"), Record("held", "pin"), Held("xsd.gen", {}, {}),
    Make("xsd.src", {"unit", "pin"}, {"xsd.gen"}), Record("pin", "pin"),
    Digest({"xsd.gen", "xsd.src"}), Record("unit", "unit"), Revision,
    Save("xsd.rep"), Gate(VerifyGeneration)>>

(* build_binder.bundle_sources, also called by build_servicemanager.       *)
BundleSources(bundle, ins) ==
  <<Make(bundle, {"unit", "pin"}, ins), Digest({bundle}),
    Record("unit", "unit"), Record("pin", "pin")>>

(* The units are compiled and digested, then archived afresh.              *)
Archive(objects, archive) ==
  <<Digest({objects}), Unlink(archive),
    Make(archive, {}, {objects}), Digest({archive})>>

(* build_binder: the bindings are verified, then the old record goes.      *)
BuildBinder ==
  <<Gate(VerifyAidl), Unlink("binder.rep"), Record("held", "pin"),
    Held("binder.o", {}, {"aidl.gen"})>>
  \o Archive("binder.o", "binder.a") \o <<Revision>> \o BundleSources("binder.src", {"aidl.gen"})
  \o <<Save("binder.rep")>>

(* build_vintf.bundle_sources                                              *)
VintfSources ==
  <<Gate(VerifyGeneration \o <<Verify({"xsd.src"}, "xsd.rep")>>),
    Make("vintf.src", {"unit", "pin"}, {"xsd.gen", "xsd.src"}),
    Digest({"vintf.src"}), Record("unit", "unit"), Record("pin", "pin")>>

(* build_vintf                                                             *)
VintfStartKeeps == <<Gate(VerifyGeneration)>>
VintfStart == <<Unlink("vintf.rep"), Gate(VerifyGeneration)>>
BuildVintf ==
  VintfStart \o <<Record("held", "pin"), Held("vintf.o", {}, {"xsd.gen"})>>
  \o Archive("vintf.o", "vintf.a") \o <<Revision>> \o VintfSources \o <<Save("vintf.rep")>>

(* build_servicemanager                                                    *)
BuildServicemanager ==
  <<Unlink("service.rep"), Gate(VerifyAidl),
    Record("held", "pin"), Held("service.o", {"unit"}, {"aidl.gen"})>>
  \o Archive("service.o", "service.a") \o <<Revision, Status>>
  \o BundleSources("service.src", {"aidl.gen"}) \o <<Save("service.rep")>>

(* build_kernel_config_check: regex.o is the NDK's member the pin names.   *)
BuildKernelConfig ==
  <<Unlink("parser.rep"), Record("held", "pin"), Held("regex.o", {}, {}),
    Held("parser.o", {"unit"}, {}), Digest({"regex.o", "parser.o"}),
    Make("parser.ref", {}, {"parser.o", "regex.o"}),
    Make("parser.src", {"unit", "pin"}, {}), Revision, Status,
    Digest({"parser.ref"}), Record("unit", "unit"), Record("pin", "pin"),
    Digest({"parser.src"}), Save("parser.rep")>>

(* test_service_guest: one producer's record, objects, archive and bundle. *)
Producer(report, files) ==
  <<Require(report, {"commit", "clean"}), Tree(report, {"unit", "pin"}),
    Verify(files, report)>>

ServiceLibraries == {"libc.so", "libservice.so"}

ServiceChecks ==
  <<Clean>>
  \o Producer("service.rep", {"service.o", "service.a", "service.src"})
  \o Producer("binder.rep", {"binder.o", "binder.a", "binder.src"})
  \o Producer("vintf.rep", {"vintf.o", "vintf.a", "vintf.src"})
  \o <<Require("parser.rep", {"commit"}), Parsed("parser.rep", "pin"),
       Fresh("regex.o", "pin"), Require("libc.rep", {"commit"}),
       Tree("parser.rep", {"unit", "pin"}),
       Verify({"libc.so", "libc.mac"}, "libc.rep")>>

(* test_service_guest: link, package for both targets, execute.            *)
ServiceGuest ==
  <<Revision, Status, Gate(ServiceChecks),
    Make("libservice.so", {"unit"},
         {"service.a", "binder.a", "vintf.a", "regex.o", "libc.so"}),
    Gate(<<Verify({"parser.src"}, "parser.rep")>>),
    Make("service.mac", {}, ServiceLibraries),
    Make("service.ios", {}, ServiceLibraries),
    Make("svc.src", {"unit"},
         {"service.src", "binder.src", "vintf.src", "parser.src"}),
    Digest({"svc.src"}), Record("unit", "unit"),
    Digest(ServiceLibraries \union {"service.mac", "service.ios"}),
    Execute({"service.mac"}), Save("service.guest"), Gate(<<Succeeded>>)>>

(* service_bundle.prepare, with HEAD as build.ios reads it for the call.   *)
ServiceAnyRevision == Require("service.guest", {"passed", "clean"})
ServiceRevision == Require("service.guest", {"passed", "clean", "commit"})
ServiceBundleChecks ==
  <<ServiceRevision, Tree("service.guest", {"unit"}),
    Verify({"svc.src"} \union ServiceLibraries, "service.guest"),
    Verify({"service.mac", "service.ios"}, "service.guest"),
    Wraps({"service.mac", "service.ios"}, ServiceLibraries)>>
ServiceBundle ==
  <<Revision, Gate(ServiceBundleChecks),
    Digest(ServiceLibraries \union {"service.ios"}), Save("staged")>>

ServicePrograms ==
  [bionic |-> BuildBionic, startup |-> BionicStartup, aidl |-> BinderAidl,
   xsdc |-> Xsdc, binder |-> BuildBinder, vintf |-> BuildVintf,
   servicemanager |-> BuildServicemanager, parser |-> BuildKernelConfig,
   execute |-> ServiceGuest, ios |-> ServiceBundle \o IosBuild]
ServiceOrder ==
  <<"bionic", "startup", "aidl", "xsdc", "binder", "vintf", "servicemanager",
    "parser", "execute", "ios">>

(* The records that vouch for files their own script wrote.                *)
VouchingReports ==
  {"aidl.rep", "xsd.rep", "binder.rep", "vintf.rep", "service.rep", "parser.rep"}
Vouched ==
  [r \in VouchingReports |->
     CASE r = "aidl.rep" -> {"aidl.gen"}
       [] r = "xsd.rep" -> {"xsd.gen", "xsd.src"}
       [] r = "binder.rep" -> {"binder.o", "binder.a", "binder.src"}
       [] r = "vintf.rep" -> {"vintf.o", "vintf.a", "vintf.src"}
       [] r = "service.rep" -> {"service.o", "service.a", "service.src"}
       [] r = "parser.rep" -> {"regex.o", "parser.o", "parser.ref", "parser.src"}]
=============================================================================
