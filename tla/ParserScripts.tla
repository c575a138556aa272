--------------------------- MODULE ParserScripts ---------------------------
(***************************************************************************)
(* The parser of kernel configurations: the same Android objects executed  *)
(* by a native Linux caller and then, linked against the guest's libraries *)
(* and signed, on the Mac.  kcref.rep is the Linux result, kc.x the signed *)
(* image.                                                                  *)
(***************************************************************************)
EXTENDS LinuxScripts

(* kernel_config_guest.verify_build                                        *)
VerifyParserBuild ==
  <<Require("parser.rep", {"commit", "clean"}), Parsed("parser.rep", "pin"),
    Tree("parser.rep", {"unit", "pin"}),
    Verify({"parser.o", "regex.o"}, "parser.rep"), Fresh("regex.o", "pin"),
    Verify({"parser.ref", "parser.src"}, "parser.rep")>>

(* kernel_config_guest.verify_reference: the Linux result is of this very  *)
(* build, whose record it has the digest of, and it passed.                *)
AnyReference == <<Require("kcref.rep", {"passed"})>>
VerifyReference ==
  <<Require("kcref.rep", {"commit"}), Verify({"parser.rep"}, "kcref.rep"),
    Equal({"parser.o", "regex.o", "parser.ref", "parser.src"},
          "parser.rep", "kcref.rep"),
    Require("kcref.rep", {"passed"})>>

(* test_kernel_config_reference: the result is saved whether the parser    *)
(* passes or not.                                                          *)
ParserReference ==
  <<Revision, Status, Gate(<<Clean>> \o VerifyParserBuild),
    Execute({"parser.ref"}),
    Digest({"parser.rep", "parser.o", "regex.o", "parser.ref", "parser.src"}),
    Save("kcref.rep"), Gate(<<Succeeded>>)>>

(* test_kernel_config_guest                                                *)
ParserDependencies ==
  <<Require("art.link", {"commit", "clean"}), Require("libc.rep", {"commit"}),
    Tree("parser.rep", {"unit", "pin"}), Tree("art.link", {"layout"}),
    Verify({"artlink.src", "libc.so", "libart.so", "libart.mac"}, "art.link"),
    Verify({"libc.mac"}, "libc.rep")>>
ParserGuest ==
  <<Revision, Status,
    Gate(<<Clean>> \o VerifyParserBuild \o VerifyReference
         \o ParserDependencies),
    Make("libkc.so", {"layout"}, {"parser.o", "regex.o", "libc.so", "libart.so"}),
    Make("kc.mac", {}, {"libkc.so"}), Make("kc.ios", {}, {"libkc.so"}),
    Make("kc.src", {"unit", "layout"}, {"parser.src", "artlink.src", "kcref.rep"}),
    Digest({"kcref.rep", "parser.rep"}), Record("unit", "unit"),
    Digest({"kc.src", "libkc.so", "kc.mac", "kc.ios"}),
    Execute({"kc.mac", "libc.mac", "libart.mac"}), Save("kc.rep"),
    Gate(<<Succeeded>>)>>

ParserPrograms ==
  [parser |-> BuildKernelConfig, reference |-> ParserReference,
   bionic |-> BuildBionic, startup |-> BionicStartup,
   runtime |-> BuildArtRuntime, link_art |-> LinkArtGuest,
   guest |-> ParserGuest]
ParserOrder ==
  <<"parser", "reference", "bionic", "startup", "runtime", "link_art", "guest">>
=============================================================================
