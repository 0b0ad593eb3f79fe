------------------------------ MODULE MCChecks ------------------------------
(***************************************************************************)
(* Programs for Checks.  main() calls e(), the entry point of S, and has   *)
(* a region R, whose blocks are joined in several ways; both reach f(),    *)
(* f() calls g(), and h() is called through pointers.                      *)
(***************************************************************************)
EXTENDS Checks, TLC

(* main(): before the region, start; in it; in it; end, after.             *)
Straight == [m1 |-> <<"m2">>, m2 |-> <<"m4">>, m3 |-> <<"m4">>, m4 |-> << >>]
Diamond  == [m1 |-> <<"m2", "m3">>, m2 |-> <<"m4">>, m3 |-> <<"m4">>, m4 |-> << >>]
Return   == [m1 |-> <<"m2", "m3">>, m2 |-> <<"m4">>, m3 |-> << >>, m4 |-> << >>]
Loop     == [m1 |-> <<"m2">>, m2 |-> <<"m1", "m3">>, m3 |-> <<"m4">>, m4 |-> << >>]
Inner    == [m1 |-> <<"m2">>, m2 |-> <<"m3", "m4">>, m3 |-> <<"m2">>, m4 |-> << >>]

Note(kind, box, arg) == [kind |-> kind, box |-> box, arg |-> arg]
Says(kind, on, arg) == [kind |-> kind, on |-> on, arg |-> arg]

Options ==
  [os |-> "freebsd", platform |-> "capsicum", chosen |-> {}, mode |-> "custom", perf |-> FALSE,
   list |-> FALSE, rights |-> TRUE, dump |-> FALSE, vendors |-> {}, libs |-> {}, traces |-> {}]

Functions == {"main", "e", "f", "g", "h", "read"}

Base ==
  [ annots |-> <<Says("persistent", "e", "S"), Says("privileged", "g", None),
                 Says("read", "G", "S"), Says("vulnerable", "h", None)>>,
    body |-> [m1 |-> <<"ce", "start", "cf">>, m2 |-> <<"cx">>, m3 |-> <<"n3">>, m4 |-> <<"end", "cg">>,
              e1 |-> <<"fd", "ef">>, f1 |-> <<"pt", "fg">>, g1 |-> <<"ng">>, h1 |-> <<"nh">>],
    succ |-> Straight @@ [b \in {"e1", "f1", "g1", "h1"} |-> << >>],
    fun |-> [b \in {"m1", "m2", "m3", "m4"} |-> "main"]
              @@ "e1" :> "e" @@ "f1" :> "f" @@ "g1" :> "g" @@ "h1" :> "h",
    first |-> "main" :> "m1" @@ "e" :> "e1" @@ "f" :> "f1" @@ "g" :> "g1" @@ "h" :> "h1",
    functions |-> Functions, decl |-> {"read"},
    call |-> "ce" :> {"e"} @@ "cf" :> {"f"} @@ "cx" :> {} @@ "cg" :> {"g"} @@ "ef" :> {"f"} @@ "fg" :> {"g"},
    late |-> {<<"cx", "h">>},
    note |-> "start" :> Note("start", "R", None) @@ "end" :> Note("end", "R", None)
               @@ "fd" :> Note("fd", None, {"read", "write"}),
    gates |-> << >>,
    opt |-> Options, report |-> Functions, points |-> {"pt"}, vendor |-> << >>, lib |-> << >>,
    passed |-> [c \in {"ce", "cf", "cx", "cg", "ef", "fg"} |-> {}], send |-> << >>, recv |-> << >> ]

(* Regions: every shape, and an end of another region's name.              *)
Regions ==
  {[Base EXCEPT !.succ = shape @@ @] : shape \in {Straight, Diamond, Return, Loop, Inner}}
    \cup {[Base EXCEPT !.note = ("end" :> Note("end", "S", None)) @@ @],
          [Base EXCEPT !.body.m1 = <<"ce", "start", "cf", "end">>, !.body.m4 = <<"cg">>, !.succ = Diamond @@ @]}

(* Two regions of one name; in it g(), and h() through a pointer.          *)
Twice(shape) ==
  [Base EXCEPT !.succ = shape @@ @,
               !.body.f1 = <<"pt", "start2", "fg">>,
               !.note = ("start2" :> Note("start", "R", None)) @@ @]

(* S has two entry points; marks, a second name for e(), and creations.    *)
Annotated ==
  [Base EXCEPT !.annots = <<Says("persistent", "e", "S"), Says("ephemeral", "f", "S"),
                            Says("overhead", "e", 5), Says("overhead", "f", 7),
                            Says("clearance", "f", "x"), Says("clearance", "f", "y"),
                            Says("persistent", "e", "T"), Says("private", "D", "Q"), Says("write", "G", "W")>>,
               !.body.g1 = <<"ng", "new1", "new2", "lim", "priv">>,
               !.note = ("new1" :> Note("create", "S", "persistent")
                           @@ "new2" :> Note("create", "S", "ephemeral")
                           @@ "lim" :> Note("syscalls", None, {"read", "no_syscalls_allowed"})
                           @@ "priv" :> Note("private", "S", None)) @@ @,
               !.gates = "S" :> <<"g", "h">> @@ "V" :> <<"g">>]

(* Pointers: targets in S and in R, an entry point among them.             *)
Late(edges) == [Base EXCEPT !.late = edges, !.body.e1 = <<"fd", "ef", "ep">>,
                            !.call = ("ep" :> {}) @@ @, !.passed = ("ep" :> {"g"}) @@ @]

(* Messages: from both domains to S, R and a name of no sandbox.           *)
Messages(to) ==
  [Base EXCEPT !.body.f1 = <<"pt", "fg", "send">>, !.body.e1 = <<"ef", "rcv1", "rcv2">>,
               !.body.h1 = <<"nh", "rcv3">>, !.note = "start" :> Base.note["start"] @@ "end" :> Base.note["end"],
               !.send = "send" :> [to |-> to, type |-> "m"],
               !.recv = "rcv1" :> [type |-> "m", handler |-> None]
                          @@ "rcv2" :> [type |-> "m", handler |-> "h"]
                          @@ "rcv3" :> [type |-> "m", handler |-> None],
               !.call = [c \in {"send", "rcv1", "rcv2", "rcv3"} |-> {}] @@ @,
               !.passed = [c \in {"send", "rcv1", "rcv2", "rcv3"} |-> {}] @@ @,
               !.opt.dump = TRUE]

(* f() also runs with privileges; a region in it calls it again, and its   *)
(* first instruction is one that receives.                                 *)
Received ==
  [Messages("nobody") EXCEPT !.body.f1 = <<"rcv3", "start2", "fg", "send">>, !.body.h1 = <<"nh">>,
               !.note = ("start2" :> Note("start", "P", None)) @@ @,
               !.points = {},
               !.call["cg"] = {"g", "f"}, !.call["fg"] = {"f", "h"}]

(* Functions restricted to sandboxes, the later annotation counting.       *)
Restricted(fs) ==
  [Base EXCEPT !.annots = <<Says("persistent", "e", "S"), Says("privileged", "g", None),
                            Says("privileged", "h", None), Says("sandboxed", "f", {"R"}),
                            Says("sandboxed", "f", fs), Says("sandboxed", "g", {})>>,
               !.passed = [@ EXCEPT !["ef"] = {"h"}],
               !.gates = "S" :> <<"g">>,
               !.opt.traces = {"privcalls", "sandboxedfuncs"}]

With1(p, o) == [p EXCEPT !.opt = o @@ @]

Configured ==
  {With1(Base, o) :
     o \in {[os |-> "linux"], [platform |-> "seccomp"], [platform |-> "none", mode |-> "vuln"],
            [platform |-> "annotated"], [platform |-> "chroot"], [mode |-> "null"],
            [platform |-> "annotated", mode |-> "correct"],
            [list |-> TRUE], [perf |-> TRUE], [mode |-> "infoflow"], [mode |-> "all", traces |-> {"all"}],
            [chosen |-> {"privcalls", "infoflow"}], [chosen |-> {"all", "vuln"}],
            [rights |-> FALSE, vendors |-> {"ACME"}], [os |-> "linux", platform |-> "seccompbpf"]}}
    \cup {[Base EXCEPT !.vendor = "g" :> "ACME", !.lib = "f" :> "libf", !.report = {"main", "e", "g"},
                       !.opt.vendors = {"ACME"}, !.opt.libs = {"libf"}],
          [Base EXCEPT !.note["fd"].box = "S"]}

(* f() also runs with privileges.                                          *)
Both == [Base EXCEPT !.call["cg"] = {"g", "f"}]

MCPrograms ==
  Regions \cup Configured \cup {Annotated, Both}
    \cup {Twice(shape) : shape \in {Straight, Return}}
    \cup {Late(es) : es \in {{<<"ep", "h">>, <<"cx", "e">>}, {<<"ep", "f">>, <<"fg", "h">>}}}
    \cup {Messages(to) : to \in {"S", "R", "nobody"}}
    \cup {Received, [Messages("S") EXCEPT !.body.f1 = <<"pt", "fg">>, !.body.g1 = <<"ng", "send">>]}
    \cup {Restricted(fs) : fs \in {{"S"}, {"nobody"}, {"R", "S"}}}
=============================================================================
