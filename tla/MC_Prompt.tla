----------------------------- MODULE MC_Prompt -----------------------------
(***************************************************************************)
(* Two disks, a configuration with an old kernel, a new one and one with a *)
(* device of its own, and the lines of the README: labels, short and full  *)
(* paths, an initrd, "--".                                                 *)
(***************************************************************************)
EXTENDS Prompt

Spec_(form, device, part, file) == [form |-> form, device |-> device, part |-> part, file |-> file]

MCWords == {"hd:2", "fd:3/c", "linux", "old", "alt", "/vmlinux", "/initrd", "fd:1/vmlinux", "--", "ro",
            "vmlinux"}

MCPathSpec == [w \in MCWords |->
    CASE w = "hd:2"         -> Spec_("full", "hd", 2, NULL)
      [] w = "fd:3/c"       -> Spec_("full", "fd", 3, "/c")
      [] w = "fd:1/vmlinux" -> Spec_("full", "fd", 1, "/vmlinux")
      [] w \in {"/vmlinux", "/initrd"} -> Spec_("short", NULL, NULL, w)
      [] OTHER              -> Spec_("bad", NULL, NULL, NULL)]

MCBaseName == [w \in MCWords |-> IF w \in {"/vmlinux", "fd:1/vmlinux"} THEN "vmlinux" ELSE w]

(* Options as functions: o(<<option, value>>, ...). *)
Table(pairs) == [o \in {p[1] : p \in pairs} |-> (CHOOSE p \in pairs : p[1] = o)[2]]

OldImage == Table({<<"image", "/vmlinux">>, <<"label", "old">>, <<"old-kernel", "set">>,
                   <<"pause-after", "set">>, <<"root", "hda2">>})
NewImage == Table({<<"image", "/vmlinux">>, <<"label", "linux">>, <<"initrd", "/initrd">>,
                   <<"append", "quiet">>})
AltImage == Table({<<"image", "/vmlinux">>, <<"label", "alt">>, <<"initrd", "/initrd">>,
                   <<"device", "fd">>, <<"partition", 1>>, <<"literal", "args">>,
                   <<"pause-after", "set">>})

HdConf == [global |-> Table({<<"default", "old">>, <<"timeout", 5>>}),
           images |-> <<OldImage, NewImage, AltImage>>]
FdConf == [global |-> Table({<<"device", "hd">>, <<"partition", 2>>, <<"initrd", "/initrd">>,
                             <<"timeout", 0>>}),
           images |-> <<NewImage, AltImage>>]

ConfFiles == {<<"hd", 2, "/boot/quik.conf">>, <<"fd", 3, "/c">>}
MCConfs == [c \in ConfFiles |-> IF c[1] = "hd" THEN HdConf ELSE FdConf]

MCBootArgs == {<<>>, <<"--", "linux">>, <<"fd:3/c">>, <<"hd:2", "old">>}
MCBootFiles == {<<>>, <<"hd:2">>}
MCLines == {<<>>, <<"linux">>, <<"alt">>, <<"old", "ro">>, <<"/vmlinux">>, <<"/vmlinux", "--", "ro">>,
            <<"/vmlinux", "/initrd", "ro">>, <<"fd:1/vmlinux", "/initrd">>, <<"/vmlinux", "--">>}
=============================================================================
