---------------------------- MODULE MC_PathWalk ----------------------------
(***************************************************************************)
(* PathWalk on a small tree:                                               *)
(*                                                                         *)
(*   /a/          inode 2      /a/f         inode 3, a file                *)
(*   /a/up        -> ../b      /a/abs       -> /a/f                        *)
(*   /b/          inode 6      /b/near      -> ../a/f                      *)
(*   /b/far       -> /a/up/near                                            *)
(*   /loop        -> loop      /top         -> /                           *)
(*   /dev         inode 11, a device                                       *)
(***************************************************************************)
EXTENDS PathWalk, TLC

NoLink == [abs |-> FALSE, names |-> <<>>]
NoEntries == [n \in {} |-> 0]

Dir(entries) == [kind |-> "dir", entries |-> entries, link |-> NoLink]
Plain(kind) == [kind |-> kind, entries |-> NoEntries, link |-> NoLink]
Link(abs, names) ==
    [kind |-> "sym", entries |-> NoEntries, link |-> [abs |-> abs, names |-> names]]

MCTree == <<
    Dir([a |-> 2, b |-> 6, loop |-> 9, top |-> 10, dev |-> 11]),
    Dir([up |-> 4, abs |-> 5, f |-> 3] @@ (".." :> 1)),
    Plain("reg"),
    Link(FALSE, <<"..", "b">>),
    Link(TRUE, <<"a", "f">>),
    Dir([near |-> 7, far |-> 8] @@ (".." :> 1)),
    Link(FALSE, <<"..", "a", "f">>),
    Link(TRUE, <<"a", "up", "near">>),
    Link(FALSE, <<"loop">>),
    Link(TRUE, <<>>),
    Plain("other") >>

MCPaths == {
    <<>>, <<"a">>, <<"a", "f">>, <<"a", "f", "f">>, <<"a", "up">>, <<"a", "up", "far">>,
    <<"a", "abs">>, <<"b", "near">>, <<"b", "far">>, <<"a", "up", "..", "b", "near">>,
    <<"a", "up", "near", "..">>, <<"loop">>, <<"top">>, <<"top", "a">>, <<"dev">>, <<"no">> }
=============================================================================
