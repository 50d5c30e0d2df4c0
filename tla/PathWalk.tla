------------------------------ MODULE PathWalk ------------------------------
(***************************************************************************)
(* Finding a file by its path: ext2fs_find_file1, which calls itself for   *)
(* symbolic links, with ext2fs_iterate_dir, ext2fs_read_symlink and        *)
(* ext2fs_free_node, and its callers ext2fs_find_file, ext2fs_open and     *)
(* ext2fs_ls (ext2fs.c).                                                   *)
(*                                                                         *)
(* A path is a sequence of names and may be absolute; slashes are not      *)
(* counted.  A node (struct ext2fs_node) is allocated for every entry that *)
(* is found and freed by hand; it has a number here, the node of the root  *)
(* directory, which is part of ext2_data, the number 0.                    *)
(***************************************************************************)
EXTENDS Integers, Sequences

CONSTANTS
    None,
    Tree,       \* inode: its kind, the entries of a "dir", the link of a "sym"
    Root,       \* the root inode
    Paths,      \* paths that are asked for
    LinkLimit,  \* the symbolic link that is one too many (8)
    MaxFinds    \* bound: how many paths are looked up

(* symlink(2) makes no empty links. *)
ASSUME TreeAssumption ==
    /\ Root \in DOMAIN Tree /\ Tree[Root].kind = "dir"
    /\ \A i \in DOMAIN Tree :
         /\ Tree[i].kind \in {"dir", "reg", "sym", "other"}
         /\ \A n \in DOMAIN Tree[i].entries : Tree[i].entries[n] \in DOMAIN Tree
         /\ Tree[i].kind = "sym" => /\ Tree[i].link.names \in Seq(STRING)
                                    /\ Tree[i].link.abs \/ Tree[i].link.names # <<>>
    /\ Paths \subseteq Seq(STRING)
    /\ LinkLimit \in Nat \ {0} /\ MaxFinds \in Nat
    /\ None \notin {"dir", "reg", "sym", "other"}

VARIABLES
    wpc,          \* "idle", "walk", "return", "found", "failed"
    finds,        \* how many paths were looked up
    want,         \* the path and the type the caller expects
    stack,        \* the calls of ext2fs_find_file1, innermost first
    ret,          \* what the call that is returning gives back
    symlinknest,
    nodes,        \* how many nodes were allocated
    freed,        \* the numbers of nodes given back
    file,         \* ext2fs_file, the node of the open file
    faulty,       \* history: a read or an allocation failed in this look-up
    toRoot        \* history: this look-up followed a link to "/"

vars == <<wpc, finds, want, stack, ret, symlinknest, nodes, freed, file, faulty, toRoot>>

RootNode == [id |-> 0, ino |-> Root]
NoRet == [ok |-> FALSE, node |-> RootNode, type |-> None]

(* The locals of a call: names still to look up, currroot, currnode,       *)
(* oldnode and type.                                                       *)
Call(names, dir) == [names |-> names, root |-> dir, cur |-> dir, old |-> dir, type |-> "dir"]

Top == Head(stack)

(* ext2fs_free_node(node, currroot); a freed node is known by its number. *)
(* Mutant: the root of the walk is not spared. *)
Free1Any(node, f) == IF node.id = 0 THEN {} ELSE {node.id}

Free1(node, f) == IF node.id \in {0, f.root.id} THEN {} ELSE {node.id}

Init ==
    /\ wpc = "idle"
    /\ finds = 0
    /\ want = None
    /\ stack = <<>>
    /\ ret = NoRet
    /\ symlinknest = 0
    /\ nodes = 0
    /\ freed = {}
    /\ file = None
    /\ faulty = FALSE /\ toRoot = FALSE

(* ext2fs_find_file, for ext2fs_open ("reg") or ext2fs_ls ("dir"). *)
CanFind == wpc \in {"idle", "found", "failed"} /\ finds < MaxFinds

Find(p, expect) ==
    /\ CanFind
    /\ want' = [path |-> p, expect |-> expect]
    /\ file' = IF expect = "reg" THEN None ELSE file
    /\ symlinknest' = 0
    /\ stack' = <<Call(p, RootNode)>>
    /\ wpc' = "walk"
    /\ finds' = finds + 1
    /\ faulty' = FALSE /\ toRoot' = FALSE
    /\ UNCHANGED <<ret, nodes, freed>>

(* The innermost call ends. *)
Fails == ret' = NoRet /\ wpc' = "return" /\ UNCHANGED stack
Succeeds(node, type) ==
    ret' = [ok |-> TRUE, node |-> node, type |-> type] /\ wpc' = "return" /\ UNCHANGED stack

-----------------------------------------------------------------------------
(* Nothing to look up: the node is currroot and *foundtype is not written. *)
EmptyPath ==
    /\ wpc = "walk"
    /\ Top.names = <<>>
    /\ Succeeds(Top.root, None)
    /\ UNCHANGED <<finds, want, symlinknest, nodes, freed, file, faulty, toRoot>>

(* The component before this one is no directory. *)
NotADirectory ==
    /\ wpc = "walk"
    /\ Top.names # <<>>
    /\ Top.type # "dir"
    /\ freed' = freed \cup Free1(Top.cur, Top)
    /\ Fails
    /\ UNCHANGED <<finds, want, symlinknest, nodes, file, faulty, toRoot>>

Looking == wpc = "walk" /\ Top.names # <<>> /\ Top.type = "dir"

Entries == Tree[Top.cur.ino].entries

(* ext2fs_iterate_dir comes to the end of the directory. *)
NoSuchEntry ==
    /\ Looking
    /\ Head(Top.names) \notin DOMAIN Entries
    /\ Fails
    /\ UNCHANGED <<finds, want, symlinknest, nodes, freed, file, faulty, toRoot>>

(* ... or it cannot read the directory, or has no memory for a node. *)
IterateFails ==
    /\ Looking
    /\ faulty' = TRUE
    /\ Fails
    /\ UNCHANGED <<finds, want, symlinknest, nodes, freed, file, toRoot>>

NewNode == [id |-> nodes + 1, ino |-> Entries[Head(Top.names)]]

HasEntry(kinds) ==
    /\ Looking
    /\ Head(Top.names) \in DOMAIN Entries
    /\ Tree[NewNode.ino].kind \in kinds
    /\ nodes' = nodes + 1

(* The rest of the loop body, in the call f above the calls in outer: the  *)
(* old directory is freed, and the node is the answer if no name is left.  *)
Advance(f, outer, node, type) ==
    LET rest == Tail(f.names)
        next == [f EXCEPT !.names = rest, !.cur = node, !.type = type]
    IN  /\ freed' = freed \cup Free1(f.old, f)
        /\ stack' = <<next>> \o outer
        /\ IF rest = <<>>
           THEN ret' = [ok |-> TRUE, node |-> node, type |-> type] /\ wpc' = "return"
           ELSE wpc' = "walk" /\ UNCHANGED ret

Descend ==
    /\ HasEntry({"dir", "reg", "other"})
    /\ Advance([Top EXCEPT !.old = Top.cur], Tail(stack), NewNode, Tree[NewNode.ino].kind)
    /\ UNCHANGED <<finds, want, symlinknest, file, faulty, toRoot>>

(* Mutant: links are not counted. *)
FollowLinkUncounted ==
    LET link == Tree[NewNode.ino].link
        dir == IF link.abs THEN RootNode ELSE Top.cur
    IN  /\ HasEntry({"sym"})
        /\ symlinknest + 1 # LinkLimit
        /\ UNCHANGED symlinknest
        /\ freed' = freed \cup Free1(NewNode, Top)
                          \cup (IF link.abs THEN Free1(Top.cur, Top) ELSE {})
        /\ stack' = <<Call(link.names, dir),
                      [Top EXCEPT !.old = dir, !.cur = NewNode, !.type = "sym"]>> \o Tail(stack)
        /\ toRoot' = (toRoot \/ link.names = <<>>)
        /\ UNCHANGED <<wpc, finds, want, ret, file, faulty>>

(* Mutant: an absolute link starts in its own directory. *)
FollowLinkFromHere ==
    LET link == Tree[NewNode.ino].link
        dir == Top.cur
    IN  /\ HasEntry({"sym"})
        /\ symlinknest + 1 # LinkLimit
        /\ symlinknest' = symlinknest + 1
        /\ freed' = freed \cup Free1(NewNode, Top)
        /\ stack' = <<Call(link.names, dir),
                      [Top EXCEPT !.old = dir, !.cur = NewNode, !.type = "sym"]>> \o Tail(stack)
        /\ toRoot' = (toRoot \/ link.names = <<>>)
        /\ UNCHANGED <<wpc, finds, want, ret, file, faulty>>

(* The link is read and its node freed; the call for its target starts in  *)
(* the directory of the link, or in the root.  What the link says is given *)
(* with the tree: ext2fs_read_symlink takes a link of up to 60 bytes from  *)
(* the inode, while ext2 keeps one of exactly 60 in a block.               *)
FollowLink ==
    LET link == Tree[NewNode.ino].link
        dir == IF link.abs THEN RootNode ELSE Top.cur
    IN  /\ HasEntry({"sym"})
        /\ symlinknest + 1 # LinkLimit
        /\ symlinknest' = symlinknest + 1
        /\ freed' = freed \cup Free1(NewNode, Top)
                          \cup (IF link.abs THEN Free1(Top.cur, Top) ELSE {})
        /\ stack' = <<Call(link.names, dir),
                      [Top EXCEPT !.old = dir, !.cur = NewNode, !.type = "sym"]>> \o Tail(stack)
        /\ toRoot' = (toRoot \/ link.names = <<>>)
        /\ UNCHANGED <<wpc, finds, want, ret, file, faulty>>

(* One link too many, or the link cannot be read. *)
LinkFails ==
    /\ HasEntry({"sym"})
    /\ symlinknest' = symlinknest + 1
    /\ faulty' = (faulty \/ symlinknest + 1 # LinkLimit)
    /\ freed' = freed \cup Free1(NewNode, Top) \cup Free1(Top.cur, Top)
    /\ Fails
    /\ UNCHANGED <<finds, want, file, toRoot>>

-----------------------------------------------------------------------------
(* The call for a link returns to the one that met the link. *)
Caller == stack[2]

LinkResolved ==
    /\ wpc = "return" /\ Len(stack) > 1 /\ ret.ok
    /\ Advance(Caller, Tail(Tail(stack)), ret.node,
               IF ret.type = None THEN Caller.type ELSE ret.type)
    /\ UNCHANGED <<finds, want, symlinknest, nodes, file, faulty, toRoot>>

LinkUnresolved ==
    /\ wpc = "return" /\ Len(stack) > 1 /\ ~ret.ok
    /\ freed' = freed \cup Free1(Caller.old, Caller)
    /\ stack' = Tail(stack)
    /\ UNCHANGED <<wpc, finds, want, ret, symlinknest, nodes, file, faulty, toRoot>>

(* ext2fs_find_file compares the types. *)
Expected == ret.ok /\ want.expect = IF ret.type = None THEN "dir" ELSE ret.type

Returned == wpc = "return" /\ Len(stack) = 1 /\ stack' = <<>>

(* ext2fs_open, the inode read. *)
Opened ==
    /\ Returned
    /\ Expected /\ want.expect = "reg"
    /\ file' = ret.node
    /\ wpc' = "found"
    /\ UNCHANGED <<finds, want, ret, symlinknest, nodes, freed, faulty, toRoot>>

(* ... or not: the node is freed, if there is one. *)
OpenFails ==
    /\ Returned
    /\ want.expect = "reg"
    /\ faulty' = (faulty \/ Expected)
    /\ freed' = IF ret.ok THEN freed \cup Free1(ret.node, Call(<<>>, RootNode)) ELSE freed
    /\ wpc' = "failed"
    /\ UNCHANGED <<finds, want, ret, symlinknest, nodes, file, toRoot>>

(* ext2fs_ls prints the directory, whatever becomes of that, and frees it. *)
Listed ==
    /\ Returned
    /\ Expected /\ want.expect = "dir"
    /\ freed' = freed \cup Free1(ret.node, Call(<<>>, RootNode))
    /\ wpc' = "found"
    /\ UNCHANGED <<finds, want, ret, symlinknest, nodes, file, faulty, toRoot>>

(* ... and keeps a node of another type. *)
ListFails ==
    /\ Returned
    /\ ~Expected /\ want.expect = "dir"
    /\ wpc' = "failed"
    /\ UNCHANGED <<finds, want, ret, symlinknest, nodes, freed, file, faulty, toRoot>>

(* The caller goes on with the file, or with the error. *)
Ended == wpc \in {"found", "failed"} /\ finds = MaxFinds /\ UNCHANGED vars

Step ==
    \/ EmptyPath \/ NotADirectory \/ NoSuchEntry \/ IterateFails
    \/ Descend \/ FollowLink \/ LinkFails
    \/ LinkResolved \/ LinkUnresolved
    \/ Opened \/ OpenFails \/ Listed \/ ListFails

Next ==
    \/ \E p \in Paths, t \in {"dir", "reg"} : Find(p, t)
    \/ Step
    \/ Ended

-----------------------------------------------------------------------------
Node == [id : 0 .. nodes, ino : DOMAIN Tree]
Types == {"dir", "reg", "sym", "other"}

(* Every variable has its type; a node is one that was allocated. *)
TypeOK ==
    /\ wpc \in {"idle", "walk", "return", "found", "failed"}
    /\ finds \in 0 .. MaxFinds
    /\ want \in [path : Paths, expect : {"dir", "reg"}] \cup {None}
    /\ \A k \in DOMAIN stack :
         /\ {stack[k].root, stack[k].cur, stack[k].old} \subseteq Node
         /\ stack[k].type \in Types
    /\ ret \in [ok : BOOLEAN, node : Node, type : Types \cup {None}]
    /\ symlinknest \in 0 .. LinkLimit
    /\ nodes \in Nat
    /\ freed \subseteq 1 .. nodes
    /\ file \in Node \cup {None}
    /\ faulty \in BOOLEAN /\ toRoot \in BOOLEAN

(* No node is used after it was freed: not the directory a call is in or   *)
(* started from, not the one a suspended call will free when its link is   *)
(* resolved, not the node that is returned, not the open file.             *)
NoDangling ==
    /\ \A k \in DOMAIN stack : stack[k].root.id \notin freed
    /\ \A k \in DOMAIN stack \ {1} : stack[k].old.id \notin freed
    /\ wpc = "walk" => Top.cur.id \notin freed
    /\ wpc = "return" /\ ret.ok => ret.node.id \notin freed
    /\ file # None => file.id \notin freed

(* Links cannot make the calls of ext2fs_find_file1, each of which has a   *)
(* copy of its path on the stack, nest deeper than the link limit.         *)
StackBounded == Len(stack) <= LinkLimit

-----------------------------------------------------------------------------
(* What a path means.  It is rewritten from the left: the first name is    *)
(* taken off, and a link is replaced by its target in the path, as often   *)
(* as the limit allows.  m is what is left: the names still to be looked   *)
(* up, from which directory, and the links that may still be replaced.     *)
EntryOf(m) == Tree[m.dir].entries[Head(m.names)]

Settled(m) ==
    \/ m.names = <<>>
    \/ Tree[m.dir].kind # "dir"
    \/ Head(m.names) \notin DOMAIN Tree[m.dir].entries
    \/ m.links = 0 /\ Tree[EntryOf(m)].kind = "sym"

Rewritten(m) ==
    LET link == Tree[EntryOf(m)].link
    IN  IF Settled(m) THEN m
        ELSE IF Tree[EntryOf(m)].kind # "sym"
        THEN [dir |-> EntryOf(m), names |-> Tail(m.names), links |-> m.links]
        ELSE [dir |-> IF link.abs THEN Root ELSE m.dir,
              names |-> link.names \o Tail(m.names), links |-> m.links - 1]

Meaning(path, n) ==
    LET after[k \in 0 .. n] ==
            IF k = 0 THEN [dir |-> Root, names |-> path, links |-> LinkLimit - 1]
            ELSE Rewritten(after[k - 1])
    IN  after[n]

(* No walk takes more steps than there are nodes. *)
Meant == Meaning(want.path, nodes)
MeantFound == Meant.names = <<>> /\ Tree[Meant.dir].kind = want.expect

RightFile ==
    /\ wpc = "found" => MeantFound /\ ret.node.ino = Meant.dir
    /\ wpc = "failed" => Settled(Meant) /\ ~MeantFound

(* The walk by hand, with its recursion, its links and its early returns,  *)
(* finds exactly the file the path means and fails exactly when there is   *)
(* none, unless the disk or the memory fails or a link to "/" is followed. *)
FindsTheFile == faulty \/ toRoot \/ RightFile

Spec == Init /\ [][Next]_vars
=============================================================================
