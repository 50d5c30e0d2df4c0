--------------------------- MODULE PathWalkProofs ---------------------------
(***************************************************************************)
(* The walk of ext2fs_find_file1 for every tree, path and link limit: no   *)
(* node is used after it was freed, the calls nest only so deep, and the   *)
(* file that is found is the one the path means.                           *)
(*                                                                         *)
(* A node is freed by the call that owns it, and the reason it is never in *)
(* use elsewhere is that nodes are numbered in the order of allocation: a  *)
(* call starts from the root, from where its caller started, or from a     *)
(* node that is younger than the start of every call around it.            *)
(*                                                                         *)
(* The walk finds what the path means because the names left in all its    *)
(* calls, put together, are at every step what the path has been rewritten *)
(* to.                                                                     *)
(***************************************************************************)
EXTENDS PathWalk, WellFoundedInduction, TLAPS

Nodes == [id : Nat, ino : DOMAIN Tree]
Frame == [names : Seq(STRING), root : Nodes, cur : Nodes, old : Nodes, type : Types]
RetType == [ok : BOOLEAN, node : Nodes, type : Types \cup {None}]

WType ==
    /\ wpc \in {"idle", "walk", "return", "found", "failed"}
    /\ stack \in Seq(Frame) /\ ret \in RetType
    /\ nodes \in Nat /\ freed \subseteq 1 .. nodes
    /\ file \in Nodes \cup {None}
    /\ stack # <<>> <=> wpc \in {"walk", "return"}

(* No node has a number that was not given yet. *)
Allocated ==
    /\ \A k \in 1 .. Len(stack) :
         stack[k].root.id <= nodes /\ stack[k].cur.id <= nodes /\ stack[k].old.id <= nodes
    /\ ret.node.id <= nodes
    /\ file # None => file.id <= nodes

(* n is the root directory or younger than the start of every call of s. *)
Younger(n, s) == n = 0 \/ \A m \in 1 .. Len(s) : n > s[m].root.id

(* Every call started from where the one that met the link will go on, and *)
(* that is the root directory, its caller's start, or younger than that of *)
(* all calls outside.  A caller has not taken off the name of the link.    *)
Ascending(s) ==
    \A k \in 2 .. Len(s) :
        /\ s[k].names # <<>>
        /\ s[k].old.id = s[k - 1].root.id
        /\ \/ s[k - 1].root.id \in {0, s[k].root.id}
           \/ \A m \in k .. Len(s) : s[k - 1].root.id > s[m].root.id

StartsLive == \A k \in 1 .. Len(stack) : stack[k].root.id \notin freed

CurLive ==
    wpc = "walk" =>
        /\ stack[1].cur.id \notin freed
        /\ stack[1].cur.id = stack[1].root.id \/ Younger(stack[1].cur.id, stack)
        /\ stack[1].names = <<>> => stack[1].root.id = 0

RetLive ==
    wpc = "return" /\ ret.ok => ret.node.id \notin freed /\ Younger(ret.node.id, stack)

(* The nodes of a look-up are younger than the file that is open. *)
FileLive ==
    file # None =>
        /\ file.id \notin freed
        /\ \A k \in 1 .. Len(stack) : stack[k].root.id = 0 \/ stack[k].root.id > file.id
        /\ wpc = "walk" => stack[1].cur.id = 0 \/ stack[1].cur.id > file.id
        /\ wpc = "return" /\ ret.ok => ret.node.id = 0 \/ ret.node.id > file.id

(* Every call but the outermost was made for a link that was counted. *)
Nesting ==
    /\ symlinknest \in 0 .. LinkLimit
    /\ Len(stack) <= symlinknest + 1 /\ Len(stack) <= LinkLimit
    /\ wpc = "walk" \/ (wpc = "return" /\ ret.ok) => symlinknest < LinkLimit

WInv ==
    /\ WType /\ Allocated /\ Ascending(stack) /\ StartsLive /\ CurLive /\ RetLive
    /\ FileLive /\ Nesting
-----------------------------------------------------------------------------
(* The stack as a sequence. *)

LEMMA TailType ==
    ASSUME NEW S, NEW s \in Seq(S), s # <<>>
    PROVE  Tail(s) \in Seq(S)
  OBVIOUS

LEMMA TopReplaced ==
    ASSUME NEW S, NEW s \in Seq(S), s # <<>>, NEW e \in S
    PROVE  LET t == <<e>> \o Tail(s)
           IN  /\ t \in Seq(S) /\ Len(t) = Len(s) /\ t[1] = e /\ t # <<>>
               /\ \A k \in 2 .. Len(s) : t[k] = s[k]
  OBVIOUS

LEMMA TwoForTop ==
    ASSUME NEW S, NEW s \in Seq(S), s # <<>>, NEW e \in S, NEW c \in S
    PROVE  LET t == <<e, c>> \o Tail(s)
           IN  /\ t \in Seq(S) /\ Len(t) = Len(s) + 1 /\ t[1] = e /\ t[2] = c /\ t # <<>>
               /\ \A k \in 3 .. Len(t) : t[k] = s[k - 1]
  OBVIOUS

LEMMA TopDropped ==
    ASSUME NEW S, NEW s \in Seq(S), Len(s) > 1
    PROVE  /\ Tail(s) \in Seq(S) /\ Len(Tail(s)) = Len(s) - 1 /\ Tail(s) # <<>>
           /\ \A k \in 1 .. Len(s) - 1 : Tail(s)[k] = s[k + 1]
  <1>1. Tail(s) \in Seq(S) /\ Len(Tail(s)) = Len(s) - 1
    OBVIOUS
  <1>2. Tail(s) # <<>>
    <2>. DEFINE n == Len(s)
    <2>1. n \in Nat
      OBVIOUS
    <2>2. n > 1
      OBVIOUS
    <2>. HIDE DEF n
    <2>3. n - 1 # 0
      BY <2>1, <2>2
    <2>. QED  BY <1>1, <2>3 DEF n
  <1>3. \A k \in 1 .. Len(s) - 1 : Tail(s)[k] = s[k + 1]
    OBVIOUS
  <1>. QED  BY <1>1, <1>2, <1>3

(* Replacing the innermost call by one with the same start. *)
LEMMA AscendingTop ==
    ASSUME NEW s \in Seq(Frame), NEW t \in Seq(Frame), Ascending(s), Len(t) = Len(s), Len(s) > 0,
           t[1].root = s[1].root, \A k \in 2 .. Len(s) : t[k] = s[k]
    PROVE  /\ Ascending(t)
           /\ \A k \in 1 .. Len(t) : t[k].root = s[k].root
  <1>1. \A k \in 1 .. Len(t) : t[k].root = s[k].root
    OBVIOUS
  <1>2. Ascending(t)
    <2>. SUFFICES ASSUME NEW k \in 2 .. Len(t)
                  PROVE  /\ t[k].names # <<>>
                         /\ t[k].old.id = t[k - 1].root.id
                         /\ \/ t[k - 1].root.id \in {0, t[k].root.id}
                            \/ \A m \in k .. Len(t) : t[k - 1].root.id > t[m].root.id
      BY DEF Ascending
    <2>1. k \in 2 .. Len(s) /\ k - 1 \in 1 .. Len(s) /\ k \in 1 .. Len(t)
      OBVIOUS
    <2>2. t[k] = s[k] /\ t[k - 1].root = s[k - 1].root
      BY <1>1, <2>1
    <2>3. \A m \in k .. Len(t) : t[m].root = s[m].root
      BY <1>1, <2>1
    <2>. QED  BY <2>1, <2>2, <2>3 DEF Ascending
  <1>. QED  BY <1>1, <1>2

(* A call for a link. *)
LEMMA AscendingPush ==
    ASSUME NEW s \in Seq(Frame), NEW t \in Seq(Frame), Ascending(s), Len(t) = Len(s) + 1,
           Len(s) > 0, t[2].root = s[1].root, t[2].old = t[1].root, t[2].names # <<>>,
           \A k \in 3 .. Len(t) : t[k] = s[k - 1],
           t[1].root.id = s[1].root.id \/ Younger(t[1].root.id, s)
    PROVE  Ascending(t)
  <1>1. \A k \in 2 .. Len(t) : t[k].root = s[k - 1].root /\ k - 1 \in 1 .. Len(s)
    OBVIOUS
  <1>. SUFFICES ASSUME NEW k \in 2 .. Len(t)
                PROVE  /\ t[k].names # <<>>
                       /\ t[k].old.id = t[k - 1].root.id
                       /\ \/ t[k - 1].root.id \in {0, t[k].root.id}
                          \/ \A m \in k .. Len(t) : t[k - 1].root.id > t[m].root.id
    BY DEF Ascending
  <1>2. CASE k = 2
    <2>1. \A m \in k .. Len(t) : t[m].root = s[m - 1].root /\ m - 1 \in 1 .. Len(s)
      BY <1>1
    <2>2. k - 1 = 1 /\ t[k] = t[2] /\ t[k - 1] = t[1]
      BY <1>2
    <2>3. t[1].root.id \in {0, s[1].root.id} \/ \A m \in 1 .. Len(s) : t[1].root.id > s[m].root.id
      BY DEF Younger
    <2>4. CASE \A m \in 1 .. Len(s) : t[1].root.id > s[m].root.id
      BY <2>1, <2>2, <2>4
    <2>. QED  BY <2>2, <2>3, <2>4
  <1>3. CASE k # 2
    <2>1. /\ k - 1 \in 2 .. Len(s) /\ k - 1 \in 2 .. Len(t) /\ k \in 3 .. Len(t)
          /\ (k - 1) - 1 = k - 2
      BY <1>3
    <2>2. /\ t[k] = s[k - 1] /\ t[k - 1].root = s[k - 2].root
      BY <1>1, <2>1
    <2>3. /\ s[k - 1].names # <<>>
          /\ s[k - 1].old.id = s[k - 2].root.id
          /\ \/ s[k - 2].root.id \in {0, s[k - 1].root.id}
             \/ \A m \in k - 1 .. Len(s) : s[k - 2].root.id > s[m].root.id
      BY <2>1 DEF Ascending
    <2>4. \A m \in k .. Len(t) : t[m].root = s[m - 1].root /\ m - 1 \in k - 1 .. Len(s)
      BY <1>1
    <2>. QED  BY <2>2, <2>3, <2>4
  <1>. QED  BY <1>2, <1>3

(* A call returns. *)
LEMMA AscendingPop ==
    ASSUME NEW s \in Seq(Frame), NEW t \in Seq(Frame), Ascending(s), Len(t) = Len(s) - 1,
           Len(s) > 1, t[1].root = s[2].root, \A k \in 2 .. Len(t) : t[k] = s[k + 1]
    PROVE  /\ Ascending(t)
           /\ \A k \in 1 .. Len(t) : t[k].root = s[k + 1].root /\ k + 1 \in 1 .. Len(s)
  <1>1. \A k \in 1 .. Len(t) : t[k].root = s[k + 1].root /\ k + 1 \in 1 .. Len(s)
    OBVIOUS
  <1>2. Ascending(t)
    <2>. SUFFICES ASSUME NEW k \in 2 .. Len(t)
                  PROVE  /\ t[k].names # <<>>
                         /\ t[k].old.id = t[k - 1].root.id
                         /\ \/ t[k - 1].root.id \in {0, t[k].root.id}
                            \/ \A m \in k .. Len(t) : t[k - 1].root.id > t[m].root.id
      BY DEF Ascending
    <2>1. /\ k + 1 \in 2 .. Len(s) /\ k - 1 \in 1 .. Len(t) /\ (k - 1) + 1 = k /\ (k + 1) - 1 = k
      OBVIOUS
    <2>2. t[k] = s[k + 1] /\ t[k - 1].root = s[k].root
      BY <1>1, <2>1
    <2>3. /\ s[k + 1].names # <<>>
          /\ s[k + 1].old.id = s[k].root.id
          /\ \/ s[k].root.id \in {0, s[k + 1].root.id}
             \/ \A m \in k + 1 .. Len(s) : s[k].root.id > s[m].root.id
      BY <2>1 DEF Ascending
    <2>4. \A m \in k .. Len(t) : t[m].root = s[m + 1].root /\ m + 1 \in k + 1 .. Len(s)
      BY <1>1
    <2>. QED  BY <2>2, <2>3, <2>4
  <1>. QED  BY <1>1, <1>2
-----------------------------------------------------------------------------
(* What the invariant says of the innermost call. *)

LEMMA StackFacts ==
    ASSUME WInv, stack # <<>>
    PROVE  /\ stack \in Seq(Frame) /\ Len(stack) \in Nat /\ Len(stack) > 0 /\ Top = stack[1]
           /\ \A k \in 1 .. Len(stack) :
                /\ stack[k] \in Frame
                /\ stack[k].root \in Nodes /\ stack[k].cur \in Nodes /\ stack[k].old \in Nodes
                /\ stack[k].root.id \in Nat /\ stack[k].cur.id \in Nat /\ stack[k].old.id \in Nat
                /\ stack[k].names \in Seq(STRING) /\ stack[k].type \in Types
  <1>1. stack \in Seq(Frame)
    BY DEF WInv, WType
  <1>2. Len(stack) \in Nat /\ Len(stack) > 0 /\ Head(stack) = stack[1]
    BY <1>1
  <1>3. \A k \in 1 .. Len(stack) : stack[k] \in Frame
    BY <1>1
  <1>4. \A f \in Frame : /\ f.root \in Nodes /\ f.cur \in Nodes /\ f.old \in Nodes
                         /\ f.names \in Seq(STRING) /\ f.type \in Types
    BY DEF Frame
  <1>5. \A n \in Nodes : n.id \in Nat
    BY DEF Nodes
  <1>. QED  BY <1>1, <1>2, <1>3, <1>4, <1>5 DEF Top

(* The directory a call is in is its own, unless it started there: nobody  *)
(* else will use it once it is freed.                                      *)
LEMMA CurIsOwned ==
    ASSUME WInv, wpc = "walk", NEW x \in Free1(Top.cur, Top)
    PROVE  /\ x = stack[1].cur.id /\ x \in 1 .. nodes
           /\ \A k \in 1 .. Len(stack) : x > stack[k].root.id
           /\ file # None => x > file.id
  <1>1. /\ WType /\ Allocated /\ CurLive /\ FileLive /\ stack # <<>>
    BY DEF WInv, WType
  <1>2. /\ Top = stack[1] /\ 1 \in 1 .. Len(stack)
        /\ stack[1].cur.id \in Nat /\ stack[1].root.id \in Nat
    BY <1>1, StackFacts
  <1>3. x = stack[1].cur.id /\ x # 0 /\ x # stack[1].root.id
    BY <1>2 DEF Free1
  <1>4. Younger(x, stack)
    BY <1>1, <1>3 DEF CurLive
  <1>5. \A k \in 1 .. Len(stack) : x > stack[k].root.id
    BY <1>3, <1>4 DEF Younger
  <1>6. x \in 1 .. nodes
    BY <1>1, <1>2, <1>3 DEF Allocated, WType
  <1>7. file # None => x > file.id
    BY <1>1, <1>3 DEF FileLive
  <1>. QED  BY <1>3, <1>5, <1>6, <1>7

(* The same of the directory a link was met in, when its target is done.   *)
LEMMA OldIsOwned ==
    ASSUME WInv, wpc = "return", Len(stack) > 1, NEW x \in Free1(Caller.old, Caller)
    PROVE  /\ x \in 1 .. nodes
           /\ \A k \in 2 .. Len(stack) : x > stack[k].root.id
           /\ file # None => x > file.id
           /\ ret.ok => x # ret.node.id
  <1>1. /\ WType /\ Allocated /\ RetLive /\ FileLive /\ stack # <<>> /\ Ascending(stack)
    BY DEF WInv, WType
  <1>2. /\ Len(stack) \in Nat /\ stack[1].root.id \in Nat /\ stack[2].root.id \in Nat
        /\ 1 \in 1 .. Len(stack) /\ 2 \in 2 .. Len(stack)
    BY <1>1, StackFacts
  <1>3. x = stack[2].old.id /\ x # 0 /\ x # stack[2].root.id
    BY DEF Free1, Caller
  <1>4. /\ stack[2].old.id = stack[1].root.id
        /\ \/ stack[1].root.id \in {0, stack[2].root.id}
           \/ \A m \in 2 .. Len(stack) : stack[1].root.id > stack[m].root.id
    <2>1. 2 - 1 = 1
      OBVIOUS
    <2>. QED  BY <1>1, <1>2, <2>1 DEF Ascending
  <1>5. x = stack[1].root.id /\ \A m \in 2 .. Len(stack) : x > stack[m].root.id
    BY <1>3, <1>4
  <1>6. x \in 1 .. nodes
    BY <1>1, <1>2, <1>3, <1>5 DEF Allocated, WType
  <1>7. file # None => x > file.id
    BY <1>1, <1>2, <1>3, <1>5 DEF FileLive
  <1>8. ret.ok => x # ret.node.id
    <2>. SUFFICES ASSUME ret.ok PROVE x # ret.node.id
      OBVIOUS
    <2>1. ret.node.id = 0 \/ ret.node.id > stack[1].root.id
      BY <1>1, <1>2 DEF RetLive, Younger
    <2>. QED  BY <1>2, <1>3, <1>5, <2>1
  <1>. QED  BY <1>5, <1>6, <1>7, <1>8

-----------------------------------------------------------------------------
(* The ways a step can end. *)

LEMMA NoRetType == NoRet \in RetType /\ RootNode \in Nodes /\ ~NoRet.ok /\ NoRet.node.id = 0
  <1>1. RootNode \in Nodes /\ RootNode.id = 0
    BY TreeAssumption DEF RootNode, Nodes
  <1>. QED  BY <1>1 DEF NoRet, RetType

(* The innermost call gives up. *)
LEMMA CallFails ==
    ASSUME WInv, wpc = "walk", wpc' = "return", stack' = stack, ret' = NoRet, file' = file,
           nodes' \in Nat, nodes' >= nodes, freed \subseteq freed',
           \A x \in freed' \ freed :
               x \in Free1(Top.cur, Top) \/ (x = nodes + 1 /\ nodes' = nodes + 1),
           symlinknest' \in {symlinknest, symlinknest + 1}
    PROVE  WInv'
  <1>1. /\ WType /\ Allocated /\ Ascending(stack) /\ StartsLive /\ CurLive /\ FileLive
        /\ Nesting /\ stack # <<>> /\ nodes \in Nat
    BY DEF WInv, WType
  <1>2. /\ Len(stack) \in Nat
        /\ \A k \in 1 .. Len(stack) :
             /\ stack[k].root.id \in Nat /\ stack[k].cur.id \in Nat /\ stack[k].old.id \in Nat
    BY <1>1, StackFacts
  <1>3. \A x \in freed' \ freed :
          /\ x \in 1 .. nodes'
          /\ \A k \in 1 .. Len(stack) : x > stack[k].root.id
          /\ file # None => x > file.id
    <2>. TAKE x \in freed' \ freed
    <2>1. CASE x \in Free1(Top.cur, Top)
      <3>1. /\ x \in 1 .. nodes
            /\ \A k \in 1 .. Len(stack) : x > stack[k].root.id
            /\ file # None => x > file.id
        BY <2>1, CurIsOwned
      <3>. QED  BY <1>1, <3>1
    <2>2. CASE x = nodes + 1 /\ nodes' = nodes + 1
      <3>1. x \in 1 .. nodes'
        BY <1>1, <2>2
      <3>2. \A k \in 1 .. Len(stack) : x > stack[k].root.id
        BY <1>1, <1>2, <2>2 DEF Allocated
      <3>3. file # None => x > file.id
        <4>1. file # None => file.id \in Nat /\ file.id <= nodes
          BY <1>1 DEF Allocated, WType, Nodes
        <4>. QED  BY <1>1, <2>2, <4>1
      <3>. QED  BY <3>1, <3>2, <3>3
    <2>. QED  BY <2>1, <2>2
  <1>4. NoRet \in RetType /\ ~NoRet.ok /\ NoRet.node.id = 0
    BY NoRetType
  <1>5. WType'
    <2>1. freed' \subseteq 1 .. nodes'
      <3>1. freed \subseteq 1 .. nodes'
        BY <1>1 DEF WType
      <3>. QED  BY <1>3, <3>1
    <2>. QED  BY <1>1, <1>4, <2>1 DEF WType
  <1>6. Allocated'
    <2>1. file # None => file.id \in Nat
      BY <1>1 DEF WType, Nodes
    <2>. QED  BY <1>1, <1>2, <1>4, <2>1 DEF Allocated
  <1>7. Ascending(stack)'
    BY <1>1 DEF Ascending
  <1>8. StartsLive'
    <2>. SUFFICES ASSUME NEW k \in 1 .. Len(stack) PROVE stack[k].root.id \notin freed'
      BY DEF StartsLive
    <2>1. stack[k].root.id \notin freed
      BY <1>1 DEF StartsLive
    <2>. QED  BY <1>2, <1>3, <2>1
  <1>9. CurLive' /\ RetLive'
    BY <1>4 DEF CurLive, RetLive
  <1>10. FileLive'
    <2>. SUFFICES ASSUME file # None
                  PROVE  /\ file.id \notin freed'
                         /\ \A k \in 1 .. Len(stack) :
                              stack[k].root.id = 0 \/ stack[k].root.id > file.id
      BY <1>4 DEF FileLive
    <2>1. file.id \notin freed /\ file.id \in Nat
      BY <1>1 DEF FileLive, WType, Nodes
    <2>2. file.id \notin freed'
      BY <1>3, <2>1
    <2>. QED  BY <1>1, <2>2 DEF FileLive
  <1>11. Nesting'
    <2>1. symlinknest \in Nat /\ symlinknest < LinkLimit /\ LinkLimit \in Nat
      BY <1>1, TreeAssumption DEF Nesting
    <2>. QED  BY <1>1, <1>2, <1>4, <2>1 DEF Nesting
  <1>. QED  BY <1>5, <1>6, <1>7, <1>8, <1>9, <1>10, <1>11 DEF WInv
(* A call has come to a node: it returns it, or it goes on from there. *)
LEMMA NodeReached ==
    ASSUME WInv, stack # <<>>, NEW node \in Nodes, NEW type \in Types,
           stack' \in Seq(Frame), Len(stack') > 0, Len(stack') <= Len(stack), Ascending(stack'),
           \A k \in 1 .. Len(stack') :
               /\ stack'[k].root.id \notin freed'
               /\ stack'[k].root.id <= nodes' /\ stack'[k].old.id <= nodes'
               /\ stack'[k].cur.id <= nodes'
               /\ file # None => stack'[k].root.id = 0 \/ stack'[k].root.id > file.id,
           stack'[1].cur = node, node.id \notin freed', node.id <= nodes',
           Younger(node.id, stack'), file # None => node.id = 0 \/ node.id > file.id,
           nodes' \in Nat, nodes' >= nodes, freed' \subseteq 1 .. nodes',
           file # None => file.id \notin freed',
           symlinknest' = symlinknest, symlinknest < LinkLimit, file' = file,
           \/ /\ stack'[1].names = <<>> /\ wpc' = "return"
              /\ ret' = [ok |-> TRUE, node |-> node, type |-> type]
           \/ stack'[1].names # <<>> /\ wpc' = "walk" /\ ret' = ret
    PROVE  WInv'
  <1>1. WType /\ Allocated /\ Nesting /\ nodes \in Nat
    BY DEF WInv, WType
  <1>2. /\ ret' \in RetType /\ ret'.node.id <= nodes'
        /\ wpc' = "return" => ret'.node = node
    <2>1. CASE ret' = ret /\ wpc' = "walk"
      <3>1. ret \in RetType /\ ret.node.id <= nodes
        BY <1>1 DEF WType, Allocated
      <3>2. ret.node.id \in Nat
        BY <3>1 DEF RetType, Nodes
      <3>. QED  BY <1>1, <2>1, <3>1, <3>2
    <2>2. CASE ret' = [ok |-> TRUE, node |-> node, type |-> type]
      BY <2>2 DEF RetType
    <2>. QED  BY <2>1, <2>2
  <1>3. stack' # <<>> /\ wpc' \in {"walk", "return"} /\ Len(stack') \in Nat
    OBVIOUS
  <1>4. WType'
    BY <1>1, <1>2, <1>3 DEF WType
  <1>5. Allocated'
    <2>1. file # None => file.id <= nodes'
      BY <1>1 DEF Allocated, WType, Nodes
    <2>. QED  BY <1>2, <2>1 DEF Allocated
  <1>6. Ascending(stack)' /\ StartsLive'
    BY DEF Ascending, StartsLive
  <1>7. CurLive' /\ RetLive'
    BY <1>2 DEF CurLive, RetLive, Younger
  <1>8. FileLive'
    BY <1>2 DEF FileLive
  <1>9. Nesting'
    <2>1. Len(stack) \in Nat /\ symlinknest \in Nat /\ LinkLimit \in Nat
      BY <1>1, TreeAssumption DEF WType, Nesting
    <2>. QED  BY <1>1, <1>3, <2>1 DEF Nesting
  <1>. QED  BY <1>4, <1>5, <1>6, <1>7, <1>8, <1>9 DEF WInv

-----------------------------------------------------------------------------
(* One lemma per step. *)

LEMMA WInit == Init => WInv
  <1>. SUFFICES ASSUME Init PROVE WInv
    OBVIOUS
  <1>1. /\ wpc = "idle" /\ stack = <<>> /\ ret = NoRet /\ symlinknest = 0 /\ nodes = 0
        /\ freed = {} /\ file = None
    BY DEF Init
  <1>2. stack \in Seq(Frame) /\ Len(stack) = 0
    BY <1>1
  <1>3. WType
    BY <1>1, <1>2, NoRetType DEF WType
  <1>4. Allocated
    BY <1>1, <1>2, NoRetType DEF Allocated
  <1>5. Ascending(stack) /\ StartsLive
    BY <1>2 DEF Ascending, StartsLive
  <1>6. CurLive /\ RetLive /\ FileLive
    BY <1>1 DEF CurLive, RetLive, FileLive
  <1>7. Nesting
    BY <1>1, <1>2, TreeAssumption DEF Nesting
  <1>. QED  BY <1>3, <1>4, <1>5, <1>6, <1>7 DEF WInv

LEMMA WFind ==
    ASSUME WInv, NEW p \in Paths, NEW t \in {"dir", "reg"}, Find(p, t)
    PROVE  WInv'
  <1>1. /\ WType /\ Allocated /\ FileLive
    BY DEF WInv
  <1>2. /\ wpc' = "walk" /\ stack' = <<Call(p, RootNode)>> /\ symlinknest' = 0
        /\ file' \in {None, file} /\ ret' = ret /\ nodes' = nodes /\ freed' = freed
    BY DEF Find
  <1>3. p \in Seq(STRING) /\ RootNode \in Nodes /\ RootNode.id = 0
    BY TreeAssumption, NoRetType DEF RootNode
  <1>. DEFINE f == Call(p, RootNode)
  <1>4. /\ f \in Frame /\ f.root.id = 0 /\ f.cur.id = 0 /\ f.old.id = 0
    BY <1>3 DEF Call, Frame, Types
  <1>. HIDE DEF f
  <1>5. /\ stack' \in Seq(Frame) /\ Len(stack') = 1 /\ stack'[1] = f /\ stack' # <<>>
    BY <1>2, <1>4 DEF f
  <1>6. \A k \in 1 .. Len(stack') : stack'[k] = f
    BY <1>5
  <1>7. 0 \notin freed'
    BY <1>1, <1>2 DEF WType
  <1>8. WType'
    BY <1>1, <1>2, <1>5 DEF WType
  <1>9. Allocated'
    BY <1>1, <1>2, <1>4, <1>6 DEF Allocated, WType
  <1>10. Ascending(stack)'
    BY <1>5 DEF Ascending
  <1>11. StartsLive'
    BY <1>4, <1>6, <1>7 DEF StartsLive
  <1>12. CurLive' /\ RetLive'
    BY <1>2, <1>4, <1>5, <1>7 DEF CurLive, RetLive, Younger
  <1>13. FileLive'
    BY <1>1, <1>2, <1>4, <1>5, <1>6 DEF FileLive
  <1>14. Nesting'
    BY <1>2, <1>5, TreeAssumption DEF Nesting
  <1>. QED  BY <1>8, <1>9, <1>10, <1>11, <1>12, <1>13, <1>14 DEF WInv

(* The directory named "/", which is never freed. *)
LEMMA WEmptyPath ==
    ASSUME WInv, EmptyPath
    PROVE  WInv'
  <1>1. /\ WType /\ Allocated /\ Ascending(stack) /\ StartsLive /\ CurLive /\ FileLive /\ Nesting
        /\ stack # <<>>
    BY DEF WInv, WType, EmptyPath
  <1>2. /\ wpc = "walk" /\ Top.names = <<>> /\ wpc' = "return" /\ stack' = stack
        /\ ret' = [ok |-> TRUE, node |-> Top.root, type |-> None]
        /\ UNCHANGED <<symlinknest, nodes, freed, file>>
    BY DEF EmptyPath, Succeeds
  <1>3. Top = stack[1] /\ stack[1].root \in Nodes /\ Len(stack) \in Nat
    BY <1>1, StackFacts
  <1>4. Top.root.id = 0
    BY <1>1, <1>2, <1>3 DEF CurLive
  <1>5. ret' \in RetType /\ ret'.node.id = 0 /\ ret'.ok
    BY <1>2, <1>3, <1>4 DEF RetType
  <1>6. 0 \notin freed
    BY <1>1 DEF WType
  <1>7. WType'
    BY <1>1, <1>2, <1>5 DEF WType
  <1>8. Allocated'
    BY <1>1, <1>2, <1>5 DEF Allocated, WType
  <1>9. Ascending(stack)' /\ StartsLive'
    BY <1>1, <1>2 DEF Ascending, StartsLive
  <1>10. CurLive' /\ RetLive'
    BY <1>2, <1>5, <1>6 DEF CurLive, RetLive, Younger
  <1>11. FileLive'
    BY <1>1, <1>2, <1>5 DEF FileLive
  <1>12. Nesting'
    BY <1>1, <1>2 DEF Nesting
  <1>. QED  BY <1>7, <1>8, <1>9, <1>10, <1>11, <1>12 DEF WInv

LEMMA WFails ==
    ASSUME WInv, NotADirectory \/ NoSuchEntry \/ IterateFails \/ LinkFails
    PROVE  WInv'
  <1>1. nodes \in Nat
    BY DEF WInv, WType
  <1>2. CASE NotADirectory \/ NoSuchEntry \/ IterateFails
    <2>1. /\ wpc = "walk" /\ wpc' = "return" /\ stack' = stack /\ ret' = NoRet
          /\ file' = file /\ nodes' = nodes /\ symlinknest' = symlinknest
          /\ freed \subseteq freed'
          /\ \A x \in freed' \ freed : x \in Free1(Top.cur, Top)
      BY <1>2 DEF NotADirectory, NoSuchEntry, IterateFails, Looking, Fails
    <2>2. nodes' \in Nat /\ nodes' >= nodes
      BY <1>1, <2>1
    <2>. QED  BY <2>1, <2>2, CallFails
  <1>3. CASE LinkFails
    <2>1. /\ wpc = "walk" /\ wpc' = "return" /\ stack' = stack /\ ret' = NoRet
          /\ file' = file /\ nodes' = nodes + 1 /\ symlinknest' = symlinknest + 1
          /\ freed' = freed \cup Free1(NewNode, Top) \cup Free1(Top.cur, Top)
      BY <1>3 DEF LinkFails, HasEntry, Looking, Fails
    <2>2. \A x \in Free1(NewNode, Top) : x = nodes + 1
      BY DEF Free1, NewNode
    <2>3. nodes' \in Nat /\ nodes' >= nodes
      BY <1>1, <2>1
    <2>4. \A x \in freed' \ freed :
            x \in Free1(Top.cur, Top) \/ (x = nodes + 1 /\ nodes' = nodes + 1)
      BY <2>1, <2>2
    <2>. QED  BY <2>1, <2>3, <2>4, CallFails
  <1>. QED  BY <1>2, <1>3
(* ext2fs_iterate_dir allocates a node that is younger than all others. *)
LEMMA NewNodeFacts ==
    ASSUME WInv, NEW kinds, HasEntry(kinds)
    PROVE  /\ wpc = "walk" /\ stack # <<>> /\ Top.names # <<>>
           /\ nodes \in Nat /\ nodes' = nodes + 1
           /\ NewNode \in Nodes /\ NewNode.id = nodes + 1
           /\ Tree[NewNode.ino].kind \in kinds /\ Tree[NewNode.ino].kind \in Types
           /\ Younger(nodes + 1, stack) /\ nodes + 1 \notin freed
           /\ file # None => nodes + 1 > file.id /\ file.id \in Nat
  <1>1. /\ wpc = "walk" /\ Top.names # <<>> /\ Head(Top.names) \in DOMAIN Entries
        /\ Tree[NewNode.ino].kind \in kinds /\ nodes' = nodes + 1
    BY DEF HasEntry, Looking
  <1>2. WType /\ Allocated /\ stack # <<>> /\ nodes \in Nat /\ freed \subseteq 1 .. nodes
    BY <1>1 DEF WInv, WType
  <1>3. /\ Top = stack[1] /\ stack[1].cur \in Nodes /\ Len(stack) \in Nat
        /\ \A k \in 1 .. Len(stack) : stack[k].root.id \in Nat
    BY <1>2, StackFacts
  <1>4. Top.cur.ino \in DOMAIN Tree
    BY <1>3 DEF Nodes
  <1>5. Entries[Head(Top.names)] \in DOMAIN Tree
    BY <1>1, <1>4, TreeAssumption DEF Entries
  <1>6. NewNode \in Nodes /\ NewNode.id = nodes + 1 /\ NewNode.ino \in DOMAIN Tree
    BY <1>2, <1>5 DEF NewNode, Nodes
  <1>7. Tree[NewNode.ino].kind \in Types
    BY <1>6, TreeAssumption DEF Types
  <1>8. Younger(nodes + 1, stack) /\ nodes + 1 \notin freed
    BY <1>2, <1>3 DEF Allocated, Younger
  <1>9. file # None => nodes + 1 > file.id /\ file.id \in Nat
    <2>1. file # None => file.id \in Nat /\ file.id <= nodes
      BY <1>2 DEF WType, Allocated, Nodes
    <2>. QED  BY <1>2, <2>1
  <1>. QED  BY <1>1, <1>2, <1>6, <1>7, <1>8, <1>9

LEMMA WDescend ==
    ASSUME WInv, Descend
    PROVE  WInv'
  <1>. DEFINE kind == Tree[NewNode.ino].kind
              f == [Top EXCEPT !.old = Top.cur]
              next == [f EXCEPT !.names = Tail(f.names), !.cur = NewNode, !.type = kind]
  <1>1. /\ wpc = "walk" /\ stack # <<>> /\ Top.names # <<>>
        /\ nodes \in Nat /\ nodes' = nodes + 1
        /\ NewNode \in Nodes /\ NewNode.id = nodes + 1 /\ kind \in Types
        /\ Younger(nodes + 1, stack) /\ nodes + 1 \notin freed
        /\ file # None => nodes + 1 > file.id /\ file.id \in Nat
    BY NewNodeFacts DEF Descend
  <1>2. /\ WType /\ Allocated /\ Ascending(stack) /\ StartsLive /\ CurLive /\ FileLive /\ Nesting
    BY DEF WInv
  <1>3. /\ stack \in Seq(Frame) /\ Len(stack) \in Nat /\ Len(stack) > 0 /\ Top = stack[1]
        /\ Top \in Frame /\ Top.cur \in Nodes /\ Top.root \in Nodes
        /\ Top.names \in Seq(STRING)
        /\ \A k \in 1 .. Len(stack) :
             /\ stack[k].root.id \in Nat /\ stack[k].cur.id \in Nat /\ stack[k].old.id \in Nat
    BY <1>1, StackFacts
  <1>4. /\ freed' = freed \cup Free1(f.old, f)
        /\ stack' = <<next>> \o Tail(stack)
        /\ \/ /\ Tail(f.names) = <<>> /\ wpc' = "return"
              /\ ret' = [ok |-> TRUE, node |-> NewNode, type |-> kind]
           \/ Tail(f.names) # <<>> /\ wpc' = "walk" /\ ret' = ret
        /\ symlinknest' = symlinknest /\ file' = file
    BY DEF Descend, Advance
  <1>5. f \in Frame /\ f.old = Top.cur /\ f.root = Top.root /\ f.names = Top.names
    BY <1>3 DEF Frame
  <1>. HIDE DEF f, kind
  <1>6. Tail(f.names) \in Seq(STRING)
    BY <1>1, <1>3, <1>5, TailType
  <1>7. /\ next \in Frame /\ next.root = f.root /\ next.cur = NewNode /\ next.old = f.old
        /\ next.names = Tail(f.names)
    BY <1>1, <1>5, <1>6 DEF Frame
  <1>. HIDE DEF next
  <1>8. /\ stack' \in Seq(Frame) /\ Len(stack') = Len(stack) /\ stack'[1] = next
        /\ \A k \in 2 .. Len(stack) : stack'[k] = stack[k]
    BY <1>1, <1>3, <1>4, <1>7, TopReplaced
  <1>9. stack'[1].root = stack[1].root
    BY <1>3, <1>5, <1>7, <1>8
  <1>10. /\ Ascending(stack')
         /\ \A k \in 1 .. Len(stack') : stack'[k].root = stack[k].root
    BY <1>2, <1>3, <1>8, <1>9, AscendingTop
  <1>11. \A x \in freed' \ freed :
           /\ x \in 1 .. nodes
           /\ \A k \in 1 .. Len(stack) : x > stack[k].root.id
           /\ file # None => x > file.id
    <2>1. Free1(f.old, f) = Free1(Top.cur, Top)
      BY <1>5 DEF Free1
    <2>. QED  BY <1>1, <1>4, <2>1, CurIsOwned
  <1>12. \A k \in 1 .. Len(stack') :
           /\ stack'[k].root.id \notin freed'
           /\ file # None => stack'[k].root.id = 0 \/ stack'[k].root.id > file.id
    <2>. TAKE k \in 1 .. Len(stack')
    <2>1. stack'[k].root = stack[k].root /\ k \in 1 .. Len(stack) /\ stack[k].root.id \in Nat
      BY <1>3, <1>8, <1>10
    <2>2. stack[k].root.id \notin freed
      BY <1>2, <2>1 DEF StartsLive
    <2>3. stack[k].root.id \notin freed'
      BY <1>11, <2>1, <2>2
    <2>. QED  BY <1>2, <2>1, <2>3 DEF FileLive
  <1>13. \A k \in 1 .. Len(stack') :
           /\ stack'[k].root.id <= nodes' /\ stack'[k].old.id <= nodes'
           /\ stack'[k].cur.id <= nodes'
    <2>. TAKE k \in 1 .. Len(stack')
    <2>1. /\ k \in 1 .. Len(stack) /\ stack[k].root.id <= nodes /\ stack[k].old.id <= nodes
          /\ stack[k].cur.id <= nodes
      BY <1>2, <1>8 DEF Allocated
    <2>2. CASE k = 1
      <3>1. /\ stack'[k].root = stack[1].root /\ stack'[k].old = stack[1].cur
            /\ stack'[k].cur.id = nodes + 1
        BY <1>1, <1>3, <1>5, <1>7, <1>8, <2>2
      <3>. QED  BY <1>1, <1>3, <2>1, <2>2, <3>1
    <2>3. CASE k # 1
      <3>1. k \in 2 .. Len(stack)
        BY <1>3, <2>1, <2>3
      <3>2. stack'[k] = stack[k]
        BY <1>8, <3>1
      <3>. QED  BY <1>1, <1>3, <2>1, <3>2
    <2>. QED  BY <2>2, <2>3
  <1>14. Younger(NewNode.id, stack')
    BY <1>1, <1>8, <1>10 DEF Younger
  <1>15. NewNode.id \notin freed' /\ (file # None => file.id \notin freed')
    <2>1. nodes + 1 \notin freed'
      BY <1>1, <1>11
    <2>2. file # None => file.id \notin freed'
      BY <1>1, <1>2, <1>11 DEF FileLive
    <2>. QED  BY <1>1, <2>1, <2>2
  <1>16. freed' \subseteq 1 .. nodes' /\ nodes' \in Nat /\ nodes' >= nodes
    <2>1. freed \subseteq 1 .. nodes
      BY <1>2 DEF WType
    <2>2. 1 .. nodes \subseteq 1 .. nodes' /\ nodes' \in Nat /\ nodes' >= nodes
      BY <1>1
    <2>3. \A x \in freed' : x \in freed \/ x \in 1 .. nodes
      BY <1>11
    <2>. QED  BY <2>1, <2>2, <2>3
  <1>17. symlinknest < LinkLimit
    BY <1>1, <1>2 DEF Nesting
  <1>18. /\ Len(stack') > 0 /\ Len(stack') <= Len(stack) /\ stack'[1].cur = NewNode
         /\ stack'[1].names = Tail(f.names) /\ NewNode.id <= nodes'
         /\ file # None => NewNode.id > file.id
    BY <1>1, <1>3, <1>7, <1>8
  <1>. QED  BY <1>1, <1>4, <1>8, <1>10, <1>12, <1>13, <1>14, <1>15, <1>16, <1>17, <1>18, NodeReached

LEMMA WFollowLink ==
    ASSUME WInv, FollowLink
    PROVE  WInv'
  <1>. DEFINE link == Tree[NewNode.ino].link
              dir == IF link.abs THEN RootNode ELSE Top.cur
              inner == Call(link.names, dir)
              outer == [Top EXCEPT !.old = dir, !.cur = NewNode, !.type = "sym"]
  <1>1. /\ wpc = "walk" /\ stack # <<>> /\ Top.names # <<>>
        /\ nodes \in Nat /\ nodes' = nodes + 1
        /\ NewNode \in Nodes /\ NewNode.id = nodes + 1 /\ Tree[NewNode.ino].kind = "sym"
        /\ Younger(nodes + 1, stack) /\ nodes + 1 \notin freed
        /\ file # None => nodes + 1 > file.id /\ file.id \in Nat
    BY NewNodeFacts DEF FollowLink
  <1>2. /\ WType /\ Allocated /\ Ascending(stack) /\ StartsLive /\ CurLive /\ FileLive /\ Nesting
    BY DEF WInv
  <1>3. /\ stack \in Seq(Frame) /\ Len(stack) \in Nat /\ Len(stack) > 0 /\ Top = stack[1]
        /\ Top \in Frame /\ Top.cur \in Nodes /\ Top.root \in Nodes
        /\ Top.cur.id \in Nat /\ 1 \in 1 .. Len(stack)
        /\ \A k \in 1 .. Len(stack) :
             /\ stack[k].root.id \in Nat /\ stack[k].cur.id \in Nat /\ stack[k].old.id \in Nat
    BY <1>1, StackFacts
  <1>4. /\ freed' = freed \cup Free1(NewNode, Top)
                           \cup (IF link.abs THEN Free1(Top.cur, Top) ELSE {})
        /\ stack' = <<inner, outer>> \o Tail(stack)
        /\ symlinknest + 1 # LinkLimit /\ symlinknest' = symlinknest + 1
        /\ wpc' = wpc /\ ret' = ret /\ file' = file
    BY DEF FollowLink
  <1>5. link.names \in Seq(STRING) /\ (link.abs \/ link.names # <<>>)
    BY <1>1, TreeAssumption DEF Nodes
  <1>. HIDE DEF link
  <1>6. /\ dir \in Nodes /\ dir.id \in Nat /\ dir.id <= nodes
        /\ dir.id = 0 \/ (~link.abs /\ dir = Top.cur)
    <2>1. RootNode \in Nodes /\ RootNode.id = 0
      BY NoRetType DEF RootNode
    <2>2. Top.cur.id <= nodes
      BY <1>2, <1>3 DEF Allocated
    <2>. QED  BY <1>1, <1>3, <2>1, <2>2
  <1>7. link.names = <<>> => dir.id = 0
    <2>1. link.abs => dir.id = 0
      BY DEF RootNode
    <2>. QED  BY <1>5, <2>1
  <1>. HIDE DEF dir
  <1>8. /\ inner \in Frame /\ inner.root = dir /\ inner.cur = dir /\ inner.old = dir
        /\ inner.names = link.names
    BY <1>5, <1>6 DEF Call, Frame, Types
  <1>9. /\ outer \in Frame /\ outer.root = Top.root /\ outer.cur = NewNode /\ outer.old = dir
        /\ outer.names # <<>>
    BY <1>1, <1>3, <1>6 DEF Frame, Types
  <1>. HIDE DEF inner, outer
  <1>10. /\ stack' \in Seq(Frame) /\ Len(stack') = Len(stack) + 1
         /\ stack'[1] = inner /\ stack'[2] = outer /\ stack' # <<>>
         /\ \A k \in 3 .. Len(stack') : stack'[k] = stack[k - 1]
    BY <1>1, <1>3, <1>4, <1>8, <1>9, TwoForTop
  <1>11. dir.id = stack[1].root.id \/ Younger(dir.id, stack)
    BY <1>1, <1>2, <1>3, <1>6 DEF CurLive, Younger
  <1>12. Ascending(stack')
    BY <1>2, <1>3, <1>8, <1>9, <1>10, <1>11, AscendingPush
  <1>13. \A k \in 1 .. Len(stack') :
           \/ k = 1 /\ stack'[k] = inner
           \/ k = 2 /\ stack'[k] = outer
           \/ k \in 3 .. Len(stack') /\ stack'[k] = stack[k - 1] /\ k - 1 \in 1 .. Len(stack)
    BY <1>3, <1>10
  <1>14. \A x \in freed' \ freed :
           /\ x \in 1 .. nodes' /\ x # dir.id
           /\ \A k \in 1 .. Len(stack) : x > stack[k].root.id
           /\ file # None => x > file.id
    <2>. TAKE x \in freed' \ freed
    <2>1. CASE x \in Free1(NewNode, Top)
      <3>1. x = nodes + 1
        BY <1>1, <2>1 DEF Free1
      <3>2. \A k \in 1 .. Len(stack) : x > stack[k].root.id
        BY <1>1, <3>1 DEF Younger
      <3>. QED  BY <1>1, <1>6, <3>1, <3>2
    <2>2. CASE link.abs /\ x \in Free1(Top.cur, Top)
      <3>1. /\ x \in 1 .. nodes
            /\ \A k \in 1 .. Len(stack) : x > stack[k].root.id
            /\ file # None => x > file.id
        BY <1>1, <2>2, CurIsOwned
      <3>2. dir.id = 0
        BY <1>6, <2>2
      <3>. QED  BY <1>1, <3>1, <3>2
    <2>. QED  BY <1>4, <2>1, <2>2
  <1>15. dir.id \notin freed' /\ (file # None => dir.id = 0 \/ dir.id > file.id)
    <2>1. dir.id \notin freed
      BY <1>1, <1>2, <1>3, <1>6 DEF CurLive, WType
    <2>2. file # None => dir.id = 0 \/ dir.id > file.id
      BY <1>1, <1>2, <1>3, <1>6 DEF FileLive
    <2>. QED  BY <1>14, <2>1, <2>2
  <1>16. \A k \in 1 .. Len(stack) :
           /\ stack[k].root.id \notin freed'
           /\ file # None => stack[k].root.id = 0 \/ stack[k].root.id > file.id
    <2>. TAKE k \in 1 .. Len(stack)
    <2>1. stack[k].root.id \notin freed
      BY <1>2 DEF StartsLive
    <2>2. stack[k].root.id \notin freed'
      BY <1>3, <1>14, <2>1
    <2>. QED  BY <1>2, <2>2 DEF FileLive
  <1>17. \A k \in 1 .. Len(stack') :
           /\ stack'[k].root.id \notin freed'
           /\ file # None => stack'[k].root.id = 0 \/ stack'[k].root.id > file.id
    BY <1>3, <1>8, <1>9, <1>13, <1>15, <1>16
  <1>18. WType'
    <2>1. freed' \subseteq 1 .. nodes'
      <3>1. freed \subseteq 1 .. nodes'
        BY <1>1, <1>2 DEF WType
      <3>. QED  BY <1>14, <3>1
    <2>. QED  BY <1>1, <1>2, <1>4, <1>10, <2>1 DEF WType
  <1>19. Allocated'
    <2>1. \A k \in 1 .. Len(stack) :
            stack[k].root.id <= nodes' /\ stack[k].cur.id <= nodes' /\ stack[k].old.id <= nodes'
      BY <1>1, <1>2, <1>3 DEF Allocated
    <2>2. dir.id <= nodes' /\ NewNode.id <= nodes'
      BY <1>1, <1>6
    <2>3. \A k \in 1 .. Len(stack') :
            stack'[k].root.id <= nodes' /\ stack'[k].cur.id <= nodes' /\ stack'[k].old.id <= nodes'
      BY <1>3, <1>8, <1>9, <1>13, <2>1, <2>2
    <2>4. ret.node.id <= nodes'
      <3>1. ret.node.id \in Nat /\ ret.node.id <= nodes
        BY <1>2 DEF Allocated, WType, RetType, Nodes
      <3>. QED  BY <1>1, <3>1
    <2>5. file # None => file.id <= nodes'
      BY <1>1
    <2>. QED  BY <1>4, <2>3, <2>4, <2>5 DEF Allocated
  <1>20. CurLive' /\ RetLive'
    BY <1>1, <1>4, <1>7, <1>8, <1>10, <1>15 DEF CurLive, RetLive
  <1>21. FileLive'
    <2>1. file # None => file.id \notin freed'
      BY <1>1, <1>2, <1>14 DEF FileLive
    <2>. QED  BY <1>1, <1>4, <1>8, <1>10, <1>15, <1>17, <2>1 DEF FileLive
  <1>22. Nesting'
    <2>1. symlinknest \in Nat /\ symlinknest < LinkLimit /\ LinkLimit \in Nat
      BY <1>1, <1>2, TreeAssumption DEF Nesting
    <2>. QED  BY <1>2, <1>3, <1>4, <1>10, <2>1 DEF Nesting
  <1>. QED  BY <1>12, <1>17, <1>18, <1>19, <1>20, <1>21, <1>22 DEF WInv, StartsLive, Ascending
(* The call for a link has found its target, and the caller goes on there. *)
LEMMA WLinkResolved ==
    ASSUME WInv, LinkResolved
    PROVE  WInv'
  <1>. DEFINE type == IF ret.type = None THEN Caller.type ELSE ret.type
              next == [Caller EXCEPT !.names = Tail(Caller.names), !.cur = ret.node, !.type = type]
              rest == Tail(stack)
  <1>1. /\ wpc = "return" /\ Len(stack) > 1 /\ ret.ok /\ stack # <<>>
    BY DEF LinkResolved
  <1>2. /\ WType /\ Allocated /\ Ascending(stack) /\ StartsLive /\ RetLive /\ FileLive /\ Nesting
        /\ nodes \in Nat
    BY DEF WInv, WType
  <1>3. /\ stack \in Seq(Frame) /\ Len(stack) \in Nat /\ 2 \in 1 .. Len(stack)
        /\ Caller \in Frame /\ Caller.old \in Nodes /\ Caller.root \in Nodes
        /\ Caller.names \in Seq(STRING) /\ Caller.type \in Types
        /\ \A k \in 1 .. Len(stack) :
             /\ stack[k].root.id \in Nat /\ stack[k].cur.id \in Nat /\ stack[k].old.id \in Nat
    BY <1>1, StackFacts DEF Caller
  <1>4. ret.node \in Nodes /\ ret.node.id \in Nat /\ type \in Types
    BY <1>2, <1>3 DEF WType, RetType, Nodes
  <1>5. /\ freed' = freed \cup Free1(Caller.old, Caller)
        /\ stack' = <<next>> \o Tail(Tail(stack))
        /\ \/ /\ Tail(Caller.names) = <<>> /\ wpc' = "return"
              /\ ret' = [ok |-> TRUE, node |-> ret.node, type |-> type]
           \/ Tail(Caller.names) # <<>> /\ wpc' = "walk" /\ ret' = ret
        /\ symlinknest' = symlinknest /\ file' = file /\ nodes' = nodes
    BY DEF LinkResolved, Advance
  <1>. HIDE DEF type
  <1>6. Caller.names # <<>>
    BY <1>1, <1>2, <1>3 DEF Ascending, Caller
  <1>7. Tail(Caller.names) \in Seq(STRING)
    BY <1>3, <1>6, TailType
  <1>8. /\ next \in Frame /\ next.root = Caller.root /\ next.cur = ret.node /\ next.old = Caller.old
        /\ next.names = Tail(Caller.names)
    BY <1>3, <1>4, <1>7 DEF Frame
  <1>. HIDE DEF next
  <1>9. /\ rest \in Seq(Frame) /\ Len(rest) = Len(stack) - 1 /\ rest # <<>>
        /\ \A k \in 1 .. Len(stack) - 1 : rest[k] = stack[k + 1]
    BY <1>1, <1>3, TopDropped
  <1>. HIDE DEF rest
  <1>10. stack' = <<next>> \o Tail(rest)
    BY <1>5 DEF rest
  <1>11. /\ stack' \in Seq(Frame) /\ Len(stack') = Len(rest) /\ stack'[1] = next
         /\ \A k \in 2 .. Len(rest) : stack'[k] = rest[k]
    BY <1>8, <1>9, <1>10, TopReplaced
  <1>12. /\ Len(stack') = Len(stack) - 1
         /\ \A k \in 2 .. Len(stack') : stack'[k] = stack[k + 1]
    BY <1>3, <1>9, <1>11
  <1>13. /\ Ascending(stack')
         /\ \A k \in 1 .. Len(stack') : stack'[k].root = stack[k + 1].root /\ k + 1 \in 1 .. Len(stack)
    BY <1>1, <1>2, <1>3, <1>8, <1>11, <1>12, AscendingPop DEF Caller
  <1>14. \A x \in freed' \ freed :
           /\ x \in 1 .. nodes /\ x # ret.node.id
           /\ \A k \in 2 .. Len(stack) : x > stack[k].root.id
           /\ file # None => x > file.id
    BY <1>1, <1>5, OldIsOwned
  <1>15. \A k \in 1 .. Len(stack') :
           /\ stack'[k].root.id \notin freed'
           /\ file # None => stack'[k].root.id = 0 \/ stack'[k].root.id > file.id
    <2>. TAKE k \in 1 .. Len(stack')
    <2>1. /\ stack'[k].root = stack[k + 1].root /\ k + 1 \in 1 .. Len(stack)
          /\ k + 1 \in 2 .. Len(stack) /\ stack[k + 1].root.id \in Nat
      BY <1>3, <1>12, <1>13
    <2>2. stack[k + 1].root.id \notin freed
      BY <1>2, <2>1 DEF StartsLive
    <2>3. stack[k + 1].root.id \notin freed'
      BY <1>14, <2>1, <2>2
    <2>. QED  BY <1>2, <2>1, <2>3 DEF FileLive
  <1>16. \A k \in 1 .. Len(stack') :
           /\ stack'[k].root.id <= nodes' /\ stack'[k].old.id <= nodes'
           /\ stack'[k].cur.id <= nodes'
    <2>. TAKE k \in 1 .. Len(stack')
    <2>1. /\ k + 1 \in 1 .. Len(stack)
          /\ stack[k + 1].root.id <= nodes /\ stack[k + 1].old.id <= nodes
          /\ stack[k + 1].cur.id <= nodes /\ ret.node.id <= nodes
      BY <1>2, <1>13 DEF Allocated
    <2>2. CASE k = 1
      <3>1. /\ stack'[k].root = stack[2].root /\ stack'[k].old = stack[2].old
            /\ stack'[k].cur = ret.node
        BY <1>8, <1>11, <2>2 DEF Caller
      <3>. QED  BY <1>5, <2>1, <2>2, <3>1
    <2>3. CASE k # 1
      <3>1. k \in 2 .. Len(stack')
        BY <1>3, <1>12, <2>3
      <3>2. stack'[k] = stack[k + 1]
        BY <1>12, <3>1
      <3>. QED  BY <1>5, <2>1, <3>2
    <2>. QED  BY <2>2, <2>3
  <1>17. Younger(ret.node.id, stack')
    BY <1>1, <1>2, <1>13 DEF RetLive, Younger
  <1>18. /\ ret.node.id \notin freed' /\ ret.node.id <= nodes'
         /\ file # None => file.id \notin freed' /\ (ret.node.id = 0 \/ ret.node.id > file.id)
    <2>1. ret.node.id \notin freed'
      BY <1>1, <1>2, <1>14 DEF RetLive
    <2>2. ret.node.id <= nodes'
      BY <1>2, <1>5 DEF Allocated
    <2>3. file # None => file.id \in Nat
      BY <1>2 DEF WType, Nodes
    <2>4. file # None => file.id \notin freed' /\ (ret.node.id = 0 \/ ret.node.id > file.id)
      BY <1>1, <1>2, <1>14, <2>3 DEF FileLive
    <2>. QED  BY <2>1, <2>2, <2>4
  <1>19. freed' \subseteq 1 .. nodes' /\ nodes' \in Nat /\ nodes' >= nodes
    BY <1>2, <1>5, <1>14 DEF WType
  <1>20. symlinknest < LinkLimit
    BY <1>1, <1>2 DEF Nesting
  <1>21. /\ Len(stack') > 0 /\ Len(stack') <= Len(stack) /\ stack'[1].cur = ret.node
         /\ stack'[1].names = Tail(Caller.names)
    BY <1>1, <1>3, <1>8, <1>11, <1>12
  <1>22. \/ /\ stack'[1].names = <<>> /\ wpc' = "return"
            /\ ret' = [ok |-> TRUE, node |-> ret.node, type |-> type]
         \/ stack'[1].names # <<>> /\ wpc' = "walk" /\ ret' = ret
    BY <1>5, <1>21
  <1>23. \A k \in 1 .. Len(stack') :
           /\ stack'[k].root.id \notin freed'
           /\ stack'[k].root.id <= nodes' /\ stack'[k].old.id <= nodes'
           /\ stack'[k].cur.id <= nodes'
           /\ file # None => stack'[k].root.id = 0 \/ stack'[k].root.id > file.id
    BY <1>15, <1>16
  <1>24. Ascending(stack') /\ stack' \in Seq(Frame) /\ stack # <<>>
    BY <1>1, <1>11, <1>13
  <1>25. symlinknest' = symlinknest /\ file' = file
    BY <1>5
  <1>. QED  BY <1>4, <1>17, <1>18, <1>19, <1>20, <1>21, <1>22, <1>23, <1>24, <1>25, NodeReached

(* ... or it has not, and the caller gives up too. *)
LEMMA WLinkUnresolved ==
    ASSUME WInv, LinkUnresolved
    PROVE  WInv'
  <1>1. /\ wpc = "return" /\ Len(stack) > 1 /\ ~ret.ok /\ stack # <<>>
        /\ freed' = freed \cup Free1(Caller.old, Caller) /\ stack' = Tail(stack)
        /\ UNCHANGED <<wpc, ret, symlinknest, nodes, file>>
    BY DEF LinkUnresolved
  <1>2. /\ WType /\ Allocated /\ Ascending(stack) /\ StartsLive /\ FileLive /\ Nesting
    BY DEF WInv
  <1>3. /\ stack \in Seq(Frame) /\ Len(stack) \in Nat
        /\ \A k \in 1 .. Len(stack) : stack[k].root.id \in Nat
    BY <1>1, StackFacts
  <1>4. /\ stack' \in Seq(Frame) /\ Len(stack') = Len(stack) - 1 /\ stack' # <<>>
        /\ \A k \in 1 .. Len(stack') : stack'[k] = stack[k + 1] /\ k + 1 \in 2 .. Len(stack)
    <2>1. /\ Tail(stack) \in Seq(Frame) /\ Len(Tail(stack)) = Len(stack) - 1 /\ Tail(stack) # <<>>
          /\ \A k \in 1 .. Len(stack) - 1 : Tail(stack)[k] = stack[k + 1]
      BY <1>1, <1>3, TopDropped
    <2>2. \A k \in 1 .. Len(stack) - 1 : k + 1 \in 2 .. Len(stack)
      BY <1>3
    <2>. QED  BY <1>1, <2>1, <2>2
  <1>5. Ascending(stack')
    <2>1. 1 \in 1 .. Len(stack') /\ 1 + 1 = 2
      BY <1>1, <1>3, <1>4
    <2>2. stack'[1].root = stack[2].root
      BY <1>4, <2>1
    <2>3. \A k \in 2 .. Len(stack') : stack'[k] = stack[k + 1]
      BY <1>4
    <2>. QED  BY <1>1, <1>2, <1>3, <1>4, <2>2, <2>3, AscendingPop
  <1>6. \A x \in freed' \ freed :
          /\ x \in 1 .. nodes
          /\ \A k \in 2 .. Len(stack) : x > stack[k].root.id
          /\ file # None => x > file.id
    BY <1>1, OldIsOwned
  <1>7. WType'
    BY <1>1, <1>2, <1>4, <1>6 DEF WType
  <1>8. Allocated'
    BY <1>1, <1>2, <1>4 DEF Allocated
  <1>9. StartsLive'
    <2>. SUFFICES ASSUME NEW k \in 1 .. Len(stack') PROVE stack'[k].root.id \notin freed'
      BY DEF StartsLive
    <2>1. stack'[k] = stack[k + 1] /\ k + 1 \in 2 .. Len(stack) /\ k + 1 \in 1 .. Len(stack)
      BY <1>4
    <2>2. stack[k + 1].root.id \notin freed /\ stack[k + 1].root.id \in Nat
      BY <1>2, <1>3, <2>1 DEF StartsLive
    <2>. QED  BY <1>6, <2>1, <2>2
  <1>10. CurLive' /\ RetLive'
    BY <1>1 DEF CurLive, RetLive
  <1>11. FileLive'
    <2>1. file # None => file.id \in Nat
      BY <1>2 DEF WType, Nodes
    <2>2. file # None => file.id \notin freed'
      BY <1>2, <1>6, <2>1 DEF FileLive
    <2>3. \A k \in 1 .. Len(stack') : stack'[k] = stack[k + 1] /\ k + 1 \in 1 .. Len(stack)
      BY <1>4
    <2>. QED  BY <1>1, <1>2, <2>2, <2>3 DEF FileLive
  <1>12. Nesting'
    <2>1. symlinknest \in Nat /\ LinkLimit \in Nat
      BY <1>2, TreeAssumption DEF Nesting
    <2>. QED  BY <1>1, <1>2, <1>3, <1>4, <2>1 DEF Nesting
  <1>. QED  BY <1>5, <1>7, <1>8, <1>9, <1>10, <1>11, <1>12 DEF WInv, Ascending
(* ext2fs_open and ext2fs_ls, once the outermost call has returned. *)
LEMMA WReturned ==
    ASSUME WInv, Opened \/ OpenFails \/ Listed \/ ListFails
    PROVE  WInv'
  <1>1. /\ wpc = "return" /\ stack' = <<>> /\ wpc' \in {"found", "failed"}
        /\ ret' = ret /\ nodes' = nodes /\ symlinknest' = symlinknest
    BY DEF Opened, OpenFails, Listed, ListFails, Returned
  <1>2. /\ WType /\ Allocated /\ RetLive /\ FileLive /\ Nesting
        /\ ret.node \in Nodes /\ ret.node.id \in Nat
    BY DEF WInv, WType, RetType, Nodes
  <1>3. \/ file' = file /\ freed' = freed
        \/ ret.ok /\ file' = ret.node /\ freed' = freed
        \/ ret.ok /\ file' = file /\ ret.node.id # 0 /\ freed' = freed \cup {ret.node.id}
    <2>1. CASE Opened
      BY <2>1 DEF Opened, Expected
    <2>2. CASE ListFails
      BY <2>2 DEF ListFails
    <2>3. CASE OpenFails
      BY <2>3 DEF OpenFails, Free1
    <2>4. CASE Listed
      BY <2>4 DEF Listed, Free1, Expected
    <2>. QED  BY <2>1, <2>2, <2>3, <2>4
  <1>4. stack' \in Seq(Frame) /\ Len(stack') = 0
    BY <1>1
  <1>5. ret.node.id <= nodes
    BY <1>2 DEF Allocated
  <1>6. freed' \subseteq 1 .. nodes'
    <2>1. freed \subseteq 1 .. nodes /\ nodes \in Nat
      BY <1>2 DEF WType
    <2>2. ret.node.id # 0 => ret.node.id \in 1 .. nodes
      BY <1>2, <1>5, <2>1
    <2>. QED  BY <1>1, <1>3, <2>1, <2>2
  <1>7. WType'
    BY <1>1, <1>2, <1>3, <1>4, <1>6 DEF WType
  <1>8. Allocated'
    BY <1>1, <1>2, <1>3, <1>4, <1>5 DEF Allocated
  <1>9. Ascending(stack)' /\ StartsLive' /\ CurLive' /\ RetLive'
    BY <1>1, <1>4 DEF Ascending, StartsLive, CurLive, RetLive
  <1>10. FileLive'
    <2>1. file' # None => file'.id \notin freed'
      <3>1. CASE file' = file /\ freed' = freed
        BY <1>2, <3>1 DEF FileLive
      <3>2. CASE ret.ok /\ file' = ret.node /\ freed' = freed
        BY <1>1, <1>2, <3>2 DEF RetLive
      <3>3. CASE ret.ok /\ file' = file /\ ret.node.id # 0 /\ freed' = freed \cup {ret.node.id}
        <4>1. file # None => file.id \in Nat /\ file.id \notin freed /\ ret.node.id > file.id
          BY <1>1, <1>2, <3>3 DEF FileLive, WType, Nodes
        <4>. QED  BY <1>2, <3>3, <4>1
      <3>. QED  BY <1>3, <3>1, <3>2, <3>3
    <2>. QED  BY <1>1, <1>4, <2>1 DEF FileLive
  <1>11. Nesting'
    <2>1. symlinknest \in Nat /\ LinkLimit \in Nat
      BY <1>2, TreeAssumption DEF Nesting
    <2>. QED  BY <1>1, <1>2, <1>4, <2>1 DEF Nesting
  <1>. QED  BY <1>7, <1>8, <1>9, <1>10, <1>11 DEF WInv

LEMMA WStep == WInv /\ [Next]_vars => WInv'
  <1>. SUFFICES ASSUME WInv, [Next]_vars PROVE WInv'
    OBVIOUS
  <1>1. CASE \E p \in Paths, t \in {"dir", "reg"} : Find(p, t)
    BY <1>1, WFind
  <1>2. CASE Step
    BY <1>2, WEmptyPath, WFails, WDescend, WFollowLink, WLinkResolved, WLinkUnresolved, WReturned
       DEF Step
  <1>3. CASE UNCHANGED vars
    BY <1>3 DEF vars, WInv, WType, Allocated, Ascending, StartsLive, CurLive, RetLive, FileLive,
         Nesting, Younger
  <1>. QED  BY <1>1, <1>2, <1>3 DEF Next, Ended

LEMMA WInvariance == Spec => []WInv
  BY WInit, WStep, PTL DEF Spec

-----------------------------------------------------------------------------
(* The variables that have no part in the argument. *)

Others ==
    /\ finds \in 0 .. MaxFinds
    /\ want \in [path : Paths, expect : {"dir", "reg"}] \cup {None}
    /\ faulty \in BOOLEAN /\ toRoot \in BOOLEAN

LEMMA OthersStep == Others /\ [Next]_vars => Others'
  <1>. SUFFICES ASSUME Others, [Next]_vars PROVE Others'
    OBVIOUS
  <1>1. ASSUME NEW p \in Paths, NEW t \in {"dir", "reg"}, Find(p, t)
        PROVE  Others'
    <2>1. finds' \in 0 .. MaxFinds
      BY <1>1, TreeAssumption DEF Find, CanFind, Others
    <2>. QED  BY <1>1, <2>1 DEF Find, Others
  <1>2. CASE Step
    <2>1. finds' = finds /\ want' = want
      BY <1>2 DEF Step, EmptyPath, NotADirectory, NoSuchEntry, IterateFails, Descend, FollowLink,
           LinkFails, LinkResolved, LinkUnresolved, Opened, OpenFails, Listed, ListFails
    <2>2. faulty' \in BOOLEAN
      BY <1>2 DEF Others, Step, EmptyPath, NotADirectory, NoSuchEntry, IterateFails, Descend,
           FollowLink, LinkFails, LinkResolved, LinkUnresolved, Opened, OpenFails, Listed, ListFails
    <2>3. toRoot' \in BOOLEAN
      BY <1>2 DEF Others, Step, EmptyPath, NotADirectory, NoSuchEntry, IterateFails, Descend,
           FollowLink, LinkFails, LinkResolved, LinkUnresolved, Opened, OpenFails, Listed, ListFails
    <2>. QED  BY <2>1, <2>2, <2>3 DEF Others
  <1>3. CASE UNCHANGED vars
    BY <1>3 DEF vars, Others
  <1>. QED  BY <1>1, <1>2, <1>3 DEF Next, Ended

-----------------------------------------------------------------------------
(* The locals of every call of ext2fs_find_file1 and ext2fs_file hold      *)
(* nodes that were allocated, and the link count stays within its limit.   *)
THEOREM WalkTypeCorrect == Spec => []TypeOK
  <1>1. Init => Others
    <2>1. 0 \in 0 .. MaxFinds
      BY TreeAssumption
    <2>. QED  BY <2>1 DEF Init, Others
  <1>2. WInv /\ Others => TypeOK
    <2>. SUFFICES ASSUME WInv, Others PROVE TypeOK
      OBVIOUS
    <2>1. WType /\ Allocated /\ Nesting /\ nodes \in Nat
      BY DEF WInv, WType
    <2>2. \A n \in Nodes : n.id <= nodes => n \in Node
      BY <2>1 DEF Nodes, Node
    <2>3. \A k \in DOMAIN stack : /\ {stack[k].root, stack[k].cur, stack[k].old} \subseteq Node
                                  /\ stack[k].type \in Types
      <3>. TAKE k \in DOMAIN stack
      <3>1. k \in 1 .. Len(stack) /\ stack # <<>>
        BY <2>1 DEF WType
      <3>2. /\ stack[k].root \in Nodes /\ stack[k].cur \in Nodes /\ stack[k].old \in Nodes
            /\ stack[k].type \in Types
        BY <3>1, StackFacts
      <3>. QED  BY <2>1, <2>2, <3>1, <3>2 DEF Allocated
    <2>4. ret \in [ok : BOOLEAN, node : Node, type : Types \cup {None}]
      <3>1. ret \in RetType /\ ret.node \in Nodes /\ ret.node.id <= nodes
        BY <2>1 DEF WType, Allocated, RetType
      <3>2. ret.node \in Node
        BY <2>2, <3>1
      <3>. QED  BY <3>1, <3>2 DEF RetType
    <2>5. file \in Node \cup {None}
      BY <2>1, <2>2 DEF WType, Allocated
    <2>. QED  BY <2>1, <2>3, <2>4, <2>5 DEF TypeOK, Others, WType, Nesting
  <1>. QED  BY <1>1, <1>2, WInvariance, OthersStep, PTL DEF Spec

(* ext2fs_find_file1, ext2fs_open and ext2fs_ls use no node that was freed *)
(* already, through any chain of relative and absolute links, failures     *)
(* and repeated look-ups, with a file open or not.                         *)
THEOREM NoUseAfterFree == Spec => []NoDangling
  <1>1. WInv => NoDangling
    <2>. SUFFICES ASSUME WInv PROVE NoDangling
      OBVIOUS
    <2>1. /\ WType /\ Ascending(stack) /\ StartsLive /\ CurLive /\ RetLive /\ FileLive
      BY DEF WInv
    <2>2. stack \in Seq(Frame) /\ DOMAIN stack = 1 .. Len(stack) /\ Len(stack) \in Nat
      BY <2>1 DEF WType
    <2>3. \A k \in DOMAIN stack : stack[k].root.id \notin freed
      BY <2>1, <2>2 DEF StartsLive
    <2>4. \A k \in DOMAIN stack \ {1} : stack[k].old.id \notin freed
      <3>. TAKE k \in DOMAIN stack \ {1}
      <3>1. k \in 2 .. Len(stack) /\ k - 1 \in 1 .. Len(stack)
        BY <2>2
      <3>2. stack[k].old.id = stack[k - 1].root.id
        BY <2>1, <3>1 DEF Ascending
      <3>. QED  BY <2>1, <3>1, <3>2 DEF StartsLive
    <2>5. wpc = "walk" => Top.cur.id \notin freed
      <3>. SUFFICES ASSUME wpc = "walk" PROVE Top.cur.id \notin freed
        OBVIOUS
      <3>1. stack # <<>>
        BY <2>1 DEF WType
      <3>2. Top = stack[1]
        BY <3>1, StackFacts
      <3>. QED  BY <2>1, <3>2 DEF CurLive
    <2>. QED  BY <2>1, <2>3, <2>4, <2>5 DEF NoDangling, RetLive, FileLive
  <1>. QED  BY <1>1, WInvariance, PTL

(* symlinknest bounds the recursion of ext2fs_find_file1, whatever links   *)
(* point to each other.                                                    *)
THEOREM RecursionIsBounded == Spec => []StackBounded
  <1>1. WInv => StackBounded
    BY DEF WInv, Nesting, StackBounded
  <1>. QED  BY <1>1, WInvariance, PTL

-----------------------------------------------------------------------------
(* Induction. *)

(* Every set of numbers has a least one. *)
LEMMA LeastNumber ==
    ASSUME NEW T \in SUBSET Nat, T # {}
    PROVE  \E l \in T : \A m \in T : l <= m
  <1>. DEFINE R == OpToRel(<, Nat)
  <1>1. IsWellFoundedOn(R, Nat)
    BY NatLessThanWellFounded
  <1>2. \A a, b \in Nat : <<a, b>> \in R <=> a < b
    BY DEF OpToRel
  <1>. HIDE DEF R
  <1>3. PICK l \in T : \A m \in T : ~(<<m, l>> \in R)
    BY <1>1, WFMin
  <1>4. ASSUME NEW m \in T
        PROVE  l <= m
    <2>1. l \in Nat /\ m \in Nat /\ ~(<<m, l>> \in R)
      BY <1>3
    <2>. QED  BY <1>2, <2>1
  <1>. QED  BY <1>4

(* A set that holds 0 and with every number the next one holds them all. *)
LEMMA AllNumbers ==
    ASSUME NEW T \in SUBSET Nat, 0 \in T, \A n \in T : n + 1 \in T
    PROVE  T = Nat
  <1>. SUFFICES ASSUME Nat \ T # {}
                PROVE  FALSE
    OBVIOUS
  <1>1. PICK l \in Nat \ T : \A m \in Nat \ T : l <= m
    BY LeastNumber
  <1>2. l - 1 \in Nat /\ l - 1 \notin Nat \ T
    BY <1>1
  <1>. QED  BY <1>1, <1>2

-----------------------------------------------------------------------------
(* What a path means, step by step. *)

Start(path) == [dir |-> Root, names |-> path, links |-> LinkLimit - 1]

(* f is the path after each of n steps. *)
Rewrites(path, n, f) ==
    f = [k \in 0 .. n |-> IF k = 0 THEN Start(path) ELSE Rewritten(f[k - 1])]

LEMMA RewritesExist ==
    ASSUME NEW path
    PROVE  \A n \in Nat : \E f : Rewrites(path, n, f)
  <1>. DEFINE T == { n \in Nat : \E f : Rewrites(path, n, f) }
  <1>1. 0 \in T
    <2>1. Rewrites(path, 0, [k \in 0 .. 0 |-> Start(path)])
      BY DEF Rewrites
    <2>. QED  BY <2>1
  <1>2. ASSUME NEW n \in T
        PROVE  n + 1 \in T
    <2>1. PICK f : Rewrites(path, n, f)
      OBVIOUS
    <2>. DEFINE g == [k \in 0 .. n + 1 |-> IF k = n + 1 THEN Rewritten(f[n]) ELSE f[k]]
    <2>2. /\ n \in Nat
          /\ \A k \in 0 .. n : f[k] = IF k = 0 THEN Start(path) ELSE Rewritten(f[k - 1])
      BY <2>1 DEF Rewrites
    <2>3. \A k \in 0 .. n + 1 : g[k] = IF k = 0 THEN Start(path) ELSE Rewritten(g[k - 1])
      BY <2>2
    <2>4. g = [k \in 0 .. n + 1 |-> g[k]]
      OBVIOUS
    <2>. HIDE DEF g
    <2>5. Rewrites(path, n + 1, g)
      BY <2>3, <2>4 DEF Rewrites
    <2>. QED  BY <2>2, <2>5
  <1>3. T = Nat
    <2>. HIDE DEF T
    <2>1. T \in SUBSET Nat
      BY DEF T
    <2>. QED  BY <1>1, <1>2, <2>1, AllNumbers
  <1>. QED  BY <1>3

LEMMA RewritesAgree ==
    ASSUME NEW path, NEW n \in Nat, NEW f, NEW g, Rewrites(path, n, f), Rewrites(path, n + 1, g)
    PROVE  f[n] = g[n]
  <1>. DEFINE T == { k \in Nat : k <= n => f[k] = g[k] }
  <1>1. /\ \A k \in 0 .. n : f[k] = IF k = 0 THEN Start(path) ELSE Rewritten(f[k - 1])
        /\ \A k \in 0 .. n + 1 : g[k] = IF k = 0 THEN Start(path) ELSE Rewritten(g[k - 1])
    BY DEF Rewrites
  <1>2. 0 \in T
    BY <1>1
  <1>3. ASSUME NEW k \in T
        PROVE  k + 1 \in T
    <2>. SUFFICES ASSUME k + 1 <= n
                  PROVE  f[k + 1] = g[k + 1]
      OBVIOUS
    <2>1. /\ f[k] = g[k] /\ k + 1 \in 0 .. n /\ k + 1 \in 0 .. n + 1 /\ k + 1 # 0
          /\ (k + 1) - 1 = k
      OBVIOUS
    <2>2. f[k + 1] = Rewritten(f[k]) /\ g[k + 1] = Rewritten(g[k])
      BY <1>1, <2>1
    <2>. QED  BY <2>1, <2>2
  <1>4. T = Nat
    <2>. HIDE DEF T
    <2>1. T \in SUBSET Nat
      BY DEF T
    <2>. QED  BY <1>2, <1>3, <2>1, AllNumbers
  <1>. QED  BY <1>4

LEMMA MeaningRewrites ==
    ASSUME NEW path, NEW n \in Nat
    PROVE  \E f : Rewrites(path, n, f) /\ Meaning(path, n) = f[n]
  <1>. DEFINE F == CHOOSE f : Rewrites(path, n, f)
  <1>1. Rewrites(path, n, F)
    BY RewritesExist
  <1>2. Meaning(path, n) = F[n]
    BY DEF Meaning, Rewrites, Start
  <1>. QED  BY <1>1, <1>2

LEMMA MeaningStart ==
    ASSUME NEW path
    PROVE  Meaning(path, 0) = Start(path)
  <1>1. PICK f : Rewrites(path, 0, f) /\ Meaning(path, 0) = f[0]
    BY MeaningRewrites
  <1>. QED  BY <1>1 DEF Rewrites

LEMMA MeaningNext ==
    ASSUME NEW path, NEW n \in Nat
    PROVE  Meaning(path, n + 1) = Rewritten(Meaning(path, n))
  <1>1. PICK f : Rewrites(path, n, f) /\ Meaning(path, n) = f[n]
    BY MeaningRewrites
  <1>2. PICK g : Rewrites(path, n + 1, g) /\ Meaning(path, n + 1) = g[n + 1]
    BY MeaningRewrites
  <1>3. f[n] = g[n]
    BY <1>1, <1>2, RewritesAgree
  <1>4. g[n + 1] = Rewritten(g[n])
    BY <1>2 DEF Rewrites
  <1>. QED  BY <1>1, <1>2, <1>3, <1>4

(* When nothing can be rewritten any more, that is the meaning. *)
LEMMA MeaningStays ==
    ASSUME NEW path, NEW n \in Nat, NEW m \in Nat, n <= m, Settled(Meaning(path, n))
    PROVE  Meaning(path, m) = Meaning(path, n)
  <1>. DEFINE T == { k \in Nat : Meaning(path, n + k) = Meaning(path, n) }
  <1>1. 0 \in T
    <2>1. n + 0 = n
      OBVIOUS
    <2>. QED  BY <2>1
  <1>2. ASSUME NEW k \in T
        PROVE  k + 1 \in T
    <2>1. n + k \in Nat /\ n + (k + 1) = (n + k) + 1
      OBVIOUS
    <2>2. Meaning(path, n + (k + 1)) = Rewritten(Meaning(path, n + k))
      BY <2>1, MeaningNext
    <2>3. Rewritten(Meaning(path, n)) = Meaning(path, n)
      BY DEF Rewritten
    <2>. QED  BY <2>2, <2>3
  <1>3. T = Nat
    <2>. HIDE DEF T
    <2>1. T \in SUBSET Nat
      BY DEF T
    <2>. QED  BY <1>1, <1>2, <2>1, AllNumbers
  <1>4. m - n \in Nat /\ n + (m - n) = m
    OBVIOUS
  <1>5. m - n \in T
    BY <1>3, <1>4
  <1>6. Meaning(path, n + (m - n)) = Meaning(path, n)
    BY <1>5
  <1>. QED  BY <1>4, <1>6

-----------------------------------------------------------------------------
(* The walk follows the meaning.  The names that are left are those of the *)
(* innermost call, then, for each call around it, those after the link it  *)
(* has met: R[k] is what is left when call k is done.                      *)

Rests(s, R) ==
    /\ R \in Seq(Seq(STRING)) /\ Len(R) = Len(s) /\ R[Len(s)] = <<>>
    /\ \A k \in 2 .. Len(s) : R[k - 1] = Tail(s[k].names) \o R[k]

(* In n steps at most the path can be rewritten to names in dir, with nest *)
(* of the links used up.                                                   *)
Reached(path, n, nest, dir, names) ==
    \E k \in 0 .. n :
        Meaning(path, k) = [dir |-> dir, names |-> names, links |-> (LinkLimit - 1) - nest]

(* It leads nowhere. *)
Nowhere(path, n) ==
    \E k \in 0 .. n : Settled(Meaning(path, k)) /\ Meaning(path, k).names # <<>>

KindOf(type) == IF type = None THEN "dir" ELSE type

WalkOnCourse ==
    wpc = "walk" =>
        /\ stack[1].type = Tree[stack[1].cur.ino].kind
        /\ stack[1].names = <<>> =>
              Len(stack) = 1 /\ stack[1].cur = stack[1].root /\ stack[1].type = "dir"
        /\ \E R : /\ Rests(stack, R)
                  /\ Reached(want.path, nodes, symlinknest,
                             stack[1].cur.ino, stack[1].names \o R[1])

(* Only a call for an empty path does not say what it has found. *)
RetOnCourse ==
    wpc = "return" /\ ret.ok =>
        /\ Tree[ret.node.ino].kind = KindOf(ret.type)
        /\ ret.type = None => Len(stack) = 1
        /\ \E R : /\ Rests(stack, R)
                  /\ Reached(want.path, nodes, symlinknest, ret.node.ino, R[1])

GivesUpRightly == wpc = "return" /\ ~ret.ok => Nowhere(want.path, nodes)

OnCourse == WalkOnCourse /\ RetOnCourse /\ GivesUpRightly /\ RightFile

(* Not misled by a fault or by the link to "/". *)
Sure == ~faulty /\ ~toRoot

PInv == Sure => OnCourse

LEMMA Joined ==
    ASSUME NEW a \in Seq(STRING), NEW b \in Seq(STRING), a # <<>>
    PROVE  /\ a \o b # <<>> /\ Head(a \o b) = Head(a) /\ Tail(a \o b) = Tail(a) \o b
           /\ Tail(a) \in Seq(STRING)
  OBVIOUS

LEMMA ElementType ==
    ASSUME NEW S, NEW s \in Seq(S), NEW k \in 1 .. Len(s)
    PROVE  s[k] \in S
  OBVIOUS

LEMMA RestsTop ==
    ASSUME NEW s \in Seq(Frame), NEW t \in Seq(Frame), NEW R, Rests(s, R), Len(s) > 0,
           Len(t) = Len(s), \A k \in 2 .. Len(s) : t[k] = s[k]
    PROVE  Rests(t, R) /\ R[1] \in Seq(STRING)
  <1>1. R \in Seq(Seq(STRING)) /\ Len(R) = Len(s) /\ R[Len(s)] = <<>>
    BY DEF Rests
  <1>2. 1 \in 1 .. Len(R)
    BY <1>1
  <1>3. R[1] \in Seq(STRING)
    BY <1>1, <1>2, ElementType
  <1>4. \A k \in 2 .. Len(t) : R[k - 1] = Tail(t[k].names) \o R[k]
    BY DEF Rests
  <1>. QED  BY <1>1, <1>3, <1>4 DEF Rests

LEMMA RestsPush ==
    ASSUME NEW s \in Seq(Frame), NEW t \in Seq(Frame), NEW R, Rests(s, R), Len(s) > 0,
           Len(t) = Len(s) + 1, t[2].names = s[1].names, s[1].names # <<>>,
           \A k \in 3 .. Len(t) : t[k] = s[k - 1]
    PROVE  \E Q : Rests(t, Q) /\ Q[1] = Tail(s[1].names) \o R[1]
  <1>. DEFINE q == Tail(s[1].names) \o R[1]
              Q == <<q>> \o R
  <1>1. R \in Seq(Seq(STRING)) /\ Len(R) = Len(s) /\ R[1] \in Seq(STRING)
    <2>1. R \in Seq(Seq(STRING)) /\ Len(R) = Len(s)
      BY DEF Rests
    <2>2. 1 \in 1 .. Len(R)
      BY <2>1
    <2>. QED  BY <2>1, <2>2, ElementType
  <1>2. q \in Seq(STRING)
    <2>1. s[1] \in Frame
      OBVIOUS
    <2>2. s[1].names \in Seq(STRING)
      BY <2>1 DEF Frame
    <2>3. Tail(s[1].names) \in Seq(STRING)
      BY <2>2, TailType
    <2>. QED  BY <1>1, <2>3
  <1>. HIDE DEF q
  <1>3. /\ Q \in Seq(Seq(STRING)) /\ Len(Q) = Len(t) /\ Q[1] = q
        /\ \A k \in 2 .. Len(t) : Q[k] = R[k - 1]
    BY <1>1, <1>2
  <1>. HIDE DEF Q
  <1>4. Q[Len(t)] = <<>>
    <2>1. Len(t) \in 2 .. Len(t) /\ Len(t) - 1 = Len(s)
      OBVIOUS
    <2>. QED  BY <1>3, <2>1 DEF Rests
  <1>5. ASSUME NEW k \in 2 .. Len(t)
        PROVE  Q[k - 1] = Tail(t[k].names) \o Q[k]
    <2>1. CASE k = 2
      <3>1. k - 1 = 1 /\ t[k].names = s[1].names
        BY <2>1
      <3>2. Q[k] = R[1]
        BY <1>3, <3>1
      <3>. QED  BY <1>3, <3>1, <3>2 DEF q
    <2>2. CASE k # 2
      <3>1. k - 1 \in 2 .. Len(t) /\ k \in 3 .. Len(t) /\ k - 1 \in 2 .. Len(s)
        BY <2>2
      <3>2. R[(k - 1) - 1] = Tail(s[k - 1].names) \o R[k - 1]
        BY <3>1 DEF Rests
      <3>. QED  BY <1>3, <3>1, <3>2
    <2>. QED  BY <2>1, <2>2
  <1>. QED  BY <1>3, <1>4, <1>5 DEF Rests, q

LEMMA RestsPop ==
    ASSUME NEW s \in Seq(Frame), NEW t \in Seq(Frame), NEW R, Rests(s, R), Len(s) > 1,
           Len(t) = Len(s) - 1, \A k \in 2 .. Len(t) : t[k] = s[k + 1]
    PROVE  Rests(t, Tail(R)) /\ R[1] = Tail(s[2].names) \o Tail(R)[1]
  <1>. DEFINE Q == Tail(R)
  <1>1. R \in Seq(Seq(STRING)) /\ Len(R) = Len(s)
    BY DEF Rests
  <1>2. /\ Q \in Seq(Seq(STRING)) /\ Len(Q) = Len(t) /\ \A k \in 1 .. Len(t) : Q[k] = R[k + 1]
    BY <1>1
  <1>. HIDE DEF Q
  <1>3. Q[Len(t)] = <<>>
    <2>1. Len(t) \in 1 .. Len(t) /\ Len(t) + 1 = Len(s)
      OBVIOUS
    <2>. QED  BY <1>2, <2>1 DEF Rests
  <1>4. ASSUME NEW k \in 2 .. Len(t)
        PROVE  Q[k - 1] = Tail(t[k].names) \o Q[k]
    <2>1. /\ k + 1 \in 2 .. Len(s) /\ (k + 1) - 1 = k /\ k \in 1 .. Len(t)
          /\ k - 1 \in 1 .. Len(t) /\ (k - 1) + 1 = k
      OBVIOUS
    <2>2. R[k] = Tail(s[k + 1].names) \o R[k + 1]
      BY <2>1 DEF Rests
    <2>. QED  BY <1>2, <2>1, <2>2
  <1>5. R[1] = Tail(s[2].names) \o Q[1]
    <2>1. 2 \in 2 .. Len(s) /\ 2 - 1 = 1 /\ 1 \in 1 .. Len(t) /\ 1 + 1 = 2
      OBVIOUS
    <2>2. R[1] = Tail(s[2].names) \o R[2]
      BY <2>1 DEF Rests
    <2>3. Q[1] = R[2]
      BY <1>2, <2>1
    <2>. QED  BY <2>2, <2>3
  <1>6. Rests(t, Q)
    BY <1>2, <1>3, <1>4 DEF Rests
  <1>. QED  BY <1>5, <1>6 DEF Q

(* One step of the meaning. *)

Left(dir, names, nest) == [dir |-> dir, names |-> names, links |-> (LinkLimit - 1) - nest]

LEMMA ReachedNext ==
    ASSUME NEW path, NEW n \in Nat, NEW nest, NEW dir, NEW names,
           Reached(path, n, nest, dir, names), NEW nest2, NEW dir2, NEW names2,
           Rewritten(Left(dir, names, nest)) = Left(dir2, names2, nest2)
    PROVE  Reached(path, n + 1, nest2, dir2, names2)
  <1>1. PICK k \in 0 .. n : Meaning(path, k) = Left(dir, names, nest)
    BY DEF Reached, Left
  <1>2. k \in Nat /\ k + 1 \in 0 .. n + 1
    OBVIOUS
  <1>3. Meaning(path, k + 1) = Left(dir2, names2, nest2)
    BY <1>1, <1>2, MeaningNext
  <1>. QED  BY <1>2, <1>3 DEF Reached, Left

LEMMA ReachedNowhere ==
    ASSUME NEW path, NEW n \in Nat, NEW m \in Nat, n <= m, NEW nest, NEW dir, NEW names,
           Reached(path, n, nest, dir, names), names # <<>>, Settled(Left(dir, names, nest))
    PROVE  Nowhere(path, m)
  <1>1. PICK k \in 0 .. n : Meaning(path, k) = Left(dir, names, nest)
    BY DEF Reached, Left
  <1>2. k \in 0 .. m
    OBVIOUS
  <1>3. Left(dir, names, nest).names = names
    BY DEF Left
  <1>. QED  BY <1>1, <1>2, <1>3 DEF Nowhere

LEMMA RewriteName ==
    ASSUME NEW dir, NEW names, NEW nest, names # <<>>, Tree[dir].kind = "dir",
           Head(names) \in DOMAIN Tree[dir].entries,
           Tree[Tree[dir].entries[Head(names)]].kind # "sym"
    PROVE  Rewritten(Left(dir, names, nest)) =
               Left(Tree[dir].entries[Head(names)], Tail(names), nest)
  <1>. DEFINE m == Left(dir, names, nest)
  <1>1. m.dir = dir /\ m.names = names /\ m.links = (LinkLimit - 1) - nest
    BY DEF Left
  <1>. HIDE DEF m
  <1>2. EntryOf(m) = Tree[dir].entries[Head(names)]
    BY <1>1 DEF EntryOf
  <1>3. ~Settled(m)
    BY <1>1, <1>2 DEF Settled
  <1>4. Rewritten(m) = Left(Tree[dir].entries[Head(names)], Tail(names), nest)
    BY <1>1, <1>2, <1>3 DEF Rewritten, Left
  <1>. QED  BY <1>4 DEF m

LEMMA RewriteLink ==
    ASSUME NEW dir, NEW names, NEW nest \in Nat, NEW link, names # <<>>, Tree[dir].kind = "dir",
           Head(names) \in DOMAIN Tree[dir].entries,
           Tree[Tree[dir].entries[Head(names)]].kind = "sym",
           link = Tree[Tree[dir].entries[Head(names)]].link,
           nest + 1 # LinkLimit
    PROVE  Rewritten(Left(dir, names, nest)) =
               Left(IF link.abs THEN Root ELSE dir, link.names \o Tail(names), nest + 1)
  <1>. DEFINE m == Left(dir, names, nest)
  <1>1. m.dir = dir /\ m.names = names /\ m.links = (LinkLimit - 1) - nest
    BY DEF Left
  <1>. HIDE DEF m
  <1>2. EntryOf(m) = Tree[dir].entries[Head(names)]
    BY <1>1 DEF EntryOf
  <1>3. m.links # 0 /\ m.links - 1 = (LinkLimit - 1) - (nest + 1)
    BY <1>1, TreeAssumption
  <1>4. ~Settled(m)
    BY <1>1, <1>2, <1>3 DEF Settled
  <1>5. Rewritten(m) = Left(IF link.abs THEN Root ELSE dir, link.names \o Tail(names), nest + 1)
    BY <1>1, <1>2, <1>3, <1>4 DEF Rewritten, Left
  <1>. QED  BY <1>5 DEF m

-----------------------------------------------------------------------------
(* The ways a step can end, again. *)

LEMMA TopFacts ==
    ASSUME WInv, stack # <<>>
    PROVE  /\ stack \in Seq(Frame) /\ Len(stack) \in Nat /\ Len(stack) > 0 /\ Top = stack[1]
           /\ stack[1] \in Frame /\ stack[1].names \in Seq(STRING)
           /\ stack[1].cur \in Nodes /\ stack[1].root \in Nodes
  <1>1. Len(stack) \in Nat /\ Len(stack) > 0
    BY StackFacts
  <1>2. 1 \in 1 .. Len(stack)
    BY <1>1
  <1>. QED  BY <1>1, <1>2, StackFacts

(* The innermost call gives up. *)
LEMMA PFails ==
    ASSUME WInv, OnCourse, wpc = "walk", wpc' = "return", ret' = NoRet, want' = want,
           nodes' \in Nat, nodes' >= nodes, stack[1].names # <<>>,
           \/ stack[1].type # "dir"
           \/ Head(stack[1].names) \notin DOMAIN Tree[stack[1].cur.ino].entries
           \/ /\ symlinknest + 1 = LinkLimit
              /\ Tree[Tree[stack[1].cur.ino].entries[Head(stack[1].names)]].kind = "sym"
    PROVE  OnCourse'
  <1>1. stack # <<>> /\ nodes \in Nat /\ symlinknest \in Nat
    BY DEF WInv, WType, Nesting
  <1>2. /\ stack \in Seq(Frame) /\ Len(stack) \in Nat /\ Len(stack) > 0
        /\ stack[1].names \in Seq(STRING)
    BY <1>1, TopFacts
  <1>3. PICK R : /\ Rests(stack, R)
                 /\ Reached(want.path, nodes, symlinknest,
                            stack[1].cur.ino, stack[1].names \o R[1])
    BY DEF OnCourse, WalkOnCourse
  <1>4. R[1] \in Seq(STRING)
    BY <1>2, <1>3, RestsTop
  <1>. DEFINE dir == stack[1].cur.ino
              names == stack[1].names \o R[1]
              m == Left(dir, names, symlinknest)
  <1>5. names # <<>> /\ Head(names) = Head(stack[1].names)
    BY <1>2, <1>4, Joined
  <1>6. stack[1].type = Tree[dir].kind
    BY DEF OnCourse, WalkOnCourse
  <1>. HIDE DEF dir, names
  <1>7. m.dir = dir /\ m.names = names /\ m.links = (LinkLimit - 1) - symlinknest
    BY DEF Left
  <1>. HIDE DEF m
  <1>8. Settled(m)
    <2>1. CASE stack[1].type # "dir"
      BY <1>6, <1>7, <2>1 DEF Settled
    <2>2. CASE Head(stack[1].names) \notin DOMAIN Tree[stack[1].cur.ino].entries
      BY <1>5, <1>7, <2>2 DEF Settled, dir
    <2>3. CASE /\ symlinknest + 1 = LinkLimit
               /\ Tree[Tree[stack[1].cur.ino].entries[Head(stack[1].names)]].kind = "sym"
      <3>1. m.links = 0
        BY <1>1, <1>7, <2>3, TreeAssumption
      <3>2. Tree[EntryOf(m)].kind = "sym"
        BY <1>5, <1>7, <2>3 DEF EntryOf, dir
      <3>. QED  BY <3>1, <3>2 DEF Settled
    <2>. QED  BY <2>1, <2>2, <2>3
  <1>9. Nowhere(want.path, nodes')
    BY <1>1, <1>3, <1>5, <1>8, ReachedNowhere DEF m, dir, names
  <1>. QED  BY <1>9, NoRetType DEF OnCourse, WalkOnCourse, RetOnCourse, GivesUpRightly, RightFile

(* A name or a link is done, and the innermost call goes on or returns. *)
LEMMA PAdvances ==
    ASSUME stack' \in Seq(Frame), Len(stack') > 0,
           stack'[1].type = Tree[stack'[1].cur.ino].kind, stack'[1].type # None,
           NEW R, Rests(stack', R),
           Reached(want'.path, nodes', symlinknest', stack'[1].cur.ino, stack'[1].names \o R[1]),
           \/ /\ stack'[1].names = <<>> /\ wpc' = "return"
              /\ ret'.ok /\ ret'.node = stack'[1].cur /\ ret'.type = stack'[1].type
           \/ stack'[1].names # <<>> /\ wpc' = "walk"
    PROVE  OnCourse'
  <1>1. CASE stack'[1].names # <<>> /\ wpc' = "walk"
    BY <1>1 DEF OnCourse, WalkOnCourse, RetOnCourse, GivesUpRightly, RightFile
  <1>2. CASE /\ stack'[1].names = <<>> /\ wpc' = "return"
             /\ ret'.ok /\ ret'.node = stack'[1].cur /\ ret'.type = stack'[1].type
    <2>1. R[1] \in Seq(STRING)
      BY RestsTop
    <2>2. stack'[1].names \o R[1] = R[1]
      BY <1>2, <2>1
    <2>3. Tree[ret'.node.ino].kind = KindOf(ret'.type) /\ ret'.type # None
      BY <1>2 DEF KindOf
    <2>4. Reached(want'.path, nodes', symlinknest', ret'.node.ino, R[1])
      BY <1>2, <2>2
    <2>. QED  BY <1>2, <2>3, <2>4
              DEF OnCourse, WalkOnCourse, RetOnCourse, GivesUpRightly, RightFile
  <1>. QED  BY <1>1, <1>2

-----------------------------------------------------------------------------
(* One lemma for each kind of step. *)

LEMMA PInit == Init => PInv
  BY DEF Init, PInv, OnCourse, WalkOnCourse, RetOnCourse, GivesUpRightly, RightFile

LEMMA PFind ==
    ASSUME WInv, NEW p \in Paths, NEW t, Find(p, t)
    PROVE  OnCourse'
  <1>1. /\ want'.path = p /\ symlinknest' = 0 /\ stack' = <<Call(p, RootNode)>>
        /\ wpc' = "walk" /\ nodes' = nodes
    BY DEF Find
  <1>. DEFINE c == Call(p, RootNode)
  <1>2. /\ c.names = p /\ c.type = "dir" /\ c.cur = RootNode /\ c.root = RootNode
        /\ RootNode.ino = Root
    BY DEF Call, RootNode
  <1>. HIDE DEF c
  <1>3. stack'[1] = c /\ Len(stack') = 1
    BY <1>1 DEF c
  <1>. DEFINE R == << <<>> >>
  <1>4. Rests(stack', R) /\ R[1] = <<>>
    BY <1>3 DEF Rests
  <1>. HIDE DEF R
  <1>5. p \o R[1] = p
    BY <1>4, TreeAssumption
  <1>6. Reached(p, nodes, 0, Root, p)
    <2>1. Meaning(p, 0) = [dir |-> Root, names |-> p, links |-> (LinkLimit - 1) - 0]
      BY MeaningStart, TreeAssumption DEF Start
    <2>2. 0 \in 0 .. nodes
      BY DEF WInv, WType
    <2>. QED  BY <2>1, <2>2 DEF Reached
  <1>7. WalkOnCourse'
    BY <1>1, <1>2, <1>3, <1>4, <1>5, <1>6, TreeAssumption DEF WalkOnCourse
  <1>. QED  BY <1>1, <1>7 DEF OnCourse, RetOnCourse, GivesUpRightly, RightFile

LEMMA PEmptyPath ==
    ASSUME WInv, OnCourse, EmptyPath
    PROVE  OnCourse'
  <1>1. wpc = "walk" /\ stack # <<>>
    BY DEF EmptyPath, WInv, WType
  <1>2. /\ stack \in Seq(Frame) /\ Len(stack) \in Nat /\ Len(stack) > 0 /\ Top = stack[1]
    BY <1>1, TopFacts
  <1>3. /\ wpc' = "return" /\ ret' = [ok |-> TRUE, node |-> Top.root, type |-> None]
        /\ stack' = stack /\ want' = want /\ nodes' = nodes /\ symlinknest' = symlinknest
        /\ Top.names = <<>>
    BY DEF EmptyPath, Succeeds
  <1>4. ret'.ok /\ ret'.node = Top.root /\ ret'.type = None
    BY <1>3
  <1>5. /\ Len(stack) = 1 /\ stack[1].cur = stack[1].root /\ stack[1].type = "dir"
        /\ stack[1].type = Tree[stack[1].cur.ino].kind
    BY <1>1, <1>2, <1>3 DEF OnCourse, WalkOnCourse
  <1>6. PICK R : /\ Rests(stack, R)
                 /\ Reached(want.path, nodes, symlinknest,
                            stack[1].cur.ino, stack[1].names \o R[1])
    BY <1>1 DEF OnCourse, WalkOnCourse
  <1>7. stack[1].names \o R[1] = R[1]
    <2>1. R[1] \in Seq(STRING)
      BY <1>2, <1>6, RestsTop
    <2>. QED  BY <1>2, <1>3, <2>1
  <1>8. Tree[stack[1].root.ino].kind = "dir"
    BY <1>5
  <1>9. RetOnCourse'
    BY <1>2, <1>3, <1>4, <1>5, <1>6, <1>7, <1>8 DEF RetOnCourse, KindOf
  <1>. QED  BY <1>3, <1>4, <1>9 DEF OnCourse, WalkOnCourse, GivesUpRightly, RightFile

LEMMA PFailSteps ==
    ASSUME WInv, OnCourse, Sure', NotADirectory \/ NoSuchEntry \/ IterateFails \/ LinkFails
    PROVE  OnCourse'
  <1>1. wpc = "walk" /\ stack # <<>> /\ nodes \in Nat
    BY DEF NotADirectory, NoSuchEntry, IterateFails, LinkFails, HasEntry, Looking, WInv, WType
  <1>2. Top = stack[1]
    BY <1>1, TopFacts
  <1>3. ~IterateFails
    BY DEF IterateFails, Sure
  <1>4. CASE NotADirectory
    BY <1>1, <1>2, <1>4, PFails DEF NotADirectory, Fails
  <1>5. CASE NoSuchEntry
    BY <1>1, <1>2, <1>5, PFails DEF NoSuchEntry, Looking, Fails, Entries
  <1>6. CASE LinkFails
    <2>1. symlinknest + 1 = LinkLimit
      BY <1>6 DEF LinkFails, Sure
    <2>2. Tree[NewNode.ino].kind = "sym" /\ Top.names # <<>> /\ nodes' = nodes + 1
      BY <1>6 DEF LinkFails, HasEntry, Looking
    <2>3. NewNode.ino = Entries[Head(Top.names)]
      BY DEF NewNode
    <2>4. wpc' = "return" /\ ret' = NoRet /\ want' = want
      BY <1>6 DEF LinkFails, Fails
    <2>5. nodes' \in Nat /\ nodes' >= nodes
      BY <1>1, <2>2
    <2>6. Tree[Tree[stack[1].cur.ino].entries[Head(stack[1].names)]].kind = "sym"
      BY <1>2, <2>2, <2>3 DEF Entries
    <2>. QED  BY <1>1, <1>2, <2>1, <2>2, <2>4, <2>5, <2>6, PFails
  <1>. QED  BY <1>3, <1>4, <1>5, <1>6

LEMMA PDescend ==
    ASSUME WInv, WInv', OnCourse, Descend
    PROVE  OnCourse'
  <1>. DEFINE kind == Tree[NewNode.ino].kind
              f == [Top EXCEPT !.old = Top.cur]
              next == [f EXCEPT !.names = Tail(f.names), !.cur = NewNode, !.type = kind]
  <1>1. /\ wpc = "walk" /\ stack # <<>> /\ Top.names # <<>>
        /\ nodes \in Nat /\ nodes' = nodes + 1
        /\ NewNode \in Nodes /\ kind \in Types /\ kind \in {"dir", "reg", "other"}
    BY NewNodeFacts DEF Descend
  <1>2. /\ stack \in Seq(Frame) /\ Len(stack) \in Nat /\ Len(stack) > 0 /\ Top = stack[1]
        /\ Top \in Frame /\ Top.names \in Seq(STRING)
    BY <1>1, TopFacts
  <1>3. /\ Head(Top.names) \in DOMAIN Entries /\ Top.type = "dir"
        /\ NewNode.ino = Entries[Head(Top.names)]
    BY DEF Descend, HasEntry, Looking, NewNode
  <1>4. /\ stack' = <<next>> \o Tail(stack)
        /\ \/ /\ Tail(f.names) = <<>> /\ wpc' = "return"
              /\ ret' = [ok |-> TRUE, node |-> NewNode, type |-> kind]
           \/ Tail(f.names) # <<>> /\ wpc' = "walk" /\ ret' = ret
        /\ symlinknest' = symlinknest /\ want' = want
    BY DEF Descend, Advance
  <1>5. f \in Frame /\ f.names = Top.names
    <2>1. Top.cur \in Nodes
      BY <1>1, <1>2, TopFacts
    <2>. QED  BY <1>2, <2>1 DEF Frame
  <1>. HIDE DEF f, kind
  <1>6. Tail(f.names) \in Seq(STRING)
    BY <1>1, <1>2, <1>5, TailType
  <1>7. /\ next \in Frame /\ next.cur = NewNode /\ next.names = Tail(Top.names) /\ next.type = kind
    BY <1>1, <1>5, <1>6 DEF Frame
  <1>. HIDE DEF next
  <1>8. /\ stack' \in Seq(Frame) /\ Len(stack') = Len(stack) /\ stack'[1] = next
        /\ \A k \in 2 .. Len(stack) : stack'[k] = stack[k]
    BY <1>1, <1>2, <1>4, <1>7, TopReplaced
  <1>9. PICK R : /\ Rests(stack, R)
                 /\ Reached(want.path, nodes, symlinknest,
                            stack[1].cur.ino, stack[1].names \o R[1])
    BY <1>1 DEF OnCourse, WalkOnCourse
  <1>10. Rests(stack', R) /\ R[1] \in Seq(STRING)
    BY <1>2, <1>8, <1>9, RestsTop
  <1>11. Reached(want.path, nodes + 1, symlinknest, NewNode.ino, Tail(Top.names) \o R[1])
    <2>. DEFINE dir == stack[1].cur.ino
                names == stack[1].names \o R[1]
    <2>1. /\ names # <<>> /\ Head(names) = Head(Top.names)
          /\ Tail(names) = Tail(Top.names) \o R[1]
      BY <1>1, <1>2, <1>10, Joined
    <2>2. Tree[dir].kind = "dir" /\ Entries = Tree[dir].entries
      BY <1>1, <1>2, <1>3 DEF OnCourse, WalkOnCourse, Entries
    <2>3. Reached(want.path, nodes, symlinknest, dir, names)
      BY <1>9
    <2>. HIDE DEF dir, names
    <2>4. Tree[dir].entries[Head(names)] = NewNode.ino
      BY <1>3, <2>1, <2>2
    <2>5. Tree[NewNode.ino].kind # "sym"
      BY <1>1 DEF kind
    <2>6. Rewritten(Left(dir, names, symlinknest)) = Left(NewNode.ino, Tail(names), symlinknest)
      BY <1>3, <2>1, <2>2, <2>4, <2>5, RewriteName
    <2>7. Reached(want.path, nodes + 1, symlinknest, NewNode.ino, Tail(names))
      BY <1>1, <2>3, <2>6, ReachedNext
    <2>. QED  BY <2>1, <2>7
  <1>12. /\ stack'[1].type = Tree[stack'[1].cur.ino].kind /\ stack'[1].type # None
         /\ stack'[1].cur.ino = NewNode.ino /\ stack'[1].names = Tail(Top.names)
    BY <1>1, <1>7, <1>8, TreeAssumption DEF kind
  <1>13. \/ /\ stack'[1].names = <<>> /\ wpc' = "return"
            /\ ret'.ok /\ ret'.node = stack'[1].cur /\ ret'.type = stack'[1].type
         \/ stack'[1].names # <<>> /\ wpc' = "walk"
    <2>1. CASE Tail(f.names) = <<>>
      <3>1. wpc' = "return" /\ ret' = [ok |-> TRUE, node |-> NewNode, type |-> kind]
        BY <1>4, <2>1
      <3>2. ret'.ok /\ ret'.node = NewNode /\ ret'.type = kind
        BY <3>1
      <3>. QED  BY <1>5, <1>7, <1>8, <2>1, <3>1, <3>2
    <2>2. CASE Tail(f.names) # <<>>
      BY <1>4, <1>5, <1>7, <1>8, <2>2
    <2>. QED  BY <2>1, <2>2
  <1>. QED  BY <1>1, <1>2, <1>4, <1>8, <1>10, <1>11, <1>12, <1>13, PAdvances

LEMMA PFollowLink ==
    ASSUME WInv, OnCourse, Sure', FollowLink
    PROVE  OnCourse'
  <1>. DEFINE link == Tree[NewNode.ino].link
              dir == IF link.abs THEN RootNode ELSE Top.cur
              inner == Call(link.names, dir)
              outer == [Top EXCEPT !.old = dir, !.cur = NewNode, !.type = "sym"]
  <1>1. /\ wpc = "walk" /\ stack # <<>> /\ Top.names # <<>>
        /\ nodes \in Nat /\ nodes' = nodes + 1
        /\ NewNode \in Nodes /\ Tree[NewNode.ino].kind = "sym"
    BY NewNodeFacts DEF FollowLink
  <1>2. /\ stack \in Seq(Frame) /\ Len(stack) \in Nat /\ Len(stack) > 0 /\ Top = stack[1]
        /\ Top \in Frame /\ Top.names \in Seq(STRING) /\ Top.cur \in Nodes
    BY <1>1, TopFacts
  <1>3. /\ Head(Top.names) \in DOMAIN Entries /\ Top.type = "dir"
        /\ NewNode.ino = Entries[Head(Top.names)]
    BY DEF FollowLink, HasEntry, Looking, NewNode
  <1>4. /\ stack' = <<inner, outer>> \o Tail(stack)
        /\ symlinknest + 1 # LinkLimit /\ symlinknest' = symlinknest + 1
        /\ wpc' = wpc /\ want' = want /\ link.names # <<>>
    BY DEF FollowLink, Sure
  <1>5. symlinknest \in Nat
    BY DEF WInv, Nesting
  <1>6. link.names \in Seq(STRING)
    BY <1>1, TreeAssumption DEF Nodes
  <1>7. Tree[stack[1].cur.ino].kind = "dir" /\ Entries = Tree[stack[1].cur.ino].entries
    BY <1>1, <1>2, <1>3 DEF OnCourse, WalkOnCourse, Entries
  <1>. HIDE DEF link
  <1>8. /\ dir \in Nodes /\ Tree[dir.ino].kind = "dir"
        /\ dir.ino = IF link.abs THEN Root ELSE stack[1].cur.ino
    <2>1. RootNode \in Nodes /\ RootNode.ino = Root /\ Tree[Root].kind = "dir"
      BY NoRetType, TreeAssumption DEF RootNode
    <2>. QED  BY <1>2, <1>7, <2>1
  <1>. HIDE DEF dir
  <1>9. /\ inner \in Frame /\ inner.cur = dir /\ inner.names = link.names /\ inner.type = "dir"
    BY <1>6, <1>8 DEF Call, Frame, Types
  <1>10. outer \in Frame /\ outer.names = Top.names
    BY <1>1, <1>2, <1>8 DEF Frame, Types
  <1>. HIDE DEF inner, outer
  <1>11. /\ stack' \in Seq(Frame) /\ Len(stack') = Len(stack) + 1
         /\ stack'[1] = inner /\ stack'[2] = outer
         /\ \A k \in 3 .. Len(stack') : stack'[k] = stack[k - 1]
    <2>. DEFINE t == <<inner, outer>> \o Tail(stack)
    <2>1. /\ t \in Seq(Frame) /\ Len(t) = Len(stack) + 1 /\ t[1] = inner /\ t[2] = outer
          /\ \A k \in 3 .. Len(t) : t[k] = stack[k - 1]
      BY <1>1, <1>2, <1>9, <1>10, TwoForTop
    <2>. HIDE DEF t
    <2>2. stack' = t
      BY <1>4 DEF t
    <2>. QED  BY <2>1, <2>2
  <1>12. PICK R : /\ Rests(stack, R)
                  /\ Reached(want.path, nodes, symlinknest,
                             stack[1].cur.ino, stack[1].names \o R[1])
    BY <1>1 DEF OnCourse, WalkOnCourse
  <1>13. R[1] \in Seq(STRING)
    BY <1>2, <1>12, RestsTop
  <1>14. PICK Q : Rests(stack', Q) /\ Q[1] = Tail(Top.names) \o R[1]
    BY <1>1, <1>2, <1>10, <1>11, <1>12, RestsPush
  <1>15. Reached(want.path, nodes + 1, symlinknest + 1, dir.ino, link.names \o Q[1])
    <2>. DEFINE d == stack[1].cur.ino
                names == stack[1].names \o R[1]
    <2>1. /\ names # <<>> /\ Head(names) = Head(Top.names) /\ Tail(names) = Q[1]
      BY <1>1, <1>2, <1>13, <1>14, Joined
    <2>2. Reached(want.path, nodes, symlinknest, d, names)
      BY <1>12
    <2>3. /\ Tree[d].kind = "dir" /\ Head(names) \in DOMAIN Tree[d].entries
          /\ Tree[d].entries[Head(names)] = NewNode.ino
      BY <1>3, <1>7, <2>1
    <2>4. dir.ino = IF link.abs THEN Root ELSE d
      BY <1>8
    <2>. HIDE DEF d, names
    <2>5. link = Tree[Tree[d].entries[Head(names)]].link
      BY <2>3 DEF link
    <2>6. Rewritten(Left(d, names, symlinknest)) =
            Left(dir.ino, link.names \o Q[1], symlinknest + 1)
      <3>1. Tree[Tree[d].entries[Head(names)]].kind = "sym"
        BY <1>1, <2>3
      <3>2. Rewritten(Left(d, names, symlinknest)) =
              Left(IF link.abs THEN Root ELSE d, link.names \o Tail(names), symlinknest + 1)
        BY <1>4, <1>5, <2>1, <2>3, <2>5, <3>1, RewriteLink
      <3>. QED  BY <2>1, <2>4, <3>2
    <2>. QED  BY <1>1, <2>2, <2>6, ReachedNext
  <1>16. WalkOnCourse'
    BY <1>1, <1>4, <1>8, <1>9, <1>11, <1>14, <1>15 DEF WalkOnCourse
  <1>. QED  BY <1>1, <1>4, <1>16 DEF OnCourse, RetOnCourse, GivesUpRightly, RightFile

LEMMA PLinkResolved ==
    ASSUME WInv, OnCourse, LinkResolved
    PROVE  OnCourse'
  <1>. DEFINE type == IF ret.type = None THEN Caller.type ELSE ret.type
              next == [Caller EXCEPT !.names = Tail(Caller.names), !.cur = ret.node, !.type = type]
              rest == Tail(stack)
  <1>1. wpc = "return" /\ Len(stack) > 1 /\ ret.ok /\ stack # <<>>
    BY DEF LinkResolved
  <1>2. WType /\ Ascending(stack)
    BY DEF WInv
  <1>3. /\ stack \in Seq(Frame) /\ Len(stack) \in Nat /\ 2 \in 1 .. Len(stack)
        /\ Caller \in Frame /\ Caller.names \in Seq(STRING)
    BY <1>1, StackFacts DEF Caller
  <1>4. /\ Tree[ret.node.ino].kind = KindOf(ret.type) /\ ret.type # None
    <2>1. Len(stack) # 1
      <3>. DEFINE n == Len(stack)
      <3>1. n \in Nat
        BY <1>3
      <3>2. n > 1
        BY <1>1
      <3>. HIDE DEF n
      <3>3. n # 1
        BY <3>1, <3>2
      <3>. QED  BY <3>3 DEF n
    <2>. QED  BY <1>1, <2>1 DEF OnCourse, RetOnCourse
  <1>5. type = ret.type /\ Tree[ret.node.ino].kind = ret.type
    BY <1>4 DEF KindOf
  <1>6. ret.node \in Nodes /\ type \in Types
    BY <1>2, <1>4, <1>5 DEF WType, RetType
  <1>7. /\ stack' = <<next>> \o Tail(Tail(stack))
        /\ \/ /\ Tail(Caller.names) = <<>> /\ wpc' = "return"
              /\ ret' = [ok |-> TRUE, node |-> ret.node, type |-> type]
           \/ Tail(Caller.names) # <<>> /\ wpc' = "walk" /\ ret' = ret
        /\ symlinknest' = symlinknest /\ want' = want /\ nodes' = nodes
    BY DEF LinkResolved, Advance
  <1>. HIDE DEF type
  <1>8. Caller.names # <<>>
    BY <1>1, <1>2, <1>3 DEF Ascending, Caller
  <1>9. Tail(Caller.names) \in Seq(STRING)
    BY <1>3, <1>8, TailType
  <1>10. /\ next \in Frame /\ next.cur = ret.node /\ next.names = Tail(Caller.names)
         /\ next.type = type
    BY <1>3, <1>6, <1>9 DEF Frame
  <1>. HIDE DEF next
  <1>11. /\ rest \in Seq(Frame) /\ Len(rest) = Len(stack) - 1 /\ rest # <<>>
         /\ \A k \in 1 .. Len(stack) - 1 : rest[k] = stack[k + 1]
    BY <1>1, <1>3, TopDropped
  <1>. HIDE DEF rest
  <1>12. stack' = <<next>> \o Tail(rest)
    BY <1>7 DEF rest
  <1>13. /\ stack' \in Seq(Frame) /\ Len(stack') = Len(rest) /\ stack'[1] = next
         /\ \A k \in 2 .. Len(rest) : stack'[k] = rest[k]
    BY <1>10, <1>11, <1>12, TopReplaced
  <1>14. /\ Len(stack') = Len(stack) - 1 /\ Len(stack') > 0
         /\ \A k \in 2 .. Len(stack') : stack'[k] = stack[k + 1]
    BY <1>1, <1>3, <1>11, <1>13
  <1>15. PICK R : /\ Rests(stack, R)
                  /\ Reached(want.path, nodes, symlinknest, ret.node.ino, R[1])
    BY <1>1 DEF OnCourse, RetOnCourse
  <1>. DEFINE Q == Tail(R)
  <1>16. Rests(stack', Q) /\ R[1] = Tail(Caller.names) \o Q[1]
    BY <1>1, <1>3, <1>13, <1>14, <1>15, RestsPop DEF Caller
  <1>. HIDE DEF Q
  <1>17. /\ stack'[1].type = Tree[stack'[1].cur.ino].kind /\ stack'[1].type # None
         /\ stack'[1].cur.ino = ret.node.ino /\ stack'[1].names = Tail(Caller.names)
    BY <1>4, <1>5, <1>10, <1>13
  <1>18. Reached(want'.path, nodes', symlinknest', stack'[1].cur.ino, stack'[1].names \o Q[1])
    BY <1>7, <1>15, <1>16, <1>17
  <1>19. \/ /\ stack'[1].names = <<>> /\ wpc' = "return"
            /\ ret'.ok /\ ret'.node = stack'[1].cur /\ ret'.type = stack'[1].type
         \/ stack'[1].names # <<>> /\ wpc' = "walk"
    <2>1. CASE Tail(Caller.names) = <<>>
      <3>1. wpc' = "return" /\ ret' = [ok |-> TRUE, node |-> ret.node, type |-> type]
        BY <1>7, <2>1
      <3>2. ret'.ok /\ ret'.node = ret.node /\ ret'.type = type
        BY <3>1
      <3>. QED  BY <1>10, <1>13, <1>17, <2>1, <3>1, <3>2
    <2>2. CASE Tail(Caller.names) # <<>>
      BY <1>7, <1>17, <2>2
    <2>. QED  BY <2>1, <2>2
  <1>. QED  BY <1>13, <1>14, <1>16, <1>17, <1>18, <1>19, PAdvances

LEMMA PLinkUnresolved ==
    ASSUME OnCourse, LinkUnresolved
    PROVE  OnCourse'
  <1>1. /\ wpc = "return" /\ ~ret.ok /\ wpc' = "return" /\ ret' = ret /\ want' = want
        /\ nodes' = nodes
    BY DEF LinkUnresolved
  <1>2. Nowhere(want.path, nodes)
    BY <1>1 DEF OnCourse, GivesUpRightly
  <1>. QED  BY <1>1, <1>2 DEF OnCourse, WalkOnCourse, RetOnCourse, GivesUpRightly, RightFile

(* The outermost call has returned: nothing is left of the path, or what   *)
(* is left leads nowhere.                                                  *)
LEMMA PReturned ==
    ASSUME WInv, OnCourse, Sure', Opened \/ OpenFails \/ Listed \/ ListFails
    PROVE  OnCourse'
  <1>1. wpc = "return" /\ Len(stack) = 1 /\ nodes \in Nat /\ stack \in Seq(Frame)
    BY DEF Opened, OpenFails, Listed, ListFails, Returned, WInv, WType
  <1>2. want' = want /\ nodes' = nodes /\ ret' = ret
    BY DEF Opened, OpenFails, Listed, ListFails
  <1>3. /\ wpc' \in {"found", "failed"} /\ (wpc' = "found" <=> Expected)
        /\ wpc' # "walk" /\ wpc' # "return"
    BY DEF Opened, OpenFails, Listed, ListFails, Sure
  <1>4. Meant' = Meant /\ MeantFound' = MeantFound
    BY <1>2 DEF Meant, MeantFound
  <1>5. CASE ret.ok
    <2>1. PICK R : /\ Rests(stack, R)
                   /\ Reached(want.path, nodes, symlinknest, ret.node.ino, R[1])
      BY <1>1, <1>5 DEF OnCourse, RetOnCourse
    <2>2. R[1] = <<>>
      BY <1>1, <2>1 DEF Rests
    <2>3. PICK k \in 0 .. nodes :
            Meaning(want.path, k) = Left(ret.node.ino, <<>>, symlinknest)
      BY <2>1, <2>2 DEF Reached, Left
    <2>4. Meaning(want.path, k).names = <<>> /\ Meaning(want.path, k).dir = ret.node.ino
      BY <2>3 DEF Left
    <2>5. Settled(Meaning(want.path, k))
      BY <2>4 DEF Settled
    <2>6. Meant = Meaning(want.path, k)
      <3>1. k \in Nat /\ k <= nodes
        BY <1>1
      <3>. QED  BY <1>1, <2>5, <3>1, MeaningStays DEF Meant
    <2>7. Tree[ret.node.ino].kind = IF ret.type = None THEN "dir" ELSE ret.type
      BY <1>1, <1>5 DEF OnCourse, RetOnCourse, KindOf
    <2>8. MeantFound <=> Expected
      BY <1>5, <2>4, <2>6, <2>7 DEF MeantFound, Expected
    <2>9. RightFile'
      BY <1>2, <1>3, <1>4, <2>4, <2>5, <2>6, <2>8 DEF RightFile
    <2>10. WalkOnCourse' /\ RetOnCourse' /\ GivesUpRightly'
      BY <1>3 DEF WalkOnCourse, RetOnCourse, GivesUpRightly
    <2>. QED  BY <2>9, <2>10 DEF OnCourse
  <1>6. CASE ~ret.ok
    <2>1. Nowhere(want.path, nodes)
      BY <1>1, <1>6 DEF OnCourse, GivesUpRightly
    <2>2. PICK k \in 0 .. nodes : /\ Settled(Meaning(want.path, k))
                                  /\ Meaning(want.path, k).names # <<>>
      BY <2>1 DEF Nowhere
    <2>3. Meant = Meaning(want.path, k)
      <3>1. k \in Nat /\ k <= nodes
        BY <1>1
      <3>. QED  BY <1>1, <2>2, <3>1, MeaningStays DEF Meant
    <2>4. Settled(Meant) /\ ~MeantFound
      BY <2>2, <2>3 DEF MeantFound
    <2>5. ~Expected
      BY <1>6 DEF Expected
    <2>6. RightFile'
      BY <1>3, <1>4, <2>4, <2>5 DEF RightFile
    <2>7. WalkOnCourse' /\ RetOnCourse' /\ GivesUpRightly'
      BY <1>3 DEF WalkOnCourse, RetOnCourse, GivesUpRightly
    <2>. QED  BY <2>6, <2>7 DEF OnCourse
  <1>. QED  BY <1>5, <1>6

LEMMA PStep == WInv /\ WInv' /\ Others /\ PInv /\ [Next]_vars => PInv'
  <1>. SUFFICES ASSUME WInv, WInv', Others, PInv, [Next]_vars, Sure'
                PROVE  OnCourse'
    BY DEF PInv
  <1>1. CASE \E p \in Paths, t \in {"dir", "reg"} : Find(p, t)
    BY <1>1, PFind
  <1>2. CASE Step
    <2>1. faulty => faulty'
      BY <1>2 DEF Others, Step, EmptyPath, NotADirectory, NoSuchEntry, IterateFails, Descend,
           FollowLink, LinkFails, LinkResolved, LinkUnresolved, Opened, OpenFails, Listed, ListFails
    <2>2. toRoot => toRoot'
      BY <1>2 DEF Others, Step, EmptyPath, NotADirectory, NoSuchEntry, IterateFails, Descend,
           FollowLink, LinkFails, LinkResolved, LinkUnresolved, Opened, OpenFails, Listed, ListFails
    <2>3. OnCourse
      BY <2>1, <2>2 DEF PInv, Sure
    <2>. QED  BY <1>2, <2>3, PEmptyPath, PFailSteps, PDescend, PFollowLink, PLinkResolved,
                 PLinkUnresolved, PReturned DEF Step
  <1>3. CASE UNCHANGED vars
    <2>1. OnCourse
      BY <1>3 DEF PInv, Sure, vars
    <2>. QED  BY <1>3, <2>1 DEF vars, OnCourse, WalkOnCourse, RetOnCourse, GivesUpRightly,
                 RightFile, Meant, MeantFound
  <1>. QED  BY <1>1, <1>2, <1>3 DEF Next, Ended

(* For every tree, path and limit ext2fs_find_file finds the file the path *)
(* means, through links that are relative or absolute, nested or too many, *)
(* and fails only if there is none, as long as no read or allocation fails *)
(* and no link to "/" is met.                                              *)
THEOREM WalkFindsTheFile == Spec => []FindsTheFile
  <1>1. PInv => FindsTheFile
    BY DEF PInv, Sure, OnCourse, FindsTheFile
  <1>2. Init => Others
    <2>1. 0 \in 0 .. MaxFinds
      BY TreeAssumption
    <2>. QED  BY <2>1 DEF Init, Others
  <1>. QED  BY <1>1, <1>2, PInit, PStep, OthersStep, WInvariance, PTL DEF Spec
=============================================================================
