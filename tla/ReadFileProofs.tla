--------------------------- MODULE ReadFileProofs ---------------------------
(***************************************************************************)
(* ext2fs_read_inode and ext2fs_read_file read the right bytes, for every  *)
(* block size, layout of the inode tables, file and slice.                 *)
(***************************************************************************)
EXTENDS ReadFile, TLAPS

(* What is read is what was asked for. *)
InodeRight == rpc # "closed" => ino \in DOMAIN Files /\ inode = ino

NothingYet == rpc \in {"closed", "open"} => DOMAIN out = {}

Slice ==
    rpc \notin {"closed", "open"} => len = IF asked > Size THEN Size ELSE asked

(* The loop is at a block of the slice, buf where that block belongs, and  *)
(* what lies before is read.                                               *)
Progress ==
    rpc = "read" => /\ i >= pos \div BlockSize
                    /\ bufp = BlockSize * i + SkipFirst - pos
                    /\ \A k \in 0 .. len - 1 : k < bufp => k \in DOMAIN out

(* All that is in the buffer belongs there, also behind the end. *)
RightBytes == \A k \in DOMAIN out : out[k] = ByteAt(ino, pos + k)

RInv ==
    /\ TypeOK /\ InodeRight /\ NothingYet /\ Slice /\ Progress
    /\ RightBytes /\ ReadsAll /\ OverrunOnlyInTailHole

-----------------------------------------------------------------------------
(* Division *)

LEMMA DivMod ==
    ASSUME NEW a \in Nat, NEW b \in Nat \ {0}
    PROVE  a \div b \in Nat /\ a % b \in Nat /\ a % b < b /\ a = b * (a \div b) + (a % b)
  OBVIOUS

LEMMA TimesMonotonic ==
    ASSUME NEW b \in Nat, NEW q \in Int, NEW r \in Int, q < r
    PROVE  b * q + b <= b * r
  <1>1. b * (q + 1) = b * q + b
    OBVIOUS
  <1>2. \A x, y \in Int : x <= y => b * x <= b * y
    OBVIOUS
  <1>. QED  BY <1>1, <1>2

LEMMA DivUnique ==
    ASSUME NEW a \in Nat, NEW b \in Nat \ {0}, NEW q \in Int, NEW r \in Nat,
           r < b, a = b * q + r
    PROVE  a \div b = q /\ a % b = r
  <1>. DEFINE p == a \div b
              s == a % b
  <1>1. p \in Nat /\ s \in Nat /\ s < b /\ a = b * p + s
    BY DivMod
  <1>. HIDE DEF p, s
  <1>2. ~(p < q)
    BY <1>1, TimesMonotonic
  <1>3. ~(q < p)
    BY <1>1, TimesMonotonic
  <1>4. p = q
    BY <1>1, <1>2, <1>3
  <1>. QED  BY <1>1, <1>4 DEF p, s

-----------------------------------------------------------------------------
(* ext2fs_read_inode finds the inode that was asked for: the group and the *)
(* index it computes are those of the layout, and the index in a block may *)
(* be taken from the number as a whole because blocks do not straddle      *)
(* groups.                                                                 *)
LEMMA InodeIsFound ==
    ASSUME NEW n \in DOMAIN Files
    PROVE  Meta[InodePlace(n)] = n
  <1>. DEFINE n0 == n - 1
              g == n0 \div InodesPerGroup
              k == n0 % InodesPerGroup
              d == g \div DescPerBlock
              x == g % DescPerBlock
              b == k \div InodesPerBlock
              y == k % InodesPerBlock
              m == InodesPerGroup \div InodesPerBlock
  <1>1. /\ n \in Nat \ {0} /\ n0 \in Nat /\ Stored(n)
        /\ InodesPerGroup \in Nat \ {0} /\ InodesPerBlock \in Nat \ {0}
        /\ DescPerBlock \in Nat \ {0} /\ InodesPerGroup % InodesPerBlock = 0
    BY LayoutAssumption
  <1>. HIDE DEF n0
  <1>2. g \in Nat /\ k \in Nat /\ k < InodesPerGroup /\ n0 = InodesPerGroup * g + k
    BY <1>1, DivMod
  <1>. HIDE DEF g, k
  <1>3. d \in Nat /\ x \in Nat /\ x < DescPerBlock /\ g = DescPerBlock * d + x
    BY <1>1, <1>2, DivMod
  <1>4. b \in Nat /\ y \in Nat /\ y < InodesPerBlock /\ k = InodesPerBlock * b + y
    BY <1>1, <1>2, DivMod
  <1>5. m \in Nat /\ InodesPerGroup = InodesPerBlock * m
    <2>1. m \in Nat /\ InodesPerGroup = InodesPerBlock * m + (InodesPerGroup % InodesPerBlock)
      BY <1>1, DivMod
    <2>. HIDE DEF m
    <2>. QED  BY <1>1, <2>1
  <1>. HIDE DEF d, x, b, y, m
  <1>6. n0 % InodesPerBlock = y
    <2>1. n0 = InodesPerBlock * (m * g + b) + y
      BY <1>1, <1>2, <1>4, <1>5
    <2>2. m * g + b \in Int
      BY <1>2, <1>4, <1>5
    <2>. QED  BY <1>1, <1>4, <2>1, <2>2, DivUnique
  <1>7. InodePlace(n) = <<Meta[<<FirstDataBlock + 1 + d, x>>] + b, y>>
    BY <1>6 DEF InodePlace, DescPlace, n0, g, k, d, x, b
  <1>8. g <= n /\ k <= n
    <2>1. InodesPerGroup * g >= g
      BY <1>1, <1>2
    <2>2. n0 <= n
      BY <1>1 DEF n0
    <2>. QED  BY <1>1, <1>2, <2>1, <2>2
  <1>9. d <= g /\ x <= g /\ b <= k /\ y <= k
    <2>1. DescPerBlock * d >= d /\ InodesPerBlock * b >= b
      BY <1>1, <1>3, <1>4
    <2>. QED  BY <1>1, <1>2, <1>3, <1>4, <2>1
  <1>10. /\ n = g * InodesPerGroup + k + 1 /\ g = d * DescPerBlock + x
         /\ k = b * InodesPerBlock + y
    BY <1>1, <1>2, <1>3, <1>4 DEF n0
  <1>11. g \in 0 .. n /\ k \in 0 .. n /\ d \in 0 .. g /\ x \in 0 .. g /\ b \in 0 .. k /\ y \in 0 .. k
    BY <1>1, <1>2, <1>3, <1>4, <1>8, <1>9
  <1>12. \A d1, x1 \in 0 .. g : g = d1 * DescPerBlock + x1 /\ x1 < DescPerBlock =>
           \A b1, y1 \in 0 .. k : k = b1 * InodesPerBlock + y1 /\ y1 < InodesPerBlock =>
             Meta[<<Meta[<<FirstDataBlock + 1 + d1, x1>>] + b1, y1>>] = n
    <2>1. n = g * InodesPerGroup + k + 1 /\ k < InodesPerGroup
      BY <1>2, <1>10
    <2>. QED  BY <1>1, <1>11, <2>1 DEF Stored
  <1>13. \A b1, y1 \in 0 .. k : k = b1 * InodesPerBlock + y1 /\ y1 < InodesPerBlock =>
             Meta[<<Meta[<<FirstDataBlock + 1 + d, x>>] + b1, y1>>] = n
    BY <1>3, <1>10, <1>11, <1>12, Zenon
  <1>14. Meta[<<Meta[<<FirstDataBlock + 1 + d, x>>] + b, y>>] = n
    BY <1>4, <1>10, <1>11, <1>13, Zenon
  <1>. QED  BY <1>7, <1>14, Zenon
-----------------------------------------------------------------------------
(* The geometry of a slice: where block i of the file lies in the buffer. *)

LEMMA BlockCount ==
    ASSUME NEW a \in Nat
    PROVE  LET q == a \div BlockSize
           IN  (a + BlockSize - 1) \div BlockSize = IF a % BlockSize = 0 THEN q ELSE q + 1
  <1>. DEFINE q == a \div BlockSize
              s == a % BlockSize
  <1>1. BlockSize \in Nat \ {0}
    BY LayoutAssumption
  <1>2. q \in Nat /\ s \in Nat /\ s < BlockSize /\ a = BlockSize * q + s
    BY <1>1, DivMod
  <1>. HIDE DEF q, s
  <1>3. CASE s = 0
    <2>1. a + BlockSize - 1 = BlockSize * q + (BlockSize - 1)
      BY <1>1, <1>2, <1>3
    <2>2. a + BlockSize - 1 \in Nat /\ BlockSize - 1 \in Nat /\ BlockSize - 1 < BlockSize
      BY <1>1
    <2>3. (a + BlockSize - 1) \div BlockSize = q
      BY <1>1, <1>2, <2>1, <2>2, DivUnique
    <2>. QED  BY <1>3, <2>3 DEF q, s
  <1>4. CASE s # 0
    <2>1. a + BlockSize - 1 = BlockSize * (q + 1) + (s - 1)
      BY <1>1, <1>2
    <2>2. a + BlockSize - 1 \in Nat /\ s - 1 \in Nat /\ s - 1 < BlockSize /\ q + 1 \in Int
      BY <1>1, <1>2, <1>4
    <2>3. (a + BlockSize - 1) \div BlockSize = q + 1
      BY <1>1, <2>1, <2>2, DivUnique
    <2>. QED  BY <1>4, <2>3 DEF q, s
  <1>. QED  BY <1>3, <1>4

(* One iteration of the loop: what it may write, which bytes of the file   *)
(* that is, and how far that goes.                                         *)
LEMMA Geometry ==
    ASSUME TypeOK, Progress, Looping
    PROVE  /\ SkipFirst \in Nat /\ SkipFirst < BlockSize /\ bufp \in Nat
           /\ BlockEnd \in Nat /\ BlockEnd <= BlockSize - SkipFirst
           /\ \A k \in bufp .. bufp + (BlockSize - SkipFirst) - 1 :
                /\ (pos + k) \div BlockSize = i
                /\ (pos + k) % BlockSize = SkipFirst + (k - bufp)
           /\ bufp + BlockEnd <= len
           /\ bufp + BlockEnd = len \/ BlockEnd = BlockSize - SkipFirst
           /\ bufp + (BlockSize - SkipFirst) > len =>
                /\ (len + pos) % BlockSize # 0 /\ (len + pos) \div BlockSize = i
                /\ bufp + (BlockSize - SkipFirst) <= len + BlockSize
  <1>. DEFINE a == len + pos
              q == a \div BlockSize
              s == a % BlockSize
              f == pos \div BlockSize
              t == pos % BlockSize
              skip == SkipFirst
              e == BlockEnd
              m == BlockSize * i
  <1>1. /\ BlockSize \in Nat \ {0} /\ len \in Nat /\ pos \in Nat /\ i \in Nat /\ a \in Nat
        /\ bufp \in Nat
    BY LayoutAssumption DEF TypeOK
  <1>2. i >= f /\ bufp = m + skip - pos /\ i < BlockCnt
    BY DEF Progress, Looping
  <1>3. BlockCnt = IF s = 0 THEN q ELSE q + 1
    <2>. HIDE DEF a
    <2>1. (a + BlockSize - 1) \div BlockSize = IF s = 0 THEN q ELSE q + 1
      BY <1>1, BlockCount
    <2>. QED  BY <2>1 DEF BlockCnt, a
  <1>4. skip = IF i = f THEN t ELSE 0
    BY DEF SkipFirst
  <1>5. e = (IF i = BlockCnt - 1 /\ s # 0 THEN s ELSE BlockSize) - skip
    BY DEF BlockEnd
  <1>. HIDE DEF a
  <1>6. q \in Nat /\ s \in Nat /\ s < BlockSize /\ a = BlockSize * q + s
    BY <1>1, DivMod
  <1>7. f \in Nat /\ t \in Nat /\ t < BlockSize /\ pos = BlockSize * f + t
    BY <1>1, DivMod
  <1>. HIDE DEF q, s, f, t, skip, e
  <1>8. i = f => m = BlockSize * f
    OBVIOUS
  <1>9. i < q => m + BlockSize <= BlockSize * q
    BY <1>1, <1>6, TimesMonotonic
  <1>10. i = q => m = BlockSize * q
    OBVIOUS
  <1>11. m \in Nat
    BY <1>1
  <1>12. BlockSize * q \in Nat /\ BlockSize * f \in Nat
    BY <1>1, <1>6, <1>7
  <1>13. a = len + pos
    BY DEF a
  <1>14. \A k \in bufp .. bufp + (BlockSize - skip) - 1 :
           (pos + k) \div BlockSize = i /\ (pos + k) % BlockSize = skip + (k - bufp)
    <2>. TAKE k \in bufp .. bufp + (BlockSize - skip) - 1
    <2>1. k \in Nat /\ pos + k \in Nat /\ skip \in Nat
      BY <1>1, <1>4, <1>7
    <2>2. skip + (k - bufp) \in Nat /\ skip + (k - bufp) < BlockSize
      BY <1>1, <2>1
    <2>3. pos + k = BlockSize * i + (skip + (k - bufp))
      BY <1>1, <1>2, <1>11, <2>1
    <2>. QED  BY <1>1, <2>1, <2>2, <2>3, DivUnique
  <1>. HIDE DEF m
  <1>15. skip \in Nat /\ skip < BlockSize
    BY <1>1, <1>4, <1>7
  <1>16. CASE i = q /\ s # 0
    <2>1. e = s - skip
      BY <1>3, <1>5, <1>6, <1>16
    <2>2. s >= skip
      BY <1>1, <1>4, <1>6, <1>7, <1>8, <1>10, <1>12, <1>13, <1>16
    <2>3. bufp + e = len
      BY <1>1, <1>2, <1>6, <1>10, <1>11, <1>12, <1>13, <1>15, <1>16, <2>1
    <2>4. e \in Nat /\ e <= BlockSize - skip
      BY <1>1, <1>6, <1>15, <2>1, <2>2
    <2>5. bufp + (BlockSize - skip) <= len + BlockSize
      BY <1>1, <1>6, <1>15, <2>1, <2>3
    <2>. QED  BY <1>1, <1>14, <1>15, <1>16, <2>3, <2>4, <2>5 DEF skip, e, q, s, a
  <1>17. CASE ~(i = q /\ s # 0)
    <2>1. e = BlockSize - skip /\ i < q
      BY <1>1, <1>2, <1>3, <1>5, <1>6, <1>17
    <2>2. bufp + e <= len
      BY <1>1, <1>2, <1>6, <1>9, <1>11, <1>12, <1>13, <1>15, <2>1
    <2>3. e \in Nat
      BY <1>1, <1>15, <2>1
    <2>. QED  BY <1>1, <1>14, <1>15, <2>1, <2>2, <2>3 DEF skip, e
  <1>. QED  BY <1>16, <1>17
-----------------------------------------------------------------------------
(* The steps *)

LEMMA RInit == Init => RInv
  <1>. SUFFICES ASSUME Init PROVE RInv
    OBVIOUS
  <1>1. DOMAIN out = {}
    BY DEF Init, Nothing
  <1>2. TypeOK
    BY <1>1 DEF Init, TypeOK
  <1>. QED  BY <1>1, <1>2 DEF Init, RInv, InodeRight, NothingYet, Slice, Progress, RightBytes,
              ReadsAll, OverrunOnlyInTailHole

LEMMA ROpen ==
    ASSUME RInv, NEW n \in DOMAIN Files, Open(n)
    PROVE  RInv'
  <1>1. TypeOK /\ DOMAIN out = {}
    BY DEF RInv, NothingYet, Open
  <1>2. Meta[InodePlace(n)] = n /\ n \in Nat
    BY InodeIsFound, LayoutAssumption
  <1>3. /\ rpc' = "open" /\ ino' = n /\ inode' = n /\ out' = out
        /\ UNCHANGED <<pos, asked, len, i, bufp>>
    BY <1>2 DEF Open
  <1>4. TypeOK'
    BY <1>1, <1>2, <1>3 DEF TypeOK
  <1>. QED  BY <1>1, <1>3, <1>4 DEF RInv, InodeRight, NothingYet, Slice, Progress, RightBytes,
              ReadsAll, OverrunOnlyInTailHole

LEMMA RRead ==
    ASSUME RInv, NEW p \in 0 .. MaxAsked, NEW l \in 0 .. MaxAsked, Read(p, l)
    PROVE  RInv'
  <1>1. /\ TypeOK /\ DOMAIN out = {} /\ ino \in DOMAIN Files /\ inode = ino
    BY DEF RInv, NothingYet, InodeRight, Read
  <1>2. /\ rpc' = "read" /\ pos' = p /\ asked' = l /\ i' = p \div BlockSize /\ bufp' = 0
        /\ ino' = ino /\ inode' = inode /\ out' = out
        /\ len' = IF l > Files[ino].size THEN Files[ino].size ELSE l
    BY <1>1 DEF Read
  <1>3. p \in Nat /\ l \in Nat /\ Files[ino].size \in Nat /\ BlockSize \in Nat \ {0}
    BY <1>1, LayoutAssumption
  <1>4. /\ p \div BlockSize \in Nat /\ p % BlockSize \in Nat
        /\ p = BlockSize * (p \div BlockSize) + (p % BlockSize)
    BY <1>3, DivMod
  <1>5. TypeOK'
    <2>1. len' \in Nat
      BY <1>2, <1>3
    <2>. QED  BY <1>1, <1>2, <1>3, <1>4, <2>1 DEF TypeOK
  <1>6. Slice'
    BY <1>2 DEF Slice, Size
  <1>7. Progress'
    <2>1. SkipFirst' = p % BlockSize
      BY <1>2 DEF SkipFirst
    <2>2. BlockSize * (p \div BlockSize) \in Nat
      BY <1>3, <1>4
    <2>3. (pos \div BlockSize)' = p \div BlockSize
      BY <1>2
    <2>4. bufp' = BlockSize * i' + SkipFirst' - pos'
      BY <1>2, <1>3, <1>4, <2>1, <2>2
    <2>5. i' >= (pos \div BlockSize)'
      BY <1>2, <1>4, <2>3
    <2>6. \A k \in 0 .. len' - 1 : ~(k < bufp')
      BY <1>2
    <2>. QED  BY <2>4, <2>5, <2>6 DEF Progress
  <1>. QED  BY <1>1, <1>2, <1>5, <1>6, <1>7 DEF RInv, InodeRight, NothingYet, RightBytes,
              ReadsAll, OverrunOnlyInTailHole

(* What a block of the disk holds is written where it belongs, in part or  *)
(* as a whole.                                                             *)
LEMMA DiskBytes ==
    ASSUME RInv, Looping, BlockOf(inode, i) # 0, NEW length \in Nat,
           length <= BlockEnd, UNCHANGED <<ino, inode, pos, asked, len>>,
           out' = [k \in DOMAIN out \cup (bufp .. bufp + length - 1) |->
                     IF k \in bufp .. bufp + length - 1
                     THEN <<BlockOf(inode, i), SkipFirst + (k - bufp)>> ELSE out[k]]
    PROVE  /\ DOMAIN out' = DOMAIN out \cup (bufp .. bufp + length - 1)
           /\ DOMAIN out' \subseteq Nat
           /\ RightBytes' /\ OverrunOnlyInTailHole'
  <1>1. /\ TypeOK /\ Progress /\ RightBytes /\ OverrunOnlyInTailHole /\ inode = ino
    BY DEF RInv, Looping, InodeRight
  <1>. DEFINE written == bufp .. bufp + length - 1
  <1>2. /\ DOMAIN out' = DOMAIN out \cup written
        /\ \A k \in DOMAIN out' :
             out'[k] = IF k \in written THEN <<BlockOf(inode, i), SkipFirst + (k - bufp)>>
                       ELSE out[k]
    OBVIOUS
  <1>3. /\ SkipFirst \in Nat /\ bufp \in Nat /\ BlockEnd \in Nat
        /\ BlockEnd <= BlockSize - SkipFirst /\ bufp + BlockEnd <= len
    BY <1>1, Geometry
  <1>4. /\ BlockSize \in Nat \ {0} /\ len \in Nat /\ DOMAIN out \subseteq Nat
    BY <1>1, LayoutAssumption DEF TypeOK
  <1>5. \A k \in written : k \in Nat /\ k < len
    BY <1>3, <1>4
  <1>6. \A k \in written : out'[k] = ByteAt(ino, pos + k)
    <2>1. \A k \in bufp .. bufp + (BlockSize - SkipFirst) - 1 :
            /\ (pos + k) \div BlockSize = i
            /\ (pos + k) % BlockSize = SkipFirst + (k - bufp)
      BY <1>1, Geometry
    <2>2. \A k \in written : k \in bufp .. bufp + (BlockSize - SkipFirst) - 1
      BY <1>3, <1>4
    <2>. QED  BY <1>1, <1>2, <2>1, <2>2 DEF ByteAt
  <1>. HIDE DEF written
  <1>7. RightBytes'
    <2>. SUFFICES ASSUME NEW k \in DOMAIN out'
                  PROVE  out'[k] = ByteAt(ino, pos + k)
      BY DEF RightBytes, ByteAt, BlockOf
    <2>. QED  BY <1>1, <1>2, <1>6 DEF RightBytes
  <1>8. OverrunOnlyInTailHole'
    <2>. SUFFICES ASSUME NEW k \in DOMAIN out', k >= len
                  PROVE  TailHole /\ k < len + BlockSize
      BY DEF OverrunOnlyInTailHole, TailHole, BlockOf
    <2>1. k \notin written
      BY <1>4, <1>5
    <2>. QED  BY <1>1, <1>2, <2>1 DEF OverrunOnlyInTailHole
  <1>. QED  BY <1>2, <1>4, <1>5, <1>7, <1>8 DEF written

(* The loop goes on to the next block, all of this one read that belongs   *)
(* to the slice.                                                           *)
LEMMA LoopGoesOn ==
    ASSUME RInv, Looping, ToNextBlock,
           DOMAIN out \subseteq DOMAIN out', DOMAIN out' \subseteq Nat,
           RightBytes', OverrunOnlyInTailHole',
           \A k \in 0 .. len - 1 :
               bufp <= k /\ k < bufp + (BlockSize - SkipFirst) => k \in DOMAIN out'
    PROVE  RInv'
  <1>1. TypeOK /\ InodeRight /\ Slice /\ Progress /\ rpc = "read"
    BY DEF RInv, Looping
  <1>2. /\ i' = i + 1 /\ bufp' = bufp + BlockSize - SkipFirst
        /\ UNCHANGED <<rpc, ino, inode, pos, asked, len>>
    BY DEF ToNextBlock
  <1>3. SkipFirst \in Nat /\ SkipFirst < BlockSize /\ bufp \in Nat
    BY <1>1, Geometry
  <1>4. BlockSize \in Nat \ {0} /\ i \in Nat /\ pos \in Nat /\ len \in Nat
    BY <1>1, LayoutAssumption DEF TypeOK
  <1>5. bufp' \in Nat /\ i' \in Nat
    BY <1>2, <1>3, <1>4
  <1>6. TypeOK'
    BY <1>1, <1>2, <1>5 DEF TypeOK
  <1>7. Progress'
    <2>. DEFINE f == pos \div BlockSize
    <2>1. f \in Nat
      BY <1>4, DivMod
    <2>2. i >= f /\ bufp = BlockSize * i + SkipFirst - pos
      BY <1>1 DEF Progress
    <2>3. SkipFirst' = IF i' = f THEN pos % BlockSize ELSE 0
      BY <1>2 DEF SkipFirst
    <2>. HIDE DEF f
    <2>4. SkipFirst' = 0 /\ i' >= f
      BY <1>2, <1>4, <2>1, <2>2, <2>3
    <2>5. BlockSize * (i + 1) = BlockSize * i + BlockSize /\ BlockSize * i \in Nat
      BY <1>4
    <2>6. bufp' = BlockSize * i' + SkipFirst' - pos
      BY <1>2, <1>3, <1>4, <2>2, <2>4, <2>5
    <2>7. \A k \in 0 .. len - 1 : k < bufp' => k \in DOMAIN out'
      <3>. SUFFICES ASSUME NEW k \in 0 .. len - 1, k < bufp' PROVE k \in DOMAIN out'
        OBVIOUS
      <3>1. k < bufp => k \in DOMAIN out
        BY <1>1 DEF Progress
      <3>2. k < bufp + (BlockSize - SkipFirst)
        BY <1>2, <1>3, <1>4
      <3>. QED  BY <1>3, <1>4, <3>1, <3>2
    <2>. QED  BY <1>2, <2>4, <2>6, <2>7 DEF Progress, f
  <1>8. InodeRight' /\ Slice' /\ NothingYet' /\ ReadsAll'
    BY <1>1, <1>2 DEF InodeRight, Slice, NothingYet, ReadsAll, Size
  <1>. QED  BY <1>6, <1>7, <1>8 DEF RInv

LEMMA RReadBlock ==
    ASSUME RInv, ReadBlock
    PROVE  RInv'
  <1>1. /\ Looping /\ BlockOf(inode, i) # 0 /\ ToNextBlock
        /\ out' = [k \in DOMAIN out \cup (bufp .. bufp + BlockEnd - 1) |->
                     IF k \in bufp .. bufp + BlockEnd - 1
                     THEN <<BlockOf(inode, i), SkipFirst + (k - bufp)>> ELSE out[k]]
    BY DEF ReadBlock, Write
  <1>2. TypeOK /\ Progress
    BY DEF RInv
  <1>3. /\ BlockEnd \in Nat /\ bufp \in Nat /\ SkipFirst \in Nat
        /\ bufp + BlockEnd = len \/ BlockEnd = BlockSize - SkipFirst
    BY <1>1, <1>2, Geometry
  <1>4. UNCHANGED <<ino, inode, pos, asked, len>>
    BY <1>1 DEF ToNextBlock
  <1>5. /\ DOMAIN out' = DOMAIN out \cup (bufp .. bufp + BlockEnd - 1)
        /\ DOMAIN out' \subseteq Nat
        /\ RightBytes' /\ OverrunOnlyInTailHole'
    <2>1. BlockEnd <= BlockEnd
      BY <1>3
    <2>. QED  BY <1>1, <1>3, <1>4, <2>1, DiskBytes, Zenon
  <1>6. \A k \in 0 .. len - 1 :
          bufp <= k /\ k < bufp + (BlockSize - SkipFirst) => k \in DOMAIN out'
    BY <1>2, <1>3, <1>5, LayoutAssumption DEF TypeOK
  <1>. QED  BY <1>1, <1>5, <1>6, LoopGoesOn

LEMMA RClearHole ==
    ASSUME RInv, ClearHole
    PROVE  RInv'
  <1>1. /\ Looping /\ BlockOf(inode, i) = 0 /\ ToNextBlock
        /\ out' = [k \in DOMAIN out \cup (bufp .. bufp + Cleared - 1) |->
                     IF k \in bufp .. bufp + Cleared - 1 THEN Zero ELSE out[k]]
    BY DEF ClearHole, Write
  <1>2. TypeOK /\ Progress /\ RightBytes /\ OverrunOnlyInTailHole /\ inode = ino
    BY <1>1 DEF RInv, InodeRight, Looping
  <1>3. UNCHANGED <<ino, inode, pos, asked, len>>
    BY <1>1 DEF ToNextBlock
  <1>. DEFINE written == bufp .. bufp + (BlockSize - SkipFirst) - 1
  <1>4. /\ DOMAIN out' = DOMAIN out \cup written
        /\ \A k \in DOMAIN out' : out'[k] = IF k \in written THEN Zero ELSE out[k]
    BY <1>1 DEF Cleared
  <1>5. /\ SkipFirst \in Nat /\ SkipFirst < BlockSize /\ bufp \in Nat
        /\ \A k \in written : (pos + k) \div BlockSize = i
        /\ bufp + (BlockSize - SkipFirst) > len =>
             /\ (len + pos) % BlockSize # 0 /\ (len + pos) \div BlockSize = i
             /\ bufp + (BlockSize - SkipFirst) <= len + BlockSize
    BY <1>1, <1>2, Geometry
  <1>6. /\ BlockSize \in Nat \ {0} /\ len \in Nat /\ DOMAIN out \subseteq Nat
    BY <1>2, LayoutAssumption DEF TypeOK
  <1>7. \A k \in written : k \in Nat /\ k < bufp + (BlockSize - SkipFirst)
    BY <1>5, <1>6
  <1>8. \A k \in written : ByteAt(ino, pos + k) = Zero
    BY <1>1, <1>2, <1>5 DEF ByteAt
  <1>9. \A k \in 0 .. len - 1 :
          bufp <= k /\ k < bufp + (BlockSize - SkipFirst) => k \in DOMAIN out'
    BY <1>4, <1>5, <1>6
  <1>. HIDE DEF written
  <1>10. RightBytes'
    <2>. SUFFICES ASSUME NEW k \in DOMAIN out'
                  PROVE  out'[k] = ByteAt(ino, pos + k)
      BY <1>3 DEF RightBytes, ByteAt, BlockOf
    <2>. QED  BY <1>2, <1>4, <1>8 DEF RightBytes
  <1>11. OverrunOnlyInTailHole'
    <2>. SUFFICES ASSUME NEW k \in DOMAIN out', k >= len
                  PROVE  TailHole /\ k < len + BlockSize
      BY <1>3 DEF OverrunOnlyInTailHole, TailHole, BlockOf
    <2>1. CASE k \in written
      <3>1. bufp + (BlockSize - SkipFirst) > len
        BY <1>5, <1>6, <1>7, <2>1
      <3>2. k < len + BlockSize
        BY <1>5, <1>6, <1>7, <2>1, <3>1
      <3>. QED  BY <1>1, <1>5, <3>1, <3>2 DEF TailHole
    <2>2. CASE k \notin written
      BY <1>2, <1>4, <2>2 DEF OverrunOnlyInTailHole
    <2>. QED  BY <2>1, <2>2
  <1>12. DOMAIN out \subseteq DOMAIN out' /\ DOMAIN out' \subseteq Nat
    BY <1>4, <1>6, <1>7
  <1>. QED  BY <1>1, <1>9, <1>10, <1>11, <1>12, LoopGoesOn

LEMMA RBlockFails ==
    ASSUME RInv, BlockFails
    PROVE  RInv'
  <1>1. /\ TypeOK /\ InodeRight /\ Slice /\ Progress /\ RightBytes /\ OverrunOnlyInTailHole
    BY DEF RInv
  <1>2. /\ Looping /\ rpc = "read" /\ rpc' = "failed"
        /\ UNCHANGED <<ino, inode, pos, asked, len, i, bufp>>
    BY DEF BlockFails, Looping
  <1>3. DOMAIN out' \subseteq Nat /\ RightBytes' /\ OverrunOnlyInTailHole'
    <2>1. CASE out' = out
      BY <1>1, <1>2, <2>1 DEF TypeOK, RightBytes, ByteAt, BlockOf, OverrunOnlyInTailHole, TailHole
    <2>2. ASSUME NEW part \in 0 .. BlockEnd - 1, BlockOf(inode, i) # 0,
                 out' = [k \in DOMAIN out \cup (bufp .. bufp + part - 1) |->
                           IF k \in bufp .. bufp + part - 1
                           THEN <<BlockOf(inode, i), SkipFirst + (k - bufp)>> ELSE out[k]]
          PROVE  DOMAIN out' \subseteq Nat /\ RightBytes' /\ OverrunOnlyInTailHole'
      <3>1. BlockEnd \in Nat
        BY <1>1, <1>2, Geometry
      <3>2. part \in Nat /\ part <= BlockEnd
        BY <3>1
      <3>. QED  BY <1>2, <2>2, <3>2, DiskBytes
    <2>. QED  BY <2>1, <2>2 DEF BlockFails, Write
  <1>4. TypeOK'
    BY <1>1, <1>2, <1>3 DEF TypeOK
  <1>. QED  BY <1>1, <1>2, <1>3, <1>4 DEF RInv, InodeRight, NothingYet, Slice, Progress,
              ReadsAll, Size

(* Once the blocks are counted off, all of the slice lies before buf. *)
LEMMA RReadEnds ==
    ASSUME RInv, ReadEnds
    PROVE  RInv'
  <1>1. /\ TypeOK /\ InodeRight /\ Slice /\ Progress /\ RightBytes /\ OverrunOnlyInTailHole
    BY DEF RInv
  <1>2. /\ rpc = "read" /\ rpc' = "done" /\ i >= BlockCnt
        /\ UNCHANGED <<ino, inode, pos, asked, len, i, bufp, out>>
    BY DEF ReadEnds
  <1>3. /\ BlockSize \in Nat \ {0} /\ i \in Nat /\ pos \in Nat /\ len \in Nat /\ asked \in Nat
        /\ bufp \in Nat
    BY <1>1, LayoutAssumption DEF TypeOK
  <1>4. len <= bufp
    <2>. DEFINE a == len + pos
                q == a \div BlockSize
                s == a % BlockSize
                t == IF i = pos \div BlockSize THEN pos % BlockSize ELSE 0
    <2>1. a \in Nat /\ bufp = BlockSize * i + t - pos
      BY <1>1, <1>2, <1>3 DEF Progress, SkipFirst
    <2>2. i >= IF s = 0 THEN q ELSE q + 1
      <3>. HIDE DEF a
      <3>1. (a + BlockSize - 1) \div BlockSize = IF s = 0 THEN q ELSE q + 1
        BY <2>1, BlockCount
      <3>. QED  BY <1>2, <3>1 DEF BlockCnt, a
    <2>3. t \in Nat
      BY <1>3, DivMod
    <2>. HIDE DEF a, t
    <2>4. q \in Nat /\ s \in Nat /\ s < BlockSize /\ a = BlockSize * q + s
      BY <1>3, <2>1, DivMod
    <2>. HIDE DEF q, s
    <2>5. i > q => BlockSize * q + BlockSize <= BlockSize * i
      BY <1>3, <2>4, TimesMonotonic
    <2>6. BlockSize * q \in Nat /\ BlockSize * i \in Nat
      BY <1>3, <2>4
    <2>7. BlockSize * i >= a
      <3>1. CASE i = q
        BY <1>3, <2>2, <2>4, <2>6, <3>1
      <3>2. CASE i > q
        BY <1>3, <2>4, <2>5, <2>6, <3>2
      <3>. QED  BY <1>3, <2>2, <2>4, <3>1, <3>2
    <2>8. a = len + pos
      BY DEF a
    <2>. QED  BY <1>3, <2>1, <2>3, <2>6, <2>7, <2>8
  <1>5. ReadsAll'
    <2>. SUFFICES ASSUME NEW k \in 0 .. asked - 1, pos + k < Size PROVE k \in DOMAIN out
      BY <1>2 DEF ReadsAll, Size
    <2>1. Size \in Nat
      BY <1>1, <1>2, LayoutAssumption DEF InodeRight, Size
    <2>2. len = IF asked > Size THEN Size ELSE asked
      BY <1>1, <1>2 DEF Slice
    <2>. HIDE DEF Size
    <2>3. k \in 0 .. len - 1 /\ k < bufp
      BY <1>3, <1>4, <2>1, <2>2
    <2>. QED  BY <1>1, <1>2, <2>3 DEF Progress
  <1>6. TypeOK'
    BY <1>1, <1>2 DEF TypeOK
  <1>. QED  BY <1>1, <1>2, <1>5, <1>6 DEF RInv, InodeRight, NothingYet, Slice, Progress,
              RightBytes, ByteAt, BlockOf, OverrunOnlyInTailHole, TailHole, Size

LEMMA RNextCall ==
    ASSUME RInv, NextCall
    PROVE  RInv'
  <1>1. /\ rpc' = "closed" /\ ino' = 0 /\ inode' = 0 /\ pos' = 0 /\ asked' = 0 /\ len' = 0
        /\ i' = 0 /\ bufp' = 0 /\ DOMAIN out' = {}
    BY DEF NextCall, Nothing
  <1>2. TypeOK'
    BY <1>1 DEF TypeOK
  <1>. QED  BY <1>1, <1>2 DEF RInv, InodeRight, NothingYet, Slice, Progress, RightBytes,
              ReadsAll, OverrunOnlyInTailHole

LEMMA RStep == RInv /\ [Next]_vars => RInv'
  <1>. SUFFICES ASSUME RInv, [Next]_vars PROVE RInv'
    OBVIOUS
  <1>1. CASE \E n \in DOMAIN Files : Open(n)
    BY <1>1, ROpen
  <1>2. CASE \E p, l \in 0 .. MaxAsked : Read(p, l)
    BY <1>2, RRead
  <1>3. CASE UNCHANGED vars
    BY <1>3 DEF vars, RInv, TypeOK, InodeRight, NothingYet, Slice, Progress, SkipFirst,
         RightBytes, ByteAt, BlockOf, ReadsAll, OverrunOnlyInTailHole, TailHole, Size
  <1>. QED  BY <1>1, <1>2, <1>3, RReadBlock, RClearHole, RBlockFails, RReadEnds, RNextCall
              DEF Next

LEMMA RInvariance == Spec => []RInv
  BY RInit, RStep, PTL DEF Spec

-----------------------------------------------------------------------------
(* Every byte ext2fs_read_file puts into the buffer is the one that        *)
(* belongs there, of the file whose inode was asked for: the inode is read *)
(* from its place, the first and the last block are cut where the slice    *)
(* is, holes are zeros, also in a read that fails on the way.              *)
THEOREM BytesAreRight == Spec => []RightSoFar
  <1>1. RInv => RightSoFar
    BY DEF RInv, RightBytes, RightSoFar
  <1>. QED  BY <1>1, RInvariance, PTL

(* When ext2fs_read_file succeeds, no byte of the slice is missing.        *)
THEOREM SliceIsComplete == Spec => []ReadsAll
  <1>1. RInv => ReadsAll
    BY DEF RInv
  <1>. QED  BY <1>1, RInvariance, PTL

(* ext2fs_read_file writes behind the buffer only where the slice ends in  *)
(* a hole, and then less than a block: the memset of a hole is not cut.    *)
THEOREM OverrunIsBounded == Spec => []OverrunOnlyInTailHole
  <1>1. RInv => OverrunOnlyInTailHole
    BY DEF RInv
  <1>. QED  BY <1>1, RInvariance, PTL
=============================================================================
