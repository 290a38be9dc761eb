------------------------------ MODULE FileData ------------------------------
(* Contents of files: the block bitmap, bmap(), readi(), writei() and        *)
(* itrunc() (kernel/fs.c), the loops of fileread() and filewrite()           *)
(* (kernel/file.c), and the image that mkfs (mkfs/mkfs.c) starts from.  A    *)
(* block is BSIZE cells, each a byte of data or, in an indirect block, a     *)
(* block number.  One chunk of a write, or one read, runs under the lock of  *)
(* the inode and is one step; writers interleave between chunks.             *)
EXTENDS Naturals, Sequences, SequencesExt, FiniteSets, FiniteSetsExt, Functions

CONSTANTS
  BSIZE,         \* cells of a block; also NINDIRECT
  NDIRECT,
  NMETA, FSSIZE, \* blocks 0..NMETA-1 are not data; FSSIZE blocks in all
  BPB,           \* blocks per bitmap block
  OpMax,         \* MAXOPBLOCKS
  UintMax,       \* 2^32 for uint
  FileIno, Byte, DataProc,
  Written,       \* Written[i]: the bytes written to inode i by the processes
  ImageByte,     \* the byte that mkfs writes
  WriteSizes,    \* the byte counts of write()
  ImageSizes     \* bytes that mkfs puts in a file

VARIABLES
  fs,     \* [bits, blk, ino, logged, ops, full]: bitmap, blocks, inodes; the
          \* blocks that the transaction under way has logged, their number in
          \* the last one; "balloc: out of blocks"
  foff,   \* f->off of one open file for each inode, shared by the processes
  wr      \* the write under way in each process: [i, n, v], n = 0 for none

dataVars == <<fs, foff, wr>>

Blockno == 0..(FSSIZE - 1)
Cell == 0..(BSIZE - 1)
NINDIRECT == BSIZE
MAXFILE == NDIRECT + NINDIRECT
Zeros == [c \in Cell |-> 0]
Garbage == [c \in Cell |-> FSSIZE]   \* what is left in a free block
NoWrite == [i |-> 0, n |-> 0, v |-> 0]
NoInode == [size |-> 0, addrs |-> [k \in 0..NDIRECT |-> 0]]

ASSUME DataAssumption ==
  /\ BSIZE \in Nat \ {0} /\ NDIRECT \in Nat \ {0} /\ NMETA \in Nat \ {0} /\ BPB \in Nat \ {0}
  /\ OpMax >= 6 /\ MAXFILE * BSIZE < UintMax

----------------------------------------------------------------------------
(* fs.c *)

FreeBlocks(s) == Blockno \ s.bits

\* balloc(): the block is marked and zeroed, both through the log.
balloc(s) ==
  LET b == Min(FreeBlocks(s))
  IN  IF FreeBlocks(s) = {} THEN [s EXCEPT !.full = TRUE]
      ELSE [s EXCEPT !.bits = @ \cup {b}, !.blk[b] = Zeros,
                     !.logged = @ \cup {<<"bitmap", b \div BPB>>, <<"block", b>>}]

\* Make addrs[k] of inode i, or entry k of its indirect block, exist.
SetAddr(s, i, k) ==
  IF s.ino[i].addrs[k] # 0 THEN s
  ELSE LET t == balloc(s) IN IF t.full THEN t ELSE [t EXCEPT !.ino[i].addrs[k] = Min(FreeBlocks(s))]

SetIndirect(s, i, k) ==
  LET ind == s.ino[i].addrs[NDIRECT]
      t == balloc(s)
  IN  IF s.full \/ s.blk[ind][k] # 0 THEN s
      ELSE IF t.full THEN t
      ELSE [t EXCEPT !.blk[ind][k] = Min(FreeBlocks(s)), !.logged = @ \cup {<<"block", ind>>}]

\* bmap(), for the blocks it allocates; Addr is the address it returns.
bmap(s, i, bn) == IF bn < NDIRECT THEN SetAddr(s, i, bn) ELSE SetIndirect(SetAddr(s, i, NDIRECT), i, bn - NDIRECT)

Addr(s, i, bn) ==
  IF bn < NDIRECT THEN s.ino[i].addrs[bn]
  ELSE IF s.ino[i].addrs[NDIRECT] = 0 THEN 0
  ELSE s.blk[s.ino[i].addrs[NDIRECT]][bn - NDIRECT]

\* Cells lo..hi-1 of the file, all in block bn, become v.
Copy(s, i, bn, lo, hi, v) ==
  [s EXCEPT !.blk[Addr(s, i, bn)] = [c \in Cell |-> IF bn * BSIZE + c \in lo..(hi - 1) THEN v ELSE @[c]]]

\* One turn of the loop of writei(); either_copyin() gets only the first good
\* bytes of the source and fails after that.  s.at is off, s.short the break.
WriteBlock(s, i, bn, off, n, v, good) ==
  LET t == bmap(s, i, bn)
      lo == Max({off, bn * BSIZE})
      hi == Min({off + n, (bn + 1) * BSIZE})
  IN  IF s.full \/ s.short THEN s
      ELSE IF t.full THEN t
      ELSE IF off + good < hi THEN [Copy(t, i, bn, lo, off + good, v) EXCEPT !.short = TRUE]
      ELSE [Copy(t, i, bn, lo, hi, v) EXCEPT !.at = hi, !.logged = @ \cup {<<"block", Addr(t, i, bn)>>}]

\* What writei() refuses; it returns -1 then.
Refused(s, i, off, n) ==
  off > s.ino[i].size \/ (off + n) % UintMax < off \/ (off + n) % UintMax > MAXFILE * BSIZE


\* ip->size after the loop.
NewSize(s, i) == Max({s.ino[i].size, s.at})

\* writei(), for n > 0: the loop, the size, iupdate().
writei(s, i, off, n, v, good) ==
  LET bns == [k \in 1..(((off + n - 1) \div BSIZE) - (off \div BSIZE) + 1) |-> (off \div BSIZE) + k - 1]
      t == FoldLeft(LAMBDA x, bn : WriteBlock(x, i, bn, off, n, v, good), [s EXCEPT !.at = off, !.short = FALSE], bns)
  IN  IF t.full THEN t
      ELSE [t EXCEPT !.ino[i].size = NewSize(t, i), !.logged = @ \cup {<<"inode", i>>}, !.at = 0, !.short = FALSE]

\* The number of bytes that readi() returns for uint n.
readi(s, i, off, n) ==
  LET size == s.ino[i].size
  IN  IF off > size \/ (off + n) % UintMax < off THEN 0
      ELSE Min({n, size - off})

\* Blocks of inode i: data and indirect.
Direct(s, i) == {s.ino[i].addrs[k] : k \in 0..NDIRECT} \ {0}
Indirect(s, i) == IF s.ino[i].addrs[NDIRECT] = 0 THEN {} ELSE Range(s.blk[s.ino[i].addrs[NDIRECT]]) \ {0}

\* The blocks that itrunc() gives to bfree().
Freed(s, i) == Direct(s, i) \cup Indirect(s, i)

\* itrunc(); a free block in Freed is the panic "freeing free block".
itrunc(s, i) ==
  [s EXCEPT !.bits = @ \ Freed(s, i), !.ino[i] = NoInode,
            !.blk = [b \in Blockno |-> IF b \in Freed(s, i) THEN Garbage ELSE @[b]],
            !.logged = @ \cup {<<"bitmap", b \div BPB>> : b \in Freed(s, i)} \cup {<<"inode", i>>}]

----------------------------------------------------------------------------
(* mkfs: freeblock is the next block; iappend() of one cell at a time *)

\* iappend() of a byte v to inode i.
iappend(s, i, v) ==
  LET off == s.ino[i].size
      t == bmap(s, i, off \div BSIZE)
  IN  [Copy(t, i, off \div BSIZE, off, off + 1, v) EXCEPT !.ino[i].size = off + 1]

\* The image with n bytes in each file: iappend(), then balloc(freeblock).
Image(n) ==
  LET blank == [bits |-> 0..(NMETA - 1), blk |-> [b \in Blockno |-> IF b < NMETA THEN Zeros ELSE Garbage], ino |-> [i \in FileIno |-> NoInode],
                logged |-> {}, ops |-> 0, full |-> FALSE, at |-> 0, short |-> FALSE]
      One(s, i) == FoldLeft(LAMBDA x, k : iappend(x, i, ImageByte), s, [k \in 1..n |-> k])
  IN  [FoldLeft(One, blank, SetToSeq(FileIno)) EXCEPT !.logged = {}]

DataInit ==
  /\ \E n \in ImageSizes : fs = Image(n)
  /\ foff = [i \in FileIno |-> 0]
  /\ wr = [p \in DataProc |-> NoWrite]

----------------------------------------------------------------------------
(* file.c *)

\* Mutant: no slop for the first and the indirect block.
MaxNoSlop == ((OpMax - 1 - 1) \div 2) * BSIZE

\* max of filewrite().
MaxChunk == ((OpMax - 1 - 1 - 2) \div 2) * BSIZE

Running == ~fs.full
Logged(s) == [s EXCEPT !.logged = {}, !.ops = Cardinality(s.logged)]

\* One turn of the loop of filewrite(), a transaction of its own, with w left
\* to write.  writei() returns the whole n1 also when it stopped short, so
\* the offset moves on by n1.
Turn(p, w) ==
  LET n1 == Min({w.n, MaxChunk})
  IN  IF Refused(fs, w.i, foff[w.i], n1)
      THEN fs' = Logged(fs) /\ wr' = [wr EXCEPT ![p] = NoWrite] /\ UNCHANGED foff
      ELSE /\ \E good \in 0..n1 : fs' = Logged(writei(fs, w.i, foff[w.i], n1, w.v, good))
           /\ foff' = [foff EXCEPT ![w.i] = @ + n1]
           /\ wr' = [wr EXCEPT ![p] = IF w.n = n1 THEN NoWrite ELSE [w EXCEPT !.n = @ - n1]]

sys_write(p) ==
  /\ Running /\ wr[p] = NoWrite
  /\ \E i \in FileIno, n \in WriteSizes : \E v \in Written[i] : Turn(p, [i |-> i, n |-> n, v |-> v])

filewrite(p) ==
  /\ Running /\ wr[p] # NoWrite
  /\ Turn(p, wr[p])

\* A process that is not in the middle of a write.
Others == NoWrite \in Range(wr)

\* fileread(): n is an int that readi() takes for a uint.
fileread ==
  /\ Running /\ Others
  /\ \E i \in FileIno, n \in {1, BSIZE, UintMax - 1} :
       foff' = [foff EXCEPT ![i] = @ + readi(fs, i, foff[i], n)]
  /\ UNCHANGED <<fs, wr>>

\* Opening the file again, with and without O_TRUNC.
reopen ==
  /\ Running /\ Others
  /\ \E i \in FileIno :
       /\ foff' = [foff EXCEPT ![i] = 0]
       /\ fs' \in {fs, [itrunc(fs, i) EXCEPT !.logged = {}]}
  /\ UNCHANGED wr

\* panic("balloc: out of blocks").
Full == fs.full /\ UNCHANGED dataVars

DataNext == Full \/ fileread \/ reopen \/ \E p \in DataProc : sys_write(p) \/ filewrite(p)

DataSpec == DataInit /\ [][DataNext]_dataVars

----------------------------------------------------------------------------
(* Properties *)

DataTypeOK ==
  /\ fs.bits \subseteq Blockno /\ \A b \in Blockno : fs.blk[b] \in [Cell -> Blockno \cup Byte \cup {FSSIZE}]
  /\ \A i \in FileIno : fs.ino[i].size \in 0..(MAXFILE * BSIZE) /\ fs.ino[i].addrs \in [0..NDIRECT -> Blockno]
  /\ foff \in [FileIno -> Nat]

\* References to block b from inodes and indirect blocks.
BlockRefs(b) ==
  MapThenSumSet(LAMBDA i :
    Cardinality({k \in 0..NDIRECT : fs.ino[i].addrs[k] = b}) +
    (IF fs.ino[i].addrs[NDIRECT] = 0 THEN 0
     ELSE Cardinality({c \in Cell : fs.blk[fs.ino[i].addrs[NDIRECT]][c] = b})), FileIno)

\* The bitmap is exact: a data block is marked if and only if one inode refers
\* to it, once; so files do not share blocks, bfree() never panics, and
\* truncation and writes that stop short leak nothing.
BitmapExact ==
  ~fs.full => \A b \in Blockno : IF b < NMETA THEN b \in fs.bits
                               ELSE BlockRefs(b) = IF b \in fs.bits THEN 1 ELSE 0

\* Every block below the size of a file exists, so that readi(), which runs
\* outside of transactions in fileread(), never makes bmap() allocate one.
NoHoles ==
  \A i \in FileIno : \A k \in 0..(fs.ino[i].size - 1) : ~fs.full => Addr(fs, i, k \div BSIZE) # 0

\* A chunk of filewrite() logs no more blocks than begin_op() reserved for it,
\* even when every block has a bitmap block of its own.
OpFits == fs.ops <= OpMax

\* The three together.
BlocksExact == DataTypeOK /\ BitmapExact /\ NoHoles /\ OpFits

FlatContents ==
  [i \in FileIno |->
    LET blocks == [bn \in 0..(MAXFILE - 1) |-> fs.blk[Addr(fs, i, bn)]]
    IN  [k \in 1..fs.ino[i].size |-> blocks[(k - 1) \div BSIZE][(k - 1) % BSIZE]]]

Flat == INSTANCE FlatFiles WITH flat <- FlatContents, MaxLen <- MAXFILE * BSIZE

=============================================================================
