------------------------------- MODULE Names --------------------------------
(* Path elements and directory entries (kernel/fs.c): skipelem() cuts a      *)
(* path into names of at most DIRSIZ bytes, dirlink() and dirlookup() keep   *)
(* them in an array of entries with strncpy() and strncmp()                  *)
(* (kernel/string.c), sys_unlink() (kernel/sysfile.c) erases one.  A path is *)
(* a sequence of characters; name is the array that namex() reuses for every *)
(* element and clears nowhere.                                               *)
EXTENDS Naturals, Sequences, SequencesExt, FiniteSets, FiniteSetsExt

CONSTANTS
  Path,       \* the paths that callers pass
  StackByte,  \* what name may hold before the first call
  DIRSIZ,
  MaxDirents, \* bound on the entries of the directory
  NewInum

VARIABLES
  entries,  \* the entries of one directory: [inum, name]
  name,   \* the buffer that skipelem() fills
  found   \* what the last dirlookup() returned, and the element it was for

nameVars == <<entries, name, found>>

NUL == "0"
Index == 1..DIRSIZ
NoEnt == [inum |-> 0, name |-> [k \in Index |-> NUL]]

ASSUME NamesAssumption == DIRSIZ \in Nat \ {0} /\ 0 \notin NewInum

----------------------------------------------------------------------------
(* string.c *)

\* The bytes of array s before its NUL, all of them if it has none.
StrLen(s) == LET nuls == {k \in DOMAIN s : s[k] = NUL} IN IF nuls = {} THEN Len(s) ELSE Min(nuls) - 1

\* Mutant: the comparison goes past the NUL.
CompareAll(p, q) == p = q

\* strncmp(p, q, DIRSIZ) == 0: equal bytes up to a common NUL, or DIRSIZ.
namecmp(p, q) == \A k \in Index : (\A j \in 1..(k - 1) : p[j] # NUL) => p[k] = q[k]

\* strncpy(): the bytes up to the NUL, and NULs after it.
strncpy(t) == [k \in Index |-> IF k <= StrLen(t) THEN t[k] ELSE NUL]

----------------------------------------------------------------------------
(* fs.c *)

\* The first element of path without the slashes before it.
Element(path) ==
  LET from == {k \in DOMAIN path : path[k] # "/"}
      to(f) == {k \in f..Len(path) : \A j \in f..k : path[j] # "/"}
  IN  IF from = {} THEN <<>> ELSE SubSeq(path, Min(from), Max(to(Min(from))))

IsLong(len) == len >= DIRSIZ

\* skipelem(): name afterwards; a short name is ended by a NUL and leaves the
\* bytes after that as they were.
skipelem(path) ==
  LET e == Element(path)
  IN  [k \in Index |-> IF k <= Len(e) THEN e[k]
                       ELSE IF k = Len(e) + 1 /\ ~IsLong(Len(e)) THEN NUL ELSE name[k]]

\* The entries that dirlookup() stops at.
Hits(n) == {k \in DOMAIN entries : entries[k].inum # 0 /\ namecmp(n, entries[k].name)}

NamesInit == entries = <<>> /\ name \in [Index -> StackByte] /\ found = <<0, <<>>>>

\* namei() of one element.
lookup(path) ==
  LET n == skipelem(path)
  IN  /\ name' = n
      /\ found' = <<IF Hits(n) = {} THEN 0 ELSE entries[Min(Hits(n))].inum, Element(path)>>
      /\ UNCHANGED entries

\* The slot that dirlink() takes: the first empty one, or a new one.
Slot == Min({k \in DOMAIN entries : entries[k].inum = 0} \cup {Len(entries) + 1})

dirlink(path, inum) ==
  LET n == skipelem(path)
      de == [inum |-> inum, name |-> strncpy(n)]
  IN  /\ name' = n
      /\ IF Hits(n) # {} THEN UNCHANGED entries
         ELSE /\ Slot <= MaxDirents
              /\ entries' = [k \in DOMAIN entries \cup {Slot} |-> IF k = Slot THEN de ELSE entries[k]]
      /\ found' = <<0, <<>>>>

\* sys_unlink(): the entry is overwritten with zeros.
unlink(path) ==
  LET n == skipelem(path)
  IN  /\ name' = n
      /\ entries' = IF Hits(n) = {} THEN entries ELSE [entries EXCEPT ![Min(Hits(n))] = NoEnt]
      /\ found' = <<0, <<>>>>

NamesNext ==
  \E path \in Path :
    /\ Element(path) # <<>>
    /\ lookup(path) \/ unlink(path) \/ \E i \in NewInum : dirlink(path, i)

NamesSpec == NamesInit /\ [][NamesNext]_nameVars

----------------------------------------------------------------------------
(* Properties *)

NamesTypeOK == Len(entries) <= MaxDirents /\ \A k \in DOMAIN entries : entries[k].inum \in NewInum \cup {0} /\ DOMAIN entries[k].name = Index

Live == {k \in DOMAIN entries : entries[k].inum # 0}
Text(a) == SubSeq(a, 1, StrLen(a))
Cut(e) == SubSeq(e, 1, Min({Len(e), DIRSIZ}))

Contents == [n \in {Text(entries[k].name) : k \in Live} |-> entries[CHOOSE k \in Live : Text(entries[k].name) = n].inum]

Map == INSTANCE NameMap WITH map <- Contents, Inum <- NewInum, Key <- {Cut(Element(p)) : p \in Path}

\* dirlookup() of a path element returns the inode bound to its first DIRSIZ
\* bytes, whatever bytes earlier elements left in the buffer.
LookupRight ==
  found[2] # <<>> =>
    LET e == Cut(found[2]) IN found[1] = IF e \in DOMAIN Contents THEN Contents[e] ELSE 0

\* The array of entries, with its holes and its unterminated names, is a map
\* from names: a name is never bound twice, unlink() frees it, and lookups
\* find what is there.
DirectoryIsMap == Map!MapSpec /\ [](NamesTypeOK /\ LookupRight)
=============================================================================
