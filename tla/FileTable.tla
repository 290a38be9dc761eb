----------------------------- MODULE FileTable ------------------------------
(* Open files (kernel/file.c) and descriptors (kernel/sysfile.c, fork() and  *)
(* exit() of kernel/proc.c): reference counts of struct file, the pipe ends  *)
(* and inodes they stand for, and what system calls undo when they run out   *)
(* of files, descriptors or memory.  Each critical section of ftable.lock is *)
(* one step; todo[p] is what p's system call has still to do.  The inode     *)
(* cache is reduced to its reference counts, a pipe to its two open flags;   *)
(* writable matters only as the end of a pipe, so files on inodes share it.  *)
EXTENDS Naturals, Sequences, SequencesExt, FiniteSets

CONSTANTS
  NFILE, NOFILE,
  FdProc,     \* processes
  PipePage,   \* pages kalloc() can give to pipes
  Ip,         \* inodes
  NoProc

ASSUME FileAssumption == NFILE \in Nat /\ NOFILE \in Nat /\ NoProc \notin FdProc

VARIABLES
  file,    \* ftable.file[]
  ofile,   \* p->ofile[], 0 for no file
  cwd,     \* processes with a current directory (all use the same one)
  iref,    \* ip->ref
  pipes,   \* pages in use as pipes: the open flags
  todo,    \* per process, the rest of its system call
  alive,   \* p->state # UNUSED
  fpanic

fileVars == <<file, ofile, cwd, iref, pipes, todo, alive, fpanic>>

File == 1..NFILE
Fd == 0..(NOFILE - 1)
initproc == CHOOSE p \in FdProc : TRUE
RootIp == CHOOSE i \in Ip : TRUE
NoFile == [ref |-> 0, type |-> "NONE", writable |-> FALSE, obj |-> NoProc]

FileInit ==
  /\ file = [f \in File |-> NoFile]
  /\ ofile = [q \in FdProc |-> [d \in Fd |-> 0]]
  /\ cwd = {initproc} /\ alive = {initproc}
  /\ iref = [i \in Ip |-> IF i = RootIp THEN 1 ELSE 0]
  /\ pipes = [k \in {} |-> [readopen |-> TRUE, writeopen |-> TRUE]]
  /\ todo = [q \in FdProc |-> <<>>]
  /\ fpanic = FALSE

----------------------------------------------------------------------------
(* file.c *)

\* The first file with ref = 0, or 0.
filealloc == IF \E f \in File : file[f].ref = 0
             THEN CHOOSE f \in File : file[f].ref = 0 /\ \A g \in 1..(f - 1) : file[g].ref # 0
             ELSE 0

\* What fileclose() leaves in the table when the last reference goes: type is
\* FD_NONE, and the other fields mean nothing until the file is used again.
Closed(f) == NoFile

\* What is left to do after the part of fileclose() under the lock, given the
\* copy ff of the file.
DropFile(ff) ==
  IF ff.type = "PIPE" THEN <<[do |-> "pipeclose", obj |-> ff.obj, flag |-> ff.writable]>>
  ELSE IF ff.type = "INODE" THEN <<[do |-> "iput", obj |-> ff.obj, flag |-> FALSE]>>
  ELSE <<>>

Task(op, x) == [do |-> op, obj |-> x, flag |-> FALSE]
Next1(p) == Head(todo[p])
Doing(p, op) == todo[p] # <<>> /\ Next1(p).do = op /\ ~fpanic
Then(p, s) == todo' = [todo EXCEPT ![p] = s \o Tail(@)]

fileclose(p) ==
  /\ Doing(p, "fileclose")
  /\ LET f == Next1(p).obj
     IN  IF file[f].ref < 1 THEN fpanic' = TRUE /\ UNCHANGED <<file, todo>>
         ELSE /\ file' = [file EXCEPT ![f] = IF @.ref > 1 THEN [@ EXCEPT !.ref = @ - 1] ELSE Closed(f)]
              /\ Then(p, IF file[f].ref > 1 THEN <<>> ELSE DropFile(file[f]))
              /\ UNCHANGED fpanic
  /\ UNCHANGED <<ofile, cwd, iref, pipes, alive>>

\* pipeclose(): the page is freed with the second end.
pipeclose(p) ==
  /\ Doing(p, "pipeclose")
  /\ LET k == Next1(p).obj
         was == pipes[k]
         now == IF Next1(p).flag THEN [was EXCEPT !.writeopen = FALSE] ELSE [was EXCEPT !.readopen = FALSE]
     IN  pipes' = IF now.readopen \/ now.writeopen THEN [pipes EXCEPT ![k] = now]
                  ELSE [j \in DOMAIN pipes \ {k} |-> pipes[j]]
  /\ Then(p, <<>>)
  /\ UNCHANGED <<file, ofile, cwd, iref, alive, fpanic>>

\* iput() of the inode cache, for the reference count.
iput(p) ==
  /\ Doing(p, "iput")
  /\ iref' = [iref EXCEPT ![Next1(p).obj] = @ - 1]
  /\ Then(p, <<>>)
  /\ UNCHANGED <<file, ofile, cwd, pipes, alive, fpanic>>

----------------------------------------------------------------------------
(* Descriptors *)

FreeFds(p) == {d \in Fd : ofile[p][d] = 0}

\* The lowest free descriptor.
fdalloc(p) == CHOOSE d \in FreeFds(p) : \A e \in FreeFds(p) : d <= e

Ready(p) == p \in alive /\ todo[p] = <<>> /\ ~fpanic

\* Mutant: sys_dup() forgets filedup().
DupUncounted(f) == file

\* filedup().
filedup(f) == [file EXCEPT ![f].ref = @ + 1]

sys_dup(p) ==
  /\ Ready(p)
  /\ \E d \in Fd : ofile[p][d] # 0 /\ FreeFds(p) # {} /\
       LET f == ofile[p][d]
       IN  /\ ofile' = [ofile EXCEPT ![p][fdalloc(p)] = f]
           /\ file' = filedup(f) /\ fpanic' = (file[f].ref < 1)
  /\ UNCHANGED <<cwd, iref, pipes, todo, alive>>

sys_close(p) ==
  /\ Ready(p)
  /\ \E d \in Fd : ofile[p][d] # 0 /\
       /\ ofile' = [ofile EXCEPT ![p][d] = 0]
       /\ todo' = [todo EXCEPT ![p] = <<Task("fileclose", ofile[p][d])>>]
  /\ UNCHANGED <<file, cwd, iref, pipes, alive, fpanic>>

\* sys_open() up to the inode that namei() or create() returned.
sys_open(p) ==
  /\ Ready(p)
  /\ \E i \in Ip : /\ iref' = [iref EXCEPT ![i] = @ + 1]
                   /\ todo' = [todo EXCEPT ![p] = <<Task("open", i)>>]
  /\ UNCHANGED <<file, ofile, cwd, pipes, alive, fpanic>>

\* What sys_open() undoes: iunlockput(ip).
OpenFails(i) == <<Task("iput", i)>>

\* The rest of sys_open(): no file, no descriptor, or success.
OpenFile(p) ==
  /\ Doing(p, "open")
  /\ LET i == Next1(p).obj
         f == filealloc
     IN  \/ /\ f = 0 /\ Then(p, OpenFails(i)) /\ UNCHANGED <<file, ofile>>
         \/ /\ f # 0 /\ FreeFds(p) = {}
            /\ file' = [file EXCEPT ![f].ref = 1]
            /\ Then(p, <<Task("fileclose", f)>> \o OpenFails(i)) /\ UNCHANGED ofile
         \/ /\ f # 0 /\ FreeFds(p) # {}
            /\ file' = [file EXCEPT ![f] =
                 [ref |-> 1, type |-> "INODE", writable |-> FALSE, obj |-> i]]
            /\ ofile' = [ofile EXCEPT ![p][fdalloc(p)] = f]
            /\ Then(p, <<>>)
  /\ UNCHANGED <<cwd, iref, pipes, alive, fpanic>>

\* pipealloc(): the first file, then the second, then the page; what it has is
\* closed again when one of them is missing.
sys_pipe(p) ==
  /\ Ready(p)
  /\ filealloc # 0
  /\ file' = [file EXCEPT ![filealloc].ref = 1]
  /\ todo' = [todo EXCEPT ![p] = <<Task("pipe", <<filealloc>>)>>]
  /\ UNCHANGED <<ofile, cwd, iref, pipes, alive, fpanic>>

PipeFile(p) ==
  /\ Doing(p, "pipe") /\ Len(Next1(p).obj) = 1
  /\ LET f0 == Next1(p).obj[1]
     IN  IF filealloc = 0 THEN Then(p, <<Task("fileclose", f0)>>) /\ UNCHANGED file
         ELSE /\ file' = [file EXCEPT ![filealloc].ref = 1]
              /\ Then(p, <<Task("pipe", <<f0, filealloc>>)>>)
  /\ UNCHANGED <<ofile, cwd, iref, pipes, alive, fpanic>>

CloseBoth(f0, f1) == <<Task("fileclose", f0), Task("fileclose", f1)>>

PipePageAlloc(p) ==
  /\ Doing(p, "pipe") /\ Len(Next1(p).obj) = 2
  /\ LET f0 == Next1(p).obj[1]
         f1 == Next1(p).obj[2]
     IN  \/ /\ PipePage = DOMAIN pipes
            /\ Then(p, CloseBoth(f0, f1)) /\ UNCHANGED <<file, pipes>>
         \/ \E k \in PipePage \ DOMAIN pipes :
              /\ pipes' = [j \in DOMAIN pipes \cup {k} |->
                   IF j = k THEN [readopen |-> TRUE, writeopen |-> TRUE] ELSE pipes[j]]
              /\ file' = [file EXCEPT
                   ![f0] = [ref |-> 1, type |-> "PIPE", writable |-> FALSE, obj |-> k],
                   ![f1] = [ref |-> 1, type |-> "PIPE", writable |-> TRUE, obj |-> k]]
              /\ Then(p, <<Task("pipefds", <<f0, f1>>)>>)
  /\ UNCHANGED <<ofile, cwd, iref, alive, fpanic>>

\* The rest of sys_pipe(): two descriptors and their copyout(), or close both
\* files; with one descriptor free, it is taken and given back.
PipeFds(p) ==
  /\ Doing(p, "pipefds")
  /\ LET f0 == Next1(p).obj[1]
         f1 == Next1(p).obj[2]
         d0 == fdalloc(p)
         d1 == CHOOSE d \in FreeFds(p) \ {d0} : \A e \in FreeFds(p) \ {d0} : d <= e
     IN  \/ /\ Cardinality(FreeFds(p)) >= 2
            /\ ofile' = [ofile EXCEPT ![p][d0] = f0, ![p][d1] = f1]
            /\ Then(p, <<>>)
         \/ Then(p, CloseBoth(f0, f1)) /\ UNCHANGED ofile
  /\ UNCHANGED <<file, cwd, iref, pipes, alive, fpanic>>

----------------------------------------------------------------------------
(* fork and exit *)

\* fork(): the child's descriptors are filled one filedup() at a time, then
\* its current directory; the child runs after that.
fork_files(p) ==
  /\ Ready(p)
  /\ \E c \in FdProc \ alive :
       /\ \A q \in FdProc : ~Contains(todo[q], Task("idup", c))
       /\ todo' = [todo EXCEPT ![p] =
            [d \in 1..NOFILE |-> Task("dup", <<c, d - 1>>)] \o <<Task("idup", c)>>]
  /\ UNCHANGED <<file, ofile, cwd, iref, pipes, alive, fpanic>>

ForkDup(p) ==
  /\ Doing(p, "dup")
  /\ LET c == Next1(p).obj[1]
         d == Next1(p).obj[2]
         f == ofile[p][d]
     IN  IF f = 0 THEN UNCHANGED <<file, ofile, fpanic>>
         ELSE /\ file' = filedup(f) /\ fpanic' = (file[f].ref < 1)
              /\ ofile' = [ofile EXCEPT ![c][d] = f]
  /\ Then(p, <<>>)
  /\ UNCHANGED <<cwd, iref, pipes, alive>>

ForkRun(p) ==
  /\ Doing(p, "idup")
  /\ iref' = [iref EXCEPT ![RootIp] = @ + 1]
  /\ cwd' = cwd \cup {Next1(p).obj} /\ alive' = alive \cup {Next1(p).obj}
  /\ Then(p, <<>>)
  /\ UNCHANGED <<file, ofile, pipes, fpanic>>

\* exit() closes every descriptor and drops the current directory; the slot is
\* free once the parent has waited.
exit(p) ==
  /\ Ready(p) /\ p # initproc
  /\ LET open == SelectSeq([d \in 1..NOFILE |-> d - 1], LAMBDA d : ofile[p][d] # 0)
     IN  todo' = [todo EXCEPT ![p] =
           [i \in DOMAIN open |-> Task("fileclose", ofile[p][open[i]])]
             \o <<Task("iput", RootIp), Task("gone", p)>>]
  /\ ofile' = [ofile EXCEPT ![p] = [d \in Fd |-> 0]]
  /\ UNCHANGED <<file, cwd, iref, pipes, alive, fpanic>>

Gone(p) ==
  /\ Doing(p, "gone")
  /\ cwd' = cwd \ {p} /\ alive' = alive \ {p}
  /\ Then(p, <<>>)
  /\ UNCHANGED <<file, ofile, iref, pipes, fpanic>>

----------------------------------------------------------------------------
FileNext ==
  \E p \in FdProc :
    \/ fileclose(p) \/ pipeclose(p) \/ iput(p)
    \/ sys_dup(p) \/ sys_close(p) \/ sys_open(p) \/ OpenFile(p)
    \/ sys_pipe(p) \/ PipeFile(p) \/ PipePageAlloc(p) \/ PipeFds(p)
    \/ fork_files(p) \/ ForkDup(p) \/ ForkRun(p) \/ exit(p) \/ Gone(p)

FileSpec == FileInit /\ [][FileNext]_fileVars

----------------------------------------------------------------------------
(* Properties *)

FileTypeOK ==
  /\ file \in [File -> [ref : 0..(NFILE * NOFILE * Cardinality(FdProc)), type : {"NONE", "PIPE", "INODE"},
                        writable : BOOLEAN, obj : PipePage \cup Ip \cup {NoProc}]]
  /\ ofile \in [FdProc -> [Fd -> File \cup {0}]]
  /\ cwd \subseteq FdProc /\ alive \subseteq FdProc
  /\ iref \in [Ip -> Nat] /\ fpanic \in BOOLEAN
  /\ DOMAIN pipes \subseteq PipePage

\* Places in the pending tasks where P holds.
Pending(P(_)) == {<<p, i>> \in FdProc \X (1..(NOFILE + 3)) : i \in DOMAIN todo[p] /\ P(todo[p][i])}

\* f->ref is exactly the number of descriptors for f, over all processes, plus
\* the references system calls in progress hold; it is never below that, so
\* filedup() and fileclose() do not panic, and never above, so no file leaks.
RefExact ==
  /\ ~fpanic
  /\ \A f \in File : file[f].ref =
       Cardinality({<<p, d>> \in FdProc \X Fd : ofile[p][d] = f}) +
       Cardinality(Pending(LAMBDA t : t.do = "fileclose" /\ t.obj = f)) +
       Cardinality(Pending(LAMBDA t : t.do \in {"pipe", "pipefds"} /\ \E i \in DOMAIN t.obj : t.obj[i] = f))

\* An end of a pipe is open as long as some file stands for it or its
\* pipeclose() is still to come, and no longer; so each end is closed once and
\* the page is not freed under a user.
PipeEndsExact ==
  \A k \in PipePage, w \in BOOLEAN :
    LET holders == Cardinality({f \in File : file[f].ref > 0 /\ file[f].type = "PIPE" /\
                                             file[f].obj = k /\ file[f].writable = w})
        closing == Cardinality(Pending(LAMBDA t : t.do = "pipeclose" /\ t.obj = k /\ t.flag = w))
        open == k \in DOMAIN pipes /\ IF w THEN pipes[k].writeopen ELSE pipes[k].readopen
    IN  holders + closing = IF open THEN 1 ELSE 0

\* Every open file, current directory and sys_open() in progress holds exactly
\* one reference to its inode, on every error path too.
InodeRefExact ==
  \A i \in Ip :
    iref[i] = Cardinality({f \in File : file[f].ref > 0 /\ file[f].type = "INODE" /\ file[f].obj = i}) +
              Cardinality(Pending(LAMBDA t : t.do \in {"open", "iput"} /\ t.obj = i)) +
              (IF i = RootIp THEN Cardinality({p \in cwd : ~\E j \in DOMAIN todo[p] : todo[p][j].do = "gone"}) ELSE 0)

\* Every count that fileclose(), filedup(), pipeclose(), iput() and their error
\* paths maintain is exact at every point of every system call.
CountsExact == FileTypeOK /\ RefExact /\ PipeEndsExact /\ InodeRefExact
=============================================================================
