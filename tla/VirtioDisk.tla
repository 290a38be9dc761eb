---------------------------- MODULE VirtioDisk -----------------------------
(* The disk driver (kernel/virtio_disk.c) against the device it drives.      *)
(* vdisk_lock makes virtio_disk_rw() one step up to each of its sleeps; the  *)
(* interrupt handler keeps the lock while the device goes on working, so it  *)
(* takes one step per turn of its loop and one for the acknowledgement.  The *)
(* device takes the heads of chains from the avail ring in order, serves     *)
(* them in any order and reports them in the used ring.  A ring slot that    *)
(* its consumer has read is set to Stale: nothing may rely on it any more.   *)
EXTENDS Naturals, FiniteSets, FiniteSetsExt

CONSTANTS
  NUM,       \* descriptors, and slots of each ring
  IdxMod,    \* modulus of the 16-bit ring indices
  DiskBuf,   \* bufs, each for its own block, used by whoever holds its lock
  DiskVal,
  DiskZero,  \* what every block holds at first
  Stale, Nobody

ASSUME DiskAssumption ==
  /\ NUM \in Nat /\ NUM >= 3
  /\ IdxMod \in Nat \ {0} /\ IdxMod % NUM = 0
  /\ Nobody \notin DiskBuf /\ DiskZero \in DiskVal

VARIABLES
  free,       \* disk.free[]
  desc,       \* disk.desc[]: what addr points to, next, VRING_DESC_F_NEXT
  infoB,      \* disk.info[].b
  availRing, availIdx,       \* disk.avail[2...] and disk.avail[1]
  usedElems, usedId,         \* disk.used->elems and disk.used->id
  used_idx,                  \* disk.used_idx
  rq,         \* per buf: where its user is in virtio_disk_rw(), and the request
  platter,    \* what the disk holds
  lastAvail, inflight, isr,  \* the device: next avail slot, chains taken, interrupt line
  handler,    \* where virtio_disk_intr() is
  vpanic      \* a panic() was called

drvVars == <<free, desc, infoB>>
ringVars == <<availRing, availIdx, usedElems, usedId, used_idx>>
devVars == <<platter, lastAvail, inflight, isr>>
diskVars == <<drvVars, ringVars, devVars, rq, handler, vpanic>>

Index == 0..(NUM - 1)
Blank == [addr |-> <<"none", Nobody>>, next |-> 0, more |-> FALSE]
NoRequest == [pc |-> "idle", write |-> FALSE, data |-> DiskZero, disk |-> 0, head |-> 0]

DiskInit ==
  /\ free = Index
  /\ desc = [i \in Index |-> Blank]
  /\ infoB = [i \in Index |-> Nobody]
  /\ availRing = [i \in Index |-> Stale] /\ availIdx = 0
  /\ usedElems = [i \in Index |-> Stale] /\ usedId = 0 /\ used_idx = 0
  /\ rq = [p \in DiskBuf |-> NoRequest]
  /\ platter = [p \in DiskBuf |-> DiskZero]
  /\ lastAvail = 0 /\ inflight = {} /\ isr = FALSE
  /\ handler = "off" /\ vpanic = FALSE

----------------------------------------------------------------------------
(* Descriptors *)

\* alloc_desc() three times: it always takes the lowest free index.
alloc3_desc ==
  LET lowest(S) == Min(S)
      a == lowest(free)
      b == lowest(free \ {a})
  IN  <<a, b, lowest(free \ {a, b})>>

\* Mutant: free_chain() stops after the first descriptor.
free_chain_head(i) == {i}

\* The descriptors free_chain() frees, following next while F_NEXT is set.
free_chain(i) ==
  LET j == desc[i].next
      k == desc[j].next
  IN  {i} \cup IF desc[i].more THEN {j} \cup (IF desc[j].more THEN {k} ELSE {}) ELSE {}

\* free_desc() calls wakeup(&disk.free[0]).
WakeFree(r) == [p \in DiskBuf |->
  IF r[p].pc = "nodesc" THEN [r[p] EXCEPT !.pc = "retry"] ELSE r[p]]

----------------------------------------------------------------------------
(* virtio_disk_rw *)

\* Where the next head goes in the avail ring.
AvailSlot == availIdx % NUM

\* What p asks for: bread() or bwrite() calls virtio_disk_rw(b, write) with the
\* sleeping lock of b, the only buf for its block; or it was woken to look for
\* descriptors again.
Request(p) ==
  IF rq[p].pc = "idle"
  THEN {[NoRequest EXCEPT !.write = w, !.data = v] : w \in {TRUE}, v \in DiskVal} \cup {NoRequest}
  ELSE IF rq[p].pc = "retry" THEN {rq[p]} ELSE {}

\* alloc3_desc() succeeds: format the chain, publish its head in the avail
\* ring, notify the device and sleep on the buf.
Submit(p) ==
  /\ handler = "off" /\ ~vpanic
  /\ Cardinality(free) >= 3
  /\ \E r \in Request(p) : LET x == alloc3_desc
     IN  /\ free' = free \ {x[1], x[2], x[3]}
         /\ desc' = [desc EXCEPT
              ![x[1]] = [addr |-> <<"header", p>>, next |-> x[2], more |-> TRUE],
              ![x[2]] = [addr |-> <<"data", p>>, next |-> x[3], more |-> TRUE],
              ![x[3]] = [addr |-> <<"status", p>>, next |-> 0, more |-> FALSE]]
         /\ infoB' = [infoB EXCEPT ![x[1]] = p]
         /\ availRing' = [availRing EXCEPT ![AvailSlot] = x[1]]
         /\ rq' = [rq EXCEPT ![p] = [r EXCEPT !.pc = "wait", !.disk = 1, !.head = x[1]]]
  /\ availIdx' = (availIdx + 1) % IdxMod
  /\ UNCHANGED <<usedElems, usedId, used_idx, devVars, handler, vpanic>>

\* alloc3_desc() fails: it gives back the descriptors it got, which clears
\* their addr and wakes everybody waiting for descriptors, and the process
\* goes to sleep itself.
NoDesc(p) ==
  /\ handler = "off" /\ ~vpanic
  /\ Cardinality(free) < 3
  /\ desc' = [i \in Index |-> IF i \in free THEN [desc[i] EXCEPT !.addr = Blank.addr] ELSE desc[i]]
  /\ \E r \in Request(p) : LET woken == IF free = {} THEN rq ELSE WakeFree(rq)
     IN  rq' = [woken EXCEPT ![p] = [r EXCEPT !.pc = "nodesc"]]
  /\ UNCHANGED <<free, infoB, ringVars, devVars, handler, vpanic>>

\* The sleeper finds b->disk = 0, frees the chain and returns; free_desc()
\* panics on a descriptor that is free already.
Finish(p) ==
  /\ rq[p].pc = "woken" /\ rq[p].disk = 0 /\ handler = "off" /\ ~vpanic
  /\ LET chain == free_chain(rq[p].head)
     IN  /\ infoB' = [infoB EXCEPT ![rq[p].head] = Nobody]
         /\ desc' = [i \in Index |-> IF i \in chain THEN [desc[i] EXCEPT !.addr = Blank.addr] ELSE desc[i]]
         /\ free' = free \cup chain
         /\ vpanic' = (chain \cap free # {})
  /\ rq' = [WakeFree(rq) EXCEPT ![p] = NoRequest]
  /\ UNCHANGED <<ringVars, devVars, handler>>

----------------------------------------------------------------------------
(* The device *)

\* It reads the next head from the avail ring.
DeviceTake ==
  /\ lastAvail # availIdx
  /\ inflight' = inflight \cup {availRing[lastAvail % NUM]}
  /\ availRing' = [availRing EXCEPT ![lastAvail % NUM] = Stale]
  /\ lastAvail' = (lastAvail + 1) % IdxMod
  /\ UNCHANGED <<drvVars, availIdx, usedElems, usedId, used_idx, platter, isr, rq, handler, vpanic>>

\* It serves a chain: reads the header through the first descriptor, moves
\* the data of the second, and reports the head in the used ring.
DeviceServe(h) ==
  /\ h \in inflight /\ h \in Index
  /\ LET p == desc[h].addr[2]
         q == desc[desc[h].next].addr[2]
     IN  /\ p # Nobody /\ q # Nobody
         /\ IF rq[p].write
            THEN platter' = [platter EXCEPT ![p] = rq[q].data] /\ UNCHANGED rq
            ELSE rq' = [rq EXCEPT ![q].data = platter[p]] /\ UNCHANGED platter
  /\ inflight' = inflight \ {h}
  /\ usedElems' = [usedElems EXCEPT ![usedId % NUM] = h]
  /\ usedId' = (usedId + 1) % IdxMod
  /\ isr' = TRUE
  /\ UNCHANGED <<drvVars, availRing, availIdx, used_idx, lastAvail, handler, vpanic>>

----------------------------------------------------------------------------
(* virtio_disk_intr *)

\* Mutant: the buf is not looked up through the reported head.
SomeBuf(id) == CHOOSE p \in DiskBuf : rq[p].pc = "wait"

\* disk.info[id].b for the id the device reported.
InfoBuf(id) == IF id \in Index THEN infoB[id] ELSE Nobody

\* The device interrupts while its line is up and no handler runs: the PLIC
\* passes the next interrupt only after plic_complete().
IntrEnter ==
  /\ isr /\ handler = "off" /\ ~vpanic
  /\ handler' = "loop"
  /\ UNCHANGED <<drvVars, ringVars, devVars, rq, vpanic>>

\* One turn of the loop: the buf of the reported chain is done, wake its
\* sleeper.  A head without a buf would be a null pointer.
IntrOne ==
  /\ handler = "loop" /\ ~vpanic
  /\ used_idx % NUM # usedId % NUM
  /\ LET p == InfoBuf(usedElems[used_idx])
     IN  IF p = Nobody THEN vpanic' = TRUE /\ UNCHANGED rq
         ELSE /\ rq' = [rq EXCEPT ![p].disk = 0, ![p].pc = "woken"]
              /\ UNCHANGED vpanic
  /\ usedElems' = [usedElems EXCEPT ![used_idx] = Stale]
  /\ used_idx' = (used_idx + 1) % NUM
  /\ UNCHANGED <<drvVars, availRing, availIdx, usedId, devVars, handler>>

\* The loop ends; the acknowledgement is a later access to the device.
IntrLast ==
  /\ handler = "loop" /\ ~vpanic
  /\ used_idx % NUM = usedId % NUM
  /\ handler' = "ack"
  /\ UNCHANGED <<drvVars, ringVars, devVars, rq, vpanic>>

\* INTERRUPT_ACK of what INTERRUPT_STATUS says lowers the line, whatever the
\* device has added to the used ring since the loop ended.
IntrAck ==
  /\ handler = "ack"
  /\ isr' = FALSE
  /\ handler' = "off"
  /\ UNCHANGED <<drvVars, ringVars, platter, lastAvail, inflight, rq, vpanic>>

----------------------------------------------------------------------------
Driver(p) == Submit(p) \/ NoDesc(p) \/ Finish(p)
Intr == IntrEnter \/ IntrOne \/ IntrLast \/ IntrAck

DiskNext ==
  \/ \E p \in DiskBuf : Driver(p)
  \/ DeviceTake
  \/ \E h \in Index : DeviceServe(h)
  \/ Intr

DiskSpec == DiskInit /\ [][DiskNext]_diskVars

\* Processes that can run are scheduled, handlers run to their end, and the
\* device serves what it is given.
DiskFairSpec ==
  /\ DiskSpec
  /\ \A p \in DiskBuf : WF_diskVars(rq[p].pc # "idle" /\ Driver(p))
  /\ WF_diskVars(DeviceTake) /\ WF_diskVars(Intr)
  /\ \A h \in Index : WF_diskVars(DeviceServe(h))

----------------------------------------------------------------------------
(* Properties *)

DiskTypeOK ==
  /\ free \subseteq Index
  /\ desc \in [Index -> [addr : ({"header", "data", "status"} \X DiskBuf) \cup {Blank.addr},
                         next : Index, more : BOOLEAN]]
  /\ infoB \in [Index -> DiskBuf \cup {Nobody}]
  /\ availRing \in [Index -> Index \cup {Stale}] /\ availIdx \in 0..(IdxMod - 1)
  /\ usedElems \in [Index -> Index \cup {Stale}] /\ usedId \in 0..(IdxMod - 1)
  /\ used_idx \in Index
  /\ rq \in [DiskBuf -> [pc : {"idle", "retry", "nodesc", "wait", "woken"},
                         write : BOOLEAN, data : DiskVal, disk : {0, 1}, head : Index]]
  /\ platter \in [DiskBuf -> DiskVal]
  /\ lastAvail \in 0..(IdxMod - 1) /\ inflight \subseteq Index /\ isr \in BOOLEAN
  /\ handler \in {"off", "loop", "ack"} /\ vpanic \in BOOLEAN

DiskBusy(p) == rq[p].pc \in {"wait", "woken"}

\* virtio_disk_rw() and virtio_disk_intr(): a descriptor is either free or in
\* the chain of exactly one request, and every request's chain has its own
\* header, buffer and status, whatever order the device completes them in.
ChainsApart ==
  /\ \A p \in DiskBuf : DiskBusy(p) =>
       LET h == rq[p].head  d == desc[h].next  s == desc[d].next
       IN  /\ desc[h].addr = <<"header", p>> /\ desc[d].addr = <<"data", p>>
           /\ desc[s].addr = <<"status", p>> /\ infoB[h] = p
           /\ free_chain(h) = {h, d, s} /\ Cardinality({h, d, s}) = 3
           /\ free_chain(h) \cap free = {}
           /\ \A q \in DiskBuf \ {p} : DiskBusy(q) => free_chain(h) \cap free_chain(rq[q].head) = {}
  /\ Index \ free = UNION {free_chain(rq[p].head) : p \in {q \in DiskBuf : DiskBusy(q)}}

\* A waiting request is in exactly one place: the avail ring, the device, or
\* the used ring; one whose sleeper was woken is in none of them, so the
\* handler never meets a chain that was freed (no panic, no null buf).
CompletedOnce ==
  /\ ~vpanic
  /\ \A p \in DiskBuf : DiskBusy(p) =>
       Cardinality({i \in Index : availRing[i] = rq[p].head}) +
       Cardinality({i \in Index : usedElems[i] = rq[p].head}) +
       Cardinality({h \in inflight : h = rq[p].head}) = rq[p].disk

\* Nobody sleeps in virtio_disk_rw() for something that already happened: not
\* on a buf the disk is done with, nor for descriptors while three are free.
DiskNoLostWakeup ==
  \A p \in DiskBuf :
    /\ rq[p].pc = "wait" => rq[p].disk = 1
    /\ rq[p].pc = "nodesc" => Cardinality(free) < 3

\* The three together: the driver's descriptors, the two rings and the sleeping
\* processes always agree.
RingsExact == DiskTypeOK /\ ChainsApart /\ CompletedOnce /\ DiskNoLostWakeup

\* When virtio_disk_rw() returns, the disk and the buf hold the same contents:
\* the request it submitted was served, with its own buffer and block.
TransferDone ==
  [][\A p \in DiskBuf : (rq[p].pc = "woken" /\ rq'[p].pc = "idle") =>
       platter[p] = rq[p].data]_diskVars

\* "Wait for virtio_disk_intr() to say request has finished": every submitted
\* request is finished some day.
RequestFinishes == \A p \in DiskBuf : (rq[p].pc = "wait") ~> (rq[p].pc = "idle")
=============================================================================
