------------------------------ MODULE Coherence ------------------------------
(***************************************************************************)
(* Does a cache hit return what is on the disk?  The engine of module Sce  *)
(* together with writes to the HDD.  iostash_mkrequest invalidates the     *)
(* cached pages when a write is SUBMITTED and then hands the write to the  *)
(* disk; the data reaches the disk some time later, and meanwhile reads,   *)
(* populations and other writes go on.                                     *)
(*                                                                         *)
(* Data is abstracted to one bit per page: does this copy equal the disk?  *)
(* Slot l of the LUN table stands for one disk throughout, and the target  *)
(* is a whole disk (part_start = 0).                                       *)
(***************************************************************************)
EXTENDS Sce

CONSTANT Writer   \* writes that may be in flight (bound)

VARIABLES
    wr,        \* <<lun, first sector, last sector>> of a write in flight
    fresh,     \* pages of a physical fragment that equal the disk
    buf,       \* pages of a task's fragbuf that equal the disk
    late,      \* history: pages under a write submitted before the mapping
    unhooked   \* history: pages under a write that skipped the hook

cvars == <<vars, wr, fresh, buf, late, unhooked>>

CInit ==
    /\ Init
    /\ wr = [w \in Writer |-> None]
    /\ fresh = [p \in Pfid |-> {}]
    /\ buf = [t \in Task |-> {}]
    /\ late = [lf \in LF |-> {}]
    /\ unhooked = [lf \in LF |-> {}]

\* What is known of a mapping lasts as long as the mapping.
FreshAs(h) == fresh' = [p \in Pfid |-> IF owner'[p] = None THEN {} ELSE h[p]]
History ==
    /\ late' = [lf \in LF |-> IF map'[lf] = None THEN {} ELSE late[lf]]
    /\ unhooked' = [lf \in LF |-> IF map'[lf] = None THEN {} ELSE unhooked[lf]]

\* The check of iostash_mkrequest that keeps a request inside the target:
\* part_end is nr_sctr - 1 and psn + nr_sctr must not exceed it.
PassesHook(l, b) == b + 1 <= size[l] - 1

\* A write is submitted: hooked ones invalidate, then the disk gets it.
SubmitHooked(w, l, a, b) ==
    /\ wr[w] = None
    /\ PassesHook(l, b)
    /\ Invalidate(l, a, b)
    /\ wr' = [wr EXCEPT ![w] = <<l, a, b>>]
    /\ FreshAs(fresh) /\ History
    /\ UNCHANGED buf

\* sce_invalidate does nothing on a LUN that waits for its deletion, and
\* the hook lets a request through that it takes to be out of bounds.
SubmitUnhooked(w, l, a, b) ==
    /\ wr[w] = None
    /\ a <= b /\ b < size[l]
    /\ ~PassesHook(l, b) \/ ~Serviceable(l)
    /\ wr' = [wr EXCEPT ![w] = <<l, a, b>>]
    /\ unhooked' = [lf \in LF |-> IF lf[1] = l /\ map[lf] # None
                                  THEN unhooked[lf] \cup PagesOf(lf[2], a, b)
                                  ELSE unhooked[lf]]
    /\ UNCHANGED <<vars, fresh, buf, late>>

Under(lf, w) ==
    IF wr[w] # None /\ wr[w][1] = lf[1] THEN PagesOf(lf[2], wr[w][2], wr[w][3]) ELSE {}

\* The disk has the new data: every other copy of those pages is now old.
Land(w) ==
    /\ wr[w] # None
    /\ wr' = [wr EXCEPT ![w] = None]
    /\ fresh' = [p \in Pfid |-> IF owner[p] = None THEN fresh[p]
                                ELSE fresh[p] \ Under(owner[p], w)]
    /\ buf' = [t \in Task |-> IF ulf[t] = None THEN buf[t]
                              ELSE buf[t] \ Under(ulf[t], w)]
    /\ UNCHANGED <<vars, late, unhooked>>

\* A new mapping starts without history, except for the writes in flight.
StartMapping(t, p) ==
    /\ FreshAs([fresh EXCEPT ![p] = {}])
    /\ late' = [lf \in LF |-> IF lf = ulf[t] THEN UNION {Under(lf, w) : w \in Writer}
                              ELSE IF map'[lf] = None THEN {} ELSE late[lf]]
    /\ unhooked' = [lf \in LF |-> IF lf = ulf[t] \/ map'[lf] = None THEN {} ELSE unhooked[lf]]
    /\ UNCHANGED <<wr, buf>>

\* poptask_read: the buffer now holds what the disk holds.
Fill(t) ==
    /\ PopRead(t)
    /\ buf' = [buf EXCEPT ![t] = Page]
    /\ FreshAs(fresh) /\ History
    /\ UNCHANGED wr

\* poptask_write and sce_put4pop: the fragment now holds the buffer.
Store(t) ==
    /\ PutPopOk(t)
    /\ buf' = [buf EXCEPT ![t] = {}]
    /\ FreshAs([fresh EXCEPT ![upf[t]] = buf[t]]) /\ History
    /\ UNCHANGED wr

StoreFailed(t) ==
    /\ PutPopFailed(t)
    /\ buf' = [buf EXCEPT ![t] = {}]
    /\ FreshAs(fresh) /\ History
    /\ UNCHANGED wr

CNext ==
    \/ /\ \/ \E c \in Cdev : AddCdev(c)
          \/ \E l \in Lun : RmLun(l) \/ \E s \in LunSize : AddLun(l, s)
          \/ \E l \in Lun, a, b \in Sctr, r \in Reader, f \in Frag : GetRead(r, l, f, a, b)
          \/ \E r \in Reader : PutRead(r) \/ ReadError(r)
          \/ \E t \in Task : \/ \E lf \in LF : Choose(t, lf)
                             \/ AllocFail(t) \/ PopReadError(t)
       /\ FreshAs(fresh) /\ History
       /\ UNCHANGED <<wr, buf>>
    \/ \E t \in Task, p \in Pfid : (AllocFree(t, p) \/ AllocEvict(t, p)) /\ StartMapping(t, p)
    \/ \E t \in Task : Fill(t) \/ Store(t) \/ StoreFailed(t)
    \/ \E w \in Writer : \/ Land(w)
                         \/ \E l \in Lun, a, b \in Sctr :
                               SubmitHooked(w, l, a, b) \/ SubmitUnhooked(w, l, a, b)

CSpec == CInit /\ [][CNext]_cvars
-----------------------------------------------------------------------------
\* Pages of lf that a read could be served from the cache.
Readable(lf) == Page \ bitmap[map[lf]]

\* Type invariant.
CTypeOK ==
    /\ TypeOK
    /\ wr \in [Writer -> (Lun \X Sctr \X Sctr) \cup {None}]
    /\ fresh \in [Pfid -> SUBSET Page]
    /\ buf \in [Task -> SUBSET Page]
    /\ late \in [LF -> SUBSET Page]
    /\ unhooked \in [LF -> SUBSET Page]

\* A page a read can be served from equals the disk, whatever the order in
\* which populations, writes, evictions and collections happened, unless a
\* write to it was already on its way when the fragment was mapped, or went
\* to the disk without passing the hook.
CoherentButForRaces ==
    \A lf \in valid : Readable(lf) \subseteq fresh[map[lf]] \cup late[lf] \cup unhooked[lf]

\* The same without the first excuse: "transparently cache" (README) asks
\* for this of every write that passes the hook.
CoherentButForUnhooked ==
    \A lf \in valid : Readable(lf) \subseteq fresh[map[lf]] \cup unhooked[lf]
=============================================================================
