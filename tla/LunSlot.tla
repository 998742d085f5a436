------------------------------ MODULE LunSlot ------------------------------
(***************************************************************************)
(* The slots of sce->luntbl, one load or store at a time.  Module Sce      *)
(* makes sce_addlun one step that excludes a purge.  In the code it holds  *)
(* sce->lock, and the purge that the last task of a LUN runs holds         *)
(* lun->lock, so they meet on the slot and on sce->nr_lun.                 *)
(*                                                                         *)
(* LUNs are registered and removed under ctl_mtx, by one thread at a time, *)
(* "ctl".  _unload_hdd has waited for the reads when it removes a LUN, so  *)
(* tasks are the only users it can have then.  Fragments are in Sce.       *)
(***************************************************************************)
EXTENDS Integers, FiniteSets

CONSTANTS
    Task,    \* threads of the PDM
    NrSlot,  \* SCE_MAXLUN
    Word     \* nr_lun and nr_service are counted modulo this, 2^32

ASSUME SlotAssumption ==
    /\ IsFiniteSet(Task) /\ Task \cap {"ctl", "none", "stuck"} = {}
    /\ NrSlot \in Nat \ {0}
    /\ Word \in Nat /\ Word > NrSlot /\ Word > Cardinality(Task)

Slot == 1 .. NrSlot
Thread == Task \cup {"ctl"}

VARIABLES
    at,          \* the load or store each thread does next
    slot,        \* the slot it works on
    seen,        \* the value of nr_lun it has loaded
    using,       \* the slots that tasks have taken a count of
    handle,      \* the LUNs that are registered: sce_addlun returned them
    field,       \* which of fragmap, size and lunctx of a lun_t are not zero
    nrService,   \* lun->nr_service
    deleting,    \* the LUNs with waiting4deletion
    nrLun,       \* sce->nr_lun
    sceLock,     \* the holder of sce->lock
    lunLock,     \* the holder of each lun->lock
    overlapped,  \* history: a slot was taken while its purge was under way
    lostUpdate   \* history: nr_lun was loaded between a load and a store of it

threadvars == <<at, slot, seen>>
countvars == <<nrService, nrLun>>
lockvars == <<sceLock, lunLock>>
slotvars == <<threadvars, using, handle, field, countvars, deleting, lockvars,
              overlapped, lostUpdate>>

\* size stands for nr_sctr and nr_frag, stored one after the other.
AllFields == {"fragmap", "size", "lunctx"}
Wiping == {"wipe_map", "wipe_ctx", "wipe_size", "wipe_svc", "wipe_wait", "dec", "dec_store"}
Purges(t, s) == at[t] \in Wiping \cup {"purge"} /\ slot[t] = s
Users(s) == {t \in Task : using[t] = s}

SlotInit ==
    /\ at = [t \in Thread |-> "idle"] /\ slot = [t \in Thread |-> 1]
    /\ seen = [t \in Thread |-> 0]
    /\ using = [t \in Task |-> 0] /\ handle = {}
    /\ field = [s \in Slot |-> {}] /\ nrService = [s \in Slot |-> 0] /\ deleting = {}
    /\ nrLun = 0
    /\ sceLock = "none" /\ lunLock = [s \in Slot |-> "none"]
    /\ overlapped = FALSE /\ lostUpdate = FALSE

Move(t, from, to) == at[t] = from /\ at' = [at EXCEPT ![t] = to]
\* The call returns; what the thread knew is forgotten.
Leaves(t) ==
    /\ at' = [at EXCEPT ![t] = "idle"] /\ slot' = [slot EXCEPT ![t] = 1]
    /\ seen' = [seen EXCEPT ![t] = 0]

(***************************************************************************)
(* sce_addlun: the first slot without a fragmap, then _lun_init.  scehndl  *)
(* is cleared before fragmap and set after it was seen clear, so it cannot *)
(* be lost, and is left out.                                               *)
(***************************************************************************)
AddStart ==
    /\ Move("ctl", "idle", "scan")
    /\ sceLock = "none" /\ sceLock' = "ctl"
    /\ UNCHANGED <<slot, seen, using, handle, field, countvars, deleting, lunLock, overlapped>>

AddFail == Leaves("ctl") /\ sceLock' = "none"

\* Mutant: the slot of a LUN that waits for its deletion is taken.
EmptyOrGoing(s) == "fragmap" \notin field[s] \/ s \in deleting

Empty(s) == "fragmap" \notin field[s]

AddScan ==
    LET s == slot["ctl"]
    IN  /\ at["ctl"] = "scan"
        /\ \/ /\ Empty(s) /\ Move("ctl", "scan", "lock")
              /\ overlapped' = (overlapped \/ \E t \in Thread : Purges(t, s))
              /\ UNCHANGED <<slot, seen, sceLock>>
           \/ /\ ~Empty(s) /\ s < NrSlot
              /\ slot' = [slot EXCEPT !["ctl"] = s + 1]
              /\ UNCHANGED <<at, seen, sceLock, overlapped>>
           \/ ~Empty(s) /\ s = NrSlot /\ AddFail /\ UNCHANGED overlapped
        /\ UNCHANGED <<using, handle, field, countvars, deleting, lunLock>>

\* spin_lock_init: the lock is free, whoever holds it.
AddLock ==
    /\ Move("ctl", "lock", "size")
    /\ lunLock' = [lunLock EXCEPT ![slot["ctl"]] = "none"]
    /\ UNCHANGED <<slot, seen, using, handle, field, countvars, deleting, sceLock, overlapped>>

Fill(f) == field' = [field EXCEPT ![slot["ctl"]] = @ \cup {f}]

AddSize ==
    /\ Move("ctl", "size", "map")
    /\ Fill("size")
    /\ UNCHANGED <<slot, seen, using, handle, countvars, deleting, lockvars, overlapped>>

\* vmalloc may fail.
AddMap ==
    /\ at["ctl"] = "map"
    /\ \/ Move("ctl", "map", "ctx") /\ Fill("fragmap") /\ UNCHANGED <<slot, seen, sceLock>>
       \/ AddFail /\ UNCHANGED field
    /\ UNCHANGED <<using, handle, countvars, deleting, lunLock, overlapped>>

AddCtx ==
    /\ Move("ctl", "ctx", "inc")
    /\ Fill("lunctx")
    /\ UNCHANGED <<slot, seen, using, handle, countvars, deleting, lockvars, overlapped>>

\* nr_lun++ and nr_lun-- are a load and a store each.
LoadNrLun(t) ==
    /\ Move(t, "inc", "inc_store") \/ Move(t, "dec", "dec_store")
    /\ seen' = [seen EXCEPT ![t] = nrLun]
    /\ UNCHANGED <<slot, using, handle, field, countvars, deleting, lockvars, overlapped>>

AddDone ==
    /\ at["ctl"] = "inc_store" /\ Leaves("ctl")
    /\ nrLun' = (seen["ctl"] + 1) % Word
    /\ sceLock' = "none"
    /\ handle' = handle \cup {slot["ctl"]}
    /\ UNCHANGED <<using, field, nrService, deleting, lunLock, overlapped>>

(***************************************************************************)
(* sce_rmlun, and _lun_purge with _lun_destroy.                            *)
(***************************************************************************)
\* Who unlocks a lock that is not his frees it, or, where the lock gives
\* out tickets, moves it on beyond the ticket of the next in line.
Free(t) ==
    /\ Leaves(t)
    /\ \E x \in {"none", "stuck"} :
        /\ lunLock[slot[t]] = t => x = "none"
        /\ lunLock' = [lunLock EXCEPT ![slot[t]] = x]
    /\ sceLock' = IF t = "ctl" THEN "none" ELSE sceLock

RmLun(s) ==
    /\ at["ctl"] = "idle"
    /\ sceLock = "none" /\ lunLock[s] = "none"
    /\ s \in handle /\ handle' = handle \ {s}
    /\ \/ /\ ~Empty(s) /\ nrService[s] > 0
          /\ deleting' = deleting \cup {s}
          /\ UNCHANGED <<at, slot, lockvars>>
       \/ /\ ~Empty(s) /\ nrService[s] = 0
          /\ Move("ctl", "idle", "purge") /\ slot' = [slot EXCEPT !["ctl"] = s]
          /\ sceLock' = "ctl" /\ lunLock' = [lunLock EXCEPT ![s] = "ctl"]
          /\ UNCHANGED deleting
       \/ Empty(s) /\ UNCHANGED <<at, slot, deleting, lockvars>>
    /\ UNCHANGED <<seen, using, field, countvars, overlapped>>

PurgeCheck(t) ==
    LET may == nrService[slot[t]] = 0 /\ nrLun # 0
    IN  /\ at[t] = "purge"
        /\ \/ may /\ Move(t, "purge", "wipe_map") /\ UNCHANGED <<slot, seen, lockvars>>
           \/ ~may /\ Free(t)
        /\ UNCHANGED <<using, handle, field, countvars, deleting, overlapped>>

Zero(t, f) == field' = [field EXCEPT ![slot[t]] = @ \ {f}]

Wipe(t) ==
    /\ \/ /\ \/ Move(t, "wipe_map", "wipe_ctx") /\ Zero(t, "fragmap")
             \/ Move(t, "wipe_ctx", "wipe_size") /\ Zero(t, "lunctx")
             \/ Move(t, "wipe_size", "wipe_svc") /\ Zero(t, "size")
          /\ UNCHANGED <<nrService, deleting>>
       \/ /\ Move(t, "wipe_svc", "wipe_wait")
          /\ nrService' = [nrService EXCEPT ![slot[t]] = 0]
          /\ UNCHANGED <<field, deleting>>
       \/ /\ Move(t, "wipe_wait", "dec")
          /\ deleting' = deleting \ {slot[t]}
          /\ UNCHANGED <<field, nrService>>
    /\ UNCHANGED <<slot, seen, using, handle, nrLun, lockvars, overlapped>>

PurgeDone(t) ==
    /\ at[t] = "dec_store"
    /\ nrLun' = (seen[t] - 1) % Word
    /\ Free(t)
    /\ UNCHANGED <<using, handle, field, nrService, deleting, overlapped>>

(***************************************************************************)
(* A task.  sce_get4pop holds both locks; sce_put4pop finds the LUN by its *)
(* context and holds lun->lock, also in the purge that may follow.  A task *)
(* that is given no context crashes: it is not followed.                   *)
(***************************************************************************)
TaskGet(t, s) ==
    /\ at[t] = "idle" /\ using[t] = 0
    /\ sceLock = "none" /\ lunLock[s] = "none"
    /\ field[s] = AllFields /\ s \notin deleting
    /\ using' = [using EXCEPT ![t] = s]
    /\ nrService' = [nrService EXCEPT ![s] = (@ + 1) % Word]
    /\ UNCHANGED <<threadvars, handle, field, deleting, nrLun, lockvars, overlapped>>

\* Mutant: _lun_gc looks at the count before it is decremented.
TaskPutChecksFirst(t) ==
    LET s == using[t]
        last == s \in deleting /\ nrService[s] = 0
    IN  /\ at[t] = "idle" /\ s # 0 /\ lunLock[s] = "none"
        /\ using' = [using EXCEPT ![t] = 0]
        /\ nrService' = [nrService EXCEPT ![s] = (@ - 1) % Word]
        /\ \/ /\ last /\ Move(t, "idle", "purge") /\ slot' = [slot EXCEPT ![t] = s]
              /\ lunLock' = [lunLock EXCEPT ![s] = t]
           \/ ~last /\ UNCHANGED <<at, slot, lunLock>>
        /\ UNCHANGED <<seen, handle, field, deleting, nrLun, sceLock, overlapped>>

TaskPut(t) ==
    LET s == using[t]
        last == s \in deleting /\ nrService'[s] = 0
    IN  /\ at[t] = "idle" /\ s # 0
        /\ using' = [using EXCEPT ![t] = 0]
        /\ \/ /\ "lunctx" \notin field[s] \/ (lunLock[s] = "none" /\ field[s] # AllFields)
              /\ UNCHANGED <<nrService, at, slot, lunLock>>
           \/ /\ field[s] = AllFields /\ lunLock[s] = "none"
              /\ nrService' = [nrService EXCEPT ![s] = (@ - 1) % Word]
              /\ \/ /\ last /\ Move(t, "idle", "purge") /\ slot' = [slot EXCEPT ![t] = s]
                    /\ lunLock' = [lunLock EXCEPT ![s] = t]
                 \/ ~last /\ UNCHANGED <<at, slot, lunLock>>
        /\ UNCHANGED <<seen, handle, field, deleting, nrLun, sceLock, overlapped>>

SlotNext ==
    /\ \/ AddStart \/ AddScan \/ AddLock \/ AddSize \/ AddMap \/ AddCtx \/ AddDone
       \/ \E t \in Thread : LoadNrLun(t) \/ PurgeCheck(t) \/ Wipe(t) \/ PurgeDone(t)
       \/ \E s \in Slot : RmLun(s)
       \/ \E t \in Task : TaskPut(t) \/ \E s \in Slot : TaskGet(t, s)
    /\ lostUpdate' = (lostUpdate \/ \E t, u \in Thread :
                          t # u /\ {at'[t], at'[u]} \subseteq {"inc_store", "dec_store"})

SlotSpec == SlotInit /\ [][SlotNext]_slotvars
-----------------------------------------------------------------------------
\* A registered LUN keeps its map, its size and its context until it is
\* removed, unless sce_addlun took a slot whose purge was still under way.
RegisteredIsWhole == ~overlapped => \A s \in handle : field[s] = AllFields

\* The LUN was removed, nobody uses it, and nobody is about to purge it.
Abandoned(s) ==
    /\ ~Empty(s) /\ s \notin handle /\ Users(s) = {}
    /\ \A t \in Thread : at[t] # "idle" => slot[t] # s

\* A removed LUN is purged by sce_rmlun or by the last of its tasks, unless
\* an update of nr_lun was lost: _lun_purge refuses when nr_lun is zero.
RemovedIsPurged == ~overlapped /\ ~lostUpdate => \A s \in Slot : ~Abandoned(s)
=============================================================================
