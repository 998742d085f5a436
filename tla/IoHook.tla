------------------------------- MODULE IoHook -------------------------------
(***************************************************************************)
(* The life of a read that hits the cache (iostash_iohook.c), from         *)
(* iostash_mkrequest through the worker, the clone sent to the SSD, the    *)
(* retry on the HDD, to the completion of the original bio; and the        *)
(* removal of the target meanwhile (_unload_hdd).                          *)
(*                                                                         *)
(* struct iostash_bio lives as long as its io_pending count: every piece   *)
(* of code that works on it adds to the count and ends with _dec_pending,  *)
(* and the one that brings it to zero completes the original bio and frees *)
(* the struct.  "owes" counts the _dec_pending calls that code now running *)
(* has still to make; each is a step of its own, so completions, the       *)
(* worker and the submitter interleave at every decrement.                 *)
(*                                                                         *)
(* The cache engine is seen as the pin sce_get4read takes.  Kernels after  *)
(* 3.1: a target that is removed stays in the table, marked offline.       *)
(***************************************************************************)
EXTENDS Integers, FiniteSets

CONSTANTS
    Io,         \* reads that may be submitted (bound)
    Faults,     \* which of "ssd", "hdd", "mem" can fail
    NewKernel,  \* built for 4.2 or later: bio_endio takes no error
    Removal     \* may the target be removed?

ASSUME IoHookAssumption ==
    /\ IsFiniteSet(Io)
    /\ Faults \subseteq {"ssd", "hdd", "mem"}
    /\ NewKernel \in BOOLEAN /\ Removal \in BOOLEAN

VARIABLES
    spc,        \* what the submitter of the read is doing
    alive,      \* requests with a struct iostash_bio
    pending,    \* iostash_bio.io_pending
    owes,       \* _dec_pending calls still to be made by running code
    work,       \* requests on hdd->io_queue
    clones,     \* clones in flight, <<request, device>>
    failed,     \* requests with iostash_bio.error set
    pin,        \* sce_get4read's pins not yet put
    good,       \* history: requests whose data has been read
    ended,      \* how the original bio was completed, or "no"
    mishap,     \* history: what befell a request: "error" (SSD), "nomem",
                \* "flow" (sent to the HDD at once), "late" (see Submit)
    hddOnline, hddRef, hddPending,   \* hdd_info
    ssdOnline, ssdRef,               \* ssd_info
    unload      \* how far _unload_hdd has come

iovars  == <<pending, owes, work, clones, failed, good>>
endvars == <<alive, ended, hddPending, ssdRef>>
vars == <<spc, iovars, endvars, pin, mishap, hddOnline, hddRef, ssdOnline, unload>>

Init ==
    /\ spc = [i \in Io |-> "idle"]
    /\ alive = {} /\ work = {} /\ clones = {} /\ failed = {} /\ good = {}
    /\ pending = [i \in Io |-> 0] /\ owes = [i \in Io |-> 0]
    /\ pin = [i \in Io |-> 0] /\ mishap = [i \in Io |-> {}]
    /\ ended = [i \in Io |-> "no"]
    /\ hddOnline = TRUE /\ hddRef = 0 /\ hddPending = 0
    /\ ssdOnline = TRUE /\ ssdRef = 0
    /\ unload = "no"

Befalls(i, m) == [mishap EXCEPT ![i] = @ \cup {m}]

(***************************************************************************)
(* Submitter: iostash_mkrequest.                                           *)
(***************************************************************************)
\* The target is found and referenced, under RCU.
Enter(i) ==
    /\ spc[i] = "idle"
    /\ spc' = [spc EXCEPT ![i] = "entered"]
    /\ hddRef' = hddRef + 1
    /\ UNCHANGED <<mishap, iovars, endvars, pin, hddOnline, ssdOnline, unload>>

\* The request goes to the disk's own make_request function.
Bypass(i) ==
    /\ spc' = [spc EXCEPT ![i] = "bypass"]
    /\ hddRef' = hddRef - 1

CheckOnline(i) ==
    /\ spc[i] = "entered"
    /\ \/ hddOnline /\ spc' = [spc EXCEPT ![i] = "routed"] /\ UNCHANGED hddRef
       \/ ~hddOnline /\ Bypass(i)
    /\ UNCHANGED <<mishap, iovars, endvars, pin, hddOnline, ssdOnline, unload>>

\* sce_get4read misses, or hits on an SSD that is not online or too limited:
\* then the pin is put again.
Miss(i) ==
    /\ spc[i] = "routed"
    /\ Bypass(i)
    /\ UNCHANGED <<mishap, iovars, endvars, pin, hddOnline, ssdOnline, unload>>

\* sce_get4read hits; the SSD is referenced, _io_alloc, _io_queue.  A read is
\* late when _unload_hdd has already waited for hdd->io_pending and waits for
\* hdd->nr_ref.
Submit(i) ==
    /\ spc[i] = "routed"
    /\ ssdOnline
    /\ spc' = [spc EXCEPT ![i] = "queued"]
    /\ pin' = [pin EXCEPT ![i] = 1]
    /\ ssdRef' = ssdRef + 1
    /\ hddPending' = hddPending + 1
    /\ alive' = alive \cup {i}
    /\ work' = work \cup {i}
    /\ mishap' = IF unload = "nopending" THEN Befalls(i, "late") ELSE mishap
    /\ UNCHANGED <<pending, owes, clones, failed, good, ended,
                   hddOnline, hddRef, ssdOnline, unload>>

\* _io_alloc fails after the hit: nobody puts the fragment.
SubmitNoMem(i) ==
    /\ "mem" \in Faults
    /\ spc[i] = "routed" /\ ssdOnline
    /\ Bypass(i)
    /\ pin' = [pin EXCEPT ![i] = 1]
    /\ mishap' = Befalls(i, "nomem")
    /\ UNCHANGED <<iovars, endvars, hddOnline, ssdOnline, unload>>

\* "lose the reference to hdd, not needed anymore"
Leave(i) ==
    /\ spc[i] = "queued"
    /\ spc' = [spc EXCEPT ![i] = "left"]
    /\ hddRef' = hddRef - 1
    /\ UNCHANGED <<mishap, iovars, endvars, pin, hddOnline, ssdOnline, unload>>

(***************************************************************************)
(* _io_worker.                                                             *)
(***************************************************************************)
\* _inc_pending for the worker itself and for the n clones it submits.
StartWork(i, n) ==
    /\ i \in work
    /\ work' = work \ {i}
    /\ pending' = [pending EXCEPT ![i] = @ + 1 + n]
    /\ owes' = [owes EXCEPT ![i] = @ + 1]

WorkSsd(i) ==
    /\ i \notin failed /\ ssdOnline
    /\ StartWork(i, 1)
    /\ clones' = clones \cup {<<i, "ssd">>}
    /\ UNCHANGED <<mishap, failed, good, endvars, spc,
                   pin, hddOnline, hddRef, ssdOnline, unload>>

\* The retry, or the first trial when the SSD went offline since Submit.
WorkHdd(i) ==
    /\ i \in failed \/ ~ssdOnline
    /\ StartWork(i, 1)
    /\ clones' = clones \cup {<<i, "hdd">>}
    /\ pin' = IF i \in failed THEN pin ELSE [pin EXCEPT ![i] = @ - 1]
    /\ mishap' = IF i \in failed THEN mishap ELSE Befalls(i, "flow")
    /\ UNCHANGED <<failed, good, endvars, spc,
                   hddOnline, hddRef, ssdOnline, unload>>

\* A clone cannot be allocated: the one for the SSD, or the one for the HDD,
\* before which an offline SSD has made the worker put the fragment.
WorkNoMem(i) ==
    /\ "mem" \in Faults
    /\ StartWork(i, 0)
    /\ failed' = failed \cup {i}
    /\ \/ UNCHANGED pin
       \/ i \notin failed /\ ~ssdOnline /\ pin' = [pin EXCEPT ![i] = @ - 1]
    /\ mishap' = Befalls(i, "nomem")
    /\ UNCHANGED <<clones, good, endvars, spc,
                   hddOnline, hddRef, ssdOnline, unload>>

(***************************************************************************)
(* _endio4read.                                                            *)
(***************************************************************************)
SsdOk(i) ==
    /\ <<i, "ssd">> \in clones
    /\ clones' = clones \ {<<i, "ssd">>}
    /\ failed' = failed \ {i}
    /\ good' = good \cup {i}
    /\ pin' = [pin EXCEPT ![i] = @ - 1]
    /\ owes' = [owes EXCEPT ![i] = @ + 1]
    /\ UNCHANGED <<mishap, pending, work, endvars,
                   spc, hddOnline, hddRef, ssdOnline, unload>>

\* Mutant: the request is queued again without a count of its own.
SsdErrorUncounted(i) ==
    /\ "ssd" \in Faults
    /\ <<i, "ssd">> \in clones
    /\ clones' = clones \ {<<i, "ssd">>}
    /\ failed' = failed \cup {i}
    /\ ssdOnline' \in IF NewKernel THEN {FALSE} ELSE BOOLEAN
    /\ work' = work \cup {i}
    /\ owes' = [owes EXCEPT ![i] = @ + 1]
    /\ mishap' = Befalls(i, "error")
    /\ UNCHANGED <<pending, good, pin, endvars, spc, hddOnline, hddRef, unload>>

\* "to prevent io from releasing" the count goes up before the retry.  The
\* SSD is marked offline; before 4.2 a clone that is merely not up to date
\* marks it online instead.
SsdError(i) ==
    /\ "ssd" \in Faults
    /\ <<i, "ssd">> \in clones
    /\ clones' = clones \ {<<i, "ssd">>}
    /\ failed' = failed \cup {i}
    /\ ssdOnline' \in IF NewKernel THEN {FALSE} ELSE BOOLEAN
    /\ pending' = [pending EXCEPT ![i] = @ + 1]
    /\ work' = work \cup {i}
    /\ owes' = [owes EXCEPT ![i] = @ + 1]
    /\ mishap' = Befalls(i, "error")
    /\ UNCHANGED <<good, pin, endvars, spc, hddOnline, hddRef, unload>>

\* Mutant: the count taken for the retry is never given back.
HddDoneOnce(i) ==
    /\ <<i, "hdd">> \in clones
    /\ clones' = clones \ {<<i, "hdd">>}
    /\ \/ failed' = failed \ {i} /\ good' = good \cup {i}
       \/ "hdd" \in Faults /\ failed' = failed \cup {i} /\ UNCHANGED good
    /\ owes' = [owes EXCEPT ![i] = @ + 1]
    /\ UNCHANGED <<mishap, pending, work, endvars, spc,
                   pin, hddOnline, hddRef, ssdOnline, unload>>

\* A clone read from the HDD is taken to be a retry: two decrements follow.
HddDone(i) ==
    /\ <<i, "hdd">> \in clones
    /\ clones' = clones \ {<<i, "hdd">>}
    /\ \/ failed' = failed \ {i} /\ good' = good \cup {i}
       \/ "hdd" \in Faults /\ failed' = failed \cup {i} /\ UNCHANGED good
    /\ owes' = [owes EXCEPT ![i] = @ + 2]
    /\ UNCHANGED <<mishap, pending, work, endvars, spc,
                   pin, hddOnline, hddRef, ssdOnline, unload>>

(***************************************************************************)
(* _dec_pending.                                                           *)
(***************************************************************************)
\* Mutant: the original bio is completed without its error.
EndResultLost(i) == "ok"

\* From kernel 4.2 on the error of the request is dropped.
EndResult(i) == IF i \in failed /\ ~NewKernel THEN "error" ELSE "ok"

\* Mutant: the SSD keeps the reference.
ReleaseKeepsSsd(i) ==
    /\ alive' = alive \ {i}
    /\ ended' = [ended EXCEPT ![i] = EndResult(i)]
    /\ hddPending' = hddPending - 1
    /\ UNCHANGED ssdRef

\* Mutant: the HDD keeps the count of the request.
ReleaseKeepsHdd(i) ==
    /\ alive' = alive \ {i}
    /\ ended' = [ended EXCEPT ![i] = EndResult(i)]
    /\ ssdRef' = ssdRef - 1
    /\ UNCHANGED hddPending

\* The struct is freed, the original bio completed, the references dropped.
Release(i) ==
    /\ alive' = alive \ {i}
    /\ ended' = [ended EXCEPT ![i] = EndResult(i)]
    /\ hddPending' = hddPending - 1
    /\ ssdRef' = ssdRef - 1

DecPending(i) ==
    /\ owes[i] > 0
    /\ owes' = [owes EXCEPT ![i] = @ - 1]
    /\ pending' = [pending EXCEPT ![i] = @ - 1]
    /\ \/ pending[i] = 1 /\ Release(i)
       \/ pending[i] # 1 /\ UNCHANGED <<alive, ended, hddPending, ssdRef>>
    /\ UNCHANGED <<mishap, work, clones, failed, good,
                   spc, pin, hddOnline, hddRef, ssdOnline, unload>>

(***************************************************************************)
(* _unload_hdd: offline, then wait for io_pending, then for nr_ref, then   *)
(* destroy the work queue, the pool of iostash_bio and the bio set.        *)
(***************************************************************************)
UnloadOffline ==
    /\ Removal /\ unload = "no"
    /\ hddOnline' = FALSE
    /\ unload' = "offline"
    /\ UNCHANGED <<mishap, spc, iovars, endvars, pin, hddRef, ssdOnline>>

\* Mutant: hdd->io_pending is not waited for.
UnloadPendingAtOnce ==
    /\ unload = "offline"
    /\ unload' = "nopending"
    /\ UNCHANGED <<mishap, spc, iovars, endvars, pin, hddOnline, hddRef, ssdOnline>>

UnloadPending ==
    /\ unload = "offline" /\ hddPending = 0
    /\ unload' = "nopending"
    /\ UNCHANGED <<mishap, spc, iovars, endvars, pin, hddOnline, hddRef, ssdOnline>>

UnloadDestroy ==
    /\ unload = "nopending" /\ hddRef = 0
    /\ unload' = "destroyed"
    /\ UNCHANGED <<mishap, spc, iovars, endvars, pin, hddOnline, hddRef, ssdOnline>>

Complete(i) == SsdOk(i) \/ SsdError(i) \/ HddDone(i)
Work(i) == WorkSsd(i) \/ WorkHdd(i) \/ WorkNoMem(i)
Route(i) == CheckOnline(i) \/ Miss(i) \/ Submit(i) \/ SubmitNoMem(i) \/ Leave(i)

Next ==
    \/ \E i \in Io : Enter(i) \/ Route(i) \/ Work(i) \/ Complete(i) \/ DecPending(i)
    \/ UnloadOffline \/ UnloadPending \/ UnloadDestroy

Spec == Init /\ [][Next]_vars

\* Devices complete the bios they are given, work queued is run, and code
\* that is running runs on; nobody has to submit or to remove anything.
Fairness ==
    /\ \A i \in Io : /\ WF_vars(Route(i)) /\ WF_vars(Work(i))
                     /\ WF_vars(Complete(i)) /\ WF_vars(DecPending(i))
    /\ WF_vars(UnloadPending) /\ WF_vars(UnloadDestroy)

FairSpec == Spec /\ Fairness
-----------------------------------------------------------------------------
\* Type invariant.
TypeOK ==
    /\ spc \in [Io -> {"idle", "entered", "routed", "queued", "left", "bypass"}]
    /\ alive \subseteq Io /\ work \subseteq Io /\ failed \subseteq Io
    /\ good \subseteq Io
    /\ clones \subseteq Io \X {"ssd", "hdd"}
    /\ pending \in [Io -> Int] /\ owes \in [Io -> Nat] /\ pin \in [Io -> Nat]
    /\ ended \in [Io -> {"no", "ok", "error"}]
    /\ mishap \in [Io -> SUBSET {"error", "nomem", "flow", "late"}]
    /\ hddOnline \in BOOLEAN /\ ssdOnline \in BOOLEAN
    /\ hddRef \in Nat /\ hddPending \in Nat /\ ssdRef \in Nat
    /\ unload \in {"no", "offline", "nopending", "destroyed"}

\* The references that removal waits for are those of the requests there
\* are: hdd->io_pending and ssd->nr_ref count the structs, hdd->nr_ref the
\* submitters inside the hook.
RefsExact ==
    /\ hddPending = Cardinality(alive)
    /\ ssdRef = Cardinality(alive)
    /\ hddRef = Cardinality({i \in Io : spc[i] \in {"entered", "routed", "queued"}})

\* A struct that is freed is not waited for, queued, or named by a clone: its
\* release is the last thing that happens to the request, whatever failed and
\* was retried; no code touches it afterwards.  Excepted are reads whose SSD
\* went offline between the submitter and the worker: _endio4read takes their
\* first trial on the HDD for a retry and decrements twice.
ReleaseIsLast ==
    \A i \in Io \ alive : "flow" \notin mishap[i] =>
        /\ i \notin work /\ owes[i] = 0
        /\ <<i, "ssd">> \notin clones /\ <<i, "hdd">> \notin clones

\* A read is completed as successful only when its data has been read, from
\* either device.  From 4.2 on (NewKernel) the code drops the error.
ErrorReported == \A i \in Io : ended[i] = "ok" => i \in good

\* The cache fragment of a request is put by the time the request is over, on
\* every path but two: after an SSD error and without memory for the clone
\* nobody calls sce_put4read.
PinPut ==
    \A i \in Io : ended[i] # "no" /\ mishap[i] \cap {"error", "nomem"} = {} => pin[i] = 0

\* "wait for references to quiesce" (_unload_hdd): when the pools are destroyed
\* nothing is in flight but reads that slipped in between the wait for
\* io_pending and the wait for nr_ref, and none is taken on after them.
QuietButForLate ==
    unload \in {"nopending", "destroyed"} => \A i \in alive : "late" \in mishap[i]

\* A retry that finds no memory for its clone keeps the count SsdError took.
Stuck(i) == {"error", "nomem"} \subseteq mishap[i]

\* Every read the hook has taken on is completed, but for a stuck one.
EveryReadEnds == \A i \in Io : i \in alive ~> (ended[i] # "no" \/ Stuck(i))

\* The removal of a target does not wait for ever, but for a stuck read.
RemovalEnds == unload = "offline" ~> (unload = "destroyed" \/ \E i \in Io : Stuck(i))
=============================================================================
