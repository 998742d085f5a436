-------------------------------- MODULE Pdm --------------------------------
(***************************************************************************)
(* The population and destaging manager (pdm.c): its threads, how each     *)
(* decides from two samples of the engine's counters whether to populate,  *)
(* and their creation and termination.                                     *)
(*                                                                         *)
(* The engine is seen as far as the threads see it: counters of hits and   *)
(* misses, the number of free fragments, and whether the miss log offers a *)
(* fragment to populate.  A counter is its true value here; what the code  *)
(* has is that value modulo Word, and it computes modulo Word.             *)
(***************************************************************************)
EXTENDS Integers

CONSTANTS
    NrThread,   \* PDM_NRTHREAD
    MinFree,    \* gpdmcfg: min_freefragper of a thread
    Target,     \* gpdmcfg: target_missrate of a thread
    Hundred,    \* 100, the base of the percentages
    Word,       \* 2^32
    NrFrag,     \* sce->nr_frag; 0 while there is no cache device
    Faults,     \* what can fail: "run" (kthread_run), "mem" (vmalloc),
                \* "read" and "write" (the I/O of a task)
    MaxReads    \* bound: reads in one behaviour

Thread == 1 .. NrThread

ASSUME PdmAssumption ==
    /\ NrThread \in Nat \ {0} /\ NrFrag \in Nat /\ MaxReads \in Nat
    /\ MinFree \in [Thread -> Nat] /\ Target \in [Thread -> Nat]
    /\ Hundred \in Nat \ {0} /\ Word \in Nat \ {0}
    /\ Faults \subseteq {"run", "mem", "read", "write"}

VARIABLES
    hits, misses,   \* sce->nr_hit, nr_miss
    nrFree, idle,   \* fragments on the free list; mapped and not in service
    wanted,         \* the miss log offers a fragment
    leaked,         \* fragments whose task was given up without a put
    pdm,            \* how far pdm_create and pdm_destroy have come
    ix,             \* their loop over the threads
    thr,            \* what a thread does; "error" is the ERR_PTR of one
                    \* that could not be started
    cur,            \* its last sample of the counters
    stop            \* threads kthread_stop has been called for

scevars == <<hits, misses, nrFree, idle, wanted, leaked>>
vars == <<scevars, pdm, ix, thr, cur, stop>>

Init ==
    /\ hits = 0 /\ misses = 0 /\ nrFree = NrFrag /\ idle = 0
    /\ wanted = FALSE /\ leaked = 0
    /\ pdm = "create" /\ ix = 1 /\ stop = {}
    /\ thr = [t \in Thread |-> "none"]
    /\ cur = [t \in Thread |-> <<0, 0>>]

(***************************************************************************)
(* _calc_missrate and _calc_freefragper.                                   *)
(***************************************************************************)
\* Mutant: the previous sample is not subtracted.
CountedEver(prev, now) == now

\* A counter that has not grown is taken for one that wrapped.
Counted(prev, now) == IF now > prev THEN now - prev ELSE now

MissRate(prev, now) ==
    LET hitcnt == Counted(prev[1] % Word, now[1] % Word)
        misscnt == Counted(prev[2] % Word, now[2] % Word)
        total == (hitcnt + misscnt) % Word
    IN  IF total = 0 THEN 0 ELSE ((misscnt * Hundred) % Word) \div total

FreeFragPer ==
    IF NrFrag = 0 THEN 0 ELSE ((nrFree * Hundred) % Word) \div NrFrag

(***************************************************************************)
(* _pdm_thread.  SCE_POPCNT is 1: every iteration ends with msleep.        *)
(***************************************************************************)
Now == <<hits, misses>>
At(t, from, to) == thr[t] = from /\ thr' = [thr EXCEPT ![t] = to]

\* The buffer is allocated before the loop; without it the thread exits.
Begin(t) ==
    /\ At(t, "begin", "top") \/ ("mem" \in Faults /\ At(t, "begin", "exited"))
    /\ UNCHANGED <<scevars, pdm, ix, cur, stop>>

Exit(t) ==
    /\ t \in stop
    /\ At(t, "top", "exited")
    /\ cur' = [cur EXCEPT ![t] = <<0, 0>>]
    /\ UNCHANGED <<scevars, pdm, ix, stop>>

\* Mutant: a miss rate that just reaches the target is not enough.
WillingAbove(t) == FreeFragPer >= MinFree[t] /\ MissRate(cur[t], Now) > Target[t]

Willing(t) == FreeFragPer >= MinFree[t] /\ MissRate(cur[t], Now) >= Target[t]

\* sce_get_status, and the two tests.
Sample(t) ==
    /\ t \notin stop
    /\ At(t, "top", IF Willing(t) THEN "get" ELSE "sleep")
    /\ cur' = [cur EXCEPT ![t] = Now]
    /\ UNCHANGED <<scevars, pdm, ix, stop>>

\* sce_get4pop, with a free fragment or an evicted one.
Get(t) ==
    /\ \/ /\ wanted /\ nrFree + idle > 0
          /\ At(t, "get", "read")
          /\ wanted' \in BOOLEAN
          /\ \/ nrFree > 0 /\ nrFree' = nrFree - 1 /\ UNCHANGED idle
             \/ nrFree = 0 /\ idle' = idle - 1 /\ UNCHANGED nrFree
       \/ /\ ~(wanted /\ nrFree + idle > 0)
          /\ At(t, "get", "sleep")
          /\ UNCHANGED <<nrFree, idle, wanted>>
    /\ UNCHANGED <<hits, misses, leaked, pdm, ix, cur, stop>>

\* A read that fails ends the iteration without sce_put4pop.
Read(t) ==
    /\ \/ At(t, "read", "write") /\ UNCHANGED leaked
       \/ "read" \in Faults /\ At(t, "read", "sleep") /\ leaked' = leaked + 1
    /\ UNCHANGED <<hits, misses, nrFree, idle, wanted, pdm, ix, cur, stop>>

\* The task is put: completed or, if the write failed, cancelled.
Write(t) ==
    /\ At(t, "write", "sleep")
    /\ \/ idle' = idle + 1 /\ UNCHANGED nrFree
       \/ "write" \in Faults /\ nrFree' = nrFree + 1 /\ UNCHANGED idle
    /\ UNCHANGED <<hits, misses, wanted, leaked, pdm, ix, cur, stop>>

Sleep(t) ==
    /\ At(t, "sleep", "top")
    /\ UNCHANGED <<scevars, pdm, ix, cur, stop>>

Step(t) ==
    Begin(t) \/ Exit(t) \/ Sample(t) \/ Get(t) \/ Read(t) \/ Write(t) \/ Sleep(t)

(***************************************************************************)
(* pdm_create and pdm_destroy.                                             *)
(***************************************************************************)
\* kthread_run never returns NULL: a failure is not noticed.
Run ==
    /\ pdm = "create" /\ ix <= NrThread
    /\ \E s \in {"begin"} \cup (IF "run" \in Faults THEN {"error"} ELSE {}) :
          thr' = [thr EXCEPT ![ix] = s]
    /\ ix' = ix + 1
    /\ UNCHANGED <<scevars, pdm, cur, stop>>

Created ==
    /\ pdm = "create" /\ ix > NrThread
    /\ pdm' = "live"
    /\ UNCHANGED <<scevars, ix, thr, cur, stop>>

Destroy ==
    /\ pdm = "live"
    /\ pdm' = "destroy" /\ ix' = 1
    /\ UNCHANGED <<scevars, thr, cur, stop>>

\* kthread_stop tells one thread at a time; one that never ran, or has exited
\* by itself and may be gone, must not be told: nothing is said from there on.
Kill ==
    /\ pdm = "destroy" /\ ix <= NrThread /\ ix \notin stop
    /\ \/ thr[ix] \notin {"error", "exited"} /\ stop' = stop \cup {ix} /\ UNCHANGED pdm
       \/ thr[ix] \in {"error", "exited"} /\ pdm' = "oops" /\ UNCHANGED stop
    /\ UNCHANGED <<scevars, ix, thr, cur>>

\* ... and waits for it.
Killed ==
    /\ pdm = "destroy" /\ ix \in stop /\ thr[ix] = "exited"
    /\ ix' = ix + 1
    /\ pdm' = IF ix = NrThread THEN "gone" ELSE pdm
    /\ UNCHANGED <<scevars, thr, cur, stop>>

(***************************************************************************)
(* The engine.                                                             *)
(***************************************************************************)
\* Reads count, and a miss may put something worth populating into the log.
Count ==
    /\ hits + misses < MaxReads
    /\ \/ hits' = hits + 1 /\ UNCHANGED <<misses, wanted>>
       \/ misses' = misses + 1 /\ wanted' \in {wanted, TRUE} /\ UNCHANGED hits
    /\ UNCHANGED <<nrFree, idle, leaked, pdm, ix, thr, cur, stop>>

\* A write invalidates the last page of an idle fragment.
Collect ==
    /\ idle > 0
    /\ idle' = idle - 1 /\ nrFree' = nrFree + 1
    /\ UNCHANGED <<hits, misses, wanted, leaked, pdm, ix, thr, cur, stop>>

Next ==
    /\ pdm # "oops"
    /\ \/ \E t \in Thread : Step(t)
       \/ Run \/ Created \/ Destroy \/ Kill \/ Killed
       \/ Count \/ Collect

Spec == Init /\ [][Next]_vars

\* A thread that can run runs: msleep and the I/O of a task end.  Nobody has
\* to read from the target or to unload the module.
Fairness ==
    /\ \A t \in Thread : WF_vars(pdm # "oops" /\ Step(t))
    /\ WF_vars(Run \/ Created \/ Kill \/ Killed)

FairSpec == Spec /\ Fairness
-----------------------------------------------------------------------------
\* What the reads since a thread's last sample were, and the numbers of the
\* computation within a word and no counter wrapped since.
DHit(t) == hits - cur[t][1]
DMiss(t) == misses - cur[t][2]
InRange(t) ==
    /\ DMiss(t) * Hundred < Word /\ DHit(t) + DMiss(t) < Word
    /\ hits \div Word = cur[t][1] \div Word /\ misses \div Word = cur[t][2] \div Word

\* The rate a thread would compute now is the miss rate since its last sample
\* if both counters have moved.  If only misses have, it is too low: the hits
\* of all time are counted in, as far as they fit into a word.  If only hits
\* have, it is the misses of all time that are, and nothing can be said.
RateIsTrue ==
    \A t \in Thread : thr[t] = "top" /\ InRange(t) /\ DMiss(t) > 0 =>
        LET true == (DMiss(t) * Hundred) \div (DHit(t) + DMiss(t))
        IN  IF DHit(t) > 0 \/ hits = 0
            THEN MissRate(cur[t], Now) = true
            ELSE (hits % Word) + DMiss(t) < Word => MissRate(cur[t], Now) <= true

\* The thread without conditions ("always on").
AlwaysOn == {t \in Thread : MinFree[t] = 0 /\ Target[t] = 0}

\* What the miss log offers is populated sooner or later, however full the
\* cache and however idle the targets are; unless the thread that is always
\* on never came up, failed reads have used up the cache, or the PDM ends.
SomebodyPopulates ==
    wanted ~> \/ ~wanted
              \/ \E t \in Thread : thr[t] = "read"
              \/ \A t \in AlwaysOn : thr[t] \in {"error", "exited"}
              \/ leaked = NrFrag
              \/ pdm \in {"destroy", "gone", "oops"}
=============================================================================
