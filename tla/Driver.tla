------------------------------- MODULE Driver -------------------------------
(***************************************************************************)
(* The life of the driver: loading and unloading of the module             *)
(* (iostash_module.c), registration and removal of targets (iostash_hdd.c) *)
(* and caches (iostash_ssd.c), against requests that enter the hook and    *)
(* population tasks that hold raw pointers to targets and caches.          *)
(*                                                                         *)
(* Control commands and the two walks of module unloading exclude each     *)
(* other by gctx.ctl_mtx; each resource they take or give back is a step.  *)
(* The rest of unloading does not take ctl_mtx: it goes on beside commands.*)
(* An RCU section that looks a structure up and counts a reference is one  *)
(* step, which is what synchronize_rcu makes of it.  A request ends here   *)
(* when it gives back nr_ref; what a read does afterwards is in IoHook.    *)
(* Kernels from 4.2 on: a removed target stays in the table until unload,  *)
(* and an error of an SSD always takes it offline.                         *)
(***************************************************************************)
EXTENDS Integers, FiniteSets, Sequences

CONSTANTS
    Disk,    \* block devices, each usable as target or as cache
    Io,      \* submitters of requests
    Task,    \* PDM threads
    Faults,  \* may steps of registration and SSDs fail?
    None

ASSUME DriverAssumption ==
    /\ IsFiniteSet(Disk) /\ IsFiniteSet(Io) /\ IsFiniteSet(Task)
    /\ Faults \in BOOLEAN /\ None \notin Disk

VARIABLES
    mod,      \* where module loading or unloading is
    sce,      \* does the engine exist?
    crashed,  \* the kernel met uninitialised or freed memory: nothing is said any more
    cmd,      \* what the holder of ctl_mtx is doing, or "none"
    cdisk,    \* ... to which disk
    cstep,    \* ... and how far a removal has come
    res,      \* what the hdd_info of a disk holds, "mem" being itself
    tbl,      \* disks in gctx.hddtbl
    online,   \* disks with hdd_info.online
    hook,     \* disks whose make_request_fn is iostash_mkrequest
    nrHdd,    \* gctx.nr_hdd
    sres,     \* what the ssd_info of a disk holds
    stbl,     \* disks in gctx.ssdtbl
    sonline,  \* disks with ssd_info.online
    sfailed,  \* history: disks an I/O error took offline as caches
    late,     \* history: a registration was started after the walk it belongs to
    ipc, idisk,         \* each request: what it does, to which disk
    tpc, tdisk, tcache  \* each PDM thread: what it does, from and to where

modvars == <<mod, sce, crashed>>
ctlvars == <<cmd, cdisk, cstep>>
hddvars == <<res, tbl, online, hook, nrHdd>>
ssdvars == <<sres, stbl, sonline, sfailed>>
reqvars == <<ipc, idisk>>
popvars == <<tpc, tdisk, tcache>>
vars == <<modvars, ctlvars, hddvars, ssdvars, late, reqvars, popvars>>

Init ==
    /\ mod = "absent" /\ sce = FALSE /\ crashed = FALSE
    /\ cmd = "none" /\ cdisk = None /\ cstep = "none"
    /\ res = [d \in Disk |-> {}] /\ sres = [d \in Disk |-> {}]
    /\ tbl = {} /\ online = {} /\ hook = {} /\ nrHdd = 0
    /\ stbl = {} /\ sonline = {} /\ sfailed = {} /\ late = FALSE
    /\ ipc = [i \in Io |-> "idle"] /\ idisk = [i \in Io |-> None]
    /\ tpc = [t \in Task |-> "idle"]
    /\ tdisk = [t \in Task |-> None] /\ tcache = [t \in Task |-> None]

\* What registration takes, in order; "pools" are io_pool, bs and io_queue.
HddParts == <<"mem", "bdev", "pools", "lun", "kobj">>
SsdParts == <<"mem", "bdev", "cdev", "kobj">>
Whole(parts) == {parts[k] : k \in DOMAIN parts}
\* r is what a structure that holds got takes next.
NextPart(parts, got, r) == \E k \in DOMAIN parts : parts[k] = r /\ k = Cardinality(got) + 1

\* ssd_info structures the table may still name after they were freed.
Dangling == {d \in stbl : "mem" \notin sres[d]}

(***************************************************************************)
(* iostash_init.  The control files appear before ctl_mtx and the tables   *)
(* are initialised.                                                        *)
(***************************************************************************)
LoadFiles ==
    /\ mod = "absent"
    /\ mod' = "files" /\ sce' = TRUE
    /\ UNCHANGED <<crashed, ctlvars, hddvars, ssdvars, late, reqvars, popvars>>

LoadDone ==
    /\ mod = "files"
    /\ mod' = "live"
    /\ UNCHANGED <<sce, crashed, ctlvars, hddvars, ssdvars, late, reqvars, popvars>>

\* A failed step of iostash_init runs _free_resource, a command on the new
\* files runs a registration, on tables that are all zero.
LoadCrash ==
    /\ mod = "files" \/ (mod = "absent" /\ Faults)
    /\ crashed' = TRUE
    /\ UNCHANGED <<mod, sce, ctlvars, hddvars, ssdvars, late, reqvars, popvars>>

\* The files are there, ctl_mtx is free.
CtlFree ==
    /\ mod \in {"live", "exit", "ssds_gone", "hdds_gone", "pdm_gone", "sce_freed", "sce_gone"}
    /\ cmd = "none"

Command(c, d, s) ==
    /\ cmd = "none"
    /\ cmd' = c /\ cdisk' = d /\ cstep' = s

EndCommand == cmd' = "none" /\ cdisk' = None /\ cstep' = "none"

At(c, s) == cmd \in c /\ cstep = s
GoTo(s) == cstep' = s /\ UNCHANGED <<cmd, cdisk>>

(***************************************************************************)
(* hdd_register.                                                           *)
(***************************************************************************)
\* _alloc_hdd: a target that was removed is still in the table (EEXIST).
HddStart(d) ==
    /\ CtlFree
    /\ d \notin tbl
    /\ Command("hadd", d, "take")
    /\ res' = [res EXCEPT ![d] = {"mem"}]
    /\ late' = (late \/ mod \notin {"live", "exit", "ssds_gone"})
    /\ UNCHANGED <<modvars, tbl, online, hook, nrHdd, ssdvars, reqvars, popvars>>

\* Mutant: bd_holder is not looked at.
HddClashNoHolder(d) == d \in hook

\* The checks on the opened device: a cache of ours, or hooked already.
HddClash(d) == "bdev" \in sres[d] \/ d \in hook

HddTake(r) ==
    /\ At({"hadd"}, "take")
    /\ NextPart(HddParts, res[cdisk], r)
    /\ "bdev" \in res[cdisk] => ~HddClash(cdisk)
    /\ r = "lun" => sce
    /\ res' = [res EXCEPT ![cdisk] = @ \cup {r}]
    /\ UNCHANGED <<modvars, ctlvars, tbl, online, hook, nrHdd, ssdvars, late, reqvars, popvars>>

\* _destroy_hdd runs _unload_hdd on a structure that is not in the table.
HddFail ==
    /\ At({"hadd"}, "take")
    /\ res[cdisk] # Whole(HddParts)
    /\ \/ Faults
       \/ "bdev" \in res[cdisk] /\ HddClash(cdisk)
       \/ NextPart(HddParts, res[cdisk], "lun") /\ mod = "sce_gone"
    /\ cmd' = "hfail" /\ cstep' = "release"
    /\ UNCHANGED <<cdisk, modvars, hddvars, ssdvars, late, reqvars, popvars>>

HddPublish ==
    /\ At({"hadd"}, "take")
    /\ res[cdisk] = Whole(HddParts)
    /\ tbl' = tbl \cup {cdisk} /\ online' = online \cup {cdisk}
    /\ GoTo("hook")
    /\ UNCHANGED <<modvars, res, hook, nrHdd, ssdvars, late, reqvars, popvars>>

\* "this has to be last, after we are ready to service requests"
HddHook ==
    /\ At({"hadd"}, "hook")
    /\ hook' = hook \cup {cdisk}
    /\ nrHdd' = nrHdd + 1
    /\ EndCommand
    /\ UNCHANGED <<modvars, res, tbl, online, ssdvars, late, reqvars, popvars>>

(***************************************************************************)
(* _hdd_remove, by command or by hdd_unregister_all.                       *)
(***************************************************************************)
HddRm(d) ==
    /\ CtlFree \/ (mod = "exit_hdd" /\ cmd = "none")
    /\ d \in tbl
    /\ Command("hrm", d, "unhook")
    /\ UNCHANGED <<modvars, hddvars, ssdvars, late, reqvars, popvars>>

\* "first swap back original request fn"; a target already removed is
\* neither hooked nor online and passes through.
RmUnhook ==
    /\ At({"hrm"}, "unhook")
    /\ hook' = hook \ {cdisk}
    /\ GoTo(IF cdisk \in online THEN "offline" ELSE "release")
    /\ UNCHANGED <<modvars, res, tbl, online, nrHdd, ssdvars, late, reqvars, popvars>>

RmOffline ==
    /\ At({"hrm"}, "offline")
    /\ online' = online \ {cdisk}
    /\ GoTo("wait")
    /\ UNCHANGED <<modvars, res, tbl, hook, nrHdd, ssdvars, late, reqvars, popvars>>

\* The requests that hold hdd->nr_ref.
Refs(d) == {i \in Io : idisk[i] = d /\ ipc[i] \in {"found", "in", "reroute"}}

\* Mutant: nr_ref is not waited for.
RmWaitNot ==
    /\ At({"hrm"}, "wait")
    /\ nrHdd' = nrHdd - 1
    /\ GoTo("release")
    /\ UNCHANGED <<modvars, res, tbl, online, hook, ssdvars, late, reqvars, popvars>>

\* Mutant: gctx.nr_hdd is not decremented.
RmWaitKeepsCount ==
    /\ At({"hrm"}, "wait")
    /\ Refs(cdisk) = {}
    /\ GoTo("release")
    /\ UNCHANGED <<modvars, hddvars, ssdvars, late, reqvars, popvars>>

RmWait ==
    /\ At({"hrm"}, "wait")
    /\ Refs(cdisk) = {}
    /\ nrHdd' = nrHdd - 1
    /\ GoTo("release")
    /\ UNCHANGED <<modvars, res, tbl, online, hook, ssdvars, late, reqvars, popvars>>

\* Pools and block device go before the engine forgets the LUN.
RmRelease ==
    /\ At({"hrm", "hfail"}, "release")
    /\ res' = [res EXCEPT ![cdisk] = @ \ {"pools", "bdev"}]
    /\ GoTo("rmlun")
    /\ UNCHANGED <<modvars, tbl, online, hook, nrHdd, ssdvars, late, reqvars, popvars>>

RmLun ==
    /\ At({"hrm", "hfail"}, "rmlun")
    /\ "lun" \in res[cdisk] => sce
    /\ res' = [res EXCEPT ![cdisk] = @ \ {"lun"}]
    /\ GoTo("put")
    /\ UNCHANGED <<modvars, tbl, online, hook, nrHdd, ssdvars, late, reqvars, popvars>>

\* Mutant: the target is deleted from the table in place, as on old kernels.
RmPutInPlace ==
    /\ At({"hrm", "hfail"}, "put")
    /\ res' = [res EXCEPT ![cdisk] = {}]
    /\ tbl' = tbl \ {cdisk}
    /\ EndCommand
    /\ UNCHANGED <<modvars, online, hook, nrHdd, ssdvars, late, reqvars, popvars>>

\* A failed registration frees the structure; a removal keeps it and the
\* entry in the table, which only hdd_unregister_all deletes.
RmPut ==
    /\ At({"hrm", "hfail"}, "put")
    /\ res' = [res EXCEPT ![cdisk] = IF cmd = "hfail" THEN {} ELSE @ \ {"kobj"}]
    /\ tbl' = IF mod = "exit_hdd" THEN tbl \ {cdisk} ELSE tbl
    /\ EndCommand
    /\ UNCHANGED <<modvars, online, hook, nrHdd, ssdvars, late, reqvars, popvars>>

(***************************************************************************)
(* ssd_register, _ssd_remove.                                              *)
(***************************************************************************)
\* Searching a table with a freed entry is undefined: nothing is said then.
SsdStart(d) ==
    /\ CtlFree /\ Dangling = {}
    /\ d \notin stbl
    /\ Command("sadd", d, "take")
    /\ sres' = [sres EXCEPT ![d] = {"mem"}]
    /\ late' = (late \/ mod \notin {"live", "exit"})
    /\ UNCHANGED <<modvars, hddvars, stbl, sonline, sfailed, reqvars, popvars>>

\* 1 < bd_openers: the disk is open as a target.
SsdClash(d) == "bdev" \in res[d]

SsdTake(r) ==
    /\ At({"sadd"}, "take")
    /\ NextPart(SsdParts, sres[cdisk], r)
    /\ "bdev" \in sres[cdisk] => ~SsdClash(cdisk)
    /\ r = "cdev" => sce
    /\ sres' = [sres EXCEPT ![cdisk] = @ \cup {r}]
    /\ UNCHANGED <<modvars, ctlvars, hddvars, stbl, sonline, sfailed, late, reqvars, popvars>>

\* Mutant: a failed registration gives nothing back.
SsdFailLeaks ==
    /\ At({"sadd"}, "take")
    /\ sres[cdisk] # Whole(SsdParts)
    /\ Faults
    /\ EndCommand
    /\ UNCHANGED <<modvars, hddvars, ssdvars, late, reqvars, popvars>>

SsdFail ==
    /\ At({"sadd"}, "take")
    /\ sres[cdisk] # Whole(SsdParts)
    /\ \/ Faults
       \/ "bdev" \in sres[cdisk] /\ SsdClash(cdisk)
       \/ NextPart(SsdParts, sres[cdisk], "cdev") /\ mod = "sce_gone"
    /\ cmd' = "sfail" /\ cstep' = "cdev"
    /\ UNCHANGED <<cdisk, modvars, hddvars, ssdvars, late, reqvars, popvars>>

SsdPublish ==
    /\ At({"sadd"}, "take")
    /\ sres[cdisk] = Whole(SsdParts)
    /\ stbl' = stbl \cup {cdisk} /\ sonline' = sonline \cup {cdisk}
    /\ sfailed' = sfailed \ {cdisk}
    /\ EndCommand
    /\ UNCHANGED <<modvars, hddvars, sres, late, reqvars, popvars>>

SsdRm(d) ==
    /\ (CtlFree /\ Dangling = {}) \/ (mod = "exit_ssd" /\ cmd = "none")
    /\ d \in stbl \ Dangling
    /\ Command("srm", d, "cdev")
    /\ UNCHANGED <<modvars, hddvars, ssdvars, late, reqvars, popvars>>

\* Mutant: the device is closed before the engine forgets it.
SrmCdevLast ==
    /\ At({"srm", "sfail"}, "cdev")
    /\ sres' = [sres EXCEPT ![cdisk] = @ \ {"bdev"}]
    /\ GoTo("offline")
    /\ UNCHANGED <<modvars, hddvars, stbl, sonline, sfailed, late, reqvars, popvars>>

\* "first remove it from the set of cache devices"
SrmCdev ==
    /\ At({"srm", "sfail"}, "cdev")
    /\ "cdev" \in sres[cdisk] => sce
    /\ sres' = [sres EXCEPT ![cdisk] = @ \ {"cdev"}]
    /\ GoTo("offline")
    /\ UNCHANGED <<modvars, hddvars, stbl, sonline, sfailed, late, reqvars, popvars>>

\* A cache that is offline already stays in the table and is not waited for.
SrmOffline ==
    /\ At({"srm", "sfail"}, "offline")
    /\ sonline' = sonline \ {cdisk}
    /\ stbl' = IF cdisk \in sonline THEN stbl \ {cdisk} ELSE stbl
    /\ GoTo(IF cdisk \in sonline THEN "wait" ELSE "free")
    /\ UNCHANGED <<modvars, hddvars, sres, sfailed, late, reqvars, popvars>>

\* poptask_write holds ssd->nr_ref during the write (for reads see Hotplug).
SrmWait ==
    /\ At({"srm"}, "wait")
    /\ \A t \in Task : ~(tpc[t] = "write" /\ tcache[t] = cdisk)
    /\ GoTo("free")
    /\ UNCHANGED <<modvars, hddvars, ssdvars, late, reqvars, popvars>>

\* The device is closed, kobject_put, kfree.
SrmFree ==
    /\ At({"srm", "sfail"}, "free")
    /\ sres' = [sres EXCEPT ![cdisk] = {}]
    /\ EndCommand
    /\ UNCHANGED <<modvars, hddvars, stbl, sonline, sfailed, late, reqvars, popvars>>

\* _endio4read marks a failing SSD offline, without any lock.
SsdError(d) ==
    /\ Faults
    /\ d \in sonline
    /\ sonline' = sonline \ {d} /\ sfailed' = sfailed \cup {d}
    /\ UNCHANGED <<modvars, ctlvars, hddvars, sres, stbl, late, reqvars, popvars>>

(***************************************************************************)
(* iostash_exit: _free_resource, then _destroy_iostash_kobjects.  The      *)
(* control files work until the end.                                       *)
(***************************************************************************)
Exit(from, to) ==
    /\ mod = from
    /\ mod' = to
    /\ UNCHANGED <<crashed, ctlvars, ssdvars, late, reqvars, popvars>>

ExitStart == Exit("live", "exit") /\ UNCHANGED <<sce, hddvars>>

\* ssd_unregister_all and hdd_unregister_all hold ctl_mtx for their walk.
SsdWalk ==
    /\ cmd = "none"
    /\ \/ Exit("exit", "exit_ssd") /\ Dangling = {}
       \/ Exit("exit_ssd", "ssds_gone") /\ stbl = Dangling
    /\ UNCHANGED <<sce, hddvars>>

\* Mutant: hdd_unregister_all does not take ctl_mtx.
HddWalkUnlocked ==
    \/ Exit("ssds_gone", "exit_hdd") /\ UNCHANGED <<sce, hddvars>>
    \/ /\ Exit("exit_hdd", "hdds_gone") /\ tbl = {}
       /\ UNCHANGED <<sce, hddvars>>

\* The structures are freed once none is in the table.
HddWalk ==
    /\ cmd = "none"
    /\ \/ Exit("ssds_gone", "exit_hdd") /\ UNCHANGED <<sce, hddvars>>
       \/ /\ Exit("exit_hdd", "hdds_gone") /\ tbl = {}
          /\ res' = [d \in Disk |-> {}]
          /\ UNCHANGED <<sce, tbl, online, hook, nrHdd>>

\* "while (gctx.nr_hdd)", then kthread_stop waits for each thread.
StopPdm ==
    /\ Exit("hdds_gone", "pdm_gone")
    /\ nrHdd = 0
    /\ \A t \in Task : tpc[t] \in {"idle", "oops"}
    /\ UNCHANGED <<sce, hddvars>>

\* sce_destroy frees the engine, then gctx.sce is cleared.
DestroySce ==
    \/ Exit("pdm_gone", "sce_freed") /\ sce' = FALSE /\ UNCHANGED hddvars
    \/ Exit("sce_freed", "sce_gone") /\ UNCHANGED <<sce, hddvars>>

\* kobject_del waits for commands on the files.
ExitDone == cmd = "none" /\ Exit("sce_gone", "gone") /\ UNCHANGED <<sce, hddvars>>

\* Somebody is about to follow a pointer to the engine that sce_destroy frees:
\* gctx.sce before it is cleared, the handle of a LUN or of a cache.
AtFreedEngine ==
    /\ ~sce
    /\ \/ /\ mod = "sce_freed" /\ cstep = "take"
          /\ \/ cmd = "hadd" /\ NextPart(HddParts, res[cdisk], "lun")
             \/ cmd = "sadd" /\ NextPart(SsdParts, sres[cdisk], "cdev")
       \/ At({"hrm", "hfail"}, "rmlun") /\ "lun" \in res[cdisk]
       \/ At({"srm", "sfail"}, "cdev") /\ "cdev" \in sres[cdisk]
       \/ \E i \in Io : ipc[i] = "in"

\* Undefined: nothing is said from there on.
UseFreedEngine ==
    /\ AtFreedEngine
    /\ crashed' = TRUE
    /\ UNCHANGED <<mod, sce, ctlvars, hddvars, ssdvars, late, reqvars, popvars>>

(***************************************************************************)
(* A request: iostash_mkrequest.                                           *)
(***************************************************************************)
Request(i, d, s) ==
    /\ ipc' = [ipc EXCEPT ![i] = s] /\ idisk' = [idisk EXCEPT ![i] = d]
    /\ UNCHANGED <<modvars, ctlvars, hddvars, ssdvars, late, popvars>>

\* The block layer has read make_request_fn and calls it.
Pick(i, d) == ipc[i] = "idle" /\ d \in hook /\ Request(i, d, "picked")

\* hdd_search: without the target, or without the module, the request is lost.
Enter(i) ==
    /\ ipc[i] = "picked"
    /\ IF idisk[i] \in tbl /\ mod # "gone"
       THEN Request(i, idisk[i], "found")
       ELSE Request(i, None, "lost")

CheckOnline(i) ==
    /\ ipc[i] = "found"
    /\ Request(i, idisk[i], IF idisk[i] \in online THEN "in" ELSE "reroute")

\* The reference to the target is given back.
Leave(i) == ipc[i] \in {"in", "reroute"} /\ Request(i, None, "idle")

(***************************************************************************)
(* A population task: sce_get4pop, poptask_read, poptask_write, put4pop.   *)
(***************************************************************************)
Population(t, d, c, s) ==
    /\ tpc' = [tpc EXCEPT ![t] = s]
    /\ tdisk' = [tdisk EXCEPT ![t] = d] /\ tcache' = [tcache EXCEPT ![t] = c]
    /\ UNCHANGED <<modvars, ctlvars, hddvars, ssdvars, late, reqvars>>

\* The engine hands out the raw pointers given to sce_addlun and sce_addcdev.
TaskGet(t, d, c) ==
    /\ tpc[t] = "idle"
    /\ sce /\ mod # "pdm_gone"
    /\ "lun" \in res[d] /\ "cdev" \in sres[c]
    /\ Population(t, d, c, "read")

\* hdd->bdev->bd_contains on a target whose device was closed, or freed.
TaskRead(t) ==
    /\ tpc[t] = "read"
    /\ \/ "bdev" \in res[tdisk[t]] /\ Population(t, None, tcache[t], "store")
       \/ "bdev" \notin res[tdisk[t]] /\ Population(t, None, None, "oops")

\* A freed ssd_info, a cache that is no longer one, or the write starts.
TaskStore(t) ==
    /\ tpc[t] = "store"
    /\ \/ "mem" \notin sres[tcache[t]] /\ Population(t, None, None, "oops")
       \/ /\ "mem" \in sres[tcache[t]]
          /\ IF {"cdev", "bdev"} \subseteq sres[tcache[t]] /\ tcache[t] \in sonline
             THEN Population(t, None, tcache[t], "write")
             ELSE Population(t, None, None, "idle")

TaskWrite(t) == tpc[t] = "write" /\ Population(t, None, None, "idle")

Ctl ==
    \/ \E r \in Whole(HddParts) : HddTake(r)
    \/ HddFail \/ HddPublish \/ HddHook
    \/ RmUnhook \/ RmOffline \/ RmWait \/ RmRelease \/ RmLun \/ RmPut
    \/ \E r \in Whole(SsdParts) : SsdTake(r)
    \/ SsdFail \/ SsdPublish
    \/ SrmCdev \/ SrmOffline \/ SrmWait \/ SrmFree \/ UseFreedEngine

Unload ==
    \/ SsdWalk \/ HddWalk \/ StopPdm \/ DestroySce \/ ExitDone
    \/ mod = "exit_ssd" /\ \E d \in Disk : SsdRm(d)
    \/ mod = "exit_hdd" /\ \E d \in Disk : HddRm(d)

Serve(i) == Enter(i) \/ CheckOnline(i) \/ Leave(i)
Populate(t) == TaskRead(t) \/ TaskStore(t) \/ TaskWrite(t)

Next ==
    /\ ~crashed
    /\ \/ LoadFiles \/ LoadDone \/ LoadCrash \/ ExitStart
       \/ \E d \in Disk : HddStart(d) \/ HddRm(d) \/ SsdStart(d) \/ SsdRm(d) \/ SsdError(d)
       \/ Ctl \/ Unload
       \/ \E i \in Io : Serve(i) \/ \E d \in Disk : Pick(i, d)
       \/ \E t \in Task : Populate(t) \/ \E d, c \in Disk : TaskGet(t, d, c)

Spec == Init /\ [][Next]_vars

\* Code that is running runs on, and unloading goes on while it need not wait;
\* a command waiting for ctl_mtx is not allowed to hold it up for ever.  Nobody
\* has to configure, submit, populate or unload anything.
Fairness ==
    /\ WF_vars(~crashed /\ Ctl) /\ SF_vars(~crashed /\ Unload)
    /\ \A i \in Io : WF_vars(~crashed /\ Serve(i))
    /\ \A t \in Task : WF_vars(~crashed /\ Populate(t))

FairSpec == Spec /\ Fairness
-----------------------------------------------------------------------------
\* A request past the online check works on a whole target: structure, pools,
\* block device and LUN stay until it gives its reference back, whatever
\* command or unload comes; unless a target is registered too late.
ServedIsWhole ==
    \A i \in Io : ipc[i] = "in" /\ ~late => res[idisk[i]] = Whole(HddParts) /\ sce

\* A request that read make_request_fn before it was swapped back always
\* finds its target, and with it the way to the disk, and the structure stays
\* while it looks at it, until module unload deletes the targets from the
\* table ("we cannot unload the module").
LostOnlyAtUnload ==
    mod \in {"live", "exit", "exit_ssd", "ssds_gone"} =>
        \A i \in Io : ipc[i] # "idle" => idisk[i] \in tbl /\ "mem" \in res[idisk[i]]

\* A disk never serves as target and as cache at once: neither order of two
\* registrations passes both checks, also when one of them fails halfway.
RolesDisjoint == \A d \in Disk : ~("lun" \in res[d] /\ "cdev" \in sres[d])

\* The engine hands out only targets and caches that are open, and while a
\* task has them it stays itself.  The one exception: _unload_hdd closes the
\* target just before sce_rmlun.
HandsOutOpen ==
    /\ \A d \in Disk : /\ "cdev" \in sres[d] => {"mem", "bdev"} \subseteq sres[d]
                       /\ "lun" \in res[d] => \/ {"mem", "bdev"} \subseteq res[d]
                                              \/ cstep = "rmlun" /\ cdisk = d
    /\ \A t \in Task : tpc[t] \in {"read", "store", "write"} => sce

\* No command and no request meets the engine that sce_destroy frees without
\* any lock: the walks under ctl_mtx leave none that could; unless one comes
\* to register a disk after them.
FreedUntouched == ~late => ~AtFreedEngine

\* Once the module is gone no request function leads into it, and no disk is
\* open or claimed; unless a target or cache is registered after its walk.
CleanExit ==
    mod = "gone" /\ ~late =>
        /\ hook = {} /\ tbl = {} /\ \A d \in Disk : res[d] = {} /\ sres[d] = {}
        /\ \A t \in Task : tpc[t] \in {"idle", "oops"}

\* Unloading ends, whatever is in flight when it starts and is registered
\* before the walks; unless a disk is registered after its walk, or a cache
\* that an I/O error had taken offline was removed and its freed ssd_info left
\* in the table the unload walks.
UnloadEnds == mod = "exit" ~> (mod = "gone" \/ late \/ Dangling \cap sfailed # {})
=============================================================================
