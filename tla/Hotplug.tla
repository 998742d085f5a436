------------------------------- MODULE Hotplug -------------------------------
(***************************************************************************)
(* Removing a cache device from the running engine of module Sce.          *)
(* _unload_ssd calls sce_rmcdev BEFORE it waits for the requests in flight *)
(* on the SSD, so reads and populations meet the removal at every point.   *)
(* sce_rmcdev holds sce->lock throughout, and takes the lock of one LUN    *)
(* after the other: everything that needs only a LUN's lock interleaves.   *)
(* ctl_mtx is held from the start of the removal until ssd_info is freed,  *)
(* so no device or target is registered or removed meanwhile.              *)
(***************************************************************************)
EXTENDS Sce

CONSTANT MaxRemovals   \* bound: devices removed in one behaviour

ASSUME HotplugAssumption == MaxRemovals \in Nat /\ None \notin Cdev

VARIABLES
    rmdev,     \* the device sce_rmcdev is removing, or None
    rmleft,    \* LUNs whose fragmap it has not visited yet
    draining,  \* the device whose ssd_info is about to be freed, or None
    waited,    \* has _unload_ssd waited for that device's nr_ref?
    online,    \* devices with ssd_info.online
    gone,      \* history: readers in flight whose ssd_info was freed after a wait
    returned,  \* history: fragments put on the free list while their device
               \* was being removed, and still there
    removals   \* removals so far, for the bound

hpvars == <<rmdev, rmleft, draining, waited, online, gone, returned, removals>>
hvars == <<vars, hpvars>>

HInit ==
    /\ Init
    /\ rmdev = None /\ rmleft = {} /\ draining = None /\ waited = FALSE
    /\ online = {} /\ gone = {} /\ returned = {} /\ removals = 0

OnDev(c) == {c} \X Off
CtlFree == rmdev = None /\ draining = None

\* Mutant: the device's fragments stay on the free list.
RmCdevStartKeeps(c) ==
    /\ SceUnlocked /\ CtlFree
    /\ removals < MaxRemovals
    /\ c \in cdev
    /\ rmdev' = c /\ rmleft' = Lun
    /\ removals' = removals + 1
    /\ UNCHANGED <<vars, draining, waited, online, gone, returned>>

\* _freefraglist_rmcdev: the device's fragments leave the free list.
RmCdevStart(c) ==
    /\ SceUnlocked /\ CtlFree
    /\ removals < MaxRemovals
    /\ c \in cdev
    /\ freelist' = freelist \ OnDev(c)
    /\ rmdev' = c /\ rmleft' = Lun
    /\ removals' = removals + 1
    /\ UNCHANGED <<lunvars, mapvars, cdev, owner, bitmap, svc, uservars,
                   draining, waited, online, gone, returned>>

\* Mutant: the LUN's mappings onto the device survive.
RmCdevLunSkip(l) ==
    /\ rmdev # None
    /\ l \in rmleft /\ \A k \in rmleft : l <= k
    /\ rmleft' = rmleft \ {l}
    /\ UNCHANGED <<vars, rmdev, draining, waited, online, gone, returned, removals>>

\* _lun_rmcdev: the LUN forgets its fragments on the device, in service or
\* not; nobody's nr_service changes.
RmCdevLun(l) ==
    /\ rmdev # None
    /\ l \in rmleft /\ \A k \in rmleft : l <= k
    /\ map' = [lf \in LF |-> IF lf[1] = l /\ map[lf] \in OnDev(rmdev) THEN None ELSE map[lf]]
    /\ valid' = {lf \in valid : map'[lf] # None}
    /\ rmleft' = rmleft \ {l}
    /\ UNCHANGED <<lunvars, cdev, fragvars, uservars,
                   rmdev, draining, waited, online, gone, returned, removals>>

\* _cdev_destroy frees the fragment table and sce->lock is released.
RmCdevEnd ==
    /\ rmdev # None /\ rmleft = {}
    /\ cdev' = cdev \ {rmdev}
    /\ owner' = [p \in Pfid |-> IF p \in OnDev(rmdev) THEN None ELSE owner[p]]
    /\ bitmap' = [p \in Pfid |-> IF p \in OnDev(rmdev) THEN {} ELSE bitmap[p]]
    /\ svc' = [p \in Pfid |-> IF p \in OnDev(rmdev) THEN 0 ELSE svc[p]]
    /\ rmdev' = None /\ draining' = rmdev
    /\ UNCHANGED <<lunvars, mapvars, freelist, uservars,
                   rmleft, waited, online, gone, returned, removals>>

ReadsOn(c) == {r \in Reader : upc[r] = "read" /\ upf[r][1] = c}

\* Mutant: nr_ref is not waited for.
DrainSsdAtOnce(c) ==
    /\ draining = c /\ c \in online
    /\ waited' = TRUE
    /\ online' = online \ {c}
    /\ UNCHANGED <<vars, rmdev, rmleft, draining, gone, returned, removals>>

\* The rest of _unload_ssd: an SSD still online goes offline and nr_ref, which
\* reads in flight hold, is waited for.
DrainSsd(c) ==
    /\ draining = c /\ c \in online
    /\ ReadsOn(c) = {}
    /\ waited' = TRUE
    /\ online' = online \ {c}
    /\ UNCHANGED <<vars, rmdev, rmleft, draining, gone, returned, removals>>

\* _destroy_ssd frees ssd_info.
FreeSsd(c) ==
    /\ draining = c /\ c \notin online
    /\ draining' = None /\ waited' = FALSE
    /\ gone' = IF waited THEN gone \cup ReadsOn(c) ELSE gone
    /\ UNCHANGED <<vars, rmdev, rmleft, online, returned, removals>>

\* ssd_register and hdd_register take ctl_mtx; what takes sce->lock waits for
\* sce_rmcdev.  A device added while the free list still names fragments of
\* its slot would tie the list into a knot: nothing is said from there on.
Configure ==
    \/ /\ CtlFree
       /\ \E c \in Cdev : /\ freelist \cap OnDev(c) = {}
                          /\ AddCdev(c)
                          /\ online' = online \cup {c}
    \/ /\ CtlFree
       /\ \E l \in Lun : RmLun(l) \/ \E s \in LunSize : AddLun(l, s)
       /\ UNCHANGED online
    \/ /\ rmdev = None
       /\ \E t \in Task, lf \in LF : Choose(t, lf)
       /\ UNCHANGED online

\* An SSD error takes the device offline; one that only says "not up to date"
\* (kernels before 4.2) leaves it online.
SsdError ==
    \E r \in Reader : ReadError(r) /\ online' \in {online, online \ {upf[r][1]}}

\* Taking a fragment of an absent device off the free list is a kernel BUG:
\* nothing is said from there on.
Serve ==
    /\ \/ \E l \in Lun, a, b \in Sctr :
             Invalidate(l, a, b) \/ \E r \in Reader, f \in Frag : GetRead(r, l, f, a, b)
       \/ \E r \in Reader : PutRead(r)
       \/ \E t \in Task, p \in Pfid :
             \/ freelist \subseteq cdev \X Off /\ AllocFree(t, p)
             \/ AllocEvict(t, p)
       \/ \E t \in Task : \/ AllocFail(t)
                          \/ PopRead(t) \/ PopReadError(t)
                          \/ PutPopOk(t) \/ PutPopFailed(t)
    /\ UNCHANGED online

HNext ==
    \/ /\ Configure \/ SsdError \/ Serve
       /\ gone' = {u \in gone : upc'[u] = "read"}
       /\ returned' = {p \in freelist' : p \in returned \/ (p \notin freelist /\ p[1] = rmdev)}
       /\ UNCHANGED <<rmdev, rmleft, draining, waited, removals>>
    \/ \E c \in Cdev : RmCdevStart(c) \/ DrainSsd(c) \/ FreeSsd(c)
    \/ \E l \in Lun : RmCdevLun(l)
    \/ RmCdevEnd

HSpec == HInit /\ [][HNext]_hvars
-----------------------------------------------------------------------------
\* Type invariant.
HTypeOK ==
    /\ TypeOK
    /\ rmdev \in Cdev \cup {None} /\ rmleft \subseteq Lun
    /\ draining \in Cdev \cup {None} /\ waited \in BOOLEAN
    /\ online \subseteq Cdev /\ gone \subseteq Reader
    /\ returned \subseteq Pfid /\ removals \in 0 .. MaxRemovals

\* Whatever the removal interleaves with, a mapping leads to a device that is
\* there, to the fragment that points back at it, and to no other LUN's; and
\* an owned fragment of a device that stays is mapped by its owner, so that
\* CLOCK makes progress when it "evicts" one (_alloc4population would spin for
\* ever on a fragment whose _unmap_frag fails).
MapAndOwnersAgree ==
    /\ \A lf \in LF : map[lf] # None => /\ map[lf][1] \in cdev
                                        /\ owner[map[lf]] = lf
                                        /\ HasFrag(lf[1], lf[2])
    /\ \A p \in Pfid : owner[p] # None /\ p[1] # rmdev => map[owner[p]] = p

\* A LUN counts at least the requests in flight on it, so it is never purged
\* under one, even when the removal made fragment counts and LUN counts part.
LunCoversUsers ==
    \A l \in Lun : UsersOf(l) # {} =>
        size[l] > 0 /\ lunsvc[l] >= Cardinality(UsersOf(l))

\* _freefraglist_get: BUG_ON(!frag), the free list names fragments that exist;
\* but for those that a LUN not visited yet released after sce_rmcdev had
\* cleared the device from the free list, which stay on it.
FreeButForReturned == rmdev = None => freelist \ (cdev \X Off) \subseteq returned

\* "no more requests will be queued to this device beyond this point"
\* (_unload_ssd): after sce_rmcdev and the wait for nr_ref no read is, or can
\* come to be, in flight on the SSD whose ssd_info is freed.  An SSD an error
\* has taken offline before is not waited for, and is excepted.
ReadsOutliveNoSsd == gone = {}
=============================================================================
