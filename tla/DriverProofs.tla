---------------------------- MODULE DriverProofs ----------------------------
(***************************************************************************)
(* TLAPS proofs about module Driver, for any number of disks, requests and *)
(* population tasks, with or without faults.                               *)
(***************************************************************************)
EXTENDS Driver, FiniteSetTheorems, TLAPS

HddAll == {"mem", "bdev", "pools", "lun", "kobj"}
SsdAll == {"mem", "bdev", "cdev", "kobj"}
\* What a registration holds on its way.
HddSome == {{"mem"}, {"mem", "bdev"}, {"mem", "bdev", "pools"}, {"mem", "bdev", "pools", "lun"}}
SsdSome == {{"mem"}, {"mem", "bdev"}, {"mem", "bdev", "cdev"}}

HddCmd == {"hadd", "hfail", "hrm"}
SsdCmd == {"sadd", "sfail", "srm"}

\* The states of the module before the tables exist, with targets, after the
\* walk over the caches, after the walk over the targets, without threads.
Early == {"absent", "files"}
Full == {"live", "exit", "exit_ssd", "ssds_gone"}
Exiting == {"exit", "exit_ssd", "ssds_gone", "exit_hdd", "hdds_gone", "pdm_gone", "sce_freed", "sce_gone", "gone"}
AfterSsd == {"ssds_gone", "exit_hdd", "hdds_gone", "pdm_gone", "sce_freed", "sce_gone", "gone"}
AfterHdd == {"hdds_gone", "pdm_gone", "sce_freed", "sce_gone", "gone"}
AfterPdm == {"pdm_gone", "sce_freed", "sce_gone", "gone"}

TypeOK ==
    /\ mod \in Early \cup Exiting \cup {"live"}
    /\ sce \in BOOLEAN /\ crashed \in BOOLEAN /\ late \in BOOLEAN
    /\ cmd \in {"none"} \cup HddCmd \cup SsdCmd
    /\ cdisk \in Disk \cup {None} /\ (cmd # "none" => cdisk \in Disk)
    /\ cstep \in {"none", "take", "hook", "unhook", "offline", "wait", "release", "rmlun",
                  "put", "cdev", "free"}
    /\ res \in [Disk -> SUBSET HddAll] /\ sres \in [Disk -> SUBSET SsdAll]
    /\ tbl \subseteq Disk /\ online \subseteq Disk /\ hook \subseteq Disk /\ nrHdd \in Int
    /\ stbl \subseteq Disk /\ sonline \subseteq Disk /\ sfailed \subseteq Disk
    /\ ipc \in [Io -> {"idle", "picked", "found", "in", "reroute", "lost"}]
    /\ idisk \in [Io -> Disk \cup {None}]
    /\ tpc \in [Task -> {"idle", "read", "store", "write", "oops"}]
    /\ tdisk \in [Task -> Disk \cup {None}] /\ tcache \in [Task -> Disk \cup {None}]

-----------------------------------------------------------------------------
(* Each disk as a target, and as a cache: what its structure holds and     *)
(* where it is known, while no command is at it and at each step of one.   *)

Absent(d) == d \notin tbl /\ d \notin online /\ d \notin hook

HddIdle(d) ==
    \/ d \in tbl /\ d \in online /\ d \in hook /\ res[d] = HddAll
    \/ d \in tbl /\ d \notin online /\ d \notin hook /\ res[d] = {"mem"}
    \/ Absent(d) /\ (res[d] = {} \/ (mod = "exit_hdd" /\ res[d] = {"mem"}))

HddBusy(d) ==
    \/ At({"hadd"}, "take") /\ Absent(d) /\ res[d] \in HddSome \cup {HddAll}
    \/ At({"hadd"}, "hook") /\ d \in tbl /\ d \in online /\ d \notin hook /\ res[d] = HddAll
    \/ At({"hfail"}, "release") /\ Absent(d) /\ res[d] \in HddSome
    \/ At({"hfail"}, "rmlun") /\ Absent(d) /\ res[d] \in {{"mem"}, {"mem", "lun"}}
    \/ At({"hfail"}, "put") /\ Absent(d) /\ res[d] = {"mem"}
    \/ At({"hrm"}, "unhook") /\ d \in tbl /\ HddIdle(d)
    \/ At({"hrm"}, "offline") /\ d \in tbl /\ d \in online /\ d \notin hook /\ res[d] = HddAll
    \/ /\ d \in tbl /\ d \notin online /\ d \notin hook
       /\ \/ At({"hrm"}, "wait") /\ res[d] = HddAll
          \/ At({"hrm"}, "release") /\ res[d] \in {{"mem"}, HddAll}
          \/ At({"hrm"}, "rmlun") /\ res[d] \in {{"mem"}, {"mem", "lun", "kobj"}}
          \/ At({"hrm"}, "put") /\ res[d] \in {{"mem"}, {"mem", "kobj"}}

Target(d) == IF cdisk = d /\ cmd \in HddCmd THEN HddBusy(d) ELSE HddIdle(d)

SsdIdle(d) ==
    \/ d \in stbl /\ sres[d] = SsdAll
    \/ d \notin sonline /\ sres[d] = {}

SsdBusy(d) ==
    \/ /\ d \notin stbl /\ d \notin sonline
       /\ \/ At({"sadd"}, "take") /\ sres[d] \in SsdSome \cup {SsdAll}
          \/ At({"sfail"}, "cdev") /\ sres[d] \in SsdSome
          \/ At({"sfail"}, "offline") /\ sres[d] \in {{"mem"}, {"mem", "bdev"}}
          \/ At({"sfail"}, "free") /\ sres[d] \in {{"mem"}, {"mem", "bdev"}}
    \/ At({"srm"}, "cdev") /\ d \in stbl /\ sres[d] = SsdAll
    \/ At({"srm"}, "offline") /\ d \in stbl /\ sres[d] = {"mem", "bdev", "kobj"}
    \/ At({"srm"}, "wait") /\ d \notin sonline /\ sres[d] = {"mem", "bdev", "kobj"}
    \/ At({"srm"}, "free") /\ d \notin sonline /\ sres[d] = {"mem", "bdev", "kobj"}

Cache(d) == IF cdisk = d /\ cmd \in SsdCmd THEN SsdBusy(d) ELSE SsdIdle(d)

\* Of two registrations of a disk one stops before it has passed the checks.
Exclusive(d) ==
    ("pools" \in res[d] \/ "lun" \in res[d]) /\ "bdev" \in sres[d] =>
        cdisk = d /\ cmd \in {"sadd", "sfail"} /\ "cdev" \notin sres[d]

DiskInv(d) == Target(d) /\ Cache(d) /\ Exclusive(d)

\* A request inside the hook keeps its target.
ReqInv(i) ==
    /\ ipc[i] \in {"picked", "found", "in", "reroute"} => idisk[i] \in Disk
    /\ ipc[i] = "in" => idisk[i] \in online \/ (At({"hrm"}, "wait") /\ cdisk = idisk[i])
    /\ mod \in Full /\ ipc[i] # "idle" => idisk[i] \in tbl
    /\ mod \in Early => ipc[i] = "idle"

\* A task keeps the module.
TaskInv(t) ==
    tpc[t] \in {"read", "store", "write"} =>
        /\ tcache[t] \in Disk /\ (tpc[t] = "read" => tdisk[t] \in Disk)
        /\ mod \notin Early \cup AfterPdm

\* How far the module has come says what there is.
Stage ==
    /\ sce <=> mod \notin {"absent", "sce_freed", "sce_gone", "gone"}
    /\ mod \in Early => cmd = "none" /\ tbl = {} /\ stbl = {}
    /\ mod = "exit_ssd" => cmd \in {"none", "srm"}
    /\ mod = "exit_hdd" => cmd \in {"none", "hrm"}
    /\ mod = "gone" => cmd = "none"
    /\ ~late /\ mod \in AfterSsd => cmd \notin {"sadd", "sfail"}
    /\ ~late /\ mod \in AfterHdd => cmd \notin {"hadd", "hfail"}
    /\ ~late /\ mod \in AfterSsd => \A d \in Disk : sres[d] = {}
    /\ ~late /\ mod \in AfterHdd => tbl = {}

\* The inductive invariant.
IInv ==
    /\ TypeOK /\ Stage
    /\ \A d \in Disk : DiskInv(d)
    /\ \A i \in Io : ReqInv(i)
    /\ \A t \in Task : TaskInv(t)
-----------------------------------------------------------------------------
(* What registration takes. *)

LEMMA AllParts == Whole(HddParts) = HddAll /\ Whole(SsdParts) = SsdAll
<1>1. DOMAIN HddParts = 1 .. 5 /\ DOMAIN SsdParts = 1 .. 4 BY DEF HddParts, SsdParts
<1>2. Whole(HddParts) = HddAll BY <1>1 DEF Whole, HddParts, HddAll
<1>3. Whole(SsdParts) = SsdAll BY <1>1 DEF Whole, SsdParts, SsdAll
<1> QED BY <1>2, <1>3

LEMMA Sizes ==
    /\ Cardinality({"mem"}) = 1
    /\ Cardinality({"mem", "bdev"}) = 2
    /\ Cardinality({"mem", "bdev", "pools"}) = 3
    /\ Cardinality({"mem", "bdev", "cdev"}) = 3
    /\ Cardinality({"mem", "bdev", "pools", "lun"}) = 4
    /\ Cardinality(HddAll) = 5
    /\ Cardinality(SsdAll) = 4
<1>1. IsFiniteSet({"mem"}) /\ Cardinality({"mem"}) = 1 BY FS_Singleton
<1>2. ASSUME NEW S, IsFiniteSet(S), NEW x, x \notin S, NEW n \in Nat, Cardinality(S) = n,
             NEW R, R = S \cup {x}
      PROVE  IsFiniteSet(R) /\ Cardinality(R) = n + 1
  BY <1>2, FS_AddElement
<1>3. {"mem", "bdev"} = {"mem"} \cup {"bdev"} OBVIOUS
<1>4. IsFiniteSet({"mem", "bdev"}) /\ Cardinality({"mem", "bdev"}) = 2
  BY <1>1, <1>2, <1>3
<1>5. IsFiniteSet({"mem", "bdev", "pools"}) /\ Cardinality({"mem", "bdev", "pools"}) = 3
  <2>1. {"mem", "bdev", "pools"} = {"mem", "bdev"} \cup {"pools"} OBVIOUS
  <2> QED BY <1>4, <1>2, <2>1
<1>6. IsFiniteSet({"mem", "bdev", "cdev"}) /\ Cardinality({"mem", "bdev", "cdev"}) = 3
  <2>1. {"mem", "bdev", "cdev"} = {"mem", "bdev"} \cup {"cdev"} OBVIOUS
  <2> QED BY <1>4, <1>2, <2>1
<1>7. IsFiniteSet({"mem", "bdev", "pools", "lun"}) /\ Cardinality({"mem", "bdev", "pools", "lun"}) = 4
  <2>1. {"mem", "bdev", "pools", "lun"} = {"mem", "bdev", "pools"} \cup {"lun"} OBVIOUS
  <2> QED BY <1>5, <1>2, <2>1
<1>8. Cardinality(HddAll) = 5
  <2>1. HddAll = {"mem", "bdev", "pools", "lun"} \cup {"kobj"} BY DEF HddAll
  <2> QED BY <1>7, <1>2, <2>1
<1>9. Cardinality(SsdAll) = 4
  <2>1. SsdAll = {"mem", "bdev", "cdev"} \cup {"kobj"} BY DEF SsdAll
  <2> QED BY <1>6, <1>2, <2>1
<1> QED BY <1>1, <1>4, <1>5, <1>6, <1>7, <1>8, <1>9

LEMMA HddNext ==
    ASSUME NEW got \in HddSome \cup {HddAll}, NEW r, NextPart(HddParts, got, r)
    PROVE  /\ got \in HddSome
           /\ got \cup {r} \in HddSome \cup {HddAll}
           /\ r \in {"bdev", "pools", "lun", "kobj"}
           /\ r \in {"pools", "lun"} => "bdev" \in got
<1>1. DOMAIN HddParts = 1 .. 5 BY DEF HddParts
<1>2. Cardinality(got) \in 1 .. 4 /\ r = HddParts[Cardinality(got) + 1]
  BY <1>1, Sizes DEF NextPart, HddSome
<1>3. got # HddAll BY <1>2, Sizes
<1>4. CASE got = {"mem"}
  <2>1. r = "bdev" BY <1>2, <1>4, Sizes DEF HddParts
  <2> QED BY <1>4, <2>1 DEF HddSome
<1>5. CASE got = {"mem", "bdev"}
  <2>1. r = "pools" BY <1>2, <1>5, Sizes DEF HddParts
  <2> QED BY <1>5, <2>1 DEF HddSome
<1>6. CASE got = {"mem", "bdev", "pools"}
  <2>1. r = "lun" BY <1>2, <1>6, Sizes DEF HddParts
  <2> QED BY <1>6, <2>1 DEF HddSome
<1>7. CASE got = {"mem", "bdev", "pools", "lun"}
  <2>1. r = "kobj" BY <1>2, <1>7, Sizes DEF HddParts
  <2> QED BY <1>7, <2>1 DEF HddSome, HddAll
<1> QED BY <1>3, <1>4, <1>5, <1>6, <1>7 DEF HddSome

LEMMA SsdNext ==
    ASSUME NEW got \in SsdSome \cup {SsdAll}, NEW r, NextPart(SsdParts, got, r)
    PROVE  /\ got \in SsdSome
           /\ got \cup {r} \in SsdSome \cup {SsdAll}
           /\ r \in {"bdev", "cdev", "kobj"}
           /\ r \in {"cdev", "kobj"} => "bdev" \in got
<1>1. DOMAIN SsdParts = 1 .. 4 BY DEF SsdParts
<1>2. Cardinality(got) \in 1 .. 3 /\ r = SsdParts[Cardinality(got) + 1]
  BY <1>1, Sizes DEF NextPart, SsdSome
<1>3. got # SsdAll BY <1>2, Sizes
<1>4. CASE got = {"mem"}
  <2>1. r = "bdev" BY <1>2, <1>4, Sizes DEF SsdParts
  <2> QED BY <1>4, <2>1 DEF SsdSome
<1>5. CASE got = {"mem", "bdev"}
  <2>1. r = "cdev" BY <1>2, <1>5, Sizes DEF SsdParts
  <2> QED BY <1>5, <2>1 DEF SsdSome
<1>6. CASE got = {"mem", "bdev", "cdev"}
  <2>1. r = "kobj" BY <1>2, <1>6, Sizes DEF SsdParts
  <2> QED BY <1>6, <2>1 DEF SsdSome, SsdAll
<1> QED BY <1>3, <1>4, <1>5, <1>6 DEF SsdSome
-----------------------------------------------------------------------------
LEMMA InitIInv == Init => IInv
<1> SUFFICES ASSUME Init PROVE IInv OBVIOUS
<1>1. TypeOK
  <2>1. res \in [Disk -> SUBSET HddAll] /\ sres \in [Disk -> SUBSET SsdAll] BY DEF Init
  <2>2. /\ ipc \in [Io -> {"idle", "picked", "found", "in", "reroute", "lost"}]
        /\ idisk \in [Io -> Disk \cup {None}]
        /\ tpc \in [Task -> {"idle", "read", "store", "write", "oops"}]
        /\ tdisk \in [Task -> Disk \cup {None}] /\ tcache \in [Task -> Disk \cup {None}]
    BY DEF Init
  <2>3. mod \in Early \cup Exiting \cup {"live"} BY DEF Init, Early
  <2>4. sce \in BOOLEAN /\ crashed \in BOOLEAN /\ late \in BOOLEAN BY DEF Init
  <2>5. /\ tbl \subseteq Disk /\ online \subseteq Disk /\ hook \subseteq Disk /\ nrHdd \in Int
        /\ stbl \subseteq Disk /\ sonline \subseteq Disk /\ sfailed \subseteq Disk
    BY DEF Init
  <2>6. /\ cmd = "none" /\ cdisk = None /\ cstep = "none" BY DEF Init
  <2> QED BY <2>1, <2>2, <2>3, <2>4, <2>5, <2>6 DEF TypeOK
<1>2. Stage BY DEF Init, Stage, Early, Exiting, AfterSsd, AfterHdd
<1>3. ASSUME NEW d \in Disk PROVE DiskInv(d)
  BY DEF Init, DiskInv, Target, HddIdle, HddCmd, Absent, Cache, SsdIdle, SsdCmd, Exclusive
<1>4. ASSUME NEW i \in Io PROVE ReqInv(i) BY DEF Init, ReqInv, Full
<1>5. ASSUME NEW t \in Task PROVE TaskInv(t) BY DEF Init, TaskInv
<1> QED BY <1>1, <1>2, <1>3, <1>4, <1>5 DEF IInv
-----------------------------------------------------------------------------
(* A disk that no command is at keeps its part of the invariant. *)

SameHdd(d) ==
    /\ res'[d] = res[d]
    /\ d \in tbl' <=> d \in tbl
    /\ d \in online' <=> d \in online
    /\ d \in hook' <=> d \in hook

SameSsd(d) ==
    /\ sres'[d] = sres[d]
    /\ d \in stbl' <=> d \in stbl
    /\ d \in sonline' => d \in sonline

LEMMA StillIdle ==
    ASSUME NEW d \in Disk
    PROVE  /\ HddIdle(d) /\ SameHdd(d) /\ (mod = "exit_hdd" => mod' = "exit_hdd") => HddIdle(d)'
           /\ SsdIdle(d) /\ SameSsd(d) => SsdIdle(d)'
BY DEF HddIdle, SsdIdle, SameHdd, SameSsd, Absent

LEMMA OtherDisk ==
    ASSUME NEW d \in Disk, DiskInv(d), SameHdd(d), SameSsd(d),
           mod = "exit_hdd" => mod' = "exit_hdd",
           cdisk # d \/ cmd = "none", cdisk' # d \/ cmd' = "none"
    PROVE  DiskInv(d)'
<1>1. HddIdle(d) /\ SsdIdle(d) BY DEF DiskInv, Target, Cache, HddCmd, SsdCmd
<1>2. HddIdle(d)' /\ SsdIdle(d)' BY <1>1, StillIdle
<1>3. Target(d)' /\ Cache(d)' BY <1>2 DEF Target, Cache, HddCmd, SsdCmd
<1>4. Exclusive(d)' BY DEF DiskInv, Exclusive, SameHdd, SameSsd
<1> QED BY <1>3, <1>4 DEF DiskInv

\* It is enough to look at the disk of the command.
LEMMA OneDisk ==
    ASSUME IInv, NEW c \in Disk, mod' = mod,
           \A d \in Disk \ {c} : SameHdd(d) /\ SameSsd(d),
           cmd = "none" \/ cdisk = c, cmd' = "none" \/ cdisk' = c,
           DiskInv(c)'
    PROVE  \A d \in Disk : DiskInv(d)'
BY OtherDisk DEF IInv

\* When neither disks nor commands change, no disk does.
LEMMA NoDisk ==
    ASSUME IInv, NEW d \in Disk, UNCHANGED <<ctlvars, res, tbl, online, hook, sres, stbl>>,
           sonline' \subseteq sonline, mod = "exit_hdd" => mod' = "exit_hdd"
    PROVE  DiskInv(d)'
<1>1. Target(d)'
  BY DEF IInv, DiskInv, Target, HddIdle, HddBusy, Absent, At, ctlvars
<1>2. Cache(d)'
  BY DEF IInv, DiskInv, Cache, SsdIdle, SsdBusy, At, ctlvars
<1>3. Exclusive(d)' BY DEF IInv, DiskInv, Exclusive, ctlvars
<1> QED BY <1>1, <1>2, <1>3 DEF DiskInv
-----------------------------------------------------------------------------
(* Requests and population tasks. *)

LEMMA RequestStep ==
    ASSUME IInv, NEW i \in Io, NEW d \in Disk \cup {None},
           NEW s \in {"idle", "picked", "found", "in", "reroute", "lost"}, Request(i, d, s),
           s \in {"picked", "found", "in", "reroute"} => d \in Disk,
           s = "in" => d \in online,
           mod \in Full /\ s # "idle" => d \in tbl,
           mod \in Early => s = "idle"
    PROVE  IInv'
<1> USE DEF Request, modvars, ctlvars, hddvars, ssdvars, popvars
<1>1. TypeOK' BY DEF IInv, TypeOK
<1>2. Stage' BY DEF IInv, Stage
<1>3. ASSUME NEW e \in Disk PROVE DiskInv(e)' BY NoDisk
<1>4. ASSUME NEW j \in Io PROVE ReqInv(j)'
  <2>1. CASE j = i BY <2>1 DEF IInv, TypeOK, ReqInv
  <2>2. CASE j # i BY <2>2 DEF IInv, TypeOK, ReqInv, At
  <2> QED BY <2>1, <2>2
<1>5. ASSUME NEW t \in Task PROVE TaskInv(t)' BY DEF IInv, TaskInv
<1> QED BY <1>1, <1>2, <1>3, <1>4, <1>5 DEF IInv

LEMMA PickStep ==
    ASSUME IInv, NEW i \in Io, NEW d \in Disk, Pick(i, d) PROVE IInv'
<1>1. d \in tbl
  BY DEF Pick, IInv, DiskInv, Target, HddIdle, HddBusy, Absent
<1>2. mod \notin Early BY <1>1 DEF IInv, Stage
<1> QED BY <1>1, <1>2, RequestStep DEF Pick

LEMMA ServeStep ==
    ASSUME IInv, NEW i \in Io, Serve(i) PROVE IInv'
<1>1. mod \notin Early BY DEF IInv, ReqInv, Serve, Enter, CheckOnline, Leave
<1>2. CASE Enter(i)
  <2>1. idisk[i] \in Disk BY <1>2 DEF IInv, ReqInv, Enter
  <2>2. CASE idisk[i] \in tbl /\ mod # "gone"
    BY <1>1, <1>2, <2>1, <2>2, RequestStep DEF Enter
  <2>3. CASE ~(idisk[i] \in tbl /\ mod # "gone")
    <3>1. mod \notin Full BY <1>2, <2>3 DEF IInv, ReqInv, Enter, Full
    <3> QED BY <1>1, <1>2, <2>3, <3>1, RequestStep DEF Enter
  <2> QED BY <2>2, <2>3
<1>3. CASE CheckOnline(i)
  <2>1. idisk[i] \in Disk BY <1>3 DEF IInv, ReqInv, CheckOnline
  <2>2. mod \in Full => idisk[i] \in tbl BY <1>3 DEF IInv, ReqInv, CheckOnline
  <2> QED BY <1>1, <1>3, <2>1, <2>2, RequestStep DEF CheckOnline
<1>4. CASE Leave(i) BY <1>4, RequestStep DEF Leave
<1> QED BY <1>2, <1>3, <1>4 DEF Serve

LEMMA PopulationStep ==
    ASSUME IInv, NEW t \in Task, NEW d \in Disk \cup {None}, NEW c \in Disk \cup {None},
           NEW s \in {"idle", "read", "store", "write", "oops"}, Population(t, d, c, s),
           s \in {"read", "store", "write"} => c \in Disk /\ mod \notin Early \cup AfterPdm,
           s = "read" => d \in Disk
    PROVE  IInv'
<1> USE DEF Population, modvars, ctlvars, hddvars, ssdvars, reqvars
<1>1. TypeOK' BY DEF IInv, TypeOK
<1>2. Stage' BY DEF IInv, Stage
<1>3. ASSUME NEW e \in Disk PROVE DiskInv(e)' BY NoDisk
<1>4. ASSUME NEW j \in Io PROVE ReqInv(j)' BY DEF IInv, ReqInv, At
<1>5. ASSUME NEW v \in Task PROVE TaskInv(v)' BY DEF IInv, TypeOK, TaskInv
<1> QED BY <1>1, <1>2, <1>3, <1>4, <1>5 DEF IInv

\* The engine knows no target before the module is loaded.
LEMMA TaskGetStep ==
    ASSUME IInv, NEW t \in Task, NEW d \in Disk, NEW c \in Disk, TaskGet(t, d, c) PROVE IInv'
<1>1. mod \notin AfterPdm /\ "lun" \in res[d] BY DEF TaskGet, AfterPdm, IInv, Stage
<1>2. mod \notin Early
  <2> SUFFICES ASSUME mod \in Early PROVE FALSE OBVIOUS
  <2>1. cmd = "none" /\ tbl = {} BY DEF IInv, Stage
  <2>2. HddIdle(d) BY <2>1 DEF IInv, DiskInv, Target, HddCmd
  <2>3. res[d] = {} BY <2>1, <2>2 DEF HddIdle, Early
  <2> QED BY <1>1, <2>3
<1> QED BY <1>1, <1>2, PopulationStep DEF TaskGet

LEMMA PopulateStep ==
    ASSUME IInv, NEW t \in Task, Populate(t) PROVE IInv'
<1>1. /\ tcache[t] \in Disk /\ mod \notin Early \cup AfterPdm
  BY DEF IInv, TaskInv, Populate, TaskRead, TaskStore, TaskWrite
<1>2. CASE TaskRead(t) BY <1>1, <1>2, PopulationStep DEF TaskRead
<1>3. CASE TaskStore(t) BY <1>1, <1>3, PopulationStep DEF TaskStore
<1>4. CASE TaskWrite(t) BY <1>4, PopulationStep DEF TaskWrite
<1> QED BY <1>2, <1>3, <1>4 DEF Populate
-----------------------------------------------------------------------------
(* Loading and unloading. *)

LEMMA LoadStep ==
    ASSUME IInv, LoadFiles \/ LoadDone \/ LoadCrash \/ UseFreedEngine PROVE IInv'
<1> USE DEF LoadFiles, LoadDone, LoadCrash, UseFreedEngine, ctlvars, hddvars, ssdvars, reqvars, popvars
<1>1. TypeOK' BY DEF IInv, TypeOK, Early
<1>2. Stage' BY DEF IInv, Stage, Early, Exiting, AfterSsd, AfterHdd
<1>3. ASSUME NEW e \in Disk PROVE DiskInv(e)' BY NoDisk
<1>4. ASSUME NEW j \in Io PROVE ReqInv(j)' BY DEF IInv, ReqInv, At, Early, Full
<1>5. ASSUME NEW v \in Task PROVE TaskInv(v)' BY DEF IInv, TaskInv, Early, AfterPdm
<1> QED BY <1>1, <1>2, <1>3, <1>4, <1>5 DEF IInv

\* With no command about and tables that are empty, so is every structure.
LEMMA NoCommand ==
    ASSUME IInv, cmd = "none", NEW d \in Disk
    PROVE  /\ HddIdle(d) /\ SsdIdle(d)
           /\ tbl = {} => Absent(d)
           /\ stbl = Dangling => sres[d] = {}
<1>1. HddIdle(d) /\ SsdIdle(d) BY DEF IInv, DiskInv, Target, Cache, HddCmd, SsdCmd
<1> QED BY <1>1 DEF HddIdle, SsdIdle, Absent, Dangling, SsdAll

LEMMA ExitStep ==
    ASSUME IInv, ExitStart \/ SsdWalk \/ StopPdm \/ DestroySce \/ ExitDone PROVE IInv'
<1> USE DEF ExitStart, SsdWalk, StopPdm, DestroySce, ExitDone, Exit,
            ctlvars, hddvars, ssdvars, reqvars, popvars
<1>1. TypeOK'
  <2>1. mod' \in Exiting /\ sce' \in BOOLEAN BY DEF IInv, TypeOK, Exiting
  <2> QED BY <2>1 DEF IInv, TypeOK
<1>2. Stage'
  <2>1. cmd = "none" /\ stbl = Dangling => \A d \in Disk : sres[d] = {} BY NoCommand
  <2> QED BY <2>1 DEF IInv, Stage, Early, Exiting, AfterSsd, AfterHdd
<1>3. ASSUME NEW e \in Disk PROVE DiskInv(e)' BY NoDisk
<1>4. ASSUME NEW j \in Io PROVE ReqInv(j)' BY DEF IInv, ReqInv, At, Early, Full
<1>5. ASSUME NEW v \in Task PROVE TaskInv(v)' BY DEF IInv, TaskInv, Early, AfterPdm
<1> QED BY <1>1, <1>2, <1>3, <1>4, <1>5 DEF IInv

LEMMA HddWalkStep ==
    ASSUME IInv, HddWalk PROVE IInv'
<1> USE DEF HddWalk, Exit, ctlvars, hddvars, ssdvars, reqvars, popvars
<1>1. TypeOK' BY DEF IInv, TypeOK, Early, Exiting
<1>2. Stage' BY DEF IInv, Stage, Early, Exiting, AfterSsd, AfterHdd
<1>3. ASSUME NEW e \in Disk PROVE DiskInv(e)'
  <2>1. CASE mod = "ssds_gone" BY <2>1, NoDisk
  <2>2. CASE mod = "exit_hdd"
    <3>1. Absent(e)' /\ res'[e] = {} /\ cmd' = "none"  BY <2>2, NoCommand DEF Absent
    <3>2. Target(e)' BY <3>1 DEF Target, HddCmd, HddIdle
    <3>3. Cache(e)' BY <2>2, NoCommand, <3>1 DEF Cache, SsdCmd, SsdIdle
    <3>4. Exclusive(e)' BY <3>1 DEF Exclusive
    <3> QED BY <3>2, <3>3, <3>4 DEF DiskInv
  <2> QED BY <2>1, <2>2
<1>4. ASSUME NEW j \in Io PROVE ReqInv(j)' BY DEF IInv, ReqInv, At, Early, Full
<1>5. ASSUME NEW v \in Task PROVE TaskInv(v)' BY DEF IInv, TaskInv, Early, AfterPdm
<1> QED BY <1>1, <1>2, <1>3, <1>4, <1>5 DEF IInv
-----------------------------------------------------------------------------
(* Registration of a target. *)

\* What a command on disk c may leave alone, and what is then to be shown.
CtlFrame(c) ==
    /\ UNCHANGED <<modvars, reqvars, popvars>>
    /\ \A d \in Disk \ {c} : SameHdd(d) /\ SameSsd(d)
    /\ cmd = "none" \/ cdisk = c
    /\ cmd' = "none" \/ cdisk' = c

LEMMA CtlStep ==
    ASSUME IInv, NEW c \in Disk, CtlFrame(c), TypeOK', Stage', DiskInv(c)',
           tbl \subseteq tbl' \/ mod \notin Full,
           \A i \in Io : ipc[i] = "in" /\ idisk[i] = c =>
               c \in online' \/ (At({"hrm"}, "wait") /\ cdisk = c)'
    PROVE  IInv'
<1>1. \A d \in Disk : DiskInv(d)' BY OneDisk DEF CtlFrame, modvars
<1>2. ASSUME NEW i \in Io PROVE ReqInv(i)'
  <2>1. ipc' = ipc /\ idisk' = idisk /\ mod' = mod BY DEF CtlFrame, modvars, reqvars
  <2>2. ASSUME ipc[i] = "in", idisk[i] # c PROVE idisk[i] \in online'
    <3>1. idisk[i] \in Disk BY <2>2 DEF IInv, ReqInv
    <3>2. idisk[i] \in online BY <2>2, <3>1 DEF IInv, ReqInv, CtlFrame, At
    <3> QED BY <2>2, <3>1, <3>2 DEF CtlFrame, SameHdd
  <2> QED BY <2>1, <2>2 DEF IInv, ReqInv, At
<1>3. ASSUME NEW t \in Task PROVE TaskInv(t)' BY DEF IInv, TaskInv, CtlFrame, popvars, modvars
<1> QED BY <1>1, <1>2, <1>3 DEF IInv

LEMMA HddStartStep ==
    ASSUME IInv, NEW d \in Disk, HddStart(d) PROVE IInv'
<1> USE DEF HddStart, CtlFree, Command, modvars, ctlvars, hddvars, ssdvars, reqvars, popvars
<1>1. TypeOK' BY DEF IInv, TypeOK, HddAll, HddCmd
<1>2. Stage' BY DEF IInv, Stage, Early, Exiting, AfterSsd, AfterHdd
<1>3. DiskInv(d)'
  <2>1. Absent(d) /\ SsdIdle(d) BY NoCommand DEF HddIdle, Absent
  <2>2. res'[d] = {"mem"} /\ At({"hadd"}, "take")' /\ cdisk' = d BY DEF IInv, TypeOK, At
  <2>3. Target(d)' BY <2>1, <2>2 DEF Target, HddBusy, At, Absent, HddSome, HddCmd
  <2>4. Cache(d)' BY <2>1 DEF Cache, SsdCmd, SsdIdle
  <2>5. Exclusive(d)' BY <2>2 DEF Exclusive
  <2> QED BY <2>3, <2>4, <2>5 DEF DiskInv
<1>4. CtlFrame(d) BY DEF CtlFrame, SameHdd, SameSsd, IInv, TypeOK
<1> QED BY <1>1, <1>2, <1>3, <1>4, CtlStep DEF IInv, ReqInv, At

LEMMA HddTakeStep ==
    ASSUME IInv, NEW r, HddTake(r) PROVE IInv'
<1> USE DEF HddTake, modvars, ctlvars, hddvars, ssdvars, reqvars, popvars
<1>1. cdisk \in Disk /\ cmd = "hadd" /\ cstep = "take" BY DEF IInv, TypeOK, At
<1>2. Absent(cdisk) /\ res[cdisk] \in HddSome \cup {HddAll} /\ SsdIdle(cdisk)
  BY <1>1 DEF IInv, DiskInv, Target, HddBusy, HddCmd, SsdCmd, Cache, At
<1>3. /\ res[cdisk] \cup {r} \in HddSome \cup {HddAll}
      /\ r \in {"bdev", "pools", "lun", "kobj"}
      /\ r \in {"pools", "lun"} => "bdev" \in res[cdisk]
  BY <1>2, HddNext
<1>4. TypeOK'
  <2>1. res' \in [Disk -> SUBSET HddAll] BY <1>3 DEF IInv, TypeOK, HddAll
  <2> QED BY <2>1 DEF IInv, TypeOK
<1>5. Stage' BY DEF IInv, Stage
<1>6. DiskInv(cdisk)'
  <2>1. res'[cdisk] = res[cdisk] \cup {r} BY <1>1 DEF IInv, TypeOK
  <2>2. Target(cdisk)' BY <1>1, <1>2, <1>3, <2>1 DEF Target, HddBusy, At, Absent, HddCmd
  <2>3. Cache(cdisk)' BY <1>1, <1>2 DEF Cache, SsdCmd, SsdIdle
  <2>4. Exclusive(cdisk)'
    BY <1>1, <1>3, <2>1 DEF IInv, DiskInv, Exclusive, HddClash
  <2> QED BY <2>2, <2>3, <2>4 DEF DiskInv
<1>7. CtlFrame(cdisk) BY <1>1 DEF CtlFrame, SameHdd, SameSsd, IInv, TypeOK
<1> QED BY <1>1, <1>4, <1>5, <1>6, <1>7, CtlStep DEF IInv, ReqInv, At

LEMMA HddFailStep ==
    ASSUME IInv, HddFail PROVE IInv'
<1> USE DEF HddFail, modvars, ctlvars, hddvars, ssdvars, reqvars, popvars
<1>1. cdisk \in Disk /\ cmd = "hadd" /\ cstep = "take" BY DEF IInv, TypeOK, At
<1>2. Absent(cdisk) /\ res[cdisk] \in HddSome /\ SsdIdle(cdisk)
  BY <1>1, AllParts DEF IInv, DiskInv, Target, HddBusy, HddCmd, SsdCmd, Cache, At
<1>3. TypeOK' BY <1>1 DEF IInv, TypeOK, HddCmd
<1>4. Stage' BY <1>1 DEF IInv, Stage, Early
<1>5. DiskInv(cdisk)'
  <2>1. Target(cdisk)' BY <1>1, <1>2 DEF Target, HddBusy, At, Absent, HddCmd
  <2>2. Cache(cdisk)' BY <1>1, <1>2 DEF Cache, SsdCmd, SsdIdle
  <2>3. Exclusive(cdisk)' BY <1>1 DEF IInv, DiskInv, Exclusive
  <2> QED BY <2>1, <2>2, <2>3 DEF DiskInv
<1>6. CtlFrame(cdisk) BY <1>1 DEF CtlFrame, SameHdd, SameSsd
<1> QED BY <1>1, <1>3, <1>4, <1>5, <1>6, CtlStep DEF IInv, ReqInv, At

LEMMA HddPublishStep ==
    ASSUME IInv, HddPublish PROVE IInv'
<1> USE DEF HddPublish, GoTo, modvars, ctlvars, hddvars, ssdvars, reqvars, popvars
<1>1. cdisk \in Disk /\ cmd = "hadd" /\ cstep = "take" BY DEF IInv, TypeOK, At
<1>2. Absent(cdisk) /\ res[cdisk] = HddAll /\ SsdIdle(cdisk)
  BY <1>1, AllParts DEF IInv, DiskInv, Target, HddBusy, HddCmd, SsdCmd, Cache, At
<1>3. TypeOK' BY <1>1 DEF IInv, TypeOK
<1>4. Stage' BY <1>1 DEF IInv, Stage, Early, Exiting, AfterHdd
<1>5. DiskInv(cdisk)'
  <2>1. Target(cdisk)' BY <1>1, <1>2 DEF Target, HddBusy, At, Absent, HddCmd
  <2>2. Cache(cdisk)' BY <1>1, <1>2 DEF Cache, SsdCmd, SsdIdle
  <2>3. Exclusive(cdisk)' BY <1>1 DEF IInv, DiskInv, Exclusive
  <2> QED BY <2>1, <2>2, <2>3 DEF DiskInv
<1>6. CtlFrame(cdisk) BY <1>1 DEF CtlFrame, SameHdd, SameSsd
<1> QED BY <1>1, <1>3, <1>4, <1>5, <1>6, CtlStep DEF IInv, ReqInv, At

LEMMA HddHookStep ==
    ASSUME IInv, HddHook PROVE IInv'
<1> USE DEF HddHook, EndCommand, modvars, ctlvars, hddvars, ssdvars, reqvars, popvars
<1>1. PICK c \in Disk : c = cdisk /\ cmd = "hadd" /\ cstep = "hook" BY DEF IInv, TypeOK, At
<1>2. c \in tbl /\ c \in online /\ res[c] = HddAll /\ SsdIdle(c)
  BY <1>1 DEF IInv, DiskInv, Target, HddBusy, HddCmd, SsdCmd, Cache, At
<1>3. TypeOK' BY <1>1 DEF IInv, TypeOK
<1>4. Stage' BY <1>1 DEF IInv, Stage
<1>5. DiskInv(c)'
  <2>1. Target(c)' BY <1>1, <1>2 DEF Target, HddIdle, Absent, HddCmd, HddAll, HddSome
  <2>2. Cache(c)' BY <1>1, <1>2 DEF Cache, SsdCmd, SsdIdle
  <2>3. Exclusive(c)' BY <1>1 DEF IInv, DiskInv, Exclusive
  <2> QED BY <2>1, <2>2, <2>3 DEF DiskInv
<1>6. CtlFrame(c) BY <1>1 DEF CtlFrame, SameHdd, SameSsd, IInv, TypeOK
<1> QED BY <1>1, <1>2, <1>3, <1>4, <1>5, <1>6, CtlStep DEF IInv, ReqInv, At

-----------------------------------------------------------------------------
(* Removal of a target. *)

LEMMA HddRmStep ==
    ASSUME IInv, NEW d \in Disk, HddRm(d) PROVE IInv'
<1> USE DEF HddRm, CtlFree, Command, modvars, ctlvars, hddvars, ssdvars, reqvars, popvars
<1>1. TypeOK' BY DEF IInv, TypeOK, HddCmd
<1>2. Stage' BY DEF IInv, Stage, Early, Exiting, AfterSsd, AfterHdd
<1>3. DiskInv(d)'
  <2>1. HddIdle(d) /\ SsdIdle(d) BY NoCommand
  <2>2. HddIdle(d)' BY <2>1 DEF HddIdle, Absent
  <2>3. Target(d)' BY <2>2 DEF Target, HddBusy, At, HddCmd
  <2>4. Cache(d)' BY <2>1 DEF Cache, SsdCmd, SsdIdle
  <2>5. Exclusive(d)' BY DEF IInv, DiskInv, Exclusive
  <2> QED BY <2>3, <2>4, <2>5 DEF DiskInv
<1>4. CtlFrame(d) BY DEF CtlFrame, SameHdd, SameSsd
<1> QED BY <1>1, <1>2, <1>3, <1>4, CtlStep DEF IInv, ReqInv, At

LEMMA RmUnhookStep ==
    ASSUME IInv, RmUnhook PROVE IInv'
<1> USE DEF RmUnhook, GoTo, modvars, ctlvars, hddvars, ssdvars, reqvars, popvars
<1>1. PICK c \in Disk : c = cdisk /\ cmd = "hrm" /\ cstep = "unhook" BY DEF IInv, TypeOK, At
<1>2. c \in tbl /\ (IF c \in online THEN res[c] = HddAll ELSE res[c] = {"mem"}) /\ SsdIdle(c)
  BY <1>1 DEF IInv, DiskInv, Target, HddBusy, HddCmd, SsdCmd, Cache, At, HddIdle, Absent
<1>3. TypeOK' BY <1>1 DEF IInv, TypeOK
<1>4. Stage' BY <1>1 DEF IInv, Stage
<1>5. DiskInv(c)'
  <2>1. Target(c)' BY <1>1, <1>2 DEF Target, HddBusy, At, Absent, HddCmd, HddAll, HddSome
  <2>2. Cache(c)' BY <1>1, <1>2 DEF Cache, SsdCmd, SsdIdle
  <2>3. Exclusive(c)' BY <1>1 DEF IInv, DiskInv, Exclusive
  <2> QED BY <2>1, <2>2, <2>3 DEF DiskInv
<1>6. CtlFrame(c) BY <1>1 DEF CtlFrame, SameHdd, SameSsd, IInv, TypeOK
<1> QED BY <1>1, <1>2, <1>3, <1>4, <1>5, <1>6, CtlStep DEF IInv, ReqInv, At

LEMMA RmOfflineStep ==
    ASSUME IInv, RmOffline PROVE IInv'
<1> USE DEF RmOffline, GoTo, modvars, ctlvars, hddvars, ssdvars, reqvars, popvars
<1>1. PICK c \in Disk : c = cdisk /\ cmd = "hrm" /\ cstep = "offline" BY DEF IInv, TypeOK, At
<1>2. c \in tbl /\ c \notin hook /\ res[c] = HddAll /\ SsdIdle(c)
  BY <1>1 DEF IInv, DiskInv, Target, HddBusy, HddCmd, SsdCmd, Cache, At
<1>3. TypeOK' BY <1>1 DEF IInv, TypeOK
<1>4. Stage' BY <1>1 DEF IInv, Stage
<1>5. DiskInv(c)'
  <2>1. Target(c)' BY <1>1, <1>2 DEF Target, HddBusy, At, Absent, HddCmd, HddAll, HddSome
  <2>2. Cache(c)' BY <1>1, <1>2 DEF Cache, SsdCmd, SsdIdle
  <2>3. Exclusive(c)' BY <1>1 DEF IInv, DiskInv, Exclusive
  <2> QED BY <2>1, <2>2, <2>3 DEF DiskInv
<1>6. CtlFrame(c) BY <1>1 DEF CtlFrame, SameHdd, SameSsd, IInv, TypeOK
<1> QED BY <1>1, <1>2, <1>3, <1>4, <1>5, <1>6, CtlStep DEF IInv, ReqInv, At

LEMMA RmWaitStep ==
    ASSUME IInv, RmWait PROVE IInv'
<1> USE DEF RmWait, GoTo, Refs, modvars, ctlvars, hddvars, ssdvars, reqvars, popvars
<1>1. PICK c \in Disk : c = cdisk /\ cmd = "hrm" /\ cstep = "wait" BY DEF IInv, TypeOK, At
<1>2. c \in tbl /\ c \notin online /\ c \notin hook /\ res[c] = HddAll /\ SsdIdle(c)
  BY <1>1 DEF IInv, DiskInv, Target, HddBusy, HddCmd, SsdCmd, Cache, At
<1>3. TypeOK' BY <1>1 DEF IInv, TypeOK
<1>4. Stage' BY <1>1 DEF IInv, Stage
<1>5. DiskInv(c)'
  <2>1. Target(c)' BY <1>1, <1>2 DEF Target, HddBusy, At, Absent, HddCmd, HddAll, HddSome
  <2>2. Cache(c)' BY <1>1, <1>2 DEF Cache, SsdCmd, SsdIdle
  <2>3. Exclusive(c)' BY <1>1 DEF IInv, DiskInv, Exclusive
  <2> QED BY <2>1, <2>2, <2>3 DEF DiskInv
<1>6. CtlFrame(c) BY <1>1 DEF CtlFrame, SameHdd, SameSsd, IInv, TypeOK
<1> QED BY <1>1, <1>2, <1>3, <1>4, <1>5, <1>6, CtlStep DEF IInv, ReqInv, At

LEMMA RmReleaseStep ==
    ASSUME IInv, RmRelease PROVE IInv'
<1> USE DEF RmRelease, GoTo, modvars, ctlvars, hddvars, ssdvars, reqvars, popvars
<1>1. PICK c \in Disk : c = cdisk /\ cmd \in {"hrm", "hfail"} /\ cstep = "release" BY DEF IInv, TypeOK, At
<1>2. /\ c \notin online /\ c \notin hook
      /\ \/ cmd = "hrm" /\ c \in tbl /\ res[c] \in {{"mem"}, HddAll}
         \/ cmd = "hfail" /\ c \notin tbl /\ res[c] \in HddSome
      /\ SsdIdle(c)
  BY <1>1 DEF IInv, DiskInv, Target, HddBusy, HddCmd, SsdCmd, Cache, At, Absent
<1>3. TypeOK'
  <2>1. res' \in [Disk -> SUBSET HddAll] BY DEF IInv, TypeOK
  <2> QED BY <1>1, <2>1 DEF IInv, TypeOK
<1>4. Stage' BY <1>1 DEF IInv, Stage
<1>5. DiskInv(c)'
  <2>0. res'[c] = res[c] \ {"pools", "bdev"} BY <1>1, <1>2 DEF IInv, TypeOK, HddAll, HddSome
  <2>1. Target(c)' BY <1>1, <1>2, <2>0 DEF Target, HddBusy, At, Absent, HddCmd, HddAll, HddSome
  <2>2. Cache(c)' BY <1>1, <1>2 DEF Cache, SsdCmd, SsdIdle
  <2>3. Exclusive(c)' BY <1>1, <2>0 DEF IInv, DiskInv, Exclusive
  <2> QED BY <2>1, <2>2, <2>3 DEF DiskInv
<1>6. CtlFrame(c) BY <1>1 DEF CtlFrame, SameHdd, SameSsd, IInv, TypeOK
<1> QED BY <1>1, <1>2, <1>3, <1>4, <1>5, <1>6, CtlStep DEF IInv, ReqInv, At

LEMMA RmLunStep ==
    ASSUME IInv, RmLun PROVE IInv'
<1> USE DEF RmLun, GoTo, modvars, ctlvars, hddvars, ssdvars, reqvars, popvars
<1>1. PICK c \in Disk : c = cdisk /\ cmd \in {"hrm", "hfail"} /\ cstep = "rmlun" BY DEF IInv, TypeOK, At
<1>2. /\ c \notin online /\ c \notin hook
      /\ \/ cmd = "hrm" /\ c \in tbl /\ res[c] \in {{"mem"}, {"mem", "lun", "kobj"}}
         \/ cmd = "hfail" /\ c \notin tbl /\ res[c] \in {{"mem"}, {"mem", "lun"}}
      /\ SsdIdle(c)
  BY <1>1 DEF IInv, DiskInv, Target, HddBusy, HddCmd, SsdCmd, Cache, At, Absent
<1>3. TypeOK'
  <2>1. res' \in [Disk -> SUBSET HddAll] BY DEF IInv, TypeOK
  <2> QED BY <1>1, <2>1 DEF IInv, TypeOK
<1>4. Stage' BY <1>1 DEF IInv, Stage
<1>5. DiskInv(c)'
  <2>0. res'[c] = res[c] \ {"lun"} BY <1>1, <1>2 DEF IInv, TypeOK, HddAll, HddSome
  <2>1. Target(c)' BY <1>1, <1>2, <2>0 DEF Target, HddBusy, At, Absent, HddCmd, HddAll, HddSome
  <2>2. Cache(c)' BY <1>1, <1>2 DEF Cache, SsdCmd, SsdIdle
  <2>3. Exclusive(c)' BY <1>1, <2>0 DEF IInv, DiskInv, Exclusive
  <2> QED BY <2>1, <2>2, <2>3 DEF DiskInv
<1>6. CtlFrame(c) BY <1>1 DEF CtlFrame, SameHdd, SameSsd, IInv, TypeOK
<1> QED BY <1>1, <1>2, <1>3, <1>4, <1>5, <1>6, CtlStep DEF IInv, ReqInv, At

LEMMA RmPutStep ==
    ASSUME IInv, RmPut PROVE IInv'
<1> USE DEF RmPut, EndCommand, modvars, ctlvars, hddvars, ssdvars, reqvars, popvars
<1>1. PICK c \in Disk : c = cdisk /\ cmd \in {"hrm", "hfail"} /\ cstep = "put" BY DEF IInv, TypeOK, At
<1>2. /\ c \notin online /\ c \notin hook
      /\ \/ cmd = "hrm" /\ c \in tbl /\ res[c] \in {{"mem"}, {"mem", "kobj"}}
         \/ cmd = "hfail" /\ c \notin tbl /\ res[c] = {"mem"}
      /\ SsdIdle(c)
  BY <1>1 DEF IInv, DiskInv, Target, HddBusy, HddCmd, SsdCmd, Cache, At, Absent
<1>3. TypeOK'
  <2>1. res' \in [Disk -> SUBSET HddAll] BY DEF IInv, TypeOK
  <2> QED BY <1>1, <2>1 DEF IInv, TypeOK
<1>4. Stage' BY <1>1 DEF IInv, Stage
<1>5. DiskInv(c)'
  <2>0. res'[c] = (IF cmd = "hfail" THEN {} ELSE {"mem"}) BY <1>1, <1>2 DEF IInv, TypeOK, HddAll, HddSome
  <2>1. Target(c)' BY <1>1, <1>2, <2>0 DEF Target, HddIdle, Absent, HddCmd, HddAll, HddSome
  <2>2. Cache(c)' BY <1>1, <1>2 DEF Cache, SsdCmd, SsdIdle
  <2>3. Exclusive(c)' BY <1>1, <2>0 DEF IInv, DiskInv, Exclusive
  <2> QED BY <2>1, <2>2, <2>3 DEF DiskInv
<1>6. CtlFrame(c) BY <1>1 DEF CtlFrame, SameHdd, SameSsd, IInv, TypeOK
<1> QED BY <1>1, <1>2, <1>3, <1>4, <1>5, <1>6, CtlStep DEF IInv, ReqInv, At, Full

-----------------------------------------------------------------------------
(* Registration and removal of a cache. *)

LEMMA SsdStartStep ==
    ASSUME IInv, NEW d \in Disk, SsdStart(d) PROVE IInv'
<1> USE DEF SsdStart, CtlFree, Command, modvars, ctlvars, hddvars, ssdvars, reqvars, popvars
<1>1. TypeOK' BY DEF IInv, TypeOK, SsdAll, SsdCmd
<1>2. Stage' BY DEF IInv, Stage, Early, Exiting, AfterSsd, AfterHdd
<1>3. DiskInv(d)'
  <2>1. HddIdle(d) /\ d \notin sonline BY NoCommand DEF SsdIdle
  <2>2. sres'[d] = {"mem"} /\ At({"sadd"}, "take")' /\ cdisk' = d BY DEF IInv, TypeOK, At
  <2>3. Cache(d)' BY <2>1, <2>2 DEF Cache, SsdBusy, At, SsdSome, SsdCmd
  <2>4. Target(d)' BY <2>1 DEF Target, HddCmd, HddIdle, Absent
  <2>5. Exclusive(d)' BY <2>2 DEF Exclusive
  <2> QED BY <2>3, <2>4, <2>5 DEF DiskInv
<1>4. CtlFrame(d) BY DEF CtlFrame, SameHdd, SameSsd, IInv, TypeOK
<1> QED BY <1>1, <1>2, <1>3, <1>4, CtlStep DEF IInv, ReqInv, At

LEMMA SsdTakeStep ==
    ASSUME IInv, NEW r, SsdTake(r) PROVE IInv'
<1> USE DEF SsdTake, modvars, ctlvars, hddvars, ssdvars, reqvars, popvars
<1>1. cdisk \in Disk /\ cmd = "sadd" /\ cstep = "take" BY DEF IInv, TypeOK, At
<1>2. /\ cdisk \notin stbl /\ cdisk \notin sonline
      /\ sres[cdisk] \in SsdSome \cup {SsdAll} /\ HddIdle(cdisk)
  BY <1>1 DEF IInv, DiskInv, Cache, SsdBusy, HddCmd, SsdCmd, Target, At
<1>3. /\ sres[cdisk] \cup {r} \in SsdSome \cup {SsdAll}
      /\ r \in {"bdev", "cdev", "kobj"}
      /\ r \in {"cdev", "kobj"} => "bdev" \in sres[cdisk]
  BY <1>2, SsdNext
<1>4. TypeOK'
  <2>1. sres' \in [Disk -> SUBSET SsdAll] BY <1>3 DEF IInv, TypeOK, SsdAll
  <2> QED BY <2>1 DEF IInv, TypeOK
<1>5. Stage' BY <1>1 DEF IInv, Stage, Exiting, AfterSsd
<1>6. DiskInv(cdisk)'
  <2>1. sres'[cdisk] = sres[cdisk] \cup {r} BY <1>1 DEF IInv, TypeOK
  <2>2. Cache(cdisk)' BY <1>1, <1>2, <1>3, <2>1 DEF Cache, SsdBusy, At, SsdCmd
  <2>3. Target(cdisk)' BY <1>1, <1>2 DEF Target, HddCmd, HddIdle, Absent
  <2>4. Exclusive(cdisk)'
    <3>1. CASE r \in {"cdev", "kobj"}
      <4>1. "bdev" \notin res[cdisk] BY <1>3, <3>1 DEF SsdClash
      <4>2. "pools" \notin res[cdisk] /\ "lun" \notin res[cdisk]
        BY <1>2, <4>1 DEF HddIdle, HddAll
      <4> QED BY <4>2 DEF Exclusive
    <3>2. CASE r = "bdev"
      BY <1>1, <1>2, <2>1, <3>2 DEF IInv, DiskInv, Exclusive, SsdSome, SsdAll
    <3> QED BY <1>3, <3>1, <3>2
  <2> QED BY <2>2, <2>3, <2>4 DEF DiskInv
<1>7. CtlFrame(cdisk) BY <1>1 DEF CtlFrame, SameHdd, SameSsd, IInv, TypeOK
<1> QED BY <1>1, <1>4, <1>5, <1>6, <1>7, CtlStep DEF IInv, ReqInv, At

LEMMA SsdFailStep ==
    ASSUME IInv, SsdFail PROVE IInv'
<1> USE DEF SsdFail, modvars, ctlvars, hddvars, ssdvars, reqvars, popvars
<1>1. PICK c \in Disk : c = cdisk /\ cmd = "sadd" /\ cstep = "take" BY DEF IInv, TypeOK, At
<1>2. c \notin stbl /\ c \notin sonline /\ sres[c] \in SsdSome /\ HddIdle(c)
  BY <1>1, AllParts DEF IInv, DiskInv, Cache, SsdBusy, HddCmd, SsdCmd, Target, At
<1>3. TypeOK' BY <1>1 DEF IInv, TypeOK, SsdCmd
<1>4. Stage' BY <1>1 DEF IInv, Stage, Early
<1>5. DiskInv(c)'
  <2>1. Cache(c)' BY <1>1, <1>2 DEF Cache, SsdBusy, At, SsdCmd, SsdAll, SsdSome
  <2>2. Target(c)' BY <1>1, <1>2 DEF Target, HddCmd, HddIdle, Absent
  <2>3. Exclusive(c)' BY <1>1, <1>2 DEF IInv, DiskInv, Exclusive, SsdAll, SsdSome
  <2> QED BY <2>1, <2>2, <2>3 DEF DiskInv
<1>6. CtlFrame(c) BY <1>1 DEF CtlFrame, SameHdd, SameSsd, IInv, TypeOK
<1> QED BY <1>1, <1>3, <1>4, <1>5, <1>6, CtlStep DEF IInv, ReqInv, At

LEMMA SsdPublishStep ==
    ASSUME IInv, SsdPublish PROVE IInv'
<1> USE DEF SsdPublish, EndCommand, modvars, ctlvars, hddvars, ssdvars, reqvars, popvars
<1>1. PICK c \in Disk : c = cdisk /\ cmd = "sadd" /\ cstep = "take" BY DEF IInv, TypeOK, At
<1>2. c \notin stbl /\ c \notin sonline /\ sres[c] = SsdAll /\ HddIdle(c)
  BY <1>1, AllParts DEF IInv, DiskInv, Cache, SsdBusy, HddCmd, SsdCmd, Target, At
<1>3. TypeOK' BY <1>1 DEF IInv, TypeOK
<1>4. Stage' BY <1>1 DEF IInv, Stage, Early
<1>5. DiskInv(c)'
  <2>1. Cache(c)' BY <1>1, <1>2 DEF Cache, SsdIdle, SsdCmd, SsdAll, SsdSome
  <2>2. Target(c)' BY <1>1, <1>2 DEF Target, HddCmd, HddIdle, Absent
  <2>3. Exclusive(c)' BY <1>1, <1>2 DEF IInv, DiskInv, Exclusive, SsdAll, SsdSome
  <2> QED BY <2>1, <2>2, <2>3 DEF DiskInv
<1>6. CtlFrame(c) BY <1>1 DEF CtlFrame, SameHdd, SameSsd, IInv, TypeOK
<1> QED BY <1>1, <1>3, <1>4, <1>5, <1>6, CtlStep DEF IInv, ReqInv, At

LEMMA SsdRmStep ==
    ASSUME IInv, NEW d \in Disk, SsdRm(d) PROVE IInv'
<1> USE DEF SsdRm, CtlFree, Command, modvars, ctlvars, hddvars, ssdvars, reqvars, popvars
<1>0. HddIdle(d) /\ SsdIdle(d) /\ "mem" \in sres[d] /\ d \in stbl BY NoCommand DEF Dangling
<1>1. TypeOK' BY DEF IInv, TypeOK, SsdCmd
<1>2. Stage' BY <1>0 DEF IInv, Stage, Early, Exiting, AfterSsd, AfterHdd
<1>3. DiskInv(d)'
  <2>1. Cache(d)' BY <1>0 DEF Cache, SsdBusy, SsdIdle, At, SsdCmd
  <2>2. Target(d)' BY <1>0 DEF Target, HddCmd, HddIdle, Absent
  <2>3. Exclusive(d)' BY DEF IInv, DiskInv, Exclusive
  <2> QED BY <2>1, <2>2, <2>3 DEF DiskInv
<1>4. CtlFrame(d) BY DEF CtlFrame, SameHdd, SameSsd
<1> QED BY <1>1, <1>2, <1>3, <1>4, CtlStep DEF IInv, ReqInv, At

LEMMA SrmCdevStep ==
    ASSUME IInv, SrmCdev PROVE IInv'
<1> USE DEF SrmCdev, GoTo, modvars, ctlvars, hddvars, ssdvars, reqvars, popvars
<1>1. PICK c \in Disk : c = cdisk /\ cmd \in {"srm", "sfail"} /\ cstep = "cdev" BY DEF IInv, TypeOK, At
<1>2. /\ \/ cmd = "srm" /\ c \in stbl /\ sres[c] = SsdAll
         \/ /\ cmd = "sfail" /\ c \notin stbl /\ c \notin sonline
            /\ sres[c] \in SsdSome
      /\ HddIdle(c)
  BY <1>1 DEF IInv, DiskInv, Cache, SsdBusy, HddCmd, SsdCmd, Target, At
<1>3. TypeOK'
  <2>1. sres' \in [Disk -> SUBSET SsdAll] BY DEF IInv, TypeOK
  <2> QED BY <1>1, <2>1 DEF IInv, TypeOK
<1>4. Stage' BY <1>1 DEF IInv, Stage, AfterSsd, Exiting, TypeOK
<1>5. DiskInv(c)'
  <2>0. sres'[c] = sres[c] \ {"cdev"} BY <1>1, <1>2 DEF IInv, TypeOK, SsdAll, SsdSome
  <2>1. Cache(c)' BY <1>1, <1>2, <2>0 DEF Cache, SsdBusy, At, SsdCmd, SsdAll, SsdSome
  <2>2. Target(c)' BY <1>1, <1>2 DEF Target, HddCmd, HddIdle, Absent
  <2>3. Exclusive(c)' BY <1>1, <1>2, <2>0 DEF IInv, DiskInv, Exclusive, SsdAll, SsdSome
  <2> QED BY <2>1, <2>2, <2>3 DEF DiskInv
<1>6. CtlFrame(c) BY <1>1 DEF CtlFrame, SameHdd, SameSsd, IInv, TypeOK
<1> QED BY <1>1, <1>3, <1>4, <1>5, <1>6, CtlStep DEF IInv, ReqInv, At

LEMMA SrmOfflineStep ==
    ASSUME IInv, SrmOffline PROVE IInv'
<1> USE DEF SrmOffline, GoTo, modvars, ctlvars, hddvars, ssdvars, reqvars, popvars
<1>1. PICK c \in Disk : c = cdisk /\ cmd \in {"srm", "sfail"} /\ cstep = "offline" BY DEF IInv, TypeOK, At
<1>2. /\ \/ cmd = "srm" /\ c \in stbl /\ sres[c] = {"mem", "bdev", "kobj"}
         \/ /\ cmd = "sfail" /\ c \notin stbl /\ c \notin sonline
            /\ sres[c] \in {{"mem"}, {"mem", "bdev"}}
      /\ HddIdle(c)
  BY <1>1 DEF IInv, DiskInv, Cache, SsdBusy, HddCmd, SsdCmd, Target, At
<1>3. TypeOK' BY <1>1 DEF IInv, TypeOK
<1>4. Stage' BY <1>1 DEF IInv, Stage
<1>5. DiskInv(c)'
  <2>1. Cache(c)' BY <1>1, <1>2 DEF Cache, SsdBusy, At, SsdCmd, SsdAll, SsdSome
  <2>2. Target(c)' BY <1>1, <1>2 DEF Target, HddCmd, HddIdle, Absent
  <2>3. Exclusive(c)' BY <1>1, <1>2 DEF IInv, DiskInv, Exclusive, SsdAll, SsdSome
  <2> QED BY <2>1, <2>2, <2>3 DEF DiskInv
<1>6. CtlFrame(c) BY <1>1 DEF CtlFrame, SameHdd, SameSsd, IInv, TypeOK
<1> QED BY <1>1, <1>3, <1>4, <1>5, <1>6, CtlStep DEF IInv, ReqInv, At

LEMMA SrmWaitStep ==
    ASSUME IInv, SrmWait PROVE IInv'
<1> USE DEF SrmWait, GoTo, modvars, ctlvars, hddvars, ssdvars, reqvars, popvars
<1>1. PICK c \in Disk : c = cdisk /\ cmd = "srm" /\ cstep = "wait" BY DEF IInv, TypeOK, At
<1>2. c \notin sonline /\ sres[c] = {"mem", "bdev", "kobj"} /\ HddIdle(c)
  BY <1>1 DEF IInv, DiskInv, Cache, SsdBusy, HddCmd, SsdCmd, Target, At
<1>3. TypeOK' BY <1>1 DEF IInv, TypeOK
<1>4. Stage' BY <1>1 DEF IInv, Stage
<1>5. DiskInv(c)'
  <2>1. Cache(c)' BY <1>1, <1>2 DEF Cache, SsdBusy, At, SsdCmd, SsdAll, SsdSome
  <2>2. Target(c)' BY <1>1, <1>2 DEF Target, HddCmd, HddIdle, Absent
  <2>3. Exclusive(c)' BY <1>1, <1>2 DEF IInv, DiskInv, Exclusive, SsdAll, SsdSome
  <2> QED BY <2>1, <2>2, <2>3 DEF DiskInv
<1>6. CtlFrame(c) BY <1>1 DEF CtlFrame, SameHdd, SameSsd, IInv, TypeOK
<1> QED BY <1>1, <1>3, <1>4, <1>5, <1>6, CtlStep DEF IInv, ReqInv, At

LEMMA SrmFreeStep ==
    ASSUME IInv, SrmFree PROVE IInv'
<1> USE DEF SrmFree, EndCommand, modvars, ctlvars, hddvars, ssdvars, reqvars, popvars
<1>1. PICK c \in Disk : c = cdisk /\ cmd \in {"srm", "sfail"} /\ cstep = "free" BY DEF IInv, TypeOK, At
<1>2. c \notin sonline /\ HddIdle(c)
  BY <1>1 DEF IInv, DiskInv, Cache, SsdBusy, HddCmd, SsdCmd, Target, At
<1>3. TypeOK'
  <2>1. sres' \in [Disk -> SUBSET SsdAll] BY DEF IInv, TypeOK
  <2> QED BY <1>1, <2>1 DEF IInv, TypeOK
<1>4. Stage' BY <1>1 DEF IInv, Stage, TypeOK
<1>5. DiskInv(c)'
  <2>0. sres'[c] = {} BY <1>1, <1>2 DEF IInv, TypeOK, SsdAll, SsdSome
  <2>1. Cache(c)' BY <1>1, <1>2, <2>0 DEF Cache, SsdIdle, SsdCmd, SsdAll, SsdSome
  <2>2. Target(c)' BY <1>1, <1>2 DEF Target, HddCmd, HddIdle, Absent
  <2>3. Exclusive(c)' BY <1>1, <1>2, <2>0 DEF IInv, DiskInv, Exclusive, SsdAll, SsdSome
  <2> QED BY <2>1, <2>2, <2>3 DEF DiskInv
<1>6. CtlFrame(c) BY <1>1 DEF CtlFrame, SameHdd, SameSsd, IInv, TypeOK
<1> QED BY <1>1, <1>3, <1>4, <1>5, <1>6, CtlStep DEF IInv, ReqInv, At

LEMMA SsdErrorStep ==
    ASSUME IInv, NEW d \in Disk, SsdError(d) PROVE IInv'
<1> USE DEF SsdError, modvars, ctlvars, hddvars, ssdvars, reqvars, popvars
<1>1. TypeOK' BY DEF IInv, TypeOK
<1>2. Stage' BY DEF IInv, Stage
<1>3. ASSUME NEW e \in Disk PROVE DiskInv(e)' BY NoDisk
<1>4. ASSUME NEW j \in Io PROVE ReqInv(j)' BY DEF IInv, ReqInv, At
<1>5. ASSUME NEW v \in Task PROVE TaskInv(v)' BY DEF IInv, TaskInv
<1> QED BY <1>1, <1>2, <1>3, <1>4, <1>5 DEF IInv
-----------------------------------------------------------------------------
LEMMA CtlIInv ==
    ASSUME IInv, Ctl PROVE IInv'
<1>1. ASSUME NEW r, HddTake(r) \/ SsdTake(r) PROVE IInv' BY <1>1, HddTakeStep, SsdTakeStep
<1>2. CASE HddFail \/ HddPublish \/ HddHook
  BY <1>2, HddFailStep, HddPublishStep, HddHookStep
<1>3. CASE RmUnhook \/ RmOffline \/ RmWait \/ RmRelease \/ RmLun \/ RmPut
  BY <1>3, RmUnhookStep, RmOfflineStep, RmWaitStep, RmReleaseStep, RmLunStep, RmPutStep
<1>4. CASE SsdFail \/ SsdPublish BY <1>4, SsdFailStep, SsdPublishStep
<1>5. CASE SrmCdev \/ SrmOffline \/ SrmWait \/ SrmFree
  BY <1>5, SrmCdevStep, SrmOfflineStep, SrmWaitStep, SrmFreeStep
<1>6. CASE UseFreedEngine BY <1>6, LoadStep
<1> QED BY <1>1, <1>2, <1>3, <1>4, <1>5, <1>6 DEF Ctl

LEMMA NextIInv == IInv /\ [Next]_vars => IInv'
<1> SUFFICES ASSUME IInv, [Next]_vars PROVE IInv' OBVIOUS
<1>1. CASE UNCHANGED vars
  <2> USE <1>1 DEF vars, modvars, ctlvars, hddvars, ssdvars, reqvars, popvars
  <2>1. TypeOK' /\ Stage' BY DEF IInv, TypeOK, Stage
  <2>2. ASSUME NEW e \in Disk PROVE DiskInv(e)' BY NoDisk
  <2>3. ASSUME NEW j \in Io PROVE ReqInv(j)' BY DEF IInv, ReqInv, At
  <2>4. ASSUME NEW v \in Task PROVE TaskInv(v)' BY DEF IInv, TaskInv
  <2> QED BY <2>1, <2>2, <2>3, <2>4 DEF IInv
<1>2. CASE LoadFiles \/ LoadDone \/ LoadCrash BY <1>2, LoadStep
<1>3. CASE ExitStart BY <1>3, ExitStep
<1>4. ASSUME NEW d \in Disk,
             HddStart(d) \/ HddRm(d) \/ SsdStart(d) \/ SsdRm(d) \/ SsdError(d)
      PROVE  IInv'
  BY <1>4, HddStartStep, HddRmStep, SsdStartStep, SsdRmStep, SsdErrorStep
<1>5. CASE Ctl BY <1>5, CtlIInv
<1>6. CASE Unload BY <1>6, ExitStep, HddWalkStep, SsdRmStep, HddRmStep DEF Unload
<1>7. ASSUME NEW i \in Io, Serve(i) \/ \E d \in Disk : Pick(i, d) PROVE IInv'
  BY <1>7, ServeStep, PickStep
<1>8. ASSUME NEW t \in Task, Populate(t) \/ \E d, c \in Disk : TaskGet(t, d, c) PROVE IInv'
  BY <1>8, PopulateStep, TaskGetStep
<1> QED BY <1>1, <1>2, <1>3, <1>4, <1>5, <1>6, <1>7, <1>8 DEF Next

\* The inductive invariant holds of every behaviour of the driver: what each
\* disk's structures hold follows from the tables and from the step of the
\* command that holds ctl_mtx, and how far the module is loaded or unloaded
\* bounds what there is.
THEOREM Invariance == Spec => []IInv
<1>1. Init => IInv BY InitIInv
<1>2. IInv /\ [Next]_vars => IInv' BY NextIInv
<1> QED BY <1>1, <1>2, PTL DEF Spec
-----------------------------------------------------------------------------
\* A request past the online check keeps a whole target under it, until it
\* gives its reference back, unless a target is registered during unload.
THEOREM ServedOnWhole == Spec => []ServedIsWhole
<1>1. IInv => ServedIsWhole
  <2> SUFFICES ASSUME IInv, NEW i \in Io, ipc[i] = "in", ~late
               PROVE  res[idisk[i]] = Whole(HddParts) /\ sce
    BY DEF ServedIsWhole
  <2>1. /\ idisk[i] \in Disk
        /\ idisk[i] \in online \/ (At({"hrm"}, "wait") /\ cdisk = idisk[i])
        /\ mod \notin Early
    BY DEF IInv, ReqInv
  <2>2. idisk[i] \in tbl /\ res[idisk[i]] = HddAll
    BY <2>1 DEF IInv, DiskInv, Target, HddBusy, HddIdle, Absent, At, HddCmd
  <2>3. sce BY <2>1, <2>2 DEF IInv, Stage, AfterHdd, Early
  <2> QED BY <2>2, <2>3, AllParts
<1> QED BY <1>1, Invariance, PTL

\* Until unload takes the targets out of the table, every request that was
\* led into the hook finds its target and the structure behind it.
THEOREM NoneLost == Spec => []LostOnlyAtUnload
<1>1. IInv => LostOnlyAtUnload
  <2> SUFFICES ASSUME IInv, mod \in Full, NEW i \in Io, ipc[i] # "idle"
               PROVE  idisk[i] \in tbl /\ "mem" \in res[idisk[i]]
    BY DEF LostOnlyAtUnload, Full
  <2>1. idisk[i] \in tbl /\ idisk[i] \in Disk BY DEF IInv, ReqInv, TypeOK
  <2>2. DiskInv(idisk[i]) BY <2>1 DEF IInv
  <2> QED BY <2>1, <2>2 DEF DiskInv, Target, HddBusy, HddIdle, Absent, HddAll
<1> QED BY <1>1, Invariance, PTL

\* No disk is target and cache at once.
THEOREM Disjoint == Spec => []RolesDisjoint
<1>1. IInv => RolesDisjoint
  <2> SUFFICES ASSUME IInv, NEW d \in Disk, "lun" \in res[d], "cdev" \in sres[d] PROVE FALSE
    BY DEF RolesDisjoint
  <2>1. "bdev" \in sres[d]
    BY DEF IInv, DiskInv, Cache, SsdBusy, SsdIdle, SsdAll, SsdSome
  <2> QED BY <2>1 DEF IInv, DiskInv, Exclusive
<1> QED BY <1>1, Invariance, PTL

\* The engine hands out open targets and caches only, but for the target that
\* _unload_hdd has closed and sce_rmlun is about to forget; and it stays
\* while a task is at work.
THEOREM HandedOutOpen == Spec => []HandsOutOpen
<1>1. IInv => HandsOutOpen
  <2> SUFFICES ASSUME IInv PROVE HandsOutOpen OBVIOUS
  <2>1. ASSUME NEW d \in Disk, "cdev" \in sres[d] PROVE {"mem", "bdev"} \subseteq sres[d]
    BY <2>1 DEF IInv, DiskInv, Cache, SsdBusy, SsdIdle, SsdAll, SsdSome
  <2>2. ASSUME NEW d \in Disk, "lun" \in res[d], ~(cstep = "rmlun" /\ cdisk = d)
        PROVE  {"mem", "bdev"} \subseteq res[d]
    BY <2>2 DEF IInv, DiskInv, Target, HddBusy, HddIdle, HddAll, HddSome, At
  <2>3. ASSUME NEW t \in Task, tpc[t] \in {"read", "store", "write"} PROVE sce
    BY <2>3 DEF IInv, TaskInv, Stage, Early, AfterPdm
  <2> QED BY <2>1, <2>2, <2>3 DEF HandsOutOpen
<1> QED BY <1>1, Invariance, PTL

\* The engine is freed without a lock, but no command or request is left that
\* could still reach it, unless a disk is registered after its walk.
THEOREM FreedAlone == Spec => []FreedUntouched
<1>1. IInv => FreedUntouched
  <2> SUFFICES ASSUME IInv, ~late, AtFreedEngine PROVE FALSE BY DEF FreedUntouched
  <2>1. mod \in {"absent"} \cup AfterPdm BY DEF AtFreedEngine, IInv, Stage, AfterPdm
  <2>2. mod # "absent"
    BY DEF AtFreedEngine, At, IInv, Stage, ReqInv, Early
  <2>3. /\ tbl = {} /\ \A d \in Disk : sres[d] = {}
        /\ cmd \notin {"sadd", "sfail", "hadd", "hfail"}
    BY <2>1, <2>2 DEF IInv, Stage, AfterPdm, AfterHdd, AfterSsd
  <2>4. CASE cmd = "hrm"
    <3>1. cdisk \in Disk BY <2>4 DEF IInv, TypeOK
    <3> QED BY <2>3, <2>4, <3>1 DEF IInv, DiskInv, Target, HddBusy, HddIdle, Absent, At, HddCmd
  <2>5. CASE cmd = "srm" /\ "cdev" \in sres[cdisk]
    BY <2>3, <2>5 DEF IInv, TypeOK
  <2>6. CASE \E i \in Io : ipc[i] = "in"
    <3>1. PICK i \in Io : ipc[i] = "in" BY <2>6
    <3>2. idisk[i] \in Disk /\ (idisk[i] \in online \/ (At({"hrm"}, "wait") /\ cdisk = idisk[i]))
      BY <3>1 DEF IInv, ReqInv
    <3>3. idisk[i] \in tbl
      BY <3>2 DEF IInv, DiskInv, Target, HddBusy, HddIdle, Absent, At, HddCmd
    <3> QED BY <2>3, <3>3
  <2> QED BY <2>3, <2>4, <2>5, <2>6 DEF AtFreedEngine, At
<1> QED BY <1>1, Invariance, PTL

\* An unloaded module leaves no hook, no open disk and no task behind, unless
\* something was registered during unload.
THEOREM ExitsClean == Spec => []CleanExit
<1>1. IInv => CleanExit
  <2> SUFFICES ASSUME IInv, mod = "gone", ~late
               PROVE  /\ hook = {} /\ tbl = {} /\ \A d \in Disk : res[d] = {} /\ sres[d] = {}
                      /\ \A t \in Task : tpc[t] \in {"idle", "oops"}
    BY DEF CleanExit
  <2>1. tbl = {} /\ cmd = "none" /\ \A d \in Disk : sres[d] = {}
    BY DEF IInv, Stage, AfterHdd, AfterSsd
  <2>2. ASSUME NEW d \in Disk PROVE res[d] = {} /\ d \notin hook
    BY <2>1, NoCommand DEF HddIdle, Absent
  <2>3. hook = {} BY <2>2 DEF IInv, TypeOK
  <2>4. ASSUME NEW t \in Task PROVE tpc[t] \in {"idle", "oops"}
    BY DEF IInv, TypeOK, TaskInv, AfterPdm
  <2> QED BY <2>1, <2>2, <2>3, <2>4
<1> QED BY <1>1, Invariance, PTL
=============================================================================
