------------------------------- MODULE Clock -------------------------------
(***************************************************************************)
(* Eviction: the CLOCK algorithm with reference counters of sce_eviction.c.*)
(* The arm sweeps over the fragments of all cache devices and evicts the   *)
(* first one that is in use, not in service and has no reference left,     *)
(* taking one reference from those it passes.                              *)
(*                                                                         *)
(* A fragment is here "free" (on the free list), "fill" (being populated), *)
(* "read" (in service for readers) or "idle" (mapped and not in service).  *)
(* The sweep is one action; it runs under sce->lock, so only what needs a  *)
(* LUN's lock alone, such as a read hit, could interleave with it.         *)
(***************************************************************************)
EXTENDS Integers, FiniteSets

CONSTANTS
    MaxCdev,     \* SCE_MAXCDEV
    MaxOff,      \* bound: fragments of the largest device
    DevFrags,    \* numbers of fragments a device may have
    RefCeiling,  \* SCE_REFCEILING
    NoFrag

Cdev == 0 .. MaxCdev - 1
Pfid == Cdev \X (0 .. MaxOff - 1)

ASSUME ClockAssumption ==
    /\ MaxCdev \in Nat \ {0} /\ MaxOff \in Nat \ {0}
    /\ DevFrags \subseteq 1 .. MaxOff
    /\ RefCeiling \in Nat \ {0}
    /\ NoFrag \notin Pfid

VARIABLES
    nf,     \* cdev_t.nr_frag; 0 when the slot is empty
    use,    \* what a fragment is used for
    ref,    \* frag_t.nr_ref
    arm     \* sce->arm

clockvars == <<nf, use, ref, arm>>

Present == {p \in Pfid : p[2] < nf[p[1]]}
Idle == {p \in Present : use[p] = "idle"}
Free == {p \in Present : use[p] = "free"}
NrCdev == Cardinality({c \in Cdev : nf[c] > 0})

ClockInit ==
    /\ nf = [c \in Cdev |-> 0]
    /\ use = [p \in Pfid |-> "free"]
    /\ ref = [p \in Pfid |-> 0]
    /\ arm = <<0, 0>>

(***************************************************************************)
(* _get_frag_advance_clockarm: Under(a) is the fragment the arm points at, *)
(* NoFrag at an empty slot, and Advance(a) the next position.  SCE_PFID    *)
(* keeps only the bits of a device number.                                 *)
(***************************************************************************)
Dev(a) == a[1] % NrCdev

Under(a) == IF nf[Dev(a)] = 0 THEN NoFrag ELSE <<Dev(a), a[2] % nf[Dev(a)]>>

Advance(a) ==
    IF nf[Dev(a)] = 0 THEN <<(Dev(a) + 1) % MaxCdev, a[2]>>
    ELSE LET off == (a[2] % nf[Dev(a)]) + 1
         IN  IF off >= nf[Dev(a)] THEN <<(Dev(a) + 1) % MaxCdev, 0>> ELSE <<Dev(a), off>>

(***************************************************************************)
(* _evict_frag: at most nr_frag * SCE_REFCEILING steps of the arm.         *)
(***************************************************************************)
\* Mutant: the references of a fragment do not protect it.
PassIgnoringRef(s, p) ==
    IF use[p] = "idle" THEN [s EXCEPT !.victim = p, !.stop = TRUE] ELSE s

Pass(s, p) ==
    IF use[p] # "idle" THEN s
    ELSE IF s.ref[p] = 0 THEN [s EXCEPT !.victim = p, !.stop = TRUE]
    ELSE [s EXCEPT !.ref[p] = @ - 1]

ArmStep(s) ==
    IF s.stop THEN s
    ELSE LET moved == [s EXCEPT !.arm = Advance(s.arm)]
         IN  IF Under(s.arm) = NoFrag THEN [moved EXCEPT !.stop = TRUE]
             ELSE Pass(moved, Under(s.arm))

Steps == Cardinality(Present) * RefCeiling

Sweep ==
    LET Start == [arm |-> arm, ref |-> ref, victim |-> NoFrag, stop |-> NrCdev = 0]
        S[i \in 0 .. Steps] == IF i = 0 THEN Start ELSE ArmStep(S[i - 1])
    IN  S[Steps]

(***************************************************************************)
(* The engine around it.                                                   *)
(***************************************************************************)
AddCdev(c, n) ==
    /\ nf[c] = 0
    /\ \A d \in Cdev : d < c => nf[d] > 0
    /\ nf' = [nf EXCEPT ![c] = n]
    /\ UNCHANGED <<use, ref, arm>>

RmCdev(c) ==
    /\ nf[c] > 0
    /\ nf' = [nf EXCEPT ![c] = 0]
    /\ use' = [p \in Pfid |-> IF p[1] = c THEN "free" ELSE use[p]]
    /\ ref' = [p \in Pfid |-> IF p[1] = c THEN 0 ELSE ref[p]]
    /\ UNCHANGED arm

\* _alloc4population finds a free fragment.
TakeFree(p) ==
    /\ p \in Free
    /\ use' = [use EXCEPT ![p] = "fill"]
    /\ ref' = [ref EXCEPT ![p] = 0]
    /\ UNCHANGED <<nf, arm>>

\* _alloc4population finds none and evicts; the victim is taken at once.
Evict ==
    /\ Present # {} /\ Free = {}
    /\ arm' = Sweep.arm
    /\ IF Sweep.victim = NoFrag
       THEN use' = use /\ ref' = Sweep.ref
       ELSE /\ use' = [use EXCEPT ![Sweep.victim] = "fill"]
            /\ ref' = [Sweep.ref EXCEPT ![Sweep.victim] = 0]
    /\ UNCHANGED nf

\* A read hit, also on a fragment other readers are using.
Hit(p) ==
    /\ p \in Present /\ use[p] \in {"idle", "read"}
    /\ use' = [use EXCEPT ![p] = "read"]
    /\ ref' = [ref EXCEPT ![p] = IF @ < RefCeiling THEN @ + 1 ELSE @]
    /\ UNCHANGED <<nf, arm>>

\* The last reader or the populator is done; an empty fragment is collected.
Release(p) ==
    /\ p \in Present /\ use[p] \in {"fill", "read"}
    /\ use' \in {[use EXCEPT ![p] = "idle"], [use EXCEPT ![p] = "free"]}
    /\ UNCHANGED <<nf, ref, arm>>

\* A write invalidates the last valid page of an idle fragment.
Collect(p) ==
    /\ p \in Idle
    /\ use' = [use EXCEPT ![p] = "free"]
    /\ UNCHANGED <<nf, ref, arm>>

ClockNext ==
    \/ \E c \in Cdev : RmCdev(c) \/ \E n \in DevFrags : AddCdev(c, n)
    \/ \E p \in Pfid : TakeFree(p) \/ Hit(p) \/ Release(p) \/ Collect(p)
    \/ Evict

ClockSpec == ClockInit /\ [][ClockNext]_clockvars
-----------------------------------------------------------------------------
\* Type invariant.
ClockTypeOK ==
    /\ nf \in [Cdev -> DevFrags \cup {0}]
    /\ use \in [Pfid -> {"free", "fill", "read", "idle"}]
    /\ ref \in [Pfid -> 0 .. RefCeiling]
    /\ arm \in Pfid

\* Devices fill the table from its start: no slot below one in use is empty.
Compact == \A c, d \in Cdev : c < d /\ nf[d] > 0 => nf[c] > 0

\* Where the arm gets from where it stands in as many steps as there are
\* fragments.
Round ==
    LET Arm[i \in 0 .. Cardinality(Present)] == IF i = 0 THEN arm ELSE Advance(Arm[i - 1])
    IN  {Under(Arm[i]) : i \in 0 .. Cardinality(Present) - 1}

\* With a table without holes the arm visits every fragment once per round,
\* wherever device removals and additions have left it pointing.
RoundIsComplete == Compact /\ NrCdev > 0 => Round = Present

\* A fragment that can be evicted is found as long as one of them has a
\* reference less than the ceiling; and the victim is in use, out of service,
\* and has as few references as any the arm could have taken instead.
EvictsColdest ==
    Compact =>
        /\ (\E p \in Idle : ref[p] < RefCeiling) => Sweep.victim # NoFrag
        /\ Sweep.victim # NoFrag =>
              Sweep.victim \in Idle /\ \A p \in Idle : ref[Sweep.victim] <= ref[p]
=============================================================================
