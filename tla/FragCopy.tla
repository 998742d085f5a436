------------------------------ MODULE FragCopy ------------------------------
(***************************************************************************)
(* Where a fragment's sectors are: the addresses a population reads from   *)
(* the target and writes to the SSD, and those a cache hit reads, each     *)
(* computed in a different place and in integers of different widths.  One *)
(* physical fragment is followed through mappings of all kinds; products   *)
(* of fragment numbers are taken in 32 bits (modulo Word), sums with a     *)
(* sector_t in 64 (unbounded).  Whole disks: part_start = 0.               *)
(*                                                                         *)
(* A sector of the SSD is represented by the number of the disk sector     *)
(* whose data it holds.  Races of populations with writes are Coherence's. *)
(***************************************************************************)
EXTENDS FragBitmap

CONSTANTS
    SctrPerPage,  \* SCE_SCTRPERPAGE
    HeaderSctr,   \* IOSTASH_HEADERSCT
    Word,         \* 2^32
    TargetSize,   \* sectors a target may have
    CacheFrags,   \* fragments of the SSD a population may be given
    None

SctrPerFrag == SctrPerPage * PagePerFrag

ASSUME FragCopyAssumption ==
    /\ SctrPerPage \in Nat \ {0} /\ HeaderSctr \in Nat
    /\ Word \in Nat \ {0} /\ Word % SctrPerFrag = 0
    /\ TargetSize \subseteq Nat \ {0} /\ CacheFrags \subseteq Nat
    /\ None \notin Nat

VARIABLES
    size,   \* hdd->nr_sctr, lun->nr_sctr
    lfrag,  \* the target's fragment that is mapped, or None
    cfrag,  \* the number of the physical fragment on its SSD
    ready,  \* FRAGDESC_VALID
    ssd     \* what was written last: its first sector and the sectors' data

cvars == <<vars, size, lfrag, cfrag, ready, ssd>>

Nothing == [at |-> 0, data |-> << >>]

CInit ==
    /\ Init
    /\ size \in TargetSize
    /\ lfrag = None /\ cfrag = None /\ ready = FALSE /\ ssd = Nothing

NrFrag == (size + SctrPerFrag - 1) \div SctrPerFrag

(***************************************************************************)
(* _map_frag.  The pages of the last fragment that the target does not     *)
(* fill are invalid from the start.                                        *)
(***************************************************************************)
\* lun->nr_frag * SCE_SCTRPERFRAG; 0 when the target ends within the last
\* fragment below 2^32 sectors.
LunEnd == (NrFrag * SctrPerFrag) % Word
Padding(f) ==
    IF f = NrFrag - 1 /\ size < LunEnd
    THEN (LunEnd - size + SctrPerPage - 1) \div SctrPerPage ELSE 0

MapFrag(f, c) ==
    /\ lfrag = None
    /\ f < NrFrag
    /\ lfrag' = f /\ cfrag' = c
    /\ LET padded == SetBitmap(NoBits, PagePerFrag - Padding(f), Padding(f))
       IN  words' = padded.words /\ nrValid' = PagePerFrag - padded.nr_set
    /\ invalid' = PagePerFrag - Padding(f) .. PagePerFrag - 1
    /\ UNCHANGED <<size, ready, ssd>>

(***************************************************************************)
(* poptask_read and poptask_write, and the completion of the population.   *)
(***************************************************************************)
ReadStart(f) == (f * SctrPerFrag) % Word
ReadCount(f) ==
    IF ReadStart(f) + SctrPerFrag >= size THEN size - ReadStart(f) ELSE SctrPerFrag

\* Mutant: the header in front of the first fragment is forgotten.
WriteStartNoHeader(c) == (c * SctrPerFrag) % Word

WriteStart(c) == (c * SctrPerFrag + HeaderSctr) % Word

\* fragbuf beyond the sectors read holds what an earlier task left there.
FragBuf(f) ==
    [o \in 0 .. SctrPerFrag - 1 |-> IF o < ReadCount(f) THEN ReadStart(f) + o ELSE None]

Fill ==
    /\ lfrag # None /\ ~ready
    /\ ssd' = [at |-> WriteStart(cfrag), data |-> FragBuf(lfrag)]
    /\ ready' = TRUE
    /\ UNCHANGED <<vars, size, lfrag, cfrag>>

\* A write to the target invalidates pages of the fragment.
Write(pgnum, pgcnt) ==
    /\ lfrag # None
    /\ Invalidate(pgnum, pgcnt)
    /\ UNCHANGED <<size, lfrag, cfrag, ready, ssd>>

\* Collection, eviction or cancellation: what the SSD holds counts no more.
Unmap ==
    /\ lfrag # None
    /\ lfrag' = None /\ cfrag' = None /\ ready' = FALSE
    /\ words' = NoBits /\ nrValid' = PagePerFrag /\ invalid' = {}
    /\ ssd' = Nothing
    /\ UNCHANGED size

CNext ==
    \/ \E f \in 0 .. NrFrag - 1, c \in CacheFrags : MapFrag(f, c)
    \/ Fill \/ Unmap
    \/ \E r \in Ranges : Write(r[1], r[2])

CSpec == CInit /\ [][CNext]_cvars

(***************************************************************************)
(* A read of the sectors psn .. last: sce_get4read's pages, and the first  *)
(* sector of the SSD that _clone_init sends it to.                         *)
(***************************************************************************)
Hit(psn, last) ==
    LET firstpg == psn \div SctrPerPage
        lastpg == last \div SctrPerPage
    IN  ready /\ CheckBitmap(firstpg % PagePerFrag, lastpg - firstpg + 1)

CloneStart(psn) == ((cfrag * SctrPerFrag) % Word) + (psn % SctrPerFrag) + HeaderSctr

Data(x) == IF x - ssd.at \in 0 .. SctrPerFrag - 1 THEN ssd.data[x - ssd.at] ELSE None
-----------------------------------------------------------------------------
\* Does the fragment lie below 2^32 sectors, on the target and on the SSD?
Fits == lfrag * SctrPerFrag < Word /\ cfrag * SctrPerFrag + HeaderSctr < Word

\* Whatever a hit reads from the SSD is what the target holds at the address
\* asked for: population and hit agree on addresses, the sectors behind the
\* end of the target and those invalidated are never served; and the data is
\* in the fragment's own place behind the header, where no other fragment's
\* is.  Excepted are fragments beyond 2^32 sectors: the 32-bit products wrap.
HitReadsDisk ==
    ready /\ Fits =>
        LET first == lfrag * SctrPerFrag
            end == IF first + SctrPerFrag < size THEN first + SctrPerFrag ELSE size
        IN  /\ ssd.at = HeaderSctr + cfrag * SctrPerFrag
            /\ \A psn \in first .. end - 1 : \A last \in psn .. end - 1 :
                 Hit(psn, last) =>
                    \A k \in 0 .. last - psn : Data(CloneStart(psn) + k) = psn + k
=============================================================================
