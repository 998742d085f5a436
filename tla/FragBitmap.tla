----------------------------- MODULE FragBitmap -----------------------------
(***************************************************************************)
(* The invalid-page bitmap of a physical fragment (sce_fragment.c): an     *)
(* array of words of EntSize bits, updated bit by bit and tested word by   *)
(* word with shifted masks, next to nr_valid, the number of valid pages.   *)
(* Module Sce uses the set of invalid pages instead; this module shows     *)
(* that the words say the same.  Word arithmetic is modulo 2^EntSize.      *)
(* Module FragCopy adds what the pages hold, and the next-state relation.  *)
(***************************************************************************)
EXTENDS Integers, FiniteSets

CONSTANTS
    EntSize,      \* BITMAPENT_SIZE
    PagePerFrag   \* SCE_PAGEPERFRAG

ASSUME FragBitmapAssumption ==
    /\ EntSize \in Nat \ {0}
    /\ PagePerFrag \in Nat \ {0}

Page == 0 .. PagePerFrag - 1
\* (bitmap_t) 1 << b
Pow2[b \in 0 .. EntSize] == IF b = 0 THEN 1 ELSE 2 * Pow2[b - 1]
Modulus == Pow2[EntSize]
NrWord == (PagePerFrag + EntSize - 1) \div EntSize   \* BITMAPARRAYSIZE
WordIdx == 0 .. NrWord - 1
\* The ranges of pages that pass the BUG_ONs: first page and number of pages.
Ranges == {r \in Page \X (1 .. PagePerFrag) : r[1] + r[2] <= PagePerFrag}

VARIABLES
    words,    \* frag_t.bitmap
    nrValid,  \* frag_t.nr_valid
    invalid   \* history: the pages invalidated since _frag_init

vars == <<words, nrValid, invalid>>

Bit(w, b) == (w \div Pow2[b]) % 2
\* w & mask is not zero
Meets(w, mask) == \E b \in 0 .. EntSize - 1 : Bit(w, b) = 1 /\ Bit(mask, b) = 1

NoBits == [i \in WordIdx |-> 0]

\* _frag_init
Init ==
    /\ words = NoBits
    /\ nrValid = PagePerFrag
    /\ invalid = {}

(***************************************************************************)
(* _set_bitmap: one bit per step; the mask that has been shifted out of    *)
(* the word moves on to the next word.                                     *)
(***************************************************************************)
\* Mutant: a mask shifted out of its word starts again in the same word.
NextMaskStays(s) ==
    LET m == (s.mask * 2) % Modulus
    IN  [s EXCEPT !.mask = IF m = 0 THEN 1 ELSE m]

NextMask(s) ==
    LET m == (s.mask * 2) % Modulus
    IN  IF m = 0 THEN [s EXCEPT !.i = @ + 1, !.mask = 1] ELSE [s EXCEPT !.mask = m]

SetBit(s) ==
    IF Meets(s.words[s.i], s.mask) THEN s
    ELSE [s EXCEPT !.nr_set = @ + 1, !.words[s.i] = @ + s.mask]

SetBitmap(bitmap, pgnum, pgcnt) ==
    LET Start == [i |-> pgnum \div EntSize, mask |-> Pow2[pgnum % EntSize],
                  words |-> bitmap, nr_set |-> 0]
        S[n \in 0 .. pgcnt] == IF n = 0 THEN Start ELSE NextMask(SetBit(S[n - 1]))
    IN  S[pgcnt]

\* _frag_invalidate
Invalidate(pgnum, pgcnt) ==
    /\ words' = SetBitmap(words, pgnum, pgcnt).words
    /\ nrValid' = nrValid - SetBitmap(words, pgnum, pgcnt).nr_set
    /\ invalid' = invalid \cup pgnum .. pgnum + pgcnt - 1

(***************************************************************************)
(* _check_bitmap: one page is looked up directly, a longer range word by   *)
(* word.  Check[c] is the answer when c pages are left, starting with the  *)
(* page that is c pages before the end of the range.                       *)
(***************************************************************************)
\* Mutant: the last word of a range is tested up to its end.
MaskWide(offset, pgcnt) == ((Modulus - 1) * Pow2[offset]) % Modulus

\* (bitmap_t)(-1), shifted right to pgcnt bits if these end inside the word,
\* then shifted left to offset.
Mask(offset, pgcnt) ==
    LET ones == IF pgcnt < EntSize - offset
                THEN (Modulus - 1) \div Pow2[EntSize - pgcnt]
                ELSE Modulus - 1
    IN  (ones * Pow2[offset]) % Modulus

CheckBitmap(pgnum, pgcnt) ==
    LET end == pgnum + pgcnt
        Check[c \in 0 .. pgcnt] ==
            IF c = 0 THEN TRUE
            ELSE LET page == end - c
                     offset == page % EntSize
                     nr_check == IF c < EntSize - offset THEN c ELSE EntSize - offset
                 IN  /\ ~Meets(words[page \div EntSize], Mask(offset, c))
                     /\ Check[c - nr_check]
    IN  IF pgcnt = 1 THEN Bit(words[pgnum \div EntSize], pgnum % EntSize) = 0
        ELSE Check[pgcnt]
-----------------------------------------------------------------------------
\* Type invariant.
TypeOK ==
    /\ words \in [WordIdx -> 0 .. Modulus - 1]
    /\ nrValid \in 0 .. PagePerFrag
    /\ invalid \subseteq Page

\* nr_valid is exact however invalidations overlap, so that _lun_gc drops a
\* fragment when, and only when, all its pages are invalid, and the BUG_ON on
\* nr_valid in _frag_invalidate cannot fire.
CountsValid == nrValid = Cardinality(Page \ invalid)

\* _frag_isvalid is true exactly of the ranges without an invalid page, for
\* ranges inside a word, across words and of whole words.
ChecksRange ==
    \A r \in Ranges : CheckBitmap(r[1], r[2]) <=> (r[1] .. r[1] + r[2] - 1) \cap invalid = {}
=============================================================================
