---------------------------- MODULE IoHookProofs ----------------------------
(***************************************************************************)
(* TLAPS proofs about module IoHook, for any number of reads, whatever may *)
(* fail, with or without the removal of the target.                        *)
(***************************************************************************)
EXTENDS IoHook, FiniteSetTheorems, TLAPS

\* Who will go on with a request: a work item, or the completion of a clone.
Queued(i) == i \in work
OnSsd(i) == <<i, "ssd">> \in clones
OnHdd(i) == <<i, "hdd">> \in clones
Busy(i) == Queued(i) \/ OnSsd(i) \/ OnHdd(i)

Flown(i) == "flow" \in mishap[i]
Erred(i) == "error" \in mishap[i]
NoMem(i) == "nomem" \in mishap[i]
Late(i) == "late" \in mishap[i]

\* The request has been taken on by the hook.
Taken(i) == spc[i] \in {"queued", "left"}

\* The decrements that somebody will owe later: for the clone in flight, and
\* for the retry SsdError has counted.  HddDone owes both, also for a request
\* that flowed to the HDD at once: afterwards it owes one too many.
Future(i) ==
    IF Queued(i) THEN IF i \in failed THEN 1 ELSE 0
    ELSE IF OnSsd(i) THEN 1
    ELSE IF OnHdd(i) THEN IF Flown(i) THEN 1 ELSE 2
    ELSE IF Flown(i) THEN -1
    ELSE IF Erred(i) /\ NoMem(i) THEN 1 ELSE 0

\* io_pending is what running code owes and what will be owed later.
Balance(i) == pending[i] = owes[i] + Future(i)

\* A struct lives while somebody goes on with it or its count is positive.
Life(i) ==
    /\ i \in alive => Taken(i)
    /\ Taken(i) => (i \in alive <=> ended[i] = "no")
    /\ ~Taken(i) => ended[i] = "no" /\ owes[i] = 0 /\ ~Flown(i) /\ ~(Erred(i) /\ NoMem(i))
    /\ Busy(i) => i \in alive
    /\ i \in alive /\ ~Busy(i) => pending[i] > 0
    /\ i \notin alive => pending[i] <= 0

\* What each phase of a request says about its flags and its pin.
Phase(i) ==
    /\ Queued(i) => ~OnSsd(i) /\ ~OnHdd(i) /\ ~Flown(i) /\ ~NoMem(i)
    /\ OnSsd(i) => ~OnHdd(i) /\ i \notin failed /\ ~Flown(i) /\ ~Erred(i) /\ ~NoMem(i)
    /\ OnHdd(i) => (~Flown(i) => i \in failed /\ Erred(i) /\ ~NoMem(i))
    /\ Queued(i) => (i \in failed <=> Erred(i)) /\ (i \notin failed => owes[i] = 0)
    /\ Flown(i) => ~Erred(i) /\ ~NoMem(i) /\ pin[i] = 0
    /\ (Queued(i) /\ i \notin failed) \/ OnSsd(i) => pin[i] = 1
    /\ Taken(i) /\ ~Busy(i) => i \in failed \/ i \in good
    /\ Taken(i) /\ ~Busy(i) /\ ~Erred(i) /\ ~NoMem(i) => pin[i] = 0
    /\ spc[i] \in {"idle", "entered", "routed"} =>
          ~Flown(i) /\ ~Erred(i) /\ ~NoMem(i) /\ i \notin failed

\* What QuietButForLate and ErrorReported say of one request.
Safe(i) ==
    /\ unload \in {"nopending", "destroyed"} /\ i \in alive => Late(i)
    /\ ~NewKernel /\ ended[i] = "ok" => i \in good

Request(i) == Balance(i) /\ Life(i) /\ Phase(i) /\ Safe(i)

\* After the target went offline nobody is routed any more, and once the wait
\* for nr_ref is over nobody is inside the hook.
Gate ==
    /\ unload # "no" => ~hddOnline
    /\ unload = "destroyed" => \A i \in Io : spc[i] # "routed"

\* The inductive invariant.
IInv == TypeOK /\ RefsExact /\ Gate /\ \A i \in Io : Request(i)
-----------------------------------------------------------------------------
(* Counting requests. *)

LEMMA Count ==
    ASSUME NEW S, S \subseteq Io
    PROVE  /\ IsFiniteSet(S)
           /\ Cardinality(S) \in Nat
           /\ Cardinality(S) = 0 <=> S = {}
           /\ \A i \in Io \ S : Cardinality(S \cup {i}) = Cardinality(S) + 1
           /\ \A i \in S : Cardinality(S \ {i}) = Cardinality(S) - 1
BY IoHookAssumption, FS_Subset, FS_CardinalityType, FS_EmptySet, FS_AddElement, FS_RemoveElement

Inside == {i \in Io : spc[i] \in {"entered", "routed", "queued"}}

\* hdd->nr_ref follows a submitter into the hook and out of it.
LEMMA Entering ==
    ASSUME TypeOK, RefsExact, NEW i \in Io, NEW pc, spc' = [spc EXCEPT ![i] = pc],
           i \notin Inside, pc \in {"entered", "routed", "queued"}
    PROVE  hddRef + 1 = Cardinality(Inside')
<1>1. Inside' = Inside \cup {i} BY DEF TypeOK, Inside
<1>2. Inside \subseteq Io BY DEF Inside
<1>3. Cardinality(Inside') = Cardinality(Inside) + 1 BY ONLY <1>1, <1>2, Count, i \in Io, i \notin Inside
<1> QED BY <1>3 DEF RefsExact, Inside

LEMMA Leaving ==
    ASSUME TypeOK, RefsExact, NEW i \in Io, NEW pc, spc' = [spc EXCEPT ![i] = pc],
           i \in Inside, pc \notin {"entered", "routed", "queued"}
    PROVE  hddRef - 1 = Cardinality(Inside')
<1>1. Inside' = Inside \ {i} BY DEF TypeOK, Inside
<1>2. Inside \subseteq Io BY DEF Inside
<1>3. Cardinality(Inside') = Cardinality(Inside) - 1 BY ONLY <1>1, <1>2, Count, i \in Inside
<1> QED BY <1>3 DEF RefsExact, Inside

LEMMA InsideRef ==
    ASSUME TypeOK, RefsExact, NEW i \in Io, spc[i] \in {"entered", "routed", "queued"}
    PROVE  hddRef - 1 \in Nat
<1>1. i \in Inside /\ Inside \subseteq Io BY DEF Inside
<1>2. Cardinality(Inside) \in Nat \ {0} BY ONLY <1>1, Count
<1> QED BY <1>2 DEF RefsExact, Inside

LEMMA Staying ==
    ASSUME TypeOK, NEW i \in Io, NEW pc, spc' = [spc EXCEPT ![i] = pc],
           i \in Inside, pc \in {"entered", "routed", "queued"}
    PROVE  Inside' = Inside
BY DEF TypeOK, Inside
-----------------------------------------------------------------------------
LEMMA InitIInv == Init => IInv
<1> SUFFICES ASSUME Init PROVE IInv OBVIOUS
<1>1. TypeOK BY DEF Init, TypeOK
<1>2. RefsExact
  <2>1. {i \in Io : spc[i] \in {"entered", "routed", "queued"}} = {} BY DEF Init
  <2> QED BY <2>1, FS_EmptySet DEF Init, RefsExact
<1>3. Gate BY DEF Init, Gate
<1>4. ASSUME NEW i \in Io PROVE Request(i)
  BY DEF Init, Request, Balance, Life, Phase, Safe, Future, Busy, Queued, OnSsd, OnHdd,
         Flown, Erred, NoMem, Taken
<1> QED BY <1>1, <1>2, <1>3, <1>4 DEF IInv
-----------------------------------------------------------------------------
(* A request that a step does not concern keeps its part of the invariant. *)

Unmoved(j) ==
    /\ spc'[j] = spc[j] /\ pending'[j] = pending[j] /\ owes'[j] = owes[j]
    /\ pin'[j] = pin[j] /\ ended'[j] = ended[j] /\ mishap'[j] = mishap[j]
    /\ j \in alive' <=> j \in alive
    /\ j \in work' <=> j \in work
    /\ j \in failed' <=> j \in failed
    /\ j \in good' <=> j \in good
    /\ <<j, "ssd">> \in clones' <=> <<j, "ssd">> \in clones
    /\ <<j, "hdd">> \in clones' <=> <<j, "hdd">> \in clones

LEMMA Others ==
    ASSUME NEW j \in Io, Request(j), Unmoved(j),
           unload' \in {"nopending", "destroyed"} /\ j \in alive => Late(j)
    PROVE  Request(j)'
<1>1. /\ Queued(j)' <=> Queued(j)
      /\ OnSsd(j)' <=> OnSsd(j)
      /\ OnHdd(j)' <=> OnHdd(j)
      /\ Flown(j)' <=> Flown(j)
      /\ Erred(j)' <=> Erred(j)
      /\ NoMem(j)' <=> NoMem(j)
      /\ Late(j)' <=> Late(j)
      /\ Taken(j)' <=> Taken(j)
  BY DEF Unmoved, Queued, OnSsd, OnHdd, Flown, Erred, NoMem, Late, Taken
<1>2. Busy(j)' <=> Busy(j) BY <1>1 DEF Busy
<1>3. Future(j)' = Future(j) BY <1>1 DEF Future, Unmoved
<1>4. Balance(j)' BY <1>3 DEF Balance, Request, Unmoved
<1>5. Life(j)' BY <1>1, <1>2 DEF Life, Request, Unmoved
<1>6. Phase(j)' BY <1>1, <1>2 DEF Phase, Request, Unmoved
<1>7. Safe(j)' BY <1>1 DEF Safe, Request, Unmoved
<1> QED BY <1>4, <1>5, <1>6, <1>7 DEF Request

\* It is enough to look at the request that steps.
LEMMA OneMoves ==
    ASSUME IInv, NEW i \in Io, unload' = unload,
           \A j \in Io \ {i} : Unmoved(j),
           Request(i)'
    PROVE  \A j \in Io : Request(j)'
BY Others DEF IInv, Request, Safe
-----------------------------------------------------------------------------
(* The submitter. *)

LEMMA EnterStep ==
    ASSUME IInv, NEW i \in Io, Enter(i) PROVE IInv'
<1> USE DEF Enter, iovars, endvars
<1>1. TypeOK' BY DEF IInv, TypeOK
<1>2. RefsExact' BY Entering DEF IInv, RefsExact, Inside
<1>3. Gate' BY DEF IInv, Gate, TypeOK
<1>4. Request(i)'
  BY DEF IInv, TypeOK, Request, Balance, Life, Phase, Safe, Gate, Future, Busy, Queued,
         OnSsd, OnHdd, Flown, Erred, NoMem, Late, Taken
<1>5. \A j \in Io \ {i} : Unmoved(j) BY DEF IInv, TypeOK, Unmoved
<1> QED BY <1>1, <1>2, <1>3, <1>4, <1>5, OneMoves DEF IInv

LEMMA CheckOnlineStep ==
    ASSUME IInv, NEW i \in Io, CheckOnline(i) PROVE IInv'
<1> USE DEF CheckOnline, Bypass, iovars, endvars
<1>1. TypeOK' BY InsideRef DEF IInv, TypeOK
<1>2. RefsExact' BY Leaving, Staying DEF IInv, RefsExact, Inside, TypeOK
<1>3. Gate' BY DEF IInv, Gate, TypeOK
<1>4. Request(i)'
  BY DEF IInv, TypeOK, Request, Balance, Life, Phase, Safe, Gate, Future, Busy, Queued,
         OnSsd, OnHdd, Flown, Erred, NoMem, Late, Taken
<1>5. \A j \in Io \ {i} : Unmoved(j) BY DEF IInv, TypeOK, Unmoved
<1> QED BY <1>1, <1>2, <1>3, <1>4, <1>5, OneMoves DEF IInv

LEMMA MissStep ==
    ASSUME IInv, NEW i \in Io, Miss(i) PROVE IInv'
<1> USE DEF Miss, Bypass, iovars, endvars
<1>1. TypeOK' BY InsideRef DEF IInv, TypeOK
<1>2. RefsExact' BY Leaving, Staying DEF IInv, RefsExact, Inside, TypeOK
<1>3. Gate' BY DEF IInv, Gate, TypeOK
<1>4. Request(i)'
  BY DEF IInv, TypeOK, Request, Balance, Life, Phase, Safe, Gate, Future, Busy, Queued,
         OnSsd, OnHdd, Flown, Erred, NoMem, Late, Taken
<1>5. \A j \in Io \ {i} : Unmoved(j) BY DEF IInv, TypeOK, Unmoved
<1> QED BY <1>1, <1>2, <1>3, <1>4, <1>5, OneMoves DEF IInv

LEMMA SubmitStep ==
    ASSUME IInv, NEW i \in Io, Submit(i) PROVE IInv'
<1> USE DEF Submit, Befalls
<1>1. TypeOK' BY DEF IInv, TypeOK
<1>2. RefsExact'
  <2>1. i \notin alive /\ alive \subseteq Io BY DEF IInv, TypeOK, Request, Life, Taken
  <2>2. Cardinality(alive') = Cardinality(alive) + 1
    <3>1. alive' = alive \cup {i} OBVIOUS
    <3> QED BY ONLY <2>1, <3>1, Count, i \in Io
  <2>3. Inside' = Inside BY Staying DEF IInv, Inside
  <2> QED BY <2>2, <2>3 DEF IInv, RefsExact, Inside, TypeOK
<1>3. Gate' BY DEF IInv, Gate, TypeOK
<1>4. Request(i)'
  BY DEF IInv, TypeOK, Request, Balance, Life, Phase, Safe, Gate, Future, Busy, Queued,
         OnSsd, OnHdd, Flown, Erred, NoMem, Late, Taken
<1>5. \A j \in Io \ {i} : Unmoved(j) BY DEF IInv, TypeOK, Unmoved
<1> QED BY <1>1, <1>2, <1>3, <1>4, <1>5, OneMoves DEF IInv

LEMMA SubmitNoMemStep ==
    ASSUME IInv, NEW i \in Io, SubmitNoMem(i) PROVE IInv'
<1> USE DEF SubmitNoMem, Bypass, Befalls, iovars, endvars
<1>1. TypeOK' BY InsideRef DEF IInv, TypeOK
<1>2. RefsExact' BY Leaving, Staying DEF IInv, RefsExact, Inside, TypeOK
<1>3. Gate' BY DEF IInv, Gate, TypeOK
<1>4. Request(i)'
  BY DEF IInv, TypeOK, Request, Balance, Life, Phase, Safe, Gate, Future, Busy, Queued,
         OnSsd, OnHdd, Flown, Erred, NoMem, Late, Taken
<1>5. \A j \in Io \ {i} : Unmoved(j) BY DEF IInv, TypeOK, Unmoved
<1> QED BY <1>1, <1>2, <1>3, <1>4, <1>5, OneMoves DEF IInv

LEMMA LeaveStep ==
    ASSUME IInv, NEW i \in Io, Leave(i) PROVE IInv'
<1> USE DEF Leave, iovars, endvars
<1>1. TypeOK' BY InsideRef DEF IInv, TypeOK
<1>2. RefsExact' BY Leaving, Staying DEF IInv, RefsExact, Inside, TypeOK
<1>3. Gate' BY DEF IInv, Gate, TypeOK
<1>4. Request(i)'
  BY DEF IInv, TypeOK, Request, Balance, Life, Phase, Safe, Gate, Future, Busy, Queued,
         OnSsd, OnHdd, Flown, Erred, NoMem, Late, Taken
<1>5. \A j \in Io \ {i} : Unmoved(j) BY DEF IInv, TypeOK, Unmoved
<1> QED BY <1>1, <1>2, <1>3, <1>4, <1>5, OneMoves DEF IInv

-----------------------------------------------------------------------------
(* The worker and the completions. *)

LEMMA WorkSsdStep ==
    ASSUME IInv, NEW i \in Io, WorkSsd(i) PROVE IInv'
<1>0. pending[i] = owes[i] + Future(i) /\ owes[i] \in Int BY DEF IInv, Request, Balance, TypeOK
<1> USE DEF WorkSsd, StartWork, endvars
<1>1. TypeOK' BY DEF IInv, TypeOK
<1>2. RefsExact' BY DEF IInv, RefsExact
<1>3. Gate' BY DEF IInv, Gate, TypeOK
<1>4. Request(i)'
  <2> USE DEF IInv, TypeOK, Request, Life, Phase, Busy, Queued,
         OnSsd, OnHdd, Flown, Erred, NoMem, Late, Taken
  <2>1. Balance(i)'
    <3>1. Future(i) = 0 /\ Future(i)' = 1 BY DEF Future
    <3>2. pending'[i] = pending[i] + 2 /\ owes'[i] = owes[i] + 1 OBVIOUS
    <3> QED BY ONLY <1>0, <3>1, <3>2 DEF Balance
  <2>2. Life(i)' BY DEF Balance, Future
  <2>3. Phase(i)'
    <3>1. <<i, "ssd">> # <<i, "hdd">> OBVIOUS
    <3>2. CASE i \in failed BY <3>1, <3>2
    <3>3. CASE i \notin failed BY <3>1, <3>3
    <3> QED BY <3>2, <3>3
  <2>4. Safe(i)' BY DEF Safe
  <2> QED BY <2>1, <2>2, <2>3, <2>4 DEF Request
<1>5. \A j \in Io \ {i} : Unmoved(j) BY DEF IInv, TypeOK, Unmoved
<1> QED BY <1>1, <1>2, <1>3, <1>4, <1>5, OneMoves DEF IInv

LEMMA WorkHddStep ==
    ASSUME IInv, NEW i \in Io, WorkHdd(i) PROVE IInv'
<1>0. pending[i] = owes[i] + Future(i) /\ owes[i] \in Int BY DEF IInv, Request, Balance, TypeOK
<1> USE DEF WorkHdd, StartWork, Befalls, endvars
<1>1. TypeOK'
  <2>1. i \in work /\ i \notin failed => pin[i] - 1 \in Nat BY DEF IInv, Request, Phase, Queued
  <2>2. pin' \in [Io -> Nat] BY <2>1 DEF IInv, TypeOK
  <2> QED BY <2>2 DEF IInv, TypeOK
<1>2. RefsExact' BY DEF IInv, RefsExact
<1>3. Gate' BY DEF IInv, Gate, TypeOK
<1>4. Request(i)'
  <2> USE DEF IInv, TypeOK, Request, Life, Phase, Busy, Queued,
         OnSsd, OnHdd, Flown, Erred, NoMem, Late, Taken
  <2>1. Balance(i)'
    <3>1. Future(i)' = Future(i) + 1
      <4>1. CASE i \in failed
        <5>1. ~Flown(i) /\ mishap' = mishap /\ ~OnSsd(i) BY <4>1
        <5>2. Future(i) = 1 BY <4>1 DEF Future
        <5>3. Future(i)' = 2
          <6>1. ~Queued(i)' /\ ~OnSsd(i)' /\ OnHdd(i)' /\ ~Flown(i)' BY <5>1
          <6> QED BY ONLY <6>1 DEF Future
        <5> QED BY ONLY <5>2, <5>3
      <4>2. CASE i \notin failed BY <4>2 DEF Future
      <4> QED BY <4>1, <4>2
    <3>2. pending'[i] = pending[i] + 2 /\ owes'[i] = owes[i] + 1 OBVIOUS
    <3>4. Future(i) \in Int BY DEF Future
    <3> QED BY ONLY <1>0, <3>1, <3>2, <3>4 DEF Balance
  <2>2. Life(i)' BY DEF Balance, Future
  <2>3. Phase(i)'
    <3>1. <<i, "ssd">> # <<i, "hdd">> OBVIOUS
    <3>2. CASE i \in failed BY <3>1, <3>2
    <3>3. CASE i \notin failed
      <4>1. ~Queued(i)' /\ ~OnSsd(i)' /\ OnHdd(i)' BY <3>1, <3>3
      <4>2. Flown(i)' /\ ~Erred(i)' /\ ~NoMem(i)' BY <3>3
      <4>3. pin'[i] = 0
        <5>1. pin[i] = 1 BY <3>3
        <5>2. pin' = [pin EXCEPT ![i] = @ - 1] /\ pin \in [Io -> Nat] BY <3>3
        <5> QED BY ONLY <5>1, <5>2, i \in Io
      <4>4. Taken(i)' BY <3>3
      <4> HIDE DEF Queued, OnSsd, OnHdd, Flown, Erred, NoMem
      <4> QED BY ONLY <4>1, <4>2, <4>3, <4>4 DEF Phase, Busy, Taken
    <3> QED BY <3>2, <3>3
  <2>4. Safe(i)' BY DEF Safe
  <2> QED BY <2>1, <2>2, <2>3, <2>4 DEF Request
<1>5. \A j \in Io \ {i} : Unmoved(j) BY DEF IInv, TypeOK, Unmoved
<1> QED BY <1>1, <1>2, <1>3, <1>4, <1>5, OneMoves DEF IInv

LEMMA WorkNoMemStep ==
    ASSUME IInv, NEW i \in Io, WorkNoMem(i) PROVE IInv'
<1> USE DEF WorkNoMem, StartWork, Befalls, endvars
<1>1. TypeOK'
  <2>1. i \in work /\ i \notin failed => pin[i] - 1 \in Nat BY DEF IInv, Request, Phase, Queued
  <2>2. pin' \in [Io -> Nat] BY <2>1 DEF IInv, TypeOK
  <2>3. mishap' \in [Io -> SUBSET {"error", "nomem", "flow", "late"}] BY DEF IInv, TypeOK
  <2> QED BY <2>2, <2>3 DEF IInv, TypeOK
<1>2. RefsExact' BY DEF IInv, RefsExact
<1>3. Gate' BY DEF IInv, Gate, TypeOK
<1>4. Request(i)'
  BY DEF IInv, TypeOK, Request, Balance, Life, Phase, Safe, Gate, Future, Busy, Queued,
         OnSsd, OnHdd, Flown, Erred, NoMem, Late, Taken
<1>5. \A j \in Io \ {i} : Unmoved(j) BY DEF IInv, TypeOK, Unmoved
<1> QED BY <1>1, <1>2, <1>3, <1>4, <1>5, OneMoves DEF IInv

LEMMA SsdOkStep ==
    ASSUME IInv, NEW i \in Io, SsdOk(i) PROVE IInv'
<1> USE DEF SsdOk, endvars
<1>1. TypeOK'
  <2>1. pin[i] - 1 \in Nat BY DEF IInv, Request, Phase, Queued, OnSsd
  <2> QED BY <2>1 DEF IInv, TypeOK
<1>2. RefsExact' BY DEF IInv, RefsExact
<1>3. Gate' BY DEF IInv, Gate, TypeOK
<1>4. Request(i)'
  BY DEF IInv, TypeOK, Request, Balance, Life, Phase, Safe, Gate, Future, Busy, Queued,
         OnSsd, OnHdd, Flown, Erred, NoMem, Late, Taken
<1>5. \A j \in Io \ {i} : Unmoved(j) BY DEF IInv, TypeOK, Unmoved
<1> QED BY <1>1, <1>2, <1>3, <1>4, <1>5, OneMoves DEF IInv

LEMMA SsdErrorStep ==
    ASSUME IInv, NEW i \in Io, SsdError(i) PROVE IInv'
<1> USE DEF SsdError, Befalls, endvars
<1>1. TypeOK'
  <2>1. ssdOnline' \in BOOLEAN OBVIOUS
  <2> QED BY <2>1 DEF IInv, TypeOK
<1>2. RefsExact' BY DEF IInv, RefsExact
<1>3. Gate' BY DEF IInv, Gate, TypeOK
<1>4. Request(i)'
  BY DEF IInv, TypeOK, Request, Balance, Life, Phase, Safe, Gate, Future, Busy, Queued,
         OnSsd, OnHdd, Flown, Erred, NoMem, Late, Taken
<1>5. \A j \in Io \ {i} : Unmoved(j) BY DEF IInv, TypeOK, Unmoved
<1> QED BY <1>1, <1>2, <1>3, <1>4, <1>5, OneMoves DEF IInv

LEMMA HddDoneStep ==
    ASSUME IInv, NEW i \in Io, HddDone(i) PROVE IInv'
<1> USE DEF HddDone, endvars
<1>1. TypeOK' BY DEF IInv, TypeOK
<1>2. RefsExact' BY DEF IInv, RefsExact
<1>3. Gate' BY DEF IInv, Gate, TypeOK
<1>4. Request(i)'
  BY DEF IInv, TypeOK, Request, Balance, Life, Phase, Safe, Gate, Future, Busy, Queued,
         OnSsd, OnHdd, Flown, Erred, NoMem, Late, Taken
<1>5. \A j \in Io \ {i} : Unmoved(j) BY DEF IInv, TypeOK, Unmoved
<1> QED BY <1>1, <1>2, <1>3, <1>4, <1>5, OneMoves DEF IInv

LEMMA DecPendingStep ==
    ASSUME IInv, NEW i \in Io, DecPending(i) PROVE IInv'
<1> USE DEF DecPending, Release, EndResult
<1>0. pending[i] = 1 => /\ i \in alive
                        /\ Cardinality(alive \ {i}) = Cardinality(alive) - 1
                        /\ Cardinality(alive \ {i}) \in Nat
  <2>1. pending[i] = 1 => i \in alive BY DEF IInv, Request, Life
  <2>2. alive \subseteq Io /\ alive \ {i} \subseteq Io BY DEF IInv, TypeOK
  <2> QED BY ONLY <2>1, <2>2, Count
<1>1. TypeOK'
  <2>1. pending[i] = 1 => hddPending - 1 \in Nat /\ ssdRef - 1 \in Nat
    BY <1>0 DEF IInv, RefsExact
  <2>2. owes[i] - 1 \in Nat BY DEF IInv, TypeOK
  <2>3. ended' \in [Io -> {"no", "ok", "error"}] BY DEF IInv, TypeOK
  <2>4. owes' \in [Io -> Nat] /\ pending' \in [Io -> Int] BY <2>2 DEF IInv, TypeOK
  <2>5. alive' \subseteq Io /\ hddPending' \in Nat /\ ssdRef' \in Nat BY <2>1 DEF IInv, TypeOK
  <2> QED BY <2>3, <2>4, <2>5 DEF IInv, TypeOK
<1>2. RefsExact' BY <1>0 DEF IInv, RefsExact
<1>3. Gate' BY DEF IInv, Gate, TypeOK
<1>4. Request(i)'
  BY DEF IInv, TypeOK, Request, Balance, Life, Phase, Safe, Gate, Future, Busy, Queued,
         OnSsd, OnHdd, Flown, Erred, NoMem, Late, Taken
<1>5. \A j \in Io \ {i} : Unmoved(j) BY DEF IInv, TypeOK, Unmoved
<1> QED BY <1>1, <1>2, <1>3, <1>4, <1>5, OneMoves DEF IInv

-----------------------------------------------------------------------------
(* The removal of the target. *)

LEMMA UnloadOfflineStep ==
    ASSUME IInv, UnloadOffline PROVE IInv'
<1> USE DEF UnloadOffline, iovars, endvars
<1>1. TypeOK' BY DEF IInv, TypeOK
<1>2. RefsExact' BY DEF IInv, RefsExact
<1>3. Gate' BY DEF IInv, Gate
<1>4. ASSUME NEW j \in Io PROVE Request(j)'
  BY Others DEF Unmoved, IInv
<1> QED BY <1>1, <1>2, <1>3, <1>4 DEF IInv

\* io_pending is zero: no request has a struct.
LEMMA UnloadPendingStep ==
    ASSUME IInv, UnloadPending PROVE IInv'
<1> USE DEF UnloadPending, iovars, endvars
<1>1. TypeOK' BY DEF IInv, TypeOK
<1>2. RefsExact' BY DEF IInv, RefsExact
<1>3. Gate' BY DEF IInv, Gate
<1>4. alive = {}
  <2>1. Cardinality(alive) = 0 /\ alive \subseteq Io BY DEF IInv, RefsExact, TypeOK
  <2> QED BY ONLY <2>1, Count
<1>5. ASSUME NEW j \in Io PROVE Request(j)'
  BY <1>4, Others DEF Unmoved, IInv
<1> QED BY <1>1, <1>2, <1>3, <1>5 DEF IInv

\* nr_ref is zero: no submitter is inside the hook.
LEMMA UnloadDestroyStep ==
    ASSUME IInv, UnloadDestroy PROVE IInv'
<1> USE DEF UnloadDestroy, iovars, endvars
<1>1. TypeOK' BY DEF IInv, TypeOK
<1>2. RefsExact' BY DEF IInv, RefsExact
<1>3. \A i \in Io : spc[i] # "routed"
  <2>1. Cardinality(Inside) = 0 /\ Inside \subseteq Io BY DEF IInv, RefsExact, Inside
  <2>2. Inside = {} BY ONLY <2>1, Count
  <2> QED BY <2>2 DEF Inside
<1>4. Gate' BY <1>3 DEF IInv, Gate
<1>5. ASSUME NEW j \in Io PROVE Request(j)'
  BY Others DEF Unmoved, IInv, Request, Safe
<1> QED BY <1>1, <1>2, <1>4, <1>5 DEF IInv
-----------------------------------------------------------------------------
LEMMA NextIInv == IInv /\ [Next]_vars => IInv'
<1> SUFFICES ASSUME IInv, [Next]_vars PROVE IInv' OBVIOUS
<1>1. CASE UNCHANGED vars
  BY <1>1 DEF vars, iovars, endvars, IInv, TypeOK, RefsExact, Gate, Request, Balance, Life,
              Phase, Safe, Future, Busy, Queued, OnSsd, OnHdd, Flown, Erred, NoMem, Late, Taken
<1>2. ASSUME NEW i \in Io, Enter(i) \/ Route(i) PROVE IInv'
  BY <1>2, EnterStep, CheckOnlineStep, MissStep, SubmitStep, SubmitNoMemStep, LeaveStep DEF Route
<1>3. ASSUME NEW i \in Io, Work(i) PROVE IInv'
  BY <1>3, WorkSsdStep, WorkHddStep, WorkNoMemStep DEF Work
<1>4. ASSUME NEW i \in Io, Complete(i) PROVE IInv'
  BY <1>4, SsdOkStep, SsdErrorStep, HddDoneStep DEF Complete
<1>5. CASE UnloadOffline \/ UnloadPending \/ UnloadDestroy
  BY <1>5, UnloadOfflineStep, UnloadPendingStep, UnloadDestroyStep
<1> QED BY <1>1, <1>2, <1>3, <1>4, <1>5, DecPendingStep DEF Next

\* The inductive invariant holds of every behaviour of the hook: the count of
\* a request is the decrements owed for it now and later, its struct lives
\* as long as somebody goes on with it, and its flags and its pin are those
\* of the phase it is in.
THEOREM Invariance == Spec => []IInv
<1>1. Init => IInv BY InitIInv
<1>2. IInv /\ [Next]_vars => IInv' BY NextIInv
<1> QED BY <1>1, <1>2, PTL DEF Spec
-----------------------------------------------------------------------------
\* The variables of the hook keep their types; in particular no reference
\* count and no pin goes below zero.
THEOREM TypeCorrect == Spec => []TypeOK
<1>1. IInv => TypeOK BY DEF IInv
<1> QED BY <1>1, Invariance, PTL

\* hdd->io_pending, ssd->nr_ref and hdd->nr_ref count exactly the requests and
\* the submitters that removal has to wait for.
THEOREM ReferencesExact == Spec => []RefsExact
<1>1. IInv => RefsExact BY DEF IInv
<1> QED BY <1>1, Invariance, PTL

\* Nobody works on a struct iostash_bio after it has been freed, however
\* completions, retries and the worker interleave, but for a read whose SSD
\* went offline between the submitter and the worker.
THEOREM ReleasedLast == Spec => []ReleaseIsLast
<1>1. IInv => ReleaseIsLast
  <2> SUFFICES ASSUME IInv, NEW i \in Io \ alive, "flow" \notin mishap[i]
               PROVE  /\ i \notin work /\ owes[i] = 0
                      /\ <<i, "ssd">> \notin clones /\ <<i, "hdd">> \notin clones
    BY DEF ReleaseIsLast
  <2>1. ~Busy(i) /\ pending[i] <= 0 BY DEF IInv, Request, Life
  <2>2. Future(i) \in {0, 1} BY <2>1 DEF Future, Busy, Flown
  <2>3. pending[i] = owes[i] + Future(i) /\ owes[i] \in Nat BY DEF IInv, Request, Balance, TypeOK
  <2>4. owes[i] = 0 BY ONLY <2>1, <2>2, <2>3
  <2> QED BY <2>1, <2>4 DEF Busy, Queued, OnSsd, OnHdd
<1> QED BY <1>1, Invariance, PTL

\* Before kernel 4.2 a read is completed as successful only when one of the
\* devices has delivered its data.
THEOREM ErrorsReported ==
    ASSUME NewKernel = FALSE PROVE Spec => []ErrorReported
<1>1. IInv => ErrorReported BY DEF IInv, Request, Safe, ErrorReported
<1> QED BY <1>1, Invariance, PTL

\* The pin of sce_get4read is put by the time the read is completed, but after
\* an SSD error or without memory for the clone.
THEOREM PinsPut == Spec => []PinPut
<1>1. IInv => PinPut
  <2> SUFFICES ASSUME IInv, NEW i \in Io, ended[i] # "no", ~Erred(i), ~NoMem(i)
               PROVE  pin[i] = 0
    BY DEF PinPut, Erred, NoMem
  <2>1. Taken(i) /\ i \notin alive BY DEF IInv, Request, Life
  <2>2. ~Busy(i) BY <2>1 DEF IInv, Request, Life
  <2> QED BY <2>1, <2>2 DEF IInv, Request, Phase
<1> QED BY <1>1, Invariance, PTL

\* When _unload_hdd destroys the pools, the only reads in flight are those that
\* slipped in between its two waits.
THEOREM Quiet == Spec => []QuietButForLate
<1>1. IInv => QuietButForLate
  BY DEF IInv, TypeOK, Request, Safe, Late, QuietButForLate
<1> QED BY <1>1, Invariance, PTL

\* A step may not complete a bio again: bio_endio is called once for a request,
\* also for one whose count _endio4read brings below zero.
CompletedOnce == [][\A i \in Io : ended[i] # "no" => ended'[i] = ended[i]]_vars

\* The original bio of a read is completed at most once.
THEOREM CompletesOnce == Spec => CompletedOnce
<1>1. IInv /\ [Next]_vars => [\A i \in Io : ended[i] # "no" => ended'[i] = ended[i]]_vars
  <2> SUFFICES ASSUME IInv, Next, NEW i \in Io, ended[i] # "no" PROVE ended'[i] = ended[i] OBVIOUS
  <2>1. ASSUME NEW j \in Io, DecPending(j) PROVE ended'[i] = ended[i]
    <3>1. CASE pending[j] = 1
      <4>1. j \in alive /\ ended[j] = "no" BY <3>1 DEF IInv, Request, Life
      <4>2. j # i BY <4>1
      <4> QED BY <2>1, <4>2 DEF DecPending, Release, IInv, TypeOK
    <3>2. CASE pending[j] # 1 BY <2>1, <3>2 DEF DecPending
    <3> QED BY <3>1, <3>2
  <2>2. ASSUME NEW j \in Io, Enter(j) \/ Route(j) \/ Work(j) \/ Complete(j)
        PROVE  ended' = ended
    BY <2>2 DEF Enter, Route, CheckOnline, Miss, Submit, SubmitNoMem, Leave, Work, WorkSsd, WorkHdd,
                WorkNoMem, Complete, SsdOk, SsdError, HddDone, endvars
  <2>3. CASE UnloadOffline \/ UnloadPending \/ UnloadDestroy
    BY <2>3 DEF UnloadOffline, UnloadPending, UnloadDestroy, endvars
  <2> QED BY <2>1, <2>2, <2>3 DEF Next
<1> QED BY <1>1, Invariance, PTL DEF Spec, CompletedOnce

-----------------------------------------------------------------------------
(* What EveryReadEnds asks for without fairness: a read that was taken on    *)
(* has somebody to go on with it, and takes only so many steps.             *)

\* A read that is not completed is queued, on a device, or has code running
\* that owes it a decrement; but for one stuck without memory for its retry.
NotForgotten == \A i \in alive : Busy(i) \/ owes[i] > 0 \/ Stuck(i)

\* No interleaving of completions, worker and submitter leaves a read behind
\* with nobody to complete it, but for a stuck one.
THEOREM NobodyForgotten == Spec => []NotForgotten
<1>1. IInv => NotForgotten
  <2> SUFFICES ASSUME IInv, NEW i \in alive, ~Busy(i), ~Stuck(i) PROVE owes[i] > 0
    BY DEF NotForgotten
  <2>1. i \in Io BY DEF IInv, TypeOK
  <2>2. pending[i] > 0 /\ pending[i] = owes[i] + Future(i) /\ owes[i] \in Nat
    BY <2>1 DEF IInv, TypeOK, Request, Life, Balance
  <2>3. Future(i) \in {-1, 0} BY DEF Future, Busy, Erred, NoMem, Stuck
  <2> QED BY ONLY <2>2, <2>3
<1> QED BY <1>1, Invariance, PTL

\* The most steps a read can still take, by what is to be done for it.
Remaining(i) ==
    (CASE spc[i] = "idle" -> 13 [] spc[i] = "entered" -> 12 [] spc[i] = "routed" -> 11
       [] spc[i] = "queued" -> 1 [] spc[i] \in {"left", "bypass"} -> 0)
    + (IF Queued(i) THEN IF i \in failed THEN 5 ELSE 9 ELSE 0)
    + (IF OnSsd(i) THEN 7 ELSE 0) + (IF OnHdd(i) THEN 3 ELSE 0) + owes[i]

\* A step that concerns a read at all brings it nearer to its end.
ComesNearer == [][\A i \in Io : Unmoved(i) \/ Remaining(i)' < Remaining(i)]_vars

Nears(i) == /\ Remaining(i)' < Remaining(i)
            /\ \A j \in Io \ {i} : Unmoved(j)

LEMMA EnterNears == ASSUME IInv, NEW i \in Io, Enter(i) PROVE Nears(i)
<1> USE DEF Enter, iovars, endvars
<1>1. Remaining(i)' < Remaining(i) BY DEF Remaining, Queued, OnSsd, OnHdd, IInv, TypeOK
<1>2. \A j \in Io \ {i} : Unmoved(j) BY DEF IInv, TypeOK, Unmoved
<1> QED BY <1>1, <1>2 DEF Nears

LEMMA RouteNears == ASSUME IInv, NEW i \in Io, Route(i) PROVE Nears(i)
<1>1. CASE CheckOnline(i) \/ Miss(i) \/ SubmitNoMem(i) \/ Leave(i)
  <2> USE <1>1 DEF CheckOnline, Miss, SubmitNoMem, Leave, Bypass, Befalls, iovars, endvars
  <2>1. Remaining(i)' < Remaining(i) BY DEF Remaining, Queued, OnSsd, OnHdd, IInv, TypeOK
  <2>2. \A j \in Io \ {i} : Unmoved(j) BY DEF IInv, TypeOK, Unmoved
  <2> QED BY <2>1, <2>2 DEF Nears
<1>2. CASE Submit(i)
  <2> USE <1>2 DEF Submit, Befalls
  <2>1. ~Queued(i) /\ ~OnSsd(i) /\ ~OnHdd(i) /\ i \notin failed
    BY DEF IInv, Request, Life, Phase, Busy, Taken
  <2>2. Remaining(i)' < Remaining(i) BY <2>1 DEF Remaining, Queued, OnSsd, OnHdd, IInv, TypeOK
  <2>3. \A j \in Io \ {i} : Unmoved(j) BY DEF IInv, TypeOK, Unmoved
  <2> QED BY <2>2, <2>3 DEF Nears
<1> QED BY <1>1, <1>2 DEF Route

LEMMA WorkNears == ASSUME IInv, NEW i \in Io, Work(i) PROVE Nears(i)
<1>1. Queued(i) /\ ~OnSsd(i) /\ ~OnHdd(i)
  BY DEF Work, WorkSsd, WorkHdd, WorkNoMem, StartWork, Queued, IInv, Request, Phase
<1>2. CASE WorkSsd(i)
  <2> USE <1>2 DEF WorkSsd, StartWork, endvars
  <2>1. Remaining(i)' < Remaining(i) BY <1>1 DEF Remaining, Queued, OnSsd, OnHdd, IInv, TypeOK
  <2>2. \A j \in Io \ {i} : Unmoved(j) BY DEF IInv, TypeOK, Unmoved
  <2> QED BY <2>1, <2>2 DEF Nears
<1>3. CASE WorkHdd(i)
  <2> USE <1>3 DEF WorkHdd, StartWork, Befalls, endvars
  <2>1. Remaining(i)' < Remaining(i) BY <1>1 DEF Remaining, Queued, OnSsd, OnHdd, IInv, TypeOK
  <2>2. \A j \in Io \ {i} : Unmoved(j) BY DEF IInv, TypeOK, Unmoved
  <2> QED BY <2>1, <2>2 DEF Nears
<1>4. CASE WorkNoMem(i)
  <2> USE <1>4 DEF WorkNoMem, StartWork, Befalls, endvars
  <2>1. Remaining(i)' < Remaining(i) BY <1>1 DEF Remaining, Queued, OnSsd, OnHdd, IInv, TypeOK
  <2>2. \A j \in Io \ {i} : Unmoved(j) BY DEF IInv, TypeOK, Unmoved
  <2> QED BY <2>1, <2>2 DEF Nears
<1> QED BY <1>2, <1>3, <1>4 DEF Work

LEMMA CompleteNears == ASSUME IInv, NEW i \in Io, Complete(i) PROVE Nears(i)
<1>1. ~Queued(i)
  BY DEF Complete, SsdOk, SsdError, HddDone, Queued, OnSsd, OnHdd, IInv, Request, Phase
<1>2. CASE SsdOk(i)
  <2> USE <1>2 DEF SsdOk, endvars
  <2>1. Remaining(i)' < Remaining(i) BY <1>1 DEF Remaining, Queued, OnSsd, OnHdd, IInv, TypeOK
  <2>2. \A j \in Io \ {i} : Unmoved(j) BY DEF IInv, TypeOK, Unmoved
  <2> QED BY <2>1, <2>2 DEF Nears
<1>3. CASE SsdError(i)
  <2> USE <1>3 DEF SsdError, Befalls, endvars
  <2>1. Remaining(i)' < Remaining(i) BY <1>1 DEF Remaining, Queued, OnSsd, OnHdd, IInv, TypeOK
  <2>2. \A j \in Io \ {i} : Unmoved(j) BY DEF IInv, TypeOK, Unmoved
  <2> QED BY <2>1, <2>2 DEF Nears
<1>4. CASE HddDone(i)
  <2> USE <1>4 DEF HddDone, endvars
  <2>1. Remaining(i)' < Remaining(i) BY <1>1 DEF Remaining, Queued, OnSsd, OnHdd, IInv, TypeOK
  <2>2. \A j \in Io \ {i} : Unmoved(j) BY DEF IInv, TypeOK, Unmoved
  <2> QED BY <2>1, <2>2 DEF Nears
<1> QED BY <1>2, <1>3, <1>4 DEF Complete

LEMMA DecPendingNears == ASSUME IInv, NEW i \in Io, DecPending(i) PROVE Nears(i)
<1> USE DEF DecPending, Release
<1>1. Remaining(i)' < Remaining(i) BY DEF Remaining, Queued, OnSsd, OnHdd, IInv, TypeOK
<1>2. \A j \in Io \ {i} : Unmoved(j) BY DEF IInv, TypeOK, Unmoved
<1> QED BY <1>1, <1>2 DEF Nears

LEMMA StepNears ==
    ASSUME IInv, [Next]_vars, NEW i \in Io
    PROVE  Unmoved(i) \/ Remaining(i)' < Remaining(i)
<1>1. ASSUME NEW j \in Io, Enter(j) \/ Route(j) \/ Work(j) \/ Complete(j) \/ DecPending(j)
      PROVE  Unmoved(i) \/ Remaining(i)' < Remaining(i)
  <2>1. Nears(j) BY <1>1, EnterNears, RouteNears, WorkNears, CompleteNears, DecPendingNears
  <2>2. CASE i = j BY <2>1, <2>2 DEF Nears
  <2>3. CASE i # j BY <2>1, <2>3 DEF Nears
  <2> QED BY <2>2, <2>3
<1>2. CASE UnloadOffline \/ UnloadPending \/ UnloadDestroy
  BY <1>2 DEF UnloadOffline, UnloadPending, UnloadDestroy, Unmoved, iovars, endvars
<1>3. CASE UNCHANGED vars BY <1>3 DEF vars, Unmoved, iovars, endvars
<1> QED BY <1>1, <1>2, <1>3 DEF Next

\* Every step of submitter, worker, completion or _dec_pending that concerns a
\* read brings it nearer to its end: no retry goes on for ever, whatever fails.
THEOREM ReadsComeNearer == Spec => ComesNearer
<1>1. IInv /\ [Next]_vars => [\A i \in Io : Unmoved(i) \/ Remaining(i)' < Remaining(i)]_vars
  BY StepNears
<1> QED BY <1>1, Invariance, PTL DEF Spec, ComesNearer

\* No read has more than 13 steps left, nor less than none.
FewSteps == \A i \in Io : Remaining(i) \in 0 .. 13

\* A read takes at most 13 steps, from iostash_mkrequest to the last
\* _dec_pending.
THEOREM TakesFewSteps == Spec => []FewSteps
<1>1. Init => FewSteps BY DEF Init, FewSteps, Remaining, Queued, OnSsd, OnHdd
<1>2. IInv /\ IInv' /\ FewSteps /\ [Next]_vars => FewSteps'
  <2> SUFFICES ASSUME IInv, IInv', FewSteps, [Next]_vars, NEW i \in Io PROVE Remaining(i)' \in 0 .. 13
    BY DEF FewSteps
  <2>1. Remaining(i) \in 0 .. 13 BY DEF FewSteps
  <2>2. Remaining(i)' \in Nat BY DEF IInv, TypeOK, Remaining
  <2>3. Unmoved(i) => Remaining(i)' = Remaining(i) BY DEF Unmoved, Remaining, Queued, OnSsd, OnHdd
  <2>4. Unmoved(i) \/ Remaining(i)' < Remaining(i) BY StepNears
  <2> QED BY <2>1, <2>2, <2>3, <2>4
<1> QED BY <1>1, <1>2, Invariance, PTL DEF Spec
=============================================================================
