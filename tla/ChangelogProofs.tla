-------------------------- MODULE ChangelogProofs --------------------------
(***************************************************************************)
(* Proofs about the changelog, its replay to the consumers and its         *)
(* trimming, for every value of the constants.                             *)
(*                                                                         *)
(* The types need no hypothesis.  What a consumer is promised (NoGap,      *)
(* TrimmedReplayed, StartFound, CrashCovered) is proved where              *)
(*                                                                         *)
(*  - every replica has a change in the data the supplier and its          *)
(*    consumers were loaded with: without it NoGap and TrimmedReplayed are *)
(*    false;                                                               *)
(*  - there is an agreement: without one nothing keeps the last change of  *)
(*    a replica in the changelog;                                          *)
(*  - at most one commit fails: after two and a crash the RUV that is      *)
(*    rebuilt can go back behind what a consumer has, and NoGap is false.  *)
(*                                                                         *)
(* The argument, ReplayInv:                                                *)
(*                                                                         *)
(*  - the RUV in memory may cover a change that is in a transaction or was *)
(*    lost with it, but each such change is the last of its replica that   *)
(*    is drawn (DrawnInOrder): nothing of the replica that can be read is  *)
(*    above it;                                                            *)
(*  - the changelog keeps what any consumer lacks, and the max CSN of each *)
(*    (LogKept), since it is only trimmed below what some consumer was     *)
(*    once seen to have (NotAhead);                                        *)
(*  - a change a session has to send, below the max CSN it took from the   *)
(*    RUV, is neither behind its cursor nor missing in its buffer          *)
(*    (NothingPassed).  The max CSN itself may be: it may have been in a   *)
(*    transaction when the buffer was read.  It is read again when the     *)
(*    session refreshes and finds a greater one (AdjustAnchor goes back to *)
(*    what the consumer has), unless clcache_skip_change promotes it to    *)
(*    its neighbour, and then it is in missed.                             *)
(***************************************************************************)
EXTENDS Changelog, FiniteSetTheorems, WellFoundedInduction, TLAPS

-----------------------------------------------------------------------------
(* The operators on sets of CSNs and on vectors. *)

(* A set of numbers has a least one. *)
LEMMA LeastNumber ==
  ASSUME NEW S \in SUBSET Nat, S # {}
  PROVE  \E x \in S : \A y \in S : x <= y
<1>1. PICK x \in S : \A y \in S : ~(<<y, x>> \in OpToRel(<, Nat))
  BY NatLessThanWellFounded, WFMin
<1>2. ASSUME NEW y \in S PROVE x <= y
  <2>1. ~(y < x)
    BY <1>1 DEF OpToRel
  <2> QED
    BY <2>1
<1> QED
  BY <1>2

(* What Least returns: 0, or the least CSN of the set. *)
LEMMA LeastCSN ==
  ASSUME NEW S \in SUBSET CSNs
  PROVE  /\ Least(S) \in 0..MaxCSN
         /\ S = {} => Least(S) = 0
         /\ S # {} => Least(S) \in S
         /\ \A y \in S : Least(S) <= y
<1>1. CASE S = {}
  BY <1>1, ChangelogAssumption DEF Least
<1>2. CASE S # {}
  <2>1. S \in SUBSET Nat
    BY ChangelogAssumption DEF CSNs
  <2>2. PICK x \in S : \A y \in S : x <= y
    BY <1>2, <2>1, LeastNumber
  <2>3. Min(S) \in S /\ \A y \in S : Min(S) <= y
    BY <2>2 DEF Min
  <2>4. Least(S) = Min(S)
    BY <1>2 DEF Least
  <2>5. S \in SUBSET (0..MaxCSN)
    BY ChangelogAssumption DEF CSNs
  <2> QED
    BY <1>2, <2>3, <2>4, <2>5
<1> QED
  BY <1>1, <1>2

(* What Max returns on a set of CSNs and 0. *)
LEMMA MaxNumber ==
  ASSUME NEW S \in SUBSET (0..MaxCSN), S # {}
  PROVE  Max(S) \in S /\ \A y \in S : y <= Max(S)
<1> DEFINE T == {n \in 0..MaxCSN : MaxCSN - n \in S}
<1>1. T \in SUBSET Nat
  BY ChangelogAssumption
<1>2. T # {}
  <2>1. PICK x \in S : TRUE
    OBVIOUS
  <2>2. MaxCSN - x \in 0..MaxCSN /\ MaxCSN - (MaxCSN - x) = x
    BY ChangelogAssumption
  <2> QED
    BY <2>2
<1>3. PICK m \in T : \A n \in T : m <= n
  BY <1>1, <1>2, LeastNumber
<1>4. \A y \in S : MaxCSN - m >= y
  <2> SUFFICES ASSUME NEW y \in S PROVE MaxCSN - m >= y
    OBVIOUS
  <2>1. MaxCSN - y \in 0..MaxCSN /\ MaxCSN - (MaxCSN - y) = y
    BY ChangelogAssumption
  <2>2. m <= MaxCSN - y
    BY <1>3, <2>1
  <2> QED
    BY <2>2, ChangelogAssumption
<1>5. Max(S) \in S /\ \A y \in S : Max(S) >= y
  BY <1>3, <1>4 DEF Max
<1> QED
  BY <1>5, ChangelogAssumption

(* What Greatest returns: 0, or the greatest CSN of the set. *)
LEMMA GreatestCSN ==
  ASSUME NEW S \in SUBSET CSNs
  PROVE  /\ Greatest(S) \in 0..MaxCSN
         /\ S # {} => Greatest(S) \in S
         /\ \A y \in S : y <= Greatest(S)
<1>1. CASE S = {}
  BY <1>1, ChangelogAssumption DEF Greatest
<1>2. CASE S # {}
  <2>1. S \in SUBSET (0..MaxCSN)
    BY ChangelogAssumption DEF CSNs
  <2>2. Max(S) \in S /\ \A y \in S : y <= Max(S)
    BY <1>2, <2>1, MaxNumber
  <2> QED
    BY <1>2, <2>1, <2>2 DEF Greatest
<1> QED
  BY <1>1, <1>2

(* A function from some of the replicas to CSNs is a RUV, and a RUV is     *)
(* such a function.                                                        *)
LEMMA MakesRUV ==
  ASSUME NEW R \in SUBSET Rids, NEW v \in [R -> 0..MaxCSN]
  PROVE  v \in RUVs
BY DEF RUVs

LEMMA IsRUV ==
  ASSUME NEW v \in RUVs
  PROVE  DOMAIN v \in SUBSET Rids /\ v \in [DOMAIN v -> 0..MaxCSN]
BY DEF RUVs

LEMMA LargestType ==
  ASSUME NEW v \in RUVs, NEW r
  PROVE  Largest(v, r) \in 0..MaxCSN
BY IsRUV, ChangelogAssumption DEF Largest

LEMMA SetCSNsType ==
  ASSUME NEW v \in RUVs, NEW c \in CSNs
  PROVE  SetCSNs(v, c) \in RUVs
<1>1. c \in 0..MaxCSN /\ RidOf[c] \in Rids /\ c > 0
  BY ChangelogAssumption DEF CSNs
<1>2. DOMAIN v \in SUBSET Rids /\ v \in [DOMAIN v -> 0..MaxCSN]
  BY IsRUV
<1>3. DOMAIN v \cup {RidOf[c]} \in SUBSET Rids
  BY <1>1, <1>2
<1>4. SetCSNs(v, c) \in [DOMAIN v \cup {RidOf[c]} -> 0..MaxCSN]
  BY <1>1, <1>2, ChangelogAssumption DEF SetCSNs, Largest
<1> QED
  BY <1>3, <1>4, MakesRUV

LEMMA LowerToType ==
  ASSUME NEW v \in RUVs, NEW w \in RUVs
  PROVE  LowerTo(v, w) \in RUVs
<1> DEFINE null == {r \in DOMAIN w : w[r] = 0}
           held == DOMAIN w \ null
           R == (DOMAIN v \ null) \cup held
<1>1. /\ DOMAIN v \in SUBSET Rids /\ v \in [DOMAIN v -> 0..MaxCSN]
      /\ DOMAIN w \in SUBSET Rids /\ w \in [DOMAIN w -> 0..MaxCSN]
  BY IsRUV
<1>2. R \in SUBSET Rids
  BY <1>1
<1>3. LowerTo(v, w) \in [R -> 0..MaxCSN]
  BY <1>1 DEF LowerTo, Largest
<1> QED
  BY <1>2, <1>3, MakesRUV

-----------------------------------------------------------------------------
(* _cl5GetRUV2Purge2 goes through the agreements one after the other.      *)

(* The loop is well defined: the vector after each agreement. *)
LEMMA PurgeLoop ==
  \E f : /\ f = [i \in 0..Agmts |->
                  IF i = 0 THEN ruv ELSE LowerTo(f[i - 1], known[i])]
         /\ RUV2Purge = f[Agmts]
<1> DEFINE P(n, g) == g = [i \in 0..n |->
                  IF i = 0 THEN ruv ELSE LowerTo(g[i - 1], known[i])]
           Bad == {n \in Nat : \A g : ~P(n, g)}
<1>1. Bad = {}
  <2> SUFFICES ASSUME Bad # {} PROVE FALSE
    OBVIOUS
  <2>1. PICK n \in Bad : \A m \in Bad : n <= m
    BY LeastNumber
  <2>2. n \in Nat /\ \A g : ~P(n, g)
    OBVIOUS
  <2>3. CASE n = 0
    <3>1. P(0, [i \in 0..0 |-> ruv])
      OBVIOUS
    <3> QED
      BY <2>2, <2>3, <3>1
  <2>4. CASE n # 0
    <3>1. n - 1 \in Nat /\ n - 1 \notin Bad
      BY <2>1, <2>2, <2>4
    <3>2. PICK g : P(n - 1, g)
      BY <3>1
    <3> DEFINE h == [i \in 0..n |-> IF i = n THEN LowerTo(g[n - 1], known[n])
                                             ELSE g[i]]
    <3>3. \A i \in 0..n : h[i] = IF i = 0 THEN ruv
                                 ELSE LowerTo(h[i - 1], known[i])
      <4> SUFFICES ASSUME NEW i \in 0..n
                   PROVE  h[i] = IF i = 0 THEN ruv
                                 ELSE LowerTo(h[i - 1], known[i])
        OBVIOUS
      <4>1. CASE i = n
        <5>1. i # 0 /\ i - 1 \in 0..n /\ i - 1 # n
          BY <4>1, <2>2, <2>4
        <5>2. h[i - 1] = g[n - 1]
          BY <4>1, <5>1
        <5> QED
          BY <4>1, <5>1, <5>2
      <4>2. CASE i # n
        <5>1. i \in 0..(n - 1)
          BY <4>2, <2>2, <2>4
        <5>2. g[i] = IF i = 0 THEN ruv ELSE LowerTo(g[i - 1], known[i])
          BY <3>2, <5>1
        <5>3. i # 0 => i - 1 \in 0..n /\ i - 1 # n
          BY <5>1, <2>2
        <5> QED
          BY <4>2, <5>2, <5>3
      <4> QED
        BY <4>1, <4>2
    <3>4. P(n, h)
      BY <3>3
    <3> HIDE DEF h
    <3> QED
      BY <2>2, <3>4
  <2> QED
    BY <2>3, <2>4
<1>2. \E g : P(Agmts, g)
  <2>1. Agmts \in Nat
    BY ChangelogAssumption
  <2>2. Agmts \notin Bad
    BY <1>1
  <2> QED
    BY <2>1, <2>2
<1> DEFINE f == CHOOSE g : P(Agmts, g)
<1>3. P(Agmts, f)
  BY <1>2
<1>4. RUV2Purge = f[Agmts]
  BY DEF RUV2Purge
<1> HIDE DEF f
<1> QED
  BY <1>3, <1>4

LEMMA PurgeType ==
  ASSUME ruv \in RUVs, known \in [1..Agmts -> RUVs]
  PROVE  RUV2Purge \in RUVs
<1>1. PICK f : /\ f = [i \in 0..Agmts |->
                    IF i = 0 THEN ruv ELSE LowerTo(f[i - 1], known[i])]
               /\ RUV2Purge = f[Agmts]
  BY PurgeLoop
<1> DEFINE Bad == {n \in 0..Agmts : f[n] \notin RUVs}
<1>2. Bad = {}
  <2> SUFFICES ASSUME Bad # {} PROVE FALSE
    OBVIOUS
  <2>0. Bad \in SUBSET Nat
    BY ChangelogAssumption
  <2>1. PICK n \in Bad : \A m \in Bad : n <= m
    BY <2>0, LeastNumber
  <2>2. n \in 0..Agmts /\ f[n] = IF n = 0 THEN ruv ELSE LowerTo(f[n - 1], known[n])
    BY <1>1
  <2>3. n # 0
    BY <2>2
  <2>4. n - 1 \in 0..Agmts /\ n \in 1..Agmts /\ n - 1 \notin Bad
    BY <2>1, <2>2, <2>3, ChangelogAssumption
  <2>5. f[n - 1] \in RUVs /\ known[n] \in RUVs
    BY <2>4
  <2>6. LowerTo(f[n - 1], known[n]) \in RUVs
    BY <2>5, LowerToType
  <2> QED
    BY <2>2, <2>3, <2>6
<1>3. Agmts \in 0..Agmts
  BY ChangelogAssumption
<1> QED
  BY <1>1, <1>2, <1>3

-----------------------------------------------------------------------------
(* The type invariant. *)

LEMMA ConsumerRUVs ==
  ASSUME TypeOK
  PROVE  /\ ruv \in RUVs /\ dbruv \in RUVs /\ purge \in RUVs
         /\ smod \in RUVs /\ txn.ruv \in RUVs
         /\ known \in [1..Agmts -> RUVs] /\ saved \in [1..Agmts -> RUVs]
         /\ consumer \in [1..Agmts -> RUVs]
BY DEF TypeOK

LEMMA IdleTypes ==
  /\ NoRUV \in RUVs /\ NoCSNs \in [Rids -> 0..MaxCSN]
  /\ NoTxn \in [csn : 0..MaxCSN, ruv : RUVs] /\ NoTxn.csn = 0
  /\ IdleSess \in Sessions
  /\ IdleTrim \in [pc : {"idle", "scan", "purge"}, ruv : RUVs, num : Nat,
                   pos : 0..MaxCSN, rids : SUBSET Rids]
<1>1. {} \in SUBSET Rids /\ NoRUV \in [{} -> 0..MaxCSN]
  BY DEF NoRUV
<1>2. NoRUV \in RUVs
  BY <1>1, MakesRUV
<1>3. NoCSNs \in [Rids -> 0..MaxCSN]
  BY ChangelogAssumption DEF NoCSNs
<1>4. IdleSess \in Sessions
  BY <1>3, ChangelogAssumption DEF IdleSess, Sessions
<1>5. IdleTrim \in [pc : {"idle", "scan", "purge"}, ruv : RUVs, num : Nat,
                   pos : 0..MaxCSN, rids : SUBSET Rids]
  BY <1>2, ChangelogAssumption DEF IdleTrim
<1>6. NoTxn \in [csn : 0..MaxCSN, ruv : RUVs] /\ NoTxn.csn = 0
  BY <1>2, ChangelogAssumption DEF NoTxn
<1> QED
  BY <1>2, <1>3, <1>4, <1>5, <1>6

LEMMA LogFinite ==
  ASSUME NEW S \in SUBSET CSNs
  PROVE  IsFiniteSet(S) /\ Cardinality(S) \in Nat
<1>1. IsFiniteSet(1..MaxCSN)
  BY FS_Interval, ChangelogAssumption
<1>2. IsFiniteSet(S)
  BY <1>1, FS_Subset DEF CSNs
<1> QED
  BY <1>2, FS_CardinalityType

LEMMA OfType ==
  ASSUME NEW r, NEW S \in SUBSET CSNs
  PROVE  Of(r, S) \in SUBSET CSNs
BY DEF Of

LEMMA LoadedType ==
  /\ Loaded \in RUVs
  /\ DOMAIN Loaded \in SUBSET Rids
  /\ 1..Base \in SUBSET CSNs
<1>1. 1..Base \in SUBSET CSNs
  BY ChangelogAssumption DEF CSNs
<1>2. \A r : Greatest(Of(r, 1..Base)) \in 0..MaxCSN
  BY <1>1, OfType, GreatestCSN
<1>3. {RidOf[c] : c \in 1..Base} \cup {LocalRid} \in SUBSET Rids
  BY <1>1, ChangelogAssumption DEF CSNs
<1>4. Loaded \in [{RidOf[c] : c \in 1..Base} \cup {LocalRid} -> 0..MaxCSN]
  BY <1>2 DEF Loaded
<1> QED
  BY <1>1, <1>3, <1>4, MakesRUV

LEMMA CSNNumber ==
  ASSUME NEW c \in CSNs
  PROVE  c \in Nat /\ c > 0 /\ c <= MaxCSN /\ c \in 0..MaxCSN /\ RidOf[c] \in Rids
BY ChangelogAssumption DEF CSNs

LEMMA TypeInit == Init => TypeOK
<1> SUFFICES ASSUME Init PROVE TypeOK
  OBVIOUS
<1>1. log \subseteq seen
  <2> SUFFICES ASSUME NEW r \in DOMAIN Loaded, Loaded[r] # 0
               PROVE  Loaded[r] \in 1..Base
    BY DEF Init
  <2>1. Loaded[r] = Greatest(Of(r, 1..Base))
    BY DEF Loaded
  <2>2. Of(r, 1..Base) \in SUBSET CSNs
    BY LoadedType, OfType
  <2>3. Of(r, 1..Base) # {}
    BY <2>1 DEF Greatest
  <2> QED
    BY <2>1, <2>2, <2>3, GreatestCSN DEF Of
<1>2. purge \in RUVs
  <2>1. LoggedRids \in SUBSET Rids
    BY <1>1, LoadedType, ChangelogAssumption DEF LoggedRids, Init, CSNs
  <2>2. purge \in [LoggedRids -> 0..MaxCSN]
    BY ChangelogAssumption DEF Init
  <2> QED
    BY <2>1, <2>2, MakesRUV
<1>3. mincsn \in [Rids -> 0..MaxCSN]
  <2>1. \A r : Least(Of(r, 1..Base)) \in 0..MaxCSN
    BY LoadedType, OfType, LeastCSN
  <2> QED
    BY <2>1 DEF Init
<1>4. 0 \notin seen
  BY LoadedType, CSNNumber DEF Init
<1> QED
  BY <1>1, <1>2, <1>3, <1>4, LoadedType, IdleTypes, ChangelogAssumption
     DEF Init, TypeOK

LEMMA BeginType ==
  ASSUME TypeOK, NEW r \in Rids, Begin(r)
  PROVE  TypeOK'
<1> DEFINE c == Least(Of(r, CSNs \ Begun))
<1>0. UNCHANGED <<log, txn, gone, lost, seen, mincsn, dbruv, smod, purge, trim,
                  known, saved, sess, consumer, applied, missed, crashes, ends>>
  BY DEF Begin, replay, bounds
<1>1. c \in CSNs \ Begun
  <2>1. Of(r, CSNs \ Begun) \in SUBSET CSNs
    BY DEF Of
  <2>2. c # 0
    BY DEF Begin
  <2>3. c \in Of(r, CSNs \ Begun)
    BY <2>1, <2>2, LeastCSN
  <2> QED
    BY <2>3 DEF Of
<1>2. pending' = pending \cup {c}
  BY DEF Begin
<1> HIDE DEF c
<1>3. c # txn.csn
  BY <1>1, CSNNumber DEF Begun, InTxn
<1>4. ruv' \in RUVs
  <2>1. ruv \in RUVs
    BY DEF TypeOK
  <2>2. DOMAIN ruv \cup {r} \in SUBSET Rids
    BY <2>1, IsRUV
  <2>3. ruv' \in [DOMAIN ruv \cup {r} -> 0..MaxCSN]
    BY <2>1, LargestType DEF Begin
  <2> QED
    BY <2>2, <2>3, MakesRUV
<1>5. /\ pending' \subseteq CSNs \ seen' /\ gone' \subseteq CSNs \ (pending' \cup seen')
      /\ lost' \subseteq CSNs \ (pending' \cup seen')
      /\ txn'.csn \notin pending' \cup gone' \cup lost' \cup seen'
  BY <1>0, <1>1, <1>2, <1>3 DEF TypeOK, Begun
<1> QED
  BY <1>0, <1>4, <1>5 DEF TypeOK

LEMMA ReadableType ==
  ASSUME NEW v \in RUVs
  PROVE  Readable(v) \in RUVs
<1>1. DOMAIN v \in SUBSET Rids /\ v \in [DOMAIN v -> 0..MaxCSN]
  BY IsRUV
<1>2. {s \in DOMAIN v : mincsn[s] # 0} \in SUBSET Rids
  BY <1>1
<1>3. Readable(v) \in [{s \in DOMAIN v : mincsn[s] # 0} -> 0..MaxCSN]
  BY <1>1 DEF Readable
<1> QED
  BY <1>2, <1>3, MakesRUV

LEMMA WriteType ==
  ASSUME TypeOK, NEW c \in CSNs, Write(c)
  PROVE  TypeOK'
<1>0. /\ UNCHANGED <<log, gone, lost, seen, dbruv, smod, trim, known, saved, sess,
                     consumer, applied, missed, crashes, ends>>
      /\ c \in pending /\ pending' = pending \ {c}
  BY DEF Write, replay, bounds
<1>1. RidOf[c] \in Rids /\ c \in 0..MaxCSN
  BY CSNNumber
<1>2. ruv \in RUVs /\ dbruv \in RUVs /\ purge \in RUVs
  BY DEF TypeOK
<1>3. ruv' \in RUVs
  BY <1>2, SetCSNsType DEF Write
<1>4. purge' \in RUVs
  <2>1. DOMAIN purge \cup {RidOf[c]} \in SUBSET Rids
    BY <1>1, <1>2, IsRUV
  <2>2. purge' \in [DOMAIN purge \cup {RidOf[c]} -> 0..MaxCSN]
    BY <1>2, LargestType DEF Write
  <2> QED
    BY <2>1, <2>2, MakesRUV
<1>5. txn' \in [csn : 0..MaxCSN, ruv : RUVs] /\ txn'.csn = c
  <2>1. (IF Covers(ruv, c) THEN dbruv ELSE Readable(SetCSNs(ruv, c))) \in RUVs
    BY <1>2, SetCSNsType, ReadableType
  <2> QED
    BY <1>1, <2>1 DEF Write
<1>6. mincsn' \in [Rids -> 0..MaxCSN]
  BY <1>1 DEF Write, TypeOK
<1>7. /\ pending' \subseteq CSNs \ seen' /\ gone' \subseteq CSNs \ (pending' \cup seen')
      /\ lost' \subseteq CSNs \ (pending' \cup seen')
      /\ txn'.csn \notin pending' \cup gone' \cup lost' \cup seen'
  BY <1>0, <1>5 DEF TypeOK
<1> QED
  BY <1>0, <1>3, <1>4, <1>5, <1>6, <1>7 DEF TypeOK

LEMMA CommitType ==
  ASSUME TypeOK, NEW c \in CSNs, Commit(c)
  PROVE  TypeOK'
<1>0. /\ UNCHANGED <<pending, gone, lost, ruv, mincsn, smod, purge, trim, known,
                     saved, sess, consumer, applied, missed, crashes, ends>>
      /\ txn.csn = c /\ log' = log \cup {c} /\ seen' = seen \cup {c}
      /\ dbruv' = txn.ruv /\ txn' = NoTxn
  BY DEF Commit, replay, bounds
<1>1. txn' \in [csn : 0..MaxCSN, ruv : RUVs] /\ txn'.csn = 0
  BY <1>0, IdleTypes
<1>2. dbruv' \in RUVs
  BY <1>0 DEF TypeOK
<1>3. /\ pending' \subseteq CSNs \ seen' /\ gone' \subseteq CSNs \ (pending' \cup seen')
      /\ lost' \subseteq CSNs \ (pending' \cup seen') /\ seen' \subseteq CSNs
      /\ log' \subseteq seen'
  BY <1>0 DEF TypeOK
<1>4. txn'.csn \notin pending' \cup gone' \cup lost' \cup seen'
  BY <1>1, <1>3, CSNNumber
<1> QED
  BY <1>0, <1>1, <1>2, <1>3, <1>4 DEF TypeOK

LEMMA CommitFailsType ==
  ASSUME TypeOK, NEW c \in CSNs, CommitFails(c)
  PROVE  TypeOK'
<1>0. /\ UNCHANGED <<log, pending, gone, seen, ruv, mincsn, dbruv, smod, purge,
                     trim, known, saved, sess, consumer, applied, missed,
                     crashes, ends>>
      /\ txn.csn = c /\ lost' = lost \cup {c} /\ txn' = NoTxn
  BY DEF CommitFails, vectors, replay, bounds
<1>1. txn' \in [csn : 0..MaxCSN, ruv : RUVs] /\ txn'.csn = 0
  BY <1>0, IdleTypes
<1>3. /\ pending' \subseteq CSNs \ seen' /\ gone' \subseteq CSNs \ (pending' \cup seen')
      /\ lost' \subseteq CSNs \ (pending' \cup seen') /\ seen' \subseteq CSNs
  BY <1>0 DEF TypeOK
<1>4. txn'.csn \notin pending' \cup gone' \cup lost' \cup seen'
  BY <1>1, <1>3, CSNNumber
<1> QED
  BY <1>0, <1>1, <1>3, <1>4 DEF TypeOK

LEMMA AbortType ==
  ASSUME TypeOK, NEW c \in CSNs, Abort(c)
  PROVE  TypeOK'
<1>0. /\ UNCHANGED <<log, txn, lost, seen, ruv, mincsn, dbruv, smod, purge,
                     trim, known, saved, sess, consumer, applied, missed,
                     crashes, ends>>
      /\ c \in pending /\ pending' = pending \ {c}
      /\ gone' \in {gone, gone \cup {c}}
  BY DEF Abort, vectors, replay, bounds
<1>1. /\ pending' \subseteq CSNs \ seen' /\ gone' \subseteq CSNs \ (pending' \cup seen')
      /\ lost' \subseteq CSNs \ (pending' \cup seen')
      /\ txn'.csn \notin pending' \cup gone' \cup lost' \cup seen'
  BY <1>0 DEF TypeOK
<1> QED
  BY <1>0, <1>1 DEF TypeOK

LEMMA StateType ==
  ASSUME TypeOK, ReadState \/ WriteState
  PROVE  TypeOK'
<1>0. UNCHANGED <<log, txn, pending, gone, lost, seen, ruv, mincsn, purge,
                  trim, known, saved, sess, consumer, applied, missed,
                  crashes, ends>>
  BY DEF ReadState, WriteState, changes, replay, bounds
<1>1. dbruv' \in RUVs /\ smod' \in RUVs
  <2>1. Readable(ruv) \in RUVs
    BY ReadableType DEF TypeOK
  <2> QED
    BY <2>1, IdleTypes DEF ReadState, WriteState, TypeOK
<1> QED
  BY <1>0, <1>1 DEF TypeOK

LEMMA ExcessType ==
  ASSUME TypeOK
  PROVE  Excess \in Int
<1>1. Cardinality(log) \in Nat
  BY LogFinite DEF TypeOK
<1> QED
  BY <1>1, ChangelogAssumption DEF Excess

LEMMA TrimStartType ==
  ASSUME TypeOK, TrimStart
  PROVE  TypeOK'
<1>1. RUV2Purge \in RUVs
  BY PurgeType, ConsumerRUVs
<1>2. Excess \in Int
  BY ExcessType
<1>3. trim' = [IdleTrim EXCEPT !.pc = "scan", !.ruv = RUV2Purge,
                               !.num = IF Excess > 0 THEN Excess ELSE 0]
  BY DEF TrimStart
<1>4. trim' \in [pc : {"idle", "scan", "purge"}, ruv : RUVs, num : Nat,
                pos : 0..MaxCSN, rids : SUBSET Rids]
  <2>1. PICK n \in Nat : n = IF Excess > 0 THEN Excess ELSE 0
    BY <1>2
  <2>2. trim' = [IdleTrim EXCEPT !.pc = "scan", !.ruv = RUV2Purge, !.num = n]
    BY <1>3, <2>1
  <2> QED
    BY <1>1, <2>1, <2>2, IdleTypes
<1> QED
  BY <1>4 DEF TypeOK, TrimStart, changes, vectors, replay, bounds

LEMMA TrimEntryType ==
  ASSUME TypeOK, TrimEntry
  PROVE  TypeOK'
<1> DEFINE c == Least({d \in log : d > trim.pos})
           left == IF trim.num > 0 THEN trim.num
                   ELSE IF Excess > 0 THEN Excess ELSE 0
           Trims == [pc : {"idle", "scan", "purge"}, ruv : RUVs, num : Nat,
                     pos : 0..MaxCSN, rids : SUBSET Rids]
<1>1. trim \in Trims
  BY DEF TypeOK
<1>2. c \in 0..MaxCSN /\ (c # 0 => RidOf[c] \in Rids)
  <2>1. {d \in log : d > trim.pos} \in SUBSET CSNs
    BY DEF TypeOK
  <2>2. c \in 0..MaxCSN
    BY <2>1, LeastCSN
  <2> HIDE DEF c
  <2> QED
    BY <2>2, ChangelogAssumption
<1>3. left \in Nat
  BY <1>1, ExcessType
<1>4. /\ trim' \in Trims
      /\ log' \subseteq log
  <2> HIDE DEF c, left
  <2>1. CASE ScanEnds
    BY <1>1, <2>1 DEF ScanEnds
  <2>2. CASE /\ c # 0 /\ log' = log \ {c}
             /\ trim' = [trim EXCEPT !.pos = c, !.rids = @ \cup {RidOf[c]},
                                     !.num = IF left > 0 THEN left - 1 ELSE 0]
    <3>1. PICK n \in Nat : n = IF left > 0 THEN left - 1 ELSE 0
      BY <1>3
    <3>2. PICK R \in SUBSET Rids : R = trim.rids \cup {RidOf[c]}
      BY <1>1, <1>2, <2>2
    <3>3. trim' = [trim EXCEPT !.pos = c, !.rids = R, !.num = n]
      BY <2>2, <3>1, <3>2
    <3> QED
      BY <1>1, <1>2, <2>2, <3>3
  <2>3. CASE trim' = [trim EXCEPT !.pos = c, !.num = left] /\ UNCHANGED log
    BY <1>1, <1>2, <1>3, <2>3
  <2> QED
    BY <2>1, <2>2, <2>3 DEF TrimEntry, c, left
<1> QED
  BY <1>4 DEF TypeOK, TrimEntry, vectors, replay, bounds

LEMMA TrimPurgeRuvType ==
  ASSUME TypeOK, TrimPurgeRuv
  PROVE  TypeOK'
<1>1. purge' \in RUVs
  <2>1. purge \in RUVs
    BY DEF TypeOK
  <2>2. DOMAIN purge \in SUBSET Rids /\ purge \in [DOMAIN purge -> 0..MaxCSN]
    BY <2>1, IsRUV
  <2>3. \A r \in DOMAIN purge : Max({purge[r], Least(Of(r, log))}) \in 0..MaxCSN
    <3> SUFFICES ASSUME NEW r \in DOMAIN purge
                 PROVE  Max({purge[r], Least(Of(r, log))}) \in 0..MaxCSN
      OBVIOUS
    <3>1. Of(r, log) \in SUBSET CSNs
      BY DEF TypeOK, Of
    <3>2. Least(Of(r, log)) \in 0..MaxCSN
      BY <3>1, LeastCSN
    <3>3. {purge[r], Least(Of(r, log))} \in SUBSET (0..MaxCSN)
      BY <2>2, <3>2
    <3> QED
      BY <3>3, MaxNumber
  <2>4. purge' \in [DOMAIN purge -> 0..MaxCSN]
    BY <2>2, <2>3 DEF TrimPurgeRuv
  <2> QED
    BY <2>2, <2>4, MakesRUV
<1> QED
  BY <1>1, IdleTypes DEF TypeOK, TrimPurgeRuv, changes, replay, bounds

LEMMA AcquireType ==
  ASSUME TypeOK, NEW a \in 1..Agmts, Acquire(a)
  PROVE  TypeOK'
<1>1. consumer[a] \in RUVs
  BY DEF TypeOK
<1>2. [r \in Rids |-> Largest(consumer[a], r)] \in [Rids -> 0..MaxCSN]
  BY <1>1, LargestType
<1>3. [IdleSess EXCEPT !.pc = "open",
                       !.cmax = [r \in Rids |-> Largest(consumer[a], r)]] \in Sessions
  BY <1>2, IdleTypes DEF Sessions
<1> QED
  BY <1>1, <1>3 DEF TypeOK, Acquire, changes, vectors, bounds

LEMMA RefreshedType ==
  ASSUME TypeOK, NEW s \in Sessions
  PROVE  Refreshed(s) \in Sessions
<1>1. ruv \in RUVs
  BY DEF TypeOK
<1>2. ruv \in [DOMAIN ruv -> 0..MaxCSN]
  BY <1>1, IsRUV
<1> QED
  BY <1>2 DEF Refreshed, Sessions

LEMMA BulkType ==
  ASSUME TypeOK, NEW x
  PROVE  Bulk(x) \in SUBSET CSNs /\ Bulk(x) \in SUBSET log
BY DEF TypeOK, Bulk

LEMMA MissingType ==
  ASSUME NEW c
  PROVE  CheckMissing(c) \in {"notfound", "purged", "missing"}
BY DEF CheckMissing

LEMMA AnchorType ==
  ASSUME TypeOK, NEW s \in Sessions, NEW r \in Rids
  PROVE  /\ InitialAnchor(s, r).csn \in 0..MaxCSN
         /\ InitialAnchor(s, r).op \in {"set", "next"}
         /\ AdjustAnchor(s, r).csn \in 0..MaxCSN
         /\ AdjustAnchor(s, r).op \in {"set", "next"}
<1>1. FromConsumer(s, r).csn \in 0..MaxCSN /\ FromConsumer(s, r).op \in {"set", "next"}
  BY DEF TypeOK, Sessions, FromConsumer
<1> QED
  BY <1>1 DEF Sessions, InitialAnchor, AdjustAnchor

LEMMA RefreshType ==
  ASSUME TypeOK, NEW a \in 1..Agmts, Refresh(a)
  PROVE  TypeOK'
<1> DEFINE s == Refreshed(sess[a])
           first == s.pc = "open"
           A == {IF first THEN InitialAnchor(s, r) ELSE AdjustAnchor(s, r) : r \in ToSend(s)}
<1>1. s \in Sessions
  BY RefreshedType DEF TypeOK
<1>2. \A x \in LeastAnchors(A) : x.csn \in 0..MaxCSN /\ x.op \in {"set", "next"}
  BY <1>1, AnchorType DEF LeastAnchors, ToSend
<1>3. PICK t \in Sessions : sess' = [sess EXCEPT ![a] = t]
  <2>0. [IdleSess EXCEPT !.rc = "notfound"] \in Sessions
    BY IdleTypes DEF Sessions
  <2>1. CASE sess' = [sess EXCEPT ![a] = [IdleSess EXCEPT !.rc = "notfound"]]
    BY <2>0, <2>1
  <2>2. ASSUME NEW x \in LeastAnchors(A),
               sess' = [sess EXCEPT ![a] =
                          [s EXCEPT !.pc = "read", !.cur = x.csn, !.op = x.op]]
        PROVE  \E t \in Sessions : sess' = [sess EXCEPT ![a] = t]
    <3>1. x.csn \in 0..MaxCSN /\ x.op \in {"set", "next"}
      BY <1>2
    <3> HIDE DEF s, A
    <3>2. [s EXCEPT !.pc = "read", !.cur = x.csn, !.op = x.op] \in Sessions
      BY <1>1, <3>1 DEF Sessions
    <3> QED
      BY <2>2, <3>2
  <2> QED
    BY <2>1, <2>2 DEF Refresh
<1> QED
  BY <1>3 DEF TypeOK, Refresh, changes, vectors, bounds

LEMMA ReadType ==
  ASSUME TypeOK, NEW a \in 1..Agmts, Read(a)
  PROVE  TypeOK'
<1> DEFINE s == sess[a]
           B == Bulk([csn |-> s.cur, op |-> s.op])
           rc == IF s.start = 0 THEN CheckMissing(s.cur) ELSE "notfound"
           start == IF s.start = 0 THEN s.cur ELSE s.start
<1>1. s \in Sessions /\ B \in SUBSET CSNs
  BY BulkType DEF TypeOK
<1>2. rc \in {"notfound", "purged", "missing"} /\ start \in 0..MaxCSN
  BY <1>1, MissingType DEF Sessions
<1>3. sess' = [sess EXCEPT ![a] =
                 IF B = {} THEN [IdleSess EXCEPT !.rc = rc]
                 ELSE [s EXCEPT !.pc = "run", !.gt = {}, !.bulk = B, !.start = start]]
  BY <1>1 DEF Read, Sessions
<1> HIDE DEF rc, start, s, B
<1>4. [IdleSess EXCEPT !.rc = rc] \in Sessions
  BY <1>2, IdleTypes DEF Sessions
<1>5. [s EXCEPT !.pc = "run", !.gt = {}, !.bulk = B, !.start = start] \in Sessions
  BY <1>1, <1>2 DEF Sessions
<1>6. sess' \in [1..Agmts -> Sessions]
  BY <1>3, <1>4, <1>5 DEF TypeOK
<1> QED
  BY <1>6 DEF TypeOK, Read, changes, vectors, bounds

LEMMA NextChangeType ==
  ASSUME TypeOK, NEW a \in 1..Agmts, NextChange(a)
  PROVE  TypeOK'
<1> DEFINE s == sess[a]
           c == Least(s.bulk)
           r == RidOf[c]
           s1 == [s EXCEPT !.bulk = @ \ {c}, !.cur = c]
           promoted == c > s.lmax[r]
<1>1. s \in Sessions /\ consumer[a] \in RUVs
  BY DEF TypeOK
<1>2. c \in CSNs /\ c \in 0..MaxCSN
  <2>1. s.bulk \in SUBSET CSNs /\ s.bulk # {}
    BY <1>1 DEF Sessions, NextChange
  <2> QED
    BY <2>1, LeastCSN
<1>3. r \in Rids
  BY <1>2, ChangelogAssumption DEF CSNs
<1>4. s1 \in Sessions
  <2> HIDE DEF s, c
  <2> QED
    BY <1>1, <1>2 DEF Sessions
<1>5. PICK t \in Sessions : sess' = [sess EXCEPT ![a] = t]
  <2>1. CASE sess' = [sess EXCEPT ![a] =
                 [s1 EXCEPT !.gt = IF s.lmax[r] # 0 /\ promoted /\ c > s.cmax[r]
                                     THEN @ \cup {r} ELSE @]]
    <3>1. [s1 EXCEPT !.gt = IF s.lmax[r] # 0 /\ promoted /\ c > s.cmax[r]
                                     THEN @ \cup {r} ELSE @] \in Sessions
      <4> HIDE DEF s1, s, c, r, promoted
      <4> QED
        BY <1>3, <1>4 DEF Sessions
    <3> QED
      BY <2>1, <3>1
  <2>2. CASE sess' = [sess EXCEPT ![a] =
                 [s1 EXCEPT !.lmax[r] = IF promoted THEN c ELSE @,
                            !.cmax[r] = IF promoted /\ @ = 0 THEN 0 ELSE c]]
    <3>1. [s1 EXCEPT !.lmax[r] = IF promoted THEN c ELSE @,
                     !.cmax[r] = IF promoted /\ @ = 0 THEN 0 ELSE c] \in Sessions
      <4> HIDE DEF s1, s, c, r, promoted
      <4> QED
        BY <1>2, <1>3, <1>4 DEF Sessions
    <3> QED
      BY <2>2, <3>1
  <2> QED
    BY <2>1, <2>2 DEF NextChange
<1>6. consumer' \in [1..Agmts -> RUVs]
  <2>1. SetCSNs(consumer[a], c) \in RUVs
    BY <1>1, <1>2, SetCSNsType
  <2>2. \/ consumer' = consumer
        \/ consumer' = [consumer EXCEPT ![a] = SetCSNs(@, c)]
    BY DEF NextChange
  <2> HIDE DEF c
  <2> QED
    BY <2>1, <2>2 DEF TypeOK
<1>7. applied' \in [1..Agmts -> SUBSET CSNs]
  <2>1. \/ applied' = applied
        \/ applied' = [applied EXCEPT ![a] =
                 IF Covers(consumer[a], c) THEN @ ELSE @ \cup {c}]
    BY DEF NextChange
  <2> HIDE DEF c
  <2> QED
    BY <1>2, <2>1 DEF TypeOK
<1>8. missed' \in [1..Agmts -> SUBSET CSNs]
  <2>1. \/ missed' = missed
        \/ missed' = [missed EXCEPT ![a] = @ \cup {s.lmax[r]}] /\ ~Skipped(s, c)
    BY DEF NextChange, TypeOK
  <2>2. ~Skipped(s, c) => s.lmax[r] \in CSNs
    BY <1>1, <1>3 DEF Skipped, Sessions, CSNs
  <2> HIDE DEF c, s, r
  <2> QED
    BY <2>1, <2>2 DEF TypeOK
<1> QED
  BY <1>5, <1>6, <1>7, <1>8 DEF TypeOK, NextChange, changes, vectors, bounds

LEMMA EndSessionType ==
  ASSUME TypeOK, NEW a \in 1..Agmts, EndSession(a)
  PROVE  TypeOK'
BY IdleTypes, ChangelogAssumption DEF TypeOK, EndSession, changes, vectors

LEMMA RestartType ==
  ASSUME TypeOK, Restart
  PROVE  TypeOK'
BY IdleTypes, ChangelogAssumption DEF TypeOK, Restart, changes

LEMMA ReloadedType ==
  ASSUME TypeOK
  PROVE  Reloaded \in RUVs /\ UpperBound \in RUVs
<1>1. LoggedRids \in SUBSET Rids
  BY ChangelogAssumption DEF LoggedRids, TypeOK, CSNs
<1>2. \A r : Greatest(Of(r, log)) \in 0..MaxCSN
  <2> SUFFICES ASSUME NEW r PROVE Greatest(Of(r, log)) \in 0..MaxCSN
    OBVIOUS
  <2>1. Of(r, log) \in SUBSET CSNs
    BY DEF TypeOK, Of
  <2> QED
    BY <2>1, GreatestCSN
<1>3. UpperBound \in [LoggedRids -> 0..MaxCSN]
  BY <1>2 DEF UpperBound
<1>4. UpperBound \in RUVs
  BY <1>1, <1>3, MakesRUV
<1>5. dbruv \in RUVs
  BY DEF TypeOK
<1>6. DOMAIN dbruv \cup LoggedRids \in SUBSET Rids
  BY <1>1, <1>5, IsRUV
<1>7. \A r : Max({Largest(dbruv, r), Largest(UpperBound, r)}) \in 0..MaxCSN
  <2> SUFFICES ASSUME NEW r
               PROVE  Max({Largest(dbruv, r), Largest(UpperBound, r)}) \in 0..MaxCSN
    OBVIOUS
  <2>1. {Largest(dbruv, r), Largest(UpperBound, r)} \in SUBSET (0..MaxCSN)
    BY <1>4, <1>5, LargestType
  <2> QED
    BY <2>1, MaxNumber
<1>8. [r \in DOMAIN dbruv \cup LoggedRids |->
            Max({Largest(dbruv, r), Largest(UpperBound, r)})] \in RUVs
  BY <1>6, <1>7, MakesRUV
<1> QED
  BY <1>4, <1>5, <1>8 DEF Reloaded

LEMMA CrashType ==
  ASSUME TypeOK, Crash
  PROVE  TypeOK'
<1>1. ruv' \in RUVs
  BY ReloadedType DEF Crash
<1>2. mincsn' \in [Rids -> 0..MaxCSN]
  <2>1. \A r : Largest(Reloaded, r) \in 0..MaxCSN
    BY ReloadedType, LargestType
  <2> QED
    BY <2>1 DEF TypeOK, Crash
<1>3. purge' \in RUVs
  <2>1. LoggedRids \in SUBSET Rids
    BY ChangelogAssumption DEF LoggedRids, TypeOK, CSNs
  <2>2. \A r : Least(Of(r, log)) \in 0..MaxCSN
    <3> SUFFICES ASSUME NEW r PROVE Least(Of(r, log)) \in 0..MaxCSN
      OBVIOUS
    <3>1. Of(r, log) \in SUBSET CSNs
      BY DEF TypeOK, Of
    <3> QED
      BY <3>1, LeastCSN
  <2>3. purge' \in [LoggedRids -> 0..MaxCSN]
    BY <2>2 DEF Crash
  <2> QED
    BY <2>1, <2>3, MakesRUV
<1>4. /\ pending' = {} /\ txn' = NoTxn /\ smod' = NoRUV
      /\ gone' \subseteq gone \cup pending \cup InTxn \cup lost /\ lost' \subseteq lost
      /\ log' = log /\ seen' = seen /\ applied' = applied /\ missed' = missed
  BY DEF Crash, Of
<1>5. InTxn \subseteq CSNs \ seen
  BY DEF InTxn, TypeOK, CSNs
<1>6. /\ gone' \subseteq CSNs \ seen /\ lost' \subseteq CSNs \ seen
      /\ 0 \notin gone' \cup lost' \cup seen'
  <2>1. gone' \subseteq CSNs \ seen /\ lost' \subseteq CSNs \ seen /\ seen' \subseteq CSNs
    BY <1>4, <1>5 DEF TypeOK
  <2> QED
    BY <2>1, CSNNumber
<1>7. crashes' \in 0..MaxCrashes /\ ends' \in 0..MaxEnds
  BY ChangelogAssumption DEF TypeOK, Crash
<1>8. /\ trim' = IdleTrim /\ sess' \in [1..Agmts -> Sessions]
      /\ {known', saved', consumer'} \subseteq [1..Agmts -> RUVs]
      /\ {ruv', dbruv', smod', purge'} \subseteq RUVs
  BY <1>1, <1>3, <1>4, IdleTypes DEF TypeOK, Crash
<1> QED
  BY <1>2, <1>4, <1>6, <1>7, <1>8, IdleTypes DEF TypeOK

LEMMA TypeNext == TypeOK /\ [Next]_vars => TypeOK'
<1> SUFFICES ASSUME TypeOK, [Next]_vars PROVE TypeOK'
  OBVIOUS
<1>1. ASSUME NEW r \in Rids, Begin(r) PROVE TypeOK'
  BY <1>1, BeginType
<1>2. ASSUME NEW c \in CSNs, Write(c) \/ Commit(c) \/ CommitFails(c) \/ Abort(c)
      PROVE  TypeOK'
  BY <1>2, WriteType, CommitType, CommitFailsType, AbortType
<1>3. CASE \/ ReadState \/ WriteState
           \/ TrimStart \/ TrimEntry \/ TrimPurgeRuv
  BY <1>3, StateType, TrimStartType, TrimEntryType, TrimPurgeRuvType
<1>4. ASSUME NEW a \in 1..Agmts,
             \/ Acquire(a) \/ Refresh(a) \/ Read(a)
             \/ NextChange(a) \/ EndSession(a)
      PROVE  TypeOK'
  BY <1>4, AcquireType, RefreshType, ReadType, NextChangeType, EndSessionType
<1>5. CASE Restart \/ Crash
  BY <1>5, RestartType, CrashType
<1>6. CASE UNCHANGED vars
  BY <1>6 DEF TypeOK, vars, changes, vectors, replay, bounds
<1> QED
  BY <1>1, <1>2, <1>3, <1>4, <1>5, <1>6 DEF Next

(* The variables of the changelog keep their types, whatever the replicas, *)
(* the agreements and the sizes.                                           *)
THEOREM ChangelogTypeCorrect == Spec => []TypeOK
BY TypeInit, TypeNext, PTL DEF Spec

-----------------------------------------------------------------------------
(* The hypothesis on the constants and the inductive invariant. *)

(* The data the supplier and its consumers were loaded with has a change   *)
(* of every replica; the supplier has agreements; at most one commit fails *)
(* after the RUV covered its change.                                       *)
Settled ==
  /\ \A r \in Rids : Of(r, 1..Base) # {}
  /\ Agmts > 0
  /\ MaxLost <= 1

(* The changes the RUV in memory may cover: those of failed commits and of *)
(* the open transaction too.                                               *)
Written == seen \cup InTxn \cup lost

(* A CSN that is not drawn yet is greater than the drawn ones of its       *)
(* replica, and so is the one in progress.                                 *)
DrawnInOrder ==
  /\ \A c \in CSNs \ Begun : \A d \in Begun : RidOf[d] = RidOf[c] => d < c
  /\ \A c \in pending \cup InTxn :
       \A d \in Begun \ {c} : RidOf[d] = RidOf[c] => d < c
  /\ \A c \in gone : RidOf[c] = LocalRid
  /\ \A c, d \in lost : c = d

(* The vectors with an element for every replica, a change of it in S. *)
Full(S) == {v \in [Rids -> S] : \A r \in Rids : RidOf[v[r]] = r}

VectorsFull ==
  /\ ruv \in Full(Written) /\ dbruv \in Full(seen \cup lost)
  /\ smod # NoRUV => smod \in Full(Written)
  /\ txn # NoTxn => txn.ruv \in Full(Written)
  /\ \A r \in Rids : mincsn[r] # 0
  /\ trim.pc # "idle" => trim.ruv \in Full(CSNs)
  /\ \A a \in 1..Agmts : /\ known[a] \in Full(seen) /\ saved[a] \in Full(seen)
                         /\ consumer[a] \in Full(seen)

(* What an agreement knows of its consumer, and what the changelog is      *)
(* trimmed to, may be old but is never ahead of the consumer.              *)
NotAhead ==
  \A a \in 1..Agmts : \A r \in Rids :
    /\ known[a][r] <= consumer[a][r] /\ saved[a][r] <= consumer[a][r]
    /\ trim.pc # "idle" => trim.ruv[r] <= consumer[a][r]

(* The last change of a replica stays in the changelog, and so does every  *)
(* change at or after the max CSN of a consumer.                           *)
LogKept ==
  \A c \in seen :
    /\ \E d \in log : RidOf[d] = RidOf[c] /\ c <= d
    /\ c \notin log => \A a \in 1..Agmts : c < consumer[a][RidOf[c]]

(* The iterator of a session agrees with the RUV of its consumer; the      *)
(* first buffer is read from a max CSN of the consumer on.                 *)
SessionSound(a) ==
  /\ sess[a].pc # "idle" => sess[a].cmax = consumer[a] /\ sess[a].rc = "none"
  /\ sess[a].pc \in {"read", "run"} => sess[a].lmax \in Full(Written)
  /\ sess[a].pc = "read" => sess[a].op = "next"
  /\ sess[a].pc = "read" /\ sess[a].start = 0 =>
       /\ \E r \in Rids : sess[a].cur = consumer[a][r]
       /\ \A r \in ToSend(sess[a]) : sess[a].cur <= consumer[a][r]
  /\ sess[a].pc = "run" =>
       /\ sess[a].start # 0
       /\ sess[a].bulk \subseteq seen
       /\ \A b \in sess[a].bulk : sess[a].cur < b
       /\ \A r \in sess[a].gt : sess[a].lmax[r] < sess[a].cur

(* No change the consumer lacks that is below the max CSN of the session   *)
(* is behind the cursor or missing in the buffer.  (The max CSN itself may *)
(* have been in a transaction when the buffer was read.)                   *)
NothingPassed(a) ==
  sess[a].pc \in {"read", "run"} =>
    \A d \in seen : d > consumer[a][RidOf[d]] /\ d < sess[a].lmax[RidOf[d]] =>
      /\ sess[a].cur < d
      /\ sess[a].pc = "run" =>
           \A b \in sess[a].bulk : d < b => d \in sess[a].bulk

SessionsSound == \A a \in 1..Agmts : SessionSound(a)
NonePassed == \A a \in 1..Agmts : NothingPassed(a)

ReplayInv ==
  /\ DrawnInOrder /\ VectorsFull /\ NotAhead /\ LogKept
  /\ SessionsSound /\ NonePassed /\ NoGap

LEMMA FullFacts ==
  ASSUME NEW S \in SUBSET CSNs, NEW v \in Full(S)
  PROVE  /\ DOMAIN v = Rids
         /\ v \in RUVs
         /\ \A r \in Rids : /\ v[r] \in S /\ RidOf[v[r]] = r
                            /\ v[r] \in Nat /\ v[r] > 0 /\ v[r] <= MaxCSN
                            /\ Largest(v, r) = v[r]
<1>1. v \in [Rids -> S] /\ \A r \in Rids : RidOf[v[r]] = r
  BY DEF Full
<1>2. \A x \in S : x \in 0..MaxCSN /\ x \in Nat /\ x > 0 /\ x <= MaxCSN
  BY ChangelogAssumption DEF CSNs
<1>3. v \in [Rids -> 0..MaxCSN] /\ Rids \in SUBSET Rids
  BY <1>1, <1>2
<1>4. v \in RUVs
  BY <1>3, MakesRUV
<1> QED
  BY <1>1, <1>2, <1>4 DEF Largest

LEMMA FullGrows ==
  ASSUME NEW S, NEW T, S \subseteq T
  PROVE  Full(S) \subseteq Full(T)
BY DEF Full

LEMMA SeenType ==
  ASSUME TypeOK
  PROVE  /\ seen \in SUBSET CSNs /\ log \in SUBSET seen /\ log \in SUBSET CSNs
         /\ lost \in SUBSET CSNs /\ InTxn \in SUBSET CSNs /\ pending \in SUBSET CSNs
         /\ Written \in SUBSET CSNs /\ Written \in SUBSET Begun
         /\ seen \in SUBSET Written /\ seen \cup lost \in SUBSET Written
         /\ seen \cup lost \in SUBSET CSNs /\ Begun \in SUBSET CSNs
         /\ pending \cap Written = {} /\ InTxn \cap (pending \cup gone \cup lost \cup seen) = {}
<1>1. InTxn \in SUBSET CSNs /\ InTxn \cap (pending \cup gone \cup lost \cup seen) = {}
  BY DEF TypeOK, InTxn, CSNs
<1> QED
  BY <1>1 DEF TypeOK, Written, Begun

LEMMA NoTxnMeans ==
  ASSUME txn = NoTxn
  PROVE  InTxn = {} /\ Written = seen \cup lost
<1>1. txn.csn = 0
  BY IdleTypes
<1> QED
  BY <1>1 DEF InTxn, Written

(* A step that leaves the changes alone leaves what is said of them. *)
LEMMA WrittenSame ==
  ASSUME UNCHANGED <<txn, pending, gone, lost, seen>>
  PROVE  Written' = Written /\ Begun' = Begun /\ InTxn' = InTxn
         /\ (DrawnInOrder => DrawnInOrder')
BY DEF Written, InTxn, Begun, DrawnInOrder

(* The max CSN of a replica in a vector is below a CSN in progress, or it. *)
LEMMA WrittenBelow ==
  ASSUME TypeOK, DrawnInOrder, NEW c \in (CSNs \ Begun) \cup pending \cup InTxn,
         NEW d \in Written, RidOf[d] = RidOf[c]
  PROVE  d # c => d < c
BY SeenType DEF DrawnInOrder

(* The change is not covered before it is set, and is the max after.       *)
LEMMA SetFull ==
  ASSUME NEW S \in SUBSET CSNs, NEW v \in Full(S), NEW c \in S, v[RidOf[c]] < c
  PROVE  /\ SetCSNs(v, c) = [v EXCEPT ![RidOf[c]] = c]
         /\ SetCSNs(v, c) \in Full(S)
<1>1. RidOf[c] \in Rids /\ c \in Nat
  BY CSNNumber
<1>2. DOMAIN v = Rids /\ v \in [Rids -> S] /\ \A r \in Rids : RidOf[v[r]] = r
  BY DEF Full
<1>3. Largest(v, RidOf[c]) = v[RidOf[c]] /\ v[RidOf[c]] \in Nat
  BY <1>1, FullFacts
<1>4. DOMAIN v \cup {RidOf[c]} = Rids
  BY <1>1, <1>2
<1>5. SetCSNs(v, c) = [r \in Rids |->
        IF r = RidOf[c] /\ c > Largest(v, r) THEN c ELSE v[r]]
  BY <1>4 DEF SetCSNs
<1>6. SetCSNs(v, c) = [v EXCEPT ![RidOf[c]] = c]
  BY <1>1, <1>2, <1>3, <1>5
<1>7. [v EXCEPT ![RidOf[c]] = c] \in Full(S)
  BY <1>1, <1>2 DEF Full
<1> QED
  BY <1>6, <1>7

LEMMA ReadableFull ==
  ASSUME VectorsFull, NEW S, NEW v \in Full(S)
  PROVE  Readable(v) = v
<1>1. v \in [Rids -> S]
  BY DEF Full
<1>2. {s \in DOMAIN v : mincsn[s] # 0} = Rids
  BY <1>1 DEF VectorsFull
<1> QED
  BY <1>1, <1>2 DEF Readable

LEMMA LowerFull ==
  ASSUME NEW S \in SUBSET CSNs, NEW v \in Full(S), NEW w \in Full(S)
  PROVE  /\ LowerTo(v, w) \in Full(S)
         /\ \A r \in Rids : /\ LowerTo(v, w)[r] <= v[r]
                            /\ LowerTo(v, w)[r] <= w[r]
<1>1. /\ DOMAIN v = Rids /\ DOMAIN w = Rids
      /\ \A r \in Rids : /\ v[r] \in Nat /\ v[r] > 0 /\ Largest(v, r) = v[r]
                         /\ w[r] \in Nat /\ w[r] > 0
                         /\ v[r] \in S /\ w[r] \in S
                         /\ RidOf[v[r]] = r /\ RidOf[w[r]] = r
  BY FullFacts
<1>2. {r \in DOMAIN w : w[r] = 0} = {}
  BY <1>1
<1>3. LowerTo(v, w) =
        [r \in (DOMAIN v \ {}) \cup (DOMAIN w \ {}) |->
           IF r \in (DOMAIN w \ {}) /\ (Largest(v, r) = 0 \/ w[r] < v[r])
             THEN w[r] ELSE v[r]]
  BY <1>2 DEF LowerTo
<1>4. (DOMAIN v \ {}) \cup (DOMAIN w \ {}) = Rids /\ (DOMAIN w \ {}) = Rids
  BY <1>1
<1>5. LowerTo(v, w) = [r \in Rids |-> IF w[r] < v[r] THEN w[r] ELSE v[r]]
  BY <1>1, <1>3, <1>4
<1> QED
  BY <1>1, <1>5 DEF Full

LEMMA PurgeFull ==
  ASSUME TypeOK, VectorsFull
  PROVE  /\ RUV2Purge \in Full(CSNs)
         /\ \A a \in 1..Agmts : \A r \in Rids : RUV2Purge[r] <= known[a][r]
<1>1. PICK f : /\ f = [i \in 0..Agmts |->
                    IF i = 0 THEN ruv ELSE LowerTo(f[i - 1], known[i])]
               /\ RUV2Purge = f[Agmts]
  BY PurgeLoop
<1>0. Full(Written) \subseteq Full(CSNs) /\ Full(seen) \subseteq Full(CSNs)
  BY SeenType, FullGrows
<1> DEFINE Good(n) == /\ f[n] \in Full(CSNs)
                      /\ \A i \in 1..n : \A r \in Rids : f[n][r] <= known[i][r]
           Bad == {n \in 0..Agmts : ~Good(n)}
<1>2. Bad = {}
  <2> SUFFICES ASSUME Bad # {} PROVE FALSE
    OBVIOUS
  <2>0. Bad \in SUBSET Nat
    BY ChangelogAssumption
  <2>1. PICK n \in Bad : \A m \in Bad : n <= m
    BY <2>0, LeastNumber
  <2>2. /\ n \in 0..Agmts
        /\ f[n] = IF n = 0 THEN ruv ELSE LowerTo(f[n - 1], known[n])
    BY <1>1
  <2>3. n # 0
    BY <1>0, <2>2 DEF VectorsFull
  <2>4. n - 1 \in 0..Agmts /\ n \in 1..Agmts /\ n - 1 \notin Bad
    BY <2>1, <2>2, <2>3, ChangelogAssumption
  <2>5. Good(n - 1)
    BY <2>4
  <2>6. known[n] \in Full(CSNs) /\ \A i \in 1..Agmts : known[i] \in Full(CSNs)
    BY <1>0, <2>4 DEF VectorsFull
  <2>7. /\ f[n] \in Full(CSNs)
        /\ \A r \in Rids : f[n][r] <= f[n - 1][r] /\ f[n][r] <= known[n][r]
    BY <2>2, <2>3, <2>5, <2>6, LowerFull
  <2>8. \A i \in 1..n : \A r \in Rids : f[n][r] <= known[i][r]
    <3> SUFFICES ASSUME NEW i \in 1..n, NEW r \in Rids
                 PROVE  f[n][r] <= known[i][r]
      OBVIOUS
    <3>1. CASE i = n
      BY <2>7, <3>1
    <3>2. CASE i # n
      <4>1. i \in 1..(n - 1) /\ i \in 1..Agmts
        BY <2>4, <3>2, ChangelogAssumption
      <4>2. f[n - 1][r] <= known[i][r]
        BY <2>5, <4>1
      <4>3. f[n][r] \in Nat /\ f[n - 1][r] \in Nat /\ known[i][r] \in Nat
        BY <2>5, <2>6, <2>7, <4>1, FullFacts
      <4> QED
        BY <2>7, <4>2, <4>3
    <3> QED
      BY <3>1, <3>2
  <2> QED
    BY <2>7, <2>8
<1>3. Agmts \in 0..Agmts
  BY ChangelogAssumption
<1>4. Good(Agmts)
  BY <1>2, <1>3
<1> QED
  BY <1>1, <1>4

(* The session refreshes from a RUV that knows every replica. *)
LEMMA RefreshedFull ==
  ASSUME TypeOK, VectorsFull, NEW s \in Sessions
  PROVE  /\ Refreshed(s) \in Sessions
         /\ Refreshed(s).lmax = ruv
         /\ \A r \in Rids : s.lmax[r] # 0 => Refreshed(s).prev[r] = s.lmax[r]
         /\ Refreshed(s).cmax = s.cmax /\ Refreshed(s).gt = s.gt
         /\ Refreshed(s).cur = s.cur /\ Refreshed(s).start = s.start
         /\ Refreshed(s).rc = s.rc /\ Refreshed(s).pc = s.pc
         /\ Refreshed(s).bulk = s.bulk
<1>1. ruv \in Full(Written) /\ Written \in SUBSET CSNs
  BY SeenType DEF VectorsFull
<1>2. /\ DOMAIN ruv = Rids /\ ruv \in [Rids -> Written]
      /\ \A r \in Rids : ruv[r] # 0 /\ mincsn[r] # 0
  BY <1>1, FullFacts DEF VectorsFull, Full
<1>3. Refreshed(s) = [s EXCEPT
         !.prev = [r \in Rids |-> IF s.lmax[r] # 0 THEN s.lmax[r] ELSE s.prev[r]],
         !.lmax = [r \in Rids |-> ruv[r]]]
  BY <1>2 DEF Refreshed, Sessions
<1>4. [r \in Rids |-> ruv[r]] = ruv
  BY <1>2
<1>5. Refreshed(s) \in Sessions
  BY RefreshedType
<1> DEFINE p == [r \in Rids |-> IF s.lmax[r] # 0 THEN s.lmax[r] ELSE s.prev[r]]
<1>6. \A r \in Rids : s.lmax[r] # 0 => p[r] = s.lmax[r]
  OBVIOUS
<1>7. Refreshed(s) = [s EXCEPT !.prev = p, !.lmax = ruv]
  BY <1>3, <1>4
<1> HIDE DEF p
<1>8. /\ Refreshed(s).prev = p /\ Refreshed(s).lmax = ruv
      /\ Refreshed(s).cmax = s.cmax /\ Refreshed(s).gt = s.gt
      /\ Refreshed(s).cur = s.cur /\ Refreshed(s).start = s.start
      /\ Refreshed(s).rc = s.rc /\ Refreshed(s).pc = s.pc
      /\ Refreshed(s).bulk = s.bulk
  BY <1>7 DEF Sessions
<1> QED
  BY <1>5, <1>6, <1>8

(* A buffer that is loaded after a CSN holds the next changes, all of them *)
(* up to the last, and at least one.                                       *)
LEMMA BulkNext ==
  ASSUME TypeOK, NEW x, x.op = "next", x.csn \in 0..MaxCSN
  PROVE  /\ \A b \in Bulk(x) : b \in log /\ x.csn < b
         /\ \A b \in Bulk(x) : \A d \in log :
               x.csn < d /\ d < b => d \in Bulk(x)
         /\ x.csn \in log => \A d \in log : x.csn < d => Bulk(x) # {}
<1> DEFINE S == {c \in log : c > x.csn}
<1>0. S \in SUBSET CSNs /\ log \in SUBSET CSNs
  BY SeenType
<1>1. Bulk(x) = IF x.csn \notin log THEN {}
                ELSE {c \in S : Cardinality({d \in S : d <= c}) <= BulkSize}
  BY DEF Bulk
<1>2. \A b \in Bulk(x) : b \in log /\ x.csn < b
  BY <1>0, <1>1, CSNNumber
<1>3. ASSUME NEW b \in Bulk(x), NEW d \in log, x.csn < d, d < b
      PROVE  d \in Bulk(x)
  <2>1. d \in S /\ b \in S /\ x.csn \in log
    BY <1>0, <1>1, <1>2, <1>3, CSNNumber
  <2>2. {e \in S : e <= b} \in SUBSET CSNs /\ {e \in S : e <= d} \in SUBSET CSNs
    BY <1>0
  <2>3. {e \in S : e <= d} \in SUBSET {e \in S : e <= b}
    <3>1. \A e \in S : e \in Nat /\ d \in Nat /\ b \in Nat
      BY <1>0, <2>1, CSNNumber
    <3> QED
      BY <1>3, <3>1
  <2>4. Cardinality({e \in S : e <= d}) <= Cardinality({e \in S : e <= b})
    BY <2>2, <2>3, LogFinite, FS_Subset
  <2>5. Cardinality({e \in S : e <= b}) <= BulkSize
    BY <1>1, <2>1
  <2>6. /\ Cardinality({e \in S : e <= d}) \in Nat
        /\ Cardinality({e \in S : e <= b}) \in Nat
    BY <2>2, LogFinite
  <2>7. Cardinality({e \in S : e <= d}) <= BulkSize
    BY <2>4, <2>5, <2>6, ChangelogAssumption
  <2> QED
    BY <1>1, <2>1, <2>7
<1>4. ASSUME x.csn \in log, NEW d \in log, x.csn < d
      PROVE  Bulk(x) # {}
  <2>1. S # {}
    BY <1>0, <1>4, CSNNumber
  <2>2. S \in SUBSET Nat
    BY <1>0, CSNNumber
  <2>3. PICK m \in S : \A y \in S : m <= y
    BY <2>1, <2>2, LeastNumber
  <2>4. {e \in S : e <= m} = {m}
    BY <2>2, <2>3
  <2>5. Cardinality({e \in S : e <= m}) = 1
    BY <2>4, FS_Singleton
  <2>6. m \in Bulk(x)
    BY <1>1, <1>4, <2>5, ChangelogAssumption
  <2> QED
    BY <2>6
<1> QED
  BY <1>2, <1>3, <1>4

LEMMA VectorNumbers ==
  ASSUME TypeOK, VectorsFull
  PROVE  /\ \A r \in Rids : ruv[r] \in Nat /\ dbruv[r] \in Nat
         /\ \A a \in 1..Agmts : \A r \in Rids :
              known[a][r] \in Nat /\ saved[a][r] \in Nat /\ consumer[a][r] \in Nat
         /\ trim.pc # "idle" => \A r \in Rids : trim.ruv[r] \in Nat
<1>1. /\ seen \in SUBSET CSNs /\ Written \in SUBSET CSNs
      /\ seen \cup lost \in SUBSET CSNs /\ CSNs \in SUBSET CSNs
  BY SeenType
<1>2. \A r \in Rids : ruv[r] \in Nat /\ dbruv[r] \in Nat
  BY <1>1, FullFacts DEF VectorsFull
<1>3. \A a \in 1..Agmts : \A r \in Rids :
        known[a][r] \in Nat /\ saved[a][r] \in Nat /\ consumer[a][r] \in Nat
  BY <1>1, FullFacts DEF VectorsFull
<1>4. trim.pc # "idle" => \A r \in Rids : trim.ruv[r] \in Nat
  BY <1>1, FullFacts DEF VectorsFull
<1> QED
  BY <1>2, <1>3, <1>4

-----------------------------------------------------------------------------
(* The initial state, and the order in which CSNs are drawn. *)

(* The data is loaded: every vector is that of the data. *)
LEMMA ReplayInit == Settled /\ Init => ReplayInv
<1> SUFFICES ASSUME Settled, Init PROVE ReplayInv
  OBVIOUS
<1>0. seen = 1..Base /\ seen \in SUBSET CSNs
  BY LoadedType DEF Init
<1>1. \A r \in Rids : /\ Of(r, seen) # {} /\ Of(r, seen) \in SUBSET CSNs
                      /\ Greatest(Of(r, seen)) \in Of(r, seen)
                      /\ \A c \in Of(r, seen) : c <= Greatest(Of(r, seen))
  <2> SUFFICES ASSUME NEW r \in Rids
               PROVE  /\ Of(r, seen) # {} /\ Of(r, seen) \in SUBSET CSNs
                      /\ Greatest(Of(r, seen)) \in Of(r, seen)
                      /\ \A c \in Of(r, seen) : c <= Greatest(Of(r, seen))
    OBVIOUS
  <2>1. Of(r, seen) # {} /\ Of(r, seen) \in SUBSET CSNs
    BY <1>0, OfType DEF Settled
  <2> QED
    BY <2>1, GreatestCSN
<1>2. DOMAIN Loaded = Rids
  <2>1. \A r \in Rids : \E c \in 1..Base : RidOf[c] = r
    BY DEF Settled, Of
  <2>2. Rids \subseteq {RidOf[c] : c \in 1..Base} \cup {LocalRid}
    BY <2>1
  <2> QED
    BY <2>2, LoadedType DEF Loaded
<1>3. \A r \in Rids : Loaded[r] = Greatest(Of(r, seen))
  BY <1>0, <1>2 DEF Loaded
<1>4. Loaded \in Full(seen)
  <2>1. Loaded \in [Rids -> seen]
    BY <1>1, <1>2, <1>3 DEF Loaded, Of
  <2>2. \A r \in Rids : RidOf[Loaded[r]] = r
    BY <1>1, <1>3 DEF Of
  <2> QED
    BY <2>1, <2>2 DEF Full
<1>5a. /\ txn = NoTxn /\ lost = {} /\ pending = {} /\ gone = {} /\ smod = NoRUV
       /\ Written = seen /\ seen \cup lost = seen /\ Begun = 1..Base /\ InTxn = {}
  BY NoTxnMeans DEF Init, Begun, Written
<1>5. VectorsFull
  <2>1. \A r \in Rids : mincsn[r] # 0
    <3> SUFFICES ASSUME NEW r \in Rids PROVE mincsn[r] # 0
      OBVIOUS
    <3>1. mincsn[r] = Least(Of(r, seen))
      BY <1>0 DEF Init
    <3>2. Least(Of(r, seen)) \in CSNs
      BY <1>1, LeastCSN
    <3> QED
      BY <3>1, <3>2, CSNNumber
  <2> QED
    BY <1>4, <1>5a, <2>1 DEF VectorsFull, Init, IdleTrim
<1>6. \A c \in seen : RidOf[c] \in Rids /\ c \in Nat /\ c <= Loaded[RidOf[c]]
  <2> SUFFICES ASSUME NEW c \in seen
               PROVE  RidOf[c] \in Rids /\ c \in Nat /\ c <= Loaded[RidOf[c]]
    OBVIOUS
  <2>1. RidOf[c] \in Rids /\ c \in Nat
    BY <1>0, CSNNumber
  <2>2. c \in Of(RidOf[c], seen)
    BY DEF Of
  <2> QED
    BY <1>1, <1>3, <2>1, <2>2
<1>7. \A r \in Rids : Loaded[r] \in seen /\ Loaded[r] \in Nat /\ Loaded[r] # 0
                      /\ RidOf[Loaded[r]] = r
  <2>1. seen \in SUBSET CSNs
    BY <1>0
  <2>2. \A r \in Rids : /\ Loaded[r] \in seen /\ RidOf[Loaded[r]] = r
                        /\ Loaded[r] \in Nat /\ Loaded[r] > 0
    BY <1>4, <2>1, FullFacts
  <2> QED
    BY <2>2
<1>8. NotAhead
  BY <1>7 DEF NotAhead, Init, IdleTrim
<1>9. DrawnInOrder
  <2>1. \A c \in CSNs \ 1..Base : \A d \in 1..Base : d < c
    BY ChangelogAssumption DEF CSNs
  <2> QED
    BY <1>5a, <2>1 DEF DrawnInOrder
<1>10. LogKept
  <2>1. \A r \in Rids : Loaded[r] \in log
    BY <1>2, <1>7 DEF Init
  <2>2. ASSUME NEW c \in seen, c \notin log, NEW a \in 1..Agmts
        PROVE  c < consumer[a][RidOf[c]]
    <3>1. consumer[a] = Loaded
      BY DEF Init
    <3>2. c # Loaded[RidOf[c]]
      BY <1>6, <2>1, <2>2
    <3> QED
      BY <1>6, <1>7, <3>1, <3>2
  <2>3. ASSUME NEW c \in seen
        PROVE  \E d \in log : RidOf[d] = RidOf[c] /\ c <= d
    BY <1>6, <1>7, <2>1
  <2> QED
    BY <2>2, <2>3 DEF LogKept
<1>11. SessionsSound /\ NonePassed
  BY DEF SessionsSound, NonePassed, SessionSound, NothingPassed, Init, IdleSess
<1>12. NoGap
  BY DEF NoGap, Init
<1> QED
  BY <1>5, <1>8, <1>9, <1>10, <1>11, <1>12 DEF ReplayInv

(* A new CSN is drawn. *)
LEMMA DrawnBegin ==
  ASSUME TypeOK, DrawnInOrder, NEW r \in Rids, Begin(r)
  PROVE  DrawnInOrder'
<1> DEFINE new == Least(Of(r, CSNs \ Begun))
<1>1. /\ new \in CSNs /\ new \notin Begun /\ RidOf[new] = r
      /\ \A y \in CSNs \ Begun : RidOf[y] = r => new <= y
  <2>1. Of(r, CSNs \ Begun) \in SUBSET CSNs
    BY DEF Of
  <2>2. new # 0
    BY DEF Begin
  <2>3. new \in Of(r, CSNs \ Begun) /\ \A y \in Of(r, CSNs \ Begun) : new <= y
    BY <2>1, <2>2, LeastCSN
  <2> QED
    BY <2>3 DEF Of
<1>2. /\ pending' = pending \cup {new}
      /\ UNCHANGED <<seen, gone, lost, txn>>
  BY DEF Begin
<1>3. \A c \in pending \cup InTxn : RidOf[c] # r
  <2>1. CASE r = LocalRid
    <3>1. txn = NoTxn /\ Of(LocalRid, pending) = {}
      BY <2>1 DEF Begin, Locked
    <3> QED
      BY <2>1, <3>1, NoTxnMeans DEF Of
  <2>2. CASE r # LocalRid
    BY <2>2 DEF Begin, Of
  <2> QED
    BY <2>1, <2>2
<1> HIDE DEF new
<1>4. Begun' = Begun \cup {new} /\ InTxn' = InTxn
  BY <1>2 DEF Begun, InTxn
<1>5. new \in Nat /\ \A c \in CSNs : c \in Nat
  BY <1>1, CSNNumber
<1>6. Begun \in SUBSET CSNs /\ pending \cup InTxn \in SUBSET Begun
  BY SeenType DEF Begun
<1>7. ASSUME NEW c \in CSNs \ Begun', NEW d \in Begun', RidOf[d] = RidOf[c]
      PROVE  d < c
  <2>1. c \in CSNs \ Begun /\ c # new
    BY <1>4
  <2>2. CASE d \in Begun
    BY <1>7, <2>1, <2>2 DEF DrawnInOrder
  <2>3. CASE d = new
    <3>1. new <= c
      BY <1>1, <1>7, <2>1, <2>3
    <3> QED
      BY <1>5, <2>1, <2>3, <3>1
  <2> QED
    BY <1>4, <2>2, <2>3
<1>8. ASSUME NEW c \in pending' \cup InTxn',
             NEW d \in Begun' \ {c}, RidOf[d] = RidOf[c]
      PROVE  d < c
  <2>1. CASE c = new
    <3>1. d \in Begun
      BY <1>4, <2>1
    <3> QED
      BY <1>1, <1>8, <2>1, <3>1 DEF DrawnInOrder
  <2>2. CASE c # new
    <3>1. c \in pending \cup InTxn
      BY <1>2, <1>4, <2>2
    <3>2. RidOf[c] # r
      BY <1>3, <3>1
    <3>3. d \in Begun \ {c}
      BY <1>1, <1>4, <1>8, <3>2
    <3> QED
      BY <1>8, <3>1, <3>3 DEF DrawnInOrder
  <2> QED
    BY <2>1, <2>2
<1> QED
  BY <1>2, <1>7, <1>8 DEF DrawnInOrder

(* An operation that ends leaves the order. *)
LEMMA DrawnSame ==
  ASSUME DrawnInOrder, Begun' = Begun,
         pending' \cup InTxn' \subseteq pending \cup InTxn,
         \A c \in gone' : RidOf[c] = LocalRid, \A c, d \in lost' : c = d
  PROVE  DrawnInOrder'
BY DEF DrawnInOrder

(* The CSNs that are given back, to be sent again, are the last of their   *)
(* replica.                                                                *)
LEMMA DrawnBack ==
  ASSUME TypeOK, DrawnInOrder, Begun' \subseteq Begun,
         pending' \cup InTxn' \subseteq pending \cup InTxn,
         \A c \in gone' : RidOf[c] = LocalRid, \A c, d \in lost' : c = d,
         \A c \in Begun \ Begun' : \A d \in Begun' : RidOf[d] = RidOf[c] => d < c
  PROVE  DrawnInOrder'
<1>1. Begun \in SUBSET CSNs
  BY SeenType
<1>2. ASSUME NEW c \in CSNs \ Begun', NEW d \in Begun', RidOf[d] = RidOf[c]
      PROVE  d < c
  <2>1. CASE c \in CSNs \ Begun
    BY <1>2, <2>1 DEF DrawnInOrder
  <2>2. CASE c \in Begun
    BY <1>2, <2>2
  <2> QED
    BY <2>1, <2>2
<1>3. ASSUME NEW c \in pending' \cup InTxn',
             NEW d \in Begun' \ {c}, RidOf[d] = RidOf[c]
      PROVE  d < c
  BY <1>3 DEF DrawnInOrder
<1> QED
  BY <1>2, <1>3 DEF DrawnInOrder

-----------------------------------------------------------------------------
(* The operations keep the invariant. *)

(* What a step does not disturb that leaves the changelog, the sessions    *)
(* and the consumers alone, but for CSNs that are written or given back.   *)
LEMMA ReplayFrame ==
  ASSUME ReplayInv, UNCHANGED <<log, seen, sess, consumer, applied, missed>>,
         Written \subseteq Written'
  PROVE  LogKept' /\ SessionsSound' /\ NonePassed' /\ NoGap'
<1>1. Full(Written) \subseteq Full(Written')
  BY FullGrows
<1>2. LogKept' /\ NonePassed' /\ NoGap'
  BY DEF ReplayInv, LogKept, NonePassed, NothingPassed, NoGap, Covers
<1>3. SessionsSound'
  <2> SUFFICES ASSUME NEW a \in 1..Agmts PROVE SessionSound(a)'
    BY DEF SessionsSound
  <2>1. SessionSound(a)
    BY DEF ReplayInv, SessionsSound
  <2> QED
    BY <1>1, <2>1 DEF SessionSound, ToSend
<1> QED
  BY <1>2, <1>3

LEMMA ReplayBegin ==
  ASSUME TypeOK, ReplayInv, NEW r \in Rids, Begin(r)
  PROVE  ReplayInv'
<1>1. ruv' = ruv
  <2>1. ruv \in Full(Written) /\ Written \in SUBSET CSNs
    BY SeenType DEF ReplayInv, VectorsFull
  <2>2. /\ DOMAIN ruv = Rids /\ ruv \in [Rids -> Written]
        /\ \A s \in Rids : Largest(ruv, s) = ruv[s]
    BY <2>1, FullFacts DEF Full
  <2>3. DOMAIN ruv \cup {r} = Rids
    BY <2>2
  <2>4. ruv' = [s \in Rids |-> Largest(ruv, s)]
    BY <2>3 DEF Begin
  <2> QED
    BY <2>2, <2>4
<1>2. UNCHANGED <<log, txn, gone, lost, seen, mincsn, dbruv, smod, trim, known,
                  saved, sess, consumer, applied, missed>>
  BY DEF Begin, replay
<1>3. Written' = Written
  BY <1>2 DEF Written, InTxn
<1>4. LogKept' /\ SessionsSound' /\ NonePassed' /\ NoGap'
  BY <1>2, <1>3, ReplayFrame
<1>5. VectorsFull' /\ NotAhead'
  BY <1>1, <1>2, <1>3 DEF ReplayInv, VectorsFull, NotAhead
<1>6. DrawnInOrder'
  BY DrawnBegin DEF ReplayInv
<1> QED
  BY <1>4, <1>5, <1>6 DEF ReplayInv

(* The change is logged and covered in the transaction: the RUV in memory  *)
(* has a CSN that no session can read.                                     *)
LEMMA ReplayWrite ==
  ASSUME TypeOK, ReplayInv, NEW c \in CSNs, Write(c)
  PROVE  ReplayInv'
<1> DEFINE r == RidOf[c]
<1>0. c \in Nat /\ c > 0 /\ r \in Rids
  BY CSNNumber
<1>1. /\ c \in pending /\ pending' = pending \ {c}
      /\ txn' = [csn |-> c, ruv |-> IF Covers(ruv, c) THEN dbruv
                                    ELSE Readable(SetCSNs(ruv, c))]
      /\ ruv' = SetCSNs(ruv, c)
      /\ mincsn' = [mincsn EXCEPT ![r] = IF @ = 0 THEN c ELSE @]
      /\ UNCHANGED <<log, gone, lost, seen, dbruv, smod, trim, known, saved, sess,
                     consumer, applied, missed>>
  BY DEF Write, replay
<1>2. txn = NoTxn
  BY DEF Write, Locked
<1>3. InTxn = {} /\ InTxn' = {c} /\ Written = seen \cup lost /\ Written' = Written \cup {c}
  <2>1. txn'.csn = c
    BY <1>1
  <2> QED
    BY <1>0, <1>1, <1>2, <2>1, NoTxnMeans DEF InTxn, Written
<1>4. VectorsFull /\ DrawnInOrder
  BY DEF ReplayInv
<1>5. /\ Written \in SUBSET CSNs /\ Written' \in SUBSET CSNs
      /\ Full(Written) \subseteq Full(Written')
  BY <1>3, SeenType, FullGrows
<1>6. ruv \in Full(Written) /\ ruv \in Full(Written') /\ c \in Written'
  BY <1>3, <1>4, <1>5 DEF VectorsFull
<1>7. ruv[r] < c
  <2>1. ruv[r] \in Written /\ RidOf[ruv[r]] = r
    BY <1>0, <1>5, <1>6, FullFacts
  <2>2. ruv[r] # c
    BY <1>1, <2>1, SeenType
  <2> QED
    BY <1>1, <1>4, <2>1, <2>2, WrittenBelow
<1>8. SetCSNs(ruv, c) \in Full(Written')
  BY <1>5, <1>6, <1>7, SetFull
<1>9. txn'.ruv \in Full(Written')
  <2>1. Largest(ruv, r) = ruv[r] /\ ruv[r] \in Nat
    BY <1>0, <1>5, <1>6, FullFacts
  <2>2. ~Covers(ruv, c)
    BY <1>0, <1>7, <2>1 DEF Covers
  <2>3. Readable(SetCSNs(ruv, c)) = SetCSNs(ruv, c)
    BY <1>4, <1>8, ReadableFull
  <2> QED
    BY <1>1, <1>8, <2>2, <2>3
<1>10. \A q \in Rids : mincsn'[q] # 0
  BY <1>0, <1>1, <1>4 DEF VectorsFull, TypeOK
<1>11. VectorsFull'
  BY <1>1, <1>4, <1>5, <1>8, <1>9, <1>10 DEF VectorsFull
<1>12. NotAhead'
  BY <1>1 DEF ReplayInv, NotAhead
<1>13. DrawnInOrder'
  <2>1. Begun' = Begun
    BY <1>1, <1>3 DEF Begun
  <2>2. pending' \cup InTxn' \subseteq pending \cup InTxn
    BY <1>1, <1>3
  <2> QED
    BY <1>1, <1>4, <2>1, <2>2, DrawnSame DEF DrawnInOrder
<1>14. LogKept' /\ SessionsSound' /\ NonePassed' /\ NoGap'
  BY <1>1, <1>3, ReplayFrame
<1> QED
  BY <1>11, <1>12, <1>13, <1>14 DEF ReplayInv

(* The change can be read: it is new to every consumer, and no session has *)
(* a max CSN above it.                                                     *)
LEMMA ReplayCommit ==
  ASSUME TypeOK, ReplayInv, NEW c \in CSNs, Commit(c)
  PROVE  ReplayInv'
<1> DEFINE r == RidOf[c]
<1>0. c \in Nat /\ c > 0 /\ r \in Rids
  BY CSNNumber
<1>1. /\ txn.csn = c /\ txn' = NoTxn /\ dbruv' = txn.ruv
      /\ log' = log \cup {c} /\ seen' = seen \cup {c}
      /\ UNCHANGED <<pending, gone, lost, ruv, mincsn, smod, trim, known, saved,
                     sess, consumer, applied, missed>>
  BY DEF Commit, replay
<1>2. /\ InTxn = {c} /\ InTxn' = {} /\ Written' = Written
      /\ Written' = seen' \cup lost' /\ txn # NoTxn
  <2>1. txn'.csn = 0 /\ txn # NoTxn
    BY <1>0, <1>1, IdleTypes
  <2> QED
    BY <1>0, <1>1, <2>1 DEF InTxn, Written
<1>3. VectorsFull /\ DrawnInOrder
  BY DEF ReplayInv
<1>4. Full(seen) \subseteq Full(seen')
  BY <1>1, FullGrows
<1>5. /\ seen' \in SUBSET CSNs /\ seen \in SUBSET CSNs /\ Written \in SUBSET CSNs
      /\ c \notin seen /\ seen \in SUBSET Written
  BY <1>1, <1>2, SeenType
<1>6. VectorsFull'
  BY <1>1, <1>2, <1>3, <1>4 DEF VectorsFull
<1>7. NotAhead'
  BY <1>1 DEF ReplayInv, NotAhead
<1>8. DrawnInOrder'
  <2>1. Begun' = Begun
    BY <1>1, <1>2 DEF Begun
  <2> QED
    BY <1>1, <1>2, <1>3, <2>1, DrawnSame DEF DrawnInOrder
<1>9. \A a \in 1..Agmts : consumer[a][r] < c /\ consumer[a][r] \in Nat
                          /\ Largest(consumer[a], r) = consumer[a][r]
  <2> SUFFICES ASSUME NEW a \in 1..Agmts
               PROVE  consumer[a][r] < c /\ consumer[a][r] \in Nat
                      /\ Largest(consumer[a], r) = consumer[a][r]
    OBVIOUS
  <2>1. /\ consumer[a][r] \in seen /\ RidOf[consumer[a][r]] = r /\ consumer[a][r] \in Nat
        /\ Largest(consumer[a], r) = consumer[a][r]
    BY <1>0, <1>3, <1>5, FullFacts DEF VectorsFull
  <2>2. c \in InTxn /\ consumer[a][r] \in Written /\ consumer[a][r] # c
    BY <1>2, <1>5, <2>1
  <2> QED
    BY <1>3, <2>1, <2>2, WrittenBelow
<1>10. ASSUME NEW a \in 1..Agmts, sess[a].pc \in {"read", "run"}
       PROVE  ~(c < sess[a].lmax[r])
  <2>1. sess[a].lmax \in Full(Written)
    BY <1>10 DEF ReplayInv, SessionsSound, SessionSound
  <2>2. sess[a].lmax[r] \in Written /\ RidOf[sess[a].lmax[r]] = r /\ sess[a].lmax[r] \in Nat
    BY <1>0, <1>5, <2>1, FullFacts
  <2>3. sess[a].lmax[r] # c => sess[a].lmax[r] < c
    BY <1>2, <1>3, <2>2, WrittenBelow
  <2> QED
    BY <1>0, <2>2, <2>3
<1>11. LogKept'
  <2>1. ASSUME NEW e \in seen'
        PROVE  /\ \E d \in log' : RidOf[d] = RidOf[e] /\ e <= d
               /\ e \notin log' => \A a \in 1..Agmts : e < consumer'[a][RidOf[e]]
    <3>1. CASE e = c
      BY <1>0, <1>1, <3>1
    <3>2. CASE e \in seen
      BY <1>1, <3>2 DEF ReplayInv, LogKept
    <3> QED
      BY <1>1, <3>1, <3>2
  <2> QED
    BY <2>1 DEF LogKept
<1>12. SessionsSound'
  <2> SUFFICES ASSUME NEW a \in 1..Agmts PROVE SessionSound(a)'
    BY DEF SessionsSound
  <2>1. SessionSound(a)
    BY DEF ReplayInv, SessionsSound
  <2> QED
    BY <1>1, <1>2, <2>1 DEF SessionSound, ToSend
<1>13. NonePassed'
  <2> SUFFICES ASSUME NEW a \in 1..Agmts, sess[a].pc \in {"read", "run"},
                      NEW d \in seen',
                      d > consumer[a][RidOf[d]], d < sess[a].lmax[RidOf[d]]
               PROVE  /\ sess[a].cur < d
                      /\ sess[a].pc = "run" =>
                           \A b \in sess[a].bulk : d < b => d \in sess[a].bulk
    BY <1>1 DEF NonePassed, NothingPassed
  <2>1. d \in seen
    BY <1>1, <1>10
  <2> QED
    BY <2>1 DEF ReplayInv, NonePassed, NothingPassed
<1>14. NoGap'
  <2> SUFFICES ASSUME NEW a \in 1..Agmts, NEW d \in seen', Covers(consumer[a], d)
               PROVE  d \in applied[a] \cup missed[a]
    BY <1>1 DEF NoGap, Covers
  <2>1. d # c
    BY <1>0, <1>9 DEF Covers
  <2> QED
    BY <1>1, <2>1 DEF ReplayInv, NoGap, Covers
<1> QED
  BY <1>6, <1>7, <1>8, <1>11, <1>12, <1>13, <1>14 DEF ReplayInv

(* The commit fails: the RUVs keep a CSN that nobody will read. *)
LEMMA ReplayCommitFails ==
  ASSUME TypeOK, ReplayInv, Settled, NEW c \in CSNs, CommitFails(c)
  PROVE  ReplayInv'
<1>0. c \in Nat /\ c > 0
  BY CSNNumber
<1>1. /\ txn.csn = c /\ txn' = NoTxn /\ lost' = lost \cup {c}
      /\ Cardinality(lost) < MaxLost
      /\ UNCHANGED <<log, pending, gone, seen, ruv, mincsn, dbruv, smod, trim,
                     known, saved, sess, consumer, applied, missed>>
  BY DEF CommitFails, vectors, replay
<1>2. /\ InTxn = {c} /\ InTxn' = {} /\ Written' = Written
  <2>1. txn'.csn = 0
    BY <1>1, IdleTypes
  <2> QED
    BY <1>0, <1>1, <2>1 DEF InTxn, Written
<1>3. lost = {}
  <2>1. IsFiniteSet(lost) /\ Cardinality(lost) \in Nat
    BY SeenType, LogFinite
  <2>2. Cardinality(lost) = 0
    BY <1>1, <2>1, ChangelogAssumption DEF Settled
  <2> QED
    BY <2>1, <2>2, FS_EmptySet
<1>4. VectorsFull'
  <2>1. Full(seen \cup lost) \subseteq Full(seen' \cup lost')
    BY <1>1, FullGrows
  <2> QED
    BY <1>1, <1>2, <2>1 DEF ReplayInv, VectorsFull
<1>5. NotAhead'
  BY <1>1 DEF ReplayInv, NotAhead
<1>6. DrawnInOrder'
  <2>1. Begun' = Begun
    BY <1>1, <1>2 DEF Begun
  <2> QED
    BY <1>1, <1>2, <1>3, <2>1, DrawnSame DEF DrawnInOrder, ReplayInv
<1>7. LogKept' /\ SessionsSound' /\ NonePassed' /\ NoGap'
  BY <1>1, <1>2, ReplayFrame
<1> QED
  BY <1>4, <1>5, <1>6, <1>7 DEF ReplayInv

LEMMA ReplayAbort ==
  ASSUME TypeOK, ReplayInv, NEW c \in CSNs, Abort(c)
  PROVE  ReplayInv'
<1>1. /\ UNCHANGED <<log, txn, lost, seen, ruv, mincsn, dbruv, smod, trim, known,
                     saved, sess, consumer, applied, missed>>
      /\ c \in pending /\ pending' = pending \ {c}
      /\ gone' = IF RidOf[c] = LocalRid THEN gone \cup {c} ELSE gone
  BY DEF Abort, vectors, replay
<1>2. Written' = Written /\ InTxn' = InTxn
  BY <1>1 DEF Written, InTxn
<1>3. LogKept' /\ SessionsSound' /\ NonePassed' /\ NoGap'
  BY <1>1, <1>2, ReplayFrame
<1>4. VectorsFull' /\ NotAhead'
  BY <1>1, <1>2 DEF ReplayInv, VectorsFull, NotAhead
<1>5. DrawnInOrder'
  <2>0. DrawnInOrder
    BY DEF ReplayInv
  <2>1. /\ \A d \in gone' : RidOf[d] = LocalRid
        /\ \A d, e \in lost' : d = e
        /\ pending' \cup InTxn' \subseteq pending \cup InTxn
    BY <1>1, <1>2, <2>0 DEF DrawnInOrder
  <2>2. Begun' \subseteq Begun /\ \A d \in Begun \ Begun' : d = c
    BY <1>1, <1>2 DEF Begun
  <2>3. \A d \in Begun \ Begun' : \A e \in Begun' : RidOf[e] = RidOf[d] => e < d
    BY <1>1, <2>0, <2>2 DEF DrawnInOrder
  <2> QED
    BY <2>0, <2>1, <2>2, <2>3, DrawnBack
<1> QED
  BY <1>3, <1>4, <1>5 DEF ReplayInv

(* replica_write_ruv: what it read was covered then, and is committed or   *)
(* lost when it writes.                                                    *)
LEMMA ReplayState ==
  ASSUME TypeOK, ReplayInv, ReadState \/ WriteState
  PROVE  ReplayInv'
<1>1. UNCHANGED <<log, txn, pending, gone, lost, seen, ruv, mincsn, trim, known,
                  saved, sess, consumer, applied, missed>>
  BY DEF ReadState, WriteState, changes, replay
<1>2. Written' = Written /\ DrawnInOrder'
  BY <1>1, WrittenSame DEF ReplayInv
<1>3. LogKept' /\ SessionsSound' /\ NonePassed' /\ NoGap'
  BY <1>1, <1>2, ReplayFrame
<1>4. NotAhead'
  BY <1>1 DEF ReplayInv, NotAhead
<1>5. dbruv' \in Full(seen \cup lost) /\ (smod' # NoRUV => smod' \in Full(Written))
  <2>1. CASE ReadState
    <3>1. Readable(ruv) = ruv /\ ruv \in Full(Written)
      BY ReadableFull DEF ReplayInv, VectorsFull
    <3> QED
      BY <2>1, <3>1 DEF ReadState, ReplayInv, VectorsFull
  <2>2. CASE WriteState
    <3>1. Written = seen \cup lost
      BY <2>2, NoTxnMeans DEF WriteState, Locked
    <3> QED
      BY <2>2, <3>1 DEF WriteState, ReplayInv, VectorsFull
  <2> QED
    BY <2>1, <2>2
<1>6. VectorsFull'
  BY <1>1, <1>2, <1>5 DEF ReplayInv, VectorsFull
<1> QED
  BY <1>2, <1>3, <1>4, <1>6 DEF ReplayInv

-----------------------------------------------------------------------------
(* The trimming thread keeps the invariant. *)

LEMMA ReplayTrimStart ==
  ASSUME TypeOK, ReplayInv, TrimStart
  PROVE  ReplayInv'
<1>1. UNCHANGED <<log, txn, pending, gone, lost, seen, ruv, mincsn, dbruv, smod,
                  known, saved, sess, consumer, applied, missed>>
  BY DEF TrimStart, changes, vectors, replay
<1>2. trim'.ruv = RUV2Purge
  BY DEF TrimStart, IdleTrim
<1>3. /\ RUV2Purge \in Full(CSNs)
      /\ \A a \in 1..Agmts : \A r \in Rids : RUV2Purge[r] <= known[a][r]
  BY PurgeFull DEF ReplayInv
<1>4. Written' = Written /\ DrawnInOrder'
  BY <1>1, WrittenSame DEF ReplayInv
<1>5. VectorsFull'
  BY <1>1, <1>2, <1>3, <1>4 DEF ReplayInv, VectorsFull
<1>6. NotAhead'
  <2>1. \A a \in 1..Agmts : \A r \in Rids :
          RUV2Purge[r] \in Nat /\ known[a][r] \in Nat /\ consumer[a][r] \in Nat
    BY <1>3, FullFacts, VectorNumbers DEF ReplayInv
  <2>2. \A a \in 1..Agmts : \A r \in Rids : RUV2Purge[r] <= consumer[a][r]
    BY <1>3, <2>1 DEF ReplayInv, NotAhead
  <2> QED
    BY <1>1, <1>2, <2>2 DEF ReplayInv, NotAhead
<1>7. LogKept' /\ SessionsSound' /\ NonePassed' /\ NoGap'
  BY <1>1, <1>4, ReplayFrame
<1> QED
  BY <1>4, <1>5, <1>6, <1>7 DEF ReplayInv

LEMMA ReplayTrimPurgeRuv ==
  ASSUME TypeOK, ReplayInv, TrimPurgeRuv
  PROVE  ReplayInv'
<1>1. /\ UNCHANGED <<log, txn, pending, gone, lost, seen, ruv, mincsn, dbruv, smod,
                     known, saved, sess, consumer, applied, missed>>
      /\ trim'.pc = "idle"
  BY DEF TrimPurgeRuv, IdleTrim, changes, replay
<1>2. Written' = Written /\ DrawnInOrder'
  BY <1>1, WrittenSame DEF ReplayInv
<1>3. VectorsFull' /\ NotAhead'
  BY <1>1, <1>2 DEF ReplayInv, VectorsFull, NotAhead
<1>4. LogKept' /\ SessionsSound' /\ NonePassed' /\ NoGap'
  BY <1>1, <1>2, ReplayFrame
<1> QED
  BY <1>2, <1>3, <1>4 DEF ReplayInv

(* An entry is only removed below the RUV to trim to, which is never ahead *)
(* of a consumer; the max CSN of a consumer, or a later one, stays.        *)
LEMMA ReplayTrimEntry ==
  ASSUME TypeOK, ReplayInv, Settled, TrimEntry
  PROVE  ReplayInv'
<1> DEFINE c == Least({d \in log : d > trim.pos})
<1>1. /\ UNCHANGED <<txn, pending, gone, lost, seen, ruv, mincsn, dbruv, smod,
                     known, saved, sess, consumer, applied, missed>>
      /\ trim.pc = "scan"
  BY DEF TrimEntry, vectors, replay
<1>2. trim'.ruv = trim.ruv
  BY DEF TrimEntry, ScanEnds, TypeOK
<1>3. Written' = Written /\ DrawnInOrder'
  BY <1>1, WrittenSame DEF ReplayInv
<1>4. VectorsFull' /\ NotAhead'
  BY <1>1, <1>2, <1>3 DEF ReplayInv, VectorsFull, NotAhead
<1>5. LogKept'
  <2>1. CASE log' = log
    BY <1>1, <2>1 DEF ReplayInv, LogKept
  <2>2. CASE c # 0 /\ CoversStrict(trim.ruv, c) /\ log' = log \ {c}
    <3>1. c \in log
      <4>1. {d \in log : d > trim.pos} \in SUBSET CSNs
        BY SeenType
      <4>2. c \in {d \in log : d > trim.pos}
        BY <2>2, <4>1, LeastCSN
      <4> QED
        BY <4>2
    <3> HIDE DEF c
    <3>2. c \in seen /\ c \in CSNs /\ c \in Nat /\ RidOf[c] \in Rids
      BY <3>1, SeenType, CSNNumber
    <3> DEFINE t == trim.ruv[RidOf[c]]
    <3>3. t \in Nat /\ DOMAIN trim.ruv = Rids
      BY <1>1, <3>2, FullFacts DEF ReplayInv, VectorsFull
    <3>4. c < t
      BY <2>2, <3>2, <3>3 DEF CoversStrict
    <3>5. ASSUME NEW a \in 1..Agmts
          PROVE  c < consumer[a][RidOf[c]] /\ consumer[a][RidOf[c]] \in Nat
      <4>1. t <= consumer[a][RidOf[c]] /\ consumer[a][RidOf[c]] \in Nat
        BY <1>1, <3>2, VectorNumbers DEF ReplayInv, NotAhead
      <4> QED
        BY <3>2, <3>3, <3>4, <4>1
    <3>6. ASSUME NEW e \in seen
          PROVE  \E d \in log' : RidOf[d] = RidOf[e] /\ e <= d
      <4>1. PICK d \in log : RidOf[d] = RidOf[e] /\ e <= d
        BY DEF ReplayInv, LogKept
      <4>2. CASE d # c
        BY <2>2, <4>1, <4>2
      <4>3. CASE d = c
        <5>1. 1 \in 1..Agmts
          BY ChangelogAssumption DEF Settled
        <5> DEFINE k == consumer[1][RidOf[c]]
        <5>2. k \in seen /\ RidOf[k] = RidOf[c] /\ c < k /\ k \in Nat
          BY <3>2, <3>5, <5>1, SeenType, FullFacts DEF ReplayInv, VectorsFull
        <5> HIDE DEF k
        <5>3. PICK g \in log : RidOf[g] = RidOf[k] /\ k <= g
          BY <5>2 DEF ReplayInv, LogKept
        <5>4. e \in Nat /\ g \in Nat
          BY <5>3, SeenType, CSNNumber
        <5>5. g # c /\ e <= g
          BY <3>2, <4>1, <4>3, <5>2, <5>3, <5>4
        <5> QED
          BY <2>2, <4>1, <4>3, <5>2, <5>3, <5>5
      <4> QED
        BY <4>2, <4>3
    <3>7. ASSUME NEW e \in seen, e \notin log', NEW a \in 1..Agmts
          PROVE  e < consumer[a][RidOf[e]]
      BY <2>2, <3>5, <3>7 DEF ReplayInv, LogKept
    <3> QED
      BY <1>1, <3>6, <3>7 DEF LogKept
  <2>3. log' = log \/ (c # 0 /\ CoversStrict(trim.ruv, c) /\ log' = log \ {c})
    BY DEF TrimEntry, ScanEnds
  <2> QED
    BY <2>1, <2>2, <2>3
<1>6. SessionsSound' /\ NonePassed' /\ NoGap'
  BY <1>1, <1>3 DEF ReplayInv, SessionsSound, NonePassed, SessionSound,
                    NothingPassed, NoGap, Covers, ToSend
<1> QED
  BY <1>3, <1>4, <1>5, <1>6 DEF ReplayInv

-----------------------------------------------------------------------------
(* The sessions keep the invariant. *)

(* What a step has to show that replaces the iterator of one session.      *)
LEMMA ReplayOneSession ==
  ASSUME TypeOK, ReplayInv, NEW a \in 1..Agmts, NEW t,
         sess' = [sess EXCEPT ![a] = t],
         UNCHANGED <<log, txn, pending, gone, lost, seen, ruv, mincsn, dbruv, smod,
                     trim, saved, consumer, applied, missed>>,
         VectorsFull', NotAhead',
         SessionSound(a)', NothingPassed(a)'
  PROVE  ReplayInv'
<1>1. /\ sess'[a] = t
      /\ \A b \in 1..Agmts : b # a => sess'[b] = sess[b]
  BY DEF TypeOK
<1>2. Written' = Written /\ DrawnInOrder'
  BY WrittenSame DEF ReplayInv
<1>3. SessionsSound'
  <2> SUFFICES ASSUME NEW b \in 1..Agmts, b # a PROVE SessionSound(b)'
    BY DEF SessionsSound
  <2>1. SessionSound(b)
    BY DEF ReplayInv, SessionsSound
  <2> QED
    BY <1>1, <1>2, <2>1 DEF SessionSound, ToSend
<1>4. NonePassed'
  <2> SUFFICES ASSUME NEW b \in 1..Agmts, b # a PROVE NothingPassed(b)'
    BY DEF NonePassed
  <2> QED
    BY <1>1 DEF ReplayInv, NonePassed, NothingPassed
<1>5. LogKept' /\ NoGap'
  BY DEF ReplayInv, LogKept, NoGap, Covers
<1> QED
  BY <1>2, <1>3, <1>4, <1>5 DEF ReplayInv

(* A step of a session that leaves the vectors alone. *)
LEMMA VectorsFrame ==
  ASSUME ReplayInv,
         UNCHANGED <<txn, lost, seen, ruv, mincsn, dbruv, smod, trim, known, saved,
                     consumer>>
  PROVE  VectorsFull' /\ NotAhead' /\ Written' = Written
<1>1. Written' = Written
  BY DEF Written, InTxn
<1> QED
  BY <1>1 DEF ReplayInv, VectorsFull, NotAhead

(* A session that is over. *)
LEMMA ReplayIdle ==
  ASSUME TypeOK, ReplayInv, NEW a \in 1..Agmts, NEW q,
         sess' = [sess EXCEPT ![a] = [IdleSess EXCEPT !.rc = q]],
         UNCHANGED <<log, txn, pending, gone, lost, seen, ruv, mincsn, dbruv, smod,
                     trim, known, saved, consumer, applied, missed>>
  PROVE  ReplayInv'
<1> DEFINE t == [IdleSess EXCEPT !.rc = q]
<1>1. t.pc = "idle"
  BY DEF IdleSess
<1>2. sess'[a] = t
  BY DEF TypeOK
<1>3. sess' = [sess EXCEPT ![a] = t]
  OBVIOUS
<1> HIDE DEF t
<1>4. SessionSound(a)' /\ NothingPassed(a)'
  BY <1>1, <1>2 DEF SessionSound, NothingPassed
<1>5. VectorsFull' /\ NotAhead'
  BY VectorsFrame
<1> QED
  BY <1>3, <1>4, <1>5, ReplayOneSession

LEMMA ReplayEndSession ==
  ASSUME TypeOK, ReplayInv, NEW a \in 1..Agmts, EndSession(a)
  PROVE  ReplayInv'
<1>1. IdleSess = [IdleSess EXCEPT !.rc = "none"]
  BY DEF IdleSess
<1>2. sess' = [sess EXCEPT ![a] = [IdleSess EXCEPT !.rc = "none"]]
  BY <1>1 DEF EndSession
<1>3. UNCHANGED <<log, txn, pending, gone, lost, seen, ruv, mincsn, dbruv, smod,
                  trim, known, saved, consumer, applied, missed>>
  BY DEF EndSession, changes, vectors
<1> QED
  BY <1>2, <1>3, ReplayIdle

LEMMA ReplayAcquire ==
  ASSUME TypeOK, ReplayInv, NEW a \in 1..Agmts, Acquire(a)
  PROVE  ReplayInv'
<1> DEFINE m == [r \in Rids |-> Largest(consumer[a], r)]
           t == [IdleSess EXCEPT !.pc = "open", !.cmax = m]
<1>1. /\ known' = [known EXCEPT ![a] = consumer[a]]
      /\ sess' = [sess EXCEPT ![a] = t]
      /\ UNCHANGED <<log, txn, pending, gone, lost, seen, ruv, mincsn, dbruv, smod,
                     trim, saved, consumer, applied, missed>>
  BY DEF Acquire, changes, vectors
<1>2. consumer[a] \in Full(seen)
  BY DEF ReplayInv, VectorsFull
<1>3. m = consumer[a]
  <2>1. /\ DOMAIN consumer[a] = Rids /\ consumer[a] \in [Rids -> seen]
        /\ \A r \in Rids : Largest(consumer[a], r) = consumer[a][r]
    BY <1>2, SeenType, FullFacts DEF Full
  <2> QED
    BY <2>1
<1> HIDE DEF m
<1>4. /\ t.pc = "open" /\ t.cmax = consumer[a] /\ t.rc = "none"
      /\ t = sess'[a]
  BY <1>1, <1>3 DEF IdleSess, TypeOK
<1> HIDE DEF t
<1>5. SessionSound(a)' /\ NothingPassed(a)'
  BY <1>1, <1>4 DEF SessionSound, NothingPassed
<1>6. \A b \in 1..Agmts : known'[b] = IF b = a THEN consumer[a] ELSE known[b]
  BY <1>1 DEF TypeOK
<1>7. VectorsFull'
  <2>1. Written' = Written
    BY <1>1 DEF Written, InTxn
  <2> QED
    BY <1>1, <1>2, <1>6, <2>1 DEF ReplayInv, VectorsFull
<1>8. NotAhead'
  <2>1. \A r \in Rids : consumer[a][r] \in Nat
    BY VectorNumbers DEF ReplayInv
  <2> QED
    BY <1>1, <1>6, <2>1 DEF ReplayInv, NotAhead
<1> QED
  BY <1>1, <1>4, <1>5, <1>7, <1>8, ReplayOneSession

(* In an acquired session the anchor of a replica that has changes to send *)
(* is what the consumer has of it.                                         *)
LEMMA AnchorFull ==
  ASSUME TypeOK, ReplayInv, NEW a \in 1..Agmts, sess[a].pc # "idle",
         NEW r \in Rids
  PROVE  LET s == Refreshed(sess[a])
         IN  FromConsumer(s, r) = [csn |-> consumer[a][r], op |-> "next"]
<1>1. sess[a] \in Sessions /\ sess[a].cmax = consumer[a]
  BY DEF TypeOK, ReplayInv, SessionsSound, SessionSound
<1>2. Refreshed(sess[a]).cmax = consumer[a]
  BY <1>1, RefreshedFull DEF ReplayInv
<1>3. consumer[a][r] # 0
  BY SeenType, FullFacts DEF ReplayInv, VectorsFull
<1> QED
  BY <1>2, <1>3 DEF FromConsumer

(* A change a consumer lacks is in the changelog, and so is its max CSN.   *)
LEMMA LackedIsLogged ==
  ASSUME TypeOK, ReplayInv, NEW a \in 1..Agmts, NEW d \in seen,
         d >= consumer[a][RidOf[d]]
  PROVE  d \in log
<1>1. d \in Nat /\ consumer[a][RidOf[d]] \in Nat
  BY SeenType, CSNNumber, VectorNumbers DEF ReplayInv
<1> QED
  BY <1>1 DEF ReplayInv, LogKept

(* clcache_load_buffer picks the anchor: from a change that is now below   *)
(* the max CSN of the session and was not, it goes back to what the        *)
(* consumer has.                                                           *)
LEMMA ReplayRefresh ==
  ASSUME TypeOK, ReplayInv, NEW a \in 1..Agmts, Refresh(a)
  PROVE  ReplayInv'
<1> DEFINE s == Refreshed(sess[a])
           first == s.pc = "open"
           A == {IF first THEN InitialAnchor(s, r) ELSE AdjustAnchor(s, r) : r \in ToSend(s)}
<1>0. sess[a] \in Sessions
  BY DEF TypeOK
<1>1. UNCHANGED <<log, txn, pending, gone, lost, seen, ruv, mincsn, dbruv, smod,
                  trim, known, saved, consumer, applied, missed>>
  BY DEF Refresh, changes, vectors
<1>2. SessionSound(a) /\ NothingPassed(a)
  BY DEF ReplayInv, SessionsSound, NonePassed
<1>3. s.pc = sess[a].pc /\ sess[a].pc \in {"open", "run"}
  BY <1>0, RefreshedFull DEF Refresh, ReplayInv
<1>4. /\ s \in Sessions /\ s.lmax = ruv /\ s.cmax = consumer[a]
      /\ s.rc = "none" /\ s.cur = sess[a].cur /\ s.start = sess[a].start
  BY <1>0, <1>2, <1>3, RefreshedFull DEF ReplayInv, SessionSound
<1>5. ~first => \A r \in Rids : /\ sess[a].lmax[r] # 0 /\ sess[a].lmax[r] \in Nat
                                /\ s.prev[r] = sess[a].lmax[r]
  <2> SUFFICES ASSUME ~first, NEW r \in Rids
               PROVE  /\ sess[a].lmax[r] # 0 /\ sess[a].lmax[r] \in Nat
                      /\ s.prev[r] = sess[a].lmax[r]
    OBVIOUS
  <2>1. sess[a].lmax \in Full(Written)
    BY <1>2, <1>3 DEF SessionSound
  <2>2. sess[a].lmax[r] # 0 /\ sess[a].lmax[r] \in Nat
    BY <2>1, SeenType, FullFacts
  <2> QED
    BY <1>0, <2>2, RefreshedFull DEF ReplayInv
<1>6. \A r \in ToSend(s) :
        /\ r \in Rids /\ ruv[r] > consumer[a][r]
        /\ InitialAnchor(s, r) = [csn |-> consumer[a][r], op |-> "next"]
        /\ ~first => AdjustAnchor(s, r) =
             IF ruv[r] = sess[a].lmax[r] \/ sess[a].lmax[r] > sess[a].cur
               THEN [csn |-> sess[a].cur, op |-> "next"]
               ELSE [csn |-> consumer[a][r], op |-> "next"]
  <2> SUFFICES ASSUME NEW r \in ToSend(s)
               PROVE  /\ r \in Rids /\ ruv[r] > consumer[a][r]
                      /\ InitialAnchor(s, r) = [csn |-> consumer[a][r], op |-> "next"]
                      /\ ~first => AdjustAnchor(s, r) =
                           IF ruv[r] = sess[a].lmax[r] \/ sess[a].lmax[r] > sess[a].cur
                             THEN [csn |-> sess[a].cur, op |-> "next"]
                             ELSE [csn |-> consumer[a][r], op |-> "next"]
    OBVIOUS
  <2>1. r \in Rids /\ ruv[r] > consumer[a][r]
    BY <1>4 DEF ToSend
  <2>2. FromConsumer(s, r) = [csn |-> consumer[a][r], op |-> "next"]
    BY <1>3, <2>1, AnchorFull
  <2> HIDE DEF s
  <2> QED
    BY <1>4, <1>5, <2>1, <2>2 DEF AdjustAnchor, InitialAnchor
<1> HIDE DEF s
<1>7. CASE sess' = [sess EXCEPT ![a] = [IdleSess EXCEPT !.rc = "notfound"]]
  BY <1>1, <1>7, ReplayIdle
<1>8. ASSUME NEW x \in LeastAnchors(A),
             sess' = [sess EXCEPT ![a] =
                        [s EXCEPT !.pc = "read", !.cur = x.csn, !.op = x.op]]
      PROVE  ReplayInv'
  <2>1. PICK q \in ToSend(s) :
          x = IF first THEN InitialAnchor(s, q) ELSE AdjustAnchor(s, q)
    BY DEF LeastAnchors
  <2>2. /\ x.op = "next" /\ q \in Rids
        /\ x.csn = sess[a].cur \/ x.csn = consumer[a][q]
        /\ first => x.csn = consumer[a][q]
    <3>1. \/ x = [csn |-> consumer[a][q], op |-> "next"]
          \/ ~first /\ x = [csn |-> sess[a].cur, op |-> "next"]
      BY <1>6, <2>1
    <3> QED
      BY <1>6, <3>1
  <2>3. \A r \in ToSend(s) :
          x.csn <= (IF first THEN InitialAnchor(s, r) ELSE AdjustAnchor(s, r)).csn
    BY DEF LeastAnchors
  <2>4. \A r \in Rids : /\ consumer[a][r] \in Nat /\ consumer[a][r] <= MaxCSN
                        /\ ruv[r] \in Nat
    BY SeenType, FullFacts DEF ReplayInv, VectorsFull
  <2>5. x.csn \in Nat /\ sess[a].cur \in Nat
    BY <1>0, <2>2, <2>4, ChangelogAssumption DEF Sessions
  <2> DEFINE t == [s EXCEPT !.pc = "read", !.cur = x.csn, !.op = x.op]
  <2>6. sess' = [sess EXCEPT ![a] = t]
    BY <1>8
  <2> HIDE DEF A
  <2>7. /\ t.pc = "read" /\ t.cur = x.csn /\ t.op = "next" /\ t.lmax = ruv
        /\ t.cmax = consumer[a] /\ t.rc = "none" /\ t.start = sess[a].start
    BY <1>4, <2>2 DEF Sessions
  <2> HIDE DEF t
  <2>8. sess'[a] = t
    BY <2>6 DEF TypeOK
  <2>9. VectorsFull' /\ NotAhead' /\ Written' = Written
    BY <1>1, VectorsFrame
  <2>10. t.start = 0 => /\ x.csn = consumer[a][q]
                        /\ \A r \in ToSend(t) : x.csn <= consumer[a][r]
    <3> SUFFICES ASSUME t.start = 0
                 PROVE  /\ x.csn = consumer[a][q]
                        /\ \A r \in ToSend(t) : x.csn <= consumer[a][r]
      OBVIOUS
    <3>1. first
      BY <1>2, <1>3, <2>7 DEF SessionSound
    <3>2. ToSend(t) = ToSend(s)
      BY <1>4, <2>7 DEF ToSend
    <3>3. \A r \in ToSend(s) : x.csn <= consumer[a][r]
      BY <1>6, <2>3, <3>1
    <3> QED
      BY <2>2, <3>1, <3>2, <3>3
  <2>11. SessionSound(a)'
    <3>1. ruv \in Full(Written)
      BY DEF ReplayInv, VectorsFull
    <3>2. ToSend(sess[a])' = ToSend(t)
      BY <2>8 DEF ToSend
    <3> QED
      BY <1>1, <2>2, <2>7, <2>8, <2>9, <2>10, <3>1, <3>2 DEF SessionSound
  <2>12. NothingPassed(a)'
    <3> SUFFICES ASSUME NEW d \in seen, d > consumer[a][RidOf[d]], d < ruv[RidOf[d]]
                 PROVE  x.csn < d
      BY <1>1, <2>7, <2>8 DEF NothingPassed
    <3> DEFINE r == RidOf[d]
    <3>1. d \in Nat /\ r \in Rids
      BY SeenType, CSNNumber
    <3>2. r \in ToSend(s)
      BY <1>4, <2>4, <3>1 DEF ToSend
    <3>3. x.csn <= consumer[a][r] => x.csn < d
      BY <2>4, <2>5, <3>1
    <3>4. CASE first
      BY <1>6, <2>3, <3>2, <3>3, <3>4
    <3>5. CASE ~first /\ ~(ruv[r] = sess[a].lmax[r] \/ sess[a].lmax[r] > sess[a].cur)
      BY <1>6, <2>3, <3>2, <3>3, <3>5
    <3>6. CASE ~first /\ (ruv[r] = sess[a].lmax[r] \/ sess[a].lmax[r] > sess[a].cur)
      <4>1. x.csn <= sess[a].cur
        BY <1>6, <2>3, <3>2, <3>6
      <4>2. CASE d < sess[a].lmax[r]
        <5>1. sess[a].cur < d
          BY <1>2, <1>3, <3>6, <4>2 DEF NothingPassed
        <5> QED
          BY <2>5, <3>1, <4>1, <5>1
      <4>3. CASE ~(d < sess[a].lmax[r])
        <5>1. sess[a].lmax[r] > sess[a].cur /\ sess[a].lmax[r] \in Nat
          BY <1>5, <2>4, <3>1, <3>6, <4>3
        <5> QED
          BY <2>5, <3>1, <4>1, <4>3, <5>1
      <4> QED
        BY <4>2, <4>3
    <3> QED
      BY <3>4, <3>5, <3>6
  <2> QED
    BY <1>1, <2>6, <2>9, <2>11, <2>12, ReplayOneSession
<1> QED
  BY <1>7, <1>8 DEF Refresh, s

(* The buffer is read: what is committed then, all of it up to its last.   *)
LEMMA ReplayRead ==
  ASSUME TypeOK, ReplayInv, NEW a \in 1..Agmts, Read(a)
  PROVE  ReplayInv'
<1> DEFINE s == sess[a]
           x == [csn |-> s.cur, op |-> s.op]
           B == Bulk(x)
           t == [s EXCEPT !.pc = "run", !.gt = {}, !.bulk = B,
                          !.start = IF @ = 0 THEN s.cur ELSE @]
<1>1. /\ s.pc = "read" /\ s \in Sessions
      /\ UNCHANGED <<log, txn, pending, gone, lost, seen, ruv, mincsn, dbruv, smod,
                     trim, known, saved, consumer, applied, missed>>
  BY DEF Read, changes, vectors, TypeOK
<1>2. CASE B = {}
  <2>1. sess' = [sess EXCEPT ![a] = [IdleSess EXCEPT
                   !.rc = IF s.start = 0 THEN CheckMissing(s.cur) ELSE "notfound"]]
    BY <1>2 DEF Read
  <2> QED
    BY <1>1, <2>1, ReplayIdle
<1>3. CASE B # {}
  <2>1. sess' = [sess EXCEPT ![a] = t]
    BY <1>3 DEF Read
  <2>2. SessionSound(a) /\ NothingPassed(a)
    BY DEF ReplayInv, SessionsSound, NonePassed
  <2>3. /\ s.cmax = consumer[a] /\ s.rc = "none" /\ s.lmax \in Full(Written)
        /\ s.op = "next" /\ (s.start = 0 => \E r \in Rids : s.cur = consumer[a][r])
    BY <1>1, <2>2 DEF SessionSound
  <2>4. s.start = 0 => s.cur # 0
    BY <2>3, SeenType, FullFacts DEF ReplayInv, VectorsFull
  <2>5. x.op = "next" /\ x.csn = s.cur /\ x.csn \in 0..MaxCSN
    BY <1>1, <2>3 DEF Sessions
  <2> HIDE DEF x
  <2>6. /\ \A b \in B : b \in log /\ s.cur < b
        /\ \A b \in B : \A d \in log : s.cur < d /\ d < b => d \in B
    BY <2>5, BulkNext
  <2> HIDE DEF B
  <2>7. /\ t.pc = "run" /\ t.cur = s.cur /\ t.bulk = B /\ t.lmax = s.lmax
        /\ t.cmax = consumer[a] /\ t.gt = {} /\ t.rc = "none" /\ t.start # 0
    BY <1>1, <2>3, <2>4 DEF Sessions
  <2> HIDE DEF t
  <2>8. sess'[a] = t
    BY <2>1 DEF TypeOK
  <2>9. VectorsFull' /\ NotAhead' /\ Written' = Written
    BY <1>1, VectorsFrame
  <2>10. SessionSound(a)'
    BY <1>1, <2>3, <2>6, <2>7, <2>8, <2>9, SeenType DEF SessionSound
  <2>11. NothingPassed(a)'
    <3> SUFFICES ASSUME NEW d \in seen, d > consumer[a][RidOf[d]],
                        d < s.lmax[RidOf[d]]
                 PROVE  /\ s.cur < d
                        /\ \A b \in B : d < b => d \in B
      BY <1>1, <2>7, <2>8 DEF NothingPassed
    <3>1. s.cur < d
      BY <1>1, <2>2 DEF NothingPassed
    <3>2. d \in Nat /\ consumer[a][RidOf[d]] \in Nat
      BY SeenType, CSNNumber, VectorNumbers DEF ReplayInv
    <3>3. d \in log
      BY <3>2, LackedIsLogged
    <3> QED
      BY <2>6, <3>1, <3>3
  <2> QED
    BY <1>1, <2>1, <2>9, <2>10, <2>11, ReplayOneSession
<1> QED
  BY <1>2, <1>3

(* The next change of the buffer is the first one the consumer lacks of    *)
(* those below the max CSNs of the session.                                *)
LEMMA NextIsFirst ==
  ASSUME TypeOK, ReplayInv, NEW a \in 1..Agmts, sess[a].pc = "run",
         sess[a].bulk # {}
  PROVE  LET c == Least(sess[a].bulk)
         IN  /\ c \in sess[a].bulk /\ c \in seen /\ sess[a].cur < c
             /\ \A b \in sess[a].bulk : c <= b
             /\ \A d \in seen :
                  d > consumer[a][RidOf[d]] /\ d < sess[a].lmax[RidOf[d]] => c <= d
<1> DEFINE c == Least(sess[a].bulk)
<1>1. SessionSound(a) /\ NothingPassed(a)
  BY DEF ReplayInv, SessionsSound, NonePassed
<1>2. sess[a].bulk \in SUBSET CSNs
  BY <1>1, SeenType DEF SessionSound
<1>3. c \in sess[a].bulk /\ \A b \in sess[a].bulk : c <= b
  BY <1>2, LeastCSN
<1> HIDE DEF c
<1>4. c \in seen /\ sess[a].cur < c /\ c \in Nat
  BY <1>1, <1>2, <1>3, CSNNumber DEF SessionSound
<1>5. ASSUME NEW d \in seen, d > consumer[a][RidOf[d]],
             d < sess[a].lmax[RidOf[d]]
      PROVE  c <= d
  <2>1. d < c => d \in sess[a].bulk
    BY <1>1, <1>3, <1>5 DEF NothingPassed
  <2>2. d \in Nat
    BY SeenType, CSNNumber
  <2> QED
    BY <1>3, <1>4, <2>1, <2>2
<1> QED
  BY <1>3, <1>4, <1>5 DEF c

(* A change is skipped that the consumer has, or that is not below the max *)
(* CSN of the session.                                                     *)
LEMMA ReplaySkip ==
  ASSUME TypeOK, ReplayInv, NEW a \in 1..Agmts, NextChange(a),
         Skipped(sess[a], Least(sess[a].bulk))
  PROVE  ReplayInv'
<1> DEFINE s == sess[a]
           c == Least(s.bulk)
           r == RidOf[c]
           s1 == [s EXCEPT !.bulk = @ \ {c}, !.cur = c]
           G == IF s.lmax[r] # 0 /\ c > s.lmax[r] /\ c > s.cmax[r]
                  THEN s.gt \cup {r} ELSE s.gt
           t == [s1 EXCEPT !.gt = G]
<1>1. /\ s.pc = "run" /\ s.bulk # {} /\ s \in Sessions
      /\ UNCHANGED <<log, txn, pending, gone, lost, seen, ruv, mincsn, dbruv, smod,
                     trim, known, saved>>
  BY DEF NextChange, changes, vectors, TypeOK
<1>2. /\ sess' = [sess EXCEPT ![a] = t]
      /\ UNCHANGED <<consumer, applied, missed>>
  BY <1>1 DEF NextChange, Sessions
<1>3. SessionSound(a) /\ NothingPassed(a)
  BY DEF ReplayInv, SessionsSound, NonePassed
<1>4. /\ c \in s.bulk /\ c \in seen /\ s.cur < c
      /\ \A b \in s.bulk : c <= b
      /\ \A d \in seen : d > consumer[a][RidOf[d]] /\ d < s.lmax[RidOf[d]] => c <= d
  BY <1>1, NextIsFirst
<1>5. Skipped(s, c)
  OBVIOUS
<1> HIDE DEF s, c
<1>6. /\ t.pc = "run" /\ t.cur = c /\ t.bulk = s.bulk \ {c} /\ t.lmax = s.lmax
      /\ t.cmax = s.cmax /\ t.rc = s.rc /\ t.gt = G /\ t.start = s.start
  BY <1>1 DEF Sessions
<1>7. sess'[a] = t
  BY <1>2 DEF TypeOK
<1> HIDE DEF t
<1>8. /\ s.lmax \in Full(Written) /\ s.cmax = consumer[a] /\ s.rc = "none"
      /\ s.bulk \subseteq seen /\ s.start # 0
  BY <1>1, <1>3 DEF SessionSound, s
<1>9. /\ c \in Nat /\ r \in Rids /\ s.cur \in Nat
      /\ \A d \in seen : d \in Nat
      /\ \A q \in Rids : s.lmax[q] \in Nat /\ s.lmax[q] > 0 /\ consumer[a][q] \in Nat
  BY <1>1, <1>4, <1>8, SeenType, CSNNumber, FullFacts, VectorNumbers
     DEF ReplayInv, Sessions
<1>10. \A q \in s.gt : q \in Rids /\ s.lmax[q] < s.cur
  BY <1>1, <1>3 DEF SessionSound, Sessions, s
<1>11. VectorsFull' /\ NotAhead' /\ Written' = Written
  BY <1>1, <1>2, VectorsFrame
<1>12. SessionSound(a)'
  <2>1. \A b \in t.bulk : b \in seen /\ c < b
    <3> SUFFICES ASSUME NEW b \in s.bulk \ {c} PROVE b \in seen /\ c < b
      BY <1>6
    <3>1. b \in seen /\ c <= b /\ b \in Nat /\ c \in Nat
      BY <1>4, <1>8, <1>9
    <3> QED
      BY <3>1
  <2>2. \A q \in G : s.lmax[q] < c
    BY <1>4, <1>9, <1>10
  <2> QED
    BY <1>1, <1>2, <1>6, <1>7, <1>8, <1>11, <2>1, <2>2 DEF SessionSound
<1>13. NothingPassed(a)'
  <2> SUFFICES ASSUME NEW d \in seen, d > consumer[a][RidOf[d]],
                      d < s.lmax[RidOf[d]]
               PROVE  /\ c < d
                      /\ \A b \in t.bulk : d < b => d \in t.bulk
    BY <1>1, <1>2, <1>6, <1>7 DEF NothingPassed
  <2>1. c <= d
    BY <1>4
  <2>2. d # c
    <3> SUFFICES ASSUME d = c PROVE FALSE
      OBVIOUS
    <3>1. ~(s.lmax[r] = 0) /\ ~(c <= s.cmax[r]) /\ ~(c > s.lmax[r])
      BY <1>8, <1>9
    <3>2. r \in s.gt
      BY <1>5, <3>1 DEF Skipped
    <3> QED
      BY <1>4, <1>9, <1>10, <3>1, <3>2
  <2>3. \A b \in s.bulk : d < b => d \in s.bulk
    BY <1>1, <1>3 DEF NothingPassed, s
  <2> QED
    BY <1>6, <1>9, <2>1, <2>2, <2>3
<1> QED
  BY <1>1, <1>2, <1>11, <1>12, <1>13, ReplayOneSession

(* A change is sent: between what the consumer had and the change there is *)
(* nothing it lacks, but for a max CSN that could not be read.             *)
LEMMA ReplaySend ==
  ASSUME TypeOK, ReplayInv, NEW a \in 1..Agmts, NextChange(a),
         ~Skipped(sess[a], Least(sess[a].bulk))
  PROVE  ReplayInv'
<1> DEFINE s == sess[a]
           c == Least(s.bulk)
           r == RidOf[c]
           s1 == [s EXCEPT !.bulk = @ \ {c}, !.cur = c]
           m == IF c > s.lmax[r] THEN c ELSE s.lmax[r]
           k == IF c > s.lmax[r] /\ s.cmax[r] = 0 THEN 0 ELSE c
           t == [s1 EXCEPT !.lmax[r] = m, !.cmax[r] = k]
<1>1. /\ s.pc = "run" /\ s.bulk # {} /\ s \in Sessions
      /\ UNCHANGED <<log, txn, pending, gone, lost, seen, ruv, mincsn, dbruv, smod,
                     trim, known, saved>>
  BY DEF NextChange, changes, vectors, TypeOK
<1>2. /\ sess' = [sess EXCEPT ![a] = t]
      /\ consumer' = [consumer EXCEPT ![a] = SetCSNs(@, c)]
      /\ applied' = [applied EXCEPT ![a] =
                 IF Covers(consumer[a], c) THEN @ ELSE @ \cup {c}]
      /\ missed' = [missed EXCEPT ![a] =
                 IF c > s.lmax[r] /\ s.lmax[r] \notin applied[a]
                   THEN @ \cup {s.lmax[r]} ELSE @]
  BY <1>1 DEF NextChange, Sessions
<1>3. SessionSound(a) /\ NothingPassed(a)
  BY DEF ReplayInv, SessionsSound, NonePassed
<1>4. /\ c \in s.bulk /\ c \in seen /\ s.cur < c
      /\ \A b \in s.bulk : c <= b
      /\ \A d \in seen : d > consumer[a][RidOf[d]] /\ d < s.lmax[RidOf[d]] => c <= d
  BY <1>1, NextIsFirst
<1>5. ~Skipped(s, c)
  OBVIOUS
<1> HIDE DEF s, c
<1>6. /\ s.lmax \in Full(Written) /\ s.cmax = consumer[a] /\ s.rc = "none"
      /\ s.bulk \subseteq seen /\ s.start # 0
  BY <1>1, <1>3 DEF SessionSound, s
<1>7. /\ consumer[a] \in Full(seen) /\ seen \in SUBSET CSNs /\ Written \in SUBSET CSNs
      /\ seen \in SUBSET Written /\ Written' = Written
  BY <1>1, SeenType DEF ReplayInv, VectorsFull, Written, InTxn
<1>8. /\ c \in Nat /\ r \in Rids /\ s.cur \in Nat
      /\ \A d \in seen : d \in Nat /\ RidOf[d] \in Rids
      /\ \A q \in Rids : /\ s.lmax[q] \in Nat /\ s.lmax[q] > 0
                         /\ consumer[a][q] \in Nat /\ consumer[a][q] > 0
                         /\ Largest(consumer[a], q) = consumer[a][q]
  BY <1>1, <1>4, <1>6, <1>7, CSNNumber, FullFacts DEF Sessions
<1>9. /\ c > consumer[a][r] /\ r \notin s.gt
      /\ c > s.lmax[r] => Neighbour(s.lmax[r], c)
  BY <1>5, <1>6, <1>8 DEF Skipped
<1>10. k = c /\ m \in Written /\ m \in Nat /\ c <= m /\ RidOf[m] = r
  <2>1. s.lmax[r] \in Written /\ RidOf[s.lmax[r]] = r
    BY <1>6, <1>7, <1>8, FullFacts
  <2> QED
    BY <1>4, <1>6, <1>7, <1>8, <2>1
<1>11. /\ SetCSNs(consumer[a], c) = [consumer[a] EXCEPT ![r] = c]
       /\ SetCSNs(consumer[a], c) \in Full(seen)
  BY <1>4, <1>7, <1>9, SetFull
<1>12. /\ consumer'[a] = [consumer[a] EXCEPT ![r] = c]
       /\ consumer'[a] \in Full(seen)
       /\ \A b \in 1..Agmts : b # a => consumer'[b] = consumer[b]
  BY <1>2, <1>11 DEF TypeOK
<1>13. /\ consumer'[a][r] = c
       /\ \A q \in Rids : q # r => consumer'[a][q] = consumer[a][q]
       /\ \A q \in Rids : consumer[a][q] <= consumer'[a][q] /\ consumer'[a][q] \in Nat
  BY <1>7, <1>8, <1>9, <1>12 DEF Full
<1>14. /\ applied'[a] = applied[a] \cup {c}
       /\ \A b \in 1..Agmts : b # a => applied'[b] = applied[b]
  <2>1. ~Covers(consumer[a], c)
    BY <1>8, <1>9 DEF Covers
  <2> QED
    BY <1>2, <2>1 DEF TypeOK
<1>14a. /\ missed[a] \subseteq missed'[a]
        /\ \A b \in 1..Agmts : b # a => missed'[b] = missed[b]
        /\ c > s.lmax[r] => s.lmax[r] \in applied[a] \cup missed'[a]
  BY <1>2 DEF TypeOK
<1> HIDE DEF m, k
<1>15. /\ t.pc = "run" /\ t.cur = c /\ t.bulk = s.bulk \ {c} /\ t.rc = "none"
       /\ t.gt = s.gt /\ t.start # 0
       /\ t.lmax = [s.lmax EXCEPT ![r] = m] /\ t.cmax = consumer'[a]
  <2>1. t.cmax = [s.cmax EXCEPT ![r] = k]
    BY <1>1 DEF Sessions
  <2>2. /\ t.pc = "run" /\ t.cur = c /\ t.bulk = s.bulk \ {c} /\ t.rc = s.rc
        /\ t.gt = s.gt /\ t.lmax = [s.lmax EXCEPT ![r] = m] /\ t.start = s.start
    BY <1>1 DEF Sessions
  <2> QED
    BY <1>6, <1>10, <1>12, <2>1, <2>2
<1>16. sess'[a] = t /\ \A b \in 1..Agmts : b # a => sess'[b] = sess[b]
  BY <1>2 DEF TypeOK
<1> HIDE DEF t
<1>17. t.lmax[r] = m /\ \A q \in Rids : q # r => t.lmax[q] = s.lmax[q]
  BY <1>6, <1>8, <1>15 DEF Full
<1>18. t.lmax \in Full(Written)
  BY <1>6, <1>8, <1>10, <1>15 DEF Full
<1>19. VectorsFull'
  <2>1. \A b \in 1..Agmts : consumer'[b] \in Full(seen)
    BY <1>12 DEF ReplayInv, VectorsFull
  <2> QED
    BY <1>1, <1>7, <2>1 DEF ReplayInv, VectorsFull
<1>20. \A b \in 1..Agmts : \A q \in Rids :
         /\ consumer[b][q] <= consumer'[b][q]
         /\ consumer[b][q] \in Nat /\ consumer'[b][q] \in Nat
  <2>1. \A b \in 1..Agmts : \A q \in Rids : consumer[b][q] \in Nat
    BY VectorNumbers DEF ReplayInv
  <2> SUFFICES ASSUME NEW b \in 1..Agmts, NEW q \in Rids
               PROVE  /\ consumer[b][q] <= consumer'[b][q]
                      /\ consumer'[b][q] \in Nat
    BY <2>1
  <2>2. CASE b = a
    BY <1>13, <2>2
  <2>3. CASE b # a
    BY <1>12, <2>1, <2>3
  <2> QED
    BY <2>2, <2>3
<1>21. NotAhead'
  <2> SUFFICES ASSUME NEW b \in 1..Agmts, NEW q \in Rids
               PROVE  /\ known[b][q] <= consumer'[b][q]
                      /\ saved[b][q] <= consumer'[b][q]
                      /\ trim.pc # "idle" => trim.ruv[q] <= consumer'[b][q]
    BY <1>1 DEF NotAhead
  <2>1. /\ known[b][q] \in Nat /\ saved[b][q] \in Nat
        /\ trim.pc # "idle" => trim.ruv[q] \in Nat
    BY VectorNumbers DEF ReplayInv
  <2>2. /\ known[b][q] <= consumer[b][q] /\ saved[b][q] <= consumer[b][q]
        /\ trim.pc # "idle" => trim.ruv[q] <= consumer[b][q]
    BY DEF ReplayInv, NotAhead
  <2> QED
    BY <1>20, <2>1, <2>2
<1>22. DrawnInOrder'
  BY <1>1, WrittenSame DEF ReplayInv
<1>23. LogKept'
  <2> SUFFICES ASSUME NEW e \in seen
               PROVE  /\ \E d \in log : RidOf[d] = RidOf[e] /\ e <= d
                      /\ e \notin log => \A b \in 1..Agmts : e < consumer'[b][RidOf[e]]
    BY <1>1 DEF LogKept
  <2>1. /\ \E d \in log : RidOf[d] = RidOf[e] /\ e <= d
        /\ e \notin log => \A b \in 1..Agmts : e < consumer[b][RidOf[e]]
    BY DEF ReplayInv, LogKept
  <2> QED
    BY <1>8, <1>20, <2>1
<1>24. SessionsSound'
  <2> SUFFICES ASSUME NEW b \in 1..Agmts PROVE SessionSound(b)'
    BY DEF SessionsSound
  <2>1. CASE b # a
    <3>1. SessionSound(b)
      BY DEF ReplayInv, SessionsSound
    <3> QED
      BY <1>1, <1>7, <1>12, <1>16, <2>1, <3>1 DEF SessionSound, ToSend
  <2>2. CASE b = a
    <3>1. \A x \in t.bulk : x \in seen /\ c < x
      <4> SUFFICES ASSUME NEW x \in s.bulk \ {c} PROVE x \in seen /\ c < x
        BY <1>15
      <4>1. x \in seen /\ c <= x /\ x \in Nat /\ c \in Nat
        BY <1>4, <1>6, <1>8
      <4> QED
        BY <4>1
    <3>2. \A q \in s.gt : q \in Rids /\ s.lmax[q] < s.cur /\ q # r
      BY <1>1, <1>3, <1>9 DEF SessionSound, Sessions, s
    <3>3. \A q \in t.gt : t.lmax[q] < c
      BY <1>4, <1>8, <1>15, <1>17, <3>2
    <3> QED
      BY <1>1, <1>7, <1>15, <1>16, <1>18, <2>2, <3>1, <3>3 DEF SessionSound
  <2> QED
    BY <2>1, <2>2
<1>25. NonePassed'
  <2> SUFFICES ASSUME NEW b \in 1..Agmts PROVE NothingPassed(b)'
    BY DEF NonePassed
  <2>1. CASE b # a
    <3>1. NothingPassed(b)
      BY DEF ReplayInv, NonePassed
    <3> QED
      BY <1>1, <1>12, <1>16, <2>1, <3>1 DEF NothingPassed
  <2>2. CASE b = a
    <3> SUFFICES ASSUME NEW d \in seen, d > consumer'[a][RidOf[d]],
                        d < t.lmax[RidOf[d]]
                 PROVE  /\ c < d
                        /\ \A x \in t.bulk : d < x => d \in t.bulk
      BY <1>1, <1>15, <1>16, <2>2 DEF NothingPassed
    <3>1. d > consumer[a][RidOf[d]] /\ d < s.lmax[RidOf[d]] /\ d # c
      <4>1. CASE RidOf[d] # r
        BY <1>8, <1>13, <1>17, <4>1
      <4>2. CASE RidOf[d] = r
        <5>1. d > c /\ d < m
          BY <1>13, <1>17, <4>2
        <5>2. m = s.lmax[r]
          BY <1>8, <5>1 DEF m
        <5> QED
          BY <1>8, <1>9, <4>2, <5>1, <5>2
      <4> QED
        BY <4>1, <4>2
    <3>2. c <= d
      BY <1>4, <3>1
    <3>3. \A x \in s.bulk : d < x => d \in s.bulk
      BY <1>1, <1>3, <3>1 DEF NothingPassed, s
    <3> QED
      BY <1>8, <1>15, <3>1, <3>2, <3>3
  <2> QED
    BY <2>1, <2>2
<1>26. NoGap'
  <2> SUFFICES ASSUME NEW b \in 1..Agmts, NEW d \in seen, Covers(consumer'[b], d)
               PROVE  d \in applied'[b] \cup missed'[b]
    BY <1>1 DEF NoGap, Covers
  <2>1. CASE b # a
    BY <1>12, <1>14, <1>14a, <2>1 DEF ReplayInv, NoGap, Covers
  <2>2. CASE b = a
    <3>0. Covers(consumer[a], d) => d \in applied[a] \cup missed[a]
      BY DEF ReplayInv, NoGap, Covers
    <3>1. d <= consumer'[a][RidOf[d]]
      <4>1. Largest(consumer'[a], RidOf[d]) = consumer'[a][RidOf[d]]
        BY <1>7, <1>8, <1>12, FullFacts
      <4> QED
        BY <2>2, <4>1 DEF Covers
    <3>2. d <= consumer[a][RidOf[d]] => Covers(consumer[a], d)
      BY <1>8 DEF Covers
    <3>3. CASE d <= consumer[a][RidOf[d]]
      BY <1>14, <1>14a, <2>2, <3>0, <3>2, <3>3
    <3>4. CASE d > consumer[a][RidOf[d]]
      <4>1. RidOf[d] = r /\ d <= c
        BY <1>8, <1>13, <3>1, <3>4
      <4>2. CASE d = c
        BY <1>14, <2>2, <4>2
      <4>3. CASE d < c
        <5>1. ~(d < s.lmax[r])
          <6>1. d < s.lmax[RidOf[d]] => c <= d
            BY <1>4, <3>4
          <6>2. d \in Nat /\ c \in Nat
            BY <1>8
          <6> QED
            BY <4>1, <4>3, <6>1, <6>2
        <5>2. c > s.lmax[r] /\ Neighbour(s.lmax[r], c)
          BY <1>8, <1>9, <4>3, <5>1
        <5>3. d <= s.lmax[r]
          <6> DEFINE E == {e \in Of(r, CSNs) : e < c}
          <6>1. d \in E /\ E \in SUBSET CSNs
            BY <1>7, <4>1, <4>3 DEF Of
          <6>2. d <= Greatest(E)
            BY <6>1, GreatestCSN
          <6> QED
            BY <5>2, <6>2 DEF Neighbour
        <5>4. d = s.lmax[r]
          BY <1>8, <5>1, <5>3
        <5> QED
          BY <1>14, <1>14a, <2>2, <5>2, <5>4
      <4> QED
        BY <1>8, <4>1, <4>2, <4>3
    <3> QED
      BY <1>8, <3>3, <3>4
  <2> QED
    BY <2>1, <2>2
<1> QED
  BY <1>19, <1>21, <1>22, <1>23, <1>24, <1>25, <1>26 DEF ReplayInv

-----------------------------------------------------------------------------
(* The server stops and starts. *)

(* The sessions and the trimming thread are gone after a start. *)
LEMMA ReplayAllIdle ==
  ASSUME sess' = [a \in 1..Agmts |-> IdleSess], trim' = IdleTrim
  PROVE  SessionsSound' /\ NonePassed' /\ trim'.pc = "idle"
<1>1. \A a \in 1..Agmts : sess'[a].pc = "idle"
  BY DEF IdleSess
<1>2. trim'.pc = "idle"
  BY DEF IdleTrim
<1> QED
  BY <1>1, <1>2 DEF SessionsSound, NonePassed, SessionSound, NothingPassed

LEMMA ReplayRestart ==
  ASSUME TypeOK, ReplayInv, Restart
  PROVE  ReplayInv'
<1>1. /\ UNCHANGED <<log, txn, pending, gone, lost, seen, ruv, mincsn, smod, known,
                     consumer, applied, missed>>
      /\ saved' = known /\ dbruv' = ruv /\ txn = NoTxn
  BY DEF Restart, Locked, changes
<1>2. SessionsSound' /\ NonePassed' /\ trim'.pc = "idle"
  BY ReplayAllIdle DEF Restart
<1>3. Written' = Written /\ Written = seen \cup lost /\ DrawnInOrder'
  BY <1>1, WrittenSame, NoTxnMeans DEF ReplayInv
<1>4. VectorsFull' /\ NotAhead'
  BY <1>1, <1>2, <1>3 DEF ReplayInv, VectorsFull, NotAhead
<1>5. LogKept' /\ NoGap'
  BY <1>1 DEF ReplayInv, LogKept, NoGap, Covers
<1> QED
  BY <1>2, <1>3, <1>4, <1>5 DEF ReplayInv

(* The RUV that is rebuilt is not below that of the database, and covers   *)
(* the changelog unless the database's RUV has a change of a failed        *)
(* commit.                                                                 *)
LEMMA ReloadedCovers ==
  ASSUME TypeOK, ReplayInv, Settled
  PROVE  /\ Reloaded \in Full(seen \cup lost)
         /\ \A r \in Rids : dbruv[r] <= Reloaded[r]
         /\ (\A r \in Rids : dbruv[r] \in seen)
              => \A c \in log : c <= Reloaded[RidOf[c]]
<1> DEFINE up == [r \in Rids |-> Greatest(Of(r, log))]
           T == seen \cup lost
<1>0. 1 \in 1..Agmts
  BY ChangelogAssumption DEF Settled
<1>1. /\ dbruv \in Full(T) /\ T \in SUBSET CSNs /\ seen \in SUBSET CSNs
      /\ log \in SUBSET CSNs /\ log \in SUBSET seen
  BY SeenType DEF ReplayInv, VectorsFull
<1>2. /\ DOMAIN dbruv = Rids
      /\ \A r \in Rids : /\ dbruv[r] \in T /\ RidOf[dbruv[r]] = r
                         /\ dbruv[r] \in Nat /\ dbruv[r] \in 0..MaxCSN
                         /\ Largest(dbruv, r) = dbruv[r]
  <2>1. /\ DOMAIN dbruv = Rids
        /\ \A r \in Rids : /\ dbruv[r] \in T /\ RidOf[dbruv[r]] = r
                           /\ dbruv[r] \in Nat /\ dbruv[r] <= MaxCSN
                           /\ Largest(dbruv, r) = dbruv[r]
    BY <1>1, FullFacts
  <2> HIDE DEF T
  <2> QED
    BY <2>1, ChangelogAssumption
<1>3. \A r \in Rids : \E d \in Of(r, log) : TRUE
  <2> SUFFICES ASSUME NEW r \in Rids PROVE \E d \in Of(r, log) : TRUE
    OBVIOUS
  <2>1. consumer[1][r] \in seen /\ RidOf[consumer[1][r]] = r
    BY <1>0, <1>1, FullFacts DEF ReplayInv, VectorsFull
  <2> QED
    BY <2>1 DEF ReplayInv, LogKept, Of
<1>4. LoggedRids = Rids
  <2>1. LoggedRids \subseteq Rids
    BY <1>1, CSNNumber DEF LoggedRids
  <2>2. \A r \in Rids : \E d \in log : RidOf[d] = r
    BY <1>3 DEF Of
  <2> QED
    BY <2>1, <2>2 DEF LoggedRids
<1>5. UpperBound = up
  BY <1>4 DEF UpperBound
<1>6. ASSUME NEW r \in Rids
      PROVE  /\ up[r] \in Of(r, log) /\ up[r] \in 0..MaxCSN /\ up[r] \in Nat
             /\ \A d \in Of(r, log) : d <= up[r]
             /\ Largest(up, r) = up[r]
  <2>1. Of(r, log) \in SUBSET CSNs /\ Of(r, log) # {}
    BY <1>1, <1>3, <1>6, OfType
  <2>2. /\ up[r] \in Of(r, log) /\ up[r] \in 0..MaxCSN
        /\ \A d \in Of(r, log) : d <= up[r]
    BY <2>1, GreatestCSN
  <2>3. Largest(up, r) = up[r]
    BY DEF Largest
  <2> HIDE DEF up
  <2> QED
    BY <2>2, <2>3
<1>7. up \in Full(T)
  <2>1. \A r \in Rids : up[r] \in T /\ RidOf[up[r]] = r
    BY <1>1, <1>6 DEF Of
  <2>2. up \in [Rids -> T]
    BY <2>1
  <2> HIDE DEF up, T
  <2> QED
    BY <2>1, <2>2 DEF Full
<1>8. ASSUME NEW c \in log
      PROVE  c <= up[RidOf[c]] /\ RidOf[c] \in Rids /\ c \in Nat
  <2>1. RidOf[c] \in Rids /\ c \in Of(RidOf[c], log) /\ c \in Nat
    BY <1>1, CSNNumber DEF Of
  <2> QED
    BY <1>6, <2>1
<1>9. ASSUME \A r \in Rids : dbruv[r] \in seen
      PROVE  CoversRUV(UpperBound, dbruv)
  <2> SUFFICES ASSUME NEW r \in Rids PROVE dbruv[r] <= Largest(up, r)
    BY <1>2, <1>5 DEF CoversRUV
  <2>1. PICK d \in log : RidOf[d] = RidOf[dbruv[r]] /\ dbruv[r] <= d
    BY <1>9 DEF ReplayInv, LogKept
  <2>2. d <= up[r] /\ d \in Nat
    BY <1>2, <1>8, <2>1
  <2>3. Largest(up, r) = up[r] /\ up[r] \in Nat /\ dbruv[r] \in Nat
    BY <1>2, <1>6
  <2> HIDE DEF up
  <2> QED
    BY <2>1, <2>2, <2>3
<1>10. CASE ~(CoversRUV(UpperBound, dbruv) /\ ~CoversRUV(dbruv, UpperBound))
  <2>1. Reloaded = dbruv
    BY <1>10 DEF Reloaded
  <2>2. ASSUME \A r \in Rids : dbruv[r] \in seen, NEW c \in log
        PROVE  c <= dbruv[RidOf[c]]
    <3>1. CoversRUV(dbruv, up)
      BY <1>5, <1>9, <1>10, <2>2
    <3>2. up[RidOf[c]] <= dbruv[RidOf[c]] /\ up[RidOf[c]] \in Nat
      BY <1>2, <1>6, <1>8, <3>1 DEF CoversRUV
    <3>3. c <= up[RidOf[c]] /\ c \in Nat /\ dbruv[RidOf[c]] \in Nat
      BY <1>2, <1>8
    <3> HIDE DEF up
    <3> QED
      BY <3>2, <3>3
  <2> QED
    BY <1>1, <1>2, <2>1, <2>2
<1>11. CASE CoversRUV(UpperBound, dbruv) /\ ~CoversRUV(dbruv, UpperBound)
  <2> HIDE DEF up, T
  <2>1. DOMAIN dbruv \cup LoggedRids = Rids
    BY <1>2, <1>4
  <2>2. Reloaded = [r \in Rids |-> Max({Largest(dbruv, r), Largest(up, r)})]
    BY <1>5, <1>11, <2>1 DEF Reloaded
  <2>3. \A r \in Rids : /\ Reloaded[r] \in {dbruv[r], up[r]}
                        /\ dbruv[r] <= Reloaded[r] /\ up[r] <= Reloaded[r]
    <3> SUFFICES ASSUME NEW r \in Rids
                 PROVE  /\ Reloaded[r] \in {dbruv[r], up[r]}
                        /\ dbruv[r] <= Reloaded[r] /\ up[r] <= Reloaded[r]
      OBVIOUS
    <3>1. {dbruv[r], up[r]} \in SUBSET (0..MaxCSN)
      BY <1>2, <1>6
    <3>2. Reloaded[r] = Max({dbruv[r], up[r]})
      BY <1>2, <1>6, <2>2
    <3> QED
      BY <3>1, <3>2, MaxNumber
  <2>4. \A r \in Rids : up[r] \in T /\ RidOf[up[r]] = r
    BY <1>7 DEF Full
  <2>5. Reloaded \in Full(T)
    <3>1. \A r \in Rids : Reloaded[r] \in T /\ RidOf[Reloaded[r]] = r
      BY <1>2, <2>3, <2>4
    <3>2. Reloaded \in [Rids -> T]
      BY <2>2, <3>1
    <3> QED
      BY <3>1, <3>2 DEF Full
  <2>6. ASSUME NEW c \in log PROVE c <= Reloaded[RidOf[c]]
    <3>1. /\ c <= up[RidOf[c]] /\ up[RidOf[c]] <= Reloaded[RidOf[c]]
          /\ c \in Nat /\ up[RidOf[c]] \in Nat
      BY <1>6, <1>8, <2>3
    <3>2. Reloaded[RidOf[c]] \in Nat
      BY <1>1, <1>8, <2>5, FullFacts DEF T
    <3> QED
      BY <3>1, <3>2
  <2> QED
    BY <2>3, <2>5, <2>6 DEF T
<1> QED
  BY <1>10, <1>11

(* The crash: a CSN that is given back, to be sent again, is the last one  *)
(* of its replica.                                                         *)
LEMMA ReplayCrash ==
  ASSUME TypeOK, ReplayInv, Settled, Crash
  PROVE  ReplayInv'
<1> DEFINE U == pending \cup InTxn \cup {c \in lost : ~Covers(Reloaded, c)}
<1>1. /\ UNCHANGED <<log, seen, dbruv, saved, consumer, applied, missed>>
      /\ txn' = NoTxn /\ pending' = {} /\ smod' = NoRUV
      /\ gone' = gone \cup {c \in U : RidOf[c] = LocalRid}
      /\ lost' = lost \ U
      /\ ruv' = Reloaded /\ known' = saved
      /\ mincsn' = [r \in Rids |-> IF mincsn[r] = 0 THEN Largest(Reloaded, r)
                                                    ELSE mincsn[r]]
  BY DEF Crash, Of
<1>2. SessionsSound' /\ NonePassed' /\ trim'.pc = "idle"
  BY ReplayAllIdle DEF Crash
<1>3. /\ Reloaded \in Full(seen \cup lost)
      /\ \A r \in Rids : dbruv[r] <= Reloaded[r]
      /\ (\A r \in Rids : dbruv[r] \in seen)
           => \A c \in log : c <= Reloaded[RidOf[c]]
  BY ReloadedCovers
<1>4. InTxn' = {} /\ Written' = seen \cup lost'
  BY <1>1, IdleTypes DEF InTxn, Written
<1>5. seen \cup lost \in SUBSET CSNs /\ dbruv \in Full(seen \cup lost)
  BY SeenType DEF ReplayInv, VectorsFull
<1>6. \A r \in Rids : /\ Reloaded[r] \in seen \cup lost /\ RidOf[Reloaded[r]] = r
                      /\ Reloaded[r] \in Nat /\ Largest(Reloaded, r) = Reloaded[r]
                      /\ dbruv[r] \in seen \cup lost /\ RidOf[dbruv[r]] = r
                      /\ dbruv[r] \in Nat
  BY <1>3, <1>5, FullFacts
<1>7. lost' = {c \in lost : Covers(Reloaded, c)}
  <2>1. lost \cap (pending \cup InTxn) = {}
    BY SeenType DEF TypeOK
  <2> QED
    BY <1>1, <2>1
<1>8. ASSUME NEW v \in Full(seen \cup lost), \A r \in Rids : v[r] <= Reloaded[r]
      PROVE  v \in Full(seen \cup lost')
  <2>1. v \in [Rids -> seen \cup lost] /\ \A r \in Rids : RidOf[v[r]] = r
    BY DEF Full
  <2>2. \A r \in Rids : v[r] \in lost => Covers(Reloaded, v[r])
    BY <1>6, <1>8, <2>1 DEF Covers
  <2>3. v \in [Rids -> seen \cup lost']
    BY <1>7, <2>1, <2>2
  <2> QED
    BY <2>1, <2>3 DEF Full
<1>9. Reloaded \in Full(seen \cup lost') /\ dbruv \in Full(seen \cup lost')
  <2>1. \A r \in Rids : Reloaded[r] <= Reloaded[r]
    BY <1>6
  <2>2. Reloaded \in Full(seen \cup lost')
    BY <1>3, <1>8, <2>1
  <2>3. dbruv \in Full(seen \cup lost')
    BY <1>3, <1>5, <1>8
  <2> QED
    BY <2>2, <2>3
<1>10. \A r \in Rids : mincsn'[r] # 0
  BY <1>1 DEF ReplayInv, VectorsFull
<1>11. VectorsFull' /\ NotAhead'
  BY <1>1, <1>2, <1>4, <1>9, <1>10 DEF ReplayInv, VectorsFull, NotAhead
<1>12. DrawnInOrder'
  <2>0. DrawnInOrder
    BY DEF ReplayInv
  <2>1. /\ Begun' = gone' \cup lost' \cup seen
        /\ pending' \cup InTxn' = {}
    BY <1>1, <1>4 DEF Begun
  <2>2. /\ \A c \in gone' : RidOf[c] = LocalRid
        /\ \A c, d \in lost' : c = d
    BY <1>1, <2>0 DEF DrawnInOrder
  <2>3. U \in SUBSET Begun /\ Begun' \subseteq Begun
    BY <1>1, <2>1 DEF Begun
  <2>4. \A c \in Begun \ Begun' : c \in U /\ RidOf[c] # LocalRid
    BY <1>1, <2>1 DEF Begun
  <2>5. ASSUME NEW c \in Begun \ Begun', NEW d \in Begun', RidOf[d] = RidOf[c]
        PROVE  d < c
    <3>1. c \in U /\ RidOf[c] # LocalRid /\ d # c
      BY <2>4
    <3>2. CASE c \in pending \cup InTxn
      BY <2>0, <2>3, <2>5, <3>1, <3>2 DEF DrawnInOrder
    <3>3. CASE c \in lost /\ ~Covers(Reloaded, c)
      <4> HIDE DEF U
      <4>1. d \in seen
        <5>1. d \notin gone'
          BY <2>2, <2>5, <3>1
        <5>2. d \notin lost'
          BY <1>1, <2>0, <3>1, <3>3 DEF DrawnInOrder
        <5> QED
          BY <2>1, <5>1, <5>2
      <4>2. c \in Nat /\ d \in Nat /\ RidOf[c] \in Rids
        BY <1>5, <3>3, <4>1, CSNNumber
      <4>3. Reloaded[RidOf[c]] < c
        BY <1>6, <3>3, <4>2 DEF Covers
      <4>4. ASSUME NEW r \in Rids PROVE dbruv[r] \in seen
        <5> SUFFICES ASSUME dbruv[r] \in lost PROVE FALSE
          BY <1>6
        <5>1. dbruv[r] = c /\ r = RidOf[c]
          BY <1>6, <2>0, <3>3 DEF DrawnInOrder
        <5>2. c <= Reloaded[RidOf[c]]
          BY <1>3, <5>1
        <5> QED
          BY <1>6, <4>2, <4>3, <5>2
      <4>5. PICK e \in log : RidOf[e] = RidOf[d] /\ d <= e
        BY <4>1 DEF ReplayInv, LogKept
      <4>6. e <= Reloaded[RidOf[e]] /\ e \in Nat
        BY <1>3, <4>4, SeenType, CSNNumber
      <4> QED
        BY <1>6, <2>5, <4>2, <4>3, <4>5, <4>6
    <3> QED
      BY <3>1, <3>2, <3>3
  <2> QED
    BY <2>0, <2>1, <2>2, <2>3, <2>5, DrawnBack
<1>13. LogKept' /\ NoGap'
  BY <1>1 DEF ReplayInv, LogKept, NoGap, Covers
<1> QED
  BY <1>2, <1>11, <1>12, <1>13 DEF ReplayInv

LEMMA ReplayNext == Settled /\ TypeOK /\ ReplayInv /\ [Next]_vars => ReplayInv'
<1> SUFFICES ASSUME Settled, TypeOK, ReplayInv, [Next]_vars PROVE ReplayInv'
  OBVIOUS
<1>1. ASSUME NEW r \in Rids, Begin(r) PROVE ReplayInv'
  BY <1>1, ReplayBegin
<1>2. ASSUME NEW c \in CSNs, Write(c) \/ Commit(c) \/ CommitFails(c) \/ Abort(c)
      PROVE  ReplayInv'
  BY <1>2, ReplayWrite, ReplayCommit, ReplayCommitFails, ReplayAbort
<1>3. CASE ReadState \/ WriteState
  BY <1>3, ReplayState
<1>4. CASE TrimStart \/ TrimEntry \/ TrimPurgeRuv
  BY <1>4, ReplayTrimStart, ReplayTrimEntry, ReplayTrimPurgeRuv
<1>5. ASSUME NEW a \in 1..Agmts, Acquire(a) \/ Refresh(a) \/ Read(a)
      PROVE  ReplayInv'
  BY <1>5, ReplayAcquire, ReplayRefresh, ReplayRead
<1>6. ASSUME NEW a \in 1..Agmts, NextChange(a) \/ EndSession(a)
      PROVE  ReplayInv'
  BY <1>6, ReplaySkip, ReplaySend, ReplayEndSession
<1>7. CASE Restart \/ Crash
  BY <1>7, ReplayRestart, ReplayCrash
<1>8. CASE UNCHANGED vars
  <2>1. UNCHANGED <<log, txn, pending, gone, lost, seen, ruv, mincsn, dbruv, smod,
                    trim, known, saved, sess, consumer, applied, missed>>
    BY <1>8 DEF vars, changes, vectors, replay
  <2>2. VectorsFull' /\ NotAhead' /\ Written' = Written /\ DrawnInOrder'
    BY <2>1, VectorsFrame, WrittenSame DEF ReplayInv
  <2>3. LogKept' /\ SessionsSound' /\ NonePassed' /\ NoGap'
    BY <2>1, <2>2, ReplayFrame
  <2> QED
    BY <2>2, <2>3 DEF ReplayInv
<1> QED
  BY <1>1, <1>2, <1>3, <1>4, <1>5, <1>6, <1>7, <1>8 DEF Next

-----------------------------------------------------------------------------
(* The theorems. *)

(* ReplayInv is kept by every operation that is written, committed, lost   *)
(* or aborted, by every step of the trimming thread and of a session, and  *)
(* by restarts and crashes, although the RUV covers a change before it can *)
(* be read.                                                                *)
THEOREM ReplayInvariant == Settled => (Spec => []ReplayInv)
<1> SUFFICES ASSUME Settled PROVE Spec => []ReplayInv
  OBVIOUS
<1>1. Init => TypeOK /\ ReplayInv
  BY TypeInit, ReplayInit
<1>2. TypeOK /\ ReplayInv /\ [Next]_vars => (TypeOK /\ ReplayInv)'
  BY TypeNext, ReplayNext
<1> QED
  BY <1>1, <1>2, PTL DEF Spec

(* A consumer has every change its RUV covers, but for a max CSN that      *)
(* clcache_skip_change promoted over while it could not be read, for every *)
(* number of replicas, agreements and changes, every size of the buffer    *)
(* and every order of the operations, the replay, the trimming and the     *)
(* crashes.                                                                *)
THEOREM ChangelogNoGap == Settled => (Spec => []NoGap)
<1> SUFFICES ASSUME Settled PROVE Spec => []NoGap
  OBVIOUS
<1>1. ReplayInv => NoGap
  BY DEF ReplayInv
<1> QED
  BY <1>1, ReplayInvariant, PTL

(* _cl5TrimEntry removes a change only when every consumer has it, or has  *)
(* missed it as NoGap says.                                                *)
THEOREM ChangelogTrimmedReplayed == Settled => (Spec => []TrimmedReplayed)
<1> SUFFICES ASSUME Settled PROVE Spec => []TrimmedReplayed
  OBVIOUS
<1>1. TypeOK /\ ReplayInv => TrimmedReplayed
  <2> SUFFICES ASSUME TypeOK, ReplayInv, NEW a \in 1..Agmts, NEW c \in seen \ log
               PROVE  c \in applied[a] \cup missed[a]
    BY DEF TrimmedReplayed
  <2>1. c < consumer[a][RidOf[c]]
    BY DEF ReplayInv, LogKept
  <2>2. c \in Nat /\ RidOf[c] \in Rids
    BY SeenType, CSNNumber
  <2>3. /\ Largest(consumer[a], RidOf[c]) = consumer[a][RidOf[c]]
        /\ consumer[a][RidOf[c]] \in Nat
    BY <2>2, SeenType, FullFacts DEF ReplayInv, VectorsFull
  <2>4. Covers(consumer[a], c)
    BY <2>1, <2>2, <2>3 DEF Covers
  <2> QED
    BY <2>4 DEF ReplayInv, NoGap
<1> QED
  BY <1>1, ReplayInvariant, ChangelogTypeCorrect, PTL

(* A session is told that changes are purged or missing                    *)
(* (_cl5CheckMissingCSN) only while the max CSN of every replica it has to *)
(* send is in a transaction that is open or has failed: trimming and       *)
(* crashes never take the CSN that it starts from.                         *)
THEOREM ChangelogStartFound == Settled => (Spec => StartFound)
<1> DEFINE Found(a) ==
      sess[a].pc = "read" /\ sess'[a].rc \in {"purged", "missing"} =>
        /\ sess[a].cur \in log
        /\ \A r \in ToSend(sess[a]) : sess[a].lmax[r] \in InTxn \cup lost
<1> SUFFICES ASSUME Settled PROVE Spec => StartFound
  OBVIOUS
<1>1. TypeOK /\ ReplayInv /\ [Next]_vars => [\A a \in 1..Agmts : Found(a)]_vars
  <2> SUFFICES ASSUME TypeOK, ReplayInv, Next, NEW a \in 1..Agmts,
                      sess[a].pc = "read", sess'[a].rc \in {"purged", "missing"}
               PROVE  /\ sess[a].cur \in log
                      /\ \A r \in ToSend(sess[a]) : sess[a].lmax[r] \in InTxn \cup lost
    OBVIOUS
  <2> DEFINE s == sess[a]
             x == [csn |-> s.cur, op |-> s.op]
  <2>1. SessionSound(a) /\ s.rc = "none" /\ s \in Sessions
    BY DEF ReplayInv, SessionsSound, SessionSound, TypeOK
  <2>2. sess'[a] # sess[a]
    BY <2>1
  <2>3. \A b \in 1..Agmts : \A t : sess' = [sess EXCEPT ![b] = t] =>
           (b = a /\ sess'[a] = t)
    BY <2>2 DEF TypeOK
  <2>4. Read(a)
    <3>1. ASSUME NEW r \in Rids, Begin(r) PROVE FALSE
      BY <2>2, <3>1 DEF Begin, replay
    <3>2. ASSUME NEW d \in CSNs, Write(d) \/ Commit(d) \/ CommitFails(d) \/ Abort(d)
          PROVE  FALSE
      BY <2>2, <3>2 DEF Write, Commit, CommitFails, Abort, replay
    <3>3. ~(ReadState \/ WriteState \/ TrimStart \/ TrimEntry \/ TrimPurgeRuv)
      BY <2>2 DEF ReadState, WriteState, TrimStart, TrimEntry, TrimPurgeRuv, replay
    <3>4. ASSUME NEW b \in 1..Agmts, Acquire(b) PROVE FALSE
      BY <2>3, <3>4 DEF Acquire
    <3>5. ASSUME NEW b \in 1..Agmts, Refresh(b) PROVE FALSE
      <4>1. b = a
        BY <2>3, <3>5 DEF Refresh
      <4>2. Refreshed(s).pc = "read"
        BY <2>1, RefreshedFull DEF ReplayInv
      <4> QED
        BY <3>5, <4>1, <4>2 DEF Refresh
    <3>6. ASSUME NEW b \in 1..Agmts, NextChange(b) PROVE FALSE
      BY <2>3, <3>6 DEF NextChange
    <3>7. ASSUME NEW b \in 1..Agmts, EndSession(b) PROVE FALSE
      <4>1. sess'[a] = IdleSess
        BY <2>3, <3>7 DEF EndSession
      <4> QED
        BY <4>1 DEF IdleSess
    <3>8. ~(Restart \/ Crash)
      <4> SUFFICES ASSUME sess' = [b \in 1..Agmts |-> IdleSess] PROVE FALSE
        BY DEF Restart, Crash
      <4>1. sess'[a] = IdleSess
        OBVIOUS
      <4> QED
        BY <4>1 DEF IdleSess
    <3>9. ASSUME NEW b \in 1..Agmts, Read(b) PROVE Read(a)
      BY <2>3, <3>9 DEF Read
    <3> QED
      BY <3>1, <3>2, <3>3, <3>4, <3>5, <3>6, <3>7, <3>8, <3>9 DEF Next
  <2>5. Bulk(x) = {} /\ s.start = 0
    <3> DEFINE t == [s EXCEPT !.pc = "run", !.gt = {}, !.bulk = Bulk(x),
                              !.start = IF @ = 0 THEN s.cur ELSE @]
    <3>1. sess'[a] = IF Bulk(x) = {}
             THEN [IdleSess EXCEPT
                     !.rc = IF s.start = 0 THEN CheckMissing(s.cur) ELSE "notfound"]
             ELSE t
      BY <2>4 DEF Read, TypeOK
    <3>2. t.rc = "none"
      BY <2>1 DEF Sessions
    <3>3. Bulk(x) = {}
      <4> HIDE DEF t, x, s
      <4> QED
        BY <3>1, <3>2
    <3>4. s.start # 0 => sess'[a].rc = "notfound"
      <4> HIDE DEF t, x, s
      <4> QED
        BY <3>1, <3>3 DEF IdleSess
    <3> QED
      BY <3>3, <3>4
  <2>6. /\ s.cmax = consumer[a] /\ s.op = "next" /\ s.lmax \in Full(Written)
        /\ \E r \in Rids : s.cur = consumer[a][r]
        /\ \A r \in ToSend(s) : s.cur <= consumer[a][r]
    BY <2>1, <2>5 DEF SessionSound
  <2>7. \A r \in Rids : /\ consumer[a][r] \in seen /\ RidOf[consumer[a][r]] = r
                        /\ consumer[a][r] \in Nat
                        /\ s.lmax[r] \in Written /\ RidOf[s.lmax[r]] = r
                        /\ s.lmax[r] \in Nat
    BY <2>6, SeenType, FullFacts DEF ReplayInv, VectorsFull
  <2>8. s.cur \in log /\ s.cur \in Nat /\ s.cur \in 0..MaxCSN
    <3>1. PICK r \in Rids : s.cur = consumer[a][r]
      BY <2>6
    <3> HIDE DEF s
    <3> QED
      BY <2>7, <3>1, LackedIsLogged, SeenType, CSNNumber
  <2>9. ASSUME NEW r \in ToSend(s) PROVE s.lmax[r] \in InTxn \cup lost
    <3>1. r \in Rids /\ s.lmax[r] > consumer[a][r] /\ s.cur <= consumer[a][r]
      BY <2>6 DEF ToSend
    <3>2. s.lmax[r] \notin seen
      <4> SUFFICES ASSUME s.lmax[r] \in seen PROVE FALSE
        OBVIOUS
      <4>1. s.lmax[r] \in log /\ s.cur < s.lmax[r]
        <5> HIDE DEF s
        <5> QED
          BY <2>7, <2>8, <3>1, LackedIsLogged
      <4>2. x.op = "next" /\ x.csn = s.cur
        BY <2>6
      <4> HIDE DEF s, x
      <4>3. x.csn \in 0..MaxCSN /\ x.csn \in log /\ x.csn < s.lmax[r]
        BY <2>8, <4>1, <4>2
      <4> QED
        BY <2>5, <4>1, <4>2, <4>3, BulkNext
    <3> QED
      BY <2>7, <3>1, <3>2 DEF Written
  <2> QED
    BY <2>8, <2>9
<1> QED
  BY <1>1, ReplayInvariant, ChangelogTypeCorrect, PTL DEF Spec, StartFound

(* After a crash the RUV that replica_check_for_data_reload rebuilds       *)
(* covers every change of the changelog, whatever replica_write_ruv has    *)
(* written, unless a commit has failed before.                             *)
THEOREM ChangelogCrashCovered == Settled => (Spec => CrashCovered)
<1> SUFFICES ASSUME Settled PROVE Spec => CrashCovered
  OBVIOUS
<1>1. TypeOK /\ ReplayInv /\ [Next]_vars
        => [crashes' > crashes /\ lost = {} => \A c \in log : Covers(ruv', c)]_vars
  <2> SUFFICES ASSUME TypeOK, ReplayInv, Next, crashes' > crashes, lost = {},
                      NEW c \in log
               PROVE  Covers(ruv', c)
    OBVIOUS
  <2>1. crashes \in Nat
    BY ChangelogAssumption DEF TypeOK
  <2>2. crashes' # crashes
    BY <2>1
  <2>3. Crash
    <3>1. ASSUME NEW r \in Rids, Begin(r) PROVE FALSE
      BY <2>2, <3>1 DEF Begin, bounds
    <3>2. ASSUME NEW d \in CSNs, Write(d) \/ Commit(d) \/ CommitFails(d) \/ Abort(d)
          PROVE  FALSE
      BY <2>2, <3>2 DEF Write, Commit, CommitFails, Abort, bounds
    <3>3. ~(ReadState \/ WriteState \/ TrimStart \/ TrimEntry \/ TrimPurgeRuv \/ Restart)
      BY <2>2 DEF ReadState, WriteState, TrimStart, TrimEntry, TrimPurgeRuv,
                  Restart, bounds
    <3>4. ASSUME NEW a \in 1..Agmts,
                 \/ Acquire(a) \/ Refresh(a) \/ Read(a)
                 \/ NextChange(a) \/ EndSession(a)
          PROVE  FALSE
      BY <2>2, <3>4 DEF Acquire, Refresh, Read, NextChange, EndSession, bounds
    <3> QED
      BY <3>1, <3>2, <3>3, <3>4 DEF Next
  <2>4. /\ Reloaded \in Full(seen \cup lost)
        /\ (\A r \in Rids : dbruv[r] \in seen)
             => \A d \in log : d <= Reloaded[RidOf[d]]
    BY ReloadedCovers
  <2>5. \A r \in Rids : dbruv[r] \in seen
    BY SeenType, FullFacts DEF ReplayInv, VectorsFull
  <2>6. RidOf[c] \in Rids /\ seen \cup lost \in SUBSET CSNs
    BY SeenType, CSNNumber
  <2>7. Largest(Reloaded, RidOf[c]) = Reloaded[RidOf[c]]
    BY <2>4, <2>6, FullFacts
  <2> QED
    BY <2>3, <2>4, <2>5, <2>7 DEF Crash, Covers
<1> QED
  BY <1>1, ReplayInvariant, ChangelogTypeCorrect, PTL DEF Spec, CrashCovered
=============================================================================
