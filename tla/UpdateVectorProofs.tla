------------------------- MODULE UpdateVectorProofs -------------------------
(***************************************************************************)
(* Proofs about UpdateVector, for every set of replicas and threads and    *)
(* every bound: the RUV and the changelog agree, a covered change was      *)
(* applied, and a replay from the min CSNs misses nothing.                 *)
(***************************************************************************)
EXTENDS UpdateVector, WellFoundedInduction, TLAPS

(* The operation of thread t may still be cancelled.                       *)
Running(t) == op[t].pc \in {"preop", "txn"}

SerialLock == \A t, u \in Threads : HasTxn(t) /\ HasTxn(u) => t = u

OneReplicated == \A t, u \in Threads : Replicated(t) /\ Replicated(u) => t = u

(* The thread-local primary CSN is the CSN of the running operation.       *)
PrimaryIsOp ==
  \A t \in Threads : tls[t] = IF Running(t) THEN op[t].csn ELSE NoCSN

OpsNumbered ==
  \A t \in Threads :
    /\ op[t].pc # "idle" => op[t].csn.n >= 1
    /\ op[t].pc # "idle" /\ op[t].csn.rid = Local => op[t].csn.n < nextLocal
    /\ op[t].pc = "preop" => op[t].csn.rid \in Remotes

(* A pending entry belongs to a running operation; in the list of a remote *)
(* replica it is that operation's own CSN, in the local list the operation *)
(* is in its transaction.                                                  *)
PendingOwned ==
  \A r \in Rids : \A e \in pl[r] :
    \E t \in Threads :
      /\ Running(t)
      /\ e.prim = op[t].csn
      /\ r # Local => op[t].csn = CSN(r, e.n)
      /\ r = Local => op[t].pc = "txn"

OwnPending ==
  \A t \in Threads : Running(t) => \E e \in pl[op[t].csn.rid] : e.n = op[t].csn.n

NestedPending ==
  \A n \in nested :
    /\ \E e \in pl[Local] : e.n = n
    /\ \A t \in Threads : op[t].pc = "txn" => op[t].csn # CSN(Local, n)

TxnLogged ==
  \A c \in txnlog :
    \E t \in Threads :
      /\ HasTxn(t)
      /\ op[t].pc = "txn" => c.rid = Local /\ \E e \in pl[Local] : e.n = c.n
      /\ op[t].pc = "written" => Covers(c)

NextAbove ==
  /\ max[Local] < nextLocal
  /\ \A e \in pl[Local] : e.n < nextLocal

(* A failed operation has left its list: cancelling it again is harmless.  *)
FailedGone ==
  \A t \in Threads : op[t].pc = "failed" =>
    \A e \in pl[op[t].csn.rid] : e.n # op[t].csn.n

(* abort_csn_callback finds the CSN of every local update it cancels.      *)
MinTracks ==
  minpl.on =>
    /\ \A t \in Threads : op[t].pc = "txn" /\ op[t].csn.rid = Local =>
         \E m \in minpl.list : m.n = op[t].csn.n
    /\ \A n \in nested : \E m \in minpl.list : m.n = n
    /\ \A m \in minpl.list : m.n < nextLocal

VectorInv ==
  /\ VectorTypeOK
  /\ SerialLock
  /\ OneReplicated
  /\ PrimaryIsOp
  /\ OpsNumbered
  /\ PendingOwned
  /\ PendingNotCovered
  /\ OwnPending
  /\ NestedPending
  /\ TxnLogged
  /\ NextAbove
  /\ FailedGone
  /\ MinTracks
  /\ LoggedIsCovered

-----------------------------------------------------------------------------
LEMMA LocalRid == Local \in Rids /\ Local \notin Remotes /\ NoCSN \in CSNs
BY VectorAssumption DEF Rids, NoCSN, CSN, CSNs

LEMMA InitInv == Init => VectorInv
<1> SUFFICES ASSUME Init PROVE VectorInv
  OBVIOUS
<1> USE LocalRid DEF Init
<1>1. VectorTypeOK
  BY DEF VectorTypeOK, MinList, Op, OpRecord
<1>2. SerialLock /\ OneReplicated /\ PrimaryIsOp /\ OpsNumbered
  BY DEF SerialLock, OneReplicated, PrimaryIsOp, OpsNumbered, HasTxn, Replicated,
         Running, Op
<1>3. PendingOwned /\ PendingNotCovered /\ OwnPending /\ NestedPending /\ TxnLogged
  BY DEF PendingOwned, PendingNotCovered, OwnPending, NestedPending, TxnLogged,
         Running, Op
<1>4. NextAbove /\ FailedGone /\ MinTracks /\ LoggedIsCovered
  BY DEF NextAbove, FailedGone, MinTracks, LoggedIsCovered, MinList, Op
<1> QED
  BY <1>1, <1>2, <1>3, <1>4 DEF VectorInv

(* All that is pending in the lists an operation in its transaction looks  *)
(* at when it ends belongs to it: the SERIAL lock keeps other local        *)
(* updates out, the order of the session other replicated ones.            *)
LEMMA OwnLists ==
  ASSUME VectorInv, NEW t \in Threads, op[t].pc = "txn",
         NEW r \in Rids, r \in {op[t].csn.rid, Local}, NEW e \in pl[r]
  PROVE  e.prim = op[t].csn /\ e \in Pending
<1> DEFINE c == op[t].csn
<1>p. pl \in [Rids -> SUBSET Pending]
  BY DEF VectorInv, VectorTypeOK
<1>1. PICK u \in Threads : /\ Running(u)
                           /\ e.prim = op[u].csn
                           /\ r # Local => op[u].csn = CSN(r, e.n)
                           /\ r = Local => op[u].pc = "txn"
  BY DEF VectorInv, PendingOwned
<1>2. CASE r = Local
  BY <1>p, <1>1, <1>2 DEF VectorInv, SerialLock, HasTxn
<1>3. CASE r # Local
  <2>1. r \in Remotes /\ op[u].csn.rid \in Remotes /\ c.rid \in Remotes
    BY <1>1, <1>3 DEF Rids, CSN
  <2>2. u = t
    BY <1>1, <2>1 DEF VectorInv, OneReplicated, Replicated, Running
  <2> QED
    BY <1>p, <1>1, <2>2
<1> QED
  BY <1>2, <1>3

(* Under the invariant every entry of the two lists an operation looks at  *)
(* when it ends belongs to it, so all are committed and rolled up.         *)
LEMMA AllRolled ==
  ASSUME VectorInv, NEW t \in Threads, op[t].pc = "txn",
         NEW r \in Rids, r \in {op[t].csn.rid, Local}
  PROVE  /\ \A e \in CommitAll(r, op[t].csn) : e.committed
         /\ RollUp(CommitAll(r, op[t].csn)) = CommitAll(r, op[t].csn)
         /\ RolledCSNs(r, op[t].csn) = {e.n : e \in pl[r]}
<1> DEFINE c == op[t].csn
<1>p. \A e \in pl[r] : e.prim = c /\ e \in Pending
  BY OwnLists
<1>1. ASSUME NEW e \in CommitAll(r, c) PROVE e.committed
  <2>1. PICK f \in pl[r] :
          e = [n |-> f.n, prim |-> f.prim,
               committed |-> f.committed \/ PrimaryOrNested(r, f, c)]
    BY <1>1 DEF CommitAll
  <2>2. PrimaryOrNested(r, f, c)
    BY <1>p DEF PrimaryOrNested
  <2>3. (f.committed \/ PrimaryOrNested(r, f, c)) = TRUE
    BY <2>2
  <2> QED
    BY <2>1, <2>3
<1>2. RollUp(CommitAll(r, c)) = CommitAll(r, c)
  BY <1>1 DEF RollUp
<1>3. RolledCSNs(r, c) = {e.n : e \in pl[r]}
  <2>1. RolledCSNs(r, c) = {e.n : e \in CommitAll(r, c)}
    BY <1>2 DEF RolledCSNs
  <2>2. ASSUME NEW e \in CommitAll(r, c) PROVE \E f \in pl[r] : f.n = e.n
    BY <2>2 DEF CommitAll
  <2>3. ASSUME NEW f \in pl[r] PROVE \E e \in CommitAll(r, c) : e.n = f.n
    <3> DEFINE g == [n |-> f.n, prim |-> f.prim,
                     committed |-> f.committed \/ PrimaryOrNested(r, f, c)]
    <3>1. g \in CommitAll(r, c)
      BY DEF CommitAll
    <3>2. g.n = f.n
      OBVIOUS
    <3> QED
      BY <3>1, <3>2
  <2> QED
    BY <2>1, <2>2, <2>3
<1> QED
  BY <1>1, <1>2, <1>3

(* What write_changelog_and_ruv does to the RUV.                           *)
LEMMA WriteEffect ==
  ASSUME VectorInv, NEW t \in Threads, op[t].pc = "txn", UpdateRuv(t, op[t].csn)
  PROVE  /\ pl' = [r \in Rids |-> IF r \in {op[t].csn.rid, Local} THEN {} ELSE pl[r]]
         /\ max' \in [Rids -> Nat]
         /\ \A r \in Rids : max[r] <= max'[r]
         /\ \A r \in Rids : r \in {op[t].csn.rid, Local} =>
              \A e \in pl[r] : e.n <= max'[r]
         /\ \A r \in Rids : max'[r] # max[r] =>
              \E e \in pl[r] : e.n = max'[r] /\ r \in {op[t].csn.rid, Local}
<1> DEFINE c == op[t].csn
<1>c. c \in CSNs /\ c.rid \in Rids /\ Local \in Rids /\ tls[t] = c
  BY LocalRid DEF VectorInv, VectorTypeOK, OpRecord, CSNs, PrimaryIsOp, Running
<1>p. pl \in [Rids -> SUBSET Pending] /\ max \in [Rids -> Nat]
  BY DEF VectorInv, VectorTypeOK
<1>2. ASSUME NEW r \in Rids, r \in {c.rid, Local}
      PROVE  /\ RollUp(CommitAll(r, c)) = CommitAll(r, c)
             /\ RolledCSNs(r, c) = {e.n : e \in pl[r]}
  BY <1>2, AllRolled
<1>3. ~OriginRefused(c)
  <2>1. PICK e \in pl[c.rid] : e.n = c.n
    BY DEF VectorInv, OwnPending, Running
  <2>2. ~(e.n <= max[c.rid])
    BY <1>c, <2>1 DEF VectorInv, PendingNotCovered, Covers, CSN
  <2> QED
    BY <1>c, <1>2, <2>1, <2>2 DEF OriginRefused
<1>4. pl' = [r \in Rids |-> IF r \in {c.rid, Local} THEN {} ELSE pl[r]]
  <2>1. pl' = [r \in Rids |-> IF r \in {c.rid, Local}
                                THEN CommitAll(r, c) \ RollUp(CommitAll(r, c))
                                ELSE pl[r]]
    BY <1>c, <1>3 DEF UpdateRuv
  <2>2. \A r \in Rids : r \in {c.rid, Local} =>
          CommitAll(r, c) \ RollUp(CommitAll(r, c)) = {}
    BY <1>2
  <2> QED
    BY <2>1, <2>2
<1>5. PICK p \in MaxCandidates(c.rid, c), l \in MaxCandidates(Local, c) :
             /\ \A m \in MaxCandidates(c.rid, c) : m <= p
             /\ \A m \in MaxCandidates(Local, c) : m <= l
             /\ max' = [r \in Rids |->
                          IF r = c.rid THEN p
                          ELSE IF r \in {c.rid, Local} THEN l ELSE max[r]]
  BY <1>c, <1>3 DEF UpdateRuv
<1>6. ASSUME NEW r \in Rids, r \in {c.rid, Local}
      PROVE  MaxCandidates(r, c) = {e.n : e \in pl[r]} \cup {max[r]}
  BY <1>2, <1>6 DEF MaxCandidates
<1>7. ASSUME NEW r \in Rids, r \in {c.rid, Local}
      PROVE  /\ max'[r] \in {e.n : e \in pl[r]} \cup {max[r]}
             /\ \A m \in {e.n : e \in pl[r]} \cup {max[r]} : m <= max'[r]
  BY <1>c, <1>5, <1>6, <1>7
<1>8. ASSUME NEW r \in Rids
      PROVE  /\ max'[r] \in Nat
             /\ max[r] <= max'[r]
             /\ r \in {c.rid, Local} => \A e \in pl[r] : e.n <= max'[r]
             /\ max'[r] # max[r] =>
                  \E e \in pl[r] : e.n = max'[r] /\ r \in {c.rid, Local}
  <2>1. CASE r \in {c.rid, Local}
    BY <1>p, <1>7, <2>1 DEF Pending
  <2>2. CASE r \notin {c.rid, Local}
    BY <1>p, <1>5, <2>2
  <2> QED
    BY <2>1, <2>2
<1> QED
  BY <1>4, <1>5, <1>8

(* Cancelling the operation empties the same two lists.                    *)
LEMMA CancelEffect ==
  ASSUME VectorInv, NEW t \in Threads, op[t].pc = "txn",
         CancelInProgress(t, op[t].csn)
  PROVE  pl' = [r \in Rids |-> IF r \in {op[t].csn.rid, Local} THEN {} ELSE pl[r]]
<1> DEFINE c == op[t].csn
<1>1. tls[t] = c
  BY DEF VectorInv, PrimaryIsOp, Running
<1>2. pl' = [r \in Rids |->
               IF r \in {c.rid, Local}
                 THEN {e \in pl[r] : ~PrimaryOrNested(r, e, c)} ELSE pl[r]]
  BY <1>1 DEF CancelInProgress
<1>3. ASSUME NEW r \in Rids, r \in {c.rid, Local}
      PROVE  {e \in pl[r] : ~PrimaryOrNested(r, e, c)} = {}
  BY <1>3, OwnLists DEF PrimaryOrNested
<1> QED
  BY <1>2, <1>3

(* replica_update_ruv either keeps every CSN of the list for the min CSN   *)
(* or gives the list up.                                                   *)
LEMMA MinEffect ==
  ASSUME VectorTypeOK, NEW c \in CSNs, UpdateLocalMin(c)
  PROVE  /\ min' \in [Rids -> Nat]
         /\ minpl' \in [on : BOOLEAN, list : SUBSET MinPending]
         /\ minpl'.on =>
              /\ minpl.on
              /\ \A m \in minpl.list : \E k \in minpl'.list : k.n = m.n
              /\ \A k \in minpl'.list : \E m \in minpl.list : k.n = m.n
<1> DEFINE list == MinCommitted(c)
           head == {m \in list : \A k \in list : m.n <= k.n}
<1>t. /\ min \in [Rids -> Nat] /\ Local \in Rids
      /\ minpl \in [on : BOOLEAN, list : SUBSET MinPending]
  BY LocalRid DEF VectorTypeOK
<1>1. \A k \in list : \E m \in minpl.list : k.n = m.n
  BY DEF MinCommitted
<1>2. \A m \in minpl.list : \E k \in list : k.n = m.n
  <2> TAKE m \in minpl.list
  <2> DEFINE k == [n |-> m.n, committed |-> m.committed \/ m.n = c.n]
  <2>1. k \in list /\ k.n = m.n
    BY DEF MinCommitted
  <2> QED
    BY <2>1
<1>3. list \in SUBSET MinPending
  <2>1. ASSUME NEW m \in minpl.list
        PROVE  [n |-> m.n, committed |-> m.committed \/ m.n = c.n] \in MinPending
    <3>1. m.n \in Nat /\ (m.committed \/ m.n = c.n) \in BOOLEAN
      BY <1>t DEF MinPending
    <3> QED
      BY <3>1 DEF MinPending
  <2> QED
    BY <2>1 DEF MinCommitted
<1>4. CASE \E m \in head : m.committed
  <2>1. minpl' = MinList(FALSE, {})
    BY <1>4 DEF UpdateLocalMin
  <2>2. PICK m \in head :
          min' = [min EXCEPT ![Local] = IF @ = 0 \/ m.n < @ THEN m.n ELSE @]
    BY <1>4 DEF UpdateLocalMin
  <2>3. m.n \in Nat
    BY <1>3, <2>2 DEF MinPending
  <2> QED
    BY <1>t, <2>1, <2>2, <2>3 DEF MinList
<1>5. CASE ~(\E m \in head : m.committed)
  <2>1. minpl' = MinList(minpl.on, list) /\ min' = min
    BY <1>5 DEF UpdateLocalMin
  <2> QED
    BY <1>t, <1>1, <1>2, <1>3, <2>1 DEF MinList
<1> QED
  BY <1>4, <1>5

-----------------------------------------------------------------------------
(* One lemma per action.  In each, the parts of the invariant that the   *)
(* action cannot disturb come last.                                        *)

LEMMA SessionInv ==
  ASSUME VectorInv, OpenSession \/ CloseSession PROVE VectorInv'
<1>1. /\ session' \in [open : BOOLEAN, next : [Remotes -> Nat]]
      /\ UNCHANGED <<max, min, pl, minpl, tls, op, nested, txnlog, log, nextLocal, skipped>>
  <2>1. CASE OpenSession
    BY <2>1, VectorAssumption DEF OpenSession, VectorInv, VectorTypeOK
  <2>2. CASE CloseSession
    BY <2>2 DEF CloseSession, VectorInv, VectorTypeOK
  <2> QED
    BY <2>1, <2>2
<1>2. VectorTypeOK'
  BY <1>1 DEF VectorInv, VectorTypeOK
<1>3. (SerialLock /\ OneReplicated /\ PrimaryIsOp /\ OpsNumbered)'
  BY <1>1 DEF VectorInv, SerialLock, OneReplicated, PrimaryIsOp, OpsNumbered,
              HasTxn, Replicated, Running
<1>4. (PendingOwned /\ PendingNotCovered /\ OwnPending /\ NestedPending)'
  BY <1>1 DEF VectorInv, PendingOwned, PendingNotCovered, OwnPending, NestedPending,
              Running, Covers
<1>5. (TxnLogged /\ NextAbove /\ FailedGone /\ MinTracks /\ LoggedIsCovered)'
  BY <1>1 DEF VectorInv, TxnLogged, NextAbove, FailedGone, MinTracks,
              LoggedIsCovered, HasTxn, Covers
<1> QED
  BY <1>2, <1>3, <1>4, <1>5 DEF VectorInv

LEMMA ReplicatedPreopInv ==
  ASSUME VectorInv, NEW t \in Threads, NEW r \in Remotes, ReplicatedPreop(t, r)
  PROVE  VectorInv'
<1> DEFINE c == CSN(r, session.next[r])
<1>r. r \in Rids /\ r # Local /\ Local \in Rids
  BY LocalRid DEF Rids
<1>c. c \in CSNs /\ c.rid = r /\ c.n \in Nat
  BY <1>r DEF CSN, CSNs, VectorInv, VectorTypeOK
<1>t. /\ max \in [Rids -> Nat] /\ pl \in [Rids -> SUBSET Pending]
      /\ tls \in [Threads -> CSNs] /\ op \in [Threads -> OpRecord]
      /\ session \in [open : BOOLEAN, next : [Remotes -> Nat]]
  BY DEF VectorInv, VectorTypeOK
<1>s. session' \in [open : BOOLEAN, next : [Remotes -> Nat]]
  BY <1>t DEF ReplicatedPreop
<1>i. op[t].pc = "idle" /\ tls[t] = NoCSN
  BY DEF ReplicatedPreop, VectorInv, PrimaryIsOp, Running
<1>u. UNCHANGED <<max, min, minpl, nested, txnlog, log, nextLocal, skipped>>
  BY DEF ReplicatedPreop
<1>1. CASE Covers(c)
  <2>1. UNCHANGED <<pl, tls, op>>
    BY <1>1, <1>t DEF ReplicatedPreop, AddInProgress, NewToRUV
  <2>2. VectorTypeOK'
    BY <1>u, <1>s, <2>1 DEF VectorInv, VectorTypeOK
  <2>3. (SerialLock /\ OneReplicated /\ PrimaryIsOp /\ OpsNumbered)'
    BY <1>u, <2>1 DEF VectorInv, SerialLock, OneReplicated, PrimaryIsOp,
                      OpsNumbered, HasTxn, Replicated, Running
  <2>4. (PendingOwned /\ PendingNotCovered /\ OwnPending /\ NestedPending)'
    BY <1>u, <2>1 DEF VectorInv, PendingOwned, PendingNotCovered, OwnPending,
                      NestedPending, Running, Covers
  <2>5. (TxnLogged /\ NextAbove /\ FailedGone /\ MinTracks /\ LoggedIsCovered)'
    BY <1>u, <2>1 DEF VectorInv, TxnLogged, NextAbove, FailedGone, MinTracks,
                      LoggedIsCovered, HasTxn, Covers
  <2> QED
    BY <2>2, <2>3, <2>4, <2>5 DEF VectorInv
<1>2. CASE ~Covers(c)
  <2> DEFINE new == [n |-> c.n, prim |-> c, committed |-> FALSE]
  <2>0. ~SeenInList(c)
    <3>1. ASSUME NEW e \in pl[r] PROVE FALSE
      <4>1. PICK u \in Threads : Running(u) /\ op[u].csn = CSN(r, e.n)
        BY <1>r DEF VectorInv, PendingOwned
      <4>2. Replicated(u)
        BY <4>1 DEF Running, Replicated, CSN
      <4> QED
        BY <4>2 DEF ReplicatedPreop
    <3> QED
      BY <1>c, <3>1 DEF SeenInList
  <2>1. /\ pl' = [pl EXCEPT ![r] = @ \cup {new}]
        /\ tls' = [tls EXCEPT ![t] = c]
        /\ op' = [op EXCEPT ![t] = Op("preop", c)]
    BY <1>2, <1>c, <1>i, <2>0
       DEF ReplicatedPreop, AddInProgress, NewToRUV, PrimaryFor
  <2>2. /\ pl'[Local] = pl[Local] /\ pl'[r] = pl[r] \cup {new}
        /\ \A q \in Rids : q # r => pl'[q] = pl[q]
        /\ op'[t] = Op("preop", c) /\ tls'[t] = c
        /\ \A u \in Threads : u # t => op'[u] = op[u] /\ tls'[u] = tls[u]
    BY <1>r, <1>t, <2>1
  <2>3. new \in Pending /\ Op("preop", c) \in OpRecord
    BY <1>c DEF Pending, Op, OpRecord
  <2>4. VectorTypeOK'
    BY <1>u, <1>s, <1>t, <1>c, <2>1, <2>3 DEF VectorInv, VectorTypeOK
  <2>5. (SerialLock /\ OneReplicated)'
    BY <1>i, <1>u, <2>2 DEF VectorInv, SerialLock, OneReplicated, HasTxn,
                            Replicated, Op, ReplicatedPreop
  <2>6. PrimaryIsOp' /\ OpsNumbered'
    BY <1>i, <1>u, <1>c, <1>r, <1>t, <1>2, <2>2
       DEF VectorInv, PrimaryIsOp, OpsNumbered, Running, Op, Covers
  <2>7. PendingOwned'
    BY <1>i, <1>c, <1>r, <2>2
       DEF VectorInv, PendingOwned, Running, Op, CSN
  <2>8. PendingNotCovered'
    BY <1>2, <1>c, <1>u, <1>r, <2>2 DEF VectorInv, PendingNotCovered, Covers, CSN
  <2>9. OwnPending'
    <3>1. new \in pl'[r] /\ new.n = c.n
      BY <2>2
    <3>2. ASSUME NEW u \in Threads, u # t, op'[u].pc \in {"preop", "txn"}
          PROVE  \E e \in pl'[op'[u].csn.rid] : e.n = op'[u].csn.n
      <4>1. Running(u) /\ op[u].csn.rid \in Rids
        BY <1>t, <2>2, <3>2 DEF Running, OpRecord, CSNs
      <4>2. pl[op[u].csn.rid] \subseteq pl'[op[u].csn.rid]
        BY <2>2, <4>1
      <4> QED
        BY <2>2, <3>2, <4>1, <4>2 DEF VectorInv, OwnPending
    <3>3. op'[t].csn.rid = r /\ op'[t].csn.n = c.n
      BY <1>c, <2>2 DEF Op
    <3> QED
      BY <3>1, <3>2, <3>3 DEF OwnPending, Running
  <2>10. (NestedPending /\ TxnLogged /\ NextAbove)'
    BY <1>i, <1>u, <2>2 DEF VectorInv, NestedPending, TxnLogged, NextAbove, HasTxn,
                            Op, Covers
  <2>11. FailedGone'
    <3>1. ASSUME NEW u \in Threads, op'[u].pc = "failed"
          PROVE  u # t /\ op[u].csn.rid # r /\ op[u].csn.rid \in Rids
      BY <1>t, <2>2, <3>1 DEF Op, ReplicatedPreop, Replicated, OpRecord, CSNs
    <3> QED
      BY <2>2, <3>1 DEF VectorInv, FailedGone
  <2>12. (MinTracks /\ LoggedIsCovered)'
    BY <1>i, <1>u, <2>2 DEF VectorInv, MinTracks, LoggedIsCovered, Op, Covers
  <2> QED
    BY <2>4, <2>5, <2>6, <2>7, <2>8, <2>9, <2>10, <2>11, <2>12 DEF VectorInv
<1> QED
  BY <1>1, <1>2

LEMMA BeginReplicatedInv ==
  ASSUME VectorInv, NEW t \in Threads, BeginReplicated(t) PROVE VectorInv'
<1>1. /\ op[t].pc = "preop" /\ SerialLockFree
      /\ op' = [op EXCEPT ![t] = Op("txn", op[t].csn)]
      /\ UNCHANGED <<max, min, pl, minpl, tls, nested, txnlog, log, nextLocal,
                     session, skipped>>
  BY DEF BeginReplicated
<1>2. /\ op'[t].pc = "txn" /\ op'[t].csn = op[t].csn
      /\ \A u \in Threads : u # t => op'[u] = op[u]
      /\ Op("txn", op[t].csn) \in OpRecord
  BY <1>1 DEF VectorInv, VectorTypeOK, Op, OpRecord
<1>3. VectorTypeOK'
  BY <1>1, <1>2 DEF VectorInv, VectorTypeOK
<1>4. (SerialLock /\ OneReplicated)'
  BY <1>1, <1>2 DEF VectorInv, SerialLock, OneReplicated, SerialLockFree, HasTxn,
                    Replicated
<1>5. (PrimaryIsOp /\ OpsNumbered)'
  BY <1>1, <1>2 DEF VectorInv, PrimaryIsOp, OpsNumbered, Running
<1>6. (PendingOwned /\ PendingNotCovered /\ OwnPending)'
  BY <1>1, <1>2 DEF VectorInv, PendingOwned, PendingNotCovered, OwnPending,
                    Running, Covers
<1>7. (NestedPending /\ MinTracks)'
  BY <1>1, <1>2, LocalRid DEF VectorInv, NestedPending, MinTracks, OpsNumbered, CSN
<1>8. TxnLogged'
  BY <1>1, <1>2 DEF VectorInv, TxnLogged, SerialLockFree
<1>9. (NextAbove /\ FailedGone /\ LoggedIsCovered)'
  BY <1>1, <1>2 DEF VectorInv, NextAbove, FailedGone, LoggedIsCovered, Covers
<1> QED
  BY <1>3, <1>4, <1>5, <1>6, <1>7, <1>8, <1>9 DEF VectorInv

(* What assign_csn_callback does when the generator gives a fresh CSN.     *)
LEMMA AssignEffect ==
  ASSUME VectorInv, NEW t \in Threads, AssignCSN(t, CSN(Local, nextLocal))
  PROVE  /\ pl' = [pl EXCEPT ![Local] = @ \cup
                    {[n |-> nextLocal, prim |-> PrimaryFor(t, CSN(Local, nextLocal)),
                      committed |-> FALSE]}]
         /\ tls' = [tls EXCEPT ![t] = PrimaryFor(t, CSN(Local, nextLocal))]
         /\ minpl' \in [on : BOOLEAN, list : SUBSET MinPending]
         /\ minpl'.on =>
              /\ minpl.on
              /\ \E m \in minpl'.list : m.n = nextLocal
              /\ \A m \in minpl.list : \E k \in minpl'.list : k.n = m.n
              /\ \A k \in minpl'.list : k.n <= nextLocal
<1> DEFINE c == CSN(Local, nextLocal)
<1>t. /\ nextLocal \in Nat /\ max \in [Rids -> Nat] /\ pl \in [Rids -> SUBSET Pending]
      /\ minpl \in [on : BOOLEAN, list : SUBSET MinPending]
  BY DEF VectorInv, VectorTypeOK
<1>c. c.rid = Local /\ c.n = nextLocal
  BY DEF CSN
<1>1. ~Covers(c) /\ ~SeenInList(c)
  BY <1>t, <1>c, LocalRid DEF Covers, SeenInList, VectorInv, NextAbove, Pending
<1>2. AddInProgress(t, c)
  BY DEF AssignCSN
<1>3. /\ pl' = [pl EXCEPT ![Local] = @ \cup
                 {[n |-> nextLocal, prim |-> PrimaryFor(t, c), committed |-> FALSE]}]
      /\ tls' = [tls EXCEPT ![t] = PrimaryFor(t, c)]
  BY <1>1, <1>2, <1>c DEF AddInProgress, NewToRUV
<1>4. CASE ~minpl.on
  BY <1>3, <1>4, <1>t DEF AssignCSN
<1>5. CASE minpl.on
  <2>1. \A m \in minpl.list : m.n \in Nat /\ m.n < nextLocal
    BY <1>5, <1>t DEF VectorInv, MinTracks, MinPending
  <2>2. minpl' = MinList(TRUE, minpl.list \cup {[n |-> nextLocal, committed |-> FALSE]})
    <3>1. ~(\E m \in minpl.list : m.n >= c.n)
      BY <1>c, <1>t, <2>1
    <3>2. minpl' = IF ~minpl.on THEN minpl
                   ELSE IF \E m \in minpl.list : m.n >= c.n THEN MinList(FALSE, {})
                   ELSE MinList(TRUE, minpl.list \cup {[n |-> c.n, committed |-> FALSE]})
      BY DEF AssignCSN
    <3> QED
      BY <1>5, <1>c, <3>1, <3>2
  <2>3. [n |-> nextLocal, committed |-> FALSE] \in MinPending
    BY <1>t DEF MinPending
  <2>4. minpl'.list = minpl.list \cup {[n |-> nextLocal, committed |-> FALSE]}
    BY <2>2 DEF MinList
  <2>5. minpl' \in [on : BOOLEAN, list : SUBSET MinPending]
    BY <1>t, <2>2, <2>3 DEF MinList
  <2>6. [n |-> nextLocal, committed |-> FALSE].n = nextLocal
    OBVIOUS
  <2>7. \A k \in minpl'.list : k.n <= nextLocal
    BY <1>t, <2>1, <2>4, <2>6
  <2>8. /\ \E m \in minpl'.list : m.n = nextLocal
        /\ \A m \in minpl.list : \E k \in minpl'.list : k.n = m.n
    BY <2>4, <2>6
  <2> QED
    BY <1>3, <1>5, <2>5, <2>7, <2>8
<1> QED
  BY <1>4, <1>5

LEMMA BeginLocalInv ==
  ASSUME VectorInv, NEW t \in Threads, BeginLocal(t) PROVE VectorInv'
<1> DEFINE c == CSN(Local, nextLocal)
           new == [n |-> nextLocal, prim |-> c, committed |-> FALSE]
<1>t. /\ max \in [Rids -> Nat] /\ pl \in [Rids -> SUBSET Pending] /\ nextLocal \in Nat
      /\ tls \in [Threads -> CSNs] /\ op \in [Threads -> OpRecord]
      /\ nested \subseteq Nat
  BY DEF VectorInv, VectorTypeOK
<1>c. c \in CSNs /\ c.rid = Local /\ c.n = nextLocal /\ Local \in Rids
      /\ Local \notin Remotes
  BY <1>t, LocalRid DEF CSN, CSNs
<1>u. /\ UNCHANGED <<max, min, nested, txnlog, log, session, skipped>>
      /\ nextLocal' = nextLocal + 1
      /\ op[t].pc = "idle" /\ SerialLockFree
      /\ AssignCSN(t, c)
      /\ op' = [op EXCEPT ![t] = Op("txn", c)]
  BY DEF BeginLocal
<1>i. PrimaryFor(t, c) = c
  BY <1>u DEF VectorInv, PrimaryIsOp, Running, PrimaryFor
<1>1. /\ pl' = [pl EXCEPT ![Local] = @ \cup {new}]
      /\ tls' = [tls EXCEPT ![t] = c]
      /\ minpl' \in [on : BOOLEAN, list : SUBSET MinPending]
      /\ minpl'.on =>
           /\ minpl.on
           /\ \E m \in minpl'.list : m.n = nextLocal
           /\ \A m \in minpl.list : \E k \in minpl'.list : k.n = m.n
           /\ \A k \in minpl'.list : k.n <= nextLocal
  BY <1>u, <1>i, AssignEffect
<1>2. /\ pl'[Local] = pl[Local] \cup {new}
      /\ \A q \in Rids : q # Local => pl'[q] = pl[q]
      /\ op'[t].pc = "txn" /\ op'[t].csn = c /\ tls'[t] = c
      /\ \A u \in Threads : u # t => op'[u] = op[u] /\ tls'[u] = tls[u]
  BY <1>c, <1>t, <1>u, <1>1 DEF Op
<1>3. new \in Pending /\ Op("txn", c) \in OpRecord /\ new.n = nextLocal /\ new.prim = c
  BY <1>c, <1>t DEF Pending, Op, OpRecord
<1>n. nested = {}
  <2>1. \A e \in pl[Local] : FALSE
    BY <1>c, <1>u DEF VectorInv, PendingOwned, SerialLockFree, HasTxn
  <2> QED
    BY <2>1 DEF VectorInv, NestedPending
<1>x. txnlog = {}
  BY <1>u DEF VectorInv, TxnLogged, SerialLockFree
<1>4. VectorTypeOK'
  <2>1. pl' \in [Rids -> SUBSET Pending]
    BY <1>t, <1>c, <1>1, <1>3
  <2>2. tls' \in [Threads -> CSNs] /\ op' \in [Threads -> OpRecord] /\ nextLocal' \in Nat
    BY <1>t, <1>c, <1>u, <1>1, <1>3
  <2> QED
    BY <1>u, <1>1, <2>1, <2>2 DEF VectorInv, VectorTypeOK
<1>5. (SerialLock /\ OneReplicated)'
  BY <1>u, <1>c, <1>2 DEF VectorInv, SerialLock, OneReplicated, SerialLockFree, HasTxn,
                          Replicated
<1>6. PrimaryIsOp'
  BY <1>2 DEF VectorInv, PrimaryIsOp, Running
<1>7. OpsNumbered'
  <2>1. nextLocal >= 1
    BY <1>t, <1>c DEF VectorInv, NextAbove
  <2>2. \A u \in Threads : op[u].csn.n \in Nat
    BY <1>t DEF OpRecord, CSNs
  <2> QED
    BY <1>u, <1>t, <1>c, <1>2, <2>1, <2>2 DEF VectorInv, OpsNumbered
<1>8. PendingOwned'
  BY <1>u, <1>c, <1>2, <1>3 DEF VectorInv, PendingOwned, Running
<1>9. PendingNotCovered'
  BY <1>u, <1>c, <1>t, <1>2, <1>3 DEF VectorInv, PendingNotCovered, NextAbove, Covers, CSN
<1>10. OwnPending'
  BY <1>u, <1>c, <1>t, <1>2, <1>3 DEF VectorInv, OwnPending, Running, OpRecord, CSNs
<1>11. (NestedPending /\ TxnLogged)'
  BY <1>u, <1>n, <1>x DEF NestedPending, TxnLogged
<1>12. NextAbove'
  BY <1>u, <1>t, <1>c, <1>2, <1>3 DEF VectorInv, NextAbove, Pending
<1>13. FailedGone'
  <2>1. ASSUME NEW u \in Threads, op[u].pc = "failed", op[u].csn.rid = Local
        PROVE  op[u].csn.n # nextLocal
    BY <2>1, <1>t DEF VectorInv, OpsNumbered, OpRecord, CSNs
  <2> QED
    BY <1>t, <1>2, <1>3, <2>1 DEF VectorInv, FailedGone, OpRecord, CSNs
<1>14. MinTracks'
  <2>1. ASSUME NEW u \in Threads, u # t PROVE op'[u].pc # "txn"
    BY <1>u, <1>2, <2>1 DEF SerialLockFree, HasTxn
  <2>2. ASSUME minpl'.on, NEW k \in minpl'.list PROVE k.n < nextLocal'
    BY <1>u, <1>t, <1>1, <2>2 DEF MinPending
  <2> QED
    BY <1>c, <1>n, <1>u, <1>1, <1>2, <2>1, <2>2 DEF MinTracks
<1>15. LoggedIsCovered'
  BY <1>u DEF VectorInv, LoggedIsCovered, Covers
<1> QED
  BY <1>4, <1>5, <1>6, <1>7, <1>8, <1>9, <1>10, <1>11, <1>12, <1>13, <1>14, <1>15
     DEF VectorInv

LEMMA BeginNestedInv ==
  ASSUME VectorInv, NEW t \in Threads, BeginNested(t) PROVE VectorInv'
<1> DEFINE c == CSN(Local, nextLocal)
           new == [n |-> nextLocal, prim |-> op[t].csn, committed |-> FALSE]
<1>t. /\ max \in [Rids -> Nat] /\ pl \in [Rids -> SUBSET Pending] /\ nextLocal \in Nat
      /\ tls \in [Threads -> CSNs] /\ op \in [Threads -> OpRecord]
      /\ nested \subseteq Nat
  BY DEF VectorInv, VectorTypeOK
<1>c. Local \in Rids /\ Local \notin Remotes /\ op[t].csn \in CSNs
      /\ \A u \in Threads : op[u].csn.n \in Nat /\ op[u].csn.rid \in Rids
  BY <1>t, LocalRid DEF CSNs, OpRecord
<1>u. /\ UNCHANGED <<max, min, op, txnlog, log, session, skipped>>
      /\ nextLocal' = nextLocal + 1
      /\ nested' = nested \cup {nextLocal}
      /\ op[t].pc = "txn"
      /\ AssignCSN(t, c)
  BY DEF BeginNested
<1>i. PrimaryFor(t, c) = op[t].csn /\ tls[t] = op[t].csn
  BY <1>u, <1>c DEF VectorInv, PrimaryIsOp, OpsNumbered, Running, PrimaryFor, NoCSN, CSN
<1>1. /\ pl' = [pl EXCEPT ![Local] = @ \cup {new}]
      /\ tls' = [tls EXCEPT ![t] = op[t].csn]
      /\ minpl' \in [on : BOOLEAN, list : SUBSET MinPending]
      /\ minpl'.on =>
           /\ minpl.on
           /\ \E m \in minpl'.list : m.n = nextLocal
           /\ \A m \in minpl.list : \E k \in minpl'.list : k.n = m.n
           /\ \A k \in minpl'.list : k.n <= nextLocal
  BY <1>u, <1>i, AssignEffect
<1>2. /\ pl'[Local] = pl[Local] \cup {new}
      /\ \A q \in Rids : q # Local => pl'[q] = pl[q]
      /\ \A q \in Rids : pl[q] \subseteq pl'[q]
      /\ tls' = tls
  BY <1>c, <1>t, <1>i, <1>1
<1>3. new \in Pending /\ new.n = nextLocal /\ new.prim = op[t].csn
  BY <1>c, <1>t DEF Pending
<1>4. VectorTypeOK'
  <2>1. pl' \in [Rids -> SUBSET Pending]
    BY <1>t, <1>c, <1>1, <1>3
  <2>2. nextLocal' \in Nat /\ nested' \subseteq Nat
    BY <1>t, <1>u
  <2> QED
    BY <1>u, <1>1, <1>2, <2>1, <2>2 DEF VectorInv, VectorTypeOK
<1>5. (SerialLock /\ OneReplicated /\ PrimaryIsOp)'
  BY <1>u, <1>2 DEF VectorInv, SerialLock, OneReplicated, PrimaryIsOp, HasTxn,
                    Replicated, Running
<1>6. OpsNumbered'
  BY <1>u, <1>t, <1>c DEF VectorInv, OpsNumbered
<1>7. PendingOwned'
  BY <1>u, <1>c, <1>2, <1>3 DEF VectorInv, PendingOwned, Running
<1>8. PendingNotCovered'
  BY <1>u, <1>c, <1>t, <1>2, <1>3 DEF VectorInv, PendingNotCovered, NextAbove, Covers, CSN
<1>9. OwnPending'
  BY <1>u, <1>c, <1>2 DEF VectorInv, OwnPending, Running
<1>10. NestedPending'
  <2>1. ASSUME NEW u \in Threads, op[u].pc = "txn" PROVE op[u].csn # CSN(Local, nextLocal)
    BY <2>1, <1>c, <1>t DEF VectorInv, OpsNumbered, CSN
  <2> QED
    BY <1>u, <1>2, <1>3, <2>1 DEF VectorInv, NestedPending
<1>11. TxnLogged'
  BY <1>u, <1>2 DEF VectorInv, TxnLogged, HasTxn, Covers
<1>12. NextAbove'
  BY <1>u, <1>t, <1>c, <1>2, <1>3 DEF VectorInv, NextAbove, Pending
<1>13. FailedGone'
  <2>1. ASSUME NEW u \in Threads, op[u].pc = "failed", op[u].csn.rid = Local
        PROVE  op[u].csn.n # nextLocal
    BY <2>1, <1>t, <1>c DEF VectorInv, OpsNumbered
  <2> QED
    BY <1>c, <1>u, <1>2, <1>3, <2>1 DEF VectorInv, FailedGone
<1>14. MinTracks'
  <2>1. ASSUME minpl'.on, NEW k \in minpl'.list PROVE k.n < nextLocal'
    BY <1>u, <1>t, <1>1, <2>1 DEF MinPending
  <2>2. ASSUME minpl'.on, NEW n \in nested' PROVE \E m \in minpl'.list : m.n = n
    BY <1>u, <1>1, <2>2 DEF VectorInv, MinTracks
  <2>3. ASSUME minpl'.on, NEW u \in Threads, op[u].pc = "txn", op[u].csn.rid = Local
        PROVE  \E m \in minpl'.list : m.n = op[u].csn.n
    BY <1>1, <2>3 DEF VectorInv, MinTracks
  <2> QED
    BY <1>u, <2>1, <2>2, <2>3 DEF MinTracks
<1>15. LoggedIsCovered'
  BY <1>u DEF VectorInv, LoggedIsCovered, Covers
<1> QED
  BY <1>4, <1>5, <1>6, <1>7, <1>8, <1>9, <1>10, <1>11, <1>12, <1>13, <1>14, <1>15
     DEF VectorInv

LEMMA EndNestedInv ==
  ASSUME VectorInv, NEW t \in Threads, EndNested(t) PROVE VectorInv'
<1>t. /\ nested \subseteq Nat /\ txnlog \subseteq CSNs /\ op[t].pc = "txn"
      /\ UNCHANGED <<op, log, nextLocal, session, skipped>>
  BY DEF VectorInv, VectorTypeOK, EndNested
<1>1. PICK n \in nested :
        /\ txnlog' = txnlog \cup {CSN(Local, n)}
        /\ ReplicaUpdateRuv(t, CSN(Local, n))
        /\ ClearPrimary(t, CSN(Local, n))
        /\ nested' = nested \ {n}
  BY DEF EndNested
<1>2. CSN(Local, n) \in CSNs /\ CSN(Local, n).rid = Local /\ CSN(Local, n).n = n
  BY <1>t, LocalRid DEF CSN, CSNs
<1>3. tls[t] # CSN(Local, n)
  BY <1>t DEF VectorInv, PrimaryIsOp, NestedPending, Running
<1>4. UNCHANGED <<pl, max, tls>>
  BY <1>1, <1>3 DEF ReplicaUpdateRuv, UpdateRuv, ClearPrimary
<1>5. UpdateLocalMin(CSN(Local, n))
  BY <1>1, <1>2 DEF ReplicaUpdateRuv
<1>6. /\ min' \in [Rids -> Nat]
      /\ minpl' \in [on : BOOLEAN, list : SUBSET MinPending]
      /\ minpl'.on =>
           /\ minpl.on
           /\ \A m \in minpl.list : \E k \in minpl'.list : k.n = m.n
           /\ \A k \in minpl'.list : \E m \in minpl.list : k.n = m.n
  BY <1>2, <1>5, MinEffect DEF VectorInv
<1>7. VectorTypeOK'
  BY <1>t, <1>1, <1>2, <1>4, <1>6 DEF VectorInv, VectorTypeOK
<1>8. (SerialLock /\ OneReplicated /\ PrimaryIsOp /\ OpsNumbered)'
  BY <1>t, <1>4 DEF VectorInv, SerialLock, OneReplicated, PrimaryIsOp, OpsNumbered,
                    HasTxn, Replicated, Running
<1>9. (PendingOwned /\ PendingNotCovered /\ OwnPending)'
  BY <1>t, <1>4 DEF VectorInv, PendingOwned, PendingNotCovered, OwnPending, Running, Covers
<1>10. NestedPending'
  BY <1>t, <1>1, <1>4 DEF VectorInv, NestedPending
<1>11. TxnLogged'
  <2>1. \E e \in pl[Local] : e.n = n
    BY DEF VectorInv, NestedPending
  <2> QED
    BY <1>t, <1>1, <1>2, <1>4, <2>1 DEF VectorInv, TxnLogged, HasTxn, Covers
<1>12. (NextAbove /\ FailedGone /\ LoggedIsCovered)'
  BY <1>t, <1>4 DEF VectorInv, NextAbove, FailedGone, LoggedIsCovered, Covers
<1>13. MinTracks'
  <2>1. ASSUME minpl'.on, NEW k \in minpl'.list PROVE k.n < nextLocal
    BY <1>6, <2>1 DEF VectorInv, MinTracks
  <2>2. ASSUME minpl'.on, NEW i \in nested PROVE \E m \in minpl'.list : m.n = i
    BY <1>6, <2>2 DEF VectorInv, MinTracks
  <2>3. ASSUME minpl'.on, NEW u \in Threads, op[u].pc = "txn", op[u].csn.rid = Local
        PROVE  \E m \in minpl'.list : m.n = op[u].csn.n
    BY <1>6, <2>3 DEF VectorInv, MinTracks
  <2> QED
    BY <1>t, <1>1, <2>1, <2>2, <2>3 DEF MinTracks
<1> QED
  BY <1>7, <1>8, <1>9, <1>10, <1>11, <1>12, <1>13 DEF VectorInv

LEMMA FailNestedInv ==
  ASSUME VectorInv, NEW t \in Threads, FailNested(t) PROVE VectorInv'
<1>t. /\ nested \subseteq Nat /\ txnlog \subseteq CSNs /\ op[t].pc = "txn"
      /\ pl \in [Rids -> SUBSET Pending]
      /\ minpl \in [on : BOOLEAN, list : SUBSET MinPending]
      /\ UNCHANGED <<max, min, op, log, nextLocal, session, skipped>>
  BY DEF VectorInv, VectorTypeOK, FailNested
<1>1. PICK n \in nested :
        /\ \A m \in nested : m <= n
        /\ AbortCSN(t, CSN(Local, n))
        /\ ClearPrimary(t, CSN(Local, n))
        /\ txnlog' = {c \in txnlog : c.n < n}
        /\ nested' = nested \ {n}
  BY DEF FailNested
<1>2. /\ CSN(Local, n) \in CSNs /\ CSN(Local, n).rid = Local /\ CSN(Local, n).n = n
      /\ Local \in Rids /\ Local \notin Remotes /\ n \in Nat
  BY <1>t, LocalRid DEF CSN, CSNs
<1>3. tls[t] # CSN(Local, n)
  BY <1>t DEF VectorInv, PrimaryIsOp, NestedPending, Running
<1>4. UNCHANGED tls
  BY <1>1, <1>3 DEF ClearPrimary
<1>5. ~(minpl.on /\ \A m \in minpl.list : m.n # CSN(Local, n).n)
  BY <1>2 DEF VectorInv, MinTracks
<1>6. /\ minpl' = MinList(minpl.on, {m \in minpl.list : m.n # n})
      /\ CancelInProgress(t, CSN(Local, n))
  BY <1>1, <1>2, <1>5 DEF AbortCSN
<1>7. pl' = [pl EXCEPT ![Local] = {e \in @ : e.n # n}]
  BY <1>2, <1>3, <1>6 DEF CancelInProgress
<1>8. /\ pl'[Local] = {e \in pl[Local] : e.n # n}
      /\ \A q \in Rids : q # Local => pl'[q] = pl[q]
      /\ \A q \in Rids : pl'[q] \subseteq pl[q]
      /\ minpl'.on = minpl.on /\ minpl'.list = {m \in minpl.list : m.n # n}
  BY <1>t, <1>2, <1>6, <1>7 DEF MinList
<1>9. VectorTypeOK'
  <2>1. pl' \in [Rids -> SUBSET Pending]
    BY <1>t, <1>2, <1>7
  <2>2. minpl' \in [on : BOOLEAN, list : SUBSET MinPending]
    BY <1>t, <1>6 DEF MinList
  <2> QED
    BY <1>t, <1>1, <1>4, <2>1, <2>2 DEF VectorInv, VectorTypeOK
<1>10. (SerialLock /\ OneReplicated /\ PrimaryIsOp /\ OpsNumbered)'
  BY <1>t, <1>4 DEF VectorInv, SerialLock, OneReplicated, PrimaryIsOp, OpsNumbered,
                    HasTxn, Replicated, Running
<1>11. (PendingOwned /\ PendingNotCovered)'
  BY <1>t, <1>8 DEF VectorInv, PendingOwned, PendingNotCovered, Running, Covers
<1>12. OwnPending'
  <2>1. ASSUME NEW u \in Threads, Running(u)
        PROVE  \E e \in pl'[op[u].csn.rid] : e.n = op[u].csn.n
    <3>1. PICK e \in pl[op[u].csn.rid] : e.n = op[u].csn.n
      BY <2>1 DEF VectorInv, OwnPending
    <3>2. op[u].csn.rid \in Rids /\ op[u].csn \in CSNs
      BY DEF VectorInv, VectorTypeOK, OpRecord, CSNs
    <3>3. CASE op[u].csn.rid # Local
      BY <1>8, <3>1, <3>2, <3>3
    <3>4. CASE op[u].csn.rid = Local
      <4>1. op[u].pc = "txn"
        BY <1>2, <2>1, <3>4 DEF VectorInv, OpsNumbered, Running
      <4>2. op[u].csn # CSN(Local, n)
        BY <4>1 DEF VectorInv, NestedPending
      <4>3. op[u].csn.n # n
        BY <3>2, <3>4, <4>2 DEF CSNs, CSN
      <4> QED
        BY <1>8, <3>1, <3>4, <4>3
    <3> QED
      BY <3>3, <3>4
  <2> QED
    BY <1>t, <2>1 DEF OwnPending, Running
<1>13. NestedPending'
  BY <1>t, <1>1, <1>8 DEF VectorInv, NestedPending
<1>14. TxnLogged'
  <2>1. ASSUME NEW c \in txnlog, c.n < n PROVE c.n # n
    BY <1>2, <1>t, <2>1 DEF CSNs
  <2>2. \A u \in Threads : HasTxn(u) => u = t
    BY <1>t DEF VectorInv, SerialLock, HasTxn
  <2> QED
    BY <1>t, <1>1, <1>8, <2>1, <2>2 DEF VectorInv, TxnLogged, HasTxn, Covers
<1>15. (NextAbove /\ LoggedIsCovered)'
  BY <1>t, <1>8 DEF VectorInv, NextAbove, LoggedIsCovered, Covers
<1>16. FailedGone'
  <2>1. \A u \in Threads : op[u].csn.rid \in Rids
    BY DEF VectorInv, VectorTypeOK, OpRecord, CSNs
  <2> QED
    BY <1>t, <1>8, <2>1 DEF VectorInv, FailedGone
<1>17. MinTracks'
  <2>1. ASSUME minpl'.on, NEW i \in nested' PROVE \E m \in minpl'.list : m.n = i
    BY <1>1, <1>8, <2>1 DEF VectorInv, MinTracks
  <2>2. ASSUME minpl'.on, NEW u \in Threads, op[u].pc = "txn", op[u].csn.rid = Local
        PROVE  \E m \in minpl'.list : m.n = op[u].csn.n
    <3>1. op[u].csn # CSN(Local, n) /\ op[u].csn \in CSNs
      BY <2>2 DEF VectorInv, NestedPending, VectorTypeOK, OpRecord
    <3>2. op[u].csn.n # n
      BY <2>2, <3>1 DEF CSNs, CSN
    <3> QED
      BY <1>8, <2>2, <3>2 DEF VectorInv, MinTracks
  <2> QED
    BY <1>t, <1>8, <2>1, <2>2 DEF VectorInv, MinTracks
<1> QED
  BY <1>9, <1>10, <1>11, <1>12, <1>13, <1>14, <1>15, <1>16, <1>17 DEF VectorInv

(* What the end of an operation in its transaction leaves, committed or    *)
(* cancelled: its lists are empty and its thread has no primary CSN.       *)
LEMMA EndEffect ==
  ASSUME VectorInv, NEW t \in Threads, op[t].pc = "txn", nested = {},
         NEW pc \in {"written", "failed"},
         pl' = [r \in Rids |-> IF r \in {op[t].csn.rid, Local} THEN {} ELSE pl[r]],
         ClearPrimary(t, op[t].csn),
         op' = [op EXCEPT ![t] = Op(pc, op[t].csn)],
         UNCHANGED <<nested, nextLocal>>
  PROVE  /\ pl' \in [Rids -> SUBSET Pending] /\ tls' \in [Threads -> CSNs]
         /\ op' \in [Threads -> OpRecord]
         /\ SerialLock' /\ OneReplicated' /\ PrimaryIsOp' /\ OpsNumbered'
         /\ PendingOwned' /\ OwnPending' /\ NestedPending' /\ FailedGone'
<1> DEFINE c == op[t].csn
<1>t. /\ pl \in [Rids -> SUBSET Pending] /\ tls \in [Threads -> CSNs]
      /\ op \in [Threads -> OpRecord] /\ nextLocal \in Nat
  BY DEF VectorInv, VectorTypeOK
<1>c. /\ Local \in Rids /\ Local \notin Remotes /\ NoCSN \in CSNs
      /\ \A u \in Threads : op[u].csn \in CSNs /\ op[u].csn.rid \in Rids
  BY <1>t, LocalRid DEF CSNs, OpRecord
<1>1. tls' = [tls EXCEPT ![t] = NoCSN]
  BY DEF VectorInv, PrimaryIsOp, Running, ClearPrimary
<1>2. Op(pc, c) \in OpRecord
  BY <1>c DEF Op, OpRecord
<1>3. /\ op'[t].pc = pc /\ op'[t].csn = c /\ tls'[t] = NoCSN
      /\ \A u \in Threads : u # t => op'[u] = op[u] /\ tls'[u] = tls[u]
  BY <1>t, <1>1 DEF Op
<1>4. /\ \A r \in Rids : pl'[r] \subseteq pl[r]
      /\ pl'[c.rid] = {} /\ pl'[Local] = {}
      /\ \A r \in Rids : r \notin {c.rid, Local} => pl'[r] = pl[r]
  BY <1>c
<1>5. pl' \in [Rids -> SUBSET Pending] /\ tls' \in [Threads -> CSNs]
      /\ op' \in [Threads -> OpRecord]
  BY <1>t, <1>c, <1>1, <1>2
<1>6. (SerialLock /\ OneReplicated)'
  BY <1>3 DEF VectorInv, SerialLock, OneReplicated, HasTxn, Replicated
<1>7. PrimaryIsOp'
  BY <1>3 DEF VectorInv, PrimaryIsOp, Running
<1>8. OpsNumbered'
  BY <1>3 DEF VectorInv, OpsNumbered
<1>9. PendingOwned'
  <2>1. ASSUME NEW r \in Rids, NEW e \in pl'[r]
        PROVE  \E u \in Threads : /\ op'[u].pc \in {"preop", "txn"}
                                  /\ e.prim = op'[u].csn
                                  /\ r # Local => op'[u].csn = CSN(r, e.n)
                                  /\ r = Local => op'[u].pc = "txn"
    <3>1. r \notin {c.rid, Local} /\ e \in pl[r]
      BY <1>4, <2>1
    <3>2. PICK u \in Threads : /\ op[u].pc \in {"preop", "txn"}
                               /\ e.prim = op[u].csn
                               /\ op[u].csn = CSN(r, e.n)
      BY <3>1 DEF VectorInv, PendingOwned, Running
    <3>3. u # t
      BY <3>1, <3>2 DEF CSN
    <3> QED
      BY <1>3, <3>1, <3>2, <3>3
  <2> QED
    BY <2>1 DEF PendingOwned, Running
<1>10. OwnPending'
  <2>1. ASSUME NEW u \in Threads, op'[u].pc \in {"preop", "txn"}
        PROVE  \E e \in pl'[op'[u].csn.rid] : e.n = op'[u].csn.n
    <3>1. u # t /\ op'[u] = op[u]
      BY <1>3, <2>1
    <3>2. op[u].csn.rid # Local
      BY <1>c, <2>1, <3>1 DEF VectorInv, OpsNumbered, SerialLock, HasTxn
    <3>3. op[u].csn.rid # c.rid
      BY <1>c, <2>1, <3>1, <3>2 DEF VectorInv, OneReplicated, Replicated, Rids
    <3> QED
      BY <1>c, <1>4, <2>1, <3>1, <3>2, <3>3 DEF VectorInv, OwnPending, Running
  <2> QED
    BY <2>1 DEF OwnPending, Running
<1>11. NestedPending'
  BY DEF NestedPending
<1>12. FailedGone'
  BY <1>c, <1>3, <1>4 DEF VectorInv, FailedGone
<1> QED
  BY <1>5, <1>6, <1>7, <1>8, <1>9, <1>10, <1>11, <1>12

LEMMA WriteChangelogInv ==
  ASSUME VectorInv, NEW t \in Threads, WriteChangelogAndRuv(t) PROVE VectorInv'
<1> DEFINE c == op[t].csn
<1>u. /\ op[t].pc = "txn" /\ nested = {}
      /\ txnlog' = txnlog \cup {c}
      /\ ReplicaUpdateRuv(t, c) /\ ClearPrimary(t, c)
      /\ op' = [op EXCEPT ![t] = Op("written", c)]
      /\ UNCHANGED <<nested, log, nextLocal, session, skipped>>
  BY DEF WriteChangelogAndRuv
<1>t. /\ max \in [Rids -> Nat] /\ min \in [Rids -> Nat]
      /\ pl \in [Rids -> SUBSET Pending] /\ op \in [Threads -> OpRecord]
      /\ txnlog \subseteq CSNs /\ log \subseteq CSNs /\ nextLocal \in Nat
      /\ c \in CSNs /\ c.rid \in Rids /\ Local \in Rids
  BY LocalRid DEF VectorInv, VectorTypeOK, OpRecord, CSNs
<1>1. /\ pl' = [r \in Rids |-> IF r \in {c.rid, Local} THEN {} ELSE pl[r]]
      /\ max' \in [Rids -> Nat]
      /\ \A r \in Rids : max[r] <= max'[r]
      /\ \A r \in Rids : r \in {c.rid, Local} => \A e \in pl[r] : e.n <= max'[r]
      /\ \A r \in Rids : max'[r] # max[r] =>
           \E e \in pl[r] : e.n = max'[r] /\ r \in {c.rid, Local}
  BY <1>u, WriteEffect DEF ReplicaUpdateRuv
<1>2. /\ pl' \in [Rids -> SUBSET Pending] /\ tls' \in [Threads -> CSNs]
      /\ op' \in [Threads -> OpRecord]
      /\ SerialLock' /\ OneReplicated' /\ PrimaryIsOp' /\ OpsNumbered'
      /\ PendingOwned' /\ OwnPending' /\ NestedPending' /\ FailedGone'
  BY <1>u, <1>1, EndEffect
<1>3. /\ min' \in [Rids -> Nat]
      /\ minpl' \in [on : BOOLEAN, list : SUBSET MinPending]
      /\ minpl'.on => minpl.on /\ \A k \in minpl'.list : \E m \in minpl.list : k.n = m.n
  <2>1. CASE c.rid = Local
    BY <1>u, <1>t, <2>1, MinEffect DEF ReplicaUpdateRuv, VectorInv
  <2>2. CASE c.rid # Local
    <3>1. UpdateRemoteMin(t, c) /\ minpl' = minpl
      BY <1>u, <2>2 DEF ReplicaUpdateRuv
    <3>2. RolledCSNs(c.rid, c) \subseteq Nat
      <4>1. \A e \in CommitAll(c.rid, c) : e.n \in Nat
        BY <1>t DEF CommitAll, Pending
      <4> QED
        BY <4>1 DEF RolledCSNs, RollUp
    <3>3. min' \in [Rids -> Nat]
      BY <1>t, <3>1, <3>2 DEF UpdateRemoteMin
    <3> QED
      BY <3>1, <3>3 DEF VectorInv, VectorTypeOK
  <2> QED
    BY <2>1, <2>2
<1>4. VectorTypeOK'
  BY <1>u, <1>t, <1>1, <1>2, <1>3 DEF VectorInv, VectorTypeOK
<1>5. PendingNotCovered'
  BY <1>t, <1>1 DEF VectorInv, PendingNotCovered, Covers, CSN
<1>6. TxnLogged'
  <2>1. op'[t].pc = "written"
    BY <1>u, <1>t DEF Op
  <2>2. ASSUME NEW d \in txnlog PROVE d.rid = Local /\ d.n <= max'[Local]
    <3>1. PICK u \in Threads :
            /\ HasTxn(u)
            /\ op[u].pc = "txn" => d.rid = Local /\ \E e \in pl[Local] : e.n = d.n
      BY DEF VectorInv, TxnLogged
    <3>2. u = t
      BY <1>u, <3>1 DEF VectorInv, SerialLock, HasTxn
    <3> QED
      BY <1>u, <1>t, <1>1, <3>1, <3>2
  <2>3. c.n <= max'[c.rid]
    BY <1>u, <1>t, <1>1 DEF VectorInv, OwnPending, Running
  <2> QED
    BY <1>u, <2>1, <2>2, <2>3 DEF TxnLogged, HasTxn, Covers
<1>7. NextAbove'
  <2>1. \A e \in pl[Local] : e.n \in Nat
    BY <1>t DEF Pending
  <2> QED
    BY <1>u, <1>t, <1>1, <2>1 DEF VectorInv, NextAbove
<1>8. MinTracks'
  <2>1. ASSUME NEW u \in Threads PROVE op'[u].pc # "txn"
    BY <1>u, <1>t DEF VectorInv, SerialLock, HasTxn, Op
  <2> QED
    BY <1>u, <1>3, <2>1 DEF VectorInv, MinTracks
<1>9. LoggedIsCovered'
  <2>1. ASSUME NEW d \in log PROVE d.n <= max'[d.rid]
    <3>1. d.rid \in Rids /\ d.n \in Nat /\ d.n <= max[d.rid]
      BY <1>t DEF VectorInv, LoggedIsCovered, Covers, CSNs
    <3>2. max[d.rid] \in Nat /\ max'[d.rid] \in Nat /\ max[d.rid] <= max'[d.rid]
      BY <1>t, <1>1, <3>1
    <3> QED
      BY <3>1, <3>2
  <2> QED
    BY <1>u, <2>1 DEF LoggedIsCovered, Covers
<1> QED
  BY <1>2, <1>4, <1>5, <1>6, <1>7, <1>8, <1>9 DEF VectorInv

LEMMA FailInTxnInv ==
  ASSUME VectorInv, NEW t \in Threads, FailInTxn(t) PROVE VectorInv'
<1> DEFINE c == op[t].csn
<1>u. /\ op[t].pc = "txn" /\ nested = {} /\ txnlog' = {}
      /\ CancelOpCSN(t, c) /\ ClearPrimary(t, c)
      /\ op' = [op EXCEPT ![t] = Op("failed", c)]
      /\ UNCHANGED <<max, min, nested, log, nextLocal, session, skipped>>
  BY DEF FailInTxn
<1>t. /\ pl \in [Rids -> SUBSET Pending] /\ op \in [Threads -> OpRecord]
      /\ minpl \in [on : BOOLEAN, list : SUBSET MinPending]
      /\ Local \in Rids
  BY LocalRid DEF VectorInv, VectorTypeOK
<1>1. /\ CancelInProgress(t, c)
      /\ minpl' \in [on : BOOLEAN, list : SUBSET MinPending]
      /\ minpl'.on = minpl.on /\ minpl'.list \subseteq minpl.list
  <2>1. CASE c.rid = Local
    <3>1. ~(minpl.on /\ \A m \in minpl.list : m.n # c.n)
      BY <1>u, <2>1 DEF VectorInv, MinTracks
    <3>2. /\ minpl' = MinList(minpl.on, {m \in minpl.list : m.n # c.n})
          /\ CancelInProgress(t, c)
      BY <1>u, <2>1, <3>1 DEF CancelOpCSN, AbortCSN
    <3> QED
      BY <1>t, <3>2 DEF MinList
  <2>2. CASE c.rid # Local
    BY <1>u, <1>t, <2>2 DEF CancelOpCSN
  <2> QED
    BY <2>1, <2>2
<1>2. pl' = [r \in Rids |-> IF r \in {c.rid, Local} THEN {} ELSE pl[r]]
  BY <1>u, <1>1, CancelEffect
<1>3. /\ pl' \in [Rids -> SUBSET Pending] /\ tls' \in [Threads -> CSNs]
      /\ op' \in [Threads -> OpRecord]
      /\ SerialLock' /\ OneReplicated' /\ PrimaryIsOp' /\ OpsNumbered'
      /\ PendingOwned' /\ OwnPending' /\ NestedPending' /\ FailedGone'
  BY <1>u, <1>2, EndEffect
<1>4. VectorTypeOK'
  BY <1>u, <1>1, <1>3 DEF VectorInv, VectorTypeOK
<1>5. PendingNotCovered'
  BY <1>u, <1>2 DEF VectorInv, PendingNotCovered, Covers
<1>6. (TxnLogged /\ NextAbove /\ LoggedIsCovered)'
  BY <1>u, <1>t, <1>2 DEF VectorInv, TxnLogged, NextAbove, LoggedIsCovered, Covers
<1>7. MinTracks'
  <2>1. ASSUME NEW u \in Threads PROVE op'[u].pc # "txn"
    BY <1>u, <1>t DEF VectorInv, SerialLock, HasTxn, Op
  <2> QED
    BY <1>u, <1>1, <2>1 DEF VectorInv, MinTracks
<1> QED
  BY <1>3, <1>4, <1>5, <1>6, <1>7 DEF VectorInv

LEMMA CommitTxnInv ==
  ASSUME VectorInv, NEW t \in Threads, CommitTxn(t) PROVE VectorInv'
<1>u. /\ op[t].pc = "written" /\ log' = log \cup txnlog /\ txnlog' = {}
      /\ op' = [op EXCEPT ![t] = Op("done", op[t].csn)]
      /\ UNCHANGED <<max, min, pl, minpl, tls, nested, nextLocal, session, skipped>>
  BY DEF CommitTxn
<1>t. op \in [Threads -> OpRecord] /\ op[t].csn \in CSNs
  BY DEF VectorInv, VectorTypeOK, OpRecord
<1>1. /\ op'[t].pc = "done" /\ op'[t].csn = op[t].csn
      /\ \A u \in Threads : u # t => op'[u] = op[u]
  BY <1>u, <1>t DEF Op
<1>2. VectorTypeOK'
  BY <1>u, <1>t DEF VectorInv, VectorTypeOK, Op, OpRecord
<1>3. (SerialLock /\ OneReplicated /\ PrimaryIsOp /\ OpsNumbered)'
  BY <1>u, <1>1 DEF VectorInv, SerialLock, OneReplicated, PrimaryIsOp, OpsNumbered,
                    HasTxn, Replicated, Running
<1>4. (PendingOwned /\ OwnPending /\ NestedPending)'
  BY <1>u, <1>1 DEF VectorInv, PendingOwned, OwnPending, NestedPending, Running
<1>5. (PendingNotCovered /\ NextAbove /\ FailedGone /\ MinTracks /\ TxnLogged)'
  BY <1>u, <1>1 DEF VectorInv, PendingNotCovered, NextAbove, FailedGone, MinTracks,
                    TxnLogged, Covers
<1>6. LoggedIsCovered'
  <2>1. ASSUME NEW c \in txnlog PROVE Covers(c)
    BY <1>u, <2>1 DEF VectorInv, TxnLogged, SerialLock, HasTxn
  <2> QED
    BY <1>u, <2>1 DEF VectorInv, LoggedIsCovered, Covers
<1> QED
  BY <1>2, <1>3, <1>4, <1>5, <1>6 DEF VectorInv

LEMMA ProcessPostopInv ==
  ASSUME VectorInv, NEW t \in Threads, ProcessPostop(t) \/ ProcessPostopFailed(t)
  PROVE  VectorInv'
<1> DEFINE c == op[t].csn
<1>t. /\ op \in [Threads -> OpRecord] /\ pl \in [Rids -> SUBSET Pending]
      /\ minpl \in [on : BOOLEAN, list : SUBSET MinPending]
      /\ session \in [open : BOOLEAN, next : [Remotes -> Nat]]
      /\ c \in CSNs /\ c.rid \in Rids /\ c.n \in Nat /\ Local \in Rids
      /\ NoCSN \in CSNs /\ skipped \subseteq CSNs
  BY LocalRid DEF VectorInv, VectorTypeOK, OpRecord, CSNs
<1>u. /\ op[t].pc \in {"done", "failed"}
      /\ op' = [op EXCEPT ![t] = Op("idle", NoCSN)]
      /\ UNCHANGED <<max, min, tls, nested, txnlog, log, nextLocal>>
  BY DEF ProcessPostop, ProcessPostopFailed
<1>s. session' \in [open : BOOLEAN, next : [Remotes -> Nat]] /\ skipped' \subseteq CSNs
  BY <1>t DEF ProcessPostop, ProcessPostopFailed
<1>1. /\ op'[t].pc = "idle" /\ op'[t].csn = NoCSN
      /\ \A u \in Threads : u # t => op'[u] = op[u]
  BY <1>u, <1>t DEF Op
<1>2. /\ pl' = pl
      /\ \/ minpl' = minpl
         \/ /\ op[t].pc = "failed" /\ c.rid = Local
            /\ minpl' = MinList(minpl.on, {m \in minpl.list : m.n # c.n})
  <2>1. CASE ProcessPostop(t)
    BY <2>1 DEF ProcessPostop
  <2>2. CASE ProcessPostopFailed(t)
    <3>1. op[t].pc = "failed" /\ CancelOpCSN(t, c)
      BY <2>2 DEF ProcessPostopFailed
    <3>2. tls[t] # c
      BY <1>t, <3>1 DEF VectorInv, PrimaryIsOp, OpsNumbered, Running, NoCSN, CSN
    <3>3. {e \in pl[c.rid] : e.n # c.n} = pl[c.rid]
      BY <3>1 DEF VectorInv, FailedGone
    <3>4. CancelInProgress(t, c) => pl' = pl
      BY <1>t, <3>2, <3>3 DEF CancelInProgress
    <3> QED
      BY <3>1, <3>4 DEF CancelOpCSN, AbortCSN
  <2> QED
    BY <2>1, <2>2
<1>3. /\ minpl' \in [on : BOOLEAN, list : SUBSET MinPending]
      /\ minpl'.on = minpl.on /\ minpl'.list \subseteq minpl.list
  BY <1>t, <1>2 DEF MinList
<1>4. VectorTypeOK'
  BY <1>u, <1>t, <1>s, <1>2, <1>3 DEF VectorInv, VectorTypeOK, Op, OpRecord
<1>5. SerialLock' /\ PrimaryIsOp'
  BY <1>u, <1>1 DEF VectorInv, SerialLock, PrimaryIsOp, HasTxn, Running
<1>6. OneReplicated' /\ OpsNumbered'
  BY <1>u, <1>1 DEF VectorInv, OneReplicated, OpsNumbered, Replicated
<1>7. (PendingOwned /\ OwnPending /\ NestedPending)'
  BY <1>u, <1>1, <1>2 DEF VectorInv, PendingOwned, OwnPending, NestedPending, Running
<1>8. (PendingNotCovered /\ NextAbove /\ FailedGone /\ LoggedIsCovered)'
  BY <1>u, <1>1, <1>2 DEF VectorInv, PendingNotCovered, NextAbove, FailedGone,
                          LoggedIsCovered, Covers
<1>9. TxnLogged'
  BY <1>u, <1>1, <1>2 DEF VectorInv, TxnLogged, HasTxn, Covers
<1>10. MinTracks'
  <2>1. CASE minpl' = minpl
    BY <1>u, <1>1, <2>1 DEF VectorInv, MinTracks
  <2>2. CASE minpl' # minpl
    <3>1. op[t].pc = "failed" /\ c.rid = Local
          /\ minpl'.list = {m \in minpl.list : m.n # c.n}
      BY <1>2, <2>2 DEF MinList
    <3>2. \A e \in pl[Local] : e.n # c.n
      BY <3>1 DEF VectorInv, FailedGone
    <3>3. ASSUME minpl.on, NEW u \in Threads, op[u].pc = "txn", op[u].csn.rid = Local
          PROVE  \E m \in minpl'.list : m.n = op[u].csn.n
      <4>1. op[u].csn.n # c.n
        BY <3>2, <3>3 DEF VectorInv, OwnPending, Running
      <4> QED
        BY <3>1, <3>3, <4>1 DEF VectorInv, MinTracks
    <3>4. ASSUME minpl.on, NEW n \in nested PROVE \E m \in minpl'.list : m.n = n
      <4>1. n # c.n
        BY <3>2 DEF VectorInv, NestedPending
      <4> QED
        BY <3>1, <3>4, <4>1 DEF VectorInv, MinTracks
    <3> QED
      BY <1>u, <1>1, <1>3, <3>3, <3>4 DEF VectorInv, MinTracks
  <2> QED
    BY <2>1, <2>2
<1> QED
  BY <1>4, <1>5, <1>6, <1>7, <1>8, <1>9, <1>10 DEF VectorInv

LEMMA StepInv == VectorInv /\ [Next]_vars => VectorInv'
<1> SUFFICES ASSUME VectorInv, [Next]_vars PROVE VectorInv'
  OBVIOUS
<1>1. CASE OpenSession \/ CloseSession
  BY <1>1, SessionInv
<1>2. ASSUME NEW t \in Threads, ThreadStep(t) PROVE VectorInv'
  BY <1>2, ReplicatedPreopInv, BeginReplicatedInv, BeginLocalInv, BeginNestedInv,
     EndNestedInv, FailNestedInv, WriteChangelogInv, FailInTxnInv, CommitTxnInv,
     ProcessPostopInv DEF ThreadStep
<1>3. CASE UNCHANGED vars
  <2>1. VectorTypeOK'
    BY <1>3 DEF vars, VectorInv, VectorTypeOK
  <2>2. (SerialLock /\ OneReplicated /\ PrimaryIsOp /\ OpsNumbered)'
    BY <1>3 DEF vars, VectorInv, SerialLock, OneReplicated, PrimaryIsOp, OpsNumbered,
                HasTxn, Replicated, Running
  <2>3. (PendingOwned /\ PendingNotCovered /\ OwnPending /\ NestedPending)'
    BY <1>3 DEF vars, VectorInv, PendingOwned, PendingNotCovered, OwnPending,
                NestedPending, Running, Covers
  <2>4. (TxnLogged /\ NextAbove /\ FailedGone /\ MinTracks /\ LoggedIsCovered)'
    BY <1>3 DEF vars, VectorInv, TxnLogged, NextAbove, FailedGone, MinTracks,
                LoggedIsCovered, HasTxn, Covers
  <2> QED
    BY <2>1, <2>2, <2>3, <2>4 DEF VectorInv
<1> QED
  BY <1>1, <1>2, <1>3 DEF Next

-----------------------------------------------------------------------------
(* Every state of the replica satisfies the inductive invariant: the       *)
(* SERIAL lock, the order of the session and the thread-local primary CSN  *)
(* together tie each pending CSN to the one operation that will end it.    *)
THEOREM VectorInvariant == Spec => []VectorInv
BY InitInv, StepInv, PTL DEF Spec

(* The structures of repl5_ruv.c and csnpl.c keep their types: no update   *)
(* and no failure loses an element of the vector.                          *)
THEOREM VectorTypeCorrect == Spec => []VectorTypeOK
<1>1. VectorInv => VectorTypeOK
  BY DEF VectorInv
<1> QED
  BY <1>1, VectorInvariant, PTL

(* write_changelog_and_ruv: a change in the changelog is covered by the    *)
(* RUV, for any number of threads, replicas and nested updates.            *)
THEOREM AlwaysCovered == Spec => []LoggedIsCovered
<1>1. VectorInv => LoggedIsCovered
  BY DEF VectorInv
<1> QED
  BY <1>1, VectorInvariant, PTL

(* ruv_update_ruv: the RUV never covers a CSN that may still be cancelled. *)
THEOREM PendingUncovered == Spec => []PendingNotCovered
<1>1. VectorInv => PendingNotCovered
  BY DEF VectorInv
<1> QED
  BY <1>1, VectorInvariant, PTL

(* ruv_cancel_csn_inprogress and csnplRollUp leave nothing behind: a CSN   *)
(* in a pending list belongs to an operation that still runs.              *)
THEOREM PendingOwnedByRunning == Spec => []PendingIsRunning
<1>1. VectorInv => PendingIsRunning
  BY DEF VectorInv, PendingOwned, PendingIsRunning, Running
<1> QED
  BY <1>1, VectorInvariant, PTL

-----------------------------------------------------------------------------
(* The session and the RUV: a change of a remote replica that the RUV      *)
(* covers was handled.                                                     *)

Handled == log \cup txnlog \cup skipped

(* The operation of thread t has not been answered with success.           *)
Unsettled(t) == op[t].pc \in {"preop", "txn", "failed"}

(* The cursor of an open session has passed only changes that were handled *)
(* and the one that is being applied.                                      *)
CursorKept ==
  session.open => \A r \in Remotes : \A n \in Nat :
    1 <= n /\ n < session.next[r] =>
      \/ CSN(r, n) \in Handled
      \/ \E t \in Threads : Unsettled(t) /\ op[t].csn = CSN(r, n)

OpBehindCursor ==
  \A t \in Threads : Replicated(t) =>
    session.open /\ op[t].csn.n < session.next[op[t].csn.rid]

CoverInv == CoveredIsApplied /\ CursorKept /\ OpBehindCursor

LEMMA CoverInit == Init => CoverInv
BY VectorAssumption
   DEF Init, CoverInv, CoveredIsApplied, CursorKept, OpBehindCursor, Rids, Replicated, Op

(* In its transaction an operation has logged nothing but its nested       *)
(* updates, which are local.                                               *)
LEMMA TxnLogIsLocal ==
  ASSUME VectorInv, NEW t \in Threads, op[t].pc = "txn", NEW c \in txnlog
  PROVE  c.rid = Local /\ \E e \in pl[Local] : e.n = c.n
BY DEF VectorInv, TxnLogged, SerialLock, HasTxn

(* A step that keeps the session, the max CSNs of the remote replicas and  *)
(* what was handled, and replaces an unsettled operation only by a handled *)
(* one.                                                                    *)
LEMMA CoverKept ==
  ASSUME VectorInv, CoverInv, UNCHANGED session,
         \A r \in Remotes : max'[r] = max[r],
         \A r \in Remotes : \A n \in Nat : CSN(r, n) \in Handled => CSN(r, n) \in Handled',
         \A t \in Threads : op'[t].pc # "idle" /\ op'[t].csn.rid \in Remotes =>
           Replicated(t) /\ op'[t].csn = op[t].csn,
         \A t \in Threads : Unsettled(t) /\ op[t].csn.rid \in Remotes =>
           \/ op'[t].pc \in {"preop", "txn", "failed"} /\ op'[t].csn = op[t].csn
           \/ op[t].csn \in Handled'
  PROVE  CoverInv'
<1>1. CoveredIsApplied'
  <2>1. \A r \in Remotes : max[r] \in Nat
    BY DEF VectorInv, VectorTypeOK, Rids
  <2> SUFFICES ASSUME NEW r \in Remotes, NEW n \in 1..max'[r] PROVE CSN(r, n) \in Handled'
    BY DEF CoveredIsApplied, Handled
  <2>2. n \in 1..max[r] /\ n \in Nat
    BY <2>1
  <2>3. CSN(r, n) \in Handled
    BY <2>2 DEF CoverInv, CoveredIsApplied, Handled
  <2> QED
    BY <2>2, <2>3
<1>2. CursorKept'
  <2> SUFFICES ASSUME session.open, NEW r \in Remotes, NEW n \in Nat,
                      1 <= n, n < session.next[r]
               PROVE  \/ CSN(r, n) \in Handled'
                      \/ \E t \in Threads : Unsettled(t)' /\ op'[t].csn = CSN(r, n)
    BY DEF CursorKept, Handled
  <2>1. CASE CSN(r, n) \in Handled
    BY <2>1
  <2>2. CASE CSN(r, n) \notin Handled
    <3>1. PICK t \in Threads : Unsettled(t) /\ op[t].csn = CSN(r, n)
      BY <2>2 DEF CoverInv, CursorKept
    <3>2. op[t].csn.rid = r /\ op[t].csn.n = n
      BY <3>1 DEF CSN
    <3> QED
      BY <3>1, <3>2 DEF Unsettled
  <2> QED
    BY <2>1, <2>2
<1>3. OpBehindCursor'
  BY DEF CoverInv, OpBehindCursor, Replicated
<1> QED
  BY <1>1, <1>2, <1>3 DEF CoverInv

LEMMA CoverOpenSession ==
  ASSUME VectorInv, CoverInv, OpenSession PROVE CoverInv'
<1>1. /\ ~session.open /\ session'.open
      /\ session'.next \in [Remotes -> 1..MaxRemote + 1]
      /\ \A r \in Remotes : session'.next[r] <= max[r] + 1
      /\ UNCHANGED <<max, min, pl, minpl, tls, op, nested, txnlog, log, nextLocal, skipped>>
  BY DEF OpenSession
<1>2. \A t \in Threads : ~Replicated(t)
  BY <1>1 DEF CoverInv, OpBehindCursor
<1>3. CoveredIsApplied'
  BY <1>1 DEF CoverInv, CoveredIsApplied
<1>4. CursorKept'
  <2>1. ASSUME NEW r \in Remotes, NEW n \in Nat, 1 <= n, n < session'.next[r]
        PROVE  CSN(r, n) \in Handled'
    <3>1. max[r] \in Nat /\ session'.next[r] \in Nat
      BY <1>1, VectorAssumption DEF VectorInv, VectorTypeOK, Rids
    <3>2. n \in 1..max[r]
      BY <1>1, <2>1, <3>1
    <3> QED
      BY <1>1, <3>2 DEF CoverInv, CoveredIsApplied, Handled
  <2> QED
    BY <2>1 DEF CursorKept, Handled
<1>5. OpBehindCursor'
  BY <1>1, <1>2 DEF OpBehindCursor, Replicated
<1> QED
  BY <1>3, <1>4, <1>5 DEF CoverInv

LEMMA CoverCloseSession ==
  ASSUME VectorInv, CoverInv, CloseSession PROVE CoverInv'
<1>1. /\ ~session'.open /\ \A t \in Threads : ~Replicated(t)
      /\ UNCHANGED <<max, op, txnlog, log, skipped>>
  BY DEF CloseSession, VectorInv, VectorTypeOK
<1> QED
  BY <1>1 DEF CoverInv, CoveredIsApplied, CursorKept, OpBehindCursor, Replicated

(* The supplier's next change is taken up, or was handled before: with no  *)
(* replicated operation running, its list is empty.                        *)
LEMMA CoverPreop ==
  ASSUME VectorInv, CoverInv, NEW t \in Threads, NEW r \in Remotes, ReplicatedPreop(t, r)
  PROVE  CoverInv'
<1> DEFINE c == CSN(r, session.next[r])
<1>t. /\ op \in [Threads -> OpRecord] /\ max[r] \in Nat /\ r \in Rids
      /\ session \in [open : BOOLEAN, next : [Remotes -> Nat]]
      /\ pl \in [Rids -> SUBSET Pending]
  BY DEF VectorInv, VectorTypeOK, Rids
<1>u. /\ session.open /\ op[t].pc = "idle"
      /\ \A u \in Threads : ~Replicated(u)
      /\ op' = [op EXCEPT ![t] = IF NewToRUV(c) THEN Op("preop", c) ELSE @]
      /\ session' = [session EXCEPT !.next[r] = @ + 1]
      /\ UNCHANGED <<max, txnlog, log, skipped>>
  BY DEF ReplicatedPreop
<1>c. c.rid = r /\ c.n = session.next[r] /\ c.n \in Nat
  BY <1>t DEF CSN
<1>1. /\ session'.open /\ session'.next[r] = c.n + 1
      /\ \A q \in Remotes : q # r => session'.next[q] = session.next[q]
  BY <1>t, <1>u, <1>c
<1>2. \A u \in Threads : u # t => op'[u] = op[u]
  BY <1>t, <1>u
<1>3. CoveredIsApplied'
  BY <1>u DEF CoverInv, CoveredIsApplied
<1>4. ASSUME NEW q \in Remotes, NEW n \in Nat, 1 <= n, n < session.next[q]
      PROVE  CSN(q, n) \in Handled'
  <2>1. ~(\E u \in Threads : Unsettled(u) /\ op[u].csn = CSN(q, n))
    BY <1>u DEF Replicated, Unsettled, CSN
  <2> QED
    BY <1>u, <1>4, <2>1 DEF CoverInv, CursorKept, Handled
<1>5. ~SeenInList(c)
  <2>1. ASSUME NEW e \in pl[r] PROVE FALSE
    <3>1. PICK u \in Threads : Running(u) /\ op[u].csn = CSN(r, e.n)
      BY <1>t, <2>1, LocalRid DEF VectorInv, PendingOwned
    <3> QED
      BY <1>u, <3>1 DEF Running, Replicated, CSN
  <2> QED
    BY <1>c, <2>1 DEF SeenInList
<1>6. CASE NewToRUV(c)
  <2>1. op'[t].pc = "preop" /\ op'[t].csn = c
    BY <1>t, <1>u, <1>6 DEF Op
  <2>2. CursorKept'
    <3> SUFFICES ASSUME NEW q \in Remotes, NEW n \in Nat, 1 <= n, n < session'.next[q]
                 PROVE  \/ CSN(q, n) \in Handled'
                        \/ \E u \in Threads : op'[u].pc \in {"preop", "txn", "failed"}
                                              /\ op'[u].csn = CSN(q, n)
      BY DEF CursorKept, Handled, Unsettled
    <3>1. CASE q = r /\ n = c.n
      BY <1>c, <2>1, <3>1
    <3>2. CASE ~(q = r /\ n = c.n)
      <4>1. n < session.next[q]
        BY <1>t, <1>c, <1>1, <3>2
      <4> QED
        BY <1>4, <4>1
    <3> QED
      BY <3>1, <3>2
  <2>3. OpBehindCursor'
    BY <1>u, <1>c, <1>1, <1>2, <2>1 DEF OpBehindCursor, Replicated
  <2> QED
    BY <1>3, <2>2, <2>3 DEF CoverInv
<1>7. CASE ~NewToRUV(c)
  <2>1. op' = op
    BY <1>t, <1>u, <1>7
  <2>2. c.n <= max[r]
    BY <1>c, <1>5, <1>7 DEF NewToRUV, Covers
  <2>3. CursorKept'
    <3> SUFFICES ASSUME NEW q \in Remotes, NEW n \in Nat, 1 <= n, n < session'.next[q]
                 PROVE  CSN(q, n) \in Handled'
      BY DEF CursorKept, Handled
    <3>1. CASE q = r /\ n = c.n
      <4>1. n \in 1..max[r]
        BY <1>t, <1>c, <2>2, <3>1
      <4> QED
        BY <1>u, <3>1, <4>1 DEF CoverInv, CoveredIsApplied, Handled
    <3>2. CASE ~(q = r /\ n = c.n)
      <4>1. n < session.next[q]
        BY <1>t, <1>c, <1>1, <3>2
      <4> QED
        BY <1>4, <4>1
    <3> QED
      BY <3>1, <3>2
  <2>4. OpBehindCursor'
    BY <1>u, <2>1 DEF OpBehindCursor, Replicated
  <2> QED
    BY <1>3, <2>3, <2>4 DEF CoverInv
<1> QED
  BY <1>6, <1>7

(* The steps that neither move the cursor nor the max CSN of a remote      *)
(* replica.  An aborted transaction had logged no replicated change.       *)
LEMMA CoverQuiet ==
  ASSUME VectorInv, CoverInv, NEW t \in Threads,
         \/ BeginReplicated(t) \/ BeginLocal(t) \/ BeginNested(t) \/ EndNested(t)
         \/ FailNested(t) \/ FailInTxn(t) \/ CommitTxn(t) \/ ProcessPostop(t)
  PROVE  CoverInv'
<1>t. op \in [Threads -> OpRecord] /\ Local \notin Remotes /\ Local \in Rids
  BY LocalRid DEF VectorInv, VectorTypeOK
<1>1. CASE BeginReplicated(t)
  BY <1>1, <1>t, CoverKept DEF BeginReplicated, Handled, Unsettled, Replicated, Op
<1>2. CASE BeginLocal(t)
  <2>1. CSN(Local, nextLocal).rid = Local
    BY DEF CSN
  <2>2. /\ UNCHANGED <<max, txnlog, log, session, skipped>> /\ op[t].pc = "idle"
        /\ op'[t].csn.rid = Local /\ \A u \in Threads : u # t => op'[u] = op[u]
    BY <1>2, <1>t, <2>1 DEF BeginLocal, Op
  <2> QED
    BY <1>t, <2>2, CoverKept DEF Handled, Unsettled, Replicated
<1>3. CASE BeginNested(t)
  BY <1>3, CoverKept DEF BeginNested, Handled, Unsettled, Replicated
<1>4. CASE EndNested(t)
  <2>1. PICK n \in nested : /\ txnlog' = txnlog \cup {CSN(Local, n)}
                            /\ ReplicaUpdateRuv(t, CSN(Local, n))
    BY <1>4 DEF EndNested
  <2>2. op[t].pc = "txn" /\ UNCHANGED <<op, log, session, skipped>>
    BY <1>4 DEF EndNested
  <2>3. tls[t] # CSN(Local, n)
    BY <2>2 DEF VectorInv, PrimaryIsOp, NestedPending, Running
  <2>4. max' = max
    BY <2>1, <2>3 DEF ReplicaUpdateRuv, UpdateRuv
  <2> QED
    BY <2>1, <2>2, <2>4, CoverKept DEF Handled, Unsettled, Replicated
<1>5. CASE FailNested(t)
  <2>1. /\ op[t].pc = "txn" /\ UNCHANGED <<max, op, log, session, skipped>>
    BY <1>5 DEF FailNested
  <2>2. \A c \in txnlog : c.rid = Local
    BY <2>1, TxnLogIsLocal
  <2>3. \A r \in Remotes : \A n \in Nat : CSN(r, n) \in Handled => CSN(r, n) \in Handled'
    BY <1>t, <2>1, <2>2 DEF Handled, CSN
  <2> QED
    BY <2>1, <2>3, CoverKept DEF Unsettled, Replicated
<1>6. CASE FailInTxn(t)
  <2>1. /\ op[t].pc = "txn" /\ UNCHANGED <<max, log, session, skipped>>
        /\ op'[t].pc = "failed" /\ op'[t].csn = op[t].csn
        /\ \A u \in Threads : u # t => op'[u] = op[u]
    BY <1>6, <1>t DEF FailInTxn, Op
  <2>2. \A c \in txnlog : c.rid = Local
    BY <2>1, TxnLogIsLocal
  <2>3. \A r \in Remotes : \A n \in Nat : CSN(r, n) \in Handled => CSN(r, n) \in Handled'
    BY <1>t, <2>1, <2>2 DEF Handled, CSN
  <2> QED
    BY <2>1, <2>3, CoverKept DEF Unsettled, Replicated
<1>7. CASE CommitTxn(t)
  BY <1>7, <1>t, CoverKept DEF CommitTxn, Handled, Unsettled, Replicated, Op
<1>8. CASE ProcessPostop(t)
  BY <1>8, <1>t, CoverKept DEF ProcessPostop, Handled, Unsettled, Replicated, Op
<1> QED
  BY <1>1, <1>2, <1>3, <1>4, <1>5, <1>6, <1>7, <1>8

(* A replicated update ends: what its CSN takes the max CSN over was       *)
(* handled before, and itself is now in the changelog.                     *)
LEMMA CoverWrite ==
  ASSUME VectorInv, CoverInv, NEW t \in Threads, WriteChangelogAndRuv(t)
  PROVE  CoverInv'
<1> DEFINE c == op[t].csn
<1>u. /\ op[t].pc = "txn" /\ UNCHANGED <<log, session, skipped>>
      /\ txnlog' = txnlog \cup {c} /\ ReplicaUpdateRuv(t, c)
      /\ op' = [op EXCEPT ![t] = Op("written", c)]
  BY DEF WriteChangelogAndRuv
<1>t. /\ op \in [Threads -> OpRecord] /\ max \in [Rids -> Nat]
      /\ Local \notin Remotes /\ Local \in Rids
      /\ c \in CSNs /\ c.rid \in Rids /\ c.n \in Nat
      /\ session.next \in [Remotes -> Nat]
      /\ pl \in [Rids -> SUBSET Pending]
  BY LocalRid DEF VectorInv, VectorTypeOK, OpRecord, CSNs
<1>c. c = CSN(c.rid, c.n)
  BY <1>t DEF CSNs, CSN
<1>o. /\ op'[t].pc = "written" /\ op'[t].csn = c
      /\ \A u \in Threads : u # t => op'[u] = op[u]
  BY <1>u, <1>t DEF Op
<1>h. \A r \in Remotes : \A n \in Nat : CSN(r, n) \in Handled => CSN(r, n) \in Handled'
  BY <1>u DEF Handled
<1>s. c \in Handled'
  BY <1>u, <1>c DEF Handled
<1>1. UpdateRuv(t, c)
  BY <1>u DEF ReplicaUpdateRuv
<1>2. /\ max' \in [Rids -> Nat]
      /\ \A r \in Rids : max'[r] # max[r] =>
           \E e \in pl[r] : e.n = max'[r] /\ r \in {c.rid, Local}
  BY <1>1, <1>u, WriteEffect
<1>3. ASSUME NEW r \in Remotes, max'[r] # max[r]
      PROVE  r = c.rid /\ max'[r] = c.n
  <2>1. PICK e \in pl[r] : e.n = max'[r] /\ r \in {c.rid, Local}
    BY <1>2, <1>3 DEF Rids
  <2>2. r = c.rid
    BY <1>t, <2>1
  <2>3. PICK u \in Threads : Running(u) /\ op[u].csn = CSN(r, e.n)
    BY <1>t, <2>1, <2>2 DEF VectorInv, PendingOwned
  <2>4. u = t
    BY <1>u, <2>2, <2>3 DEF VectorInv, OneReplicated, Replicated, Running, CSN
  <2> QED
    BY <2>1, <2>2, <2>3, <2>4 DEF CSN
<1>4. CoveredIsApplied'
  <2> SUFFICES ASSUME NEW r \in Remotes, NEW n \in 1..max'[r] PROVE CSN(r, n) \in Handled'
    BY DEF CoveredIsApplied, Handled
  <2>t. max[r] \in Nat /\ max'[r] \in Nat /\ n \in Nat /\ 1 <= n
    BY <1>t, <1>2 DEF Rids
  <2>1. CASE n \in 1..max[r]
    BY <1>h, <2>1, <2>t DEF CoverInv, CoveredIsApplied, Handled
  <2>2. CASE n \notin 1..max[r]
    <3>1. r = c.rid /\ n <= c.n
      BY <1>3, <2>2, <2>t
    <3>2. CASE n = c.n
      BY <1>c, <1>s, <3>1, <3>2
    <3>3. CASE n # c.n
      <4>1. session.open /\ c.n < session.next[r]
        BY <1>u, <3>1 DEF CoverInv, OpBehindCursor, Replicated
      <4>2. n < session.next[r] /\ n < c.n
        BY <1>t, <3>1, <3>3, <4>1, <2>t
      <4>3. ~(\E u \in Threads : Unsettled(u) /\ op[u].csn = CSN(r, n))
        <5> SUFFICES ASSUME NEW u \in Threads, Unsettled(u), op[u].csn = CSN(r, n)
                     PROVE  FALSE
          OBVIOUS
        <5>1. u = t
          BY <1>u, <3>1 DEF VectorInv, OneReplicated, Replicated, Unsettled, CSN
        <5> QED
          BY <3>3, <5>1 DEF CSN
      <4> QED
        BY <1>h, <2>t, <4>1, <4>2, <4>3 DEF CoverInv, CursorKept
    <3> QED
      BY <3>2, <3>3
  <2> QED
    BY <2>1, <2>2
<1>5. CursorKept'
  <2> SUFFICES ASSUME session.open, NEW r \in Remotes, NEW n \in Nat,
                      1 <= n, n < session.next[r]
               PROVE  \/ CSN(r, n) \in Handled'
                      \/ \E u \in Threads : op'[u].pc \in {"preop", "txn", "failed"}
                                            /\ op'[u].csn = CSN(r, n)
    BY <1>u DEF CursorKept, Handled, Unsettled
  <2>1. CASE CSN(r, n) \in Handled
    BY <1>h, <2>1
  <2>2. CASE CSN(r, n) \notin Handled
    <3>1. PICK u \in Threads : Unsettled(u) /\ op[u].csn = CSN(r, n)
      BY <2>2 DEF CoverInv, CursorKept
    <3>2. CASE u = t
      <4>1. c.rid = r /\ c.n = n
        BY <3>1, <3>2 DEF CSN
      <4> QED
        BY <1>c, <1>s, <4>1
    <3>3. CASE u # t
      BY <1>o, <3>1, <3>3 DEF Unsettled
    <3> QED
      BY <3>2, <3>3
  <2> QED
    BY <2>1, <2>2
<1>6. OpBehindCursor'
  BY <1>u, <1>o DEF CoverInv, OpBehindCursor, Replicated
<1> QED
  BY <1>4, <1>5, <1>6 DEF CoverInv

(* process_postop of a failed update: the session goes on without the      *)
(* change, or ends.                                                        *)
LEMMA CoverPostopFailed ==
  ASSUME VectorInv, CoverInv, NEW t \in Threads, ProcessPostopFailed(t)
  PROVE  CoverInv'
<1> DEFINE c == op[t].csn
<1>u. /\ op[t].pc = "failed" /\ UNCHANGED <<max, txnlog, log>>
      /\ op' = [op EXCEPT ![t] = Op("idle", NoCSN)]
      /\ \/ Replicated(t) /\ skipped' = skipped \cup {c} /\ session' = session
         \/ /\ session' = IF Replicated(t) THEN [session EXCEPT !.open = FALSE] ELSE session
            /\ skipped' = skipped
  BY DEF ProcessPostopFailed
<1>t. /\ op \in [Threads -> OpRecord] /\ c \in CSNs
      /\ session \in [open : BOOLEAN, next : [Remotes -> Nat]]
  BY DEF VectorInv, VectorTypeOK, OpRecord
<1>c. c = CSN(c.rid, c.n)
  BY <1>t DEF CSNs, CSN
<1>o. /\ op'[t].pc = "idle" /\ \A u \in Threads : u # t => op'[u] = op[u]
  BY <1>u, <1>t DEF Op
<1>h. \A r \in Remotes : \A n \in Nat : CSN(r, n) \in Handled => CSN(r, n) \in Handled'
  BY <1>u DEF Handled
<1>1. CASE ~Replicated(t)
  <2>1. op[t].csn.rid \notin Remotes /\ session' = session
    BY <1>u, <1>1 DEF Replicated
  <2> QED
    BY <1>u, <1>o, <1>h, <2>1, CoverKept DEF Unsettled, Replicated
<1>2. CASE Replicated(t) /\ skipped' = skipped \cup {c} /\ session' = session
  <2>1. c \in Handled'
    BY <1>2, <1>c DEF Handled
  <2> QED
    BY <1>u, <1>o, <1>h, <1>2, <2>1, CoverKept DEF Unsettled, Replicated
<1>3. CASE Replicated(t) /\ session' = [session EXCEPT !.open = FALSE] /\ skipped' = skipped
  <2>1. ~session'.open
    BY <1>3, <1>t
  <2>2. \A u \in Threads : ~(op'[u].csn.rid \in Remotes /\ op'[u].pc # "idle")
    BY <1>o, <1>3 DEF VectorInv, OneReplicated, Replicated
  <2> QED
    BY <1>u, <1>3, <2>1, <2>2
       DEF CoverInv, CoveredIsApplied, CursorKept, OpBehindCursor, Replicated
<1> QED
  BY <1>u, <1>1, <1>2, <1>3

LEMMA CoverNext == VectorInv /\ CoverInv /\ [Next]_vars => CoverInv'
<1> SUFFICES ASSUME VectorInv, CoverInv, [Next]_vars PROVE CoverInv'
  OBVIOUS
<1>1. CASE OpenSession \/ CloseSession
  BY <1>1, CoverOpenSession, CoverCloseSession
<1>2. ASSUME NEW t \in Threads, ThreadStep(t) PROVE CoverInv'
  BY <1>2, CoverPreop, CoverQuiet, CoverWrite, CoverPostopFailed DEF ThreadStep
<1>3. CASE UNCHANGED vars
  BY <1>3 DEF vars, CoverInv, CoveredIsApplied, CursorKept, OpBehindCursor,
              Handled, Unsettled, Replicated
<1> QED
  BY <1>1, <1>2, <1>3 DEF Next

(* A supplier that trusts the RUV loses nothing: every change of a remote  *)
(* replica that the RUV covers is in the changelog, in the transaction     *)
(* that is about to commit, or was given up on purpose, for any number of  *)
(* threads, suppliers' replicas and changes, and through every failure.    *)
THEOREM RemoteCoveredIsApplied == Spec => []CoveredIsApplied
<1>1. CoverInv => CoveredIsApplied
  BY DEF CoverInv
<1> QED
  BY <1>1, CoverInit, CoverNext, VectorInvariant, PTL DEF Spec

-----------------------------------------------------------------------------
(* The min CSNs.                                                           *)

(* The min CSN of a remote replica was the CSN of its first change here.   *)
RemoteMin ==
  \A r \in Remotes :
    /\ min[r] <= max[r]
    /\ \A c \in log \cup txnlog : c.rid = r => 0 < min[r] /\ min[r] <= c.n

(* The CSNs of the local update in its transaction and of those nested in  *)
(* the transaction.                                                        *)
OpenCSNs ==
  {n \in Nat : \/ n \in nested
               \/ \E t \in Threads : op[t].pc = "txn" /\ op[t].csn = CSN(Local, n)}

(* While min_csn_pl exists no local change is in the changelog; what the   *)
(* open transaction has logged comes after a CSN that is still open.       *)
MinOpen ==
  minpl.on =>
    /\ min[Local] = 0
    /\ \A c \in log : c.rid # Local
    /\ \A m \in minpl.list : m.n >= 1
    /\ \A m \in minpl.list : m.committed = TRUE \/ m.n \in OpenCSNs
    /\ \A c \in txnlog : c.rid = Local =>
         \E m \in minpl.list : m.committed = FALSE /\ m.n < c.n

(* Once it is freed, the min CSN is at or below every local CSN in use and *)
(* to come.                                                                *)
MinSet ==
  ~minpl.on =>
    /\ minpl.list = {}
    /\ 0 < min[Local] /\ min[Local] <= nextLocal
    /\ \A c \in log \cup txnlog : c.rid = Local => min[Local] <= c.n
    /\ \A n \in OpenCSNs : min[Local] <= n

MinInv == RemoteMin /\ MinOpen /\ MinSet /\ nextLocal >= 1

LEMMA MinInit == Init => MinInv
BY LocalRid, VectorAssumption
   DEF Init, MinInv, RemoteMin, MinOpen, MinSet, OpenCSNs, MinList, Rids, Op

(* A set of numbers that is not empty has a least one.                     *)
LEMMA LeastNumber ==
  ASSUME NEW S \in SUBSET Nat, S # {}
  PROVE  \E x \in S : \A y \in S : x <= y
<1>1. PICK x \in S : \A y \in S : ~(<<y, x>> \in OpToRel(<, Nat))
  BY NatLessThanWellFounded, WFMin
<1>2. ASSUME NEW y \in S PROVE x <= y
  <2>1. ~(y < x)
    BY <1>1 DEF OpToRel
  <2> QED
    BY <2>1
<1> QED
  BY <1>2

(* The SERIAL lock: with no thread in a transaction no CSN is open and     *)
(* nothing is logged that may be taken back.                               *)
LEMMA NothingOpen ==
  ASSUME VectorInv, \A t \in Threads : op[t].pc # "txn"
  PROVE  nested = {} /\ OpenCSNs = {}
<1>1. \A n \in nested : \E e \in pl[Local] : e.n = n
  BY DEF VectorInv, NestedPending
<1>2. pl[Local] = {}
  BY LocalRid DEF VectorInv, PendingOwned
<1> QED
  BY <1>1, <1>2 DEF OpenCSNs

(* A local CSN that is open is in the list for the min CSN, if there is    *)
(* one, and below the next CSN of the generator.                           *)
LEMMA OpenListed ==
  ASSUME VectorInv, NEW n \in OpenCSNs
  PROVE  /\ n < nextLocal
         /\ minpl.on => \E m \in minpl.list : m.n = n
         /\ \E e \in pl[Local] : e.n = n
         /\ \E t \in Threads : op[t].pc = "txn"
<1>1. CASE n \in nested
  <2>1. \E e \in pl[Local] : e.n = n
    BY <1>1 DEF VectorInv, NestedPending
  <2>2. \E t \in Threads : op[t].pc = "txn"
    BY <2>1, LocalRid DEF VectorInv, PendingOwned
  <2>3. n < nextLocal
    BY <2>1 DEF VectorInv, NextAbove
  <2> QED
    BY <1>1, <2>1, <2>2, <2>3 DEF VectorInv, MinTracks
<1>2. CASE n \notin nested
  <2>1. PICK t \in Threads : op[t].pc = "txn" /\ op[t].csn = CSN(Local, n)
    BY <1>2 DEF OpenCSNs
  <2>2. op[t].csn.rid = Local /\ op[t].csn.n = n
    BY <2>1 DEF CSN
  <2>3. \E e \in pl[Local] : e.n = n
    BY <2>1, <2>2 DEF VectorInv, OwnPending, Running
  <2>4. n < nextLocal
    BY <2>3 DEF VectorInv, NextAbove
  <2> QED
    BY <2>1, <2>2, <2>3, <2>4 DEF VectorInv, MinTracks
<1> QED
  BY <1>1, <1>2

LEMMA RemoteMinKept ==
  ASSUME VectorInv, VectorInv', MinInv,
         \A r \in Remotes : min'[r] = min[r] /\ max[r] <= max'[r],
         \A c \in log' \cup txnlog' : c.rid \in Remotes => c \in log \cup txnlog
  PROVE  RemoteMin'
<1>1. \A r \in Remotes : /\ min[r] \in Nat /\ max[r] \in Nat
                         /\ min'[r] \in Nat /\ max'[r] \in Nat
  BY DEF VectorInv, VectorTypeOK, Rids
<1>2. \A r \in Remotes : min'[r] <= max'[r]
  BY <1>1 DEF MinInv, RemoteMin
<1> QED
  BY <1>2 DEF MinInv, RemoteMin

(* A step that opens and closes no local CSN and leaves the list for the   *)
(* min CSN alone.                                                          *)
LEMMA LocalMinKept ==
  ASSUME VectorInv, MinInv, UNCHANGED <<minpl, nextLocal>>, min'[Local] = min[Local],
         \A c \in log' : c.rid = Local => c \in log \/ (c \in txnlog /\ ~minpl.on),
         \A c \in txnlog' : c.rid = Local => c \in txnlog,
         OpenCSNs' = OpenCSNs
  PROVE  MinOpen' /\ MinSet' /\ nextLocal' >= 1
<1>1. minpl.on => \A m \in minpl.list : m.n \in Nat
  BY DEF VectorInv, VectorTypeOK, MinPending
<1>2. MinOpen'
  BY <1>1 DEF MinInv, MinOpen
<1>3. MinSet'
  BY DEF MinInv, MinSet
<1> QED
  BY <1>2, <1>3 DEF MinInv

(* assign_csn_callback opens a local CSN.                                  *)
LEMMA MinAssign ==
  ASSUME VectorInv, MinInv, NEW t \in Threads, AssignCSN(t, CSN(Local, nextLocal)),
         nextLocal' = nextLocal + 1, UNCHANGED <<min, txnlog, log>>,
         OpenCSNs' = OpenCSNs \cup {nextLocal}
  PROVE  MinOpen' /\ MinSet' /\ nextLocal' >= 1
<1>t. /\ nextLocal \in Nat /\ nextLocal >= 1 /\ min[Local] \in Nat
      /\ minpl \in [on : BOOLEAN, list : SUBSET MinPending]
      /\ CSN(Local, nextLocal).n = nextLocal
  BY LocalRid DEF VectorInv, VectorTypeOK, MinInv, CSN
<1>1. CASE ~minpl.on
  <2>1. minpl' = minpl
    BY <1>1 DEF AssignCSN
  <2> QED
    BY <1>1, <1>t, <2>1 DEF MinInv, MinOpen, MinSet
<1>2. CASE minpl.on
  <2> DEFINE new == [n |-> nextLocal, committed |-> FALSE]
  <2>1. \A m \in minpl.list : m.n \in Nat /\ m.n < nextLocal
    BY <1>2, <1>t DEF VectorInv, MinTracks, MinPending
  <2>2. minpl' = MinList(TRUE, minpl.list \cup {new})
    <3>1. ~(\E m \in minpl.list : m.n >= CSN(Local, nextLocal).n)
      BY <1>t, <2>1
    <3> QED
      BY <1>2, <1>t, <3>1 DEF AssignCSN
  <2>3. minpl'.on /\ minpl'.list = minpl.list \cup {new}
    BY <2>2 DEF MinList
  <2>4. \A m \in minpl'.list : m.n >= 1 /\ (m.committed = TRUE \/ m.n \in OpenCSNs')
    <3>1. ASSUME NEW m \in minpl.list
          PROVE  m.n >= 1 /\ (m.committed = TRUE \/ m.n \in OpenCSNs')
      BY <1>2, <2>1 DEF MinInv, MinOpen
    <3>2. new.n >= 1 /\ nextLocal \in OpenCSNs' /\ new.n = nextLocal
      BY <1>t
    <3> QED
      BY <2>3, <3>1, <3>2
  <2>5. \A c \in txnlog : c.rid = Local =>
          \E m \in minpl'.list : m.committed = FALSE /\ m.n < c.n
    BY <1>2, <2>3 DEF MinInv, MinOpen
  <2> QED
    BY <1>2, <1>t, <2>3, <2>4, <2>5 DEF MinInv, MinOpen, MinSet
<1> QED
  BY <1>1, <1>2

(* replica_update_ruv closes a local CSN: it is the oldest of the list, or *)
(* the oldest is still open.                                               *)
LEMMA MinClose ==
  ASSUME VectorInv, MinInv, NEW n \in OpenCSNs,
         UpdateLocalMin(CSN(Local, n)), UNCHANGED <<log, nextLocal>>,
         txnlog' = txnlog \cup {CSN(Local, n)},
         OpenCSNs' = OpenCSNs \ {n}
  PROVE  /\ MinOpen' /\ MinSet' /\ nextLocal' >= 1
         /\ \A r \in Remotes : min'[r] = min[r]
<1> DEFINE c == CSN(Local, n)
           list == MinCommitted(c)
           head == {m \in list : \A k \in list : m.n <= k.n}
<1>t. /\ nextLocal \in Nat /\ nextLocal >= 1 /\ min \in [Rids -> Nat] /\ Local \in Rids
      /\ Remotes \subseteq Rids /\ Local \notin Remotes
      /\ minpl \in [on : BOOLEAN, list : SUBSET MinPending]
      /\ c.n = n /\ c.rid = Local /\ txnlog \subseteq CSNs
  BY LocalRid DEF VectorInv, VectorTypeOK, MinInv, CSN, Rids
<1>1. CASE ~minpl.on
  <2>1. list = {}
    BY <1>1 DEF MinInv, MinSet, MinCommitted
  <2>2. minpl' = MinList(minpl.on, list) /\ min' = min
    BY <2>1 DEF UpdateLocalMin
  <2>3. ~minpl'.on /\ minpl'.list = {} /\ min' = min
    BY <1>1, <2>1, <2>2 DEF MinList
  <2>4. min[Local] <= n
    BY <1>1 DEF MinInv, MinSet
  <2> QED
    BY <1>1, <1>t, <2>3, <2>4 DEF MinInv, MinOpen, MinSet
<1>2. CASE minpl.on
  <2>1. \A k \in list : k.n \in Nat /\ \E m \in minpl.list : k.n = m.n
    BY <1>t DEF MinCommitted, MinPending
  <2>2. \A m \in minpl.list : \E k \in list : k.n = m.n
    <3> TAKE m \in minpl.list
    <3> DEFINE k == [n |-> m.n, committed |-> m.committed \/ m.n = c.n]
    <3>1. k \in list /\ k.n = m.n
      BY DEF MinCommitted
    <3> QED
      BY <3>1
  <2>3. PICK h \in list : \A k \in list : h.n <= k.n
    <3> DEFINE S == {k.n : k \in list}
    <3>1. S \in SUBSET Nat /\ S # {}
      BY <1>2, <2>1, <2>2, OpenListed
    <3>2. PICK x \in S : \A y \in S : x <= y
      BY <3>1, LeastNumber
    <3> QED
      BY <3>2
  <2>4. /\ h.n \in Nat /\ h.n >= 1 /\ h.n < nextLocal
        /\ \A m \in minpl.list : h.n <= m.n
    BY <1>2, <2>1, <2>2, <2>3 DEF MinInv, MinOpen, VectorInv, MinTracks
  <2>5. \A k \in OpenCSNs : h.n <= k
    BY <1>2, <2>4, OpenListed
  <2>6. \A d \in txnlog : d.rid = Local => h.n < d.n
    <3> SUFFICES ASSUME NEW d \in txnlog, d.rid = Local PROVE h.n < d.n
      OBVIOUS
    <3>1. PICK m \in minpl.list : m.n < d.n
      BY <1>2 DEF MinInv, MinOpen
    <3>2. m.n \in Nat /\ d.n \in Nat
      BY <1>t DEF MinPending, CSNs
    <3> QED
      BY <2>4, <3>1, <3>2
  <2>7. CASE \E m \in head : m.committed
    <3>1. minpl' = MinList(FALSE, {})
      BY <2>7 DEF UpdateLocalMin
    <3>2. PICK m \in head :
            min' = [min EXCEPT ![Local] = IF @ = 0 \/ m.n < @ THEN m.n ELSE @]
      BY <2>7 DEF UpdateLocalMin
    <3>3. m.n = h.n
      BY <2>1, <2>3, <3>2
    <3>4. min'[Local] = h.n /\ \A r \in Remotes : min'[r] = min[r]
      BY <1>2, <1>t, <3>2, <3>3 DEF MinInv, MinOpen
    <3>5. ~minpl'.on /\ minpl'.list = {}
      BY <3>1 DEF MinList
    <3>6. MinSet'
      <4>1. h.n > 0 /\ h.n <= nextLocal' /\ h.n <= n
        BY <1>t, <2>4, <2>5
      <4>2. \A d \in log' \cup txnlog' : d.rid = Local => h.n <= d.n
        <5>1. \A d \in txnlog : d.n \in Nat
          BY <1>t DEF CSNs
        <5> QED
          BY <1>2, <1>t, <2>4, <2>6, <4>1, <5>1 DEF MinInv, MinOpen
      <4> QED
        BY <2>5, <3>4, <3>5, <4>1, <4>2 DEF MinSet
    <3> QED
      BY <1>t, <3>4, <3>5, <3>6 DEF MinOpen
  <2>8. CASE ~(\E m \in head : m.committed)
    <3>1. minpl' = MinList(minpl.on, list) /\ min' = min
      BY <2>8 DEF UpdateLocalMin
    <3>2. minpl'.on /\ minpl'.list = list
      BY <1>2, <3>1 DEF MinList
    <3>3. ASSUME NEW k \in list
          PROVE  k.n >= 1 /\ (k.committed = TRUE \/ k.n \in OpenCSNs')
      <4>1. PICK m \in minpl.list :
              k = [n |-> m.n, committed |-> m.committed \/ m.n = c.n]
        BY DEF MinCommitted
      <4>2. k.n = m.n /\ m.n \in Nat /\ k.committed = (m.committed \/ m.n = c.n)
            /\ m.committed \in BOOLEAN
        BY <1>t, <4>1 DEF MinPending
      <4>3. m.n >= 1 /\ (m.committed = TRUE \/ m.n \in OpenCSNs)
        BY <1>2 DEF MinInv, MinOpen
      <4>4. CASE m.committed = TRUE \/ m.n = n
        BY <1>t, <4>2, <4>3, <4>4
      <4>5. CASE ~(m.committed = TRUE \/ m.n = n)
        BY <4>2, <4>3, <4>5
      <4> QED
        BY <4>4, <4>5
    <3>4. h.committed = FALSE /\ h.n # n
      <4>1. PICK m \in minpl.list :
              h = [n |-> m.n, committed |-> m.committed \/ m.n = c.n]
        BY DEF MinCommitted
      <4>2. h.n = m.n /\ h.committed = (m.committed \/ m.n = c.n)
            /\ (m.committed \/ m.n = c.n) \in BOOLEAN
        BY <1>t, <4>1 DEF MinPending
      <4>3. ~h.committed
        BY <2>3, <2>8
      <4> QED
        BY <1>t, <4>2, <4>3
    <3>5. \A d \in txnlog' : d.rid = Local =>
            \E k \in list : k.committed = FALSE /\ k.n < d.n
      <4>1. h.n < c.n
        BY <1>t, <2>4, <2>5, <3>4 DEF OpenCSNs
      <4> QED
        BY <2>6, <3>4, <4>1
    <3> QED
      BY <1>2, <1>t, <3>1, <3>2, <3>3, <3>5 DEF MinInv, MinOpen, MinSet
  <2> QED
    BY <2>7, <2>8
<1> QED
  BY <1>1, <1>2

(* abort_csn_callback closes a local CSN, or cancels it once more.         *)
LEMMA MinCancel ==
  ASSUME VectorInv, MinInv, NEW n \in Nat,
         minpl' = MinList(minpl.on, {m \in minpl.list : m.n # n}),
         UNCHANGED <<min, log, nextLocal>>,
         txnlog' \subseteq txnlog,
         \A c \in txnlog' : c.rid = Local => c.n < n \/ n \notin OpenCSNs,
         OpenCSNs' = OpenCSNs \ {n}
  PROVE  MinOpen' /\ MinSet' /\ nextLocal' >= 1
<1>1. minpl'.on = minpl.on /\ minpl'.list = {m \in minpl.list : m.n # n}
  BY DEF MinList
<1>2. MinSet'
  BY <1>1 DEF MinInv, MinSet
<1>3. MinOpen'
  <2> SUFFICES ASSUME minpl.on
               PROVE  /\ min[Local] = 0
                      /\ \A c \in log : c.rid # Local
                      /\ \A m \in minpl'.list : m.n >= 1
                      /\ \A m \in minpl'.list : m.committed = TRUE \/ m.n \in OpenCSNs'
                      /\ \A c \in txnlog' : c.rid = Local =>
                           \E m \in minpl'.list : m.committed = FALSE /\ m.n < c.n
    BY <1>1 DEF MinOpen
  <2>t. /\ \A m \in minpl.list : m.n \in Nat
        /\ \A c \in txnlog : c.n \in Nat
    BY DEF VectorInv, VectorTypeOK, MinPending, CSNs
  <2>1. ASSUME NEW c \in txnlog', c.rid = Local
        PROVE  \E m \in minpl'.list : m.committed = FALSE /\ m.n < c.n
    <3>1. PICK m \in minpl.list : m.committed = FALSE /\ m.n < c.n
      BY <2>1 DEF MinInv, MinOpen
    <3>2. m.n \in OpenCSNs
      BY <3>1 DEF MinInv, MinOpen
    <3>3. m.n # n
      BY <2>1, <2>t, <3>1, <3>2
    <3> QED
      BY <1>1, <3>1, <3>3
  <2>2. \A m \in minpl'.list : m.committed = TRUE \/ m.n \in OpenCSNs'
    BY <1>1, <2>t DEF MinInv, MinOpen
  <2> QED
    BY <1>1, <2>1, <2>2 DEF MinInv, MinOpen
<1> QED
  BY <1>2, <1>3 DEF MinInv

(* The steps that leave both kinds of min CSN and the local CSNs alone.    *)
LEMMA MinQuiet ==
  ASSUME VectorInv, VectorInv', MinInv,
         UNCHANGED <<max, min, minpl, nested, txnlog, log, nextLocal>>,
         OpenCSNs' = OpenCSNs
  PROVE  MinInv'
BY RemoteMinKept, LocalMinKept, LocalRid DEF MinInv, VectorInv, VectorTypeOK, Rids

LEMMA MinSteps ==
  ASSUME VectorInv, VectorInv', MinInv, NEW t \in Threads,
         \/ \E r \in Remotes : ReplicatedPreop(t, r)
         \/ BeginReplicated(t) \/ ProcessPostop(t)
  PROVE  MinInv'
<1>t. op \in [Threads -> OpRecord] /\ Local \notin Remotes
  BY LocalRid DEF VectorInv, VectorTypeOK
<1>2. ASSUME NEW r \in Remotes, ReplicatedPreop(t, r) PROVE MinInv'
  <2>1. /\ UNCHANGED <<max, min, minpl, nested, txnlog, log, nextLocal>>
        /\ op[t].pc = "idle" /\ op'[t].pc \in {"idle", "preop"}
        /\ \A u \in Threads : u # t => op'[u] = op[u]
    BY <1>2, <1>t DEF ReplicatedPreop, Op
  <2>2. OpenCSNs' = OpenCSNs
    BY <2>1 DEF OpenCSNs
  <2> QED
    BY <2>1, <2>2, MinQuiet
<1>3. CASE BeginReplicated(t)
  <2>1. /\ UNCHANGED <<max, min, minpl, nested, txnlog, log, nextLocal>>
        /\ op[t].pc = "preop" /\ op'[t].pc = "txn" /\ op'[t].csn = op[t].csn
        /\ \A u \in Threads : u # t => op'[u] = op[u]
    BY <1>3, <1>t DEF BeginReplicated, Op
  <2>2. op[t].csn.rid # Local
    BY <1>t, <2>1 DEF VectorInv, OpsNumbered
  <2>3. OpenCSNs' = OpenCSNs
    BY <2>1, <2>2 DEF OpenCSNs, CSN
  <2> QED
    BY <2>1, <2>3, MinQuiet
<1>4. CASE ProcessPostop(t)
  <2>1. /\ UNCHANGED <<max, min, minpl, nested, txnlog, log, nextLocal>>
        /\ op[t].pc = "done" /\ op'[t].pc = "idle"
        /\ \A u \in Threads : u # t => op'[u] = op[u]
    BY <1>4, <1>t DEF ProcessPostop, Op
  <2>2. OpenCSNs' = OpenCSNs
    BY <2>1 DEF OpenCSNs
  <2> QED
    BY <2>1, <2>2, MinQuiet
<1> QED
  BY <1>2, <1>3, <1>4

LEMMA MinBegin ==
  ASSUME VectorInv, VectorInv', MinInv, NEW t \in Threads,
         BeginLocal(t) \/ BeginNested(t)
  PROVE  MinInv'
<1>t. op \in [Threads -> OpRecord] /\ nextLocal \in Nat
  BY DEF VectorInv, VectorTypeOK
<1>1. /\ AssignCSN(t, CSN(Local, nextLocal)) /\ nextLocal' = nextLocal + 1
      /\ UNCHANGED <<max, min, txnlog, log>>
  BY DEF BeginLocal, BeginNested
<1>2. OpenCSNs' = OpenCSNs \cup {nextLocal}
  <2>1. CASE BeginLocal(t)
    <3>1. /\ op[t].pc = "idle" /\ nested' = nested
          /\ op'[t].pc = "txn" /\ op'[t].csn = CSN(Local, nextLocal)
          /\ \A u \in Threads : u # t => op'[u] = op[u]
      BY <1>t, <2>1 DEF BeginLocal, Op
    <3>2. \A n \in Nat : CSN(Local, nextLocal) = CSN(Local, n) <=> n = nextLocal
      BY <1>t DEF CSN
    <3> QED
      BY <1>t, <3>1, <3>2 DEF OpenCSNs
  <2>2. CASE BeginNested(t)
    BY <1>t, <2>2 DEF BeginNested, OpenCSNs
  <2> QED
    BY <2>1, <2>2
<1>3. MinOpen' /\ MinSet' /\ nextLocal' >= 1
  BY <1>1, <1>2, MinAssign
<1>4. RemoteMin'
  <2>1. \A r \in Remotes : min'[r] = min[r] /\ max[r] <= max'[r]
    BY <1>1 DEF VectorInv, VectorTypeOK, Rids
  <2> QED
    BY <1>1, <2>1, RemoteMinKept
<1> QED
  BY <1>3, <1>4 DEF MinInv

LEMMA MinEndNested ==
  ASSUME VectorInv, VectorInv', MinInv, NEW t \in Threads, EndNested(t)
  PROVE  MinInv'
<1>t. /\ nested \subseteq Nat /\ op[t].pc = "txn" /\ UNCHANGED <<op, log, nextLocal>>
      /\ Local \notin Remotes
  BY LocalRid DEF VectorInv, VectorTypeOK, EndNested
<1>1. PICK n \in nested : /\ txnlog' = txnlog \cup {CSN(Local, n)}
                          /\ ReplicaUpdateRuv(t, CSN(Local, n))
                          /\ nested' = nested \ {n}
  BY DEF EndNested
<1>2. CSN(Local, n).rid = Local /\ n \in OpenCSNs
  BY <1>t DEF CSN, OpenCSNs
<1>3. /\ tls[t] # CSN(Local, n)
      /\ \A u \in Threads : op[u].pc = "txn" => op[u].csn # CSN(Local, n)
  BY <1>t DEF VectorInv, PrimaryIsOp, NestedPending, Running
<1>4. UpdateLocalMin(CSN(Local, n)) /\ max' = max
  BY <1>1, <1>2, <1>3 DEF ReplicaUpdateRuv, UpdateRuv
<1>5. OpenCSNs' = OpenCSNs \ {n}
  BY <1>t, <1>1, <1>3 DEF OpenCSNs
<1>6. MinOpen' /\ MinSet' /\ nextLocal' >= 1 /\ \A r \in Remotes : min'[r] = min[r]
  BY <1>t, <1>1, <1>2, <1>4, <1>5, MinClose
<1>7. RemoteMin'
  <2>1. \A r \in Remotes : min'[r] = min[r] /\ max[r] <= max'[r]
    BY <1>4, <1>6 DEF VectorInv, VectorTypeOK, Rids
  <2> QED
    BY <1>t, <1>1, <1>2, <2>1, RemoteMinKept
<1> QED
  BY <1>6, <1>7 DEF MinInv

LEMMA MinFailNested ==
  ASSUME VectorInv, VectorInv', MinInv, NEW t \in Threads, FailNested(t)
  PROVE  MinInv'
<1>t. /\ nested \subseteq Nat /\ op[t].pc = "txn"
      /\ UNCHANGED <<max, min, op, log, nextLocal>>
  BY DEF VectorInv, VectorTypeOK, FailNested
<1>1. PICK n \in nested : /\ AbortCSN(t, CSN(Local, n))
                          /\ txnlog' = {c \in txnlog : c.n < n}
                          /\ nested' = nested \ {n}
  BY DEF FailNested
<1>2. CSN(Local, n).n = n /\ n \in Nat
  BY <1>t DEF CSN
<1>3. minpl' = MinList(minpl.on, {m \in minpl.list : m.n # n})
  BY <1>1, <1>2 DEF AbortCSN, VectorInv, MinTracks
<1>4. OpenCSNs' = OpenCSNs \ {n}
  BY <1>t, <1>1 DEF OpenCSNs, VectorInv, NestedPending
<1>5. MinOpen' /\ MinSet' /\ nextLocal' >= 1
  BY <1>t, <1>1, <1>2, <1>3, <1>4, MinCancel
<1>6. RemoteMin'
  <2>1. \A r \in Remotes : min'[r] = min[r] /\ max[r] <= max'[r]
    BY <1>t DEF VectorInv, VectorTypeOK, Rids
  <2> QED
    BY <1>t, <1>1, <2>1, RemoteMinKept
<1> QED
  BY <1>5, <1>6 DEF MinInv

(* An operation in its transaction with no nested update open leaves no    *)
(* local CSN open but its own.                                             *)
LEMMA LastOpen ==
  ASSUME VectorInv, NEW t \in Threads, op[t].pc = "txn", nested = {},
         nested' = nested, NEW pc \in {"written", "failed"},
         op' = [op EXCEPT ![t] = Op(pc, op[t].csn)]
  PROVE  /\ OpenCSNs' = {}
         /\ OpenCSNs = IF op[t].csn.rid = Local THEN {op[t].csn.n} ELSE {}
<1>1. op \in [Threads -> OpRecord] /\ op[t].csn \in CSNs
  BY DEF VectorInv, VectorTypeOK, OpRecord
<1>2. \A u \in Threads : op[u].pc = "txn" => u = t
  BY DEF VectorInv, SerialLock, HasTxn
<1>3. \A u \in Threads : op'[u].pc # "txn"
  BY <1>1, <1>2 DEF Op
<1>4. \A n \in Nat : op[t].csn = CSN(Local, n) <=> op[t].csn.rid = Local /\ op[t].csn.n = n
  BY <1>1 DEF CSNs, CSN
<1>5. op[t].csn.n \in Nat
  BY <1>1 DEF CSNs
<1> QED
  BY <1>2, <1>3, <1>4, <1>5 DEF OpenCSNs

LEMMA MinFailInTxn ==
  ASSUME VectorInv, VectorInv', MinInv, NEW t \in Threads, FailInTxn(t)
  PROVE  MinInv'
<1> DEFINE c == op[t].csn
<1>u. /\ op[t].pc = "txn" /\ nested = {} /\ txnlog' = {} /\ CancelOpCSN(t, c)
      /\ op' = [op EXCEPT ![t] = Op("failed", c)]
      /\ UNCHANGED <<max, min, nested, log, nextLocal>>
  BY DEF FailInTxn
<1>1. OpenCSNs' = {} /\ OpenCSNs = IF c.rid = Local THEN {c.n} ELSE {}
  BY <1>u, LastOpen
<1>2. RemoteMin'
  <2>1. \A r \in Remotes : min'[r] = min[r] /\ max[r] <= max'[r]
    BY <1>u DEF VectorInv, VectorTypeOK, Rids
  <2> QED
    BY <1>u, <2>1, RemoteMinKept
<1>3. CASE c.rid = Local
  <2>1. minpl' = MinList(minpl.on, {m \in minpl.list : m.n # c.n}) /\ c.n \in Nat
    BY <1>u, <1>3 DEF CancelOpCSN, AbortCSN, VectorInv, MinTracks, VectorTypeOK,
                      OpRecord, CSNs
  <2>2. OpenCSNs' = OpenCSNs \ {c.n}
    BY <1>1, <1>3
  <2>3. MinOpen' /\ MinSet' /\ nextLocal' >= 1
    BY <1>u, <2>1, <2>2, MinCancel
  <2> QED
    BY <1>2, <2>3 DEF MinInv
<1>4. CASE c.rid # Local
  <2>1. minpl' = minpl /\ OpenCSNs' = OpenCSNs
    BY <1>u, <1>1, <1>4 DEF CancelOpCSN
  <2>2. MinOpen' /\ MinSet' /\ nextLocal' >= 1
    BY <1>u, <2>1, LocalMinKept
  <2> QED
    BY <1>2, <2>2 DEF MinInv
<1> QED
  BY <1>3, <1>4

LEMMA MinCommitTxn ==
  ASSUME VectorInv, VectorInv', MinInv, NEW t \in Threads, CommitTxn(t)
  PROVE  MinInv'
<1>u. /\ op[t].pc = "written" /\ log' = log \cup txnlog /\ txnlog' = {}
      /\ op' = [op EXCEPT ![t] = Op("done", op[t].csn)]
      /\ UNCHANGED <<max, min, minpl, nested, nextLocal>>
      /\ op \in [Threads -> OpRecord]
  BY DEF CommitTxn, VectorInv, VectorTypeOK
<1>1. \A u \in Threads : op[u].pc # "txn" /\ op'[u].pc # "txn"
  BY <1>u DEF VectorInv, SerialLock, HasTxn, Op
<1>2. OpenCSNs = {} /\ OpenCSNs' = {}
  BY <1>u, <1>1, NothingOpen DEF OpenCSNs
<1>3. \A c \in txnlog : c.rid = Local => ~minpl.on
  BY <1>2 DEF MinInv, MinOpen
<1>4. MinOpen' /\ MinSet' /\ nextLocal' >= 1
  BY <1>u, <1>2, <1>3, LocalMinKept
<1>5. RemoteMin'
  <2>1. \A r \in Remotes : min'[r] = min[r] /\ max[r] <= max'[r]
    BY <1>u DEF VectorInv, VectorTypeOK, Rids
  <2> QED
    BY <1>u, <2>1, RemoteMinKept
<1> QED
  BY <1>4, <1>5 DEF MinInv

LEMMA MinPostopFailed ==
  ASSUME VectorInv, VectorInv', MinInv, NEW t \in Threads, ProcessPostopFailed(t)
  PROVE  MinInv'
<1> DEFINE c == op[t].csn
<1>u. /\ op[t].pc = "failed" /\ CancelOpCSN(t, c)
      /\ op' = [op EXCEPT ![t] = Op("idle", NoCSN)]
      /\ UNCHANGED <<max, min, nested, txnlog, log, nextLocal>>
      /\ op \in [Threads -> OpRecord] /\ c.n \in Nat
  BY DEF ProcessPostopFailed, VectorInv, VectorTypeOK, OpRecord, CSNs
<1>1. op'[t].pc = "idle" /\ \A u \in Threads : u # t => op'[u] = op[u]
  BY <1>u DEF Op
<1>2. OpenCSNs' = OpenCSNs
  BY <1>u, <1>1 DEF OpenCSNs
<1>3. CASE minpl' = minpl
  BY <1>u, <1>2, <1>3, MinQuiet
<1>4. CASE minpl' # minpl
  <2>1. c.rid = Local /\ minpl' = MinList(minpl.on, {m \in minpl.list : m.n # c.n})
    BY <1>u, <1>4 DEF CancelOpCSN, AbortCSN
  <2>2. c.n \notin OpenCSNs
    <3>1. \A e \in pl[Local] : e.n # c.n
      BY <1>u, <2>1 DEF VectorInv, FailedGone
    <3> QED
      BY <1>u, <3>1, OpenListed
  <2>3. MinOpen' /\ MinSet' /\ nextLocal' >= 1
    BY <1>u, <1>2, <2>1, <2>2, MinCancel
  <2>4. \A r \in Remotes : min'[r] = min[r] /\ max[r] <= max'[r]
    BY <1>u DEF VectorInv, VectorTypeOK, Rids
  <2>5. RemoteMin'
    BY <1>u, <2>4, RemoteMinKept
  <2> QED
    BY <2>3, <2>5 DEF MinInv
<1> QED
  BY <1>3, <1>4

(* The first change of a remote replica to be rolled up is the only one in *)
(* its list: it becomes the min CSN, and later ones are above the max CSN. *)
LEMMA MinWrite ==
  ASSUME VectorInv, VectorInv', MinInv, NEW t \in Threads, WriteChangelogAndRuv(t)
  PROVE  MinInv'
<1> DEFINE c == op[t].csn
<1>u. /\ op[t].pc = "txn" /\ nested = {} /\ txnlog' = txnlog \cup {c}
      /\ ReplicaUpdateRuv(t, c)
      /\ op' = [op EXCEPT ![t] = Op("written", c)]
      /\ UNCHANGED <<nested, log, nextLocal>>
  BY DEF WriteChangelogAndRuv
<1>t. /\ c \in CSNs /\ c.rid \in Rids /\ c.n \in Nat /\ c = CSN(c.rid, c.n)
      /\ c.n >= 1 /\ tls[t] = c
      /\ max \in [Rids -> Nat] /\ min \in [Rids -> Nat]
      /\ Local \notin Remotes /\ Remotes \subseteq Rids
  BY <1>u, LocalRid DEF VectorInv, VectorTypeOK, OpRecord, CSNs, CSN, OpsNumbered,
                        PrimaryIsOp, Running, Rids
<1>1. OpenCSNs' = {} /\ OpenCSNs = IF c.rid = Local THEN {c.n} ELSE {}
  BY <1>u, LastOpen
<1>2. UpdateRuv(t, c)
  BY <1>u DEF ReplicaUpdateRuv
<1>3. /\ \A r \in Rids : max[r] <= max'[r]
      /\ \A e \in pl[c.rid] : e.n <= max'[c.rid]
  BY <1>t, <1>u, <1>2, WriteEffect
<1>4. CASE c.rid = Local
  <2>1. UpdateLocalMin(CSN(Local, c.n)) /\ c.n \in OpenCSNs
    BY <1>u, <1>t, <1>1, <1>4 DEF ReplicaUpdateRuv
  <2>2. /\ MinOpen' /\ MinSet' /\ nextLocal' >= 1
        /\ \A r \in Remotes : min'[r] = min[r]
    BY <1>u, <1>t, <1>1, <1>4, <2>1, MinClose
  <2>3. RemoteMin'
    BY <1>u, <1>t, <1>3, <1>4, <2>2, RemoteMinKept
  <2> QED
    BY <2>2, <2>3 DEF MinInv
<1>5. CASE c.rid # Local
  <2>1. c.rid \in Remotes /\ UpdateRemoteMin(t, c) /\ minpl' = minpl
    BY <1>u, <1>t, <1>5 DEF ReplicaUpdateRuv, Rids
  <2>2. \A e \in pl[c.rid] : e.n = c.n
    <3> SUFFICES ASSUME NEW e \in pl[c.rid] PROVE e.n = c.n
      OBVIOUS
    <3>1. PICK u \in Threads : Running(u) /\ op[u].csn = CSN(c.rid, e.n)
      BY <1>t, <1>5 DEF VectorInv, PendingOwned
    <3>2. u = t
      BY <1>u, <2>1, <3>1 DEF VectorInv, OneReplicated, Replicated, Running, CSN
    <3> QED
      BY <3>1, <3>2 DEF CSN
  <2>3. PICK e \in pl[c.rid] : e.n = c.n
    BY <1>u DEF VectorInv, OwnPending, Running
  <2>4. c.n <= max'[c.rid] /\ max[c.rid] < c.n
    <3>1. ~(c.n <= max[c.rid])
      BY <1>t, <2>3 DEF VectorInv, PendingNotCovered, Covers, CSN
    <3> QED
      BY <1>t, <1>3, <2>3, <3>1
  <2>5. RolledCSNs(c.rid, c) = {c.n}
    BY <1>t, <1>u, <2>2, <2>3, AllRolled
  <2>6. min' = IF min[c.rid] = 0 THEN [min EXCEPT ![c.rid] = c.n] ELSE min
    BY <1>t, <2>1, <2>5 DEF UpdateRemoteMin
  <2>7. MinOpen' /\ MinSet' /\ nextLocal' >= 1
    <3>1. min'[Local] = min[Local]
      BY <1>t, <1>5, <2>6, LocalRid
    <3> QED
      BY <1>u, <1>1, <1>5, <2>1, <3>1, LocalMinKept
  <2>8. RemoteMin'
    <3> SUFFICES ASSUME NEW r \in Remotes
                 PROVE  /\ min'[r] <= max'[r]
                        /\ \A d \in log' \cup txnlog' :
                             d.rid = r => 0 < min'[r] /\ min'[r] <= d.n
      BY DEF RemoteMin
    <3>t. min[r] \in Nat /\ max[r] \in Nat /\ max'[r] \in Nat /\ min[r] <= max[r]
          /\ max[r] <= max'[r]
      BY <1>t, <1>3 DEF MinInv, RemoteMin, VectorInv, VectorTypeOK
    <3>1. CASE r # c.rid
      <4>1. min'[r] = min[r]
        BY <1>t, <2>6, <3>1
      <4> QED
        BY <1>u, <3>t, <3>1, <4>1 DEF MinInv, RemoteMin
    <3>2. CASE r = c.rid /\ min[r] = 0
      <4>1. min'[r] = c.n
        BY <1>t, <2>6, <3>2
      <4>2. \A d \in log \cup txnlog : d.rid # r
        BY <3>2 DEF MinInv, RemoteMin
      <4> QED
        BY <1>u, <1>t, <2>4, <3>2, <4>1, <4>2
    <3>3. CASE r = c.rid /\ min[r] # 0
      <4>1. min'[r] = min[r]
        BY <2>6, <3>3
      <4>2. 0 < min[r] /\ min[r] <= c.n
        BY <1>t, <2>4, <3>t, <3>3
      <4> QED
        BY <1>u, <3>t, <3>3, <4>1, <4>2 DEF MinInv, RemoteMin
    <3> QED
      BY <3>1, <3>2, <3>3
  <2> QED
    BY <2>7, <2>8 DEF MinInv
<1> QED
  BY <1>4, <1>5

LEMMA MinNext == VectorInv /\ MinInv /\ [Next]_vars => MinInv'
<1> SUFFICES ASSUME VectorInv, MinInv, [Next]_vars PROVE MinInv'
  OBVIOUS
<1>1. VectorInv'
  BY StepInv
<1>2. CASE OpenSession \/ CloseSession
  BY <1>1, <1>2, MinQuiet DEF OpenSession, CloseSession, OpenCSNs
<1>3. ASSUME NEW t \in Threads, ThreadStep(t) PROVE MinInv'
  BY <1>1, <1>3, MinSteps, MinBegin, MinEndNested, MinFailNested, MinWrite,
     MinFailInTxn, MinCommitTxn, MinPostopFailed DEF ThreadStep
<1>4. CASE UNCHANGED vars
  BY <1>1, <1>4, MinQuiet DEF vars, OpenCSNs
<1> QED
  BY <1>2, <1>3, <1>4 DEF Next

(* A replay that starts from the min CSN misses no change: the min CSN of  *)
(* a replica is set and at or below each of its changes in the changelog,  *)
(* also when the update that holds min_csn_pl back is nested or fails.     *)
THEOREM MinCsnIsOldest == Spec => []MinIsOldest
<1>1. VectorInv /\ MinInv => MinIsOldest
  <2> SUFFICES ASSUME VectorInv, MinInv, NEW c \in log
               PROVE  0 < min[c.rid] /\ min[c.rid] <= c.n
    BY DEF MinIsOldest
  <2>1. c.rid \in Rids
    BY DEF VectorInv, VectorTypeOK, CSNs
  <2>2. CASE c.rid = Local
    BY <2>2 DEF MinInv, MinOpen, MinSet
  <2>3. CASE c.rid # Local
    BY <2>1, <2>3 DEF MinInv, RemoteMin, Rids
  <2> QED
    BY <2>2, <2>3
<1> QED
  BY <1>1, MinInit, MinNext, VectorInvariant, PTL DEF Spec

=============================================================================
