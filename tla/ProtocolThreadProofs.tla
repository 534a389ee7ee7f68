------------------------ MODULE ProtocolThreadProofs ------------------------
(***************************************************************************)
(* Proofs about ProtocolThread, for any number of agreements and of        *)
(* callers: the types, that nothing uses a protocol object after agmt_stop *)
(* has freed it but for two overlaps of requests, and that the mark of a   *)
(* total update does not outlive it.                                       *)
(***************************************************************************)
EXTENDS ProtocolThread, TLAPS

(* The protocol object, its incremental protocol and its total protocol.   *)
RpRec == [lock : Callers \cup {NoOne}, state : ProtStates, next : ProtStates]
IncRec == [stopped : BOOLEAN, terminate : BOOLEAN, shutdown : BOOLEAN]
TotRec == [stopped : BOOLEAN, terminate : BOOLEAN]

(* A caller that holds the lock of the protocol object.                    *)
HoldingPcs == {"stopNotify", "stopInc", "stopTot", "initNotify", "initInc"}

(* An agmt_stop has set stop_in_progress, and comes to prot_free only when *)
(* the thread has ended.                                                   *)
CallerMeans ==
  \A k \in Callers : LET g == caller[k].agmt IN g \notin overlap =>
    /\ caller[k].pc \in StopPcs => stopping[g]
    /\ caller[k].pc = "free" => ~Alive(g)

(* prot_stop and prot_initialize_replica keep the lock while they wait.    *)
LockHeld ==
  \A k \in Callers : LET g == caller[k].agmt IN
    g \notin overlap /\ caller[k].pc \in HoldingPcs => rp[g].lock = k

(* During an agmt_stop there is no other, and an initialisation that is    *)
(* not over has the lock that the stop waits for.                          *)
OneStop ==
  \A k, l \in Callers : LET g == caller[k].agmt IN
    (k # l /\ caller[l].agmt = g /\ g \notin overlap /\ caller[k].pc \in StopPcs) =>
      caller[l].pc \notin StopPcs \cup {"initRead", "initLock"}

LifeInv == NoUseAfterFree /\ CallerMeans /\ LockHeld /\ OneStop /\ SendNotLeaked

-----------------------------------------------------------------------------
(* What the assignments to one or two fields of a protocol object keep.    *)
LEMMA RpUpdated ==
  ASSUME NEW f \in [Agmts -> RpRec], NEW g \in Agmts,
         NEW l \in Callers \cup {NoOne}, NEW s \in ProtStates
  PROVE  /\ [f EXCEPT ![g].lock = l] \in [Agmts -> RpRec]
         /\ [f EXCEPT ![g].next = s] \in [Agmts -> RpRec]
         /\ [f EXCEPT ![g].lock = l, ![g].next = s] \in [Agmts -> RpRec]
<1>1. f[g] \in RpRec
  OBVIOUS
<1>2. [f[g] EXCEPT !.lock = l] \in RpRec
  BY <1>1 DEF RpRec
<1>3. [f[g] EXCEPT !.next = s] \in RpRec
  BY <1>1 DEF RpRec
<1>4. [[f[g] EXCEPT !.lock = l] EXCEPT !.next = s] \in RpRec
  BY <1>2 DEF RpRec
<1>5. [f EXCEPT ![g].lock = l] \in [Agmts -> RpRec]
  BY <1>2
<1>6. [f EXCEPT ![g].next = s] \in [Agmts -> RpRec]
  BY <1>3
<1>7. [f EXCEPT ![g].lock = l, ![g].next = s] \in [Agmts -> RpRec]
  BY <1>2, <1>4
<1>8. QED
  BY <1>5, <1>6, <1>7

(* The next state of the thread becomes its state.                         *)
LEMMA RpAdvanced ==
  ASSUME NEW f \in [Agmts -> RpRec], NEW g \in Agmts
  PROVE  [f EXCEPT ![g].state = f[g].next] \in [Agmts -> RpRec]
<1>1. [f[g] EXCEPT !.state = f[g].next] \in RpRec
  BY DEF RpRec
<1>2. QED
  BY <1>1

(* What those to the flags of the incremental protocol keep, ...           *)
LEMMA IncUpdated ==
  ASSUME NEW f \in [Agmts -> IncRec], NEW g \in Agmts, NEW b \in BOOLEAN
  PROVE  /\ [f EXCEPT ![g].shutdown = b] \in [Agmts -> IncRec]
         /\ [f EXCEPT ![g].terminate = b] \in [Agmts -> IncRec]
         /\ [f EXCEPT ![g].stopped = b] \in [Agmts -> IncRec]
         /\ [f EXCEPT ![g].stopped = b, ![g].terminate = b] \in [Agmts -> IncRec]
<1>1. [f EXCEPT ![g].shutdown = b] \in [Agmts -> IncRec]
  BY DEF IncRec
<1>2. [f EXCEPT ![g].terminate = b] \in [Agmts -> IncRec]
  BY DEF IncRec
<1>3. [f EXCEPT ![g].stopped = b] \in [Agmts -> IncRec]
  BY DEF IncRec
<1>4. [f EXCEPT ![g].stopped = b, ![g].terminate = b] \in [Agmts -> IncRec]
  BY DEF IncRec
<1>5. QED
  BY <1>1, <1>2, <1>3, <1>4

(* ... and those of the total protocol.                                    *)
LEMMA TotUpdated ==
  ASSUME NEW f \in [Agmts -> TotRec], NEW g \in Agmts, NEW b \in BOOLEAN
  PROVE  /\ [f EXCEPT ![g].terminate = b] \in [Agmts -> TotRec]
         /\ [f EXCEPT ![g].stopped = b] \in [Agmts -> TotRec]
BY DEF TotRec

(* A caller without a request has some agreement.                          *)
LEMMA IdleMeans == Idle \in [pc : CallerPcs, agmt : Agmts] /\ Idle.pc = "idle"
<1>1. (CHOOSE g \in Agmts : TRUE) \in Agmts
  BY ProtocolAssumption
<1>2. QED
  BY <1>1 DEF Idle, CallerPcs

(* Agreements that have not been started.                                  *)
THEOREM ThreadTypeInit == Init => TypeOK
<1> SUFFICES ASSUME Init PROVE TypeOK
  OBVIOUS
<1>1. AgmtTypeOK
  BY DEF Init, AgmtTypeOK
<1>2. ObjectTypeOK
  BY DEF Init, ObjectTypeOK, NewProtocol, NewInc, NewTot, ProtStates
<1>3. WhereTypeOK
  BY ProtocolAssumption, IdleMeans DEF Init, WhereTypeOK, ThreadPcs
<1>4. QED
  BY <1>1, <1>2, <1>3 DEF TypeOK

(* One step of a caller, of a protocol thread or of a total update that    *)
(* is received.                                                            *)
THEOREM ThreadTypeNext == TypeOK /\ [Next]_vars => TypeOK'
<1> SUFFICES ASSUME TypeOK, [Next]_vars PROVE TypeOK'
  OBVIOUS
<1>1. ASSUME NEW k \in Callers, NEW g \in Agmts, AgmtStart(k, g) PROVE TypeOK'
  <2>1. AgmtTypeOK'
    BY <1>1 DEF AgmtStart, Request, Meets, NewProtocol, NewInc, NewTot, replica, TypeOK,
         AgmtTypeOK, WhereTypeOK
  <2>2. ObjectTypeOK'
    <3>0. rp \in [Agmts -> RpRec] /\ inc \in [Agmts -> IncRec] /\ tot \in [Agmts -> TotRec]
      BY DEF TypeOK, ObjectTypeOK, RpRec, IncRec, TotRec
    <3>1. rp' \in [Agmts -> RpRec]
      <4>1. CASE protocol[g]
        BY <1>1, <3>0, <4>1 DEF AgmtStart
      <4>2. CASE ~protocol[g]
        BY <1>1, <3>0, <4>2 DEF AgmtStart, NewProtocol, RpRec, ProtStates
      <4>3. QED
        BY <4>1, <4>2
    <3>2. inc' \in [Agmts -> IncRec]
      <4>1. CASE protocol[g]
        BY <1>1, <3>0, <4>1 DEF AgmtStart
      <4>2. CASE ~protocol[g]
        <5>1. NewInc \in IncRec
          BY DEF NewInc, IncRec
        <5>2. QED
          BY <1>1, <3>0, <4>2, <5>1 DEF AgmtStart
      <4>3. QED
        BY <4>1, <4>2
    <3>3. tot' \in [Agmts -> TotRec]
      <4>1. CASE protocol[g]
        BY <1>1, <3>0, <4>1 DEF AgmtStart
      <4>2. CASE ~protocol[g]
        <5>1. NewTot \in TotRec
          BY DEF NewTot, TotRec
        <5>2. QED
          BY <1>1, <3>0, <4>2, <5>1 DEF AgmtStart
      <4>3. QED
        BY <4>1, <4>2
    <3>4. QED
      BY <3>1, <3>2, <3>3 DEF ObjectTypeOK, RpRec, IncRec, TotRec
  <2>3. WhereTypeOK'
    BY <1>1, ProtocolAssumption, IdleMeans DEF AgmtStart, Request, Meets, NewProtocol,
         NewInc, NewTot, replica, TypeOK, WhereTypeOK, AgmtTypeOK, ThreadPcs, IncPcs,
         IncAsleep, TotMarked, CallerPcs, StopPcs, InitPcs
  <2>4. QED
    BY <2>1, <2>2, <2>3 DEF TypeOK
<1>2. ASSUME NEW k \in Callers, NEW g \in Agmts, AgmtStop(k, g) PROVE TypeOK'
  <2>1. AgmtTypeOK'
    BY <1>2 DEF AgmtStop, Request, Meets, InitUses, replica, TypeOK, AgmtTypeOK,
         WhereTypeOK
  <2>2. ObjectTypeOK'
    BY <1>2, ProtocolAssumption DEF AgmtStop, Request, Meets, InitUses, replica, TypeOK,
         ObjectTypeOK, WhereTypeOK, AgmtTypeOK, ProtStates
  <2>3. WhereTypeOK'
    BY <1>2, ProtocolAssumption, IdleMeans DEF AgmtStop, Request, Meets, InitUses,
         replica, TypeOK, WhereTypeOK, AgmtTypeOK, ThreadPcs, IncPcs, IncAsleep,
         TotMarked, CallerPcs, StopPcs, InitPcs
  <2>4. QED
    BY <2>1, <2>2, <2>3 DEF TypeOK
<1>3. ASSUME NEW k \in Callers, NEW g \in Agmts, AgmtInitialize(k, g) PROVE TypeOK'
  <2>1. AgmtTypeOK'
    BY <1>3 DEF AgmtInitialize, Request, agreement, replica, TypeOK, AgmtTypeOK,
         WhereTypeOK
  <2>2. ObjectTypeOK'
    BY <1>3, ProtocolAssumption DEF AgmtInitialize, Request, agreement, replica, TypeOK,
         ObjectTypeOK, WhereTypeOK, AgmtTypeOK, ProtStates
  <2>3. WhereTypeOK'
    BY <1>3, ProtocolAssumption, IdleMeans DEF AgmtInitialize, Request, agreement,
         replica, TypeOK, WhereTypeOK, AgmtTypeOK, ThreadPcs, IncPcs, IncAsleep,
         TotMarked, CallerPcs, StopPcs, InitPcs
  <2>4. QED
    BY <2>1, <2>2, <2>3 DEF TypeOK
<1>4. ASSUME NEW k \in Callers, StopLock(k) PROVE TypeOK'
  <2>1. AgmtTypeOK'
    BY <1>4 DEF StopLock, CallerAt, CallerGoes, LockFree, agreement, replica, TypeOK,
         AgmtTypeOK, WhereTypeOK
  <2>2. ObjectTypeOK'
    <3>0. rp \in [Agmts -> RpRec] /\ inc \in [Agmts -> IncRec] /\ tot \in [Agmts -> TotRec]
          /\ caller[k].agmt \in Agmts
      BY DEF TypeOK, ObjectTypeOK, WhereTypeOK, RpRec, IncRec, TotRec
    <3>1. rp' \in [Agmts -> RpRec]
      BY <1>4, <3>0, RpUpdated DEF StopLock, ProtStates
    <3>2. inc' \in [Agmts -> IncRec]
      BY <1>4, <3>0, IncUpdated DEF StopLock
    <3>3. tot' \in [Agmts -> TotRec]
      BY <1>4, <3>0 DEF StopLock
    <3>4. QED
      BY <3>1, <3>2, <3>3 DEF ObjectTypeOK, RpRec, IncRec, TotRec
  <2>3. WhereTypeOK'
    BY <1>4, ProtocolAssumption, IdleMeans DEF StopLock, CallerAt, CallerGoes, LockFree,
         agreement, replica, TypeOK, WhereTypeOK, AgmtTypeOK, ThreadPcs, IncPcs,
         IncAsleep, TotMarked, CallerPcs, StopPcs, InitPcs
  <2>4. QED
    BY <2>1, <2>2, <2>3 DEF TypeOK
<1>5. ASSUME NEW k \in Callers, StopNotify(k) PROVE TypeOK'
  <2>1. AgmtTypeOK'
    BY <1>5 DEF StopNotify, Shutdown, CallerAt, CallerGoes, agreement, replica, TypeOK,
         AgmtTypeOK, WhereTypeOK
  <2>2. ObjectTypeOK'
    <3>0. rp \in [Agmts -> RpRec] /\ inc \in [Agmts -> IncRec] /\ tot \in [Agmts -> TotRec]
          /\ caller[k].agmt \in Agmts
      BY DEF TypeOK, ObjectTypeOK, WhereTypeOK, RpRec, IncRec, TotRec
    <3>1. rp' \in [Agmts -> RpRec]
      BY <1>5, <3>0 DEF StopNotify, Shutdown
    <3>2. inc' \in [Agmts -> IncRec]
      BY <1>5, <3>0, IncUpdated DEF StopNotify, Shutdown
    <3>3. tot' \in [Agmts -> TotRec]
      BY <1>5, <3>0 DEF StopNotify, Shutdown
    <3>4. QED
      BY <3>1, <3>2, <3>3 DEF ObjectTypeOK, RpRec, IncRec, TotRec
  <2>3. WhereTypeOK'
    BY <1>5, ProtocolAssumption, IdleMeans DEF StopNotify, Shutdown, CallerAt,
         CallerGoes, agreement, replica, TypeOK, WhereTypeOK, AgmtTypeOK, ThreadPcs,
         IncPcs, IncAsleep, TotMarked, CallerPcs, StopPcs, InitPcs
  <2>4. QED
    BY <2>1, <2>2, <2>3 DEF TypeOK
<1>6. ASSUME NEW k \in Callers, StopInc(k) PROVE TypeOK'
  <2>1. AgmtTypeOK'
    BY <1>6 DEF StopInc, CallerAt, CallerGoes, agreement, replica, TypeOK, AgmtTypeOK,
         WhereTypeOK
  <2>2. ObjectTypeOK'
    <3>0. rp \in [Agmts -> RpRec] /\ inc \in [Agmts -> IncRec] /\ tot \in [Agmts -> TotRec]
          /\ caller[k].agmt \in Agmts
      BY DEF TypeOK, ObjectTypeOK, WhereTypeOK, RpRec, IncRec, TotRec
    <3>1. rp' \in [Agmts -> RpRec]
      BY <1>6, <3>0 DEF StopInc
    <3>2. inc' \in [Agmts -> IncRec]
      BY <1>6, <3>0 DEF StopInc
    <3>3. tot' \in [Agmts -> TotRec]
      BY <1>6, <3>0, TotUpdated DEF StopInc
    <3>4. QED
      BY <3>1, <3>2, <3>3 DEF ObjectTypeOK, RpRec, IncRec, TotRec
  <2>3. WhereTypeOK'
    BY <1>6, ProtocolAssumption, IdleMeans DEF StopInc, CallerAt, CallerGoes, agreement,
         replica, TypeOK, WhereTypeOK, AgmtTypeOK, ThreadPcs, IncPcs, IncAsleep,
         TotMarked, CallerPcs, StopPcs, InitPcs
  <2>4. QED
    BY <2>1, <2>2, <2>3 DEF TypeOK
<1>7. ASSUME NEW k \in Callers, StopTot(k) PROVE TypeOK'
  <2>1. AgmtTypeOK'
    BY <1>7 DEF StopTot, CallerAt, CallerGoes, agreement, replica, TypeOK, AgmtTypeOK,
         WhereTypeOK
  <2>2. ObjectTypeOK'
    <3>0. rp \in [Agmts -> RpRec] /\ inc \in [Agmts -> IncRec] /\ tot \in [Agmts -> TotRec]
          /\ caller[k].agmt \in Agmts
      BY DEF TypeOK, ObjectTypeOK, WhereTypeOK, RpRec, IncRec, TotRec
    <3>1. rp' \in [Agmts -> RpRec]
      BY <1>7, <3>0, RpUpdated DEF StopTot, ProtStates
    <3>2. inc' \in [Agmts -> IncRec]
      BY <1>7, <3>0 DEF StopTot
    <3>3. tot' \in [Agmts -> TotRec]
      BY <1>7, <3>0 DEF StopTot
    <3>4. QED
      BY <3>1, <3>2, <3>3 DEF ObjectTypeOK, RpRec, IncRec, TotRec
  <2>3. WhereTypeOK'
    BY <1>7, ProtocolAssumption, IdleMeans DEF StopTot, CallerAt, CallerGoes, agreement,
         replica, TypeOK, WhereTypeOK, AgmtTypeOK, ThreadPcs, IncPcs, IncAsleep,
         TotMarked, CallerPcs, StopPcs, InitPcs
  <2>4. QED
    BY <2>1, <2>2, <2>3 DEF TypeOK
<1>8. ASSUME NEW k \in Callers, Join(k) PROVE TypeOK'
  <2>1. AgmtTypeOK'
    BY <1>8 DEF Join, CallerAt, CallerGoes, Alive, agreement, replica, TypeOK,
         AgmtTypeOK, WhereTypeOK
  <2>2. ObjectTypeOK'
    BY <1>8, ProtocolAssumption DEF Join, CallerAt, CallerGoes, Alive, agreement,
         replica, TypeOK, ObjectTypeOK, WhereTypeOK, AgmtTypeOK, ProtStates
  <2>3. WhereTypeOK'
    BY <1>8, ProtocolAssumption, IdleMeans DEF Join, CallerAt, CallerGoes, Alive,
         agreement, replica, TypeOK, WhereTypeOK, AgmtTypeOK, ThreadPcs, IncPcs,
         IncAsleep, TotMarked, CallerPcs, StopPcs, InitPcs
  <2>4. QED
    BY <2>1, <2>2, <2>3 DEF TypeOK
<1>9. ASSUME NEW k \in Callers, Free(k) PROVE TypeOK'
  <2>1. AgmtTypeOK'
    BY <1>9 DEF Free, CallerAt, CallerEnds, LockFree, replica, TypeOK, AgmtTypeOK,
         WhereTypeOK
  <2>2. ObjectTypeOK'
    BY <1>9, ProtocolAssumption DEF Free, CallerAt, CallerEnds, LockFree, replica,
         TypeOK, ObjectTypeOK, WhereTypeOK, AgmtTypeOK, ProtStates
  <2>3. WhereTypeOK'
    BY <1>9, ProtocolAssumption, IdleMeans DEF Free, CallerAt, CallerEnds, LockFree,
         replica, TypeOK, WhereTypeOK, AgmtTypeOK, ThreadPcs, IncPcs, IncAsleep,
         TotMarked, CallerPcs, StopPcs, InitPcs
  <2>4. QED
    BY <2>1, <2>2, <2>3 DEF TypeOK
<1>10. ASSUME NEW k \in Callers, InitRead(k) PROVE TypeOK'
  <2>1. AgmtTypeOK'
    BY <1>10 DEF InitRead, CallerAt, CallerGoes, CallerEnds, agreement, replica, TypeOK,
         AgmtTypeOK, WhereTypeOK
  <2>2. ObjectTypeOK'
    BY <1>10, ProtocolAssumption DEF InitRead, CallerAt, CallerGoes, CallerEnds,
         agreement, replica, TypeOK, ObjectTypeOK, WhereTypeOK, AgmtTypeOK, ProtStates
  <2>3. WhereTypeOK'
    BY <1>10, ProtocolAssumption, IdleMeans DEF InitRead, CallerAt, CallerGoes,
         CallerEnds, agreement, replica, TypeOK, WhereTypeOK, AgmtTypeOK, ThreadPcs,
         IncPcs, IncAsleep, TotMarked, CallerPcs, StopPcs, InitPcs
  <2>4. QED
    BY <2>1, <2>2, <2>3 DEF TypeOK
<1>11. ASSUME NEW k \in Callers, InitLock(k) PROVE TypeOK'
  <2>1. AgmtTypeOK'
    BY <1>11 DEF InitLock, CallerAt, CallerGoes, LockFree, agreement, replica, TypeOK,
         AgmtTypeOK, WhereTypeOK
  <2>2. ObjectTypeOK'
    <3>0. rp \in [Agmts -> RpRec] /\ inc \in [Agmts -> IncRec] /\ tot \in [Agmts -> TotRec]
          /\ caller[k].agmt \in Agmts
      BY DEF TypeOK, ObjectTypeOK, WhereTypeOK, RpRec, IncRec, TotRec
    <3>1. rp' \in [Agmts -> RpRec]
      BY <1>11, <3>0, RpUpdated DEF InitLock, ProtStates
    <3>2. inc' \in [Agmts -> IncRec]
      BY <1>11, <3>0, IncUpdated DEF InitLock
    <3>3. tot' \in [Agmts -> TotRec]
      BY <1>11, <3>0 DEF InitLock
    <3>4. QED
      BY <3>1, <3>2, <3>3 DEF ObjectTypeOK, RpRec, IncRec, TotRec
  <2>3. WhereTypeOK'
    BY <1>11, ProtocolAssumption, IdleMeans DEF InitLock, CallerAt, CallerGoes,
         LockFree, agreement, replica, TypeOK, WhereTypeOK, AgmtTypeOK, ThreadPcs,
         IncPcs, IncAsleep, TotMarked, CallerPcs, StopPcs, InitPcs
  <2>4. QED
    BY <2>1, <2>2, <2>3 DEF TypeOK
<1>12. ASSUME NEW k \in Callers, InitNotify(k) PROVE TypeOK'
  <2>1. AgmtTypeOK'
    BY <1>12 DEF InitNotify, Shutdown, CallerAt, CallerGoes, agreement, replica, TypeOK,
         AgmtTypeOK, WhereTypeOK
  <2>2. ObjectTypeOK'
    <3>0. rp \in [Agmts -> RpRec] /\ inc \in [Agmts -> IncRec] /\ tot \in [Agmts -> TotRec]
          /\ caller[k].agmt \in Agmts
      BY DEF TypeOK, ObjectTypeOK, WhereTypeOK, RpRec, IncRec, TotRec
    <3>1. rp' \in [Agmts -> RpRec]
      BY <1>12, <3>0 DEF InitNotify, Shutdown
    <3>2. inc' \in [Agmts -> IncRec]
      BY <1>12, <3>0, IncUpdated DEF InitNotify, Shutdown
    <3>3. tot' \in [Agmts -> TotRec]
      BY <1>12, <3>0 DEF InitNotify, Shutdown
    <3>4. QED
      BY <3>1, <3>2, <3>3 DEF ObjectTypeOK, RpRec, IncRec, TotRec
  <2>3. WhereTypeOK'
    BY <1>12, ProtocolAssumption, IdleMeans DEF InitNotify, Shutdown, CallerAt,
         CallerGoes, agreement, replica, TypeOK, WhereTypeOK, AgmtTypeOK, ThreadPcs,
         IncPcs, IncAsleep, TotMarked, CallerPcs, StopPcs, InitPcs
  <2>4. QED
    BY <2>1, <2>2, <2>3 DEF TypeOK
<1>13. ASSUME NEW k \in Callers, InitInc(k) PROVE TypeOK'
  <2>1. AgmtTypeOK'
    BY <1>13 DEF InitInc, CallerAt, CallerEnds, agreement, replica, TypeOK, AgmtTypeOK,
         WhereTypeOK
  <2>2. ObjectTypeOK'
    <3>0. rp \in [Agmts -> RpRec] /\ inc \in [Agmts -> IncRec] /\ tot \in [Agmts -> TotRec]
          /\ caller[k].agmt \in Agmts
      BY DEF TypeOK, ObjectTypeOK, WhereTypeOK, RpRec, IncRec, TotRec
    <3>1. rp' \in [Agmts -> RpRec]
      BY <1>13, <3>0, RpUpdated DEF InitInc, ProtStates
    <3>2. inc' \in [Agmts -> IncRec]
      BY <1>13, <3>0 DEF InitInc
    <3>3. tot' \in [Agmts -> TotRec]
      BY <1>13, <3>0 DEF InitInc
    <3>4. QED
      BY <3>1, <3>2, <3>3 DEF ObjectTypeOK, RpRec, IncRec, TotRec
  <2>3. WhereTypeOK'
    BY <1>13, ProtocolAssumption, IdleMeans DEF InitInc, CallerAt, CallerEnds,
         agreement, replica, TypeOK, WhereTypeOK, AgmtTypeOK, ThreadPcs, IncPcs,
         IncAsleep, TotMarked, CallerPcs, StopPcs, InitPcs
  <2>4. QED
    BY <2>1, <2>2, <2>3 DEF TypeOK
<1>14. ASSUME NEW g \in Agmts, IncLock(g) PROVE TypeOK'
  <2>1. AgmtTypeOK'
    BY <1>14 DEF IncLock, LockFree, ThreadGoes, Case, agreement, replica, ThreadAt,
         TypeOK, AgmtTypeOK, WhereTypeOK
  <2>2. ObjectTypeOK'
    BY <1>14, ProtocolAssumption DEF IncLock, LockFree, ThreadGoes, Case, agreement,
         replica, ThreadAt, TypeOK, ObjectTypeOK, WhereTypeOK, AgmtTypeOK, ProtStates
  <2>3. WhereTypeOK'
    BY <1>14, ProtocolAssumption, IdleMeans DEF IncLock, LockFree, ThreadGoes, Case,
         agreement, replica, ThreadAt, TypeOK, WhereTypeOK, AgmtTypeOK, ThreadPcs,
         IncPcs, IncAsleep, TotMarked, CallerPcs, StopPcs, InitPcs
  <2>4. QED
    BY <2>1, <2>2, <2>3 DEF TypeOK
<1>15. ASSUME NEW g \in Agmts, IncRun(g) PROVE TypeOK'
  <2>1. AgmtTypeOK'
    BY <1>15 DEF IncRun, ThreadAt, ThreadGoes, agreement, replica, TypeOK, AgmtTypeOK,
         WhereTypeOK
  <2>2. ObjectTypeOK'
    <3>0. rp \in [Agmts -> RpRec] /\ inc \in [Agmts -> IncRec] /\ tot \in [Agmts -> TotRec]
      BY DEF TypeOK, ObjectTypeOK, RpRec, IncRec, TotRec
    <3>1. rp' \in [Agmts -> RpRec]
      BY <1>15, <3>0 DEF IncRun
    <3>2. inc' \in [Agmts -> IncRec]
      BY <1>15, <3>0, IncUpdated DEF IncRun
    <3>3. tot' \in [Agmts -> TotRec]
      BY <1>15, <3>0 DEF IncRun
    <3>4. QED
      BY <3>1, <3>2, <3>3 DEF ObjectTypeOK, RpRec, IncRec, TotRec
  <2>3. WhereTypeOK'
    BY <1>15, ProtocolAssumption, IdleMeans DEF IncRun, ThreadAt, ThreadGoes, agreement,
         replica, TypeOK, WhereTypeOK, AgmtTypeOK, ThreadPcs, IncPcs, IncAsleep,
         TotMarked, CallerPcs, StopPcs, InitPcs
  <2>4. QED
    BY <2>1, <2>2, <2>3 DEF TypeOK
<1>16. ASSUME NEW g \in Agmts, IncShutdown(g) PROVE TypeOK'
  <2>1. AgmtTypeOK'
    BY <1>16 DEF IncShutdown, ThreadGoes, IsShutdown, agreement, replica, TypeOK,
         AgmtTypeOK, WhereTypeOK
  <2>2. ObjectTypeOK'
    <3>0. rp \in [Agmts -> RpRec] /\ inc \in [Agmts -> IncRec] /\ tot \in [Agmts -> TotRec]
      BY DEF TypeOK, ObjectTypeOK, RpRec, IncRec, TotRec
    <3>1. rp' \in [Agmts -> RpRec]
      BY <1>16, <3>0 DEF IncShutdown
    <3>2. inc' \in [Agmts -> IncRec]
      BY <1>16, <3>0, IncUpdated DEF IncShutdown
    <3>3. tot' \in [Agmts -> TotRec]
      BY <1>16, <3>0 DEF IncShutdown
    <3>4. QED
      BY <3>1, <3>2, <3>3 DEF ObjectTypeOK, RpRec, IncRec, TotRec
  <2>3. WhereTypeOK'
    BY <1>16, ProtocolAssumption, IdleMeans DEF IncShutdown, ThreadGoes, IsShutdown,
         agreement, replica, TypeOK, WhereTypeOK, AgmtTypeOK, ThreadPcs, IncPcs,
         IncAsleep, TotMarked, CallerPcs, StopPcs, InitPcs
  <2>4. QED
    BY <2>1, <2>2, <2>3 DEF TypeOK
<1>17. ASSUME NEW g \in Agmts, IncStart(g) PROVE TypeOK'
  <2>1. AgmtTypeOK'
    BY <1>17 DEF IncStart, ThreadAt, ThreadGoes, IsShutdown, agreement, replica, TypeOK,
         AgmtTypeOK, WhereTypeOK
  <2>2. ObjectTypeOK'
    <3>0. rp \in [Agmts -> RpRec] /\ inc \in [Agmts -> IncRec] /\ tot \in [Agmts -> TotRec]
      BY DEF TypeOK, ObjectTypeOK, RpRec, IncRec, TotRec
    <3>1. rp' \in [Agmts -> RpRec]
      BY <1>17, <3>0 DEF IncStart
    <3>2. inc' \in [Agmts -> IncRec]
      BY <1>17, <3>0, IncUpdated DEF IncStart
    <3>3. tot' \in [Agmts -> TotRec]
      BY <1>17, <3>0 DEF IncStart
    <3>4. QED
      BY <3>1, <3>2, <3>3 DEF ObjectTypeOK, RpRec, IncRec, TotRec
  <2>3. WhereTypeOK'
    BY <1>17, ProtocolAssumption, IdleMeans DEF IncStart, ThreadAt, ThreadGoes,
         IsShutdown, agreement, replica, TypeOK, WhereTypeOK, AgmtTypeOK, ThreadPcs,
         IncPcs, IncAsleep, TotMarked, CallerPcs, StopPcs, InitPcs
  <2>4. QED
    BY <2>1, <2>2, <2>3 DEF TypeOK
<1>18. ASSUME NEW g \in Agmts, IncReset(g) PROVE TypeOK'
  <2>1. AgmtTypeOK'
    BY <1>18 DEF IncReset, ThreadAt, ThreadGoes, agreement, replica, TypeOK, AgmtTypeOK,
         WhereTypeOK
  <2>2. ObjectTypeOK'
    <3>0. rp \in [Agmts -> RpRec] /\ inc \in [Agmts -> IncRec] /\ tot \in [Agmts -> TotRec]
      BY DEF TypeOK, ObjectTypeOK, RpRec, IncRec, TotRec
    <3>1. rp' \in [Agmts -> RpRec]
      BY <1>18, <3>0 DEF IncReset
    <3>2. inc' \in [Agmts -> IncRec]
      BY <1>18, <3>0, IncUpdated DEF IncReset
    <3>3. tot' \in [Agmts -> TotRec]
      BY <1>18, <3>0 DEF IncReset
    <3>4. QED
      BY <3>1, <3>2, <3>3 DEF ObjectTypeOK, RpRec, IncRec, TotRec
  <2>3. WhereTypeOK'
    BY <1>18, ProtocolAssumption, IdleMeans DEF IncReset, ThreadAt, ThreadGoes,
         agreement, replica, TypeOK, WhereTypeOK, AgmtTypeOK, ThreadPcs, IncPcs,
         IncAsleep, TotMarked, CallerPcs, StopPcs, InitPcs
  <2>4. QED
    BY <2>1, <2>2, <2>3 DEF TypeOK
<1>19. ASSUME NEW g \in Agmts, IncEnd(g) PROVE TypeOK'
  <2>1. AgmtTypeOK'
    BY <1>19 DEF IncEnd, ThreadAt, ThreadGoes, agreement, replica, TypeOK, AgmtTypeOK,
         WhereTypeOK
  <2>2. ObjectTypeOK'
    <3>0. rp \in [Agmts -> RpRec] /\ inc \in [Agmts -> IncRec] /\ tot \in [Agmts -> TotRec]
      BY DEF TypeOK, ObjectTypeOK, RpRec, IncRec, TotRec
    <3>1. rp' \in [Agmts -> RpRec]
      BY <1>19, <3>0 DEF IncEnd
    <3>2. inc' \in [Agmts -> IncRec]
      BY <1>19, <3>0, IncUpdated DEF IncEnd
    <3>3. tot' \in [Agmts -> TotRec]
      BY <1>19, <3>0 DEF IncEnd
    <3>4. QED
      BY <3>1, <3>2, <3>3 DEF ObjectTypeOK, RpRec, IncRec, TotRec
  <2>3. WhereTypeOK'
    BY <1>19, ProtocolAssumption, IdleMeans DEF IncEnd, ThreadAt, ThreadGoes, agreement,
         replica, TypeOK, WhereTypeOK, AgmtTypeOK, ThreadPcs, IncPcs, IncAsleep,
         TotMarked, CallerPcs, StopPcs, InitPcs
  <2>4. QED
    BY <2>1, <2>2, <2>3 DEF TypeOK
<1>20. ASSUME NEW g \in Agmts, TotTest(g) PROVE TypeOK'
  <2>1. AgmtTypeOK'
    BY <1>20 DEF TotTest, ThreadGoes, Case, agreement, replica, ThreadAt, TypeOK,
         AgmtTypeOK, WhereTypeOK
  <2>2. ObjectTypeOK'
    BY <1>20, ProtocolAssumption DEF TotTest, ThreadGoes, Case, agreement, replica,
         ThreadAt, TypeOK, ObjectTypeOK, WhereTypeOK, AgmtTypeOK, ProtStates
  <2>3. WhereTypeOK'
    BY <1>20, ProtocolAssumption, IdleMeans DEF TotTest, ThreadGoes, Case, agreement,
         replica, ThreadAt, TypeOK, WhereTypeOK, AgmtTypeOK, ThreadPcs, IncPcs,
         IncAsleep, TotMarked, CallerPcs, StopPcs, InitPcs
  <2>4. QED
    BY <2>1, <2>2, <2>3 DEF TypeOK
<1>21. ASSUME NEW g \in Agmts, TotMark(g) PROVE TypeOK'
  <2>1. AgmtTypeOK'
    BY <1>21 DEF TotMark, ThreadAt, ThreadGoes, agreement, TypeOK, AgmtTypeOK,
         WhereTypeOK
  <2>2. ObjectTypeOK'
    BY <1>21, ProtocolAssumption DEF TotMark, ThreadAt, ThreadGoes, agreement, TypeOK,
         ObjectTypeOK, WhereTypeOK, AgmtTypeOK, ProtStates
  <2>3. WhereTypeOK'
    BY <1>21, ProtocolAssumption, IdleMeans DEF TotMark, ThreadAt, ThreadGoes,
         agreement, TypeOK, WhereTypeOK, AgmtTypeOK, ThreadPcs, IncPcs, IncAsleep,
         TotMarked, CallerPcs, StopPcs, InitPcs
  <2>4. QED
    BY <2>1, <2>2, <2>3 DEF TypeOK
<1>22. ASSUME NEW g \in Agmts, TotLock(g) PROVE TypeOK'
  <2>1. AgmtTypeOK'
    BY <1>22 DEF TotLock, LockFree, ThreadAt, ThreadGoes, agreement, replica, TypeOK,
         AgmtTypeOK, WhereTypeOK
  <2>2. ObjectTypeOK'
    <3>0. rp \in [Agmts -> RpRec] /\ inc \in [Agmts -> IncRec] /\ tot \in [Agmts -> TotRec]
      BY DEF TypeOK, ObjectTypeOK, RpRec, IncRec, TotRec
    <3>1. rp' \in [Agmts -> RpRec]
      BY <1>22, <3>0, RpUpdated DEF TotLock, ProtStates
    <3>2. inc' \in [Agmts -> IncRec]
      BY <1>22, <3>0 DEF TotLock
    <3>3. tot' \in [Agmts -> TotRec]
      BY <1>22, <3>0 DEF TotLock
    <3>4. QED
      BY <3>1, <3>2, <3>3 DEF ObjectTypeOK, RpRec, IncRec, TotRec
  <2>3. WhereTypeOK'
    BY <1>22, ProtocolAssumption, IdleMeans DEF TotLock, LockFree, ThreadAt, ThreadGoes,
         agreement, replica, TypeOK, WhereTypeOK, AgmtTypeOK, ThreadPcs, IncPcs,
         IncAsleep, TotMarked, CallerPcs, StopPcs, InitPcs
  <2>4. QED
    BY <2>1, <2>2, <2>3 DEF TypeOK
<1>23. ASSUME NEW g \in Agmts, TotRun(g) PROVE TypeOK'
  <2>1. AgmtTypeOK'
    BY <1>23 DEF TotRun, ThreadAt, ThreadGoes, agreement, replica, TypeOK, AgmtTypeOK,
         WhereTypeOK
  <2>2. ObjectTypeOK'
    <3>0. rp \in [Agmts -> RpRec] /\ inc \in [Agmts -> IncRec] /\ tot \in [Agmts -> TotRec]
      BY DEF TypeOK, ObjectTypeOK, RpRec, IncRec, TotRec
    <3>1. rp' \in [Agmts -> RpRec]
      BY <1>23, <3>0 DEF TotRun
    <3>2. inc' \in [Agmts -> IncRec]
      BY <1>23, <3>0 DEF TotRun
    <3>3. tot' \in [Agmts -> TotRec]
      BY <1>23, <3>0, TotUpdated DEF TotRun
    <3>4. QED
      BY <3>1, <3>2, <3>3 DEF ObjectTypeOK, RpRec, IncRec, TotRec
  <2>3. WhereTypeOK'
    BY <1>23, ProtocolAssumption, IdleMeans DEF TotRun, ThreadAt, ThreadGoes, agreement,
         replica, TypeOK, WhereTypeOK, AgmtTypeOK, ThreadPcs, IncPcs, IncAsleep,
         TotMarked, CallerPcs, StopPcs, InitPcs
  <2>4. QED
    BY <2>1, <2>2, <2>3 DEF TypeOK
<1>24. ASSUME NEW g \in Agmts, TotSend(g) PROVE TypeOK'
  <2>1. AgmtTypeOK'
    BY <1>24 DEF TotSend, ThreadAt, ThreadGoes, agreement, replica, TypeOK, AgmtTypeOK,
         WhereTypeOK
  <2>2. ObjectTypeOK'
    BY <1>24, ProtocolAssumption DEF TotSend, ThreadAt, ThreadGoes, agreement, replica,
         TypeOK, ObjectTypeOK, WhereTypeOK, AgmtTypeOK, ProtStates
  <2>3. WhereTypeOK'
    BY <1>24, ProtocolAssumption, IdleMeans DEF TotSend, ThreadAt, ThreadGoes,
         agreement, replica, TypeOK, WhereTypeOK, AgmtTypeOK, ThreadPcs, IncPcs,
         IncAsleep, TotMarked, CallerPcs, StopPcs, InitPcs
  <2>4. QED
    BY <2>1, <2>2, <2>3 DEF TypeOK
<1>25. ASSUME NEW g \in Agmts, TotEnd(g) PROVE TypeOK'
  <2>1. AgmtTypeOK'
    BY <1>25 DEF TotEnd, ThreadAt, ThreadGoes, agreement, replica, TypeOK, AgmtTypeOK,
         WhereTypeOK
  <2>2. ObjectTypeOK'
    <3>0. rp \in [Agmts -> RpRec] /\ inc \in [Agmts -> IncRec] /\ tot \in [Agmts -> TotRec]
      BY DEF TypeOK, ObjectTypeOK, RpRec, IncRec, TotRec
    <3>1. rp' \in [Agmts -> RpRec]
      BY <1>25, <3>0 DEF TotEnd
    <3>2. inc' \in [Agmts -> IncRec]
      BY <1>25, <3>0 DEF TotEnd
    <3>3. tot' \in [Agmts -> TotRec]
      BY <1>25, <3>0, TotUpdated DEF TotEnd
    <3>4. QED
      BY <3>1, <3>2, <3>3 DEF ObjectTypeOK, RpRec, IncRec, TotRec
  <2>3. WhereTypeOK'
    BY <1>25, ProtocolAssumption, IdleMeans DEF TotEnd, ThreadAt, ThreadGoes, agreement,
         replica, TypeOK, WhereTypeOK, AgmtTypeOK, ThreadPcs, IncPcs, IncAsleep,
         TotMarked, CallerPcs, StopPcs, InitPcs
  <2>4. QED
    BY <2>1, <2>2, <2>3 DEF TypeOK
<1>26. ASSUME NEW g \in Agmts, TotClear(g) PROVE TypeOK'
  <2>1. AgmtTypeOK'
    BY <1>26 DEF TotClear, ThreadAt, ThreadGoes, agreement, TypeOK, AgmtTypeOK,
         WhereTypeOK
  <2>2. ObjectTypeOK'
    BY <1>26, ProtocolAssumption DEF TotClear, ThreadAt, ThreadGoes, agreement, TypeOK,
         ObjectTypeOK, WhereTypeOK, AgmtTypeOK, ProtStates
  <2>3. WhereTypeOK'
    BY <1>26, ProtocolAssumption, IdleMeans DEF TotClear, ThreadAt, ThreadGoes,
         agreement, TypeOK, WhereTypeOK, AgmtTypeOK, ThreadPcs, IncPcs, IncAsleep,
         TotMarked, CallerPcs, StopPcs, InitPcs
  <2>4. QED
    BY <2>1, <2>2, <2>3 DEF TypeOK
<1>27. ASSUME NEW g \in Agmts, Finished(g) PROVE TypeOK'
  <2>1. AgmtTypeOK'
    BY <1>27 DEF Finished, ThreadGoes, Case, agreement, replica, ThreadAt, TypeOK,
         AgmtTypeOK, WhereTypeOK
  <2>2. ObjectTypeOK'
    BY <1>27, ProtocolAssumption DEF Finished, ThreadGoes, Case, agreement, replica,
         ThreadAt, TypeOK, ObjectTypeOK, WhereTypeOK, AgmtTypeOK, ProtStates
  <2>3. WhereTypeOK'
    BY <1>27, ProtocolAssumption, IdleMeans DEF Finished, ThreadGoes, Case, agreement,
         replica, ThreadAt, TypeOK, WhereTypeOK, AgmtTypeOK, ThreadPcs, IncPcs,
         IncAsleep, TotMarked, CallerPcs, StopPcs, InitPcs
  <2>4. QED
    BY <2>1, <2>2, <2>3 DEF TypeOK
<1>28. ASSUME NEW g \in Agmts, After(g) PROVE TypeOK'
  <2>1. AgmtTypeOK'
    BY <1>28 DEF After, ThreadAt, ThreadGoes, agreement, replica, TypeOK, AgmtTypeOK,
         WhereTypeOK
  <2>2. ObjectTypeOK'
    <3>0. rp \in [Agmts -> RpRec] /\ inc \in [Agmts -> IncRec] /\ tot \in [Agmts -> TotRec]
      BY DEF TypeOK, ObjectTypeOK, RpRec, IncRec, TotRec
    <3>1. rp' \in [Agmts -> RpRec]
      <4>1. CASE protocol[g]
        BY <1>28, <3>0, <4>1, RpAdvanced DEF After
      <4>2. CASE ~protocol[g]
        BY <1>28, <3>0, <4>2 DEF After, RpRec, ProtStates
      <4>3. QED
        BY <4>1, <4>2
    <3>2. inc' \in [Agmts -> IncRec]
      BY <1>28, <3>0 DEF After
    <3>3. tot' \in [Agmts -> TotRec]
      BY <1>28, <3>0 DEF After
    <3>4. QED
      BY <3>1, <3>2, <3>3 DEF ObjectTypeOK, RpRec, IncRec, TotRec
  <2>3. WhereTypeOK'
    BY <1>28, ProtocolAssumption, IdleMeans DEF After, ThreadAt, ThreadGoes, agreement,
         replica, TypeOK, WhereTypeOK, AgmtTypeOK, ThreadPcs, IncPcs, IncAsleep,
         TotMarked, CallerPcs, StopPcs, InitPcs
  <2>4. QED
    BY <2>1, <2>2, <2>3 DEF TypeOK
<1>29. ASSUME NEW g \in Agmts, IncGoesOn(g) PROVE TypeOK'
  <2>1. AgmtTypeOK'
    BY <1>29 DEF IncGoesOn, ThreadAt, ThreadGoes, IsShutdown, agreement, replica,
         TypeOK, AgmtTypeOK, WhereTypeOK
  <2>2. ObjectTypeOK'
    <3>0. rp \in [Agmts -> RpRec] /\ inc \in [Agmts -> IncRec] /\ tot \in [Agmts -> TotRec]
      BY DEF TypeOK, ObjectTypeOK, RpRec, IncRec, TotRec
    <3>1. rp' \in [Agmts -> RpRec]
      BY <1>29, <3>0 DEF IncGoesOn
    <3>2. inc' \in [Agmts -> IncRec]
      BY <1>29, <3>0, IncUpdated DEF IncGoesOn
    <3>3. tot' \in [Agmts -> TotRec]
      BY <1>29, <3>0 DEF IncGoesOn
    <3>4. QED
      BY <3>1, <3>2, <3>3 DEF ObjectTypeOK, RpRec, IncRec, TotRec
  <2>3. WhereTypeOK'
    BY <1>29, ProtocolAssumption, IdleMeans DEF IncGoesOn, ThreadAt, ThreadGoes,
         IsShutdown, agreement, replica, TypeOK, WhereTypeOK, AgmtTypeOK, ThreadPcs,
         IncPcs, IncAsleep, TotMarked, CallerPcs, StopPcs, InitPcs
  <2>4. QED
    BY <2>1, <2>2, <2>3 DEF TypeOK
<1>30. ASSUME NEW g \in Agmts, IncFatal(g) PROVE TypeOK'
  <2>1. AgmtTypeOK'
    BY <1>30 DEF IncFatal, ThreadAt, ThreadGoes, IsShutdown, agreement, replica, TypeOK,
         AgmtTypeOK, WhereTypeOK
  <2>2. ObjectTypeOK'
    <3>0. rp \in [Agmts -> RpRec] /\ inc \in [Agmts -> IncRec] /\ tot \in [Agmts -> TotRec]
      BY DEF TypeOK, ObjectTypeOK, RpRec, IncRec, TotRec
    <3>1. rp' \in [Agmts -> RpRec]
      BY <1>30, <3>0 DEF IncFatal
    <3>2. inc' \in [Agmts -> IncRec]
      BY <1>30, <3>0, IncUpdated DEF IncFatal
    <3>3. tot' \in [Agmts -> TotRec]
      BY <1>30, <3>0 DEF IncFatal
    <3>4. QED
      BY <3>1, <3>2, <3>3 DEF ObjectTypeOK, RpRec, IncRec, TotRec
  <2>3. WhereTypeOK'
    BY <1>30, ProtocolAssumption, IdleMeans DEF IncFatal, ThreadAt, ThreadGoes,
         IsShutdown, agreement, replica, TypeOK, WhereTypeOK, AgmtTypeOK, ThreadPcs,
         IncPcs, IncAsleep, TotMarked, CallerPcs, StopPcs, InitPcs
  <2>4. QED
    BY <2>1, <2>2, <2>3 DEF TypeOK
<1>31. ASSUME NEW g \in Agmts, IncFatalReset(g) PROVE TypeOK'
  <2>1. AgmtTypeOK'
    BY <1>31 DEF IncFatalReset, ThreadAt, ThreadGoes, agreement, replica, TypeOK,
         AgmtTypeOK, WhereTypeOK
  <2>2. ObjectTypeOK'
    <3>0. rp \in [Agmts -> RpRec] /\ inc \in [Agmts -> IncRec] /\ tot \in [Agmts -> TotRec]
      BY DEF TypeOK, ObjectTypeOK, RpRec, IncRec, TotRec
    <3>1. rp' \in [Agmts -> RpRec]
      BY <1>31, <3>0 DEF IncFatalReset
    <3>2. inc' \in [Agmts -> IncRec]
      BY <1>31, <3>0, IncUpdated DEF IncFatalReset
    <3>3. tot' \in [Agmts -> TotRec]
      BY <1>31, <3>0 DEF IncFatalReset
    <3>4. QED
      BY <3>1, <3>2, <3>3 DEF ObjectTypeOK, RpRec, IncRec, TotRec
  <2>3. WhereTypeOK'
    BY <1>31, ProtocolAssumption, IdleMeans DEF IncFatalReset, ThreadAt, ThreadGoes,
         agreement, replica, TypeOK, WhereTypeOK, AgmtTypeOK, ThreadPcs, IncPcs,
         IncAsleep, TotMarked, CallerPcs, StopPcs, InitPcs
  <2>4. QED
    BY <2>1, <2>2, <2>3 DEF TypeOK
<1>32. ASSUME NEW g \in Agmts, IncWakes(g) PROVE TypeOK'
  <2>1. AgmtTypeOK'
    BY <1>32 DEF IncWakes, IncAsleep, ThreadGoes, agreement, replica, TypeOK,
         AgmtTypeOK, WhereTypeOK
  <2>2. ObjectTypeOK'
    BY <1>32, ProtocolAssumption DEF IncWakes, IncAsleep, ThreadGoes, agreement,
         replica, TypeOK, ObjectTypeOK, WhereTypeOK, AgmtTypeOK, ProtStates
  <2>3. WhereTypeOK'
    BY <1>32, ProtocolAssumption, IdleMeans DEF IncWakes, IncAsleep, ThreadGoes,
         agreement, replica, TypeOK, WhereTypeOK, AgmtTypeOK, ThreadPcs, IncPcs,
         IncAsleep, TotMarked, CallerPcs, StopPcs, InitPcs
  <2>4. QED
    BY <2>1, <2>2, <2>3 DEF TypeOK
<1>33. ASSUME RecvTest PROVE TypeOK'
  <2>1. AgmtTypeOK'
    BY <1>33 DEF RecvTest, agreement, TypeOK, AgmtTypeOK, WhereTypeOK
  <2>2. ObjectTypeOK'
    BY <1>33, ProtocolAssumption DEF RecvTest, agreement, TypeOK, ObjectTypeOK,
         WhereTypeOK, AgmtTypeOK, ProtStates
  <2>3. WhereTypeOK'
    BY <1>33, ProtocolAssumption, IdleMeans DEF RecvTest, agreement, TypeOK,
         WhereTypeOK, AgmtTypeOK, ThreadPcs, IncPcs, IncAsleep, TotMarked, CallerPcs,
         StopPcs, InitPcs
  <2>4. QED
    BY <2>1, <2>2, <2>3 DEF TypeOK
<1>34. ASSUME RecvMark PROVE TypeOK'
  <2>1. AgmtTypeOK'
    BY <1>34 DEF RecvMark, agreement, TypeOK, AgmtTypeOK, WhereTypeOK
  <2>2. ObjectTypeOK'
    BY <1>34, ProtocolAssumption DEF RecvMark, agreement, TypeOK, ObjectTypeOK,
         WhereTypeOK, AgmtTypeOK, ProtStates
  <2>3. WhereTypeOK'
    BY <1>34, ProtocolAssumption, IdleMeans DEF RecvMark, agreement, TypeOK,
         WhereTypeOK, AgmtTypeOK, ThreadPcs, IncPcs, IncAsleep, TotMarked, CallerPcs,
         StopPcs, InitPcs
  <2>4. QED
    BY <2>1, <2>2, <2>3 DEF TypeOK
<1>35. ASSUME RecvReply PROVE TypeOK'
  <2>1. AgmtTypeOK'
    BY <1>35 DEF RecvReply, agreement, TypeOK, AgmtTypeOK, WhereTypeOK
  <2>2. ObjectTypeOK'
    BY <1>35, ProtocolAssumption DEF RecvReply, agreement, TypeOK, ObjectTypeOK,
         WhereTypeOK, AgmtTypeOK, ProtStates
  <2>3. WhereTypeOK'
    BY <1>35, ProtocolAssumption, IdleMeans DEF RecvReply, agreement, TypeOK,
         WhereTypeOK, AgmtTypeOK, ThreadPcs, IncPcs, IncAsleep, TotMarked, CallerPcs,
         StopPcs, InitPcs
  <2>4. QED
    BY <2>1, <2>2, <2>3 DEF TypeOK
<1>36. CASE UNCHANGED vars
  <2>1. AgmtTypeOK'
    BY <1>36 DEF vars, agreement, replica, TypeOK, AgmtTypeOK, WhereTypeOK
  <2>2. ObjectTypeOK'
    BY <1>36, ProtocolAssumption DEF vars, agreement, replica, TypeOK, ObjectTypeOK,
         WhereTypeOK, AgmtTypeOK, ProtStates
  <2>3. WhereTypeOK'
    BY <1>36, ProtocolAssumption, IdleMeans DEF vars, agreement, replica, TypeOK,
         WhereTypeOK, AgmtTypeOK, ThreadPcs, IncPcs, IncAsleep, TotMarked, CallerPcs,
         StopPcs, InitPcs
  <2>4. QED
    BY <2>1, <2>2, <2>3 DEF TypeOK
<1>37. QED
  BY <1>1, <1>2, <1>3, <1>4, <1>5, <1>6, <1>7, <1>8, <1>9, <1>10, <1>11, <1>12, <1>13,
       <1>14, <1>15, <1>16, <1>17, <1>18, <1>19, <1>20, <1>21, <1>22, <1>23, <1>24,
       <1>25, <1>26, <1>27, <1>28, <1>29, <1>30, <1>31, <1>32, <1>33, <1>34, <1>35,
       <1>36 DEF Next, CallerStep, ThreadStep

(* The agreements, their protocol objects and their threads keep their     *)
(* types, however many callers there are.                                  *)
THEOREM ThreadTypeCorrect == Spec => []TypeOK
BY ThreadTypeInit, ThreadTypeNext, PTL DEF Spec

-----------------------------------------------------------------------------
(* No agreement has been started.                                          *)
THEOREM LifeInit == Init => LifeInv
BY IdleMeans DEF Init, LifeInv, NoUseAfterFree, CallerMeans, LockHeld, OneStop,
     SendNotLeaked, Alive, StopPcs, HoldingPcs

(* One step, of any caller or thread.                                      *)
THEOREM LifeNext == TypeOK /\ LifeInv /\ [Next]_vars => LifeInv'
<1> SUFFICES ASSUME TypeOK, LifeInv, [Next]_vars PROVE LifeInv'
  OBVIOUS
<1>1. ASSUME NEW k \in Callers, NEW g \in Agmts, AgmtStart(k, g) PROVE LifeInv'
  <2>1. NoUseAfterFree'
    BY <1>1, IdleMeans, ProtocolAssumption DEF AgmtStart, Request, Meets, NewProtocol,
         NewInc, NewTot, replica, TypeOK, LifeInv, AgmtTypeOK, WhereTypeOK,
         ObjectTypeOK, Alive, NoUseAfterFree, CallerMeans, LockHeld, OneStop, ThreadPcs,
         IncPcs, IncAsleep, TotMarked, StopPcs
  <2>2. CallerMeans'
    BY <1>1, IdleMeans DEF AgmtStart, Request, Meets, NewProtocol, NewInc, NewTot,
         replica, TypeOK, LifeInv, AgmtTypeOK, WhereTypeOK, Alive, NoUseAfterFree,
         CallerMeans, OneStop, StopPcs
  <2>3. LockHeld'
    <3>1. CASE protocol[g]
      BY <1>1, <3>1 DEF AgmtStart, Request, Meets, replica, LifeInv, LockHeld
    <3>2. CASE ~protocol[g]
      <4>1. caller' = caller /\ overlap \subseteq overlap' /\ g \notin overlap
            /\ \A h \in Agmts \ {g} : rp'[h] = rp[h]
        BY <1>1, <3>2 DEF AgmtStart, Request, Meets, TypeOK, ObjectTypeOK
      <4>2. \A l \in Callers : caller[l].agmt = g => caller[l].pc \notin HoldingPcs
        BY <3>2, <4>1 DEF LifeInv, NoUseAfterFree, HoldingPcs
      <4>3. QED
        BY <4>1, <4>2 DEF LifeInv, LockHeld, TypeOK, WhereTypeOK
    <3>3. QED
      BY <3>1, <3>2
  <2>4. OneStop'
    BY <1>1, IdleMeans DEF AgmtStart, Request, Meets, NewProtocol, NewInc, NewTot,
         replica, TypeOK, LifeInv, AgmtTypeOK, WhereTypeOK, CallerMeans, OneStop,
         StopPcs, InitUses, LockHeld, HoldingPcs
  <2>5. SendNotLeaked'
    BY <1>1, IdleMeans DEF AgmtStart, Request, Meets, NewProtocol, NewInc, NewTot,
         replica, TypeOK, LifeInv, AgmtTypeOK, WhereTypeOK, SendNotLeaked,
         NoUseAfterFree, Alive, TotMarked
  <2>6. QED
    BY <2>1, <2>2, <2>3, <2>4, <2>5 DEF LifeInv
<1>2. ASSUME NEW k \in Callers, NEW g \in Agmts, AgmtStop(k, g) PROVE LifeInv'
  <2>1. NoUseAfterFree'
    BY <1>2, IdleMeans, ProtocolAssumption DEF AgmtStop, Request, Meets, InitUses,
         replica, TypeOK, LifeInv, AgmtTypeOK, WhereTypeOK, ObjectTypeOK, Alive,
         NoUseAfterFree, CallerMeans, LockHeld, OneStop, ThreadPcs, IncPcs, IncAsleep,
         TotMarked, StopPcs
  <2>2. CallerMeans'
    BY <1>2, IdleMeans DEF AgmtStop, Request, Meets, InitUses, replica, TypeOK, LifeInv,
         AgmtTypeOK, WhereTypeOK, Alive, NoUseAfterFree, CallerMeans, OneStop, StopPcs
  <2>3. LockHeld'
    BY <1>2, IdleMeans, ProtocolAssumption DEF AgmtStop, Request, Meets, InitUses,
         replica, TypeOK, LifeInv, AgmtTypeOK, WhereTypeOK, ObjectTypeOK,
         NoUseAfterFree, CallerMeans, LockHeld, HoldingPcs
  <2>4. OneStop'
    BY <1>2, IdleMeans DEF AgmtStop, Request, Meets, InitUses, replica, TypeOK, LifeInv,
         AgmtTypeOK, WhereTypeOK, CallerMeans, OneStop, StopPcs, InitUses, LockHeld,
         HoldingPcs
  <2>5. SendNotLeaked'
    BY <1>2, IdleMeans DEF AgmtStop, Request, Meets, InitUses, replica, TypeOK, LifeInv,
         AgmtTypeOK, WhereTypeOK, SendNotLeaked, NoUseAfterFree, Alive, TotMarked
  <2>6. QED
    BY <2>1, <2>2, <2>3, <2>4, <2>5 DEF LifeInv
<1>3. ASSUME NEW k \in Callers, NEW g \in Agmts, AgmtInitialize(k, g) PROVE LifeInv'
  <2>1. NoUseAfterFree'
    BY <1>3, IdleMeans, ProtocolAssumption DEF AgmtInitialize, Request, agreement,
         replica, TypeOK, LifeInv, AgmtTypeOK, WhereTypeOK, ObjectTypeOK, Alive,
         NoUseAfterFree, CallerMeans, LockHeld, OneStop, ThreadPcs, IncPcs, IncAsleep,
         TotMarked, StopPcs
  <2>2. CallerMeans'
    BY <1>3, IdleMeans DEF AgmtInitialize, Request, agreement, replica, TypeOK, LifeInv,
         AgmtTypeOK, WhereTypeOK, Alive, NoUseAfterFree, CallerMeans, OneStop, StopPcs
  <2>3. LockHeld'
    BY <1>3, IdleMeans, ProtocolAssumption DEF AgmtInitialize, Request, agreement,
         replica, TypeOK, LifeInv, AgmtTypeOK, WhereTypeOK, ObjectTypeOK,
         NoUseAfterFree, CallerMeans, LockHeld, HoldingPcs
  <2>4. OneStop'
    BY <1>3, IdleMeans DEF AgmtInitialize, Request, agreement, replica, TypeOK, LifeInv,
         AgmtTypeOK, WhereTypeOK, CallerMeans, OneStop, StopPcs, InitUses, LockHeld,
         HoldingPcs
  <2>5. SendNotLeaked'
    BY <1>3, IdleMeans DEF AgmtInitialize, Request, agreement, replica, TypeOK, LifeInv,
         AgmtTypeOK, WhereTypeOK, SendNotLeaked, NoUseAfterFree, Alive, TotMarked
  <2>6. QED
    BY <2>1, <2>2, <2>3, <2>4, <2>5 DEF LifeInv
<1>4. ASSUME NEW k \in Callers, StopLock(k) PROVE LifeInv'
  <2>1. NoUseAfterFree'
    BY <1>4, IdleMeans, ProtocolAssumption DEF StopLock, CallerAt, CallerGoes, LockFree,
         agreement, replica, TypeOK, LifeInv, AgmtTypeOK, WhereTypeOK, ObjectTypeOK,
         Alive, NoUseAfterFree, CallerMeans, LockHeld, OneStop, ThreadPcs, IncPcs,
         IncAsleep, TotMarked, StopPcs
  <2>2. CallerMeans'
    BY <1>4, IdleMeans DEF StopLock, CallerAt, CallerGoes, LockFree, agreement, replica,
         TypeOK, LifeInv, AgmtTypeOK, WhereTypeOK, Alive, NoUseAfterFree, CallerMeans,
         OneStop, StopPcs
  <2>3. LockHeld'
    BY <1>4, IdleMeans, ProtocolAssumption DEF StopLock, CallerAt, CallerGoes, LockFree,
         agreement, replica, TypeOK, LifeInv, AgmtTypeOK, WhereTypeOK, ObjectTypeOK,
         NoUseAfterFree, CallerMeans, LockHeld, HoldingPcs
  <2>4. OneStop'
    BY <1>4, IdleMeans DEF StopLock, CallerAt, CallerGoes, LockFree, agreement, replica,
         TypeOK, LifeInv, AgmtTypeOK, WhereTypeOK, CallerMeans, OneStop, StopPcs,
         InitUses, LockHeld, HoldingPcs
  <2>5. SendNotLeaked'
    BY <1>4, IdleMeans DEF StopLock, CallerAt, CallerGoes, LockFree, agreement, replica,
         TypeOK, LifeInv, AgmtTypeOK, WhereTypeOK, SendNotLeaked, NoUseAfterFree, Alive,
         TotMarked
  <2>6. QED
    BY <2>1, <2>2, <2>3, <2>4, <2>5 DEF LifeInv
<1>5. ASSUME NEW k \in Callers, StopNotify(k) PROVE LifeInv'
  <2>1. NoUseAfterFree'
    BY <1>5, IdleMeans, ProtocolAssumption DEF StopNotify, Shutdown, CallerAt,
         CallerGoes, agreement, replica, TypeOK, LifeInv, AgmtTypeOK, WhereTypeOK,
         ObjectTypeOK, Alive, NoUseAfterFree, CallerMeans, LockHeld, OneStop, ThreadPcs,
         IncPcs, IncAsleep, TotMarked, StopPcs
  <2>2. CallerMeans'
    BY <1>5, IdleMeans DEF StopNotify, Shutdown, CallerAt, CallerGoes, agreement,
         replica, TypeOK, LifeInv, AgmtTypeOK, WhereTypeOK, Alive, NoUseAfterFree,
         CallerMeans, OneStop, StopPcs
  <2>3. LockHeld'
    BY <1>5, IdleMeans, ProtocolAssumption DEF StopNotify, Shutdown, CallerAt,
         CallerGoes, agreement, replica, TypeOK, LifeInv, AgmtTypeOK, WhereTypeOK,
         ObjectTypeOK, NoUseAfterFree, CallerMeans, LockHeld, HoldingPcs
  <2>4. OneStop'
    BY <1>5, IdleMeans DEF StopNotify, Shutdown, CallerAt, CallerGoes, agreement,
         replica, TypeOK, LifeInv, AgmtTypeOK, WhereTypeOK, CallerMeans, OneStop,
         StopPcs, InitUses, LockHeld, HoldingPcs
  <2>5. SendNotLeaked'
    BY <1>5, IdleMeans DEF StopNotify, Shutdown, CallerAt, CallerGoes, agreement,
         replica, TypeOK, LifeInv, AgmtTypeOK, WhereTypeOK, SendNotLeaked,
         NoUseAfterFree, Alive, TotMarked
  <2>6. QED
    BY <2>1, <2>2, <2>3, <2>4, <2>5 DEF LifeInv
<1>6. ASSUME NEW k \in Callers, StopInc(k) PROVE LifeInv'
  <2>1. NoUseAfterFree'
    BY <1>6, IdleMeans, ProtocolAssumption DEF StopInc, CallerAt, CallerGoes, agreement,
         replica, TypeOK, LifeInv, AgmtTypeOK, WhereTypeOK, ObjectTypeOK, Alive,
         NoUseAfterFree, CallerMeans, LockHeld, OneStop, ThreadPcs, IncPcs, IncAsleep,
         TotMarked, StopPcs
  <2>2. CallerMeans'
    BY <1>6, IdleMeans DEF StopInc, CallerAt, CallerGoes, agreement, replica, TypeOK,
         LifeInv, AgmtTypeOK, WhereTypeOK, Alive, NoUseAfterFree, CallerMeans, OneStop,
         StopPcs
  <2>3. LockHeld'
    BY <1>6, IdleMeans, ProtocolAssumption DEF StopInc, CallerAt, CallerGoes, agreement,
         replica, TypeOK, LifeInv, AgmtTypeOK, WhereTypeOK, ObjectTypeOK,
         NoUseAfterFree, CallerMeans, LockHeld, HoldingPcs
  <2>4. OneStop'
    BY <1>6, IdleMeans DEF StopInc, CallerAt, CallerGoes, agreement, replica, TypeOK,
         LifeInv, AgmtTypeOK, WhereTypeOK, CallerMeans, OneStop, StopPcs, InitUses,
         LockHeld, HoldingPcs
  <2>5. SendNotLeaked'
    BY <1>6, IdleMeans DEF StopInc, CallerAt, CallerGoes, agreement, replica, TypeOK,
         LifeInv, AgmtTypeOK, WhereTypeOK, SendNotLeaked, NoUseAfterFree, Alive,
         TotMarked
  <2>6. QED
    BY <2>1, <2>2, <2>3, <2>4, <2>5 DEF LifeInv
<1>7. ASSUME NEW k \in Callers, StopTot(k) PROVE LifeInv'
  <2>1. NoUseAfterFree'
    BY <1>7, IdleMeans, ProtocolAssumption DEF StopTot, CallerAt, CallerGoes, agreement,
         replica, TypeOK, LifeInv, AgmtTypeOK, WhereTypeOK, ObjectTypeOK, Alive,
         NoUseAfterFree, CallerMeans, LockHeld, OneStop, ThreadPcs, IncPcs, IncAsleep,
         TotMarked, StopPcs
  <2>2. CallerMeans'
    BY <1>7, IdleMeans DEF StopTot, CallerAt, CallerGoes, agreement, replica, TypeOK,
         LifeInv, AgmtTypeOK, WhereTypeOK, Alive, NoUseAfterFree, CallerMeans, OneStop,
         StopPcs
  <2>3. LockHeld'
    BY <1>7, IdleMeans, ProtocolAssumption DEF StopTot, CallerAt, CallerGoes, agreement,
         replica, TypeOK, LifeInv, AgmtTypeOK, WhereTypeOK, ObjectTypeOK,
         NoUseAfterFree, CallerMeans, LockHeld, HoldingPcs
  <2>4. OneStop'
    BY <1>7, IdleMeans DEF StopTot, CallerAt, CallerGoes, agreement, replica, TypeOK,
         LifeInv, AgmtTypeOK, WhereTypeOK, CallerMeans, OneStop, StopPcs, InitUses,
         LockHeld, HoldingPcs
  <2>5. SendNotLeaked'
    BY <1>7, IdleMeans DEF StopTot, CallerAt, CallerGoes, agreement, replica, TypeOK,
         LifeInv, AgmtTypeOK, WhereTypeOK, SendNotLeaked, NoUseAfterFree, Alive,
         TotMarked
  <2>6. QED
    BY <2>1, <2>2, <2>3, <2>4, <2>5 DEF LifeInv
<1>8. ASSUME NEW k \in Callers, Join(k) PROVE LifeInv'
  <2>1. NoUseAfterFree'
    BY <1>8, IdleMeans, ProtocolAssumption DEF Join, CallerAt, CallerGoes, Alive,
         agreement, replica, TypeOK, LifeInv, AgmtTypeOK, WhereTypeOK, ObjectTypeOK,
         Alive, NoUseAfterFree, CallerMeans, LockHeld, OneStop, ThreadPcs, IncPcs,
         IncAsleep, TotMarked, StopPcs
  <2>2. CallerMeans'
    BY <1>8, IdleMeans DEF Join, CallerAt, CallerGoes, Alive, agreement, replica,
         TypeOK, LifeInv, AgmtTypeOK, WhereTypeOK, Alive, NoUseAfterFree, CallerMeans,
         OneStop, StopPcs
  <2>3. LockHeld'
    BY <1>8, IdleMeans, ProtocolAssumption DEF Join, CallerAt, CallerGoes, Alive,
         agreement, replica, TypeOK, LifeInv, AgmtTypeOK, WhereTypeOK, ObjectTypeOK,
         NoUseAfterFree, CallerMeans, LockHeld, HoldingPcs
  <2>4. OneStop'
    BY <1>8, IdleMeans DEF Join, CallerAt, CallerGoes, Alive, agreement, replica,
         TypeOK, LifeInv, AgmtTypeOK, WhereTypeOK, CallerMeans, OneStop, StopPcs,
         InitUses, LockHeld, HoldingPcs
  <2>5. SendNotLeaked'
    BY <1>8, IdleMeans DEF Join, CallerAt, CallerGoes, Alive, agreement, replica,
         TypeOK, LifeInv, AgmtTypeOK, WhereTypeOK, SendNotLeaked, NoUseAfterFree, Alive,
         TotMarked
  <2>6. QED
    BY <2>1, <2>2, <2>3, <2>4, <2>5 DEF LifeInv
<1>9. ASSUME NEW k \in Callers, Free(k) PROVE LifeInv'
  <2>1. NoUseAfterFree'
    <3> DEFINE h == caller[k].agmt
    <3>1. protocol' = [protocol EXCEPT ![h] = FALSE] /\ thread' = thread /\ overlap' = overlap
          /\ caller' = [caller EXCEPT ![k] = Idle]
      BY <1>9 DEF Free, CallerEnds
    <3>2. h \in Agmts /\ (h \notin overlap => ~Alive(h))
      BY <1>9 DEF Free, CallerAt, TypeOK, WhereTypeOK, LifeInv, CallerMeans
    <3>3. ASSUME NEW l \in Callers, l # k, caller[l].agmt = h, h \notin overlap
          PROVE  caller[l].pc \in {"idle", "free", "initRead"}
      <4>1. caller[l].pc \notin StopPcs \cup {"initRead", "initLock"}
        BY <1>9, <3>3 DEF Free, CallerAt, LifeInv, OneStop, StopPcs
      <4>2. CASE ~protocol[h]
        BY <3>2, <3>3, <4>2 DEF LifeInv, NoUseAfterFree
      <4>3. CASE protocol[h]
        <5>1. rp[h].lock = NoOne
          BY <1>9, <4>3 DEF Free, LockFree
        <5>2. caller[l].pc \notin HoldingPcs
          BY <3>3, <5>1, ProtocolAssumption DEF LifeInv, LockHeld
        <5>3. caller[l].pc \in CallerPcs
          BY DEF TypeOK, WhereTypeOK
        <5>4. QED
          BY <4>1, <5>2, <5>3 DEF CallerPcs, StopPcs, InitPcs, HoldingPcs
      <4>4. QED
        BY <4>2, <4>3
    <3>4. caller'[k].pc = "idle"
      BY <3>1, IdleMeans DEF TypeOK, WhereTypeOK
    <3>5. \A l \in Callers : l # k => caller'[l] = caller[l]
      BY <3>1 DEF TypeOK, WhereTypeOK
    <3>6. \A f \in Agmts \ {h} : protocol'[f] = protocol[f]
      BY <3>1 DEF TypeOK, AgmtTypeOK
    <3>7. QED
      BY <3>1, <3>2, <3>3, <3>4, <3>5, <3>6 DEF LifeInv, NoUseAfterFree, Alive
  <2>2. CallerMeans'
    BY <1>9, IdleMeans DEF Free, CallerAt, CallerEnds, LockFree, replica, TypeOK,
         LifeInv, AgmtTypeOK, WhereTypeOK, Alive, NoUseAfterFree, CallerMeans, OneStop,
         StopPcs
  <2>3. LockHeld'
    BY <1>9, IdleMeans, ProtocolAssumption DEF Free, CallerAt, CallerEnds, LockFree,
         replica, TypeOK, LifeInv, AgmtTypeOK, WhereTypeOK, ObjectTypeOK,
         NoUseAfterFree, CallerMeans, LockHeld, HoldingPcs
  <2>4. OneStop'
    BY <1>9, IdleMeans DEF Free, CallerAt, CallerEnds, LockFree, replica, TypeOK,
         LifeInv, AgmtTypeOK, WhereTypeOK, CallerMeans, OneStop, StopPcs, InitUses,
         LockHeld, HoldingPcs
  <2>5. SendNotLeaked'
    BY <1>9, IdleMeans DEF Free, CallerAt, CallerEnds, LockFree, replica, TypeOK,
         LifeInv, AgmtTypeOK, WhereTypeOK, SendNotLeaked, NoUseAfterFree, Alive,
         TotMarked
  <2>6. QED
    BY <2>1, <2>2, <2>3, <2>4, <2>5 DEF LifeInv
<1>10. ASSUME NEW k \in Callers, InitRead(k) PROVE LifeInv'
  <2>1. NoUseAfterFree'
    <3>1. caller[k].agmt \in Agmts /\ caller[k].pc = "initRead"
      BY <1>10 DEF InitRead, CallerAt, TypeOK, WhereTypeOK
    <3>2. CASE protocol[caller[k].agmt]
      BY <1>10, <3>1, <3>2 DEF InitRead, CallerGoes, agreement, TypeOK, AgmtTypeOK,
           WhereTypeOK, LifeInv, NoUseAfterFree, Alive
    <3>3. CASE ~protocol[caller[k].agmt]
      BY <1>10, <3>1, <3>3, IdleMeans DEF InitRead, CallerEnds, agreement, TypeOK,
           AgmtTypeOK, WhereTypeOK, LifeInv, NoUseAfterFree, Alive
    <3>4. QED
      BY <3>2, <3>3
  <2>2. CallerMeans'
    BY <1>10, IdleMeans DEF InitRead, CallerAt, CallerGoes, CallerEnds, agreement,
         replica, TypeOK, LifeInv, AgmtTypeOK, WhereTypeOK, Alive, NoUseAfterFree,
         CallerMeans, OneStop, StopPcs
  <2>3. LockHeld'
    BY <1>10, IdleMeans, ProtocolAssumption DEF InitRead, CallerAt, CallerGoes,
         CallerEnds, agreement, replica, TypeOK, LifeInv, AgmtTypeOK, WhereTypeOK,
         ObjectTypeOK, NoUseAfterFree, CallerMeans, LockHeld, HoldingPcs
  <2>4. OneStop'
    <3>1. caller[k].pc = "initRead" /\ overlap' = overlap
      BY <1>10 DEF InitRead, CallerAt
    <3>2. \A l \in Callers : l # k => caller'[l] = caller[l]
      BY <1>10 DEF InitRead, CallerGoes, CallerEnds, TypeOK, WhereTypeOK
    <3>3. caller'[k].pc = "idle" \/ (caller'[k].pc = "initLock" /\ caller'[k].agmt = caller[k].agmt)
      BY <1>10, IdleMeans DEF InitRead, CallerGoes, CallerEnds, TypeOK, WhereTypeOK
    <3>4. QED
      BY <3>1, <3>2, <3>3 DEF LifeInv, OneStop, StopPcs
  <2>5. SendNotLeaked'
    BY <1>10, IdleMeans DEF InitRead, CallerAt, CallerGoes, CallerEnds, agreement,
         replica, TypeOK, LifeInv, AgmtTypeOK, WhereTypeOK, SendNotLeaked,
         NoUseAfterFree, Alive, TotMarked
  <2>6. QED
    BY <2>1, <2>2, <2>3, <2>4, <2>5 DEF LifeInv
<1>11. ASSUME NEW k \in Callers, InitLock(k) PROVE LifeInv'
  <2>1. NoUseAfterFree'
    BY <1>11, IdleMeans, ProtocolAssumption DEF InitLock, CallerAt, CallerGoes,
         LockFree, agreement, replica, TypeOK, LifeInv, AgmtTypeOK, WhereTypeOK,
         ObjectTypeOK, Alive, NoUseAfterFree, CallerMeans, LockHeld, OneStop, ThreadPcs,
         IncPcs, IncAsleep, TotMarked, StopPcs
  <2>2. CallerMeans'
    BY <1>11, IdleMeans DEF InitLock, CallerAt, CallerGoes, LockFree, agreement,
         replica, TypeOK, LifeInv, AgmtTypeOK, WhereTypeOK, Alive, NoUseAfterFree,
         CallerMeans, OneStop, StopPcs
  <2>3. LockHeld'
    BY <1>11, IdleMeans, ProtocolAssumption DEF InitLock, CallerAt, CallerGoes,
         LockFree, agreement, replica, TypeOK, LifeInv, AgmtTypeOK, WhereTypeOK,
         ObjectTypeOK, NoUseAfterFree, CallerMeans, LockHeld, HoldingPcs
  <2>4. OneStop'
    BY <1>11, IdleMeans DEF InitLock, CallerAt, CallerGoes, LockFree, agreement,
         replica, TypeOK, LifeInv, AgmtTypeOK, WhereTypeOK, CallerMeans, OneStop,
         StopPcs, InitUses, LockHeld, HoldingPcs
  <2>5. SendNotLeaked'
    BY <1>11, IdleMeans DEF InitLock, CallerAt, CallerGoes, LockFree, agreement,
         replica, TypeOK, LifeInv, AgmtTypeOK, WhereTypeOK, SendNotLeaked,
         NoUseAfterFree, Alive, TotMarked
  <2>6. QED
    BY <2>1, <2>2, <2>3, <2>4, <2>5 DEF LifeInv
<1>12. ASSUME NEW k \in Callers, InitNotify(k) PROVE LifeInv'
  <2>1. NoUseAfterFree'
    BY <1>12, IdleMeans, ProtocolAssumption DEF InitNotify, Shutdown, CallerAt,
         CallerGoes, agreement, replica, TypeOK, LifeInv, AgmtTypeOK, WhereTypeOK,
         ObjectTypeOK, Alive, NoUseAfterFree, CallerMeans, LockHeld, OneStop, ThreadPcs,
         IncPcs, IncAsleep, TotMarked, StopPcs
  <2>2. CallerMeans'
    BY <1>12, IdleMeans DEF InitNotify, Shutdown, CallerAt, CallerGoes, agreement,
         replica, TypeOK, LifeInv, AgmtTypeOK, WhereTypeOK, Alive, NoUseAfterFree,
         CallerMeans, OneStop, StopPcs
  <2>3. LockHeld'
    BY <1>12, IdleMeans, ProtocolAssumption DEF InitNotify, Shutdown, CallerAt,
         CallerGoes, agreement, replica, TypeOK, LifeInv, AgmtTypeOK, WhereTypeOK,
         ObjectTypeOK, NoUseAfterFree, CallerMeans, LockHeld, HoldingPcs
  <2>4. OneStop'
    BY <1>12, IdleMeans DEF InitNotify, Shutdown, CallerAt, CallerGoes, agreement,
         replica, TypeOK, LifeInv, AgmtTypeOK, WhereTypeOK, CallerMeans, OneStop,
         StopPcs, InitUses, LockHeld, HoldingPcs
  <2>5. SendNotLeaked'
    BY <1>12, IdleMeans DEF InitNotify, Shutdown, CallerAt, CallerGoes, agreement,
         replica, TypeOK, LifeInv, AgmtTypeOK, WhereTypeOK, SendNotLeaked,
         NoUseAfterFree, Alive, TotMarked
  <2>6. QED
    BY <2>1, <2>2, <2>3, <2>4, <2>5 DEF LifeInv
<1>13. ASSUME NEW k \in Callers, InitInc(k) PROVE LifeInv'
  <2>1. NoUseAfterFree'
    BY <1>13, IdleMeans, ProtocolAssumption DEF InitInc, CallerAt, CallerEnds,
         agreement, replica, TypeOK, LifeInv, AgmtTypeOK, WhereTypeOK, ObjectTypeOK,
         Alive, NoUseAfterFree, CallerMeans, LockHeld, OneStop, ThreadPcs, IncPcs,
         IncAsleep, TotMarked, StopPcs
  <2>2. CallerMeans'
    BY <1>13, IdleMeans DEF InitInc, CallerAt, CallerEnds, agreement, replica, TypeOK,
         LifeInv, AgmtTypeOK, WhereTypeOK, Alive, NoUseAfterFree, CallerMeans, OneStop,
         StopPcs
  <2>3. LockHeld'
    BY <1>13, IdleMeans, ProtocolAssumption DEF InitInc, CallerAt, CallerEnds,
         agreement, replica, TypeOK, LifeInv, AgmtTypeOK, WhereTypeOK, ObjectTypeOK,
         NoUseAfterFree, CallerMeans, LockHeld, HoldingPcs
  <2>4. OneStop'
    BY <1>13, IdleMeans DEF InitInc, CallerAt, CallerEnds, agreement, replica, TypeOK,
         LifeInv, AgmtTypeOK, WhereTypeOK, CallerMeans, OneStop, StopPcs, InitUses,
         LockHeld, HoldingPcs
  <2>5. SendNotLeaked'
    BY <1>13, IdleMeans DEF InitInc, CallerAt, CallerEnds, agreement, replica, TypeOK,
         LifeInv, AgmtTypeOK, WhereTypeOK, SendNotLeaked, NoUseAfterFree, Alive,
         TotMarked
  <2>6. QED
    BY <2>1, <2>2, <2>3, <2>4, <2>5 DEF LifeInv
<1>14. ASSUME NEW g \in Agmts, IncLock(g) PROVE LifeInv'
  <2>1. NoUseAfterFree'
    BY <1>14, IdleMeans, ProtocolAssumption DEF IncLock, LockFree, ThreadGoes, Case,
         agreement, replica, ThreadAt, TypeOK, LifeInv, AgmtTypeOK, WhereTypeOK,
         ObjectTypeOK, Alive, NoUseAfterFree, CallerMeans, LockHeld, OneStop, ThreadPcs,
         IncPcs, IncAsleep, TotMarked, StopPcs
  <2>2. CallerMeans'
    BY <1>14, IdleMeans DEF IncLock, LockFree, ThreadGoes, Case, agreement, replica,
         ThreadAt, TypeOK, LifeInv, AgmtTypeOK, WhereTypeOK, Alive, NoUseAfterFree,
         CallerMeans, OneStop, StopPcs
  <2>3. LockHeld'
    BY <1>14, IdleMeans, ProtocolAssumption DEF IncLock, LockFree, ThreadGoes, Case,
         agreement, replica, ThreadAt, TypeOK, LifeInv, AgmtTypeOK, WhereTypeOK,
         ObjectTypeOK, NoUseAfterFree, CallerMeans, LockHeld, HoldingPcs
  <2>4. OneStop'
    BY <1>14, IdleMeans DEF IncLock, LockFree, ThreadGoes, Case, agreement, replica,
         ThreadAt, TypeOK, LifeInv, AgmtTypeOK, WhereTypeOK, CallerMeans, OneStop,
         StopPcs, InitUses, LockHeld, HoldingPcs
  <2>5. SendNotLeaked'
    BY <1>14, IdleMeans DEF IncLock, LockFree, ThreadGoes, Case, agreement, replica,
         ThreadAt, TypeOK, LifeInv, AgmtTypeOK, WhereTypeOK, SendNotLeaked,
         NoUseAfterFree, Alive, TotMarked
  <2>6. QED
    BY <2>1, <2>2, <2>3, <2>4, <2>5 DEF LifeInv
<1>15. ASSUME NEW g \in Agmts, IncRun(g) PROVE LifeInv'
  <2>1. NoUseAfterFree'
    BY <1>15, IdleMeans, ProtocolAssumption DEF IncRun, ThreadAt, ThreadGoes, agreement,
         replica, TypeOK, LifeInv, AgmtTypeOK, WhereTypeOK, ObjectTypeOK, Alive,
         NoUseAfterFree, CallerMeans, LockHeld, OneStop, ThreadPcs, IncPcs, IncAsleep,
         TotMarked, StopPcs
  <2>2. CallerMeans'
    BY <1>15, IdleMeans DEF IncRun, ThreadAt, ThreadGoes, agreement, replica, TypeOK,
         LifeInv, AgmtTypeOK, WhereTypeOK, Alive, NoUseAfterFree, CallerMeans, OneStop,
         StopPcs
  <2>3. LockHeld'
    BY <1>15, IdleMeans, ProtocolAssumption DEF IncRun, ThreadAt, ThreadGoes, agreement,
         replica, TypeOK, LifeInv, AgmtTypeOK, WhereTypeOK, ObjectTypeOK,
         NoUseAfterFree, CallerMeans, LockHeld, HoldingPcs
  <2>4. OneStop'
    BY <1>15, IdleMeans DEF IncRun, ThreadAt, ThreadGoes, agreement, replica, TypeOK,
         LifeInv, AgmtTypeOK, WhereTypeOK, CallerMeans, OneStop, StopPcs, InitUses,
         LockHeld, HoldingPcs
  <2>5. SendNotLeaked'
    BY <1>15, IdleMeans DEF IncRun, ThreadAt, ThreadGoes, agreement, replica, TypeOK,
         LifeInv, AgmtTypeOK, WhereTypeOK, SendNotLeaked, NoUseAfterFree, Alive,
         TotMarked
  <2>6. QED
    BY <2>1, <2>2, <2>3, <2>4, <2>5 DEF LifeInv
<1>16. ASSUME NEW g \in Agmts, IncShutdown(g) PROVE LifeInv'
  <2>1. NoUseAfterFree'
    BY <1>16, IdleMeans, ProtocolAssumption DEF IncShutdown, ThreadGoes, IsShutdown,
         agreement, replica, TypeOK, LifeInv, AgmtTypeOK, WhereTypeOK, ObjectTypeOK,
         Alive, NoUseAfterFree, CallerMeans, LockHeld, OneStop, ThreadPcs, IncPcs,
         IncAsleep, TotMarked, StopPcs
  <2>2. CallerMeans'
    BY <1>16, IdleMeans DEF IncShutdown, ThreadGoes, IsShutdown, agreement, replica,
         TypeOK, LifeInv, AgmtTypeOK, WhereTypeOK, Alive, NoUseAfterFree, CallerMeans,
         OneStop, StopPcs
  <2>3. LockHeld'
    BY <1>16, IdleMeans, ProtocolAssumption DEF IncShutdown, ThreadGoes, IsShutdown,
         agreement, replica, TypeOK, LifeInv, AgmtTypeOK, WhereTypeOK, ObjectTypeOK,
         NoUseAfterFree, CallerMeans, LockHeld, HoldingPcs
  <2>4. OneStop'
    BY <1>16, IdleMeans DEF IncShutdown, ThreadGoes, IsShutdown, agreement, replica,
         TypeOK, LifeInv, AgmtTypeOK, WhereTypeOK, CallerMeans, OneStop, StopPcs,
         InitUses, LockHeld, HoldingPcs
  <2>5. SendNotLeaked'
    BY <1>16, IdleMeans DEF IncShutdown, ThreadGoes, IsShutdown, agreement, replica,
         TypeOK, LifeInv, AgmtTypeOK, WhereTypeOK, SendNotLeaked, NoUseAfterFree, Alive,
         TotMarked
  <2>6. QED
    BY <2>1, <2>2, <2>3, <2>4, <2>5 DEF LifeInv
<1>17. ASSUME NEW g \in Agmts, IncStart(g) PROVE LifeInv'
  <2>1. NoUseAfterFree'
    BY <1>17, IdleMeans, ProtocolAssumption DEF IncStart, ThreadAt, ThreadGoes,
         IsShutdown, agreement, replica, TypeOK, LifeInv, AgmtTypeOK, WhereTypeOK,
         ObjectTypeOK, Alive, NoUseAfterFree, CallerMeans, LockHeld, OneStop, ThreadPcs,
         IncPcs, IncAsleep, TotMarked, StopPcs
  <2>2. CallerMeans'
    BY <1>17, IdleMeans DEF IncStart, ThreadAt, ThreadGoes, IsShutdown, agreement,
         replica, TypeOK, LifeInv, AgmtTypeOK, WhereTypeOK, Alive, NoUseAfterFree,
         CallerMeans, OneStop, StopPcs
  <2>3. LockHeld'
    BY <1>17, IdleMeans, ProtocolAssumption DEF IncStart, ThreadAt, ThreadGoes,
         IsShutdown, agreement, replica, TypeOK, LifeInv, AgmtTypeOK, WhereTypeOK,
         ObjectTypeOK, NoUseAfterFree, CallerMeans, LockHeld, HoldingPcs
  <2>4. OneStop'
    BY <1>17, IdleMeans DEF IncStart, ThreadAt, ThreadGoes, IsShutdown, agreement,
         replica, TypeOK, LifeInv, AgmtTypeOK, WhereTypeOK, CallerMeans, OneStop,
         StopPcs, InitUses, LockHeld, HoldingPcs
  <2>5. SendNotLeaked'
    BY <1>17, IdleMeans DEF IncStart, ThreadAt, ThreadGoes, IsShutdown, agreement,
         replica, TypeOK, LifeInv, AgmtTypeOK, WhereTypeOK, SendNotLeaked,
         NoUseAfterFree, Alive, TotMarked
  <2>6. QED
    BY <2>1, <2>2, <2>3, <2>4, <2>5 DEF LifeInv
<1>18. ASSUME NEW g \in Agmts, IncReset(g) PROVE LifeInv'
  <2>1. NoUseAfterFree'
    BY <1>18, IdleMeans, ProtocolAssumption DEF IncReset, ThreadAt, ThreadGoes,
         agreement, replica, TypeOK, LifeInv, AgmtTypeOK, WhereTypeOK, ObjectTypeOK,
         Alive, NoUseAfterFree, CallerMeans, LockHeld, OneStop, ThreadPcs, IncPcs,
         IncAsleep, TotMarked, StopPcs
  <2>2. CallerMeans'
    BY <1>18, IdleMeans DEF IncReset, ThreadAt, ThreadGoes, agreement, replica, TypeOK,
         LifeInv, AgmtTypeOK, WhereTypeOK, Alive, NoUseAfterFree, CallerMeans, OneStop,
         StopPcs
  <2>3. LockHeld'
    BY <1>18, IdleMeans, ProtocolAssumption DEF IncReset, ThreadAt, ThreadGoes,
         agreement, replica, TypeOK, LifeInv, AgmtTypeOK, WhereTypeOK, ObjectTypeOK,
         NoUseAfterFree, CallerMeans, LockHeld, HoldingPcs
  <2>4. OneStop'
    BY <1>18, IdleMeans DEF IncReset, ThreadAt, ThreadGoes, agreement, replica, TypeOK,
         LifeInv, AgmtTypeOK, WhereTypeOK, CallerMeans, OneStop, StopPcs, InitUses,
         LockHeld, HoldingPcs
  <2>5. SendNotLeaked'
    BY <1>18, IdleMeans DEF IncReset, ThreadAt, ThreadGoes, agreement, replica, TypeOK,
         LifeInv, AgmtTypeOK, WhereTypeOK, SendNotLeaked, NoUseAfterFree, Alive,
         TotMarked
  <2>6. QED
    BY <2>1, <2>2, <2>3, <2>4, <2>5 DEF LifeInv
<1>19. ASSUME NEW g \in Agmts, IncEnd(g) PROVE LifeInv'
  <2>1. NoUseAfterFree'
    BY <1>19, IdleMeans, ProtocolAssumption DEF IncEnd, ThreadAt, ThreadGoes, agreement,
         replica, TypeOK, LifeInv, AgmtTypeOK, WhereTypeOK, ObjectTypeOK, Alive,
         NoUseAfterFree, CallerMeans, LockHeld, OneStop, ThreadPcs, IncPcs, IncAsleep,
         TotMarked, StopPcs
  <2>2. CallerMeans'
    BY <1>19, IdleMeans DEF IncEnd, ThreadAt, ThreadGoes, agreement, replica, TypeOK,
         LifeInv, AgmtTypeOK, WhereTypeOK, Alive, NoUseAfterFree, CallerMeans, OneStop,
         StopPcs
  <2>3. LockHeld'
    BY <1>19, IdleMeans, ProtocolAssumption DEF IncEnd, ThreadAt, ThreadGoes, agreement,
         replica, TypeOK, LifeInv, AgmtTypeOK, WhereTypeOK, ObjectTypeOK,
         NoUseAfterFree, CallerMeans, LockHeld, HoldingPcs
  <2>4. OneStop'
    BY <1>19, IdleMeans DEF IncEnd, ThreadAt, ThreadGoes, agreement, replica, TypeOK,
         LifeInv, AgmtTypeOK, WhereTypeOK, CallerMeans, OneStop, StopPcs, InitUses,
         LockHeld, HoldingPcs
  <2>5. SendNotLeaked'
    BY <1>19, IdleMeans DEF IncEnd, ThreadAt, ThreadGoes, agreement, replica, TypeOK,
         LifeInv, AgmtTypeOK, WhereTypeOK, SendNotLeaked, NoUseAfterFree, Alive,
         TotMarked
  <2>6. QED
    BY <2>1, <2>2, <2>3, <2>4, <2>5 DEF LifeInv
<1>20. ASSUME NEW g \in Agmts, TotTest(g) PROVE LifeInv'
  <2>1. NoUseAfterFree'
    BY <1>20, IdleMeans, ProtocolAssumption DEF TotTest, ThreadGoes, Case, agreement,
         replica, ThreadAt, TypeOK, LifeInv, AgmtTypeOK, WhereTypeOK, ObjectTypeOK,
         Alive, NoUseAfterFree, CallerMeans, LockHeld, OneStop, ThreadPcs, IncPcs,
         IncAsleep, TotMarked, StopPcs
  <2>2. CallerMeans'
    BY <1>20, IdleMeans DEF TotTest, ThreadGoes, Case, agreement, replica, ThreadAt,
         TypeOK, LifeInv, AgmtTypeOK, WhereTypeOK, Alive, NoUseAfterFree, CallerMeans,
         OneStop, StopPcs
  <2>3. LockHeld'
    BY <1>20, IdleMeans, ProtocolAssumption DEF TotTest, ThreadGoes, Case, agreement,
         replica, ThreadAt, TypeOK, LifeInv, AgmtTypeOK, WhereTypeOK, ObjectTypeOK,
         NoUseAfterFree, CallerMeans, LockHeld, HoldingPcs
  <2>4. OneStop'
    BY <1>20, IdleMeans DEF TotTest, ThreadGoes, Case, agreement, replica, ThreadAt,
         TypeOK, LifeInv, AgmtTypeOK, WhereTypeOK, CallerMeans, OneStop, StopPcs,
         InitUses, LockHeld, HoldingPcs
  <2>5. SendNotLeaked'
    BY <1>20, IdleMeans DEF TotTest, ThreadGoes, Case, agreement, replica, ThreadAt,
         TypeOK, LifeInv, AgmtTypeOK, WhereTypeOK, SendNotLeaked, NoUseAfterFree, Alive,
         TotMarked
  <2>6. QED
    BY <2>1, <2>2, <2>3, <2>4, <2>5 DEF LifeInv
<1>21. ASSUME NEW g \in Agmts, TotMark(g) PROVE LifeInv'
  <2>1. NoUseAfterFree'
    BY <1>21, IdleMeans, ProtocolAssumption DEF TotMark, ThreadAt, ThreadGoes,
         agreement, TypeOK, LifeInv, AgmtTypeOK, WhereTypeOK, ObjectTypeOK, Alive,
         NoUseAfterFree, CallerMeans, LockHeld, OneStop, ThreadPcs, IncPcs, IncAsleep,
         TotMarked, StopPcs
  <2>2. CallerMeans'
    BY <1>21, IdleMeans DEF TotMark, ThreadAt, ThreadGoes, agreement, TypeOK, LifeInv,
         AgmtTypeOK, WhereTypeOK, Alive, NoUseAfterFree, CallerMeans, OneStop, StopPcs
  <2>3. LockHeld'
    BY <1>21, IdleMeans, ProtocolAssumption DEF TotMark, ThreadAt, ThreadGoes,
         agreement, TypeOK, LifeInv, AgmtTypeOK, WhereTypeOK, ObjectTypeOK,
         NoUseAfterFree, CallerMeans, LockHeld, HoldingPcs
  <2>4. OneStop'
    BY <1>21, IdleMeans DEF TotMark, ThreadAt, ThreadGoes, agreement, TypeOK, LifeInv,
         AgmtTypeOK, WhereTypeOK, CallerMeans, OneStop, StopPcs, InitUses, LockHeld,
         HoldingPcs
  <2>5. SendNotLeaked'
    BY <1>21, IdleMeans DEF TotMark, ThreadAt, ThreadGoes, agreement, TypeOK, LifeInv,
         AgmtTypeOK, WhereTypeOK, SendNotLeaked, NoUseAfterFree, Alive, TotMarked
  <2>6. QED
    BY <2>1, <2>2, <2>3, <2>4, <2>5 DEF LifeInv
<1>22. ASSUME NEW g \in Agmts, TotLock(g) PROVE LifeInv'
  <2>1. NoUseAfterFree'
    BY <1>22, IdleMeans, ProtocolAssumption DEF TotLock, LockFree, ThreadAt, ThreadGoes,
         agreement, replica, TypeOK, LifeInv, AgmtTypeOK, WhereTypeOK, ObjectTypeOK,
         Alive, NoUseAfterFree, CallerMeans, LockHeld, OneStop, ThreadPcs, IncPcs,
         IncAsleep, TotMarked, StopPcs
  <2>2. CallerMeans'
    BY <1>22, IdleMeans DEF TotLock, LockFree, ThreadAt, ThreadGoes, agreement, replica,
         TypeOK, LifeInv, AgmtTypeOK, WhereTypeOK, Alive, NoUseAfterFree, CallerMeans,
         OneStop, StopPcs
  <2>3. LockHeld'
    BY <1>22, IdleMeans, ProtocolAssumption DEF TotLock, LockFree, ThreadAt, ThreadGoes,
         agreement, replica, TypeOK, LifeInv, AgmtTypeOK, WhereTypeOK, ObjectTypeOK,
         NoUseAfterFree, CallerMeans, LockHeld, HoldingPcs
  <2>4. OneStop'
    BY <1>22, IdleMeans DEF TotLock, LockFree, ThreadAt, ThreadGoes, agreement, replica,
         TypeOK, LifeInv, AgmtTypeOK, WhereTypeOK, CallerMeans, OneStop, StopPcs,
         InitUses, LockHeld, HoldingPcs
  <2>5. SendNotLeaked'
    BY <1>22, IdleMeans DEF TotLock, LockFree, ThreadAt, ThreadGoes, agreement, replica,
         TypeOK, LifeInv, AgmtTypeOK, WhereTypeOK, SendNotLeaked, NoUseAfterFree, Alive,
         TotMarked
  <2>6. QED
    BY <2>1, <2>2, <2>3, <2>4, <2>5 DEF LifeInv
<1>23. ASSUME NEW g \in Agmts, TotRun(g) PROVE LifeInv'
  <2>1. NoUseAfterFree'
    BY <1>23, IdleMeans, ProtocolAssumption DEF TotRun, ThreadAt, ThreadGoes, agreement,
         replica, TypeOK, LifeInv, AgmtTypeOK, WhereTypeOK, ObjectTypeOK, Alive,
         NoUseAfterFree, CallerMeans, LockHeld, OneStop, ThreadPcs, IncPcs, IncAsleep,
         TotMarked, StopPcs
  <2>2. CallerMeans'
    BY <1>23, IdleMeans DEF TotRun, ThreadAt, ThreadGoes, agreement, replica, TypeOK,
         LifeInv, AgmtTypeOK, WhereTypeOK, Alive, NoUseAfterFree, CallerMeans, OneStop,
         StopPcs
  <2>3. LockHeld'
    BY <1>23, IdleMeans, ProtocolAssumption DEF TotRun, ThreadAt, ThreadGoes, agreement,
         replica, TypeOK, LifeInv, AgmtTypeOK, WhereTypeOK, ObjectTypeOK,
         NoUseAfterFree, CallerMeans, LockHeld, HoldingPcs
  <2>4. OneStop'
    BY <1>23, IdleMeans DEF TotRun, ThreadAt, ThreadGoes, agreement, replica, TypeOK,
         LifeInv, AgmtTypeOK, WhereTypeOK, CallerMeans, OneStop, StopPcs, InitUses,
         LockHeld, HoldingPcs
  <2>5. SendNotLeaked'
    BY <1>23, IdleMeans DEF TotRun, ThreadAt, ThreadGoes, agreement, replica, TypeOK,
         LifeInv, AgmtTypeOK, WhereTypeOK, SendNotLeaked, NoUseAfterFree, Alive,
         TotMarked
  <2>6. QED
    BY <2>1, <2>2, <2>3, <2>4, <2>5 DEF LifeInv
<1>24. ASSUME NEW g \in Agmts, TotSend(g) PROVE LifeInv'
  <2>1. NoUseAfterFree'
    BY <1>24, IdleMeans, ProtocolAssumption DEF TotSend, ThreadAt, ThreadGoes,
         agreement, replica, TypeOK, LifeInv, AgmtTypeOK, WhereTypeOK, ObjectTypeOK,
         Alive, NoUseAfterFree, CallerMeans, LockHeld, OneStop, ThreadPcs, IncPcs,
         IncAsleep, TotMarked, StopPcs
  <2>2. CallerMeans'
    BY <1>24, IdleMeans DEF TotSend, ThreadAt, ThreadGoes, agreement, replica, TypeOK,
         LifeInv, AgmtTypeOK, WhereTypeOK, Alive, NoUseAfterFree, CallerMeans, OneStop,
         StopPcs
  <2>3. LockHeld'
    BY <1>24, IdleMeans, ProtocolAssumption DEF TotSend, ThreadAt, ThreadGoes,
         agreement, replica, TypeOK, LifeInv, AgmtTypeOK, WhereTypeOK, ObjectTypeOK,
         NoUseAfterFree, CallerMeans, LockHeld, HoldingPcs
  <2>4. OneStop'
    BY <1>24, IdleMeans DEF TotSend, ThreadAt, ThreadGoes, agreement, replica, TypeOK,
         LifeInv, AgmtTypeOK, WhereTypeOK, CallerMeans, OneStop, StopPcs, InitUses,
         LockHeld, HoldingPcs
  <2>5. SendNotLeaked'
    BY <1>24, IdleMeans DEF TotSend, ThreadAt, ThreadGoes, agreement, replica, TypeOK,
         LifeInv, AgmtTypeOK, WhereTypeOK, SendNotLeaked, NoUseAfterFree, Alive,
         TotMarked
  <2>6. QED
    BY <2>1, <2>2, <2>3, <2>4, <2>5 DEF LifeInv
<1>25. ASSUME NEW g \in Agmts, TotEnd(g) PROVE LifeInv'
  <2>1. NoUseAfterFree'
    BY <1>25, IdleMeans, ProtocolAssumption DEF TotEnd, ThreadAt, ThreadGoes, agreement,
         replica, TypeOK, LifeInv, AgmtTypeOK, WhereTypeOK, ObjectTypeOK, Alive,
         NoUseAfterFree, CallerMeans, LockHeld, OneStop, ThreadPcs, IncPcs, IncAsleep,
         TotMarked, StopPcs
  <2>2. CallerMeans'
    BY <1>25, IdleMeans DEF TotEnd, ThreadAt, ThreadGoes, agreement, replica, TypeOK,
         LifeInv, AgmtTypeOK, WhereTypeOK, Alive, NoUseAfterFree, CallerMeans, OneStop,
         StopPcs
  <2>3. LockHeld'
    BY <1>25, IdleMeans, ProtocolAssumption DEF TotEnd, ThreadAt, ThreadGoes, agreement,
         replica, TypeOK, LifeInv, AgmtTypeOK, WhereTypeOK, ObjectTypeOK,
         NoUseAfterFree, CallerMeans, LockHeld, HoldingPcs
  <2>4. OneStop'
    BY <1>25, IdleMeans DEF TotEnd, ThreadAt, ThreadGoes, agreement, replica, TypeOK,
         LifeInv, AgmtTypeOK, WhereTypeOK, CallerMeans, OneStop, StopPcs, InitUses,
         LockHeld, HoldingPcs
  <2>5. SendNotLeaked'
    BY <1>25, IdleMeans DEF TotEnd, ThreadAt, ThreadGoes, agreement, replica, TypeOK,
         LifeInv, AgmtTypeOK, WhereTypeOK, SendNotLeaked, NoUseAfterFree, Alive,
         TotMarked
  <2>6. QED
    BY <2>1, <2>2, <2>3, <2>4, <2>5 DEF LifeInv
<1>26. ASSUME NEW g \in Agmts, TotClear(g) PROVE LifeInv'
  <2>1. NoUseAfterFree'
    BY <1>26, IdleMeans, ProtocolAssumption DEF TotClear, ThreadAt, ThreadGoes,
         agreement, TypeOK, LifeInv, AgmtTypeOK, WhereTypeOK, ObjectTypeOK, Alive,
         NoUseAfterFree, CallerMeans, LockHeld, OneStop, ThreadPcs, IncPcs, IncAsleep,
         TotMarked, StopPcs
  <2>2. CallerMeans'
    BY <1>26, IdleMeans DEF TotClear, ThreadAt, ThreadGoes, agreement, TypeOK, LifeInv,
         AgmtTypeOK, WhereTypeOK, Alive, NoUseAfterFree, CallerMeans, OneStop, StopPcs
  <2>3. LockHeld'
    BY <1>26, IdleMeans, ProtocolAssumption DEF TotClear, ThreadAt, ThreadGoes,
         agreement, TypeOK, LifeInv, AgmtTypeOK, WhereTypeOK, ObjectTypeOK,
         NoUseAfterFree, CallerMeans, LockHeld, HoldingPcs
  <2>4. OneStop'
    BY <1>26, IdleMeans DEF TotClear, ThreadAt, ThreadGoes, agreement, TypeOK, LifeInv,
         AgmtTypeOK, WhereTypeOK, CallerMeans, OneStop, StopPcs, InitUses, LockHeld,
         HoldingPcs
  <2>5. SendNotLeaked'
    BY <1>26, IdleMeans DEF TotClear, ThreadAt, ThreadGoes, agreement, TypeOK, LifeInv,
         AgmtTypeOK, WhereTypeOK, SendNotLeaked, NoUseAfterFree, Alive, TotMarked
  <2>6. QED
    BY <2>1, <2>2, <2>3, <2>4, <2>5 DEF LifeInv
<1>27. ASSUME NEW g \in Agmts, Finished(g) PROVE LifeInv'
  <2>1. NoUseAfterFree'
    BY <1>27, IdleMeans, ProtocolAssumption DEF Finished, ThreadGoes, Case, agreement,
         replica, ThreadAt, TypeOK, LifeInv, AgmtTypeOK, WhereTypeOK, ObjectTypeOK,
         Alive, NoUseAfterFree, CallerMeans, LockHeld, OneStop, ThreadPcs, IncPcs,
         IncAsleep, TotMarked, StopPcs
  <2>2. CallerMeans'
    BY <1>27, IdleMeans DEF Finished, ThreadGoes, Case, agreement, replica, ThreadAt,
         TypeOK, LifeInv, AgmtTypeOK, WhereTypeOK, Alive, NoUseAfterFree, CallerMeans,
         OneStop, StopPcs
  <2>3. LockHeld'
    BY <1>27, IdleMeans, ProtocolAssumption DEF Finished, ThreadGoes, Case, agreement,
         replica, ThreadAt, TypeOK, LifeInv, AgmtTypeOK, WhereTypeOK, ObjectTypeOK,
         NoUseAfterFree, CallerMeans, LockHeld, HoldingPcs
  <2>4. OneStop'
    BY <1>27, IdleMeans DEF Finished, ThreadGoes, Case, agreement, replica, ThreadAt,
         TypeOK, LifeInv, AgmtTypeOK, WhereTypeOK, CallerMeans, OneStop, StopPcs,
         InitUses, LockHeld, HoldingPcs
  <2>5. SendNotLeaked'
    BY <1>27, IdleMeans DEF Finished, ThreadGoes, Case, agreement, replica, ThreadAt,
         TypeOK, LifeInv, AgmtTypeOK, WhereTypeOK, SendNotLeaked, NoUseAfterFree, Alive,
         TotMarked
  <2>6. QED
    BY <2>1, <2>2, <2>3, <2>4, <2>5 DEF LifeInv
<1>28. ASSUME NEW g \in Agmts, After(g) PROVE LifeInv'
  <2>1. NoUseAfterFree'
    BY <1>28, IdleMeans, ProtocolAssumption DEF After, ThreadAt, ThreadGoes, agreement,
         replica, TypeOK, LifeInv, AgmtTypeOK, WhereTypeOK, ObjectTypeOK, Alive,
         NoUseAfterFree, CallerMeans, LockHeld, OneStop, ThreadPcs, IncPcs, IncAsleep,
         TotMarked, StopPcs
  <2>2. CallerMeans'
    BY <1>28, IdleMeans DEF After, ThreadAt, ThreadGoes, agreement, replica, TypeOK,
         LifeInv, AgmtTypeOK, WhereTypeOK, Alive, NoUseAfterFree, CallerMeans, OneStop,
         StopPcs
  <2>3. LockHeld'
    BY <1>28, IdleMeans, ProtocolAssumption DEF After, ThreadAt, ThreadGoes, agreement,
         replica, TypeOK, LifeInv, AgmtTypeOK, WhereTypeOK, ObjectTypeOK,
         NoUseAfterFree, CallerMeans, LockHeld, HoldingPcs
  <2>4. OneStop'
    BY <1>28, IdleMeans DEF After, ThreadAt, ThreadGoes, agreement, replica, TypeOK,
         LifeInv, AgmtTypeOK, WhereTypeOK, CallerMeans, OneStop, StopPcs, InitUses,
         LockHeld, HoldingPcs
  <2>5. SendNotLeaked'
    BY <1>28, IdleMeans DEF After, ThreadAt, ThreadGoes, agreement, replica, TypeOK,
         LifeInv, AgmtTypeOK, WhereTypeOK, SendNotLeaked, NoUseAfterFree, Alive,
         TotMarked
  <2>6. QED
    BY <2>1, <2>2, <2>3, <2>4, <2>5 DEF LifeInv
<1>29. ASSUME NEW g \in Agmts, IncGoesOn(g) PROVE LifeInv'
  <2>1. NoUseAfterFree'
    BY <1>29, IdleMeans, ProtocolAssumption DEF IncGoesOn, ThreadAt, ThreadGoes,
         IsShutdown, agreement, replica, TypeOK, LifeInv, AgmtTypeOK, WhereTypeOK,
         ObjectTypeOK, Alive, NoUseAfterFree, CallerMeans, LockHeld, OneStop, ThreadPcs,
         IncPcs, IncAsleep, TotMarked, StopPcs
  <2>2. CallerMeans'
    BY <1>29, IdleMeans DEF IncGoesOn, ThreadAt, ThreadGoes, IsShutdown, agreement,
         replica, TypeOK, LifeInv, AgmtTypeOK, WhereTypeOK, Alive, NoUseAfterFree,
         CallerMeans, OneStop, StopPcs
  <2>3. LockHeld'
    BY <1>29, IdleMeans, ProtocolAssumption DEF IncGoesOn, ThreadAt, ThreadGoes,
         IsShutdown, agreement, replica, TypeOK, LifeInv, AgmtTypeOK, WhereTypeOK,
         ObjectTypeOK, NoUseAfterFree, CallerMeans, LockHeld, HoldingPcs
  <2>4. OneStop'
    BY <1>29, IdleMeans DEF IncGoesOn, ThreadAt, ThreadGoes, IsShutdown, agreement,
         replica, TypeOK, LifeInv, AgmtTypeOK, WhereTypeOK, CallerMeans, OneStop,
         StopPcs, InitUses, LockHeld, HoldingPcs
  <2>5. SendNotLeaked'
    BY <1>29, IdleMeans DEF IncGoesOn, ThreadAt, ThreadGoes, IsShutdown, agreement,
         replica, TypeOK, LifeInv, AgmtTypeOK, WhereTypeOK, SendNotLeaked,
         NoUseAfterFree, Alive, TotMarked
  <2>6. QED
    BY <2>1, <2>2, <2>3, <2>4, <2>5 DEF LifeInv
<1>30. ASSUME NEW g \in Agmts, IncFatal(g) PROVE LifeInv'
  <2>1. NoUseAfterFree'
    BY <1>30, IdleMeans, ProtocolAssumption DEF IncFatal, ThreadAt, ThreadGoes,
         IsShutdown, agreement, replica, TypeOK, LifeInv, AgmtTypeOK, WhereTypeOK,
         ObjectTypeOK, Alive, NoUseAfterFree, CallerMeans, LockHeld, OneStop, ThreadPcs,
         IncPcs, IncAsleep, TotMarked, StopPcs
  <2>2. CallerMeans'
    BY <1>30, IdleMeans DEF IncFatal, ThreadAt, ThreadGoes, IsShutdown, agreement,
         replica, TypeOK, LifeInv, AgmtTypeOK, WhereTypeOK, Alive, NoUseAfterFree,
         CallerMeans, OneStop, StopPcs
  <2>3. LockHeld'
    BY <1>30, IdleMeans, ProtocolAssumption DEF IncFatal, ThreadAt, ThreadGoes,
         IsShutdown, agreement, replica, TypeOK, LifeInv, AgmtTypeOK, WhereTypeOK,
         ObjectTypeOK, NoUseAfterFree, CallerMeans, LockHeld, HoldingPcs
  <2>4. OneStop'
    BY <1>30, IdleMeans DEF IncFatal, ThreadAt, ThreadGoes, IsShutdown, agreement,
         replica, TypeOK, LifeInv, AgmtTypeOK, WhereTypeOK, CallerMeans, OneStop,
         StopPcs, InitUses, LockHeld, HoldingPcs
  <2>5. SendNotLeaked'
    BY <1>30, IdleMeans DEF IncFatal, ThreadAt, ThreadGoes, IsShutdown, agreement,
         replica, TypeOK, LifeInv, AgmtTypeOK, WhereTypeOK, SendNotLeaked,
         NoUseAfterFree, Alive, TotMarked
  <2>6. QED
    BY <2>1, <2>2, <2>3, <2>4, <2>5 DEF LifeInv
<1>31. ASSUME NEW g \in Agmts, IncFatalReset(g) PROVE LifeInv'
  <2>1. NoUseAfterFree'
    BY <1>31, IdleMeans, ProtocolAssumption DEF IncFatalReset, ThreadAt, ThreadGoes,
         agreement, replica, TypeOK, LifeInv, AgmtTypeOK, WhereTypeOK, ObjectTypeOK,
         Alive, NoUseAfterFree, CallerMeans, LockHeld, OneStop, ThreadPcs, IncPcs,
         IncAsleep, TotMarked, StopPcs
  <2>2. CallerMeans'
    BY <1>31, IdleMeans DEF IncFatalReset, ThreadAt, ThreadGoes, agreement, replica,
         TypeOK, LifeInv, AgmtTypeOK, WhereTypeOK, Alive, NoUseAfterFree, CallerMeans,
         OneStop, StopPcs
  <2>3. LockHeld'
    BY <1>31, IdleMeans, ProtocolAssumption DEF IncFatalReset, ThreadAt, ThreadGoes,
         agreement, replica, TypeOK, LifeInv, AgmtTypeOK, WhereTypeOK, ObjectTypeOK,
         NoUseAfterFree, CallerMeans, LockHeld, HoldingPcs
  <2>4. OneStop'
    BY <1>31, IdleMeans DEF IncFatalReset, ThreadAt, ThreadGoes, agreement, replica,
         TypeOK, LifeInv, AgmtTypeOK, WhereTypeOK, CallerMeans, OneStop, StopPcs,
         InitUses, LockHeld, HoldingPcs
  <2>5. SendNotLeaked'
    BY <1>31, IdleMeans DEF IncFatalReset, ThreadAt, ThreadGoes, agreement, replica,
         TypeOK, LifeInv, AgmtTypeOK, WhereTypeOK, SendNotLeaked, NoUseAfterFree, Alive,
         TotMarked
  <2>6. QED
    BY <2>1, <2>2, <2>3, <2>4, <2>5 DEF LifeInv
<1>32. ASSUME NEW g \in Agmts, IncWakes(g) PROVE LifeInv'
  <2>1. NoUseAfterFree'
    BY <1>32, IdleMeans, ProtocolAssumption DEF IncWakes, IncAsleep, ThreadGoes,
         agreement, replica, TypeOK, LifeInv, AgmtTypeOK, WhereTypeOK, ObjectTypeOK,
         Alive, NoUseAfterFree, CallerMeans, LockHeld, OneStop, ThreadPcs, IncPcs,
         IncAsleep, TotMarked, StopPcs
  <2>2. CallerMeans'
    BY <1>32, IdleMeans DEF IncWakes, IncAsleep, ThreadGoes, agreement, replica, TypeOK,
         LifeInv, AgmtTypeOK, WhereTypeOK, Alive, NoUseAfterFree, CallerMeans, OneStop,
         StopPcs
  <2>3. LockHeld'
    BY <1>32, IdleMeans, ProtocolAssumption DEF IncWakes, IncAsleep, ThreadGoes,
         agreement, replica, TypeOK, LifeInv, AgmtTypeOK, WhereTypeOK, ObjectTypeOK,
         NoUseAfterFree, CallerMeans, LockHeld, HoldingPcs
  <2>4. OneStop'
    BY <1>32, IdleMeans DEF IncWakes, IncAsleep, ThreadGoes, agreement, replica, TypeOK,
         LifeInv, AgmtTypeOK, WhereTypeOK, CallerMeans, OneStop, StopPcs, InitUses,
         LockHeld, HoldingPcs
  <2>5. SendNotLeaked'
    BY <1>32, IdleMeans DEF IncWakes, IncAsleep, ThreadGoes, agreement, replica, TypeOK,
         LifeInv, AgmtTypeOK, WhereTypeOK, SendNotLeaked, NoUseAfterFree, Alive,
         TotMarked
  <2>6. QED
    BY <2>1, <2>2, <2>3, <2>4, <2>5 DEF LifeInv
<1>33. ASSUME RecvTest PROVE LifeInv'
  <2>1. NoUseAfterFree'
    BY <1>33, IdleMeans, ProtocolAssumption DEF RecvTest, agreement, TypeOK, LifeInv,
         AgmtTypeOK, WhereTypeOK, ObjectTypeOK, Alive, NoUseAfterFree, CallerMeans,
         LockHeld, OneStop, ThreadPcs, IncPcs, IncAsleep, TotMarked, StopPcs
  <2>2. CallerMeans'
    BY <1>33, IdleMeans DEF RecvTest, agreement, TypeOK, LifeInv, AgmtTypeOK,
         WhereTypeOK, Alive, NoUseAfterFree, CallerMeans, OneStop, StopPcs
  <2>3. LockHeld'
    BY <1>33, IdleMeans, ProtocolAssumption DEF RecvTest, agreement, TypeOK, LifeInv,
         AgmtTypeOK, WhereTypeOK, ObjectTypeOK, NoUseAfterFree, CallerMeans, LockHeld,
         HoldingPcs
  <2>4. OneStop'
    BY <1>33, IdleMeans DEF RecvTest, agreement, TypeOK, LifeInv, AgmtTypeOK,
         WhereTypeOK, CallerMeans, OneStop, StopPcs, InitUses, LockHeld, HoldingPcs
  <2>5. SendNotLeaked'
    BY <1>33, IdleMeans DEF RecvTest, agreement, TypeOK, LifeInv, AgmtTypeOK,
         WhereTypeOK, SendNotLeaked, NoUseAfterFree, Alive, TotMarked
  <2>6. QED
    BY <2>1, <2>2, <2>3, <2>4, <2>5 DEF LifeInv
<1>34. ASSUME RecvMark PROVE LifeInv'
  <2>1. NoUseAfterFree'
    BY <1>34, IdleMeans, ProtocolAssumption DEF RecvMark, agreement, TypeOK, LifeInv,
         AgmtTypeOK, WhereTypeOK, ObjectTypeOK, Alive, NoUseAfterFree, CallerMeans,
         LockHeld, OneStop, ThreadPcs, IncPcs, IncAsleep, TotMarked, StopPcs
  <2>2. CallerMeans'
    BY <1>34, IdleMeans DEF RecvMark, agreement, TypeOK, LifeInv, AgmtTypeOK,
         WhereTypeOK, Alive, NoUseAfterFree, CallerMeans, OneStop, StopPcs
  <2>3. LockHeld'
    BY <1>34, IdleMeans, ProtocolAssumption DEF RecvMark, agreement, TypeOK, LifeInv,
         AgmtTypeOK, WhereTypeOK, ObjectTypeOK, NoUseAfterFree, CallerMeans, LockHeld,
         HoldingPcs
  <2>4. OneStop'
    BY <1>34, IdleMeans DEF RecvMark, agreement, TypeOK, LifeInv, AgmtTypeOK,
         WhereTypeOK, CallerMeans, OneStop, StopPcs, InitUses, LockHeld, HoldingPcs
  <2>5. SendNotLeaked'
    BY <1>34, IdleMeans DEF RecvMark, agreement, TypeOK, LifeInv, AgmtTypeOK,
         WhereTypeOK, SendNotLeaked, NoUseAfterFree, Alive, TotMarked
  <2>6. QED
    BY <2>1, <2>2, <2>3, <2>4, <2>5 DEF LifeInv
<1>35. ASSUME RecvReply PROVE LifeInv'
  <2>1. NoUseAfterFree'
    BY <1>35, IdleMeans, ProtocolAssumption DEF RecvReply, agreement, TypeOK, LifeInv,
         AgmtTypeOK, WhereTypeOK, ObjectTypeOK, Alive, NoUseAfterFree, CallerMeans,
         LockHeld, OneStop, ThreadPcs, IncPcs, IncAsleep, TotMarked, StopPcs
  <2>2. CallerMeans'
    BY <1>35, IdleMeans DEF RecvReply, agreement, TypeOK, LifeInv, AgmtTypeOK,
         WhereTypeOK, Alive, NoUseAfterFree, CallerMeans, OneStop, StopPcs
  <2>3. LockHeld'
    BY <1>35, IdleMeans, ProtocolAssumption DEF RecvReply, agreement, TypeOK, LifeInv,
         AgmtTypeOK, WhereTypeOK, ObjectTypeOK, NoUseAfterFree, CallerMeans, LockHeld,
         HoldingPcs
  <2>4. OneStop'
    BY <1>35, IdleMeans DEF RecvReply, agreement, TypeOK, LifeInv, AgmtTypeOK,
         WhereTypeOK, CallerMeans, OneStop, StopPcs, InitUses, LockHeld, HoldingPcs
  <2>5. SendNotLeaked'
    BY <1>35, IdleMeans DEF RecvReply, agreement, TypeOK, LifeInv, AgmtTypeOK,
         WhereTypeOK, SendNotLeaked, NoUseAfterFree, Alive, TotMarked
  <2>6. QED
    BY <2>1, <2>2, <2>3, <2>4, <2>5 DEF LifeInv
<1>36. CASE UNCHANGED vars
  <2>1. NoUseAfterFree'
    BY <1>36, IdleMeans, ProtocolAssumption DEF vars, agreement, replica, TypeOK,
         LifeInv, AgmtTypeOK, WhereTypeOK, ObjectTypeOK, Alive, NoUseAfterFree,
         CallerMeans, LockHeld, OneStop, ThreadPcs, IncPcs, IncAsleep, TotMarked,
         StopPcs
  <2>2. CallerMeans'
    BY <1>36, IdleMeans DEF vars, agreement, replica, TypeOK, LifeInv, AgmtTypeOK,
         WhereTypeOK, Alive, NoUseAfterFree, CallerMeans, OneStop, StopPcs
  <2>3. LockHeld'
    BY <1>36, IdleMeans, ProtocolAssumption DEF vars, agreement, replica, TypeOK,
         LifeInv, AgmtTypeOK, WhereTypeOK, ObjectTypeOK, NoUseAfterFree, CallerMeans,
         LockHeld, HoldingPcs
  <2>4. OneStop'
    BY <1>36, IdleMeans DEF vars, agreement, replica, TypeOK, LifeInv, AgmtTypeOK,
         WhereTypeOK, CallerMeans, OneStop, StopPcs, InitUses, LockHeld, HoldingPcs
  <2>5. SendNotLeaked'
    BY <1>36, IdleMeans DEF vars, agreement, replica, TypeOK, LifeInv, AgmtTypeOK,
         WhereTypeOK, SendNotLeaked, NoUseAfterFree, Alive, TotMarked
  <2>6. QED
    BY <2>1, <2>2, <2>3, <2>4, <2>5 DEF LifeInv
<1>37. QED
  BY <1>1, <1>2, <1>3, <1>4, <1>5, <1>6, <1>7, <1>8, <1>9, <1>10, <1>11, <1>12, <1>13,
       <1>14, <1>15, <1>16, <1>17, <1>18, <1>19, <1>20, <1>21, <1>22, <1>23, <1>24,
       <1>25, <1>26, <1>27, <1>28, <1>29, <1>30, <1>31, <1>32, <1>33, <1>34, <1>35,
       <1>36 DEF Next, CallerStep, ThreadStep

(* NoUseAfterFree and what it needs, from the two steps above.             *)
THEOREM LifeInvariant == Spec => []LifeInv
BY LifeInit, LifeNext, ThreadTypeCorrect, PTL DEF Spec

(* However many threads start, stop and initialise agreements, agmt_stop   *)
(* frees a protocol object only when its thread has ended and no request   *)
(* is about to use it, but for the two overlaps of requests that           *)
(* NoUseAfterFree names.                                                   *)
THEOREM ThreadNoUseAfterFree == Spec => []NoUseAfterFree
<1>1. LifeInv => NoUseAfterFree
  BY DEF LifeInv
<1>2. QED
  BY <1>1, LifeInvariant, PTL

(* REPLICA_TOTAL_EXCL_SEND is set only while an agreement of the replica   *)
(* performs a total update, however many agreements and callers there are  *)
(* and however they are stopped, unless a protocol object was freed in use.*)
THEOREM ThreadSendNotLeaked == Spec => []SendNotLeaked
<1>1. LifeInv => SendNotLeaked
  BY DEF LifeInv
<1>2. QED
  BY <1>1, LifeInvariant, PTL
=============================================================================
