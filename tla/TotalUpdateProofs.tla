------------------------- MODULE TotalUpdateProofs -------------------------
(***************************************************************************)
(* Proofs about TotalUpdate, for suffixes of every size: a consumer that   *)
(* End puts back into service has the whole suffix unless the supplier     *)
(* failed to send an entry, and an update reported as aborted has not put  *)
(* it back with the whole suffix.                                          *)
(***************************************************************************)
EXTENDS TotalUpdate, TLAPS

(* Entries are left to send while the search goes on, and none when it is  *)
(* complete.                                                               *)
SearchProgress ==
  /\ pc \in {"acquire", "acquired", "test", "push"} => sent < Entries
  /\ pc \in {"result", "wait"} => sent = Entries
  /\ rc = "unsent" => sent < Entries /\ pc \notin {"acquire", "acquired", "test", "push"}

(* The connection survives the search only when every entry was sent, or   *)
(* one was not for a reason of the supplier's own.                         *)
CutMeansClosed ==
  /\ rc \in {"failed", "lost"} => ~up
  /\ pc \in {"stop", "join", "release"} /\ up => sent = Entries \/ rc = "unsent"

(* The result thread, which writes cb_data.rc too, is gone before End can  *)
(* be sent, and when the outcome is reported.                              *)
ReaderGone ==
  /\ pc \in {"release", "report"} => reader = "done"
  /\ ended => reader = "done"
  /\ status = "aborted" => reader = "done"

(* What it means that End was sent.                                        *)
EndMeans ==
  ended => /\ pc \in {"report", "leave", "done"}
           /\ rc \in {"ok", "unsent"}
           /\ rc = "ok" => sent = Entries

(* What it means that the update was reported as aborted.                  *)
AbortMeans == status = "aborted" => rc # "ok" /\ pc \in {"leave", "done"}

(* What it means that the consumer is online by End, that it is online     *)
(* without, and that it was never taken.                                   *)
OnlineMeans ==
  /\ consumer = "online" => ended /\ imported = sent
  /\ consumer = "unfinished" => ~up \/ cut
  /\ consumer = "free" => imported = 0

TotalInv ==
  /\ TypeOK
  /\ SearchProgress
  /\ CutMeansClosed
  /\ ReaderGone
  /\ EndMeans
  /\ AbortMeans
  /\ OnlineMeans

-----------------------------------------------------------------------------
(* The first state of repl5_tot_run.                                       *)
THEOREM TotalInvInit == Init => TotalInv
<1> SUFFICES ASSUME Init PROVE TotalInv
  OBVIOUS
<1>1. StateTypeOK /\ FlagTypeOK
  BY DEF Init, StateTypeOK, FlagTypeOK, SenderPcs
<1>2. CountTypeOK
  BY TotalAssumption DEF Init, CountTypeOK
<1>3. SearchProgress /\ CutMeansClosed /\ ReaderGone
  BY TotalAssumption DEF Init, SearchProgress, CutMeansClosed, ReaderGone
<1>4. EndMeans /\ AbortMeans /\ OnlineMeans
  BY DEF Init, EndMeans, AbortMeans, OnlineMeans
<1>5. QED
  BY <1>1, <1>2, <1>3, <1>4 DEF TotalInv, TypeOK

(* One step of either thread, of the consumer or of the network.           *)
THEOREM TotalInvNext == TotalInv /\ [Next]_vars => TotalInv'
<1> SUFFICES ASSUME TotalInv, [Next]_vars PROVE TotalInv'
  OBVIOUS
<1>1. CASE AcquireSuccess
  <2>1. StateTypeOK' /\ FlagTypeOK'
    BY <1>1 DEF AcquireSuccess, shared, messages, TotalInv, TypeOK, StateTypeOK,
         FlagTypeOK, SenderPcs
  <2>2. CountTypeOK' /\ SearchProgress'
    BY <1>1, TotalAssumption DEF AcquireSuccess, shared, messages, TotalInv, TypeOK,
         StateTypeOK, CountTypeOK, SearchProgress
  <2>3. CutMeansClosed' /\ ReaderGone'
    BY <1>1 DEF AcquireSuccess, shared, messages, TotalInv, TypeOK, StateTypeOK,
         FlagTypeOK, SearchProgress, CutMeansClosed, ReaderGone, EndMeans
  <2>4. EndMeans' /\ AbortMeans' /\ OnlineMeans'
    BY <1>1 DEF AcquireSuccess, shared, messages, TotalInv, TypeOK, StateTypeOK,
         FlagTypeOK, CutMeansClosed, ReaderGone, EndMeans, AbortMeans, OnlineMeans
  <2>5. QED
    BY <2>1, <2>2, <2>3, <2>4 DEF TotalInv, TypeOK
<1>2. CASE AcquireFails
  <2>1. StateTypeOK' /\ FlagTypeOK'
    <3>1. StateTypeOK'
      BY <1>2 DEF AcquireFails, shared, remote, TotalInv, TypeOK, StateTypeOK, SenderPcs
    <3>2. FlagTypeOK'
      BY <1>2 DEF AcquireFails, shared, messages, TotalInv, TypeOK, FlagTypeOK
    <3>3. QED
      BY <3>1, <3>2
  <2>2. CountTypeOK' /\ SearchProgress'
    <3>1. retry' \in 0..MaxRetry /\ pc' \in {"acquire", "leave"}
      <4>1. CASE retry < MaxRetry /\ retry' = retry + 1 /\ UNCHANGED pc
        BY <1>2, <4>1, TotalAssumption DEF AcquireFails, TotalInv, TypeOK, CountTypeOK
      <4>2. CASE pc' = "leave" /\ UNCHANGED retry
        BY <1>2, <4>2, TotalAssumption DEF AcquireFails, TotalInv, TypeOK, CountTypeOK
      <4>3. QED
        BY <1>2, <4>1, <4>2 DEF AcquireFails
    <3>2. CountTypeOK'
      BY <1>2, <3>1 DEF AcquireFails, messages, remote, TotalInv, TypeOK, CountTypeOK
    <3>3. SearchProgress'
      BY <1>2, <3>1 DEF AcquireFails, shared, messages, TotalInv, SearchProgress
    <3>4. QED
      BY <3>2, <3>3
  <2>3. CutMeansClosed' /\ ReaderGone'
    BY <1>2 DEF AcquireFails, shared, messages, remote, TotalInv, TypeOK, StateTypeOK,
         FlagTypeOK, SearchProgress, CutMeansClosed, ReaderGone, EndMeans
  <2>4. EndMeans' /\ AbortMeans' /\ OnlineMeans'
    BY <1>2 DEF AcquireFails, shared, messages, remote, TotalInv, TypeOK, StateTypeOK,
         FlagTypeOK, CutMeansClosed, ReaderGone, EndMeans, AbortMeans, OnlineMeans
  <2>5. QED
    BY <2>1, <2>2, <2>3, <2>4 DEF TotalInv, TypeOK
<1>3. CASE Acquired
  <2>1. StateTypeOK' /\ FlagTypeOK'
    BY <1>3 DEF Acquired, shared, messages, remote, TotalInv, TypeOK, StateTypeOK,
         FlagTypeOK, SenderPcs
  <2>2. CountTypeOK' /\ SearchProgress'
    BY <1>3, TotalAssumption DEF Acquired, shared, messages, remote, TotalInv, TypeOK,
         StateTypeOK, CountTypeOK, SearchProgress
  <2>3. CutMeansClosed' /\ ReaderGone'
    BY <1>3 DEF Acquired, shared, messages, remote, TotalInv, TypeOK, StateTypeOK,
         FlagTypeOK, SearchProgress, CutMeansClosed, ReaderGone, EndMeans
  <2>4. EndMeans' /\ AbortMeans' /\ OnlineMeans'
    BY <1>3 DEF Acquired, shared, messages, remote, TotalInv, TypeOK, StateTypeOK,
         FlagTypeOK, CutMeansClosed, ReaderGone, EndMeans, AbortMeans, OnlineMeans
  <2>5. QED
    BY <2>1, <2>2, <2>3, <2>4 DEF TotalInv, TypeOK
<1>4. CASE CutShort
  <2>1. StateTypeOK' /\ FlagTypeOK'
    BY <1>4 DEF CutShort, Failed, messages, remote, TotalInv, TypeOK, StateTypeOK,
         FlagTypeOK, SenderPcs
  <2>2. CountTypeOK' /\ SearchProgress'
    BY <1>4, TotalAssumption DEF CutShort, Failed, messages, remote, TotalInv, TypeOK,
         StateTypeOK, CountTypeOK, SearchProgress
  <2>3. CutMeansClosed' /\ ReaderGone'
    BY <1>4 DEF CutShort, Failed, messages, remote, TotalInv, TypeOK, StateTypeOK,
         FlagTypeOK, SearchProgress, CutMeansClosed, ReaderGone, EndMeans
  <2>4. EndMeans' /\ AbortMeans' /\ OnlineMeans'
    BY <1>4 DEF CutShort, Failed, messages, remote, TotalInv, TypeOK, StateTypeOK,
         FlagTypeOK, CutMeansClosed, ReaderGone, EndMeans, AbortMeans, OnlineMeans
  <2>5. QED
    BY <2>1, <2>2, <2>3, <2>4 DEF TotalInv, TypeOK
<1>5. CASE NotCutShort
  <2>1. StateTypeOK' /\ FlagTypeOK'
    BY <1>5 DEF NotCutShort, shared, messages, remote, TotalInv, TypeOK, StateTypeOK,
         FlagTypeOK, SenderPcs
  <2>2. CountTypeOK' /\ SearchProgress'
    BY <1>5, TotalAssumption DEF NotCutShort, shared, messages, remote, TotalInv,
         TypeOK, StateTypeOK, CountTypeOK, SearchProgress
  <2>3. CutMeansClosed' /\ ReaderGone'
    BY <1>5 DEF NotCutShort, shared, messages, remote, TotalInv, TypeOK, StateTypeOK,
         FlagTypeOK, SearchProgress, CutMeansClosed, ReaderGone, EndMeans
  <2>4. EndMeans' /\ AbortMeans' /\ OnlineMeans'
    BY <1>5 DEF NotCutShort, shared, messages, remote, TotalInv, TypeOK, StateTypeOK,
         FlagTypeOK, CutMeansClosed, ReaderGone, EndMeans, AbortMeans, OnlineMeans
  <2>5. QED
    BY <2>1, <2>2, <2>3, <2>4 DEF TotalInv, TypeOK
<1>6. CASE Push
  <2>1. StateTypeOK' /\ FlagTypeOK'
    BY <1>6 DEF Push, remote, TotalInv, TypeOK, StateTypeOK, FlagTypeOK, SenderPcs
  <2>2. CountTypeOK' /\ SearchProgress'
    <3>1. sent \in Nat /\ sent < Entries /\ sent' = sent + 1 /\ rc' = "ok"
      BY <1>6, TotalAssumption DEF Push, TotalInv, TypeOK, CountTypeOK, SearchProgress
    <3>2. CountTypeOK'
      BY <1>6, <3>1, TotalAssumption DEF Push, remote, TotalInv, TypeOK, CountTypeOK
    <3>3. SearchProgress'
      BY <1>6, <3>1, TotalAssumption DEF Push, SearchProgress
    <3>4. QED
      BY <3>2, <3>3
  <2>3. CutMeansClosed' /\ ReaderGone'
    BY <1>6 DEF Push, remote, TotalInv, TypeOK, StateTypeOK, FlagTypeOK, SearchProgress,
         CutMeansClosed, ReaderGone, EndMeans
  <2>4. EndMeans' /\ AbortMeans' /\ OnlineMeans'
    BY <1>6 DEF Push, remote, TotalInv, TypeOK, StateTypeOK, FlagTypeOK, CutMeansClosed,
         ReaderGone, EndMeans, AbortMeans, OnlineMeans
  <2>5. QED
    BY <2>1, <2>2, <2>3, <2>4 DEF TotalInv, TypeOK
<1>7. CASE PushLost
  <2>1. StateTypeOK' /\ FlagTypeOK'
    BY <1>7 DEF PushLost, Failed, messages, remote, TotalInv, TypeOK, StateTypeOK,
         FlagTypeOK, SenderPcs
  <2>2. CountTypeOK' /\ SearchProgress'
    BY <1>7, TotalAssumption DEF PushLost, Failed, messages, remote, TotalInv, TypeOK,
         StateTypeOK, CountTypeOK, SearchProgress
  <2>3. CutMeansClosed' /\ ReaderGone'
    BY <1>7 DEF PushLost, Failed, messages, remote, TotalInv, TypeOK, StateTypeOK,
         FlagTypeOK, SearchProgress, CutMeansClosed, ReaderGone, EndMeans
  <2>4. EndMeans' /\ AbortMeans' /\ OnlineMeans'
    BY <1>7 DEF PushLost, Failed, messages, remote, TotalInv, TypeOK, StateTypeOK,
         FlagTypeOK, CutMeansClosed, ReaderGone, EndMeans, AbortMeans, OnlineMeans
  <2>5. QED
    BY <2>1, <2>2, <2>3, <2>4 DEF TotalInv, TypeOK
<1>8. CASE PushFails
  <2>1. StateTypeOK' /\ FlagTypeOK'
    BY <1>8 DEF PushFails, Failed, messages, remote, TotalInv, TypeOK, StateTypeOK,
         FlagTypeOK, SenderPcs
  <2>2. CountTypeOK' /\ SearchProgress'
    BY <1>8, TotalAssumption DEF PushFails, Failed, messages, remote, TotalInv, TypeOK,
         StateTypeOK, CountTypeOK, SearchProgress
  <2>3. CutMeansClosed' /\ ReaderGone'
    BY <1>8 DEF PushFails, Failed, messages, remote, TotalInv, TypeOK, StateTypeOK,
         FlagTypeOK, SearchProgress, CutMeansClosed, ReaderGone, EndMeans
  <2>4. EndMeans' /\ AbortMeans' /\ OnlineMeans'
    BY <1>8 DEF PushFails, Failed, messages, remote, TotalInv, TypeOK, StateTypeOK,
         FlagTypeOK, CutMeansClosed, ReaderGone, EndMeans, AbortMeans, OnlineMeans
  <2>5. QED
    BY <2>1, <2>2, <2>3, <2>4 DEF TotalInv, TypeOK
<1>9. CASE GetResult
  <2>1. StateTypeOK' /\ FlagTypeOK'
    BY <1>9 DEF GetResult, messages, remote, TotalInv, TypeOK, StateTypeOK, FlagTypeOK,
         SenderPcs
  <2>2. CountTypeOK' /\ SearchProgress'
    BY <1>9, TotalAssumption DEF GetResult, messages, remote, TotalInv, TypeOK,
         StateTypeOK, CountTypeOK, SearchProgress
  <2>3. CutMeansClosed' /\ ReaderGone'
    BY <1>9 DEF GetResult, messages, remote, TotalInv, TypeOK, StateTypeOK, FlagTypeOK,
         SearchProgress, CutMeansClosed, ReaderGone, EndMeans
  <2>4. EndMeans' /\ AbortMeans' /\ OnlineMeans'
    BY <1>9 DEF GetResult, messages, remote, TotalInv, TypeOK, StateTypeOK, FlagTypeOK,
         CutMeansClosed, ReaderGone, EndMeans, AbortMeans, OnlineMeans
  <2>5. QED
    BY <2>1, <2>2, <2>3, <2>4 DEF TotalInv, TypeOK
<1>10. CASE Wait
  <2>1. StateTypeOK' /\ FlagTypeOK'
    <3>1. StateTypeOK'
      BY <1>10 DEF Wait, WaitOver, shared, messages, remote, TotalInv, TypeOK,
           StateTypeOK, SenderPcs
    <3>2. FlagTypeOK'
      BY <1>10 DEF Wait, WaitOver, shared, messages, remote, TotalInv, TypeOK,
           FlagTypeOK
    <3>3. QED
      BY <3>1, <3>2
  <2>2. CountTypeOK' /\ SearchProgress'
    BY <1>10, TotalAssumption DEF Wait, WaitOver, shared, messages, remote, TotalInv,
         TypeOK, StateTypeOK, CountTypeOK, SearchProgress
  <2>3. CutMeansClosed' /\ ReaderGone'
    BY <1>10 DEF Wait, WaitOver, shared, messages, remote, TotalInv, TypeOK,
         StateTypeOK, FlagTypeOK, SearchProgress, CutMeansClosed, ReaderGone, EndMeans
  <2>4. EndMeans' /\ AbortMeans' /\ OnlineMeans'
    BY <1>10 DEF Wait, WaitOver, shared, messages, remote, TotalInv, TypeOK,
         StateTypeOK, FlagTypeOK, CutMeansClosed, ReaderGone, EndMeans, AbortMeans,
         OnlineMeans
  <2>5. QED
    BY <2>1, <2>2, <2>3, <2>4 DEF TotalInv, TypeOK
<1>11. CASE StopReader
  <2>1. StateTypeOK' /\ FlagTypeOK'
    BY <1>11 DEF StopReader, messages, remote, TotalInv, TypeOK, StateTypeOK,
         FlagTypeOK, SenderPcs
  <2>2. CountTypeOK' /\ SearchProgress'
    BY <1>11, TotalAssumption DEF StopReader, messages, remote, TotalInv, TypeOK,
         StateTypeOK, CountTypeOK, SearchProgress
  <2>3. CutMeansClosed' /\ ReaderGone'
    BY <1>11 DEF StopReader, messages, remote, TotalInv, TypeOK, StateTypeOK,
         FlagTypeOK, SearchProgress, CutMeansClosed, ReaderGone, EndMeans
  <2>4. EndMeans' /\ AbortMeans' /\ OnlineMeans'
    BY <1>11 DEF StopReader, messages, remote, TotalInv, TypeOK, StateTypeOK,
         FlagTypeOK, CutMeansClosed, ReaderGone, EndMeans, AbortMeans, OnlineMeans
  <2>5. QED
    BY <2>1, <2>2, <2>3, <2>4 DEF TotalInv, TypeOK
<1>12. CASE Join
  <2>1. StateTypeOK' /\ FlagTypeOK'
    BY <1>12 DEF Join, shared, messages, remote, TotalInv, TypeOK, StateTypeOK,
         FlagTypeOK, SenderPcs
  <2>2. CountTypeOK' /\ SearchProgress'
    BY <1>12, TotalAssumption DEF Join, shared, messages, remote, TotalInv, TypeOK,
         StateTypeOK, CountTypeOK, SearchProgress
  <2>3. CutMeansClosed' /\ ReaderGone'
    BY <1>12 DEF Join, shared, messages, remote, TotalInv, TypeOK, StateTypeOK,
         FlagTypeOK, SearchProgress, CutMeansClosed, ReaderGone, EndMeans
  <2>4. EndMeans' /\ AbortMeans' /\ OnlineMeans'
    BY <1>12 DEF Join, shared, messages, remote, TotalInv, TypeOK, StateTypeOK,
         FlagTypeOK, CutMeansClosed, ReaderGone, EndMeans, AbortMeans, OnlineMeans
  <2>5. QED
    BY <2>1, <2>2, <2>3, <2>4 DEF TotalInv, TypeOK
<1>13. CASE Release
  <2>1. StateTypeOK' /\ FlagTypeOK'
    <3>1. StateTypeOK'
      BY <1>13 DEF Release, shared, remote, TotalInv, TypeOK, StateTypeOK, SenderPcs
    <3>2. FlagTypeOK'
      BY <1>13 DEF Release, shared, remote, TotalInv, TypeOK, FlagTypeOK
    <3>3. QED
      BY <3>1, <3>2
  <2>2. CountTypeOK' /\ SearchProgress'
    BY <1>13, TotalAssumption DEF Release, shared, remote, TotalInv, TypeOK,
         StateTypeOK, CountTypeOK, SearchProgress
  <2>3. CutMeansClosed' /\ ReaderGone'
    BY <1>13 DEF Release, shared, remote, TotalInv, TypeOK, StateTypeOK, FlagTypeOK,
         SearchProgress, CutMeansClosed, ReaderGone, EndMeans
  <2>4. EndMeans' /\ AbortMeans' /\ OnlineMeans'
    <3>1. EndMeans'
      BY <1>13 DEF Release, shared, remote, TotalInv, TypeOK, StateTypeOK, FlagTypeOK,
           CutMeansClosed, ReaderGone, EndMeans
    <3>2. AbortMeans' /\ OnlineMeans'
      BY <1>13 DEF Release, shared, remote, TotalInv, TypeOK, StateTypeOK, FlagTypeOK,
           ReaderGone, EndMeans, AbortMeans, OnlineMeans
    <3>3. QED
      BY <3>1, <3>2
  <2>5. QED
    BY <2>1, <2>2, <2>3, <2>4 DEF TotalInv, TypeOK
<1>14. CASE Report
  <2>1. StateTypeOK' /\ FlagTypeOK'
    BY <1>14 DEF Report, shared, messages, remote, TotalInv, TypeOK, StateTypeOK,
         FlagTypeOK, SenderPcs
  <2>2. CountTypeOK' /\ SearchProgress'
    BY <1>14, TotalAssumption DEF Report, shared, messages, remote, TotalInv, TypeOK,
         StateTypeOK, CountTypeOK, SearchProgress
  <2>3. CutMeansClosed' /\ ReaderGone'
    BY <1>14 DEF Report, shared, messages, remote, TotalInv, TypeOK, StateTypeOK,
         FlagTypeOK, SearchProgress, CutMeansClosed, ReaderGone, EndMeans
  <2>4. EndMeans' /\ AbortMeans' /\ OnlineMeans'
    BY <1>14 DEF Report, shared, messages, remote, TotalInv, TypeOK, StateTypeOK,
         FlagTypeOK, CutMeansClosed, ReaderGone, EndMeans, AbortMeans, OnlineMeans
  <2>5. QED
    BY <2>1, <2>2, <2>3, <2>4 DEF TotalInv, TypeOK
<1>15. CASE Leave
  <2>1. StateTypeOK' /\ FlagTypeOK'
    BY <1>15 DEF Leave, shared, messages, remote, TotalInv, TypeOK, StateTypeOK,
         FlagTypeOK, SenderPcs
  <2>2. CountTypeOK' /\ SearchProgress'
    BY <1>15, TotalAssumption DEF Leave, shared, messages, remote, TotalInv, TypeOK,
         StateTypeOK, CountTypeOK, SearchProgress
  <2>3. CutMeansClosed' /\ ReaderGone'
    BY <1>15 DEF Leave, shared, messages, remote, TotalInv, TypeOK, StateTypeOK,
         FlagTypeOK, SearchProgress, CutMeansClosed, ReaderGone, EndMeans
  <2>4. EndMeans' /\ AbortMeans' /\ OnlineMeans'
    BY <1>15 DEF Leave, shared, messages, remote, TotalInv, TypeOK, StateTypeOK,
         FlagTypeOK, CutMeansClosed, ReaderGone, EndMeans, AbortMeans, OnlineMeans
  <2>5. QED
    BY <2>1, <2>2, <2>3, <2>4 DEF TotalInv, TypeOK
<1>16. CASE StopRequest
  <2>1. StateTypeOK' /\ FlagTypeOK'
    BY <1>16 DEF StopRequest, sender, messages, remote, TotalInv, TypeOK, StateTypeOK,
         FlagTypeOK
  <2>2. CountTypeOK' /\ SearchProgress'
    BY <1>16, TotalAssumption DEF StopRequest, sender, messages, remote, TotalInv,
         TypeOK, StateTypeOK, CountTypeOK, SearchProgress
  <2>3. CutMeansClosed' /\ ReaderGone'
    BY <1>16 DEF StopRequest, sender, messages, remote, TotalInv, TypeOK, StateTypeOK,
         FlagTypeOK, SearchProgress, CutMeansClosed, ReaderGone, EndMeans
  <2>4. EndMeans' /\ AbortMeans' /\ OnlineMeans'
    BY <1>16 DEF StopRequest, sender, messages, remote, TotalInv, TypeOK, StateTypeOK,
         FlagTypeOK, CutMeansClosed, ReaderGone, EndMeans, AbortMeans, OnlineMeans
  <2>5. QED
    BY <2>1, <2>2, <2>3, <2>4 DEF TotalInv, TypeOK
<1>17. CASE StopTimesOut
  <2>1. StateTypeOK' /\ FlagTypeOK'
    BY <1>17 DEF StopTimesOut, sender, shared, messages, remote, TotalInv, TypeOK,
         StateTypeOK, FlagTypeOK
  <2>2. CountTypeOK' /\ SearchProgress'
    BY <1>17, TotalAssumption DEF StopTimesOut, sender, shared, messages, remote,
         TotalInv, TypeOK, StateTypeOK, CountTypeOK, SearchProgress
  <2>3. CutMeansClosed' /\ ReaderGone'
    BY <1>17 DEF StopTimesOut, sender, shared, messages, remote, TotalInv, TypeOK,
         StateTypeOK, FlagTypeOK, SearchProgress, CutMeansClosed, ReaderGone, EndMeans
  <2>4. EndMeans' /\ AbortMeans' /\ OnlineMeans'
    BY <1>17 DEF StopTimesOut, sender, shared, messages, remote, TotalInv, TypeOK,
         StateTypeOK, FlagTypeOK, CutMeansClosed, ReaderGone, EndMeans, AbortMeans,
         OnlineMeans
  <2>5. QED
    BY <2>1, <2>2, <2>3, <2>4 DEF TotalInv, TypeOK
<1>18. CASE ReadResult
  <2>1. StateTypeOK' /\ FlagTypeOK'
    BY <1>18 DEF ReadResult, ReaderEnds, sender, shared, remote, TotalInv, TypeOK,
         StateTypeOK, FlagTypeOK
  <2>2. CountTypeOK' /\ SearchProgress'
    <3>1. CountTypeOK'
      BY <1>18, TotalAssumption DEF ReadResult, ReaderEnds, sender, shared, remote,
           TotalInv, TypeOK, CountTypeOK, SearchProgress
    <3>2. SearchProgress'
      BY <1>18, TotalAssumption DEF ReadResult, ReaderEnds, sender, shared, remote,
           TotalInv, TypeOK, StateTypeOK, CountTypeOK, SearchProgress
    <3>3. QED
      BY <3>1, <3>2
  <2>3. CutMeansClosed' /\ ReaderGone'
    BY <1>18 DEF ReadResult, ReaderEnds, sender, shared, remote, TotalInv, TypeOK,
         StateTypeOK, FlagTypeOK, SearchProgress, CutMeansClosed, ReaderGone, EndMeans
  <2>4. EndMeans' /\ AbortMeans' /\ OnlineMeans'
    BY <1>18 DEF ReadResult, ReaderEnds, sender, shared, remote, TotalInv, TypeOK,
         StateTypeOK, FlagTypeOK, CutMeansClosed, ReaderGone, EndMeans, AbortMeans,
         OnlineMeans
  <2>5. QED
    BY <2>1, <2>2, <2>3, <2>4 DEF TotalInv, TypeOK
<1>19. CASE ReadLost
  <2>1. StateTypeOK' /\ FlagTypeOK'
    BY <1>19 DEF ReadLost, sender, messages, remote, TotalInv, TypeOK, StateTypeOK,
         FlagTypeOK
  <2>2. CountTypeOK' /\ SearchProgress'
    BY <1>19, TotalAssumption DEF ReadLost, sender, messages, remote, TotalInv, TypeOK,
         StateTypeOK, CountTypeOK, SearchProgress
  <2>3. CutMeansClosed' /\ ReaderGone'
    BY <1>19 DEF ReadLost, sender, messages, remote, TotalInv, TypeOK, StateTypeOK,
         FlagTypeOK, SearchProgress, CutMeansClosed, ReaderGone, EndMeans
  <2>4. EndMeans' /\ AbortMeans' /\ OnlineMeans'
    BY <1>19 DEF ReadLost, sender, messages, remote, TotalInv, TypeOK, StateTypeOK,
         FlagTypeOK, CutMeansClosed, ReaderGone, EndMeans, AbortMeans, OnlineMeans
  <2>5. QED
    BY <2>1, <2>2, <2>3, <2>4 DEF TotalInv, TypeOK
<1>20. CASE ReaderStops
  <2>1. StateTypeOK' /\ FlagTypeOK'
    BY <1>20 DEF ReaderStops, sender, shared, messages, remote, TotalInv, TypeOK,
         StateTypeOK, FlagTypeOK
  <2>2. CountTypeOK' /\ SearchProgress'
    BY <1>20, TotalAssumption DEF ReaderStops, sender, shared, messages, remote,
         TotalInv, TypeOK, StateTypeOK, CountTypeOK, SearchProgress
  <2>3. CutMeansClosed' /\ ReaderGone'
    BY <1>20 DEF ReaderStops, sender, shared, messages, remote, TotalInv, TypeOK,
         StateTypeOK, FlagTypeOK, SearchProgress, CutMeansClosed, ReaderGone, EndMeans
  <2>4. EndMeans' /\ AbortMeans' /\ OnlineMeans'
    BY <1>20 DEF ReaderStops, sender, shared, messages, remote, TotalInv, TypeOK,
         StateTypeOK, FlagTypeOK, CutMeansClosed, ReaderGone, EndMeans, AbortMeans,
         OnlineMeans
  <2>5. QED
    BY <2>1, <2>2, <2>3, <2>4 DEF TotalInv, TypeOK
<1>21. CASE ReadTimeout
  <2>1. StateTypeOK' /\ FlagTypeOK'
    BY <1>21 DEF ReadTimeout, ReaderEnds, sender, messages, remote, TotalInv, TypeOK,
         StateTypeOK, FlagTypeOK
  <2>2. CountTypeOK' /\ SearchProgress'
    BY <1>21, TotalAssumption DEF ReadTimeout, ReaderEnds, sender, messages, remote,
         TotalInv, TypeOK, StateTypeOK, CountTypeOK, SearchProgress
  <2>3. CutMeansClosed' /\ ReaderGone'
    BY <1>21 DEF ReadTimeout, ReaderEnds, sender, messages, remote, TotalInv, TypeOK,
         StateTypeOK, FlagTypeOK, SearchProgress, CutMeansClosed, ReaderGone, EndMeans
  <2>4. EndMeans' /\ AbortMeans' /\ OnlineMeans'
    BY <1>21 DEF ReadTimeout, ReaderEnds, sender, messages, remote, TotalInv, TypeOK,
         StateTypeOK, FlagTypeOK, CutMeansClosed, ReaderGone, EndMeans, AbortMeans,
         OnlineMeans
  <2>5. QED
    BY <2>1, <2>2, <2>3, <2>4 DEF TotalInv, TypeOK
<1>22. CASE Import
  <2>1. StateTypeOK' /\ FlagTypeOK'
    BY <1>22 DEF Import, sender, shared, messages, TotalInv, TypeOK, StateTypeOK,
         FlagTypeOK
  <2>2. CountTypeOK' /\ SearchProgress'
    <3>1. CountTypeOK'
      BY <1>22, TotalAssumption DEF Import, sender, shared, messages, TotalInv, TypeOK,
           CountTypeOK, SearchProgress
    <3>2. SearchProgress'
      BY <1>22, TotalAssumption DEF Import, sender, shared, messages, TotalInv, TypeOK,
           StateTypeOK, CountTypeOK, SearchProgress
    <3>3. QED
      BY <3>1, <3>2
  <2>3. CutMeansClosed' /\ ReaderGone'
    BY <1>22 DEF Import, sender, shared, messages, TotalInv, TypeOK, StateTypeOK,
         FlagTypeOK, SearchProgress, CutMeansClosed, ReaderGone, EndMeans
  <2>4. EndMeans' /\ AbortMeans' /\ OnlineMeans'
    BY <1>22 DEF Import, sender, shared, messages, TotalInv, TypeOK, StateTypeOK,
         FlagTypeOK, CutMeansClosed, ReaderGone, EndMeans, AbortMeans, OnlineMeans
  <2>5. QED
    BY <2>1, <2>2, <2>3, <2>4 DEF TotalInv, TypeOK
<1>23. CASE ImportFails
  <2>1. StateTypeOK' /\ FlagTypeOK'
    BY <1>23 DEF ImportFails, sender, shared, messages, TotalInv, TypeOK, StateTypeOK,
         FlagTypeOK
  <2>2. CountTypeOK' /\ SearchProgress'
    BY <1>23, TotalAssumption DEF ImportFails, sender, shared, messages, TotalInv,
         TypeOK, StateTypeOK, CountTypeOK, SearchProgress
  <2>3. CutMeansClosed' /\ ReaderGone'
    BY <1>23 DEF ImportFails, sender, shared, messages, TotalInv, TypeOK, StateTypeOK,
         FlagTypeOK, SearchProgress, CutMeansClosed, ReaderGone, EndMeans
  <2>4. EndMeans' /\ AbortMeans' /\ OnlineMeans'
    BY <1>23 DEF ImportFails, sender, shared, messages, TotalInv, TypeOK, StateTypeOK,
         FlagTypeOK, CutMeansClosed, ReaderGone, EndMeans, AbortMeans, OnlineMeans
  <2>5. QED
    BY <2>1, <2>2, <2>3, <2>4 DEF TotalInv, TypeOK
<1>24. CASE ImportEnds
  <2>1. StateTypeOK' /\ FlagTypeOK'
    BY <1>24 DEF ImportEnds, sender, shared, messages, TotalInv, TypeOK, StateTypeOK,
         FlagTypeOK
  <2>2. CountTypeOK' /\ SearchProgress'
    BY <1>24, TotalAssumption DEF ImportEnds, sender, shared, messages, TotalInv,
         TypeOK, StateTypeOK, CountTypeOK, SearchProgress
  <2>3. CutMeansClosed' /\ ReaderGone'
    BY <1>24 DEF ImportEnds, sender, shared, messages, TotalInv, TypeOK, StateTypeOK,
         FlagTypeOK, SearchProgress, CutMeansClosed, ReaderGone, EndMeans
  <2>4. EndMeans' /\ AbortMeans' /\ OnlineMeans'
    BY <1>24 DEF ImportEnds, sender, shared, messages, TotalInv, TypeOK, StateTypeOK,
         FlagTypeOK, CutMeansClosed, ReaderGone, EndMeans, AbortMeans, OnlineMeans
  <2>5. QED
    BY <2>1, <2>2, <2>3, <2>4 DEF TotalInv, TypeOK
<1>25. CASE ConsumerCloses
  <2>1. StateTypeOK' /\ FlagTypeOK'
    BY <1>25 DEF ConsumerCloses, sender, shared, messages, TotalInv, TypeOK,
         StateTypeOK, FlagTypeOK
  <2>2. CountTypeOK' /\ SearchProgress'
    BY <1>25, TotalAssumption DEF ConsumerCloses, sender, shared, messages, TotalInv,
         TypeOK, StateTypeOK, CountTypeOK, SearchProgress
  <2>3. CutMeansClosed' /\ ReaderGone'
    BY <1>25 DEF ConsumerCloses, sender, shared, messages, TotalInv, TypeOK,
         StateTypeOK, FlagTypeOK, SearchProgress, CutMeansClosed, ReaderGone, EndMeans
  <2>4. EndMeans' /\ AbortMeans' /\ OnlineMeans'
    BY <1>25 DEF ConsumerCloses, sender, shared, messages, TotalInv, TypeOK,
         StateTypeOK, FlagTypeOK, CutMeansClosed, ReaderGone, EndMeans, AbortMeans,
         OnlineMeans
  <2>5. QED
    BY <2>1, <2>2, <2>3, <2>4 DEF TotalInv, TypeOK
<1>26. CASE NetworkFails
  <2>1. StateTypeOK' /\ FlagTypeOK'
    BY <1>26 DEF NetworkFails, sender, shared, messages, remote, TotalInv, TypeOK,
         StateTypeOK, FlagTypeOK
  <2>2. CountTypeOK' /\ SearchProgress'
    BY <1>26, TotalAssumption DEF NetworkFails, sender, shared, messages, remote,
         TotalInv, TypeOK, StateTypeOK, CountTypeOK, SearchProgress
  <2>3. CutMeansClosed' /\ ReaderGone'
    BY <1>26 DEF NetworkFails, sender, shared, messages, remote, TotalInv, TypeOK,
         StateTypeOK, FlagTypeOK, SearchProgress, CutMeansClosed, ReaderGone, EndMeans
  <2>4. EndMeans' /\ AbortMeans' /\ OnlineMeans'
    BY <1>26 DEF NetworkFails, sender, shared, messages, remote, TotalInv, TypeOK,
         StateTypeOK, FlagTypeOK, CutMeansClosed, ReaderGone, EndMeans, AbortMeans,
         OnlineMeans
  <2>5. QED
    BY <2>1, <2>2, <2>3, <2>4 DEF TotalInv, TypeOK
<1>27. CASE UNCHANGED vars
  <2>1. StateTypeOK' /\ FlagTypeOK'
    <3>1. StateTypeOK'
      BY <1>27 DEF vars, sender, shared, messages, remote, TotalInv, TypeOK,
           StateTypeOK, SenderPcs
    <3>2. FlagTypeOK'
      BY <1>27 DEF vars, sender, shared, messages, remote, TotalInv, TypeOK, FlagTypeOK
    <3>3. QED
      BY <3>1, <3>2
  <2>2. CountTypeOK' /\ SearchProgress'
    BY <1>27 DEF vars, sender, shared, messages, remote, TotalInv, TypeOK, StateTypeOK,
         CountTypeOK, SearchProgress
  <2>3. CutMeansClosed' /\ ReaderGone'
    BY <1>27 DEF vars, sender, shared, messages, remote, TotalInv, TypeOK, StateTypeOK,
         FlagTypeOK, SearchProgress, CutMeansClosed, ReaderGone, EndMeans
  <2>4. EndMeans' /\ AbortMeans' /\ OnlineMeans'
    BY <1>27 DEF vars, sender, shared, messages, remote, TotalInv, TypeOK, StateTypeOK,
         FlagTypeOK, CutMeansClosed, ReaderGone, EndMeans, AbortMeans, OnlineMeans
  <2>5. QED
    BY <2>1, <2>2, <2>3, <2>4 DEF TotalInv, TypeOK
<1>28. QED
  BY <1>1, <1>2, <1>3, <1>4, <1>5, <1>6, <1>7, <1>8, <1>9, <1>10, <1>11, <1>12, <1>13,
       <1>14, <1>15, <1>16, <1>17, <1>18, <1>19, <1>20, <1>21, <1>22, <1>23, <1>24,
       <1>25, <1>26, <1>27 DEF Next, RunStep, ReaderStep

-----------------------------------------------------------------------------
(* TotalInv holds in every behaviour of repl5_tot_run, its result thread   *)
(* and the consumer.                                                       *)
THEOREM TotalInvariant == Spec => []TotalInv
BY TotalInvInit, TotalInvNext, PTL DEF Spec

(* Every variable of the total update keeps its type, and results never    *)
(* run ahead of entries, nor entries ahead of the suffix.                  *)
THEOREM TotalTypeCorrect == Spec => []TypeOK
<1>1. TotalInv => TypeOK
  BY DEF TotalInv
<1>2. QED
  BY <1>1, TotalInvariant, PTL

(* However the update is cut short, and whatever the two threads that      *)
(* write cb_data.rc do, End reaches a consumer only after all entries, or  *)
(* after an entry that the supplier itself failed to send.                 *)
THEOREM TotalEndedIsWhole == Spec => []EndedIsWhole
<1>1. TotalInv => EndedIsWhole
  BY DEF TotalInv, EndMeans, OnlineMeans, EndedIsWhole
<1>2. QED
  BY <1>1, TotalInvariant, PTL

(* An update that repl5_tot_run reports as aborted has not put the         *)
(* consumer back into service with the whole suffix; a backend that holds  *)
(* the whole suffix after a lost connection is left unfinished.            *)
THEOREM TotalAbortedIsHonest == Spec => []AbortedIsHonest
<1>1. TotalInv => AbortedIsHonest
  <2> SUFFICES ASSUME TotalInv, status = "aborted", imported = Entries
               PROVE  \/ consumer \in {"importing", "aborted"}
                      \/ consumer = "unfinished" /\ (~up \/ cut)
    BY DEF AbortedIsHonest
  <2>1. consumer # "free"
    BY TotalAssumption DEF TotalInv, OnlineMeans
  <2>2. consumer # "online"
    BY TotalAssumption DEF TotalInv, TypeOK, CountTypeOK, SearchProgress, EndMeans,
         AbortMeans, OnlineMeans
  <2>3. QED
    BY <2>1, <2>2 DEF TotalInv, TypeOK, StateTypeOK, OnlineMeans
<1>2. QED
  BY <1>1, TotalInvariant, PTL
=============================================================================
