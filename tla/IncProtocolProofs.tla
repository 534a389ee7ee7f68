------------------------ MODULE IncProtocolProofs ------------------------
(***************************************************************************)
(* Proofs about IncProtocol, for every bound: the backoff timer is never   *)
(* lost, the thread does not sleep on a change it was told of, and the     *)
(* consumer is held only while updates are sent.                           *)
(***************************************************************************)
EXTENDS IncProtocol, TLAPS

(* What each RUV covers: the saved RUV of the consumer is never ahead of   *)
(* the consumer, nor the consumer ahead of the supplier.                   *)
RUVOrder ==
  /\ unnotified <= made
  /\ known <= received
  /\ received <= made
  /\ limit <= made

(* Where the thread may be in each state.                                  *)
Places ==
  /\ pc = "reset" =>
       state \in {"READY_TO_ACQUIRE", "WAIT_WINDOW_OPEN", "STOP_FATAL_ERROR_PART2"}
  /\ pc = "sending" => state = "SENDING_UPDATES"
  /\ pc \in {"sleep", "asleep"} => state # "SENDING_UPDATES"
  /\ pc = "asleep" => events = {}

(* A notification is on its way to the thread, or has arrived.             *)
Told == unnotified > 0 \/ "TRIGGERING_CRITERIA_MET" \in events

(* A change that the replay iterator may miss is still to be notified.     *)
SessionComplete == pc = "sending" => made = limit \/ Told

(* The thread is in STATE_WAIT_CHANGES only when nothing is left to send   *)
(* that it will not be told of.                                            *)
WaitsUpToDate ==
  state = "WAIT_CHANGES" => received = made \/ Told \/ unacked \/ terminate

IncInv ==
  /\ IncTypeOK
  /\ RUVOrder
  /\ Places
  /\ BackoffWakes
  /\ AcquiredWhileSending
  /\ SessionComplete
  /\ WaitsUpToDate

-----------------------------------------------------------------------------
(* event_occurred clears the event it finds and no other.                  *)
LEMMA OccurredTakes ==
  ASSUME NEW order, NEW e, Occurred(order, e)
  PROVE  e \in events /\ events' = events \ {e}
BY DEF Occurred

(* The results of acquire_replica, with what each implies.                 *)
LEMMA AcquireCases ==
  ASSUME IncInv, NEW rc, Acquire(rc), ~acquired
  PROVE  \/ rc = "SUCCESS" /\ acquired' = TRUE /\ known' = received
         \/ rc = "CONSUMER_WAS_UPTODATE" /\ acquired' = FALSE /\ known' = known /\ received = made
         \/ rc \in {"REPLICA_BUSY", "TRANSIENT_ERROR", "FATAL_ERROR"}
              /\ acquired' = FALSE /\ known' = known
<1>1. CASE IsNewer
  BY <1>1 DEF Acquire, AcquireResults
<1>2. CASE ~IsNewer
  <2>1. rc = "CONSUMER_WAS_UPTODATE" /\ acquired' = FALSE /\ known' = known
    BY <1>2 DEF Acquire, AcquireResults
  <2>2. received = made
    BY <1>2, IncAssumption DEF IsNewer, IncInv, RUVOrder, IncTypeOK, CountTypeOK, NoRUV
  <2>3. QED
    BY <2>1, <2>2
<1>3. QED
  BY <1>1, <1>2

(* The first state of repl5_inc_run.                                       *)
THEOREM IncInvInit == Init => IncInv
<1> SUFFICES ASSUME Init PROVE IncInv
  OBVIOUS
<1>1. ThreadTypeOK /\ FlagTypeOK
  BY DEF Init, ThreadTypeOK, FlagTypeOK, States, Events
<1>2. CountTypeOK
  BY IncAssumption DEF Init, CountTypeOK, NoRUV
<1>3. RUVOrder /\ Places /\ BackoffWakes /\ AcquiredWhileSending
  BY DEF Init, RUVOrder, Places, BackoffWakes, AcquiredWhileSending, NoRUV
<1>4. SessionComplete /\ WaitsUpToDate
  BY DEF Init, SessionComplete, WaitsUpToDate, Told
<1>5. QED
  BY <1>1, <1>2, <1>3, <1>4 DEF IncInv, IncTypeOK

(* One step of the thread, of the event queue or of a caller.              *)
THEOREM IncInvNext == IncInv /\ [Next]_vars => IncInv'
<1> SUFFICES ASSUME IncInv, [Next]_vars PROVE IncInv'
  OBVIOUS
<1>1. CASE ShutDown
  <2>1. RUVOrder'
    BY <1>1 DEF ShutDown, IncInv, IncTypeOK, RUVOrder, queue, schedule, data
  <2>2. ThreadTypeOK'
    BY <1>1 DEF ShutDown, IncInv, IncTypeOK, ThreadTypeOK, States, Events,
         BackoffDelete, queue, schedule, data
  <2>3. FlagTypeOK'
    BY <1>1 DEF ShutDown, IncInv, IncTypeOK, FlagTypeOK, BackoffDelete, queue, schedule,
         data
  <2>4. CountTypeOK'
    BY <1>1, IncAssumption DEF ShutDown, IncInv, IncTypeOK, CountTypeOK, RUVOrder,
         BackoffDelete, queue, schedule, data
  <2>5. Places'
    BY <1>1 DEF ShutDown, IncInv, IncTypeOK, Places, BackoffDelete, queue, schedule,
         data
  <2>6. BackoffWakes'
    BY <1>1 DEF ShutDown, IncInv, IncTypeOK, BackoffWakes, CountTypeOK, BackoffDelete,
         queue, schedule, data
  <2>7. AcquiredWhileSending'
    BY <1>1 DEF ShutDown, IncInv, IncTypeOK, AcquiredWhileSending, Places,
         BackoffDelete, queue, schedule, data
  <2>8. SessionComplete'
    BY <1>1 DEF ShutDown, IncInv, IncTypeOK, SessionComplete, CountTypeOK, RUVOrder,
         Told, BackoffDelete, queue, schedule, data
  <2>9. WaitsUpToDate'
    BY <1>1 DEF ShutDown, IncInv, IncTypeOK, WaitsUpToDate, SessionComplete,
         CountTypeOK, RUVOrder, Places, Told, BackoffDelete, queue, schedule, data
  <2>10. QED
    BY <2>1, <2>2, <2>3, <2>4, <2>5, <2>6, <2>7, <2>8, <2>9 DEF IncInv, IncTypeOK
<1>2. CASE Start
  <2>1. FlagTypeOK' /\ CountTypeOK' /\ RUVOrder'
    BY <1>2 DEF Start, IncInv, IncTypeOK, FlagTypeOK, CountTypeOK, RUVOrder, queue,
         schedule, data
  <2>2. ThreadTypeOK'
    BY <1>2 DEF Start, IncInv, IncTypeOK, ThreadTypeOK, States, Events, At, queue,
         schedule, data
  <2>3. Places'
    BY <1>2 DEF Start, IncInv, IncTypeOK, Places, At, queue, schedule, data
  <2>4. BackoffWakes'
    BY <1>2 DEF Start, IncInv, IncTypeOK, BackoffWakes, CountTypeOK, At, queue,
         schedule, data
  <2>5. AcquiredWhileSending'
    BY <1>2 DEF Start, IncInv, IncTypeOK, AcquiredWhileSending, Places, At, queue,
         schedule, data
  <2>6. SessionComplete'
    BY <1>2 DEF Start, IncInv, IncTypeOK, SessionComplete, CountTypeOK, RUVOrder, Told,
         At, queue, schedule, data
  <2>7. WaitsUpToDate'
    BY <1>2 DEF Start, IncInv, IncTypeOK, WaitsUpToDate, SessionComplete, CountTypeOK,
         RUVOrder, Places, Told, At, queue, schedule, data
  <2>8. QED
    BY <2>1, <2>2, <2>3, <2>4, <2>5, <2>6, <2>7 DEF IncInv, IncTypeOK
<1>3. CASE ResetEvents
  <2>1. FlagTypeOK' /\ CountTypeOK' /\ RUVOrder'
    BY <1>3 DEF ResetEvents, IncInv, IncTypeOK, FlagTypeOK, CountTypeOK, RUVOrder,
         queue, schedule, data
  <2>2. ThreadTypeOK'
    BY <1>3 DEF ResetEvents, IncInv, IncTypeOK, ThreadTypeOK, States, Events, queue,
         schedule, data
  <2>3. Places'
    BY <1>3 DEF ResetEvents, IncInv, IncTypeOK, Places, queue, schedule, data
  <2>4. BackoffWakes'
    BY <1>3 DEF ResetEvents, IncInv, BackoffWakes, Places, queue
  <2>5. AcquiredWhileSending'
    BY <1>3 DEF ResetEvents, IncInv, IncTypeOK, AcquiredWhileSending, Places, queue,
         schedule, data
  <2>6. SessionComplete'
    BY <1>3 DEF ResetEvents, IncInv, IncTypeOK, SessionComplete, CountTypeOK, RUVOrder,
         Told, queue, schedule, data
  <2>7. WaitsUpToDate'
    BY <1>3 DEF ResetEvents, IncInv, IncTypeOK, WaitsUpToDate, SessionComplete,
         CountTypeOK, RUVOrder, Places, Told, queue, schedule, data
  <2>8. QED
    BY <2>1, <2>2, <2>3, <2>4, <2>5, <2>6, <2>7 DEF IncInv, IncTypeOK
<1>4. CASE WaitWindowOpen
  <2>1. FlagTypeOK' /\ CountTypeOK' /\ RUVOrder'
    BY <1>4 DEF WaitWindowOpen, IncInv, IncTypeOK, FlagTypeOK, CountTypeOK, RUVOrder,
         queue, schedule, data
  <2>2. ThreadTypeOK'
    BY <1>4, OccurredTakes DEF WaitWindowOpen, IncInv, IncTypeOK, ThreadTypeOK, States,
         Events, At, Goto, SleepThen, NoneOccurred, queue, schedule, data
  <2>3. Places'
    BY <1>4, OccurredTakes DEF WaitWindowOpen, IncInv, IncTypeOK, Places, At, Goto,
         SleepThen, NoneOccurred, queue, schedule, data
  <2>4. BackoffWakes'
    BY <1>4, OccurredTakes DEF WaitWindowOpen, IncInv, IncTypeOK, BackoffWakes,
         CountTypeOK, At, Goto, SleepThen, NoneOccurred, queue, schedule, data
  <2>5. AcquiredWhileSending'
    BY <1>4, OccurredTakes DEF WaitWindowOpen, IncInv, IncTypeOK, AcquiredWhileSending,
         Places, At, Goto, SleepThen, NoneOccurred, queue, schedule, data
  <2>6. SessionComplete'
    BY <1>4, OccurredTakes DEF WaitWindowOpen, IncInv, IncTypeOK, SessionComplete,
         CountTypeOK, RUVOrder, Told, At, Goto, SleepThen, NoneOccurred, queue,
         schedule, data
  <2>7. WaitsUpToDate'
    BY <1>4, OccurredTakes DEF WaitWindowOpen, IncInv, IncTypeOK, WaitsUpToDate,
         SessionComplete, CountTypeOK, RUVOrder, Places, Told, At, Goto, SleepThen,
         NoneOccurred, queue, schedule, data
  <2>8. QED
    BY <2>1, <2>2, <2>3, <2>4, <2>5, <2>6, <2>7 DEF IncInv, IncTypeOK
<1>5. CASE WaitChanges
  <2>1. CountTypeOK' /\ RUVOrder'
    BY <1>5 DEF WaitChanges, IncInv, IncTypeOK, CountTypeOK, RUVOrder, queue, schedule,
         data
  <2>2. ThreadTypeOK'
    BY <1>5, OccurredTakes DEF WaitChanges, IncInv, IncTypeOK, ThreadTypeOK, States,
         Events, At, Goto, SleepThen, NoneOccurred, WaitExpired, queue, schedule, data
  <2>3. FlagTypeOK'
    BY <1>5, OccurredTakes DEF WaitChanges, IncInv, IncTypeOK, FlagTypeOK, At, Goto,
         SleepThen, NoneOccurred, WaitExpired, queue, schedule, data
  <2>4. Places'
    BY <1>5, OccurredTakes DEF WaitChanges, IncInv, IncTypeOK, Places, At, Goto,
         SleepThen, NoneOccurred, WaitExpired, queue, schedule, data
  <2>5. BackoffWakes'
    BY <1>5, OccurredTakes DEF WaitChanges, IncInv, IncTypeOK, BackoffWakes,
         CountTypeOK, At, Goto, SleepThen, NoneOccurred, WaitExpired, queue, schedule,
         data
  <2>6. AcquiredWhileSending'
    BY <1>5, OccurredTakes DEF WaitChanges, IncInv, IncTypeOK, AcquiredWhileSending,
         Places, At, Goto, SleepThen, NoneOccurred, WaitExpired, queue, schedule, data
  <2>7. SessionComplete'
    BY <1>5, OccurredTakes DEF WaitChanges, IncInv, IncTypeOK, SessionComplete,
         CountTypeOK, RUVOrder, Told, At, Goto, SleepThen, NoneOccurred, WaitExpired,
         queue, schedule, data
  <2>8. WaitsUpToDate'
    BY <1>5, OccurredTakes DEF WaitChanges, IncInv, IncTypeOK, WaitsUpToDate,
         SessionComplete, CountTypeOK, RUVOrder, Places, Told, At, Goto, SleepThen,
         NoneOccurred, WaitExpired, queue, schedule, data
  <2>9. QED
    BY <2>1, <2>2, <2>3, <2>4, <2>5, <2>6, <2>7, <2>8 DEF IncInv, IncTypeOK
<1>6. CASE \E rc \in Results : ReadyToAcquire(rc)
  <2> PICK rc \in Results : ReadyToAcquire(rc)
    BY <1>6
  <2>1. /\ pc = "case" /\ state = "READY_TO_ACQUIRE" /\ pc' = "case"
        /\ state' = StateAfter(rc, "BACKOFF_START") /\ Acquire(rc)
        /\ UNCHANGED <<waited, events, terminate, stopping, backoff, orphans, firing,
                       window, windowDue, admin, made, unnotified, received, limit, unacked>>
    BY DEF ReadyToAcquire, At, Goto, queue, schedule
  <2>2. ~acquired
    BY <2>1 DEF IncInv, AcquiredWhileSending
  <2>3. \/ state' = "SENDING_UPDATES" /\ acquired' = TRUE /\ known' = received
        \/ state' = "WAIT_CHANGES" /\ acquired' = FALSE /\ known' = known /\ received = made
        \/ /\ state' \in {"BACKOFF_START", "STOP_FATAL_ERROR"}
           /\ acquired' = FALSE /\ known' = known
    BY <2>1, <2>2, AcquireCases DEF StateAfter
  <2>4. ThreadTypeOK' /\ Places' /\ BackoffWakes'
    BY <2>1, <2>3 DEF IncInv, IncTypeOK, ThreadTypeOK, Places, BackoffWakes, States
  <2>5. FlagTypeOK' /\ AcquiredWhileSending'
    BY <2>1, <2>3 DEF IncInv, IncTypeOK, FlagTypeOK, AcquiredWhileSending
  <2>6. CountTypeOK' /\ RUVOrder'
    BY <2>1, <2>3 DEF IncInv, IncTypeOK, CountTypeOK, RUVOrder, NoRUV
  <2>7. SessionComplete' /\ WaitsUpToDate'
    BY <2>1, <2>3 DEF IncInv, SessionComplete, WaitsUpToDate, Told
  <2>8. QED
    BY <2>4, <2>5, <2>6, <2>7 DEF IncInv, IncTypeOK
<1>7. CASE BackoffStart
  <2>1. RUVOrder'
    BY <1>7 DEF BackoffStart, IncInv, IncTypeOK, RUVOrder, queue, schedule, data
  <2>2. ThreadTypeOK'
    BY <1>7, OccurredTakes DEF BackoffStart, IncInv, IncTypeOK, ThreadTypeOK, States,
         Events, At, Goto, SleepThen, NoneOccurred, BackoffNew, queue, schedule, data
  <2>3. FlagTypeOK'
    BY <1>7, OccurredTakes DEF BackoffStart, IncInv, IncTypeOK, FlagTypeOK, At, Goto,
         SleepThen, NoneOccurred, BackoffNew, queue, schedule, data
  <2>4. CountTypeOK'
    BY <1>7, OccurredTakes, IncAssumption DEF BackoffStart, IncInv, IncTypeOK,
         CountTypeOK, RUVOrder, At, Goto, SleepThen, NoneOccurred, BackoffNew, queue,
         schedule, data
  <2>5. Places'
    BY <1>7, OccurredTakes DEF BackoffStart, IncInv, IncTypeOK, Places, At, Goto,
         SleepThen, NoneOccurred, BackoffNew, queue, schedule, data
  <2>6. BackoffWakes'
    BY <1>7, OccurredTakes DEF BackoffStart, IncInv, IncTypeOK, BackoffWakes,
         CountTypeOK, At, Goto, SleepThen, NoneOccurred, BackoffNew, queue, schedule,
         data
  <2>7. AcquiredWhileSending'
    BY <1>7, OccurredTakes DEF BackoffStart, IncInv, IncTypeOK, AcquiredWhileSending,
         Places, At, Goto, SleepThen, NoneOccurred, BackoffNew, queue, schedule, data
  <2>8. SessionComplete'
    BY <1>7, OccurredTakes DEF BackoffStart, IncInv, IncTypeOK, SessionComplete,
         CountTypeOK, RUVOrder, Told, At, Goto, SleepThen, NoneOccurred, BackoffNew,
         queue, schedule, data
  <2>9. WaitsUpToDate'
    BY <1>7, OccurredTakes DEF BackoffStart, IncInv, IncTypeOK, WaitsUpToDate,
         SessionComplete, CountTypeOK, RUVOrder, Places, Told, At, Goto, SleepThen,
         NoneOccurred, BackoffNew, queue, schedule, data
  <2>10. QED
    BY <2>1, <2>2, <2>3, <2>4, <2>5, <2>6, <2>7, <2>8, <2>9 DEF IncInv, IncTypeOK
<1>8. CASE Backoff
  <2>1. RUVOrder'
    BY <1>8 DEF Backoff, IncInv, IncTypeOK, RUVOrder, queue, schedule, data
  <2>2. ThreadTypeOK'
    BY <1>8, OccurredTakes DEF Backoff, IncInv, IncTypeOK, ThreadTypeOK, States, Events,
         At, Goto, SleepThen, BackoffDelete, BackoffOrder, queue, schedule, data
  <2>3. FlagTypeOK'
    BY <1>8, OccurredTakes DEF Backoff, IncInv, IncTypeOK, FlagTypeOK, At, Goto,
         SleepThen, BackoffDelete, BackoffOrder, queue, schedule, data
  <2>4. CountTypeOK'
    BY <1>8, OccurredTakes, IncAssumption DEF Backoff, IncInv, IncTypeOK, CountTypeOK,
         RUVOrder, At, Goto, SleepThen, BackoffDelete, BackoffOrder, queue, schedule,
         data
  <2>5. Places'
    BY <1>8, OccurredTakes DEF Backoff, IncInv, IncTypeOK, Places, At, Goto, SleepThen,
         BackoffDelete, BackoffOrder, queue, schedule, data
  <2>6. BackoffWakes'
    BY <1>8, OccurredTakes DEF Backoff, IncInv, IncTypeOK, BackoffWakes, CountTypeOK,
         At, Goto, SleepThen, BackoffDelete, BackoffOrder, queue, schedule, data
  <2>7. AcquiredWhileSending'
    BY <1>8, OccurredTakes DEF Backoff, IncInv, IncTypeOK, AcquiredWhileSending, Places,
         At, Goto, SleepThen, BackoffDelete, BackoffOrder, queue, schedule, data
  <2>8. SessionComplete'
    BY <1>8, OccurredTakes DEF Backoff, IncInv, IncTypeOK, SessionComplete, CountTypeOK,
         RUVOrder, Told, At, Goto, SleepThen, BackoffDelete, BackoffOrder, queue,
         schedule, data
  <2>9. WaitsUpToDate'
    BY <1>8, OccurredTakes DEF Backoff, IncInv, IncTypeOK, WaitsUpToDate,
         SessionComplete, CountTypeOK, RUVOrder, Places, Told, At, Goto, SleepThen,
         BackoffDelete, BackoffOrder, queue, schedule, data
  <2>10. QED
    BY <2>1, <2>2, <2>3, <2>4, <2>5, <2>6, <2>7, <2>8, <2>9 DEF IncInv, IncTypeOK
<1>9. CASE \E rc \in Results : BackoffAcquire(rc)
  <2> PICK rc \in Results : BackoffAcquire(rc)
    BY <1>9
  <2>1. /\ pc = "case" /\ state = "BACKOFF" /\ Acquire(rc)
        /\ events' = events \ {"BACKOFF_EXPIRED"}
        /\ UNCHANGED <<waited, terminate, stopping, window, windowDue, admin,
                       made, unnotified, received, limit, unacked>>
    BY OccurredTakes DEF BackoffAcquire, At, schedule
  <2>2. ~acquired
    BY <2>1 DEF IncInv, AcquiredWhileSending
  <2>3. /\ UNCHANGED firing
        /\ \/ /\ StateAfter(rc, "BACKOFF") = "BACKOFF"
              /\ state' = "BACKOFF" /\ pc' = "sleep" /\ backoff' = "queued"
              /\ orphans' \in {orphans, orphans + 1}
              /\ orphans' # orphans => orphans < MaxOrphans
           \/ /\ StateAfter(rc, "BACKOFF") # "BACKOFF"
              /\ state' = StateAfter(rc, "BACKOFF") /\ pc' = "case" /\ backoff' = "none"
              /\ UNCHANGED orphans
    BY DEF BackoffAcquire, BackoffStep, BackoffDelete, Goto, SleepThen
  <2>4. \/ state' = "SENDING_UPDATES" /\ acquired' = TRUE /\ known' = received
        \/ state' = "WAIT_CHANGES" /\ acquired' = FALSE /\ known' = known /\ received = made
        \/ state' = "BACKOFF" /\ backoff' = "queued" /\ acquired' = FALSE /\ known' = known
        \/ state' = "STOP_FATAL_ERROR" /\ acquired' = FALSE /\ known' = known
    BY <2>1, <2>2, <2>3, AcquireCases DEF StateAfter
  <2>5. ThreadTypeOK' /\ Places' /\ BackoffWakes'
    BY <2>1, <2>3, <2>4 DEF IncInv, IncTypeOK, ThreadTypeOK, Places, BackoffWakes, States
  <2>6. FlagTypeOK' /\ AcquiredWhileSending'
    <3>1. state' # "SENDING_UPDATES" => acquired' = FALSE
      BY <2>4
    <3>2. state' = "SENDING_UPDATES" => acquired' = TRUE /\ pc' = "case"
      BY <2>3, <2>4
    <3>3. QED
      BY <2>1, <2>3, <3>1, <3>2 DEF IncInv, IncTypeOK, FlagTypeOK, AcquiredWhileSending
  <2>7. CountTypeOK' /\ RUVOrder'
    BY <2>1, <2>3, <2>4, IncAssumption DEF IncInv, IncTypeOK, CountTypeOK, RUVOrder, NoRUV
  <2>8. SessionComplete' /\ WaitsUpToDate'
    BY <2>1, <2>3, <2>4 DEF IncInv, SessionComplete, WaitsUpToDate, Told
  <2>9. QED
    BY <2>5, <2>6, <2>7, <2>8 DEF IncInv, IncTypeOK
<1>10. CASE BeginSession
  <2>1. ThreadTypeOK'
    BY <1>10 DEF BeginSession, IncInv, IncTypeOK, ThreadTypeOK, States, Events, At,
         queue, schedule
  <2>2. FlagTypeOK'
    BY <1>10 DEF BeginSession, IncInv, IncTypeOK, FlagTypeOK, At, queue, schedule
  <2>3. CountTypeOK'
    BY <1>10, IncAssumption DEF BeginSession, IncInv, IncTypeOK, CountTypeOK, RUVOrder,
         At, queue, schedule
  <2>4. RUVOrder'
    BY <1>10 DEF BeginSession, IncInv, IncTypeOK, RUVOrder, CountTypeOK, At, queue,
         schedule
  <2>5. Places'
    BY <1>10 DEF BeginSession, IncInv, IncTypeOK, Places, At, queue, schedule
  <2>6. BackoffWakes'
    BY <1>10 DEF BeginSession, IncInv, IncTypeOK, BackoffWakes, CountTypeOK, At, queue,
         schedule
  <2>7. AcquiredWhileSending'
    BY <1>10 DEF BeginSession, IncInv, IncTypeOK, AcquiredWhileSending, Places, At,
         queue, schedule
  <2>8. SessionComplete'
    BY <1>10 DEF BeginSession, IncInv, IncTypeOK, SessionComplete, CountTypeOK,
         RUVOrder, Told, At, queue, schedule
  <2>9. WaitsUpToDate'
    BY <1>10 DEF BeginSession, IncInv, IncTypeOK, WaitsUpToDate, SessionComplete,
         CountTypeOK, RUVOrder, Places, Told, At, queue, schedule
  <2>10. QED
    BY <2>1, <2>2, <2>3, <2>4, <2>5, <2>6, <2>7, <2>8, <2>9 DEF IncInv, IncTypeOK
<1>11. CASE RefuseSession
  <2>1. CountTypeOK' /\ RUVOrder'
    BY <1>11 DEF RefuseSession, IncInv, IncTypeOK, CountTypeOK, RUVOrder, queue,
         schedule, data
  <2>2. ThreadTypeOK'
    BY <1>11 DEF RefuseSession, IncInv, IncTypeOK, ThreadTypeOK, States, Events, At,
         Release, Goto, queue, schedule, data
  <2>3. FlagTypeOK'
    BY <1>11 DEF RefuseSession, IncInv, IncTypeOK, FlagTypeOK, At, Release, Goto, queue,
         schedule, data
  <2>4. Places'
    BY <1>11 DEF RefuseSession, IncInv, IncTypeOK, Places, At, Release, Goto, queue,
         schedule, data
  <2>5. BackoffWakes'
    BY <1>11 DEF RefuseSession, IncInv, IncTypeOK, BackoffWakes, CountTypeOK, At,
         Release, Goto, queue, schedule, data
  <2>6. AcquiredWhileSending'
    BY <1>11 DEF RefuseSession, IncInv, IncTypeOK, AcquiredWhileSending, Places, At,
         Release, Goto, queue, schedule, data
  <2>7. SessionComplete'
    BY <1>11 DEF RefuseSession, IncInv, IncTypeOK, SessionComplete, CountTypeOK,
         RUVOrder, Told, At, Release, Goto, queue, schedule, data
  <2>8. WaitsUpToDate'
    BY <1>11 DEF RefuseSession, IncInv, IncTypeOK, WaitsUpToDate, SessionComplete,
         CountTypeOK, RUVOrder, Places, Told, At, Release, Goto, queue, schedule, data
  <2>9. QED
    BY <2>1, <2>2, <2>3, <2>4, <2>5, <2>6, <2>7, <2>8 DEF IncInv, IncTypeOK
<1>12. CASE SendUpdate
  <2>1. ThreadTypeOK' /\ FlagTypeOK' /\ Places' /\ BackoffWakes' /\
       AcquiredWhileSending' /\ SessionComplete'
    BY <1>12 DEF SendUpdate, IncInv, IncTypeOK, ThreadTypeOK, FlagTypeOK, Places,
         BackoffWakes, AcquiredWhileSending, SessionComplete, Told, locals, protocol,
         queue, schedule
  <2>2. CountTypeOK'
    BY <1>12, IncAssumption DEF SendUpdate, IncInv, IncTypeOK, CountTypeOK, RUVOrder,
         locals, protocol, queue, schedule
  <2>3. RUVOrder'
    BY <1>12 DEF SendUpdate, IncInv, IncTypeOK, CountTypeOK, RUVOrder, NoRUV
  <2>4. WaitsUpToDate'
    BY <1>12 DEF SendUpdate, IncInv, IncTypeOK, WaitsUpToDate, SessionComplete,
         CountTypeOK, RUVOrder, Places, Told, locals, protocol, queue, schedule
  <2>5. QED
    BY <2>1, <2>2, <2>3, <2>4 DEF IncInv, IncTypeOK
<1>13. CASE NoMoreUpdates
  <2>1. CountTypeOK' /\ RUVOrder'
    BY <1>13 DEF NoMoreUpdates, IncInv, IncTypeOK, CountTypeOK, RUVOrder, queue,
         schedule
  <2>2. ThreadTypeOK'
    BY <1>13 DEF NoMoreUpdates, IncInv, IncTypeOK, ThreadTypeOK, States, Events,
         Release, Goto, queue, schedule
  <2>3. FlagTypeOK'
    BY <1>13 DEF NoMoreUpdates, IncInv, IncTypeOK, FlagTypeOK, Release, Goto, queue,
         schedule
  <2>4. Places'
    BY <1>13 DEF NoMoreUpdates, IncInv, IncTypeOK, Places, Release, Goto, queue,
         schedule
  <2>5. BackoffWakes'
    BY <1>13 DEF NoMoreUpdates, IncInv, IncTypeOK, BackoffWakes, CountTypeOK, Release,
         Goto, queue, schedule
  <2>6. AcquiredWhileSending'
    BY <1>13 DEF NoMoreUpdates, IncInv, IncTypeOK, AcquiredWhileSending, Places,
         Release, Goto, queue, schedule
  <2>7. SessionComplete'
    BY <1>13 DEF NoMoreUpdates, IncInv, IncTypeOK, SessionComplete, CountTypeOK,
         RUVOrder, Told, Release, Goto, queue, schedule
  <2>8. WaitsUpToDate'
    <3>1. CASE terminate
      BY <1>13, <3>1 DEF NoMoreUpdates, WaitsUpToDate
    <3>2. CASE received < limit /\ ~terminate
      BY <1>13, <3>2 DEF NoMoreUpdates, WaitsUpToDate
    <3>3. CASE ~(received < limit) /\ ~terminate
      <4>1. pc = "sending" /\ UNCHANGED <<received, made, unnotified, events>>
        BY <1>13 DEF NoMoreUpdates
      <4>2. received = limit \/ Told
        BY <3>3, <4>1 DEF IncInv, IncTypeOK, CountTypeOK, RUVOrder, SessionComplete
      <4>3. received = made \/ Told
        BY <3>3, <4>1, <4>2 DEF IncInv, IncTypeOK, CountTypeOK, RUVOrder, SessionComplete
      <4>4. QED
        BY <4>1, <4>3 DEF WaitsUpToDate, Told
    <3>4. QED
      BY <3>1, <3>2, <3>3
  <2>9. QED
    BY <2>1, <2>2, <2>3, <2>4, <2>5, <2>6, <2>7, <2>8 DEF IncInv, IncTypeOK
<1>14. CASE SessionFails
  <2>1. CountTypeOK' /\ RUVOrder'
    BY <1>14 DEF SessionFails, IncInv, IncTypeOK, CountTypeOK, RUVOrder, queue,
         schedule, data
  <2>2. ThreadTypeOK'
    BY <1>14 DEF SessionFails, IncInv, IncTypeOK, ThreadTypeOK, States, Events, Release,
         Goto, queue, schedule, data
  <2>3. FlagTypeOK'
    BY <1>14 DEF SessionFails, IncInv, IncTypeOK, FlagTypeOK, Release, Goto, queue,
         schedule, data
  <2>4. Places'
    BY <1>14 DEF SessionFails, IncInv, IncTypeOK, Places, Release, Goto, queue,
         schedule, data
  <2>5. BackoffWakes'
    BY <1>14 DEF SessionFails, IncInv, IncTypeOK, BackoffWakes, CountTypeOK, Release,
         Goto, queue, schedule, data
  <2>6. AcquiredWhileSending'
    BY <1>14 DEF SessionFails, IncInv, IncTypeOK, AcquiredWhileSending, Places, Release,
         Goto, queue, schedule, data
  <2>7. SessionComplete'
    BY <1>14 DEF SessionFails, IncInv, IncTypeOK, SessionComplete, CountTypeOK,
         RUVOrder, Told, Release, Goto, queue, schedule, data
  <2>8. WaitsUpToDate'
    BY <1>14 DEF SessionFails, IncInv, IncTypeOK, WaitsUpToDate, SessionComplete,
         CountTypeOK, RUVOrder, Places, Told, Release, Goto, queue, schedule, data
  <2>9. QED
    BY <2>1, <2>2, <2>3, <2>4, <2>5, <2>6, <2>7, <2>8 DEF IncInv, IncTypeOK
<1>15. CASE StopFatalError
  <2>1. FlagTypeOK' /\ CountTypeOK' /\ RUVOrder'
    BY <1>15 DEF StopFatalError, IncInv, IncTypeOK, FlagTypeOK, CountTypeOK, RUVOrder,
         queue, schedule, data
  <2>2. ThreadTypeOK'
    BY <1>15 DEF StopFatalError, IncInv, IncTypeOK, ThreadTypeOK, States, Events, Goto,
         queue, schedule, data
  <2>3. Places'
    BY <1>15 DEF StopFatalError, IncInv, IncTypeOK, Places, Goto, queue, schedule, data
  <2>4. BackoffWakes'
    BY <1>15 DEF StopFatalError, IncInv, IncTypeOK, BackoffWakes, CountTypeOK, Goto,
         queue, schedule, data
  <2>5. AcquiredWhileSending'
    BY <1>15 DEF StopFatalError, IncInv, IncTypeOK, AcquiredWhileSending, Places, Goto,
         queue, schedule, data
  <2>6. SessionComplete'
    BY <1>15 DEF StopFatalError, IncInv, IncTypeOK, SessionComplete, CountTypeOK,
         RUVOrder, Told, Goto, queue, schedule, data
  <2>7. WaitsUpToDate'
    BY <1>15 DEF StopFatalError, IncInv, IncTypeOK, WaitsUpToDate, SessionComplete,
         CountTypeOK, RUVOrder, Places, Told, Goto, queue, schedule, data
  <2>8. QED
    BY <2>1, <2>2, <2>3, <2>4, <2>5, <2>6, <2>7 DEF IncInv, IncTypeOK
<1>16. CASE StopFatalErrorPart2
  <2>1. FlagTypeOK' /\ CountTypeOK' /\ RUVOrder'
    BY <1>16 DEF StopFatalErrorPart2, IncInv, IncTypeOK, FlagTypeOK, CountTypeOK,
         RUVOrder, queue, schedule, data
  <2>2. ThreadTypeOK'
    BY <1>16, OccurredTakes DEF StopFatalErrorPart2, IncInv, IncTypeOK, ThreadTypeOK,
         States, Events, At, SleepThen, queue, schedule, data
  <2>3. Places'
    BY <1>16, OccurredTakes DEF StopFatalErrorPart2, IncInv, IncTypeOK, Places, At,
         SleepThen, queue, schedule, data
  <2>4. BackoffWakes'
    BY <1>16, OccurredTakes DEF StopFatalErrorPart2, IncInv, IncTypeOK, BackoffWakes,
         CountTypeOK, At, SleepThen, queue, schedule, data
  <2>5. AcquiredWhileSending'
    BY <1>16, OccurredTakes DEF StopFatalErrorPart2, IncInv, IncTypeOK,
         AcquiredWhileSending, Places, At, SleepThen, queue, schedule, data
  <2>6. SessionComplete'
    BY <1>16, OccurredTakes DEF StopFatalErrorPart2, IncInv, IncTypeOK, SessionComplete,
         CountTypeOK, RUVOrder, Told, At, SleepThen, queue, schedule, data
  <2>7. WaitsUpToDate'
    BY <1>16, OccurredTakes DEF StopFatalErrorPart2, IncInv, IncTypeOK, WaitsUpToDate,
         SessionComplete, CountTypeOK, RUVOrder, Places, Told, At, SleepThen, queue,
         schedule, data
  <2>8. QED
    BY <2>1, <2>2, <2>3, <2>4, <2>5, <2>6, <2>7 DEF IncInv, IncTypeOK
<1>17. CASE StopNormalTermination
  <2>1. FlagTypeOK' /\ CountTypeOK' /\ RUVOrder' /\ WaitsUpToDate'
    BY <1>17 DEF StopNormalTermination, IncInv, IncTypeOK, FlagTypeOK, CountTypeOK,
         RUVOrder, WaitsUpToDate, Told, queue, schedule, data
  <2>2. ThreadTypeOK'
    BY <1>17 DEF StopNormalTermination, IncInv, IncTypeOK, ThreadTypeOK, States, Events,
         queue, schedule, data
  <2>3. Places'
    BY <1>17 DEF StopNormalTermination, IncInv, IncTypeOK, Places, queue, schedule, data
  <2>4. BackoffWakes'
    BY <1>17 DEF StopNormalTermination, IncInv, IncTypeOK, BackoffWakes, CountTypeOK,
         queue, schedule, data
  <2>5. AcquiredWhileSending'
    BY <1>17 DEF StopNormalTermination, IncInv, IncTypeOK, AcquiredWhileSending, Places,
         queue, schedule, data
  <2>6. SessionComplete'
    BY <1>17 DEF StopNormalTermination, IncInv, IncTypeOK, SessionComplete, CountTypeOK,
         RUVOrder, Told, queue, schedule, data
  <2>7. QED
    BY <2>1, <2>2, <2>3, <2>4, <2>5, <2>6 DEF IncInv, IncTypeOK
<1>18. CASE ProtocolSleep
  <2>1. FlagTypeOK' /\ CountTypeOK' /\ RUVOrder' /\ WaitsUpToDate'
    BY <1>18 DEF ProtocolSleep, IncInv, IncTypeOK, FlagTypeOK, CountTypeOK, RUVOrder,
         WaitsUpToDate, Told, queue, schedule, data
  <2>2. ThreadTypeOK'
    BY <1>18 DEF ProtocolSleep, IncInv, IncTypeOK, ThreadTypeOK, States, Events, queue,
         schedule, data
  <2>3. Places'
    BY <1>18 DEF ProtocolSleep, IncInv, IncTypeOK, Places, queue, schedule, data
  <2>4. BackoffWakes'
    BY <1>18 DEF ProtocolSleep, IncInv, IncTypeOK, BackoffWakes, CountTypeOK, queue,
         schedule, data
  <2>5. AcquiredWhileSending'
    BY <1>18 DEF ProtocolSleep, IncInv, IncTypeOK, AcquiredWhileSending, Places, queue,
         schedule, data
  <2>6. SessionComplete'
    BY <1>18 DEF ProtocolSleep, IncInv, IncTypeOK, SessionComplete, CountTypeOK,
         RUVOrder, Told, queue, schedule, data
  <2>7. QED
    BY <2>1, <2>2, <2>3, <2>4, <2>5, <2>6 DEF IncInv, IncTypeOK
<1>19. CASE WaitTimesOut
  <2>1. FlagTypeOK' /\ CountTypeOK' /\ RUVOrder' /\ WaitsUpToDate'
    BY <1>19 DEF WaitTimesOut, IncInv, IncTypeOK, FlagTypeOK, CountTypeOK, RUVOrder,
         WaitsUpToDate, Told, queue, schedule, data
  <2>2. ThreadTypeOK'
    BY <1>19 DEF WaitTimesOut, IncInv, IncTypeOK, ThreadTypeOK, States, Events, queue,
         schedule, data
  <2>3. Places'
    BY <1>19 DEF WaitTimesOut, IncInv, IncTypeOK, Places, queue, schedule, data
  <2>4. BackoffWakes'
    BY <1>19 DEF WaitTimesOut, IncInv, IncTypeOK, BackoffWakes, CountTypeOK, queue,
         schedule, data
  <2>5. AcquiredWhileSending'
    BY <1>19 DEF WaitTimesOut, IncInv, IncTypeOK, AcquiredWhileSending, Places, queue,
         schedule, data
  <2>6. SessionComplete'
    BY <1>19 DEF WaitTimesOut, IncInv, IncTypeOK, SessionComplete, CountTypeOK,
         RUVOrder, Told, queue, schedule, data
  <2>7. QED
    BY <2>1, <2>2, <2>3, <2>4, <2>5, <2>6 DEF IncInv, IncTypeOK
<1>20. CASE SpuriousWake
  <2>1. FlagTypeOK' /\ CountTypeOK' /\ RUVOrder' /\ WaitsUpToDate'
    BY <1>20 DEF SpuriousWake, IncInv, IncTypeOK, FlagTypeOK, CountTypeOK, RUVOrder,
         WaitsUpToDate, Told, queue, schedule, data
  <2>2. ThreadTypeOK'
    BY <1>20 DEF SpuriousWake, IncInv, IncTypeOK, ThreadTypeOK, States, Events, queue,
         schedule, data
  <2>3. Places'
    BY <1>20 DEF SpuriousWake, IncInv, IncTypeOK, Places, queue, schedule, data
  <2>4. BackoffWakes'
    BY <1>20 DEF SpuriousWake, IncInv, IncTypeOK, BackoffWakes, CountTypeOK, queue,
         schedule, data
  <2>5. AcquiredWhileSending'
    BY <1>20 DEF SpuriousWake, IncInv, IncTypeOK, AcquiredWhileSending, Places, queue,
         schedule, data
  <2>6. SessionComplete'
    BY <1>20 DEF SpuriousWake, IncInv, IncTypeOK, SessionComplete, CountTypeOK,
         RUVOrder, Told, queue, schedule, data
  <2>7. QED
    BY <2>1, <2>2, <2>3, <2>4, <2>5, <2>6 DEF IncInv, IncTypeOK
<1>21. CASE TimerDue
  <2>1. ThreadTypeOK' /\ CountTypeOK' /\ RUVOrder' /\ Places' /\ AcquiredWhileSending'
       /\ SessionComplete' /\ WaitsUpToDate'
    BY <1>21 DEF TimerDue, IncInv, IncTypeOK, ThreadTypeOK, CountTypeOK, RUVOrder,
         Places, AcquiredWhileSending, SessionComplete, WaitsUpToDate, Told, locals,
         protocol, schedule, data
  <2>2. FlagTypeOK'
    BY <1>21 DEF TimerDue, IncInv, IncTypeOK, FlagTypeOK, locals, protocol, schedule,
         data
  <2>3. BackoffWakes'
    BY <1>21 DEF TimerDue, IncInv, IncTypeOK, BackoffWakes, CountTypeOK, locals,
         protocol, schedule, data
  <2>4. QED
    BY <2>1, <2>2, <2>3 DEF IncInv, IncTypeOK
<1>22. CASE OrphanDue
  <2>1. ThreadTypeOK' /\ RUVOrder' /\ Places' /\ AcquiredWhileSending' /\
       SessionComplete' /\ WaitsUpToDate'
    BY <1>22 DEF OrphanDue, IncInv, IncTypeOK, ThreadTypeOK, RUVOrder, Places,
         AcquiredWhileSending, SessionComplete, WaitsUpToDate, Told, locals, protocol,
         schedule, data
  <2>2. FlagTypeOK'
    BY <1>22 DEF OrphanDue, IncInv, IncTypeOK, FlagTypeOK, locals, protocol, schedule,
         data
  <2>3. CountTypeOK'
    BY <1>22, IncAssumption DEF OrphanDue, IncInv, IncTypeOK, CountTypeOK, RUVOrder,
         locals, protocol, schedule, data
  <2>4. BackoffWakes'
    BY <1>22 DEF OrphanDue, IncInv, IncTypeOK, BackoffWakes, CountTypeOK, locals,
         protocol, schedule, data
  <2>5. QED
    BY <2>1, <2>2, <2>3, <2>4 DEF IncInv, IncTypeOK
<1>23. CASE BackoffExpired
  <2>1. CountTypeOK' /\ RUVOrder'
    BY <1>23 DEF BackoffExpired, IncInv, IncTypeOK, CountTypeOK, RUVOrder, locals,
         schedule, data
  <2>2. ThreadTypeOK'
    BY <1>23 DEF BackoffExpired, IncInv, IncTypeOK, ThreadTypeOK, States, Events,
         Notify, locals, schedule, data
  <2>3. FlagTypeOK'
    BY <1>23 DEF BackoffExpired, IncInv, IncTypeOK, FlagTypeOK, Notify, locals,
         schedule, data
  <2>4. Places'
    BY <1>23 DEF BackoffExpired, IncInv, IncTypeOK, Places, Notify, locals, schedule,
         data
  <2>5. BackoffWakes'
    BY <1>23 DEF BackoffExpired, IncInv, IncTypeOK, BackoffWakes, CountTypeOK, Notify,
         locals, schedule, data
  <2>6. AcquiredWhileSending'
    BY <1>23 DEF BackoffExpired, IncInv, IncTypeOK, AcquiredWhileSending, Places,
         Notify, locals, schedule, data
  <2>7. SessionComplete'
    BY <1>23 DEF BackoffExpired, IncInv, IncTypeOK, SessionComplete, CountTypeOK,
         RUVOrder, Told, Notify, locals, schedule, data
  <2>8. WaitsUpToDate'
    BY <1>23 DEF BackoffExpired, IncInv, IncTypeOK, WaitsUpToDate, SessionComplete,
         CountTypeOK, RUVOrder, Places, Told, Notify, locals, schedule, data
  <2>9. QED
    BY <2>1, <2>2, <2>3, <2>4, <2>5, <2>6, <2>7, <2>8 DEF IncInv, IncTypeOK
<1>24. CASE Change
  <2>1. ThreadTypeOK' /\ FlagTypeOK' /\ Places' /\ BackoffWakes' /\
       AcquiredWhileSending'
    BY <1>24 DEF Change, IncInv, IncTypeOK, ThreadTypeOK, FlagTypeOK, Places,
         BackoffWakes, AcquiredWhileSending, locals, protocol, queue, schedule
  <2>2. CountTypeOK'
    BY <1>24, IncAssumption DEF Change, IncInv, IncTypeOK, CountTypeOK, RUVOrder,
         locals, protocol, queue, schedule
  <2>3. RUVOrder'
    BY <1>24 DEF Change, IncInv, IncTypeOK, RUVOrder, CountTypeOK, locals, protocol,
         queue, schedule
  <2>4. SessionComplete'
    BY <1>24 DEF Change, IncInv, IncTypeOK, SessionComplete, CountTypeOK, RUVOrder,
         Told, locals, protocol, queue, schedule
  <2>5. WaitsUpToDate'
    BY <1>24 DEF Change, IncInv, IncTypeOK, WaitsUpToDate, SessionComplete, CountTypeOK,
         RUVOrder, Places, Told, locals, protocol, queue, schedule
  <2>6. QED
    BY <2>1, <2>2, <2>3, <2>4, <2>5 DEF IncInv, IncTypeOK
<1>25. CASE NotifyUpdate
  <2>1. FlagTypeOK'
    BY <1>25 DEF NotifyUpdate, IncInv, IncTypeOK, FlagTypeOK, locals, queue, schedule
  <2>2. ThreadTypeOK'
    BY <1>25 DEF NotifyUpdate, IncInv, IncTypeOK, ThreadTypeOK, States, Events, Notify,
         locals, queue, schedule
  <2>3. CountTypeOK'
    BY <1>25, IncAssumption DEF NotifyUpdate, IncInv, IncTypeOK, CountTypeOK, RUVOrder,
         Notify, locals, queue, schedule
  <2>4. RUVOrder'
    BY <1>25 DEF NotifyUpdate, IncInv, IncTypeOK, RUVOrder, CountTypeOK, Notify, locals,
         queue, schedule
  <2>5. Places'
    BY <1>25 DEF NotifyUpdate, IncInv, IncTypeOK, Places, Notify, locals, queue,
         schedule
  <2>6. BackoffWakes'
    BY <1>25 DEF NotifyUpdate, IncInv, IncTypeOK, BackoffWakes, CountTypeOK, Notify,
         locals, queue, schedule
  <2>7. AcquiredWhileSending'
    BY <1>25 DEF NotifyUpdate, IncInv, IncTypeOK, AcquiredWhileSending, Places, Notify,
         locals, queue, schedule
  <2>8. SessionComplete'
    BY <1>25 DEF NotifyUpdate, IncInv, IncTypeOK, SessionComplete, CountTypeOK,
         RUVOrder, Told, Notify, locals, queue, schedule
  <2>9. WaitsUpToDate'
    BY <1>25 DEF NotifyUpdate, IncInv, IncTypeOK, WaitsUpToDate, SessionComplete,
         CountTypeOK, RUVOrder, Places, Told, Notify, locals, queue, schedule
  <2>10. QED
    BY <2>1, <2>2, <2>3, <2>4, <2>5, <2>6, <2>7, <2>8, <2>9 DEF IncInv, IncTypeOK
<1>26. CASE \E e \in {"REPLICATE_NOW", "AGMT_CHANGED"} : AdminRequest(e)
  <2>1. FlagTypeOK' /\ RUVOrder'
    BY <1>26 DEF AdminRequest, IncInv, IncTypeOK, FlagTypeOK, RUVOrder, locals, queue,
         data
  <2>2. ThreadTypeOK'
    BY <1>26 DEF AdminRequest, IncInv, IncTypeOK, ThreadTypeOK, States, Events, Notify,
         locals, queue, data
  <2>3. CountTypeOK'
    BY <1>26, IncAssumption DEF AdminRequest, IncInv, IncTypeOK, CountTypeOK, RUVOrder,
         Notify, locals, queue, data
  <2>4. Places'
    BY <1>26 DEF AdminRequest, IncInv, IncTypeOK, Places, Notify, locals, queue, data
  <2>5. BackoffWakes'
    BY <1>26 DEF AdminRequest, IncInv, IncTypeOK, BackoffWakes, CountTypeOK, Notify,
         locals, queue, data
  <2>6. AcquiredWhileSending'
    BY <1>26 DEF AdminRequest, IncInv, IncTypeOK, AcquiredWhileSending, Places, Notify,
         locals, queue, data
  <2>7. SessionComplete'
    BY <1>26 DEF AdminRequest, IncInv, IncTypeOK, SessionComplete, CountTypeOK,
         RUVOrder, Told, Notify, locals, queue, data
  <2>8. WaitsUpToDate'
    BY <1>26 DEF AdminRequest, IncInv, IncTypeOK, WaitsUpToDate, SessionComplete,
         CountTypeOK, RUVOrder, Places, Told, Notify, locals, queue, data
  <2>9. QED
    BY <2>1, <2>2, <2>3, <2>4, <2>5, <2>6, <2>7, <2>8 DEF IncInv, IncTypeOK
<1>27. CASE WindowChanges
  <2>1. ThreadTypeOK' /\ RUVOrder' /\ Places' /\ BackoffWakes' /\ AcquiredWhileSending'
       /\ SessionComplete' /\ WaitsUpToDate'
    BY <1>27 DEF WindowChanges, IncInv, IncTypeOK, ThreadTypeOK, RUVOrder, Places,
         BackoffWakes, AcquiredWhileSending, SessionComplete, WaitsUpToDate, Told,
         locals, protocol, queue, data
  <2>2. FlagTypeOK'
    BY <1>27 DEF WindowChanges, IncInv, IncTypeOK, FlagTypeOK, locals, protocol, queue,
         data
  <2>3. CountTypeOK'
    BY <1>27, IncAssumption DEF WindowChanges, IncInv, IncTypeOK, CountTypeOK, RUVOrder,
         locals, protocol, queue, data
  <2>4. QED
    BY <2>1, <2>2, <2>3 DEF IncInv, IncTypeOK
<1>28. CASE WindowStateChanged
  <2>1. CountTypeOK' /\ RUVOrder'
    BY <1>28 DEF WindowStateChanged, IncInv, IncTypeOK, CountTypeOK, RUVOrder, locals,
         queue, data
  <2>2. ThreadTypeOK'
    BY <1>28 DEF WindowStateChanged, IncInv, IncTypeOK, ThreadTypeOK, States, Events,
         Notify, locals, queue, data
  <2>3. FlagTypeOK'
    BY <1>28 DEF WindowStateChanged, IncInv, IncTypeOK, FlagTypeOK, Notify, locals,
         queue, data
  <2>4. Places'
    BY <1>28 DEF WindowStateChanged, IncInv, IncTypeOK, Places, Notify, locals, queue,
         data
  <2>5. BackoffWakes'
    BY <1>28 DEF WindowStateChanged, IncInv, IncTypeOK, BackoffWakes, CountTypeOK,
         Notify, locals, queue, data
  <2>6. AcquiredWhileSending'
    BY <1>28 DEF WindowStateChanged, IncInv, IncTypeOK, AcquiredWhileSending, Places,
         Notify, locals, queue, data
  <2>7. SessionComplete'
    BY <1>28 DEF WindowStateChanged, IncInv, IncTypeOK, SessionComplete, CountTypeOK,
         RUVOrder, Told, Notify, locals, queue, data
  <2>8. WaitsUpToDate'
    BY <1>28 DEF WindowStateChanged, IncInv, IncTypeOK, WaitsUpToDate, SessionComplete,
         CountTypeOK, RUVOrder, Places, Told, Notify, locals, queue, data
  <2>9. QED
    BY <2>1, <2>2, <2>3, <2>4, <2>5, <2>6, <2>7, <2>8 DEF IncInv, IncTypeOK
<1>29. CASE StopSetsTerminate
  <2>1. ThreadTypeOK' /\ CountTypeOK' /\ RUVOrder' /\ Places' /\ BackoffWakes' /\
       AcquiredWhileSending' /\ SessionComplete'
    BY <1>29 DEF StopSetsTerminate, IncInv, IncTypeOK, ThreadTypeOK, CountTypeOK,
         RUVOrder, Places, BackoffWakes, AcquiredWhileSending, SessionComplete, Told,
         locals, protocol, queue, schedule, data
  <2>2. FlagTypeOK'
    BY <1>29 DEF StopSetsTerminate, IncInv, IncTypeOK, FlagTypeOK, locals, protocol,
         queue, schedule, data
  <2>3. WaitsUpToDate'
    BY <1>29 DEF StopSetsTerminate, IncInv, IncTypeOK, WaitsUpToDate, SessionComplete,
         CountTypeOK, RUVOrder, Places, Told, locals, protocol, queue, schedule, data
  <2>4. QED
    BY <2>1, <2>2, <2>3 DEF IncInv, IncTypeOK
<1>30. CASE StopNotifies
  <2>1. CountTypeOK' /\ RUVOrder'
    BY <1>30 DEF StopNotifies, IncInv, IncTypeOK, CountTypeOK, RUVOrder, locals, queue,
         schedule, data
  <2>2. ThreadTypeOK'
    BY <1>30 DEF StopNotifies, IncInv, IncTypeOK, ThreadTypeOK, States, Events, Notify,
         locals, queue, schedule, data
  <2>3. FlagTypeOK'
    BY <1>30 DEF StopNotifies, IncInv, IncTypeOK, FlagTypeOK, Notify, locals, queue,
         schedule, data
  <2>4. Places'
    BY <1>30 DEF StopNotifies, IncInv, IncTypeOK, Places, Notify, locals, queue,
         schedule, data
  <2>5. BackoffWakes'
    BY <1>30 DEF StopNotifies, IncInv, IncTypeOK, BackoffWakes, CountTypeOK, Notify,
         locals, queue, schedule, data
  <2>6. AcquiredWhileSending'
    BY <1>30 DEF StopNotifies, IncInv, IncTypeOK, AcquiredWhileSending, Places, Notify,
         locals, queue, schedule, data
  <2>7. SessionComplete'
    BY <1>30 DEF StopNotifies, IncInv, IncTypeOK, SessionComplete, CountTypeOK,
         RUVOrder, Told, Notify, locals, queue, schedule, data
  <2>8. WaitsUpToDate'
    BY <1>30 DEF StopNotifies, IncInv, IncTypeOK, WaitsUpToDate, SessionComplete,
         CountTypeOK, RUVOrder, Places, Told, Notify, locals, queue, schedule, data
  <2>9. QED
    BY <2>1, <2>2, <2>3, <2>4, <2>5, <2>6, <2>7, <2>8 DEF IncInv, IncTypeOK
<1>31. CASE UNCHANGED vars
  BY <1>31 DEF IncInv, IncTypeOK, ThreadTypeOK, FlagTypeOK, CountTypeOK, RUVOrder,
       Places, BackoffWakes, AcquiredWhileSending, SessionComplete, WaitsUpToDate, Told,
       vars, locals, protocol, queue, schedule, data
<1>32. QED
  BY <1>1, <1>2, <1>3, <1>4, <1>5, <1>6, <1>7, <1>8, <1>9, <1>10, <1>11, <1>12, <1>13,
       <1>14, <1>15, <1>16, <1>17, <1>18, <1>19, <1>20, <1>21, <1>22, <1>23, <1>24,
       <1>25, <1>26, <1>27, <1>28, <1>29, <1>30, <1>31 DEF Next, ThreadStep, Caller

-----------------------------------------------------------------------------
(* Types, on every run of the protocol.                                    *)
THEOREM IncTypeCorrect == Spec => []IncTypeOK
<1>1. IncInv => IncTypeOK
  BY DEF IncInv
<1>2. QED
  BY <1>1, IncInvInit, IncInvNext, PTL DEF Spec

(* The backoff timer of repl5_inc_run is never lost: no agreement is stuck *)
(* in STATE_BACKOFF.                                                       *)
THEOREM IncBackoffWakes == Spec => []BackoffWakes
<1>1. IncInv => BackoffWakes
  BY DEF IncInv
<1>2. QED
  BY <1>1, IncInvInit, IncInvNext, PTL DEF Spec

(* The consumer is held exactly while updates are sent to it.              *)
THEOREM IncAcquiredWhileSending == Spec => []AcquiredWhileSending
<1>1. IncInv => AcquiredWhileSending
  BY DEF IncInv
<1>2. QED
  BY <1>1, IncInvInit, IncInvNext, PTL DEF Spec

(* No wake-up is lost: a thread asleep in STATE_WAIT_CHANGES has no change *)
(* left to send, whichever way notifications race with protocol_sleep,     *)
(* with reset_events and with the end of a session.                        *)
THEOREM IncAsleepUpToDate == Spec => []AsleepUpToDate
<1>1. IncInv => AsleepUpToDate
  BY DEF IncInv, Places, WaitsUpToDate, Told, AsleepUpToDate
<1>2. QED
  BY <1>1, IncInvInit, IncInvNext, PTL DEF Spec

=============================================================================
