---------------------------- MODULE IncProtocol ----------------------------
(***************************************************************************)
(* The incremental protocol of one replication agreement: the state        *)
(* machine of repl5_inc_run (repl5_inc_protocol.c), the event bits and the *)
(* condition variable it sleeps on, its backoff timer (repl5_backoff.c)    *)
(* and the event queue that fires it (slapd/eventq.c), and the             *)
(* acquisition and release of the consumer (repl5_protocol_util.c).        *)
(*                                                                         *)
(* The thread tests its event bits one after the other, each under the     *)
(* lock.  A bit set after its own test and before the test of another      *)
(* changes nothing in the latter, so a whole run of tests is one step; the *)
(* steps that are split are those where an arrival in between matters.     *)
(*                                                                         *)
(* The changes of the supplier are numbered.  Left out: the lengths of the *)
(* timers, the schema push, the pause after a session, and the pipeline of *)
(* asynchronous results, of which only its outcomes are kept.  The changes *)
(* are those the agreement replicates.  One run of repl5_inc_run is        *)
(* modelled; prot_thread_main may start another.  Events of the queue that *)
(* do not belong to this agreement are left out.                           *)
(***************************************************************************)
EXTENDS Integers

CONSTANTS
  MaxChanges,   \* bound on the changes of the supplier
  MaxAdmin,     \* bound on schedule changes and administrator's requests
  MaxOrphans    \* bound on the orphaned callbacks that are told apart

ASSUME IncAssumption ==
  MaxChanges \in Nat /\ MaxAdmin \in Nat /\ MaxOrphans \in Nat

VARIABLES
  state,        \* current_state; next_state while the thread sleeps
  pc,           \* where the thread is in the code of its state
  events,       \* prp->eventbits
  terminate,    \* prp->terminate
  stopping,     \* repl5_inc_stop has yet to set EVENT_PROTOCOL_SHUTDOWN
  backoff,      \* prp_priv->backoff: none, or its event is queued or gone
  orphans,      \* callbacks queued that no backoff timer refers to
  firing,       \* the event queue thread is about to run the callback
  waited,       \* wait_change_timer_set
  acquired,     \* prp->replica_acquired
  window,       \* agmt_schedule_in_window_now
  windowDue,    \* window_state_changed has yet to be called
  admin,        \* schedule changes and requests so far
  made,         \* changes covered by the RUV of the supplier
  unnotified,   \* changes whose agmt_notify_change has yet to come
  known,        \* the consumer's RUV saved in the agreement
  received,     \* changes covered by the RUV of the consumer
  limit,        \* changes there were when the replay iterator was created
  unacked       \* the last session ended with changes that are not applied

locals == <<state, waited, acquired>>
protocol == <<locals, pc>>
queue == <<backoff, orphans, firing>>
schedule == <<window, windowDue, admin>>
data == <<made, unnotified, known, received, limit, unacked>>
vars == <<protocol, events, terminate, stopping, queue, schedule, data>>

NoRUV == -1

States == {"START", "WAIT_WINDOW_OPEN", "WAIT_CHANGES", "READY_TO_ACQUIRE",
           "BACKOFF_START", "BACKOFF", "SENDING_UPDATES", "STOP_FATAL_ERROR",
           "STOP_FATAL_ERROR_PART2", "STOP_NORMAL_TERMINATION"}

Events == {"WINDOW_OPENED", "WINDOW_CLOSED", "TRIGGERING_CRITERIA_MET",
           "BACKOFF_EXPIRED", "REPLICATE_NOW", "PROTOCOL_SHUTDOWN", "AGMT_CHANGED"}

-----------------------------------------------------------------------------
(* Events *)

(* event_notify: the bit is set, and a thread that waits on the condition  *)
(* wakes up.                                                               *)
Notify(e) ==
  /\ events' = events \cup {e}
  /\ pc' = IF pc = "asleep" THEN "case" ELSE pc

(* event_occurred finds e, the first that is set in the order of the tests *)
Occurred(order, e) ==
  /\ \E i \in DOMAIN order :
       /\ order[i] = e /\ e \in events
       /\ \A j \in 1..i - 1 : order[j] \notin events
  /\ events' = events \ {e}

NoneOccurred(order) ==
  /\ \A i \in DOMAIN order : order[i] \notin events
  /\ UNCHANGED events

(* Mutant: reset_events may have cleared the bit.                          *)
IsShutdownBit == "PROTOCOL_SHUTDOWN" \in events

(* PROTOCOL_IS_SHUTDOWN *)
IsShutdown == "PROTOCOL_SHUTDOWN" \in events \/ terminate

(* The thread is at the code of state s, and goes on to the next state.    *)
At(s) == pc = "case" /\ state = s /\ ~IsShutdown

Goto(s) == state' = s /\ pc' = "case"

(* It calls protocol_sleep before it goes on.                              *)
SleepThen(s) == state' = s /\ pc' = "sleep"

-----------------------------------------------------------------------------
(* The backoff timer *)

(* backoff_delete: an event already taken from the queue is not found, and *)
(* an orphan is not known to it.                                           *)
BackoffDelete == backoff' = "none" /\ UNCHANGED <<orphans, firing>>

(* The old timer is deleted; backoff_new and backoff_reset.                *)
BackoffNew == backoff' = "queued" /\ UNCHANGED <<orphans, firing>>

(* Mutant: the timer is not stepped after a failed acquisition.            *)
BackoffNoStep == UNCHANGED queue

(* backoff_step queues a new event and forgets the one it had.             *)
BackoffStep ==
  /\ backoff' = "queued"
  /\ orphans' = IF backoff = "queued" /\ orphans < MaxOrphans THEN orphans + 1 ELSE orphans
  /\ UNCHANGED firing

(* eq_call_all_rel takes a due event from the queue, then calls            *)
(* repl5_inc_backoff_expired without the lock of the queue.                *)
TimerDue ==
  /\ ~firing
  /\ backoff = "queued"
  /\ backoff' = "gone"
  /\ firing' = TRUE
  /\ UNCHANGED <<protocol, events, terminate, stopping, orphans, schedule, data>>

OrphanDue ==
  /\ ~firing
  /\ orphans > 0
  /\ orphans' = orphans - 1
  /\ firing' = TRUE
  /\ UNCHANGED <<protocol, events, terminate, stopping, backoff, schedule, data>>

BackoffExpired ==
  /\ firing
  /\ firing' = FALSE
  /\ Notify("BACKOFF_EXPIRED")
  /\ UNCHANGED <<locals, terminate, stopping, backoff, orphans, schedule, data>>

-----------------------------------------------------------------------------
(* The consumer *)

(* ruv_is_newer(supplier's RUV, RUV saved in the agreement)                *)
IsNewer == made > known

(* acquire_replica *)
AcquireResults ==
  IF acquired THEN {"SUCCESS"}
  ELSE IF ~IsNewer THEN {"CONSUMER_WAS_UPTODATE"}
  ELSE {"SUCCESS", "REPLICA_BUSY", "TRANSIENT_ERROR", "FATAL_ERROR"}

Acquire(rc) ==
  /\ rc \in AcquireResults
  /\ acquired' = (rc = "SUCCESS")
  /\ known' = IF rc = "SUCCESS" /\ ~acquired THEN received ELSE known

(* The state after acquire_replica; retry is the state after a failure     *)
(* that may pass.                                                          *)
StateAfter(rc, retry) ==
  CASE rc = "SUCCESS" -> "SENDING_UPDATES"
    [] rc = "CONSUMER_WAS_UPTODATE" -> "WAIT_CHANGES"
    [] rc = "FATAL_ERROR" -> "STOP_FATAL_ERROR"
    [] OTHER -> retry

-----------------------------------------------------------------------------
(* repl5_inc_run *)

ShutDown ==
  /\ pc = "case"
  /\ state \notin {"STOP_FATAL_ERROR", "STOP_NORMAL_TERMINATION"}
  /\ IsShutdown
  /\ pc' = "ended"
  /\ events' = events \ {"PROTOCOL_SHUTDOWN"}
  /\ acquired' = (acquired /\ state # "SENDING_UPDATES")     \* release_replica
  /\ IF state = "BACKOFF" THEN BackoffDelete ELSE UNCHANGED queue
  /\ UNCHANGED <<state, waited, terminate, stopping, schedule, data>>

Start ==
  /\ At("START")
  /\ state' = IF window THEN "READY_TO_ACQUIRE" ELSE "WAIT_WINDOW_OPEN"
  /\ pc' = "reset"
  /\ UNCHANGED <<waited, acquired, events, terminate, stopping, queue, schedule, data>>

(* reset_events: in STATE_START, or in STATE_STOP_FATAL_ERROR_PART2 before *)
(* the thread goes to sleep.                                               *)
ResetEvents ==
  /\ pc = "reset"
  /\ events' = {}
  /\ pc' = IF state = "STOP_FATAL_ERROR_PART2" THEN "sleep" ELSE "case"
  /\ UNCHANGED <<state, waited, acquired, terminate, stopping, queue, schedule, data>>

WaitWindowOpen ==
  LET order == <<"WINDOW_OPENED", "REPLICATE_NOW", "AGMT_CHANGED",
                 "TRIGGERING_CRITERIA_MET", "WINDOW_CLOSED", "BACKOFF_EXPIRED">>
  IN  /\ At("WAIT_WINDOW_OPEN")
      /\ \/ Occurred(order, "WINDOW_OPENED") /\ Goto("READY_TO_ACQUIRE")
         \/ Occurred(order, "REPLICATE_NOW") /\ Goto("READY_TO_ACQUIRE")
         \/ Occurred(order, "AGMT_CHANGED") /\ Goto("START")
         \/ \E e \in {"TRIGGERING_CRITERIA_MET", "WINDOW_CLOSED", "BACKOFF_EXPIRED"} :
              Occurred(order, e) /\ SleepThen(state)
         \/ NoneOccurred(order) /\ SleepThen(state)
      /\ UNCHANGED <<waited, acquired, terminate, stopping, queue, schedule, data>>

(* Mutant: the thread does not go on when its wait has ended.              *)
WaitAgain == SleepThen(state)

(* The end of the wait of MAX_WAIT_BETWEEN_SESSIONS in STATE_WAIT_CHANGES  *)
WaitExpired == Goto("START")

(* Without an event, the thread waits once, then goes on.                  *)
WaitChanges ==
  LET order == <<"REPLICATE_NOW", "AGMT_CHANGED", "WINDOW_CLOSED",
                 "TRIGGERING_CRITERIA_MET", "WINDOW_OPENED", "BACKOFF_EXPIRED">>
  IN  /\ At("WAIT_CHANGES")
      /\ \/ /\ waited' = FALSE
            /\ \/ Occurred(order, "REPLICATE_NOW") /\ Goto("READY_TO_ACQUIRE")
               \/ Occurred(order, "AGMT_CHANGED") /\ Goto("START")
               \/ Occurred(order, "WINDOW_CLOSED") /\ Goto("WAIT_WINDOW_OPEN")
               \/ Occurred(order, "TRIGGERING_CRITERIA_MET") /\ Goto("READY_TO_ACQUIRE")
               \/ \E e \in {"WINDOW_OPENED", "BACKOFF_EXPIRED"} :
                    Occurred(order, e) /\ Goto(state)
         \/ /\ NoneOccurred(order)
            /\ IF waited THEN WaitExpired ELSE SleepThen(state)
            /\ waited' = ~waited
      /\ UNCHANGED <<acquired, terminate, stopping, queue, schedule, data>>

ReadyToAcquire(rc) ==
  /\ At("READY_TO_ACQUIRE")
  /\ Acquire(rc)
  /\ Goto(StateAfter(rc, "BACKOFF_START"))
  /\ UNCHANGED <<waited, events, terminate, stopping, queue, schedule,
                 made, unnotified, received, limit, unacked>>

BackoffStart ==
  LET order == <<"REPLICATE_NOW", "AGMT_CHANGED", "WINDOW_CLOSED",
                 "TRIGGERING_CRITERIA_MET", "WINDOW_OPENED", "BACKOFF_EXPIRED">>
  IN  /\ At("BACKOFF_START")
      /\ \/ Occurred(order, "REPLICATE_NOW") /\ Goto("READY_TO_ACQUIRE") /\ UNCHANGED queue
         \/ Occurred(order, "AGMT_CHANGED") /\ Goto("START") /\ UNCHANGED queue
         \/ Occurred(order, "WINDOW_CLOSED") /\ Goto("WAIT_WINDOW_OPEN") /\ UNCHANGED queue
         \/ \E e \in {"TRIGGERING_CRITERIA_MET", "WINDOW_OPENED", "BACKOFF_EXPIRED"} :
              Occurred(order, e) /\ Goto(state) /\ UNCHANGED queue
         \/ NoneOccurred(order) /\ BackoffNew /\ SleepThen("BACKOFF")
      /\ UNCHANGED <<waited, acquired, terminate, stopping, schedule, data>>

BackoffOrder == <<"REPLICATE_NOW", "AGMT_CHANGED", "WINDOW_CLOSED",
                  "BACKOFF_EXPIRED", "TRIGGERING_CRITERIA_MET", "WINDOW_OPENED">>

(* The events of STATE_BACKOFF other than the timer's.  A thread woken for *)
(* no event finds none of them, and goes round the loop.                   *)
Backoff ==
  /\ At("BACKOFF")
  /\ \/ Occurred(BackoffOrder, "REPLICATE_NOW") /\ Goto("READY_TO_ACQUIRE") /\ UNCHANGED queue
     \/ Occurred(BackoffOrder, "AGMT_CHANGED") /\ Goto("START") /\ BackoffDelete
     \/ Occurred(BackoffOrder, "WINDOW_CLOSED") /\ Goto("WAIT_WINDOW_OPEN") /\ BackoffDelete
     \/ /\ Occurred(BackoffOrder, "TRIGGERING_CRITERIA_MET")
        /\ \/ SleepThen(state) /\ UNCHANGED queue
           \/ Goto("READY_TO_ACQUIRE") /\ BackoffDelete    \* more than 60 s overdue
     \/ Occurred(BackoffOrder, "WINDOW_OPENED") /\ SleepThen(state) /\ UNCHANGED queue
  /\ UNCHANGED <<waited, acquired, terminate, stopping, schedule, data>>

(* EVENT_BACKOFF_EXPIRED in STATE_BACKOFF                                  *)
BackoffAcquire(rc) ==
  /\ At("BACKOFF")
  /\ Occurred(BackoffOrder, "BACKOFF_EXPIRED")
  /\ Acquire(rc)
  /\ IF StateAfter(rc, "BACKOFF") = "BACKOFF"
       THEN BackoffStep /\ SleepThen("BACKOFF")
       ELSE BackoffDelete /\ Goto(StateAfter(rc, "BACKOFF"))
  /\ UNCHANGED <<waited, terminate, stopping, schedule,
                 made, unnotified, received, limit, unacked>>

(* Mutant: the flag stays when the consumer is released.                   *)
ReleaseKeepsFlag(s) == UNCHANGED acquired /\ Goto(s)

(* release_replica, and the state it is left for                           *)
Release(s) == acquired' = FALSE /\ Goto(s)

(* STATE_SENDING_UPDATES up to send_updates: examine_update_vector accepts *)
(* the consumer's RUV, and replica_update_csngen_state its time.           *)
BeginSession ==
  /\ At("SENDING_UPDATES")
  /\ pc' = "sending"
  /\ limit' = made
  /\ unacked' = FALSE
  /\ UNCHANGED <<state, waited, acquired, events, terminate, stopping, queue, schedule,
                 made, unnotified, known, received>>

(* The consumer has no RUV or one of another generation (it must be        *)
(* initialised), or its time is too far ahead.                             *)
RefuseSession ==
  /\ At("SENDING_UPDATES")
  /\ Release("BACKOFF_START") \/ Release("STOP_FATAL_ERROR")
  /\ UNCHANGED <<waited, events, terminate, stopping, queue, schedule, data>>

(* Mutant: the iterator goes on past the last change.                      *)
SendUpdatePastEnd ==
  /\ pc = "sending"
  /\ received' = received + 1
  /\ UNCHANGED <<protocol, events, terminate, stopping, queue, schedule,
                 made, unnotified, known, limit, unacked>>

(* send_updates replays the next change and the consumer covers it.        *)
SendUpdate ==
  /\ pc = "sending"
  /\ received < made
  /\ received' = received + 1
  /\ UNCHANGED <<protocol, events, terminate, stopping, queue, schedule,
                 made, unnotified, known, limit, unacked>>

(* UPDATE_NO_MORE_UPDATES: the iterator is at its end; or the protocol is  *)
(* told to stop; or repl5_inc_waitfor_async_results gives up on results    *)
(* that have not come, and no error is known; or the consumer refused the  *)
(* last changes with an error that is skipped.                             *)
NoMoreUpdates ==
  /\ pc = "sending"
  /\ Release("WAIT_CHANGES")
  /\ unacked' = (received < limit /\ ~terminate)
  /\ UNCHANGED <<waited, events, terminate, stopping, queue, schedule,
                 made, unnotified, known, received, limit>>

(* UPDATE_YIELD, UPDATE_TRANSIENT_ERROR, UPDATE_CONNECTION_LOST or         *)
(* UPDATE_TIMEOUT; UPDATE_FATAL_ERROR.                                     *)
SessionFails ==
  /\ pc = "sending"
  /\ Release("BACKOFF_START") \/ Release("STOP_FATAL_ERROR")
  /\ UNCHANGED <<waited, events, terminate, stopping, queue, schedule, data>>

StopFatalError ==
  /\ pc = "case"
  /\ state = "STOP_FATAL_ERROR"
  /\ Goto("STOP_FATAL_ERROR_PART2")
  /\ UNCHANGED <<waited, acquired, events, terminate, stopping, queue, schedule, data>>

StopFatalErrorPart2 ==
  /\ At("STOP_FATAL_ERROR_PART2")
  /\ \/ Occurred(<<"AGMT_CHANGED">>, "AGMT_CHANGED") /\ SleepThen("STOP_NORMAL_TERMINATION")
     \/ "AGMT_CHANGED" \notin events /\ pc' = "reset" /\ UNCHANGED <<state, events>>
  /\ UNCHANGED <<waited, acquired, terminate, stopping, queue, schedule, data>>

StopNormalTermination ==
  /\ pc = "case"
  /\ state = "STOP_NORMAL_TERMINATION"
  /\ pc' = "ended"
  /\ UNCHANGED <<state, waited, acquired, events, terminate, stopping, queue, schedule, data>>

(* Mutant: the thread sleeps without a look at the events.                 *)
SleepAnyway ==
  /\ pc = "sleep"
  /\ pc' = "asleep"
  /\ UNCHANGED <<state, waited, acquired, events, terminate, stopping, queue, schedule, data>>

(* protocol_sleep: no sleep while there are events.                        *)
ProtocolSleep ==
  /\ pc = "sleep"
  /\ pc' = IF events = {} THEN "asleep" ELSE "case"
  /\ UNCHANGED <<state, waited, acquired, events, terminate, stopping, queue, schedule, data>>

(* The wait of MAX_WAIT_BETWEEN_SESSIONS in STATE_WAIT_CHANGES ends.       *)
WaitTimesOut ==
  /\ pc = "asleep"
  /\ state = "WAIT_CHANGES"
  /\ pc' = "case"
  /\ UNCHANGED <<state, waited, acquired, events, terminate, stopping, queue, schedule, data>>

(* A wait on a condition may also end for no reason.                       *)
SpuriousWake ==
  /\ pc = "asleep"
  /\ pc' = "case"
  /\ UNCHANGED <<state, waited, acquired, events, terminate, stopping, queue, schedule, data>>

-----------------------------------------------------------------------------
(* The callers *)

(* A change commits: the RUV covers it before process_postop tells the     *)
(* agreements.                                                             *)
Change ==
  /\ made < MaxChanges
  /\ made' = made + 1
  /\ unnotified' = unnotified + 1
  /\ UNCHANGED <<protocol, events, terminate, stopping, queue, schedule,
                 known, received, limit, unacked>>

(* agmt_notify_change, prot_notify_update, repl5_inc_notify_update         *)
NotifyUpdate ==
  /\ unnotified > 0
  /\ unnotified' = unnotified - 1
  /\ Notify("TRIGGERING_CRITERIA_MET")
  /\ UNCHANGED <<locals, terminate, stopping, queue, schedule,
                 made, known, received, limit, unacked>>

(* repl5_inc_update_now or repl5_inc_notify_agmt_changed                   *)
AdminRequest(e) ==
  /\ admin < MaxAdmin
  /\ admin' = admin + 1
  /\ Notify(e)
  /\ UNCHANGED <<locals, terminate, stopping, queue, window, windowDue, data>>

(* Time passes a boundary of the schedule.                                 *)
WindowChanges ==
  /\ admin < MaxAdmin
  /\ admin' = admin + 1
  /\ window' = ~window
  /\ windowDue' = TRUE
  /\ UNCHANGED <<protocol, events, terminate, stopping, queue, data>>

(* window_state_changed looks at the schedule again.                       *)
WindowStateChanged ==
  /\ windowDue
  /\ windowDue' = FALSE
  /\ Notify(IF window THEN "WINDOW_OPENED" ELSE "WINDOW_CLOSED")
  /\ UNCHANGED <<locals, terminate, stopping, queue, window, admin, data>>

(* repl5_inc_stop sets the flag, then notifies.                            *)
StopSetsTerminate ==
  /\ ~terminate
  /\ terminate' = TRUE
  /\ stopping' = TRUE
  /\ UNCHANGED <<protocol, events, queue, schedule, data>>

StopNotifies ==
  /\ stopping
  /\ stopping' = FALSE
  /\ Notify("PROTOCOL_SHUTDOWN")
  /\ UNCHANGED <<locals, terminate, queue, schedule, data>>

-----------------------------------------------------------------------------
Init ==
  /\ state = "START" /\ pc = "case"
  /\ events = {}
  /\ terminate = FALSE /\ stopping = FALSE
  /\ backoff = "none" /\ orphans = 0 /\ firing = FALSE
  /\ waited = FALSE /\ acquired = FALSE
  /\ window \in BOOLEAN /\ windowDue = FALSE /\ admin = 0
  /\ made = 0 /\ unnotified = 0 /\ known = NoRUV /\ received = 0
  /\ limit = 0 /\ unacked = FALSE

Results == {"SUCCESS", "CONSUMER_WAS_UPTODATE", "REPLICA_BUSY", "TRANSIENT_ERROR", "FATAL_ERROR"}

ThreadStep ==
  \/ ShutDown
  \/ Start
  \/ ResetEvents
  \/ WaitWindowOpen
  \/ WaitChanges
  \/ \E rc \in Results : ReadyToAcquire(rc)
  \/ BackoffStart
  \/ Backoff
  \/ \E rc \in Results : BackoffAcquire(rc)
  \/ BeginSession
  \/ RefuseSession
  \/ SendUpdate
  \/ NoMoreUpdates
  \/ SessionFails
  \/ StopFatalError
  \/ StopFatalErrorPart2
  \/ StopNormalTermination
  \/ ProtocolSleep
  \/ WaitTimesOut

Caller ==
  \/ Change
  \/ NotifyUpdate
  \/ \E e \in {"REPLICATE_NOW", "AGMT_CHANGED"} : AdminRequest(e)
  \/ WindowChanges
  \/ WindowStateChanged
  \/ StopSetsTerminate
  \/ StopNotifies

Next == ThreadStep \/ SpuriousWake \/ TimerDue \/ OrphanDue \/ BackoffExpired \/ Caller

(* The threads of the server are scheduled fairly.  The consumer accepts a *)
(* session, its RUV and an update, if it is asked again and again.  The    *)
(* schedule and the administrator owe nothing.                             *)
Fairness ==
  /\ WF_vars(ThreadStep)
  /\ WF_vars(TimerDue) /\ WF_vars(OrphanDue) /\ WF_vars(BackoffExpired)
  /\ WF_vars(NotifyUpdate) /\ WF_vars(StopNotifies)
  /\ SF_vars(ReadyToAcquire("SUCCESS") \/ BackoffAcquire("SUCCESS"))
  /\ SF_vars(BeginSession)
  /\ SF_vars(SendUpdate)

Spec == Init /\ [][Next]_vars /\ Fairness

-----------------------------------------------------------------------------
(* Properties *)

ThreadTypeOK ==
  /\ state \in States
  /\ pc \in {"case", "reset", "sleep", "asleep", "sending", "ended"}
  /\ events \subseteq Events

FlagTypeOK ==
  /\ terminate \in BOOLEAN /\ stopping \in BOOLEAN
  /\ backoff \in {"none", "queued", "gone"} /\ firing \in BOOLEAN
  /\ waited \in BOOLEAN /\ acquired \in BOOLEAN
  /\ window \in BOOLEAN /\ windowDue \in BOOLEAN /\ unacked \in BOOLEAN

CountTypeOK ==
  /\ orphans \in 0..MaxOrphans
  /\ admin \in 0..MaxAdmin
  /\ made \in 0..MaxChanges /\ unnotified \in 0..MaxChanges
  /\ known \in {NoRUV} \cup 0..MaxChanges /\ received \in 0..MaxChanges
  /\ limit \in 0..MaxChanges

(* The events, states and counters the code has, and no other: the replay  *)
(* iterator and the timers never go past what there is.                    *)
IncTypeOK == ThreadTypeOK /\ FlagTypeOK /\ CountTypeOK

(* A thread that waits in STATE_BACKOFF has a timer, and the timer's event *)
(* is in the queue, is being run, or has set its bit.  The code guards     *)
(* against the opposite: "Have seen cases that the agmt stuck here forever *)
(* since somehow the backoff timer was not in event queue anymore."        *)
BackoffWakes ==
  state = "BACKOFF" /\ pc # "ended" =>
    /\ backoff # "none"
    /\ backoff = "queued" \/ orphans > 0 \/ firing \/ "BACKOFF_EXPIRED" \in events

(* A thread asleep in STATE_WAIT_CHANGES has nothing left to send: no      *)
(* change is forgotten until MAX_WAIT_BETWEEN_SESSIONS, unless a session   *)
(* gave up on its results or the consumer refused a change.                *)
AsleepUpToDate ==
  state = "WAIT_CHANGES" /\ pc = "asleep" =>
    \/ received = made
    \/ unnotified > 0
    \/ unacked \/ terminate

(* The consumer is held only while updates are sent to it: no thread       *)
(* sleeps, backs off or ends with a replica acquired, and none sends       *)
(* without.                                                                *)
AcquiredWhileSending == acquired <=> (state = "SENDING_UPDATES" /\ pc # "ended")

(* The thread has stopped, or waits for the schedule or an administrator.  *)
Resting ==
  \/ pc = "ended" \/ terminate
  \/ state \in {"WAIT_WINDOW_OPEN", "STOP_FATAL_ERROR_PART2", "STOP_NORMAL_TERMINATION"}

(* "If we don't see any updates for a period equal to this interval, we go *)
(* ahead and start a replication session, just to be safe": every change   *)
(* reaches the consumer, whatever fails, unless the thread rests.          *)
ChangesReachConsumer ==
  \A n \in 1..MaxChanges : (made >= n) ~> (received >= n \/ Resting)

(* repl5_inc_stop ends the thread, from any state but the fatal one.       *)
StopEnds == terminate ~> (pc = "ended" \/ state = "STOP_FATAL_ERROR_PART2")

=============================================================================
