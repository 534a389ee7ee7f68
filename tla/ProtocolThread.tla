--------------------------- MODULE ProtocolThread ---------------------------
(***************************************************************************)
(* The life of the replication agreements of one replica: the protocol     *)
(* object of an agreement and its thread (repl5_protocol.c), the start and *)
(* the end of the two protocols the thread runs (repl5_inc_protocol.c,     *)
(* repl5_tot_protocol.c), and the administrator's requests to start, stop  *)
(* and initialise (repl5_agmt.c).                                          *)
(*                                                                         *)
(* The requests come from threads of the server: operations on cn=config,  *)
(* an import that takes the backend offline, tasks, the shutdown.  A step  *)
(* is one critical section of the lock of the agreement, of the protocol   *)
(* object or of the replica, or one access to a flag that no lock          *)
(* protects.  What a protocol does between its start and its end is in     *)
(* IncProtocol and TotalUpdate; here it notices that it has to stop, or    *)
(* ends by itself.                                                         *)
(*                                                                         *)
(* Two requests on one agreement can meet so that agmt_stop frees an       *)
(* object that is in use ("dangerous?" in its comment).  The agreements to *)
(* which this has happened are remembered, and what becomes of them        *)
(* afterwards is not followed: no further request is made on them.         *)
(***************************************************************************)
EXTENDS Integers, FiniteSets

CONSTANTS
  Agmts,        \* the agreements of the replica
  Callers,      \* the threads that start, stop and initialise agreements
  MaxRequests,  \* bound on their requests and on total updates received
  NoOne         \* no caller

ASSUME ProtocolAssumption ==
  MaxRequests \in Nat /\ NoOne \notin Callers /\ Agmts # {}

VARIABLES
  protocol,     \* ra->protocol is not NULL
  stopping,     \* ra->stop_in_progress
  autoInit,     \* ra->auto_initialize: the agreement was added with a refresh
  rp,           \* the protocol object
  inc,          \* its incremental protocol: stopped, terminate, the event bit
  tot,          \* its total protocol: stopped, terminate
  thread,       \* where the protocol thread is
  caller,       \* where a caller is, and on which agreement
  flags,        \* the flags EXCL_SEND and EXCL_RECV of the replica
  receiving,    \* a total update from another supplier: where its Start is
  overlap,      \* history: agreements whose requests have met (see above)
  requests      \* requests and total updates received so far

agreement == <<protocol, stopping, autoInit>>
replica == <<flags, receiving>>
vars == <<agreement, rp, inc, tot, thread, caller, replica, overlap, requests>>

ProtStates == {"INC", "TOTAL", "FINISHED"}

IncAsleep == {"incFatalSleep", "incLeave"}
IncPcs == {"incRun", "incStart", "incReset", "incLoop", "incEnd",
           "incFatal", "incFatalReset"} \cup IncAsleep
TotMarked == {"totLock", "totRun", "totSend", "totEnd", "totClear"}
ThreadPcs == {"none", "top", "after", "ended", "totMark"} \cup IncPcs \cup TotMarked

StopPcs == {"stopLock", "stopNotify", "stopInc", "stopTot", "join", "free"}
InitPcs == {"initRead", "initLock", "initNotify", "initInc"}
CallerPcs == {"idle"} \cup StopPcs \cup InitPcs

(* A caller without a request: its agreement means nothing.                *)
Idle == [pc |-> "idle", agmt |-> CHOOSE g \in Agmts : TRUE]

NewInc == [stopped |-> FALSE, terminate |-> FALSE, shutdown |-> FALSE]
NewTot == [stopped |-> TRUE, terminate |-> FALSE]

(* Mutant: next_state is not initialised.                                  *)
NewProtocolZero(state) == [lock |-> NoOne, state |-> state, next |-> "ZERO"]

(* prot_new *)
NewProtocol(state) == [lock |-> NoOne, state |-> state, next |-> "INC"]

Init ==
  /\ protocol = [g \in Agmts |-> FALSE]
  /\ stopping = [g \in Agmts |-> FALSE]
  /\ autoInit \in [Agmts -> BOOLEAN]
  /\ rp = [g \in Agmts |-> NewProtocol("INC")]
  /\ inc = [g \in Agmts |-> NewInc]
  /\ tot = [g \in Agmts |-> NewTot]
  /\ thread = [g \in Agmts |-> "none"]
  /\ caller = [k \in Callers |-> Idle]
  /\ flags = {} /\ receiving = "no"
  /\ overlap = {}
  /\ requests = 0

-----------------------------------------------------------------------------
(* Requests *)

Request(k, g) ==
  /\ caller[k].pc = "idle" /\ g \notin overlap
  /\ requests < MaxRequests /\ requests' = requests + 1

(* Two requests meet on g when c holds.                                    *)
Meets(g, c) == overlap' = IF c THEN overlap \cup {g} ELSE overlap

CallerAt(k, p) == caller[k].pc = p

CallerGoes(k, p) == caller' = [caller EXCEPT ![k].pc = p]

CallerEnds(k) == caller' = [caller EXCEPT ![k] = Idle]

(* A thread blocks on the lock of a protocol object that another holds.    *)
LockFree(g) == rp[g].lock = NoOne

Alive(g) == thread[g] \notin {"none", "ended"}

(* agmt_start, prot_new and prot_start: nothing when there is a protocol.  *)
(* A stop that has found none is going to free the new one.                *)
AgmtStart(k, g) ==
  /\ Request(k, g)
  /\ IF protocol[g] THEN UNCHANGED <<protocol, rp, inc, tot, thread>> ELSE
       /\ protocol' = [protocol EXCEPT ![g] = TRUE]
       /\ rp' = [rp EXCEPT ![g] = NewProtocol(IF autoInit[g] THEN "TOTAL" ELSE "INC")]
       /\ inc' = [inc EXCEPT ![g] = NewInc]
       /\ tot' = [tot EXCEPT ![g] = NewTot]
       /\ thread' = [thread EXCEPT ![g] = "top"]
  /\ Meets(g, stopping[g] /\ ~protocol[g])
  /\ UNCHANGED <<stopping, autoInit, caller, replica>>

(* An initialisation of g is about to use its protocol without a lock.     *)
InitUses(g) == \E l \in Callers : caller[l].agmt = g /\ caller[l].pc \in {"initRead", "initLock"}

(* Mutant: a second stop does not look at stop_in_progress.                *)
AgmtStopAgain(k, g) ==
  /\ Request(k, g)
  /\ stopping' = [stopping EXCEPT ![g] = TRUE]
  /\ caller' = [caller EXCEPT
       ![k] = [pc |-> IF protocol[g] THEN "stopLock" ELSE "free", agmt |-> g]]
  /\ Meets(g, InitUses(g))
  /\ UNCHANGED <<protocol, autoInit, rp, inc, tot, thread, replica>>

(* agmt_stop: nothing when another is at it.  It frees a protocol that an  *)
(* initialisation is about to use.                                         *)
AgmtStop(k, g) ==
  /\ Request(k, g)
  /\ stopping' = [stopping EXCEPT ![g] = TRUE]
  /\ caller' = IF stopping[g] THEN caller ELSE
       [caller EXCEPT ![k] = [pc |-> IF protocol[g] THEN "stopLock" ELSE "free", agmt |-> g]]
  /\ Meets(g, InitUses(g))
  /\ UNCHANGED <<protocol, autoInit, rp, inc, tot, thread, replica>>

(* prot_stop, until it has set terminate in repl5_inc_stop                 *)
StopLock(k) == LET g == caller[k].agmt IN
  /\ CallerAt(k, "stopLock") /\ LockFree(g)
  /\ rp' = [rp EXCEPT ![g].lock = k, ![g].next = "FINISHED"]
  /\ inc' = [inc EXCEPT ![g].terminate = TRUE]
  /\ CallerGoes(k, "stopNotify")
  /\ UNCHANGED <<agreement, tot, thread, replica, overlap, requests>>

(* It sets EVENT_PROTOCOL_SHUTDOWN.                                        *)
Shutdown(k, from, to) == LET g == caller[k].agmt IN
  /\ CallerAt(k, from)
  /\ inc' = [inc EXCEPT ![g].shutdown = TRUE]
  /\ CallerGoes(k, to)
  /\ UNCHANGED <<agreement, rp, tot, thread, replica, overlap, requests>>

StopNotify(k) == Shutdown(k, "stopNotify", "stopInc")

(* Mutant: there is no limit to the wait.                                  *)
WaitedForever(g) == inc[g].stopped

(* repl5_inc_stop has waited: the protocol has stopped or, however long it *)
(* would still take, nsds5ReplicaProtocolTimeout is over.                  *)
Waited(g) == TRUE

(* It has waited; repl5_tot_stop begins.                                   *)
StopInc(k) == LET g == caller[k].agmt IN
  /\ CallerAt(k, "stopInc") /\ Waited(g)
  /\ tot' = [tot EXCEPT ![g].terminate = TRUE]
  /\ CallerGoes(k, "stopTot")
  /\ UNCHANGED <<agreement, rp, inc, thread, replica, overlap, requests>>

(* It has waited as well; prot_stop lets go of the lock.                   *)
StopTot(k) == LET g == caller[k].agmt IN
  /\ CallerAt(k, "stopTot")
  /\ rp' = [rp EXCEPT ![g].lock = NoOne]
  /\ CallerGoes(k, "join")
  /\ UNCHANGED <<agreement, inc, tot, thread, replica, overlap, requests>>

(* PR_JoinThread returns.                                                  *)
Join(k) ==
  /\ CallerAt(k, "join") /\ ~Alive(caller[k].agmt)
  /\ CallerGoes(k, "free")
  /\ UNCHANGED <<agreement, rp, inc, tot, thread, replica, overlap, requests>>

(* The end of agmt_stop: prot_free, which takes the lock of the object.    *)
Free(k) == LET g == caller[k].agmt IN
  /\ CallerAt(k, "free") /\ (protocol[g] => LockFree(g))
  /\ stopping' = [stopping EXCEPT ![g] = FALSE]
  /\ protocol' = [protocol EXCEPT ![g] = FALSE]
  /\ CallerEnds(k)
  /\ UNCHANGED <<autoInit, rp, inc, tot, thread, replica, overlap, requests>>

(* agmt_initialize_replica: it tests for a stop under the lock, ...        *)
AgmtInitialize(k, g) ==
  /\ Request(k, g)
  /\ caller' = IF stopping[g] THEN caller ELSE
       [caller EXCEPT ![k] = [pc |-> "initRead", agmt |-> g]]
  /\ UNCHANGED <<agreement, rp, inc, tot, thread, replica, overlap>>

(* ... and reads the protocol after it.                                    *)
InitRead(k) ==
  /\ CallerAt(k, "initRead")
  /\ IF protocol[caller[k].agmt] THEN CallerGoes(k, "initLock") ELSE CallerEnds(k)
  /\ UNCHANGED <<agreement, rp, inc, tot, thread, replica, overlap, requests>>

(* prot_initialize_replica and repl5_inc_stop                              *)
InitLock(k) == LET g == caller[k].agmt IN
  /\ CallerAt(k, "initLock") /\ LockFree(g)
  /\ rp' = [rp EXCEPT ![g].lock = k, ![g].next = "TOTAL"]
  /\ inc' = [inc EXCEPT ![g].terminate = TRUE]
  /\ CallerGoes(k, "initNotify")
  /\ UNCHANGED <<agreement, tot, thread, replica, overlap, requests>>

InitNotify(k) == Shutdown(k, "initNotify", "initInc")

InitInc(k) == LET g == caller[k].agmt IN
  /\ CallerAt(k, "initInc") /\ Waited(g)
  /\ rp' = [rp EXCEPT ![g].lock = NoOne]
  /\ CallerEnds(k)
  /\ UNCHANGED <<agreement, inc, tot, thread, replica, overlap, requests>>

CallerStep(k) ==
  \/ StopLock(k) \/ StopNotify(k) \/ StopInc(k) \/ StopTot(k) \/ Join(k) \/ Free(k)
  \/ InitRead(k) \/ InitLock(k) \/ InitNotify(k) \/ InitInc(k)

-----------------------------------------------------------------------------
(* prot_thread_main *)

ThreadAt(g, p) == thread[g] = p

ThreadGoes(g, p) == thread' = [thread EXCEPT ![g] = p]

Case(g, s) == ThreadAt(g, "top") /\ rp[g].state = s

IncLock(g) ==
  /\ Case(g, "INC") /\ LockFree(g)
  /\ ThreadGoes(g, "incRun")
  /\ UNCHANGED <<agreement, rp, inc, tot, caller, replica, overlap, requests>>

(* repl5_inc_run forgets a stop that came before it.                       *)
IncRun(g) ==
  /\ ThreadAt(g, "incRun")
  /\ inc' = [inc EXCEPT ![g].stopped = FALSE, ![g].terminate = FALSE]
  /\ ThreadGoes(g, "incStart")
  /\ UNCHANGED <<agreement, rp, tot, caller, replica, overlap, requests>>

(* PROTOCOL_IS_SHUTDOWN *)
IsShutdown(g) == inc[g].shutdown \/ inc[g].terminate

(* The test for a shutdown, in STATE_START and in the states after it: the *)
(* bit is taken back when it is found.                                     *)
IncShutdown(g) ==
  /\ thread[g] \in {"incStart", "incLoop", "incFatal"} /\ IsShutdown(g)
  /\ inc' = [inc EXCEPT ![g].shutdown = FALSE]
  /\ ThreadGoes(g, "incEnd")
  /\ UNCHANGED <<agreement, rp, tot, caller, replica, overlap, requests>>

IncStart(g) ==
  /\ ThreadAt(g, "incStart") /\ ~IsShutdown(g)
  /\ ThreadGoes(g, "incReset")
  /\ UNCHANGED <<agreement, rp, inc, tot, caller, replica, overlap, requests>>

(* reset_events at the end of STATE_START                                  *)
IncReset(g) ==
  /\ ThreadAt(g, "incReset")
  /\ inc' = [inc EXCEPT ![g].shutdown = FALSE]
  /\ ThreadGoes(g, "incLoop")
  /\ UNCHANGED <<agreement, rp, tot, caller, replica, overlap, requests>>

(* The protocol goes back to STATE_START, or meets a fatal error.          *)
IncGoesOn(g) ==
  /\ ThreadAt(g, "incLoop") /\ ~IsShutdown(g)
  /\ \E p \in {"incStart", "incFatal"} : ThreadGoes(g, p)
  /\ UNCHANGED <<agreement, rp, inc, tot, caller, replica, overlap, requests>>

(* STATE_STOP_FATAL_ERROR_PART2: EVENT_AGMT_CHANGED leads to               *)
(* STATE_STOP_NORMAL_TERMINATION; the other events are going to be cleared.*)
IncFatal(g) ==
  /\ ThreadAt(g, "incFatal") /\ ~IsShutdown(g)
  /\ \E p \in {"incFatalReset", "incLeave"} : ThreadGoes(g, p)
  /\ UNCHANGED <<agreement, rp, inc, tot, caller, replica, overlap, requests>>

(* Its reset_events, whatever has come since the test for a shutdown       *)
IncFatalReset(g) ==
  /\ ThreadAt(g, "incFatalReset")
  /\ inc' = [inc EXCEPT ![g].shutdown = FALSE]
  /\ ThreadGoes(g, "incFatalSleep")
  /\ UNCHANGED <<agreement, rp, tot, caller, replica, overlap, requests>>

(* Its protocol_sleep(0) ends: at once when there is an event, and else    *)
(* when one comes, if one does.                                            *)
IncWakes(g) ==
  /\ thread[g] \in IncAsleep
  /\ ThreadGoes(g, IF thread[g] = "incLeave" THEN "incEnd" ELSE "incFatal")
  /\ UNCHANGED <<agreement, rp, inc, tot, caller, replica, overlap, requests>>

IncEnd(g) ==
  /\ ThreadAt(g, "incEnd")
  /\ inc' = [inc EXCEPT ![g].stopped = TRUE]
  /\ ThreadGoes(g, "after")
  /\ UNCHANGED <<agreement, rp, tot, caller, replica, overlap, requests>>

(* A total update that is being received is tested for ...                 *)
TotTest(g) ==
  /\ Case(g, "TOTAL")
  /\ ThreadGoes(g, IF "EXCL_RECV" \in flags THEN "after" ELSE "totMark")
  /\ UNCHANGED <<agreement, rp, inc, tot, caller, replica, overlap, requests>>

(* ... before the one that is sent is marked.                              *)
TotMark(g) ==
  /\ ThreadAt(g, "totMark")
  /\ flags' = flags \cup {"EXCL_SEND"}
  /\ ThreadGoes(g, "totLock")
  /\ UNCHANGED <<agreement, rp, inc, tot, caller, receiving, overlap, requests>>

TotLock(g) ==
  /\ ThreadAt(g, "totLock") /\ LockFree(g)
  /\ rp' = [rp EXCEPT ![g].next = "INC"]
  /\ ThreadGoes(g, "totRun")
  /\ UNCHANGED <<agreement, inc, tot, caller, replica, overlap, requests>>

(* repl5_tot_run *)
TotRun(g) ==
  /\ ThreadAt(g, "totRun")
  /\ tot' = [tot EXCEPT ![g].stopped = FALSE]
  /\ ThreadGoes(g, IF tot[g].terminate THEN "totEnd" ELSE "totSend")
  /\ UNCHANGED <<agreement, rp, inc, caller, replica, overlap, requests>>

(* It is complete, has failed, or has noticed terminate.                   *)
TotSend(g) ==
  /\ ThreadAt(g, "totSend")
  /\ ThreadGoes(g, "totEnd")
  /\ UNCHANGED <<agreement, rp, inc, tot, caller, replica, overlap, requests>>

TotEnd(g) ==
  /\ ThreadAt(g, "totEnd")
  /\ tot' = [tot EXCEPT ![g].stopped = TRUE]
  /\ ThreadGoes(g, "totClear")
  /\ UNCHANGED <<agreement, rp, inc, caller, replica, overlap, requests>>

(* Mutant: the mark stays when the update was told to stop.                *)
TotClearUnlessStopped(g) ==
  /\ ThreadAt(g, "totClear")
  /\ flags' = IF tot[g].terminate THEN flags ELSE flags \ {"EXCL_SEND"}
  /\ ThreadGoes(g, "after")
  /\ UNCHANGED <<agreement, rp, inc, tot, caller, receiving, overlap, requests>>

(* agmt_replica_init_done; the mark is the replica's, whichever agreement  *)
(* has set it.                                                             *)
TotClear(g) ==
  /\ ThreadAt(g, "totClear")
  /\ flags' = flags \ {"EXCL_SEND"}
  /\ ThreadGoes(g, "after")
  /\ UNCHANGED <<agreement, rp, inc, tot, caller, receiving, overlap, requests>>

Finished(g) ==
  /\ Case(g, "FINISHED")
  /\ ThreadGoes(g, "ended")
  /\ UNCHANGED <<agreement, rp, inc, tot, caller, replica, overlap, requests>>

(* Mutant: the thread only looks for a total update.                       *)
AfterIgnoresStop(g) ==
  /\ ThreadAt(g, "after")
  /\ rp' = [rp EXCEPT ![g].state = IF rp[g].next = "TOTAL" THEN "TOTAL" ELSE "INC"]
  /\ ThreadGoes(g, "top")
  /\ UNCHANGED <<agreement, inc, tot, caller, replica, overlap, requests>>

(* Mutant: a request is forgotten when it is read, not when it is met.     *)
AfterConsumes(g) ==
  /\ ThreadAt(g, "after")
  /\ rp' = [rp EXCEPT ![g].state = rp[g].next, ![g].next = "INC"]
  /\ ThreadGoes(g, "top")
  /\ UNCHANGED <<agreement, inc, tot, caller, replica, overlap, requests>>

(* The next state is read without the lock.                                *)
After(g) ==
  /\ ThreadAt(g, "after")
  /\ rp' = IF protocol[g] THEN [rp EXCEPT ![g].state = rp[g].next] ELSE rp
  /\ ThreadGoes(g, IF protocol[g] THEN "top" ELSE "ended")
  /\ UNCHANGED <<agreement, inc, tot, caller, replica, overlap, requests>>

ThreadStep(g) ==
  \/ IncLock(g) \/ IncRun(g) \/ IncShutdown(g) \/ IncStart(g) \/ IncReset(g) \/ IncEnd(g)
  \/ IncFatal(g) \/ IncFatalReset(g) \/ (inc[g].shutdown /\ IncWakes(g))
  \/ TotTest(g) \/ TotMark(g) \/ TotLock(g) \/ TotRun(g) \/ TotSend(g) \/ TotEnd(g)
  \/ TotClear(g) \/ Finished(g) \/ After(g)

-----------------------------------------------------------------------------
(* The Start of a total update from another supplier: it tests both marks, *)
(* sets its own, and takes it back when it answers (repl_extop.c).         *)

RecvTest ==
  /\ receiving = "no" /\ flags = {}
  /\ requests < MaxRequests /\ requests' = requests + 1
  /\ receiving' = "tested"
  /\ UNCHANGED <<agreement, rp, inc, tot, thread, caller, flags, overlap>>

RecvMark ==
  /\ receiving = "tested"
  /\ flags' = flags \cup {"EXCL_RECV"}
  /\ receiving' = "marked"
  /\ UNCHANGED <<agreement, rp, inc, tot, thread, caller, overlap, requests>>

RecvReply ==
  /\ receiving = "marked"
  /\ flags' = flags \ {"EXCL_RECV"}
  /\ receiving' = "no"
  /\ UNCHANGED <<agreement, rp, inc, tot, thread, caller, overlap, requests>>

-----------------------------------------------------------------------------
(* Specification *)

Next ==
  \/ \E k \in Callers, g \in Agmts : AgmtStart(k, g) \/ AgmtStop(k, g) \/ AgmtInitialize(k, g)
  \/ \E k \in Callers : CallerStep(k)
  \/ \E g \in Agmts : ThreadStep(g) \/ IncGoesOn(g) \/ IncWakes(g)
  \/ RecvTest \/ RecvMark \/ RecvReply

Spec == Init /\ [][Next]_vars

(* Threads are scheduled, and the waits of a stop and of a session have a  *)
(* limit; an event other than a shutdown may never come to a sleeping one. *)
Fairness ==
  /\ \A k \in Callers : WF_vars(CallerStep(k))
  /\ \A g \in Agmts : WF_vars(ThreadStep(g))
  /\ WF_vars(RecvMark \/ RecvReply)

FairSpec == Spec /\ Fairness

-----------------------------------------------------------------------------
(* Properties *)

(* The types of the agreements, ...                                        *)
AgmtTypeOK ==
  /\ protocol \in [Agmts -> BOOLEAN]
  /\ stopping \in [Agmts -> BOOLEAN]
  /\ autoInit \in [Agmts -> BOOLEAN]

(* ... of their protocol objects ...                                       *)
ObjectTypeOK ==
  /\ rp \in [Agmts -> [lock : Callers \cup {NoOne}, state : ProtStates, next : ProtStates]]
  /\ inc \in [Agmts -> [stopped : BOOLEAN, terminate : BOOLEAN, shutdown : BOOLEAN]]
  /\ tot \in [Agmts -> [stopped : BOOLEAN, terminate : BOOLEAN]]

(* ... and of the threads and the replica.                                 *)
WhereTypeOK ==
  /\ thread \in [Agmts -> ThreadPcs]
  /\ caller \in [Callers -> [pc : CallerPcs, agmt : Agmts]]
  /\ flags \subseteq {"EXCL_SEND", "EXCL_RECV"}
  /\ receiving \in {"no", "tested", "marked"}
  /\ overlap \subseteq Agmts
  /\ requests \in 0..MaxRequests

(* Every variable stays within its type.                                   *)
TypeOK == AgmtTypeOK /\ ObjectTypeOK /\ WhereTypeOK

(* agmt_stop frees a protocol object only when its thread has ended and no *)
(* other request is about to use it: what the comment "dangerous?" in      *)
(* agmt_stop asks, with several threads that start, stop and initialise.   *)
(* Two overlaps break it, and nothing else does: an agmt_start during an   *)
(* agmt_stop that has found no protocol, and an agmt_stop between the test *)
(* and the use of the protocol in agmt_initialize_replica.                 *)
NoUseAfterFree ==
  \A g \in Agmts \ overlap : ~protocol[g] =>
    /\ ~Alive(g)
    /\ \A k \in Callers : caller[k].agmt = g => caller[k].pc \in {"idle", "free", "initRead"}

(* REPLICA_TOTAL_EXCL_SEND is set only while some agreement performs a     *)
(* total update: however one is stopped, the replica can be initialised    *)
(* afterwards, unless a protocol object was freed in use.                  *)
SendNotLeaked ==
  "EXCL_SEND" \in flags => \E g \in Agmts : thread[g] \in TotMarked \/ g \in overlap

(* The lock of a protocol object, which every update of a client takes to  *)
(* notify the agreement, is let go of again although prot_stop and         *)
(* prot_initialize_replica wait for the protocols while they hold it.      *)
LockReleased == \A g \in Agmts : rp[g].lock # NoOne ~> rp[g].lock = NoOne

(* The running incremental protocol has been told to end, and what the     *)
(* thread is to do next is s.  Left out is a thread in the fatal state     *)
(* between its test for a shutdown and the end of its reset_events: what   *)
(* comes there is forgotten, and the thread sleeps on (as                  *)
(* IncProtocol!StopEnds says of the same state).                           *)
ToldTo(g, s) ==
  /\ rp[g].next = s /\ inc[g].terminate
  /\ \/ thread[g] \in {"incStart", "incReset", "incLoop", "incFatal"}
     \/ thread[g] \in IncAsleep /\ inc[g].shutdown

(* A stop that reaches the running protocol ends the thread, also when it  *)
(* comes to a thread that sleeps in the fatal state.                       *)
ShutdownFollowed ==
  \A g \in Agmts : ToldTo(g, "FINISHED") ~> ~Alive(g) \/ g \in overlap

(* A request to initialise that reaches the running protocol leads to a    *)
(* total update, unless the agreement is stopped.                          *)
InitializeFollowed ==
  \A g \in Agmts : ToldTo(g, "TOTAL") ~> thread[g] = "totSend" \/ stopping[g] \/ g \in overlap

(* Whatever the thread is doing, a shutdown leads to STATE_FINISHED, as    *)
(* the table of prot_thread_main says: PR_JoinThread returns.              *)
StopEnds == \A k \in Callers : CallerAt(k, "join") ~> CallerAt(k, "free")
=============================================================================
