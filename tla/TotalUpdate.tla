----------------------------- MODULE TotalUpdate -----------------------------
(***************************************************************************)
(* A total update of one consumer (repl5_tot_protocol.c): repl5_tot_run    *)
(* sends the entries without waiting for their results, a second thread    *)
(* reads the results, and both share cb_data and the connection            *)
(* (repl5_connection.c).  The consumer imports the entries in the order    *)
(* they are sent (repl5_total.c) and goes online at the End request.       *)
(*                                                                         *)
(* A backend is online again only when its import succeeds.  End does that *)
(* ("online"), but so does the destructor of replication's data of a       *)
(* connection that was lost, with the entries that had come; there the     *)
(* replica keeps its received-total mark, and its agreements stay stopped  *)
(* ("unfinished").                                                         *)
(*                                                                         *)
(* Entries and their results are numbered: a connection keeps their order. *)
(* The message identifiers of the code are those numbers.  Left out: the   *)
(* schema push, flow control, which only slows the sender down, and        *)
(* consumers of release 5.0, whose results are read one by one.  What the  *)
(* Start request does on the consumer is in ConsumerSession.               *)
(***************************************************************************)
EXTENDS Integers

CONSTANTS
  Entries,      \* number of entries of the suffix, the suffix included
  MaxRetry,     \* INIT_RETRY_MAX
  Stops,        \* the agreement may be stopped
  Faults,       \* the network may fail, and the consumer may fail to import
  SendFails     \* an entry may not be sent for a reason of the supplier's own

ASSUME TotalAssumption ==
  /\ Entries \in Nat \ {0} /\ MaxRetry \in Nat
  /\ Stops \in BOOLEAN /\ Faults \in BOOLEAN /\ SendFails \in BOOLEAN

VARIABLES
  pc,           \* where repl5_tot_run is
  retry,        \* init_retry
  terminate,    \* prp->terminate
  rc,           \* cb_data.rc
  abort,        \* cb_data.abort
  stop,         \* cb_data.stop_result_thread
  reader,       \* the result thread
  sent,         \* last_message_id_sent
  received,     \* last_message_id_received
  status,       \* the status of the last initialisation
  up,           \* conn->state on the supplier
  cut,          \* the network has failed
  ended,        \* the End request has been sent
  imported,     \* entries the consumer has imported, and answered
  consumer      \* the import: "free", "importing", "online", "unfinished", "aborted"

sender == <<pc, retry, status>>
shared == <<terminate, rc, abort, stop>>
messages == <<sent, received, ended>>
remote == <<imported, consumer>>
vars == <<sender, shared, reader, messages, up, cut, remote>>

SenderPcs == {"acquire", "acquired", "test", "push", "result", "wait", "stop",
              "join", "release", "report", "leave", "done"}

Init ==
  /\ pc = "acquire" /\ retry = 0 /\ status = "none"
  /\ terminate = FALSE /\ rc = "ok" /\ abort = FALSE /\ stop = FALSE
  /\ reader = "none"
  /\ sent = 0 /\ received = 0 /\ ended = FALSE
  /\ up = TRUE /\ cut = FALSE
  /\ imported = 0 /\ consumer = "free"

-----------------------------------------------------------------------------
(* repl5_tot_run *)

(* acquire_replica succeeds: the consumer takes its backend offline.       *)
AcquireSuccess ==
  /\ pc = "acquire" /\ up /\ ~cut
  /\ consumer' = "importing"
  /\ pc' = "acquired"
  /\ UNCHANGED <<retry, status, shared, reader, messages, up, cut, imported>>

(* Mutant: one retry too many.                                             *)
AcquireFailsAgain ==
  /\ pc = "acquire"
  /\ \/ retry <= MaxRetry /\ retry' = retry + 1 /\ UNCHANGED <<pc, status>>
     \/ pc' = "leave" /\ status' = "not acquired" /\ UNCHANGED retry
  /\ UNCHANGED <<shared, reader, messages, up, cut, remote>>

(* It fails: a transient error is retried.                                 *)
AcquireFails ==
  /\ pc = "acquire"
  /\ \/ retry < MaxRetry /\ retry' = retry + 1 /\ UNCHANGED <<pc, status>>
     \/ pc' = "leave" /\ status' = "not acquired" /\ UNCHANGED retry
  /\ UNCHANGED <<shared, reader, messages, up, cut, remote>>

Acquired ==
  /\ pc = "acquired"
  /\ pc' = IF terminate THEN "leave" ELSE "test"
  /\ up' = (up /\ ~terminate)
  /\ UNCHANGED <<retry, status, shared, reader, messages, cut, remote>>

(* The callback of the search for an entry that was not sent abandons the  *)
(* search, which ends without a result.  The suffix is sent before it, and *)
(* before there is a result thread.                                        *)
Failed == pc' = IF reader = "none" THEN "leave" ELSE "stop"

(* Mutant: the connection stays.                                           *)
CutShortStays ==
  /\ pc = "test" /\ (terminate \/ abort)
  /\ rc' = "failed"
  /\ Failed
  /\ UNCHANGED <<retry, status, terminate, abort, stop, reader, messages, up, cut, remote>>

(* send_entry is told to stop, or that a result was an error.              *)
CutShort ==
  /\ pc = "test" /\ (terminate \/ abort)
  /\ up' = FALSE /\ rc' = "failed"
  /\ Failed
  /\ UNCHANGED <<retry, status, terminate, abort, stop, reader, messages, cut, remote>>

NotCutShort ==
  /\ pc = "test" /\ ~terminate /\ ~abort
  /\ pc' = "push"
  /\ UNCHANGED <<retry, status, shared, reader, messages, up, cut, remote>>

(* The entry is written to the connection.  The result thread is created   *)
(* after the first.                                                        *)
Push ==
  /\ pc = "push" /\ up
  /\ sent' = sent + 1 /\ rc' = "ok"
  /\ reader' = IF reader = "none" THEN "reading" ELSE reader
  /\ pc' = IF sent' = Entries THEN "result" ELSE "test"
  /\ UNCHANGED <<retry, status, terminate, abort, stop, received, ended, up, cut, remote>>

(* There is no connection, or the write finds that there is none any more. *)
PushLost ==
  /\ pc = "push" /\ (~up \/ cut \/ consumer = "aborted")
  /\ up' = FALSE /\ rc' = "lost"
  /\ Failed
  /\ UNCHANGED <<retry, status, terminate, abort, stop, reader, messages, cut, remote>>

(* The entry cannot be encoded, the connection is not writable within its  *)
(* timeout, or the search itself fails: the connection stays.              *)
PushFails ==
  /\ SendFails /\ pc = "push"
  /\ rc' = "unsent"
  /\ Failed
  /\ UNCHANGED <<retry, status, terminate, abort, stop, reader, messages, up, cut, remote>>

(* get_result: the search is complete.                                     *)
GetResult ==
  /\ pc = "result"
  /\ rc' = "ok"
  /\ pc' = "wait"
  /\ UNCHANGED <<retry, status, terminate, abort, stop, reader, messages, up, cut, remote>>

(* Mutant: there is no limit to the wait.                                  *)
WaitedEnough == received >= sent \/ (abort /\ rc = "lost")

(* repl5_tot_waitfor_async_results: all results are there, the connection  *)
(* is lost, or there was no progress for 30 seconds.                       *)
WaitOver == TRUE

(* It is not called after a failure.                                       *)
Wait ==
  /\ pc = "wait" /\ (rc # "ok" \/ WaitOver)
  /\ pc' = "stop"
  /\ UNCHANGED <<retry, status, shared, reader, messages, up, cut, remote>>

(* repl5_tot_destroy_async_result_thread                                   *)
StopReader ==
  /\ pc = "stop"
  /\ stop' = TRUE
  /\ pc' = "join"
  /\ UNCHANGED <<retry, status, terminate, rc, abort, reader, messages, up, cut, remote>>

Join ==
  /\ pc = "join" /\ reader = "done"
  /\ pc' = "release"
  /\ UNCHANGED <<retry, status, shared, reader, messages, up, cut, remote>>

(* release_replica, whatever the outcome: End is sent if it can be, and    *)
(* its answer waited for, which nothing depends on.                        *)
Release ==
  /\ pc = "release"
  /\ \/ up /\ ended' = TRUE /\ UNCHANGED up
     \/ (~up \/ cut \/ consumer = "aborted") /\ up' = FALSE /\ UNCHANGED ended
  /\ pc' = "report"
  /\ UNCHANGED <<retry, status, shared, reader, sent, received, cut, remote>>

(* Mutant: the update is reported as aborted when a result is missing.     *)
ReportMissing ==
  /\ pc = "report"
  /\ status' = IF received < sent THEN "aborted" ELSE "succeeded"
  /\ pc' = "leave"
  /\ UNCHANGED <<retry, shared, reader, messages, up, cut, remote>>

Report ==
  /\ pc = "report"
  /\ status' = IF rc = "ok" THEN "succeeded" ELSE "aborted"
  /\ pc' = "leave"
  /\ UNCHANGED <<retry, shared, reader, messages, up, cut, remote>>

(* Mutant: the next protocol keeps the connection.                         *)
LeaveConnected ==
  /\ pc = "leave"
  /\ pc' = "done"
  /\ UNCHANGED <<retry, status, shared, reader, messages, up, cut, remote>>

(* The thread leaves repl5_tot_run.  repl5_inc_run begins and ends with    *)
(* conn_disconnect, and freeing the protocol object closes the connection. *)
Leave ==
  /\ pc = "leave"
  /\ up' = FALSE
  /\ pc' = "done"
  /\ UNCHANGED <<retry, status, shared, reader, messages, cut, remote>>

RunStep ==
  \/ AcquireSuccess \/ AcquireFails \/ Acquired \/ CutShort \/ NotCutShort
  \/ Push \/ PushLost \/ PushFails \/ GetResult \/ Wait \/ StopReader \/ Join
  \/ Release \/ Report \/ Leave

(* repl5_tot_stop; when the protocol does not stop in time it closes the   *)
(* connection.                                                             *)
StopRequest ==
  /\ Stops /\ ~terminate
  /\ terminate' = TRUE
  /\ UNCHANGED <<sender, rc, abort, stop, reader, messages, up, cut, remote>>

StopTimesOut ==
  /\ terminate /\ up /\ pc # "done"
  /\ up' = FALSE
  /\ UNCHANGED <<sender, shared, reader, messages, cut, remote>>

-----------------------------------------------------------------------------
(* repl5_tot_result_threadmain *)

ReaderEnds == reader' = IF stop THEN "done" ELSE "reading"

ReadResult ==
  /\ reader = "reading" /\ up /\ received < imported
  /\ received' = received + 1
  /\ ReaderEnds
  /\ UNCHANGED <<sender, shared, sent, ended, up, cut, remote>>

(* There is no connection, or there is none any more.                      *)
ReadLost ==
  /\ reader = "reading" /\ (~up \/ cut \/ consumer = "aborted")
  /\ up' = FALSE
  /\ abort' = TRUE /\ rc' = "lost"
  /\ reader' = "done"
  /\ UNCHANGED <<sender, terminate, stop, messages, cut, remote>>

(* No result has come within the timeout of the connection.                *)
ReadTimeout ==
  /\ reader = "reading" /\ ~stop /\ ~abort
  /\ abort' = TRUE
  /\ ReaderEnds
  /\ UNCHANGED <<sender, terminate, rc, stop, messages, up, cut, remote>>

(* There is nothing to read, and the thread is to stop.                    *)
ReaderStops ==
  /\ reader = "reading" /\ stop
  /\ reader' = "done"
  /\ UNCHANGED <<sender, shared, messages, up, cut, remote>>

ReaderStep == ReadResult \/ ReadLost \/ ReaderStops

-----------------------------------------------------------------------------
(* The consumer and the network *)

(* multisupplier_extop_NSDS50ReplicationEntry                              *)
Import ==
  /\ consumer = "importing" /\ ~cut /\ imported < sent
  /\ imported' = imported + 1
  /\ UNCHANGED <<sender, shared, reader, messages, up, cut, consumer>>

(* The import of an entry fails: the connection is closed and no result is *)
(* sent.                                                                   *)
ImportFails ==
  /\ Faults /\ consumer = "importing" /\ imported < sent
  /\ consumer' = "aborted"
  /\ UNCHANGED <<sender, shared, reader, messages, up, cut, imported>>

(* The End request, which comes after all entries that were sent.  The     *)
(* import may fail while it is brought to its end, which End does not say. *)
ImportEnds ==
  /\ consumer = "importing" /\ ~cut /\ ended /\ imported = sent
  /\ \/ consumer' = "online"
     \/ Faults /\ consumer' = "aborted"
  /\ UNCHANGED <<sender, shared, reader, messages, up, cut, imported>>

(* The connection is gone, and what hangs on it is destroyed, in the order *)
(* in which the plugins registered.  The destructor of replication ends    *)
(* the import as if it was complete; when the one of the database comes    *)
(* first, or the import fails, it is aborted and the backend stays offline.*)
ConsumerCloses ==
  /\ consumer = "importing" /\ (~up \/ cut)
  /\ consumer' \in {"unfinished", "aborted"}
  /\ UNCHANGED <<sender, shared, reader, messages, up, cut, imported>>

NetworkFails ==
  /\ Faults /\ ~cut
  /\ cut' = TRUE
  /\ UNCHANGED <<sender, shared, reader, messages, up, remote>>

-----------------------------------------------------------------------------
(* Specification *)

Next ==
  \/ RunStep \/ StopRequest \/ StopTimesOut
  \/ ReaderStep \/ ReadTimeout
  \/ Import \/ ImportFails \/ ImportEnds \/ ConsumerCloses \/ NetworkFails

Spec == Init /\ [][Next]_vars

(* The two threads are scheduled, the consumer works, and it notices in    *)
(* the end that a connection is gone.                                      *)
Fairness ==
  /\ WF_vars(RunStep) /\ WF_vars(ReaderStep)
  /\ WF_vars(Import) /\ WF_vars(ImportEnds) /\ WF_vars(ConsumerCloses)

FairSpec == Spec /\ Fairness

-----------------------------------------------------------------------------
(* Properties *)

(* The types of the states of the threads, ...                             *)
StateTypeOK ==
  /\ pc \in SenderPcs
  /\ rc \in {"ok", "failed", "lost", "unsent"}
  /\ reader \in {"none", "reading", "done"}
  /\ status \in {"none", "not acquired", "succeeded", "aborted"}
  /\ consumer \in {"free", "importing", "online", "unfinished", "aborted"}

(* ... of the flags ...                                                    *)
FlagTypeOK ==
  /\ terminate \in BOOLEAN /\ abort \in BOOLEAN /\ stop \in BOOLEAN
  /\ up \in BOOLEAN /\ cut \in BOOLEAN /\ ended \in BOOLEAN

(* ... and of the counters.                                                *)
CountTypeOK ==
  /\ retry \in 0..MaxRetry
  /\ sent \in 0..Entries /\ imported \in 0..sent /\ received \in 0..imported

(* Every variable stays within its type, and results follow entries.       *)
TypeOK == StateTypeOK /\ FlagTypeOK /\ CountTypeOK

(* A consumer that End puts back into service has the whole suffix unless  *)
(* the supplier failed to send an entry: an update that is cut short by a  *)
(* stop or by an error that the results bring closes the connection before *)
(* release_replica can send End.  A part may be online too, but only as    *)
(* "unfinished", without agreements that would supply it to others.        *)
EndedIsWhole == consumer = "online" /\ rc # "unsent" => imported = Entries

(* An update reported as aborted has not put the consumer back into        *)
(* service with the whole suffix: the threads that write cb_data.rc agree  *)
(* with what End did.  Only when the connection is lost may the backend    *)
(* hold the whole suffix all the same, and then the update is unfinished.  *)
AbortedIsHonest ==
  status = "aborted" /\ imported = Entries =>
    \/ consumer \in {"importing", "aborted"}
    \/ consumer = "unfinished" /\ (~up \/ cut)

(* repl5_tot_run ends: neither the wait for results nor the join of the    *)
(* result thread lasts for ever, whatever the consumer does.               *)
RunEnds == <>(pc = "done")

(* However the update ends, the consumer does not stay offline waiting for *)
(* more: the import is brought to an end, or given up.                     *)
ConsumerSettles ==
  consumer = "importing" ~> consumer \in {"online", "unfinished", "aborted"}
=============================================================================
