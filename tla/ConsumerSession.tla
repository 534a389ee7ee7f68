-------------------------- MODULE ConsumerSession --------------------------
(***************************************************************************)
(* The replication sessions of one replica on the consumer: the Start and  *)
(* End extended operations (repl_extop.c), exclusive access to the replica *)
(* and the state flags (repl5_replica.c), the extension of an incoming     *)
(* connection and its destructor (repl_connext.c), the updates and entries *)
(* received (repl5_plugins.c, repl5_total.c), the bulk import that takes   *)
(* the backend offline and online again (back-ldbm, mapping_tree.c), and   *)
(* the order in which the operations of a connection are read              *)
(* (slapd/connection.c).                                                   *)
(*                                                                         *)
(* Several connections run several operations at a time, each in a worker  *)
(* thread.  A step is one critical section of the replica's or of the      *)
(* extension's lock, with the accesses to the extension next to it.        *)
(*                                                                         *)
(* The supplier behind a connection is an environment: it waits for the    *)
(* answer to Start, may give up and send Start again, sends its updates    *)
(* without waiting for their results, and sends End or closes.             *)
(* repl5_inc_run begins and ends with conn_disconnect, so a connection is  *)
(* used for one of the protocols only.  Data, referrals and the values of  *)
(* the RUVs are left out.                                                  *)
(***************************************************************************)
EXTENDS Integers, FiniteSets

CONSTANTS
  Conns,            \* incoming connections; an identifier is never reused
  MaxRequests,      \* bound on the Start requests and the imports of tasks
  Kinds,            \* the sessions of suppliers: "inc", "total"; "task": imports
  Timeouts,         \* a supplier may stop waiting for the answer to Start
  Overlap,          \* and send Start again before the handler has returned
  ReleaseTimeout    \* nsds5ReplicaReleaseTimeout is not zero

ASSUME SessionAssumption ==
  /\ MaxRequests \in Nat
  /\ Kinds \subseteq {"inc", "total", "task"}
  /\ Timeouts \in BOOLEAN /\ Overlap \in BOOLEAN
  /\ ReleaseTimeout \in BOOLEAN
  /\ Conns \cap {"server", "nobody", "task"} = {}

VARIABLES
  flags,        \* repl_state_flags
  locker,       \* locking_conn; "server" stands for connid 0
  abort,        \* abort_session: "acquired", "ask" or "sent"
  reapStop,     \* tombstone_reap_stop
  enabled,      \* the agreements run and the RUV is kept (replica_set_enabled)
  offline,      \* the backend is offline (SLAPI_BE_STATE_OFFLINE)
  partial,      \* the data is what an import that did not finish has left
  import,       \* who has the instance busy (INST_FLAG_BUSY)
  task,         \* the administrator's import: where it is
  ext,          \* consumer_connection_extension of a connection
  flagged,      \* c_isreplication_session of a connection
  conn,         \* the connection: "open", "closing", "destroying", "gone"
  op,           \* the operations in the worker threads
  sup,          \* the supplier behind a connection
  requests,     \* Start requests and tasks so far
  upset         \* history: connections whose session was undone by another,
                \* by a second Start or by a session plug-in

replica == <<flags, locker, abort>>
data == <<reapStop, enabled, offline, partial>>
backend == <<import, task>>
vars == <<replica, data, backend, ext, flagged, conn, op, sup, requests, upset>>

Slots == {1, 2}
NoSlot == 0
Flags == {"IN_USE", "INC", "TOTAL", "TOTAL_EXCL_RECV"}

StartPcs == {"start", "mark", "acquire", "begin", "disable", "reply", "cleanup"}
EndPcs == {"end", "stop", "install", "release"}
Pcs == {"free", "update", "entry"} \cup StartPcs \cup EndPcs

Idle == [pc |-> "free", kind |-> "inc", resp |-> "ERROR", connext |-> FALSE,
         replica |-> FALSE, serial |-> FALSE, replicated |-> FALSE]

NewExt == [version |-> "unknown", acquired |-> FALSE, session |-> FALSE,
           user |-> NoSlot]

Init ==
  /\ flags = {} /\ locker = "server" /\ abort = "acquired"
  /\ reapStop = FALSE /\ enabled = TRUE /\ offline = FALSE /\ partial = FALSE
  /\ import = "nobody" /\ task = "none"
  /\ ext = [c \in Conns |-> NewExt]
  /\ flagged = [c \in Conns |-> FALSE]
  /\ conn = [c \in Conns |-> "open"]
  /\ op = [c \in Conns |-> [o \in Slots |-> Idle]]
  /\ sup = [c \in Conns |-> [st |-> "idle", slot |-> NoSlot, kind |-> "none", told |-> FALSE]]
  /\ requests = 0
  /\ upset = {}

-----------------------------------------------------------------------------
(* Exclusive access to the replica *)

(* Mutant: the lock is not tested.                                         *)
InUseNever == FALSE

(* REPLICA_IN_USE *)
InUse == "IN_USE" \in flags

(* replica_get_exclusive_access finds the replica free.                    *)
Take(who, kindFlag) ==
  /\ ~InUse
  /\ flags' = flags \cup {"IN_USE"} \cup kindFlag
  /\ locker' = who /\ abort' = "acquired"

(* It is in use, by another: the holder of an incremental session is asked *)
(* to yield when a release timeout is configured.                          *)
Refused(who) ==
  /\ InUse /\ ("TOTAL" \in flags \/ locker # who)
  /\ abort' = IF "TOTAL" \notin flags /\ ReleaseTimeout THEN "ask" ELSE abort
  /\ UNCHANGED <<flags, locker>>

(* A second acquisition from the same connection succeeds.                 *)
TakeAgain(who) ==
  /\ InUse /\ "TOTAL" \notin flags /\ locker = who
  /\ UNCHANGED replica

(* replica_relinquish_exclusive_access: whoever holds the replica loses    *)
(* it.  The session of another connection is undone.                       *)
Freed == IF InUse THEN flags \ {"IN_USE", IF "INC" \in flags THEN "INC" ELSE "TOTAL"}
                  ELSE flags

Robbed(c) == IF InUse /\ locker \notin {c, "server"} THEN {locker} ELSE {}

(* Mutant: the lock stays.                                                 *)
RelinquishNothing(c) ==
  /\ UNCHANGED <<flags, upset>>
  /\ UNCHANGED <<locker, abort>>

Relinquish(c) ==
  /\ flags' = Freed
  /\ upset' = upset \cup Robbed(c)
  /\ UNCHANGED <<locker, abort>>

(* slapi_mtn_be_disable takes the backend offline and calls                *)
(* replica_disable_replication, which waits for an incremental session to  *)
(* end, which it asks to yield, and goes on without the lock when the      *)
(* replica is in use otherwise.                                            *)
DisableWaits ==
  Refused("server") /\ "INC" \in flags /\ enabled' = FALSE /\ offline' = TRUE

DisableReplication ==
  /\ \/ Take("server", {})
     \/ TakeAgain("server")
     \/ Refused("server") /\ "INC" \notin flags
  /\ enabled' = FALSE /\ offline' = TRUE

(* Mutant: replication is enabled whatever the state of the data.          *)
EnableAlways(c) == Relinquish(c) /\ offline' = FALSE /\ enabled' = TRUE

(* slapi_mtn_be_enable, which only an import that succeeds calls, and      *)
(* replica_enable_replication: the agreements are started unless a total   *)
(* update is still marked as in progress.                                  *)
EnableReplication(c) ==
  /\ Relinquish(c)
  /\ offline' = FALSE
  /\ enabled' = (enabled \/ "TOTAL" \notin flags)

-----------------------------------------------------------------------------
(* Reading the operations of a connection *)

Free(c, o) == op[c][o].pc = "free"
Running(c) == {o \in Slots : ~Free(c, o)}

(* Mutant: the next operation is read while one of the session runs.       *)
ReadableAnyway(c, o) ==
  conn[c] = "open" /\ Free(c, o) /\ \A p \in Slots : p < o => ~Free(c, p)

(* An operation read in a replication session is finished before the next  *)
(* one is read; any other connection is readable again at once.            *)
Readable(c, o) ==
  /\ conn[c] = "open" /\ Free(c, o) /\ \A p \in Slots : p < o => ~Free(c, p)
  /\ \A p \in Running(c) : ~op[c][p].serial

(* The operation copies the flag of the extension when it is created.      *)
Read(c, o, pc, kind) ==
  op' = [op EXCEPT ![c][o] = [Idle EXCEPT !.pc = pc, !.kind = kind,
                                !.serial = flagged[c], !.replicated = ext[c].session]]

Go(c, o, pc) == op' = [op EXCEPT ![c][o].pc = pc]
Answer(c, o, resp) == op' = [op EXCEPT ![c][o].pc = "reply", ![c][o].resp = resp]
Return(c, o) == op' = [op EXCEPT ![c][o] = Idle]

(* slapi_disconnect_server *)
Disconnect(c) == conn' = [conn EXCEPT ![c] = IF @ = "open" THEN "closing" ELSE @]

-----------------------------------------------------------------------------
(* The supplier *)

SendStart(c, o, k) ==
  /\ Readable(c, o)
  /\ sup[c].st = "idle" /\ requests < MaxRequests
  /\ Running(c) # {} => Overlap
  /\ upset' = IF Running(c) # {} \/ (k = "total" /\ ext[c].acquired)
              THEN upset \cup {c} ELSE upset
  /\ sup[c].kind \in {"none", k}
  /\ requests' = requests + 1
  /\ sup' = [sup EXCEPT ![c] = [st |-> "starting", slot |-> o, kind |-> k, told |-> FALSE]]
  /\ Read(c, o, "start", k)
  /\ UNCHANGED <<replica, data, backend, ext, flagged, conn>>

(* conn_read_result times out: the connection is kept and used again.      *)
GiveUp(c) ==
  /\ Timeouts /\ sup[c].st = "starting"
  /\ sup' = [sup EXCEPT ![c].st = "idle"]
  /\ UNCHANGED <<replica, data, backend, ext, flagged, conn, op, requests, upset>>

SendChange(c, o) ==
  /\ Readable(c, o) /\ sup[c].st = "in" /\ ~sup[c].told
  /\ Read(c, o, IF sup[c].kind = "inc" THEN "update" ELSE "entry", sup[c].kind)
  /\ UNCHANGED <<replica, data, backend, ext, flagged, conn, sup, requests, upset>>

SendEnd(c, o) ==
  /\ Readable(c, o) /\ sup[c].st = "in"
  /\ sup' = [sup EXCEPT ![c].st = "ending", ![c].slot = o]
  /\ Read(c, o, "end", sup[c].kind)
  /\ UNCHANGED <<replica, data, backend, ext, flagged, conn, requests, upset>>

(* The supplier unbinds or the connection is lost.                         *)
Close(c) ==
  /\ conn[c] = "open"
  /\ Disconnect(c)
  /\ UNCHANGED <<replica, data, backend, ext, flagged, op, sup, requests, upset>>

(* The response reaches the supplier if it still waits for it.             *)
Deliver(c, o, st) ==
  sup' = IF conn[c] = "open" /\ sup[c].slot = o /\ sup[c].st \in {"starting", "ending"}
         THEN [sup EXCEPT ![c].st = st] ELSE sup

-----------------------------------------------------------------------------
(* multisupplier_extop_StartNSDS50ReplicationRequest *)

(* The extension is taken unless another Start or End of the connection    *)
(* has it; a request that cannot be decoded is answered without it.  A     *)
(* session hook or an unknown protocol refuses before the protocol is      *)
(* stored; a replica that does not exist or is being configured, or a      *)
(* total update that is starting, after it.                                *)
StartCheck(c, o) ==
  LET total == op[c][o].kind = "total"
      Taken == [ext EXCEPT ![c].user = o]
      Stored == [Taken EXCEPT ![c].version = op[c][o].kind]
      Continue(pc, resp, found) ==
        op' = [op EXCEPT ![c][o].pc = pc, ![c][o].resp = resp, ![c][o].connext = TRUE,
                         ![c][o].replica = found]
  IN
  /\ op[c][o].pc = "start"
  /\ \/ Answer(c, o, "ERROR") /\ UNCHANGED ext
     \/ ext[c].user # NoSlot /\ Answer(c, o, "BUSY") /\ UNCHANGED ext
     \/ /\ ext[c].user = NoSlot
        /\ \/ Continue("reply", "ERROR", FALSE) /\ ext' = Taken
           \/ Continue("reply", "BUSY", FALSE) /\ ext' = Stored
           \/ /\ total /\ "TOTAL_EXCL_RECV" \in flags
              /\ Continue("reply", "BUSY", TRUE) /\ ext' = Stored
           \/ /\ total => "TOTAL_EXCL_RECV" \notin flags
              /\ Continue(IF total THEN "mark" ELSE "acquire", "ERROR", TRUE) /\ ext' = Stored
  /\ UNCHANGED <<replica, data, backend, flagged, conn, sup, requests, upset>>

StartMark(c, o) ==
  /\ op[c][o].pc = "mark"
  /\ flags' = flags \cup {"TOTAL_EXCL_RECV"}
  /\ Go(c, o, "acquire")
  /\ UNCHANGED <<locker, abort, data, backend, ext, flagged, conn, sup, requests, upset>>

(* Permission, clock skew and the replica identifiers are checked first.   *)
StartAcquire(c, o) ==
  /\ op[c][o].pc = "acquire"
  /\ \/ Answer(c, o, "ERROR") /\ UNCHANGED <<replica, ext>>
     \/ Refused(c) /\ Answer(c, o, "BUSY") /\ UNCHANGED ext
     \/ /\ Take(c, {IF op[c][o].kind = "inc" THEN "INC" ELSE "TOTAL"}) \/ TakeAgain(c)
        /\ ext' = [ext EXCEPT ![c].acquired = TRUE]
        /\ Go(c, o, "begin")
  /\ UNCHANGED <<data, backend, flagged, conn, sup, requests, upset>>

(* The session is marked in the connection and in the extension.           *)
Ready(c, o) ==
  /\ Answer(c, o, "READY")
  /\ flagged' = [flagged EXCEPT ![c] = TRUE]
  /\ ext' = [ext EXCEPT ![c].session = TRUE]

(* An incremental session is ready; a total one stops the reaping of       *)
(* tombstones and starts the bulk import, which is refused while the       *)
(* instance is busy.                                                       *)
StartBegin(c, o) ==
  /\ op[c][o].pc = "begin"
  /\ \/ ext[c].version = "inc" /\ Ready(c, o) /\ UNCHANGED <<reapStop, import>>
     \/ /\ ext[c].version = "total" /\ import # "nobody"
        /\ reapStop' = TRUE
        /\ Answer(c, o, "ERROR") /\ UNCHANGED <<ext, flagged, import>>
     \/ /\ ext[c].version = "total" /\ import = "nobody"
        /\ reapStop' = TRUE /\ import' = c
        /\ Go(c, o, "disable") /\ UNCHANGED <<ext, flagged>>
     \/ /\ ext[c].version = "unknown"
        /\ Answer(c, o, "ERROR") /\ UNCHANGED <<ext, flagged, reapStop, import>>
  /\ UNCHANGED <<replica, enabled, offline, partial, task, conn, sup, requests, upset>>

(* The bulk import takes the backend offline and empties it.  When the     *)
(* instance or the import thread cannot be started it stays like that.     *)
StartDisable(c, o) ==
  /\ op[c][o].pc = "disable"
  /\ \/ DisableWaits /\ UNCHANGED <<partial, import, op, ext, flagged>>
     \/ DisableReplication /\ partial' = TRUE /\ Ready(c, o) /\ UNCHANGED import
     \/ /\ DisableReplication /\ partial' = TRUE /\ import' = "nobody"
        /\ Answer(c, o, "ERROR") /\ UNCHANGED <<ext, flagged>>
  /\ UNCHANGED <<reapStop, task, conn, sup, requests, upset>>

(* Mutant: the mark is removed only by a Start that succeeds.              *)
MarkedReady(c, o) ==
  op[c][o].replica /\ ext[c].version = "total" /\ op[c][o].resp = "READY"

(* The Start, answered, is one that may have marked a total update.        *)
Marked(c, o) ==
  op[c][o].connext /\ op[c][o].replica /\ ext[c].version = "total"

(* send_response: the mark of a total update is removed, tombstones may be *)
(* reaped again after a refusal, a session hook may turn the answer into a *)
(* refusal, and the extension is let go before the result is sent.         *)
StartReply(c, o) ==
  LET this == op[c][o]
  IN
  /\ this.pc = "reply"
  /\ flags' = IF Marked(c, o) THEN flags \ {"TOTAL_EXCL_RECV"} ELSE flags
  /\ reapStop' = (reapStop /\ ~(this.resp # "READY" /\ this.replica))
  /\ ext' = IF this.connext THEN [ext EXCEPT ![c].user = NoSlot] ELSE ext
  /\ \E resp \in {this.resp, "ERROR"} :
       /\ upset' = IF resp # this.resp /\ this.resp = "READY" THEN upset \cup {c} ELSE upset
       /\ Deliver(c, o, IF resp = "READY" THEN "in" ELSE "idle")
       /\ IF resp = "READY" THEN Return(c, o) ELSE Go(c, o, "cleanup")
  /\ UNCHANGED <<locker, abort, enabled, offline, partial, backend, flagged, conn, requests>>

(* A Start that was refused releases what its connection holds and removes *)
(* the flags of a session, once the supplier has its answer.  When another *)
(* Start of the connection has used the extension since, that is undone.   *)
StartCleanup(c, o) ==
  LET this == op[c][o]
      held == this.connext /\ ext[c].acquired
  IN
  /\ this.pc = "cleanup"
  /\ flags' = IF held /\ locker = c THEN Freed ELSE flags
  /\ IF held THEN Disconnect(c) ELSE UNCHANGED conn
  /\ ext' = IF this.connext
            THEN [ext EXCEPT ![c].version = "unknown", ![c].session = FALSE,
                             ![c].acquired = @ /\ locker # c]
            ELSE ext
  /\ flagged' = [flagged EXCEPT ![c] = FALSE]
  /\ Return(c, o)
  /\ UNCHANGED <<locker, abort, data, backend, sup, requests, upset>>

-----------------------------------------------------------------------------
(* multisupplier_extop_EndNSDS50ReplicationRequest *)

EndConnext(c, o) ==
  /\ op[c][o].pc = "end"
  /\ \/ /\ ext[c].user = NoSlot /\ ext[c].acquired
        /\ ext' = [ext EXCEPT ![c].user = o]
        /\ IF ext[c].version = "total"
           THEN flags' = flags \ {"TOTAL"} /\ Go(c, o, "stop")
           ELSE UNCHANGED flags /\ Go(c, o, "release")
        /\ UNCHANGED sup
     \/ /\ ext[c].user # NoSlot \/ ~ext[c].acquired
        /\ Deliver(c, o, "idle") /\ Return(c, o)
        /\ UNCHANGED <<ext, flags>>
  /\ UNCHANGED <<locker, abort, data, backend, flagged, conn, requests, upset>>

(* slapi_stop_bulk_import: the import thread, if it has not failed,        *)
(* finishes and takes the backend online, which enables replication.       *)
EndStop(c, o) ==
  /\ op[c][o].pc = "stop"
  /\ IF import = c
     THEN EnableReplication(c) /\ import' = "nobody" /\ partial' = FALSE
     ELSE UNCHANGED <<replica, enabled, offline, import, partial, upset>>
  /\ Go(c, o, "install")
  /\ UNCHANGED <<reapStop, task, ext, flagged, conn, sup, requests>>

(* replica_set_ruv installs the RUV of the supplier.                       *)
EndInstall(c, o) ==
  /\ op[c][o].pc = "install"
  /\ reapStop' = FALSE
  /\ Go(c, o, "release")
  /\ UNCHANGED <<replica, enabled, offline, partial, backend, ext, flagged, conn, sup, requests, upset>>

EndRelease(c, o) ==
  /\ op[c][o].pc = "release"
  /\ Relinquish(c)
  /\ ext' = [ext EXCEPT ![c].acquired = FALSE, ![c].session = FALSE,
                        ![c].user = NoSlot]
  /\ flagged' = [flagged EXCEPT ![c] = FALSE]
  /\ Deliver(c, o, "idle") /\ Return(c, o)
  /\ UNCHANGED <<data, backend, conn, requests>>

-----------------------------------------------------------------------------
(* Updates and entries *)

(* replica_check_release_timeout, in the post-operation of every change of *)
(* the replica: the control that asks to yield goes out with the result.   *)
UpdateApplied(c, o) ==
  /\ op[c][o].pc = "update"
  /\ abort' = IF abort = "ask" THEN "sent" ELSE abort
  /\ sup' = IF abort = "ask" /\ conn[c] = "open" /\ sup[c].st = "in"
            THEN [sup EXCEPT ![c].told = TRUE] ELSE sup
  /\ Return(c, o)
  /\ UNCHANGED <<flags, locker, data, backend, ext, flagged, conn, requests, upset>>

(* A change of a client of this server is one too.                         *)
LocalUpdate ==
  /\ abort = "ask" /\ ~offline
  /\ abort' = "sent"
  /\ UNCHANGED <<flags, locker, data, backend, ext, flagged, conn, op, sup, requests, upset>>

(* process_postop: an update that fails releases the replica and closes    *)
(* the connection.  One not known as replicated only fails.                *)
UpdateFailed(c, o) ==
  /\ op[c][o].pc = "update"
  /\ IF op[c][o].replicated
     THEN /\ Disconnect(c)
          /\ IF ext[c].user = NoSlot /\ ext[c].acquired
             THEN /\ Relinquish(c)
                  /\ ext' = [ext EXCEPT ![c].acquired = FALSE, ![c].session = FALSE]
                  /\ flagged' = [flagged EXCEPT ![c] = FALSE]
             ELSE UNCHANGED <<replica, ext, flagged, upset>>
     ELSE UNCHANGED <<replica, ext, flagged, conn, upset>>
  /\ Return(c, o)
  /\ UNCHANGED <<data, backend, sup, requests>>

(* multisupplier_extop_NSDS50ReplicationEntry: an entry is queued for the  *)
(* import of the connection; one that fails closes the connection, and the *)
(* import fails with it (ImportFails).                                     *)
EntryQueued(c, o) ==
  /\ op[c][o].pc = "entry" /\ import = c
  /\ Return(c, o)
  /\ UNCHANGED <<replica, data, backend, ext, flagged, conn, sup, requests, upset>>

EntryFailed(c, o) ==
  /\ op[c][o].pc = "entry"
  /\ Disconnect(c) /\ Return(c, o)
  /\ UNCHANGED <<replica, data, backend, ext, flagged, sup, requests, upset>>

(* The import thread of a connection fails, at any time: it leaves the     *)
(* backend offline, and nobody is told before the next entry or the end.   *)
ImportFails(c) ==
  /\ import = c /\ \A o \in Slots : op[c][o].pc # "disable"
  /\ import' = "nobody"
  /\ UNCHANGED <<replica, data, task, ext, flagged, conn, op, sup, requests, upset>>

-----------------------------------------------------------------------------
(* The end of a connection *)

(* What replication keeps of the connection holds the replica for a total  *)
(* update.                                                                 *)
TotalHeld(c) == ext[c].acquired /\ ext[c].version = "total"

(* The destructors of a connection run in the order in which the plugins   *)
(* registered.  The one of replication stops the import of a total update  *)
(* that is left as if it was complete: the backend is online, replication  *)
(* enabled.  The one of the database, when it is first or the only one,    *)
(* aborts the import, which leaves the backend offline.                    *)
DestroyStop(c) ==
  /\ conn[c] = "closing" /\ Running(c) = {}
  /\ import = c \/ TotalHeld(c)
  /\ conn' = [conn EXCEPT ![c] = "destroying"]
  /\ reapStop' = (reapStop /\ ~TotalHeld(c))
  /\ import' = IF import = c THEN "nobody" ELSE import
  /\ \/ import = c /\ TotalHeld(c) /\ EnableReplication(c)
     \/ UNCHANGED <<replica, enabled, offline, upset>>
  /\ UNCHANGED <<partial, task, ext, flagged, op, sup, requests>>

(* What the connection holds is released.                                  *)
Destroy(c) ==
  /\ \/ conn[c] = "closing" /\ Running(c) = {} /\ import # c /\ ~TotalHeld(c)
     \/ conn[c] = "destroying"
  /\ conn' = [conn EXCEPT ![c] = "gone"]
  /\ IF ext[c].acquired THEN Relinquish(c) ELSE UNCHANGED <<replica, upset>>
  /\ ext' = [ext EXCEPT ![c] = NewExt]
  /\ flagged' = [flagged EXCEPT ![c] = FALSE]
  /\ sup' = [sup EXCEPT ![c].st = "gone", ![c].told = FALSE]
  /\ UNCHANGED <<data, backend, op, requests>>

-----------------------------------------------------------------------------
(* An import by the administrator takes the backend offline, and online    *)
(* when it succeeds.                                                       *)

TaskStart ==
  /\ "task" \in Kinds /\ import = "nobody" /\ requests < MaxRequests
  /\ import' = "task" /\ task' = "disable" /\ requests' = requests + 1
  /\ UNCHANGED <<replica, data, ext, flagged, conn, op, sup, upset>>

TaskDisable ==
  /\ task = "disable"
  /\ \/ DisableWaits /\ UNCHANGED task
     \/ DisableReplication /\ task' = "running"
  /\ UNCHANGED <<reapStop, partial, import, ext, flagged, conn, op, sup, requests, upset>>

TaskEnd ==
  /\ task = "running"
  /\ EnableReplication("server")
  /\ partial' = FALSE
  /\ task' = "none" /\ import' = "nobody"
  /\ UNCHANGED <<reapStop, ext, flagged, conn, op, sup, requests>>

(* It fails, before or after it has emptied the backend: "DON'T enable the *)
(* backend -- leave it offline".  The server keeps what it holds.          *)
TaskFails ==
  /\ task = "running"
  /\ partial' \in {partial, TRUE}
  /\ task' = "none" /\ import' = "nobody"
  /\ UNCHANGED <<replica, reapStop, enabled, offline, ext, flagged, conn, op, sup,
                 requests, upset>>

-----------------------------------------------------------------------------
Handle(c, o) ==
  \/ StartCheck(c, o) \/ StartMark(c, o) \/ StartAcquire(c, o)
  \/ StartBegin(c, o) \/ StartDisable(c, o) \/ StartReply(c, o) \/ StartCleanup(c, o)
  \/ EndConnext(c, o) \/ EndStop(c, o) \/ EndInstall(c, o) \/ EndRelease(c, o)
  \/ UpdateApplied(c, o) \/ UpdateFailed(c, o)
  \/ EntryQueued(c, o) \/ EntryFailed(c, o)

Supply(c, o) == SendChange(c, o) \/ SendEnd(c, o) \/ \E k \in Kinds \ {"task"} : SendStart(c, o, k)

Next ==
  \/ \E c \in Conns, o \in Slots : Handle(c, o) \/ Supply(c, o)
  \/ \E c \in Conns : GiveUp(c) \/ Close(c) \/ ImportFails(c) \/ DestroyStop(c) \/ Destroy(c)
  \/ LocalUpdate
  \/ TaskStart \/ TaskDisable \/ TaskEnd \/ TaskFails

(* Worker threads go on; a supplier that was answered ends its session or  *)
(* loses its connection, so does one that has no answer.                   *)
Fairness ==
  /\ \A c \in Conns, o \in Slots : WF_vars(Handle(c, o))
  /\ \A c \in Conns : /\ SF_vars(\E o \in Slots : SendEnd(c, o))
                       /\ WF_vars(sup[c].st = "idle" /\ Close(c))
                       /\ WF_vars(DestroyStop(c) \/ Destroy(c))
  /\ WF_vars(TaskDisable) /\ WF_vars(TaskEnd \/ TaskFails)

Spec == Init /\ [][Next]_vars

FairSpec == Spec /\ Fairness

-----------------------------------------------------------------------------
(* Properties *)

(* The types of the replica and its data, ...                              *)
ReplicaTypeOK ==
  /\ flags \subseteq Flags /\ locker \in Conns \cup {"server"}
  /\ abort \in {"acquired", "ask", "sent"}

DataTypeOK ==
  /\ reapStop \in BOOLEAN /\ enabled \in BOOLEAN
  /\ offline \in BOOLEAN /\ partial \in BOOLEAN

BackendTypeOK ==
  /\ import \in Conns \cup {"nobody", "task"} /\ task \in {"none", "disable", "running"}
  /\ requests \in 0..MaxRequests
  /\ upset \subseteq Conns

(* ... of the connections and their extensions, ...                        *)
ConnTypeOK ==
  /\ conn \in [Conns -> {"open", "closing", "destroying", "gone"}]
  /\ flagged \in [Conns -> BOOLEAN]

ExtRec == [version : {"unknown", "inc", "total"}, acquired : BOOLEAN,
           session : BOOLEAN, user : Slots \cup {NoSlot}]

(* ... of the operations, and of the suppliers.                            *)
OpRec == [pc : Pcs, kind : {"inc", "total"}, resp : {"READY", "BUSY", "ERROR"},
          connext : BOOLEAN, replica : BOOLEAN, serial : BOOLEAN, replicated : BOOLEAN]

SupRec == [st : {"idle", "starting", "in", "ending", "gone"}, slot : Slots \cup {NoSlot},
           kind : {"none", "inc", "total"}, told : BOOLEAN]

TypeOK ==
  /\ ReplicaTypeOK /\ DataTypeOK /\ BackendTypeOK /\ ConnTypeOK
  /\ ext \in [Conns -> ExtRec]
  /\ op \in [Conns -> [Slots -> OpRec]]
  /\ sup \in [Conns -> SupRec]

Updating(c) == {o \in Slots : op[c][o].pc \in {"update", "entry"}}

(* Changes are received only from the connection that holds the replica,   *)
(* and as replicated ones (replica_get_exclusive_access, repl_opext.c):    *)
(* two suppliers never write at a time.                                    *)
UpdatesByHolder ==
  \A c \in Conns \ upset : Updating(c) # {} =>
    /\ InUse /\ locker = c /\ ext[c].acquired
    /\ \A o \in Updating(c) : op[c][o].replicated

(* The operations of a session are handled one at a time, in the order     *)
(* they were received (connection_threadmain): no second update and no End *)
(* runs beside an update.                                                  *)
OneAtATime ==
  \A c \in Conns \ upset : \A o \in Updating(c) :
    \A p \in Running(c) \ {o} : op[c][p].pc \in StartPcs

(* An import failed, and nobody has run another one since: the backend     *)
(* stays offline.                                                          *)
LeftOffline == offline /\ import = "nobody"

(* The replica is in use only as long as somebody has it to release: a     *)
(* connection that knows it holds it, the import that took the backend     *)
(* offline, or, when that failed, the next import.  No refusal, no lost    *)
(* connection and no failure of an update or a total update leaks it.      *)
NotLeaked ==
  InUse => \/ locker # "server" /\ ext[locker].acquired
           \/ locker = "server" /\ (import # "nobody" \/ LeftOffline)

(* The mark that a total update is starting, which makes the replica       *)
(* refuse every other one, is set only while one is.                       *)
MarkNotLeaked ==
  "TOTAL_EXCL_RECV" \in flags =>
    \/ upset # {}
    \/ \E c \in Conns, o \in Slots : /\ op[c][o].kind = "total"
                                   /\ op[c][o].pc \in StartPcs \ {"start", "cleanup"}

(* The agreements of this replica do not send the data of a total update   *)
(* that was cut short (replica_enable_replication) ...                     *)
CutShortNotSupplied == ~(enabled /\ partial)

(* ... as long as no session was undone by another, no session plug-in     *)
(* refused one that was ready, and no supplier sent Start again after it   *)
(* had not waited for the answer.                                          *)
PartialNotSupplied == upset = {} => CutShortNotSupplied

(* Whoever acquired the replica, it is free again in the end: after        *)
(* refusals, failures, lost connections, imports and lost answers alike.   *)
(* The one exception is the server after an import that failed, which      *)
(* keeps the replica with the backend offline until another one succeeds.  *)
AlwaysReleased == []<>(~InUse \/ (locker = "server" /\ LeftOffline))

=============================================================================
