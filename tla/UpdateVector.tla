---------------------------- MODULE UpdateVector ----------------------------
(***************************************************************************)
(* The update vector (RUV) of one replica and the pending lists behind it  *)
(* (repl5_ruv.c, csnpl.c), driven by the worker threads that run local and *)
(* replicated updates (repl5_plugins.c, repl5_replica.c) through the       *)
(* transaction of the backend (back-ldbm/ldbm_modify.c).                   *)
(*                                                                         *)
(* An update is put in the pending list of the replica that made it before *)
(* it is applied, is committed or cancelled there when it ends, and the    *)
(* RUV advances over the committed head of the list.  Updates that plugins *)
(* make inside the transaction of another update are nested: they share    *)
(* the fate of the primary CSN the thread keeps in thread-local storage.   *)
(*                                                                         *)
(* Left out: several replicated suffixes in one transaction, cleaned       *)
(* replica ids, operations that change replica configuration, a failure of *)
(* dblayer_txn_commit itself, and the retry of a deadlocked transaction,   *)
(* which keeps its CSN.                                                    *)
(***************************************************************************)
EXTENDS Naturals

CONSTANTS
  Local,        \* id of this replica
  Remotes,      \* ids of the replicas whose changes suppliers send
  Threads,      \* worker threads
  MaxLocal,     \* bound on the CSNs drawn here
  MaxRemote     \* bound on the changes of each remote replica

ASSUME VectorAssumption ==
  /\ Local \notin Remotes
  /\ MaxLocal \in Nat /\ MaxRemote \in Nat

Rids == Remotes \cup {Local}

(* The CSNs of one replica are numbered in their order; 0 is NULL.  Only   *)
(* CSNs of the same replica are ever compared here.                        *)
CSNs == [rid : Rids, n : Nat]

CSN(r, n) == [rid |-> r, n |-> n]

NoCSN == CSN(Local, 0)

VARIABLES
  max,          \* RUVElement.csn
  min,          \* RUVElement.min_csn
  pl,           \* RUVElement.csnpl, a set: the list ascends by CSN
  minpl,        \* repl->min_csn_pl, until the first local change commits
  tls,          \* the primary CSN in thread-local storage
  op,           \* the operation of each worker thread
  nested,       \* CSNs of the nested operations open in the transaction
  txnlog,       \* changelog records of the open transaction
  log,          \* changelog records of committed transactions
  nextLocal,    \* the CSN generator
  session,      \* the supplier's session: its cursor in each replica's changes
  skipped       \* history: replicated changes the session went on without

vars == <<max, min, pl, minpl, tls, op, nested, txnlog, log, nextLocal,
          session, skipped>>

(* csnpldata: CSN, primary CSN of its operation, committed                 *)
Pending == [n : Nat, prim : CSNs, committed : BOOLEAN]

MinPending == [n : Nat, committed : BOOLEAN]

OpRecord == [pc : {"idle", "preop", "txn", "written", "done", "failed"},
             csn : CSNs]

Op(pc, c) == [pc |-> pc, csn |-> c]

(* dblayer_txn_begin takes the SERIAL lock of the backend, commit and      *)
(* abort release it.                                                       *)
HasTxn(t) == op[t].pc \in {"txn", "written"}

SerialLockFree == \A t \in Threads : ~HasTxn(t)

Replicated(t) == op[t].csn.rid \in Remotes /\ op[t].pc # "idle"

-----------------------------------------------------------------------------
(* csnpl.c *)

(* Mutant: nested CSNs are not recognised.                                 *)
PrimaryOnly(r, e, prim) == CSN(r, e.n) = prim

(* csn_primary_or_nested, for an entry of the list of replica r            *)
PrimaryOrNested(r, e, prim) == CSN(r, e.n) = prim \/ e.prim = prim

(* csnplInsert returns 1: the list has this CSN or a later one.            *)
SeenInList(c) == \E e \in pl[c.rid] : e.n >= c.n

(* csnplCommitAll on the list of replica r                                 *)
CommitAll(r, prim) ==
  {[n |-> e.n, prim |-> e.prim,
    committed |-> e.committed \/ PrimaryOrNested(r, e, prim)] : e \in pl[r]}

(* csnplRollUp: the committed entries before the first one that is not.    *)
RollUp(list) == {e \in list : \A f \in list : f.n <= e.n => f.committed}

RolledCSNs(r, prim) == {e.n : e \in RollUp(CommitAll(r, prim))}

-----------------------------------------------------------------------------
(* repl5_ruv.c *)

(* ruv_covers_csn *)
Covers(c) == c.n <= max[c.rid]

(* The primary CSN an update of thread t that starts with CSN c belongs to *)
PrimaryFor(t, c) == IF tls[t] = NoCSN THEN c ELSE tls[t]

(* ruv_add_csn_inprogress: it answers RUV_SUCCESS when the CSN is neither  *)
(* covered nor pending, and forgets the primary CSN when it is pending.    *)
NewToRUV(c) == ~Covers(c) /\ ~SeenInList(c)

AddInProgress(t, c) ==
  /\ pl' = IF NewToRUV(c)
             THEN [pl EXCEPT ![c.rid] = @ \cup
                     {[n |-> c.n, prim |-> PrimaryFor(t, c), committed |-> FALSE]}]
             ELSE pl
  /\ tls' = IF Covers(c) THEN tls
            ELSE [tls EXCEPT ![t] = IF SeenInList(c) THEN NoCSN
                                    ELSE PrimaryFor(t, c)]

(* Mutant: the elements of other replicas are lost.                        *)
CancelDropsElements(t, c) ==
  pl' = [r \in {c.rid, Local} |-> {e \in pl[r] : ~PrimaryOrNested(r, e, c)}]

(* Mutant: nested CSNs of a cancelled primary CSN stay.                    *)
CancelOne(t, c) == pl' = [pl EXCEPT ![c.rid] = {e \in @ : e.n # c.n}]

(* ruv_cancel_csn_inprogress *)
CancelInProgress(t, c) ==
  pl' = IF tls[t] = c
          THEN [r \in Rids |->
                  IF r \in {c.rid, Local}
                    THEN {e \in pl[r] : ~PrimaryOrNested(r, e, c)} ELSE pl[r]]
          ELSE [pl EXCEPT ![c.rid] = {e \in @ : e.n # c.n}]

(* ruv_update_ruv_element of the origin reports RUV_COVERS_CSN, and        *)
(* ruv_update_ruv ends before it looks at the local element.               *)
OriginRefused(c) ==
  /\ c.rid # Local
  /\ RolledCSNs(c.rid, c) # {}
  /\ \A n \in RolledCSNs(c.rid, c) : n <= max[c.rid]

(* set_max_csn_nolock_ext never lowers the max CSN.                        *)
MaxCandidates(r, c) == RolledCSNs(r, c) \cup {max[r]}

(* Mutant: the entries rolled up are not taken from the list.              *)
UpdateRuvKeepsRolled(t, c) ==
  IF tls[t] # c
    THEN UNCHANGED <<pl, max>>
    ELSE /\ pl' = [r \in Rids |->
                     IF r \in {c.rid, Local} THEN CommitAll(r, c) ELSE pl[r]]
         /\ \E p \in MaxCandidates(c.rid, c), l \in MaxCandidates(Local, c) :
              /\ \A m \in MaxCandidates(c.rid, c) : m <= p
              /\ \A m \in MaxCandidates(Local, c) : m <= l
              /\ max' = [r \in Rids |-> IF r = c.rid THEN p
                                        ELSE IF r = Local THEN l ELSE max[r]]

(* ruv_update_ruv: nothing to do for a nested CSN; a primary CSN commits   *)
(* its nested CSNs with it, in the list of its origin and the local one.   *)
UpdateRuv(t, c) ==
  IF tls[t] # c
    THEN UNCHANGED <<pl, max>>
    ELSE LET updated == IF OriginRefused(c) THEN {c.rid} ELSE {c.rid, Local}
         IN  /\ pl' = [r \in Rids |->
                         IF r \in updated
                           THEN CommitAll(r, c) \ RollUp(CommitAll(r, c))
                           ELSE pl[r]]
             /\ \E p \in MaxCandidates(c.rid, c), l \in MaxCandidates(Local, c) :
                  /\ \A m \in MaxCandidates(c.rid, c) : m <= p
                  /\ \A m \in MaxCandidates(Local, c) : m <= l
                  /\ max' = [r \in Rids |->
                               IF r = c.rid THEN p
                               ELSE IF r \in updated THEN l ELSE max[r]]

(* ruv_update_ruv_element: the first CSN rolled up becomes the min CSN of  *)
(* a remote replica that has none.                                         *)
UpdateRemoteMin(t, c) ==
  IF tls[t] = c /\ min[c.rid] = 0 /\ RolledCSNs(c.rid, c) # {}
    THEN \E b \in RolledCSNs(c.rid, c) :
           /\ \A m \in RolledCSNs(c.rid, c) : b <= m
           /\ min' = [min EXCEPT ![c.rid] = b]
    ELSE UNCHANGED min

-----------------------------------------------------------------------------
(* repl5_replica.c *)

MinList(on, list) == [on |-> on, list |-> list]

(* assign_csn_callback: thread t starts a local update with CSN c.         *)
AssignCSN(t, c) ==
  /\ minpl' = IF ~minpl.on THEN minpl
              ELSE IF \E m \in minpl.list : m.n >= c.n THEN MinList(FALSE, {})
              ELSE MinList(TRUE, minpl.list \cup {[n |-> c.n, committed |-> FALSE]})
  /\ AddInProgress(t, c)

(* abort_csn_callback: a CSN that is not in the list for the min CSN is    *)
(* not cancelled in the RUV either.                                        *)
AbortCSN(t, c) ==
  IF minpl.on /\ \A m \in minpl.list : m.n # c.n
    THEN UNCHANGED <<minpl, pl>>
    ELSE /\ minpl' = MinList(minpl.on, {m \in minpl.list : m.n # c.n})
         /\ CancelInProgress(t, c)

(* The min_csn_pl part of replica_update_ruv: when the oldest pending      *)
(* local CSN is committed it becomes the min CSN, and the list is freed.   *)
MinCommitted(c) ==
  {[n |-> m.n, committed |-> m.committed \/ m.n = c.n] : m \in minpl.list}

(* Mutant: the first CSN to commit becomes the min CSN.                    *)
UpdateLocalMinFirst(c) ==
  IF minpl.on
    THEN /\ min' = [min EXCEPT ![Local] = c.n]
         /\ minpl' = MinList(FALSE, {})
    ELSE UNCHANGED <<min, minpl>>

UpdateLocalMin(c) ==
  LET list == MinCommitted(c)
      head == {m \in list : \A k \in list : m.n <= k.n}
  IN  IF \E m \in head : m.committed
        THEN /\ \E m \in head :
                  min' = [min EXCEPT ![Local] = IF @ = 0 \/ m.n < @ THEN m.n ELSE @]
             /\ minpl' = MinList(FALSE, {})
        ELSE /\ minpl' = MinList(minpl.on, list)
             /\ UNCHANGED min

(* replica_update_ruv, under the replica lock                              *)
ReplicaUpdateRuv(t, c) ==
  /\ IF c.rid = Local
       THEN UpdateLocalMin(c)
       ELSE UpdateRemoteMin(t, c) /\ UNCHANGED minpl
  /\ UpdateRuv(t, c)

-----------------------------------------------------------------------------
(* repl5_plugins.c *)

(* cancel_opcsn *)
CancelOpCSN(t, c) ==
  IF c.rid = Local
    THEN AbortCSN(t, c)
    ELSE CancelInProgress(t, c) /\ UNCHANGED minpl

(* The end of write_changelog_and_ruv: the thread's primary CSN is cleared *)
(* when the operation that ends is the primary one.                        *)
ClearPrimary(t, c) == tls' = IF tls[t] = c THEN [tls EXCEPT ![t] = NoCSN] ELSE tls

-----------------------------------------------------------------------------
(* The worker threads.  A supplier's session sends the changes of each     *)
(* replica in order, from the RUV it was given or before, one at a time.   *)

OpenSession ==
  /\ ~session.open
  /\ \E next \in [Remotes -> 1..MaxRemote + 1] :
       /\ \A r \in Remotes : next[r] <= max[r] + 1
       /\ session' = [open |-> TRUE, next |-> next]
  /\ UNCHANGED <<max, min, pl, minpl, tls, op, nested, txnlog, log, nextLocal, skipped>>

CloseSession ==
  /\ session.open
  /\ \A t \in Threads : ~Replicated(t)
  /\ session' = [session EXCEPT !.open = FALSE]
  /\ UNCHANGED <<max, min, pl, minpl, tls, op, nested, txnlog, log, nextLocal, skipped>>

(* multisupplier_preop_* of a replicated operation: process_operation puts *)
(* its CSN in the pending list, or answers success without applying it.    *)
ReplicatedPreop(t, r) ==
  LET c == CSN(r, session.next[r])
  IN  /\ session.open
      /\ session.next[r] <= MaxRemote
      /\ op[t].pc = "idle"
      /\ \A u \in Threads : ~Replicated(u)
      /\ AddInProgress(t, c)
      /\ op' = [op EXCEPT ![t] = IF NewToRUV(c) THEN Op("preop", c) ELSE @]
      /\ session' = [session EXCEPT !.next[r] = @ + 1]
      /\ UNCHANGED <<max, min, minpl, nested, txnlog, log, nextLocal, skipped>>

BeginReplicated(t) ==
  /\ op[t].pc = "preop"
  /\ SerialLockFree
  /\ op' = [op EXCEPT ![t] = Op("txn", op[t].csn)]
  /\ UNCHANGED <<max, min, pl, minpl, tls, nested, txnlog, log, nextLocal, session, skipped>>

(* A client's update draws its CSN once it has the SERIAL lock.            *)
BeginLocal(t) ==
  /\ op[t].pc = "idle"
  /\ SerialLockFree
  /\ nextLocal <= MaxLocal
  /\ AssignCSN(t, CSN(Local, nextLocal))
  /\ nextLocal' = nextLocal + 1
  /\ op' = [op EXCEPT ![t] = Op("txn", CSN(Local, nextLocal))]
  /\ UNCHANGED <<max, min, nested, txnlog, log, session, skipped>>

(* A plugin called in the transaction starts an internal update.           *)
BeginNested(t) ==
  /\ op[t].pc = "txn"
  /\ nextLocal <= MaxLocal
  /\ AssignCSN(t, CSN(Local, nextLocal))
  /\ nextLocal' = nextLocal + 1
  /\ nested' = nested \cup {nextLocal}
  /\ UNCHANGED <<max, min, op, txnlog, log, session, skipped>>

(* The innermost nested update succeeds: write_changelog_and_ruv for it.   *)
EndNested(t) ==
  /\ op[t].pc = "txn"
  /\ \E n \in nested :
       /\ \A m \in nested : m <= n
       /\ txnlog' = txnlog \cup {CSN(Local, n)}
       /\ ReplicaUpdateRuv(t, CSN(Local, n))
       /\ ClearPrimary(t, CSN(Local, n))
       /\ nested' = nested \ {n}
  /\ UNCHANGED <<op, log, nextLocal, session, skipped>>

(* The innermost nested update fails.  It is cancelled, and its child      *)
(* transaction aborted: whatever was written since it began has a later    *)
(* CSN of this replica.                                                    *)
FailNested(t) ==
  /\ op[t].pc = "txn"
  /\ \E n \in nested :
       /\ \A m \in nested : m <= n
       /\ AbortCSN(t, CSN(Local, n))
       /\ ClearPrimary(t, CSN(Local, n))
       /\ txnlog' = {c \in txnlog : c.n < n}
       /\ nested' = nested \ {n}
  /\ UNCHANGED <<max, min, op, log, nextLocal, session, skipped>>

(* write_changelog_and_ruv, called in the transaction of the update.       *)
WriteChangelogAndRuv(t) ==
  /\ op[t].pc = "txn"
  /\ nested = {}
  /\ txnlog' = txnlog \cup {op[t].csn}
  /\ ReplicaUpdateRuv(t, op[t].csn)
  /\ ClearPrimary(t, op[t].csn)
  /\ op' = [op EXCEPT ![t] = Op("written", op[t].csn)]
  /\ UNCHANGED <<nested, log, nextLocal, session, skipped>>

(* The update, a plugin or the changelog write fails in the transaction:   *)
(* write_changelog_and_ruv cancels the CSN, and the transaction aborts.    *)
FailInTxn(t) ==
  /\ op[t].pc = "txn"
  /\ nested = {}
  /\ CancelOpCSN(t, op[t].csn)
  /\ ClearPrimary(t, op[t].csn)
  /\ txnlog' = {}
  /\ op' = [op EXCEPT ![t] = Op("failed", op[t].csn)]
  /\ UNCHANGED <<max, min, nested, log, nextLocal, session, skipped>>

CommitTxn(t) ==
  /\ op[t].pc = "written"
  /\ log' = log \cup txnlog
  /\ txnlog' = {}
  /\ op' = [op EXCEPT ![t] = Op("done", op[t].csn)]
  /\ UNCHANGED <<max, min, pl, minpl, tls, nested, nextLocal, session, skipped>>

(* process_postop of an update that succeeded                              *)
ProcessPostop(t) ==
  /\ op[t].pc = "done"
  /\ op' = [op EXCEPT ![t] = Op("idle", NoCSN)]
  /\ UNCHANGED <<max, min, pl, minpl, tls, nested, txnlog, log, nextLocal, session, skipped>>

(* Mutant: the connection is left open after an error that must be retried. *)
ProcessPostopKeepsSession(t) ==
  /\ op[t].pc = "failed"
  /\ CancelOpCSN(t, op[t].csn)
  /\ op' = [op EXCEPT ![t] = Op("idle", NoCSN)]
  /\ UNCHANGED <<max, min, tls, nested, txnlog, log, nextLocal, session, skipped>>

(* process_postop of an update that failed: it is cancelled once more.  A  *)
(* session goes on after an error of ignore_error_and_keep_going and is    *)
(* closed after any other.                                                 *)
ProcessPostopFailed(t) ==
  /\ op[t].pc = "failed"
  /\ CancelOpCSN(t, op[t].csn)
  /\ op' = [op EXCEPT ![t] = Op("idle", NoCSN)]
  /\ \/ /\ Replicated(t)
        /\ skipped' = skipped \cup {op[t].csn}
        /\ UNCHANGED session
     \/ /\ session' = IF Replicated(t) THEN [session EXCEPT !.open = FALSE] ELSE session
        /\ UNCHANGED skipped
  /\ UNCHANGED <<max, min, tls, nested, txnlog, log, nextLocal>>

(* The operation fails before its transaction begins: its connection was   *)
(* closed and slapi_op_abandoned is seen (ldbm_back_add, ldbm_back_delete) *)
(* or dblayer_txn_begin failed.  write_changelog_and_ruv is not called.    *)
FailBeforeTxn(t) ==
  /\ op[t].pc = "preop"
  /\ op' = [op EXCEPT ![t] = Op("failed", op[t].csn)]
  /\ UNCHANGED <<max, min, pl, minpl, tls, nested, txnlog, log, nextLocal, session, skipped>>

-----------------------------------------------------------------------------
(* A replica just created or initialised, with an empty changelog.         *)
Init ==
  /\ max = [r \in Rids |-> 0]
  /\ min = [r \in Rids |-> 0]
  /\ pl = [r \in Rids |-> {}]
  /\ minpl = MinList(TRUE, {})
  /\ tls = [t \in Threads |-> NoCSN]
  /\ op = [t \in Threads |-> Op("idle", NoCSN)]
  /\ nested = {}
  /\ txnlog = {}
  /\ log = {}
  /\ nextLocal = 1
  /\ session = [open |-> FALSE, next |-> [r \in Remotes |-> 1]]
  /\ skipped = {}

ThreadStep(t) ==
  \/ \E r \in Remotes : ReplicatedPreop(t, r)
  \/ BeginReplicated(t)
  \/ BeginLocal(t)
  \/ BeginNested(t)
  \/ EndNested(t)
  \/ FailNested(t)
  \/ WriteChangelogAndRuv(t)
  \/ FailInTxn(t)
  \/ CommitTxn(t)
  \/ ProcessPostop(t)
  \/ ProcessPostopFailed(t)

Next ==
  \/ OpenSession
  \/ CloseSession
  \/ \E t \in Threads : ThreadStep(t)

Spec == Init /\ [][Next]_vars

(* Updates may fail before their transaction begins.                       *)
EarlyFailureSpec == Init /\ [][Next \/ \E t \in Threads : FailBeforeTxn(t)]_vars

-----------------------------------------------------------------------------
(* Properties *)

VectorTypeOK ==
  /\ max \in [Rids -> Nat] /\ min \in [Rids -> Nat]
  /\ pl \in [Rids -> SUBSET Pending]
  /\ minpl \in [on : BOOLEAN, list : SUBSET MinPending]
  /\ tls \in [Threads -> CSNs]
  /\ op \in [Threads -> OpRecord]
  /\ nested \subseteq Nat
  /\ txnlog \subseteq CSNs /\ log \subseteq CSNs /\ skipped \subseteq CSNs
  /\ nextLocal \in Nat
  /\ session \in [open : BOOLEAN, next : [Remotes -> Nat]]

(* "the csn is written to the changelog and the ruv is updated with the    *)
(* csn in one atomic operation" (write_changelog_and_ruv): a change in the *)
(* changelog is covered by the RUV, whatever other updates are pending.    *)
LoggedIsCovered == \A c \in log : Covers(c)

(* A replicated change that the RUV covers was applied, or was given up    *)
(* with an error that ignore_error_and_keep_going accepts: no supplier     *)
(* will ever send it again.                                                *)
CoveredIsApplied ==
  \A r \in Remotes : \A n \in 1..max[r] : CSN(r, n) \in log \cup txnlog \cup skipped

(* A pending CSN belongs to an operation that still runs, so the RUV       *)
(* cannot be held back for ever.                                           *)
PendingIsRunning ==
  \A r \in Rids : \A e \in pl[r] :
    \E t \in Threads : op[t].pc \in {"preop", "txn"} /\ e.prim = op[t].csn

(* The RUV never covers a CSN of an operation, or nested operation, that   *)
(* may still be cancelled.                                                 *)
PendingNotCovered == \A r \in Rids : \A e \in pl[r] : ~Covers(CSN(r, e.n))

(* "Once that event occurs, the RUV is suitable for iteration over locally *)
(* generated changes" (_replica_configure_ruv): the min CSN of a replica   *)
(* is at or below each of its changes in the changelog.                    *)
MinIsOldest == \A c \in log : 0 < min[c.rid] /\ min[c.rid] <= c.n

=============================================================================
