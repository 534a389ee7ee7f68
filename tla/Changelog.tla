----------------------------- MODULE Changelog -----------------------------
(***************************************************************************)
(* The changelog of one supplier (cl5_api.c), its replay to the consumers  *)
(* of the replication agreements (cl5_clcache.c) and its trimming:         *)
(*                                                                         *)
(*  - operation threads log a change and update the RUV in memory, both    *)
(*    before the transaction of the operation commits: the RUV covers a    *)
(*    change that nobody can read yet, or that is lost when the commit     *)
(*    fails;                                                               *)
(*  - the thread of each agreement reads the RUV of its consumer, loads    *)
(*    the changes the consumer lacks a buffer at a time and sends them; it *)
(*    looks at the RUV first and reads what is committed after that;       *)
(*  - the trimming thread removes the changes every consumer has;          *)
(*  - the server stops, or crashes and rebuilds its vectors from the       *)
(*    changelog.                                                           *)
(*                                                                         *)
(* There is one write transaction at a time (the lock of the backend, the  *)
(* writer lock of LMDB); a reader does not wait for it.                    *)
(*                                                                         *)
(* CSNs are 1..MaxCSN in the order of csn_compare.  Each is drawn for one  *)
(* change by the replica RidOf names, in order; 0 is the null CSN.  A RUV  *)
(* maps the replicas it has an element for to their max CSN.               *)
(*                                                                         *)
(* Left out: updates that plugins nest in a transaction (UpdateVector), a  *)
(* clean restart after a failed commit (it makes a new changelog), cleaned *)
(* replica ids, the alternative start CSN of                               *)
(* nsds5ReplicaIgnoreMissingChange (off by default), consumers that are    *)
(* suppliers themselves, import and export of the changelog, encryption.   *)
(***************************************************************************)
EXTENDS Integers, FiniteSets, FiniteSetsExt

CONSTANTS
  MaxCSN,       \* bound: the CSNs
  Rids,         \* replica ids
  RidOf,        \* the replica that draws each CSN
  Adjacent,     \* CSNs with the time of the one before them of their replica
                \* and the next seqnum
  LocalRid,     \* id of this supplier
  Base,         \* the data was loaded with the changes up to this CSN
  Agmts,        \* number of agreements, in the order of agmt_set
  BulkSize,     \* changes that fit a replay buffer
  MaxEntries,   \* nsslapd-changelogmaxentries
  MaxAge,       \* nsslapd-changelogmaxage is set
  MaxLost,      \* bound: commits that fail
  MaxCrashes,   \* bound: crashes of the supplier
  MaxEnds       \* bound: sessions cut short

ASSUME ChangelogAssumption ==
  /\ MaxCSN \in Nat /\ Base \in 0..MaxCSN
  /\ Rids \subseteq Nat \ {0}
  /\ RidOf \in [1..MaxCSN -> Rids] /\ LocalRid \in Rids
  /\ Adjacent \subseteq 1..MaxCSN
  /\ Agmts \in Nat /\ BulkSize \in Nat \ {0}
  /\ MaxEntries \in Nat /\ MaxAge \in BOOLEAN
  /\ MaxLost \in Nat /\ MaxCrashes \in Nat /\ MaxEnds \in Nat

VARIABLES
  log,       \* the changes in the changelog database, committed
  txn,       \* the change the open transaction has logged, and its RUV
  pending,   \* CSNs in progress (the pending lists of the RUV)
  gone,      \* CSNs whose operation failed
  lost,      \* changes of failed commits that the RUV covers
  ruv,       \* the RUV in memory
  mincsn,    \* its min CSNs
  dbruv,     \* the RUV in the database
  smod,      \* the RUV that replica_write_ruv is about to write
  purge,     \* cldb->purgeRUV
  trim,      \* the trimming thread
  known,     \* each agreement's consumerRUV
  saved,     \* nsds50ruv in each agreement's entry
  sess,      \* each agreement's replay iterator
  consumer,  \* RUV of each consumer
  applied,   \* history: changes each consumer has
  missed,    \* history: changes each agreement promoted over, unsent
  seen,      \* history: changes ever committed or loaded
  crashes, ends

changes == <<log, txn, pending, gone, lost, seen>>
vectors == <<ruv, mincsn, dbruv, smod, purge>>
replay == <<known, saved, sess, consumer, applied, missed>>
bounds == <<crashes, ends>>
vars == <<changes, vectors, trim, replay, bounds>>

CSNs == 1..MaxCSN
Of(r, S) == {c \in S : RidOf[c] = r}
Greatest(S) == IF S = {} THEN 0 ELSE Max(S)
Least(S) == IF S = {} THEN 0 ELSE Min(S)

RUVs == UNION {[R -> 0..MaxCSN] : R \in SUBSET Rids}
NoRUV == [r \in {} |-> 0]

(* ruv_get_largest_csn_for_replica *)
Largest(v, r) == IF r \in DOMAIN v THEN v[r] ELSE 0

(* ruv_set_csns: the max CSN of an element only grows. *)
SetCSNs(v, c) ==
  [r \in DOMAIN v \cup {RidOf[c]} |->
     IF r = RidOf[c] /\ c > Largest(v, r) THEN c ELSE v[r]]

(* ruv_covers_csn *)
Covers(v, c) == c <= Largest(v, RidOf[c])
CoversRUV(v, w) == \A r \in DOMAIN w : w[r] <= Largest(v, r)

(* Mutant: the max CSN itself is covered. *)
CoversLoose(v, c) == RidOf[c] \in DOMAIN v => c <= v[RidOf[c]]

(* ruv_covers_csn_strict: a replica the RUV does not have is covered. *)
CoversStrict(v, c) == RidOf[c] \in DOMAIN v => c < v[RidOf[c]]

-----------------------------------------------------------------------------
(* Operations of the supplier. *)

NoTxn == [csn |-> 0, ruv |-> NoRUV]
InTxn == {txn.csn} \ {0}

Begun == pending \cup gone \cup lost \cup seen \cup InTxn

(* A write transaction is open: a local operation draws its CSN in it.     *)
Locked == txn # NoTxn \/ Of(LocalRid, pending) # {}

(* An operation starts: ruv_add_csn_inprogress.  The changes of a peer     *)
(* come one after the other in the session of a supplier, and wait for     *)
(* their transaction.                                                      *)
Begin(r) ==
  LET c == Least(Of(r, CSNs \ Begun))
  IN  /\ c # 0
      /\ IF r = LocalRid THEN ~Locked ELSE Of(r, pending \cup InTxn) = {}
      /\ pending' = pending \cup {c}
      /\ ruv' = [s \in DOMAIN ruv \cup {r} |-> Largest(ruv, s)]
      /\ UNCHANGED <<log, txn, gone, lost, seen, mincsn, dbruv, smod, purge,
                     trim, replay, bounds>>

(* What can be read back of a RUV that is written: not the elements        *)
(* without min CSN.                                                        *)
Readable(v) == [r \in {s \in DOMAIN v : mincsn[s] # 0} |-> v[r]]

(* write_changelog_and_ruv, in the transaction: the change is logged       *)
(* (_cl5WriteOperationTxn) and the RUV in memory covers it                 *)
(* (ruv_update_ruv; nothing else of its replica is in progress).  The RUV  *)
(* of the database was made before (replica_ruv_smods_for_op).             *)
Write(c) ==
  LET r == RidOf[c]
  IN  /\ c \in pending
      /\ IF r = LocalRid THEN txn = NoTxn ELSE ~Locked
      /\ txn' = [csn |-> c, ruv |-> IF Covers(ruv, c) THEN dbruv
                                    ELSE Readable(SetCSNs(ruv, c))]
      /\ pending' = pending \ {c}
      /\ ruv' = SetCSNs(ruv, c)
      /\ mincsn' = [mincsn EXCEPT ![r] = IF @ = 0 THEN c ELSE @]
      /\ purge' = [s \in DOMAIN purge \cup {r} |-> Largest(purge, s)]
      /\ UNCHANGED <<log, gone, lost, seen, dbruv, smod, trim, replay, bounds>>

(* The transaction commits: the change can be read.                        *)
Commit(c) ==
  /\ txn.csn = c
  /\ log' = log \cup {c}
  /\ seen' = seen \cup {c}
  /\ dbruv' = txn.ruv
  /\ txn' = NoTxn
  /\ UNCHANGED <<pending, gone, lost, ruv, mincsn, smod, purge, trim, replay,
                 bounds>>

(* The commit fails: the change is rolled back, the RUV in memory is not.  *)
CommitFails(c) ==
  /\ txn.csn = c /\ Cardinality(lost) < MaxLost
  /\ lost' = lost \cup {c}
  /\ txn' = NoTxn
  /\ UNCHANGED <<log, pending, gone, seen, vectors, trim, replay, bounds>>

(* Mutant: the failed CSN stays in the pending list. *)
AbortStays(c) ==
  /\ c \in pending
  /\ RidOf[c] = LocalRid
  /\ gone' = gone \cup {c}
  /\ UNCHANGED <<log, txn, pending, lost, seen, vectors, trim, replay, bounds>>

(* The operation fails before it is logged.  A change of a peer will be    *)
(* sent again.                                                             *)
Abort(c) ==
  /\ c \in pending
  /\ pending' = pending \ {c}
  /\ gone' = IF RidOf[c] = LocalRid THEN gone \cup {c} ELSE gone
  /\ UNCHANGED <<log, txn, lost, seen, vectors, trim, replay, bounds>>

(* replica_write_ruv, every 30 seconds: it reads the RUV in memory ...     *)
(* (Only a crash reads what it writes.)                                    *)
ReadState ==
  /\ smod = NoRUV /\ crashes < MaxCrashes
  /\ smod' = Readable(ruv)
  /\ UNCHANGED <<changes, ruv, mincsn, dbruv, purge, trim, replay, bounds>>

(* ... and writes it in a transaction of its own, which may come after     *)
(* others.                                                                 *)
WriteState ==
  /\ smod # NoRUV /\ ~Locked
  /\ dbruv' = smod
  /\ smod' = NoRUV
  /\ UNCHANGED <<changes, ruv, mincsn, purge, trim, replay, bounds>>

-----------------------------------------------------------------------------
(* Trimming. *)

IdleTrim == [pc |-> "idle", ruv |-> NoRUV, num |-> 0, pos |-> 0, rids |-> {}]

(* _cl5EnumConsumerRUV for every element of a consumer's RUV w. *)
LowerTo(v, w) ==
  LET null == {r \in DOMAIN w : w[r] = 0}
      held == DOMAIN w \ null
  IN  [r \in (DOMAIN v \ null) \cup held |->
         IF r \in held /\ (Largest(v, r) = 0 \/ w[r] < v[r]) THEN w[r] ELSE v[r]]

(* Mutant: the consumers are not asked. *)
RUV2PurgeLocal == ruv

(* _cl5GetRUV2Purge2: up to where the changelog may be trimmed. *)
RUV2Purge ==
  LET f[i \in 0..Agmts] == IF i = 0 THEN ruv ELSE LowerTo(f[i - 1], known[i])
  IN  f[Agmts]

Excess == IF MaxEntries = 0 THEN 0 ELSE Cardinality(log) - MaxEntries

(* _cl5TrimReplica starts: _cl5CanTrim at time 0, then _cl5GetRUV2Purge2.  *)
TrimStart ==
  /\ trim.pc = "idle"
  /\ MaxAge \/ Excess > 0
  /\ \E r \in DOMAIN RUV2Purge : RUV2Purge[r] # 0
  /\ trim' = [IdleTrim EXCEPT !.pc = "scan", !.ruv = RUV2Purge,
                              !.num = IF Excess > 0 THEN Excess ELSE 0]
  /\ UNCHANGED <<changes, vectors, replay, bounds>>

(* The anchor test of _cl5TrimEntry.  rid is only set where an entry is    *)
(* removed, so that it is 0 here.                                          *)
IsAnchor(c) == LET rid == 0 IN c = Largest(trim.ruv, rid)

ScanEnds == trim' = [trim EXCEPT !.pc = "purge"] /\ UNCHANGED log

(* _cl5TrimEntry on the next entry.  Whether an entry is older than        *)
(* nsslapd-changelogmaxage is the clock's choice.                          *)
TrimEntry ==
  LET c == Least({d \in log : d > trim.pos})
      more == trim.num > 0 \/ Excess > 0
      left == IF trim.num > 0 THEN trim.num ELSE IF Excess > 0 THEN Excess ELSE 0
  IN  /\ trim.pc = "scan"
      /\ \/ (c = 0 \/ ~more) /\ ScanEnds
         \/ /\ c # 0 /\ (more \/ MaxAge)
            /\ \/ /\ CoversStrict(trim.ruv, c)
                  /\ log' = log \ {c}
                  /\ trim' = [trim EXCEPT !.pos = c, !.rids = @ \cup {RidOf[c]},
                                          !.num = IF left > 0 THEN left - 1 ELSE 0]
               \/ /\ ~CoversStrict(trim.ruv, c)
                  /\ IF IsAnchor(c)
                     THEN trim' = [trim EXCEPT !.pos = c, !.num = left] /\ UNCHANGED log
                     ELSE ScanEnds
      /\ UNCHANGED <<txn, pending, gone, lost, seen, vectors, replay, bounds>>

(* _cl5TrimUpdateRuv: the purge RUV of a trimmed replica is the first of   *)
(* its changes left.                                                       *)
TrimPurgeRuv ==
  /\ trim.pc = "purge"
  /\ purge' = [r \in DOMAIN purge |->
                 IF r \in trim.rids THEN Max({purge[r], Least(Of(r, log))})
                                    ELSE purge[r]]
  /\ trim' = IdleTrim
  /\ UNCHANGED <<changes, ruv, mincsn, dbruv, smod, replay, bounds>>

-----------------------------------------------------------------------------
(* Replay: the sequence control block of a replica exists once lmax # 0.   *)

NoCSNs == [r \in Rids |-> 0]
IdleSess == [pc |-> "idle", cmax |-> NoCSNs, lmax |-> NoCSNs, prev |-> NoCSNs,
             gt |-> {}, cur |-> 0, op |-> "next", start |-> 0, bulk |-> {},
             rc |-> "none"]

(* Mutant: only the changes of this supplier count. *)
IsNewerLocal(v, w) == Largest(v, LocalRid) > Largest(w, LocalRid)

(* ruv_is_newer *)
IsNewer(v, w) == \E r \in DOMAIN v : v[r] > Largest(w, r)

(* acquire_replica: the consumer is acquired and sends its RUV. *)
Acquire(a) ==
  /\ sess[a].pc = "idle"
  /\ known[a] = NoRUV \/ IsNewer(ruv, known[a])
  /\ known' = [known EXCEPT ![a] = consumer[a]]
  /\ sess' = [sess EXCEPT ![a] =
       [IdleSess EXCEPT !.pc = "open",
                        !.cmax = [r \in Rids |-> Largest(consumer[a], r)]]]
  /\ UNCHANGED <<changes, vectors, trim, saved, consumer, applied, missed,
                 bounds>>

(* clcache_refresh_local_maxcsns *)
Refreshed(s) ==
  LET has(r) == r \in DOMAIN ruv /\ ruv[r] # 0 /\ mincsn[r] # 0
  IN  [s EXCEPT !.prev = [r \in Rids |-> IF has(r) /\ s.lmax[r] # 0
                                           THEN s.lmax[r] ELSE @[r]],
                !.lmax = [r \in Rids |-> IF has(r) THEN ruv[r] ELSE @[r]]]

(* Where the replay of one replica begins: after what the consumer has, or *)
(* with its first change.                                                  *)
FromConsumer(s, r) ==
  IF s.cmax[r] = 0 THEN [csn |-> mincsn[r], op |-> "set"]
                   ELSE [csn |-> s.cmax[r], op |-> "next"]

ToSend(s) == {r \in Rids : s.lmax[r] > s.cmax[r]}

(* clcache_initial_anchorcsn *)
InitialAnchor(s, r) == FromConsumer(s, r)

(* Mutant: a later buffer always follows the last one. *)
AdjustAnchorCur(s, r) == [csn |-> s.cur, op |-> "next"]

(* clcache_adjust_anchorcsn *)
AdjustAnchor(s, r) ==
  IF s.lmax[r] = s.prev[r] \/ s.prev[r] > s.cur
    THEN [csn |-> s.cur, op |-> "next"]
    ELSE FromConsumer(s, r)

(* The least of a set of anchors.  Of equal ones the first block decides;  *)
(* the blocks are in no order the code fixes.                              *)
LeastAnchors(A) == {x \in A : \A y \in A : x.csn <= y.csn}

(* clcache_load_buffer_bulk: what the buffer holds after a load, the first *)
(* BulkSize changes from the anchor on.  They are read in CSN order, so    *)
(* that the set of them is enough.                                         *)
Bulk(x) ==
  LET S == {c \in log : IF x.op = "set" THEN c >= x.csn ELSE c > x.csn}
  IN  IF x.csn \notin log THEN {}
      ELSE {c \in S : Cardinality({d \in S : d <= c}) <= BulkSize}

(* _cl5CheckMissingCSN: what a start CSN that is not found means. *)
CheckMissing(c) ==
  LET r == RidOf[c]
  IN  IF Largest(ruv, r) = 0 \/ c > Largest(ruv, r) THEN "notfound"
      ELSE IF Largest(purge, r) = 0 \/ c < purge[r] THEN "purged" ELSE "missing"

(* clcache_load_buffer, at the start of the session or when the buffer is  *)
(* used up: it takes the max CSNs from the RUV and picks the anchor, ...   *)
Refresh(a) ==
  LET s == Refreshed(sess[a])
      first == s.pc = "open"
      A == {IF first THEN InitialAnchor(s, r) ELSE AdjustAnchor(s, r) : r \in ToSend(s)}
      Ends == sess' = [sess EXCEPT ![a] = [IdleSess EXCEPT !.rc = "notfound"]]
  IN  /\ first \/ (s.pc = "run" /\ s.bulk = {})
      /\ \/ A = {} /\ Ends
         \/ \E x \in LeastAnchors(A) :
              IF x.csn < s.start THEN Ends
              ELSE sess' = [sess EXCEPT ![a] =
                     [s EXCEPT !.pc = "read", !.cur = x.csn, !.op = x.op]]
      /\ UNCHANGED <<changes, vectors, trim, known, saved, consumer, applied,
                     missed, bounds>>

(* ... and then reads what is committed.  When there is nothing the first  *)
(* time, _cl5PositionCursorForReplay asks what that means.                 *)
Read(a) ==
  LET s == sess[a]
      B == Bulk([csn |-> s.cur, op |-> s.op])
  IN  /\ s.pc = "read"
      /\ sess' = [sess EXCEPT ![a] =
           IF B = {}
             THEN [IdleSess EXCEPT
                     !.rc = IF s.start = 0 THEN CheckMissing(s.cur) ELSE "notfound"]
             ELSE [s EXCEPT !.pc = "run", !.gt = {}, !.bulk = B,
                            !.start = IF @ = 0 THEN s.cur ELSE @]]
      /\ UNCHANGED <<changes, vectors, trim, known, saved, consumer, applied,
                     missed, bounds>>

(* csn_time_difference and csn_get_seqnum: c and d, of one replica, are of *)
(* the same second and have successive sequence numbers.  A CSN of another *)
(* replica may be between them.                                            *)
Neighbour(c, d) ==
  d \in Adjacent /\ c = Greatest({e \in Of(RidOf[d], CSNs) : e < d})

(* clcache_skip_change: the change is not for this consumer, or not yet.   *)
Skipped(s, c) ==
  LET r == RidOf[c]
  IN  \/ s.lmax[r] = 0 \/ r \in s.gt \/ c <= s.cmax[r]
      \/ c > s.lmax[r] /\ ~Neighbour(s.lmax[r], c)

(* clcache_get_next_change and replay_update: the next change of the       *)
(* buffer is skipped, or sent and applied by the consumer.                 *)
NextChange(a) ==
  LET s == sess[a]
      c == Least(s.bulk)
      r == RidOf[c]
      s1 == [s EXCEPT !.bulk = @ \ {c}, !.cur = c]
      promoted == c > s.lmax[r]
  IN  /\ s.pc = "run" /\ s.bulk # {}
      /\ \/ /\ Skipped(s, c)
            /\ sess' = [sess EXCEPT ![a] =
                 [s1 EXCEPT !.gt = IF s.lmax[r] # 0 /\ promoted /\ c > s.cmax[r]
                                     THEN @ \cup {r} ELSE @]]
            /\ UNCHANGED <<consumer, applied, missed>>
         \/ /\ ~Skipped(s, c)
            /\ sess' = [sess EXCEPT ![a] =
                 [s1 EXCEPT !.lmax[r] = IF promoted THEN c ELSE @,
                            !.cmax[r] = IF promoted /\ @ = 0 THEN 0 ELSE c]]
            /\ consumer' = [consumer EXCEPT ![a] = SetCSNs(@, c)]
            /\ applied' = [applied EXCEPT ![a] =
                 IF Covers(consumer[a], c) THEN @ ELSE @ \cup {c}]
            /\ missed' = [missed EXCEPT ![a] =
                 IF promoted /\ s.lmax[r] \notin applied[a]
                   THEN @ \cup {s.lmax[r]} ELSE @]
      /\ UNCHANGED <<changes, vectors, trim, known, saved, bounds>>

(* The session ends early: an error, a stop, a yield, a lost connection.   *)
EndSession(a) ==
  /\ sess[a].pc # "idle" /\ ends < MaxEnds
  /\ sess' = [sess EXCEPT ![a] = IdleSess]
  /\ ends' = ends + 1
  /\ UNCHANGED <<changes, vectors, trim, known, saved, consumer, applied,
                 missed, crashes>>

-----------------------------------------------------------------------------
(* The server stops and starts. *)

(* A clean stop writes the vectors and the RUV each agreement knows        *)
(* (agmtlist_shutdown, _cl5WriteRUV); the start reads them back.  (When    *)
(* the RUV covers a lost change the start makes a new changelog.)          *)
Restart ==
  /\ pending = {} /\ ~Locked /\ smod = NoRUV /\ lost = {} /\ ends < MaxEnds
  /\ saved' = known
  /\ sess' = [a \in 1..Agmts |-> IdleSess]
  /\ trim' = IdleTrim
  /\ dbruv' = ruv
  /\ ends' = ends + 1
  /\ UNCHANGED <<changes, ruv, mincsn, smod, purge, known, consumer, applied,
                 missed, crashes>>

(* The vectors _cl5ConstructRUVs finds in the changelog. *)
LoggedRids == {RidOf[c] : c \in log}
UpperBound == [r \in LoggedRids |-> Greatest(Of(r, log))]

(* Mutant: the RUV of the database is believed. *)
ReloadedBelieved == dbruv

(* replica_check_for_data_reload after a disorderly shutdown. *)
Reloaded ==
  IF CoversRUV(UpperBound, dbruv) /\ ~CoversRUV(dbruv, UpperBound)
    THEN [r \in DOMAIN dbruv \cup LoggedRids |->
            Max({Largest(dbruv, r), Largest(UpperBound, r)})]
    ELSE dbruv

(* The server crashes and starts: what was not committed is gone,          *)
(* agreements know what was saved.                                         *)
Crash ==
  LET unlogged == pending \cup InTxn \cup {c \in lost : ~Covers(Reloaded, c)}
  IN  /\ crashes < MaxCrashes
      /\ crashes' = crashes + 1
      /\ txn' = NoTxn /\ pending' = {} /\ smod' = NoRUV
      /\ gone' = gone \cup Of(LocalRid, unlogged)
      /\ lost' = lost \ unlogged
      /\ ruv' = Reloaded
      /\ mincsn' = [r \in Rids |-> IF mincsn[r] = 0 THEN Largest(Reloaded, r)
                                                    ELSE mincsn[r]]
      /\ purge' = [r \in LoggedRids |-> Least(Of(r, log))]
      /\ trim' = IdleTrim
      /\ known' = saved
      /\ sess' = [a \in 1..Agmts |-> IdleSess]
      /\ UNCHANGED <<log, seen, dbruv, saved, consumer, applied, missed, ends>>

-----------------------------------------------------------------------------
(* The supplier and its consumers were loaded with the changes up to Base; *)
(* the last change of each replica is logged as a dummy to start from      *)
(* (replica_log_ruv_elements).                                             *)
Loaded == [r \in {RidOf[c] : c \in 1..Base} \cup {LocalRid} |->
             Greatest(Of(r, 1..Base))]

Init ==
  /\ log = {Loaded[r] : r \in DOMAIN Loaded} \ {0}
  /\ txn = NoTxn /\ pending = {} /\ gone = {} /\ lost = {}
  /\ ruv = Loaded /\ dbruv = Loaded /\ smod = NoRUV
  /\ mincsn = [r \in Rids |-> Least(Of(r, 1..Base))]
  /\ purge = [r \in LoggedRids |-> 0]
  /\ trim = IdleTrim
  /\ known = [a \in 1..Agmts |-> Loaded] /\ saved = known
  /\ sess = [a \in 1..Agmts |-> IdleSess]
  /\ consumer = [a \in 1..Agmts |-> Loaded]
  /\ applied = [a \in 1..Agmts |-> 1..Base]
  /\ missed = [a \in 1..Agmts |-> {}]
  /\ seen = 1..Base
  /\ crashes = 0 /\ ends = 0

Next ==
  \/ \E r \in Rids : Begin(r)
  \/ \E c \in CSNs : Write(c) \/ Commit(c) \/ CommitFails(c) \/ Abort(c)
  \/ ReadState \/ WriteState
  \/ TrimStart \/ TrimEntry \/ TrimPurgeRuv
  \/ \E a \in 1..Agmts : \/ Acquire(a) \/ Refresh(a) \/ Read(a)
                         \/ NextChange(a) \/ EndSession(a)
  \/ Restart \/ Crash

Spec == Init /\ [][Next]_vars

(* The threads of the server run: operations end, the trimming thread and  *)
(* the threads of the agreements go on.                                    *)
FairSpec ==
  /\ Spec
  /\ \A c \in CSNs : /\ WF_vars(Write(c) \/ Abort(c))
                      /\ WF_vars(Commit(c) \/ CommitFails(c))
  /\ WF_vars(WriteState)
  /\ WF_vars(TrimStart) /\ WF_vars(TrimEntry) /\ WF_vars(TrimPurgeRuv)
  /\ \A a \in 1..Agmts : /\ WF_vars(Acquire(a)) /\ WF_vars(Refresh(a))
                         /\ WF_vars(Read(a)) /\ WF_vars(NextChange(a))

-----------------------------------------------------------------------------
(* Properties. *)

Sessions == [pc : {"idle", "open", "read", "run"}, cmax : [Rids -> 0..MaxCSN],
             lmax : [Rids -> 0..MaxCSN], prev : [Rids -> 0..MaxCSN],
             gt : SUBSET Rids, cur : 0..MaxCSN, op : {"set", "next"}, start : 0..MaxCSN,
             bulk : SUBSET CSNs,
             rc : {"none", "notfound", "purged", "missing"}]

(* The variables have their types; a change in progress is not failed, a   *)
(* change of an open transaction is not visible, and what is in the        *)
(* changelog was committed.                                                *)
TypeOK ==
  /\ log \subseteq seen /\ seen \subseteq CSNs
  /\ txn \in [csn : 0..MaxCSN, ruv : RUVs]
  /\ txn.csn \notin pending \cup gone \cup lost \cup seen
  /\ pending \subseteq CSNs \ seen
  /\ gone \subseteq CSNs \ (pending \cup seen) /\ lost \subseteq CSNs \ (pending \cup seen)
  /\ {ruv, dbruv, smod, purge} \subseteq RUVs
  /\ mincsn \in [Rids -> 0..MaxCSN]
  /\ trim \in [pc : {"idle", "scan", "purge"}, ruv : RUVs, num : Nat,
               pos : 0..MaxCSN, rids : SUBSET Rids]
  /\ {known, saved, consumer} \subseteq [1..Agmts -> RUVs]
  /\ sess \in [1..Agmts -> Sessions]
  /\ {applied, missed} \subseteq [1..Agmts -> SUBSET CSNs]
  /\ crashes \in 0..MaxCrashes /\ ends \in 0..MaxEnds

(* A consumer has every change its RUV covers, also the ones that the RUV  *)
(* of the supplier covered before they could be read, arrived late or were *)
(* logged while the buffers of the session were being read                 *)
(* (clcache_skip_change, clcache_adjust_anchorcsn).  One step breaks this: *)
(* clcache_skip_change promotes the max CSN it took from the RUV to its    *)
(* neighbour although that max CSN itself was not to be read yet and has   *)
(* been passed (missed).                                                   *)
NoGap ==
  \A a \in 1..Agmts : \A c \in seen :
    Covers(consumer[a], c) => c \in applied[a] \cup missed[a]

(* _cl5TrimEntry removes a change only when every consumer has it, or has  *)
(* missed it as NoGap says.                                                *)
TrimmedReplayed ==
  \A a \in 1..Agmts : seen \ log \subseteq applied[a] \cup missed[a]

(* A session is told that changes are purged or missing                    *)
(* (_cl5CheckMissingCSN) only when the max CSN of every replica it has to  *)
(* send is in a transaction that is open or has failed, and never because  *)
(* the changelog was trimmed: the CSN it starts from is there.             *)
StartFound ==
  [][\A a \in 1..Agmts :
       sess[a].pc = "read" /\ sess'[a].rc \in {"purged", "missing"} =>
         /\ sess[a].cur \in log
         /\ \A r \in ToSend(sess[a]) : sess[a].lmax[r] \in InTxn \cup lost]_vars

(* After a crash the RUV covers every change of the changelog, although    *)
(* replica_write_ruv may have written an old one over that of a            *)
(* transaction (replica_check_for_data_reload), unless a commit has        *)
(* failed before.                                                          *)
CrashCovered ==
  [][crashes' > crashes /\ lost = {} => \A c \in log : Covers(ruv', c)]_vars

(* Every change the RUV of the supplier covers and that is committed       *)
(* reaches every consumer, whatever was logged, lost, trimmed or cut short *)
(* meanwhile, but for the gap that NoGap speaks of.                        *)
Converges ==
  <>[](\A a \in 1..Agmts : \A c \in seen :
         Covers(ruv, c) => c \in applied[a] \cup missed[a])
=============================================================================
