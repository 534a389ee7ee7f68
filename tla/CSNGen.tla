------------------------------- MODULE CSNGen -------------------------------
(***************************************************************************)
(* The CSN generator of one replica (ldap/servers/slapd/csngen.c) and the  *)
(* code of the replication plugin that drives it (repl5_replica.c,         *)
(* repl5_protocol_util.c):                                                 *)
(*                                                                         *)
(*  - operation threads that draw the CSN of a local update and insist on  *)
(*    it being above the base CSN of the entry they touch;                 *)
(*  - session threads that tell the generator of the CSNs of a peer, or    *)
(*    draw the CSN that opens a session;                                   *)
(*  - the event-queue thread that writes the state to nsState every 30 s;  *)
(*  - clean stop, crash and start of the server;                           *)
(*  - the system clock, which may be set forward and back.                 *)
(*                                                                         *)
(* One step is one critical section of the generator's or the replica's    *)
(* lock.  Left out: the callback list (every caller passes notify=FALSE),  *)
(* the replica id changing type (csngen_rewrite_rid), and logging.         *)
(***************************************************************************)
EXTENDS CSN

CONSTANTS
  MaxSeq,       \* CSN_MAX_SEQNUM
  MaxAdjust,    \* CSN_MAX_TIME_ADJUST, in seconds
  IgnoreSkew,   \* nsslapd-ignore-time-skew
  Rid,          \* id of this replica
  Threads,      \* worker threads that run local updates
  Times,        \* the values the system clock may show
  RemoteCSNs,   \* CSNs made by other replicas
  MaxTstamp     \* bound: CSNs are drawn while the time stamp is below it

ASSUME GenAssumption ==
  /\ MaxSeq \in Nat \ {0}
  /\ MaxAdjust \in Nat
  /\ IgnoreSkew \in BOOLEAN
  /\ Rid \in Nat
  /\ Times \subseteq Nat /\ Times # {}
  /\ RemoteCSNs \subseteq CSNRecord
  /\ \A c \in RemoteCSNs : c.tstamp >= 0 /\ c.seqnum \in 0..MaxSeq
  /\ MaxTstamp \in Nat

VARIABLES
  clock,        \* what gettime() returns
  up,           \* the server runs
  st,           \* gen->state
  saved,        \* nsState in dse.ldif
  csnAssigned,  \* repl_csn_assigned
  thread,       \* replica_generate_next_csn in each worker thread
  last,         \* history: the last CSN drawn
  heard,        \* history: the greatest remote CSN accepted
  durable       \* history: last and heard when nsState was written

vars == <<clock, up, st, saved, durable, csnAssigned, thread, last, heard>>

State == [sampled_time : Nat, local_offset : Nat, remote_offset : Nat,
          seq_num : 0..MaxSeq]

GenState(sampled, local, remote, seq) ==
  [sampled_time |-> sampled, local_offset |-> local, remote_offset |-> remote,
   seq_num |-> seq]

(* CSN_CALC_TSTAMP *)
Tstamp(s) == s.sampled_time + s.local_offset + s.remote_offset

-----------------------------------------------------------------------------
(* csngen.c *)

NonNeg(n) == IF n > 0 THEN n ELSE 0

(* The check of _csngen_adjust_local_time against a clock set back.        *)
LocalTimeOK(s, now) ==
  \/ now = s.sampled_time
  \/ IgnoreSkew
  \/ s.local_offset - (now - s.sampled_time) <= MaxAdjust

(* Mutant: the sequence number restarts with every change of the clock,    *)
(* not only when the time stamp grows.                                     *)
AdjustLocalTimeResets(s, now) ==
  GenState(now, NonNeg(s.local_offset - (now - s.sampled_time)),
           s.remote_offset, IF now # s.sampled_time THEN 0 ELSE s.seq_num)

(* What _csngen_adjust_local_time makes of state s at time now.            *)
AdjustLocalTime(s, now) ==
  LET local == NonNeg(s.local_offset - (now - s.sampled_time))
      later == now + local > s.sampled_time + s.local_offset
  IN  GenState(now, local, s.remote_offset, IF later THEN 0 ELSE s.seq_num)

(* Mutant: the rollover comes one CSN late.                                *)
RolloverLate(s) ==
  IF s.seq_num > MaxSeq
    THEN GenState(s.sampled_time, s.local_offset + 1, s.remote_offset, 0)
    ELSE s

(* The next sequence number would be CSN_MAX_SEQNUM: steal a second.       *)
Rollover(s) ==
  IF s.seq_num = MaxSeq
    THEN GenState(s.sampled_time, s.local_offset + 1, s.remote_offset, 0)
    ELSE s

(* The CSN csngen_new_csn makes from an adjusted, rolled over state.       *)
CSNOf(s) == MakeCSN(Tstamp(s), s.seq_num, Rid)

(* csngen_new_csn, successful: the CSN drawn is last'.                     *)
NewCSN ==
  /\ LocalTimeOK(st, clock)
  /\ LET s == Rollover(AdjustLocalTime(st, clock))
     IN  /\ Tstamp(s) <= MaxTstamp
         /\ last' = CSNOf(s)
         /\ st' = GenState(s.sampled_time, s.local_offset, s.remote_offset,
                           s.seq_num + 1)

(* Mutant: each jump is checked by itself.                                 *)
RemoteTimeOKOneJump(s, c) ==
  \/ c.tstamp <= Tstamp(s)
  \/ IgnoreSkew
  \/ c.tstamp - Tstamp(s) <= MaxAdjust

(* The check of csngen_adjust_time against a peer too far ahead; s is the  *)
(* state after _csngen_adjust_local_time.                                  *)
RemoteTimeOK(s, c) ==
  \/ c.tstamp <= Tstamp(s)
  \/ IgnoreSkew
  \/ s.remote_offset + (c.tstamp - Tstamp(s)) <= MaxAdjust

(* Pour the lead of the remote CSN into remote_offset, one second of it    *)
(* into a zero local_offset.                                               *)
AddRemoteOffset(s, c) ==
  LET lead == c.tstamp - Tstamp(s)
      loan == IF s.local_offset = 0 THEN 1 ELSE 0
  IN  IF lead > 0
        THEN GenState(s.sampled_time, s.local_offset + loan,
                      s.remote_offset + lead - loan, s.seq_num)
        ELSE s

(* Mutant: the sequence number is only raised when it is below the remote  *)
(* one.                                                                    *)
AdjustSeqnumStrict(s, old, c) ==
  LET seq == IF Tstamp(s) > old THEN 0 ELSE s.seq_num
  IN  GenState(s.sampled_time, s.local_offset, s.remote_offset,
               IF Tstamp(s) = c.tstamp /\ c.seqnum > seq THEN c.seqnum ELSE seq)

(* The sequence number that keeps the next CSN above c and above every     *)
(* CSN drawn while the time stamp was old.                                 *)
AdjustSeqnum(s, old, c) ==
  LET seq == IF Tstamp(s) > old THEN 0 ELSE s.seq_num
      behind == Tstamp(s) = c.tstamp /\ c.seqnum >= seq
  IN  IF behind /\ c.seqnum >= MaxSeq
        THEN GenState(s.sampled_time, s.local_offset + 1, s.remote_offset, 0)
        ELSE GenState(s.sampled_time, s.local_offset, s.remote_offset,
                      IF behind THEN c.seqnum + 1 ELSE seq)

(* csngen_adjust_time returning CSN_SUCCESS *)
AdjustTime(c) ==
  LET s == AdjustLocalTime(st, clock)
  IN  /\ LocalTimeOK(st, clock)
      /\ RemoteTimeOK(s, c)
      /\ Tstamp(s) <= MaxTstamp
      /\ st' = AdjustSeqnum(AddRemoteOffset(s, c), Tstamp(st), c)
      /\ heard' = CSNMax(heard, c)

(* csngen_adjust_time failing: the clock could not be read (CSN_TIME_ERROR *)
(* may happen in any state) or is too far back, and nothing changes; or    *)
(* the peer is too far ahead, and the local adjustment stays.              *)
AdjustTimeFails(c) ==
  /\ \/ st' = st
     \/ LET s == AdjustLocalTime(st, clock)
        IN  /\ LocalTimeOK(st, clock)
            /\ ~RemoteTimeOK(s, c)
            /\ st' = s
  /\ UNCHANGED heard

-----------------------------------------------------------------------------
(* The callers.  A worker thread that runs replica_generate_next_csn.      *)

Idle == [pc |-> "idle", base |-> NullCSN, opcsn |-> NullCSN, adjusted |-> TRUE]

ThreadRecord == [pc : {"idle", "drawn", "adjusting", "redraw"},
                 base : CSNRecord, opcsn : CSNRecord, adjusted : BOOLEAN]

(* The operation starts on an entry whose newest CSN is base, and draws.   *)
(* base is NULL (a new entry) or a remote CSN: a base that this generator  *)
(* made is below the CSN drawn.                                            *)
GenerateNextCSN(t, base) ==
  /\ up /\ thread[t].pc = "idle"
  /\ NewCSN
  /\ thread' = [thread EXCEPT ![t] =
                  [pc |-> IF CSNLeq(last', base) THEN "adjusting" ELSE "drawn",
                   base |-> base, opcsn |-> last', adjusted |-> TRUE]]
  /\ UNCHANGED <<clock, up, saved, durable, csnAssigned, heard>>

(* opcsn <= basecsn: the generator is told of the base CSN.  The return    *)
(* code of csngen_adjust_time is not looked at.                            *)
AdjustToBase(t) ==
  /\ up /\ thread[t].pc = "adjusting"
  /\ \/ /\ AdjustTime(thread[t].base)
        /\ thread' = [thread EXCEPT ![t].pc = "redraw"]
     \/ /\ AdjustTimeFails(thread[t].base)
        /\ thread' = [thread EXCEPT ![t].pc = "redraw", ![t].adjusted = FALSE]
  /\ UNCHANGED <<clock, up, saved, durable, csnAssigned, last>>

RedrawCSN(t) ==
  /\ up /\ thread[t].pc = "redraw"
  /\ NewCSN
  /\ thread' = [thread EXCEPT ![t].pc = "drawn", ![t].opcsn = last']
  /\ UNCHANGED <<clock, up, saved, durable, csnAssigned, heard>>

(* csngen_new_csn failed (clock unreadable or too far back): the operation *)
(* is refused.                                                             *)
DrawFails(t) ==
  /\ up /\ thread[t].pc = "redraw"
  /\ thread' = [thread EXCEPT ![t] = Idle]
  /\ UNCHANGED <<clock, up, st, saved, durable, csnAssigned, last, heard>>

(* assign_csn_callback, under the replica lock, ends the CSN's creation.   *)
AssignCSN(t) ==
  /\ up /\ thread[t].pc = "drawn"
  /\ csnAssigned' = TRUE
  /\ thread' = [thread EXCEPT ![t] = Idle]
  /\ UNCHANGED <<clock, up, st, saved, durable, last, heard>>

(* get_current_csn: the CSN an outgoing session opens with.                *)
SessionCSN ==
  /\ up
  /\ NewCSN
  /\ UNCHANGED <<clock, up, saved, durable, csnAssigned, thread, heard>>

(* replica_update_csngen_state_ext at either end of a session: c is the    *)
(* greatest CSN of the peer's RUV, or the CSN that opened the session.     *)
UpdateCSNGenState(c) ==
  /\ up
  /\ AdjustTime(c) \/ AdjustTimeFails(c)
  /\ UNCHANGED <<clock, up, saved, durable, csnAssigned, thread, last>>

-----------------------------------------------------------------------------
(* Persistence: replica_update_state and replica_flush                     *)

(* The state is copied under the replica lock and written after its        *)
(* release; nothing reads the stored copy in between, so one step is       *)
(* enough: a crash before the write is a crash before this step.           *)
UpdateState ==
  /\ up /\ csnAssigned
  /\ saved' = st
  /\ durable' = [last |-> last, heard |-> heard]
  /\ csnAssigned' = FALSE
  /\ UNCHANGED <<clock, up, st, thread, last, heard>>

(* Mutant: replica_flush spares the write, as replica_update_state does,   *)
(* when no operation was given a CSN since the last one.                   *)
StopIfAssigned ==
  /\ up
  /\ \A t \in Threads : thread[t] = Idle
  /\ saved' = IF csnAssigned THEN st ELSE saved
  /\ durable' = [last |-> last, heard |-> heard]
  /\ csnAssigned' = FALSE
  /\ up' = FALSE
  /\ UNCHANGED <<clock, st, thread, last, heard>>

(* replica_flush, once the event queue and the worker threads have ended.  *)
Stop ==
  /\ up
  /\ \A t \in Threads : thread[t] = Idle
  /\ saved' = st
  /\ durable' = [last |-> last, heard |-> heard]
  /\ csnAssigned' = FALSE
  /\ up' = FALSE
  /\ UNCHANGED <<clock, st, thread, last, heard>>

(* csngen_new from the stored state.                                       *)
Start ==
  /\ ~up
  /\ up' = TRUE
  /\ st' = saved
  /\ csnAssigned' = FALSE
  /\ UNCHANGED <<clock, saved, durable, thread, last, heard>>

(* The server crashes.  What was drawn and heard since nsState was written *)
(* is forgotten: the histories go back to that write.                      *)
Crash ==
  /\ up
  /\ up' = FALSE
  /\ csnAssigned' = FALSE
  /\ thread' = [t \in Threads |-> Idle]
  /\ last' = durable.last /\ heard' = durable.heard
  /\ UNCHANGED <<clock, st, saved, durable>>

(* The clock advances, or is set by an administrator or by NTP.            *)
SetClock ==
  /\ clock' \in Times \ {clock}
  /\ UNCHANGED <<up, st, saved, durable, csnAssigned, thread, last, heard>>

-----------------------------------------------------------------------------
(* A replica that was just configured: csngen_new without a stored state,  *)
(* which _replica_update_entry stores.                                     *)
Init ==
  /\ clock \in Times
  /\ up = TRUE
  /\ st = GenState(clock, 0, 0, 0)
  /\ saved = st
  /\ csnAssigned = FALSE
  /\ thread = [t \in Threads |-> Idle]
  /\ last = NullCSN
  /\ heard = NullCSN
  /\ durable = [last |-> NullCSN, heard |-> NullCSN]

ThreadStep(t) ==
  \/ \E base \in RemoteCSNs \cup {NullCSN} : GenerateNextCSN(t, base)
  \/ AdjustToBase(t)
  \/ RedrawCSN(t)
  \/ DrawFails(t)
  \/ AssignCSN(t)

Next ==
  \/ \E t \in Threads : ThreadStep(t)
  \/ SessionCSN
  \/ \E c \in RemoteCSNs : UpdateCSNGenState(c)
  \/ UpdateState
  \/ Stop
  \/ Start
  \/ Crash
  \/ SetClock

Spec == Init /\ [][Next]_vars

-----------------------------------------------------------------------------
(* Properties *)

CSNGenTypeOK ==
  /\ clock \in Times
  /\ up \in BOOLEAN /\ csnAssigned \in BOOLEAN
  /\ st \in State /\ saved \in State
  /\ thread \in [Threads -> ThreadRecord]
  /\ last \in CSNRecord /\ heard \in CSNRecord
  /\ durable \in [last : CSNRecord, heard : CSNRecord]

(* Every CSN that can still be made from state s is above c.               *)
Before(c, s) ==
  \/ c.tstamp < Tstamp(s)
  \/ c.tstamp = Tstamp(s) /\ c.seqnum < s.seq_num

(* Whatever the clock did and whatever peers were heard of, the generator  *)
(* is ahead of every CSN it made and of every remote CSN it accepted; the  *)
(* state stored in nsState is ahead of those made and accepted before it   *)
(* was written.  This is what csngen_adjust_time,                          *)
(* _csngen_adjust_local_time, replica_update_state and replica_flush are   *)
(* to achieve together.                                                    *)
GeneratorAhead ==
  LET s == IF up THEN st ELSE saved
  IN  /\ Before(last, s) /\ Before(heard, s)
      /\ Before(durable.last, saved) /\ Before(durable.heard, saved)

(* The generator implements a clock that issues ever later CSNs and loses  *)
(* no more than the time since its last durable point in a crash: no two   *)
(* draws of csngen_new_csn return the same CSN or CSNs out of order, and   *)
(* each is above every remote CSN accepted before, across threads, changes *)
(* of the system clock, restarts and crashes.                              *)
Abstract == INSTANCE StampClock WITH now <- last
ImplementsStampClock == Abstract!Spec

(* The CSN replica_generate_next_csn returns is above the base CSN of the  *)
(* entry, unless csngen_adjust_time refused the adjustment.                *)
OpAboveBase ==
  \A t \in Threads :
    (thread[t].pc = "drawn" /\ thread[t].adjusted)
      => CSNLess(thread[t].base, thread[t].opcsn)

(* The offset owed to peers never exceeds CSN_MAX_TIME_ADJUST, however     *)
(* many sessions contribute to it (csngen_adjust_time checks the sum).     *)
RemoteSkewBounded == ~IgnoreSkew => st.remote_offset <= MaxAdjust

=============================================================================
