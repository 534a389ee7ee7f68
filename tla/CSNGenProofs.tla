---------------------------- MODULE CSNGenProofs ----------------------------
(***************************************************************************)
(* Theorems about CSNGen, for every clock, limit and set of threads.       *)
(*                                                                         *)
(* The argument: each function of csngen.c takes a state to one that is at *)
(* least as far ahead (Before is preserved), and csngen_new_csn hands out  *)
(* the CSN at which the generator stands before stepping past it.          *)
(***************************************************************************)
EXTENDS CSNGen, TLAPS

LEMMA Limits == MaxSeq \in Nat /\ MaxSeq >= 1 /\ MaxAdjust \in Nat /\ Rid \in Nat
  BY GenAssumption

LEMMA NullCSNType == NullCSN \in CSNRecord
  BY DEF NullCSN, MakeCSN, CSNRecord

LEMMA CSNOfType ==
  ASSUME NEW s \in State PROVE CSNOf(s) \in CSNRecord
  BY Limits DEF CSNOf, MakeCSN, CSNRecord, State, Tstamp

(* _csngen_adjust_local_time never loses ground, and keeps remote_offset.  *)
LEMMA AdjustLocalTimeAdvances ==
  ASSUME NEW s \in State, NEW now \in Nat
  PROVE  /\ AdjustLocalTime(s, now) \in State
         /\ Tstamp(AdjustLocalTime(s, now)) >= Tstamp(s)
         /\ AdjustLocalTime(s, now).remote_offset = s.remote_offset
         /\ \A c \in CSNRecord :
              Before(c, s) => Before(c, AdjustLocalTime(s, now))
<1> DEFINE off == NonNeg(s.local_offset - (now - s.sampled_time))
           t == AdjustLocalTime(s, now)
<1>1. off \in Nat /\ off + now >= s.local_offset + s.sampled_time
  BY Limits DEF NonNeg, State
<1> HIDE DEF off
<1>2. /\ t.sampled_time = now /\ t.local_offset = off
      /\ t.remote_offset = s.remote_offset
      /\ t.seq_num = IF now + off > s.sampled_time + s.local_offset
                       THEN 0 ELSE s.seq_num
  BY DEF AdjustLocalTime, GenState, off
<1>3. t \in State
  BY <1>1, Limits DEF AdjustLocalTime, GenState, State, off
<1> HIDE DEF t
<1>4. Tstamp(t) >= Tstamp(s)
  BY <1>1, <1>2 DEF Tstamp, State
<1>5. \A c \in CSNRecord : Before(c, s) => Before(c, t)
  BY <1>1, <1>2 DEF Before, CSNRecord, State, Tstamp
<1> QED BY <1>2, <1>3, <1>4, <1>5 DEF t

(* The rollover of the sequence number moves forward in time and leaves    *)
(* room for one more CSN.                                                  *)
LEMMA RolloverAdvances ==
  ASSUME NEW s \in State
  PROVE  /\ Rollover(s) \in State
         /\ Rollover(s).seq_num < MaxSeq
         /\ Rollover(s).remote_offset = s.remote_offset
         /\ \A c \in CSNRecord : Before(c, s) => Before(c, Rollover(s))
<1>1. CASE s.seq_num = MaxSeq
  <2>1. Rollover(s)
          = GenState(s.sampled_time, s.local_offset + 1, s.remote_offset, 0)
    BY <1>1 DEF Rollover
  <2> QED BY <2>1, Limits DEF Before, CSNRecord, State, Tstamp, GenState
<1>2. CASE s.seq_num # MaxSeq
  BY <1>2, Limits DEF Rollover, State
<1> QED BY <1>1, <1>2

(* A successful csngen_new_csn: the new CSN is above all that the state    *)
(* was ahead of, and the new state is ahead of it.                         *)
LEMMA NewCSNAdvances ==
  ASSUME st \in State, clock \in Nat, NewCSN
  PROVE  /\ st' \in State /\ last' \in CSNRecord
         /\ st'.remote_offset = st.remote_offset
         /\ Before(last', st')
         /\ \A c \in CSNRecord :
              Before(c, st) => Before(c, st') /\ CSNLess(c, last')
<1> DEFINE s == Rollover(AdjustLocalTime(st, clock))
<1>1. /\ s \in State /\ s.seq_num < MaxSeq
      /\ s.remote_offset = st.remote_offset
      /\ \A c \in CSNRecord : Before(c, st) => Before(c, s)
  BY AdjustLocalTimeAdvances, RolloverAdvances
<1>2. /\ st' = GenState(s.sampled_time, s.local_offset, s.remote_offset,
                        s.seq_num + 1)
      /\ last' = CSNOf(s)
  BY DEF NewCSN
<1> HIDE DEF s
<1>3. /\ st' \in State /\ Tstamp(st') = Tstamp(s)
      /\ st'.seq_num = s.seq_num + 1 /\ st'.remote_offset = s.remote_offset
  BY <1>1, <1>2, Limits DEF State, Tstamp, GenState
<1>4. last' \in CSNRecord /\ last'.tstamp = Tstamp(s) /\ last'.seqnum = s.seq_num
  BY <1>1, <1>2, CSNOfType DEF CSNOf, MakeCSN
<1>5. Tstamp(s) \in Nat
  BY <1>1 DEF Tstamp, State
<1>6. Before(last', st')
  BY <1>1, <1>3, <1>4, <1>5 DEF Before, State
<1>7. \A c \in CSNRecord : Before(c, st) => Before(c, st') /\ CSNLess(c, last')
  BY <1>1, <1>3, <1>4, <1>5 DEF Before, State, CSNRecord, CSNLess
<1> QED BY <1>1, <1>3, <1>4, <1>6, <1>7

(* The lead of a peer is caught up with, and stays within the limit.       *)
LEMMA AddRemoteOffsetAdvances ==
  ASSUME NEW s \in State, NEW c \in CSNRecord, RemoteTimeOK(s, c)
  PROVE  LET a == AddRemoteOffset(s, c) IN
         /\ a \in State /\ a.seq_num = s.seq_num
         /\ Tstamp(a) >= Tstamp(s) /\ Tstamp(a) >= c.tstamp
         /\ ~IgnoreSkew /\ s.remote_offset <= MaxAdjust
              => a.remote_offset <= MaxAdjust
<1> DEFINE lead == c.tstamp - Tstamp(s)
           loan == IF s.local_offset = 0 THEN 1 ELSE 0
<1>1. lead \in Int /\ loan \in {0, 1}
  BY DEF State, Tstamp, CSNRecord
<1>2. CASE lead > 0
  <2>1. AddRemoteOffset(s, c)
          = GenState(s.sampled_time, s.local_offset + loan,
                     s.remote_offset + lead - loan, s.seq_num)
    BY <1>2 DEF AddRemoteOffset
  <2>2. ~IgnoreSkew => s.remote_offset + lead <= MaxAdjust
    BY <1>2 DEF RemoteTimeOK, State, Tstamp, CSNRecord
  <2>3. c.tstamp = Tstamp(s) + lead
    BY DEF State, Tstamp, CSNRecord
  <2> HIDE DEF lead, loan
  <2> QED BY <1>1, <1>2, <2>1, <2>2, <2>3, Limits DEF GenState, State, Tstamp
<1>3. CASE ~(lead > 0)
  BY <1>1, <1>3 DEF AddRemoteOffset, State, Tstamp, CSNRecord
<1> QED BY <1>2, <1>3

(* The sequence number is set past the remote CSN, and is lowered only     *)
(* when the time stamp has moved past the old one.                         *)
LEMMA AdjustSeqnumAdvances ==
  ASSUME NEW a \in State, NEW old \in Int, NEW c \in CSNRecord,
         Tstamp(a) >= c.tstamp, Tstamp(a) >= old
  PROVE  LET r == AdjustSeqnum(a, old, c) IN
         /\ r \in State /\ r.remote_offset = a.remote_offset
         /\ Before(c, r)
         /\ Tstamp(r) >= Tstamp(a)
         /\ Tstamp(r) = old => r.seq_num >= a.seq_num
<1> DEFINE seq == IF Tstamp(a) > old THEN 0 ELSE a.seq_num
           behind == Tstamp(a) = c.tstamp /\ c.seqnum >= seq
           r == AdjustSeqnum(a, old, c)
<1>1. seq \in 0..MaxSeq /\ (Tstamp(a) = old => seq = a.seq_num)
  BY Limits DEF State, Tstamp
<1>2. r = IF behind /\ c.seqnum >= MaxSeq
            THEN GenState(a.sampled_time, a.local_offset + 1, a.remote_offset, 0)
            ELSE GenState(a.sampled_time, a.local_offset, a.remote_offset,
                          IF behind THEN c.seqnum + 1 ELSE seq)
  BY DEF AdjustSeqnum
<1>3. Tstamp(a) \in Int /\ c.seqnum \in Int /\ c.tstamp \in Int
  BY DEF State, Tstamp, CSNRecord
<1> HIDE DEF seq, r
<1>4. CASE behind /\ c.seqnum >= MaxSeq
  BY <1>1, <1>2, <1>3, <1>4, Limits DEF GenState, State, Tstamp, Before, r
<1>5. CASE behind /\ ~(c.seqnum >= MaxSeq)
  <2>1. /\ r = GenState(a.sampled_time, a.local_offset, a.remote_offset,
                        c.seqnum + 1)
        /\ c.seqnum + 1 \in 0..MaxSeq /\ c.seqnum >= seq
    BY <1>1, <1>2, <1>3, <1>5, Limits
  <2> QED BY <1>1, <1>3, <1>5, <2>1 DEF GenState, State, Tstamp, Before, r
<1>6. CASE ~behind
  <2>1. r = GenState(a.sampled_time, a.local_offset, a.remote_offset, seq)
    BY <1>2, <1>6
  <2> QED BY <1>1, <1>3, <1>6, <2>1 DEF GenState, State, Tstamp, Before, r
<1> QED BY <1>4, <1>5, <1>6

(* A successful csngen_adjust_time: the new state is ahead of the remote   *)
(* CSN, of all that the old state was ahead of, and within the limit.      *)
LEMMA AdjustTimeAdvances ==
  ASSUME st \in State, clock \in Nat, NEW c \in CSNRecord, AdjustTime(c)
  PROVE  /\ st' \in State
         /\ Before(c, st')
         /\ ~IgnoreSkew /\ st.remote_offset <= MaxAdjust
              => st'.remote_offset <= MaxAdjust
         /\ \A d \in CSNRecord : Before(d, st) => Before(d, st')
<1> DEFINE s == AdjustLocalTime(st, clock)
           a == AddRemoteOffset(s, c)
<1>1. /\ s \in State /\ Tstamp(s) >= Tstamp(st)
      /\ s.remote_offset = st.remote_offset
      /\ \A d \in CSNRecord : Before(d, st) => Before(d, s)
  BY AdjustLocalTimeAdvances
<1>2. RemoteTimeOK(s, c) /\ st' = AdjustSeqnum(a, Tstamp(st), c)
  BY DEF AdjustTime
<1> HIDE DEF s
<1>3. /\ a \in State /\ a.seq_num = s.seq_num
      /\ Tstamp(a) >= Tstamp(s) /\ Tstamp(a) >= c.tstamp
      /\ ~IgnoreSkew /\ st.remote_offset <= MaxAdjust
           => a.remote_offset <= MaxAdjust
  BY <1>1, <1>2, AddRemoteOffsetAdvances
<1> HIDE DEF a
<1>4. Tstamp(st) \in Int /\ Tstamp(s) \in Int /\ Tstamp(a) \in Int
  BY <1>1, <1>3 DEF State, Tstamp
<1>5. /\ st' \in State /\ st'.remote_offset = a.remote_offset
      /\ Before(c, st') /\ Tstamp(st') >= Tstamp(a)
      /\ Tstamp(st') = Tstamp(st) => st'.seq_num >= a.seq_num
  BY <1>1, <1>2, <1>3, <1>4, AdjustSeqnumAdvances
<1>6. Tstamp(st') \in Int
  BY <1>5 DEF State, Tstamp
<1>7. \A d \in CSNRecord : Before(d, st) => Before(d, st')
  BY <1>1, <1>3, <1>4, <1>5, <1>6 DEF Before, CSNRecord, State
<1> QED BY <1>3, <1>5, <1>7

(* A failed csngen_adjust_time loses no ground either.                     *)
LEMMA AdjustTimeFailsKeeps ==
  ASSUME st \in State, clock \in Nat, NEW c \in CSNRecord, AdjustTimeFails(c)
  PROVE  /\ st' \in State
         /\ st'.remote_offset = st.remote_offset
         /\ \A d \in CSNRecord : Before(d, st) => Before(d, st')
  BY AdjustLocalTimeAdvances DEF AdjustTimeFails

-----------------------------------------------------------------------------
(* The inductive invariant.  A thread that has adjusted the generator to   *)
(* its base CSN relies on no other thread, clock change or session taking  *)
(* the generator back below it before it draws again; the stored state     *)
(* must respect the limit too, for it comes back at the next start.        *)
RedrawAhead ==
  \A t \in Threads : thread[t].pc = "redraw" /\ thread[t].adjusted
                        => Before(thread[t].base, st)

StoppedIsQuiet == ~up => \A t \in Threads : thread[t] = Idle

SavedSkewBounded == ~IgnoreSkew => saved.remote_offset <= MaxAdjust

GenInv ==
  /\ CSNGenTypeOK
  /\ GeneratorAhead
  /\ RedrawAhead
  /\ OpAboveBase
  /\ StoppedIsQuiet
  /\ RemoteSkewBounded
  /\ SavedSkewBounded

LEMMA IdleType == Idle \in ThreadRecord
  BY NullCSNType DEF Idle, ThreadRecord

LEMMA InitGenInv == Init => GenInv
<1> SUFFICES ASSUME Init PROVE GenInv
  OBVIOUS
<1>1. clock \in Nat
  BY GenAssumption DEF Init
<1>2. st \in State /\ saved \in State /\ Tstamp(st) = clock /\ saved = st
      /\ st.remote_offset = 0
  BY <1>1, Limits DEF Init, State, GenState, Tstamp
<1>3. CSNGenTypeOK
  BY <1>1, <1>2, IdleType, NullCSNType DEF Init, CSNGenTypeOK
<1>4. GeneratorAhead
  BY <1>1, <1>2 DEF Init, GeneratorAhead, Before, NullCSN, MakeCSN
<1>5. RedrawAhead /\ OpAboveBase /\ StoppedIsQuiet
  BY DEF Init, RedrawAhead, OpAboveBase, StoppedIsQuiet, Idle
<1>6. RemoteSkewBounded /\ SavedSkewBounded
  BY <1>2, Limits DEF RemoteSkewBounded, SavedSkewBounded
<1> QED BY <1>3, <1>4, <1>5, <1>6 DEF GenInv

(* What the invariant says of the state in which a draw or an adjustment   *)
(* starts.                                                                 *)
LEMMA InvFacts ==
  ASSUME GenInv
  PROVE  /\ clock \in Nat /\ st \in State /\ saved \in State
         /\ last \in CSNRecord /\ heard \in CSNRecord
         /\ thread \in [Threads -> ThreadRecord]
         /\ durable.last \in CSNRecord /\ durable.heard \in CSNRecord
         /\ up => Before(last, st) /\ Before(heard, st)
         /\ Before(durable.last, saved) /\ Before(durable.heard, saved)
  BY GenAssumption DEF GenInv, CSNGenTypeOK, GeneratorAhead

(* Every thread's promise survives a step that only moves the generator    *)
(* forward and leaves the threads alone.                                   *)
LEMMA ForwardKeepsThreads ==
  ASSUME GenInv, UNCHANGED thread, st' \in State,
         \A c \in CSNRecord : Before(c, st) => Before(c, st')
  PROVE  RedrawAhead' /\ OpAboveBase'
<1>1. \A t \in Threads : thread[t].base \in CSNRecord
  BY InvFacts DEF ThreadRecord
<1>2. RedrawAhead'
  BY <1>1 DEF GenInv, RedrawAhead
<1>3. OpAboveBase'
  BY DEF GenInv, OpAboveBase
<1> QED BY <1>2, <1>3

LEMMA GenerateNextCSNInv ==
  ASSUME GenInv, NEW t \in Threads, NEW base \in RemoteCSNs \cup {NullCSN},
         GenerateNextCSN(t, base)
  PROVE  GenInv'
<1> DEFINE rec == [pc |-> IF CSNLeq(last', base) THEN "adjusting" ELSE "drawn",
                   base |-> base, opcsn |-> last', adjusted |-> TRUE]
<1>1. /\ up /\ thread[t].pc = "idle" /\ NewCSN
      /\ thread' = [thread EXCEPT ![t] = rec]
      /\ UNCHANGED <<clock, up, saved, durable, csnAssigned, heard>>
  BY DEF GenerateNextCSN
<1>2. base \in CSNRecord
  BY GenAssumption, NullCSNType
<1>3. /\ st' \in State /\ last' \in CSNRecord
      /\ st'.remote_offset = st.remote_offset /\ Before(last', st')
      /\ \A c \in CSNRecord : Before(c, st) => Before(c, st')
  BY <1>1, InvFacts, NewCSNAdvances
<1>4. rec \in ThreadRecord
  BY <1>2, <1>3 DEF ThreadRecord
<1>5. rec.pc = "drawn" => CSNLess(base, last')
  BY <1>2, <1>3 DEF CSNLeq, CSNLess, CSNRecord
<1>6. /\ rec.pc # "redraw" /\ rec.base = base /\ rec.opcsn = last'
  OBVIOUS
<1> HIDE DEF rec
<1>7. CSNGenTypeOK'
  BY <1>1, <1>3, <1>4 DEF GenInv, CSNGenTypeOK
<1>8. GeneratorAhead'
  BY <1>1, <1>3, InvFacts DEF GeneratorAhead
<1>9. \A u \in Threads : thread'[u] = IF u = t THEN rec ELSE thread[u]
  BY <1>1, InvFacts
<1>10. RedrawAhead'
  <2> SUFFICES ASSUME NEW u \in Threads, thread'[u].pc = "redraw",
                      thread'[u].adjusted
               PROVE  Before(thread'[u].base, st')
    BY DEF RedrawAhead
  <2>1. u # t /\ thread'[u] = thread[u]
    BY <1>6, <1>9
  <2>2. thread[u].base \in CSNRecord
    BY InvFacts DEF ThreadRecord
  <2> QED BY <1>3, <2>1, <2>2 DEF GenInv, RedrawAhead
<1>11. OpAboveBase'
  BY <1>5, <1>6, <1>9 DEF GenInv, OpAboveBase
<1>12. StoppedIsQuiet' /\ RemoteSkewBounded' /\ SavedSkewBounded'
  BY <1>1, <1>3 DEF GenInv, StoppedIsQuiet, RemoteSkewBounded, SavedSkewBounded
<1> QED BY <1>7, <1>8, <1>10, <1>11, <1>12 DEF GenInv

LEMMA AdjustToBaseInv ==
  ASSUME GenInv, NEW t \in Threads, AdjustToBase(t)
  PROVE  GenInv'
<1> DEFINE base == thread[t].base
           Moved(ok) == [thread EXCEPT ![t].pc = "redraw", ![t].adjusted = ok]
<1>1. /\ up /\ thread[t].pc = "adjusting"
      /\ UNCHANGED <<clock, up, saved, durable, csnAssigned, last>>
  BY DEF AdjustToBase
<1>2. base \in CSNRecord /\ thread[t] \in ThreadRecord
  BY InvFacts DEF ThreadRecord
<1>3. \/ /\ AdjustTime(base)
         /\ thread' = [thread EXCEPT ![t].pc = "redraw"]
      \/ /\ AdjustTimeFails(base)
         /\ thread' = [thread EXCEPT ![t].pc = "redraw", ![t].adjusted = FALSE]
  BY DEF AdjustToBase
<1>4. /\ st' \in State
      /\ ~IgnoreSkew /\ st.remote_offset <= MaxAdjust
           => st'.remote_offset <= MaxAdjust
      /\ \A c \in CSNRecord : Before(c, st) => Before(c, st')
      /\ heard' \in CSNRecord /\ Before(heard', st')
      /\ AdjustTime(base) => Before(base, st')
  <2>1. CASE AdjustTime(base)
    <3>1. heard' = CSNMax(heard, base)
      BY <2>1 DEF AdjustTime
    <3> QED BY <1>1, <1>2, <2>1, <3>1, InvFacts, AdjustTimeAdvances DEF CSNMax
  <2>2. CASE AdjustTimeFails(base) /\ ~AdjustTime(base)
    <3>1. heard' = heard
      BY <2>2 DEF AdjustTimeFails
    <3> QED BY <1>1, <1>2, <2>2, <3>1, InvFacts, AdjustTimeFailsKeeps
  <2> QED BY <1>3, <2>1, <2>2
<1>5. /\ thread' \in [Threads -> ThreadRecord]
      /\ \A u \in Threads : u # t => thread'[u] = thread[u]
      /\ thread'[t].pc = "redraw" /\ thread'[t].base = base
      /\ thread'[t].adjusted => AdjustTime(base)
  BY <1>2, <1>3, InvFacts DEF ThreadRecord
<1> HIDE DEF base
<1>6. CSNGenTypeOK'
  BY <1>1, <1>4, <1>5 DEF GenInv, CSNGenTypeOK
<1>7. GeneratorAhead'
  BY <1>1, <1>4, InvFacts DEF GeneratorAhead
<1>8. RedrawAhead'
  <2> SUFFICES ASSUME NEW u \in Threads, thread'[u].pc = "redraw",
                      thread'[u].adjusted
               PROVE  Before(thread'[u].base, st')
    BY DEF RedrawAhead
  <2>1. CASE u = t
    BY <1>4, <1>5, <2>1
  <2>2. CASE u # t
    <3>1. thread[u].base \in CSNRecord
      BY InvFacts DEF ThreadRecord
    <3> QED BY <1>4, <1>5, <2>2, <3>1 DEF GenInv, RedrawAhead
  <2> QED BY <2>1, <2>2
<1>9. OpAboveBase'
  BY <1>5 DEF GenInv, OpAboveBase
<1>10. StoppedIsQuiet' /\ RemoteSkewBounded' /\ SavedSkewBounded'
  BY <1>1, <1>4 DEF GenInv, StoppedIsQuiet, RemoteSkewBounded, SavedSkewBounded
<1> QED BY <1>6, <1>7, <1>8, <1>9, <1>10 DEF GenInv

LEMMA RedrawCSNInv ==
  ASSUME GenInv, NEW t \in Threads, RedrawCSN(t)
  PROVE  GenInv'
<1>1. /\ up /\ thread[t].pc = "redraw" /\ NewCSN
      /\ thread' = [thread EXCEPT ![t].pc = "drawn", ![t].opcsn = last']
      /\ UNCHANGED <<clock, up, saved, durable, csnAssigned, heard>>
  BY DEF RedrawCSN
<1>2. thread[t] \in ThreadRecord /\ thread[t].base \in CSNRecord
  BY InvFacts DEF ThreadRecord
<1>3. /\ st' \in State /\ last' \in CSNRecord
      /\ st'.remote_offset = st.remote_offset /\ Before(last', st')
      /\ \A c \in CSNRecord :
            Before(c, st) => Before(c, st') /\ CSNLess(c, last')
  BY <1>1, InvFacts, NewCSNAdvances
<1>4. thread[t].adjusted => CSNLess(thread[t].base, last')
  BY <1>1, <1>2, <1>3 DEF GenInv, RedrawAhead
<1>5. /\ thread' \in [Threads -> ThreadRecord]
      /\ \A u \in Threads : u # t => thread'[u] = thread[u]
      /\ thread'[t].pc = "drawn" /\ thread'[t].base = thread[t].base
      /\ thread'[t].opcsn = last' /\ thread'[t].adjusted = thread[t].adjusted
  BY <1>1, <1>2, <1>3, InvFacts DEF ThreadRecord
<1>6. CSNGenTypeOK'
  BY <1>1, <1>3, <1>5 DEF GenInv, CSNGenTypeOK
<1>7. GeneratorAhead'
  BY <1>1, <1>3, InvFacts DEF GeneratorAhead
<1>8. RedrawAhead'
  <2> SUFFICES ASSUME NEW u \in Threads, thread'[u].pc = "redraw",
                      thread'[u].adjusted
               PROVE  Before(thread'[u].base, st')
    BY DEF RedrawAhead
  <2>1. u # t /\ thread[u].base \in CSNRecord
    BY <1>5, InvFacts DEF ThreadRecord
  <2> QED BY <1>3, <1>5, <2>1 DEF GenInv, RedrawAhead
<1>9. OpAboveBase'
  BY <1>4, <1>5 DEF GenInv, OpAboveBase
<1>10. StoppedIsQuiet' /\ RemoteSkewBounded' /\ SavedSkewBounded'
  BY <1>1, <1>3 DEF GenInv, StoppedIsQuiet, RemoteSkewBounded, SavedSkewBounded
<1> QED BY <1>6, <1>7, <1>8, <1>9, <1>10 DEF GenInv

(* The end of an operation's draw, successful or not.                      *)
LEMMA ThreadIdlesInv ==
  ASSUME GenInv, NEW t \in Threads, DrawFails(t) \/ AssignCSN(t)
  PROVE  GenInv'
<1>1. /\ up /\ thread' = [thread EXCEPT ![t] = Idle]
      /\ UNCHANGED <<clock, up, st, saved, durable, last, heard>>
      /\ csnAssigned' \in BOOLEAN
  BY DEF DrawFails, AssignCSN, GenInv, CSNGenTypeOK
<1>2. /\ thread' \in [Threads -> ThreadRecord]
      /\ \A u \in Threads : thread'[u] = IF u = t THEN Idle ELSE thread[u]
  BY <1>1, InvFacts, IdleType
<1>3. Idle.pc = "idle"
  BY DEF Idle
<1>4. CSNGenTypeOK' /\ GeneratorAhead'
  BY <1>1, <1>2 DEF GenInv, CSNGenTypeOK, GeneratorAhead
<1>5. RedrawAhead' /\ OpAboveBase'
  BY <1>1, <1>2, <1>3 DEF GenInv, RedrawAhead, OpAboveBase
<1>6. StoppedIsQuiet' /\ RemoteSkewBounded' /\ SavedSkewBounded'
  BY <1>1 DEF GenInv, StoppedIsQuiet, RemoteSkewBounded, SavedSkewBounded
<1> QED BY <1>4, <1>5, <1>6 DEF GenInv

LEMMA SessionInv ==
  ASSUME GenInv, SessionCSN \/ \E c \in RemoteCSNs : UpdateCSNGenState(c)
  PROVE  GenInv'
<1>1. up /\ UNCHANGED <<clock, up, saved, durable, csnAssigned, thread>>
  BY DEF SessionCSN, UpdateCSNGenState
<1>2. /\ st' \in State /\ last' \in CSNRecord /\ heard' \in CSNRecord
      /\ ~IgnoreSkew /\ st.remote_offset <= MaxAdjust
           => st'.remote_offset <= MaxAdjust
      /\ \A d \in CSNRecord : Before(d, st) => Before(d, st')
      /\ Before(last', st') /\ Before(heard', st')
  <2>1. CASE SessionCSN
    <3>1. NewCSN /\ heard' = heard
      BY <2>1 DEF SessionCSN
    <3> QED BY <1>1, <3>1, InvFacts, NewCSNAdvances
  <2>2. CASE \E c \in RemoteCSNs : UpdateCSNGenState(c)
    <3> PICK c \in RemoteCSNs : UpdateCSNGenState(c)
      BY <2>2
    <3>1. last' = last /\ c \in CSNRecord
      BY GenAssumption DEF UpdateCSNGenState
    <3>2. CASE AdjustTime(c)
      <4>1. heard' = CSNMax(heard, c)
        BY <3>2 DEF AdjustTime
      <4> QED BY <1>1, <3>1, <3>2, <4>1, InvFacts, AdjustTimeAdvances DEF CSNMax
    <3>3. CASE AdjustTimeFails(c)
      <4>1. heard' = heard
        BY <3>3 DEF AdjustTimeFails
      <4> QED BY <1>1, <3>1, <3>3, <4>1, InvFacts, AdjustTimeFailsKeeps
    <3> QED BY <3>2, <3>3 DEF UpdateCSNGenState
  <2> QED BY <2>1, <2>2
<1>3. CSNGenTypeOK' /\ GeneratorAhead'
  BY <1>1, <1>2 DEF GenInv, CSNGenTypeOK, GeneratorAhead
<1>4. RedrawAhead' /\ OpAboveBase'
  BY <1>1, <1>2, ForwardKeepsThreads
<1>5. StoppedIsQuiet' /\ RemoteSkewBounded' /\ SavedSkewBounded'
  BY <1>1, <1>2 DEF GenInv, StoppedIsQuiet, RemoteSkewBounded, SavedSkewBounded
<1> QED BY <1>3, <1>4, <1>5 DEF GenInv

LEMMA PersistenceInv ==
  ASSUME GenInv, UpdateState \/ Stop \/ Start \/ Crash \/ SetClock
  PROVE  GenInv'
<1> USE DEF GenInv, CSNGenTypeOK, GeneratorAhead, RedrawAhead, OpAboveBase,
            StoppedIsQuiet, RemoteSkewBounded, SavedSkewBounded
<1>1. CASE UpdateState
  BY <1>1 DEF UpdateState
<1>2. CASE Stop
  BY <1>2 DEF Stop
<1>3. CASE Start
  <2>1. \A t \in Threads : thread[t].pc = "idle"
    BY <1>3 DEF Start, Idle
  <2> QED BY <1>3, <2>1 DEF Start
<1>4. CASE SetClock
  BY <1>4 DEF SetClock
<1>5. CASE Crash
  <2>1. thread' = [t \in Threads |-> Idle] /\ Idle.pc = "idle"
    BY <1>5 DEF Crash, Idle
  <2> QED BY <1>5, <2>1, IdleType, InvFacts DEF Crash
<1> QED BY <1>1, <1>2, <1>3, <1>4, <1>5

LEMMA NextGenInv == GenInv /\ [Next]_vars => GenInv'
<1> SUFFICES ASSUME GenInv, [Next]_vars PROVE GenInv'
  OBVIOUS
<1>1. CASE UNCHANGED vars
  BY <1>1 DEF vars, GenInv, CSNGenTypeOK, GeneratorAhead, RedrawAhead,
              OpAboveBase, StoppedIsQuiet, RemoteSkewBounded, SavedSkewBounded
<1>2. ASSUME NEW t \in Threads, ThreadStep(t) PROVE GenInv'
  BY <1>2, GenerateNextCSNInv, AdjustToBaseInv, RedrawCSNInv, ThreadIdlesInv
     DEF ThreadStep
<1> QED BY <1>1, <1>2, SessionInv, PersistenceInv DEF Next

(* The type invariant of the generator and its callers holds for every     *)
(* clock, limit and number of threads.                                     *)
THEOREM TypeCorrect == Spec => []CSNGenTypeOK
<1>1. GenInv => CSNGenTypeOK
  BY DEF GenInv
<1> QED BY InitGenInv, NextGenInv, <1>1, PTL DEF Spec

(* csngen.c, driven by any number of threads, sessions, clock changes and  *)
(* clean restarts, stays ahead of every CSN made or accepted.              *)
THEOREM AlwaysAhead == Spec => []GeneratorAhead
<1>1. GenInv => GeneratorAhead
  BY DEF GenInv
<1> QED BY InitGenInv, NextGenInv, <1>1, PTL DEF Spec

(* The abstract clock has the CSNs of this module and their order.         *)
LEMMA SameCSNs ==
  /\ Abstract!CSNRecord = CSNRecord /\ Abstract!NullCSN = NullCSN
  /\ \A a, b : /\ Abstract!CSNLess(a, b) <=> CSNLess(a, b)
               /\ Abstract!CSNLeq(a, b) <=> CSNLeq(a, b)
  BY DEF Abstract!CSNRecord, CSNRecord, Abstract!NullCSN, NullCSN, Abstract!MakeCSN,
         MakeCSN, Abstract!CSNLess, CSNLess, Abstract!CSNLeq, CSNLeq

(* Every step of the generator is a step of the abstract clock, or none of *)
(* its business.                                                           *)
LEMMA StepImplementsStampClock ==
  ASSUME GenInv, [Next]_vars
  PROVE  [Abstract!Next]_(Abstract!vars)
<1> USE DEF Abstract!Next, Abstract!vars
<1>1. ASSUME NewCSN, UNCHANGED <<heard, durable>>, up PROVE Abstract!Issue
  BY <1>1, InvFacts, NewCSNAdvances, SameCSNs DEF Abstract!Issue
<1>2. ASSUME NEW c \in CSNRecord, AdjustTime(c) \/ AdjustTimeFails(c),
             UNCHANGED <<last, durable>>
      PROVE  Abstract!Hear
  <2>1. heard' \in {heard, CSNMax(heard, c)}
    BY <1>2 DEF AdjustTime, AdjustTimeFails
  <2> QED BY <1>2, <2>1, InvFacts, SameCSNs DEF Abstract!Hear, CSNMax, CSNLeq
<1>3. ASSUME NEW t \in Threads, ThreadStep(t)
      PROVE  Abstract!Next \/ UNCHANGED <<last, heard, durable>>
  <2>1. ASSUME NEW base \in RemoteCSNs \cup {NullCSN}, GenerateNextCSN(t, base)
        PROVE  Abstract!Issue
    BY <1>1, <2>1 DEF GenerateNextCSN
  <2>2. CASE RedrawCSN(t)
    BY <1>1, <2>2 DEF RedrawCSN
  <2>3. CASE AdjustToBase(t)
    <3>1. thread[t].base \in CSNRecord
      BY InvFacts DEF ThreadRecord
    <3> QED BY <1>2, <2>3, <3>1 DEF AdjustToBase
  <2>4. CASE DrawFails(t) \/ AssignCSN(t)
    BY <2>4 DEF DrawFails, AssignCSN
  <2> QED BY <1>3, <2>1, <2>2, <2>3, <2>4 DEF ThreadStep
<1>4. CASE SessionCSN
  BY <1>1, <1>4 DEF SessionCSN
<1>5. ASSUME NEW c \in RemoteCSNs, UpdateCSNGenState(c) PROVE Abstract!Hear
  BY <1>2, <1>5, GenAssumption DEF UpdateCSNGenState
<1>6. CASE UpdateState \/ Stop
  BY <1>6 DEF UpdateState, Stop, Abstract!Save
<1>7. CASE Crash
  BY <1>7 DEF Crash, Abstract!Crash
<1>8. CASE Start \/ SetClock \/ UNCHANGED vars
  BY <1>8 DEF Start, SetClock, vars
<1> QED BY <1>3, <1>4, <1>5, <1>6, <1>7, <1>8 DEF Next

(* csngen.c and its callers implement the abstract clock: for any number   *)
(* of threads and any course of the system clock, csngen_new_csn never     *)
(* returns a CSN that is not above the ones issued and heard of before,    *)
(* and a crash takes it back no further than the last write of nsState.    *)
THEOREM GeneratorIsStampClock == Spec => ImplementsStampClock
<1>1. Init => Abstract!Init
  BY SameCSNs DEF Init, Abstract!Init
<1> QED BY InitGenInv, NextGenInv, <1>1, StepImplementsStampClock, PTL
        DEF Spec, ImplementsStampClock, Abstract!Spec

(* replica_generate_next_csn returns a CSN above the base CSN of the entry *)
(* whenever the generator accepted the base CSN.                           *)
THEOREM OpCSNAboveBase == Spec => []OpAboveBase
<1>1. GenInv => OpAboveBase
  BY DEF GenInv
<1> QED BY InitGenInv, NextGenInv, <1>1, PTL DEF Spec

(* csngen_adjust_time bounds the sum of all that peers contributed.        *)
THEOREM SkewBounded == Spec => []RemoteSkewBounded
<1>1. GenInv => RemoteSkewBounded
  BY DEF GenInv
<1> QED BY InitGenInv, NextGenInv, <1>1, PTL DEF Spec
=============================================================================
